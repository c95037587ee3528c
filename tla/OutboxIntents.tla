---------------------------- MODULE OutboxIntents ----------------------------
(***************************************************************************)
(* The outbox: rows of DispatchIntent that dispatchers claim, send to the  *)
(* provider and complete (apps/integration-api/src/outbox/dispatcher.ts,   *)
(* the intent half of packages/integration-store/src/worker/lease.ts), and *)
(* the requests that write the same rows by intentId: receipt and report   *)
(* callbacks of the provider (delivery-receipt.ts, delivery-reporting.ts), *)
(* UNKNOWN deliveries (unknown-handler.ts) and the operators who           *)
(* investigate them (reconciliation.ts).                                   *)
(*                                                                         *)
(* A request or completion reads, decides and writes.  No isolation level  *)
(* is asked for, so it is READ COMMITTED and others may commit in between: *)
(* each has a step for its SELECTs and one for its UPDATEs, which name     *)
(* nothing but the row's key.  leaseOwner is left out: no release by owner *)
(* names a dispatcher, and a token alone tells one claim from another.     *)
(***************************************************************************)
EXTENDS Integers, FiniteSets

CONSTANTS
    Intents, Dispatchers, Requests, \* rows, dispatcher processes, HTTP requests
    Tokens,                         \* fencing tokens
    NoIntent, NoToken,              \* SQL NULLs
    LeaseTicks,                     \* leaseDurationMs
    News,                           \* of what is said of an intent, what a run asks about
    MaxFaults                       \* bound: crashes, stops, throws, rollbacks, overruns

ASSUME OutboxNulls == NoIntent \notin Intents /\ NoToken \notin Tokens
ASSUME OutboxBounds == LeaseTicks \in Nat /\ MaxFaults \in Nat
ASSUME OutboxNews == "sent" \in News

VARIABLES
    row,     \* the table DispatchIntent
    entry,   \* the status of each intent's ReconciliationEntry (intentId is unique)
    pc,      \* where each dispatcher is in processNextIntent
    job,     \* the ClaimedIntent it works on
    req,     \* the request between its SELECTs and its UPDATEs
    heard,   \* what the provider and the operators have said of each intent
    faults   \* how many of the MaxFaults have happened

vars == <<row, entry, pc, job, req, heard, faults>>

-----------------------------------------------------------------------------
Final    == {"DELIVERED", "FAILED", "TERMINAL"}
Statuses == {"ABSENT", "PENDING", "LEASED", "ACK_RECEIVED", "INVESTIGATION_PENDING"}
               \cup Final
OpenEntry == {"PENDING_INVESTIGATION", "INVESTIGATING"}
\* allowedFromStatuses: where a report finds an intent that it may change.
Reportable == {"ACK_RECEIVED", "PENDING", "LEASED"}

\* Mutant: a report is stored as it comes.
StatusUnmapped == [ ACCEPTED   |-> "ACK_RECEIVED", SENT    |-> "SENT",
                    DELIVERED  |-> "DELIVERED",    FAILED  |-> "FAILED",
                    SUPPRESSED |-> "SUPPRESSED",   UNKNOWN |-> "UNKNOWN" ]

\* mapStateToIntentStatus, and the receipt's ACCEPTED.
StatusOf == [ ACCEPTED   |-> "ACK_RECEIVED", SENT    |-> "ACK_RECEIVED",
              DELIVERED  |-> "DELIVERED",    FAILED  |-> "FAILED",
              SUPPRESSED |-> "TERMINAL",     UNKNOWN |-> "FAILED" ]
\* What an operator's resolution makes of the intent, and of the entry.
Resolution == [ CONFIRMED |-> "DELIVERED", FAILED |-> "FAILED", RETRY |-> "PENDING" ]
Resolved   == [ CONFIRMED |-> "RESOLVED_CONFIRMED", FAILED |-> "RESOLVED_FAILED",
                RETRY     |-> "RESOLVED_RETRY" ]
Entries == {"none"} \cup OpenEntry \cup {Resolved[k] : k \in DOMAIN Resolved}

Row == [status : Statuses, left : 0 .. LeaseTicks + 1, token : Tokens \cup {NoToken}]
Job == [intent : Intents \cup {NoIntent}, token : Tokens \cup {NoToken},
        outcome : {"SUCCESS", "FAIL"}]
NoJob == [intent |-> NoIntent, token |-> NoToken, outcome |-> "FAIL"]

Request == [ op : {"none", "callback", "open", "mark", "resolve"},
             intent : Intents \cup {NoIntent},
             says : DOMAIN StatusOf \cup DOMAIN Resolution ]
NoRequest == [op |-> "none", intent |-> NoIntent, says |-> "FAILED"]

Hear(i, said) == heard' = [heard EXCEPT ![i] = (@ \cup {said}) \cap News]

Places == {"off", "idle", "send", "complete", "write"}
Busy   == {"send", "complete", "write"}

\* A provider that refused, or timed out, may call back as well.
Sent(i)     == "sent" \in heard[i]
Open(i)     == entry[i] \in OpenEntry
Expired(i)  == row[i].status = "LEASED" /\ row[i].left = 0
Holds(d, i) == row[i].status = "LEASED" /\ row[i].token = job[d].token
Queued(i)   == row[i].status \in {"PENDING", "LEASED"}
Unleased(i) == row[i].token = NoToken /\ row[i].left = 0

\* Mutant: a token may come back while a dispatcher that lost its lease still has it.
RowTokens == {t \in Tokens : \A i \in Intents : row[i].token # t}

FreshTokens == {t \in Tokens : /\ \A i \in Intents : row[i].token # t
                               /\ \A d \in Dispatchers : job[d].token # t}

\* Mutant: the token stays.
ClearedKeepsToken(i, status) == [row[i] EXCEPT !.status = status, !.left = 0]

\* The row with a new status and the lease columns back to NULL.
Cleared(i, status) == [row[i] EXCEPT !.status = status, !.left = 0, !.token = NoToken]

Fault == faults < MaxFaults /\ faults' = faults + 1

-----------------------------------------------------------------------------
Init ==
    /\ row = [i \in Intents |-> [status |-> "ABSENT", left |-> 0, token |-> NoToken]]
    /\ entry = [i \in Intents |-> "none"]
    /\ pc = [d \in Dispatchers |-> "idle"]
    /\ job = [d \in Dispatchers |-> NoJob]
    /\ req = [q \in Requests |-> NoRequest]
    /\ heard = [i \in Intents |-> {}]
    /\ faults = 0

\* The intent route: a second submission is a unique violation and writes nothing.
Submit(i) ==
    /\ row[i].status = "ABSENT"
    /\ row' = [row EXCEPT ![i].status = "PENDING"]
    /\ UNCHANGED <<entry, pc, job, req, heard, faults>>

\* Mutant: the sweep forgets the intents.
ReclaimReceiptsOnly == FALSE /\ UNCHANGED vars

\* The sweep every integration worker makes before it claims a receipt.
Reclaim ==
    /\ \E i \in Intents : Expired(i)
    /\ row' = [i \in Intents |-> IF Expired(i) THEN Cleared(i, "PENDING") ELSE row[i]]
    /\ UNCHANGED <<entry, pc, job, req, heard, faults>>

-----------------------------------------------------------------------------
\* processNextIntent.

\* Mutant: any intent that is not settled is dispatched.
ClaimableUnsettled(i) == /\ row[i].status \in {"PENDING", "INVESTIGATION_PENDING"}
                         /\ row[i].left <= 1

Claimable(i) == row[i].status = "PENDING" /\ row[i].left <= 1

\* claimNextIntent: SELECT ... FOR UPDATE SKIP LOCKED keeps this one atomic step.
Claim(d) ==
    /\ pc[d] = "idle"
    /\ \E i \in Intents, t \in FreshTokens :
        /\ Claimable(i)
        /\ row' = [row EXCEPT ![i] = [status |-> "LEASED", left |-> LeaseTicks + 1,
                                      token |-> t]]
        /\ job' = [job EXCEPT ![d] = [NoJob EXCEPT !.intent = i, !.token = t]]
    /\ pc' = [pc EXCEPT ![d] = "send"]
    /\ UNCHANGED <<entry, req, heard, faults>>

\* dispatchToGateway: the provider answers; an answer FAILED is thrown.  What was
\* UNKNOWN of an earlier attempt is forgotten.
Send(d) ==
    /\ pc[d] = "send"
    /\ heard' = [heard EXCEPT ![job[d].intent] = (@ \ {"UNKNOWN"}) \cup {"sent"}]
    /\ \E outcome \in {"SUCCESS", "FAIL"} : job' = [job EXCEPT ![d].outcome = outcome]
    /\ pc' = [pc EXCEPT ![d] = "complete"]
    /\ UNCHANGED <<row, entry, req, faults>>

\* completeIntent, first statement: find the row by its token, or fencedRejected.
CompleteRead(d) ==
    /\ pc[d] = "complete"
    /\ \/ /\ Holds(d, job[d].intent)
          /\ pc' = [pc EXCEPT ![d] = "write"]
          /\ UNCHANGED job
       \/ /\ ~Holds(d, job[d].intent)
          /\ pc' = [pc EXCEPT ![d] = "idle"]
          /\ job' = [job EXCEPT ![d] = NoJob]
    /\ UNCHANGED <<row, entry, req, heard, faults>>

\* completeIntent, second statement: UPDATE ... WHERE intentId, no fence.
CompleteWrite(d) ==
    /\ pc[d] = "write"
    /\ LET i == job[d].intent IN
       row' = [row EXCEPT ![i] =
                 Cleared(i, IF job[d].outcome = "SUCCESS" THEN "DELIVERED" ELSE "TERMINAL")]
    /\ pc' = [pc EXCEPT ![d] = "idle"]
    /\ job' = [job EXCEPT ![d] = NoJob]
    /\ UNCHANGED <<entry, req, heard, faults>>

\* Something throws inside the try: the catch completes with FAIL.
Throw(d) ==
    /\ \/ pc[d] = "send"
       \/ pc[d] \in {"complete", "write"} /\ job[d].outcome = "SUCCESS"
    /\ Fault
    /\ pc' = [pc EXCEPT ![d] = "complete"]
    /\ job' = [job EXCEPT ![d].outcome = "FAIL"]
    /\ UNCHANGED <<row, entry, req, heard>>

\* stop() between two intents; death; a throw in the claim or in the catch, which
\* nothing handles: it ends the timer chain and, in Node, the process.
Down(d) ==
    /\ pc[d] # "off"
    /\ Fault
    /\ pc' = [pc EXCEPT ![d] = "off"]
    /\ job' = [job EXCEPT ![d] = NoJob]
    /\ UNCHANGED <<row, entry, req, heard>>

Start(d) ==
    /\ pc[d] = "off"
    /\ pc' = [pc EXCEPT ![d] = "idle"]
    /\ UNCHANGED <<row, entry, job, req, heard, faults>>

-----------------------------------------------------------------------------
\* Requests: the SELECTs.

Ask(q, op, i, says) ==
    /\ req[q] = NoRequest
    /\ req' = [req EXCEPT ![q] = [op |-> op, intent |-> i, says |-> says]]
    /\ UNCHANGED <<row, entry, pc, job, heard, faults>>

\* processReceipt: ACCEPTED, from any status that is not "already processed".
Receipt(q, i) ==
    /\ Sent(i)
    /\ row[i].status \notin Final \cup {"ACK_RECEIVED"}
    /\ Ask(q, "callback", i, "ACCEPTED")

\* Mutant: allowedFromStatuses is not checked.
ReportFromAny(q, i, says) ==
    /\ Sent(i)
    /\ Ask(q, "callback", i, says)

\* processEvent: a report, from one of allowedFromStatuses.
Report(q, i, says) ==
    /\ Sent(i)
    /\ row[i].status \in Reportable
    /\ Ask(q, "callback", i, says)

\* handleUnknownDelivery without an entry yet: createReconciliationEntry.
Unknown(q, i) ==
    /\ Sent(i)
    /\ entry[i] = "none"
    /\ row[i].status \notin Final
    /\ Ask(q, "open", i, "UNKNOWN")

\* handleUnknownDelivery with an entry, whatever became of it: "already in progress".
UnknownAgain(q, i) ==
    /\ Sent(i)
    /\ entry[i] # "none"
    /\ req[q] = NoRequest
    /\ Hear(i, "UNKNOWN")
    /\ UNCHANGED <<row, entry, pc, job, req, faults>>

Mark(q, i) == entry[i] = "PENDING_INVESTIGATION" /\ Ask(q, "mark", i, "FAILED")

\* resolveReconciliation.  expectedVersion is compared here, with what was read,
\* if the operator sends one: it can only refuse the request.
Resolve(q, i, says) == Open(i) /\ Ask(q, "resolve", i, says)

-----------------------------------------------------------------------------
\* Requests: the UPDATEs, by intentId or entryId alone.

Answered(q) == /\ req' = [req EXCEPT ![q] = NoRequest]
               /\ UNCHANGED <<pc, job, faults>>

\* A callback sets the status and leaves the lease columns as they are.
CallbackWrite(q) ==
    /\ req[q].op = "callback"
    /\ row' = [row EXCEPT ![req[q].intent].status = StatusOf[req[q].says]]
    /\ Hear(req[q].intent, req[q].says)
    /\ Answered(q)
    /\ UNCHANGED entry

\* The unique index on intentId rolls the loser of a race back.
OpenWrite(q) ==
    /\ req[q].op = "open"
    /\ LET i == req[q].intent IN
       \/ /\ entry[i] = "none"
          /\ row' = [row EXCEPT ![i] = Cleared(i, "INVESTIGATION_PENDING")]
          /\ entry' = [entry EXCEPT ![i] = "PENDING_INVESTIGATION"]
          /\ Hear(i, "UNKNOWN")
       \/ /\ entry[i] # "none"
          /\ UNCHANGED <<row, entry, heard>>
    /\ Answered(q)

MarkWrite(q) ==
    /\ req[q].op = "mark"
    /\ entry' = [entry EXCEPT ![req[q].intent] = "INVESTIGATING"]
    /\ Answered(q)
    /\ UNCHANGED <<row, heard>>

\* Mutant: the intent is not updated with its entry.
ResolveWriteEntryOnly(q) ==
    /\ req[q].op = "resolve"
    /\ LET i == req[q].intent IN
       /\ entry' = [entry EXCEPT ![i] = Resolved[req[q].says]]
       /\ heard' = [heard EXCEPT ![i] =
                      ((@ \cup {req[q].says}) \cap News) \ {"UNKNOWN"}]
    /\ Answered(q)
    /\ UNCHANGED row

\* The resolution settles what UNKNOWN had left open.
ResolveWrite(q) ==
    /\ req[q].op = "resolve"
    /\ LET i == req[q].intent IN
       /\ row' = [row EXCEPT ![i].status = Resolution[req[q].says]]
       /\ entry' = [entry EXCEPT ![i] = Resolved[req[q].says]]
       /\ heard' = [heard EXCEPT ![i] =
                      ((@ \cup {req[q].says}) \cap News) \ {"UNKNOWN"}]
    /\ Answered(q)

\* The transaction is rolled back.
Rollback(q) ==
    /\ req[q] # NoRequest
    /\ Fault
    /\ req' = [req EXCEPT ![q] = NoRequest]
    /\ UNCHANGED <<row, entry, pc, job, heard>>

-----------------------------------------------------------------------------
\* A lease that a dispatcher still works under runs out.
Overrun == \E d \in Dispatchers : /\ pc[d] \in Busy
                                  /\ Holds(d, job[d].intent)
                                  /\ row[job[d].intent].left = 1

Tick ==
    /\ \E i \in Intents : row[i].left > 0
    /\ row' = [i \in Intents |-> [row[i] EXCEPT !.left = IF @ > 0 THEN @ - 1 ELSE @]]
    /\ IF Overrun THEN Fault ELSE UNCHANGED faults
    /\ UNCHANGED <<entry, pc, job, req, heard>>

Dispatch(d) == Claim(d) \/ Send(d) \/ CompleteRead(d)

\* The routes of ac3-handler.ts for the provider and of http-handler.ts.
HandleCallback(q, i) ==
    Receipt(q, i) \/ \E says \in DOMAIN StatusOf \ {"ACCEPTED"} : Report(q, i, says)

HandleUnknownReceive(q, i) == Unknown(q, i) \/ UnknownAgain(q, i)

HandleReconciliation(q, i) ==
    Mark(q, i) \/ \E says \in DOMAIN Resolution : Resolve(q, i, says)

Read(q, i) ==
    HandleCallback(q, i) \/ HandleUnknownReceive(q, i) \/ HandleReconciliation(q, i)

Write(q) == CallbackWrite(q) \/ OpenWrite(q) \/ MarkWrite(q) \/ ResolveWrite(q)

Next ==
    \/ \E d \in Dispatchers : CompleteWrite(d) \/ Throw(d)
    \/ \E d \in Dispatchers : Dispatch(d) \/ Down(d) \/ Start(d)
    \/ \E q \in Requests : Write(q) \/ Rollback(q)
    \/ \E q \in Requests, i \in Intents : Read(q, i)
    \/ \E i \in Intents : Submit(i)
    \/ Reclaim
    \/ Tick

Spec == Init /\ [][Next]_vars

\* Time passes, some worker sweeps, a dispatcher that is up goes on, and statements
\* that were sent are executed.  Nobody has to call back, investigate or restart.
Fairness ==
    /\ WF_vars(Tick)
    /\ WF_vars(Reclaim)
    /\ \A d \in Dispatchers : WF_vars(Dispatch(d)) /\ WF_vars(CompleteWrite(d))
    /\ \A q \in Requests : WF_vars(Write(q))

FairSpec == Spec /\ Fairness

-----------------------------------------------------------------------------
\* Every variable has its type (the two tables, the dispatchers, the requests).
TypeOK ==
    /\ row \in [Intents -> Row]
    /\ entry \in [Intents -> Entries]
    /\ pc \in [Dispatchers -> Places]
    /\ job \in [Dispatchers -> Job]
    /\ req \in [Requests -> Request]
    /\ heard \in [Intents -> SUBSET News]
    /\ faults \in 0 .. MaxFaults

\* Whatever callbacks, resolutions and late completions write over a leased row, at
\* most one dispatcher passes the fence of completeIntent for it, and with the token
\* of the intent it claimed.
Fence ==
    /\ \A d, e \in Dispatchers :
          job[d].token # NoToken /\ job[d].token = job[e].token => d = e
    /\ \A d \in Dispatchers, i \in Intents :
          row[i].token # NoToken /\ row[i].token = job[d].token => job[d].intent = i
    /\ \A i \in Intents : row[i].status = "LEASED" => row[i].token # NoToken

\* An intent that waits for an investigation has one: two UNKNOWN deliveries, or an
\* UNKNOWN and a resolution at the same time, never leave it without an open entry
\* (reconciliation.ts, createReconciliationEntry and its unique index).
InvestigationOpen == \A i \in Intents : row[i].status = "INVESTIGATION_PENDING" => Open(i)

\* Whatever late writes reach a row, a lease hides neither an intent that is queued
\* for the first time or by the sweep, nor one that is under investigation, nor one
\* whose case nobody has taken up yet: and the last is not in the queue either.
\* (createReconciliationEntry and reclaimExpiredLeases clear the columns; processReceipt
\* and resolveReconciliation do not, so a second, late RETRY is not covered.)
QueuedUnleased ==
    \A i \in Intents :
       /\ row[i].status = "PENDING" /\ entry[i] = "none" => Unleased(i)
       /\ row[i].status = "INVESTIGATION_PENDING" => Unleased(i)
       /\ entry[i] = "PENDING_INVESTIGATION" => Unleased(i) /\ ~Queued(i)

\* "UNKNOWN state must NOT auto-transition to DELIVERED" (reconciliation.ts:18): while
\* its case is open an intent is delivered only on the provider's or an operator's word.
\* The code does not keep it: a completion that found its fence may be overtaken.
NoAutoDelivered ==
    \A i \in Intents : Open(i) /\ row[i].status = "DELIVERED" =>
                          heard[i] \cap {"DELIVERED", "CONFIRMED"} # {}

\* What an UPDATE overtakes: since the SELECT of its transaction another one has
\* committed, and what the decision rests on is not so any more.
Overtaken(d) == pc[d] = "write" /\ ~Holds(d, job[d].intent)

StillSo(q) ==
    LET i == req[q].intent IN
    CASE req[q].op = "callback" -> IF req[q].says = "ACCEPTED"
                                   THEN row[i].status \notin Final \cup {"ACK_RECEIVED"}
                                   ELSE row[i].status \in Reportable
      [] req[q].op = "open"     -> entry[i] = "none" /\ row[i].status \notin Final
      [] req[q].op = "mark"     -> entry[i] = "PENDING_INVESTIGATION"
      [] req[q].op = "resolve"  -> Open(i)
      [] OTHER -> TRUE

LateResult(i)  == \E d \in Dispatchers :
                     Overtaken(d) /\ job[d].intent = i /\ CompleteWrite(d)
LateRequest(i) == \E q \in Requests : ~StillSo(q) /\ req[q].intent = i /\ Write(q)

Reopened(i) == \E q \in Requests : ~StillSo(q) /\ req[q].intent = i /\ MarkWrite(q)
Delivers(i) == row[i].status # "DELIVERED" /\ row'[i].status = "DELIVERED"

\* The words that deliver an intent under investigation.
Vouched(i) == \E q \in Requests :
                 /\ req[q].intent = i
                 /\ \/ req[q].says = "DELIVERED" /\ CallbackWrite(q)
                    \/ req[q].says = "CONFIRMED" /\ ResolveWrite(q)

\* What the code keeps of reconciliation.ts:18 at READ COMMITTED.  An open case keeps
\* its intent out of the queue, unless a late mark reopens a case that was decided for
\* another try; the intent is delivered by a word from outside, or by one completion
\* that was overtaken; and that one had found its fence.
CaseKept ==
    [][/\ \A i \in Intents :
             /\ Open(i)' /\ Queued(i)' => Queued(i) /\ (Open(i) \/ Reopened(i))
             /\ Open(i) /\ ~Queued(i) /\ Delivers(i) => Vouched(i) \/ LateResult(i)
       /\ \A d \in Dispatchers : Overtaken(d)' => pc[d] = "write"]_vars

\* "SUPPRESSED: ... NO retry, NO DLQ re-drive" (delivery-reporting.ts:98): once a report
\* SUPPRESSED was accepted, the intent is not queued or leased again.
SuppressedStays ==
    \A i \in Intents : "SUPPRESSED" \in heard[i] => ~Queued(i)

\* The outbox as those who submit and investigate see it.
Phase(i) == CASE row[i].status = "ABSENT" -> "absent"
              [] row[i].status \in {"PENDING", "LEASED", "ACK_RECEIVED"} -> "moving"
              [] row[i].status = "INVESTIGATION_PENDING" -> "held"
              [] row[i].status \in Final -> "settled"

Case(i) == CASE entry[i] = "none" -> "none" [] Open(i) -> "open" [] OTHER -> "closed"

Delivery == INSTANCE DeliveryCase WITH
               phase <- [i \in Intents |-> Phase(i)],
               case <- [i \in Intents |-> Case(i)]

\* Settled for good unless a case decides otherwise; a case is opened once, while the
\* intent still moves, and decided once (completeIntent, the callbacks' status lists,
\* createReconciliationEntry, resolveReconciliation).  Only an UPDATE that was overtaken
\* steps aside, and it overwrites its one intent; and every request, however late it
\* writes, was in order when it read.
ImplementsCase ==
    /\ Delivery!Init
    /\ [][\/ Delivery!Next
          \/ \E i \in Intents : /\ LateResult(i) \/ LateRequest(i)
                                /\ Delivery!Overwrite(i)
         ]_<<[i \in Intents |-> Phase(i)], [i \in Intents |-> Case(i)]>>
    /\ [][\A q \in Requests : req[q] = NoRequest => StillSo(q)']_vars

\* While some dispatcher is up time and again, a queued intent is sent and completed,
\* or somebody's callback or case takes it over: it does not stay PENDING or LEASED.
EventuallyTaken ==
    []<>(\E d \in Dispatchers : pc[d] # "off") =>
        \A i \in Intents : Queued(i) ~> ~Queued(i)
=============================================================================

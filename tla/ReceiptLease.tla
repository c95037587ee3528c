---------------------------- MODULE ReceiptLease ----------------------------
(***************************************************************************)
(* The durable receipt queue of the Integration Store and the workers that *)
(* poll it: packages/integration-store/src/worker/lease.ts, the redrive of *)
(* repos/event-receipt.ts and the poll loop of                             *)
(* apps/integration-worker/src/durable-worker.ts.                          *)
(*                                                                         *)
(* A row of ExternalEventReceipt is claimed under a lease (owner, expiry,  *)
(* fencing token), executed, and completed by a transaction that first     *)
(* SELECTs the row by token and owner and then UPDATEs it by receiptId     *)
(* only.  Prisma runs transactions at Postgres' default, READ COMMITTED:   *)
(* the two statements are two steps here, and so are those of a redrive.   *)
(*                                                                         *)
(* Time is kept as what is left of a lease or of a retry delay, so no      *)
(* clock grows; all parties read the same clock.  Tokens are random UUIDs: *)
(* a new one differs from every token some row or some process still has.  *)
(***************************************************************************)
EXTENDS Integers, FiniteSets

CONSTANTS
    Receipts, Workers, Admins,   \* rows, worker processes, redrive requests
    Owners, WorkerId,            \* leaseOwner values; the one each process uses
    Tokens,                      \* fencing tokens
    NoReceipt, NoOwner, NoToken, \* SQL NULLs
    LeaseTicks,                  \* leaseDurationMs
    Delays,                      \* what computeNextAttemptAt may add to now
    MaxAttempts,                 \* retryPolicy.maxAttempts
    RedriveCap,                  \* DlqService.maxAttempts
    AttemptCap,                  \* bound: the attempts column saturates here
    MaxFaults,                   \* bound: crashes, throws, stops, overruns
    MaxRedrives                  \* bound: redrives of one receipt

ASSUME WorkerIdAssumption == WorkerId \in [Workers -> Owners]
ASSUME NullAssumption ==
    /\ NoReceipt \notin Receipts /\ NoOwner \notin Owners /\ NoToken \notin Tokens
ASSUME TimeAssumption == LeaseTicks \in Nat /\ Delays \subseteq Nat /\ Delays # {}
ASSUME BoundAssumption ==
    /\ {MaxAttempts, RedriveCap, AttemptCap, MaxFaults, MaxRedrives} \subseteq Nat
    /\ MaxAttempts <= AttemptCap /\ RedriveCap <= AttemptCap

VARIABLES
    row,       \* the table: one record per receipt
    pc,        \* where each worker's poll loop is
    job,       \* the ClaimedReceipt a worker has in its hands, with its outcome
    inflight,  \* the inFlight map of each worker process
    stop,      \* how far the stop() of each worker has come
    admin,     \* the redrive each admin request is between SELECT and UPDATE of
    faults     \* how many of the MaxFaults have happened

vars == <<row, pc, job, inflight, stop, admin, faults>>

-----------------------------------------------------------------------------
Results  == {"DELIVERED", "RETRY_SCHEDULED", "DEAD_LETTERED"}
States   == {"ABSENT", "PENDING", "LEASED"} \cup Results
Outcomes == {"SUCCESS", "RETRY", "FAIL"}
Places   == {"down", "idle", "claim", "execute", "complete", "write"}
Busy     == {"execute", "complete", "write"}
Stops    == {"no", "release", "drain", "drained", "timeout"}

Row == [ state    : States,
         owner    : Owners \cup {NoOwner},
         left     : 0 .. LeaseTicks + 1, \* until leaseExpiresAt < now; 0: it is, or NULL
         token    : Tokens \cup {NoToken},
         attempts : 0 .. AttemptCap,
         wait     : Nat,                \* until nextAttemptAt; 0: reached, or NULL
         redrives : Nat ]               \* evidenceRefsJson.dlqAudit.redriveCount

Job == [ receipt : Receipts \cup {NoReceipt},
         token   : Tokens \cup {NoToken},
         outcome : Outcomes,            \* what execution made of it
         verdict : Results,             \* what decideRetryState made of the outcome
         calls   : {0, 1, 2} ]           \* completeReceipt calls still to make

NoJob == [receipt |-> NoReceipt, token |-> NoToken, outcome |-> "FAIL",
          verdict |-> "DEAD_LETTERED", calls |-> 0]

Redrive   == [receipt : Receipts, count : Nat]
NoRedrive == [receipt |-> NoReceipt, count |-> 0]

\* Mutant: the expiry is forgotten.
ClearLeaseKeepsExpiry(x) == [x EXCEPT !.owner = NoOwner, !.token = NoToken]

\* The columns every release, completion and redrive sets back to NULL.
ClearLease(x) == [x EXCEPT !.owner = NoOwner, !.left = 0, !.token = NoToken]

\* Mutant: a token may come back while a process that lost its lease still has it.
RowTokens == {t \in Tokens : \A r \in Receipts : row[r].token # t}

FreshTokens == {t \in Tokens : /\ \A r \in Receipts : row[r].token # t
                               /\ \A w \in Workers  : job[w].token # t}

\* SELECT ... WHERE fencingToken = and leaseOwner = and state = 'LEASED'.
Holds(w, r) == /\ row[r].state = "LEASED"
               /\ row[r].token = job[w].token
               /\ row[r].owner = WorkerId[w]

Up(w)      == pc[w] # "down"
Running(w) == Up(w) /\ stop[w] = "no"
\* Mutant: the sweep forgets state = 'LEASED', and NULL counts as past.
ExpiredAnyState(r) == row[r].state # "ABSENT" /\ row[r].left = 0

Expired(r) == row[r].state = "LEASED" /\ row[r].left = 0
Resolved(r) == row[r].state \in {"DELIVERED", "DEAD_LETTERED"}

Fault == faults < MaxFaults /\ faults' = faults + 1

-----------------------------------------------------------------------------
Init ==
    /\ row = [r \in Receipts |-> [state |-> "ABSENT", owner |-> NoOwner, left |-> 0,
                token |-> NoToken, attempts |-> 0, wait |-> 0, redrives |-> 0]]
    /\ pc = [w \in Workers |-> "idle"]
    /\ job = [w \in Workers |-> NoJob]
    /\ inflight = [w \in Workers |-> {}]
    /\ stop = [w \in Workers |-> "no"]
    /\ admin = [a \in Admins |-> NoRedrive]
    /\ faults = 0

\* commitReceiptWithIntents, first time: a replay finds the row and writes nothing.
Commit(r) ==
    /\ row[r].state = "ABSENT"
    /\ row' = [row EXCEPT ![r].state = "PENDING"]
    /\ UNCHANGED <<pc, job, inflight, stop, admin, faults>>

-----------------------------------------------------------------------------
\* The poll loop.

Returned(r) == ClearLease([row[r] EXCEPT !.state = "PENDING"])

\* Mutant: a process sweeps the leases it remembers only.
ReclaimRemembered(w) ==
    /\ pc[w] = "idle" /\ Running(w)
    /\ row' = [r \in Receipts |->
                 IF Expired(r) /\ r \in inflight[w] THEN Returned(r) ELSE row[r]]
    /\ pc' = [pc EXCEPT ![w] = "claim"]
    /\ UNCHANGED <<job, inflight, stop, admin, faults>>

\* Head of the loop: while (running) reclaimExpiredLeases.
Reclaim(w) ==
    /\ pc[w] = "idle" /\ Running(w)
    /\ row' = [r \in Receipts |-> IF Expired(r) THEN Returned(r) ELSE row[r]]
    /\ pc' = [pc EXCEPT ![w] = "claim"]
    /\ UNCHANGED <<job, inflight, stop, admin, faults>>

Claimable(r) == /\ row[r].state \in {"PENDING", "RETRY_SCHEDULED"}
                /\ row[r].left <= 1
                /\ row[r].wait = 0

\* Mutant: attempts is not incremented.
ClaimedUncounted(r, w, t) ==
    [row[r] EXCEPT !.state = "LEASED", !.owner = WorkerId[w], !.left = LeaseTicks + 1,
                   !.token = t, !.wait = 0]

Claimed(r, w, t) ==
    [row[r] EXCEPT !.state = "LEASED", !.owner = WorkerId[w], !.left = LeaseTicks + 1,
                   !.token = t, !.wait = 0,
                   !.attempts = IF @ < AttemptCap THEN @ + 1 ELSE @]

\* claimNextReceipt: SELECT ... FOR UPDATE SKIP LOCKED keeps this one atomic step.
Claim(w) ==
    /\ pc[w] = "claim"
    /\ \E r \in Receipts, t \in FreshTokens :
        /\ Claimable(r)
        /\ row' = [row EXCEPT ![r] = Claimed(r, w, t)]
        /\ job' = [job EXCEPT ![w] = [NoJob EXCEPT !.receipt = r, !.token = t]]
        /\ inflight' = [inflight EXCEPT ![w] = @ \cup {r}]
    /\ pc' = [pc EXCEPT ![w] = "execute"]
    /\ UNCHANGED <<stop, admin, faults>>

\* The claim commits but its reply is lost: nobody knows the token.
ClaimReplyLost(w) ==
    /\ pc[w] = "claim"
    /\ \E r \in Receipts, t \in FreshTokens :
        /\ Claimable(r)
        /\ row' = [row EXCEPT ![r] = Claimed(r, w, t)]
    /\ pc' = [pc EXCEPT ![w] = "idle"]
    /\ Fault
    /\ UNCHANGED <<job, inflight, stop, admin>>

ClaimNothing(w) ==
    /\ pc[w] = "claim"
    /\ \A r \in Receipts : ~Claimable(r)
    /\ pc' = [pc EXCEPT ![w] = "idle"]
    /\ UNCHANGED <<row, job, inflight, stop, admin, faults>>

\* Execution ends.  A gateway answer FAILED is completed twice: by the pipeline,
\* which is handed completeReceiptFn, and by the loop that called the pipeline.
\* (Only for a receipt with a parsedEvent, which this loop does not pass on yet.)
Execute(w) ==
    /\ pc[w] = "execute"
    /\ \E o \in Outcomes, n \in 1 .. 2 :
        /\ n = 2 => o # "SUCCESS"
        /\ job' = [job EXCEPT ![w].outcome = o, ![w].calls = n]
    /\ pc' = [pc EXCEPT ![w] = "complete"]
    /\ UNCHANGED <<row, inflight, stop, admin, faults>>

\* Mutant: the job is not given up with its last call.
CallDoneKeepsJob(w) ==
    /\ pc' = [pc EXCEPT ![w] = IF job[w].calls = 2 THEN "complete" ELSE "idle"]
    /\ job' = [job EXCEPT ![w].calls = 1]
    /\ inflight' = [inflight EXCEPT ![w] = @ \ {job[w].receipt}]

\* One completeReceipt call of w is over; another may follow.
CallDone(w) ==
    IF job[w].calls = 2
    THEN /\ pc' = [pc EXCEPT ![w] = "complete"]
         /\ job' = [job EXCEPT ![w].calls = 1]
         /\ UNCHANGED inflight
    ELSE /\ pc' = [pc EXCEPT ![w] = "idle"]
         /\ job' = [job EXCEPT ![w] = NoJob]
         /\ inflight' = [inflight EXCEPT ![w] = @ \ {job[w].receipt}]

\* Mutant: the outcome is stored as it is.
DecideNothing(outcome, attempts) == outcome

\* decideRetryState, with the attempts of the row that was read.
Decide(outcome, attempts) ==
    CASE outcome = "SUCCESS" -> "DELIVERED"
      [] outcome = "RETRY" /\ attempts < MaxAttempts -> "RETRY_SCHEDULED"
      [] OTHER -> "DEAD_LETTERED"

\* Mutant: no fence, the receipt is found by its id.
CompleteReadUnfenced(w) ==
    /\ pc[w] = "complete"
    /\ pc' = [pc EXCEPT ![w] = "write"]
    /\ job' = [job EXCEPT ![w].verdict =
                       Decide(job[w].outcome, row[job[w].receipt].attempts)]
    /\ UNCHANGED <<row, inflight, stop, admin, faults>>

\* completeReceipt, first statement: find the row, or report fencedRejected.
CompleteRead(w) ==
    /\ pc[w] = "complete"
    /\ LET r == job[w].receipt IN
       \/ /\ Holds(w, r)
          /\ pc' = [pc EXCEPT ![w] = "write"]
          /\ job' = [job EXCEPT ![w].verdict =
                            Decide(job[w].outcome, row[r].attempts)]
          /\ UNCHANGED inflight
       \/ ~Holds(w, r) /\ CallDone(w)
    /\ UNCHANGED <<row, stop, admin, faults>>

Written(r, verdict, d) ==
    [ClearLease(row[r]) EXCEPT !.state = verdict,
                               !.wait = IF verdict = "RETRY_SCHEDULED" THEN d ELSE @]

\* completeReceipt, second statement: UPDATE ... WHERE receiptId, no fence.
CompleteWrite(w) ==
    /\ pc[w] = "write"
    /\ LET r == job[w].receipt IN
       \E d \in Delays : row' = [row EXCEPT ![r] = Written(r, job[w].verdict, d)]
    /\ CallDone(w)
    /\ UNCHANGED <<stop, admin, faults>>

\* execute or complete throws.  The pipeline swallows it around its own call; the
\* loop gives the job up: the lease stays until it expires, the entry in inFlight
\* until this process completes the same receipt.
Throw(w) ==
    /\ pc[w] \in Busy
    /\ Fault
    /\ IF pc[w] # "execute" /\ job[w].calls = 2
       THEN CallDone(w)
       ELSE /\ pc' = [pc EXCEPT ![w] = "idle"]
            /\ job' = [job EXCEPT ![w] = NoJob]
            /\ UNCHANGED inflight
    /\ UNCHANGED <<row, stop, admin>>

-----------------------------------------------------------------------------
\* The rest of the lease API, open to a process that executes a job.

\* extendLease: also revives a lease that has expired and was not reclaimed yet.
Extend(w) ==
    /\ pc[w] = "execute"
    /\ Holds(w, job[w].receipt)
    /\ row' = [row EXCEPT ![job[w].receipt].left = LeaseTicks + 1]
    /\ UNCHANGED <<pc, job, inflight, stop, admin, faults>>

\* releaseLease: the job is cancelled.
Release(w) ==
    /\ pc[w] = "execute"
    /\ Fault
    /\ LET r == job[w].receipt IN
       /\ row' = IF Holds(w, r) THEN [row EXCEPT ![r] = Returned(r)] ELSE row
       /\ inflight' = [inflight EXCEPT ![w] = @ \ {r}]
    /\ pc' = [pc EXCEPT ![w] = "idle"]
    /\ job' = [job EXCEPT ![w] = NoJob]
    /\ UNCHANGED <<stop, admin>>

-----------------------------------------------------------------------------
\* stop(): running = false; release the leases; wait for inFlight; exit.

StopBegin(w) ==
    /\ Running(w)
    /\ Fault
    /\ stop' = [stop EXCEPT ![w] = "release"]
    /\ UNCHANGED <<row, pc, job, inflight, admin>>

\* releaseAllForWorker goes by leaseOwner, not by token.
StopRelease(w) ==
    /\ stop[w] = "release"
    /\ row' = [r \in Receipts |->
                 IF row[r].state = "LEASED" /\ row[r].owner = WorkerId[w]
                 THEN Returned(r) ELSE row[r]]
    /\ stop' = [stop EXCEPT ![w] = "drain"]
    /\ UNCHANGED <<pc, job, inflight, admin, faults>>

Gone(w) == /\ pc' = [pc EXCEPT ![w] = "down"]
           /\ job' = [job EXCEPT ![w] = NoJob]
           /\ inflight' = [inflight EXCEPT ![w] = {}]

\* The drain loop ends with inFlight empty, or at drainTimeoutMs; then process.exit.
StopEnd(w) ==
    /\ stop[w] = "drain"
    /\ stop' = [stop EXCEPT ![w] = IF inflight[w] = {} THEN "drained" ELSE "timeout"]
    /\ Gone(w)
    /\ UNCHANGED <<row, admin, faults>>

Crash(w) ==
    /\ Up(w)
    /\ Fault
    /\ stop' = [stop EXCEPT ![w] = "no"]
    /\ Gone(w)
    /\ UNCHANGED <<row, admin>>

Restart(w) ==
    /\ ~Up(w)
    /\ pc' = [pc EXCEPT ![w] = "idle"]
    /\ stop' = [stop EXCEPT ![w] = "no"]
    /\ UNCHANGED <<row, job, inflight, admin, faults>>

-----------------------------------------------------------------------------
\* redriveReceipt, first statements: the checks, and the DNC guard's answer.
RedriveRead(a, r) ==
    /\ admin[a] = NoRedrive
    /\ row[r].state = "DEAD_LETTERED"
    /\ row[r].attempts < RedriveCap
    /\ row[r].redrives < MaxRedrives
    /\ admin' = [admin EXCEPT ![a] = [receipt |-> r, count |-> row[r].redrives + 1]]
    /\ UNCHANGED <<row, pc, job, inflight, stop, faults>>

Redriven(r, count) ==
    [ClearLease(row[r]) EXCEPT !.state = "PENDING", !.attempts = 0, !.wait = 0,
                               !.redrives = count]

\* Its UPDATE goes by receiptId only, and writes back the count it read.
RedriveWrite(a) ==
    /\ admin[a] # NoRedrive
    /\ LET r == admin[a].receipt IN
       row' = [row EXCEPT ![r] = Redriven(r, admin[a].count)]
    /\ admin' = [admin EXCEPT ![a] = NoRedrive]
    /\ UNCHANGED <<pc, job, inflight, stop, faults>>

\* The request fails before its UPDATE: the transaction is rolled back.
RedriveAbort(a) ==
    /\ admin[a] # NoRedrive
    /\ admin' = [admin EXCEPT ![a] = NoRedrive]
    /\ UNCHANGED <<row, pc, job, inflight, stop, faults>>

-----------------------------------------------------------------------------
\* A lease that a process still works under runs out.
Overrun == \E w \in Workers : /\ pc[w] \in Busy
                              /\ Holds(w, job[w].receipt)
                              /\ row[job[w].receipt].left = 1

Ticked(x) == [x EXCEPT !.left = IF @ > 0 THEN @ - 1 ELSE @,
                       !.wait = IF @ > 0 THEN @ - 1 ELSE @]

Tick ==
    /\ \E r \in Receipts : row[r].left > 0 \/ row[r].wait > 0
    /\ row' = [r \in Receipts |-> Ticked(row[r])]
    /\ IF Overrun THEN Fault ELSE UNCHANGED faults
    /\ UNCHANGED <<pc, job, inflight, stop, admin>>

Loop(w) == \/ Reclaim(w) \/ Claim(w) \/ ClaimNothing(w) \/ Execute(w)
           \/ CompleteRead(w) \/ StopRelease(w) \/ StopEnd(w)

Other(w) == \/ Extend(w) \/ Release(w) \/ ClaimReplyLost(w)
            \/ StopBegin(w) \/ Crash(w) \/ Restart(w)

Next ==
    \/ \E r \in Receipts : Commit(r)
    \/ \E w \in Workers : Loop(w) \/ CompleteWrite(w) \/ Throw(w) \/ Other(w)
    \/ \E a \in Admins : \/ RedriveWrite(a) \/ RedriveAbort(a)
                        \/ \E r \in Receipts : RedriveRead(a, r)
    \/ Tick

Spec == Init /\ [][Next]_vars

\* Time passes, a process that is up goes on with its loop, and every statement
\* sent is answered.  Nothing forces a restart, an extension or a redrive.
Fairness ==
    /\ WF_vars(Tick)
    /\ \A w \in Workers : WF_vars(Loop(w)) /\ WF_vars(CompleteWrite(w))
    /\ \A a \in Admins : WF_vars(RedriveWrite(a) \/ RedriveAbort(a))

FairSpec == Spec /\ Fairness
-----------------------------------------------------------------------------
\* Every variable has its type (the columns, the loop, the pending transactions).
TypeOK ==
    /\ row \in [Receipts -> Row]
    /\ pc \in [Workers -> Places]
    /\ job \in [Workers -> Job]
    /\ inflight \in [Workers -> SUBSET Receipts]
    /\ stop \in [Workers -> Stops]
    /\ admin \in [Admins -> Redrive \cup {NoRedrive}]
    /\ faults \in 0 .. MaxFaults

\* A lease is there as a whole or not at all: whichever statement wrote a row last,
\* late ones included, a LEASED row has owner and token and any other row has
\* neither, nor an expiry that would hide it from claimNextReceipt.
LeaseShape ==
    \A r \in Receipts :
        /\ row[r].state = "LEASED" <=> row[r].token # NoToken
        /\ row[r].state = "LEASED" <=> row[r].owner # NoOwner
        /\ row[r].left > 0 => row[r].state = "LEASED"

\* "Two workers claim the same receipt: only one lease is valid" (lease.ts:4), also
\* when processes share a workerId: no token is in two rows or passes the fence for
\* two processes.
OneLease ==
    /\ \A r, s \in Receipts :
          row[r].token # NoToken /\ row[r].token = row[s].token => r = s
    /\ \A r \in Receipts, v, w \in Workers : Holds(v, r) /\ Holds(w, r) => v = w

\* "A stale worker does not commit a result over the new owner" (lease.ts:5): a
\* lease ends when it has expired, or by its own token's process (result, release),
\* or by a stop() under the owner's workerId; nothing else takes the row away.
EndsByRight(r) ==
    \/ Expired(r)
    \/ \E w \in Workers : \/ Holds(w, r) /\ pc[w] \in {"execute", "write"}
                          \/ stop[w] = "release" /\ WorkerId[w] = row[r].owner

LeaseEnds ==
    [][\A r \in Receipts :
         row[r].state = "LEASED" /\ row'[r].token # row[r].token => EndsByRight(r)]_vars

\* A transaction that was overtaken: what its SELECT found is not so any more.
Overtaken(w)        == pc[w] = "write" /\ ~Holds(w, job[w].receipt)
OvertakenRedrive(a) == /\ admin[a] # NoRedrive
                       /\ row[admin[a].receipt].state # "DEAD_LETTERED"

LateResult(r)  == \E w \in Workers :
                    Overtaken(w) /\ job[w].receipt = r /\ CompleteWrite(w)
LateRedrive(r) == \E a \in Admins :
                    OvertakenRedrive(a) /\ admin[a].receipt = r /\ RedriveWrite(a)

\* What the code keeps of lease.ts:5 at READ COMMITTED.  A lease is taken away by
\* right, or by the UPDATE of one overtaken transaction on that receipt; and a
\* transaction is overtaken only after its SELECT found the fence or the dead letter,
\* never because it did not look.
LeaseLost ==
    [][/\ \A r \in Receipts :
             row[r].state = "LEASED" /\ row'[r].token # row[r].token =>
                EndsByRight(r) \/ LateResult(r) \/ LateRedrive(r)
       /\ \A w \in Workers : Overtaken(w)' => pc[w] = "write"
       /\ \A a \in Admins  : OvertakenRedrive(a)' => admin[a] # NoRedrive]_vars

\* The inductive invariant behind OneLease: a token is in the hands of at most one
\* process, and if it is in a row it is in the row that process claimed, under that
\* process' workerId; a process has a job exactly while it works on one.
TokenInv ==
    /\ \A r, s \in Receipts :
          row[r].token # NoToken /\ row[r].token = row[s].token => r = s
    /\ \A v, w \in Workers :
          job[v].token # NoToken /\ job[v].token = job[w].token => v = w
    /\ \A r \in Receipts, w \in Workers :
          row[r].token # NoToken /\ row[r].token = job[w].token =>
             job[w].receipt = r /\ row[r].owner = WorkerId[w]
    /\ \A w \in Workers :
          IF pc[w] \in Busy
          THEN job[w].receipt \in Receipts /\ job[w].token \in Tokens
          ELSE job[w] = NoJob

\* The queue as its users see it.
Stage(r) == CASE row[r].state = "ABSENT" -> "absent"
              [] row[r].state \in {"PENDING", "RETRY_SCHEDULED"} -> "ready"
              [] row[r].state = "LEASED" -> "held"
              [] row[r].state = "DELIVERED" -> "done"
              [] row[r].state = "DEAD_LETTERED" -> "dead"

Queue == INSTANCE WorkQueue WITH
            Items <- Receipts, Holders <- Owners, Nobody <- NoOwner,
            stage <- [r \in Receipts |-> Stage(r)],
            holder <- [r \in Receipts |-> row[r].owner]

\* The table behaves as a work queue: a result only for a held receipt, delivered
\* for good, dead-lettered until a redrive (lease.ts, event-receipt.ts).  Only the
\* UPDATE of an overtaken completion or redrive steps aside, and then it overwrites
\* its one receipt, and nobody holds it.
ImplementsQueue ==
    /\ Queue!Init
    /\ [][\/ Queue!Next
          \/ \E r \in Receipts :
               \/ LateResult(r) /\ \E result \in Queue!Results : Queue!Overwrite(r, result)
               \/ LateRedrive(r) /\ Queue!Overwrite(r, "ready")
         ]_<<[r \in Receipts |-> Stage(r)], [r \in Receipts |-> row[r].owner]>>

\* While some worker is up time and again: a committed receipt is not lost in
\* PENDING, RETRY_SCHEDULED or LEASED, it is delivered or dead-lettered.
EventuallyResolved ==
    []<>(\E w \in Workers : Running(w)) =>
        \A r \in Receipts : row[r].state # "ABSENT" ~> Resolved(r)

\* A lease whose holder is gone ("Crash after claim -> lease expires -> reclaimed by
\* any worker", durable-worker.ts:16) does not outlive it for ever.
Orphan(r) == row[r].state = "LEASED" /\ \A w \in Workers : ~Holds(w, r)
OrphanReclaimed ==
    []<>(\E w \in Workers : Running(w)) =>
        \A r \in Receipts : Orphan(r) ~> ~Orphan(r)
=============================================================================

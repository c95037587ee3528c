------------------------------ MODULE Pipeline ------------------------------
(***************************************************************************)
(* What becomes of a received event: normalize, classify, map, call the    *)
(* gateway, complete the receipt.  There are two implementations of the    *)
(* stages, the worker's (apps/integration-worker/src: normalizer-shim,     *)
(* firewall.ts, mapping.ts, pipeline-executor.ts) and the API's            *)
(* (apps/integration-api/src: normalizer, firewall, mapping, pipeline),    *)
(* and the worker's stand-in for both, executor.ts.                        *)
(*                                                                         *)
(* A body is what the stages read of a provider event.  The executions of  *)
(* one event overlap when a lease expires under a slow one.  The durable   *)
(* worker passes no parsed event (parsed = FALSE); only tests do.          *)
(***************************************************************************)
EXTENDS Naturals

CONSTANTS Bodies,       \* provider events
          Executions,   \* executions of the event that may overlap
          Scenarios,    \* of executeReceipt
          MaxAttempts,  \* RetryPolicy.maxAttempts
          MaxLost       \* bound: answers lost, gateway restarts

ASSUME PipelineBounds == MaxAttempts \in Nat \ {0} /\ MaxLost \in Nat

VARIABLES body, side, parsed, scenario,   \* the event and who executes it
          observed,  \* the revision the tracker knows for its conversation, 0 for none
          receipt, owner, attempts,       \* state of the receipt, its latest claimer
          exec,      \* what each execution is doing
          cache,     \* what the ledger of the gateway has for the event's idempotency key
          applied, queued,                \* history: commands applied, commands taken over
          restarts, lost                  \* faults

input == <<body, side, parsed, scenario, observed>>
ledger == <<cache, applied, queued>>
pvars == <<input, receipt, owner, attempts, exec, ledger, restarts, lost>>

-----------------------------------------------------------------------------
\* Normalizers.

\* The worker knows a private note by its text alone, the API by the flag or its own text.
PrivateNote(s, b) == b.note \in IF s = "worker" THEN {"note"} ELSE {"flag", "[Private]"}

\* The types both know; the API has its own names for two of them.
Same == [conversation_created |-> "CONVERSATION_CREATED",
         conversation_resolved |-> "CONVERSATION_RESOLVED",
         conversation_status_changed |-> "CONVERSATION_STATUS_CHANGED",
         conversation_assigned |-> "CONVERSATION_ASSIGNED",
         message_updated |-> "MESSAGE_UPDATED",
         message_deleted |-> "MESSAGE_DELETED"]

WorkerOnly == [conversation_labeled |-> "CONVERSATION_LABELED",
               participant_added |-> "PARTICIPANT_ADDED",
               message |-> "CLIENT_INBOUND_MESSAGE",
               message_created |-> "CLIENT_INBOUND_MESSAGE"]
ApiOnly == [conversation_labels_updated |-> "CONVERSATION_LABELED",
            conversation_participant_added |-> "PARTICIPANT_ADDED"]

Named(table, type) == IF type \in DOMAIN table THEN table[type] ELSE "UNKNOWN_RAW"

\* classifyEventType: notes and agents first, whatever the type.
WorkerType(b) ==
    IF PrivateNote("worker", b) THEN "PRIVATE_NOTE"
    ELSE IF b.sender = "agent" THEN "AGENT_MESSAGE_ECHO"
    ELSE IF b.type \in DOMAIN Same THEN Same[b.type] ELSE Named(WorkerOnly, b.type)

\* The switch of the API's normalizer: only a message is looked at for its sender.
ApiType(b) ==
    IF b.type # "message_created"
    THEN IF b.type \in DOMAIN Same THEN Same[b.type] ELSE Named(ApiOnly, b.type)
    ELSE IF PrivateNote("api", b) THEN "PRIVATE_NOTE"
    ELSE IF b.sender = "agent" THEN "AGENT_MESSAGE_ECHO"
    ELSE IF b.branch = "client" THEN "CLIENT_INBOUND_MESSAGE" ELSE "MESSAGE_CREATED"

\* What the worker's normalizer makes of the body besides its type: its attributes, or an
\* exception when there is no sender.
Throws(b) == b.sender = "absent"

-----------------------------------------------------------------------------
\* Semantic firewalls.

Inbound  == {"MESSAGE_CREATED", "CLIENT_MESSAGE_CREATED", "CLIENT_INBOUND_MESSAGE"}
Metadata == {"CONVERSATION_ASSIGNED", "CONVERSATION_LABELED", "CONVERSATION_STATUS_CHANGED",
             "MESSAGE_UPDATED", "MESSAGE_DELETED"}

\* classify of the worker.  A message that claims a branch needs a confirmation token.
WorkerClass(b) ==
    LET t == WorkerType(b) IN
    CASE t \in {"PRIVATE_NOTE", "AGENT_MESSAGE_ECHO"} -> "NON_AUTHORITATIVE"
      [] t \in Inbound -> IF b.claim = "branch" THEN "REVIEW_NEEDED" ELSE "AUTHORITATIVE"
      [] t = "CONVERSATION_CREATED" -> "AUTHORITATIVE"
      [] t \in Metadata \cup {"CONVERSATION_RESOLVED"} -> "NON_AUTHORITATIVE"
      [] t = "PARTICIPANT_ADDED" -> "REVIEW_NEEDED"
      [] OTHER -> "BLOCKED"

\* classify of the API: a resolved conversation falls through to unknown.
ApiClass(b) ==
    LET t == ApiType(b) IN
    CASE t \in {"PRIVATE_NOTE", "AGENT_MESSAGE_ECHO"} \cup Metadata -> "NON_AUTHORITATIVE"
      [] t \in {"CONVERSATION_CREATED", "MESSAGE_CREATED", "CLIENT_INBOUND_MESSAGE"} -> "AUTHORITATIVE"
      [] t = "PARTICIPANT_ADDED" -> "REVIEW_NEEDED"
      [] OTHER -> "BLOCKED"

-----------------------------------------------------------------------------
\* Mapping services: what to do with a class and a match.

\* The worker's: what is to be reviewed is resolved like what is authoritative.
WorkerMapping(class, match) ==
    CASE class = "BLOCKED" -> "BLOCKED"
      [] class = "NON_AUTHORITATIVE" -> "SKIP"
      [] OTHER -> IF match = "EXACT_MATCH" THEN "CALL_GATEWAY" ELSE "CREATE_REVIEW"

\* The API's.
ApiMapping(class, match) ==
    IF class \in {"BLOCKED", "NON_AUTHORITATIVE"} THEN "SKIP"
    ELSE IF class = "REVIEW_NEEDED" \/ match # "EXACT_MATCH" THEN "CREATE_REVIEW"
    ELSE "CALL_GATEWAY"

\* checkRevision of the tracker, for an event with a revision and a conversation.
Stale(b)   == b.revision # 0 /\ observed # 0 /\ b.revision < observed
Forward(b) == b.revision # 0 /\ observed # 0 /\ b.revision > observed

\* executePipelineForReceipt up to the call.
WorkerPlan(b) ==
    LET action == WorkerMapping(WorkerClass(b), b.match) IN
    IF ~parsed \/ Stale(b) THEN "SKIP"
    ELSE IF Forward(b) /\ action = "CALL_GATEWAY" THEN "CREATE_REVIEW" ELSE action

\* executePipeline up to the call, with its check that only AUTHORITATIVE events get there.
ApiPlan(b) ==
    LET action == ApiMapping(ApiClass(b), b.match) IN
    IF action = "CALL_GATEWAY" /\ ApiClass(b) # "AUTHORITATIVE" THEN "BLOCKED" ELSE action

Plan(b) == IF side = "worker" THEN WorkerPlan(b) ELSE ApiPlan(b)

\* executeReceipt; receipts have no idempotency key unless a caller sets one.
MockVerdict(sc) ==
    CASE sc = "SUCCESS" -> "SUCCESS"
      [] sc \in {"TIMEOUT_BEFORE_APPLY", "TIMEOUT_AFTER_APPLY"} -> "RETRY"
      [] OTHER -> "FAIL"

-----------------------------------------------------------------------------
\* An entry of the ledger: the payload (0 for no entry) and the answer that is given again.
Answers == {"APPLIED", "ACCEPTED", "CONFLICT", "REFUSED", "TRANSIENT"}
NoEntry == [payload |-> 0, answer |-> "none"]

Idle == [pc |-> "idle", nth |-> 0, verdict |-> "none"]

PipelineInit ==
    /\ body \in Bodies /\ observed \in {0, 1}
    /\ side \in {"worker", "api", "mock"} /\ parsed \in IF side = "worker" THEN BOOLEAN ELSE {TRUE}
    /\ scenario \in IF side = "mock" THEN Scenarios ELSE {"SUCCESS"}
    /\ receipt = "QUEUED" /\ owner \in Executions /\ attempts = 0
    /\ exec = [x \in Executions |-> Idle]
    /\ cache = NoEntry /\ applied = 0 /\ queued = 0 /\ restarts = 0 /\ lost = 0

\* What an execution asks of the receipt: of the outcomes of the executor, SUCCESS, REVIEW
\* and SKIPPED end well, and a GATEWAY_ERROR is retried or final.
Verdicts == {"none", "SUCCESS", "RETRY", "FAIL"}

Go(x, pc, verdict) == exec' = [exec EXCEPT ![x] = [pc |-> pc, nth |-> @.nth, verdict |-> verdict]]

\* A worker claims the receipt, the first time or after the lease of another expired; the
\* API runs the event again.
Claim(x) ==
    /\ exec[x] = Idle /\ receipt = "QUEUED" /\ attempts < MaxAttempts
    /\ owner' = x /\ attempts' = attempts + 1
    /\ exec' = [exec EXCEPT ![x] = [pc |-> "decide", nth |-> attempts + 1, verdict |-> "none"]]
    /\ UNCHANGED <<input, receipt, ledger, restarts, lost>>

\* The stages before the call.  SKIP, BLOCKED and CREATE_REVIEW end well.  What the
\* normalizer throws leaves the lease to expire.
Decide(x) ==
    /\ exec[x].pc = "decide"
    /\ CASE side = "mock" -> Go(x, "complete", MockVerdict(scenario))
         [] side = "worker" /\ parsed /\ Throws(body) -> exec' = [exec EXCEPT ![x] = Idle]
         [] OTHER -> IF Plan(body) = "CALL_GATEWAY" THEN Go(x, "call", "none")
                     ELSE Go(x, "complete", "SUCCESS")
    /\ UNCHANGED <<input, receipt, owner, attempts, ledger, restarts, lost>>

\* The profile id of every resolution is new, so every attempt has a payload of its own.
PayloadOf(x) == exec[x].nth

\* HRP applies the command (APPLIED), or takes it over to apply it some time and gives an
\* operationId for it (ACCEPTED), which nothing here asks for again; or it does neither.
Carry(x, answer) ==
    \/ answer = "APPLIED"  /\ applied' = applied + 1 /\ UNCHANGED queued
    \/ answer = "ACCEPTED" /\ queued' = queued + 1   /\ UNCHANGED applied

FirstCall(x, answer) ==
    \/ Carry(x, answer) /\ cache' = [payload |-> PayloadOf(x), answer |-> answer]
    \/ answer \in {"REFUSED", "TRANSIENT"} /\ UNCHANGED ledger

\* Mutant: the gateway does not look up the key.
GatewayForgets(x, answer) == FirstCall(x, answer)

\* MockGateway.call, as in Intake: a cached payload is answered as it was, another conflicts.
Gateway(x, answer) ==
    IF cache # NoEntry
    THEN /\ answer = IF cache.payload = PayloadOf(x) THEN cache.answer ELSE "CONFLICT"
         /\ UNCHANGED ledger
    ELSE FirstCall(x, answer)

\* Mutant: whatever is final counts as done.
VerdictForgiving(answer) == IF answer = "TRANSIENT" THEN "RETRY" ELSE "SUCCESS"

\* An answer that is not FAILED is a success, ACCEPTED included; of the errors, those of
\* policy and validation are final (classifyGatewayError).
VerdictOf(answer) ==
    CASE answer \in {"APPLIED", "ACCEPTED"} -> "SUCCESS"
      [] answer \in {"CONFLICT", "REFUSED"} -> "FAIL"
      [] OTHER -> "RETRY"

Call(x) ==
    /\ exec[x].pc = "call"
    /\ \E answer \in Answers : Gateway(x, answer) /\ Go(x, "complete", VerdictOf(answer))
    /\ UNCHANGED <<input, receipt, owner, attempts, restarts, lost>>

\* GatewayClient: no answer in time; the command had its effect or it had none.
CallLost(x) ==
    /\ exec[x].pc = "call" /\ lost < MaxLost /\ lost' = lost + 1
    /\ \/ \E answer \in Answers : Gateway(x, answer)
       \/ UNCHANGED ledger
    /\ Go(x, "complete", "RETRY")
    /\ UNCHANGED <<input, receipt, owner, attempts, restarts>>

GatewayRestart ==
    /\ lost < MaxLost /\ lost' = lost + 1 /\ restarts' = restarts + 1 /\ cache' = NoEntry
    /\ UNCHANGED <<input, receipt, owner, attempts, exec, applied, queued>>

\* completeReceipt, in the pipeline and again in the worker: only the latest claimer
\* completes.  The API returns the outcome to its caller.
Complete(x) ==
    /\ exec[x].pc = "complete"
    /\ exec' = [exec EXCEPT ![x] = Idle]
    /\ receipt' = IF side = "api" \/ owner # x THEN receipt
                  ELSE CASE exec[x].verdict = "SUCCESS" -> "DELIVERED"
                         [] exec[x].verdict = "RETRY" /\ attempts < MaxAttempts -> receipt
                         [] OTHER -> "DEAD_LETTERED"
    /\ UNCHANGED <<input, owner, attempts, ledger, restarts, lost>>

Execute(x) == Decide(x) \/ Call(x) \/ Complete(x)

PipelineNext == \/ \E x \in Executions : Claim(x) \/ Execute(x) \/ CallLost(x)
                \/ GatewayRestart

PipelineSpec == PipelineInit /\ [][PipelineNext]_pvars

-----------------------------------------------------------------------------
PipelineTypeOK ==
    /\ body \in Bodies
    /\ receipt \in {"QUEUED", "DELIVERED", "DEAD_LETTERED"}
    /\ owner \in Executions /\ attempts \in 0 .. MaxAttempts
    /\ cache \in [payload : 0 .. MaxAttempts, answer : Answers \cup {"none"}]
    /\ lost \in 0 .. MaxLost
    /\ \A x \in Executions : exec[x].verdict \in Verdicts

\* HRP has the command: applied, or taken over.
Taken == applied + queued > 0

Calling == \E x \in Executions : exec[x].pc = "call"

Class == IF side = "worker" THEN WorkerClass(body) ELSE ApiClass(body)

\* "Retry preserves key - no double-action" (pipeline-executor.ts:30): overlapping
\* executions, retries and lost answers make HRP apply or take over one command, however
\* often they call; only a restart of the gateway can let another through.
AppliedOnce == applied + queued <= 1 + restarts

\* Which events get as far as HRP.  On both sides none of metadata, of staff, or of a note
\* that the side recognises, and none whose contact is not matched exactly; on the API's only
\* AUTHORITATIVE ones; on the worker's also those that firewall.ts leaves to a review, but
\* never one it blocks or ignores, nor one of another revision than its conversation's.
Quiet ==
    Calling \/ Taken =>
        /\ body.match = "EXACT_MATCH"
        /\ body.type \in {"message", "message_created", "conversation_created"}
                            \cup IF side = "worker" THEN {"participant_added"} ELSE {}
        /\ side = "worker" \/ body.type = "message_created" =>
               body.sender # "agent" /\ ~PrivateNote(side, body)
        /\ side = "api" => Class = "AUTHORITATIVE"
        /\ side = "worker" => /\ Class \in {"AUTHORITATIVE", "REVIEW_NEEDED"}
                              /\ parsed /\ ~Stale(body) /\ ~Forward(body)

\* "Only authoritative events create actions" (firewall.ts:65).
OnlyAuthoritative == Calling \/ Taken => Class = "AUTHORITATIVE"

\* A receipt whose event calls for a command is DELIVERED only after HRP applied it or took
\* it over.  (Taking over is all that ACCEPTED says: nothing waits for the operation.)
DeliveredTaken ==
    receipt = "DELIVERED" /\ side = "worker" /\ Plan(body) = "CALL_GATEWAY" => Taken

PipelineInv == PipelineTypeOK /\ AppliedOnce /\ Quiet
=============================================================================

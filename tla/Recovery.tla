------------------------------ MODULE Recovery ------------------------------
(***************************************************************************)
(* The stuck-item reconcilers next to the workers whose leases they reset: *)
(* apps/integration-api/src/reconciler and the RecoveryAction repository   *)
(* packages/integration-store/src/repos/reconciliation.ts.                 *)
(*                                                                         *)
(* A scan reads the LEASED rows whose lease has expired, then handles them *)
(* one by one: insert a RecoveryAction (unique per item), reset the row if *)
(* it is still stuck, close the action.  Each is a statement of its own,   *)
(* so scans of several processes, of the timer and of the HTTP routes      *)
(* interleave, and each of them can throw or die with its process.         *)
(*                                                                         *)
(* The two statements of a completion, which ReceiptLease keeps apart, are *)
(* one step here.  A worker has one job at a time, so its name stands for  *)
(* the fencing token of its latest claim.                                  *)
(***************************************************************************)
EXTENDS Naturals

CONSTANTS Receipts, Intents,  \* rows of the two tables
          Workers,            \* worker processes
          Timers, Requests,   \* schedulers, and HTTP requests that scan or recover
          NoItem, Nobody,
          MaxFaults           \* bound: throws and crashes

Items == Receipts \cup Intents
Scanners == Timers \cup Requests

ASSUME RecoveryNulls == NoItem \notin Items /\ Nobody \notin Workers
ASSUME RecoveryBound == MaxFaults \in Nat

VARIABLES row,     \* state, lease owner and whether leaseExpiresAt < now
          job,     \* the item each worker executes
          ledger,  \* status of the item's RecoveryAction
          run,     \* what each scanner is doing
          resets,  \* history: how often reconcilers reset the item
          faults

vars == <<row, job, ledger, run, resets, faults>>

-----------------------------------------------------------------------------
Row == [state : {"ABSENT", "PENDING", "LEASED", "DONE"}, holder : Workers \cup {Nobody},
        expired : BOOLEAN]
Absent == [state |-> "ABSENT", holder |-> Nobody, expired |-> FALSE]
Ready == [state |-> "PENDING", holder |-> Nobody, expired |-> FALSE]
Done  == [state |-> "DONE", holder |-> Nobody, expired |-> FALSE]

Statuses == {"PENDING", "APPLIED", "SKIPPED"}  \* FAILED is declared and never written

Phases == {"off", "receipts", "intents", "manual"}
Steps  == {"next", "reset", "applied", "skipped"}
Run    == [phase : Phases, todo : SUBSET Items, item : Items \cup {NoItem}, step : Steps]
Off    == [phase |-> "off", todo |-> {}, item |-> NoItem, step |-> "next"]

Stuck(i) == row[i].state = "LEASED" /\ row[i].expired
Live(i)  == row[i].state = "LEASED" /\ ~row[i].expired

Init == /\ row = [i \in Items |-> Absent]
        /\ job = [w \in Workers |-> NoItem]
        /\ ledger = [i \in Items |-> "none"]
        /\ run = [s \in Scanners |-> Off]
        /\ resets = [i \in Items |-> 0]
        /\ faults = 0

Fault == faults < MaxFaults /\ faults' = faults + 1

-----------------------------------------------------------------------------
\* The workers.

\* The receiver commits a receipt, a submission an intent.
Insert(i) ==
    /\ row[i] = Absent
    /\ row' = [row EXCEPT ![i] = Ready]
    /\ UNCHANGED <<job, ledger, run, resets, faults>>

Claim(w, i) ==
    /\ job[w] = NoItem /\ row[i].state = "PENDING"
    /\ row' = [row EXCEPT ![i] = [state |-> "LEASED", holder |-> w, expired |-> FALSE]]
    /\ job' = [job EXCEPT ![w] = i]
    /\ UNCHANGED <<ledger, run, resets, faults>>

\* A completion that passes the fence, or one that does not and writes nothing.
Finish(w) ==
    /\ job[w] # NoItem
    /\ LET i == job[w] IN
        IF row[i].state = "LEASED" /\ row[i].holder = w
        THEN \E result \in {Ready, Done} : row' = [row EXCEPT ![i] = result]
        ELSE UNCHANGED row
    /\ job' = [job EXCEPT ![w] = NoItem]
    /\ UNCHANGED <<ledger, run, resets, faults>>

WorkerCrash(w) ==
    /\ job[w] # NoItem /\ Fault
    /\ job' = [job EXCEPT ![w] = NoItem]
    /\ UNCHANGED <<row, ledger, run, resets>>

Expire(i) ==
    /\ Live(i)
    /\ row' = [row EXCEPT ![i].expired = TRUE]
    /\ UNCHANGED <<job, ledger, run, resets, faults>>

\* The sweep of the workers, which does the same work without a ledger.
Sweep ==
    /\ \E i \in Items : Stuck(i)
    /\ row' = [i \in Items |-> IF Stuck(i) THEN Ready ELSE row[i]]
    /\ UNCHANGED <<job, ledger, run, resets, faults>>

-----------------------------------------------------------------------------
\* The scanners.

\* findStuckReceipts, findStuckIntents.
Found(kind) == {i \in kind : Stuck(i)}

\* runScan: the receipts first.
RunScan(s) ==
    /\ run[s] = Off
    /\ run' = [run EXCEPT ![s] = [Off EXCEPT !.phase = "receipts", !.todo = Found(Receipts)]]
    /\ UNCHANGED <<row, job, ledger, resets, faults>>

\* The interval fires; it does not wait for the scan of another scheduler.
StartScan(s) == s \in Timers /\ RunScan(s)

\* POST /mock/reconciler/scan: the same scan, awaited by the request.
TriggerScan(s) == s \in Requests /\ RunScan(s)

\* recoverReceipt and recoverIntent: the same three statements for any id, stuck or not.
OnlyItem(i) == [Off EXCEPT !.phase = "manual", !.todo = {i}]

\* POST /mock/reconciler/recover.
StartManual(s, i) ==
    /\ s \in Requests /\ run[s] = Off
    /\ run' = [run EXCEPT ![s] = OnlyItem(i)]
    /\ UNCHANGED <<row, job, ledger, resets, faults>>

\* Mutant: the row that is found is taken for the row that was created.
CreateActionAnyway(s, i) ==
    /\ run[s].step = "next" /\ i \in run[s].todo
    /\ ledger' = [ledger EXCEPT ![i] = "PENDING"]
    /\ run' = [run EXCEPT ![s].todo = @ \ {i}, ![s].item = i, ![s].step = "reset"]
    /\ UNCHANGED <<row, job, resets, faults>>

\* createRecoveryAction: the unique key (itemType, itemId) lets one caller win, once.
CreateAction(s, i) ==
    /\ run[s].step = "next" /\ i \in run[s].todo
    /\ IF ledger[i] = "none"
       THEN /\ ledger' = [ledger EXCEPT ![i] = "PENDING"]
            /\ run' = [run EXCEPT ![s].todo = @ \ {i}, ![s].item = i, ![s].step = "reset"]
       ELSE /\ run' = [run EXCEPT ![s].todo = @ \ {i}]
            /\ UNCHANGED ledger
    /\ UNCHANGED <<row, job, resets, faults>>

\* Mutant: the WHERE clause of the update is the id alone, as the scan has looked.
ResetFound(s) ==
    /\ run[s].step = "reset"
    /\ LET i == run[s].item IN
        /\ row' = [row EXCEPT ![i] = Ready]
        /\ resets' = [resets EXCEPT ![i] = @ + 1]
        /\ run' = [run EXCEPT ![s].step = "applied"]
    /\ UNCHANGED <<job, ledger, faults>>

\* resetStuckReceipt, resetStuckIntent: the update looks again.
Reset(s) ==
    /\ run[s].step = "reset"
    /\ LET i == run[s].item IN
        IF Stuck(i)
        THEN /\ row' = [row EXCEPT ![i] = Ready]
             /\ resets' = [resets EXCEPT ![i] = @ + 1]
             /\ run' = [run EXCEPT ![s].step = "applied"]
        ELSE /\ run' = [run EXCEPT ![s].step = "skipped"]
             /\ UNCHANGED <<row, resets>>
    /\ UNCHANGED <<job, ledger, faults>>

\* Mutant: a skipped item is left to whoever completed it.
CloseApplied(s) ==
    /\ run[s].step \in {"applied", "skipped"}
    /\ IF run[s].step = "applied"
       THEN ledger' = [ledger EXCEPT ![run[s].item] = "APPLIED"]
       ELSE UNCHANGED ledger
    /\ run' = [run EXCEPT ![s].item = NoItem, ![s].step = "next"]
    /\ UNCHANGED <<row, job, resets, faults>>

\* completeRecoveryAction: PENDING to APPLIED or SKIPPED; a closed entry stays.
Close(s) ==
    /\ run[s].step \in {"applied", "skipped"}
    /\ LET i == run[s].item IN
        ledger' = IF ledger[i] # "PENDING" THEN ledger
                  ELSE [ledger EXCEPT ![i] = IF run[s].step = "applied" THEN "APPLIED"
                                             ELSE "SKIPPED"]
    /\ run' = [run EXCEPT ![s].item = NoItem, ![s].step = "next"]
    /\ UNCHANGED <<row, job, resets, faults>>

\* Mutant: the intents are searched when the scan starts.
NextPhaseEnds(s) ==
    /\ run[s].phase # "off" /\ run[s].step = "next" /\ run[s].todo = {}
    /\ run' = [run EXCEPT ![s] = Off]
    /\ UNCHANGED <<row, job, ledger, resets, faults>>

\* The receipts are through: the intents are searched now.  The end: stats, answer.
NextPhase(s) ==
    /\ run[s].phase # "off" /\ run[s].step = "next" /\ run[s].todo = {}
    /\ run' = [run EXCEPT ![s] = IF run[s].phase # "receipts" THEN Off
                                 ELSE [Off EXCEPT !.phase = "intents", !.todo = Found(Intents)]]
    /\ UNCHANGED <<row, job, ledger, resets, faults>>

\* The catch of the loop: the item is reported FAILED, its entry stays as it is.
Throw(s) ==
    /\ Fault
    /\ \/ /\ run[s].step # "next"
          /\ run' = [run EXCEPT ![s].item = NoItem, ![s].step = "next"]
       \/ /\ run[s].step = "next"
          /\ \E i \in run[s].todo : run' = [run EXCEPT ![s].todo = @ \ {i}]
    /\ UNCHANGED <<row, job, ledger, resets>>

ScannerCrash(s) ==
    /\ run[s] # Off /\ Fault
    /\ run' = [run EXCEPT ![s] = Off]
    /\ UNCHANGED <<row, job, ledger, resets>>

-----------------------------------------------------------------------------
Recover(s) == (\E i \in Items : CreateAction(s, i)) \/ Reset(s) \/ Close(s)

\* The loops over what was found, and recoverReceipt and recoverIntent for one id.
ReconcileReceipts(s) == run[s].phase = "receipts" /\ Recover(s)
ReconcileIntents(s)  == run[s].phase = "intents" /\ Recover(s)
RecoverItem(s)       == run[s].phase = "manual" /\ Recover(s)

Handle(s) == ReconcileReceipts(s) \/ ReconcileIntents(s) \/ RecoverItem(s) \/ NextPhase(s)

Next == \/ \E w \in Workers : Finish(w) \/ WorkerCrash(w) \/ \E i \in Items : Claim(w, i)
        \/ \E i \in Items : Insert(i) \/ Expire(i)
        \/ Sweep
        \/ \E s \in Scanners : \/ StartScan(s) \/ TriggerScan(s) \/ Handle(s)
                               \/ Throw(s) \/ ScannerCrash(s)
                               \/ \E i \in Items : StartManual(s, i)

Spec == Init /\ [][Next]_vars

\* The timer fires again and again, and the event loop runs what is ready.
Fairness == /\ \A s \in Timers : WF_vars(StartScan(s))
            /\ \A s \in Scanners : WF_vars(Handle(s))

FairSpec == Spec /\ Fairness

-----------------------------------------------------------------------------
\* Values the variables may take.
TypeOK == /\ row \in [Items -> Row]
          /\ job \in [Workers -> Items \cup {NoItem}]
          /\ ledger \in [Items -> Statuses \cup {"none"}]
          /\ run \in [Scanners -> Run]
          /\ resets \in [Items -> Nat]
          /\ faults \in 0 .. MaxFaults

Working(s, i) == run[s].item = i /\ run[s].step # "next"

\* "same receipt/intent not recovered twice" (reconciliation.ts): whatever scans,
\* requests, throws and crashes do, reconcilers reset an item at most once.
RecoveredOnce == \A i \in Items : resets[i] <= 1

\* The ledger tells the truth of what was done: APPLIED is a reset that happened, a
\* SKIPPED or missing entry one that did not.  Only PENDING leaves it open.
LedgerTruth == \A i \in Items : /\ ledger[i] = "APPLIED" => resets[i] = 1
                                /\ ledger[i] \in {"none", "SKIPPED"} => resets[i] = 0

\* At most one scanner works on an entry, and only on one that is still PENDING.
OneRecoverer == \A s \in Scanners, i \in Items :
    Working(s, i) => /\ ledger[i] = "PENDING"
                     /\ resets[i] = (IF run[s].step = "applied" THEN 1 ELSE 0)
                     /\ \A u \in Scanners : Working(u, i) => u = s

\* The three and the types are inductive, given that a scanner at a step has an item.
RecoveryInv == TypeOK /\ RecoveredOnce /\ LedgerTruth /\ OneRecoverer

EndsByHolder(i) == \E w \in Workers : row[i].holder = w /\ job[w] = i /\ job'[w] = NoItem
LiveKept == \A i \in Items : Live(i) /\ row'[i].state # "LEASED" => EndsByHolder(i)

\* A lease that has not expired is ended by its holder's completion or by time, never
\* by a scan that read the row when an earlier lease of it had expired.
LiveLeaseKept == [][LiveKept]_vars

\* What a WorkQueue sees of a row.
Stage(i) == CASE row[i].state = "ABSENT" -> "absent"
              [] row[i].state = "PENDING" -> "ready"
              [] row[i].state = "LEASED" -> "held"
              [] OTHER -> "done"

stage  == [i \in Items |-> Stage(i)]
holder == [i \in Items |-> row[i].holder]

Queue == INSTANCE WorkQueue WITH Holders <- Workers

\* With two recovery mechanisms on the same rows the queue still keeps its promise: a
\* done item stays done and a holder loses an item only back to ready.
KeepsQueue == Queue!Spec

\* Without faults the reconcilers alone free every item that is stuck for the first time.
FirstRecovery == \A i \in Items :
    (Stuck(i) /\ ledger[i] = "none") ~> (~Stuck(i) \/ faults > 0)

\* Without faults every entry is closed.
EntryClosed == \A i \in Items : (ledger[i] = "PENDING") ~> (ledger[i] # "PENDING" \/ faults > 0)
=============================================================================

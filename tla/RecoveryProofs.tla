--------------------------- MODULE RecoveryProofs ----------------------------
(***************************************************************************)
(* What the reconcilers promise for any rows, workers, schedulers,         *)
(* requests and number of faults.                                          *)
(***************************************************************************)
EXTENDS Recovery, TLAPS

\* A scanner that is handling an item has one.
Assigned == \A s \in Scanners : run[s].step # "next" => run[s].item \in Items

LEMMA RowTypes == /\ Ready \in Row /\ Done \in Row /\ Absent \in Row
                  /\ Off \in Run /\ NoItem \notin Items /\ MaxFaults \in Nat
                  /\ \A i \in Items : OnlyItem(i) \in Run
  BY RecoveryNulls, RecoveryBound
     DEF Ready, Done, Absent, Row, Off, Run, Phases, Steps, OnlyItem

LEMMA FaultBound == ASSUME faults \in 0 .. MaxFaults, Fault PROVE faults' \in 0 .. MaxFaults
  BY RowTypes DEF Fault

-----------------------------------------------------------------------------
\* The steps of the workers and of time, and the starts and ends of scans, touch neither
\* the ledger nor the count of resets, and leave no scanner at an item it was not at.
RowsOnly == UNCHANGED <<ledger, run, resets>>

StartsOrEnds ==
    /\ UNCHANGED <<ledger, resets>>
    /\ \A s \in Scanners : run'[s].step # "next" =>
          run'[s].step = run[s].step /\ run'[s].item = run[s].item

LEMMA InitRecovery == Init => TypeOK /\ RecoveryInv /\ Assigned
  <1> SUFFICES ASSUME Init PROVE TypeOK /\ RecoveryInv /\ Assigned
    OBVIOUS
  <1>1. TypeOK
    <2>1. row \in [Items -> Row] /\ run \in [Scanners -> Run] BY RowTypes DEF Init
    <2>2. job \in [Workers -> Items \cup {NoItem}] BY DEF Init
    <2>3. ledger \in [Items -> Statuses \cup {"none"}] BY DEF Init, Statuses
    <2>4. resets \in [Items -> Nat] /\ faults \in 0 .. MaxFaults BY RowTypes DEF Init
    <2> QED BY <2>1, <2>2, <2>3, <2>4 DEF TypeOK
  <1>2. \A s \in Scanners : run[s].step = "next" BY DEF Init, Off
  <1>3. \A i \in Items : ledger[i] = "none" /\ resets[i] = 0 BY DEF Init
  <1> QED BY <1>1, <1>2, <1>3
          DEF RecoveryInv, RecoveredOnce, LedgerTruth, OneRecoverer, Assigned, Working

LEMMA KeepsTruth ==
    ASSUME TypeOK, LedgerTruth, OneRecoverer, RecoveredOnce, Assigned, StartsOrEnds
    PROVE  LedgerTruth' /\ OneRecoverer' /\ RecoveredOnce' /\ Assigned'
  BY DEF StartsOrEnds, LedgerTruth, OneRecoverer, RecoveredOnce, Assigned, Working, TypeOK

\* Every step keeps the types.
LEMMA RecoveryTypes == TypeOK /\ Assigned /\ [Next]_vars => TypeOK'
  <1> SUFFICES ASSUME TypeOK, Assigned, [Next]_vars PROVE TypeOK'
    OBVIOUS
  <1> USE RowTypes
  <1>1. ASSUME NEW w \in Workers, NEW i \in Items, Claim(w, i) PROVE TypeOK'
    BY <1>1 DEF Claim, TypeOK, Row
  <1>2. ASSUME NEW w \in Workers, Finish(w) PROVE TypeOK'
    BY <1>2 DEF Finish, TypeOK
  <1>3. ASSUME NEW w \in Workers, WorkerCrash(w) PROVE TypeOK'
    BY <1>3, FaultBound DEF WorkerCrash, TypeOK
  <1>4. ASSUME NEW i \in Items, Insert(i) PROVE TypeOK'
    BY <1>4 DEF Insert, TypeOK
  <1>5. ASSUME NEW i \in Items, Expire(i) PROVE TypeOK'
    <2>1. [row[i] EXCEPT !.expired = TRUE] \in Row BY DEF TypeOK, Row
    <2>2. row' \in [Items -> Row] BY <1>5, <2>1 DEF Expire, TypeOK
    <2> QED BY <1>5, <2>2 DEF Expire, TypeOK
  <1>6. ASSUME Sweep PROVE TypeOK'
    BY <1>6 DEF Sweep, TypeOK
  <1>7. ASSUME NEW s \in Scanners, RunScan(s) PROVE TypeOK'
    <2>1. [Off EXCEPT !.phase = "receipts", !.todo = Found(Receipts)] \in Run
      BY DEF Off, Run, Found, Items, Phases, Steps
    <2> QED BY <1>7, <2>1 DEF RunScan, TypeOK
  <1>8. ASSUME NEW s \in Scanners, NEW i \in Items, StartManual(s, i) PROVE TypeOK'
    BY <1>8 DEF StartManual, TypeOK
  <1>9. ASSUME NEW s \in Scanners, NEW i \in Items, CreateAction(s, i) PROVE TypeOK'
    <2>1. run' \in [Scanners -> Run]
      <3>1. [run[s] EXCEPT !.todo = @ \ {i}, !.item = i, !.step = "reset"] \in Run
        BY DEF TypeOK, Run, Steps
      <3>2. [run[s] EXCEPT !.todo = @ \ {i}] \in Run BY DEF TypeOK, Run
      <3> QED BY <1>9, <3>1, <3>2 DEF CreateAction, TypeOK
    <2>2. ledger' \in [Items -> Statuses \cup {"none"}]
      BY <1>9 DEF CreateAction, TypeOK, Statuses
    <2> QED BY <1>9, <2>1, <2>2 DEF CreateAction, TypeOK
  <1>10. ASSUME NEW s \in Scanners, Reset(s) PROVE TypeOK'
    <2> DEFINE i == run[s].item
    <2>1. i \in Items BY <1>10 DEF Reset, Assigned
    <2>2. run' \in [Scanners -> Run]
      <3>1. /\ [run[s] EXCEPT !.step = "applied"] \in Run
            /\ [run[s] EXCEPT !.step = "skipped"] \in Run
        BY DEF TypeOK, Run, Steps
      <3> QED BY <1>10, <3>1 DEF Reset, TypeOK
    <2>3. row' \in [Items -> Row] /\ resets' \in [Items -> Nat]
      BY <1>10, <2>1 DEF Reset, TypeOK
    <2> QED BY <1>10, <2>2, <2>3 DEF Reset, TypeOK
  <1>11. ASSUME NEW s \in Scanners, Close(s) PROVE TypeOK'
    <2>1. [run[s] EXCEPT !.item = NoItem, !.step = "next"] \in Run
      BY DEF TypeOK, Run, Steps
    <2>2. ledger' \in [Items -> Statuses \cup {"none"}]
      BY <1>11 DEF Close, TypeOK, Statuses
    <2> QED BY <1>11, <2>1, <2>2 DEF Close, TypeOK
  <1>12. ASSUME NEW s \in Scanners, NextPhase(s) PROVE TypeOK'
    <2>1. [Off EXCEPT !.phase = "intents", !.todo = Found(Intents)] \in Run
      BY DEF Off, Run, Found, Items, Phases, Steps
    <2> QED BY <1>12, <2>1 DEF NextPhase, TypeOK
  <1>13. ASSUME NEW s \in Scanners, Throw(s) PROVE TypeOK'
    <2>1. [run[s] EXCEPT !.item = NoItem, !.step = "next"] \in Run
      BY DEF TypeOK, Run, Steps
    <2>2. \A i \in Items : [run[s] EXCEPT !.todo = run[s].todo \ {i}] \in Run
      BY DEF TypeOK, Run
    <2>3. run[s].todo \subseteq Items BY DEF TypeOK, Run
    <2>4. run' \in [Scanners -> Run]
      <3>1. CASE run[s].step # "next" BY <1>13, <2>1, <3>1 DEF Throw, TypeOK
      <3>2. CASE run[s].step = "next"
        <4>1. PICK i \in run[s].todo :
                  run' = [run EXCEPT ![s] = [run[s] EXCEPT !.todo = run[s].todo \ {i}]]
          BY <1>13, <3>2 DEF Throw
        <4> QED BY <2>2, <2>3, <4>1 DEF TypeOK
      <3> QED BY <3>1, <3>2
    <2> QED BY <1>13, <2>4, FaultBound DEF Throw, TypeOK
  <1>14. ASSUME NEW s \in Scanners, ScannerCrash(s) PROVE TypeOK'
    BY <1>14, FaultBound DEF ScannerCrash, TypeOK
  <1>15. CASE UNCHANGED vars BY <1>15 DEF vars, TypeOK
  <1> QED
    BY <1>1, <1>2, <1>3, <1>4, <1>5, <1>6, <1>7, <1>8, <1>9, <1>10, <1>11, <1>12, <1>13,
       <1>14, <1>15
       DEF Next, StartScan, TriggerScan, Handle, ReconcileReceipts, ReconcileIntents,
           RecoverItem, Recover

\* Every step keeps the ledger true and its recoverer alone.
LEMMA RecoveryStep == RecoveryInv /\ Assigned /\ [Next]_vars => RecoveryInv' /\ Assigned'
  <1> SUFFICES ASSUME TypeOK, RecoveredOnce, LedgerTruth, OneRecoverer, Assigned, [Next]_vars
               PROVE  RecoveredOnce' /\ LedgerTruth' /\ OneRecoverer' /\ Assigned'
    BY RecoveryTypes DEF RecoveryInv
  <1> USE RowTypes
  <1> DEFINE Kept == RecoveredOnce' /\ LedgerTruth' /\ OneRecoverer' /\ Assigned'
  <1>1. ASSUME UNCHANGED <<ledger, run, resets>> PROVE Kept
    BY <1>1, KeepsTruth DEF StartsOrEnds
  <1>2. ASSUME NEW s \in Scanners, RunScan(s) \/ NextPhase(s) \/ ScannerCrash(s) PROVE Kept
    <2>1. \A u \in Scanners \ {s} : run'[u] = run[u]
      BY <1>2 DEF RunScan, NextPhase, ScannerCrash, TypeOK
    <2>2. run'[s].step = "next"
      <3>1. CASE RunScan(s) BY <3>1 DEF RunScan, TypeOK, Off
      <3>2. CASE NextPhase(s) BY <3>2 DEF NextPhase, TypeOK, Off
      <3>3. CASE ScannerCrash(s) BY <3>3 DEF ScannerCrash, TypeOK, Off
      <3> QED BY <1>2, <3>1, <3>2, <3>3
    <2>3. UNCHANGED <<ledger, resets>> BY <1>2 DEF RunScan, NextPhase, ScannerCrash
    <2>4. StartsOrEnds BY <2>1, <2>2, <2>3 DEF StartsOrEnds
    <2> QED BY <2>4, KeepsTruth
  <1>3. ASSUME NEW s \in Scanners, NEW i \in Items, StartManual(s, i) PROVE Kept
    <2>1. StartsOrEnds
      BY <1>3 DEF StartsOrEnds, StartManual, TypeOK, OnlyItem, Off
    <2> QED BY <2>1, KeepsTruth
  <1>4. ASSUME NEW s \in Scanners, Throw(s) PROVE Kept
    <2>1. \A u \in Scanners \ {s} : run'[u] = run[u] BY <1>4 DEF Throw, TypeOK
    <2>2. run'[s].step = "next"
      BY <1>4 DEF Throw, TypeOK, Run
    <2>3. StartsOrEnds BY <1>4, <2>1, <2>2 DEF StartsOrEnds, Throw
    <2> QED BY <2>3, KeepsTruth
  <1>5. ASSUME NEW s \in Scanners, NEW i \in Items, CreateAction(s, i) PROVE Kept
    <2>0. run[s].step = "next" BY <1>5 DEF CreateAction
    <2>1. CASE ledger[i] = "none"
      <3>1. run' = [run EXCEPT ![s] = [run[s] EXCEPT !.todo = run[s].todo \ {i}, !.item = i,
                                                   !.step = "reset"]]
        BY <1>5, <2>1 DEF CreateAction
      <3>2. run'[s].item = i /\ run'[s].step = "reset" BY <3>1 DEF TypeOK, Run
      <3>3. \A u \in Scanners \ {s} : run'[u] = run[u] BY <3>1 DEF TypeOK
      <3>4. ledger' = [ledger EXCEPT ![i] = "PENDING"] /\ UNCHANGED resets
        BY <1>5, <2>1 DEF CreateAction
      <3>5. ledger'[i] = "PENDING" /\ \A j \in Items \ {i} : ledger'[j] = ledger[j]
        BY <3>4 DEF TypeOK
      <3>6. resets[i] = 0 BY <2>1 DEF LedgerTruth
      <3>7. \A u \in Scanners : ~Working(u, i) BY <2>1 DEF OneRecoverer
      <3>8. LedgerTruth' BY <3>4, <3>5 DEF LedgerTruth
      <3>9. OneRecoverer'
        BY <3>2, <3>3, <3>4, <3>5, <3>6, <3>7 DEF OneRecoverer, Working
      <3> QED BY <3>2, <3>3, <3>4, <3>8, <3>9 DEF RecoveredOnce, Assigned
    <2>2. CASE ledger[i] # "none"
      <3>1. run' = [run EXCEPT ![s] = [run[s] EXCEPT !.todo = run[s].todo \ {i}]]
        BY <1>5, <2>2 DEF CreateAction
      <3>2. run'[s].step = "next" BY <2>0, <3>1 DEF TypeOK, Run
      <3>3. StartsOrEnds BY <1>5, <2>2, <3>1, <3>2 DEF CreateAction, StartsOrEnds, TypeOK
      <3> QED BY <3>3, KeepsTruth
    <2> QED BY <2>1, <2>2
  <1>6. ASSUME NEW s \in Scanners, Reset(s) PROVE Kept
    <2> DEFINE i == run[s].item
    <2>1. i \in Items /\ Working(s, i) BY <1>6 DEF Reset, Assigned, Working
    <2>2. ledger[i] = "PENDING" /\ resets[i] = 0 /\ \A u \in Scanners : Working(u, i) => u = s
      BY <1>6, <2>1 DEF Reset, OneRecoverer
    <2>3. UNCHANGED ledger BY <1>6 DEF Reset
    <2>4. /\ run'[s].item = i /\ run'[s].step \in {"applied", "skipped"}
          /\ \A u \in Scanners \ {s} : run'[u] = run[u]
      BY <1>6 DEF Reset, TypeOK, Run
    <2>5. /\ resets'[i] = IF run'[s].step = "applied" THEN 1 ELSE 0
          /\ \A j \in Items \ {i} : resets'[j] = resets[j]
      BY <1>6, <2>1, <2>2 DEF Reset, TypeOK, Run
    <2>6. RecoveredOnce' BY <2>5 DEF RecoveredOnce
    <2>7. LedgerTruth' BY <2>2, <2>3, <2>5 DEF LedgerTruth
    <2>8. OneRecoverer' BY <2>1, <2>2, <2>3, <2>4, <2>5 DEF OneRecoverer, Working
    <2> QED BY <2>1, <2>4, <2>6, <2>7, <2>8 DEF Assigned
  <1>7. ASSUME NEW s \in Scanners, Close(s) PROVE Kept
    <2> DEFINE i == run[s].item
    <2>1. i \in Items /\ Working(s, i) BY <1>7 DEF Close, Assigned, Working
    <2>2. /\ ledger[i] = "PENDING" /\ \A u \in Scanners : Working(u, i) => u = s
          /\ resets[i] = IF run[s].step = "applied" THEN 1 ELSE 0
      BY <2>1 DEF OneRecoverer
    <2>3. /\ ledger'[i] = IF run[s].step = "applied" THEN "APPLIED" ELSE "SKIPPED"
          /\ \A j \in Items \ {i} : ledger'[j] = ledger[j]
      BY <1>7, <2>1, <2>2 DEF Close, TypeOK
    <2>4. /\ run'[s].step = "next" /\ UNCHANGED resets
          /\ \A u \in Scanners \ {s} : run'[u] = run[u]
      BY <1>7 DEF Close, TypeOK, Run
    <2>5. LedgerTruth' BY <2>2, <2>3, <2>4 DEF LedgerTruth
    <2>6. OneRecoverer' BY <2>1, <2>2, <2>3, <2>4 DEF OneRecoverer, Working
    <2> QED BY <2>4, <2>5, <2>6 DEF RecoveredOnce, Assigned
  <1> QED
    BY <1>1, <1>2, <1>3, <1>4, <1>5, <1>6, <1>7
       DEF Next, Claim, Finish, WorkerCrash, Insert, Expire, Sweep, vars, StartScan,
           TriggerScan, Handle, ReconcileReceipts, ReconcileIntents, RecoverItem, Recover

LEMMA AlwaysInductive == Spec => [](RecoveryInv /\ Assigned)
  BY InitRecovery, RecoveryStep, PTL DEF Spec

\* RecoveryInv: whatever scans, requests, throws and crashes do, an item is reset once at
\* most, by one scanner, and the ledger tells whether it was (stuck-receipt-reconciler.ts,
\* stuck-intent-reconciler.ts and the unique key of createRecoveryAction).
THEOREM RecoveredOnceForEver == Spec => []RecoveryInv
  BY AlwaysInductive, PTL

-----------------------------------------------------------------------------
\* The scanners' steps that leave the rows alone.
Aside(s) == \/ RunScan(s) \/ Close(s) \/ NextPhase(s) \/ Throw(s) \/ ScannerCrash(s)
            \/ \E i \in Items : StartManual(s, i) \/ CreateAction(s, i)

LEMMA AsideRows == ASSUME NEW s \in Scanners, Aside(s) PROVE UNCHANGED <<row, job>>
  BY DEF Aside, RunScan, Close, NextPhase, Throw, ScannerCrash, StartManual, CreateAction

\* A change of a single row, in what the queue sees.
LEMMA OneRow ==
    ASSUME NEW i \in Items, NEW r \in Row, row' = [row EXCEPT ![i] = r], TypeOK
    PROVE  /\ row'[i] = r
           /\ stage' = [stage EXCEPT ![i] = Stage(i)']
           /\ holder' = [holder EXCEPT ![i] = r.holder]
  <1>1. row'[i] = r /\ \A j \in Items \ {i} : row'[j] = row[j] BY DEF TypeOK
  <1>2. \A j \in Items \ {i} : Stage(j)' = Stage(j) BY <1>1 DEF Stage
  <1>3. stage' = [stage EXCEPT ![i] = Stage(i)']
    <2>1. \A j \in Items : stage[j] = Stage(j) BY DEF stage
    <2>2. stage' = [j \in Items |-> Stage(j)'] BY DEF stage
    <2> QED BY <1>2, <2>1, <2>2 DEF stage
  <1>4. holder' = [holder EXCEPT ![i] = r.holder]
    <2>1. holder' = [j \in Items |-> row'[j].holder] BY DEF holder
    <2>2. \A j \in Items : row'[j].holder = IF j = i THEN r.holder ELSE row[j].holder
      BY <1>1
    <2> QED BY <2>1, <2>2 DEF holder
  <1> QED BY <1>1, <1>3, <1>4

LEMMA Aged ==
    ASSUME NEW i \in Items, Expire(i), TypeOK
    PROVE  \A j \in Items : row'[j].state = row[j].state /\ row'[j].holder = row[j].holder
  <1>1. [row[i] EXCEPT !.expired = TRUE].state = row[i].state
    BY DEF TypeOK, Row
  <1>2. [row[i] EXCEPT !.expired = TRUE].holder = row[i].holder
    BY DEF TypeOK, Row
  <1>3. row' = [row EXCEPT ![i] = [row[i] EXCEPT !.expired = TRUE]] BY DEF Expire
  <1> QED BY <1>1, <1>2, <1>3 DEF TypeOK

\* No step of another takes a live lease.
LEMMA LiveStep ==
    ASSUME TypeOK, Assigned, [Next]_vars, NEW i \in Items, Live(i), row'[i].state # "LEASED"
    PROVE  EndsByHolder(i)
  <1>1. row' # row BY DEF Live
  <1>2. ~Stuck(i) BY DEF Live, Stuck
  <1>3. ASSUME NEW w \in Workers, Finish(w) PROVE EndsByHolder(i)
    BY <1>1, <1>3 DEF Finish, Live, TypeOK, EndsByHolder
  <1>4. ASSUME NEW w \in Workers, NEW j \in Items, Claim(w, j) PROVE FALSE
    BY <1>4 DEF Claim, Live, TypeOK
  <1>5. ASSUME NEW j \in Items, Insert(j) PROVE FALSE
    BY <1>5 DEF Insert, Absent, Live, TypeOK
  <1>6. ASSUME NEW j \in Items, Expire(j) PROVE FALSE BY <1>6, Aged DEF Live
  <1>7. ASSUME Sweep PROVE FALSE BY <1>2, <1>7 DEF Sweep, Live
  <1>8. ASSUME NEW s \in Scanners, Reset(s) PROVE FALSE
    <2>1. run[s].item \in Items BY <1>8 DEF Reset, Assigned
    <2> QED BY <1>1, <1>2, <1>8, <2>1 DEF Reset, Live, TypeOK
  <1>9. ASSUME NEW s \in Scanners, Aside(s) PROVE FALSE BY <1>1, <1>9, AsideRows
  <1>10. CASE \E w \in Workers : WorkerCrash(w) BY <1>1, <1>10 DEF WorkerCrash
  <1>11. CASE UNCHANGED vars BY <1>1, <1>11 DEF vars
  <1> QED
    BY <1>3, <1>4, <1>5, <1>6, <1>7, <1>8, <1>9, <1>10, <1>11
       DEF Next, StartScan, TriggerScan, Handle, ReconcileReceipts, ReconcileIntents,
           RecoverItem, Recover, Aside

\* LiveLeaseKept: a scan never takes a lease that has not expired from its holder, however
\* old what it has read is (resetStuckReceipt, resetStuckIntent look again).
THEOREM LiveLeaseHeld == Spec => LiveLeaseKept
  <1>1. TypeOK /\ Assigned /\ [Next]_vars => [LiveKept]_vars BY LiveStep DEF LiveKept
  <1>2. RecoveryInv => TypeOK BY DEF RecoveryInv
  <1> QED BY <1>1, <1>2, AlwaysInductive, PTL DEF Spec, LiveLeaseKept

-----------------------------------------------------------------------------
LEMMA InitRecoveryQueue == Init => Queue!Init
  BY DEF Init, Absent, Queue!Init, stage, holder, Stage

LEMMA RevokeStuck ==
    ASSUME TypeOK, NEW S \in SUBSET Items, \A i \in S : Stuck(i),
           \A i \in Items : row'[i] = IF i \in S THEN Ready ELSE row[i]
    PROVE  Queue!Revoke(S)
  <1>1. \A i \in S : Stage(i) = "held" /\ Stage(i)' = "ready" /\ row'[i].holder = Nobody
    BY DEF Stuck, Ready, Stage
  <1>2. \A i \in Items \ S : Stage(i)' = Stage(i) /\ row'[i].holder = row[i].holder
    BY DEF Stage
  <1> QED BY <1>1, <1>2 DEF Queue!Revoke, stage, holder

LEMMA RecoveryQueueStep ==
    ASSUME TypeOK, Assigned, [Next]_vars PROVE [Queue!Next]_<<stage, holder>>
  <1> USE RowTypes
  <1>1. ASSUME UNCHANGED row PROVE UNCHANGED <<stage, holder>>
    BY <1>1 DEF stage, holder, Stage
  <1>2. ASSUME NEW w \in Workers, NEW i \in Items, Claim(w, i) PROVE Queue!Next
    <2>1. PICK r \in Row : r = [state |-> "LEASED", holder |-> w, expired |-> FALSE]
      BY DEF Row
    <2>2. row' = [row EXCEPT ![i] = r] BY <1>2, <2>1 DEF Claim
    <2>3. row'[i] = r /\ stage' = [stage EXCEPT ![i] = Stage(i)']
                      /\ holder' = [holder EXCEPT ![i] = r.holder]
      BY <2>2, OneRow
    <2>4. Stage(i) = "ready" /\ Stage(i)' = "held" BY <1>2, <2>1, <2>3 DEF Claim, Stage
    <2>5. Queue!Take(i, w) BY <2>1, <2>3, <2>4 DEF Queue!Take, stage
    <2> QED BY <2>5 DEF Queue!Next
  <1>3. ASSUME NEW w \in Workers, Finish(w) PROVE [Queue!Next]_<<stage, holder>>
    <2>0. PICK i \in Items : i = job[w] BY <1>3 DEF Finish, TypeOK
    <2>1. CASE row[i].state = "LEASED" /\ row[i].holder = w
      <3>2. PICK r \in {Ready, Done} : row' = [row EXCEPT ![i] = r]
        BY <1>3, <2>0, <2>1 DEF Finish
      <3>3. row'[i] = r /\ stage' = [stage EXCEPT ![i] = Stage(i)']
                        /\ holder' = [holder EXCEPT ![i] = r.holder]
        BY <3>2, OneRow
      <3>4. r.holder = Nobody BY <3>2 DEF Ready, Done
      <3>5. PICK result \in {"ready", "done"} : Stage(i)' = result
        BY <3>2, <3>3 DEF Ready, Done, Stage
      <3>6. Stage(i) = "held" BY <2>1 DEF Stage
      <3>7. Queue!Finish(i, result)
        BY <3>3, <3>4, <3>5, <3>6 DEF Queue!Finish, stage
      <3> QED BY <3>7 DEF Queue!Next, Queue!Results
    <2> QED BY <1>1, <1>3, <2>0, <2>1 DEF Finish
  <1>4. ASSUME NEW i \in Items, Insert(i) PROVE Queue!Next
    <2>1. Stage(i) = "absent" /\ row[i].holder = Nobody BY <1>4 DEF Insert, Absent, Stage
    <2>2. row' = [row EXCEPT ![i] = Ready] BY <1>4 DEF Insert
    <2>3. row'[i] = Ready /\ stage' = [stage EXCEPT ![i] = Stage(i)']
                          /\ holder' = [holder EXCEPT ![i] = Ready.holder]
      BY <2>2, OneRow
    <2>4. Stage(i)' = "ready" /\ Ready.holder = Nobody BY <2>3 DEF Ready, Stage
    <2>5. holder' = holder BY <2>1, <2>3, <2>4 DEF holder
    <2>6. Queue!Submit(i) BY <2>1, <2>3, <2>4, <2>5 DEF Queue!Submit, stage
    <2> QED BY <2>6 DEF Queue!Next
  <1>5. ASSUME NEW i \in Items, Expire(i) PROVE UNCHANGED <<stage, holder>>
    BY <1>5, Aged DEF stage, holder, Stage
  <1>6. ASSUME Sweep PROVE Queue!Next
    <2>1. PICK S \in SUBSET Items : S = {i \in Items : Stuck(i)} OBVIOUS
    <2>2. Queue!Revoke(S) BY <1>6, <2>1, RevokeStuck DEF Sweep
    <2> QED BY <2>2 DEF Queue!Next
  <1>7. ASSUME NEW s \in Scanners, Reset(s) PROVE [Queue!Next]_<<stage, holder>>
    <2>1. PICK i \in Items : i = run[s].item BY <1>7 DEF Reset, Assigned
    <2>2. CASE Stuck(i)
      <3>1. \A j \in Items : row'[j] = IF j \in {i} THEN Ready ELSE row[j]
        BY <1>7, <2>1, <2>2 DEF Reset, TypeOK
      <3>2. Queue!Revoke({i}) BY <2>2, <3>1, RevokeStuck
      <3> QED BY <3>2 DEF Queue!Next
    <2>3. CASE ~Stuck(i) BY <1>1, <1>7, <2>1, <2>3 DEF Reset
    <2> QED BY <2>2, <2>3
  <1>8. ASSUME NEW s \in Scanners, Aside(s) PROVE UNCHANGED <<stage, holder>>
    BY <1>1, <1>8, AsideRows
  <1>9. CASE \E w \in Workers : WorkerCrash(w) BY <1>1, <1>9 DEF WorkerCrash
  <1>10. CASE UNCHANGED vars BY <1>1, <1>10 DEF vars
  <1> QED
    BY <1>2, <1>3, <1>4, <1>5, <1>6, <1>7, <1>8, <1>9, <1>10
       DEF Next, StartScan, TriggerScan, Handle, ReconcileReceipts, ReconcileIntents,
           RecoverItem, Recover, Aside

\* KeepsQueue: the rows under two recovery mechanisms are still a WorkQueue.
THEOREM RecoveryImplementsQueue == Spec => KeepsQueue
  <1>1. RecoveryInv => TypeOK BY DEF RecoveryInv
  <1> QED BY <1>1, InitRecoveryQueue, RecoveryQueueStep, AlwaysInductive, PTL
          DEF Spec, KeepsQueue, Queue!Spec
=============================================================================

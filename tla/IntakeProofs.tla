---------------------------- MODULE IntakeProofs -----------------------------
(***************************************************************************)
(* What the intake saga promises for any runs, profiles, drafts and number *)
(* of faults.                                                              *)
(***************************************************************************)
EXTENDS Intake, TLAPS

\* How many steps a run has behind it where it is; a call that starts has a draft and none.
Places ==
    \A r \in Runs :
      /\ run[r].pc = "create" => run[r].done = 0 /\ run[r].draft \in Drafts
      /\ run[r].pc = "call" => run[r].done \in 1 .. 4
      /\ run[r].pc = "commit" => run[r].done \in 1 .. 5

\* The ledger's entry of a key says that its command was applied, and as long as there is
\* none a call may still apply it: once per restart of the process.
LedgerTruth ==
    /\ cache = [k \in Calls |-> cache[k]]
    /\ \A k \in Calls :
         /\ cache[k] = NoEntry => applied[k] <= restarts
         /\ cache[k] # NoEntry => applied[k] > 0 /\ applied[k] <= 1 + restarts

\* Everybody who got past the insert works with the draft of the row.
BoundToRow ==
    /\ ckpt = NoRow => acts = {}
    /\ \A r \in Runs :
         /\ run[r].pc = "create" => run[r].confirmed = run[r].draft
         /\ run[r].pc \notin {"off", "create"} => ckpt # NoRow /\ run[r].confirmed = ckpt.draft

\* A run without another beside it is at most one step ahead of the row.
RunsAlone ==
    ~overlap =>
      /\ \A r, q \in Runs : Active(r) /\ Active(q) => r = q
      /\ \A r \in Runs :
           /\ run[r].pc = "create" => ckpt = NoRow
           /\ run[r].pc \in {"mark", "call"} => run[r].done = ckpt.done
           /\ run[r].pc = "commit" => run[r].done = ckpt.done + 1
           /\ run[r].pc = "final" => run[r].done \in {ckpt.done, ckpt.done + 1}

\* The profile that IDENTITY found, or that the reviewer confirmed, from the step after it on.
Found  == cache["IDENTITY"].answer.cid
Target == IF Found # NoProfile THEN Found ELSE ckpt.draft.cid
TargetAt(done) == IF done >= 2 THEN Target ELSE ckpt.draft.cid

OnTarget ==
    restarts = 0 /\ ~overlap =>
      /\ ckpt # NoRow => ckpt.cid = TargetAt(ckpt.done)
      /\ \A r \in Runs : run[r].pc \notin {"off", "create"} => run[r].cid = TargetAt(run[r].done)
      /\ \A a \in acts :
           /\ cache["IDENTITY"] # NoEntry
           /\ a.key = "IDENTITY" => a.gave = Found
           /\ a.key # "IDENTITY" => a.cid = Target

Inductive == /\ TypeOK /\ Places /\ LedgerTruth /\ CheckpointTruth
             /\ BoundToRow /\ OneDraft /\ RunsAlone /\ OnTarget

-----------------------------------------------------------------------------
LEMMA Steps ==
    /\ Calls = {"IDENTITY", "PROFILE", "CASE", "AVAILABILITY"}
    /\ STEP_ORDER[2] = "IDENTITY" /\ STEP_ORDER[3] = "PROFILE"
    /\ STEP_ORDER[4] = "CASE" /\ STEP_ORDER[5] = "AVAILABILITY"
  <1>1. /\ STEP_ORDER[2] = "IDENTITY" /\ STEP_ORDER[3] = "PROFILE"
        /\ STEP_ORDER[4] = "CASE" /\ STEP_ORDER[5] = "AVAILABILITY"
    BY DEF STEP_ORDER
  <1>2. 2 .. 5 = {2, 3, 4, 5} OBVIOUS
  <1> QED BY <1>1, <1>2 DEF Calls

LEMMA Rows == /\ NoRow \in Row /\ Idle \in Run /\ MaxFaults \in Nat
              /\ \A d \in Drafts : d.cid \in Ids /\ d.ver \in Vers
              /\ Idle.pc = "off" /\ NoRow.state = "NONE"
  BY IntakeNulls, IntakeDrafts, IntakeBound DEF NoRow, Row, Idle, Run, Ids, Vers, Final

LEMMA FaultBound == ASSUME TypeOK, Fault
                    PROVE  faults' \in 0 .. MaxFaults /\ faults' = faults + 1
  BY Rows DEF Fault, TypeOK

\* What Save leaves of a row that is there.
LEMMA Saved ==
    ASSUME TypeOK, NEW state \in Final \cup {"RUNNING"}, NEW done \in 0 .. 5,
           NEW cid \in Ids, NEW ver \in Vers, Save(state, done, cid, ver)
    PROVE  /\ ckpt' \in Row /\ ckpt' # NoRow
           /\ ckpt'.draft = ckpt.draft /\ ckpt'.done = done
           /\ ckpt'.cid = IF cid = NoProfile THEN ckpt.cid ELSE cid
  BY DEF Save, TypeOK, Row, NoRow, Final

\* A gateway call of a run: what it asks for and what comes back.
Performed(r, k, p) == Perform(r, k, p) /\ (k # "IDENTITY" => p.cid = run[r].cid)

NoTarget(r) == Fail(r) /\ UNCHANGED <<ckpt, cache, applied, acts, overlap, faults, restarts>>

LEMMA Executed ==
    ASSUME TypeOK, Places, NEW r \in Runs, ExecuteStep(r)
    PROVE  /\ run[r].pc = "call" /\ run[r].done \in 1 .. 4
           /\ Step(r) \in Calls /\ Step(r) = STEP_ORDER[run[r].done + 1]
           /\ NoTarget(r) \/ \E p : Performed(r, Step(r), p)
  <1>1. run[r].pc = "call" /\ run[r].done \in 1 .. 4 BY DEF ExecuteStep, Places
  <1>2. Step(r) = STEP_ORDER[run[r].done + 1] BY DEF Step
  <1>3. Step(r) \in Calls
    <2>1. run[r].done \in {1, 2, 3, 4} BY <1>1
    <2> QED BY <1>2, <2>1, Steps
  <1>4. ASSUME Step(r) = "IDENTITY", IdentityStep(r) PROVE \E p : Performed(r, Step(r), p)
    BY <1>4 DEF IdentityStep, Performed
  <1>5. ASSUME Step(r) # "IDENTITY", NEW p, p.cid = run[r].cid, ForTarget(r, Step(r), p)
        PROVE  NoTarget(r) \/ Performed(r, Step(r), p)
    BY <1>5 DEF ForTarget, NoTarget, Performed
  <1>6. CASE Step(r) = "PROFILE" /\ ProfileStep(r)
    <2>1. ForTarget(r, Step(r), Payload(run[r].draft, run[r].cid, run[r].ver, 0))
      BY <1>6 DEF ProfileStep
    <2> QED BY <1>1, <1>2, <1>3, <1>5, <1>6, <2>1 DEF Payload
  <1>7. CASE Step(r) = "CASE" /\ CaseStep(r)
    <2>1. ForTarget(r, Step(r), Payload(run[r].draft, run[r].cid, 0, 0))
      BY <1>7 DEF CaseStep
    <2> QED BY <1>1, <1>2, <1>3, <1>5, <1>7, <2>1 DEF Payload
  <1>8. CASE Step(r) = "AVAILABILITY" /\ AvailabilityStep(r)
    <2>1. ForTarget(r, Step(r), Payload(run[r].draft, run[r].cid, run[r].ver, 0))
      BY <1>8 DEF AvailabilityStep
    <2> QED BY <1>1, <1>2, <1>3, <1>5, <1>8, <2>1 DEF Payload
  <1> QED BY <1>1, <1>2, <1>3, <1>4, <1>6, <1>7, <1>8 DEF ExecuteStep

-----------------------------------------------------------------------------
LEMMA InitIntake == Init => Inductive
  <1> SUFFICES ASSUME Init PROVE Inductive
    OBVIOUS
  <1> USE Rows
  <1>1. TypeOK
    <2>1. ckpt \in Row /\ run \in [Runs -> Run] BY DEF Init
    <2>2. applied \in [Calls -> 0 .. MaxFaults + 1] BY DEF Init
    <2>3. faults \in 0 .. MaxFaults /\ restarts \in 0 .. faults
      <3>1. faults = 0 /\ restarts = 0 BY DEF Init
      <3> QED BY <3>1
    <2>4. overlap \in BOOLEAN BY DEF Init
    <2> QED BY <2>1, <2>2, <2>3, <2>4 DEF TypeOK
  <1>2. \A r \in Runs : run[r] = Idle /\ run[r].pc = "off" BY DEF Init
  <1>3. Places /\ BoundToRow /\ OneDraft /\ RunsAlone /\ OnTarget
    BY <1>2 DEF Init, Places, BoundToRow, OneDraft, RunsAlone, OnTarget, Active
  <1>4. LedgerTruth BY DEF Init, LedgerTruth
  <1>5. ckpt.done = 0 /\ \A r \in Runs : run[r].done = 0 BY <1>2 DEF Init, NoRow, Idle
  <1>6. CheckpointTruth BY <1>5 DEF CheckpointTruth
  <1> QED BY <1>1, <1>3, <1>4, <1>6 DEF Inductive

\* A call that starts has a new record, without a row, or continues what the row says.
LEMMA BeginStep ==
    ASSUME Inductive, NEW r \in Runs, NEW d \in Drafts, NEW c \in Drafts,
           Submit(r, d, c) \/ Resume(r, d, c)
    PROVE  Inductive'
  <1> USE Rows
  <1>0. TypeOK /\ ckpt \in Row /\ run \in [Runs -> Run] BY DEF Inductive, TypeOK
  <1>1. c = d BY DEF Submit, Resume, DigestsAgree, Digest
  <1>2. Fresh(d, c) \in Run /\ Resumed(d, c) \in Run
    BY <1>0 DEF Fresh, Resumed, Idle, Run, Row
  <1>3. PICK x \in Run :
           /\ Begin(r, x) /\ x.draft = d /\ x.confirmed = d
           /\ \/ x.pc = "create" /\ x.done = 0 /\ ckpt = NoRow
              \/ /\ x.pc = "mark" /\ x.done = ckpt.done /\ x.cid = ckpt.cid
                 /\ ckpt # NoRow /\ ckpt.draft = d
    <2>1. CASE Begin(r, Fresh(d, c)) /\ ckpt = NoRow
      BY <1>1, <1>2, <2>1 DEF Fresh, Idle
    <2>2. CASE Begin(r, Resumed(d, c)) /\ ckpt # NoRow /\ ConfirmationValid(d, ckpt)
      BY <1>1, <1>2, <2>2 DEF Resumed, Idle, ConfirmationValid, Digest
    <2> QED BY <2>1, <2>2 DEF Submit, Resume
  <1>4. /\ run'[r] = x /\ \A q \in Runs : q # r => run'[q] = run[q]
        /\ run' \in [Runs -> Run] /\ UNCHANGED <<ckpt, cache, applied, acts, faults, restarts>>
        /\ overlap' = (overlap \/ \E q \in Runs : Active(q))
    BY <1>0, <1>3 DEF Begin
  <1>5. TypeOK' BY <1>0, <1>4 DEF TypeOK
  <1>6. Places' BY <1>3, <1>4 DEF Inductive, Places
  <1>7. LedgerTruth' BY <1>4 DEF Inductive, LedgerTruth
  <1>8. CheckpointTruth' BY <1>3, <1>4 DEF Inductive, CheckpointTruth
  <1>9. BoundToRow' /\ OneDraft' BY <1>3, <1>4 DEF Inductive, BoundToRow, OneDraft
  <1>10. RunsAlone' BY <1>3, <1>4 DEF Inductive, RunsAlone, Active
  <1>11. OnTarget'
    <2> SUFFICES ASSUME restarts = 0, ~overlap PROVE OnTarget'
      BY <1>4 DEF OnTarget
    <2>1. Target' = Target /\ Found' = Found /\ TargetAt(ckpt.done)' = TargetAt(ckpt.done)
      BY <1>4 DEF Target, Found, TargetAt
    <2>2. \A q \in Runs : q # r => TargetAt(run[q].done)' = TargetAt(run[q].done)
      BY <1>4, <2>1 DEF TargetAt
    <2>3. x.pc = "mark" => x.cid = TargetAt(run[r].done)'
      BY <1>3, <1>4, <2>1 DEF Inductive, OnTarget, TargetAt
    <2> QED BY <1>3, <1>4, <2>1, <2>2, <2>3 DEF Inductive, OnTarget
  <1> QED BY <1>5, <1>6, <1>7, <1>8, <1>9, <1>10, <1>11 DEF Inductive

\* A step of a run that leaves it as x and touches the store only: what it has to respect.
TouchesStore(r, x) ==
    /\ run' = [run EXCEPT ![r] = x] /\ run[r].pc # "off"
    /\ UNCHANGED <<cache, applied, acts, overlap, restarts>>
    /\ faults' \in 0 .. MaxFaults /\ faults' >= faults
    /\ ckpt' \in Row /\ ckpt'.draft = ckpt.draft /\ (ckpt' = NoRow <=> ckpt = NoRow)
    /\ ckpt'.done = ckpt.done \/ ckpt'.done = run[r].done
    /\ x.done <= 1 \/ x.done = run[r].done
    /\ x.pc # "create"
    /\ x.pc = "call" => x.done \in 1 .. 4
    /\ x.pc = "commit" => x.done \in 1 .. 5
    /\ x.pc # "off" => run[r].pc # "create" /\ x.confirmed = run[r].confirmed
    /\ ~overlap => /\ x.pc \in {"mark", "call"} => x.done = ckpt'.done
                   /\ x.pc = "commit" => x.done = ckpt'.done + 1
                   /\ x.pc = "final" => x.done \in {ckpt'.done, ckpt'.done + 1}
    /\ restarts = 0 /\ ~overlap =>
         /\ ckpt # NoRow => ckpt'.cid = TargetAt(ckpt'.done)
         /\ x.pc # "off" => x.cid = TargetAt(x.done)

LEMMA StoreStep ==
    ASSUME Inductive, NEW r \in Runs, NEW x \in Run, TouchesStore(r, x)
    PROVE  Inductive'
  <1> USE Rows DEF TouchesStore
  <1>0. TypeOK /\ ckpt \in Row /\ run \in [Runs -> Run] /\ run[r] \in Run
    BY DEF Inductive, TypeOK
  <1>1. run'[r] = x /\ (\A q \in Runs : q # r => run'[q] = run[q]) /\ run' \in [Runs -> Run]
    BY <1>0
  <1>2. TypeOK'
    <2>1. restarts' \in 0 .. faults' BY <1>0 DEF TypeOK
    <2> QED BY <1>0, <1>1, <2>1 DEF TypeOK
  <1>3. Places' BY <1>1 DEF Inductive, Places
  <1>4. LedgerTruth' BY DEF Inductive, LedgerTruth
  <1>5. CheckpointTruth'
    <2>1. x.done \in 0 .. 5 /\ ckpt'.done \in 0 .. 5 BY DEF Run, Row
    <2>2. \A k \in Calls, n \in 2 .. 5 : STEP_ORDER[n] = k /\ ckpt'.done >= n => applied[k] > 0
      BY DEF Inductive, CheckpointTruth
    <2>3. \A k \in Calls, n \in 2 .. 5 : STEP_ORDER[n] = k /\ x.done >= n => applied[k] > 0
      BY <2>1 DEF Inductive, CheckpointTruth
    <2> QED BY <1>1, <2>2, <2>3 DEF Inductive, CheckpointTruth
  <1>6. BoundToRow' /\ OneDraft' BY <1>1 DEF Inductive, BoundToRow, OneDraft
  <1>7. RunsAlone' BY <1>1 DEF Inductive, RunsAlone, Active
  <1>8. OnTarget'
    <2> SUFFICES ASSUME restarts = 0, ~overlap PROVE OnTarget'
      BY DEF OnTarget
    <2>1. Found' = Found /\ Target' = Target BY DEF Found, Target
    <2>2. TargetAt(ckpt.done)' = TargetAt(ckpt'.done)
      BY <2>1 DEF TargetAt
    <2>3. \A q \in Runs : TargetAt(run[q].done)' = TargetAt(run'[q].done)
      BY <2>1 DEF TargetAt
    <2>4. \A q \in Runs : run'[q].pc \notin {"off", "create"} =>
                              run'[q].cid = TargetAt(run[q].done)'
      BY <1>1, <2>3 DEF Inductive, OnTarget
    <2> QED BY <2>1, <2>2, <2>4 DEF Inductive, OnTarget
  <1> QED BY <1>2, <1>3, <1>4, <1>5, <1>6, <1>7, <1>8 DEF Inductive

\* A run that ends, whatever the reason, or fails at a step, leaves the row to itself.
LEMMA EndStep ==
    ASSUME Inductive, NEW r \in Runs, run[r].pc # "off", End(r),
           UNCHANGED <<ckpt, cache, applied, acts, overlap, restarts>>,
           faults' \in 0 .. MaxFaults, faults' >= faults
    PROVE  Inductive'
  <1>1. ckpt \in Row /\ Idle.done = 0 BY DEF Inductive, TypeOK, Idle
  <1>2. restarts = 0 /\ ~overlap => (ckpt # NoRow => ckpt.cid = TargetAt(ckpt.done))
    BY DEF Inductive, OnTarget
  <1>3. PICK x \in Run : run' = [run EXCEPT ![r] = x] /\ x.pc = "off" /\ x.done = 0
    BY <1>1, Rows DEF End
  <1>4. ckpt' = ckpt /\ cache' = cache /\ applied' = applied /\ acts' = acts
        /\ overlap' = overlap /\ restarts' = restarts
    OBVIOUS
  <1>5. ckpt' \in Row /\ ckpt'.draft = ckpt.draft /\ ckpt'.done = ckpt.done BY <1>1, <1>4
  <1>6. x.done <= 1 BY <1>3
  <1>7. /\ x.pc # "create" /\ x.pc # "call" /\ x.pc # "commit" /\ x.pc # "mark"
        /\ x.pc # "final"
    BY <1>3
  <1>8. restarts = 0 /\ ~overlap => (ckpt # NoRow => ckpt'.cid = TargetAt(ckpt'.done))
    BY <1>2, <1>4
  <1>9. TouchesStore(r, x)
    BY <1>3, <1>4, <1>5, <1>6, <1>7, <1>8 DEF TouchesStore
  <1> QED BY <1>9, StoreStep

LEMMA FailStep ==
    ASSUME Inductive, NEW r \in Runs, run[r].pc \in {"call", "commit"}, Fail(r),
           UNCHANGED <<ckpt, cache, applied, acts, overlap, restarts>>,
           faults' \in 0 .. MaxFaults, faults' >= faults
    PROVE  Inductive'
  <1>0. TypeOK /\ ckpt \in Row /\ run \in [Runs -> Run] /\ run[r] \in Run
    BY DEF Inductive, TypeOK
  <1>1. PICK x \in Run : /\ run' = [run EXCEPT ![r] = x] /\ x.pc = "final"
                         /\ x.done = run[r].done /\ x.cid = run[r].cid
                         /\ x.confirmed = run[r].confirmed
    <2> DEFINE v == IF run[r].done > 0 THEN "PARTIAL" ELSE "FAILED"
               x == [run[r] EXCEPT !.pc = "final", !.verdict = v]
    <2>1. x \in Run BY <1>0 DEF Run, Final
    <2>2. run' = [run EXCEPT ![r] = x] BY <1>0 DEF Fail
    <2> QED BY <1>0, <2>1, <2>2 DEF Run
  <1>2. ckpt # NoRow BY DEF Inductive, BoundToRow
  <1>3. ~overlap => x.done \in {ckpt.done, ckpt.done + 1}
    BY <1>0, <1>1 DEF Inductive, RunsAlone
  <1>4. restarts = 0 /\ ~overlap => ckpt.cid = TargetAt(ckpt.done) /\ x.cid = TargetAt(x.done)
    BY <1>1, <1>2 DEF Inductive, OnTarget
  <1>5. TouchesStore(r, x) BY <1>0, <1>1, <1>2, <1>3, <1>4 DEF TouchesStore
  <1> QED BY <1>5, StoreStep

\* The insert: the loser of a race ends.
LEMMA CreateStep == ASSUME Inductive, NEW r \in Runs, Create(r) PROVE Inductive'
  <1> USE Rows
  <1>0. /\ TypeOK /\ ckpt \in Row /\ run \in [Runs -> Run] /\ run[r] \in Run
        /\ run[r].pc = "create"
        /\ UNCHANGED <<cache, applied, acts, overlap, faults, restarts>>
    BY DEF Inductive, TypeOK, Create
  <1>1. CASE ckpt # NoRow
    BY <1>0, <1>1, EndStep DEF Create, TypeOK
  <1>2. CASE ckpt = NoRow
    <2>1. PICK d \in Drafts : d = run[r].draft /\ run[r].confirmed = d /\ run[r].done = 0
      BY <1>0 DEF Inductive, BoundToRow, Places
    <2> DEFINE x == [run[r] EXCEPT !.pc = "mark", !.cid = d.cid, !.ver = d.ver]
               c == [NoRow EXCEPT !.state = "RUNNING", !.draft = d, !.cid = d.cid, !.ver = d.ver]
    <2>2. ckpt' = c /\ run' = [run EXCEPT ![r] = x]
      BY <1>0, <1>2, <2>1 DEF Create
    <2>3. c \in Row /\ c # NoRow /\ c.draft = d /\ c.done = 0 /\ c.cid = d.cid
      BY DEF NoRow, Row, Final
    <2>4. /\ x \in Run /\ x.pc = "mark" /\ x.done = 0 /\ x.cid = d.cid /\ x.confirmed = d
      BY <1>0, <2>1 DEF Run
    <2> HIDE DEF x, c
    <2>5. run'[r] = x /\ (\A q \in Runs : q # r => run'[q] = run[q]) /\ run' \in [Runs -> Run]
      BY <1>0, <2>2, <2>4
    <2>6. TypeOK' BY <1>0, <2>2, <2>3, <2>5 DEF TypeOK
    <2>7. Places' BY <2>4, <2>5 DEF Inductive, Places
    <2>8. LedgerTruth' BY <1>0 DEF Inductive, LedgerTruth
    <2>9. CheckpointTruth' BY <1>0, <2>2, <2>3, <2>4, <2>5 DEF Inductive, CheckpointTruth
    <2>10. BoundToRow' /\ OneDraft'
      BY <1>0, <1>2, <2>2, <2>3, <2>4, <2>5 DEF Inductive, BoundToRow, OneDraft
    <2>11. RunsAlone' BY <1>0, <2>2, <2>3, <2>4, <2>5 DEF Inductive, RunsAlone, Active
    <2>12. OnTarget'
      <3>1. acts = {} /\ \A q \in Runs : q # r => run[q].pc \in {"off", "create"}
        BY <1>2 DEF Inductive, BoundToRow
      <3>2. TargetAt(ckpt.done)' = d.cid /\ TargetAt(run[r].done)' = d.cid
        BY <2>2, <2>3, <2>4, <2>5 DEF TargetAt
      <3> QED BY <1>0, <2>2, <2>3, <2>4, <2>5, <3>1, <3>2 DEF OnTarget
    <2> QED BY <2>6, <2>7, <2>8, <2>9, <2>10, <2>11, <2>12 DEF Inductive
  <1> QED BY <1>1, <1>2

LEMMA RunFacts ==
    ASSUME Inductive, NEW r \in Runs
    PROVE  /\ ckpt \in Row /\ run \in [Runs -> Run] /\ run[r] \in Run
           /\ run[r].done \in 0 .. 5 /\ run[r].cid \in Ids /\ run[r].ver \in Vers
           /\ run[r].verdict \in Final \cup {"RUNNING"} /\ faults \in 0 .. MaxFaults
           /\ ckpt.done \in 0 .. 5
  <1>1. run[r] \in Run /\ ckpt \in Row BY DEF Inductive, TypeOK
  <1> QED BY <1>1 DEF Inductive, TypeOK, Run, Row

\* Without overlap a run that is past the insert and the row agree on the profile.
LEMMA RowOnTarget ==
    ASSUME Inductive, NEW r \in Runs, run[r].pc \notin {"off", "create"}, restarts = 0, ~overlap
    PROVE  /\ ckpt # NoRow /\ ckpt.cid = TargetAt(ckpt.done)
           /\ run[r].cid = TargetAt(run[r].done)
  BY DEF Inductive, OnTarget, BoundToRow

\* What a run saves of its own, without a profile keeping the one of the row.
LEMMA SavedTarget ==
    ASSUME Inductive, NEW r \in Runs, run[r].pc \in {"commit", "final"}, restarts = 0, ~overlap
    PROVE  TargetAt(run[r].done) = IF run[r].cid = NoProfile THEN ckpt.cid ELSE run[r].cid
  <1>1. run[r].done \in {ckpt.done, ckpt.done + 1} /\ ckpt.done \in Nat /\ run[r].done \in Nat
    BY RunFacts DEF Inductive, RunsAlone
  <1>2. run[r].cid = TargetAt(run[r].done) /\ ckpt.cid = TargetAt(ckpt.done)
    BY RowOnTarget
  <1>3. CASE run[r].cid = NoProfile
    <2>1. CASE run[r].done >= 2
      <3>1. Target = NoProfile BY <1>2, <1>3, <2>1 DEF TargetAt
      <3>2. ckpt.draft.cid = NoProfile BY <3>1 DEF Target
      <3> QED BY <1>2, <1>3, <3>1, <3>2 DEF TargetAt
    <2>2. CASE ~(run[r].done >= 2)
      <3>1. ~(ckpt.done >= 2) BY <1>1, <2>2
      <3> QED BY <1>2, <2>2, <3>1 DEF TargetAt
    <2> QED BY <2>1, <2>2
  <1> QED BY <1>2, <1>3

LEMMA MarkStep == ASSUME Inductive, NEW r \in Runs, Mark(r) PROVE Inductive'
  <1>0. /\ run[r].pc = "mark" /\ cache' = cache /\ applied' = applied /\ acts' = acts
        /\ overlap' = overlap /\ restarts' = restarts /\ faults' = faults
    BY DEF Mark
  <1>6. ckpt \in Row /\ run \in [Runs -> Run] /\ run[r] \in Run /\ faults \in 0 .. MaxFaults
        /\ run[r].done \in 0 .. 5
    BY RunFacts
  <1>1. ckpt # NoRow BY <1>0 DEF Inductive, BoundToRow
  <1>2. ~overlap => run[r].done = ckpt.done
    BY <1>0 DEF Inductive, RunsAlone
  <1>3. restarts = 0 /\ ~overlap =>
           ckpt.cid = TargetAt(ckpt.done) /\ run[r].cid = TargetAt(run[r].done)
    BY <1>0, RowOnTarget
  <1>4. CASE run[r].done = 5
    <2>1. PICK x \in Run : /\ run' = [run EXCEPT ![r] = x] /\ x.pc = "final"
                           /\ x.done = run[r].done /\ x.cid = run[r].cid
                           /\ x.confirmed = run[r].confirmed
      <3> DEFINE x == [run[r] EXCEPT !.pc = "final", !.verdict = "COMPLETED"]
      <3>1. x \in Run BY RunFacts DEF Run, Final
      <3>2. run' = [run EXCEPT ![r] = x] BY <1>4, RunFacts DEF Mark
      <3> QED BY <3>1, <3>2, RunFacts DEF Run
    <2>2. ckpt' = ckpt BY <1>4 DEF Mark
    <2>3. TouchesStore(r, x)
      BY <1>0, <1>1, <1>2, <1>3, <1>6, <2>1, <2>2 DEF TouchesStore
    <2> QED BY <2>3, StoreStep
  <1>5. CASE run[r].done # 5
    <2>1. Save("RUNNING", run[r].done, NoProfile, 0) BY <1>5 DEF Mark
    <2>2. /\ ckpt' \in Row /\ ckpt' # NoRow /\ ckpt'.draft = ckpt.draft
          /\ ckpt'.done = run[r].done /\ ckpt'.cid = ckpt.cid
      <3>1. NoProfile \in Ids /\ 0 \in Vers /\ TypeOK BY DEF Ids, Vers, Inductive
      <3> QED BY <2>1, <3>1, RunFacts, Saved
    <2>3. restarts = 0 /\ ~overlap => ckpt'.cid = TargetAt(ckpt'.done)
      BY <1>2, <1>3, <2>2
    <2>4. CASE run[r].done = 0
      <3>1. PICK x \in Run : /\ run' = [run EXCEPT ![r] = x] /\ x.pc = "commit"
                             /\ x.done = 1 /\ x.cid = run[r].cid
                             /\ x.confirmed = run[r].confirmed
        <4> DEFINE x == [run[r] EXCEPT !.pc = "commit", !.done = 1]
        <4>0. 1 \in 0 .. 5 OBVIOUS
        <4>1. x \in Run BY <1>6, <4>0 DEF Run
        <4>2. run' = [run EXCEPT ![r] = x] BY <1>5, <2>4, RunFacts DEF Mark
        <4> QED BY <4>1, <4>2, RunFacts DEF Run
      <3>2. TargetAt(1) = TargetAt(0) BY DEF TargetAt
      <3>3. restarts = 0 /\ ~overlap => x.cid = TargetAt(x.done) BY <1>3, <2>4, <3>1, <3>2
      <3>4. ~overlap => x.done = ckpt'.done + 1 BY <2>2, <2>4, <3>1
      <3>5. TouchesStore(r, x)
        BY <1>0, <1>1, <1>6, <2>2, <2>3, <3>1, <3>3, <3>4 DEF TouchesStore
      <3> QED BY <3>5, StoreStep
    <2>5. CASE run[r].done # 0
      <3>1. PICK x \in Run : /\ run' = [run EXCEPT ![r] = x] /\ x.pc = "call"
                             /\ x.done = run[r].done /\ x.cid = run[r].cid
                             /\ x.confirmed = run[r].confirmed
        <4> DEFINE x == [run[r] EXCEPT !.pc = "call"]
        <4>1. x \in Run BY <1>6 DEF Run
        <4>2. run' = [run EXCEPT ![r] = x] BY <1>5, <2>5, RunFacts DEF Mark, Go
        <4> QED BY <4>1, <4>2, RunFacts DEF Run
      <3>2. x.done \in 1 .. 4 BY <1>5, <2>5, <3>1, RunFacts
      <3>3. TouchesStore(r, x)
        BY <1>0, <1>1, <1>2, <1>3, <1>6, <2>2, <2>3, <3>1, <3>2 DEF TouchesStore
      <3> QED BY <3>3, StoreStep
    <2> QED BY <2>4, <2>5
  <1> QED BY <1>4, <1>5

\* Commit and Finish save what the run has.
LEMMA SaveStep ==
    ASSUME Inductive, NEW r \in Runs, run[r].pc \in {"commit", "final"},
           NEW state \in Final \cup {"RUNNING"},
           Save(state, run[r].done, run[r].cid, run[r].ver),
           NEW x \in Run, run' = [run EXCEPT ![r] = x],
           x.pc \in {"mark", "final", "off"}, x.pc = "mark" => run[r].pc = "commit",
           x.pc # "off" => /\ x.done = run[r].done /\ x.cid = run[r].cid
                           /\ x.confirmed = run[r].confirmed,
           x.pc = "off" => x.done = 0,
           UNCHANGED <<cache, applied, acts, overlap, faults, restarts>>
    PROVE  Inductive'
  <1>0. ckpt # NoRow BY DEF Inductive, BoundToRow
  <1>1. /\ ckpt' \in Row /\ ckpt' # NoRow /\ ckpt'.draft = ckpt.draft
        /\ ckpt'.done = run[r].done
        /\ ckpt'.cid = IF run[r].cid = NoProfile THEN ckpt.cid ELSE run[r].cid
    <2>1. TypeOK BY DEF Inductive
    <2> QED BY <2>1, RunFacts, Saved
  <1>2. restarts = 0 /\ ~overlap =>
           ckpt'.cid = TargetAt(ckpt'.done) /\ run[r].cid = TargetAt(run[r].done)
    BY <1>1, SavedTarget, RowOnTarget
  <1>3. ~overlap => (x.pc = "mark" => x.done = ckpt'.done)
    BY <1>1
  <1>4. x.done <= 1 \/ x.done = run[r].done OBVIOUS
  <1>5. faults \in 0 .. MaxFaults BY RunFacts
  <1>6. TouchesStore(r, x) BY <1>0, <1>1, <1>2, <1>3, <1>4, <1>5 DEF TouchesStore
  <1> QED BY <1>6, StoreStep

LEMMA CommitStep == ASSUME Inductive, NEW r \in Runs, Commit(r) PROVE Inductive'
  <1>0. run \in [Runs -> Run] /\ run[r] \in Run BY RunFacts
  <1>1. PICK x \in Run : /\ run' = [run EXCEPT ![r] = x] /\ x.pc \in {"mark", "final"}
                         /\ x.done = run[r].done /\ x.cid = run[r].cid
                         /\ x.confirmed = run[r].confirmed
    <2> DEFINE place == IF run[r].verdict = "REVIEW_PENDING" THEN "final" ELSE "mark"
               x == [run[r] EXCEPT !.pc = place]
    <2>1. x \in Run BY <1>0 DEF Run
    <2>2. run' = [run EXCEPT ![r] = x] BY <1>0 DEF Commit, Go
    <2> QED BY <1>0, <2>1, <2>2 DEF Run
  <1> QED BY <1>1, SaveStep DEF Commit

LEMMA FinishStep == ASSUME Inductive, NEW r \in Runs, Finish(r) PROVE Inductive'
  <1>1. run[r].verdict \in Final \cup {"RUNNING"} BY RunFacts
  <1>2. PICK x \in Run : run' = [run EXCEPT ![r] = x] /\ x.pc = "off" /\ x.done = 0
    BY Rows DEF Finish, End, Idle
  <1> QED BY <1>1, <1>2, SaveStep DEF Finish

LEMMA StoreErrorStep == ASSUME Inductive, NEW r \in Runs, StoreError(r) PROVE Inductive'
  <1>1. faults' \in 0 .. MaxFaults /\ faults' >= faults
    BY FaultBound DEF Inductive, StoreError, TypeOK
  <1>2. CASE run[r].pc = "commit" BY <1>1, <1>2, FailStep DEF StoreError
  <1>3. CASE run[r].pc # "commit" BY <1>1, <1>3, EndStep DEF StoreError
  <1> QED BY <1>2, <1>3

\* The ledger forgets everything, and nobody works any more.
LEMMA RestartStep == ASSUME Inductive, Restart PROVE Inductive'
  <1> USE Rows
  <1>0. /\ TypeOK /\ ckpt' = ckpt /\ applied' = applied /\ acts' = acts /\ overlap' = overlap
        /\ restarts' = restarts + 1 /\ cache' = [k \in Calls |-> NoEntry]
        /\ faults' \in 0 .. MaxFaults /\ faults' = faults + 1
    BY FaultBound DEF Inductive, Restart
  <1>1. \A r \in Runs : run'[r] = Idle /\ run'[r].pc = "off" /\ run'[r].done = 0
    BY DEF Restart, Idle
  <1>2. restarts \in Nat /\ restarts' # 0 BY <1>0 DEF TypeOK
  <1>3. TypeOK'
    <2>1. run' \in [Runs -> Run] BY DEF Restart
    <2>2. restarts' \in 0 .. faults' BY <1>0 DEF TypeOK
    <2> QED BY <1>0, <2>1, <2>2 DEF TypeOK
  <1>4. Places' /\ RunsAlone' /\ OnTarget'
    BY <1>1, <1>2 DEF Places, RunsAlone, OnTarget, Active
  <1>5. LedgerTruth'
    <2>1. \A k \in Calls : applied[k] \in Nat /\ applied[k] <= 1 + restarts
      BY <1>0, <1>2 DEF Inductive, LedgerTruth, TypeOK
    <2>2. \A k \in Calls : applied'[k] <= restarts' BY <1>0, <1>2, <2>1
    <2>3. cache' = [k \in Calls |-> cache'[k]] BY <1>0
    <2>4. \A k \in Calls : cache'[k] = NoEntry BY <1>0
    <2> QED BY <2>2, <2>3, <2>4 DEF LedgerTruth
  <1>6. CheckpointTruth' BY <1>0, <1>1 DEF Inductive, CheckpointTruth
  <1>7. BoundToRow' /\ OneDraft' BY <1>0, <1>1 DEF Inductive, BoundToRow, OneDraft
  <1> QED BY <1>3, <1>4, <1>5, <1>6, <1>7 DEF Inductive

-----------------------------------------------------------------------------
\* The gateway applies the command of a key it has no entry of.
Applies(r, k, p, answer) ==
    /\ cache[k] = NoEntry /\ answer.kind \in {"OK", "POSSIBLE_MATCH", "ACCEPTED"}
    /\ cache' = [cache EXCEPT ![k] = [payload |-> p, answer |-> answer]]
    /\ applied' = [applied EXCEPT ![k] = @ + 1]
    /\ acts' = acts \cup {[key |-> k, draft |-> run[r].confirmed, cid |-> p.cid,
                           gave |-> answer.cid]}

\* It answers, from its ledger or with a failure.
Repeats(k, answer) ==
    /\ UNCHANGED <<cache, applied, acts>>
    /\ ~Refused(answer) => cache[k] # NoEntry /\ answer = cache[k].answer

LEMMA CallCases ==
    ASSUME NEW r \in Runs, NEW k \in Calls, NEW p, NEW answer, Call(k, p, run[r].confirmed, answer)
    PROVE  Applies(r, k, p, answer) \/ Repeats(k, answer)
  <1>1. CASE cache[k] # NoEntry
    BY <1>1 DEF Call, Repeats, Refused, Failed, Answer
  <1>2. CASE cache[k] = NoEntry /\ answer = Failed
    BY <1>2 DEF Call, Repeats, Refused, Failed, Answer, Answers, Applies
  <1>3. CASE cache[k] = NoEntry /\ answer # Failed
    <2>1. answer \in Answers(k, p.cid, p.ver) BY <1>3 DEF Call
    <2>2. answer.kind \in {"OK", "POSSIBLE_MATCH", "ACCEPTED"}
      BY <2>1, Steps DEF Answers, Answer
    <2> QED BY <1>3, <2>2 DEF Call, Applies
  <1> QED BY <1>1, <1>2, <1>3

\* Where a call of the gateway leaves the run.
LEMMA AfterCall ==
    ASSUME Inductive, NEW r \in Runs, NEW k \in Calls, NEW answer \in AllAnswers,
           run[r].pc = "call", run[r].done \in 1 .. 4,
           Fail(r) \/ (~Refused(answer) /\ Succeed(r, k, answer))
    PROVE  \E x \in Run :
             /\ run' = [run EXCEPT ![r] = x] /\ x.confirmed = run[r].confirmed
             /\ \/ x.pc = "final" /\ x.done = run[r].done /\ x.cid = run[r].cid
                \/ /\ ~Refused(answer) /\ x.pc = "commit" /\ x.done = run[r].done + 1
                   /\ x.cid = IF k = "IDENTITY" /\ answer.cid # NoProfile THEN answer.cid
                              ELSE run[r].cid
  <1>0. run \in [Runs -> Run] /\ run[r] \in Run BY RunFacts
  <1>1. CASE Fail(r)
    <2> DEFINE v == IF run[r].done > 0 THEN "PARTIAL" ELSE "FAILED"
               x == [run[r] EXCEPT !.pc = "final", !.verdict = v]
    <2>1. x \in Run BY <1>0 DEF Run, Final
    <2>2. run' = [run EXCEPT ![r] = x] BY <1>0, <1>1 DEF Fail
    <2> QED BY <1>0, <2>1, <2>2 DEF Run
  <1>2. CASE ~Refused(answer) /\ Succeed(r, k, answer)
    <2> DEFINE cid == IF k = "IDENTITY" /\ answer.cid # NoProfile THEN answer.cid ELSE run[r].cid
               ver == IF k \in {"IDENTITY", "PROFILE"} /\ answer.ver # 0 THEN answer.ver
                      ELSE run[r].ver
               v == IF answer.kind = "POSSIBLE_MATCH" THEN "REVIEW_PENDING" ELSE run[r].verdict
               x == [run[r] EXCEPT !.pc = "commit", !.done = run[r].done + 1, !.cid = cid,
                                   !.ver = ver, !.verdict = v]
    <2>1. answer.cid \in Ids /\ answer.ver \in Vers BY DEF AllAnswers, Answer
    <2>2. cid \in Ids /\ ver \in Vers /\ v \in Final \cup {"RUNNING"} /\ run[r].done + 1 \in 0 .. 5
      BY <1>0, <2>1, RunFacts DEF Final
    <2>3. run' = [run EXCEPT ![r] = x] BY <1>0, <1>2 DEF Succeed
    <2> HIDE DEF cid, ver, v
    <2>4. x \in Run BY <1>0, <2>2 DEF Run
    <2>5. x.pc = "commit" /\ x.done = run[r].done + 1 /\ x.cid = cid
          /\ x.confirmed = run[r].confirmed
      BY <1>0 DEF Run
    <2> QED BY <1>2, <2>3, <2>4, <2>5 DEF cid
  <1> QED BY <1>1, <1>2

LEMMA GatewayStep == ASSUME Inductive, NEW r \in Runs, ExecuteStep(r) PROVE Inductive'
  <1> USE Rows
  <1>0. /\ TypeOK /\ ckpt \in Row /\ run \in [Runs -> Run] /\ run[r] \in Run
        /\ restarts \in 0 .. faults /\ faults \in 0 .. MaxFaults
        /\ applied \in [Calls -> 0 .. MaxFaults + 1]
    BY DEF Inductive, TypeOK
  <1>1. PICK k \in Calls :
           /\ run[r].pc = "call" /\ run[r].done \in 1 .. 4 /\ k = STEP_ORDER[run[r].done + 1]
           /\ NoTarget(r) \/ \E p : Performed(r, k, p)
    BY Executed DEF Inductive
  <1>2. CASE NoTarget(r)
    BY <1>0, <1>1, <1>2, FailStep DEF NoTarget
  <1>3. ASSUME NEW p, Performed(r, k, p) PROVE Inductive'
    <2>1. PICK answer \in AllAnswers :
             /\ Applies(r, k, p, answer) \/ Repeats(k, answer)
             /\ Fail(r) \/ (~Refused(answer) /\ Succeed(r, k, answer))
             /\ UNCHANGED faults \/ Fault
      BY <1>3, CallCases DEF Performed, Perform
    <2>2. /\ ckpt' = ckpt /\ overlap' = overlap /\ restarts' = restarts
          /\ k # "IDENTITY" => p.cid = run[r].cid
      BY <1>3 DEF Performed, Perform
    <2>3. faults' \in 0 .. MaxFaults /\ restarts' \in 0 .. faults'
      BY <1>0, <2>1, <2>2, FaultBound DEF TypeOK
    <2>4. PICK x \in Run :
             /\ run' = [run EXCEPT ![r] = x] /\ x.confirmed = run[r].confirmed
             /\ \/ x.pc = "final" /\ x.done = run[r].done /\ x.cid = run[r].cid
                \/ /\ ~Refused(answer) /\ x.pc = "commit" /\ x.done = run[r].done + 1
                   /\ x.cid = IF k = "IDENTITY" /\ answer.cid # NoProfile THEN answer.cid
                              ELSE run[r].cid
      BY <1>1, <2>1, AfterCall
    <2>5. run'[r] = x /\ (\A q \in Runs : q # r => run'[q] = run[q]) /\ run' \in [Runs -> Run]
      BY <1>0, <2>4
    <2>6. \A j \in Calls : applied[j] \in Nat /\ applied[j] <= 1 + restarts
      BY <1>0 DEF Inductive, LedgerTruth
    <2>7. /\ cache' = [j \in Calls |-> cache'[j]]
          /\ \A j \in Calls :
               /\ applied'[j] \in Nat /\ applied'[j] >= applied[j]
               /\ applied'[j] <= 1 + restarts
               /\ cache'[j] = NoEntry => applied'[j] <= restarts
               /\ cache'[j] # NoEntry => applied'[j] > 0
          /\ applied' = [j \in Calls |-> applied'[j]]
      <3>1. CASE Repeats(k, answer)
        BY <1>0, <2>6, <3>1 DEF Repeats, Inductive, LedgerTruth
      <3>2. CASE Applies(r, k, p, answer)
        <4>1. [payload |-> p, answer |-> answer] # NoEntry
          BY <3>2 DEF Applies, NoEntry, Answer
        <4>2. cache = [j \in Calls |-> cache[j]] /\ applied[k] <= restarts
          BY <3>2 DEF Applies, Inductive, LedgerTruth
        <4>3. cache'[k] # NoEntry /\ applied'[k] = applied[k] + 1
          BY <1>0, <3>2, <4>1, <4>2 DEF Applies
        <4>4. \A j \in Calls : j # k => cache'[j] = cache[j] /\ applied'[j] = applied[j]
          BY <1>0, <3>2, <4>2 DEF Applies
        <4>5. cache' = [j \in Calls |-> cache'[j]] /\ applied' = [j \in Calls |-> applied'[j]]
          BY <1>0, <3>2, <4>2 DEF Applies
        <4>6. restarts \in Nat BY <1>0
        <4> QED BY <2>6, <4>2, <4>3, <4>4, <4>5, <4>6 DEF Inductive, LedgerTruth
      <3> QED BY <2>1, <3>1, <3>2
    <2>8. x.pc = "commit" => applied'[k] > 0
      <3>1. CASE Repeats(k, answer)
        BY <2>4, <2>7, <3>1 DEF Repeats
      <3>2. CASE Applies(r, k, p, answer)
        <4>1. cache = [j \in Calls |-> cache[j]] BY DEF Inductive, LedgerTruth
        <4>2. cache'[k] # NoEntry BY <3>2, <4>1 DEF Applies, NoEntry, Answer
        <4> QED BY <2>7, <4>2
      <3> QED BY <2>1, <3>1, <3>2
    <2>9. TypeOK'
      <3>1. \A j \in Calls : applied'[j] \in 0 .. MaxFaults + 1 BY <1>0, <2>2, <2>3, <2>7
      <3>2. applied' \in [Calls -> 0 .. MaxFaults + 1] BY <2>7, <3>1
      <3> QED BY <1>0, <2>2, <2>3, <2>5, <3>2 DEF TypeOK
    <2>10. Places' BY <1>1, <2>4, <2>5 DEF Inductive, Places
    <2>11. LedgerTruth' BY <2>2, <2>7 DEF LedgerTruth
    <2>12. CheckpointTruth'
      <3>1. ASSUME NEW j \in Calls, NEW n \in 2 .. 5, STEP_ORDER[n] = j
            PROVE  /\ ckpt'.done >= n => applied'[j] > 0
                   /\ \A q \in Runs : run'[q].done >= n => applied'[j] > 0
        <4>1. applied[j] > 0 => applied'[j] > 0 BY <2>6, <2>7
        <4>2. ckpt'.done >= n => applied'[j] > 0
          BY <2>2, <3>1, <4>1 DEF Inductive, CheckpointTruth
        <4>3. \A q \in Runs : run[q].done >= n => applied'[j] > 0
          BY <3>1, <4>1 DEF Inductive, CheckpointTruth
        <4>4. x.done >= n => applied'[j] > 0
          <5>1. CASE n = run[r].done + 1 /\ x.pc = "commit" BY <1>1, <2>8, <3>1, <5>1
          <5>2. CASE ~(n = run[r].done + 1 /\ x.pc = "commit")
            BY <1>1, <2>4, <4>3, <5>2
          <5> QED BY <5>1, <5>2
        <4> QED BY <2>5, <4>2, <4>3, <4>4
      <3> QED BY <3>1 DEF CheckpointTruth
    <2>13. BoundToRow' /\ OneDraft'
      <3>1. ckpt # NoRow /\ run[r].confirmed = ckpt.draft
        BY <1>1 DEF Inductive, BoundToRow
      <3>2. \A a \in acts' : a.draft = ckpt.draft
        BY <2>1, <3>1 DEF Applies, Repeats, Inductive, OneDraft
      <3> QED BY <1>1, <2>2, <2>4, <2>5, <3>1, <3>2 DEF Inductive, BoundToRow, OneDraft
    <2>14. RunsAlone' BY <1>1, <2>2, <2>4, <2>5 DEF Inductive, RunsAlone, Active
    <2>15. OnTarget'
      <3> SUFFICES ASSUME restarts = 0, ~overlap PROVE OnTarget'
        BY <2>2 DEF OnTarget
      <3>1. /\ ckpt # NoRow /\ run[r].done = ckpt.done
            /\ run[r].cid = TargetAt(run[r].done) /\ ckpt.cid = TargetAt(ckpt.done)
            /\ \A q \in Runs : q # r => run[q].pc = "off"
        BY <1>1, RowOnTarget DEF Inductive, RunsAlone, Active
      <3>2. k = "IDENTITY" <=> run[r].done = 1
        <4>1. run[r].done \in {1, 2, 3, 4} BY <1>1
        <4> QED BY <1>1, <4>1, Steps
      <3>3. CASE k = "IDENTITY"
        <4>1. run[r].done = 1 /\ ckpt.cid = ckpt.draft.cid /\ run[r].cid = ckpt.draft.cid
          BY <3>1, <3>2, <3>3 DEF TargetAt
        <4>2. TargetAt(ckpt.done)' = ckpt.draft.cid
          BY <2>2, <3>1, <4>1 DEF TargetAt
        <4>3. ~Refused(answer) \/ Applies(r, k, p, answer) => Found' = answer.cid
          <5>1. cache = [j \in Calls |-> cache[j]] BY DEF Inductive, LedgerTruth
          <5>2. Applies(r, k, p, answer) => cache'[k].answer = answer
            BY <5>1 DEF Applies
          <5>3. ~Refused(answer) => cache'[k].answer = answer
            BY <2>1, <5>2 DEF Repeats
          <5> QED BY <3>3, <5>2, <5>3 DEF Found
        <4>4. x.cid = TargetAt(run[r].done)'
          <5>1. CASE x.pc = "final"
            BY <2>4, <2>5, <4>1, <4>2, <5>1, <2>2 DEF TargetAt
          <5>2. CASE x.pc = "commit"
            <6>1. x.done = 2 /\ Found' = answer.cid
              BY <2>4, <4>1, <4>3, <5>2
            <6>2. x.cid = Target' BY <2>2, <2>4, <3>3, <4>1, <5>2, <6>1 DEF Target
            <6> QED BY <2>5, <6>1, <6>2 DEF TargetAt
          <5> QED BY <2>4, <5>1, <5>2
        <4>5. \A a \in acts' : /\ cache'["IDENTITY"] # NoEntry
                               /\ a.key = "IDENTITY" => a.gave = Found'
                               /\ a.key # "IDENTITY" => a.cid = Target'
          <5>1. CASE Repeats(k, answer)
            <6>1. acts' = acts /\ cache' = cache /\ Found' = Found /\ Target' = Target
              BY <2>2, <5>1 DEF Repeats, Found, Target
            <6> QED BY <6>1 DEF Inductive, OnTarget
          <5>2. CASE Applies(r, k, p, answer)
            <6>1. acts = {} BY <3>3, <5>2 DEF Applies, Inductive, OnTarget
            <6>2. cache'[k] # NoEntry
              <7>1. cache = [j \in Calls |-> cache[j]] BY DEF Inductive, LedgerTruth
              <7> QED BY <5>2, <7>1 DEF Applies, NoEntry, Answer
            <6> QED BY <3>3, <4>3, <5>2, <6>1, <6>2 DEF Applies
          <5> QED BY <2>1, <5>1, <5>2
        <4> QED BY <2>2, <2>5, <3>1, <4>1, <4>2, <4>4, <4>5 DEF OnTarget
      <3>4. CASE k # "IDENTITY"
        <4>1. run[r].done >= 2 /\ run[r].cid = Target /\ p.cid = Target
          BY <1>1, <2>2, <3>1, <3>2, <3>4 DEF TargetAt
        <4>2. cache["IDENTITY"] # NoEntry
          <5>1. "IDENTITY" \in Calls /\ STEP_ORDER[2] = "IDENTITY" /\ 2 \in 2 .. 5 BY Steps
          <5>2. applied["IDENTITY"] > 0 BY <4>1, <5>1 DEF Inductive, CheckpointTruth
          <5> QED BY <1>0, <5>1, <5>2 DEF Inductive, LedgerTruth
        <4>3. cache'["IDENTITY"] = cache["IDENTITY"]
          <5>1. "IDENTITY" \in Calls BY Steps
          <5> QED BY <2>1, <3>4, <5>1 DEF Applies, Repeats, Inductive, LedgerTruth
        <4>4. Found' = Found /\ Target' = Target BY <2>2, <4>3 DEF Found, Target
        <4>5. \A a \in acts' : a.key = "IDENTITY" => a.gave = Found
          BY <2>1, <3>4 DEF Applies, Repeats, Inductive, OnTarget
        <4>6. \A a \in acts' : a.key # "IDENTITY" => a.cid = Target
          BY <2>1, <4>1 DEF Applies, Repeats, Inductive, OnTarget
        <4>7. x.cid = Target /\ x.done >= 2 BY <1>1, <2>4, <3>4, <4>1
        <4>8. TargetAt(run[r].done)' = Target /\ TargetAt(ckpt.done)' = TargetAt(ckpt.done)
          BY <2>2, <2>5, <4>4, <4>7 DEF TargetAt
        <4> QED BY <2>2, <2>5, <3>1, <4>2, <4>3, <4>4, <4>5, <4>6, <4>7, <4>8 DEF OnTarget
      <3> QED BY <3>3, <3>4
    <2> QED BY <2>9, <2>10, <2>11, <2>12, <2>13, <2>14, <2>15 DEF Inductive
  <1> QED BY <1>1, <1>2, <1>3

-----------------------------------------------------------------------------
LEMMA InductiveStep == Inductive /\ [Next]_vars => Inductive'
  <1> SUFFICES ASSUME Inductive, [Next]_vars PROVE Inductive'
    OBVIOUS
  <1>1. ASSUME NEW r \in Runs, Proceed(r) PROVE Inductive'
    BY <1>1, CreateStep, MarkStep, GatewayStep, CommitStep, FinishStep DEF Proceed
  <1>2. ASSUME NEW r \in Runs, StoreError(r) PROVE Inductive' BY <1>2, StoreErrorStep
  <1>3. ASSUME NEW r \in Runs, NEW d \in Drafts, NEW c \in Drafts,
               Submit(r, d, c) \/ Resume(r, d, c)
        PROVE  Inductive'
    BY <1>3, BeginStep
  <1>4. CASE Restart BY <1>4, RestartStep
  <1>5. CASE UNCHANGED vars
    BY <1>5 DEF vars, Inductive, TypeOK, Places, LedgerTruth, CheckpointTruth, BoundToRow,
                OneDraft, RunsAlone, OnTarget, Found, Target, TargetAt, Active
  <1> QED BY <1>1, <1>2, <1>3, <1>4, <1>5 DEF Next

THEOREM AlwaysInductive == Spec => []Inductive
  BY InitIntake, InductiveStep, PTL DEF Spec

\* IntakeInv: the types, and a command is applied once under its key, and once more at most
\* for each restart that emptied the ledger.
THEOREM StepsOnce == Spec => []IntakeInv
  <1>1. Inductive => IntakeInv
    <2> SUFFICES ASSUME Inductive, NEW k \in Calls PROVE applied[k] <= 1 + restarts
      BY DEF Inductive, IntakeInv, AtMostOnce
    <2>1. restarts \in Nat /\ applied[k] \in Nat BY Rows DEF Inductive, TypeOK
    <2> QED BY <2>1 DEF Inductive, LedgerTruth
  <1> QED BY <1>1, AlwaysInductive, PTL

\* CheckpointTruth: no checkpoint and no run skips a step whose command was not applied.
THEOREM SkippedHappened == Spec => []CheckpointTruth
  <1>1. Inductive => CheckpointTruth BY DEF Inductive
  <1> QED BY <1>1, AlwaysInductive, PTL

\* OneDraft: the commands of a revision carry the draft its row was created with.
THEOREM DraftsDoNotMix == Spec => []OneDraft
  <1>1. Inductive => OneDraft BY DEF Inductive
  <1> QED BY <1>1, AlwaysInductive, PTL

\* OneTarget: without restarts and overlap the steps concern the profile IDENTITY found.
THEOREM TargetIsKept == Spec => []OneTarget
  <1>1. Inductive => OneTarget
    <2> SUFFICES ASSUME Inductive, restarts = 0, ~overlap, NEW a \in acts, NEW b \in acts,
                        a.key = "IDENTITY", b.key # "IDENTITY"
                 PROVE  b.cid = IF a.gave # NoProfile THEN a.gave ELSE ckpt.draft.cid
      BY DEF OneTarget
    <2> QED BY DEF Inductive, OnTarget, Target
  <1> QED BY <1>1, AlwaysInductive, PTL

\* GrowsAlone: as long as calls do not overlap the checkpoint only moves forward.
THEOREM CheckpointGrows == Spec => GrowsAlone
  <1>1. Inductive /\ [Next]_vars => [~overlap' => ckpt'.done >= ckpt.done]_vars
    <2> SUFFICES ASSUME Inductive, Next, ~overlap' PROVE ckpt'.done >= ckpt.done
      BY DEF vars
    <2>1. ckpt.done \in Nat BY RunFacts, Rows DEF Inductive, TypeOK, Row
    <2>2. ASSUME NEW r \in Runs, Create(r) PROVE ckpt'.done >= ckpt.done
      <3>1. CASE ckpt = NoRow
        <4>1. ckpt.done = 0 BY <3>1 DEF NoRow
        <4>2. ckpt'.done = 0 BY <2>2, <3>1 DEF Create, NoRow
        <4> QED BY <4>1, <4>2
      <3>2. CASE ckpt # NoRow BY <2>1, <2>2, <3>2 DEF Create
      <3> QED BY <3>1, <3>2
    <2>3. ASSUME NEW r \in Runs, Mark(r) \/ Commit(r) \/ Finish(r)
          PROVE  ckpt'.done >= ckpt.done
      <3>1. run[r].done \in 0 .. 5 /\ ckpt \in Row BY RunFacts
      <3>2. ckpt' = ckpt \/ ckpt'.done = run[r].done
        BY <2>3, <3>1 DEF Mark, Commit, Finish, Save, Row
      <3>3. run[r].done >= ckpt.done
        BY <2>1, <2>3, <3>1 DEF Mark, Commit, Finish, Inductive, RunsAlone
      <3> QED BY <2>1, <3>2, <3>3
    <2>4. ASSUME NEW r \in Runs, ExecuteStep(r) PROVE ckpt' = ckpt
      BY <2>4, Executed DEF Inductive, NoTarget, Performed, Perform
    <2>5. ASSUME NEW r \in Runs, NEW d \in Drafts, NEW c \in Drafts,
                 Submit(r, d, c) \/ Resume(r, d, c)
          PROVE  ckpt' = ckpt
      BY <2>5 DEF Submit, Resume, Begin
    <2>6. (\E r \in Runs : StoreError(r)) \/ Restart => ckpt' = ckpt
      BY DEF StoreError, Restart
    <2> QED BY <2>1, <2>2, <2>3, <2>4, <2>5, <2>6 DEF Next, Proceed
  <1> QED BY <1>1, AlwaysInductive, PTL DEF Spec, GrowsAlone
=============================================================================

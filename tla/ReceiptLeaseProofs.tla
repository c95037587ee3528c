------------------------- MODULE ReceiptLeaseProofs -------------------------
(***************************************************************************)
(* What ReceiptLease promises for any receipts, workers, redrives, tokens, *)
(* delays and bounds.                                                      *)
(***************************************************************************)
EXTENDS ReceiptLease, TLAPS

LEMMA NullFacts ==
    /\ NoReceipt \notin Receipts /\ NoOwner \notin Owners /\ NoToken \notin Tokens
    /\ LeaseTicks \in Nat /\ Delays \subseteq Nat
    /\ MaxAttempts \in Nat /\ RedriveCap \in Nat /\ AttemptCap \in Nat
    /\ MaxFaults \in Nat /\ MaxRedrives \in Nat
    /\ 0 \in 0 .. LeaseTicks + 1 /\ LeaseTicks + 1 \in 0 .. LeaseTicks + 1
    /\ 0 \in 0 .. AttemptCap
    /\ WorkerId \in [Workers -> Owners]
  BY WorkerIdAssumption, NullAssumption, TimeAssumption, BoundAssumption

\* A row keeps its type whatever statement writes it.
LEMMA ClearedRow ==
    ASSUME NEW x \in Row
    PROVE  /\ ClearLease(x) \in Row
           /\ ClearLease(x).state = x.state /\ ClearLease(x).attempts = x.attempts
           /\ ClearLease(x).wait = x.wait /\ ClearLease(x).redrives = x.redrives
           /\ ClearLease(x).owner = NoOwner /\ ClearLease(x).left = 0
           /\ ClearLease(x).token = NoToken
  BY NullFacts DEF ClearLease, Row

LEMMA ReturnedRow ==
    ASSUME TypeOK, NEW r \in Receipts
    PROVE  /\ Returned(r) \in Row
           /\ Returned(r).state = "PENDING" /\ Returned(r).token = NoToken
           /\ Returned(r).owner = NoOwner /\ Returned(r).left = 0
  <1>1. PICK x \in Row : x = row[r] BY DEF TypeOK
  <1>2. PICK y : y = [x EXCEPT !.state = "PENDING"] OBVIOUS
  <1>3. y \in Row /\ y.state = "PENDING" BY <1>2 DEF Row, States
  <1>4. Returned(r) = ClearLease(y) BY <1>1, <1>2 DEF Returned
  <1> QED BY <1>3, <1>4, ClearedRow

LEMMA ClaimedRow ==
    ASSUME TypeOK, NEW r \in Receipts, NEW w \in Workers, NEW t \in Tokens
    PROVE  /\ Claimed(r, w, t) \in Row
           /\ Claimed(r, w, t).state = "LEASED" /\ Claimed(r, w, t).token = t
           /\ Claimed(r, w, t).owner = WorkerId[w]
           /\ Claimed(r, w, t).left = LeaseTicks + 1
  <1>1. (IF row[r].attempts < AttemptCap THEN row[r].attempts + 1
         ELSE row[r].attempts) \in 0 .. AttemptCap
    BY NullFacts DEF TypeOK, Row
  <1>2. PICK x \in Row : x = row[r] BY DEF TypeOK
  <1>3. PICK n \in 0 .. AttemptCap :
          n = IF x.attempts < AttemptCap THEN x.attempts + 1 ELSE x.attempts
    BY <1>1, <1>2
  <1>4. PICK y : y = [x EXCEPT !.state = "LEASED", !.owner = WorkerId[w],
                               !.left = LeaseTicks + 1, !.token = t, !.wait = 0,
                               !.attempts = n]
    OBVIOUS
  <1>5. Claimed(r, w, t) = y BY <1>2, <1>3, <1>4 DEF Claimed, Row
  <1>6. /\ y \in Row /\ y.state = "LEASED" /\ y.token = t
        /\ y.owner = WorkerId[w] /\ y.left = LeaseTicks + 1
    BY <1>4, NullFacts DEF Row, States
  <1> QED BY <1>5, <1>6
LEMMA NoJobType == NoJob \in Job
  BY NullFacts DEF NoJob, Job, Outcomes, Results

\* The writes of a completion and of a redrive.
LEMMA WrittenRow ==
    ASSUME TypeOK, NEW r \in Receipts, NEW v \in Results, NEW d \in Nat
    PROVE  /\ Written(r, v, d) \in Row
           /\ Written(r, v, d).state = v /\ Written(r, v, d).token = NoToken
           /\ Written(r, v, d).owner = NoOwner /\ Written(r, v, d).left = 0
  <1>0. row[r] \in Row BY DEF TypeOK
  <1>1. ClearLease(row[r]) \in Row BY <1>0, ClearedRow
  <1>2. PICK c \in Row : c = ClearLease(row[r]) BY <1>1
  <1>3. c.token = NoToken /\ c.owner = NoOwner /\ c.left = 0 BY <1>0, <1>2, ClearedRow
  <1>4. (IF v = "RETRY_SCHEDULED" THEN d ELSE c.wait) \in Nat BY DEF Row
  <1> QED BY <1>2, <1>3, <1>4, NullFacts DEF Written, Row, States

LEMMA RedrivenRow ==
    ASSUME TypeOK, NEW r \in Receipts, NEW n \in Nat
    PROVE  /\ Redriven(r, n) \in Row
           /\ Redriven(r, n).state = "PENDING" /\ Redriven(r, n).token = NoToken
           /\ Redriven(r, n).owner = NoOwner /\ Redriven(r, n).left = 0
  <1>0. row[r] \in Row BY DEF TypeOK
  <1>1. ClearLease(row[r]) \in Row BY <1>0, ClearedRow
  <1>2. PICK c \in Row : c = ClearLease(row[r]) BY <1>1
  <1>3. c.token = NoToken /\ c.owner = NoOwner /\ c.left = 0 BY <1>0, <1>2, ClearedRow
  <1> QED BY <1>2, <1>3, NullFacts DEF Redriven, Row, States

LEMMA TickedRow ==
    ASSUME NEW x \in Row
    PROVE  /\ Ticked(x) \in Row
           /\ Ticked(x).state = x.state /\ Ticked(x).token = x.token
           /\ Ticked(x).owner = x.owner /\ (Ticked(x).left > 0 => x.left > 0)
  <1>1. (IF x.left > 0 THEN x.left - 1 ELSE x.left) \in 0 .. LeaseTicks + 1
    BY NullFacts DEF Row
  <1>2. (IF x.wait > 0 THEN x.wait - 1 ELSE x.wait) \in Nat BY DEF Row
  <1>3. (IF x.left > 0 THEN x.left - 1 ELSE x.left) > 0 => x.left > 0
    BY NullFacts DEF Row
  <1> QED BY <1>1, <1>2, <1>3 DEF Row, Ticked
-----------------------------------------------------------------------------
LEMMA CallDoneType ==
    ASSUME TypeOK, NEW w \in Workers, CallDone(w)
    PROVE  /\ pc' \in [Workers -> Places] /\ job' \in [Workers -> Job]
           /\ inflight' \in [Workers -> SUBSET Receipts]
  <1>0. job[w] \in Job /\ NoJob \in Job BY NoJobType DEF TypeOK
  <1>1. CASE job[w].calls = 2
    <2>1. [job[w] EXCEPT !.calls = 1] \in Job BY <1>0 DEF Job
    <2>2. job' \in [Workers -> Job] BY <1>1, <2>1 DEF CallDone, TypeOK
    <2> QED BY <1>1, <2>2 DEF CallDone, TypeOK, Places
  <1>2. CASE job[w].calls # 2
    BY <1>0, <1>2 DEF CallDone, TypeOK, Places
  <1> QED BY <1>1, <1>2

LEMMA GoneType ==
    ASSUME TypeOK, NEW w \in Workers, Gone(w)
    PROVE  /\ pc' \in [Workers -> Places] /\ job' \in [Workers -> Job]
           /\ inflight' \in [Workers -> SUBSET Receipts]
  BY NoJobType DEF Gone, TypeOK, Places

LEMMA FaultType == ASSUME TypeOK, Fault PROVE faults' \in 0 .. MaxFaults
  BY NullFacts DEF Fault, TypeOK

LEMMA InitType == Init => TypeOK
  BY NullFacts, NoJobType DEF Init, TypeOK, Row, States, Places, Stops

LEMMA TypeStep == TypeOK /\ [Next]_vars => TypeOK'
  <1> SUFFICES ASSUME TypeOK, [Next]_vars PROVE TypeOK' OBVIOUS
  <1>1. CASE UNCHANGED vars BY <1>1 DEF TypeOK, vars
  <1>2. ASSUME NEW w \in Workers, CompleteWrite(w) PROVE TypeOK'
    <2>1. job[w].verdict \in Results BY DEF TypeOK, Job
    <2>2. PICK d \in Delays :
            row' = [row EXCEPT ![job[w].receipt] =
                                  Written(job[w].receipt, job[w].verdict, d)]
      BY <1>2 DEF CompleteWrite
    <2>3. row' \in [Receipts -> Row]
      <3>1. CASE job[w].receipt \in Receipts
        <4>1. Written(job[w].receipt, job[w].verdict, d) \in Row
          BY <3>1, <2>1, NullFacts, WrittenRow
        <4> QED BY <4>1, <2>2, <3>1 DEF TypeOK
      <3>2. CASE job[w].receipt \notin Receipts BY <2>2, <3>2 DEF TypeOK
      <3> QED BY <3>1, <3>2
    <2> QED BY <1>2, <2>3, CallDoneType DEF CompleteWrite, TypeOK
  <1>3. ASSUME NEW w \in Workers, Throw(w) PROVE TypeOK'
    <2>1. faults' \in 0 .. MaxFaults BY <1>3, FaultType DEF Throw
    <2>2. CASE CallDone(w) BY <1>3, <2>1, <2>2, CallDoneType DEF Throw, TypeOK
    <2>3. CASE ~CallDone(w)
      BY <1>3, <2>1, <2>3, NoJobType DEF Throw, TypeOK, Places
    <2> QED BY <2>2, <2>3
  <1>4. ASSUME NEW a \in Admins, RedriveWrite(a) PROVE TypeOK'
    <2>1. admin[a] \in Redrive BY <1>4 DEF RedriveWrite, TypeOK
    <2>2. Redriven(admin[a].receipt, admin[a].count) \in Row
      BY <2>1, RedrivenRow DEF Redrive
    <2> QED BY <1>4, <2>1, <2>2 DEF RedriveWrite, TypeOK, Redrive
  <1>5. ASSUME NEW a \in Admins, RedriveAbort(a) PROVE TypeOK'
    BY <1>5 DEF RedriveAbort, TypeOK
  <1>6. ASSUME NEW r \in Receipts, Commit(r) PROVE TypeOK'
    BY <1>6 DEF Commit, TypeOK, Row, States
  <1>7. ASSUME NEW w \in Workers, Reclaim(w) PROVE TypeOK'
    BY <1>7, ReturnedRow DEF Reclaim, TypeOK, Places
  <1>8. ASSUME NEW w \in Workers, Claim(w) PROVE TypeOK'
    <2>1. PICK r \in Receipts, t \in FreshTokens :
            /\ row' = [row EXCEPT ![r] = Claimed(r, w, t)]
            /\ job' = [job EXCEPT ![w] = [NoJob EXCEPT !.receipt = r, !.token = t]]
            /\ inflight' = [inflight EXCEPT ![w] = @ \cup {r}]
      BY <1>8 DEF Claim
    <2>2. t \in Tokens BY DEF FreshTokens
    <2>3. Claimed(r, w, t) \in Row BY <2>2, ClaimedRow
    <2>4. [NoJob EXCEPT !.receipt = r, !.token = t] \in Job BY <2>2, NoJobType DEF Job
    <2> QED BY <1>8, <2>1, <2>3, <2>4 DEF Claim, TypeOK, Places
  <1>9. ASSUME NEW w \in Workers, ClaimReplyLost(w) PROVE TypeOK'
    <2>1. PICK r \in Receipts, t \in FreshTokens :
            row' = [row EXCEPT ![r] = Claimed(r, w, t)]
      BY <1>9 DEF ClaimReplyLost
    <2>2. Claimed(r, w, t) \in Row BY ClaimedRow DEF FreshTokens
    <2> QED BY <1>9, <2>1, <2>2, FaultType DEF ClaimReplyLost, TypeOK, Places
  <1>10. ASSUME NEW w \in Workers, ClaimNothing(w) PROVE TypeOK'
    BY <1>10 DEF ClaimNothing, TypeOK, Places
  <1>11. ASSUME NEW w \in Workers, Execute(w) PROVE TypeOK'
    <2>1. PICK o \in Outcomes, n \in 1 .. 2 :
            job' = [job EXCEPT ![w].outcome = o, ![w].calls = n]
      BY <1>11 DEF Execute
    <2>2. n \in {0, 1, 2} OBVIOUS
    <2>3. job[w] \in Job BY DEF TypeOK
    <2>j. PICK j \in Job : j = job[w] BY <2>3
    <2>4. [j EXCEPT !.outcome = o, !.calls = n] \in Job BY <2>2 DEF Job
    <2>5. job' = [job EXCEPT ![w] = [j EXCEPT !.outcome = o, !.calls = n]]
      BY <2>1, <2>j
    <2>6. job' \in [Workers -> Job] BY <2>4, <2>5 DEF TypeOK
    <2>7. pc' \in [Workers -> Places] BY <1>11 DEF Execute, TypeOK, Places
    <2> QED BY <1>11, <2>6, <2>7 DEF Execute, TypeOK
  <1>12. ASSUME NEW w \in Workers, CompleteRead(w) PROVE TypeOK'
    <2>1. CASE Holds(w, job[w].receipt)
            /\ pc' = [pc EXCEPT ![w] = "write"] /\ UNCHANGED inflight
            /\ job' = [job EXCEPT ![w].verdict =
                         Decide(job[w].outcome, row[job[w].receipt].attempts)]
      <3>1. Decide(job[w].outcome, row[job[w].receipt].attempts) \in Results
        BY DEF Decide, Results
      <3>2. PICK v \in Results :
              v = Decide(job[w].outcome, row[job[w].receipt].attempts)
        BY <3>1
      <3>3. PICK j \in Job : j = job[w] BY DEF TypeOK
      <3>4. [j EXCEPT !.verdict = v] \in Job BY DEF Job
      <3>5. job' \in [Workers -> Job] BY <2>1, <3>2, <3>3, <3>4 DEF TypeOK
      <3>6. pc' \in [Workers -> Places] BY <2>1 DEF TypeOK, Places
      <3> QED BY <1>12, <2>1, <3>5, <3>6 DEF CompleteRead, TypeOK
    <2>2. CASE CallDone(w) BY <1>12, <2>2, CallDoneType DEF CompleteRead, TypeOK
    <2> QED BY <1>12, <2>1, <2>2 DEF CompleteRead
  <1>13. ASSUME NEW w \in Workers, Extend(w) PROVE TypeOK'
    <2>1. PICK n \in 0 .. LeaseTicks + 1 : n = LeaseTicks + 1 BY NullFacts
    <2>2. ASSUME NEW x \in Row PROVE [x EXCEPT !.left = n] \in Row BY DEF Row
    <2>3. row' = [row EXCEPT ![job[w].receipt] = [row[job[w].receipt] EXCEPT !.left = n]]
      BY <1>13, <2>1 DEF Extend
    <2>4. row' \in [Receipts -> Row] BY <2>2, <2>3 DEF TypeOK
    <2> QED BY <1>13, <2>4 DEF Extend, TypeOK
  <1>14. ASSUME NEW w \in Workers, Release(w) PROVE TypeOK'
    <2>1. row' \in [Receipts -> Row] BY <1>14, ReturnedRow DEF Release, TypeOK
    <2> QED BY <1>14, <2>1, FaultType, NoJobType DEF Release, TypeOK, Places
  <1>15. ASSUME NEW w \in Workers, StopBegin(w) PROVE TypeOK'
    BY <1>15, FaultType DEF StopBegin, TypeOK, Stops
  <1>16. ASSUME NEW w \in Workers, StopRelease(w) PROVE TypeOK'
    BY <1>16, ReturnedRow DEF StopRelease, TypeOK, Stops
  <1>17. ASSUME NEW w \in Workers, StopEnd(w) PROVE TypeOK'
    BY <1>17, GoneType DEF StopEnd, TypeOK, Stops
  <1>18. ASSUME NEW w \in Workers, Crash(w) PROVE TypeOK'
    BY <1>18, GoneType, FaultType DEF Crash, TypeOK, Stops
  <1>19. ASSUME NEW w \in Workers, Restart(w) PROVE TypeOK'
    BY <1>19 DEF Restart, TypeOK, Places, Stops
  <1>20. ASSUME NEW a \in Admins, NEW r \in Receipts, RedriveRead(a, r) PROVE TypeOK'
    BY <1>20 DEF RedriveRead, TypeOK, Redrive, Row
  <1>21. ASSUME Tick PROVE TypeOK'
    <2>1. row' \in [Receipts -> Row] BY <1>21, TickedRow DEF Tick, TypeOK
    <2> QED BY <1>21, <2>1, FaultType DEF Tick, TypeOK
  <1> QED
    BY <1>1, <1>2, <1>3, <1>4, <1>5, <1>6, <1>7, <1>8, <1>9, <1>10, <1>11, <1>12, <1>13,
       <1>14, <1>15, <1>16, <1>17, <1>18, <1>19, <1>20, <1>21 DEF Next, Loop, Other

\* TypeOK holds in every state, for all values of the constants.
THEOREM TypeCorrect == Spec => []TypeOK
  BY InitType, TypeStep, PTL DEF Spec
-----------------------------------------------------------------------------
(***************************************************************************)
(* What a step does to leases and to the jobs in hand.  Either every row   *)
(* keeps its lease or loses it and every process keeps its job or drops    *)
(* it, or a row is claimed under a token nobody has.                       *)
(***************************************************************************)
KeepsLease(r) == /\ row'[r].token = row[r].token
                 /\ row'[r].owner = row[r].owner
                 /\ row'[r].state = "LEASED" <=> row[r].state = "LEASED"
                 /\ row'[r].left > 0 => row[r].left > 0 \/ row[r].state = "LEASED"

DropsLease(r) == /\ row'[r].token = NoToken /\ row'[r].owner = NoOwner
                 /\ row'[r].state # "LEASED" /\ row'[r].left = 0

KeepsJob(w) == /\ job'[w].receipt = job[w].receipt /\ job'[w].token = job[w].token
               /\ pc'[w] \in Busy <=> pc[w] \in Busy
               /\ pc[w] \notin Busy => job'[w] = job[w]

DropsJob(w) == job'[w] = NoJob /\ pc'[w] \notin Busy

QuietStep == /\ \A r \in Receipts : KeepsLease(r) \/ DropsLease(r)
             /\ \A w \in Workers : KeepsJob(w) \/ DropsJob(w)

ClaimStep == \E w \in Workers, r \in Receipts, t \in FreshTokens :
               /\ row' = [row EXCEPT ![r] = Claimed(r, w, t)]
               /\ \A v \in Workers \ {w} : KeepsJob(v)
               /\ \/ pc'[w] \in Busy /\ job'[w].receipt = r /\ job'[w].token = t
                  \/ KeepsJob(w)

LEMMA SameRows == ASSUME TypeOK, UNCHANGED row
                  PROVE  \A r \in Receipts : KeepsLease(r)
  BY DEF KeepsLease

LEMMA SameJobs == ASSUME TypeOK, UNCHANGED <<pc, job>>
                  PROVE  \A w \in Workers : KeepsJob(w)
  BY DEF KeepsJob

LEMMA CallDoneJobs ==
    ASSUME TypeOK, NEW w \in Workers, pc[w] \in Busy, CallDone(w)
    PROVE  \A v \in Workers : KeepsJob(v) \/ DropsJob(v)
  <1> SUFFICES ASSUME NEW v \in Workers PROVE KeepsJob(v) \/ DropsJob(v) OBVIOUS
  <1>0. job[w] \in Job BY DEF TypeOK
  <1>1. CASE v # w BY <1>1 DEF CallDone, KeepsJob, TypeOK
  <1>2. CASE v = w /\ job[w].calls = 2
    <2>1. pc'[w] = "complete" /\ job'[w] = [job[w] EXCEPT !.calls = 1]
      BY <1>2 DEF CallDone, TypeOK
    <2>2. job'[w].receipt = job[w].receipt /\ job'[w].token = job[w].token
      BY <1>0, <2>1 DEF Job
    <2> QED BY <1>2, <2>1, <2>2 DEF KeepsJob, Busy
  <1>3. CASE v = w /\ job[w].calls # 2
    BY <1>3 DEF CallDone, DropsJob, TypeOK, Busy
  <1> QED BY <1>1, <1>2, <1>3

LEMMA GoneJobs ==
    ASSUME TypeOK, NEW w \in Workers, Gone(w)
    PROVE  \A v \in Workers : KeepsJob(v) \/ DropsJob(v)
  BY DEF Gone, KeepsJob, DropsJob, TypeOK, Busy

LEMMA WroteRow ==
    ASSUME TypeOK, NEW r, NEW x, row' = [row EXCEPT ![r] = x],
           r \in Receipts => /\ x.token = NoToken /\ x.owner = NoOwner
                             /\ x.state # "LEASED" /\ x.left = 0
    PROVE  \A s \in Receipts : KeepsLease(s) \/ DropsLease(s)
  <1> SUFFICES ASSUME NEW s \in Receipts PROVE KeepsLease(s) \/ DropsLease(s) OBVIOUS
  <1>1. CASE s = r BY <1>1 DEF DropsLease, TypeOK
  <1>2. CASE s # r BY <1>2 DEF KeepsLease, TypeOK
  <1> QED BY <1>1, <1>2

LEMMA ReturnedRows ==
    ASSUME TypeOK, NEW S, row' = [r \in Receipts |-> IF r \in S THEN Returned(r) ELSE row[r]]
    PROVE  \A r \in Receipts : KeepsLease(r) \/ DropsLease(r)
  BY ReturnedRow DEF KeepsLease, DropsLease

LEMMA Effects == ASSUME TypeOK, [Next]_vars PROVE QuietStep \/ ClaimStep
  <1>1. CASE UNCHANGED vars BY <1>1, SameRows, SameJobs DEF vars, QuietStep
  <1>2. ASSUME NEW w \in Workers, CompleteWrite(w) PROVE QuietStep
    <2> DEFINE r == job[w].receipt
    <2>1. job[w].verdict \in Results BY DEF TypeOK, Job
    <2>2. PICK d \in Delays : row' = [row EXCEPT ![r] = Written(r, job[w].verdict, d)]
      BY <1>2 DEF CompleteWrite
    <2>3. r \in Receipts => /\ Written(r, job[w].verdict, d).token = NoToken
                            /\ Written(r, job[w].verdict, d).owner = NoOwner
                            /\ Written(r, job[w].verdict, d).state # "LEASED"
                            /\ Written(r, job[w].verdict, d).left = 0
      BY <2>1, WrittenRow, NullFacts DEF Results
    <2>4. \A s \in Receipts : KeepsLease(s) \/ DropsLease(s)
      <3> HIDE DEF r
      <3> QED BY <2>2, <2>3, WroteRow
    <2>5. pc[w] \in Busy BY <1>2 DEF CompleteWrite, Busy
    <2> QED BY <1>2, <2>4, <2>5, CallDoneJobs DEF CompleteWrite, QuietStep
  <1>3. ASSUME NEW w \in Workers, Throw(w) PROVE QuietStep
    <2>1. \A v \in Workers : KeepsJob(v) \/ DropsJob(v)
      <3>1. CASE CallDone(w) BY <1>3, <3>1, CallDoneJobs DEF Throw
      <3>2. CASE ~CallDone(w) BY <1>3, <3>2 DEF Throw, KeepsJob, DropsJob, TypeOK, Busy
      <3> QED BY <3>1, <3>2
    <2> QED BY <1>3, <2>1, SameRows DEF Throw, QuietStep
  <1>4. ASSUME NEW a \in Admins, RedriveWrite(a) PROVE QuietStep
    <2>1. admin[a] \in Redrive BY <1>4 DEF RedriveWrite, TypeOK
    <2> DEFINE x == Redriven(admin[a].receipt, admin[a].count)
    <2>2. x.token = NoToken /\ x.owner = NoOwner /\ x.state # "LEASED" /\ x.left = 0
      BY <2>1, RedrivenRow DEF Redrive
    <2>3. row' = [row EXCEPT ![admin[a].receipt] = x] BY <1>4 DEF RedriveWrite
    <2>4. \A s \in Receipts : KeepsLease(s) \/ DropsLease(s)
      <3> HIDE DEF x
      <3> QED BY <2>2, <2>3, WroteRow
    <2> QED BY <1>4, <2>4, SameJobs DEF RedriveWrite, QuietStep
  <1>5. ASSUME NEW a \in Admins, RedriveAbort(a) PROVE QuietStep
    BY <1>5, SameRows, SameJobs DEF RedriveAbort, QuietStep
  <1>6. ASSUME NEW r \in Receipts, Commit(r) PROVE QuietStep
    <2>1. row[r] \in Row BY DEF TypeOK
    <2>2. row'[r] = [row[r] EXCEPT !.state = "PENDING"] BY <1>6 DEF Commit, TypeOK
    <2>3. KeepsLease(r) BY <1>6, <2>1, <2>2 DEF Commit, KeepsLease, Row
    <2>4. \A s \in Receipts \ {r} : KeepsLease(s)
      BY <1>6 DEF Commit, KeepsLease, TypeOK
    <2> QED BY <1>6, <2>3, <2>4, SameJobs DEF Commit, QuietStep
  <1>7. ASSUME NEW w \in Workers, Reclaim(w) PROVE QuietStep
    <2>1. row' = [r \in Receipts |->
                    IF r \in {s \in Receipts : Expired(s)} THEN Returned(r) ELSE row[r]]
      BY <1>7 DEF Reclaim
    <2>2. \A v \in Workers : KeepsJob(v)
      BY <1>7 DEF Reclaim, KeepsJob, TypeOK, Busy
    <2> QED BY <2>1, <2>2, ReturnedRows DEF QuietStep
  <1>8. ASSUME NEW w \in Workers, Claim(w) PROVE ClaimStep
    <2>1. PICK r \in Receipts, t \in FreshTokens :
            /\ row' = [row EXCEPT ![r] = Claimed(r, w, t)]
            /\ job' = [job EXCEPT ![w] = [NoJob EXCEPT !.receipt = r, !.token = t]]
      BY <1>8 DEF Claim
    <2>2. job'[w].receipt = r /\ job'[w].token = t
      BY <2>1 DEF TypeOK, NoJob
    <2>3. pc' = [pc EXCEPT ![w] = "execute"] BY <1>8 DEF Claim
    <2>4. pc'[w] \in Busy BY <2>3 DEF TypeOK, Busy
    <2>5. \A v \in Workers \ {w} : KeepsJob(v)
      BY <2>1, <2>3 DEF TypeOK, KeepsJob
    <2> QED BY <2>1, <2>2, <2>4, <2>5 DEF ClaimStep
  <1>9. ASSUME NEW w \in Workers, ClaimReplyLost(w) PROVE ClaimStep
    <2>1. PICK r \in Receipts, t \in FreshTokens :
            row' = [row EXCEPT ![r] = Claimed(r, w, t)]
      BY <1>9 DEF ClaimReplyLost
    <2>2. \A v \in Workers : KeepsJob(v)
      BY <1>9 DEF ClaimReplyLost, KeepsJob, TypeOK, Busy
    <2> QED BY <2>1, <2>2 DEF ClaimStep
  <1>10. ASSUME NEW w \in Workers, ClaimNothing(w) PROVE QuietStep
    <2>1. \A v \in Workers : KeepsJob(v)
      BY <1>10 DEF ClaimNothing, KeepsJob, TypeOK, Busy
    <2> QED BY <1>10, <2>1, SameRows DEF ClaimNothing, QuietStep
  <1>11. ASSUME NEW w \in Workers, Execute(w) PROVE QuietStep
    <2>1. PICK o \in Outcomes, n \in 1 .. 2 :
            job' = [job EXCEPT ![w].outcome = o, ![w].calls = n]
      BY <1>11 DEF Execute
    <2>2. pc[w] \in Busy /\ pc' = [pc EXCEPT ![w] = "complete"]
      BY <1>11 DEF Execute, Busy
    <2>3. job[w] \in Job BY DEF TypeOK
    <2>4. job' = [job EXCEPT ![w] = [job[w] EXCEPT !.outcome = o, !.calls = n]]
      BY <2>1, <2>3 DEF TypeOK
    <2>5. job'[w].receipt = job[w].receipt /\ job'[w].token = job[w].token
      BY <2>3, <2>4 DEF Job, TypeOK
    <2>6. \A v \in Workers \ {w} : KeepsJob(v) BY <2>2, <2>4 DEF KeepsJob, TypeOK
    <2>7. KeepsJob(w) BY <2>2, <2>5 DEF KeepsJob, TypeOK, Busy
    <2> QED BY <1>11, <2>6, <2>7, SameRows DEF Execute, QuietStep
  <1>12. ASSUME NEW w \in Workers, CompleteRead(w) PROVE QuietStep
    <2>1. pc[w] \in Busy BY <1>12 DEF CompleteRead, Busy
    <2>2. CASE /\ pc' = [pc EXCEPT ![w] = "write"]
               /\ job' = [job EXCEPT ![w].verdict =
                            Decide(job[w].outcome, row[job[w].receipt].attempts)]
      <3>1. job[w] \in Job BY DEF TypeOK
      <3>2. job'[w].receipt = job[w].receipt /\ job'[w].token = job[w].token
        BY <2>2, <3>1 DEF Job, TypeOK
      <3>3. \A v \in Workers \ {w} : KeepsJob(v) BY <2>2 DEF KeepsJob, TypeOK
      <3>4. KeepsJob(w) BY <2>1, <2>2, <3>2 DEF KeepsJob, TypeOK, Busy
      <3> QED BY <1>12, <3>3, <3>4, SameRows DEF CompleteRead, QuietStep
    <2>3. CASE CallDone(w)
      BY <1>12, <2>1, <2>3, CallDoneJobs, SameRows DEF CompleteRead, QuietStep
    <2> QED BY <1>12, <2>2, <2>3 DEF CompleteRead
  <1>13. ASSUME NEW w \in Workers, Extend(w) PROVE QuietStep
    <2> DEFINE r == job[w].receipt
    <2>1. row' = [row EXCEPT ![r] = [row[r] EXCEPT !.left = LeaseTicks + 1]]
          /\ row[r].state = "LEASED"
      BY <1>13 DEF Extend, Holds
    <2>2. ASSUME NEW s \in Receipts PROVE KeepsLease(s)
      <3>0. row[s] \in Row BY DEF TypeOK
      <3>1. CASE s = r
        <4>1. row'[s] = [row[s] EXCEPT !.left = LeaseTicks + 1] BY <2>1, <3>1 DEF TypeOK
        <4> HIDE DEF r
        <4> QED BY <4>1, <3>0, <2>1, <3>1 DEF KeepsLease, Row
      <3>2. CASE s # r BY <2>1, <3>2 DEF KeepsLease, TypeOK
      <3> QED BY <3>1, <3>2
    <2> QED BY <1>13, <2>2, SameJobs DEF Extend, QuietStep
  <1>14. ASSUME NEW w \in Workers, Release(w) PROVE QuietStep
    <2>1. \A s \in Receipts : KeepsLease(s) \/ DropsLease(s)
      BY <1>14, ReturnedRow, WroteRow, SameRows DEF Release
    <2>2. \A v \in Workers : KeepsJob(v) \/ DropsJob(v)
      BY <1>14 DEF Release, KeepsJob, DropsJob, TypeOK, Busy
    <2> QED BY <2>1, <2>2 DEF QuietStep
  <1>15. ASSUME NEW w \in Workers, StopBegin(w) PROVE QuietStep
    BY <1>15, SameRows, SameJobs DEF StopBegin, QuietStep
  <1>16. ASSUME NEW w \in Workers, StopRelease(w) PROVE QuietStep
    <2>1. row' = [r \in Receipts |->
                    IF r \in {s \in Receipts : row[s].state = "LEASED"
                                               /\ row[s].owner = WorkerId[w]}
                    THEN Returned(r) ELSE row[r]]
      BY <1>16 DEF StopRelease
    <2> QED BY <1>16, <2>1, ReturnedRows, SameJobs DEF StopRelease, QuietStep
  <1>17. ASSUME NEW w \in Workers, StopEnd(w) PROVE QuietStep
    BY <1>17, GoneJobs, SameRows DEF StopEnd, QuietStep
  <1>18. ASSUME NEW w \in Workers, Crash(w) PROVE QuietStep
    BY <1>18, GoneJobs, SameRows DEF Crash, QuietStep
  <1>19. ASSUME NEW w \in Workers, Restart(w) PROVE QuietStep
    <2>1. \A v \in Workers : KeepsJob(v)
      BY <1>19 DEF Restart, Up, KeepsJob, TypeOK, Busy
    <2> QED BY <1>19, <2>1, SameRows DEF Restart, QuietStep
  <1>20. ASSUME NEW a \in Admins, NEW r \in Receipts, RedriveRead(a, r) PROVE QuietStep
    BY <1>20, SameRows, SameJobs DEF RedriveRead, QuietStep
  <1>21. ASSUME Tick PROVE QuietStep
    <2>1. ASSUME NEW r \in Receipts PROVE KeepsLease(r)
      <3>1. row[r] \in Row BY DEF TypeOK
      <3>2. row'[r] = Ticked(row[r]) BY <1>21 DEF Tick
      <3> QED BY <3>1, <3>2, TickedRow DEF KeepsLease
    <2> QED BY <1>21, <2>1, SameJobs DEF Tick, QuietStep
  <1> QED
    BY <1>1, <1>2, <1>3, <1>4, <1>5, <1>6, <1>7, <1>8, <1>9, <1>10, <1>11, <1>12, <1>13,
       <1>14, <1>15, <1>16, <1>17, <1>18, <1>19, <1>20, <1>21 DEF Next, Loop, Other

LEMMA InitSafe == Init => LeaseShape /\ TokenInv
  BY NullFacts DEF Init, LeaseShape, TokenInv, NoJob, Busy

LEMMA QuietSafe == TypeOK /\ LeaseShape /\ TokenInv /\ QuietStep => LeaseShape' /\ TokenInv'
  <1> SUFFICES ASSUME TypeOK, LeaseShape, TokenInv, QuietStep
               PROVE  LeaseShape' /\ TokenInv'
    OBVIOUS
  <1>1. \A r \in Receipts : KeepsLease(r) \/ DropsLease(r)
    BY DEF QuietStep
  <1>2. \A w \in Workers : KeepsJob(w) \/ DropsJob(w) BY DEF QuietStep
  <1>3. LeaseShape'
    BY <1>1 DEF LeaseShape, KeepsLease, DropsLease
  <1>4. \A r \in Receipts : row'[r].token # NoToken =>
                              row'[r].token = row[r].token /\ row'[r].owner = row[r].owner
    BY <1>1 DEF KeepsLease, DropsLease
  <1>5. \A w \in Workers : job'[w].token # NoToken =>
                              /\ job'[w].token = job[w].token
                              /\ job'[w].receipt = job[w].receipt
    BY <1>2 DEF KeepsJob, DropsJob, NoJob
  <1>6. \A w \in Workers : IF pc'[w] \in Busy
                           THEN job'[w].receipt \in Receipts /\ job'[w].token \in Tokens
                           ELSE job'[w] = NoJob
    BY <1>2 DEF TokenInv, KeepsJob, DropsJob
  <1>7. TokenInv'
    BY <1>4, <1>5, <1>6 DEF TokenInv
  <1> QED BY <1>3, <1>7

LEMMA ClaimSafe == TypeOK /\ LeaseShape /\ TokenInv /\ ClaimStep => LeaseShape' /\ TokenInv'
  <1> SUFFICES ASSUME TypeOK, LeaseShape, TokenInv, ClaimStep
               PROVE  LeaseShape' /\ TokenInv'
    OBVIOUS
  <1>1. PICK w \in Workers, r \in Receipts, t \in FreshTokens :
               /\ row' = [row EXCEPT ![r] = Claimed(r, w, t)]
               /\ \A v \in Workers \ {w} : KeepsJob(v)
               /\ \/ pc'[w] \in Busy /\ job'[w].receipt = r /\ job'[w].token = t
                  \/ KeepsJob(w)
    BY DEF ClaimStep
  <1>2. /\ t \in Tokens /\ t # NoToken /\ \A s \in Receipts : row[s].token # t
        /\ \A v \in Workers : job[v].token # t
    BY NullFacts DEF FreshTokens
  <1>3. /\ row'[r].state = "LEASED" /\ row'[r].token = t /\ row'[r].owner = WorkerId[w]
        /\ WorkerId[w] # NoOwner
    BY <1>1, <1>2, ClaimedRow, NullFacts DEF TypeOK
  <1>4. \A s \in Receipts \ {r} : row'[s] = row[s] BY <1>1 DEF TypeOK
  <1>5. LeaseShape' BY <1>2, <1>3, <1>4 DEF LeaseShape
  <1>6. \A v \in Workers : job'[v].token # NoToken =>
              \/ job'[v].token = job[v].token /\ job'[v].receipt = job[v].receipt
              \/ v = w /\ job'[v].token = t /\ job'[v].receipt = r
    BY <1>1 DEF KeepsJob
  <1>7. \A v \in Workers : IF pc'[v] \in Busy
                           THEN job'[v].receipt \in Receipts /\ job'[v].token \in Tokens
                           ELSE job'[v] = NoJob
    BY <1>1, <1>2 DEF TokenInv, KeepsJob
  <1>8. TokenInv' BY <1>2, <1>3, <1>4, <1>6, <1>7 DEF TokenInv
  <1> QED BY <1>5, <1>8

LEMMA SafeStep == TypeOK /\ LeaseShape /\ TokenInv /\ [Next]_vars => LeaseShape' /\ TokenInv'
  BY Effects, QuietSafe, ClaimSafe

\* LeaseShape holds in every state: a row written by a late completion or redrive
\* never keeps part of a lease.
THEOREM LeasesAreWhole == Spec => []LeaseShape
  BY InitType, InitSafe, TypeStep, SafeStep, PTL DEF Spec

\* TokenInv holds in every state.
THEOREM TokensAreUnique == Spec => []TokenInv
  BY InitType, InitSafe, TypeStep, SafeStep, PTL DEF Spec

\* OneLease: at most one lease per receipt and one process that passes its fence,
\* however the transactions overlap, even if processes share a workerId.
THEOREM AtMostOneLease == Spec => []OneLease
  <1>1. TypeOK /\ LeaseShape /\ TokenInv => OneLease
    BY DEF OneLease, TokenInv, LeaseShape, Holds
  <1> QED BY <1>1, InitType, InitSafe, TypeStep, SafeStep, PTL DEF Spec
-----------------------------------------------------------------------------
(***************************************************************************)
(* How a lease ends.  Only completeReceipt begins to write a result, with  *)
(* its fence in the row, and only redriveReceipt begins a redrive, of a    *)
(* dead letter: what is not so at the UPDATE was so at the SELECT.         *)
(***************************************************************************)
LEMMA WriteBegins ==
    ASSUME TypeOK, Next, NEW w \in Workers, pc[w] # "write", pc'[w] = "write"
    PROVE  Holds(w, job[w].receipt)'
  <1>1. ASSUME NEW v \in Workers, CompleteWrite(v) \/ Throw(v) PROVE FALSE
    BY <1>1 DEF CompleteWrite, Throw, CallDone, TypeOK
  <1>2. ASSUME NEW v \in Workers, Reclaim(v) \/ Claim(v) \/ ClaimNothing(v) \/ Execute(v)
        PROVE  FALSE
    BY <1>2 DEF Reclaim, Claim, ClaimNothing, Execute, TypeOK
  <1>3. ASSUME NEW v \in Workers, StopRelease(v) \/ StopEnd(v) PROVE FALSE
    BY <1>3 DEF StopRelease, StopEnd, Gone, TypeOK
  <1>4. ASSUME NEW v \in Workers, Extend(v) \/ Release(v) \/ ClaimReplyLost(v)
        PROVE  FALSE
    BY <1>4 DEF Extend, Release, ClaimReplyLost, TypeOK
  <1>5. ASSUME NEW v \in Workers, StopBegin(v) \/ Crash(v) \/ Restart(v) PROVE FALSE
    BY <1>5 DEF StopBegin, Crash, Restart, Gone, TypeOK
  <1>6. ASSUME UNCHANGED pc PROVE FALSE BY <1>6
  <1>7. ASSUME NEW a \in Admins, RedriveWrite(a) \/ RedriveAbort(a) PROVE FALSE
    BY <1>6, <1>7 DEF RedriveWrite, RedriveAbort
  <1>8. ASSUME NEW a \in Admins, NEW r \in Receipts, RedriveRead(a, r) PROVE FALSE
    BY <1>6, <1>8 DEF RedriveRead
  <1>9. ASSUME (\E r \in Receipts : Commit(r)) \/ Tick PROVE FALSE
    BY <1>6, <1>9 DEF Commit, Tick
  <1>10. ASSUME NEW v \in Workers, CompleteRead(v) PROVE Holds(w, job[w].receipt)'
    <2>1. CASE CallDone(v) BY <1>10, <2>1 DEF CallDone, TypeOK
    <2>2. CASE /\ Holds(v, job[v].receipt) /\ pc' = [pc EXCEPT ![v] = "write"]
               /\ job' = [job EXCEPT ![v].verdict =
                            Decide(job[v].outcome, row[job[v].receipt].attempts)]
      <3>1. v = w BY <2>2 DEF TypeOK
      <3>2. PICK j \in Job : j = job[w] BY DEF TypeOK
      <3>3. PICK d : d = Decide(job[w].outcome, row[job[w].receipt].attempts) OBVIOUS
      <3>4. job'[w] = [j EXCEPT !.verdict = d] BY <2>2, <3>1, <3>2, <3>3 DEF TypeOK
      <3>5. job'[w].receipt = job[w].receipt /\ job'[w].token = job[w].token
        BY <3>2, <3>4 DEF Job
      <3> QED BY <1>10, <2>2, <3>1, <3>5 DEF CompleteRead, Holds
    <2> QED BY <1>10, <2>1, <2>2 DEF CompleteRead
  <1> QED
    BY <1>1, <1>2, <1>3, <1>4, <1>5, <1>7, <1>8, <1>9, <1>10 DEF Next, Loop, Other

LEMMA RedriveBegins ==
    ASSUME TypeOK, Next, NEW a \in Admins, admin[a] = NoRedrive, admin'[a] # NoRedrive
    PROVE  row'[admin'[a].receipt].state = "DEAD_LETTERED"
  <1>1. ASSUME UNCHANGED admin PROVE FALSE BY <1>1
  <1>2. ASSUME NEW w \in Workers,
               \/ CompleteWrite(w) \/ Throw(w) \/ Reclaim(w) \/ Claim(w) \/ ClaimNothing(w)
               \/ Execute(w) \/ CompleteRead(w) \/ StopRelease(w) \/ StopEnd(w)
        PROVE  FALSE
    BY <1>1, <1>2 DEF CompleteWrite, Throw, Reclaim, Claim, ClaimNothing, Execute,
                      CompleteRead, StopRelease, StopEnd
  <1>3. ASSUME NEW w \in Workers, Other(w) PROVE FALSE
    BY <1>1, <1>3 DEF Other, Extend, Release, ClaimReplyLost, StopBegin, Crash, Restart
  <1>4. ASSUME (\E r \in Receipts : Commit(r)) \/ Tick PROVE FALSE
    BY <1>1, <1>4 DEF Commit, Tick
  <1>5. ASSUME NEW b \in Admins, RedriveWrite(b) \/ RedriveAbort(b) PROVE FALSE
    BY <1>5 DEF RedriveWrite, RedriveAbort, TypeOK
  <1>6. ASSUME NEW b \in Admins, NEW r \in Receipts, RedriveRead(b, r)
        PROVE  row'[admin'[a].receipt].state = "DEAD_LETTERED"
    <2>1. PICK n : n = row[r].redrives + 1 OBVIOUS
    <2>2. /\ admin' = [admin EXCEPT ![b] = [receipt |-> r, count |-> n]]
          /\ row' = row /\ row[r].state = "DEAD_LETTERED"
      BY <1>6, <2>1 DEF RedriveRead
    <2>3. b = a BY <2>2 DEF TypeOK
    <2>4. admin'[a] = [receipt |-> r, count |-> n] BY <2>2, <2>3 DEF TypeOK
    <2> QED BY <2>2, <2>4
  <1> QED BY <1>2, <1>3, <1>4, <1>5, <1>6 DEF Next, Loop

LEMMA LeaseStep ==
    ASSUME TypeOK, Next, NEW r \in Receipts,
           row[r].state = "LEASED", row'[r].token # row[r].token
    PROVE  EndsByRight(r) \/ LateResult(r) \/ LateRedrive(r)
  <1>0. row[r] \in Row BY DEF TypeOK
  <1>1. ASSUME NEW w \in Workers, CompleteWrite(w)
        PROVE  (Holds(w, r) /\ pc[w] = "write") \/ LateResult(r)
    <2>1. pc[w] = "write" BY <1>1 DEF CompleteWrite
    <2>2. \A s \in Receipts : s # job[w].receipt => row'[s] = row[s]
      BY <1>1 DEF CompleteWrite, TypeOK
    <2>3. r = job[w].receipt BY <2>2
    <2> QED BY <1>1, <2>1, <2>3 DEF Overtaken, LateResult
  <1>2. ASSUME NEW a \in Admins, RedriveWrite(a) PROVE LateRedrive(r)
    <2>1. admin[a] # NoRedrive BY <1>2 DEF RedriveWrite
    <2>2. \A s \in Receipts : s # admin[a].receipt => row'[s] = row[s]
      BY <1>2 DEF RedriveWrite, TypeOK
    <2>3. r = admin[a].receipt BY <2>2
    <2> QED BY <1>2, <2>1, <2>3 DEF OvertakenRedrive, LateRedrive
  <1>3. ASSUME NEW s \in Receipts, Commit(s) PROVE FALSE
    BY <1>3 DEF Commit, TypeOK
  <1>4. ASSUME NEW w \in Workers, Reclaim(w) PROVE Expired(r) BY <1>4 DEF Reclaim
  <1>5. ASSUME NEW w \in Workers, Claim(w) \/ ClaimReplyLost(w) PROVE FALSE
    <2>1. PICK s \in Receipts, t \in FreshTokens :
            Claimable(s) /\ row' = [row EXCEPT ![s] = Claimed(s, w, t)]
      BY <1>5 DEF Claim, ClaimReplyLost
    <2>2. s # r BY <2>1 DEF Claimable
    <2> QED BY <2>1, <2>2 DEF TypeOK
  <1>6. ASSUME NEW w \in Workers, Extend(w) PROVE FALSE
    <2>1. row' = [row EXCEPT ![job[w].receipt] =
                      [row[job[w].receipt] EXCEPT !.left = LeaseTicks + 1]]
      BY <1>6 DEF Extend
    <2>2. r = job[w].receipt BY <2>1 DEF TypeOK
    <2>3. row'[r] = [row[r] EXCEPT !.left = LeaseTicks + 1] BY <2>1, <2>2 DEF TypeOK
    <2> QED BY <2>3, <1>0 DEF Row
  <1>7. ASSUME NEW w \in Workers, Release(w)
        PROVE  Holds(w, r) /\ pc[w] = "execute"
    BY <1>7 DEF Release, TypeOK
  <1>8. ASSUME NEW w \in Workers, StopRelease(w)
        PROVE  stop[w] = "release" /\ WorkerId[w] = row[r].owner
    BY <1>8 DEF StopRelease
  <1>9. ASSUME Tick PROVE FALSE
    <2>1. row'[r] = Ticked(row[r]) BY <1>9 DEF Tick
    <2> QED BY <2>1, <1>0, TickedRow
  <1>10. ASSUME UNCHANGED row PROVE FALSE BY <1>10
  <1>11. ASSUME NEW w \in Workers,
                \/ Throw(w) \/ ClaimNothing(w) \/ Execute(w) \/ CompleteRead(w)
                \/ StopEnd(w) \/ StopBegin(w) \/ Crash(w) \/ Restart(w)
         PROVE  FALSE
    BY <1>10, <1>11 DEF Throw, ClaimNothing, Execute, CompleteRead, StopEnd, StopBegin,
                        Crash, Restart
  <1>12. ASSUME NEW a \in Admins, RedriveAbort(a) PROVE FALSE
    BY <1>10, <1>12 DEF RedriveAbort
  <1>13. ASSUME NEW a \in Admins, NEW s \in Receipts, RedriveRead(a, s) PROVE FALSE
    BY <1>10, <1>13 DEF RedriveRead
  <1> QED
    BY <1>1, <1>2, <1>3, <1>4, <1>5, <1>6, <1>7, <1>8, <1>9, <1>11, <1>12, <1>13
       DEF Next, Loop, Other, EndsByRight

\* LeaseLost: no step takes a lease away but its expiry, its own process, a stop()
\* under its owner's workerId, or the late UPDATE of a transaction that had found
\* its fence, or its dead letter, and was overtaken.
THEOREM LostByRightOrOvertaken == Spec => LeaseLost
  <1> DEFINE Lost ==
         /\ \A r \in Receipts :
               row[r].state = "LEASED" /\ row'[r].token # row[r].token =>
                  EndsByRight(r) \/ LateResult(r) \/ LateRedrive(r)
         /\ \A w \in Workers : Overtaken(w)' => pc[w] = "write"
         /\ \A a \in Admins  : OvertakenRedrive(a)' => admin[a] # NoRedrive
  <1>1. TypeOK /\ [Next]_vars => [Lost]_vars
    <2> SUFFICES ASSUME TypeOK, Next PROVE Lost OBVIOUS
    <2>1. \A w \in Workers : Overtaken(w)' => pc[w] = "write"
      BY WriteBegins DEF Overtaken
    <2>2. \A a \in Admins : OvertakenRedrive(a)' => admin[a] # NoRedrive
      BY RedriveBegins DEF OvertakenRedrive
    <2> QED BY <2>1, <2>2, LeaseStep
  <1> QED BY <1>1, InitType, TypeStep, PTL DEF Spec, LeaseLost
-----------------------------------------------------------------------------
(***************************************************************************)
(* The table implements the abstract queue, up to the overtaken writes.    *)
(***************************************************************************)
stage  == [r \in Receipts |-> Stage(r)]
holder == [r \in Receipts |-> row[r].owner]

\* A row keeps its place in the queue.
Stays(r) == Stage(r)' = Stage(r) /\ row'[r].owner = row[r].owner

LEMMA Stutter ==
    ASSUME \A r \in Receipts : Stays(r)
    PROVE  UNCHANGED <<stage, holder>>
  BY DEF Stays, stage, holder

LEMMA RevokeStep ==
    ASSUME TypeOK, NEW S \in SUBSET Receipts, \A r \in S : row[r].state = "LEASED",
           row' = [r \in Receipts |-> IF r \in S THEN Returned(r) ELSE row[r]]
    PROVE  Queue!Revoke(S)
  <1>1. \A r \in S : Stage(r) = "held" BY DEF Stage
  <1>2. \A r \in Receipts : Stage(r)' = IF r \in S THEN "ready" ELSE Stage(r)
    <2> SUFFICES ASSUME NEW r \in Receipts
                 PROVE  Stage(r)' = IF r \in S THEN "ready" ELSE Stage(r)
      OBVIOUS
    <2>1. CASE r \in S
      <3>1. row'[r].state = "PENDING" BY <2>1, ReturnedRow
      <3> QED BY <2>1, <3>1 DEF Stage
    <2>2. CASE r \notin S
      <3>1. row'[r] = row[r] BY <2>2
      <3>2. Stage(r)' = Stage(r) BY <3>1 DEF Stage
      <3> QED BY <2>2, <3>2
    <2> QED BY <2>1, <2>2
  <1>3. \A r \in Receipts : row'[r].owner = IF r \in S THEN NoOwner ELSE row[r].owner
    BY ReturnedRow
  <1> QED BY <1>1, <1>2, <1>3 DEF Queue!Revoke

LEMMA InitQueue == Init => Queue!Init
  BY DEF Init, Queue!Init, Stage

\* What the table does as seen by its users.
QueueNext ==
    \/ Queue!Next
    \/ \E r \in Receipts :
         \/ LateResult(r) /\ \E result \in Queue!Results : Queue!Overwrite(r, result)
         \/ LateRedrive(r) /\ Queue!Overwrite(r, "ready")

LEMMA QueueStep ==
    ASSUME TypeOK, LeaseShape, [Next]_vars
    PROVE  [QueueNext]_<<stage, holder>>
  <1>0. \A r \in Receipts : row[r] \in Row BY DEF TypeOK
  <1>1. ASSUME UNCHANGED row PROVE UNCHANGED <<stage, holder>>
    BY <1>1 DEF stage, holder, Stage
  <1>2. ASSUME NEW w \in Workers, CompleteWrite(w) PROVE [QueueNext]_<<stage, holder>>
    <2>1. CASE job[w].receipt \notin Receipts
      BY <1>1, <1>2, <2>1 DEF CompleteWrite, TypeOK
    <2>2. CASE job[w].receipt \in Receipts
      <3>0. PICK r \in Receipts : r = job[w].receipt BY <2>2
      <3>1a. pc[w] = "write" BY <1>2 DEF CompleteWrite
      <3>1b. PICK d \in Delays : row' = [row EXCEPT ![r] = Written(r, job[w].verdict, d)]
        BY <1>2, <3>0 DEF CompleteWrite
      <3>1c. PICK v \in Results : v = job[w].verdict BY DEF TypeOK, Job
      <3>1. row'[r].state = v /\ row'[r].owner = NoOwner
        BY <3>1b, <3>1c, WrittenRow, NullFacts DEF TypeOK
      <3>2. PICK result \in Queue!Results : Stage(r)' = result
        BY <3>1 DEF Stage, Results, Queue!Results
      <3>4. \A s \in Receipts \ {r} : row'[s] = row[s] BY <3>1b DEF TypeOK
      <3>5. \A s \in Receipts \ {r} : Stage(s)' = Stage(s) BY <3>4 DEF Stage
      <3>6. CASE Holds(w, r)
        <4>1. Stage(r) = "held" BY <3>6 DEF Holds, Stage
        <4>2. Queue!Finish(r, result)
          BY <3>1, <3>2, <3>4, <3>5, <4>1 DEF Queue!Finish
        <4> QED BY <4>2 DEF Queue!Next, QueueNext
      <3>7. CASE ~Holds(w, r)
        <4>1. LateResult(r) BY <1>2, <3>0, <3>1a, <3>7 DEF LateResult, Overtaken
        <4>2. Queue!Overwrite(r, result)
          BY <3>1, <3>2, <3>4, <3>5 DEF Queue!Overwrite
        <4> QED BY <4>1, <4>2 DEF QueueNext
      <3> QED BY <3>6, <3>7
    <2> QED BY <2>1, <2>2
  <1>3. ASSUME NEW a \in Admins, RedriveWrite(a) PROVE QueueNext
    <2>0. PICK r \in Receipts, n \in Nat : r = admin[a].receipt /\ n = admin[a].count
      BY <1>3 DEF RedriveWrite, TypeOK, Redrive
    <2>1. row' = [row EXCEPT ![r] = Redriven(r, n)] BY <1>3, <2>0 DEF RedriveWrite
    <2>2. row'[r].state = "PENDING" /\ row'[r].owner = NoOwner
      BY <2>1, RedrivenRow DEF TypeOK
    <2>3. \A s \in Receipts \ {r} : row'[s] = row[s] BY <2>1 DEF TypeOK
    <2>4. Stage(r)' = "ready" BY <2>2 DEF Stage
    <2>5. \A s \in Receipts \ {r} : Stage(s)' = Stage(s) BY <2>3 DEF Stage
    <2>6. CASE row[r].state = "DEAD_LETTERED"
      <3>1. row[r].owner = NoOwner BY <2>6 DEF LeaseShape
      <3>2. Stage(r) = "dead" BY <2>6 DEF Stage
      <3>3. Queue!Revive(r) BY <2>2, <2>3, <2>4, <2>5, <3>1, <3>2 DEF Queue!Revive
      <3> QED BY <3>3 DEF Queue!Next, QueueNext
    <2>7. CASE row[r].state # "DEAD_LETTERED"
      <3>1. admin[a] # NoRedrive BY <1>3 DEF RedriveWrite
      <3>2. LateRedrive(r) BY <1>3, <2>0, <2>7, <3>1 DEF LateRedrive, OvertakenRedrive
      <3>3. Queue!Overwrite(r, "ready")
        BY <2>2, <2>3, <2>4, <2>5 DEF Queue!Overwrite
      <3> QED BY <3>2, <3>3 DEF QueueNext
    <2> QED BY <2>6, <2>7
  <1>4. ASSUME NEW r \in Receipts, Commit(r) PROVE Queue!Next
    <2>1. row'[r] = [row[r] EXCEPT !.state = "PENDING"] BY <1>4 DEF Commit, TypeOK
    <2>2. row'[r].state = "PENDING" /\ row'[r].owner = row[r].owner
      BY <1>0, <2>1 DEF Row
    <2>3. \A s \in Receipts \ {r} : row'[s] = row[s] BY <1>4 DEF Commit, TypeOK
    <2>4. Stage(r) = "absent" /\ Stage(r)' = "ready" BY <1>4, <2>2 DEF Commit, Stage
    <2>5. \A s \in Receipts \ {r} : Stage(s)' = Stage(s) BY <2>3 DEF Stage
    <2>6. Queue!Submit(r) BY <2>2, <2>3, <2>4, <2>5 DEF Queue!Submit
    <2> QED BY <2>6 DEF Queue!Next
  <1>5. ASSUME NEW w \in Workers, Reclaim(w) PROVE Queue!Next
    <2>1. PICK S \in SUBSET Receipts : S = {r \in Receipts : Expired(r)}
      OBVIOUS
    <2>2. row' = [r \in Receipts |-> IF r \in S THEN Returned(r) ELSE row[r]]
      BY <1>5, <2>1 DEF Reclaim
    <2>3. Queue!Revoke(S) BY <2>1, <2>2, RevokeStep DEF Expired
    <2> QED BY <2>3 DEF Queue!Next
  <1>6. ASSUME NEW w \in Workers, Claim(w) \/ ClaimReplyLost(w) PROVE Queue!Next
    <2>1. PICK r \in Receipts, t \in FreshTokens :
            Claimable(r) /\ row' = [row EXCEPT ![r] = Claimed(r, w, t)]
      BY <1>6 DEF Claim, ClaimReplyLost
    <2>2. row'[r].state = "LEASED" /\ row'[r].owner = WorkerId[w] /\ WorkerId[w] \in Owners
      BY <2>1, ClaimedRow, NullFacts DEF FreshTokens, TypeOK
    <2>3. \A s \in Receipts \ {r} : row'[s] = row[s] BY <2>1 DEF TypeOK
    <2>4. Stage(r) = "ready" /\ Stage(r)' = "held" BY <2>1, <2>2 DEF Claimable, Stage
    <2>5. \A s \in Receipts \ {r} : Stage(s)' = Stage(s) BY <2>3 DEF Stage
    <2>6. Queue!Take(r, WorkerId[w]) BY <2>2, <2>3, <2>4, <2>5 DEF Queue!Take
    <2> QED BY <2>2, <2>6 DEF Queue!Next
  <1>7. ASSUME NEW w \in Workers, Extend(w) PROVE UNCHANGED <<stage, holder>>
    <2> DEFINE r == job[w].receipt
    <2>1. row' = [row EXCEPT ![r] = [row[r] EXCEPT !.left = LeaseTicks + 1]]
      BY <1>7 DEF Extend
    <2>2. ASSUME NEW s \in Receipts PROVE Stays(s)
      <3>1. CASE s = r
        <4>1. row'[s] = [row[s] EXCEPT !.left = LeaseTicks + 1] BY <2>1, <3>1 DEF TypeOK
        <4>2. row'[s].state = row[s].state /\ row'[s].owner = row[s].owner
          BY <1>0, <4>1 DEF Row
        <4> QED BY <4>2 DEF Stays, Stage
      <3>2. CASE s # r
        <4>1. row'[s] = row[s] BY <2>1, <3>2 DEF TypeOK
        <4> QED BY <4>1 DEF Stays, Stage
      <3> QED BY <3>1, <3>2
    <2> QED BY <2>2, Stutter
  <1>8. ASSUME NEW w \in Workers, Release(w) PROVE [QueueNext]_<<stage, holder>>
    <2>1. CASE Holds(w, job[w].receipt) /\ job[w].receipt \in Receipts
      <3>1. PICK S \in SUBSET Receipts : S = {job[w].receipt} BY <2>1
      <3>2. row' = [s \in Receipts |-> IF s \in S THEN Returned(s) ELSE row[s]]
        BY <1>8, <2>1, <3>1 DEF Release, TypeOK
      <3>3. Queue!Revoke(S) BY <2>1, <3>1, <3>2, RevokeStep DEF Holds
      <3> QED BY <3>3 DEF Queue!Next, QueueNext
    <2>2. CASE ~(Holds(w, job[w].receipt) /\ job[w].receipt \in Receipts)
      BY <1>1, <1>8, <2>2 DEF Release, TypeOK
    <2> QED BY <2>1, <2>2
  <1>9. ASSUME NEW w \in Workers, StopRelease(w) PROVE Queue!Next
    <2>1. PICK S \in SUBSET Receipts : S = {r \in Receipts : row[r].state = "LEASED" /\ row[r].owner = WorkerId[w]}
      OBVIOUS
    <2>2. row' = [r \in Receipts |-> IF r \in S THEN Returned(r) ELSE row[r]]
      BY <1>9, <2>1 DEF StopRelease
    <2>3. Queue!Revoke(S) BY <2>1, <2>2, RevokeStep
    <2> QED BY <2>3 DEF Queue!Next
  <1>10. ASSUME Tick PROVE UNCHANGED <<stage, holder>>
    <2>1. ASSUME NEW r \in Receipts PROVE Stays(r)
      <3>1. row'[r] = Ticked(row[r]) BY <1>10 DEF Tick
      <3>2. row'[r].state = row[r].state /\ row'[r].owner = row[r].owner
        BY <1>0, <3>1, TickedRow
      <3> QED BY <3>2 DEF Stays, Stage
    <2> QED BY <2>1, Stutter
  <1>11. ASSUME NEW w \in Workers,
                \/ Throw(w) \/ ClaimNothing(w) \/ Execute(w) \/ CompleteRead(w)
                \/ StopEnd(w) \/ StopBegin(w) \/ Crash(w) \/ Restart(w)
         PROVE  UNCHANGED <<stage, holder>>
    BY <1>1, <1>11 DEF Throw, ClaimNothing, Execute, CompleteRead, StopEnd, StopBegin,
                       Crash, Restart
  <1>12. ASSUME NEW a \in Admins, RedriveAbort(a) PROVE UNCHANGED <<stage, holder>>
    BY <1>1, <1>12 DEF RedriveAbort
  <1>13. ASSUME NEW a \in Admins, NEW r \in Receipts, RedriveRead(a, r)
         PROVE  UNCHANGED <<stage, holder>>
    BY <1>1, <1>13 DEF RedriveRead
  <1>14. CASE UNCHANGED vars BY <1>1, <1>14 DEF vars
  <1>15. Queue!Next => QueueNext BY DEF QueueNext
  <1> QED
    BY <1>15, <1>2, <1>3, <1>4, <1>5, <1>6, <1>7, <1>8, <1>9, <1>10, <1>11, <1>12, <1>13, <1>14
       DEF Next, Loop, Other

\* ImplementsQueue: the table and its workers are a WorkQueue, but for the one row
\* the UPDATE of an overtaken completion or redrive overwrites.
THEOREM ReceiptsImplementQueue == Spec => ImplementsQueue
  BY InitType, InitSafe, InitQueue, TypeStep, SafeStep, QueueStep, PTL
     DEF Spec, ImplementsQueue, QueueNext, stage, holder
=============================================================================

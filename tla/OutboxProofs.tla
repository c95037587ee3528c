---------------------------- MODULE OutboxProofs ----------------------------
(***************************************************************************)
(* What OutboxIntents promises for any intents, dispatchers, requests,     *)
(* tokens and bounds.                                                      *)
(***************************************************************************)
EXTENDS OutboxIntents, TLAPS

LEMMA Bounds ==
    /\ NoIntent \notin Intents /\ NoToken \notin Tokens
    /\ LeaseTicks \in Nat /\ MaxFaults \in Nat
    /\ 0 \in 0 .. LeaseTicks + 1 /\ LeaseTicks + 1 \in 0 .. LeaseTicks + 1
    /\ "sent" \in News
  BY OutboxNulls, OutboxBounds, OutboxNews

LEMMA Spoken ==
    /\ DOMAIN StatusOf = {"ACCEPTED", "SENT", "DELIVERED", "FAILED", "SUPPRESSED", "UNKNOWN"}
    /\ StatusOf["ACCEPTED"] = "ACK_RECEIVED"
    /\ \A s \in DOMAIN StatusOf : StatusOf[s] \in {"ACK_RECEIVED"} \cup Final
    /\ \A s \in DOMAIN StatusOf : StatusOf[s] = "DELIVERED" => s = "DELIVERED"
  BY DEF StatusOf, Final

LEMMA Decided ==
    /\ DOMAIN Resolution = {"CONFIRMED", "FAILED", "RETRY"}
    /\ DOMAIN Resolved = {"CONFIRMED", "FAILED", "RETRY"}
    /\ \A s \in DOMAIN Resolution : Resolution[s] = "DELIVERED" => s = "CONFIRMED"
    /\ \A s \in DOMAIN Resolution : /\ Resolution[s] \in {"PENDING"} \cup Final
                                    /\ Resolved[s] \in Entries
                                    /\ Resolved[s] \notin OpenEntry \cup {"none"}
  BY DEF Resolution, Resolved, Final, Entries, OpenEntry

\* A job and a request that is half done name an intent, and what a callback or a
\* resolution says is one of its words.
Named == /\ \A d \in Dispatchers : pc[d] \in Busy => job[d].intent \in Intents
         /\ \A q \in Requests : req[q].op # "none" => req[q].intent \in Intents
         /\ \A q \in Requests : req[q].op = "callback" => req[q].says \in DOMAIN StatusOf
         /\ \A q \in Requests : req[q].op = "resolve" => req[q].says \in DOMAIN Resolution

\* The two ways a statement writes one row.
Others(i) == \A j \in Intents \ {i} : row'[j] = row[j]

Sets(i, status) == /\ row' \in [Intents -> Row]
                   /\ row'[i].status = status /\ row'[i].left = row[i].left
                   /\ row'[i].token = row[i].token
                   /\ Others(i)

Clears(i, status) == /\ row' \in [Intents -> Row]
                     /\ row'[i].status = status /\ row'[i].left = 0
                     /\ row'[i].token = NoToken
                     /\ Others(i)

LEMMA SetsRow ==
    ASSUME TypeOK, NEW i \in Intents, NEW s \in Statuses, row' = [row EXCEPT ![i].status = s]
    PROVE  Sets(i, s)
  <1>1. row[i] \in Row BY DEF TypeOK
  <1>2. [row[i] EXCEPT !.status = s] \in Row BY <1>1 DEF Row
  <1>3. row'[i] = [row[i] EXCEPT !.status = s] BY DEF TypeOK
  <1> QED BY <1>1, <1>2, <1>3 DEF Sets, Others, Row, TypeOK

LEMMA ClearedRow ==
    ASSUME TypeOK, NEW i \in Intents, NEW s \in Statuses
    PROVE  /\ Cleared(i, s) \in Row
           /\ Cleared(i, s).status = s /\ Cleared(i, s).left = 0
           /\ Cleared(i, s).token = NoToken
  BY Bounds DEF Cleared, Row, TypeOK

LEMMA ClearsRow ==
    ASSUME TypeOK, NEW i \in Intents, NEW s \in Statuses,
           row' = [row EXCEPT ![i] = Cleared(i, s)]
    PROVE  Clears(i, s)
  BY ClearedRow DEF Clears, Others, TypeOK

\* What each statement does to the rows.
LEMMA Written ==
    ASSUME TypeOK, Named
    PROVE  /\ \A i \in Intents : Submit(i) => Sets(i, "PENDING")
           /\ \A q \in Requests : CallbackWrite(q) =>
                 Sets(req[q].intent, StatusOf[req[q].says])
           /\ \A q \in Requests : ResolveWrite(q) =>
                 Sets(req[q].intent, Resolution[req[q].says])
           /\ \A q \in Requests : OpenWrite(q) =>
                 UNCHANGED row \/ Clears(req[q].intent, "INVESTIGATION_PENDING")
           /\ \A d \in Dispatchers : CompleteWrite(d) =>
                 \E s \in {"DELIVERED", "TERMINAL"} : Clears(job[d].intent, s)
  <1>1. ASSUME NEW i \in Intents, Submit(i) PROVE Sets(i, "PENDING")
    BY <1>1, SetsRow DEF Submit, Statuses
  <1>2. ASSUME NEW q \in Requests, CallbackWrite(q)
        PROVE  Sets(req[q].intent, StatusOf[req[q].says])
    <2>1. PICK i \in Intents : i = req[q].intent BY <1>2 DEF CallbackWrite, Named
    <2>2. StatusOf[req[q].says] \in Statuses
      BY <1>2, Spoken DEF CallbackWrite, Named, Statuses
    <2>3. PICK s \in Statuses : s = StatusOf[req[q].says] BY <2>2
    <2>4. row' = [row EXCEPT ![i].status = s] BY <1>2, <2>1, <2>3 DEF CallbackWrite
    <2> QED BY <2>1, <2>3, <2>4, SetsRow
  <1>3. ASSUME NEW q \in Requests, ResolveWrite(q)
        PROVE  Sets(req[q].intent, Resolution[req[q].says])
    <2>1. PICK i \in Intents : i = req[q].intent BY <1>3 DEF ResolveWrite, Named
    <2>2. Resolution[req[q].says] \in Statuses
      BY <1>3, Decided DEF ResolveWrite, Named, Statuses
    <2>3. PICK s \in Statuses : s = Resolution[req[q].says] BY <2>2
    <2>4. row' = [row EXCEPT ![i].status = s] BY <1>3, <2>1, <2>3 DEF ResolveWrite
    <2> QED BY <2>1, <2>3, <2>4, SetsRow
  <1>4. ASSUME NEW q \in Requests, OpenWrite(q)
        PROVE  UNCHANGED row \/ Clears(req[q].intent, "INVESTIGATION_PENDING")
    BY <1>4, ClearsRow DEF OpenWrite, Named, Statuses
  <1>5. ASSUME NEW d \in Dispatchers, CompleteWrite(d)
        PROVE  \E s \in {"DELIVERED", "TERMINAL"} : Clears(job[d].intent, s)
    <2>1. PICK s \in {"DELIVERED", "TERMINAL"} :
            row' = [row EXCEPT ![job[d].intent] = Cleared(job[d].intent, s)]
      BY <1>5 DEF CompleteWrite
    <2>2. job[d].intent \in Intents BY <1>5 DEF CompleteWrite, Named, Busy
    <2>3. s \in Statuses BY DEF Statuses, Final
    <2> QED BY <2>1, <2>2, <2>3, ClearsRow
  <1> QED BY <1>1, <1>2, <1>3, <1>4, <1>5
-----------------------------------------------------------------------------
LEMMA Nothing == NoJob \in Job /\ NoRequest \in Request /\ NoRequest.op = "none"
  BY Bounds, Spoken DEF NoJob, Job, NoRequest, Request

LEMMA InitTyped == Init => TypeOK /\ Named
  BY Bounds, Nothing DEF Init, TypeOK, Named, Row, Statuses, Final, Entries, Places, Busy

LEMMA FaultType == ASSUME TypeOK, Fault PROVE faults' \in 0 .. MaxFaults
  BY Bounds DEF Fault, TypeOK

\* A request is dropped, by an answer or a rollback.
LEMMA Dropped ==
    ASSUME TypeOK, Named, NEW q \in Requests, req' = [req EXCEPT ![q] = NoRequest],
           UNCHANGED <<pc, job>>
    PROVE  req' \in [Requests -> Request] /\ Named'
  <1>1. \A p \in Requests : req'[p] = IF p = q THEN NoRequest ELSE req[p] BY DEF TypeOK
  <1> QED BY <1>1, Nothing DEF TypeOK, Named

LEMMA HeardType ==
    ASSUME TypeOK, NEW i \in Intents, NEW said, Hear(i, said)
    PROVE  heard' \in [Intents -> SUBSET News]
  BY DEF Hear, TypeOK

LEMMA AskType ==
    ASSUME TypeOK, Named, NEW q \in Requests, NEW i \in Intents,
           NEW op \in {"callback", "open", "mark", "resolve"},
           NEW says \in DOMAIN StatusOf \cup DOMAIN Resolution,
           op = "callback" => says \in DOMAIN StatusOf,
           op = "resolve" => says \in DOMAIN Resolution,
           Ask(q, op, i, says)
    PROVE  TypeOK' /\ Named'
  <1>1. PICK r \in Request : r = [op |-> op, intent |-> i, says |-> says] BY DEF Request
  <1>2. r.op = op /\ r.intent = i /\ r.says = says BY <1>1
  <1>3. req' = [req EXCEPT ![q] = r] BY <1>1 DEF Ask
  <1>4. \A p \in Requests : req'[p] = IF p = q THEN r ELSE req[p] BY <1>3 DEF TypeOK
  <1>5. Named' BY <1>2, <1>4 DEF Named, Ask
  <1>6. TypeOK' BY <1>3 DEF TypeOK, Ask
  <1> QED BY <1>5, <1>6

LEMMA TypedStep == TypeOK /\ Named /\ [Next]_vars => TypeOK' /\ Named'
  <1> SUFFICES ASSUME TypeOK, Named, [Next]_vars PROVE TypeOK' /\ Named' OBVIOUS
  <1>1. CASE UNCHANGED vars BY <1>1 DEF TypeOK, Named, vars
  <1>2. ASSUME NEW d \in Dispatchers, CompleteWrite(d) PROVE TypeOK' /\ Named'
    <2>1. row' \in [Intents -> Row] BY <1>2, Written DEF Clears
    <2> QED BY <1>2, <2>1, Nothing DEF CompleteWrite, TypeOK, Named, Places, Busy
  <1>3. ASSUME NEW d \in Dispatchers, Throw(d) PROVE TypeOK' /\ Named'
    <2>1. job[d] \in Job BY DEF TypeOK
    <2>2. PICK j \in Job : j = [job[d] EXCEPT !.outcome = "FAIL"] BY <2>1 DEF Job
    <2>3. job' = [job EXCEPT ![d] = j] /\ j.intent = job[d].intent
      BY <1>3, <2>1, <2>2 DEF Throw, TypeOK, Job
    <2> QED BY <1>3, <2>3, FaultType DEF Throw, TypeOK, Named, Places, Busy
  <1>4. ASSUME NEW q \in Requests, Write(q) PROVE TypeOK' /\ Named'
    <2>0. PICK i \in Intents : i = req[q].intent
      BY <1>4 DEF Write, CallbackWrite, OpenWrite, MarkWrite, ResolveWrite, Named
    <2>1. row' \in [Intents -> Row]
      BY <1>4, Written
         DEF Write, CallbackWrite, OpenWrite, MarkWrite, ResolveWrite, Sets, Clears, TypeOK
    <2>2. entry' \in [Intents -> Entries]
      <3>1. CASE ResolveWrite(q)
        <4>1. Resolved[req[q].says] \in Entries
          BY <3>1, Decided DEF ResolveWrite, Named
        <4> QED BY <3>1, <4>1 DEF ResolveWrite, TypeOK
      <3>2. CASE ~ResolveWrite(q)
        BY <1>4, <3>2 DEF Write, CallbackWrite, OpenWrite, MarkWrite, TypeOK, Entries, OpenEntry
      <3> QED BY <3>1, <3>2
    <2>3. heard' \in [Intents -> SUBSET News]
      <3>1. CASE ResolveWrite(q) BY <3>1 DEF ResolveWrite, TypeOK
      <3>2. CASE ~ResolveWrite(q)
        BY <1>4, <2>0, <3>2, HeardType DEF Write, CallbackWrite, OpenWrite, MarkWrite, TypeOK
      <3> QED BY <3>1, <3>2
    <2>4. Answered(q)
      BY <1>4 DEF Write, CallbackWrite, OpenWrite, MarkWrite, ResolveWrite
    <2> QED BY <2>1, <2>2, <2>3, <2>4, Dropped DEF Answered, TypeOK
  <1>5. ASSUME NEW q \in Requests, Rollback(q) PROVE TypeOK' /\ Named'
    BY <1>5, Dropped, FaultType DEF Rollback, TypeOK
  <1>6. ASSUME NEW i \in Intents, Submit(i) PROVE TypeOK' /\ Named'
    BY <1>6, Written DEF Submit, Sets, TypeOK, Named
  <1>7. ASSUME Reclaim PROVE TypeOK' /\ Named'
    <2>1. row' \in [Intents -> Row] BY <1>7, ClearedRow DEF Reclaim, TypeOK, Statuses
    <2> QED BY <1>7, <2>1 DEF Reclaim, TypeOK, Named
  <1>8. ASSUME NEW d \in Dispatchers, Claim(d) PROVE TypeOK' /\ Named'
    <2>1. PICK i \in Intents, t \in FreshTokens :
            /\ row' = [row EXCEPT ![i] = [status |-> "LEASED", left |-> LeaseTicks + 1,
                                          token |-> t]]
            /\ job' = [job EXCEPT ![d] = [NoJob EXCEPT !.intent = i, !.token = t]]
      BY <1>8 DEF Claim
    <2>2. t \in Tokens BY DEF FreshTokens
    <2>3. [status |-> "LEASED", left |-> LeaseTicks + 1, token |-> t] \in Row
      BY <2>2, Bounds DEF Row, Statuses
    <2>4. PICK j \in Job : j = [NoJob EXCEPT !.intent = i, !.token = t]
      BY <2>2, Nothing DEF Job
    <2>5. j.intent = i BY <2>4 DEF NoJob
    <2> QED BY <1>8, <2>1, <2>3, <2>4, <2>5 DEF Claim, TypeOK, Named, Places, Busy
  <1>9. ASSUME NEW d \in Dispatchers, Send(d) PROVE TypeOK' /\ Named'
    <2>1. PICK o \in {"SUCCESS", "FAIL"} :
            /\ heard' = [heard EXCEPT ![job[d].intent] = (@ \ {"UNKNOWN"}) \cup {"sent"}]
            /\ job' = [job EXCEPT ![d].outcome = o]
      BY <1>9 DEF Send
    <2>2. heard' \in [Intents -> SUBSET News] BY <2>1, Bounds DEF TypeOK
    <2>3. job[d] \in Job BY DEF TypeOK
    <2>5. PICK j \in Job : j = [job[d] EXCEPT !.outcome = o] BY <2>3 DEF Job
    <2>6. job' = [job EXCEPT ![d] = j] /\ j.intent = job[d].intent
      BY <2>1, <2>3, <2>5 DEF TypeOK, Job
    <2> QED BY <1>9, <2>2, <2>6 DEF Send, TypeOK, Named, Places, Busy
  <1>10. ASSUME NEW d \in Dispatchers, CompleteRead(d) \/ Down(d) \/ Start(d)
         PROVE  TypeOK' /\ Named'
    <2>1. faults' \in 0 .. MaxFaults
      BY <1>10, FaultType DEF CompleteRead, Down, Start, TypeOK
    <2> QED BY <1>10, <2>1, Nothing
            DEF CompleteRead, Down, Start, TypeOK, Named, Places, Busy
  <1>11. ASSUME NEW q \in Requests, NEW i \in Intents, Read(q, i) PROVE TypeOK' /\ Named'
    <2>1. CASE UnknownAgain(q, i)
      BY <2>1, HeardType DEF UnknownAgain, TypeOK, Named
    <2>2. CASE Receipt(q, i) BY <2>2, AskType, Spoken DEF Receipt
    <2>3. ASSUME NEW says \in DOMAIN StatusOf, Report(q, i, says) PROVE TypeOK' /\ Named'
      BY <2>3, AskType DEF Report
    <2>4. CASE Unknown(q, i) BY <2>4, AskType, Spoken DEF Unknown
    <2>5. CASE Mark(q, i) BY <2>5, AskType, Spoken DEF Mark
    <2>6. ASSUME NEW says \in DOMAIN Resolution, Resolve(q, i, says) PROVE TypeOK' /\ Named'
      BY <2>6, AskType DEF Resolve
    <2> QED BY <1>11, <2>1, <2>2, <2>3, <2>4, <2>5, <2>6
      DEF Read, HandleCallback, HandleUnknownReceive, HandleReconciliation
  <1>12. ASSUME Tick PROVE TypeOK' /\ Named'
    <2>1. ASSUME NEW i \in Intents
          PROVE  [row[i] EXCEPT !.left = IF @ > 0 THEN @ - 1 ELSE @] \in Row
      <3>1. row[i] \in Row BY DEF TypeOK
      <3>2. (IF row[i].left > 0 THEN row[i].left - 1 ELSE row[i].left) \in 0 .. LeaseTicks + 1
        BY <3>1, Bounds DEF Row
      <3> QED BY <3>1, <3>2 DEF Row
    <2>2. row' \in [Intents -> Row] BY <1>12, <2>1 DEF Tick
    <2> QED BY <1>12, <2>2, FaultType DEF Tick, TypeOK, Named
  <1> QED
    BY <1>1, <1>2, <1>3, <1>4, <1>5, <1>6, <1>7, <1>8, <1>9, <1>10, <1>11, <1>12
       DEF Next, Dispatch

\* TypeOK holds in every state, for all values of the constants.
THEOREM OutboxTypes == Spec => []TypeOK
  BY InitTyped, TypedStep, PTL DEF Spec
-----------------------------------------------------------------------------
(***************************************************************************)
(* What a step does to the tokens.  A row keeps its token or loses it, and *)
(* becomes LEASED only by a claim, with a token nobody has.                *)
(***************************************************************************)
KeepsRow(i) == /\ row'[i].token \in {row[i].token, NoToken}
               /\ row'[i].status = "LEASED" =>
                     row[i].status = "LEASED" /\ row'[i].token = row[i].token

KeepsJob(d) == \/ job'[d].token = NoToken
               \/ job'[d].token = job[d].token /\ job'[d].intent = job[d].intent

QuietStep == /\ \A i \in Intents : KeepsRow(i)
             /\ \A d \in Dispatchers : KeepsJob(d)

ClaimStep == \E d \in Dispatchers, i \in Intents, t \in FreshTokens :
               /\ row'[i].token = t /\ Others(i)
               /\ job'[d].token = t /\ job'[d].intent = i
               /\ \A e \in Dispatchers \ {d} : job'[e] = job[e]

LEMMA SameRows == ASSUME UNCHANGED row PROVE \A i \in Intents : KeepsRow(i)
  BY DEF KeepsRow

LEMMA SameJobs == ASSUME UNCHANGED job PROVE \A d \in Dispatchers : KeepsJob(d)
  BY DEF KeepsJob

LEMMA SetRows ==
    ASSUME NEW i \in Intents, NEW s, s # "LEASED", Sets(i, s) \/ Clears(i, s)
    PROVE  \A j \in Intents : KeepsRow(j)
  BY DEF Sets, Clears, Others, KeepsRow

LEMMA DroppedJobs ==
    ASSUME TypeOK, NEW d \in Dispatchers, job' = [job EXCEPT ![d] = NoJob]
    PROVE  \A e \in Dispatchers : KeepsJob(e)
  BY DEF KeepsJob, NoJob, TypeOK

LEMMA ScoredJobs ==
    ASSUME TypeOK, NEW d \in Dispatchers, NEW o, job' = [job EXCEPT ![d].outcome = o]
    PROVE  \A e \in Dispatchers : KeepsJob(e)
  <1> SUFFICES ASSUME NEW e \in Dispatchers PROVE KeepsJob(e) OBVIOUS
  <1>1. job[d] \in Job BY DEF TypeOK
  <1>2. job'[d] = [job[d] EXCEPT !.outcome = o] BY DEF TypeOK
  <1>3. job'[d].token = job[d].token /\ job'[d].intent = job[d].intent
    BY <1>1, <1>2 DEF Job
  <1>4. e # d => job'[e] = job[e] BY DEF TypeOK
  <1> QED BY <1>3, <1>4 DEF KeepsJob

LEMMA Effects == ASSUME TypeOK, Named, [Next]_vars PROVE QuietStep \/ ClaimStep
  <1>1. CASE UNCHANGED vars BY <1>1, SameRows, SameJobs DEF vars, QuietStep
  <1>2. ASSUME NEW d \in Dispatchers, CompleteWrite(d) PROVE QuietStep
    <2>1. job[d].intent \in Intents BY <1>2 DEF CompleteWrite, Named, Busy
    <2>2. \A i \in Intents : KeepsRow(i) BY <1>2, <2>1, Written, SetRows
    <2> QED BY <1>2, <2>2, DroppedJobs DEF CompleteWrite, QuietStep
  <1>3. ASSUME NEW d \in Dispatchers, Throw(d) PROVE QuietStep
    BY <1>3, SameRows, ScoredJobs DEF Throw, QuietStep
  <1>4. ASSUME NEW q \in Requests, Write(q) PROVE QuietStep
    <2>1. \A i \in Intents : KeepsRow(i)
      <3>1. CASE CallbackWrite(q)
        <4>1. StatusOf[req[q].says] # "LEASED"
          BY <3>1, Spoken DEF CallbackWrite, Named, Final
        <4>2. req[q].intent \in Intents BY <3>1 DEF CallbackWrite, Named
        <4> QED BY <3>1, <4>1, <4>2, Written, SetRows
      <3>2. CASE ResolveWrite(q)
        <4>1. Resolution[req[q].says] # "LEASED"
          BY <3>2, Decided DEF ResolveWrite, Named, Final
        <4>2. req[q].intent \in Intents BY <3>2 DEF ResolveWrite, Named
        <4> QED BY <3>2, <4>1, <4>2, Written, SetRows
      <3>3. CASE OpenWrite(q)
        <4>1. req[q].intent \in Intents BY <3>3 DEF OpenWrite, Named
        <4> QED BY <3>3, <4>1, Written, SetRows, SameRows
      <3>4. CASE MarkWrite(q) BY <3>4, SameRows DEF MarkWrite
      <3> QED BY <1>4, <3>1, <3>2, <3>3, <3>4 DEF Write
    <2>2. UNCHANGED job
      BY <1>4 DEF Write, CallbackWrite, OpenWrite, MarkWrite, ResolveWrite, Answered
    <2> QED BY <2>1, <2>2, SameJobs DEF QuietStep
  <1>5. ASSUME NEW q \in Requests, Rollback(q) PROVE QuietStep
    BY <1>5, SameRows, SameJobs DEF Rollback, QuietStep
  <1>6. ASSUME NEW i \in Intents, Submit(i) PROVE QuietStep
    <2>1. \A j \in Intents : KeepsRow(j) BY <1>6, Written, SetRows
    <2> QED BY <1>6, <2>1, SameJobs DEF Submit, QuietStep
  <1>7. ASSUME Reclaim PROVE QuietStep
    <2>1. \A i \in Intents : KeepsRow(i)
      <3> SUFFICES ASSUME NEW i \in Intents PROVE KeepsRow(i) OBVIOUS
      <3>1. row'[i] = IF Expired(i) THEN Cleared(i, "PENDING") ELSE row[i]
        BY <1>7 DEF Reclaim
      <3> QED BY <3>1, ClearedRow DEF KeepsRow, Statuses
    <2> QED BY <1>7, <2>1, SameJobs DEF Reclaim, QuietStep
  <1>8. ASSUME NEW d \in Dispatchers, Claim(d) PROVE ClaimStep
    <2>1. PICK i \in Intents, t \in FreshTokens :
            /\ row' = [row EXCEPT ![i] = [status |-> "LEASED", left |-> LeaseTicks + 1,
                                          token |-> t]]
            /\ job' = [job EXCEPT ![d] = [NoJob EXCEPT !.intent = i, !.token = t]]
      BY <1>8 DEF Claim
    <2>2. row'[i].token = t /\ Others(i) BY <2>1 DEF TypeOK, Others
    <2>3. job'[d] = [NoJob EXCEPT !.intent = i, !.token = t] BY <2>1 DEF TypeOK
    <2>4. job'[d].token = t /\ job'[d].intent = i BY <2>3 DEF NoJob
    <2>5. \A e \in Dispatchers \ {d} : job'[e] = job[e] BY <2>1 DEF TypeOK
    <2> QED BY <2>2, <2>4, <2>5 DEF ClaimStep
  <1>9. ASSUME NEW d \in Dispatchers, Send(d) PROVE QuietStep
    BY <1>9, SameRows, ScoredJobs DEF Send, QuietStep
  <1>10. ASSUME NEW d \in Dispatchers, CompleteRead(d) \/ Down(d) \/ Start(d)
         PROVE  QuietStep
    <2>1. \A e \in Dispatchers : KeepsJob(e)
      BY <1>10, SameJobs, DroppedJobs DEF CompleteRead, Down, Start
    <2> QED BY <1>10, <2>1, SameRows DEF CompleteRead, Down, Start, QuietStep
  <1>11. ASSUME NEW q \in Requests, NEW i \in Intents, Read(q, i) PROVE QuietStep
    <2>1. UNCHANGED <<row, job>>
      BY <1>11
        DEF Read, HandleCallback, HandleUnknownReceive, HandleReconciliation,
            Receipt, Report, Unknown, UnknownAgain, Mark, Resolve, Ask
    <2> QED BY <2>1, SameRows, SameJobs DEF QuietStep
  <1>12. ASSUME Tick PROVE QuietStep
    <2>1. \A i \in Intents : KeepsRow(i)
      <3> SUFFICES ASSUME NEW i \in Intents PROVE KeepsRow(i) OBVIOUS
      <3>1. row[i] \in Row BY DEF TypeOK
      <3>2. PICK n : row'[i] = [row[i] EXCEPT !.left = n] BY <1>12 DEF Tick
      <3> QED BY <3>1, <3>2 DEF KeepsRow, Row
    <2> QED BY <1>12, <2>1, SameJobs DEF Tick, QuietStep
  <1> QED
    BY <1>1, <1>2, <1>3, <1>4, <1>5, <1>6, <1>7, <1>8, <1>9, <1>10, <1>11, <1>12
       DEF Next, Dispatch

LEMMA InitFence == Init => Fence
  BY DEF Init, Fence, NoJob

LEMMA FenceStep == TypeOK /\ Named /\ Fence /\ [Next]_vars => Fence'
  <1> SUFFICES ASSUME TypeOK, Named, Fence, [Next]_vars PROVE Fence' OBVIOUS
  <1>1. CASE QuietStep
    <2>1. ASSUME NEW d \in Dispatchers, NEW e \in Dispatchers,
                 job'[d].token # NoToken, job'[d].token = job'[e].token
          PROVE  d = e
      BY <1>1, <2>1 DEF QuietStep, KeepsJob, Fence
    <2>2. ASSUME NEW d \in Dispatchers, NEW i \in Intents,
                 row'[i].token # NoToken, row'[i].token = job'[d].token
          PROVE  job'[d].intent = i
      BY <1>1, <2>2 DEF QuietStep, KeepsRow, KeepsJob, Fence
    <2>3. ASSUME NEW i \in Intents, row'[i].status = "LEASED" PROVE row'[i].token # NoToken
      BY <1>1, <2>3 DEF QuietStep, KeepsRow, Fence
    <2> QED BY <2>1, <2>2, <2>3 DEF Fence
  <1>2. CASE ClaimStep
    <2>1. PICK d \in Dispatchers, i \in Intents, t \in FreshTokens :
            /\ row'[i].token = t /\ Others(i)
            /\ job'[d].token = t /\ job'[d].intent = i
            /\ \A e \in Dispatchers \ {d} : job'[e] = job[e]
      BY <1>2 DEF ClaimStep
    <2>2. /\ t # NoToken
          /\ \A j \in Intents : row[j].token # t
          /\ \A e \in Dispatchers : job[e].token # t
      BY Bounds DEF FreshTokens
    <2>3. \A e, f \in Dispatchers :
             job'[e].token # NoToken /\ job'[e].token = job'[f].token => e = f
      BY <2>1, <2>2 DEF Fence
    <2>4. \A e \in Dispatchers, j \in Intents :
             row'[j].token # NoToken /\ row'[j].token = job'[e].token => job'[e].intent = j
      BY <2>1, <2>2 DEF Fence, Others
    <2>5. \A j \in Intents : row'[j].status = "LEASED" => row'[j].token # NoToken
      BY <2>1, <2>2 DEF Fence, Others
    <2> QED BY <2>3, <2>4, <2>5 DEF Fence
  <1> QED BY <1>1, <1>2, Effects

\* Fence: whatever overlaps, a token passes the fence for one dispatcher, and for the
\* intent it claimed.
THEOREM TokensFence == Spec => []Fence
  BY InitTyped, TypedStep, InitFence, FenceStep, PTL DEF Spec
-----------------------------------------------------------------------------
\* What a step does to investigations: one is begun with its entry, and an entry is
\* closed together with the status that waits for it.
LEMMA InitInvestigation == Init => InvestigationOpen
  BY DEF Init, InvestigationOpen

LEMMA InvestigationStep ==
    TypeOK /\ Named /\ InvestigationOpen /\ [Next]_vars => InvestigationOpen'
  <1> SUFFICES ASSUME TypeOK, Named, InvestigationOpen, [Next]_vars,
                      NEW i \in Intents, row'[i].status = "INVESTIGATION_PENDING"
               PROVE  Open(i)'
    BY DEF InvestigationOpen
  <1>0. CASE row'[i].status = row[i].status /\ entry'[i] = entry[i]
    BY <1>0 DEF InvestigationOpen, Open
  <1>1. CASE UNCHANGED vars BY <1>0, <1>1 DEF vars
  <1>2. ASSUME NEW d \in Dispatchers, CompleteWrite(d) PROVE Open(i)'
    <2>1. PICK s \in {"DELIVERED", "TERMINAL"} : Clears(job[d].intent, s) BY <1>2, Written
    <2>2. i # job[d].intent BY <2>1 DEF Clears
    <2> QED BY <1>0, <1>2, <2>1, <2>2 DEF Clears, Others, CompleteWrite
  <1>3. ASSUME NEW q \in Requests, CallbackWrite(q) PROVE Open(i)'
    <2>1. Sets(req[q].intent, StatusOf[req[q].says]) BY <1>3, Written
    <2>2. StatusOf[req[q].says] # "INVESTIGATION_PENDING"
      BY <1>3, Spoken DEF CallbackWrite, Named, Final
    <2>3. i # req[q].intent BY <2>1, <2>2 DEF Sets
    <2> QED BY <1>0, <1>3, <2>1, <2>3 DEF Sets, Others, CallbackWrite
  <1>4. ASSUME NEW q \in Requests, ResolveWrite(q) PROVE Open(i)'
    <2>1. Sets(req[q].intent, Resolution[req[q].says]) BY <1>4, Written
    <2>2. Resolution[req[q].says] # "INVESTIGATION_PENDING"
      BY <1>4, Decided DEF ResolveWrite, Named, Final
    <2>3. i # req[q].intent BY <2>1, <2>2 DEF Sets
    <2>4. entry'[i] = entry[i] BY <1>4, <2>3 DEF ResolveWrite, TypeOK
    <2> QED BY <1>0, <2>1, <2>3, <2>4 DEF Sets, Others
  <1>5. ASSUME NEW q \in Requests, OpenWrite(q) PROVE Open(i)'
    <2>1. CASE UNCHANGED <<row, entry>> BY <1>0, <2>1
    <2>2. CASE /\ row' = [row EXCEPT ![req[q].intent] =
                                        Cleared(req[q].intent, "INVESTIGATION_PENDING")]
               /\ entry' = [entry EXCEPT ![req[q].intent] = "PENDING_INVESTIGATION"]
      BY <1>0, <2>2 DEF Open, OpenEntry, TypeOK
    <2> QED BY <1>5, <2>1, <2>2 DEF OpenWrite
  <1>6. ASSUME NEW q \in Requests, MarkWrite(q) PROVE Open(i)'
    <2>1. Open(i) BY <1>6 DEF MarkWrite, InvestigationOpen
    <2> QED BY <1>6, <2>1 DEF MarkWrite, Open, OpenEntry, TypeOK
  <1>7. ASSUME NEW j \in Intents, Submit(j) PROVE Open(i)'
    <2>1. Sets(j, "PENDING") BY <1>7, Written
    <2> QED BY <1>0, <1>7, <2>1 DEF Sets, Others, Submit
  <1>8. ASSUME Reclaim PROVE Open(i)'
    <2>1. row'[i] = IF Expired(i) THEN Cleared(i, "PENDING") ELSE row[i]
      BY <1>8 DEF Reclaim
    <2>2. row'[i] = row[i] BY <2>1, ClearedRow DEF Statuses
    <2> QED BY <1>0, <1>8, <2>2 DEF Reclaim
  <1>9. ASSUME NEW d \in Dispatchers, Claim(d) PROVE Open(i)'
    <2>1. PICK j \in Intents, t \in FreshTokens :
            row' = [row EXCEPT ![j] = [status |-> "LEASED", left |-> LeaseTicks + 1,
                                       token |-> t]]
      BY <1>9 DEF Claim
    <2>2. row'[i] = row[i] BY <2>1 DEF TypeOK
    <2> QED BY <1>0, <1>9, <2>2 DEF Claim
  <1>10. ASSUME UNCHANGED <<row, entry>> PROVE Open(i)' BY <1>0, <1>10
  <1>11. ASSUME Tick PROVE Open(i)'
    <2>1. row[i] \in Row BY DEF TypeOK
    <2>2. PICK n : row'[i] = [row[i] EXCEPT !.left = n] BY <1>11 DEF Tick
    <2> QED BY <1>0, <1>11, <2>1, <2>2 DEF Tick, Row
  <1>12. ASSUME NEW d \in Dispatchers,
                Throw(d) \/ Send(d) \/ CompleteRead(d) \/ Down(d) \/ Start(d)
         PROVE  Open(i)'
    BY <1>10, <1>12 DEF Throw, Send, CompleteRead, Down, Start
  <1>13. ASSUME NEW q \in Requests, Rollback(q) PROVE Open(i)'
    BY <1>10, <1>13 DEF Rollback
  <1>14. ASSUME NEW q \in Requests, NEW j \in Intents, Read(q, j) PROVE Open(i)'
    BY <1>10, <1>14
      DEF Read, HandleCallback, HandleUnknownReceive, HandleReconciliation,
          Receipt, Report, Unknown, UnknownAgain, Mark, Resolve, Ask
  <1> QED
    BY <1>1, <1>2, <1>3, <1>4, <1>5, <1>6, <1>7, <1>8, <1>9, <1>11, <1>12, <1>13, <1>14
       DEF Next, Dispatch, Write

\* InvestigationOpen: whatever overlaps, an intent under investigation has an open entry.
THEOREM InvestigationsAreOpen == Spec => []InvestigationOpen
  BY InitTyped, TypedStep, InitInvestigation, InvestigationStep, PTL DEF Spec
-----------------------------------------------------------------------------
(***************************************************************************)
(* What is said of an intent, a case of it, a job and a request all come   *)
(* after its submission; and where a lease cannot be.                      *)
(***************************************************************************)
Plain(i) == /\ row[i].status = "ABSENT" =>
                  heard[i] = {} /\ entry[i] = "none" /\ Unleased(i)
            /\ row[i].status = "PENDING" /\ entry[i] = "none" => Unleased(i)
            /\ row[i].status = "INVESTIGATION_PENDING" => Unleased(i)
            /\ entry[i] = "PENDING_INVESTIGATION" => Unleased(i) /\ ~Queued(i)

Submitted == /\ \A d \in Dispatchers : pc[d] \in Busy => row[job[d].intent].status # "ABSENT"
             /\ \A q \in Requests : req[q].op # "none" =>
                                       row[req[q].intent].status # "ABSENT"

CaseInv == (\A i \in Intents : Plain(i)) /\ Submitted

LEMMA InitCase == Init => CaseInv
  BY Nothing DEF Init, CaseInv, Plain, Submitted, Unleased, Queued, Busy

LEMMA SamePlain ==
    ASSUME NEW i \in Intents, Plain(i), UNCHANGED <<row[i], entry[i], heard[i]>>
    PROVE  Plain(i)'
  BY DEF Plain, Unleased, Queued

\* A row that was submitted stays, and no dispatcher or request gets another intent.
Stays == \A j \in Intents : row[j].status # "ABSENT" => row'[j].status # "ABSENT"

LEMMA SameSubmitted ==
    ASSUME Named, Submitted, Stays, UNCHANGED <<pc, job>>,
           \A q \in Requests : req'[q] \in {req[q], NoRequest}
    PROVE  Submitted'
  BY Nothing DEF Named, Submitted, Stays

LEMMA AnsweredRequests ==
    ASSUME TypeOK, NEW q \in Requests, req' = [req EXCEPT ![q] = NoRequest]
    PROVE  \A p \in Requests : req'[p] \in {req[p], NoRequest}
  BY DEF TypeOK

LEMMA Asked ==
    ASSUME TypeOK, NEW q \in Requests, NEW i \in Intents, NEW op, NEW says,
           Ask(q, op, i, says)
    PROVE  /\ req'[q].op = op /\ req'[q].intent = i /\ req'[q].says = says
           /\ \A p \in Requests \ {q} : req'[p] = req[p]
           /\ UNCHANGED <<row, entry, pc, job, heard>>
  <1>1. req'[q] = [op |-> op, intent |-> i, says |-> says] BY DEF Ask, TypeOK
  <1> QED BY <1>1 DEF Ask, TypeOK

\* Of an intent that is not there nothing is asked.
LEMMA AskedOf ==
    ASSUME TypeOK, \A j \in Intents : Plain(j), NEW q \in Requests, NEW i \in Intents,
           Read(q, i)
    PROVE  /\ row[i].status # "ABSENT"
           /\ UNCHANGED <<row, entry, pc, job>>
           /\ \A p \in Requests : req'[p] = req[p] \/ req'[p].intent = i
           /\ UNCHANGED heard \/ UnknownAgain(q, i)
  <1>1. CASE UnknownAgain(q, i) BY <1>1 DEF UnknownAgain, Sent, Plain
  <1>2. CASE Receipt(q, i) BY <1>2, Asked DEF Receipt, Sent, Plain
  <1>3. ASSUME NEW says \in DOMAIN StatusOf, Report(q, i, says)
        PROVE  /\ row[i].status # "ABSENT"
               /\ UNCHANGED <<row, entry, pc, job, heard>>
               /\ \A p \in Requests : req'[p] = req[p] \/ req'[p].intent = i
    BY <1>3, Asked DEF Report, Sent, Plain
  <1>4. CASE Unknown(q, i) BY <1>4, Asked DEF Unknown, Sent, Plain
  <1>5. CASE Mark(q, i) BY <1>5, Asked DEF Mark, Plain
  <1>6. ASSUME NEW says \in DOMAIN Resolution, Resolve(q, i, says)
        PROVE  /\ row[i].status # "ABSENT"
               /\ UNCHANGED <<row, entry, pc, job, heard>>
               /\ \A p \in Requests : req'[p] = req[p] \/ req'[p].intent = i
    BY <1>6, Asked DEF Resolve, Open, OpenEntry, Plain
  <1> QED BY <1>1, <1>2, <1>3, <1>4, <1>5, <1>6
          DEF Read, HandleCallback, HandleUnknownReceive, HandleReconciliation

LEMMA CaseInvStep == TypeOK /\ Named /\ CaseInv /\ [Next]_vars => CaseInv'
  <1> SUFFICES ASSUME TypeOK, Named, CaseInv, [Next]_vars PROVE CaseInv' OBVIOUS
  <1>0. \A i \in Intents : Plain(i) BY DEF CaseInv
  <1>a. \A d \in Dispatchers : pc[d] \in Busy => /\ job[d].intent \in Intents
                                                  /\ row[job[d].intent].status # "ABSENT"
    BY DEF CaseInv, Submitted, Named
  <1>b. ASSUME Stays, UNCHANGED <<pc, job>>,
               \A q \in Requests : req'[q] \in {req[q], NoRequest}
        PROVE  Submitted'
    BY <1>b, SameSubmitted DEF CaseInv
  <1>c. ASSUME Stays, UNCHANGED req,
               \A d \in Dispatchers : pc'[d] \in Busy =>
                  row'[job'[d].intent].status # "ABSENT"
        PROVE  Submitted'
    BY <1>c DEF CaseInv, Submitted, Named, Stays
  <1>1. CASE UNCHANGED vars BY <1>0, <1>1, <1>b, SamePlain DEF vars, CaseInv, Stays
  <1>2. ASSUME NEW d \in Dispatchers, CompleteWrite(d) PROVE CaseInv'
    <2>0. PICK i \in Intents : i = job[d].intent BY <1>2 DEF CompleteWrite, Named, Busy
    <2>1. PICK s \in {"DELIVERED", "TERMINAL"} : Clears(i, s) BY <1>2, <2>0, Written
    <2>2. Plain(i)' BY <2>1 DEF Plain, Clears, Unleased, Queued
    <2>3. \A j \in Intents \ {i} : Plain(j)'
      BY <1>0, <1>2, <2>1, SamePlain DEF Clears, Others, CompleteWrite
    <2>4. Stays BY <2>1 DEF Clears, Others, Stays
    <2>5. \A e \in Dispatchers : pc'[e] \in Busy => pc[e] \in Busy /\ job'[e] = job[e]
      BY <1>2 DEF CompleteWrite, TypeOK, Busy
    <2>6. Submitted' BY <1>2, <1>a, <1>c, <2>4, <2>5 DEF CompleteWrite, Stays
    <2> QED BY <2>2, <2>3, <2>6 DEF CaseInv
  <1>3. ASSUME NEW d \in Dispatchers,
               Throw(d) \/ Send(d) \/ CompleteRead(d) \/ Down(d) \/ Start(d) PROVE CaseInv'
    <2>1. UNCHANGED <<row, entry, req>>
      BY <1>3 DEF Throw, Send, CompleteRead, Down, Start
    <2>2. \A e \in Dispatchers : pc'[e] \in Busy =>
                                    pc[e] \in Busy /\ job'[e].intent = job[e].intent
      <3> SUFFICES ASSUME NEW e \in Dispatchers, pc'[e] \in Busy
                   PROVE  pc[e] \in Busy /\ job'[e].intent = job[e].intent
        OBVIOUS
      <3>1. job[e] \in Job BY DEF TypeOK
      <3>2. CASE e # d BY <1>3, <3>2 DEF Throw, Send, CompleteRead, Down, Start, TypeOK
      <3>3. CASE e = d /\ (Throw(d) \/ Send(d))
        <4>1. PICK o : job'[e] = [job[e] EXCEPT !.outcome = o]
          BY <3>3 DEF Throw, Send, TypeOK
        <4>2. job'[e].intent = job[e].intent BY <3>1, <4>1 DEF Job
        <4> QED BY <3>3, <4>2 DEF Throw, Send, Busy
      <3>4. CASE e = d /\ (CompleteRead(d) \/ Down(d) \/ Start(d))
        BY <3>4 DEF CompleteRead, Down, Start, TypeOK, Busy
      <3> QED BY <1>3, <3>2, <3>3, <3>4
    <2>3. \A i \in Intents : row[i].status = "ABSENT" => heard'[i] = heard[i]
      <3>1. CASE Send(d)
        <4>1. job[d].intent \in Intents /\ row[job[d].intent].status # "ABSENT"
          BY <1>a, <3>1 DEF Send, Busy
        <4> QED BY <3>1, <4>1 DEF Send, TypeOK
      <3>2. CASE ~Send(d) BY <1>3, <3>2 DEF Throw, CompleteRead, Down, Start
      <3> QED BY <3>1, <3>2
    <2>4. \A i \in Intents : Plain(i)' BY <1>0, <2>1, <2>3 DEF Plain, Unleased, Queued
    <2>5. Submitted' BY <1>a, <1>c, <2>1, <2>2 DEF Stays
    <2> QED BY <2>4, <2>5 DEF CaseInv
  <1>4. ASSUME NEW q \in Requests, CallbackWrite(q) PROVE CaseInv'
    <2>0. PICK i \in Intents : i = req[q].intent BY <1>4 DEF CallbackWrite, Named
    <2>1. PICK s \in {"ACK_RECEIVED"} \cup Final : Sets(i, s)
      BY <1>4, <2>0, Written, Spoken DEF CallbackWrite, Named
    <2>2. Plain(i)'
      BY <1>0, <1>4, <2>1 DEF Plain, Sets, Unleased, Queued, CallbackWrite, Final
    <2>3. \A j \in Intents \ {i} : Plain(j)'
      BY <1>0, <1>4, <2>0, <2>1, SamePlain DEF Sets, Others, CallbackWrite, Hear, TypeOK
    <2>4. Stays BY <2>1 DEF Sets, Others, Final, Stays
    <2>5. Submitted' BY <1>4, <1>b, <2>4, AnsweredRequests DEF CallbackWrite, Answered
    <2> QED BY <2>2, <2>3, <2>5 DEF CaseInv
  <1>5. ASSUME NEW q \in Requests, ResolveWrite(q) PROVE CaseInv'
    <2>0. PICK i \in Intents : i = req[q].intent BY <1>5 DEF ResolveWrite, Named
    <2>1. PICK s \in {"PENDING"} \cup Final : Sets(i, s)
      BY <1>5, <2>0, Written, Decided DEF ResolveWrite, Named
    <2>2. entry'[i] \notin OpenEntry \cup {"none"}
      BY <1>5, <2>0, Decided DEF ResolveWrite, Named, TypeOK
    <2>3. Plain(i)' BY <2>1, <2>2 DEF Plain, Sets, OpenEntry, Final
    <2>4. \A j \in Intents \ {i} : Plain(j)'
      BY <1>0, <1>5, <2>0, <2>1, SamePlain DEF Sets, Others, ResolveWrite, TypeOK
    <2>5. Stays BY <2>1 DEF Sets, Others, Final, Stays
    <2>6. Submitted' BY <1>5, <1>b, <2>5, AnsweredRequests DEF ResolveWrite, Answered
    <2> QED BY <2>3, <2>4, <2>6 DEF CaseInv
  <1>6. ASSUME NEW q \in Requests, OpenWrite(q) PROVE CaseInv'
    <2>0. PICK i \in Intents : i = req[q].intent BY <1>6 DEF OpenWrite, Named
    <2>a. ASSUME Stays PROVE Submitted'
      BY <1>6, <1>b, <2>a, AnsweredRequests DEF OpenWrite, Answered
    <2>1. CASE UNCHANGED <<row, entry, heard>>
      <3>1. \A j \in Intents : Plain(j)' BY <1>0, <2>1, SamePlain
      <3>2. Stays BY <2>1 DEF Stays
      <3> QED BY <2>a, <3>1, <3>2 DEF CaseInv
    <2>2. CASE /\ row' = [row EXCEPT ![i] = Cleared(i, "INVESTIGATION_PENDING")]
               /\ entry' = [entry EXCEPT ![i] = "PENDING_INVESTIGATION"]
               /\ Hear(i, "UNKNOWN")
      <3>1. Clears(i, "INVESTIGATION_PENDING") BY <2>2, ClearsRow DEF Statuses
      <3>2. Plain(i)' BY <3>1 DEF Plain, Clears, Unleased, Queued
      <3>3. \A j \in Intents \ {i} : Plain(j)'
        BY <1>0, <2>2, SamePlain DEF Hear, TypeOK
      <3>4. Stays BY <3>1 DEF Clears, Others, Stays
      <3> QED BY <2>a, <3>2, <3>3, <3>4 DEF CaseInv
    <2> QED BY <1>6, <2>0, <2>1, <2>2 DEF OpenWrite
  <1>7. ASSUME NEW q \in Requests, MarkWrite(q) PROVE CaseInv'
    <2>0. PICK i \in Intents : i = req[q].intent BY <1>7 DEF MarkWrite, Named
    <2>1. row[i].status # "ABSENT" BY <1>7, <2>0 DEF MarkWrite, CaseInv, Submitted
    <2>2. UNCHANGED <<row, heard>> /\ entry'[i] = "INVESTIGATING"
      BY <1>7, <2>0 DEF MarkWrite, TypeOK
    <2>3. Plain(i)' BY <1>0, <2>1, <2>2 DEF Plain, Unleased
    <2>4. \A j \in Intents \ {i} : Plain(j)'
      BY <1>0, <1>7, <2>0, SamePlain DEF MarkWrite, TypeOK
    <2>5. Submitted'
      BY <1>7, <1>b, <2>2, AnsweredRequests DEF MarkWrite, Answered, Stays
    <2> QED BY <2>3, <2>4, <2>5 DEF CaseInv
  <1>8. ASSUME NEW q \in Requests, Rollback(q) PROVE CaseInv'
    <2>1. \A j \in Intents : Plain(j)' BY <1>0, <1>8, SamePlain DEF Rollback
    <2>2. Submitted' BY <1>8, <1>b, AnsweredRequests DEF Rollback, Stays
    <2> QED BY <2>1, <2>2 DEF CaseInv
  <1>9. ASSUME NEW i \in Intents, Submit(i) PROVE CaseInv'
    <2>1. Sets(i, "PENDING") BY <1>9, Written
    <2>2. Plain(i)' BY <1>0, <1>9, <2>1 DEF Plain, Sets, Unleased, Submit
    <2>3. \A j \in Intents \ {i} : Plain(j)'
      BY <1>0, <1>9, <2>1, SamePlain DEF Sets, Others, Submit
    <2>4. Stays BY <2>1 DEF Sets, Others, Stays
    <2> QED BY <1>9, <1>b, <2>2, <2>3, <2>4 DEF Submit, CaseInv
  <1>10. ASSUME Reclaim PROVE CaseInv'
    <2>1. ASSUME NEW i \in Intents
          PROVE  Plain(i)' /\ (row[i].status # "ABSENT" => row'[i].status # "ABSENT")
      <3>1. row'[i] = IF Expired(i) THEN Cleared(i, "PENDING") ELSE row[i]
        BY <1>10 DEF Reclaim
      <3>2. CASE Expired(i)
        <4>1. row'[i].status = "PENDING" /\ row'[i].left = 0 /\ row'[i].token = NoToken
          BY <3>1, <3>2, ClearedRow DEF Statuses
        <4>2. entry[i] # "PENDING_INVESTIGATION" BY <1>0, <3>2 DEF Expired, Plain, Queued
        <4> QED BY <1>10, <4>1, <4>2 DEF Plain, Unleased, Reclaim
      <3>3. CASE ~Expired(i) BY <1>0, <1>10, <3>1, <3>3, SamePlain DEF Reclaim
      <3> QED BY <3>2, <3>3
    <2>2. Stays BY <2>1 DEF Stays
    <2>3. Submitted' BY <1>10, <1>b, <2>2 DEF Reclaim
    <2> QED BY <2>1, <2>3 DEF CaseInv
  <1>11. ASSUME NEW d \in Dispatchers, Claim(d) PROVE CaseInv'
    <2>1. PICK i \in Intents, t \in FreshTokens :
            /\ Claimable(i)
            /\ row' = [row EXCEPT ![i] = [status |-> "LEASED", left |-> LeaseTicks + 1,
                                          token |-> t]]
            /\ job' = [job EXCEPT ![d] = [NoJob EXCEPT !.intent = i, !.token = t]]
      BY <1>11 DEF Claim
    <2>2. entry[i] # "PENDING_INVESTIGATION" BY <1>0, <2>1 DEF Claimable, Plain, Queued
    <2>3. row'[i].status = "LEASED" /\ Others(i) BY <2>1 DEF TypeOK, Others
    <2>4. Plain(i)' BY <1>11, <2>2, <2>3 DEF Plain, Claim
    <2>5. \A j \in Intents \ {i} : Plain(j)'
      BY <1>0, <1>11, <2>3, SamePlain DEF Others, Claim
    <2>6. job'[d].intent = i
      <3>1. job'[d] = [NoJob EXCEPT !.intent = i, !.token = t] BY <2>1 DEF TypeOK
      <3> QED BY <3>1 DEF NoJob
    <2>7. \A e \in Dispatchers \ {d} : pc'[e] = pc[e] /\ job'[e] = job[e]
      BY <1>11, <2>1 DEF Claim, TypeOK
    <2>8. Stays BY <2>3 DEF Others, Stays
    <2>9. \A e \in Dispatchers : pc'[e] \in Busy => row'[job'[e].intent].status # "ABSENT"
      BY <1>a, <2>3, <2>6, <2>7, <2>8 DEF Stays
    <2>10. Submitted' BY <1>11, <1>c, <2>8, <2>9 DEF Claim
    <2> QED BY <2>4, <2>5, <2>10 DEF CaseInv
  <1>12. ASSUME NEW q \in Requests, NEW i \in Intents, Read(q, i) PROVE CaseInv'
    <2>0. /\ row[i].status # "ABSENT" /\ UNCHANGED <<row, entry, pc, job>>
          /\ \A p \in Requests : req'[p] = req[p] \/ req'[p].intent = i
          /\ UNCHANGED heard \/ UnknownAgain(q, i)
      BY <1>0, <1>12, AskedOf
    <2>1. \A j \in Intents : row[j].status = "ABSENT" => heard'[j] = heard[j]
      BY <2>0 DEF UnknownAgain, Hear, TypeOK
    <2>2. \A j \in Intents : Plain(j)' BY <1>0, <2>0, <2>1 DEF Plain, Unleased, Queued
    <2>3. Submitted' BY <2>0 DEF CaseInv, Submitted
    <2> QED BY <2>2, <2>3 DEF CaseInv
  <1>13. ASSUME Tick PROVE CaseInv'
    <2>1. ASSUME NEW i \in Intents
          PROVE  Plain(i)' /\ (row[i].status # "ABSENT" => row'[i].status # "ABSENT")
      <3>1. row[i] \in Row BY DEF TypeOK
      <3>2. PICK n : /\ n = IF row[i].left > 0 THEN row[i].left - 1 ELSE row[i].left
                     /\ row'[i] = [row[i] EXCEPT !.left = n]
        BY <1>13 DEF Tick
      <3>3. row'[i].status = row[i].status /\ row'[i].token = row[i].token /\ row'[i].left = n
        BY <3>1, <3>2 DEF Row
      <3>4. row[i].left = 0 => n = 0 BY <3>2
      <3> QED BY <1>0, <1>13, <3>3, <3>4 DEF Plain, Unleased, Queued, Tick
    <2>2. Stays BY <2>1 DEF Stays
    <2>3. Submitted' BY <1>13, <1>b, <2>2 DEF Tick
    <2> QED BY <2>1, <2>3 DEF CaseInv
  <1> QED
    BY <1>1, <1>2, <1>3, <1>4, <1>5, <1>6, <1>7, <1>8, <1>9, <1>10, <1>11, <1>12, <1>13
       DEF Next, Dispatch, Write

\* QueuedUnleased: whatever overtakes what, no lease hides an intent queued for the
\* first time or by the sweep, under investigation, or whose case nobody has taken up.
THEOREM NoLeaseHides == Spec => []QueuedUnleased
  <1>1. CaseInv => QueuedUnleased BY DEF CaseInv, Plain, QueuedUnleased
  <1> QED BY <1>1, InitTyped, InitCase, TypedStep, CaseInvStep, PTL DEF Spec
-----------------------------------------------------------------------------
\* What the SELECT of a request found, one by one.
LEMMA SoRead ==
    ASSUME NEW q \in Requests
    PROVE  /\ req[q].op = "none" => StillSo(q)
           /\ req[q].op = "callback" /\ req[q].says = "ACCEPTED" =>
                 (StillSo(q) <=> row[req[q].intent].status \notin Final \cup {"ACK_RECEIVED"})
           /\ req[q].op = "callback" /\ req[q].says # "ACCEPTED" =>
                 (StillSo(q) <=> row[req[q].intent].status \in Reportable)
           /\ req[q].op = "open" =>
                 (StillSo(q) <=> /\ entry[req[q].intent] = "none"
                                 /\ row[req[q].intent].status \notin Final)
           /\ req[q].op = "mark" =>
                 (StillSo(q) <=> entry[req[q].intent] = "PENDING_INVESTIGATION")
           /\ req[q].op = "resolve" => (StillSo(q) <=> Open(req[q].intent))
  BY DEF StillSo

\* A completion is only overtaken after it has found its fence.
LEMMA FenceFirst ==
    ASSUME TypeOK, [Next]_vars, NEW d \in Dispatchers, pc'[d] = "write", pc[d] # "write"
    PROVE  ~Overtaken(d)'
  <1>1. CompleteRead(d) /\ Holds(d, job[d].intent)
    <2>1. ASSUME NEW e \in Dispatchers,
                 \/ CompleteWrite(e) \/ Throw(e) \/ Claim(e) \/ Send(e) \/ CompleteRead(e)
                 \/ Down(e) \/ Start(e)
          PROVE  CompleteRead(d) /\ Holds(d, job[d].intent)
      BY <2>1 DEF CompleteWrite, Throw, Claim, Send, CompleteRead, Down, Start, TypeOK
    <2>2. ASSUME NEW q \in Requests, Write(q) \/ Rollback(q) PROVE UNCHANGED pc
      BY <2>2
        DEF Write, CallbackWrite, OpenWrite, MarkWrite, ResolveWrite, Answered, Rollback
    <2>3. ASSUME NEW q \in Requests, NEW i \in Intents, Read(q, i) PROVE UNCHANGED pc
      BY <2>3
        DEF Read, HandleCallback, HandleUnknownReceive, HandleReconciliation,
            Receipt, Report, Unknown, UnknownAgain, Mark, Resolve, Ask
    <2> QED BY <2>1, <2>2, <2>3 DEF Next, Dispatch, Submit, Reclaim, Tick, vars
  <1> QED BY <1>1 DEF CompleteRead, Overtaken, Holds

\* What CaseKept says of one intent and one step.
Keeps(i) ==
    /\ Open(i)' /\ Queued(i)' => Queued(i) /\ (Open(i) \/ Reopened(i))
    /\ Open(i) /\ ~Queued(i) /\ Delivers(i) => Vouched(i) \/ LateResult(i)

LEMMA SameKeeps ==
    ASSUME NEW i \in Intents, row'[i].status = row[i].status, entry'[i] = entry[i]
    PROVE  Keeps(i)
  BY DEF Keeps, Open, Queued, Delivers

LEMMA KeepsStep ==
    ASSUME TypeOK, Named, CaseInv, [Next]_vars, NEW i \in Intents
    PROVE  Keeps(i)
  <1>0. CASE row'[i] = row[i] /\ entry'[i] = entry[i] BY <1>0, SameKeeps
  <1>1. ASSUME NEW d \in Dispatchers, CompleteWrite(d) PROVE Keeps(i)
    <2>0. job[d].intent \in Intents /\ UNCHANGED entry
      BY <1>1 DEF CompleteWrite, Named, Busy
    <2>1. PICK s \in {"DELIVERED", "TERMINAL"} : Clears(job[d].intent, s) BY <1>1, Written
    <2>2. CASE i = job[d].intent
      <3>1. ~Queued(i)' BY <2>1, <2>2 DEF Clears, Queued
      <3>2. CASE Overtaken(d)
        <4>1. LateResult(i) BY <1>1, <2>2, <3>2 DEF LateResult
        <4> QED BY <3>1, <4>1 DEF Keeps
      <3>3. CASE ~Overtaken(d)
        <4>1. Queued(i) BY <1>1, <2>2, <3>3 DEF CompleteWrite, Overtaken, Holds, Queued
        <4> QED BY <3>1, <4>1 DEF Keeps
      <3> QED BY <3>2, <3>3
    <2>3. CASE i # job[d].intent BY <1>0, <2>0, <2>1, <2>3 DEF Clears, Others
    <2> QED BY <2>2, <2>3
  <1>2. ASSUME NEW q \in Requests, CallbackWrite(q) PROVE Keeps(i)
    <2>0. req[q].intent \in Intents /\ UNCHANGED entry /\ req[q].says \in DOMAIN StatusOf
      BY <1>2 DEF CallbackWrite, Named
    <2>1. Sets(req[q].intent, StatusOf[req[q].says]) BY <1>2, Written
    <2>2. CASE i = req[q].intent
      <3>1. ~Queued(i)' BY <2>0, <2>1, <2>2, Spoken DEF Sets, Queued, Final
      <3>2. Delivers(i) => req[q].says = "DELIVERED"
        BY <2>0, <2>1, <2>2, Spoken DEF Sets, Delivers
      <3>3. Delivers(i) => Vouched(i) BY <1>2, <2>2, <3>2 DEF Vouched
      <3> QED BY <3>1, <3>3 DEF Keeps
    <2>3. CASE i # req[q].intent BY <1>0, <2>0, <2>1, <2>3 DEF Sets, Others
    <2> QED BY <2>2, <2>3
  <1>3. ASSUME NEW q \in Requests, ResolveWrite(q) PROVE Keeps(i)
    <2>0. req[q].intent \in Intents /\ req[q].says \in DOMAIN Resolution
      BY <1>3 DEF ResolveWrite, Named
    <2>1. Sets(req[q].intent, Resolution[req[q].says]) BY <1>3, Written
    <2>2. CASE i = req[q].intent
      <3>1. ~Open(i)' BY <1>3, <2>0, <2>2, Decided DEF ResolveWrite, Open, TypeOK
      <3>2. Delivers(i) => req[q].says = "CONFIRMED"
        BY <2>0, <2>1, <2>2, Decided DEF Sets, Delivers
      <3>3. Delivers(i) => Vouched(i) BY <1>3, <2>2, <3>2 DEF Vouched
      <3> QED BY <3>1, <3>3 DEF Keeps
    <2>3. CASE i # req[q].intent
      BY <1>0, <1>3, <2>0, <2>1, <2>3 DEF Sets, Others, ResolveWrite, TypeOK
    <2> QED BY <2>2, <2>3
  <1>4. ASSUME NEW q \in Requests, OpenWrite(q) PROVE Keeps(i)
    <2>0. PICK j \in Intents : j = req[q].intent BY <1>4 DEF OpenWrite, Named
    <2>1. CASE UNCHANGED <<row, entry>> BY <1>0, <2>1
    <2>2. CASE /\ row' = [row EXCEPT ![j] = Cleared(j, "INVESTIGATION_PENDING")]
               /\ entry' = [entry EXCEPT ![j] = "PENDING_INVESTIGATION"]
      <3>1. Clears(j, "INVESTIGATION_PENDING") BY <2>2, ClearsRow DEF Statuses
      <3>2. CASE i = j BY <3>1, <3>2 DEF Clears, Keeps, Queued, Delivers
      <3>3. CASE i # j BY <1>0, <2>2, <3>1, <3>3 DEF Clears, Others, TypeOK
      <3> QED BY <3>2, <3>3
    <2> QED BY <1>4, <2>0, <2>1, <2>2 DEF OpenWrite
  <1>5. ASSUME NEW q \in Requests, MarkWrite(q) PROVE Keeps(i)
    <2>0. PICK j \in Intents : j = req[q].intent BY <1>5 DEF MarkWrite, Named
    <2>1. UNCHANGED row /\ entry' = [entry EXCEPT ![j] = "INVESTIGATING"]
      BY <1>5, <2>0 DEF MarkWrite
    <2>2. CASE i = j
      <3>1. Queued(i)' => Queued(i) BY <2>1 DEF Queued
      <3>2. ~Open(i) => ~StillSo(q)
        BY <1>5, <2>0, <2>2, SoRead DEF MarkWrite, Open, OpenEntry
      <3>3. ~Open(i) => Reopened(i) BY <1>5, <2>0, <2>2, <3>2 DEF Reopened
      <3>4. ~Delivers(i) BY <2>1 DEF Delivers
      <3> QED BY <3>1, <3>3, <3>4 DEF Keeps
    <2>3. CASE i # j BY <1>0, <2>1, <2>3 DEF TypeOK
    <2> QED BY <2>2, <2>3
  <1>6. ASSUME NEW j \in Intents, Submit(j) PROVE Keeps(i)
    <2>1. Sets(j, "PENDING") BY <1>6, Written
    <2>2. CASE i = j
      <3>1. entry'[i] = "none" BY <1>6, <2>2 DEF Submit, CaseInv, Plain
      <3> QED BY <2>1, <2>2, <3>1 DEF Keeps, Sets, Open, OpenEntry, Delivers
    <2>3. CASE i # j BY <1>0, <1>6, <2>1, <2>3 DEF Sets, Others, Submit
    <2> QED BY <2>2, <2>3
  <1>7. ASSUME Reclaim PROVE Keeps(i)
    <2>1. row'[i] = IF Expired(i) THEN Cleared(i, "PENDING") ELSE row[i]
      BY <1>7 DEF Reclaim
    <2>2. CASE Expired(i)
      <3>1. row[i].status = "LEASED" /\ row'[i].status = "PENDING"
        BY <2>1, <2>2, ClearedRow DEF Expired, Statuses
      <3> QED BY <1>7, <3>1 DEF Reclaim, Keeps, Open, Queued, Delivers
    <2>3. CASE ~Expired(i) BY <1>0, <1>7, <2>1, <2>3 DEF Reclaim
    <2> QED BY <2>2, <2>3
  <1>8. ASSUME NEW d \in Dispatchers, Claim(d) PROVE Keeps(i)
    <2>1. PICK j \in Intents, t \in FreshTokens :
            /\ Claimable(j)
            /\ row' = [row EXCEPT ![j] = [status |-> "LEASED", left |-> LeaseTicks + 1,
                                          token |-> t]]
      BY <1>8 DEF Claim
    <2>2. CASE i = j
      <3>1. row[i].status = "PENDING" /\ row'[i].status = "LEASED"
        BY <2>1, <2>2 DEF Claimable, TypeOK
      <3> QED BY <1>8, <3>1 DEF Claim, Keeps, Open, Queued, Delivers
    <2>3. CASE i # j BY <1>0, <1>8, <2>1, <2>3 DEF Claim, TypeOK
    <2> QED BY <2>2, <2>3
  <1>9. ASSUME Tick PROVE Keeps(i)
    <2>1. row[i] \in Row BY DEF TypeOK
    <2>2. PICK n : row'[i] = [row[i] EXCEPT !.left = n] BY <1>9 DEF Tick
    <2>3. row'[i].status = row[i].status BY <2>1, <2>2 DEF Row
    <2> QED BY <1>9, <2>3, SameKeeps DEF Tick
  <1>10. ASSUME UNCHANGED <<row, entry>> PROVE Keeps(i) BY <1>0, <1>10
  <1>11. ASSUME NEW d \in Dispatchers,
                Throw(d) \/ Send(d) \/ CompleteRead(d) \/ Down(d) \/ Start(d)
         PROVE  UNCHANGED <<row, entry>>
    BY <1>11 DEF Throw, Send, CompleteRead, Down, Start
  <1>12. ASSUME NEW q \in Requests, NEW j \in Intents, Read(q, j)
         PROVE  UNCHANGED <<row, entry>>
    BY <1>12
      DEF Read, HandleCallback, HandleUnknownReceive, HandleReconciliation,
          Receipt, Report, Unknown, UnknownAgain, Mark, Resolve, Ask
  <1>13. ASSUME NEW q \in Requests, Rollback(q) PROVE UNCHANGED <<row, entry>>
    BY <1>13 DEF Rollback
  <1>14. CASE UNCHANGED vars BY <1>10, <1>14 DEF vars
  <1> QED
    BY <1>1, <1>2, <1>3, <1>4, <1>5, <1>6, <1>7, <1>8, <1>9, <1>10, <1>11, <1>12, <1>13,
       <1>14 DEF Next, Dispatch, Write

\* CaseKept: an open case keeps its intent out of the queue unless a late mark reopened
\* it, and over it the intent is delivered only by a word from outside, or by the UPDATE
\* of a completion that had found its fence and was overtaken.
THEOREM CasesAreKept == Spec => CaseKept
  <1> DEFINE Kept == /\ \A i \in Intents : Keeps(i)
                     /\ \A d \in Dispatchers : Overtaken(d)' => pc[d] = "write"
  <1>1. TypeOK /\ Named /\ CaseInv /\ [Next]_vars => [Kept]_vars
    <2> SUFFICES ASSUME TypeOK, Named, CaseInv, [Next]_vars PROVE Kept OBVIOUS
    <2>1. ASSUME NEW i \in Intents PROVE Keeps(i) BY KeepsStep
    <2>2. ASSUME NEW d \in Dispatchers, Overtaken(d)' PROVE pc[d] = "write"
      <3>1. pc'[d] = "write" BY <2>2 DEF Overtaken
      <3> QED BY <2>2, <3>1, FenceFirst
    <2> QED BY <2>1, <2>2
  <1>2. CaseKept <=> [][Kept]_vars BY DEF CaseKept, Keeps
  <1> QED BY <1>1, <1>2, InitTyped, InitCase, TypedStep, CaseInvStep, PTL DEF Spec
-----------------------------------------------------------------------------
(***************************************************************************)
(* The tables implement DeliveryCase, up to the overtaken writes.          *)
(***************************************************************************)
phase == [i \in Intents |-> Phase(i)]
case  == [i \in Intents |-> Case(i)]

Moving == {"PENDING", "LEASED", "ACK_RECEIVED"}

Late(i) == LateResult(i) \/ LateRequest(i)

CaseNext == \/ Delivery!Next
            \/ \E i \in Intents : /\ LateResult(i) \/ LateRequest(i)
                                  /\ Delivery!Overwrite(i)

\* Of the other intents nothing is seen.
LEMMA OthersStay ==
    ASSUME NEW i \in Intents, Others(i), \A j \in Intents \ {i} : entry'[j] = entry[j]
    PROVE  \A j \in Intents \ {i} : Phase(j)' = Phase(j) /\ Case(j)' = Case(j)
  BY DEF Others, Phase, Case, Open

LEMMA CaseInit == Init => Delivery!Init
  <1> SUFFICES ASSUME Init, NEW i \in Intents
               PROVE  Phase(i) = "absent" /\ Case(i) = "none"
    BY DEF Delivery!Init
  <1>1. row[i].status = "ABSENT" /\ entry[i] = "none" BY DEF Init
  <1>2. Phase(i) = "absent" BY <1>1 DEF Phase, Final
  <1>3. Case(i) = "none" BY <1>1 DEF Case, Open, OpenEntry
  <1> QED BY <1>2, <1>3

LEMMA PhaseOf ==
    ASSUME TypeOK, NEW i \in Intents
    PROVE  /\ row[i].status \in Moving <=> Phase(i) = "moving"
           /\ row[i].status = "INVESTIGATION_PENDING" <=> Phase(i) = "held"
           /\ row[i].status \in Final <=> Phase(i) = "settled"
           /\ row[i].status = "ABSENT" <=> Phase(i) = "absent"
  <1>1. row[i].status \in Statuses BY DEF TypeOK, Row
  <1> QED BY <1>1 DEF Statuses, Final, Moving, Phase

\* Statuses that are neither settled nor absent.
LEMMA Unsettled ==
    ASSUME TypeOK, NEW i \in Intents, row[i].status \notin Final, row[i].status # "ABSENT"
    PROVE  row[i].status \in Moving \cup {"INVESTIGATION_PENDING"}
  <1>1. row[i].status \in Statuses BY DEF TypeOK, Row
  <1> QED BY <1>1 DEF Statuses, Moving, Final

\* One overtaken write: only its intent is seen to change, to anything but "absent".
LEMMA Overwritten ==
    ASSUME NEW i \in Intents, Late(i),
           \A j \in Intents \ {i} : Phase(j)' = Phase(j) /\ Case(j)' = Case(j),
           Phase(i)' \in {Phase(i), "moving", "held", "settled"},
           Case(i)' \in {Case(i), "open", "closed"}
    PROVE  CaseNext
  <1>1. phase' = [phase EXCEPT ![i] = Phase(i)'] BY DEF phase
  <1>2. case' = [case EXCEPT ![i] = Case(i)'] BY DEF case
  <1>3. phase[i] = Phase(i) /\ case[i] = Case(i) BY DEF phase, case
  <1>4. Delivery!Overwrite(i) BY <1>1, <1>2, <1>3 DEF Delivery!Overwrite, phase, case
  <1> QED BY <1>4 DEF CaseNext, Late

LEMMA CaseStep ==
    ASSUME TypeOK, TypeOK', Named, InvestigationOpen, CaseInv, [Next]_vars
    PROVE  [CaseNext]_<<phase, case>>
  <1>0. ASSUME UNCHANGED <<row, entry>> PROVE UNCHANGED <<phase, case>>
    BY <1>0 DEF phase, case, Phase, Case, Open
  <1>1. ASSUME \A i \in Intents : Phase(i)' = Phase(i) /\ Case(i)' = Case(i)
        PROVE  UNCHANGED <<phase, case>>
    BY <1>1 DEF phase, case
  <1>2. ASSUME NEW d \in Dispatchers, CompleteWrite(d) PROVE CaseNext
    <2>0. PICK i \in Intents : i = job[d].intent BY <1>2 DEF CompleteWrite, Named, Busy
    <2>1. PICK s \in {"DELIVERED", "TERMINAL"} : Clears(i, s) BY <1>2, <2>0, Written
    <2>4. Phase(i)' = "settled" BY <2>1 DEF Clears, Phase, Final
    <2>5. \A j \in Intents \ {i} : Phase(j)' = Phase(j)
      BY <1>2, <2>1, OthersStay DEF Clears, CompleteWrite
    <2>6. \A j \in Intents : Case(j)' = Case(j) BY <1>2 DEF CompleteWrite, Case, Open
    <2>7. CASE Overtaken(d)
      <3>1. Late(i) BY <1>2, <2>0, <2>7 DEF Late, LateResult
      <3> QED BY <2>4, <2>5, <2>6, <3>1, Overwritten
    <2>8. CASE ~Overtaken(d)
      <3>1. row[i].status = "LEASED"
        BY <1>2, <2>0, <2>8 DEF CompleteWrite, Overtaken, Holds
      <3>2. Phase(i) = "moving" BY <3>1 DEF Phase, Final
      <3>3. Delivery!Settle(i)
        BY <2>4, <2>5, <2>6, <3>2 DEF Delivery!Settle, Delivery!Step, phase, case
      <3> QED BY <3>3 DEF Delivery!Next, CaseNext
    <2> QED BY <2>7, <2>8
  <1>3. ASSUME NEW q \in Requests, CallbackWrite(q) PROVE [CaseNext]_<<phase, case>>
    <2>0. PICK i \in Intents : i = req[q].intent BY <1>3 DEF CallbackWrite, Named
    <2>1. PICK s \in {"ACK_RECEIVED"} \cup Final : s = StatusOf[req[q].says] /\ Sets(i, s)
      BY <1>3, <2>0, Written, Spoken DEF CallbackWrite, Named
    <2>2. \A j \in Intents \ {i} : Phase(j)' = Phase(j)
      BY <1>3, <2>1, OthersStay DEF Sets, CallbackWrite
    <2>3. \A j \in Intents : Case(j)' = Case(j) BY <1>3 DEF CallbackWrite, Case, Open
    <2>4. Phase(i)' = IF s = "ACK_RECEIVED" THEN "moving" ELSE "settled"
      BY <2>1 DEF Sets, Phase, Final
    <2>5. CASE ~StillSo(q)
      <3>1. Late(i) BY <1>3, <2>0, <2>5 DEF Late, LateRequest, Write
      <3> QED BY <2>2, <2>3, <2>4, <3>1, Overwritten
    <2>6. CASE StillSo(q) /\ req[q].says = "ACCEPTED"
      <3>1. Phase(i)' = "moving" BY <2>1, <2>4, <2>6, Spoken
      <3>2. row[i].status \in Moving \cup {"INVESTIGATION_PENDING"}
        <4>1. row[i].status \notin Final \cup {"ACK_RECEIVED"}
          BY <1>3, <2>0, <2>6, SoRead DEF CallbackWrite
        <4>2. row[i].status # "ABSENT" BY <1>3, <2>0 DEF CallbackWrite, CaseInv, Submitted
        <4> QED BY <4>1, <4>2, Unsettled
      <3>3. CASE row[i].status \in Moving
        <4>1. Phase(i) = "moving" BY <3>3, PhaseOf
        <4> QED BY <1>1, <2>2, <2>3, <3>1, <4>1
      <3>4. CASE row[i].status = "INVESTIGATION_PENDING"
        <4>1. Phase(i) = "held" BY <3>4, PhaseOf
        <4>2. Delivery!Acknowledge(i)
          BY <2>2, <2>3, <3>1, <4>1 DEF Delivery!Acknowledge, Delivery!Step, phase, case
        <4> QED BY <4>2 DEF Delivery!Next, CaseNext
      <3> QED BY <3>2, <3>3, <3>4
    <2>7. CASE StillSo(q) /\ req[q].says # "ACCEPTED"
      <3>1. row[i].status \in Moving
        BY <1>3, <2>0, <2>7, SoRead DEF CallbackWrite, Moving, Reportable
      <3>2. Phase(i) = "moving" BY <3>1, PhaseOf
      <3>3. CASE s = "ACK_RECEIVED" BY <1>1, <2>2, <2>3, <2>4, <3>2, <3>3
      <3>4. CASE s # "ACK_RECEIVED"
        <4>1. Delivery!Settle(i)
          BY <2>2, <2>3, <2>4, <3>2, <3>4 DEF Delivery!Settle, Delivery!Step, phase, case
        <4> QED BY <4>1 DEF Delivery!Next, CaseNext
      <3> QED BY <3>3, <3>4
    <2> QED BY <2>5, <2>6, <2>7
  <1>4. ASSUME NEW q \in Requests, ResolveWrite(q) PROVE CaseNext
    <2>0. PICK i \in Intents : i = req[q].intent BY <1>4 DEF ResolveWrite, Named
    <2>1. PICK s \in {"PENDING"} \cup Final : Sets(i, s)
      BY <1>4, <2>0, Written, Decided DEF ResolveWrite, Named
    <2>2. entry'[i] \notin OpenEntry \cup {"none"}
      BY <1>4, <2>0, Decided DEF ResolveWrite, Named, TypeOK
    <2>3. Case(i)' = "closed" BY <2>2 DEF Case, Open
    <2>4. Phase(i)' \in {"moving", "settled"} BY <2>1 DEF Sets, Phase, Final
    <2>5. \A j \in Intents \ {i} : Phase(j)' = Phase(j) /\ Case(j)' = Case(j)
      <3>1. \A j \in Intents \ {i} : entry'[j] = entry[j]
        BY <1>4, <2>0 DEF ResolveWrite, TypeOK
      <3> QED BY <2>1, <3>1, OthersStay DEF Sets
    <2>6. CASE ~StillSo(q)
      <3>1. Late(i) BY <1>4, <2>0, <2>6 DEF Late, LateRequest, Write
      <3> QED BY <2>3, <2>4, <2>5, <3>1, Overwritten
    <2>7. CASE StillSo(q)
      <3>1. Open(i) BY <1>4, <2>0, <2>7, SoRead DEF ResolveWrite
      <3>2. Case(i) = "open" BY <3>1 DEF Case, Open, OpenEntry
      <3>3. Delivery!Decide(i)
        BY <2>3, <2>4, <2>5, <3>2 DEF Delivery!Decide, phase, case
      <3> QED BY <3>3 DEF Delivery!Next, CaseNext
    <2> QED BY <2>6, <2>7
  <1>5. ASSUME NEW q \in Requests, OpenWrite(q) PROVE [CaseNext]_<<phase, case>>
    <2>0. PICK i \in Intents : i = req[q].intent BY <1>5 DEF OpenWrite, Named
    <2>1. CASE UNCHANGED <<row, entry>> BY <1>0, <2>1
    <2>2. CASE /\ entry[i] = "none"
               /\ row' = [row EXCEPT ![i] = Cleared(i, "INVESTIGATION_PENDING")]
               /\ entry' = [entry EXCEPT ![i] = "PENDING_INVESTIGATION"]
      <3>1. Clears(i, "INVESTIGATION_PENDING") BY <2>2, ClearsRow DEF Statuses
      <3>2. Phase(i)' = "held" BY <3>1 DEF Clears, Phase, Final
      <3>3. Case(i) = "none" /\ Case(i)' = "open"
        BY <2>2 DEF Case, Open, OpenEntry, TypeOK
      <3>4. \A j \in Intents \ {i} : Phase(j)' = Phase(j) /\ Case(j)' = Case(j)
        <4>1. \A j \in Intents \ {i} : entry'[j] = entry[j] BY <2>2 DEF TypeOK
        <4> QED BY <3>1, <4>1, OthersStay DEF Clears
      <3>5. CASE ~StillSo(q)
        <4>1. Late(i) BY <1>5, <2>0, <3>5 DEF Late, LateRequest, Write
        <4> QED BY <3>2, <3>3, <3>4, <4>1, Overwritten
      <3>6. CASE StillSo(q)
        <4>1. row[i].status \notin Final BY <1>5, <2>0, <3>6, SoRead DEF OpenWrite
        <4>2. row[i].status # "ABSENT" BY <1>5, <2>0 DEF OpenWrite, CaseInv, Submitted
        <4>3. row[i].status # "INVESTIGATION_PENDING"
          BY <2>2 DEF InvestigationOpen, Open, OpenEntry
        <4>4. Phase(i) = "moving" BY <4>1, <4>2, <4>3, Unsettled, PhaseOf
        <4>5. Delivery!Open(i)
          BY <3>2, <3>3, <3>4, <4>4 DEF Delivery!Open, Delivery!Step, phase, case
        <4> QED BY <4>5 DEF Delivery!Next, CaseNext
      <3> QED BY <3>5, <3>6
    <2> QED BY <1>5, <2>0, <2>1, <2>2 DEF OpenWrite
  <1>6. ASSUME NEW q \in Requests, MarkWrite(q) PROVE [CaseNext]_<<phase, case>>
    <2>0. PICK i \in Intents : i = req[q].intent BY <1>6 DEF MarkWrite, Named
    <2>1. entry'[i] = "INVESTIGATING" BY <1>6, <2>0 DEF MarkWrite, TypeOK
    <2>2. Case(i)' = "open" BY <2>1 DEF Case, Open, OpenEntry
    <2>3. \A j \in Intents \ {i} : Case(j)' = Case(j)
      BY <1>6, <2>0 DEF MarkWrite, Case, Open, TypeOK
    <2>4. \A j \in Intents : Phase(j)' = Phase(j) BY <1>6 DEF MarkWrite, Phase
    <2>5. CASE ~StillSo(q)
      <3>1. Late(i) BY <1>6, <2>0, <2>5 DEF Late, LateRequest, Write
      <3> QED BY <2>2, <2>3, <2>4, <3>1, Overwritten
    <2>6. CASE StillSo(q)
      <3>1. entry[i] = "PENDING_INVESTIGATION" BY <1>6, <2>0, <2>6, SoRead DEF MarkWrite
      <3>2. Case(i) = "open" BY <3>1 DEF Case, Open, OpenEntry
      <3> QED BY <1>1, <2>2, <2>3, <2>4, <3>2
    <2> QED BY <2>5, <2>6
  <1>7. ASSUME NEW i \in Intents, Submit(i) PROVE CaseNext
    <2>1. Sets(i, "PENDING") BY <1>7, Written
    <2>2. Phase(i) = "absent" BY <1>7 DEF Submit, Phase, Final
    <2>3. Phase(i)' = "moving" BY <2>1 DEF Sets, Phase, Final
    <2>4. \A j \in Intents \ {i} : Phase(j)' = Phase(j)
      BY <1>7, <2>1, OthersStay DEF Sets, Submit
    <2>5. \A j \in Intents : Case(j)' = Case(j) BY <1>7 DEF Submit, Case, Open
    <2>6. Delivery!Submit(i)
      BY <2>2, <2>3, <2>4, <2>5 DEF Delivery!Submit, Delivery!Step, phase, case
    <2> QED BY <2>6 DEF Delivery!Next, CaseNext
  <1>8. ASSUME Reclaim PROVE UNCHANGED <<phase, case>>
    <2>1. ASSUME NEW i \in Intents PROVE Phase(i)' = Phase(i)
      <3>1. row'[i] = IF Expired(i) THEN Cleared(i, "PENDING") ELSE row[i]
        BY <1>8 DEF Reclaim
      <3>2. CASE Expired(i)
        <4>1. row[i].status = "LEASED" /\ row'[i].status = "PENDING"
          BY <3>1, <3>2, ClearedRow DEF Expired, Statuses
        <4> QED BY <4>1 DEF Phase
      <3>3. CASE ~Expired(i)
        <4>1. row'[i] = row[i] BY <3>1, <3>3
        <4> QED BY <4>1 DEF Phase
      <3> QED BY <3>2, <3>3
    <2>2. \A i \in Intents : Case(i)' = Case(i) BY <1>8 DEF Reclaim, Case, Open
    <2> QED BY <1>1, <2>1, <2>2
  <1>9. ASSUME NEW d \in Dispatchers, Claim(d) PROVE UNCHANGED <<phase, case>>
    <2>1. PICK i \in Intents, t \in FreshTokens :
            /\ Claimable(i)
            /\ row' = [row EXCEPT ![i] = [status |-> "LEASED", left |-> LeaseTicks + 1,
                                          token |-> t]]
      BY <1>9 DEF Claim
    <2>2. row'[i].status = "LEASED" /\ Others(i) BY <2>1 DEF TypeOK, Others
    <2>3. Phase(i) = "moving" /\ Phase(i)' = "moving" BY <2>1, <2>2 DEF Claimable, Phase, Final
    <2>4. \A j \in Intents \ {i} : Phase(j)' = Phase(j)
      BY <1>9, <2>2, OthersStay DEF Claim
    <2>5. \A j \in Intents : Case(j)' = Case(j) BY <1>9 DEF Claim, Case, Open
    <2> QED BY <1>1, <2>3, <2>4, <2>5
  <1>10. ASSUME Tick PROVE UNCHANGED <<phase, case>>
    <2>1. ASSUME NEW i \in Intents PROVE Phase(i)' = Phase(i)
      <3>1. row[i] \in Row BY DEF TypeOK
      <3>2. PICK n : row'[i] = [row[i] EXCEPT !.left = n] BY <1>10 DEF Tick
      <3>3. row'[i].status = row[i].status BY <3>1, <3>2 DEF Row
      <3> QED BY <3>3 DEF Phase
    <2>2. \A i \in Intents : Case(i)' = Case(i) BY <1>10 DEF Tick, Case, Open
    <2> QED BY <1>1, <2>1, <2>2
  <1>11. ASSUME NEW d \in Dispatchers,
                Throw(d) \/ Send(d) \/ CompleteRead(d) \/ Down(d) \/ Start(d)
         PROVE  UNCHANGED <<phase, case>>
    BY <1>0, <1>11 DEF Throw, Send, CompleteRead, Down, Start
  <1>12. ASSUME NEW q \in Requests, NEW i \in Intents, Read(q, i)
         PROVE  UNCHANGED <<phase, case>>
    BY <1>0, <1>12
      DEF Read, HandleCallback, HandleUnknownReceive, HandleReconciliation,
          Receipt, Report, Unknown, UnknownAgain, Mark, Resolve, Ask
  <1>13. ASSUME NEW q \in Requests, Rollback(q) PROVE UNCHANGED <<phase, case>>
    BY <1>0, <1>13 DEF Rollback
  <1>14. CASE UNCHANGED vars BY <1>0, <1>14 DEF vars
  <1> QED
    BY <1>2, <1>3, <1>4, <1>5, <1>6, <1>7, <1>8, <1>9, <1>10, <1>11, <1>12, <1>13, <1>14
       DEF Next, Dispatch, Write

\* A request that is open was in order when it read.
LEMMA ReadsFirst ==
    ASSUME TypeOK, [Next]_vars, NEW q \in Requests, req[q] = NoRequest
    PROVE  StillSo(q)'
  <1>0. CASE req'[q] = NoRequest
    <2>1. req'[q].op = "none" BY <1>0, Nothing
    <2> QED BY <2>1 DEF StillSo
  <1>1. ASSUME NEW i \in Intents, Read(q, i) PROVE StillSo(q)'
    <2>1. CASE UnknownAgain(q, i) BY <1>0, <2>1 DEF UnknownAgain
    <2>2. CASE Receipt(q, i) BY <2>2, Asked DEF Receipt, StillSo
    <2>3. ASSUME NEW says \in DOMAIN StatusOf \ {"ACCEPTED"}, Report(q, i, says)
          PROVE  StillSo(q)'
      BY <2>3, Asked DEF Report, StillSo
    <2>4. CASE Unknown(q, i) BY <2>4, Asked DEF Unknown, StillSo
    <2>5. CASE Mark(q, i) BY <2>5, Asked DEF Mark, StillSo
    <2>6. ASSUME NEW says \in DOMAIN Resolution, Resolve(q, i, says) PROVE StillSo(q)'
      BY <2>6, Asked DEF Resolve, Open, StillSo
    <2> QED BY <1>1, <2>1, <2>2, <2>3, <2>4, <2>5, <2>6
            DEF Read, HandleCallback, HandleUnknownReceive, HandleReconciliation
  <1>2. ASSUME NEW p \in Requests, NEW i \in Intents, p # q, Read(p, i) PROVE StillSo(q)'
    BY <1>0, <1>2
      DEF Read, HandleCallback, HandleUnknownReceive, HandleReconciliation,
          Receipt, Report, Unknown, UnknownAgain, Mark, Resolve, Ask, TypeOK
  <1>3. ASSUME NEW p \in Requests, Write(p) \/ Rollback(p) PROVE StillSo(q)'
    BY <1>0, <1>3
      DEF Write, CallbackWrite, OpenWrite, MarkWrite, ResolveWrite, Answered, Rollback,
          TypeOK
  <1>4. ASSUME NEW d \in Dispatchers,
               \/ CompleteWrite(d) \/ Throw(d) \/ Claim(d) \/ Send(d) \/ CompleteRead(d)
               \/ Down(d) \/ Start(d)
        PROVE  StillSo(q)'
    BY <1>0, <1>4 DEF CompleteWrite, Throw, Claim, Send, CompleteRead, Down, Start
  <1> QED BY <1>0, <1>1, <1>2, <1>3, <1>4 DEF Next, Dispatch, Submit, Reclaim, Tick, vars

\* ImplementsCase: the two tables are a DeliveryCase, but for the one intent the UPDATE
\* of an overtaken completion or request overwrites; and every request was in order when
\* it read.
THEOREM OutboxImplementsCase == Spec => ImplementsCase
  <1> DEFINE InOrder == \A q \in Requests : req[q] = NoRequest => StillSo(q)'
  <1>1. TypeOK /\ [Next]_vars => [InOrder]_vars BY ReadsFirst
  <1>2. Spec => [][InOrder]_vars BY <1>1, InitTyped, TypedStep, PTL DEF Spec
  <1>3. Spec => Delivery!Init /\ [][CaseNext]_<<phase, case>>
    BY InitTyped, InitInvestigation, InitCase, CaseInit, TypedStep, InvestigationStep,
       CaseInvStep, CaseStep, PTL DEF Spec
  <1> QED BY <1>2, <1>3, PTL DEF ImplementsCase, CaseNext, phase, case
=============================================================================

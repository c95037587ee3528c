---------------------------- MODULE InboundProofs ----------------------------
(***************************************************************************)
(* What an event from outside can rely on.  The webhook receiver, for any  *)
(* number of requests handled at the same time, connections, limits, store *)
(* errors and crashes: the rows behind the answers, and the requests the   *)
(* limit lets through.  The pipeline, for any provider events, any number  *)
(* of overlapping executions and attempts, and any number of lost answers  *)
(* and gateway restarts.                                                   *)
(***************************************************************************)
EXTENDS Receiver, Pipeline, FiniteSetTheorems, TLAPS

-----------------------------------------------------------------------------
(* Webhook receiver.                                                       *)

\* Every open request is one a provider sent.
Stage == {"idle", "select", "insert", "open"}
SlotsTyped == /\ slot \in [Slots -> [pc : Stage, req : Requests \cup {NoRequest}]]
              /\ \A s \in Slots : slot[s].pc # "idle" => slot[s].req \in Requests

\* Every row was built from a request; one id, one row; each row has its intent and each
\* intent its row.
IntentOf(r) == [receipt |-> r.id, for |-> [scope |-> r.line.scope, event |-> r.line.event]]
RowsTrue == /\ receipts \subseteq {Row(q) : q \in Requests}
            /\ \A r, t \in receipts : r.id = t.id => r = t
            /\ intents = {IntentOf(r) : r \in receipts}

\* A row that is inserted and not committed clashes with none that is.
OpenIsAlone ==
    \A s \in Slots : slot[s].pc = "open" =>
        /\ \A r \in receipts : ~Clash(slot[s].req, r)
        /\ \A t \in Slots \ {s} :
             slot[t].pc = "open" => ~Clash(slot[s].req, Row(slot[t].req))

\* What was acknowledged has its row.
AckedHasRow == \A a \in acked : \E r \in receipts : r.line = a

\* What the RateState r of a scope says at time t of the requests A that passed the limit.
\* While there is none, the last window's worth of time has seen no request.  Otherwise the
\* requests of the window are counted, and the window before had no more than the limit.
Tracks(r, A, t) ==
    /\ r = NoRate => \A a \in A : a[1] + Window <= t
    /\ r # NoRate =>
         /\ r.start <= r.last /\ r.last <= t /\ r.last < r.start + Window
         /\ r.count <= Limit
         /\ \A a \in A : a[1] <= r.last
         /\ Cardinality({a \in A : a[1] >= r.start}) <= r.count
         /\ Cardinality({a \in A : a[1] < r.start /\ a[1] + Window > r.start}) <= Limit

Spread(A) ==
    \A from \in 1 .. MaxTime :
        Cardinality({a \in A : a[1] \in from .. from + Window - 1}) <= 2 * Limit

RateTrue == /\ rate \in [Scopes -> [start : Nat, count : Nat, last : Nat]]
            /\ admitted = [c \in Scopes |-> admitted[c]]
            /\ \A c \in Scopes : /\ IsFiniteSet(admitted[c]) /\ admitted[c] \subseteq Nat \X Nat
                                 /\ Tracks(rate[c], admitted[c], now)
                                 /\ Spread(admitted[c])

MapBounded == IsFiniteSet(Kept(rate)) /\ Cardinality(Kept(rate)) <= MapMax

Bounds == now \in 1 .. MaxTime /\ errors \in 0 .. MaxErrors

ReceiverSound == /\ Bounds /\ SlotsTyped /\ RowsTrue /\ OpenIsAlone /\ AckedHasRow /\ ConflictReal
             /\ RateTrue /\ MapBounded

-----------------------------------------------------------------------------
\* The limit.

LEMMA Part == ASSUME NEW A, IsFiniteSet(A), NEW T, T \subseteq A
              PROVE  /\ IsFiniteSet(T) /\ Cardinality(T) \in Nat
                     /\ Cardinality(T) <= Cardinality(A)
  BY FS_Subset, FS_CardinalityType

LEMMA OneMore == ASSUME NEW A, IsFiniteSet(A), NEW x, NEW T, T \subseteq A \cup {x}
                 PROVE  /\ IsFiniteSet(T) /\ Cardinality(T) \in Nat
                        /\ \A S : T \subseteq S \cup {x} /\ S \subseteq A
                                 => Cardinality(T) <= Cardinality(S) + 1
  <1>1. IsFiniteSet(A \cup {x}) BY FS_AddElement
  <1>2. IsFiniteSet(T) /\ Cardinality(T) \in Nat BY <1>1, Part
  <1>3. ASSUME NEW S, T \subseteq S \cup {x}, S \subseteq A
        PROVE  Cardinality(T) <= Cardinality(S) + 1
    <2>1. IsFiniteSet(S) /\ Cardinality(S) \in Nat BY <1>3, Part
    <2>2. /\ IsFiniteSet(S \cup {x})
          /\ Cardinality(S \cup {x}) = IF x \in S THEN Cardinality(S) ELSE Cardinality(S) + 1
      BY <2>1, FS_AddElement
    <2>3. Cardinality(T) <= Cardinality(S \cup {x}) BY <1>3, <2>2, Part
    <2> QED BY <1>2, <2>1, <2>2, <2>3
  <1> QED BY <1>2, <1>3

RateState == [start : Nat, count : Nat, last : Nat]

\* An entry that has been idle for the time to live may go: its window is over.
LEMMA DropIdle ==
    ASSUME NEW r \in RateState, NEW A \in SUBSET (Nat \X Nat), NEW t \in Nat,
           Tracks(r, A, t), r # NoRate, t - r.last >= IdleTTL
    PROVE  Tracks(NoRate, A, t)
  BY ReceiverRate DEF Tracks, RateState

LEMMA Later ==
    ASSUME NEW r \in RateState, NEW A \in SUBSET (Nat \X Nat), NEW t \in Nat, Tracks(r, A, t)
    PROVE  Tracks(r, A, t + 1)
  <1>1. CASE r = NoRate BY <1>1, ReceiverRate DEF Tracks
  <1>2. CASE r # NoRate BY <1>2, ReceiverRate DEF Tracks, RateState
  <1> QED BY <1>1, <1>2

\* A window that starts has seen one request, and the one before no more than the limit.
LEMMA NewWindow ==
    ASSUME NEW r \in RateState, NEW A \in SUBSET (Nat \X Nat), IsFiniteSet(A), NEW t \in Nat,
           Tracks(r, A, t), r = NoRate \/ t - r.start >= Window, NEW n \in Nat
    PROVE  Tracks([start |-> t, count |-> 1, last |-> t], A \cup {<<t, n>>}, t)
  <1> DEFINE x == <<t, n>>
             B == A \cup {x}
             inside == {a \in B : a[1] >= t}
             before == {a \in B : a[1] < t /\ a[1] + Window > t}
             new == [start |-> t, count |-> 1, last |-> t]
  <1>0. x[1] = t /\ Window \in Nat \ {0} /\ Limit \in Nat \ {0} BY ReceiverRate
  <1>1. \A a \in A : a[1] \in Nat /\ a[1] < t
    <2>1. \A a \in A : a[1] \in Nat OBVIOUS
    <2>2. CASE r = NoRate BY <1>0, <2>1, <2>2 DEF Tracks
    <2>3. CASE r # NoRate
      <3>1. r.last \in Nat /\ r.start \in Nat BY DEF RateState
      <3>2. r.last < t BY <1>0, <2>3, <3>1 DEF Tracks
      <3>3. \A a \in A : a[1] <= r.last BY <2>3 DEF Tracks
      <3> QED BY <2>1, <3>1, <3>2, <3>3
    <2> QED BY <2>2, <2>3
  <1>2. Cardinality(inside) <= 1
    <2>1. inside \subseteq {} \cup {x} BY <1>0, <1>1
    <2>2. Cardinality(inside) <= Cardinality({}) + 1 BY <2>1, FS_EmptySet, OneMore
    <2>3. Cardinality({}) = 0 BY FS_EmptySet
    <2> QED BY <2>2, <2>3
  <1>3. Cardinality(before) <= Limit
    <2>1. before \subseteq A BY <1>0
    <2>2. Cardinality(before) \in Nat BY <2>1, Part
    <2>3. CASE r = NoRate
      <3>1. before = {} BY <1>0, <1>1, <2>1, <2>3 DEF Tracks
      <3>2. Cardinality(before) = 0 BY <3>1, FS_EmptySet
      <3> QED BY <1>0, <3>2
    <2>4. CASE r # NoRate
      <3> DEFINE window == {a \in A : a[1] >= r.start}
      <3>1. r.start \in Nat /\ r.count \in Nat /\ t - r.start >= Window BY <2>4 DEF RateState
      <3>2. Cardinality(window) <= r.count /\ r.count <= Limit BY <2>4 DEF Tracks
      <3>3. before \subseteq window BY <1>0, <1>1, <3>1
      <3>4. window \subseteq A OBVIOUS
      <3>5. IsFiniteSet(window) /\ Cardinality(window) \in Nat BY <3>4, Part
      <3>6. Cardinality(before) <= Cardinality(window) BY <3>3, <3>5, Part
      <3> QED BY <1>0, <2>2, <3>1, <3>2, <3>5, <3>6
    <2> QED BY <2>3, <2>4
  <1>4. new # NoRate BY DEF NoRate
  <1>5. \A a \in B : a[1] <= t BY <1>0, <1>1
  <1>6. new.start = t /\ new.last = t /\ new.count = 1 OBVIOUS
  <1> HIDE DEF new, B, x
  <1>7. Tracks(new, B, t)
    <2>1. t <= t /\ t < t + Window /\ 1 <= Limit BY <1>0
    <2> QED BY <1>2, <1>3, <1>4, <1>5, <1>6, <2>1 DEF Tracks
  <1> QED BY <1>7 DEF new, B, x

\* A request within the window is counted.
LEMMA Counted ==
    ASSUME NEW r \in RateState, NEW A \in SUBSET (Nat \X Nat), IsFiniteSet(A), NEW t \in Nat,
           Tracks(r, A, t), r # NoRate, t - r.start < Window, r.count < Limit, NEW n \in Nat,
           NEW r2 \in RateState, r2.start = r.start, r2.count = r.count + 1, r2.last = t
    PROVE  Tracks(r2, A \cup {<<t, n>>}, t)
  <1> DEFINE x == <<t, n>>
             B == A \cup {x}
             inside == {a \in B : a[1] >= r.start}
             was    == {a \in A : a[1] >= r.start}
             before == {a \in B : a[1] < r.start /\ a[1] + Window > r.start}
             wasb   == {a \in A : a[1] < r.start /\ a[1] + Window > r.start}
  <1>0. x[1] = t /\ Window \in Nat \ {0} /\ Limit \in Nat \ {0} BY ReceiverRate
  <1>1. r.start \in Nat /\ r.count \in Nat /\ r.last \in Nat BY DEF RateState
  <1>2. /\ r.start <= r.last /\ r.last <= t /\ \A a \in A : a[1] <= r.last
        /\ Cardinality(was) <= r.count /\ Cardinality(wasb) <= Limit
    BY DEF Tracks
  <1>3. Cardinality(inside) <= r.count + 1
    <2>1. was \subseteq A OBVIOUS
    <2>2. inside \subseteq A \cup {x} /\ inside \subseteq was \cup {x} OBVIOUS
    <2>3. Cardinality(was) \in Nat BY <2>1, Part
    <2>4. Cardinality(inside) \in Nat /\ Cardinality(inside) <= Cardinality(was) + 1
      <3> HIDE DEF inside, was, x
      <3> QED BY <2>1, <2>2, OneMore
    <2> QED BY <1>1, <1>2, <2>3, <2>4
  <1>4. Cardinality(before) <= Limit
    <2>1. before = wasb
      <3>1. x \notin before BY <1>0, <1>1, <1>2
      <3> QED BY <3>1
    <2> QED BY <1>2, <2>1
  <1>5. \A a \in B : a[1] <= t BY <1>0, <1>1, <1>2
  <1>6. r2 # NoRate BY <1>1 DEF NoRate
  <1> HIDE DEF B, x
  <1>7. Tracks(r2, B, t)
    <2>1. r.start <= t /\ t <= t /\ t < r.start + Window /\ r.count + 1 <= Limit
      BY <1>0, <1>1, <1>2
    <2> QED BY <1>3, <1>4, <1>5, <1>6, <2>1 DEF Tracks
  <1> QED BY <1>7 DEF B, x

\* Two windows' worth: the requests around now are those of the window that runs and of the
\* window before it; other spans are as they were.
LEMMA StillSpread ==
    ASSUME NEW A \in SUBSET (Nat \X Nat), IsFiniteSet(A), NEW t \in Nat, NEW n \in Nat,
           Spread(A), NEW r \in RateState, r # NoRate, Tracks(r, A \cup {<<t, n>>}, t)
    PROVE  Spread(A \cup {<<t, n>>})
  <1> DEFINE x == <<t, n>>
             B == A \cup {x}
             inside == {a \in B : a[1] >= r.start}
             before == {a \in B : a[1] < r.start /\ a[1] + Window > r.start}
  <1>0. /\ x[1] = t /\ Window \in Nat \ {0} /\ Limit \in Nat \ {0}
        /\ MaxTime \in Nat BY ReceiverRate, ReceiverBounds
  <1>1. r.start \in Nat /\ r.count \in Nat /\ r.last \in Nat BY DEF RateState
  <1>2. /\ r.start <= r.last /\ r.last <= t /\ r.count <= Limit
        /\ Cardinality(inside) <= r.count /\ Cardinality(before) <= Limit
    BY DEF Tracks
  <1>3. \A a \in B : a[1] \in Nat BY <1>0
  <1>4. IsFiniteSet(B) BY FS_AddElement
  <1>5. inside \subseteq B /\ before \subseteq B OBVIOUS
  <1>6. /\ IsFiniteSet(inside) /\ Cardinality(inside) \in Nat
        /\ IsFiniteSet(before) /\ Cardinality(before) \in Nat
    BY <1>4, <1>5, Part
  <1>7. ASSUME NEW from \in 1 .. MaxTime
        PROVE  Cardinality({a \in B : a[1] \in from .. from + Window - 1}) <= 2 * Limit
    <2> DEFINE span == {a \in B : a[1] \in from .. from + Window - 1}
    <2>1. CASE x \notin span
      <3>1. span = {a \in A : a[1] \in from .. from + Window - 1} BY <2>1
      <3> QED BY <3>1 DEF Spread
    <2>2. CASE x \in span
      <3>1. from <= t /\ t < from + Window BY <1>0, <2>2
      <3>2. span \subseteq inside \cup before
        <4>1. SUFFICES ASSUME NEW a \in span
                       PROVE  \/ a[1] >= r.start
                              \/ a[1] < r.start /\ a[1] + Window > r.start
          OBVIOUS
        <4>2. a[1] \in Nat /\ a[1] >= from BY <1>3
        <4> QED BY <1>0, <1>1, <1>2, <3>1, <4>1, <4>2
      <3>3. /\ IsFiniteSet(inside \cup before) /\ IsFiniteSet(inside \cap before)
            /\ Cardinality(inside \cup before)
                 = Cardinality(inside) + Cardinality(before) - Cardinality(inside \cap before)
        BY <1>6, FS_Union, FS_Intersection
      <3>4. Cardinality(inside \cap before) \in Nat BY <3>3, FS_CardinalityType
      <3>5. Cardinality(span) \in Nat /\ Cardinality(span) <= Cardinality(inside \cup before)
        BY <3>2, <3>3, Part
      <3>6. Cardinality(span) <= 2 * Limit
        <4> HIDE DEF inside, before, span
        <4> QED BY <1>0, <1>1, <1>2, <1>6, <3>3, <3>4, <3>5
      <3> QED BY <3>6
    <2> QED BY <2>1, <2>2
  <1> QED BY <1>7 DEF Spread

-----------------------------------------------------------------------------
LEMMA RateTypes == NoRate \in RateState /\ (RateTrue => rate \in [Scopes -> RateState])
  BY DEF NoRate, RateState, RateTrue

\* The sweep of the idle entries keeps the truth of the rest.
LEMMA Swept ==
    ASSUME Bounds, RateTrue, MapBounded
    PROVE  /\ Fresh \in [Scopes -> RateState]
           /\ \A c \in Scopes : Tracks(Fresh[c], admitted[c], now)
           /\ Kept(Fresh) \subseteq Kept(rate) /\ IsFiniteSet(Kept(Fresh))
           /\ Cardinality(Kept(Fresh)) \in Nat /\ Cardinality(Kept(Fresh)) <= MapMax
  <1>0. now \in Nat /\ MapMax \in Nat \ {0} BY ReceiverRate, ReceiverBounds DEF Bounds
  <1>1. Fresh \in [Scopes -> RateState] BY RateTypes DEF Fresh
  <1>2. ASSUME NEW c \in Scopes PROVE Tracks(Fresh[c], admitted[c], now)
    <2>1. /\ rate[c] \in RateState /\ admitted[c] \in SUBSET (Nat \X Nat)
          /\ Tracks(rate[c], admitted[c], now)
      BY RateTypes DEF RateTrue
    <2>2. CASE rate[c] # NoRate /\ now - rate[c].last >= IdleTTL
      <3>1. Fresh[c] = NoRate BY <2>2 DEF Fresh
      <3> QED BY <1>0, <2>1, <2>2, <3>1, DropIdle
    <2>3. CASE ~(rate[c] # NoRate /\ now - rate[c].last >= IdleTTL)
      <3>1. Fresh[c] = rate[c] BY <2>3 DEF Fresh
      <3> QED BY <2>1, <3>1
    <2> QED BY <2>2, <2>3
  <1>3. Kept(Fresh) \subseteq Kept(rate) BY DEF Fresh, Kept
  <1>4. IsFiniteSet(Kept(rate)) /\ Cardinality(Kept(rate)) \in Nat
    BY FS_CardinalityType DEF MapBounded
  <1>5. /\ IsFiniteSet(Kept(Fresh)) /\ Cardinality(Kept(Fresh)) \in Nat
        /\ Cardinality(Kept(Fresh)) <= Cardinality(Kept(rate))
    BY <1>3, <1>4, Part
  <1> QED BY <1>0, <1>1, <1>2, <1>3, <1>4, <1>5 DEF MapBounded

LEMMA NothingSpread == Spread({})
  <1>1. \A from : {a \in {} : a[1] \in from .. from + Window - 1} = {} OBVIOUS
  <1>2. Cardinality({}) = 0 /\ 0 <= 2 * Limit BY FS_EmptySet, ReceiverRate
  <1> QED BY <1>1, <1>2 DEF Spread

\* What passing the limit does to a scope.
Passed(c) == admitted[c] \cup {<<now, Cardinality(admitted[c])>>}

LEMMA PassedTypes ==
    ASSUME Bounds, RateTrue, NEW d \in Scopes
    PROVE  IsFiniteSet(Passed(d)) /\ Passed(d) \in SUBSET (Nat \X Nat)
  <1>1. /\ IsFiniteSet(admitted[d]) /\ admitted[d] \in SUBSET (Nat \X Nat) /\ now \in Nat
        /\ Cardinality(admitted[d]) \in Nat
    BY ReceiverBounds, FS_CardinalityType DEF RateTrue, Bounds
  <1>2. IsFiniteSet(admitted[d] \cup {<<now, Cardinality(admitted[d])>>}) BY <1>1, FS_AddElement
  <1> QED BY <1>1, <1>2 DEF Passed

LEMMA Insertion ==
    ASSUME Bounds, RateTrue, MapBounded, NEW c \in Scopes, now' = now,
           Fresh[c] = NoRate \/ now - Fresh[c].start >= Window, InsertWithCap(c)
    PROVE  RateTrue' /\ MapBounded'
  <1>0. /\ now \in Nat /\ MapMax \in Nat \ {0}
        /\ Fresh \in [Scopes -> RateState]
        /\ \A d \in Scopes : Tracks(Fresh[d], admitted[d], now)
        /\ IsFiniteSet(Kept(Fresh)) /\ Cardinality(Kept(Fresh)) \in Nat
        /\ Cardinality(Kept(Fresh)) <= MapMax
    BY Swept, ReceiverRate, ReceiverBounds DEF Bounds
  <1>1. PICK gone \in Victims(Fresh, c) :
          /\ rate' = [d \in Scopes |->
                         IF d = c THEN [start |-> now, count |-> 1, last |-> now]
                         ELSE IF d \in gone THEN NoRate ELSE Fresh[d]]
          /\ admitted' = [d \in Scopes |->
                             CASE d = c ->
                                    admitted[d] \cup {<<now, Cardinality(admitted[d])>>}
                               [] d \in gone -> {}
                               [] OTHER -> admitted[d]]
    BY DEF InsertWithCap
  <1>2. PICK new \in RateState : new = [start |-> now, count |-> 1, last |-> now]
    BY <1>0 DEF RateState
  <1>3. new # NoRate BY <1>2 DEF NoRate
  <1>4. c \notin gone /\ (gone = {} \/ \E v \in Kept(Fresh) : gone = {v} /\ Fresh[c] = NoRate)
    BY <1>1 DEF Victims, Kept
  <1>5. rate' \in [Scopes -> RateState] BY <1>0, <1>1, <1>2, RateTypes
  <1>6. admitted' = [d \in Scopes |-> admitted'[d]] BY <1>1
  <1>7. ASSUME NEW d \in Scopes
        PROVE  /\ IsFiniteSet(admitted'[d]) /\ admitted'[d] \subseteq Nat \X Nat
               /\ Tracks(rate'[d], admitted'[d], now)
               /\ Spread(admitted'[d])
    <2>0. /\ IsFiniteSet(admitted[d]) /\ admitted[d] \in SUBSET (Nat \X Nat)
          /\ Spread(admitted[d]) /\ Fresh[d] \in RateState
          /\ Cardinality(admitted[d]) \in Nat
      BY <1>0, FS_CardinalityType DEF RateTrue
    <2>1. CASE d = c
      <3>0. rate'[d] = new /\ admitted'[d] = Passed(d)
        <4>1. rate'[d] = new BY <1>1, <1>2, <2>1
        <4>2. admitted'[d] = admitted[d] \cup {<<now, Cardinality(admitted[d])>>}
          BY <1>1, <1>4, <2>1
        <4> QED BY <4>1, <4>2 DEF Passed
      <3>1. rate'[d] = new /\ admitted'[d] = admitted[d] \cup {<<now, Cardinality(admitted[d])>>}
        BY <3>0 DEF Passed
      <3>2. IsFiniteSet(admitted'[d]) BY <3>0, PassedTypes
      <3>3. admitted'[d] \subseteq Nat \X Nat BY <3>0, PassedTypes
      <3>4. Tracks(new, admitted'[d], now) BY <1>0, <1>2, <2>0, <2>1, <3>1, NewWindow
      <3>5. Spread(admitted'[d]) BY <1>0, <1>3, <2>0, <3>1, <3>4, StillSpread
      <3> QED BY <3>1, <3>2, <3>3, <3>4, <3>5
    <2>2. CASE d # c /\ d \in gone
      <3>1. rate'[d] = NoRate /\ admitted'[d] = {} BY <1>1, <2>2
      <3>2. Tracks(NoRate, {}, now) BY DEF Tracks
      <3>3. Spread({}) BY NothingSpread
      <3> QED BY <3>1, <3>2, <3>3, FS_EmptySet
    <2>3. CASE d # c /\ d \notin gone
      <3>1. rate'[d] = Fresh[d] /\ admitted'[d] = admitted[d] BY <1>1, <2>3
      <3> QED BY <1>0, <2>0, <3>1
    <2> QED BY <2>1, <2>2, <2>3
  <1>8. RateTrue' BY <1>5, <1>6, <1>7 DEF RateTrue, RateState
  <1>9. MapBounded'
    <2>1. Kept(rate') = (Kept(Fresh) \ gone) \cup {c}
      <3>1. \A d \in Scopes : rate'[d] # NoRate <=> d = c \/ (d \notin gone /\ Fresh[d] # NoRate)
        BY <1>1, <1>2, <1>3
      <3> QED BY <3>1 DEF Kept
    <2>2. CASE Fresh[c] # NoRate
      <3>1. Kept(rate') = Kept(Fresh) BY <1>4, <2>1, <2>2 DEF Kept
      <3> QED BY <1>0, <3>1 DEF MapBounded
    <2>3. CASE Fresh[c] = NoRate /\ Cardinality(Kept(Fresh)) >= MapMax
      <3>1. PICK v \in Kept(Fresh) : gone = {v} BY <1>1, <2>3 DEF Victims
      <3>2. /\ IsFiniteSet(Kept(Fresh) \ {v})
            /\ Cardinality(Kept(Fresh) \ {v}) = Cardinality(Kept(Fresh)) - 1
        BY <1>0, FS_RemoveElement
      <3>3. c \notin Kept(Fresh) \ {v} BY <2>3 DEF Kept
      <3>4. /\ IsFiniteSet(Kept(rate'))
            /\ Cardinality(Kept(rate')) = Cardinality(Kept(Fresh) \ {v}) + 1
        BY <2>1, <3>1, <3>2, <3>3, FS_AddElement
      <3>5. Cardinality(Kept(rate')) <= MapMax BY <1>0, <3>2, <3>4
      <3> QED BY <3>4, <3>5 DEF MapBounded
    <2>4. CASE Fresh[c] = NoRate /\ ~(Cardinality(Kept(Fresh)) >= MapMax)
      <3>1. gone = {} BY <1>1, <2>4 DEF Victims
      <3>2. c \notin Kept(Fresh) BY <2>4 DEF Kept
      <3>3. Kept(rate') = Kept(Fresh) \cup {c} BY <2>1, <3>1
      <3>4. /\ IsFiniteSet(Kept(rate')) /\ Cardinality(Kept(rate')) = Cardinality(Kept(Fresh)) + 1
        BY <1>0, <3>2, <3>3, FS_AddElement
      <3>5. Cardinality(Kept(rate')) <= MapMax BY <1>0, <2>4, <3>4
      <3> QED BY <3>4, <3>5 DEF MapBounded
    <2> QED BY <2>2, <2>3, <2>4
  <1> QED BY <1>8, <1>9

LEMMA Counting ==
    ASSUME Bounds, RateTrue, MapBounded, NEW c \in Scopes, now' = now,
           Fresh[c] # NoRate, now - Fresh[c].start < Window, Fresh[c].count < Limit, Count(c)
    PROVE  RateTrue' /\ MapBounded'
  <1>0. /\ now \in Nat
        /\ Fresh \in [Scopes -> RateState]
        /\ \A d \in Scopes : Tracks(Fresh[d], admitted[d], now)
        /\ IsFiniteSet(Kept(Fresh)) /\ Cardinality(Kept(Fresh)) <= MapMax
    BY Swept, ReceiverBounds DEF Bounds
  <1>1. PICK new \in RateState :
          /\ new.start = Fresh[c].start /\ new.count = Fresh[c].count + 1 /\ new.last = now
          /\ rate' = [Fresh EXCEPT ![c] = new]
    <2>1. Fresh[c] \in RateState BY <1>0
    <2> DEFINE new == [start |-> Fresh[c].start, count |-> Fresh[c].count + 1, last |-> now]
    <2>2. Fresh[c].start \in Nat /\ Fresh[c].count + 1 \in Nat BY <2>1 DEF RateState
    <2>3. new \in RateState BY <1>0, <2>2 DEF RateState
    <2>4. rate' = [Fresh EXCEPT ![c] = new] BY <1>0 DEF Count
    <2> QED BY <2>3, <2>4
  <1>2. new # NoRate BY <1>0, <1>1 DEF NoRate, RateState
  <1>3. rate' \in [Scopes -> RateState] BY <1>0, <1>1
  <1>4. admitted' = [admitted EXCEPT ![c] = Passed(c)] BY DEF Count, Passed
  <1>5. admitted' = [d \in Scopes |-> admitted'[d]] BY <1>4 DEF RateTrue
  <1>6. ASSUME NEW d \in Scopes
        PROVE  /\ IsFiniteSet(admitted'[d]) /\ admitted'[d] \subseteq Nat \X Nat
               /\ Tracks(rate'[d], admitted'[d], now)
               /\ Spread(admitted'[d])
    <2>0. /\ IsFiniteSet(admitted[d]) /\ admitted[d] \in SUBSET (Nat \X Nat)
          /\ Spread(admitted[d]) /\ Fresh[d] \in RateState
          /\ Cardinality(admitted[d]) \in Nat
      BY <1>0, FS_CardinalityType DEF RateTrue
    <2>1. CASE d = c
      <3>0. rate'[d] = new /\ admitted'[d] = Passed(d)
        BY <1>0, <1>1, <1>4, <2>1 DEF RateTrue
      <3>1. rate'[d] = new /\ admitted'[d] = admitted[d] \cup {<<now, Cardinality(admitted[d])>>}
        BY <3>0 DEF Passed
      <3>2. IsFiniteSet(admitted'[d]) BY <3>0, PassedTypes
      <3>3. admitted'[d] \subseteq Nat \X Nat BY <3>0, PassedTypes
      <3>4. Tracks(new, admitted'[d], now) BY <1>0, <1>1, <2>0, <2>1, <3>1, Counted
      <3>5. Spread(admitted'[d]) BY <1>0, <1>2, <2>0, <3>1, <3>4, StillSpread
      <3> QED BY <3>1, <3>2, <3>3, <3>4, <3>5
    <2>2. CASE d # c
      <3>1. rate'[d] = Fresh[d] /\ admitted'[d] = admitted[d]
        BY <1>0, <1>1, <1>4, <2>2 DEF RateTrue
      <3> QED BY <1>0, <2>0, <3>1
    <2> QED BY <2>1, <2>2
  <1>7. RateTrue' BY <1>3, <1>5, <1>6 DEF RateTrue, RateState
  <1>8. MapBounded'
    <2>1. Kept(rate') = Kept(Fresh) BY <1>0, <1>1, <1>2 DEF Kept
    <2> QED BY <1>0, <2>1 DEF MapBounded
  <1> QED BY <1>7, <1>8

LEMMA Limited ==
    ASSUME Bounds, RateTrue, MapBounded, NEW c \in Scopes, NEW allowed, now' = now,
           CheckRateLimit(c, allowed)
    PROVE  RateTrue' /\ MapBounded'
  <1>0. /\ Fresh \in [Scopes -> RateState] /\ now \in Nat
        /\ \A d \in Scopes : Tracks(Fresh[d], admitted[d], now)
        /\ IsFiniteSet(Kept(Fresh)) /\ Cardinality(Kept(Fresh)) <= MapMax
    BY Swept, ReceiverBounds DEF Bounds
  <1>1. CASE Fresh[c] = NoRate \/ now - Fresh[c].start >= Window
    BY <1>1, Insertion DEF CheckRateLimit
  <1>2. CASE Fresh[c] # NoRate /\ ~(now - Fresh[c].start >= Window)
    <2>1. CASE Fresh[c].count >= Limit
      <3>1. rate' = Fresh /\ admitted' = admitted BY <1>2, <2>1 DEF CheckRateLimit
      <3>2. RateTrue' BY <1>0, <3>1 DEF RateTrue, RateState
      <3>3. MapBounded' BY <1>0, <3>1 DEF MapBounded
      <3> QED BY <3>2, <3>3
    <2>2. CASE ~(Fresh[c].count >= Limit)
      <3>1. /\ Fresh[c].start \in Nat /\ Fresh[c].count \in Nat
            /\ Window \in Nat /\ Limit \in Nat
        BY <1>0, ReceiverRate DEF RateState
      <3>2. now - Fresh[c].start < Window /\ Fresh[c].count < Limit BY <1>0, <1>2, <2>2, <3>1
      <3>3. Count(c) BY <1>2, <2>2 DEF CheckRateLimit
      <3> QED BY <1>2, <3>2, <3>3, Counting
    <2> QED BY <2>1, <2>2
  <1> QED BY <1>1, <1>2

LEMMA RateStays ==
    ASSUME RateTrue, MapBounded, rate' = rate, admitted' = admitted, now' = now
    PROVE  RateTrue' /\ MapBounded'
  BY DEF RateTrue, MapBounded

-----------------------------------------------------------------------------
\* The transactions.

Rows == SlotsTyped /\ RowsTrue /\ OpenIsAlone /\ AckedHasRow /\ ConflictReal

LEMMA RowFields ==
    ASSUME NEW q
    PROVE  /\ Row(q).line = Line(q) /\ Row(q).id = ReceiptId(q.scope, q.event)
           /\ Line(q).scope = q.scope /\ Line(q).event = q.event /\ Line(q).digest = q.digest
  BY DEF Row, Line

\* A clash is one of ids or of events, whichever row came first.
LEMMA ClashBothWays ==
    ASSUME NEW q, NEW p, Clash(q, Row(p))
    PROVE  Clash(p, Row(q))
  BY RowFields DEF Clash

\* A slot that is idle again takes nothing from the others.
LEMMA SlotFreed ==
    ASSUME SlotsTyped, OpenIsAlone, NEW s \in Slots, receipts' = receipts,
           slot' = [slot EXCEPT ![s] = IdleSlot]
    PROVE  SlotsTyped' /\ OpenIsAlone'
  <1>1. IdleSlot \in [pc : Stage, req : Requests \cup {NoRequest}] /\ IdleSlot.pc = "idle"
    BY DEF IdleSlot, Stage
  <1>2. SlotsTyped' BY <1>1 DEF SlotsTyped
  <1>3. \A t \in Slots : slot'[t].pc = "open" => slot[t].pc = "open" /\ slot'[t].req = slot[t].req
    BY <1>1 DEF SlotsTyped
  <1>4. OpenIsAlone' BY <1>3 DEF OpenIsAlone, Clash, Row, Line
  <1> QED BY <1>2, <1>4

LEMMA SlotMoves ==
    ASSUME SlotsTyped, NEW s \in Slots, slot[s].pc # "idle", NEW pc \in Stage,
           slot' = [slot EXCEPT ![s].pc = pc]
    PROVE  /\ SlotsTyped'
           /\ \A t \in Slots : slot'[t].req = slot[t].req
           /\ \A t \in Slots \ {s} : slot'[t].pc = slot[t].pc
           /\ slot'[s].pc = pc
  BY DEF SlotsTyped

\* The row a known event is answered with is its own.
LEMMA Replayed ==
    ASSUME Rows, NEW s \in Slots, slot[s].pc # "idle", Replay(s), UNCHANGED <<receipts, intents>>
    PROVE  Rows'
  <1>1. PICK r \in Found(slot[s].req) :
          IF r.line.digest = slot[s].req.digest THEN Answer202(s) ELSE Answer409(s)
    BY DEF Replay
  <1>2. /\ r \in receipts /\ r.line.scope = slot[s].req.scope
        /\ r.line.event = slot[s].req.event
    BY <1>1 DEF Found
  <1>3. PICK q \in Requests : r = Row(q) BY <1>2 DEF Rows, RowsTrue
  <1>4. slot' = [slot EXCEPT ![s] = IdleSlot] BY <1>1 DEF Answer202, Answer409
  <1>5. SlotsTyped' /\ OpenIsAlone' BY <1>4, SlotFreed DEF Rows
  <1>6. RowsTrue' BY DEF Rows, RowsTrue, IntentOf
  <1>7. CASE r.line.digest = slot[s].req.digest
    <2>1. r.line = Line(slot[s].req)
      <3>1. /\ q.scope = slot[s].req.scope /\ q.event = slot[s].req.event
            /\ q.digest = slot[s].req.digest
        BY <1>2, <1>3, <1>7, RowFields
      <3> QED BY <1>3, <3>1, RowFields DEF Line
    <2>2. acked' = acked \cup {Line(slot[s].req)} /\ refused409' = refused409
      BY <1>1, <1>7 DEF Answer202
    <2>3. AckedHasRow' BY <1>2, <2>1, <2>2 DEF Rows, AckedHasRow
    <2>4. ConflictReal' BY <2>2 DEF Rows, ConflictReal
    <2> QED BY <1>5, <1>6, <2>3, <2>4 DEF Rows
  <1>8. CASE r.line.digest # slot[s].req.digest
    <2>1. refused409' = refused409 \cup {Line(slot[s].req)} /\ acked' = acked
      BY <1>1, <1>8 DEF Answer409
    <2>2. AckedHasRow' BY <2>1 DEF Rows, AckedHasRow
    <2>3. ConflictReal' BY <1>2, <1>8, <2>1, RowFields DEF Rows, ConflictReal
    <2> QED BY <1>5, <1>6, <2>2, <2>3 DEF Rows
  <1> QED BY <1>7, <1>8

\* An answer that records nothing.
LEMMA Dropped ==
    ASSUME Rows, NEW s \in Slots, slot' = [slot EXCEPT ![s] = IdleSlot],
           UNCHANGED <<receipts, intents, acked, refused409>>
    PROVE  Rows'
  <1>1. SlotsTyped' /\ OpenIsAlone' BY SlotFreed DEF Rows
  <1> QED BY <1>1 DEF Rows, RowsTrue, IntentOf, AckedHasRow, ConflictReal

LEMMA Selected == ASSUME Rows, NEW s \in Slots, Select(s) PROVE Rows'
  <1>1. slot[s].pc = "select" /\ UNCHANGED <<receipts, intents>> BY DEF Select
  <1>2. CASE Replay(s) BY <1>1, <1>2, Replayed
  <1>3. CASE slot' = [slot EXCEPT ![s].pc = "insert"] /\ UNCHANGED <<acked, refused409, sibling>>
    <2>1. /\ SlotsTyped' /\ slot'[s].pc = "insert"
          /\ \A t \in Slots : slot'[t].req = slot[t].req
          /\ \A t \in Slots \ {s} : slot'[t].pc = slot[t].pc
      BY <1>1, <1>3, SlotMoves DEF Rows, Stage
    <2>2. \A t \in Slots : slot'[t].pc = "open" => slot[t].pc = "open" BY <2>1
    <2>3. OpenIsAlone' BY <1>1, <2>1, <2>2 DEF Rows, OpenIsAlone, Clash, Row, Line
    <2> QED BY <1>1, <1>3, <2>1, <2>3 DEF Rows, RowsTrue, IntentOf, AckedHasRow, ConflictReal
  <1> QED BY <1>2, <1>3 DEF Select

\* The insert goes ahead only beside rows, committed or not, that it does not clash with.
LEMMA Inserted == ASSUME Rows, NEW s \in Slots, Insert(s) PROVE Rows'
  <1>1. slot[s].pc = "insert" /\ ~Blocked(s) /\ UNCHANGED <<receipts, intents>> BY DEF Insert
  <1>2. CASE \E r \in receipts : Clash(slot[s].req, r)
    <2>1. CASE Replay(s) BY <1>1, <2>1, Replayed
    <2>2. CASE /\ slot' = [slot EXCEPT ![s] = IdleSlot]
               /\ UNCHANGED <<acked, refused409>>
      BY <1>1, <2>2, Dropped
    <2> QED BY <1>2, <2>1, <2>2 DEF Insert
  <1>3. CASE ~\E r \in receipts : Clash(slot[s].req, r)
    <2>1. slot' = [slot EXCEPT ![s].pc = "open"] /\ UNCHANGED <<acked, refused409>>
      BY <1>3 DEF Insert
    <2>2. /\ SlotsTyped' /\ slot'[s].pc = "open"
          /\ \A t \in Slots : slot'[t].req = slot[t].req
          /\ \A t \in Slots \ {s} : slot'[t].pc = slot[t].pc
      BY <1>1, <2>1, SlotMoves DEF Rows, Stage
    <2>3. OpenIsAlone'
      <3>1. SUFFICES ASSUME NEW t \in Slots, slot'[t].pc = "open"
                     PROVE  /\ \A r \in receipts : ~Clash(slot[t].req, r)
                            /\ \A u \in Slots \ {t} :
                                 slot'[u].pc = "open" => ~Clash(slot[t].req, Row(slot[u].req))
        BY <1>1, <2>2 DEF OpenIsAlone, Clash, Row, Line
      <3>2. \A u \in Slots \ {s} : slot[u].pc = "open" =>
              /\ ~Clash(slot[s].req, Row(slot[u].req))
              /\ ~Clash(slot[u].req, Row(slot[s].req))
        BY <1>1, ClashBothWays DEF Blocked
      <3>3. CASE t = s BY <1>3, <2>2, <3>2, <3>3
      <3>4. CASE t # s BY <2>2, <3>1, <3>2, <3>4 DEF Rows, OpenIsAlone
      <3> QED BY <3>3, <3>4
    <2> QED BY <1>1, <2>1, <2>2, <2>3 DEF Rows, RowsTrue, IntentOf, AckedHasRow, ConflictReal
  <1> QED BY <1>2, <1>3

\* The row and its intent become visible together.
LEMMA MadeDurable ==
    ASSUME Rows, NEW s \in Slots, slot[s].pc = "open", Durable(s),
           slot' = [slot EXCEPT ![s] = IdleSlot]
    PROVE  /\ SlotsTyped' /\ RowsTrue' /\ OpenIsAlone'
           /\ receipts \subseteq receipts' /\ Row(slot[s].req) \in receipts'
  <1>1. PICK q \in Requests : q = slot[s].req BY DEF Rows, SlotsTyped
  <1>2. /\ receipts' = receipts \cup {Row(q)}
        /\ intents' = intents \cup {[receipt |-> Row(q).id, for |-> Key(q)]}
    BY <1>1 DEF Durable
  <1>3. \A r \in receipts : ~Clash(q, r) BY <1>1 DEF Rows, OpenIsAlone
  <1>4. RowsTrue'
    <2>1. receipts' \subseteq {Row(p) : p \in Requests} BY <1>2 DEF Rows, RowsTrue
    <2>2. \A r, t \in receipts' : r.id = t.id => r = t
      BY <1>2, <1>3 DEF Rows, RowsTrue, Clash
    <2>3. [receipt |-> Row(q).id, for |-> Key(q)] = IntentOf(Row(q))
      BY RowFields DEF IntentOf, Key
    <2>4. intents' = {IntentOf(r) : r \in receipts'} BY <1>2, <2>3 DEF Rows, RowsTrue
    <2> QED BY <2>1, <2>2, <2>4 DEF RowsTrue, IntentOf
  <1>5. IdleSlot \in [pc : Stage, req : Requests \cup {NoRequest}] /\ IdleSlot.pc = "idle"
    BY DEF IdleSlot, Stage
  <1>6. SlotsTyped' BY <1>5 DEF Rows, SlotsTyped
  <1>7. \A t \in Slots : slot'[t].pc = "open" =>
          t # s /\ slot[t].pc = "open" /\ slot'[t].req = slot[t].req
    BY <1>5 DEF Rows, SlotsTyped
  <1>8. OpenIsAlone'
    <2>1. SUFFICES ASSUME NEW t \in Slots, slot'[t].pc = "open"
                   PROVE  /\ \A r \in receipts' : ~Clash(slot'[t].req, r)
                          /\ \A u \in Slots \ {t} :
                               slot'[u].pc = "open" => ~Clash(slot'[t].req, Row(slot'[u].req))
      BY DEF OpenIsAlone, Clash, Row, Line
    <2>2. /\ t # s /\ slot[t].pc = "open"
          /\ \A r \in receipts : ~Clash(slot[t].req, r)
          /\ \A u \in Slots \ {t} : slot[u].pc = "open" => ~Clash(slot[t].req, Row(slot[u].req))
      BY <1>7, <2>1 DEF Rows, OpenIsAlone
    <2>3. ~Clash(slot[t].req, Row(q)) BY <1>1, <2>2
    <2>4. /\ slot'[t].req = slot[t].req
          /\ \A u \in Slots : slot'[u].pc = "open" => slot'[u].req = slot[u].req
      BY <1>7, <2>1
    <2> QED BY <1>2, <1>7, <2>2, <2>3, <2>4
  <1> QED BY <1>1, <1>2, <1>4, <1>6, <1>8

LEMMA Committed ==
    ASSUME Rows, NEW s \in Slots, slot[s].pc = "open", Durable(s), Answer202(s) \/ Answer503(s)
    PROVE  Rows'
  <1>1. slot' = [slot EXCEPT ![s] = IdleSlot] /\ refused409' = refused409
    BY DEF Answer202, Answer503
  <1>2. /\ SlotsTyped' /\ RowsTrue' /\ OpenIsAlone'
        /\ receipts \subseteq receipts' /\ Row(slot[s].req) \in receipts'
    BY <1>1, MadeDurable
  <1>3. acked' \subseteq acked \cup {Line(slot[s].req)} BY DEF Answer202, Answer503
  <1>4. AckedHasRow' BY <1>2, <1>3, RowFields DEF Rows, AckedHasRow
  <1>5. ConflictReal' BY <1>1, <1>2 DEF Rows, ConflictReal
  <1> QED BY <1>2, <1>4, <1>5 DEF Rows

LEMMA Posted == ASSUME Rows, NEW s \in Slots, NEW q \in Requests, Post(s, q) PROVE Rows'
  <1>1. UNCHANGED <<receipts, intents, acked, refused409>> BY DEF Post
  <1>2. slot[s].pc # "open"
    <2>1. slot[s] = IdleSlot BY DEF Post
    <2> QED BY <2>1 DEF IdleSlot
  <1>3. slot' = slot \/ slot' = [slot EXCEPT ![s] = [pc |-> "select", req |-> q]]
    BY DEF Post
  <1>4. SlotsTyped'
    <2>1. [pc |-> "select", req |-> q] \in [pc : Stage, req : Requests \cup {NoRequest}]
      BY DEF Stage
    <2> QED BY <1>3, <2>1 DEF Rows, SlotsTyped
  <1>5. \A t \in Slots : slot'[t].pc = "open" => slot[t].pc = "open" /\ slot'[t].req = slot[t].req
    BY <1>3 DEF Rows, SlotsTyped
  <1>6. OpenIsAlone' BY <1>1, <1>5 DEF Rows, OpenIsAlone, Clash, Row, Line
  <1> QED BY <1>1, <1>4, <1>6 DEF Rows, RowsTrue, IntentOf, AckedHasRow, ConflictReal

-----------------------------------------------------------------------------
LEMMA InitReceiver == ReceiverInit => ReceiverSound
  <1> SUFFICES ASSUME ReceiverInit PROVE ReceiverSound
    OBVIOUS
  <1>1. Bounds BY ReceiverBounds DEF ReceiverInit, Bounds
  <1>2. SlotsTyped BY DEF ReceiverInit, SlotsTyped, IdleSlot, Stage
  <1>3. RowsTrue /\ AckedHasRow /\ ConflictReal
    BY DEF ReceiverInit, RowsTrue, AckedHasRow, ConflictReal
  <1>4. OpenIsAlone BY DEF ReceiverInit, OpenIsAlone, IdleSlot
  <1>5. \A c \in Scopes : rate[c] = NoRate /\ admitted[c] = {} BY DEF ReceiverInit
  <1>6. RateTrue
    <2>1. rate \in [Scopes -> [start : Nat, count : Nat, last : Nat]] BY DEF ReceiverInit, NoRate
    <2>2. admitted = [c \in Scopes |-> admitted[c]] BY DEF ReceiverInit
    <2>3. Tracks(NoRate, {}, now) BY DEF Tracks
    <2>4. Spread({}) BY NothingSpread
    <2> QED BY <1>5, <2>1, <2>2, <2>3, <2>4, FS_EmptySet DEF RateTrue
  <1>7. MapBounded
    <2>1. Kept(rate) = {} BY <1>5 DEF Kept
    <2> QED BY <2>1, FS_EmptySet, ReceiverRate DEF MapBounded
  <1> QED BY <1>1, <1>2, <1>3, <1>4, <1>6, <1>7 DEF ReceiverSound

LEMMA FaultBound == ASSUME Bounds, Failing PROVE errors' \in 0 .. MaxErrors
  BY ReceiverBounds DEF Bounds, Failing

LEMMA NextReceiver == ReceiverSound /\ [ReceiverNext]_rvars => ReceiverSound'
  <1> SUFFICES ASSUME ReceiverSound, [ReceiverNext]_rvars PROVE ReceiverSound'
    OBVIOUS
  <1>0. Rows /\ RateTrue /\ MapBounded /\ Bounds BY DEF ReceiverSound, Rows
  <1>1. SUFFICES Rows' /\ RateTrue' /\ MapBounded' /\ Bounds'
    BY DEF ReceiverSound, Rows
  <1>2. ASSUME now' = now, errors' = errors PROVE Bounds' BY <1>0, <1>2 DEF Bounds
  <1>3. ASSUME NEW s \in Slots, Select(s) PROVE Rows' /\ RateTrue' /\ MapBounded' /\ Bounds'
    BY <1>0, <1>2, <1>3, Selected, RateStays DEF Select
  <1>4. ASSUME NEW s \in Slots, Insert(s) PROVE Rows' /\ RateTrue' /\ MapBounded' /\ Bounds'
    BY <1>0, <1>2, <1>4, Inserted, RateStays DEF Insert
  <1>5. ASSUME NEW s \in Slots, Commit(s) PROVE Rows' /\ RateTrue' /\ MapBounded' /\ Bounds'
    BY <1>0, <1>2, <1>5, Committed, RateStays DEF Commit
  <1>6. ASSUME NEW s \in Slots, StoreError(s) PROVE Rows' /\ RateTrue' /\ MapBounded' /\ Bounds'
    <2>1. Rows' BY <1>0, <1>6, Dropped DEF StoreError, Answer503
    <2>2. Bounds' BY <1>0, <1>6, FaultBound DEF StoreError, Bounds
    <2> QED BY <1>0, <1>6, <2>1, <2>2, RateStays DEF StoreError
  <1>7. ASSUME NEW s \in Slots, CommitLost(s) PROVE Rows' /\ RateTrue' /\ MapBounded' /\ Bounds'
    <2>1. Rows' BY <1>0, <1>7, Committed DEF CommitLost
    <2>2. Bounds' BY <1>0, <1>7, FaultBound DEF CommitLost, Bounds
    <2> QED BY <1>0, <1>7, <2>1, <2>2, RateStays DEF CommitLost
  <1>8. ASSUME NEW s \in Slots, NEW q \in Requests, Post(s, q)
        PROVE  Rows' /\ RateTrue' /\ MapBounded' /\ Bounds'
    <2>1. q.scope \in Scopes /\ now' = now /\ errors' = errors BY <1>8 DEF Post, Routed
    <2>2. \E allowed \in BOOLEAN : CheckRateLimit(q.scope, allowed) BY <1>8 DEF Post
    <2>3. RateTrue' /\ MapBounded' BY <1>0, <2>1, <2>2, Limited
    <2> QED BY <1>0, <1>2, <1>8, <2>1, <2>3, Posted
  <1>9. CASE Crash
    <2>1. \A s \in Slots : slot'[s] = IdleSlot BY <1>9 DEF Crash
    <2>2. SlotsTyped' BY <1>9 DEF Crash, SlotsTyped, IdleSlot, Stage
    <2>3. OpenIsAlone' BY <2>1 DEF OpenIsAlone, IdleSlot
    <2>4. Rows' BY <1>0, <1>9, <2>2, <2>3
             DEF Crash, Rows, RowsTrue, IntentOf, AckedHasRow, ConflictReal
    <2>5. \A c \in Scopes : rate'[c] = NoRate /\ admitted'[c] = {} BY <1>9 DEF Crash
    <2>6. RateTrue'
      <3>1. rate' \in [Scopes -> [start : Nat, count : Nat, last : Nat]] BY <1>9 DEF Crash, NoRate
      <3>2. admitted' = [c \in Scopes |-> admitted'[c]] BY <1>9 DEF Crash
      <3>3. Tracks(NoRate, {}, now') /\ Spread({}) BY NothingSpread DEF Tracks
      <3> QED BY <2>5, <3>1, <3>2, <3>3, FS_EmptySet DEF RateTrue
    <2>7. Kept(rate') = {} BY <2>5 DEF Kept
    <2>8. MapBounded' BY <2>7, FS_EmptySet, ReceiverRate DEF MapBounded
    <2>9. Bounds' BY <1>0, <1>9, FaultBound DEF Crash, Bounds
    <2> QED BY <2>4, <2>6, <2>8, <2>9
  <1>10. CASE Tick
    <2>1. now \in Nat /\ now' = now + 1 /\ now + 1 \in 1 .. MaxTime
      BY <1>0, <1>10, ReceiverBounds DEF Tick, Bounds
    <2>2. Rows' BY <1>0, <1>10 DEF Tick, Rows, SlotsTyped, RowsTrue, IntentOf, OpenIsAlone, Clash,
                                 Row, Line, AckedHasRow, ConflictReal
    <2>3. rate' = rate /\ admitted' = admitted BY <1>10 DEF Tick
    <2>4. \A c \in Scopes : Tracks(rate[c], admitted[c], now')
      <3>1. \A c \in Scopes : rate[c] \in RateState /\ admitted[c] \in SUBSET (Nat \X Nat)
                              /\ Tracks(rate[c], admitted[c], now)
        BY <1>0, RateTypes DEF RateTrue
      <3> QED BY <2>1, <3>1, Later
    <2>5. RateTrue' BY <1>0, <2>3, <2>4 DEF RateTrue
    <2>6. MapBounded' BY <1>0, <2>3 DEF MapBounded
    <2>7. Bounds' BY <1>0, <1>10, <2>1 DEF Tick, Bounds
    <2> QED BY <2>2, <2>5, <2>6, <2>7
  <1>11. CASE UNCHANGED rvars
    <2>1. Rows' BY <1>0, <1>11 DEF rvars, Rows, SlotsTyped, RowsTrue, IntentOf, OpenIsAlone, Clash,
                                 Row, Line, AckedHasRow, ConflictReal
    <2> QED BY <1>0, <1>2, <1>11, <2>1, RateStays DEF rvars
  <1> QED BY <1>3, <1>4, <1>5, <1>6, <1>7, <1>8, <1>9, <1>10, <1>11 DEF ReceiverNext, Handle

LEMMA AlwaysSound == ReceiverSpec => []ReceiverSound
  BY InitReceiver, NextReceiver, PTL DEF ReceiverSpec

\* One id, one row; and each row has one intent.
LEMMA RowsHold ==
    ASSUME ReceiverSound
    PROVE  ReceiverTypeOK /\ AckDurable
  <1>1. \A s \in Slots : /\ slot[s].pc \in {"idle", "select", "insert", "open"}
                         /\ slot[s].req \in Requests \cup {NoRequest}
    BY DEF ReceiverSound, SlotsTyped, Stage
  <1>2. ReceiverTypeOK
    BY <1>1 DEF ReceiverSound, ReceiverTypeOK, RowsTrue, Bounds, MapBounded
  <1>3. ASSUME NEW a \in acked
        PROVE  \E r \in receipts :
                 /\ r.line = a
                 /\ {i \in intents : i.receipt = r.id}
                      = {[receipt |-> r.id, for |-> [scope |-> a.scope, event |-> a.event]]}
    <2>1. PICK r \in receipts : r.line = a BY <1>3 DEF ReceiverSound, AckedHasRow
    <2>2. \A t \in receipts : IntentOf(t).receipt = t.id BY DEF IntentOf
    <2>3. {i \in intents : i.receipt = r.id} = {IntentOf(r)}
      BY <2>2 DEF ReceiverSound, RowsTrue
    <2> QED BY <2>1, <2>3 DEF IntentOf
  <1>4. AckDurable BY <1>3 DEF AckDurable
  <1> QED BY <1>2, <1>4

\* ReceiverInv: what was answered 202 is there with its payload and one intent, what was
\* refused for good clashes with a row that is there, and no connection gets more than two
\* windows' worth of requests into one window.
THEOREM ReceiverKeepsItsWord == ReceiverSpec => []ReceiverInv
  <1>1. ReceiverSound => ReceiverInv
    BY RowsHold DEF ReceiverSound, ReceiverInv, RateTrue, RateKept, Spread
  <1> QED BY <1>1, AlwaysSound, PTL

\* AckDurable alone: "202 only after commit" (handler.ts:229), over crashes and lost commits.
THEOREM AcknowledgedIsDurable == ReceiverSpec => []AckDurable
  BY RowsHold, AlwaysSound, PTL

-----------------------------------------------------------------------------
(* Pipeline.                                                              *)

\* The event calls for a command and got past the normalizer.
Calls == /\ side \in {"worker", "api"} /\ Plan(body) = "CALL_GATEWAY"

Exec == [pc : {"idle", "decide", "call", "complete"}, nth : 0 .. MaxAttempts, verdict : Verdicts]
Entry == [payload : 0 .. MaxAttempts, answer : Answers \cup {"none"}]

Types ==
    /\ body \in Bodies /\ side \in {"worker", "api", "mock"}
    /\ receipt \in {"QUEUED", "DELIVERED", "DEAD_LETTERED"}
    /\ owner \in Executions /\ attempts \in 0 .. MaxAttempts
    /\ exec \in [Executions -> Exec]
    /\ cache \in Entry /\ lost \in 0 .. MaxLost
    /\ applied \in Nat /\ queued \in Nat /\ restarts \in Nat
    /\ \A x \in Executions : exec[x].pc # "idle" => exec[x].nth # 0

\* The ledger's entry says that HRP has the command, and what it answered; without one it was
\* given at most one command per restart.
LedgerTruth ==
    /\ cache = NoEntry => applied + queued <= restarts
    /\ cache # NoEntry => /\ cache.answer \in {"APPLIED", "ACCEPTED"}
                          /\ Taken /\ applied + queued <= 1 + restarts

\* Only an event that calls for a command gets to the gateway, and after the call an
\* execution ends well only if HRP has the command.
OnlyPlanned ==
    /\ Taken => Calls
    /\ \A x \in Executions : exec[x].pc = "call" => Calls
    /\ \A x \in Executions :
         exec[x].pc = "complete" /\ exec[x].verdict = "SUCCESS"
           /\ side = "worker" /\ Plan(body) = "CALL_GATEWAY" => Taken

PipelineSound == Types /\ LedgerTruth /\ OnlyPlanned /\ DeliveredTaken

-----------------------------------------------------------------------------
\* What the tables of the normalizers and firewalls let through to the gateway.

LEMMA SameNames ==
    ASSUME NEW t, t \in DOMAIN Same
    PROVE  /\ Same[t] \in Metadata \cup {"CONVERSATION_CREATED", "CONVERSATION_RESOLVED"}
           /\ Same[t] = "CONVERSATION_CREATED" => t = "conversation_created"
           /\ t \notin {"message", "message_created", "participant_added"}
  BY DEF Same, Metadata

LEMMA WorkerNames ==
    ASSUME NEW t
    PROVE  /\ Named(WorkerOnly, t) = "PARTICIPANT_ADDED" => t = "participant_added"
           /\ Named(WorkerOnly, t) = "CLIENT_INBOUND_MESSAGE" =>
                t \in {"message", "message_created"}
           /\ Named(WorkerOnly, t) \in {"CONVERSATION_LABELED", "PARTICIPANT_ADDED",
                                        "CLIENT_INBOUND_MESSAGE", "UNKNOWN_RAW"}
  BY DEF Named, WorkerOnly

LEMMA ApiNames ==
    ASSUME NEW t
    PROVE  Named(ApiOnly, t) \in {"CONVERSATION_LABELED", "PARTICIPANT_ADDED", "UNKNOWN_RAW"}
  BY DEF Named, ApiOnly

\* What the worker calls the gateway for is authoritative, or left to a review.
LEMMA WorkerCalls ==
    ASSUME NEW b, WorkerPlan(b) = "CALL_GATEWAY"
    PROVE  /\ b.match = "EXACT_MATCH"
           /\ b.type \in {"message", "message_created", "conversation_created", "participant_added"}
           /\ b.sender # "agent" /\ ~PrivateNote("worker", b)
           /\ WorkerClass(b) \in {"AUTHORITATIVE", "REVIEW_NEEDED"}
           /\ parsed /\ ~Stale(b) /\ ~Forward(b)
  <1> DEFINE t == WorkerType(b)
  <1>1. /\ parsed /\ ~Stale(b) /\ ~Forward(b)
        /\ WorkerMapping(WorkerClass(b), b.match) = "CALL_GATEWAY"
    BY DEF WorkerPlan
  <1>2. WorkerClass(b) \notin {"BLOCKED", "NON_AUTHORITATIVE"} /\ b.match = "EXACT_MATCH"
    BY <1>1 DEF WorkerMapping
  <1>3. t \in Inbound \cup {"CONVERSATION_CREATED", "PARTICIPANT_ADDED"} BY <1>2 DEF WorkerClass
  <1>4. ~PrivateNote("worker", b) /\ b.sender # "agent"
    BY <1>3 DEF WorkerType, Inbound
  <1>5. WorkerClass(b) \in {"AUTHORITATIVE", "REVIEW_NEEDED"} BY <1>2 DEF WorkerClass
  <1>6. CASE b.type \in DOMAIN Same
    <2>1. t = Same[b.type] BY <1>4, <1>6 DEF WorkerType
    <2>2. t = "CONVERSATION_CREATED" BY <1>3, <1>6, <2>1, SameNames DEF Inbound, Metadata
    <2>3. b.type = "conversation_created" BY <1>6, <2>1, <2>2, SameNames
    <2> QED BY <1>1, <1>2, <1>4, <1>5, <2>3
  <1>7. CASE b.type \notin DOMAIN Same
    <2>1. t = Named(WorkerOnly, b.type) BY <1>4, <1>7 DEF WorkerType
    <2>2. t \in {"PARTICIPANT_ADDED", "CLIENT_INBOUND_MESSAGE"}
      BY <1>3, <2>1, WorkerNames DEF Inbound
    <2>3. b.type \in {"message", "message_created", "participant_added"}
      BY <2>1, <2>2, WorkerNames
    <2> QED BY <1>1, <1>2, <1>4, <1>5, <2>3
  <1> QED BY <1>6, <1>7

\* What the API calls it for is authoritative.
LEMMA ApiCalls ==
    ASSUME NEW b, ApiPlan(b) = "CALL_GATEWAY"
    PROVE  /\ b.match = "EXACT_MATCH" /\ ApiClass(b) = "AUTHORITATIVE"
           /\ b.type \in {"message_created", "conversation_created"}
           /\ b.type = "message_created" => b.sender # "agent" /\ ~PrivateNote("api", b)
  <1> DEFINE t == ApiType(b)
  <1>1. ApiClass(b) = "AUTHORITATIVE" /\ ApiMapping(ApiClass(b), b.match) = "CALL_GATEWAY"
    BY DEF ApiPlan
  <1>2. t \in {"CONVERSATION_CREATED", "MESSAGE_CREATED", "CLIENT_INBOUND_MESSAGE"}
    BY <1>1 DEF ApiClass
  <1>3. b.match = "EXACT_MATCH" BY <1>1 DEF ApiMapping
  <1>4. CASE b.type = "message_created"
    <2>1. ~PrivateNote("api", b) /\ b.sender # "agent" BY <1>2, <1>4 DEF ApiType
    <2> QED BY <1>1, <1>3, <1>4, <2>1
  <1>5. CASE b.type # "message_created" /\ b.type \in DOMAIN Same
    <2>1. t = Same[b.type] BY <1>5 DEF ApiType
    <2>2. t = "CONVERSATION_CREATED" BY <1>2, <1>5, <2>1, SameNames DEF Metadata
    <2> QED BY <1>1, <1>3, <1>5, <2>1, <2>2, SameNames
  <1>6. CASE b.type # "message_created" /\ b.type \notin DOMAIN Same
    <2>1. t = Named(ApiOnly, b.type) BY <1>6 DEF ApiType
    <2> QED BY <1>2, <2>1, ApiNames
  <1> QED BY <1>4, <1>5, <1>6

LEMMA QuietEvents == ASSUME Calls PROVE Quiet
  <1>1. CASE side = "worker"
    <2>1. WorkerPlan(body) = "CALL_GATEWAY" /\ side # "api" BY <1>1 DEF Calls, Plan
    <2>2. /\ body.match = "EXACT_MATCH"
          /\ body.type \in {"message", "message_created", "conversation_created",
                            "participant_added"}
          /\ body.sender # "agent" /\ ~PrivateNote("worker", body)
          /\ WorkerClass(body) \in {"AUTHORITATIVE", "REVIEW_NEEDED"}
          /\ parsed /\ ~Stale(body) /\ ~Forward(body)
      BY <2>1, WorkerCalls
    <2> QED BY <1>1, <2>1, <2>2 DEF Quiet, Class
  <1>2. CASE side = "api"
    <2>1. ApiPlan(body) = "CALL_GATEWAY" /\ side # "worker" BY <1>2 DEF Calls, Plan
    <2>2. /\ body.match = "EXACT_MATCH" /\ ApiClass(body) = "AUTHORITATIVE"
          /\ body.type \in {"message_created", "conversation_created"}
          /\ body.type = "message_created" => body.sender # "agent" /\ ~PrivateNote("api", body)
      BY <2>1, ApiCalls
    <2> QED BY <1>2, <2>1, <2>2 DEF Quiet, Class
  <1> QED BY <1>1, <1>2 DEF Calls

-----------------------------------------------------------------------------
\* The event is what it was.
LEMMA SamePlan == input' = input => (Plan(body))' = Plan(body) /\ Calls' = Calls
  BY DEF input, Plan, WorkerPlan, ApiPlan, WorkerMapping, ApiMapping, WorkerClass, ApiClass,
         WorkerType, ApiType, PrivateNote, Stale, Forward, Calls

\* The ledger and what it says of the commands.
LEMMA SameLedger ==
    ledger' = ledger => /\ cache' = cache /\ applied' = applied /\ queued' = queued
                        /\ Taken' = Taken
  BY DEF ledger, Taken

LEMMA InitPipeline == PipelineInit => PipelineSound
  <1> SUFFICES ASSUME PipelineInit PROVE PipelineSound
    OBVIOUS
  <1>1. MaxAttempts \in Nat /\ MaxLost \in Nat BY PipelineBounds
  <1>2. Idle \in Exec /\ Idle.pc = "idle" BY <1>1 DEF Idle, Exec, Verdicts
  <1>3. NoEntry \in Entry BY <1>1 DEF NoEntry, Entry
  <1>4. Types BY <1>1, <1>2, <1>3 DEF PipelineInit, Types
  <1>5. LedgerTruth BY DEF PipelineInit, LedgerTruth
  <1>6. OnlyPlanned BY <1>2 DEF PipelineInit, OnlyPlanned, Taken
  <1>7. DeliveredTaken BY DEF PipelineInit, DeliveredTaken
  <1> QED BY <1>4, <1>5, <1>6, <1>7 DEF PipelineSound

\* What an execution's step does to the execution.
LEMMA Going ==
    ASSUME Types, NEW x \in Executions, exec[x].pc # "idle",
           NEW pc \in {"decide", "call", "complete"}, NEW v \in Verdicts, Go(x, pc, v)
    PROVE  /\ exec' \in [Executions -> Exec]
           /\ \A y \in Executions : exec'[y].pc # "idle" => exec'[y].nth # 0
           /\ exec'[x].pc = pc /\ exec'[x].verdict = v
           /\ \A y \in Executions \ {x} : exec'[y] = exec[y]
  <1>1. exec[x] \in Exec /\ exec[x].nth \in 0 .. MaxAttempts BY DEF Types, Exec
  <1>2. [pc |-> pc, nth |-> exec[x].nth, verdict |-> v] \in Exec BY <1>1 DEF Exec
  <1>3. exec' = [exec EXCEPT ![x] = [pc |-> pc, nth |-> exec[x].nth, verdict |-> v]]
    BY DEF Go, Types
  <1> QED BY <1>2, <1>3 DEF Types

LEMMA Ending ==
    ASSUME Types, NEW x \in Executions, exec' = [exec EXCEPT ![x] = Idle]
    PROVE  /\ exec' \in [Executions -> Exec]
           /\ \A y \in Executions : exec'[y].pc # "idle" => exec'[y].nth # 0
           /\ exec'[x].pc = "idle"
           /\ \A y \in Executions \ {x} : exec'[y] = exec[y]
  <1>1. Idle \in Exec /\ Idle.pc = "idle" BY PipelineBounds DEF Idle, Exec, Verdicts
  <1> QED BY <1>1 DEF Types

LEMMA Claimed == ASSUME PipelineSound, NEW x \in Executions, Claim(x) PROVE PipelineSound'
  <1> DEFINE new == [pc |-> "decide", nth |-> attempts + 1, verdict |-> "none"]
  <1>1. /\ Types /\ MaxAttempts \in Nat /\ attempts \in Nat /\ attempts + 1 \in 0 .. MaxAttempts
        /\ attempts + 1 # 0
    BY PipelineBounds DEF Claim, PipelineSound, Types
  <1>2. new \in Exec /\ new.pc = "decide" /\ new.nth # 0 BY <1>1 DEF Exec, Verdicts
  <1>3. /\ input' = input /\ exec' = [exec EXCEPT ![x] = new]
        /\ UNCHANGED <<receipt, cache, applied, queued, restarts, lost>> /\ Taken' = Taken
    BY SameLedger DEF Claim, ledger
  <1>4. (Plan(body))' = Plan(body) /\ Calls' = Calls BY <1>3, SamePlan
  <1>5. Types' BY <1>1, <1>2, <1>3 DEF Types, Claim, input
  <1>6. LedgerTruth' BY <1>3 DEF PipelineSound, LedgerTruth
  <1>7. \A y \in Executions : exec'[y].pc \in {"call", "complete"} => exec'[y] = exec[y]
    BY <1>1, <1>2, <1>3 DEF Types
  <1>8. OnlyPlanned' BY <1>3, <1>4, <1>7 DEF PipelineSound, OnlyPlanned, input
  <1>9. DeliveredTaken' BY <1>3, <1>4 DEF PipelineSound, DeliveredTaken, input
  <1> QED BY <1>5, <1>6, <1>8, <1>9 DEF PipelineSound

\* The stages before the call: only what calls for a command goes on to it.
LEMMA Decided == ASSUME PipelineSound, NEW x \in Executions, Decide(x) PROVE PipelineSound'
  <1>1. /\ Types /\ input' = input /\ exec[x].pc = "decide"
        /\ UNCHANGED <<receipt, owner, attempts, cache, applied, queued, restarts, lost>>
        /\ Taken' = Taken
    BY SameLedger DEF Decide, PipelineSound, ledger
  <1>2. (Plan(body))' = Plan(body) /\ Calls' = Calls BY <1>1, SamePlan
  <1>3. \/ exec' = [exec EXCEPT ![x] = Idle]
        \/ \E v \in Verdicts : Go(x, "complete", v) /\ (side = "mock" \/ ~Calls)
        \/ Go(x, "call", "none") /\ Calls
    <2>1. CASE side = "mock"
      <3>1. Go(x, "complete", MockVerdict(scenario)) BY <2>1 DEF Decide
      <3>2. MockVerdict(scenario) \in Verdicts BY DEF MockVerdict, Verdicts
      <3> QED BY <2>1, <3>1, <3>2
    <2>2. CASE side # "mock" /\ side = "worker" /\ parsed /\ Throws(body)
      BY <2>2 DEF Decide
    <2>3. CASE side # "mock" /\ ~(side = "worker" /\ parsed /\ Throws(body))
      <3>1. IF Plan(body) = "CALL_GATEWAY" THEN Go(x, "call", "none")
            ELSE Go(x, "complete", "SUCCESS")
        BY <2>3 DEF Decide
      <3>2. side \in {"worker", "api"} BY <1>1, <2>3 DEF Types
      <3>3. "SUCCESS" \in Verdicts BY DEF Verdicts
      <3> QED BY <3>1, <3>2, <3>3 DEF Calls
    <2> QED BY <2>1, <2>2, <2>3
  <1>4. /\ exec' \in [Executions -> Exec]
        /\ \A y \in Executions : exec'[y].pc # "idle" => exec'[y].nth # 0
        /\ \A y \in Executions \ {x} : exec'[y] = exec[y]
        /\ exec'[x].pc = "call" => Calls
        /\ exec'[x].pc = "complete" => side = "mock" \/ ~Calls
    <2>0. "none" \in Verdicts /\ exec[x].pc # "idle" BY <1>1 DEF Verdicts
    <2>1. CASE exec' = [exec EXCEPT ![x] = Idle] BY <1>1, <2>1, Ending
    <2>2. CASE \E v \in Verdicts : Go(x, "complete", v) /\ (side = "mock" \/ ~Calls)
      BY <1>1, <2>0, <2>2, Going
    <2>3. CASE Go(x, "call", "none") /\ Calls BY <1>1, <2>0, <2>3, Going
    <2> QED BY <1>3, <2>1, <2>2, <2>3
  <1>5. Types' BY <1>1, <1>4 DEF Types, input
  <1>6. LedgerTruth' BY <1>1 DEF PipelineSound, LedgerTruth
  <1>7. OnlyPlanned' BY <1>1, <1>2, <1>4 DEF PipelineSound, OnlyPlanned, Calls, input
  <1>8. DeliveredTaken' BY <1>1, <1>2 DEF PipelineSound, DeliveredTaken, input
  <1> QED BY <1>5, <1>6, <1>7, <1>8 DEF PipelineSound

\* What the gateway does to its ledger, whatever it answers.
LEMMA Gated ==
    ASSUME PipelineSound, NEW x \in Executions, exec[x].pc = "call", NEW answer \in Answers,
           Gateway(x, answer), restarts' = restarts
    PROVE  /\ LedgerTruth' /\ cache' \in Entry /\ applied' \in Nat /\ queued' \in Nat
           /\ Taken => Taken'
           /\ answer \in {"APPLIED", "ACCEPTED"} => Taken'
  <1>1. /\ PayloadOf(x) \in 0 .. MaxAttempts /\ PayloadOf(x) # 0 /\ cache \in Entry
        /\ applied \in Nat /\ queued \in Nat /\ restarts \in Nat /\ LedgerTruth
    BY DEF PipelineSound, Types, Exec, PayloadOf
  <1>2. CASE UNCHANGED ledger /\ cache # NoEntry
    <2>1. cache' = cache /\ applied' = applied /\ queued' = queued BY <1>2 DEF ledger
    <2>2. Taken /\ (Taken' <=> Taken) BY <1>1, <1>2, <2>1 DEF LedgerTruth, Taken
    <2> QED BY <1>1, <1>2, <2>1, <2>2 DEF LedgerTruth
  <1>3. CASE cache = NoEntry /\ FirstCall(x, answer)
    <2>1. applied + queued <= restarts BY <1>1, <1>3 DEF LedgerTruth
    <2>2. CASE Carry(x, answer) /\ cache' = [payload |-> PayloadOf(x), answer |-> answer]
      <3>1. answer \in {"APPLIED", "ACCEPTED"} BY <2>2 DEF Carry
      <3>2. /\ applied' \in Nat /\ queued' \in Nat /\ applied' + queued' = applied + queued + 1
        BY <1>1, <2>2 DEF Carry
      <3>3. Taken'
        <4>1. applied + queued + 1 > 0 BY <1>1
        <4> QED BY <3>2, <4>1 DEF Taken
      <3>4. cache' \in Entry BY <1>1, <2>2 DEF Entry
      <3>5. cache'.answer \in {"APPLIED", "ACCEPTED"} BY <2>2, <3>1
      <3>6. applied' + queued' <= 1 + restarts'
        <4>1. applied + queued + 1 <= 1 + restarts BY <1>1, <2>1
        <4> QED BY <3>2, <4>1
      <3>7. cache' # NoEntry
        <4>1. cache'.payload = PayloadOf(x) /\ NoEntry.payload = 0 BY <2>2 DEF NoEntry
        <4> QED BY <1>1, <4>1
      <3> QED BY <3>2, <3>3, <3>4, <3>5, <3>6, <3>7 DEF LedgerTruth
    <2>3. CASE answer \in {"REFUSED", "TRANSIENT"} /\ UNCHANGED ledger
      <3>1. cache' = cache /\ applied' = applied /\ queued' = queued BY <2>3 DEF ledger
      <3> QED BY <1>1, <1>3, <2>1, <2>3, <3>1 DEF LedgerTruth, Taken
    <2> QED BY <1>3, <2>2, <2>3 DEF FirstCall
  <1> QED BY <1>2, <1>3 DEF Gateway

\* After a call, answered or not: what it ends well with HRP has.
LEMMA AfterCall ==
    ASSUME PipelineSound, NEW x \in Executions, exec[x].pc = "call", input' = input,
           UNCHANGED <<receipt, owner, attempts>>, restarts' = restarts, lost' \in 0 .. MaxLost,
           LedgerTruth', cache' \in Entry, applied' \in Nat, queued' \in Nat, Taken => Taken',
           NEW v \in Verdicts, Go(x, "complete", v), v = "SUCCESS" => Taken'
    PROVE  PipelineSound'
  <1>1. Types BY DEF PipelineSound
  <1>2. (Plan(body))' = Plan(body) /\ Calls' = Calls BY SamePlan
  <1>3. /\ exec' \in [Executions -> Exec]
        /\ \A y \in Executions : exec'[y].pc # "idle" => exec'[y].nth # 0
        /\ exec'[x].pc = "complete" /\ exec'[x].verdict = v
        /\ \A y \in Executions \ {x} : exec'[y] = exec[y]
    BY <1>1, Going
  <1>4. Types' BY <1>1, <1>3 DEF Types, input
  <1>5. Calls BY DEF PipelineSound, OnlyPlanned
  <1>6. OnlyPlanned' BY <1>2, <1>3, <1>5 DEF PipelineSound, OnlyPlanned, input
  <1>7. DeliveredTaken' BY <1>2 DEF PipelineSound, DeliveredTaken, input
  <1> QED BY <1>4, <1>6, <1>7 DEF PipelineSound

LEMMA Called == ASSUME PipelineSound, NEW x \in Executions, Call(x) PROVE PipelineSound'
  <1>1. /\ exec[x].pc = "call" /\ input' = input
        /\ UNCHANGED <<receipt, owner, attempts, restarts, lost>>
    BY DEF Call
  <1>2. PICK answer \in Answers : Gateway(x, answer) /\ Go(x, "complete", VerdictOf(answer))
    BY DEF Call
  <1>3. /\ LedgerTruth' /\ cache' \in Entry /\ applied' \in Nat /\ queued' \in Nat
        /\ (Taken => Taken') /\ (answer \in {"APPLIED", "ACCEPTED"} => Taken')
    BY <1>1, <1>2, Gated
  <1>4. /\ VerdictOf(answer) \in Verdicts
        /\ VerdictOf(answer) = "SUCCESS" => answer \in {"APPLIED", "ACCEPTED"}
    BY DEF VerdictOf, Verdicts
  <1>5. lost' \in 0 .. MaxLost BY <1>1 DEF PipelineSound, Types
  <1> QED BY <1>1, <1>2, <1>3, <1>4, <1>5, AfterCall

LEMMA Lost == ASSUME PipelineSound, NEW x \in Executions, CallLost(x) PROVE PipelineSound'
  <1>1. /\ exec[x].pc = "call" /\ input' = input /\ Go(x, "complete", "RETRY")
        /\ UNCHANGED <<receipt, owner, attempts, restarts>>
    BY DEF CallLost
  <1>2. lost' \in 0 .. MaxLost BY PipelineBounds DEF CallLost, PipelineSound, Types
  <1>3. "RETRY" \in Verdicts BY DEF Verdicts
  <1>4. /\ LedgerTruth' /\ cache' \in Entry /\ applied' \in Nat /\ queued' \in Nat
        /\ Taken => Taken'
    <2>1. CASE \E answer \in Answers : Gateway(x, answer) BY <1>1, <2>1, Gated
    <2>2. CASE UNCHANGED ledger
      BY <1>1, <2>2 DEF PipelineSound, LedgerTruth, Types, ledger, Taken
    <2> QED BY <2>1, <2>2 DEF CallLost
  <1> QED BY <1>1, <1>2, <1>3, <1>4, AfterCall

LEMMA Restarted == ASSUME PipelineSound, GatewayRestart PROVE PipelineSound'
  <1>1. /\ Types /\ input' = input /\ UNCHANGED <<receipt, owner, attempts, exec, applied, queued>>
        /\ lost' = lost + 1 /\ lost < MaxLost /\ restarts' = restarts + 1 /\ cache' = NoEntry
    BY DEF GatewayRestart, PipelineSound
  <1>2. (Plan(body))' = Plan(body) /\ Calls' = Calls /\ Taken' = Taken
    BY <1>1, SamePlan DEF Taken
  <1>3. NoEntry \in Entry BY PipelineBounds DEF NoEntry, Entry
  <1>4. Types' BY <1>1, <1>3, PipelineBounds DEF Types, input
  <1>5. LedgerTruth'
    <2>1. applied + queued <= 1 + restarts BY <1>1 DEF PipelineSound, LedgerTruth, Types
    <2> QED BY <1>1, <2>1 DEF LedgerTruth, Types
  <1>6. OnlyPlanned' BY <1>1, <1>2 DEF PipelineSound, OnlyPlanned, input
  <1>7. DeliveredTaken' BY <1>1, <1>2 DEF PipelineSound, DeliveredTaken, input
  <1> QED BY <1>4, <1>5, <1>6, <1>7 DEF PipelineSound

\* A receipt becomes DELIVERED by an execution that ended well.
LEMMA Completed == ASSUME PipelineSound, NEW x \in Executions, Complete(x) PROVE PipelineSound'
  <1>1. /\ Types /\ input' = input /\ exec[x].pc = "complete" /\ exec' = [exec EXCEPT ![x] = Idle]
        /\ UNCHANGED <<owner, attempts, cache, applied, queued, restarts, lost>>
        /\ Taken' = Taken
    BY SameLedger DEF Complete, PipelineSound, ledger
  <1>2. (Plan(body))' = Plan(body) /\ Calls' = Calls BY <1>1, SamePlan
  <1>3. /\ exec' \in [Executions -> Exec]
        /\ \A y \in Executions : exec'[y].pc # "idle" => exec'[y].nth # 0
        /\ exec'[x].pc = "idle"
        /\ \A y \in Executions \ {x} : exec'[y] = exec[y]
    BY <1>1, Ending
  <1>4. /\ receipt' \in {"QUEUED", "DELIVERED", "DEAD_LETTERED"}
        /\ receipt' = "DELIVERED" => receipt = "DELIVERED" \/ exec[x].verdict = "SUCCESS"
    BY <1>1 DEF Complete, Types
  <1>5. Types' BY <1>1, <1>3, <1>4 DEF Types, input
  <1>6. LedgerTruth' BY <1>1 DEF PipelineSound, LedgerTruth
  <1>7. OnlyPlanned' BY <1>1, <1>2, <1>3 DEF PipelineSound, OnlyPlanned, input
  <1>8. DeliveredTaken'
    BY <1>1, <1>2, <1>4 DEF PipelineSound, DeliveredTaken, OnlyPlanned, input
  <1> QED BY <1>5, <1>6, <1>7, <1>8 DEF PipelineSound

LEMMA NextPipeline == PipelineSound /\ [PipelineNext]_pvars => PipelineSound'
  <1> SUFFICES ASSUME PipelineSound, [PipelineNext]_pvars PROVE PipelineSound'
    OBVIOUS
  <1>1. CASE UNCHANGED pvars
    <2>1. /\ (Plan(body))' = Plan(body) /\ Calls' = Calls /\ Taken' = Taken
          /\ UNCHANGED <<cache, applied, queued>>
      BY <1>1, SamePlan, SameLedger DEF pvars
    <2> QED BY <1>1, <2>1
         DEF pvars, input, PipelineSound, Types, LedgerTruth, OnlyPlanned, DeliveredTaken
  <1> QED
    BY <1>1, Claimed, Decided, Called, Completed, Lost, Restarted DEF PipelineNext, Execute

LEMMA AlwaysPlanned == PipelineSpec => []PipelineSound
  BY InitPipeline, NextPipeline, PTL DEF PipelineSpec

\* PipelineInv: HRP gets one command per event whatever overlaps, retries or is lost, but for
\* restarts of the gateway; and none for events that are blocked or ignored, from the API none
\* but for authoritative ones.
THEOREM OneCommandPerEvent == PipelineSpec => []PipelineInv
  <1>1. PipelineSound => PipelineInv
    <2> SUFFICES ASSUME PipelineSound PROVE PipelineInv
      OBVIOUS
    <2>1. PipelineTypeOK BY DEF PipelineSound, Types, PipelineTypeOK, Exec, Entry
    <2>2. AppliedOnce BY DEF PipelineSound, Types, LedgerTruth, AppliedOnce
    <2>3. Quiet
      <3>1. CASE Calls BY <3>1, QuietEvents
      <3>2. CASE ~Calls
        <4>1. ~(Calling \/ Taken) BY <3>2 DEF PipelineSound, OnlyPlanned, Calling
        <4> QED BY <4>1 DEF Quiet
      <3> QED BY <3>1, <3>2
    <2> QED BY <2>1, <2>2, <2>3 DEF PipelineInv
  <1> QED BY <1>1, AlwaysPlanned, PTL

\* DeliveredTaken: a receipt whose event calls for a command is DELIVERED only after HRP
\* applied the command or took it over.
THEOREM DeliveredWasTaken == PipelineSpec => []DeliveredTaken
  <1>1. PipelineSound => DeliveredTaken BY DEF PipelineSound
  <1> QED BY <1>1, AlwaysPlanned, PTL
=============================================================================

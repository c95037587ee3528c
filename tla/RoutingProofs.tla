---------------------------- MODULE RoutingProofs ----------------------------
(***************************************************************************)
(* What the routing simulator and its screen promise for any number of     *)
(* members, weights, limits and customers.  The shares are sums over the   *)
(* members of a pool; the facts about sums come first.                     *)
(***************************************************************************)
EXTENDS RoutingScreen, FiniteSetTheorems, TLAPS

-----------------------------------------------------------------------------
(* Sums over finite sets.  Sum takes the members in an order of its own;   *)
(* what it computes does not depend on it.  Where an induction over finite *)
(* sets is called for, a least counterexample is refuted.                  *)

LEMMA LeastSubset ==
    ASSUME NEW S, IsFiniteSet(S), NEW B, B \subseteq SUBSET S, B # {}
    PROVE  \E T \in B : \A U \in B : U \subseteq T => U = T
  <1>1. B \subseteq FiniteSubsetsOf(S) BY FS_Subset DEF FiniteSubsetsOf
  <1>2. \E T \in B : \A U \in B : <<U, T>> \notin StrictSubsetOrdering(S)
    BY <1>1, FS_StrictSubsetOrderingWellFounded, WFMin
  <1> QED BY <1>1, <1>2 DEF StrictSubsetOrdering

\* The table of partial sums that the fold is defined by.
First(s) == CHOOSE x \in s : TRUE
Adds(g, f, S) ==
    g = [s \in SUBSET S |-> IF s = {} THEN 0 ELSE g[s \ {First(s)}] + f[First(s)]]

LEMMA SumIs == ASSUME NEW f, NEW S PROVE Sum(f, S) = (CHOOSE g : Adds(g, f, S))[S]
  BY DEF Sum, FoldSet, MapThenFoldSet, Adds, First

LEMMA FirstIn == ASSUME NEW s, s # {} PROVE First(s) \in s
  BY DEF First

LEMMA AddsAt ==
    ASSUME NEW f, NEW S, NEW g, Adds(g, f, S), NEW s \in SUBSET S
    PROVE  /\ s = {} => g[s] = 0
           /\ s # {} => g[s] = g[s \ {First(s)}] + f[First(s)]
  BY DEF Adds

\* Two tables agree where both have an entry.
LEMMA SameTable ==
    ASSUME NEW f, NEW S, NEW R, IsFiniteSet(S), NEW g, NEW h, Adds(g, f, S), Adds(h, f, R)
    PROVE  \A s \in SUBSET S : s \in SUBSET R => g[s] = h[s]
  <1> DEFINE B == {s \in SUBSET S : s \in SUBSET R /\ g[s] # h[s]}
  <1> SUFFICES ASSUME B # {} PROVE FALSE
    OBVIOUS
  <1>Subsets. B \subseteq SUBSET S OBVIOUS
  <1> HIDE DEF B
  <1>1. PICK T \in B : \A U \in B : U \subseteq T => U = T BY <1>Subsets, LeastSubset
  <1> USE DEF B
  <1>2. T # {}
    <2>1. {} \in SUBSET S /\ {} \in SUBSET R OBVIOUS
    <2>2. PICK e : e = {} OBVIOUS
    <2>3. g[e] = 0 BY <2>1, <2>2 DEF Adds
    <2>4. h[e] = 0 BY <2>1, <2>2 DEF Adds
    <2> QED BY <1>1, <2>2, <2>3, <2>4
  <1>3. First(T) \in T BY <1>2, FirstIn
  <1>4. T \ {First(T)} \notin B BY <1>1, <1>3
  <1>5. g[T \ {First(T)}] = h[T \ {First(T)}] BY <1>1, <1>4
  <1>6. g[T] = h[T] BY <1>1, <1>2, <1>5, AddsAt
  <1> QED BY <1>1, <1>6

LEMMA TableExists == ASSUME NEW f, NEW S, IsFiniteSet(S) PROVE \E g : Adds(g, f, S)
  <1> DEFINE B == {s \in SUBSET S : ~ \E g : Adds(g, f, s)}
  <1> SUFFICES ASSUME B # {} PROVE FALSE
    OBVIOUS
  <1>Subsets. B \subseteq SUBSET S OBVIOUS
  <1> HIDE DEF B
  <1>1. PICK T \in B : \A U \in B : U \subseteq T => U = T BY <1>Subsets, LeastSubset
  <1> USE DEF B
  <1>2. \A U \in SUBSET T : U # T => \E g : Adds(g, f, U) BY <1>1
  <1> DEFINE G(U) == CHOOSE g : Adds(g, f, U)
  <1>3. \A U \in SUBSET T : U # T => Adds(G(U), f, U) BY <1>2
  <1> DEFINE h == [s \in SUBSET T |->
                     IF s = {} THEN 0 ELSE G(s \ {First(s)})[s \ {First(s)}] + f[First(s)]]
  <1>4. IsFiniteSet(T) BY <1>1, FS_Subset
  <1>5. ASSUME NEW s \in SUBSET T, s # T PROVE h[s] = G(s)[s]
    <2>1. CASE s = {}
      <3>1. Adds(G(s), f, s) BY <1>3, <1>5
      <3>2. s \in SUBSET s OBVIOUS
      <3> HIDE DEF G
      <3>3. G(s)[s] = 0 BY <2>1, <3>1, <3>2, AddsAt
      <3> QED BY <2>1, <3>3
    <2>2. CASE s # {}
      <3> DEFINE u == s \ {First(s)}
      <3>1. u \in SUBSET T /\ u # T /\ u \in SUBSET s /\ u \in SUBSET u BY <2>2, FirstIn
      <3>2. IsFiniteSet(s) /\ IsFiniteSet(u) BY <1>4, <3>1, FS_Subset
      <3>3. Adds(G(s), f, s) /\ Adds(G(u), f, u) BY <1>3, <1>5, <3>1
      <3>4. s \in SUBSET s OBVIOUS
      <3> HIDE DEF G
      <3>5. G(s)[s] = G(s)[u] + f[First(s)] BY <2>2, <3>3, <3>4, AddsAt
      <3>6. G(u)[u] = G(s)[u] BY <3>1, <3>2, <3>3, SameTable
      <3> QED BY <2>2, <3>5, <3>6
    <2> QED BY <2>1, <2>2
  <1>6. ASSUME NEW s \in SUBSET T, s # {} PROVE h[s] = h[s \ {First(s)}] + f[First(s)]
    <2>1. s \ {First(s)} \in SUBSET T /\ s \ {First(s)} # T BY <1>6, FirstIn
    <2>2. h[s \ {First(s)}] = G(s \ {First(s)})[s \ {First(s)}] BY <1>5, <2>1
    <2> HIDE DEF G
    <2> QED BY <1>6, <2>2
  <1>7. h = [s \in SUBSET T |-> h[s]] /\ (T # {} \/ T = {}) /\ h[{}] = 0 OBVIOUS
  <1> HIDE DEF h
  <1>8. Adds(h, f, T) BY <1>6, <1>7 DEF Adds
  <1> QED BY <1>1, <1>8

LEMMA SumAdds == ASSUME NEW f, NEW S, IsFiniteSet(S), NEW g, Adds(g, f, S)
                 PROVE  \A s \in SUBSET S : Sum(f, s) = g[s]
  <1>1. TAKE s \in SUBSET S
  <1>2. IsFiniteSet(s) BY FS_Subset
  <1>3. \E h : Adds(h, f, s) BY <1>2, TableExists
  <1>4. PICK h : h = CHOOSE x : Adds(x, f, s) OBVIOUS
  <1>5. Adds(h, f, s) BY <1>3, <1>4
  <1>6. s \in SUBSET s OBVIOUS
  <1>7. \A t \in SUBSET s : t \in SUBSET S => h[t] = g[t] BY <1>2, <1>5, SameTable
  <1> QED BY <1>4, <1>6, <1>7, SumIs

LEMMA SumFirst ==
    ASSUME NEW f, NEW S, IsFiniteSet(S)
    PROVE  /\ S = {} => Sum(f, S) = 0
           /\ S # {} => Sum(f, S) = Sum(f, S \ {First(S)}) + f[First(S)]
  <1>1. PICK g : Adds(g, f, S) BY TableExists
  <1>2. \A s \in SUBSET S : Sum(f, s) = g[s] BY <1>1, SumAdds
  <1>3. S \in SUBSET S /\ S \ {First(S)} \in SUBSET S OBVIOUS
  <1> QED BY <1>1, <1>2, <1>3, AddsAt

\* f has an integer for every member of S.
Ints(f, S) == \A i \in S : f[i] \in Int

LEMMA SumInt == ASSUME NEW f, NEW S, IsFiniteSet(S), Ints(f, S) PROVE Sum(f, S) \in Int
  <1> DEFINE B == {s \in SUBSET S : Sum(f, s) \notin Int}
  <1> SUFFICES ASSUME B # {} PROVE FALSE
    OBVIOUS
  <1>Subsets. B \subseteq SUBSET S OBVIOUS
  <1> HIDE DEF B
  <1>1. PICK T \in B : \A U \in B : U \subseteq T => U = T BY <1>Subsets, LeastSubset
  <1> USE DEF B
  <1>2. IsFiniteSet(T) BY <1>1, FS_Subset
  <1>3. T # {}
    <2> SUFFICES ASSUME T = {} PROVE FALSE
      OBVIOUS
    <2>1. Sum(f, T) = 0 BY <1>2, SumFirst
    <2> QED BY <1>1, <2>1
  <1>4. First(T) \in T BY <1>3, FirstIn
  <1>5. T \ {First(T)} \notin B BY <1>1, <1>4
  <1>6. Sum(f, T \ {First(T)}) \in Int BY <1>1, <1>5
  <1>7. Sum(f, T) = Sum(f, T \ {First(T)}) + f[First(T)] BY <1>2, <1>3, SumFirst
  <1>8. f[First(T)] \in Int BY <1>1, <1>4 DEF Ints
  <1>9. Sum(f, T) \in Int BY <1>6, <1>7, <1>8
  <1> QED BY <1>1, <1>9

LEMMA SumNone == ASSUME NEW f PROVE Sum(f, {}) = 0
  BY FS_EmptySet, SumFirst

\* Any member may be taken out.
LEMMA SumRemove ==
    ASSUME NEW f, NEW S, IsFiniteSet(S), Ints(f, S)
    PROVE  \A x \in S : Sum(f, S) = Sum(f, S \ {x}) + f[x]
  <1> DEFINE Q(s) == \A x \in s : Sum(f, s) = Sum(f, s \ {x}) + f[x]
             B == {s \in SUBSET S : ~Q(s)}
  <1> SUFFICES ASSUME B # {} PROVE FALSE
    OBVIOUS
  <1>Subsets. B \subseteq SUBSET S OBVIOUS
  <1> HIDE DEF B
  <1>1. PICK T \in B : \A U \in B : U \subseteq T => U = T BY <1>Subsets, LeastSubset
  <1> USE DEF B
  <1>2. T \in SUBSET S /\ IsFiniteSet(T) BY <1>1, FS_Subset
  <1>3. PICK x \in T : Sum(f, T) # Sum(f, T \ {x}) + f[x] BY <1>1
  <1>4. PICK c : c = First(T) OBVIOUS
  <1>5. c \in T /\ Sum(f, T) = Sum(f, T \ {c}) + f[c] BY <1>2, <1>3, <1>4, FirstIn, SumFirst
  <1>6. c # x BY <1>3, <1>5
  <1>7. T \ {c} \in SUBSET S /\ T \ {x} \in SUBSET S BY <1>2
  <1>8. T \ {c} \notin B /\ T \ {x} \notin B BY <1>1, <1>3, <1>5
  <1>9. Q(T \ {c}) /\ Q(T \ {x}) BY <1>7, <1>8
  <1>10. x \in T \ {c} /\ c \in T \ {x} /\ (T \ {x}) \ {c} = (T \ {c}) \ {x} BY <1>3, <1>5, <1>6
  <1> DEFINE rest == (T \ {c}) \ {x}
  <1>11. Sum(f, T \ {c}) = Sum(f, rest) + f[x] BY <1>9, <1>10
  <1>12. Sum(f, T \ {x}) = Sum(f, rest) + f[c] BY <1>9, <1>10
  <1>13. IsFiniteSet(rest) /\ Ints(f, rest) BY <1>2, FS_Subset DEF Ints
  <1> HIDE DEF rest
  <1>14. Sum(f, rest) \in Int BY <1>13, SumInt
  <1>15. f[x] \in Int /\ f[c] \in Int BY <1>2, <1>3, <1>5 DEF Ints
  <1>16. Sum(f, T) = Sum(f, T \ {x}) + f[x] BY <1>5, <1>11, <1>12, <1>14, <1>15
  <1> QED BY <1>3, <1>16

LEMMA Distribute == \A a, b, c \in Int : a * (b + c) = a * b + a * c /\ a * b \in Int
  OBVIOUS

LEMMA SumPlus ==
    ASSUME NEW S, IsFiniteSet(S), NEW f, NEW g, NEW h, Ints(f, S), Ints(g, S),
           \A i \in S : h[i] = f[i] + g[i]
    PROVE  Sum(h, S) = Sum(f, S) + Sum(g, S)
  <1> DEFINE Q(s) == Sum(h, s) = Sum(f, s) + Sum(g, s)
             B == {s \in SUBSET S : ~Q(s)}
  <1> SUFFICES ASSUME B # {} PROVE FALSE
    OBVIOUS
  <1>Subsets. B \subseteq SUBSET S OBVIOUS
  <1> HIDE DEF B
  <1>1. PICK T \in B : \A U \in B : U \subseteq T => U = T BY <1>Subsets, LeastSubset
  <1> USE DEF B
  <1>2. T \in SUBSET S /\ IsFiniteSet(T) BY <1>1, FS_Subset
  <1>3. T # {}
    <2> SUFFICES ASSUME T = {} PROVE FALSE
      OBVIOUS
    <2>1. Sum(h, T) = 0 /\ Sum(f, T) = 0 /\ Sum(g, T) = 0 BY SumNone
    <2> QED BY <1>1, <2>1
  <1>4. PICK x \in T : TRUE BY <1>3
  <1>5. T \ {x} \in SUBSET S /\ T \ {x} \notin B BY <1>1, <1>2, <1>4
  <1>6. Q(T \ {x}) BY <1>5
  <1>7. /\ IsFiniteSet(T \ {x}) /\ Ints(f, T) /\ Ints(g, T) /\ Ints(h, T)
        /\ Ints(f, T \ {x}) /\ Ints(g, T \ {x})
    BY <1>2, FS_Subset DEF Ints
  <1>8. /\ Sum(f, T) = Sum(f, T \ {x}) + f[x] /\ Sum(g, T) = Sum(g, T \ {x}) + g[x]
        /\ Sum(h, T) = Sum(h, T \ {x}) + h[x]
    BY <1>2, <1>4, <1>7, SumRemove
  <1>9. /\ Sum(f, T \ {x}) \in Int /\ Sum(g, T \ {x}) \in Int
        /\ f[x] \in Int /\ g[x] \in Int /\ h[x] = f[x] + g[x]
    BY <1>2, <1>4, <1>7, SumInt DEF Ints
  <1> HIDE DEF B, Q
  <1>10. Q(T) BY <1>6, <1>8, <1>9 DEF Q
  <1> QED BY <1>1, <1>10 DEF B

LEMMA SumMinus ==
    ASSUME NEW S, IsFiniteSet(S), NEW f, NEW g, NEW h, Ints(f, S), Ints(g, S),
           \A i \in S : h[i] = f[i] - g[i]
    PROVE  Sum(h, S) = Sum(f, S) - Sum(g, S)
  <1>1. Ints(h, S) /\ \A i \in S : f[i] = h[i] + g[i] BY DEF Ints
  <1>2. Sum(f, S) = Sum(h, S) + Sum(g, S) BY <1>1, SumPlus
  <1> QED BY <1>1, <1>2, SumInt

LEMMA SumTimes ==
    ASSUME NEW S, IsFiniteSet(S), NEW f, NEW h, Ints(f, S), NEW c \in Int,
           \A i \in S : h[i] = c * f[i]
    PROVE  Sum(h, S) = c * Sum(f, S)
  <1> DEFINE Q(s) == Sum(h, s) = c * Sum(f, s)
             B == {s \in SUBSET S : ~Q(s)}
  <1> SUFFICES ASSUME B # {} PROVE FALSE
    OBVIOUS
  <1>Subsets. B \subseteq SUBSET S OBVIOUS
  <1> HIDE DEF B
  <1>1. PICK T \in B : \A U \in B : U \subseteq T => U = T BY <1>Subsets, LeastSubset
  <1> USE DEF B
  <1>2. T \in SUBSET S /\ IsFiniteSet(T) BY <1>1, FS_Subset
  <1>3. T # {}
    <2> SUFFICES ASSUME T = {} PROVE FALSE
      OBVIOUS
    <2>1. Sum(h, T) = 0 /\ Sum(f, T) = 0 /\ c * 0 = 0 BY SumNone
    <2> QED BY <1>1, <2>1
  <1>4. PICK x \in T : TRUE BY <1>3
  <1>5. T \ {x} \in SUBSET S /\ T \ {x} \notin B BY <1>1, <1>2, <1>4
  <1>6. Q(T \ {x}) BY <1>5
  <1>7. /\ IsFiniteSet(T \ {x}) /\ Ints(f, T) /\ Ints(h, T) /\ Ints(f, T \ {x})
    BY <1>2, FS_Subset, Distribute DEF Ints
  <1>8. /\ Sum(f, T) = Sum(f, T \ {x}) + f[x] /\ Sum(h, T) = Sum(h, T \ {x}) + h[x]
    BY <1>2, <1>4, <1>7, SumRemove
  <1>9. Sum(f, T \ {x}) \in Int /\ f[x] \in Int /\ h[x] = c * f[x]
    BY <1>2, <1>4, <1>7, SumInt DEF Ints
  <1>10. c * (Sum(f, T \ {x}) + f[x]) = c * Sum(f, T \ {x}) + c * f[x] BY <1>9, Distribute
  <1> HIDE DEF B, Q
  <1>11. Q(T) BY <1>6, <1>8, <1>9, <1>10 DEF Q
  <1> QED BY <1>1, <1>11 DEF B

LEMMA SumSame ==
    ASSUME NEW S, IsFiniteSet(S), NEW f, NEW g, Ints(f, S), \A i \in S : f[i] = g[i]
    PROVE  Sum(f, S) = Sum(g, S)
  <1>1. PICK c \in Int : c = 1 OBVIOUS
  <1>2. \A i \in S : g[i] = c * f[i] BY <1>1 DEF Ints
  <1>3. Sum(g, S) = c * Sum(f, S) BY <1>2, SumTimes
  <1> QED BY <1>1, <1>3, SumInt

\* One member gets another value.
LEMMA SumChange ==
    ASSUME NEW S, IsFiniteSet(S), NEW f, NEW g, Ints(f, S), NEW x \in S, g[x] \in Int,
           \A i \in S \ {x} : g[i] = f[i]
    PROVE  Sum(g, S) = Sum(f, S) + (g[x] - f[x])
  <1>1. IsFiniteSet(S \ {x}) /\ Ints(f, S \ {x}) /\ Ints(g, S) BY FS_Subset DEF Ints
  <1>2. Sum(f, S \ {x}) = Sum(g, S \ {x}) BY <1>1, SumSame
  <1>3. Sum(f, S) = Sum(f, S \ {x}) + f[x] /\ Sum(g, S) = Sum(g, S \ {x}) + g[x]
    BY <1>1, SumRemove
  <1>4. Sum(f, S \ {x}) \in Int /\ f[x] \in Int BY <1>1, SumInt DEF Ints
  <1> QED BY <1>2, <1>3, <1>4

LEMMA SumAtMost ==
    ASSUME NEW S, IsFiniteSet(S), NEW f, Ints(f, S), NEW b \in Int, \A i \in S : f[i] <= b
    PROVE  Sum(f, S) <= Cardinality(S) * b
  <1> DEFINE Q(s) == Sum(f, s) <= Cardinality(s) * b
             B == {s \in SUBSET S : ~Q(s)}
  <1> SUFFICES ASSUME B # {} PROVE FALSE
    OBVIOUS
  <1>Subsets. B \subseteq SUBSET S OBVIOUS
  <1> HIDE DEF B
  <1>1. PICK T \in B : \A U \in B : U \subseteq T => U = T BY <1>Subsets, LeastSubset
  <1> USE DEF B
  <1>2. T \in SUBSET S /\ IsFiniteSet(T) BY <1>1, FS_Subset
  <1>3. T # {}
    <2> SUFFICES ASSUME T = {} PROVE FALSE
      OBVIOUS
    <2>1. Sum(f, T) = 0 /\ Cardinality(T) = 0 BY SumNone, FS_EmptySet
    <2>2. 0 * b = 0 OBVIOUS
    <2> QED BY <1>1, <2>1, <2>2
  <1>4. PICK x \in T : TRUE BY <1>3
  <1>5. T \ {x} \in SUBSET S /\ T \ {x} \notin B BY <1>1, <1>2, <1>4
  <1>6. Q(T \ {x}) BY <1>5
  <1>7. IsFiniteSet(T \ {x}) /\ Ints(f, T) /\ Ints(f, T \ {x}) BY <1>2, FS_Subset DEF Ints
  <1>8. Sum(f, T) = Sum(f, T \ {x}) + f[x] BY <1>2, <1>4, <1>7, SumRemove
  <1>9. Sum(f, T \ {x}) \in Int /\ f[x] \in Int /\ f[x] <= b BY <1>2, <1>4, <1>7, SumInt DEF Ints
  <1>10. Cardinality(T \ {x}) = Cardinality(T) - 1 BY <1>2, <1>4, FS_RemoveElement
  <1>11. Cardinality(T) \in Nat BY <1>2, FS_CardinalityType
  <1> HIDE DEF B, Q
  <1>12. \A n \in Nat : (n - 1) * b + b = n * b /\ n * b \in Int /\ (n - 1) * b \in Int OBVIOUS
  <1>13. Q(T) BY <1>6, <1>8, <1>9, <1>10, <1>11, <1>12 DEF Q
  <1> QED BY <1>1, <1>13 DEF B

\* Nothing below zero: no member is more than the sum.
LEMMA SumOfNats ==
    ASSUME NEW S, IsFiniteSet(S), NEW f, Ints(f, S), \A i \in S : f[i] >= 0
    PROVE  Sum(f, S) >= 0 /\ \A i \in S : f[i] <= Sum(f, S)
  <1>1. PICK c \in Int : c = -1 OBVIOUS
  <1> DEFINE m == [i \in S |-> c * f[i]]
  <1>2. Ints(m, S) /\ \A i \in S : m[i] = c * f[i] /\ m[i] <= 0 BY <1>1 DEF Ints
  <1> HIDE DEF m
  <1>3. ASSUME NEW R \in SUBSET S PROVE Sum(f, R) >= 0 /\ Sum(f, R) \in Int
    <2>1. IsFiniteSet(R) /\ Ints(f, R) /\ Ints(m, R) BY <1>2, FS_Subset DEF Ints
    <2>2. Sum(m, R) <= Cardinality(R) * 0 BY <1>2, <2>1, SumAtMost
    <2>3. Cardinality(R) * 0 = 0 BY <2>1, FS_CardinalityType
    <2>4. \A i \in R : m[i] = c * f[i] BY <1>2
    <2>5. Sum(m, R) = c * Sum(f, R) BY <2>1, <2>4, SumTimes
    <2>6. Sum(f, R) \in Int BY <2>1, SumInt
    <2> QED BY <1>1, <2>2, <2>3, <2>5, <2>6
  <1>4. ASSUME NEW i \in S PROVE f[i] <= Sum(f, S)
    <2>1. Sum(f, S) = Sum(f, S \ {i}) + f[i] BY SumRemove
    <2>2. S \ {i} \in SUBSET S /\ f[i] \in Int BY DEF Ints
    <2>3. Sum(f, S \ {i}) >= 0 /\ Sum(f, S \ {i}) \in Int BY <1>3, <2>2
    <2> QED BY <2>1, <2>2, <2>3
  <1>5. S \in SUBSET S OBVIOUS
  <1> QED BY <1>3, <1>4, <1>5

\* A finite set that is not empty has a first largest member.
LEMMA LargestExists ==
    ASSUME NEW S, IsFiniteSet(S), S # {}, NEW f, Ints(f, S)
    PROVE  \E i \in S : \A j \in S : f[i] >= f[j]
  <1> DEFINE Q(s) == s # {} => \E i \in s : \A j \in s : f[i] >= f[j]
             B == {s \in SUBSET S : ~Q(s)}
  <1>1. ASSUME B # {} PROVE FALSE
    <2>Subsets. B \subseteq SUBSET S OBVIOUS
    <2> HIDE DEF B
    <2>1. PICK T \in B : \A U \in B : U \subseteq T => U = T BY <1>1, <2>Subsets, LeastSubset
    <2> USE DEF B
    <2>2. T \in SUBSET S /\ T # {} BY <2>1
    <2>3. PICK x \in T : TRUE BY <2>2
    <2>4. T \ {x} \in SUBSET S /\ T \ {x} \notin B BY <2>1, <2>2, <2>3
    <2>5. Q(T \ {x}) BY <2>4
    <2>6. \A i \in T : f[i] \in Int BY <2>2 DEF Ints
    <2>7. CASE T \ {x} = {}
      <3>1. T = {x} BY <2>3, <2>7
      <3>2. \A j \in T : f[x] >= f[j] BY <2>6, <3>1
      <3> QED BY <2>1, <2>3, <3>2
    <2>8. CASE T \ {x} # {}
      <3>1. PICK y \in T \ {x} : \A j \in T \ {x} : f[y] >= f[j] BY <2>5, <2>8
      <3>2. CASE f[y] >= f[x]
        <4>1. \A j \in T : f[y] >= f[j] BY <3>1, <3>2
        <4> QED BY <2>1, <3>1, <4>1
      <3>3. CASE ~(f[y] >= f[x])
        <4>1. \A j \in T : f[x] >= f[j] BY <2>3, <2>6, <3>1, <3>3
        <4> QED BY <2>1, <2>3, <4>1
      <3> QED BY <3>2, <3>3
    <2> QED BY <2>7, <2>8
  <1>2. S \in SUBSET S OBVIOUS
  <1>3. Q(S) BY <1>1, <1>2
  <1> QED BY <1>3

LEMMA LeastIn ==
    ASSUME NEW S, IsFiniteSet(S), S # {}, \A i \in S : i \in Int
    PROVE  Least(S) \in S
  <1> DEFINE m == [i \in S |-> -1 * i]
  <1>1. \A i \in S : m[i] = -1 * i /\ m[i] \in Int OBVIOUS
  <1> HIDE DEF m
  <1>2. PICK i \in S : \A j \in S : m[i] >= m[j] BY <1>1, LargestExists DEF Ints
  <1>3. \A j \in S : i <= j BY <1>1, <1>2
  <1> QED BY <1>3 DEF Least

LEMMA SumWithin ==
    ASSUME NEW S, IsFiniteSet(S), NEW f, Ints(f, S), NEW R \in SUBSET S,
           \A i \in S \ R : f[i] = 0
    PROVE  Sum(f, S) = Sum(f, R)
  <1> DEFINE Q(s) == Sum(f, s) = Sum(f, s \cap R)
             B == {s \in SUBSET S : ~Q(s)}
  <1>1. ASSUME B # {} PROVE FALSE
    <2>Subsets. B \subseteq SUBSET S OBVIOUS
    <2> HIDE DEF B
    <2>1. PICK T \in B : \A U \in B : U \subseteq T => U = T BY <1>1, <2>Subsets, LeastSubset
    <2> USE DEF B
    <2>2. T \in SUBSET S /\ IsFiniteSet(T) BY <2>1, FS_Subset
    <2>3. T # {}
      <3> SUFFICES ASSUME T = {} PROVE FALSE
        OBVIOUS
      <3>1. T = T \cap R OBVIOUS
      <3> QED BY <2>1, <3>1
    <2>4. PICK x \in T : TRUE BY <2>3
    <2>5. T \ {x} \in SUBSET S /\ T \ {x} \notin B BY <2>1, <2>2, <2>4
    <2>6. Q(T \ {x}) BY <2>5
    <2>7. /\ IsFiniteSet(T \cap R) /\ Ints(f, T) /\ Ints(f, T \cap R)
      BY <2>2, FS_Subset DEF Ints
    <2>8. Sum(f, T) = Sum(f, T \ {x}) + f[x] BY <2>2, <2>4, <2>7, SumRemove
    <2>9. CASE x \in R
      <3>1. (T \cap R) \ {x} = (T \ {x}) \cap R /\ x \in T \cap R BY <2>4, <2>9
      <3>2. Sum(f, T \cap R) = Sum(f, (T \cap R) \ {x}) + f[x] BY <2>7, <3>1, SumRemove
      <3>3. Sum(f, T) = Sum(f, T \cap R) BY <2>6, <2>8, <3>1, <3>2
      <3> QED BY <2>1, <3>3
    <2>10. CASE x \notin R
      <3>1. T \cap R = (T \ {x}) \cap R /\ f[x] = 0 BY <2>2, <2>4, <2>10
      <3>2. Sum(f, T \cap R) \in Int BY <2>7, SumInt
      <3>3. Sum(f, T \ {x}) = Sum(f, T \cap R) BY <2>6, <3>1
      <3>4. Sum(f, T) = Sum(f, T \cap R) BY <2>8, <3>1, <3>2, <3>3
      <3> QED BY <2>1, <3>4
    <2> QED BY <2>9, <2>10
  <1>2. S \in SUBSET S /\ S \cap R = R OBVIOUS
  <1>3. Q(S) BY <1>1, <1>2
  <1> QED BY <1>2, <1>3

LEMMA SumCounts ==
    ASSUME NEW S, IsFiniteSet(S), NEW T \in SUBSET S, NEW f,
           \A i \in S : f[i] = IF i \in T THEN 1 ELSE 0
    PROVE  Sum(f, S) = Cardinality(T)
  <1>1. IsFiniteSet(T) /\ Ints(f, S) /\ Ints(f, T) /\ \A i \in T : f[i] <= 1
    BY FS_Subset DEF Ints
  <1>2. Sum(f, S) = Sum(f, T) BY <1>1, SumWithin
  <1>3. PICK c \in Int : c = -1 OBVIOUS
  <1> DEFINE m == [i \in T |-> c * f[i]]
  <1>4. Ints(m, T) /\ \A i \in T : m[i] = c * f[i] /\ m[i] <= c BY <1>1, <1>3 DEF Ints
  <1> HIDE DEF m
  <1>5. Sum(m, T) = c * Sum(f, T) BY <1>1, <1>4, SumTimes
  <1>6. Sum(m, T) <= Cardinality(T) * c BY <1>1, <1>4, SumAtMost
  <1>7. Sum(f, T) <= Cardinality(T) * 1 BY <1>1, SumAtMost
  <1>8. Sum(f, T) \in Int /\ Cardinality(T) \in Nat BY <1>1, SumInt, FS_CardinalityType
  <1> QED BY <1>2, <1>3, <1>5, <1>6, <1>7, <1>8

LEMMA Divided ==
    ASSUME NEW a \in Nat, NEW t \in Nat, t > 0
    PROVE  /\ a \div t \in Nat /\ a % t \in Nat /\ a % t < t
           /\ a = t * (a \div t) + (a % t)
  <1>1. a % t >= 0 /\ a % t < t /\ a % t \in Int /\ a \div t \in Int
    OBVIOUS
  <1>2. a = t * (a \div t) + (a % t) OBVIOUS
  <1>3. PICK q \in Int, r \in Int : q = a \div t /\ r = a % t BY <1>1
  <1>4. ASSUME ~(q >= 0) PROVE FALSE
    <2>1. PICK b \in Nat : q = -1 - b
      <3>1. -1 - q \in Nat /\ q = -1 - (-1 - q) BY <1>4
      <3> QED BY <3>1
    <2>2. t * (-1 - b) = -t - t * b /\ t * b >= 0 /\ t * b \in Int OBVIOUS
    <2>3. a = t * q + r /\ r < t BY <1>1, <1>2, <1>3
    <2> QED BY <2>1, <2>2, <2>3
  <1> QED BY <1>1, <1>2, <1>3, <1>4

LEMMA Products == \A a, b \in Int : a * b \in Int /\ a * b = b * a /\ 1 * a = a /\ 0 * a = 0
  OBVIOUS

\* P is a share-out of n over S by the weights w: the floor of the share t divides, and one more
\* for the largest rests.
SharesOut(P, n, w, S, t, floor, rest, more) ==
    /\ \A i \in S : w[i] \in Nat
    /\ \A i \in S : floor[i] = (n * w[i]) \div t /\ rest[i] = (n * w[i]) % t
    /\ more \in SUBSET S /\ Cardinality(more) = n - Sum(floor, S)
    /\ \A i \in more, j \in S \ more : rest[i] >= rest[j]
    /\ \A i \in S : P[i] = floor[i] + (IF i \in more THEN 1 ELSE 0)

\* Largest remainder: all n are shared out, and everyone gets its share rounded down or up.
LEMMA LargestRemainder ==
    ASSUME NEW S, IsFiniteSet(S), NEW n \in Nat, NEW w, NEW t \in Nat, t > 0, t = Sum(w, S),
           NEW P, NEW floor, NEW rest, NEW more, SharesOut(P, n, w, S, t, floor, rest, more)
    PROVE  /\ Sum(P, S) = n
           /\ \A i \in S : P[i] \in Nat /\ P[i] * t - n * w[i] \in (1 - t)..(t - 1)
  <1>1. \A i \in S : /\ w[i] \in Nat /\ n * w[i] \in Nat /\ floor[i] \in Nat /\ rest[i] \in Nat
                     /\ rest[i] < t /\ n * w[i] = t * floor[i] + rest[i]
    <2>1. TAKE i \in S
    <2>2. /\ w[i] \in Nat /\ floor[i] = (n * w[i]) \div t /\ rest[i] = (n * w[i]) % t
      BY DEF SharesOut
    <2>3. PICK a \in Nat : a = n * w[i] BY <2>2
    <2>4. a \div t \in Nat /\ a % t \in Nat /\ a % t < t /\ a = t * (a \div t) + (a % t)
      BY Divided
    <2> QED BY <2>2, <2>3, <2>4
  <1> DEFINE one    == [i \in S |-> IF i \in more THEN 1 ELSE 0]
             exact  == [i \in S |-> n * w[i]]
             floors == [i \in S |-> t * floor[i]]
             ones   == [i \in S |-> t * one[i]]
             d      == [i \in S |-> ones[i] - rest[i]]
  <1>2. \A i \in S : /\ one[i] = IF i \in more THEN 1 ELSE 0
                     /\ exact[i] = n * w[i] /\ floors[i] = t * floor[i] /\ ones[i] = t * one[i]
                     /\ d[i] = ones[i] - rest[i]
    OBVIOUS
  <1> HIDE DEF one, exact, floors, ones, d
  <1>3. \A i \in S : one[i] \in {0, 1} /\ (one[i] = 1 <=> i \in more) BY <1>2
  <1>4. Ints(w, S) /\ Ints(floor, S) /\ Ints(rest, S) BY <1>1 DEF Ints
  <1>5. Ints(one, S) BY <1>3 DEF Ints
  <1>6. ASSUME NEW i \in S
        PROVE  /\ P[i] = floor[i] + one[i] /\ P[i] \in Nat
               /\ exact[i] = floors[i] + rest[i] /\ floors[i] \in Int /\ ones[i] \in Int
               /\ d[i] = t * P[i] - n * w[i] /\ d[i] = t * one[i] - rest[i]
    <2>1. /\ n * w[i] \in Int /\ floor[i] \in Nat /\ rest[i] \in Int
          /\ n * w[i] = t * floor[i] + rest[i]
      BY <1>1
    <2>2. one[i] \in {0, 1} /\ P[i] = floor[i] + one[i] BY <1>2 DEF SharesOut
    <2>3. P[i] \in Nat BY <2>1, <2>2
    <2>4. exact[i] = n * w[i] /\ floors[i] = t * floor[i] /\ ones[i] = t * one[i]
      BY <1>2
    <2>5. t * one[i] \in Int /\ t * floor[i] \in Int BY <2>1, <2>2, Products
    <2>6. d[i] = t * one[i] - rest[i] BY <1>2
    <2>7. t * P[i] = t * floor[i] + t * one[i]
      <3>1. floor[i] \in Int /\ one[i] \in Int /\ t \in Int BY <2>1, <2>2
      <3>2. t * (floor[i] + one[i]) = t * floor[i] + t * one[i] BY <3>1, Distribute
      <3> QED BY <2>2, <3>2
    <2>8. d[i] = t * P[i] - n * w[i] BY <2>1, <2>5, <2>6, <2>7
    <2> QED BY <2>1, <2>2, <2>3, <2>4, <2>5, <2>6, <2>8
  <1>7. Sum(one, S) = Cardinality(more) /\ Cardinality(more) = n - Sum(floor, S)
    <2>1. more \in SUBSET S BY DEF SharesOut
    <2> QED BY <1>2, <2>1, SumCounts DEF SharesOut
  <1>8. /\ Sum(floor, S) \in Int /\ Sum(rest, S) \in Int /\ Sum(one, S) \in Int
        /\ Ints(floors, S) /\ Ints(ones, S)
    BY <1>4, <1>5, <1>6, SumInt DEF Ints
  <1>9. Sum(P, S) = n
    <2>1. \A i \in S : P[i] = floor[i] + one[i] BY <1>6
    <2>2. Sum(P, S) = Sum(floor, S) + Sum(one, S) BY <1>4, <1>5, <2>1, SumPlus
    <2> QED BY <1>7, <1>8, <2>2
  <1>10. Sum(d, S) = 0
    <2>1. Sum(exact, S) = n * t BY <1>2, <1>4, SumTimes
    <2>2. Sum(floors, S) = t * Sum(floor, S) BY <1>2, <1>4, SumTimes
    <2>3. Sum(ones, S) = t * Sum(one, S) BY <1>2, <1>5, SumTimes
    <2>4. Sum(exact, S) = Sum(floors, S) + Sum(rest, S)
      <3>1. \A i \in S : exact[i] = floors[i] + rest[i] BY <1>6
      <3> QED BY <1>4, <1>8, <3>1, SumPlus
    <2>5. Sum(d, S) = Sum(ones, S) - Sum(rest, S)
      <3>1. \A i \in S : d[i] = ones[i] - rest[i] BY <1>2
      <3> QED BY <1>4, <1>8, <3>1, SumMinus
    <2>6. PICK a \in Int, b \in Int, c \in Int :
            a = Sum(floor, S) /\ b = Sum(rest, S) /\ c = Sum(one, S)
      BY <1>8
    <2>7. c = n - a /\ n * t = t * a + b BY <1>7, <2>1, <2>2, <2>4, <2>6
    <2>8. t * (n - a) = t * n - t * a /\ t * n = n * t BY <2>6
    <2>9. t * c - b = 0 BY <2>6, <2>7, <2>8
    <2> QED BY <2>3, <2>5, <2>6, <2>9
  <1>11. ASSUME NEW i \in S, one[i] = 1 PROVE rest[i] # 0
    <2> SUFFICES ASSUME rest[i] = 0 PROVE FALSE
      OBVIOUS
    <2>1. i \in more BY <1>3, <1>11
    <2>2. ASSUME NEW j \in S PROVE d[j] >= 0 /\ d[j] \in Int
      <3>1. rest[j] \in Nat /\ rest[j] < t /\ d[j] = t * one[j] - rest[j] BY <1>1, <1>6
      <3>2. CASE j \in more
        <4>1. one[j] = 1 BY <1>3, <3>2
        <4> QED BY <3>1, <4>1
      <3>3. CASE j \notin more
        <4>1. one[j] = 0 BY <1>3, <3>3
        <4>2. rest[i] >= rest[j] BY <2>1, <3>3 DEF SharesOut
        <4> QED BY <3>1, <4>1, <4>2
      <3> QED BY <3>2, <3>3
    <2>3. d[i] <= Sum(d, S) BY <2>2, SumOfNats DEF Ints
    <2>4. d[i] = t * 1 - 0 BY <1>6, <1>11
    <2> QED BY <1>10, <2>3, <2>4
  <1>12. ASSUME NEW i \in S PROVE P[i] * t - n * w[i] \in (1 - t)..(t - 1)
    <2>1. /\ rest[i] \in Nat /\ rest[i] < t /\ d[i] = t * one[i] - rest[i] /\ one[i] \in {0, 1}
          /\ one[i] = 1 => rest[i] # 0
      BY <1>1, <1>3, <1>6, <1>11
    <2>2. d[i] \in (1 - t)..(t - 1)
      <3>1. CASE one[i] = 0 BY <2>1, <3>1
      <3>2. CASE one[i] = 1 BY <2>1, <3>2
      <3> QED BY <2>1, <3>1, <3>2
    <2>3. P[i] * t = t * P[i] BY <1>6, Products
    <2> QED BY <1>6, <2>2, <2>3
  <1> QED BY <1>6, <1>9, <1>12

-----------------------------------------------------------------------------
(* A customer and the counters.                                            *)

Weighted == pool.strategy = "WEIGHTED_DISTRIBUTION"

\* The fixture is a pool, and the counters fit it.
Staffed ==
    /\ pool \in Pools(Members) /\ IsFiniteSet(Members) /\ Members \subseteq Nat
    /\ Nobody \notin Members
    /\ used \in [Members -> Nat] /\ done \in [Members -> Nat]
    /\ current \in [Members -> Int] /\ plan \in [Members -> Nat]
    /\ got \in [Members \cup {Nobody} -> Nat]

LEMMA Fields ==
    ASSUME Staffed
    PROVE  /\ pool.weight \in [Members -> Nat] /\ pool.room \in [Members -> Nat]
           /\ pool.cap \in [Members -> Nat] /\ pool.used \in [Members -> Nat]
           /\ pool.done \in [Members -> Nat] /\ pool.count \in Nat
           /\ pool.strangers \in Nat
  BY DEF Staffed, Pools

\* Whoever gets a customer had room, and in a weighted pool had some quota left.
Fits(i) == i \in Online /\ ~AtCapacity(i) /\ (Weighted => ~QuotaExhausted(i))

LEMMA OnlineFinite ==
    ASSUME Staffed
    PROVE  /\ Online \subseteq Members /\ Eligible \subseteq Online
           /\ \A S \in SUBSET Members : IsFiniteSet(S) /\ \A i \in S : i \in Int
  <1>1. IsFiniteSet(Members) /\ Members \subseteq Int BY DEF Staffed
  <1>2. \A S \in SUBSET Members : IsFiniteSet(S) BY <1>1, FS_Subset
  <1> QED BY <1>1, <1>2 DEF Online, Eligible

LEMMA FirstOf ==
    ASSUME Staffed, NEW S \in SUBSET Members, S # {}
    PROVE  Least(S) \in S
  BY OnlineFinite, LeastIn

LEMMA SourceTakes ==
    ASSUME Staffed, AssignSource
    PROVE  \E i \in Members \cup {Nobody} : Give(i) /\ (i \in Members => Fits(i))
  <1> DEFINE free == {i \in Online : ~AtCapacity(i)}
  <1>1. free \subseteq Members /\ free \subseteq Online BY OnlineFinite
  <1>2. ~Weighted BY DEF AssignSource, Weighted
  <1>3. CASE free = {}
    <2>1. Give(Nobody) BY <1>3 DEF AssignSource
    <2> QED BY <2>1 DEF Staffed
  <1>4. CASE free # {}
    <2>1. Give(Least(free)) BY <1>4 DEF AssignSource
    <2>2. Least(free) \in free BY <1>1, <1>4, FirstOf
    <2>3. Fits(Least(free)) BY <1>2, <2>2 DEF Fits
    <2> QED BY <1>1, <2>1, <2>2, <2>3
  <1> QED BY <1>3, <1>4

LEMMA BatchIn ==
    ASSUME Staffed
    PROVE  BatchPick = Nobody \/ (BatchPick \in Eligible /\ plan[BatchPick] > 0)
  <1> DEFINE open == {i \in Eligible : plan[i] > 0}
  <1>1. open \in SUBSET Members BY OnlineFinite
  <1>2. BatchPick = IF open = {} THEN Nobody ELSE Least(open) BY DEF BatchPick
  <1>3. open # {} => Least(open) \in open BY <1>1, FirstOf
  <1> QED BY <1>2, <1>3

LEMMA RaisedIs ==
    ASSUME Staffed
    PROVE  /\ Raised \in [Members -> Int]
           /\ \A i \in Members :
                Raised[i] = current[i] + (IF i \in Eligible THEN pool.weight[i] ELSE 0)
  <1>1. \A i \in Members : pool.weight[i] \in Nat /\ current[i] \in Int BY Fields DEF Staffed
  <1> QED BY <1>1 DEF Raised

LEMMA WrrIn ==
    ASSUME Staffed, Eligible # {}
    PROVE  WrrPick \in Eligible /\ \A j \in Eligible : Raised[WrrPick] >= Raised[j]
  <1> DEFINE first == {i \in Eligible : \A j \in Eligible : Raised[i] >= Raised[j]}
  <1>1. Eligible \in SUBSET Members /\ IsFiniteSet(Eligible) BY OnlineFinite
  <1>2. Ints(Raised, Eligible) BY <1>1, RaisedIs DEF Ints
  <1>3. first # {} BY <1>1, <1>2, LargestExists
  <1>4. Least(first) \in first BY <1>1, <1>3, FirstOf
  <1>5. WrrPick = Least(first) BY DEF WrrPick
  <1> QED BY <1>4, <1>5

LEMMA Takes ==
    ASSUME Staffed, RoutingNext
    PROVE  \E i \in Members \cup {Nobody} : Give(i) /\ (i \in Members => Fits(i))
  <1>1. CASE AssignSource BY <1>1, SourceTakes
  <1>2. CASE AssignBatch
    <2>1. \A i \in Eligible : i \in Members /\ Fits(i) BY OnlineFinite DEF Eligible, Fits
    <2>2. Give(Nobody) \/ Give(BatchPick) BY <1>2 DEF AssignBatch
    <2>3. Nobody \notin Members BY DEF Staffed
    <2> QED BY <2>1, <2>2, <2>3, BatchIn
  <1>3. CASE AssignRealtime
    <2>1. \A i \in Eligible : i \in Members /\ Fits(i) BY OnlineFinite DEF Eligible, Fits
    <2>2. Give(Nobody) \/ Give(WrrPick) BY <1>3 DEF AssignRealtime
    <2>3. Nobody \notin Members BY DEF Staffed
    <2>4. Eligible = {} => WrrPick = Nobody BY DEF WrrPick
    <2> QED BY <2>1, <2>2, <2>3, <2>4, WrrIn
  <1>4. CASE AssignHybrid
    <2>1. Give(Nobody) BY <1>4 DEF AssignHybrid
    <2> QED BY <2>1 DEF Staffed
  <1> QED BY <1>1, <1>2, <1>3, <1>4 DEF RoutingNext

LEMMA GiveIs ==
    ASSUME Staffed, NEW i \in Members \cup {Nobody}, Give(i)
    PROVE  /\ pool' = pool
           /\ got' \in [Members \cup {Nobody} -> Nat]
           /\ used' \in [Members -> Nat] /\ done' \in [Members -> Nat]
           /\ \A j \in Members \cup {Nobody} : got'[j] = IF j = i THEN got[j] + 1 ELSE got[j]
           /\ \A j \in Members :
                /\ used'[j] = IF j = i THEN used[j] + 1 ELSE used[j]
                /\ done'[j] = IF j = i THEN done[j] + 1 ELSE done[j]
  BY DEF Staffed, Give

\* WithinLimits with what is left of the fixture.
Counted ==
    \A i \in Members :
      /\ used[i] = pool.used[i] + got[i] /\ done[i] = pool.done[i] + got[i]
      /\ got[i] > 0 => used[i] <= pool.room[i]
      /\ got[i] > 0 /\ pool.cap[i] # 0 /\ Weighted => done[i] <= pool.cap[i]

LEMMA CountedStep == ASSUME Staffed, Counted, RoutingNext PROVE Counted'
  <1>1. PICK i \in Members \cup {Nobody} : Give(i) /\ (i \in Members => Fits(i)) BY Takes
  <1>2. pool' = pool BY <1>1, GiveIs
  <1>3. SUFFICES ASSUME NEW j \in Members
        PROVE  /\ used'[j] = pool.used[j] + got'[j] /\ done'[j] = pool.done[j] + got'[j]
               /\ got'[j] > 0 => used'[j] <= pool.room[j]
               /\ got'[j] > 0 /\ pool.cap[j] # 0 /\ Weighted => done'[j] <= pool.cap[j]
    BY <1>2 DEF Counted, Members, Weighted
  <1>4. /\ pool.used[j] \in Nat /\ pool.done[j] \in Nat /\ pool.room[j] \in Nat
        /\ pool.cap[j] \in Nat /\ used[j] \in Nat /\ done[j] \in Nat /\ got[j] \in Nat
    BY Fields DEF Staffed
  <1>5. /\ used[j] = pool.used[j] + got[j] /\ done[j] = pool.done[j] + got[j]
        /\ got[j] > 0 => used[j] <= pool.room[j]
        /\ got[j] > 0 /\ pool.cap[j] # 0 /\ Weighted => done[j] <= pool.cap[j]
    BY DEF Counted
  <1>6. CASE j = i
    <2>1. ~(used[j] >= pool.room[j]) BY <1>1, <1>6 DEF Fits, AtCapacity
    <2>2. Weighted /\ pool.cap[j] # 0 => ~(done[j] >= pool.cap[j])
      BY <1>1, <1>6 DEF Fits, QuotaExhausted
    <2>3. used'[j] = used[j] + 1 /\ done'[j] = done[j] + 1 /\ got'[j] = got[j] + 1
      BY <1>1, <1>6, GiveIs
    <2>4. used'[j] <= pool.room[j] BY <1>4, <2>1, <2>3
    <2>5. Weighted /\ pool.cap[j] # 0 => done'[j] <= pool.cap[j] BY <1>4, <2>2, <2>3
    <2>6. used'[j] = pool.used[j] + got'[j] /\ done'[j] = pool.done[j] + got'[j]
      BY <1>4, <1>5, <2>3
    <2> QED BY <2>4, <2>5, <2>6
  <1>7. CASE j # i
    <2>1. used'[j] = used[j] /\ done'[j] = done[j] /\ got'[j] = got[j] BY <1>1, <1>7, GiveIs
    <2> QED BY <1>5, <2>1
  <1> QED BY <1>6, <1>7

\* Who is out of the draw stays out of it, and the pool stays what it is.
LEMMA Shrinks ==
    ASSUME Staffed, RoutingNext
    PROVE  /\ pool' = pool /\ Members' = Members /\ Online' = Online
           /\ TotalWeight' = TotalWeight /\ Eligible' \subseteq Eligible
  <1>1. PICK i \in Members \cup {Nobody} : Give(i) BY Takes
  <1>2. pool' = pool BY <1>1, GiveIs
  <1>3. Members' = Members BY <1>2 DEF Members
  <1>4. Online' = Online BY <1>2, <1>3 DEF Online
  <1>5. TotalWeight' = TotalWeight BY <1>2, <1>3 DEF TotalWeight
  <1>6. ASSUME NEW j \in Eligible' PROVE j \in Eligible
    <2>1. j \in Online /\ ~AtCapacity(j)' /\ ~QuotaExhausted(j)' BY <1>4 DEF Eligible
    <2>2. j \in Members BY <2>1, OnlineFinite
    <2>3. /\ used[j] \in Nat /\ used'[j] \in {used[j], used[j] + 1}
          /\ done[j] \in Nat /\ done'[j] \in {done[j], done[j] + 1}
          /\ pool.room[j] \in Nat /\ pool.cap[j] \in Nat
      BY <1>1, <2>2, GiveIs, Fields DEF Staffed
    <2>4. ~(used[j] >= pool.room[j]) BY <1>2, <2>1, <2>3 DEF AtCapacity
    <2>5. pool.cap[j] # 0 => ~(done[j] >= pool.cap[j])
      BY <1>2, <2>1, <2>3 DEF QuotaExhausted
    <2> QED BY <2>1, <2>4, <2>5 DEF Eligible, AtCapacity, QuotaExhausted
  <1> QED BY <1>2, <1>3, <1>4, <1>5, <1>6
-----------------------------------------------------------------------------
(* Round-robin.                                                            *)

LEMMA MaxIsPositive ==
    ASSUME NEW S, IsFiniteSet(S), NEW f, Ints(f, S), Sum(f, S) > 0,
           NEW i \in S, \A j \in S : f[i] >= f[j]
    PROVE  f[i] > 0
  <1> SUFFICES ASSUME ~(f[i] > 0) PROVE FALSE
    OBVIOUS
  <1>1. f[i] \in Int /\ \A j \in S : f[j] \in Int BY DEF Ints
  <1>2. \A j \in S : f[j] <= 0 BY <1>1
  <1>3. Sum(f, S) <= Cardinality(S) * 0 BY <1>2, SumAtMost
  <1>4. Cardinality(S) * 0 = 0 BY FS_CardinalityType
  <1>5. Sum(f, S) \in Int BY SumInt
  <1> QED BY <1>3, <1>4, <1>5

\* How far everyone is from its share: the weight a member has in hand is what it is behind.
Turning ==
    /\ Weighted /\ pool.mode = "realtime" /\ Eligible = Members
    /\ pool.strangers = 0 /\ TotalWeight > 0

Balanced ==
    /\ \A i \in Members :
         /\ current[i] = Given * pool.weight[i] - got[i] * TotalWeight
         /\ current[i] > -TotalWeight
    /\ Sum(current, Members) = 0

LEMMA Numbers ==
    ASSUME Staffed
    PROVE  /\ TotalWeight \in Nat /\ Given \in Nat
           /\ Ints(pool.weight, Members) /\ Ints(current, Members) /\ Ints(got, Members)
           /\ Ints(plan, Members)
           /\ pool.strangers = 0 => TotalWeight = Sum(pool.weight, Members)
           /\ \A i \in Members : pool.weight[i] \in Nat /\ pool.weight[i] <= TotalWeight
  <1>a. pool.weight \in [Members -> Nat] /\ IsFiniteSet(Members) BY Fields DEF Staffed
  <1>b. PICK w \in [Members -> Nat] : w = pool.weight BY <1>a
  <1>c. Ints(w, Members) BY DEF Ints
  <1>d. Ints(current, Members) /\ Ints(plan, Members) BY DEF Staffed, Ints
  <1>e. Ints(got, Members) BY DEF Staffed, Ints
  <1>1. /\ Ints(pool.weight, Members) /\ Ints(current, Members) /\ Ints(got, Members)
        /\ Ints(plan, Members) /\ IsFiniteSet(Members)
    BY <1>a, <1>b, <1>c, <1>d, <1>e
  <1>f. \A i \in Members : w[i] \in Nat OBVIOUS
  <1>g. \A i \in Members : got[i] \in Nat BY DEF Staffed
  <1>2. \A i \in Members : pool.weight[i] \in Nat /\ got[i] \in Nat BY <1>b, <1>f, <1>g
  <1>3. /\ Sum(pool.weight, Members) >= 0 /\ Sum(pool.weight, Members) \in Int
        /\ \A i \in Members : pool.weight[i] <= Sum(pool.weight, Members)
    BY <1>1, <1>2, SumOfNats, SumInt
  <1>4. Sum(got, Members) >= 0 /\ Sum(got, Members) \in Int BY <1>1, <1>2, SumOfNats, SumInt
  <1>5. PICK t \in Int, k \in Nat : t = Sum(pool.weight, Members) /\ k = pool.strangers
    BY <1>3, Fields
  <1>6. TotalWeight = t + k /\ t >= 0 /\ \A i \in Members : pool.weight[i] <= t
    BY <1>3, <1>5 DEF TotalWeight
  <1>7. /\ TotalWeight \in Nat /\ \A i \in Members : pool.weight[i] <= TotalWeight
        /\ pool.strangers = 0 => TotalWeight = Sum(pool.weight, Members)
    BY <1>2, <1>5, <1>6
  <1> QED BY <1>1, <1>2, <1>4, <1>7 DEF Given

LEMMA MembersExist == ASSUME Staffed, Turning PROVE Members # {}
  <1> SUFFICES ASSUME Members = {} PROVE FALSE
    OBVIOUS
  <1>1. TotalWeight = 0 BY SumNone, Numbers DEF Turning
  <1> QED BY <1>1 DEF Turning

LEMMA GivenMore ==
    ASSUME Staffed, NEW i \in Members, Give(i)
    PROVE  Given' = Given + 1
  <1>1. /\ pool' = pool /\ got'[i] = got[i] + 1
        /\ \A j \in Members \ {i} : got'[j] = got[j]
    BY GiveIs
  <1>2. Ints(got, Members) /\ IsFiniteSet(Members) /\ got[i] \in Nat BY Numbers DEF Staffed
  <1>3. Sum(got', Members) = Sum(got, Members) + (got'[i] - got[i]) BY <1>1, <1>2, SumChange
  <1>4. Given' = Sum(got', Members) BY <1>1 DEF Given, Members
  <1>5. Given \in Nat BY Numbers
  <1> QED BY <1>1, <1>2, <1>3, <1>4, <1>5 DEF Given

LEMMA Step == \A n, w, g, W \in Int : /\ (n + 1) * w = n * w + w /\ (g + 1) * W = g * W + W
                                      /\ n * w \in Int /\ g * W \in Int
  OBVIOUS

LEMMA BalancedStep ==
    ASSUME Staffed, Turning, Balanced, RoutingNext
    PROVE  Balanced'
  <1>1. AssignRealtime
    BY DEF Turning, Weighted, RoutingNext, AssignSource, AssignBatch, AssignHybrid
  <1>2. TotalWeight > 0 /\ Eligible = Members /\ Members # {} BY MembersExist DEF Turning
  <1>3. PICK i : i = WrrPick OBVIOUS
  <1>4. i \in Members /\ \A j \in Members : Raised[i] >= Raised[j] BY <1>2, <1>3, WrrIn
  <1>5. TotalWeight # 0 /\ i # Nobody BY <1>2, <1>4, Numbers DEF Staffed
  <1>6. Give(i) /\ current' = TakeTotal(Raised, i) BY <1>1, <1>3, <1>5 DEF AssignRealtime
  <1>7. /\ pool' = pool /\ Members' = Members /\ TotalWeight' = TotalWeight /\ Given' = Given + 1
    BY <1>4, <1>6, Shrinks, GivenMore
  <1>8. \A j \in Members : got'[j] = IF j = i THEN got[j] + 1 ELSE got[j] BY <1>4, <1>6, GiveIs
  <1>9. /\ Ints(Raised, Members)
        /\ \A j \in Members : Raised[j] = current[j] + pool.weight[j]
    <2>1. \A j \in Members : current[j] \in Int /\ pool.weight[j] \in Int BY Numbers DEF Ints
    <2>2. \A j \in Members : Raised[j] = current[j] + pool.weight[j] BY <1>2, RaisedIs
    <2> QED BY <2>1, <2>2 DEF Ints
  <1>10. \A j \in Members :
           current'[j] = IF j = i THEN Raised[j] - TotalWeight ELSE Raised[j]
    BY <1>4, <1>6, RaisedIs DEF TakeTotal
  <1>11. Sum(Raised, Members) = TotalWeight
    <2>1. PICK w, r : w = pool.weight /\ r = Raised OBVIOUS
    <2>2. \A j \in Members : r[j] = current[j] + w[j] BY <1>9, <2>1
    <2>3. Ints(w, Members) /\ Ints(current, Members) /\ IsFiniteSet(Members)
      BY <2>1, Numbers DEF Staffed
    <2>4. Sum(r, Members) = Sum(current, Members) + Sum(w, Members) BY <2>2, <2>3, SumPlus
    <2>5. Sum(current, Members) = 0 BY DEF Balanced
    <2>6. TotalWeight = Sum(pool.weight, Members) BY Numbers DEF Turning
    <2> QED BY <2>1, <2>4, <2>5, <2>6, Numbers
  <1>12. Raised[i] > 0 BY <1>2, <1>4, <1>9, <1>11, MaxIsPositive DEF Staffed
  <1>13. Sum(current', Members) = 0
    <2>1. /\ current'[i] = Raised[i] - TotalWeight /\ Raised[i] \in Int
          /\ \A j \in Members \ {i} : current'[j] = Raised[j]
      BY <1>4, <1>9, <1>10 DEF Ints
    <2>2. current'[i] \in Int BY <2>1, Numbers
    <2>3. PICK r, next : r = Raised /\ next = current' OBVIOUS
    <2>4. /\ Ints(r, Members) /\ IsFiniteSet(Members) /\ next[i] \in Int
          /\ \A j \in Members \ {i} : next[j] = r[j]
      BY <1>9, <2>1, <2>2, <2>3 DEF Staffed
    <2>5. Sum(next, Members) = Sum(r, Members) + (next[i] - r[i]) BY <1>4, <2>4, SumChange
    <2> QED BY <1>11, <2>1, <2>3, <2>5, Numbers
  <1>14. ASSUME NEW j \in Members
         PROVE  /\ current'[j] = (Given + 1) * pool.weight[j] - got'[j] * TotalWeight
                /\ current'[j] > -TotalWeight
    <2>1. /\ current[j] = Given * pool.weight[j] - got[j] * TotalWeight
          /\ current[j] > -TotalWeight
      BY DEF Balanced
    <2>2. /\ Given \in Int /\ pool.weight[j] \in Nat /\ got[j] \in Int /\ TotalWeight \in Int
          /\ current[j] \in Int
      BY Numbers DEF Ints
    <2>3. /\ (Given + 1) * pool.weight[j] = Given * pool.weight[j] + pool.weight[j]
          /\ (got[j] + 1) * TotalWeight = got[j] * TotalWeight + TotalWeight
          /\ Given * pool.weight[j] \in Int /\ got[j] * TotalWeight \in Int
      <3>1. PICK n \in Int, w \in Int, g \in Int, W \in Int :
              n = Given /\ w = pool.weight[j] /\ g = got[j] /\ W = TotalWeight
        BY <2>2
      <3>2. /\ (n + 1) * w = n * w + w /\ (g + 1) * W = g * W + W
            /\ n * w \in Int /\ g * W \in Int
        BY Step
      <3> QED BY <3>1, <3>2
    <2>4. CASE j = i
      <3>1. current'[j] = current[j] + pool.weight[j] - TotalWeight BY <1>9, <1>10, <2>2, <2>4
      <3>2. got'[j] = got[j] + 1 BY <1>8, <2>4
      <3>3. current'[j] > -TotalWeight BY <1>9, <1>12, <2>2, <2>4, <3>1
      <3> QED BY <2>1, <2>2, <2>3, <3>1, <3>2, <3>3
    <2>5. CASE j # i
      <3>1. current'[j] = current[j] + pool.weight[j] BY <1>9, <1>10, <2>5
      <3>2. got'[j] = got[j] BY <1>8, <2>5
      <3> QED BY <2>1, <2>2, <2>3, <3>1, <3>2
    <2> QED BY <2>4, <2>5
  <1> QED BY <1>7, <1>13, <1>14 DEF Balanced

LEMMA NotBelow == \A a, w \in Int : w > 0 /\ a * w > -w => a >= 0
  <1>1. SUFFICES ASSUME NEW a \in Int, NEW w \in Int, w > 0, a * w > -w, ~(a >= 0) PROVE FALSE
    OBVIOUS
  <1>2. PICK b \in Nat : a = -1 - b
    <2>1. -1 - a \in Nat /\ a = -1 - (-1 - a) BY <1>1
    <2> QED BY <2>1
  <1>3. (-1 - b) * w = -w - b * w /\ b * w >= 0 /\ b * w \in Int BY <1>1
  <1> QED BY <1>1, <1>2, <1>3

LEMMA Cycles == \A n, w, k, g, t \in Int :
                  n = k * t => n * w - g * t = (k * w - g) * t /\ k * w - g \in Int
  OBVIOUS

LEMMA BalancedIsFair ==
    ASSUME Staffed, TotalWeight > 0, Balanced, NEW i \in Members
    PROVE  /\ Given % TotalWeight = 0 => got[i] * TotalWeight = Given * pool.weight[i]
           /\ got[i] * TotalWeight - Given * pool.weight[i] < TotalWeight
           /\ Given * pool.weight[i] - got[i] * TotalWeight
                <= (Cardinality(Members) - 1) * (TotalWeight - 1)
  <1>1. /\ IsFiniteSet(Members) /\ Ints(current, Members) /\ TotalWeight \in Nat /\ Given \in Nat
        /\ \A j \in Members : current[j] \in Int /\ pool.weight[j] \in Int /\ got[j] \in Int
    BY Numbers DEF Staffed, Ints
  <1>2. \A j \in Members : /\ current[j] = Given * pool.weight[j] - got[j] * TotalWeight
                           /\ current[j] > -TotalWeight
    BY DEF Balanced
  <1>3. Sum(current, Members) = 0 BY DEF Balanced
  <1>4. Given * pool.weight[i] \in Int /\ got[i] * TotalWeight \in Int BY <1>1, Step
  <1>5. got[i] * TotalWeight - Given * pool.weight[i] < TotalWeight BY <1>1, <1>2, <1>4
  <1>6. ASSUME Given % TotalWeight = 0 PROVE got[i] * TotalWeight = Given * pool.weight[i]
    <2>1. PICK k : k = Given \div TotalWeight OBVIOUS
    <2>2. k \in Int /\ Given = k * TotalWeight BY <1>1, <1>6, <2>1
    <2>3. ASSUME NEW j \in Members PROVE current[j] >= 0
      <3>1. PICK a : a = k * pool.weight[j] - got[j] OBVIOUS
      <3>2. a \in Int /\ current[j] = a * TotalWeight BY <1>1, <1>2, <2>2, <3>1, Cycles
      <3>3. a >= 0 BY <1>1, <1>2, <3>2, NotBelow
      <3>4. a * TotalWeight >= 0 BY <1>1, <3>2, <3>3
      <3> QED BY <3>2, <3>4
    <2>4. current[i] <= Sum(current, Members) BY <1>1, <2>3, SumOfNats
    <2>5. current[i] = 0 BY <1>1, <1>3, <2>3, <2>4
    <2> QED BY <1>2, <1>4, <2>5
  <1>7. current[i] <= (Cardinality(Members) - 1) * (TotalWeight - 1)
    <2>1. PICK c \in Int : c = -1 OBVIOUS
    <2> DEFINE ahead == [j \in Members |-> c * current[j]]
               others == Members \ {i}
    <2>2. Ints(ahead, Members) /\ \A j \in others : ahead[j] = c * current[j]
      BY <1>1, <2>1 DEF Ints
    <2> HIDE DEF ahead
    <2>3. /\ IsFiniteSet(others) /\ Ints(ahead, others) /\ Ints(current, others)
          /\ Cardinality(others) = Cardinality(Members) - 1 /\ Cardinality(Members) \in Nat
      BY <1>1, <2>2, FS_Subset, FS_RemoveElement, FS_CardinalityType DEF Ints
    <2>4. \A j \in others : ahead[j] <= TotalWeight - 1 BY <1>1, <1>2, <2>1, <2>2
    <2>5. Sum(ahead, others) <= Cardinality(others) * (TotalWeight - 1)
      BY <1>1, <2>3, <2>4, SumAtMost
    <2>6. Sum(ahead, others) = c * Sum(current, others) BY <2>2, <2>3, SumTimes
    <2>7. Sum(current, Members) = Sum(current, others) + current[i] BY <1>1, SumRemove
    <2>8. Sum(current, others) \in Int BY <2>3, SumInt
    <2> HIDE DEF others
    <2>9. current[i] = Sum(ahead, others) BY <1>1, <1>3, <2>1, <2>6, <2>7, <2>8
    <2> QED BY <2>3, <2>5, <2>9
  <1> QED BY <1>2, <1>5, <1>6, <1>7

-----------------------------------------------------------------------------
(* Batch: largest remainder.                                               *)

\* Who takes part in the plan of a pool in which everyone online is eligible.
Shared == {i \in Online : pool.weight[i] > 0}

\* P shares n customers out over S.
Fair(P, n, S) ==
    /\ P \in [Members -> Nat] /\ Sum(P, Members) = n
    /\ \A i \in Members \ S : P[i] = 0
    /\ \A i \in S : P[i] * Sum(pool.weight, S) - n * pool.weight[i]
                      \in (1 - Sum(pool.weight, S))..(Sum(pool.weight, S) - 1)

\* computeQuotaPlan (QuotaPlans): whatever the weights, a plan gives out all n customers, and to
\* each of S its exact share rounded down or up, however equal fractions are ordered.
THEOREM QuotaIsFair ==
    ASSUME pool \in Pools(Members), IsFiniteSet(Members), NEW n \in Nat,
           NEW S \in SUBSET Members, S # {}, \A i \in S : pool.weight[i] > 0,
           NEW P \in QuotaPlans(n, S)
    PROVE  Fair(P, n, S)
  <1>1. PICK w, t : w = pool.weight /\ t = Sum(w, S) OBVIOUS
  <1> DEFINE floor == [i \in S |-> (n * w[i]) \div t]
             rest  == [i \in S |-> (n * w[i]) % t]
  <1>2. PICK more \in SUBSET S :
          /\ Cardinality(more) = n - Sum(floor, S)
          /\ \A i \in more, j \in S \ more : rest[i] >= rest[j]
          /\ P = [i \in Members |->
                    IF i \in S THEN floor[i] + (IF i \in more THEN 1 ELSE 0) ELSE 0]
    BY <1>1 DEF QuotaPlans
  <1>3. \A i \in S : w[i] \in Nat /\ w[i] > 0 BY <1>1 DEF Pools
  <1>4. SharesOut(P, n, w, S, t, floor, rest, more) BY <1>2, <1>3 DEF SharesOut
  <1>5. /\ \A i \in S : P[i] = floor[i] + (IF i \in more THEN 1 ELSE 0)
        /\ \A i \in Members \ S : P[i] = 0
        /\ P = [i \in Members |-> P[i]]
    BY <1>2
  <1> HIDE DEF floor, rest
  <1>6. IsFiniteSet(S) /\ Ints(w, S) BY <1>3, FS_Subset DEF Ints
  <1>7. t \in Nat /\ t > 0
    <2>1. PICK i \in S : TRUE OBVIOUS
    <2>2. w[i] <= Sum(w, S) /\ Sum(w, S) \in Int BY <1>3, <1>6, SumOfNats, SumInt
    <2> QED BY <1>1, <1>3, <2>1, <2>2
  <1>8. /\ Sum(P, S) = n
        /\ \A i \in S : P[i] \in Nat /\ P[i] * t - n * w[i] \in (1 - t)..(t - 1)
    BY <1>1, <1>4, <1>6, <1>7, LargestRemainder
  <1>9. P \in [Members -> Nat] BY <1>5, <1>8
  <1>10. Sum(P, Members) = n
    <2>1. Ints(P, Members) BY <1>9 DEF Ints
    <2>2. Sum(P, Members) = Sum(P, S) BY <1>5, <2>1, SumWithin
    <2> QED BY <1>8, <2>2
  <1> QED BY <1>1, <1>5, <1>8, <1>9, <1>10 DEF Fair

Sharing == Weighted /\ pool.mode = "batch" /\ Eligible = Online /\ Shared # {}

\* What is given and what is left of the plan is a plan that shares everything out.
Planned ==
    /\ got[Nobody] = 0
    /\ \E P : Fair(P, pool.count, Shared) /\ \A i \in Members : got[i] + plan[i] = P[i]

LEMMA WeightShared == ASSUME Staffed, Shared # {} PROVE TotalWeight > 0
  <1>1. PICK i \in Members : pool.weight[i] > 0 BY OnlineFinite DEF Shared
  <1> QED BY <1>1, Numbers

LEMMA AllGiven ==
    ASSUME Staffed
    PROVE  /\ Sum(got, DOMAIN got) = Given + got[Nobody]
           /\ Given \in Nat /\ got[Nobody] \in Nat
  <1>1. /\ got \in [Members \cup {Nobody} -> Nat] /\ IsFiniteSet(Members) /\ Nobody \notin Members
    BY DEF Staffed
  <1>2. PICK all : all = Members \cup {Nobody} OBVIOUS
  <1>3. /\ DOMAIN got = all /\ IsFiniteSet(all) /\ Ints(got, all) /\ Nobody \in all
        /\ all \ {Nobody} = Members
    BY <1>1, <1>2, FS_AddElement DEF Ints
  <1>4. Sum(got, all) = Sum(got, all \ {Nobody}) + got[Nobody] BY <1>3, SumRemove
  <1>5. got[Nobody] \in Nat BY <1>1
  <1> QED BY <1>3, <1>4, <1>5, Numbers DEF Given

LEMMA LeftOfPlan ==
    ASSUME Staffed, NEW P, Fair(P, pool.count, Shared),
           \A i \in Members : got[i] + plan[i] = P[i]
    PROVE  pool.count = Given + Sum(plan, Members) /\ Sum(plan, Members) \in Nat
  <1>1. IsFiniteSet(Members) /\ Ints(got, Members) /\ Ints(plan, Members) BY Numbers DEF Staffed
  <1>2. \A i \in Members : P[i] = got[i] + plan[i] BY DEF Fair
  <1>3. Sum(P, Members) = Sum(got, Members) + Sum(plan, Members) BY <1>1, <1>2, SumPlus
  <1>4. \A i \in Members : plan[i] >= 0 BY DEF Staffed
  <1>5. Sum(plan, Members) >= 0 /\ Sum(plan, Members) \in Int BY <1>1, <1>4, SumOfNats, SumInt
  <1> QED BY <1>3, <1>5 DEF Fair, Given

LEMMA PlannedStep ==
    ASSUME Staffed, Sharing, Planned, RoutingNext
    PROVE  Planned'
  <1>1. AssignBatch
    BY DEF Sharing, Weighted, RoutingNext, AssignSource, AssignRealtime, AssignHybrid
  <1>2. PICK P : Fair(P, pool.count, Shared) /\ \A i \in Members : got[i] + plan[i] = P[i]
    BY DEF Planned
  <1>3. TotalWeight # 0 BY WeightShared, Numbers DEF Sharing
  <1>4. Sum(got, DOMAIN got) < pool.count BY <1>1 DEF AssignBatch, Give
  <1>5. Sum(plan, Members) > 0
    <2>1. got[Nobody] = 0 BY DEF Planned
    <2> QED BY <1>2, <1>4, <2>1, AllGiven, LeftOfPlan
  <1>6. PICK k \in Members : plan[k] > 0
    <2> SUFFICES ASSUME \A i \in Members : ~(plan[i] > 0) PROVE FALSE
      OBVIOUS
    <2>1. \A i \in Members : plan[i] <= 0 BY DEF Staffed
    <2>2. Sum(plan, Members) <= Cardinality(Members) * 0
      <3>1. IsFiniteSet(Members) /\ Ints(plan, Members) BY Numbers DEF Staffed
      <3> QED BY <2>1, <3>1, SumAtMost
    <2>3. Cardinality(Members) * 0 = 0 BY FS_CardinalityType DEF Staffed
    <2>4. Sum(plan, Members) \in Int BY <1>2, LeftOfPlan
    <2> QED BY <1>5, <2>2, <2>3, <2>4
  <1>7. k \in Eligible
    <2>1. P[k] > 0 BY <1>2, <1>6 DEF Staffed
    <2>2. k \in Shared BY <1>2, <2>1 DEF Fair
    <2> QED BY <2>2 DEF Shared, Sharing
  <1>8. BatchPick # Nobody
    <2> DEFINE open == {i \in Eligible : plan[i] > 0}
    <2>1. k \in open /\ open \in SUBSET Members BY <1>6, <1>7, OnlineFinite
    <2>2. Least(open) \in open BY <2>1, FirstOf
    <2>3. BatchPick = Least(open) BY <2>1 DEF BatchPick
    <2> QED BY <2>1, <2>2, <2>3 DEF Staffed
  <1>9. PICK i : i = BatchPick OBVIOUS
  <1>10. i \in Members /\ plan[i] > 0 BY <1>8, <1>9, BatchIn, OnlineFinite
  <1>11. Give(i) /\ plan' = [plan EXCEPT ![i] = @ - 1] BY <1>1, <1>3, <1>8, <1>9 DEF AssignBatch
  <1>12. pool' = pool /\ Members' = Members /\ Online' = Online BY Shrinks
  <1>13. Shared' = Shared BY <1>12 DEF Shared
  <1>14. Fair(P, pool.count, Shared)' BY <1>2, <1>12, <1>13 DEF Fair
  <1>15. got'[Nobody] = 0
    <2>1. i # Nobody /\ got[Nobody] = 0 BY <1>10 DEF Staffed, Planned
    <2> QED BY <1>10, <1>11, <2>1, GiveIs
  <1>16. ASSUME NEW j \in Members PROVE got'[j] + plan'[j] = P[j]
    <2>1. got[j] + plan[j] = P[j] /\ got[j] \in Nat /\ plan[j] \in Nat BY <1>2 DEF Staffed
    <2>2. got'[j] = IF j = i THEN got[j] + 1 ELSE got[j] BY <1>10, <1>11, GiveIs
    <2>3. plan'[j] = IF j = i THEN plan[j] - 1 ELSE plan[j] BY <1>11 DEF Staffed
    <2> QED BY <2>1, <2>2, <2>3
  <1> QED BY <1>12, <1>14, <1>15, <1>16 DEF Planned

LEMMA PlannedIsFair == ASSUME Staffed, Sharing, Planned PROVE FairBatch
  <1>1. {i \in Eligible : pool.weight[i] > 0} = Shared BY DEF Shared, Sharing
  <1>2. SUFFICES ASSUME Sum(got, DOMAIN got) = pool.count
        PROVE  /\ got[Nobody] = 0
               /\ \A i \in Members \ Shared : got[i] = 0
               /\ \A i \in Shared :
                    got[i] * Sum(pool.weight, Shared) - pool.count * pool.weight[i]
                      \in (1 - Sum(pool.weight, Shared))..(Sum(pool.weight, Shared) - 1)
    BY <1>1 DEF FairBatch
  <1>3. PICK P : Fair(P, pool.count, Shared) /\ \A i \in Members : got[i] + plan[i] = P[i]
    BY DEF Planned
  <1>4. got[Nobody] = 0 BY DEF Planned
  <1>5. Sum(plan, Members) = 0 BY <1>2, <1>3, <1>4, AllGiven, LeftOfPlan
  <1>6. ASSUME NEW i \in Members PROVE got[i] = P[i]
    <2>1. \A j \in Members : plan[j] >= 0 BY DEF Staffed
    <2>2. plan[i] <= 0 BY <1>5, <2>1, Numbers, SumOfNats DEF Staffed
    <2>3. got[i] + plan[i] = P[i] /\ got[i] \in Nat /\ plan[i] \in Nat BY <1>3 DEF Staffed
    <2> QED BY <2>2, <2>3
  <1>7. Shared \subseteq Members BY OnlineFinite DEF Shared
  <1> QED BY <1>3, <1>4, <1>6, <1>7 DEF Fair

-----------------------------------------------------------------------------
(* The simulator: its counters, and how far everyone is from its share.    *)

\* The inductive invariant.
Distribution ==
    /\ Staffed /\ Counted
    /\ Turning => Balanced
    /\ Sharing => Planned

LEMMA FixtureIsPool ==
    ASSUME RoutingInit
    PROVE  /\ pool \in Pools(Members) /\ IsFiniteSet(Members) /\ Members \subseteq Nat
           /\ Nobody \notin Members
  <1>1. PICK f \in Fixtures, a \in {"100", "absent"} : pool = [f EXCEPT !.count = CountOf(a)]
    BY DEF RoutingInit
  <1>2. CountOf(a) \in Nat BY DEF CountOf
  <1>3. PICK M : M = DOMAIN f.weight OBVIOUS
  <1>4. f \in Pools(M) /\ IsFiniteSet(M) /\ M \subseteq Nat /\ Nobody \notin M
    BY <1>3, RoutingFixtures
  <1>5. pool \in Pools(M) /\ pool.weight = f.weight BY <1>1, <1>2, <1>4 DEF Pools
  <1> QED BY <1>3, <1>4, <1>5 DEF Members

LEMMA PlansAreFair ==
    ASSUME pool \in Pools(Members), IsFiniteSet(Members), NEW P \in Plans
    PROVE  /\ P \in [Members -> Nat]
           /\ Sharing => Fair(P, pool.count, Shared)
  <1> DEFINE S == {i \in Eligible : pool.weight[i] > 0}
  <1>1. S \subseteq Members /\ pool.count \in Nat BY DEF Eligible, Online, Pools
  <1>2. \A i \in S : pool.weight[i] > 0 OBVIOUS
  <1> DEFINE Planning == pool.strategy = "WEIGHTED_DISTRIBUTION" /\ pool.mode = "batch" /\ S # {}
  <1>3. Sharing => S = Shared /\ Planning BY DEF Sharing, Shared, Weighted
  <1>4. CASE ~Planning
    <2>1. P = [i \in Members |-> 0] BY <1>4 DEF Plans
    <2> QED BY <1>3, <1>4, <2>1
  <1>5. CASE Planning
    <2>1. P \in QuotaPlans(pool.count, S) BY <1>5 DEF Plans
    <2>2. S # {} BY <1>5
    <2> HIDE DEF S, Planning
    <2>3. Fair(P, pool.count, S) BY <1>1, <1>2, <2>1, <2>2, QuotaIsFair
    <2> QED BY <1>3, <2>3 DEF Fair
  <1> QED BY <1>4, <1>5

LEMMA DistributionInit == RoutingInit => Distribution
  <1> SUFFICES ASSUME RoutingInit PROVE Distribution
    OBVIOUS
  <1>1. /\ pool \in Pools(Members) /\ IsFiniteSet(Members) /\ Members \subseteq Nat
        /\ Nobody \notin Members
    BY FixtureIsPool
  <1>2. /\ plan \in [Members -> Nat]
        /\ Sharing => Fair(plan, pool.count, Shared)
    BY <1>1, PlansAreFair DEF RoutingInit
  <1>3. /\ got = [i \in Members \cup {Nobody} |-> 0] /\ current = [i \in Members |-> 0]
        /\ used = pool.used /\ done = pool.done
    BY DEF RoutingInit
  <1>4. pool.used \in [Members -> Nat] /\ pool.done \in [Members -> Nat] BY <1>1 DEF Pools
  <1>5. Staffed
    <2>1. got \in [Members \cup {Nobody} -> Nat] /\ current \in [Members -> Int] BY <1>3
    <2>2. used \in [Members -> Nat] /\ done \in [Members -> Nat] BY <1>3, <1>4
    <2>3. plan \in [Members -> Nat] BY <1>2
    <2> QED BY <1>1, <2>1, <2>2, <2>3 DEF Staffed
  <1>6. \A i \in Members : got[i] = 0 /\ current[i] = 0 BY <1>3
  <1>7. Counted BY <1>3, <1>4, <1>6 DEF Counted
  <1>8. Turning => Balanced
    <2>1. Given = 0
      <3>1. PICK c \in Int : c = 0 OBVIOUS
      <3>2. \A i \in Members : got[i] = c * got[i] BY <1>6, <3>1
      <3>3. Sum(got, Members) = c * Sum(got, Members) BY <1>1, <1>5, <3>2, Numbers, SumTimes
      <3> QED BY <1>5, <3>1, <3>3, Numbers DEF Given
    <2>2. Sum(current, Members) = 0
      <3>1. PICK c \in Int : c = 0 OBVIOUS
      <3>2. \A i \in Members : current[i] = c * current[i] BY <1>6, <3>1
      <3>3. Sum(current, Members) = c * Sum(current, Members)
        BY <1>1, <1>5, <3>2, Numbers, SumTimes
      <3>4. Sum(current, Members) \in Int BY <1>1, <1>5, Numbers, SumInt
      <3> QED BY <3>1, <3>3, <3>4
    <2>3. ASSUME TotalWeight > 0, NEW i \in Members
          PROVE  /\ current[i] = Given * pool.weight[i] - got[i] * TotalWeight
                 /\ current[i] > -TotalWeight
      <3>1. pool.weight[i] \in Nat /\ TotalWeight \in Nat BY <1>5, Numbers
      <3> QED BY <1>6, <2>1, <2>3, <3>1
    <2> QED BY <2>2, <2>3 DEF Turning, Balanced
  <1>9. Sharing => Planned
    <2>1. \A i \in Members : plan[i] \in Nat BY <1>2
    <2>2. \A i \in Members : got[i] + plan[i] = plan[i] BY <1>6, <2>1
    <2>3. got[Nobody] = 0 BY <1>3
    <2>4. PICK P : P = plan OBVIOUS
    <2> QED BY <1>2, <2>2, <2>3, <2>4 DEF Planned
  <1> QED BY <1>5, <1>7, <1>8, <1>9 DEF Distribution

LEMMA StaffedStep == ASSUME Staffed, RoutingNext PROVE Staffed'
  <1>1. PICK i \in Members \cup {Nobody} : Give(i) BY Takes
  <1>2. pool' = pool /\ Members' = Members BY Shrinks
  <1>3. /\ got' \in [Members \cup {Nobody} -> Nat] /\ used' \in [Members -> Nat]
        /\ done' \in [Members -> Nat]
    BY <1>1, GiveIs
  <1>4. current' \in [Members -> Int]
    <2>1. current' = current \/ \E k : current' = TakeTotal(Raised, k)
      BY DEF RoutingNext, AssignSource, AssignBatch, AssignRealtime, AssignHybrid
    <2>2. TotalWeight \in Int /\ Raised \in [Members -> Int] BY Numbers, RaisedIs
    <2>3. ASSUME NEW k PROVE TakeTotal(Raised, k) \in [Members -> Int]
      <3>1. PICK r \in [Members -> Int] : r = Raised BY <2>2
      <3>2. [r EXCEPT ![k] = r[k] - TotalWeight] \in [Members -> Int]
        <4>1. CASE k \in Members BY <2>2, <4>1
        <4>2. CASE k \notin Members BY <4>2
        <4> QED BY <4>1, <4>2
      <3> QED BY <3>1, <3>2 DEF TakeTotal
    <2>4. current \in [Members -> Int] BY DEF Staffed
    <2> QED BY <2>1, <2>3, <2>4
  <1>5. plan' \in [Members -> Nat]
    <2>1. plan' = plan \/ (BatchPick # Nobody /\ plan' = [plan EXCEPT ![BatchPick] = @ - 1])
      BY DEF RoutingNext, AssignSource, AssignBatch, AssignRealtime, AssignHybrid
    <2>2. plan \in [Members -> Nat] BY DEF Staffed
    <2>3. BatchPick # Nobody => BatchPick \in Members /\ plan[BatchPick] > 0
      BY BatchIn, OnlineFinite
    <2>4. PICK k : k = BatchPick OBVIOUS
    <2>5. CASE BatchPick # Nobody
      <3>1. k \in Members /\ plan[k] > 0 /\ plan[k] \in Nat BY <2>2, <2>3, <2>4, <2>5
      <3>2. [plan EXCEPT ![k] = @ - 1] \in [Members -> Nat] BY <2>2, <3>1
      <3> QED BY <2>1, <2>2, <2>4, <3>2
    <2> QED BY <2>1, <2>2, <2>5
  <1> QED BY <1>2, <1>3, <1>4, <1>5 DEF Staffed

LEMMA DistributionStep == ASSUME Distribution, RoutingNext PROVE Distribution'
  <1>1. Staffed /\ Counted BY DEF Distribution
  <1>2. Staffed' /\ Counted' BY <1>1, StaffedStep, CountedStep
  <1>3. /\ pool' = pool /\ Members' = Members /\ Online' = Online
        /\ TotalWeight' = TotalWeight /\ Eligible' \subseteq Eligible
        /\ Eligible \subseteq Online /\ Online \subseteq Members
    BY <1>1, Shrinks, OnlineFinite
  <1>4. Turning' => Turning BY <1>3 DEF Turning, Weighted
  <1>5. Turning' => Balanced' BY <1>1, <1>4, BalancedStep DEF Distribution
  <1>6. Sharing' => Sharing
    <2>1. Shared' = Shared BY <1>3 DEF Shared
    <2> QED BY <1>3, <2>1 DEF Sharing, Weighted
  <1>7. Sharing' => Planned' BY <1>1, <1>6, PlannedStep DEF Distribution
  <1> QED BY <1>2, <1>5, <1>7 DEF Distribution

LEMMA DistributionKept == ASSUME Distribution, UNCHANGED routingVars PROVE Distribution'
  <1>1. Members' = Members /\ Eligible' = Eligible /\ Online' = Online /\ pool' = pool
    BY DEF routingVars, Members, Eligible, Online, AtCapacity, QuotaExhausted
  <1>2. /\ Turning' = Turning /\ TotalWeight' = TotalWeight /\ Given' = Given
        /\ Sharing' = Sharing /\ Shared' = Shared
    BY <1>1 DEF routingVars, Turning, Sharing, Weighted, TotalWeight, Given, Shared
  <1>3. Staffed => Staffed' BY <1>1 DEF routingVars, Staffed
  <1>4. Counted => Counted' BY <1>1 DEF routingVars, Counted, Weighted
  <1>5. Balanced => Balanced' BY <1>1, <1>2 DEF routingVars, Balanced
  <1>6. \A P : Fair(P, pool.count, Shared) => Fair(P, pool.count, Shared)' BY <1>1, <1>2 DEF Fair
  <1>7. Planned => Planned' BY <1>1, <1>2, <1>6 DEF routingVars, Planned
  <1> QED BY <1>2, <1>3, <1>4, <1>5, <1>7 DEF Distribution

LEMMA DistributionIsFair == Distribution => RoutingInv
  <1> SUFFICES ASSUME Distribution PROVE RoutingInv
    OBVIOUS
  <1>1. Staffed /\ Counted /\ (Turning => Balanced) /\ (Sharing => Planned) BY DEF Distribution
  <1>2. WithinLimits
    <2>1. ASSUME NEW i \in Members
          PROVE  /\ got[i] > 0 => used[i] <= pool.room[i]
                 /\ got[i] > 0 /\ pool.cap[i] # 0 /\ pool.strategy = "WEIGHTED_DISTRIBUTION" =>
                      done[i] <= pool.cap[i]
                 /\ used[i] - pool.used[i] = got[i] /\ done[i] - pool.done[i] = got[i]
      <3>1. pool.used[i] \in Nat /\ pool.done[i] \in Nat /\ got[i] \in Nat
        BY <1>1, Fields DEF Staffed
      <3>2. used[i] = pool.used[i] + got[i] /\ done[i] = pool.done[i] + got[i]
        BY <1>1 DEF Counted
      <3>3. used[i] - pool.used[i] = got[i] /\ done[i] - pool.done[i] = got[i] BY <3>1, <3>2
      <3> QED BY <1>1, <3>3 DEF Counted, Weighted
    <2> QED BY <2>1 DEF WithinLimits
  <1>3. FairRealtime
    <2> SUFFICES ASSUME Turning, NEW i \in Members
        PROVE  /\ Given % TotalWeight = 0 => got[i] * TotalWeight = Given * pool.weight[i]
               /\ got[i] * TotalWeight - Given * pool.weight[i] < TotalWeight
               /\ Given * pool.weight[i] - got[i] * TotalWeight
                    <= (Cardinality(Members) - 1) * (TotalWeight - 1)
      BY DEF FairRealtime, Turning, Weighted
    <2> QED BY <1>1, BalancedIsFair DEF Turning
  <1>4. FairBatch
    <2>1. CASE Sharing BY <1>1, <2>1, PlannedIsFair
    <2>2. CASE ~Sharing
      <3>1. Eligible = Online => {i \in Eligible : pool.weight[i] > 0} = Shared BY DEF Shared
      <3> QED BY <2>2, <3>1 DEF FairBatch, Sharing, Weighted
    <2> QED BY <2>1, <2>2
  <1> QED BY <1>2, <1>3, <1>4 DEF RoutingInv

-----------------------------------------------------------------------------
(* Screen of the routing simulator.                                        *)

Choice == [pool : ScreenPools \cup {""}, count : {10, 100}, mode : {"batch", "realtime"},
           situation : Situations]
Simulated == [version : Nat \ {0}, of : Choice]

\* Whether an answer to x is one to the selectors, up to the number of customers.
ForTheSelectors(x) ==
    /\ x.of.pool = choice.pool /\ x.of.mode = choice.mode /\ x.of.situation = choice.situation

\* What is asked or shown is of no older version of the pools than the list, which comes first.
Editions ==
    /\ edition \in Nat \ {0} /\ choice \in Choice
    /\ menu.version \in Nat /\ menu.version <= edition
    /\ asked = Unset \/ asked \in Simulated
    /\ result = Unset \/ result \in Simulated
    /\ menu = Unset => choice.pool = "" /\ asked = Unset /\ result = Unset
    /\ asked # Unset => menu.version <= asked.version /\ asked.version <= edition
    /\ result # Unset => menu.version <= result.version

\* It answers the selectors unless they were moved.
OfTheSelectors ==
    /\ strayed \in BOOLEAN
    /\ asked = Unset \/ result = Unset
    /\ ~strayed /\ asked # Unset => ForTheSelectors(asked)
    /\ ~strayed /\ result # Unset => ForTheSelectors(result)

Simulator == Editions /\ OfTheSelectors

LEMMA CountChanged ==
    ASSUME NEW y \in Choice, NEW n
    PROVE  [y EXCEPT !.count = n]
             = [pool |-> y.pool, count |-> n, mode |-> y.mode, situation |-> y.situation]
  <1>1. PICK p, c, m, s : y = [pool |-> p, count |-> c, mode |-> m, situation |-> s]
    BY Zenon DEF Choice
  <1> QED BY <1>1

LEMMA SimulatorHolds == Simulator => ResultIsChosen
  <1> SUFFICES ASSUME Simulator, result # Unset
               PROVE  /\ asked = Unset /\ result.version >= menu.version
                      /\ ~strayed => result.of = [choice EXCEPT !.count = result.of.count]
    BY DEF ResultIsChosen
  <1>1. asked = Unset BY DEF Simulator, OfTheSelectors
  <1>2. result.version >= menu.version BY DEF Simulator, Editions, Simulated
  <1>3. ASSUME ~strayed PROVE result.of = [choice EXCEPT !.count = result.of.count]
    <2>1. result.of \in Choice /\ choice \in Choice BY DEF Simulator, Editions, Simulated
    <2>2. ForTheSelectors(result) BY <1>3 DEF Simulator, OfTheSelectors
    <2>3. PICK x : x = result.of OBVIOUS
    <2>4. x.pool = choice.pool /\ x.mode = choice.mode /\ x.situation = choice.situation
      BY <2>2, <2>3 DEF ForTheSelectors
    <2>5. PICK y \in Choice : y = choice BY <2>1
    <2>6. x = [pool |-> y.pool, count |-> x.count, mode |-> y.mode, situation |-> y.situation]
      BY <2>1, <2>3, <2>4, <2>5 DEF Choice
    <2> QED BY <2>3, <2>5, <2>6, CountChanged
  <1> QED BY <1>1, <1>2, <1>3

LEMMA InitSimulator == ScreenInit => Simulator
  <1> SUFFICES ASSUME ScreenInit PROVE Simulator
    OBVIOUS
  <1>1. /\ edition = 1 /\ menu = Unset /\ asked = Unset /\ result = Unset /\ strayed = FALSE
        /\ choice = [pool |-> "", count |-> 10, mode |-> "realtime", situation |-> "normal"]
    BY DEF ScreenInit
  <1>2. choice \in Choice /\ choice.pool = "" BY <1>1 DEF Choice, Situations
  <1>First. edition = 1 BY DEF ScreenInit
  <1>3. edition \in Nat \ {0} BY <1>First
  <1>4. menu.version = 0 BY <1>1 DEF Unset
  <1>5. menu.version \in Nat /\ menu.version <= edition BY <1>3, <1>4
  <1>6. asked = Unset /\ result = Unset BY <1>1
  <1>7. Editions BY <1>2, <1>3, <1>5, <1>6 DEF Editions
  <1>8. OfTheSelectors BY <1>1 DEF OfTheSelectors
  <1> QED BY <1>7, <1>8 DEF Simulator

\* A selector other than the number of customers.
LEMMA SelectorMoved ==
    ASSUME Simulator, NEW new \in Choice, Choose(new)
    PROVE  Simulator'
  <1>1. /\ menu # Unset /\ choice' = new /\ result' = Unset
        /\ strayed' = (strayed \/ asked # Unset)
        /\ UNCHANGED <<edition, menu, asked, trouble>>
    BY DEF Choose, Strays
  <1>2. Editions' BY <1>1 DEF Simulator, Editions
  <1>3. OfTheSelectors' BY <1>1 DEF Simulator, OfTheSelectors
  <1> QED BY <1>2, <1>3 DEF Simulator

LEMMA NextSimulator == Simulator /\ [ScreenNext]_screenVars => Simulator'
  <1> SUFFICES ASSUME Editions, OfTheSelectors, [ScreenNext]_screenVars
               PROVE  Editions' /\ OfTheSelectors'
    BY DEF Simulator
  <1>1. choice \in Choice /\ edition \in Nat \ {0} /\ FirstPool \in ScreenPools
    BY ScreenBounds DEF Editions
  <1>2. ASSUME ReceivePools PROVE Editions' /\ OfTheSelectors'
    <2>1. menu = Unset /\ UNCHANGED <<edition, asked, result, strayed>> BY <1>2 DEF ReceivePools
    <2>2. asked = Unset /\ result = Unset BY <2>1 DEF Editions
    <2>3. OfTheSelectors' BY <2>1, <2>2 DEF OfTheSelectors
    <2>4. CASE menu' = [version |-> edition] /\ choice' = [choice EXCEPT !.pool = FirstPool]
      <3>1. choice' \in Choice BY <1>1, <2>4 DEF Choice
      <3>2. menu'.version = edition /\ menu' # Unset BY <1>1, <2>4 DEF Unset
      <3>3. /\ edition' \in Nat \ {0} /\ menu'.version \in Nat /\ menu'.version <= edition'
            /\ asked' = Unset /\ result' = Unset
        BY <1>1, <2>1, <2>2, <3>2
      <3>4. Editions' BY <3>1, <3>2, <3>3 DEF Editions
      <3> QED BY <2>3, <3>4
    <2>5. CASE UNCHANGED <<menu, choice>>
      <3>1. Editions' BY <2>1, <2>5 DEF Editions
      <3> QED BY <2>3, <3>1
    <2> QED BY <1>2, <2>4, <2>5 DEF ReceivePools
  <1>3. ASSUME EditPools PROVE Editions' /\ OfTheSelectors'
    <2>1. edition' = edition + 1 /\ UNCHANGED <<menu, choice, asked, result, strayed>>
      BY <1>3 DEF EditPools
    <2>2. edition' \in Nat \ {0} /\ edition <= edition' BY <1>1, <2>1
    <2>3. menu.version \in Nat /\ menu.version <= edition'
      <3>1. menu.version \in Nat /\ menu.version <= edition BY DEF Editions
      <3> QED BY <1>1, <2>2, <3>1
    <2>4. asked # Unset => asked.version <= edition'
      <3>1. asked # Unset => asked.version \in Nat /\ asked.version <= edition
        BY DEF Editions, Simulated
      <3> QED BY <1>1, <2>2, <3>1
    <2>5. Editions' BY <2>1, <2>2, <2>3, <2>4 DEF Editions
    <2>6. OfTheSelectors' BY <2>1 DEF OfTheSelectors, ForTheSelectors
    <2> QED BY <2>5, <2>6
  <1>4. ASSUME PressSimulate PROVE Editions' /\ OfTheSelectors'
    <2>1. /\ choice.pool # "" /\ asked' = [version |-> edition, of |-> choice]
          /\ result' = Unset /\ strayed' = FALSE /\ UNCHANGED <<edition, menu, choice>>
      BY <1>4 DEF PressSimulate, ButtonOn, Simulation
    <2>2. asked' \in Simulated /\ asked'.version = edition /\ asked'.of = choice
      BY <1>1, <2>1 DEF Simulated
    <2>3. menu # Unset BY <2>1 DEF Editions
    <2>4. /\ menu.version <= asked'.version /\ asked'.version <= edition'
      <3>1. menu.version \in Nat /\ menu.version <= edition BY DEF Editions
      <3>2. asked'.version = edition /\ edition' = edition BY <2>1, <2>2
      <3> QED BY <1>1, <3>1, <3>2
    <2>5. Editions' BY <2>1, <2>2, <2>3, <2>4 DEF Editions
    <2>6. OfTheSelectors' BY <2>1, <2>2 DEF OfTheSelectors, ForTheSelectors
    <2> QED BY <2>5, <2>6
  <1>5. ASSUME ReceiveSimulation PROVE Editions' /\ OfTheSelectors'
    <2>1. asked # Unset /\ asked' = Unset /\ UNCHANGED <<edition, menu, choice, strayed>>
      BY <1>5 DEF ReceiveSimulation
    <2>2. asked \in Simulated /\ result = Unset /\ menu # Unset /\ menu.version \in Nat
      BY <2>1 DEF Editions, OfTheSelectors
    <2>3. CASE result' = result
      <3>1. Editions' BY <2>1, <2>2, <2>3 DEF Editions
      <3>2. OfTheSelectors' BY <2>1, <2>2, <2>3 DEF OfTheSelectors
      <3> QED BY <3>1, <3>2
    <2>4. ASSUME NEW v \in asked.version..edition, result' = [asked EXCEPT !.version = v]
          PROVE  Editions' /\ OfTheSelectors'
      <3>1. asked.version \in Nat \ {0} /\ asked.of \in Choice BY <2>2 DEF Simulated
      <3>2. menu.version <= asked.version BY <2>1 DEF Editions
      <3>3. v \in Nat \ {0} /\ menu.version <= v BY <1>1, <2>2, <2>4, <3>1, <3>2
      <3>4. result' \in Simulated BY <2>2, <2>4, <3>3 DEF Simulated
      <3>5. result'.version = v /\ result'.of = asked.of BY <2>2, <2>4 DEF Simulated
      <3>6. Editions' BY <2>1, <2>2, <3>3, <3>4, <3>5 DEF Editions
      <3>7. OfTheSelectors' BY <2>1, <3>5 DEF OfTheSelectors, ForTheSelectors
      <3> QED BY <3>6, <3>7
    <2> QED BY <1>5, <2>3, <2>4 DEF ReceiveSimulation
  <1>6. ASSUME NEW new \in Choice, Choose(new) PROVE Editions' /\ OfTheSelectors'
    BY <1>6, SelectorMoved DEF Simulator
  <1>7. ASSUME NEW p \in ScreenPools, ChoosePool(p) PROVE Editions' /\ OfTheSelectors'
    <2>1. [choice EXCEPT !.pool = p] \in Choice BY <1>1 DEF Choice
    <2> QED BY <1>6, <1>7, <2>1 DEF ChoosePool
  <1>8. ASSUME NEW m \in {"batch", "realtime"}, ChooseMode(m) PROVE Editions' /\ OfTheSelectors'
    <2>1. [choice EXCEPT !.mode = m] \in Choice BY <1>1 DEF Choice
    <2> QED BY <1>6, <1>8, <2>1 DEF ChooseMode
  <1>9. ASSUME NEW s \in Situations, ChooseSituation(s) PROVE Editions' /\ OfTheSelectors'
    <2>1. [choice EXCEPT !.situation = s] \in Choice BY <1>1 DEF Choice
    <2> QED BY <1>6, <1>9, <2>1 DEF ChooseSituation
  <1>10. ASSUME NEW n \in {10, 100}, ChooseCount(n) PROVE Editions' /\ OfTheSelectors'
    <2>1. /\ choice' = [choice EXCEPT !.count = n] /\ strayed' = (strayed \/ asked # Unset)
          /\ UNCHANGED <<edition, menu, asked, result, trouble>>
      BY <1>10 DEF ChooseCount, Strays
    <2>2. choice' \in Choice BY <1>1, <2>1 DEF Choice
    <2>3. choice'.pool = choice.pool /\ choice'.mode = choice.mode BY <1>1, <2>1 DEF Choice
    <2>4. choice'.situation = choice.situation BY <1>1, <2>1 DEF Choice
    <2>5. Editions' BY <2>1, <2>2, <2>3 DEF Editions
    <2>6. strayed' \in BOOLEAN BY <2>1
    <2>7. OfTheSelectors' BY <2>1, <2>3, <2>4, <2>6 DEF OfTheSelectors, ForTheSelectors
    <2> QED BY <2>5, <2>7
  <1>11. CASE UNCHANGED screenVars BY <1>11
    DEF screenVars, Editions, OfTheSelectors, ForTheSelectors
  <1> QED BY <1>2, <1>3, <1>4, <1>5, <1>7, <1>8, <1>9, <1>10, <1>11 DEF ScreenNext

LEMMA SimulatorKept == Simulator /\ UNCHANGED screenVars => Simulator'
  BY NextSimulator

\* SimulatorInv: for any pool, whatever its weights, limits and who is online, the customers are
\* shared out by weight and within everyone's limits; and however the selectors move while a
\* simulation is under way and the pools are written meanwhile, a result on the screen is one for
\* what they say, unless one of them was moved before it came, and of no older version than the
\* list.
THEOREM SharedOutAsAsked == SimulatorSpec => []SimulatorInv
  <1>1. RoutingInit /\ ScreenInit => Distribution /\ Simulator BY DistributionInit, InitSimulator
  <1>2. ASSUME Distribution, Simulator,
               [(RoutingNext /\ UNCHANGED screenVars) \/ (ScreenNext /\ UNCHANGED routingVars)]_
                  <<routingVars, screenVars>>
        PROVE  Distribution' /\ Simulator'
    <2>1. CASE RoutingNext /\ UNCHANGED screenVars BY <1>2, <2>1, DistributionStep, SimulatorKept
    <2>2. CASE ScreenNext /\ UNCHANGED routingVars BY <1>2, <2>2, DistributionKept, NextSimulator
    <2>3. CASE UNCHANGED <<routingVars, screenVars>>
      <3>1. UNCHANGED routingVars /\ UNCHANGED screenVars BY <2>3
      <3> QED BY <1>2, <3>1, DistributionKept, SimulatorKept
    <2> QED BY <1>2, <2>1, <2>2, <2>3
  <1>3. Distribution /\ Simulator => SimulatorInv
    BY DistributionIsFair, SimulatorHolds DEF SimulatorInv
  <1> QED BY <1>1, <1>2, <1>3, PTL DEF SimulatorSpec
=============================================================================

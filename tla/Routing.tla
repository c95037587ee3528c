------------------------------ MODULE Routing -------------------------------
(***************************************************************************)
(* The routing simulator of the context panel                              *)
(* (apps/context-panel/src/routing/simulator.ts): one behaviour is one     *)
(* simulation, one step is one customer.  Staff are numbered in the order  *)
(* of the pool, which is also the order of their actor ids.                *)
(*                                                                         *)
(* realtime is smooth weighted round-robin over whoever is eligible when a *)
(* customer comes; batch shares the customers out by largest remainder     *)
(* first and then fills the plan in order.                                 *)
(***************************************************************************)
EXTENDS Integers, FiniteSetsExt

CONSTANTS Fixtures,     \* pools: strategy, mode, count and, per member, weight, online, used,
                        \* room (maxCapacity), done, cap (periodCap, 0 for none), and the weight
                        \* of recipients that are not of the staff (strangers)
          Nobody

\* The pools of a staff M: weights and caps are whole numbers from 0.
Pools(M) ==
    [strategy : {"WEIGHTED_DISTRIBUTION", "SOURCE_ALLOCATION", "HYBRID"},
     mode : {"realtime", "batch"}, count : Nat, strangers : Nat,
     weight : [M -> Nat], online : [M -> BOOLEAN], used : [M -> Nat], room : [M -> Nat],
     done : [M -> Nat], cap : [M -> Nat]]

ASSUME RoutingFixtures ==
    \A f \in Fixtures : LET M == DOMAIN f.weight IN
      f \in Pools(M) /\ IsFiniteSet(M) /\ M \subseteq Nat /\ Nobody \notin M

VARIABLES pool,         \* the fixture of this simulation
          used, done,   \* currentCapacity and periodAssignments of the cloned states
          current,      \* currentWeights of the round-robin
          plan,         \* what is left of the batch plan
          got,          \* customers per member, and Nobody's: the fallback queue
          why           \* the reason the last of them had
routingVars == <<pool, used, done, current, plan, got, why>>

Members == DOMAIN pool.weight
Sum(f, S) == FoldSet(LAMBDA i, acc : acc + f[i], 0, S)
Least(S)  == CHOOSE i \in S : \A j \in S : i <= j

AtCapacity(i)     == used[i] >= pool.room[i]
QuotaExhausted(i) == pool.cap[i] # 0 /\ done[i] >= pool.cap[i]
Online            == {i \in Members : pool.online[i]}
Eligible          == {i \in Online : ~AtCapacity(i) /\ ~QuotaExhausted(i)}
TotalWeight       == Sum(pool.weight, Members) + pool.strangers

-----------------------------------------------------------------------------
\* Batch.

\* computeQuotaPlan: everyone of S the floor of the exact share, and one more for the largest
\* fractions.  They are compared in floating point, after the floors were subtracted: equal
\* fractions may come out in any order, and the actor id then does not break the tie.
QuotaPlans(n, S) ==
    LET total    == Sum(pool.weight, S)
        floor    == [i \in S |-> (n * pool.weight[i]) \div total]
        fraction == [i \in S |-> (n * pool.weight[i]) % total]
        more     == {T \in SUBSET S :
                        /\ Cardinality(T) = n - Sum(floor, S)
                        /\ \A i \in T, j \in S \ T : fraction[i] >= fraction[j]} IN
    {[i \in Members |-> IF i \in S THEN floor[i] + (IF i \in T THEN 1 ELSE 0) ELSE 0] : T \in more}

\* The plans a simulation may start with: only members with a weight are in them.
Plans ==
    LET S == {i \in Eligible : pool.weight[i] > 0} IN
    IF pool.strategy = "WEIGHTED_DISTRIBUTION" /\ pool.mode = "batch" /\ S # {}
    THEN QuotaPlans(pool.count, S) ELSE {[i \in Members |-> 0]}

\* batchPick: the first of the plan that may still have one.
BatchPick ==
    LET open == {i \in Eligible : plan[i] > 0} IN IF open = {} THEN Nobody ELSE Least(open)

-----------------------------------------------------------------------------
\* Realtime.

\* Mutant: the chosen member keeps its weight.
KeepsWeight(raised, i) == raised

\* What wrrPick takes from the member it chose: the weight of the whole pool.
TakeTotal(raised, i) == [raised EXCEPT ![i] = @ - TotalWeight]

\* wrrPick adds everyone's weight, also when the weight is 0, and takes the first largest.
Raised == [i \in Members |-> current[i] + (IF i \in Eligible THEN pool.weight[i] ELSE 0)]
WrrPick ==
    IF Eligible = {} THEN Nobody
    ELSE Least({i \in Eligible : \A j \in Eligible : Raised[i] >= Raised[j]})

-----------------------------------------------------------------------------
\* classifyFallback.
Reason ==
    IF pool.strategy = "SOURCE_ALLOCATION" THEN "ALL_STAFF_OFFLINE"
    ELSE IF TotalWeight = 0 THEN "WEIGHT_ZERO"
    ELSE IF Online = {} THEN "ALL_STAFF_OFFLINE"
    ELSE IF \A i \in Online : AtCapacity(i) THEN "ALL_STAFF_AT_CAPACITY"
    ELSE IF \A i \in Online : QuotaExhausted(i) THEN "ALL_STAFF_QUOTA_EXHAUSTED"
    ELSE "NO_ELIGIBLE_WEIGHT"

\* What the route asks the simulator for: a hundred customers, or ten.
CountOf(asked) == IF asked = "100" THEN 100 ELSE 10

RoutingInit ==
    /\ \E f \in Fixtures, asked \in {"100", "absent"} : pool = [f EXCEPT !.count = CountOf(asked)]
    /\ used = pool.used /\ done = pool.done
    /\ current = [i \in Members |-> 0]
    /\ plan \in Plans
    /\ got = [i \in Members \cup {Nobody} |-> 0]
    /\ why = "none"

\* A customer goes to i, or to the fallback queue.
Give(i) ==
    /\ Sum(got, DOMAIN got) < pool.count
    /\ got' = [got EXCEPT ![i] = @ + 1]
    /\ IF i = Nobody THEN why' = Reason /\ UNCHANGED <<used, done>>
       ELSE /\ used' = [used EXCEPT ![i] = @ + 1]
            /\ done' = [done EXCEPT ![i] = @ + 1]
            /\ UNCHANGED why
    /\ UNCHANGED pool

\* assignOneCustomer, by strategy and mode.  A source allocation asks for room, not for the
\* quota, and does not look at the fixed owner.
AssignSource ==
    LET free == {i \in Online : ~AtCapacity(i)} IN
    /\ pool.strategy = "SOURCE_ALLOCATION"
    /\ Give(IF free = {} THEN Nobody ELSE Least(free))
    /\ UNCHANGED <<current, plan>>

AssignBatch ==
    /\ pool.strategy = "WEIGHTED_DISTRIBUTION" /\ pool.mode = "batch"
    /\ Give(IF TotalWeight = 0 THEN Nobody ELSE BatchPick)
    /\ plan' = IF TotalWeight = 0 \/ BatchPick = Nobody THEN plan
               ELSE [plan EXCEPT ![BatchPick] = @ - 1]
    /\ UNCHANGED current

AssignRealtime ==
    /\ pool.strategy = "WEIGHTED_DISTRIBUTION" /\ pool.mode = "realtime"
    /\ Give(IF TotalWeight = 0 THEN Nobody ELSE WrrPick)
    /\ current' = IF TotalWeight = 0 \/ WrrPick = Nobody THEN current
                  ELSE TakeTotal(Raised, WrrPick)
    /\ UNCHANGED plan

\* There is neither a plan nor a round-robin for a pool that is both.
AssignHybrid ==
    /\ pool.strategy = "HYBRID" /\ Give(Nobody)
    /\ UNCHANGED <<current, plan>>

\* simulateDistribution: one customer after the other.
RoutingNext == AssignSource \/ AssignBatch \/ AssignRealtime \/ AssignHybrid

-----------------------------------------------------------------------------
Given == Sum(got, Members)
Limited(i) == AtCapacity(i) \/ QuotaExhausted(i)

\* Nobody gets more than fits, whatever was taken before (a weighted pool keeps the quota
\* too), and the summary counts what was assigned.
WithinLimits ==
    \A i \in Members :
      /\ got[i] > 0 => used[i] <= pool.room[i]
      /\ got[i] > 0 /\ pool.cap[i] # 0 /\ pool.strategy = "WEIGHTED_DISTRIBUTION" =>
           done[i] <= pool.cap[i]
      /\ used[i] - pool.used[i] = got[i] /\ done[i] - pool.done[i] = got[i]

\* As long as all recipients are eligible, round-robin gives each exactly its weight in every
\* full cycle.  In between nobody is a whole customer ahead of its share, and so nobody is
\* behind by as many as there are others.  (Behind by more than one happens: to the last 56 of
\* the weights 1, 1, 3, 56, 56.)
FairRealtime ==
    pool.strategy = "WEIGHTED_DISTRIBUTION" /\ pool.mode = "realtime" /\ Eligible = Members
      /\ pool.strangers = 0 /\ TotalWeight > 0 =>
        \A i \in Members :
          /\ Given % TotalWeight = 0 => got[i] * TotalWeight = Given * pool.weight[i]
          /\ got[i] * TotalWeight - Given * pool.weight[i] < TotalWeight
          /\ Given * pool.weight[i] - got[i] * TotalWeight
               <= (Cardinality(Members) - 1) * (TotalWeight - 1)

\* A batch whose members all keep some room is shared out completely, and everyone gets the
\* exact share rounded down or up.
FairBatch ==
    LET S == {i \in Eligible : pool.weight[i] > 0} IN
    pool.strategy = "WEIGHTED_DISTRIBUTION" /\ pool.mode = "batch" /\ Eligible = Online
      /\ S # {} /\ Sum(got, DOMAIN got) = pool.count =>
        /\ got[Nobody] = 0
        /\ \A i \in Members \ S : got[i] = 0
        /\ \A i \in S : got[i] * Sum(pool.weight, S) - pool.count * pool.weight[i]
                          \in (1 - Sum(pool.weight, S))..(Sum(pool.weight, S) - 1)

\* The simulator of the panel shares customers out by weight and within everyone's limits.
RoutingInv == WithinLimits /\ FairRealtime /\ FairBatch
=============================================================================

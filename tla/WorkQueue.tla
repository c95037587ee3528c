----------------------------- MODULE WorkQueue ------------------------------
(***************************************************************************)
(* What the receipt queue promises to those who put work into it, without  *)
(* tokens, clocks, processes or transactions: an item is ready, or held by *)
(* one holder at a time, until it is done or dead.  Only a held item gets  *)
(* a result, a done item stays done, and a dead one leaves only when it is *)
(* revived.  A holder may lose any item it holds, but only back to ready.  *)
(***************************************************************************)
CONSTANTS Items, Holders, Nobody

VARIABLES stage, holder

Stages == {"absent", "ready", "held", "done", "dead"}

Init == /\ stage = [i \in Items |-> "absent"]
        /\ holder = [i \in Items |-> Nobody]

Submit(i) == /\ stage[i] = "absent"
             /\ stage' = [stage EXCEPT ![i] = "ready"]
             /\ UNCHANGED holder

Take(i, h) == /\ stage[i] = "ready"
              /\ stage' = [stage EXCEPT ![i] = "held"]
              /\ holder' = [holder EXCEPT ![i] = h]

Results == {"ready", "done", "dead"}

Finish(i, result) == /\ stage[i] = "held"
                     /\ stage' = [stage EXCEPT ![i] = result]
                     /\ holder' = [holder EXCEPT ![i] = Nobody]

Revoke(S) == /\ \A i \in S : stage[i] = "held"
             /\ stage' = [i \in Items |-> IF i \in S THEN "ready" ELSE stage[i]]
             /\ holder' = [i \in Items |-> IF i \in S THEN Nobody ELSE holder[i]]

Revive(i) == /\ stage[i] = "dead"
             /\ stage' = [stage EXCEPT ![i] = "ready"]
             /\ UNCHANGED holder

\* Not a step of this queue: what a user sees of a write that comes too late.
Overwrite(i, result) == /\ stage' = [stage EXCEPT ![i] = result]
                        /\ holder' = [holder EXCEPT ![i] = Nobody]

Next == \/ \E i \in Items : \/ Submit(i)
                            \/ \E h \in Holders : Take(i, h)
                            \/ \E result \in Results : Finish(i, result)
                            \/ Revive(i)
        \/ \E S \in SUBSET Items : Revoke(S)

Spec == Init /\ [][Next]_<<stage, holder>>
=============================================================================

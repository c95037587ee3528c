---------------------------- MODULE DeliveryCase ----------------------------
(***************************************************************************)
(* What the outbox promises of one intent, without leases, dispatchers or  *)
(* transactions: it moves until it is settled, and what is settled stays   *)
(* settled.  A case may be opened once, while the intent still moves; it   *)
(* holds the intent back (an acknowledgement lets it move again) until it  *)
(* is decided, once, for settling it or for another try.                   *)
(***************************************************************************)
CONSTANT Intents

VARIABLES phase, case

Init == /\ phase = [i \in Intents |-> "absent"]
        /\ case = [i \in Intents |-> "none"]

Step(i, from, to) == /\ phase[i] = from
                     /\ phase' = [phase EXCEPT ![i] = to]

Submit(i) == Step(i, "absent", "moving") /\ UNCHANGED case
Settle(i) == Step(i, "moving", "settled") /\ UNCHANGED case

Open(i) == /\ case[i] = "none"
           /\ Step(i, "moving", "held")
           /\ case' = [case EXCEPT ![i] = "open"]

Acknowledge(i) == Step(i, "held", "moving") /\ UNCHANGED case

Decide(i) == /\ case[i] = "open"
             /\ \E to \in {"moving", "settled"} : phase' = [phase EXCEPT ![i] = to]
             /\ case' = [case EXCEPT ![i] = "closed"]

\* Not a step of this protocol: what is seen of a write that comes too late.
Overwrite(i) ==
    /\ \E to \in {phase[i], "moving", "held", "settled"} :
          phase' = [phase EXCEPT ![i] = to]
    /\ \E to \in {case[i], "open", "closed"} : case' = [case EXCEPT ![i] = to]

Next == \E i \in Intents : \/ Submit(i) \/ Settle(i) \/ Open(i)
                           \/ Acknowledge(i) \/ Decide(i)

Spec == Init /\ [][Next]_<<phase, case>>
=============================================================================

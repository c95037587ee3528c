------------------------------ MODULE MCIntake ------------------------------
(* Model values for TLC: one draft without a target and one for p1. *)
EXTENDS Intake
CONSTANTS r1, r2, p1, p2
MCRuns     == {r1, r2}
MCProfiles == {p1, p2}
MCDrafts   == {[fields |-> 1, cid |-> NoProfile, ver |-> 0],
               [fields |-> 1, cid |-> p1, ver |-> 1]}
=============================================================================

---------------------------- MODULE MCRecovery ------------------------------
(* Model values for TLC: one item of each kind, a timer and a request. *)
EXTENDS Recovery
CONSTANTS r1, i1, w1, s1, s2
MCReceipts == {r1}
MCIntents  == {i1}
MCWorkers  == {w1}
MCTimers   == {s1}
MCRequests == {s2}
=============================================================================

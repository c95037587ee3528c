-------------------------- MODULE MCOutboxIntents ---------------------------
(***************************************************************************)
(* Values for the constants of OutboxIntents.  The dispatchers share two   *)
(* tokens: a row that is not leased any more may keep one, so a claim may  *)
(* have to wait until the other dispatcher is done with its own.           *)
(***************************************************************************)
EXTENDS OutboxIntents, TLC

CONSTANTS i1, i2, d1, d2, q1, q2, t1, t2, t3

Symmetry == Permutations(Tokens) \cup Permutations(Requests) \cup Permutations(Dispatchers)
=============================================================================

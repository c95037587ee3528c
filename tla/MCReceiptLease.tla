--------------------------- MODULE MCReceiptLease ---------------------------
(***************************************************************************)
(* Values for the constants of ReceiptLease: one receipt and two worker    *)
(* processes.  At most one other process holds a token when a claim needs  *)
(* a new one, so Receipts + Workers - 1 tokens are as good as any number.  *)
(***************************************************************************)
EXTENDS ReceiptLease, TLC

CONSTANTS w1, w2, r1, r2, a1, a2, t1, t2, t3, o1, o2

\* Every process has its own workerId ...
OwnIds == w1 :> o1 @@ w2 :> o2
\* ... or two containers run as pid 1: worker-${organizationId}-1 for both.
SameIds == w1 :> o1 @@ w2 :> o1

TokenSymmetry == Permutations(Tokens)
=============================================================================

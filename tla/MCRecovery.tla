----------------------------- MODULE MCRecovery -----------------------------
(* Model-checking instances of backup and restore. *)
EXTENDS Recovery

CONSTANTS a, b, d, op1

MCCap == {a, b, d}
MCPair == {a, b}
MCReceipt == {[op |-> op1, target |-> NoRes]}
Symmetry == Permutations(Cap)
=============================================================================

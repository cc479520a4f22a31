------------------------------ MODULE MCLedger ------------------------------
(* Model-checking instance of the open ledger and of its replay. *)
EXTENDS LedgerReplay, TLC

CONSTANTS a, b, op1

MCCap == {a, b}
MCReceipt == {[op |-> op1, target |-> NoRes]}
Symmetry == Permutations(Cap)
============================================================================

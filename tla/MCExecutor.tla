----------------------------- MODULE MCExecutor -----------------------------
(* Model-checking instances of the verbs over one ledger and one provider. *)
EXTENDS Executor, TLC

CONSTANTS c1, c2, w1, w2, f1, f2

NoFeeds == {}
AFeedsB == {<<c1, c2>>}

Symmetry == Permutations(Worker) \cup Permutations(Foreign)
=============================================================================

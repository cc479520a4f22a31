------------------------------- MODULE MCFiles -------------------------------
(* Instances of Files for TLC: which process runs which verb.              *)
EXTENDS Files, TLC

CONSTANTS c1, c2, p1, p2, p3

\* Two processes that write and compact, one that reads and repairs.
TwoWriters ==
    [p \in {p1, p2, p3} |-> IF p = p3 THEN {"read", "repair"}
                            ELSE {"append", "rotate"}]

\* One process that writes and compacts beside one reader.
OneReader ==
    [p \in {p1, p2} |-> IF p = p1 THEN {"append", "rotate"} ELSE {"read"}]

WriterSymmetry ==
    {ps @@ cs : ps \in Permutations({p1, p2}), cs \in Permutations({c1, c2})}
==============================================================================

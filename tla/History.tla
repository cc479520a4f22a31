------------------------------- MODULE History -------------------------------
(***************************************************************************)
(* What the ledger file promises, whatever files it is kept in: one        *)
(* history that only grows, in which every line extends the head of its    *)
(* capability, and from which a writer is told "appended" only of a line   *)
(* that is there (state-model.md, the linearizable append).                *)
(***************************************************************************)
EXTENDS Naturals, Sequences, FiniteSetsExt

CONSTANT Caps

VARIABLES
    hist,       \* the committed lines, oldest first
    acked       \* the lines some writer was told were appended

\* The head of a capability: the last line about it.
HeadOf(s, c) ==
    LET own == {i \in DOMAIN s : s[i].cap = c} IN
    IF own = {} THEN 0 ELSE s[Max(own)].id

Init ==
    /\ hist = <<>>
    /\ acked = {}

\* A line is committed: it is new and pins the head it extends.
Commit ==
    /\ Len(hist') = Len(hist) + 1
    /\ SubSeq(hist', 1, Len(hist)) = hist
    /\ LET line == hist'[Len(hist')] IN
           /\ line.cap \in Caps
           /\ line.prev = HeadOf(hist, line.cap)
           /\ \A i \in DOMAIN hist : hist[i].id # line.id
    /\ UNCHANGED acked

\* A writer is told of a line that is in the history.
Acknowledge ==
    /\ \E i \in DOMAIN hist : acked' = acked \cup {hist[i].id}
    /\ UNCHANGED hist

Next == Commit \/ Acknowledge

Spec == Init /\ [][Next]_<<hist, acked>>
==============================================================================

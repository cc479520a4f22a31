----------------------------- MODULE FilesProofs ------------------------------
(***************************************************************************)
(* Theorems about the files of a ledger: types and locks, that nothing is  *)
(* deleted, that the anchor is honest, that the files implement the        *)
(* growing history of module History, and that a reader without the lock   *)
(* accepts of each capability a state its history had.                     *)
(*                                                                         *)
(* The argument: whoever changes the ledger, its snapshot or an archive    *)
(* holds the lock of the file the path leads to, so the others can go on   *)
(* relying on what they know.  That is plain for append and Rotate, which  *)
(* compare descriptor and path under the lock; Quarantine does not, and    *)
(* is saved by the fingerprint it was given.  A reader is kept from mixing *)
(* two states of a capability by the heads its lines pin.                  *)
(***************************************************************************)
EXTENDS Files, SequenceTheorems, WellFoundedInduction, TLAPS

Pcs == LockedPcs \cup {"idle", "open", "lock", "reopen", "accepted"}

FileRecs == [lines : Seq(Line), torn : BOOLEAN]

InodeRecs == [lines : Seq(Line), torn : BOOLEAN, lock : Procs \cup {None}]

ProcRecs ==
    [pc : Pcs, verb : AllVerbs \cup {"none"}, fd : Nat, tries : Nat,
     base : Seq(Line), file : FileRecs,
     seen : {None} \cup BOOLEAN \cup Nat \cup FileRecs]

------------------------------------------------------------------------------
(* The files.                                                              *)

\* What the path leads to.
Current == Bytes(ledger)

DiskTyped ==
    /\ inodes \in Seq(InodeRecs)
    /\ ledger \in 0..Len(inodes)
    /\ snapshot \in Seq(Line)
    /\ copies \subseteq 1..MaxLines
    /\ \A a \in archive : a.base \in 1..MaxLines /\ a.ino \in DOMAIN inodes
    /\ \A q \in aside : q.ino \in DOMAIN inodes
    /\ acked \subseteq 1..written
    /\ written \in 0..MaxLines /\ crashes \in 0..MaxCrashes

\* The ledger is a file that an interrupted rotation already folded.
Folded ==
    LET lines == Current.lines IN
    /\ ~Current.torn /\ lines # <<>>
    /\ \A k \in DOMAIN lines : lines[k] \in ToSet(snapshot)
    /\ lines[1].prev # HeadOf(snapshot, lines[1].cap)

Attached == Continues(snapshot, Current.lines) \/ Folded

\* Lines are numbered in the order they were written, without a gap for the
\* ones that were torn.
Rising(s) == \A i, j \in 1..Len(s) : i < j => s[i].id < s[j].id

Numbered ==
    /\ Rising(Committed)
    /\ \A i \in 1..Len(Committed) : Committed[i].id <= written
    /\ Len(Committed) <= written

\* Every line of the snapshot still stands in a file.
SnapshotHeld ==
    \A k \in 1..Len(snapshot) :
        \E i \in Held \ {0} : \E j \in 1..Len(inodes[i].lines) :
            inodes[i].lines[j] = snapshot[k]

AnchorPins ==
    anchor # None =>
        /\ anchor.pins \in Seq(Line) /\ anchor.fold \in Seq(Line)
        /\ IsPrefix(anchor.pins, snapshot) /\ IsPrefix(anchor.fold, snapshot)

DiskInv == DiskTyped /\ Attached /\ Numbered /\ SnapshotHeld /\ AnchorPins

------------------------------------------------------------------------------
(* The processes.                                                          *)

WriterPcs == {"open", "lock", "check", "snapshot", "tail", "write", "sync",
              "gate", "copy", "activate", "move", "create", "anchor"}
RepairPcs == {"diagnose", "judge", "reopen", "lock", "stage", "link", "swap"}
OwnerPcs  == {"snapshot", "tail", "write", "sync", "gate", "copy", "activate",
              "move"}

Writes(s) == s.verb \in {"append", "rotate"}

Shape(s) ==
    /\ s.pc = "idle" => s = Idle
    /\ s.verb = "none" => s.pc = "idle"
    /\ s.verb = "read" => s.pc \in {"snapshot", "tail", "accepted"} /\ s.fd = 0
    /\ Writes(s) => s.pc \in WriterPcs /\ (s.fd = 0 <=> s.pc = "open")
    /\ s.verb = "repair" =>
           /\ s.pc \in RepairPcs
           /\ s.pc = "reopen" => s.fd = 0
           /\ s.pc \in {"lock", "stage", "link", "swap"} => s.fd # 0

\* A process holds the lock of its descriptor, in the locked section only.
Locks(p) ==
    LET s == proc[p] IN
    /\ \A i \in 1..Len(inodes) :
           inodes[i].lock = p => s.fd = i /\ s.pc \in LockedPcs
    /\ s.fd # 0 => s.fd \in 1..Len(inodes)
    /\ s.fd # 0 /\ s.pc \in LockedPcs => inodes[s.fd].lock = p

\* An append or a rotation past the check of its descriptor works on the
\* ledger, and what it has read of it is still so.
WriterKnows(p) ==
    LET s == proc[p] IN
    /\ s.pc \in OwnerPcs => s.fd = ledger
    /\ s.pc = "tail" => s.base = snapshot
    /\ s.pc \in {"write", "gate", "copy", "activate"} =>
           /\ s.base = snapshot /\ s.file = Current /\ ~s.file.torn
           /\ Continues(s.base, s.file.lines)
    /\ s.pc \in {"copy", "activate", "move"} =>
           s.file.lines # <<>> /\ \A a \in archive : a.base # Len(View(p))
    /\ s.pc = "move" =>
           /\ snapshot = View(p) /\ s.file = Current /\ ~s.file.torn
           /\ ~Continues(snapshot, s.file.lines)
    /\ s.pc \in {"create", "anchor"} => IsPrefix(View(p), snapshot)
    /\ s.pc = "sync" =>
           /\ Continues(snapshot, Current.lines) /\ Current.lines # <<>>
           /\ Current.lines[Len(Current.lines)].id = s.seen

Aside(file) == \E q \in aside : q.of = file

\* What a first diagnosis read is in the ledger still, or it went the way of
\* a rotation or of a quarantine.
Diagnosed(file) ==
    IF file.torn THEN Aside(file) \/ Current = file
    ELSE \/ file.lines = <<>> \/ IsPrefix(file.lines, Current.lines)
         \/ file.lines[1] \in ToSet(snapshot)

\* A file found damaged is no more the ledger once it was quarantined; and if
\* it is, the descriptor opened since leads to it.
Damaged(file, fd) ==
    /\ file \in FileRecs
    /\ IF file.torn
       THEN Aside(file) \/ (Current = file /\ (fd # 0 => fd = ledger))
       ELSE /\ file.lines # <<>> /\ file.lines[1] \in ToSet(snapshot)
            /\ fd # 0 /\ Current.lines # <<>> /\ Current.lines[1] = file.lines[1]
                  => fd = ledger

\* What a quarantine leaves in the place of the ledger.
Remains == IF Continues(snapshot, Current.lines) THEN Current.lines ELSE <<>>

RepairKnows(p) ==
    LET s   == proc[p]
        own == s.fd = ledger /\ Current = s.seen IN
    /\ s.pc = "judge" /\ s.fd = 0 => Diagnosed(s.file)
    /\ s.pc \in {"reopen", "lock"} => Damaged(s.seen, s.fd)
    /\ s.pc \in {"diagnose", "judge"} /\ s.fd # 0 => Damaged(s.seen, s.fd)
    /\ s.pc = "judge" /\ s.fd # 0 /\ s.file = s.seen => Aside(s.seen) \/ own
    /\ s.pc \in {"stage", "link"} => Aside(s.seen) \/ (own /\ s.base = snapshot)
    /\ s.pc = "stage" => s.file = s.seen
    /\ s.pc = "link" => Aside(s.seen) \/ s.file.lines = Remains
    /\ s.pc = "swap" => /\ own /\ s.file.lines = Remains
                        /\ \E q \in aside : q.of = s.seen /\ q.ino = ledger

ProcInv(p) ==
    /\ Shape(proc[p])
    /\ Locks(p)
    /\ Writes(proc[p]) => WriterKnows(p)
    /\ proc[p].verb = "repair" => RepairKnows(p)

FilesInv ==
    /\ DiskInv
    /\ proc \in [Procs -> ProcRecs]
    /\ \A p \in Procs : ProcInv(p)

------------------------------------------------------------------------------
(* Sequences of lines.                                                     *)

LEMMA PrefixPoints ==
  ASSUME NEW S, NEW s \in Seq(S), NEW t \in Seq(S)
  PROVE  IsPrefix(s, t) <=> Len(s) <= Len(t) /\ \A i \in 1..Len(s) : s[i] = t[i]
<1>1. Len(s) \in Nat /\ Len(t) \in Nat /\ SubSeq(s, 1, Len(s)) = s
  BY LenProperties, SubSeqFull
<1>2. ASSUME Len(s) <= Len(t)
      PROVE  /\ SubSeq(t, 1, Len(s)) \in Seq(S)
             /\ Len(SubSeq(t, 1, Len(s))) = Len(s)
             /\ \A i \in 1..Len(s) : SubSeq(t, 1, Len(s))[i] = t[i]
  <2>1. \A i \in 1..Len(s) : t[i] \in S
    BY <1>1, <1>2, ElementOfSeq
  <2> QED BY <1>1, <2>1, SubSeqProperties
<1>3. ASSUME Len(s) <= Len(t), \A i \in 1..Len(s) : s[i] = t[i]
      PROVE  s = SubSeq(t, 1, Len(s))
  BY <1>2, <1>3, SeqEqual
<1> QED BY <1>1, <1>2, <1>3 DEF IsPrefix

LEMMA PrefixTransitive ==
  ASSUME NEW S, NEW s \in Seq(S), NEW t \in Seq(S), NEW u \in Seq(S),
         IsPrefix(s, t), IsPrefix(t, u)
  PROVE  IsPrefix(s, u)
<1>1. Len(s) \in Nat /\ Len(t) \in Nat /\ Len(u) \in Nat
  BY LenProperties
<1>2. Len(s) <= Len(t) /\ \A i \in 1..Len(s) : s[i] = t[i]
  BY PrefixPoints
<1>3. Len(t) <= Len(u) /\ \A i \in 1..Len(t) : t[i] = u[i]
  BY PrefixPoints
<1>4. Len(s) <= Len(u) /\ \A i \in 1..Len(s) : s[i] = u[i]
  BY <1>1, <1>2, <1>3
<1> QED BY <1>4, PrefixPoints

LEMMA PrefixReflexive ==
  ASSUME NEW S, NEW s \in Seq(S)
  PROVE  IsPrefix(s, s)
  BY LenProperties DEF IsPrefix

LEMMA PrefixConcat ==
  ASSUME NEW S, NEW s \in Seq(S), NEW t \in Seq(S)
  PROVE  IsPrefix(s, s \o t)
<1>1. Len(s) \in Nat /\ Len(t) \in Nat /\ s \o t \in Seq(S)
  BY LenProperties, ConcatProperties
<1>2. Len(s) <= Len(s \o t) /\ \A i \in 1..Len(s) : s[i] = (s \o t)[i]
  BY <1>1, ConcatProperties
<1> QED BY <1>1, <1>2, PrefixPoints

LEMMA PrefixAppend ==
  ASSUME NEW S, NEW s \in Seq(S), NEW e \in S
  PROVE  IsPrefix(s, Append(s, e))
<1>1. Len(s) \in Nat /\ Append(s, e) \in Seq(S)
  BY LenProperties, AppendProperties
<1>2. Len(s) <= Len(Append(s, e)) /\ \A i \in 1..Len(s) : s[i] = Append(s, e)[i]
  BY <1>1, AppendProperties
<1> QED BY <1>1, <1>2, PrefixPoints

LEMMA AppendConcat ==
  ASSUME NEW S, NEW b \in Seq(S), NEW s \in Seq(S), NEW e \in S
  PROVE  b \o Append(s, e) = Append(b \o s, e)
<1>1. /\ Len(b) \in Nat /\ Len(s) \in Nat
      /\ Append(s, e) \in Seq(S) /\ Len(Append(s, e)) = Len(s) + 1
      /\ \A i \in 1..Len(s) : Append(s, e)[i] = s[i]
      /\ Append(s, e)[Len(s) + 1] = e
  BY LenProperties, AppendProperties
<1>2. /\ b \o s \in Seq(S) /\ Len(b \o s) = Len(b) + Len(s)
      /\ \A i \in 1..Len(b) + Len(s) :
             (b \o s)[i] = IF i <= Len(b) THEN b[i] ELSE s[i - Len(b)]
  BY ConcatProperties
<1>3. /\ Append(b \o s, e) \in Seq(S)
      /\ Len(Append(b \o s, e)) = Len(b \o s) + 1
      /\ \A i \in 1..Len(b \o s) : Append(b \o s, e)[i] = (b \o s)[i]
      /\ Append(b \o s, e)[Len(b \o s) + 1] = e
  BY <1>2, AppendProperties
<1> DEFINE t == Append(s, e)
           u == Append(b \o s, e)
<1>5. /\ t \in Seq(S) /\ Len(t) = Len(s) + 1 /\ t[Len(s) + 1] = e
      /\ \A i \in 1..Len(s) : t[i] = s[i]
      /\ u \in Seq(S) /\ Len(u) = Len(b) + Len(s) + 1
      /\ u[Len(b) + Len(s) + 1] = e
      /\ \A i \in 1..Len(b) + Len(s) : u[i] = (b \o s)[i]
  BY <1>1, <1>2, <1>3
<1> HIDE DEF t, u
<1>6. t \in Seq(S)
  BY <1>5
<1>7. /\ b \o t \in Seq(S) /\ Len(b \o t) = Len(b) + Len(t)
      /\ \A i \in 1..Len(b) + Len(t) :
             (b \o t)[i] = IF i <= Len(b) THEN b[i] ELSE t[i - Len(b)]
  BY <1>6, ConcatProperties
<1> DEFINE v == b \o t
           w == b \o s
<1>8. /\ v \in Seq(S) /\ Len(v) = Len(u) /\ u \in Seq(S)
      /\ \A i \in 1..Len(u) :
             v[i] = IF i <= Len(b) THEN b[i] ELSE t[i - Len(b)]
      /\ \A i \in 1..Len(b) + Len(s) : w[i] = u[i]
      /\ \A i \in 1..Len(b) + Len(s) :
             w[i] = IF i <= Len(b) THEN b[i] ELSE s[i - Len(b)]
  BY <1>1, <1>2, <1>5, <1>7
<1> HIDE DEF v, w
<1>9. ASSUME NEW i \in 1..Len(u) PROVE v[i] = u[i]
  <2>1. i \in Int /\ 1 <= i /\ i <= Len(b) + Len(s) + 1
    BY <1>1, <1>5
  <2>2. CASE i <= Len(b)
    BY <1>1, <1>8, <2>1, <2>2
  <2>3. CASE Len(b) < i /\ i <= Len(b) + Len(s)
    <3>1. i \in 1..Len(b) + Len(s) /\ i - Len(b) \in 1..Len(s)
      BY <1>1, <2>1, <2>3
    <3>2. u[i] = s[i - Len(b)]
      BY <1>1, <1>8, <2>3, <3>1
    <3>3. v[i] = t[i - Len(b)]
      BY <1>1, <1>8, <2>1, <2>3
    <3> QED BY <1>5, <3>1, <3>2, <3>3
  <2>4. CASE i = Len(b) + Len(s) + 1
    <3>1. i - Len(b) = Len(s) + 1 /\ ~(i <= Len(b))
      BY <1>1, <2>4
    <3> QED BY <1>5, <1>8, <2>4, <3>1
  <2> QED BY <1>1, <2>1, <2>2, <2>3, <2>4
<1>10. v = u
  BY <1>8, <1>9, SeqEqual
<1> QED BY <1>10 DEF t, u, v

\* A prefix of a prefix, as a cut.
LEMMA CutOfCut ==
  ASSUME NEW S, NEW s \in Seq(S), NEW t \in Seq(S), IsPrefix(s, t),
         NEW n \in 0..Len(s)
  PROVE  SubSeq(s, 1, n) = SubSeq(t, 1, n) /\ SubSeq(s, 1, n) \in Seq(S)
<1>1. Len(s) \in Nat /\ Len(t) \in Nat /\ n \in Int /\ n <= Len(s)
  BY LenProperties
<1>2. Len(s) <= Len(t) /\ \A i \in 1..Len(s) : s[i] = t[i]
  BY PrefixPoints
<1>3. (\A i \in 1..n : s[i] \in S) /\ (\A i \in 1..n : t[i] \in S)
  BY <1>1, <1>2, ElementOfSeq
<1>4. /\ SubSeq(s, 1, n) \in Seq(S) /\ SubSeq(t, 1, n) \in Seq(S)
      /\ Len(SubSeq(s, 1, n)) = n /\ Len(SubSeq(t, 1, n)) = n
      /\ \A i \in 1..n : SubSeq(s, 1, n)[i] = s[i] /\ SubSeq(t, 1, n)[i] = t[i]
  BY <1>1, <1>3, SubSeqProperties
<1>5. \A i \in 1..n : SubSeq(s, 1, n)[i] = SubSeq(t, 1, n)[i]
  BY <1>1, <1>2, <1>4
<1> QED BY <1>4, <1>5, SeqEqual

LEMMA CutIsPrefix ==
  ASSUME NEW S, NEW s \in Seq(S), NEW n \in 0..Len(s)
  PROVE  /\ SubSeq(s, 1, n) \in Seq(S) /\ Len(SubSeq(s, 1, n)) = n
         /\ IsPrefix(SubSeq(s, 1, n), s)
<1>1. Len(s) \in Nat /\ n \in Int /\ n <= Len(s)
  BY LenProperties
<1>2. \A i \in 1..n : s[i] \in S
  BY <1>1, ElementOfSeq
<1>3. /\ SubSeq(s, 1, n) \in Seq(S) /\ Len(SubSeq(s, 1, n)) = n
      /\ \A i \in 1..n : SubSeq(s, 1, n)[i] = s[i]
  BY <1>1, <1>2, SubSeqProperties
<1> QED BY <1>1, <1>3, PrefixPoints

------------------------------------------------------------------------------
(* Heads and chains.                                                       *)

\* A bounded set of positions has a last one.
LEMMA LastExists ==
  ASSUME NEW n \in Nat, NEW own \in SUBSET (1..n), own # {}
  PROVE  Max(own) \in own /\ \A i \in own : i <= Max(own)
<1> DEFINE T == {k \in Nat : \A i \in own : i <= k}
           R == OpToRel(<, Nat)
<1>1. T \subseteq Nat /\ n \in T
  OBVIOUS
<1>2. PICK u \in T : \A v \in T : ~(<<v, u>> \in R)
  <2>1. IsWellFoundedOn(R, Nat)
    BY NatLessThanWellFounded
  <2> HIDE DEF T, R
  <2> QED BY <1>1, <2>1, WFMin
<1>3. \A v \in T : u <= v
  <2>1. \A j, k \in Nat : j < k => <<j, k>> \in R
    BY DEF OpToRel
  <2> SUFFICES ASSUME NEW v \in T PROVE u <= v
    OBVIOUS
  <2>2. u \in Nat /\ v \in Nat
    BY <1>1
  <2>3. ~(v < u)
    <3> HIDE DEF T, R
    <3> QED BY <1>2, <2>1, <2>2, Zenon
  <2> QED BY <2>2, <2>3
<1>4. u \in own
  <2> SUFFICES ASSUME u \notin own PROVE FALSE
    OBVIOUS
  <2>1. u \in Nat /\ \A i \in own : i \in Nat /\ 1 <= i /\ i <= u /\ i # u
    OBVIOUS
  <2>2. u - 1 \in Nat /\ \A i \in own : i <= u - 1
    <3>1. PICK i \in own : TRUE
      OBVIOUS
    <3>2. u - 1 \in Nat
      BY <2>1, <3>1
    <3> QED BY <2>1, <3>2
  <2>3. u - 1 \in T
    BY <2>2
  <2> QED BY <1>3, <2>1, <2>3
<1>5. \E x \in own : \A y \in own : x >= y
  BY <1>4
<1>6. Max(own) \in own /\ \A y \in own : Max(own) >= y
  BY <1>5 DEF Max
<1> QED BY <1>6

LEMMA HeadWhere ==
  ASSUME NEW s \in Seq(Line), NEW c
  PROVE  \/ (\A i \in 1..Len(s) : s[i].cap # c) /\ HeadOf(s, c) = 0
         \/ \E m \in 1..Len(s) :
                /\ s[m].cap = c /\ HeadOf(s, c) = s[m].id
                /\ \A i \in 1..Len(s) : s[i].cap = c => i <= m
<1> DEFINE own == {i \in DOMAIN s : s[i].cap = c}
<1>1. Len(s) \in Nat /\ DOMAIN s = 1..Len(s)
  BY LenProperties
<1>2. HeadOf(s, c) = IF own = {} THEN 0 ELSE s[Max(own)].id
  BY DEF HeadOf
<1>3. CASE own = {}
  BY <1>1, <1>2, <1>3
<1>4. CASE own # {}
  <2>1. own \in SUBSET (1..Len(s))
    BY <1>1
  <2>2. Max(own) \in own /\ \A i \in own : i <= Max(own)
    <3> HIDE DEF own
    <3> QED BY <1>1, <1>4, <2>1, LastExists
  <2>3. s[Max(own)].cap = c /\ Max(own) \in 1..Len(s)
    BY <1>1, <2>2
  <2> QED BY <1>1, <1>2, <1>4, <2>2, <2>3
<1> QED BY <1>3, <1>4

LEMMA HeadTyped ==
  ASSUME NEW s \in Seq(Line), NEW c
  PROVE  HeadOf(s, c) \in 0..MaxLines
<1>1. \A i \in 1..Len(s) : s[i] \in Line
  BY ElementOfSeq
<1>2. \A i \in 1..Len(s) : s[i].id \in 1..MaxLines
  BY <1>1 DEF Line
<1> QED BY <1>2, HeadWhere, FilesAssumption DEF FilesAssumption

LEMMA ContinuesEmpty == ASSUME NEW b PROVE Continues(b, <<>>)
  BY DEF Continues

\* A chain can be cut anywhere.
LEMMA ContinuesPrefix ==
  ASSUME NEW b, NEW s \in Seq(Line), NEW t \in Seq(Line), IsPrefix(s, t),
         Continues(b, t)
  PROVE  Continues(b, s)
<1>1. /\ Len(s) \in Nat /\ Len(t) \in Nat
      /\ DOMAIN s = 1..Len(s) /\ DOMAIN t = 1..Len(t)
  BY LenProperties
<1>2. Len(s) <= Len(t) /\ \A i \in 1..Len(s) : s[i] = t[i]
  BY PrefixPoints
<1>3. ASSUME NEW i \in 1..Len(s)
      PROVE  s[i].prev = HeadOf(b \o SubSeq(s, 1, i - 1), s[i].cap)
  <2>1. i \in 1..Len(t) /\ i - 1 \in 0..Len(s) /\ s[i] = t[i]
    BY <1>1, <1>2
  <2>2. SubSeq(s, 1, i - 1) = SubSeq(t, 1, i - 1)
    BY <2>1, CutOfCut
  <2>3. t[i].prev = HeadOf(b \o SubSeq(t, 1, i - 1), t[i].cap)
    BY <1>1, <2>1 DEF Continues
  <2> QED BY <2>1, <2>2, <2>3
<1> QED BY <1>1, <1>3 DEF Continues

\* A line on the current head lengthens the chain.
LEMMA ContinuesAppend ==
  ASSUME NEW b, NEW s \in Seq(Line), NEW e \in Line, Continues(b, s),
         e.prev = HeadOf(b \o s, e.cap)
  PROVE  Continues(b, Append(s, e))
<1> DEFINE t == Append(s, e)
<1>1. /\ t \in Seq(Line) /\ Len(t) = Len(s) + 1 /\ t[Len(s) + 1] = e
      /\ \A i \in 1..Len(s) : t[i] = s[i]
      /\ IsPrefix(s, t)
  BY AppendProperties, PrefixAppend
<1>2. Len(s) \in Nat /\ DOMAIN s = 1..Len(s) /\ DOMAIN t = 1..Len(t)
  BY <1>1, LenProperties
<1> HIDE DEF t
<1>3. ASSUME NEW i \in 1..Len(t)
      PROVE  t[i].prev = HeadOf(b \o SubSeq(t, 1, i - 1), t[i].cap)
  <2>1. i - 1 \in 0..Len(s)
    BY <1>1, <1>2
  <2>2. SubSeq(t, 1, i - 1) = SubSeq(s, 1, i - 1)
    BY <1>1, <2>1, CutOfCut
  <2>3. CASE i \in 1..Len(s)
    BY <1>1, <1>2, <2>2, <2>3 DEF Continues
  <2>4. CASE i = Len(s) + 1
    <3>1. SubSeq(s, 1, i - 1) = s
      BY <1>2, <2>4, SubSeqFull
    <3> QED BY <1>1, <2>2, <2>4, <3>1
  <2> QED BY <1>1, <1>2, <2>3, <2>4
<1>4. Continues(b, t)
  BY <1>2, <1>3 DEF Continues
<1> QED BY <1>4 DEF t

\* The first line of a chain pins a head of the base.
LEMMA FirstPins ==
  ASSUME NEW b \in Seq(Line), NEW s \in Seq(Line), s # <<>>, Continues(b, s)
  PROVE  s[1].prev = HeadOf(b, s[1].cap)
<1>1. 1 \in DOMAIN s
  BY LenProperties, EmptySeq
<1>2. SubSeq(s, 1, 1 - 1) = <<>>
  BY SubSeqEmpty
<1>3. b \o <<>> = b
  BY ConcatEmptySeq
<1> QED BY <1>1, <1>2, <1>3 DEF Continues

\* Once folded, a chain no longer continues the fold: its first line has an
\* older head than the fold has.
LEMMA FoldedHead ==
  ASSUME NEW b \in Seq(Line), NEW s \in Seq(Line), s # <<>>, Continues(b, s),
         Rising(b \o s)
  PROVE  s[1].prev # HeadOf(b \o s, s[1].cap)
<1> DEFINE t == b \o s
           c == s[1].cap
           n == Len(b) + 1
<1>1. /\ Len(b) \in Nat /\ Len(s) \in Nat /\ Len(s) >= 1
      /\ t \in Seq(Line) /\ Len(t) = Len(b) + Len(s)
      /\ t[n] = s[1] /\ \A i \in 1..Len(b) : t[i] = b[i]
  BY LenProperties, EmptySeq, ConcatProperties
<1>2. \A i \in 1..Len(t) : t[i] \in Line
  BY <1>1, ElementOfSeq
<1>3. \A i \in 1..Len(t) : t[i].id \in Nat /\ t[i].id > 0
  <2> HIDE DEF t
  <2> SUFFICES ASSUME NEW i \in 1..Len(t) PROVE t[i].id \in Nat /\ t[i].id > 0
    OBVIOUS
  <2>1. t[i] \in Line
    BY <1>2
  <2> QED BY ONLY <2>1, FilesAssumption DEF Line, FilesAssumption
<1>4. Rising(t)
  OBVIOUS
<1> HIDE DEF t
<1>5. PICK m \in 1..Len(t) : HeadOf(t, c) = t[m].id /\ n <= m
  <2>1. n \in 1..Len(t) /\ t[n].cap = c
    BY <1>1
  <2>2. t \in Seq(Line)
    BY <1>1
  <2> HIDE DEF c, n
  <2>3. \/ (\A i \in 1..Len(t) : t[i].cap # c) /\ HeadOf(t, c) = 0
        \/ \E m \in 1..Len(t) :
               /\ t[m].cap = c /\ HeadOf(t, c) = t[m].id
               /\ \A i \in 1..Len(t) : t[i].cap = c => i <= m
    BY ONLY <2>2, HeadWhere
  <2> QED BY ONLY <2>1, <2>3
<1>6. HeadOf(t, c) >= t[n].id
  BY <1>1, <1>3, <1>4, <1>5 DEF Rising
<1>7. HeadOf(b, c) < t[n].id
  <2>1. CASE HeadOf(b, c) = 0
    BY <1>1, <1>3, <2>1
  <2>2. CASE \E k \in 1..Len(b) : HeadOf(b, c) = b[k].id
    <3>1. PICK k \in 1..Len(b) : HeadOf(b, c) = b[k].id
      BY <2>2
    <3> QED BY <1>1, <1>3, <1>4, <3>1 DEF Rising
  <2> QED BY <2>1, <2>2, HeadWhere
<1>8. s[1].prev = HeadOf(b, c)
  BY FirstPins
<1>9. HeadOf(b, c) \in Nat /\ HeadOf(t, c) \in Nat
  BY <1>1, HeadTyped, FilesAssumption DEF FilesAssumption
<1>10. s[1].prev # HeadOf(t, c)
  BY <1>1, <1>3, <1>6, <1>7, <1>8, <1>9
<1> QED BY <1>10 DEF t

------------------------------------------------------------------------------
(* What a step of one process leaves to the others.                        *)

\* The process holds the lock of the file the path leads to.
Owner(p) == ledger # 0 /\ proc[p].fd = ledger /\ inodes[ledger].lock = p

\* Files stay, and so do the locks of the others.
Stay(q) ==
    /\ Len(inodes) <= Len(inodes')
    /\ \A p \in Procs \ {q} : \A i \in 1..Len(inodes') :
           inodes'[i].lock = p <=> i <= Len(inodes) /\ inodes[i].lock = p

\* The step of q, as far as another process can tell: nothing moves under the
\* owner of the ledger; the snapshot grows; a torn file stays the ledger until
\* it is set aside; a file that starts with a folded line never comes back.
Frame(q) ==
    /\ Stay(q)
    /\ (\E p \in Procs \ {q} : Owner(p)) =>
           /\ ledger' = ledger /\ Current' = Current
           /\ snapshot' = snapshot /\ archive' = archive
    /\ IsPrefix(snapshot, snapshot')
    /\ aside \subseteq aside'
    /\ Current.torn => \/ Current' = Current /\ ledger' = ledger
                       \/ \E e \in aside' : e.of = Current
    /\ Current'.lines # <<>> /\ Current'.lines[1] \in ToSet(snapshot) =>
           /\ ledger' = ledger /\ Current.lines # <<>>
           /\ Current.lines[1] = Current'.lines[1]
    /\ \/ Current.lines = <<>> \/ IsPrefix(Current.lines, Current'.lines)
       \/ Current.lines[1] \in ToSet(snapshot')

\* A step that changes nothing but locks, or names a new empty file.
Quiet(q) ==
    /\ Stay(q)
    /\ \A i \in 1..Len(inodes) : inodes'[i].lines = inodes[i].lines
    /\ Current' = Current /\ snapshot' = snapshot /\ archive' = archive
    /\ aside \subseteq aside' /\ written' = written
    /\ ledger # 0 => ledger' = ledger

\* The ledger file as a value.
CurrentShape ==
    /\ Current \in FileRecs
    /\ Current.lines \in Seq(Line) /\ Current.torn \in BOOLEAN
    /\ ledger = 0 => Current.lines = <<>> /\ ~Current.torn
    /\ ledger # 0 => /\ ledger \in 1..Len(inodes)
                     /\ Current.lines = inodes[ledger].lines
                     /\ Current.torn = inodes[ledger].torn

LEMMA CurrentTyped == DiskTyped => CurrentShape
<1> SUFFICES ASSUME DiskTyped PROVE CurrentShape
  OBVIOUS
<1>1. Len(inodes) \in Nat
  BY LenProperties DEF DiskTyped
<1>2. CASE ledger = 0
  BY <1>2 DEF Current, Bytes, NoFile, FileRecs, CurrentShape
<1>3. CASE ledger # 0
  <2>1. ledger \in 1..Len(inodes)
    BY <1>1, <1>3 DEF DiskTyped
  <2>2. inodes[ledger] \in InodeRecs
    BY <2>1, ElementOfSeq DEF DiskTyped
  <2> QED BY <1>3, <2>1, <2>2 DEF Current, Bytes, FileRecs, InodeRecs, CurrentShape
<1> QED BY <1>2, <1>3

LEMMA CurrentTypedNext == DiskTyped' => CurrentShape'
  BY CurrentTyped, PTL

LEMMA CommittedTyped ==
  ASSUME DiskInv
  PROVE  /\ snapshot \in Seq(Line) /\ Len(snapshot) \in Nat
         /\ Committed \in Seq(Line) /\ Len(Committed) \in Nat
         /\ IsPrefix(snapshot, Committed)
         /\ Len(snapshot) <= Len(Committed) /\ Len(Committed) <= MaxLines
         /\ Continues(snapshot, Current.lines) =>
                Len(Committed) = Len(snapshot) + Len(Current.lines)
<1>1. /\ snapshot \in Seq(Line) /\ Current.lines \in Seq(Line)
      /\ written \in 0..MaxLines /\ Len(Committed) <= written
  BY CurrentTyped DEF DiskInv, DiskTyped, CurrentShape, Numbered
<1>2. /\ Len(snapshot) \in Nat /\ Len(Current.lines) \in Nat
      /\ snapshot \o Current.lines \in Seq(Line)
      /\ Len(snapshot \o Current.lines) = Len(snapshot) + Len(Current.lines)
  BY <1>1, LenProperties, ConcatProperties
<1>3. IsPrefix(snapshot, snapshot) /\ IsPrefix(snapshot, snapshot \o Current.lines)
  BY <1>1, PrefixReflexive, PrefixConcat
<1>4. Committed = IF Continues(snapshot, Current.lines)
                  THEN snapshot \o Current.lines ELSE snapshot
  BY DEF Committed, Current
<1> QED BY <1>1, <1>2, <1>3, <1>4, FilesAssumption DEF FilesAssumption

LEMMA QuietFrame ==
  ASSUME DiskTyped, NEW q \in Procs, Quiet(q)
  PROVE  Frame(q)
<1>1. IsPrefix(snapshot, snapshot')
  BY PrefixReflexive DEF Quiet, DiskTyped
<1>2. IsPrefix(Current.lines, Current'.lines)
  BY PrefixReflexive, CurrentTyped DEF Quiet, CurrentShape
<1> QED BY <1>1, <1>2, CurrentTyped DEF Quiet, Frame, Owner, CurrentShape

LEMMA PrefixMembers ==
  ASSUME NEW S, NEW s \in Seq(S), NEW t \in Seq(S), IsPrefix(s, t)
  PROVE  ToSet(s) \subseteq ToSet(t)
<1>1. /\ Len(s) \in Nat /\ Len(t) \in Nat
      /\ DOMAIN s = 1..Len(s) /\ DOMAIN t = 1..Len(t)
  BY LenProperties
<1>2. Len(s) <= Len(t) /\ \A i \in 1..Len(s) : s[i] = t[i]
  BY PrefixPoints
<1> QED BY <1>1, <1>2 DEF ToSet

LEMMA FirstOfPrefix ==
  ASSUME NEW S, NEW s \in Seq(S), NEW t \in Seq(S), IsPrefix(s, t), s # <<>>
  PROVE  t # <<>> /\ s[1] = t[1]
<1>1. Len(s) \in Nat \ {0} /\ Len(t) \in Nat
  BY EmptySeq, LenProperties
<1>2. Len(s) <= Len(t) /\ \A i \in 1..Len(s) : s[i] = t[i]
  BY PrefixPoints
<1> QED BY <1>1, <1>2, EmptySeq

\* The process record of another process and what it knows.
LEMMA OthersKeep ==
  ASSUME FilesInv, DiskTyped', NEW q \in Procs, NEW p \in Procs \ {q}, Frame(q),
         proc'[p] = proc[p]
  PROVE  ProcInv(p)'
<1> DEFINE s == proc[p]
<1>1. s \in ProcRecs /\ Shape(s) /\ Locks(p)
  BY DEF FilesInv, ProcInv
<1>2. s.fd \in Nat /\ s.base \in Seq(Line) /\ s.file \in FileRecs
  BY <1>1 DEF ProcRecs
<1>3. Len(inodes) \in Nat /\ Len(inodes') \in Nat /\ Len(inodes) <= Len(inodes')
  BY LenProperties DEF DiskTyped, FilesInv, DiskInv, Frame, Stay
<1>4. Locks(p)'
  <2>1. \A i \in 1..Len(inodes') :
          inodes'[i].lock = p <=> i <= Len(inodes) /\ inodes[i].lock = p
    BY DEF Frame, Stay
  <2> QED BY <1>1, <1>2, <1>3, <2>1 DEF Locks
<1>5. Shape(proc[p])'
  BY <1>1 DEF Shape
<1>6. s.fd = ledger /\ s.fd # 0 /\ s.pc \in LockedPcs => Owner(p)
  BY <1>1 DEF Locks, Owner
<1>7. Owner(p) => /\ ledger' = ledger /\ Current' = Current
                  /\ snapshot' = snapshot /\ archive' = archive
  BY DEF Frame
<1>8. View(p)' = View(p)
  BY DEF View
<1>9. ASSUME Writes(s) PROVE WriterKnows(p)'
  <2>1. WriterKnows(p) /\ s.pc \in WriterPcs /\ (s.fd = 0 <=> s.pc = "open")
    BY <1>1, <1>9 DEF FilesInv, ProcInv, Shape
  <2>2. CASE s.pc \in OwnerPcs
    <3>1. Owner(p)
      BY <1>6, <2>1, <2>2 DEF WriterKnows, OwnerPcs, LockedPcs
    <3> QED BY <1>7, <1>8, <2>1, <3>1 DEF WriterKnows
  <2>3. CASE s.pc \in {"create", "anchor"}
    <3>1. IsPrefix(View(p), snapshot) /\ IsPrefix(snapshot, snapshot')
      BY <2>1, <2>3 DEF WriterKnows, Frame
    <3>2. View(p) \in Seq(Line) /\ snapshot \in Seq(Line) /\ snapshot' \in Seq(Line)
      BY <1>2, ConcatProperties DEF View, FileRecs, FilesInv, DiskInv, DiskTyped
    <3>3. IsPrefix(View(p), snapshot')
      BY <3>1, <3>2, PrefixTransitive
    <3> QED BY <1>8, <2>3, <3>3 DEF WriterKnows, OwnerPcs
  <2>4. CASE s.pc \in {"open", "lock", "check"}
    BY <2>4 DEF WriterKnows, OwnerPcs
  <2> QED BY <2>1, <2>2, <2>3, <2>4 DEF WriterPcs, OwnerPcs
<1>10. ASSUME s.verb = "repair" PROVE RepairKnows(p)'
  <2>1. RepairKnows(p) /\ s.pc \in RepairPcs
        /\ (s.pc \in {"lock", "stage", "link", "swap"} => s.fd # 0)
    BY <1>1, <1>10 DEF FilesInv, ProcInv, Shape
  <2>2. \A f : Aside(f) => Aside(f)'
    BY DEF Aside, Frame
  <2>3. ToSet(snapshot) \subseteq ToSet(snapshot')
    BY PrefixMembers DEF Frame, FilesInv, DiskInv, DiskTyped
  <2>4. /\ Current.lines \in Seq(Line) /\ Current'.lines \in Seq(Line)
    BY CurrentTyped, CurrentTypedNext DEF FilesInv, DiskInv, CurrentShape
  <2>5. ASSUME Diagnosed(s.file) PROVE Diagnosed(s.file)'
    <3>1. s.file.lines \in Seq(Line)
      BY <1>2 DEF FileRecs
    <3>2. CASE s.file.torn
      BY <2>2, <2>5, <3>2 DEF Diagnosed, Frame, Aside
    <3>3. CASE ~s.file.torn /\ s.file.lines # <<>> /\ IsPrefix(s.file.lines, Current.lines)
      <4>1. Current.lines # <<>> /\ s.file.lines[1] = Current.lines[1]
        BY <2>4, <3>1, <3>3, FirstOfPrefix
      <4>2. CASE IsPrefix(Current.lines, Current'.lines)
        <5>1. IsPrefix(s.file.lines, Current'.lines)
          BY <2>4, <3>1, <3>3, <4>2, PrefixTransitive
        <5> QED BY <3>3, <5>1 DEF Diagnosed
      <4>3. CASE Current.lines[1] \in ToSet(snapshot')
        BY <3>3, <4>1, <4>3 DEF Diagnosed
      <4> QED BY <4>1, <4>2, <4>3 DEF Frame
    <3>4. CASE ~s.file.torn /\ (s.file.lines = <<>> \/ s.file.lines[1] \in ToSet(snapshot))
      BY <2>3, <3>4 DEF Diagnosed
    <3> QED BY <2>5, <3>2, <3>3, <3>4 DEF Diagnosed
  <2>6. ASSUME Damaged(s.seen, s.fd) PROVE Damaged(s.seen, s.fd)'
    <3>1. s.seen \in FileRecs
      BY <2>6 DEF Damaged
    <3>2. CASE s.seen.torn
      BY <2>2, <2>6, <3>1, <3>2 DEF Damaged, Frame, Aside
    <3>3. CASE ~s.seen.torn
      BY <2>3, <2>6, <3>1, <3>3 DEF Damaged, Frame
    <3> QED BY <3>2, <3>3
  <2>7. ASSUME s.fd = ledger, s.fd # 0, s.pc \in {"judge", "stage", "link", "swap"}
        PROVE  /\ ledger' = ledger /\ Current' = Current /\ snapshot' = snapshot
    BY <1>6, <1>7, <2>7 DEF LockedPcs
  <2>8. Remains' = IF Continues(snapshot', Current'.lines) THEN Current'.lines ELSE <<>>
    BY DEF Remains
  <2>9. CASE s.pc \in {"reopen", "lock", "diagnose"}
    BY <2>1, <2>6, <2>9 DEF RepairKnows
  <2>10. CASE s.pc = "judge"
    BY <2>1, <2>2, <2>5, <2>6, <2>7, <2>10 DEF RepairKnows
  <2>11. CASE s.pc \in {"stage", "link"}
    BY <2>1, <2>2, <2>7, <2>8, <2>11 DEF RepairKnows, Remains
  <2>12. CASE s.pc = "swap"
    <3>1. aside \subseteq aside'
      BY DEF Frame
    <3> QED BY <2>1, <2>7, <2>8, <2>12, <3>1 DEF RepairKnows, Remains
  <2> QED BY <2>1, <2>9, <2>10, <2>11, <2>12 DEF RepairPcs
<1> QED BY <1>4, <1>5, <1>9, <1>10 DEF ProcInv

------------------------------------------------------------------------------
(* Steps that change no file.                                              *)

LEMMA IdleTyped == Idle \in ProcRecs
<1>1. <<>> \in Seq(Line) /\ NoFile \in FileRecs
  BY EmptySeq DEF NoFile, FileRecs
<1>2. "idle" \in Pcs /\ "none" \in AllVerbs \cup {"none"} /\ 0 \in Nat
  BY DEF Pcs
<1> QED BY <1>1, <1>2 DEF Idle, ProcRecs

LEMMA UnlockShape ==
  ASSUME NEW files \in Seq(InodeRecs), NEW q \in Procs
  PROVE  /\ Unlocked(files, q) \in Seq(InodeRecs)
         /\ Len(Unlocked(files, q)) = Len(files)
         /\ \A i \in 1..Len(files) :
                /\ Unlocked(files, q)[i].lines = files[i].lines
                /\ Unlocked(files, q)[i].torn = files[i].torn
                /\ Unlocked(files, q)[i].lock =
                       IF files[i].lock = q THEN None ELSE files[i].lock
<1> DEFINE new == Unlocked(files, q)
<1>1. Len(files) \in Nat /\ DOMAIN files = 1..Len(files)
  BY LenProperties
<1>2. new = [i \in 1..Len(files) |->
               IF files[i].lock = q THEN [files[i] EXCEPT !.lock = None]
               ELSE files[i]]
  BY <1>1 DEF Unlocked
<1>3. ASSUME NEW i \in 1..Len(files)
      PROVE  /\ new[i] \in InodeRecs
             /\ new[i].lines = files[i].lines /\ new[i].torn = files[i].torn
             /\ new[i].lock = IF files[i].lock = q THEN None ELSE files[i].lock
  <2>1. files[i] \in InodeRecs
    BY ElementOfSeq
  <2>2. new[i] = IF files[i].lock = q THEN [files[i] EXCEPT !.lock = None]
                 ELSE files[i]
    BY <1>2
  <2> HIDE DEF new
  <2> QED BY <2>1, <2>2 DEF InodeRecs
<1>4. new \in [1..Len(files) -> InodeRecs]
  <2> HIDE DEF new
  <2> QED BY <1>2, <1>3
<1>5. new \in Seq(InodeRecs) /\ Len(new) = Len(files)
  <2> HIDE DEF new
  <2> QED BY <1>1, <1>4
<1> QED BY <1>3, <1>5

LEMMA SameQuiet ==
  ASSUME FilesInv, NEW q \in Procs,
         UNCHANGED <<inodes, ledger, snapshot, archive, aside, written>>
  PROVE  Quiet(q)
<1>1. Len(inodes) \in Nat
  BY LenProperties DEF FilesInv, DiskInv, DiskTyped
<1>2. Current' = Current
  BY DEF Current, Bytes
<1> QED BY <1>1, <1>2 DEF Quiet, Stay

LEMMA UnlockQuiet ==
  ASSUME FilesInv, NEW q \in Procs, inodes' = Unlocked(inodes, q),
         UNCHANGED <<ledger, snapshot, archive, aside, written>>
  PROVE  /\ Quiet(q)
         /\ inodes' \in Seq(InodeRecs) /\ Len(inodes') = Len(inodes)
         /\ \A i \in 1..Len(inodes') : inodes'[i].lock # q
<1>1. inodes \in Seq(InodeRecs) /\ Len(inodes) \in Nat /\ ledger \in 0..Len(inodes)
  BY LenProperties DEF FilesInv, DiskInv, DiskTyped
<1>2. /\ inodes' \in Seq(InodeRecs) /\ Len(inodes') = Len(inodes)
      /\ \A i \in 1..Len(inodes) :
             /\ inodes'[i].lines = inodes[i].lines
             /\ inodes'[i].torn = inodes[i].torn
             /\ inodes'[i].lock = IF inodes[i].lock = q THEN None ELSE inodes[i].lock
  BY <1>1, UnlockShape
<1>3. None # q /\ \A p \in Procs : None # p
  BY FilesAssumption DEF FilesAssumption
<1>4. Current' = Current
  BY <1>1, <1>2 DEF Current, Bytes
<1>5. Stay(q)
  BY <1>1, <1>2, <1>3 DEF Stay
<1>6. \A i \in 1..Len(inodes') : inodes'[i].lock # q
  BY <1>2, <1>3
<1> QED BY <1>2, <1>4, <1>5, <1>6 DEF Quiet

\* What the files hold of the history does not depend on locks.
LEMMA QuietDisk ==
  ASSUME DiskInv, DiskTyped', NEW q \in Procs, Quiet(q), AnchorPins'
  PROVE  DiskInv'
<1>1. Len(inodes) \in Nat /\ Len(inodes') \in Nat /\ Len(inodes) <= Len(inodes')
  BY LenProperties DEF DiskInv, DiskTyped, Quiet, Stay
<1>2. Committed' = Committed
  BY DEF Committed, Quiet, Current
<1>3. Attached'
  BY DEF DiskInv, Attached, Folded, Quiet
<1>4. Numbered'
  BY <1>2 DEF DiskInv, Numbered, Quiet
<1>5. SnapshotHeld'
  <2>1. \A i \in Held \ {0} : i \in Held' \ {0}
    BY DEF Held, Quiet
  <2>2. \A i \in Held \ {0} : i \in 1..Len(inodes)
    <3>1. DOMAIN inodes = 1..Len(inodes)
      BY LenProperties DEF DiskInv, DiskTyped
    <3> QED BY <1>1, <3>1 DEF Held, DiskInv, DiskTyped
  <2>3. \A i \in Held \ {0} : inodes'[i].lines = inodes[i].lines
    BY <2>2 DEF Quiet
  <2>4. snapshot' = snapshot
    BY DEF Quiet
  <2>5. ASSUME NEW k \in 1..Len(snapshot)
        PROVE  \E i \in Held' \ {0} : \E j \in 1..Len(inodes'[i].lines) :
                   inodes'[i].lines[j] = snapshot[k]
    <3>1. PICK i \in Held \ {0} : \E j \in 1..Len(inodes[i].lines) :
                   inodes[i].lines[j] = snapshot[k]
      BY DEF DiskInv, SnapshotHeld
    <3> QED BY <2>1, <2>3, <3>1
  <2> QED BY <2>4, <2>5 DEF SnapshotHeld
<1> QED BY <1>3, <1>4, <1>5 DEF DiskInv

\* A step of one process keeps the invariant when it keeps the files' part and
\* its own.
LEMMA OneMoves ==
  ASSUME FilesInv, NEW q \in Procs, NEW new \in ProcRecs,
         proc' = [proc EXCEPT ![q] = new], Frame(q), DiskInv', ProcInv(q)'
  PROVE  FilesInv'
<1>1. /\ proc' \in [Procs -> ProcRecs]
      /\ \A p \in Procs \ {q} : proc'[p] = proc[p]
  BY DEF FilesInv
<1>2. \A p \in Procs \ {q} : ProcInv(p)'
  BY <1>1, OthersKeep DEF DiskInv
<1> QED BY <1>1, <1>2 DEF FilesInv

LEMMA ReturnKeeps ==
  ASSUME FilesInv, NEW q \in Procs, Return(q),
         UNCHANGED <<ledger, snapshot, archive, aside, written>>,
         copies' \subseteq 1..MaxLines, acked' \subseteq 1..written,
         crashes' \in 0..MaxCrashes, AnchorPins'
  PROVE  FilesInv'
<1>1. /\ Quiet(q) /\ inodes' \in Seq(InodeRecs) /\ Len(inodes') = Len(inodes)
      /\ \A i \in 1..Len(inodes') : inodes'[i].lock # q
  BY UnlockQuiet DEF Return
<1>2. DOMAIN inodes' = DOMAIN inodes
  BY <1>1, LenProperties DEF FilesInv, DiskInv, DiskTyped
<1>3. DiskTyped'
  BY <1>1, <1>2 DEF FilesInv, DiskInv, DiskTyped
<1>4. DiskInv'
  BY <1>1, <1>3, QuietDisk DEF FilesInv
<1>5. Frame(q)
  BY <1>1, QuietFrame DEF FilesInv, DiskInv
<1>6. proc' = [proc EXCEPT ![q] = Idle] /\ proc'[q] = Idle
  BY DEF Return, FilesInv
<1>7. ProcInv(q)'
  <2>1. Shape(Idle) /\ ~Writes(Idle) /\ Idle.verb # "repair" /\ Idle.fd = 0
    BY DEF Idle, Shape, Writes
  <2> QED BY <1>1, <1>6, <2>1 DEF ProcInv, Locks
<1> QED BY <1>4, <1>5, <1>6, <1>7, IdleTyped, OneMoves

\* A step that only the process itself notices.
LEMMA StepKeeps ==
  ASSUME FilesInv, NEW q \in Procs, NEW new \in ProcRecs,
         proc' = [proc EXCEPT ![q] = new],
         UNCHANGED <<inodes, ledger, snapshot, archive, aside, anchor,
                     acked, written, crashes>>,
         copies' \subseteq 1..MaxLines,
         new.fd = proc[q].fd,
         new.fd # 0 => (new.pc \in LockedPcs <=> proc[q].pc \in LockedPcs),
         Shape(new),
         Writes(new) => WriterKnows(q)', new.verb = "repair" => RepairKnows(q)'
  PROVE  FilesInv'
<1>1. Quiet(q)
  BY SameQuiet
<1>2. DiskTyped' /\ AnchorPins'
  BY DEF FilesInv, DiskInv, DiskTyped, AnchorPins
<1>3. DiskInv'
  BY <1>1, <1>2, QuietDisk DEF FilesInv
<1>4. Frame(q)
  BY <1>1, QuietFrame DEF FilesInv, DiskInv
<1>5. proc'[q] = new
  BY DEF FilesInv
<1>6. Locks(q)'
  <2>1. Locks(q) /\ Len(inodes) \in Nat
    BY LenProperties DEF FilesInv, ProcInv, DiskInv, DiskTyped
  <2> QED BY <1>5, <2>1 DEF Locks
<1>7. ProcInv(q)'
  BY <1>5, <1>6 DEF ProcInv
<1> QED BY <1>3, <1>4, <1>7, OneMoves

LEMMA InitFiles == Init => FilesInv
<1> SUFFICES ASSUME Init PROVE FilesInv
  OBVIOUS
<1>1. /\ <<>> \in Seq(InodeRecs) /\ <<>> \in Seq(Line)
      /\ Len(<<>>) = 0 /\ DOMAIN <<>> = {} /\ <<>> \o <<>> = <<>>
  BY EmptySeq, ConcatEmptySeq
<1>2. DiskTyped
  BY <1>1, FilesAssumption DEF Init, DiskTyped, FilesAssumption
<1>3. Current.lines = <<>> /\ Continues(snapshot, Current.lines)
  BY ContinuesEmpty DEF Init, Current, Bytes, NoFile
<1>4. Committed = <<>>
  BY <1>1, <1>3 DEF Committed, Current, Init
<1>5. Attached /\ Numbered /\ SnapshotHeld /\ AnchorPins
  BY <1>1, <1>3, <1>4 DEF Attached, Numbered, Rising, SnapshotHeld, AnchorPins, Init
<1>6. proc \in [Procs -> ProcRecs]
  BY IdleTyped DEF Init
<1>7. ASSUME NEW p \in Procs PROVE ProcInv(p)
  <2>1. proc[p] = Idle
    BY DEF Init
  <2>2. Shape(Idle) /\ ~Writes(Idle) /\ Idle.verb # "repair" /\ Idle.fd = 0
    BY DEF Idle, Shape, Writes
  <2> QED BY <1>1, <2>1, <2>2 DEF ProcInv, Locks, Init
<1> QED BY <1>2, <1>5, <1>6, <1>7 DEF FilesInv, DiskInv

------------------------------------------------------------------------------
(* One lemma per action: first those that change no file.                  *)

LEMMA ProcFacts ==
  ASSUME FilesInv, NEW q \in Procs
  PROVE  /\ proc[q] \in ProcRecs /\ Shape(proc[q]) /\ Locks(q)
         /\ Writes(proc[q]) => WriterKnows(q)
         /\ proc[q].verb = "repair" => RepairKnows(q)
         /\ proc[q].fd \in Nat /\ proc[q].base \in Seq(Line)
         /\ proc[q].file \in FileRecs /\ proc[q].file.lines \in Seq(Line)
         /\ copies \subseteq 1..MaxLines /\ Len(inodes) \in Nat
<1>1. proc[q] \in ProcRecs /\ ProcInv(q)
  BY DEF FilesInv
<1>2. Len(inodes) \in Nat
  BY LenProperties DEF FilesInv, DiskInv, DiskTyped
<1> QED BY <1>1, <1>2 DEF ProcInv, ProcRecs, FileRecs, FilesInv, DiskInv, DiskTyped

\* A refused verb returns and leaves everything as it was.
LEMMA RefusedKeeps ==
  ASSUME FilesInv, NEW q \in Procs, Return(q),
         UNCHANGED <<names, acked, written, crashes>>
  PROVE  FilesInv'
<1>1. AnchorPins'
  BY DEF FilesInv, DiskInv, AnchorPins, names
<1>2. /\ copies \subseteq 1..MaxLines /\ acked \subseteq 1..written
      /\ crashes \in 0..MaxCrashes
  BY DEF FilesInv, DiskInv, DiskTyped
<1> QED BY <1>1, <1>2, ReturnKeeps DEF names

LEMMA BeginKeeps ==
  ASSUME FilesInv, NEW q \in Procs, NEW verb \in AllVerbs, Begin(q, verb)
  PROVE  FilesInv'
<1> DEFINE pc == CASE verb = "read"   -> "snapshot"
                   [] verb = "repair" -> "diagnose"
                   [] OTHER           -> "open"
           seen == IF verb = "read" THEN acked # {} ELSE None
           new == [Idle EXCEPT !.verb = verb, !.seen = seen, !.pc = pc]
<1>1. proc[q] = Idle
  BY ProcFacts DEF Begin, Shape
<1>2. proc' = [proc EXCEPT ![q] = new]
  BY <1>1 DEF Begin, FilesInv
<1>3. seen \in {None} \cup BOOLEAN \cup Nat \cup FileRecs
  OBVIOUS
<1>4. pc \in Pcs
  BY DEF Pcs, LockedPcs
<1> HIDE DEF seen, pc
<1>5. /\ new \in ProcRecs /\ new.pc = pc /\ new.verb = verb /\ new.fd = 0
  BY <1>3, <1>4, IdleTyped DEF ProcRecs, Idle
<1>6. Idle.fd = 0
  BY DEF Idle
<1> HIDE DEF new
<1>7. Shape(new)
  BY <1>5 DEF Shape, Writes, pc, AllVerbs, WriterPcs, RepairPcs
<1>8. proc'[q] = new
  BY <1>2 DEF FilesInv
<1>9. Writes(new) => WriterKnows(q)'
  BY <1>5, <1>8 DEF Writes, WriterKnows, pc, OwnerPcs
<1>10. new.verb = "repair" => RepairKnows(q)'
  BY <1>5, <1>8 DEF RepairKnows, pc
<1>11. copies \subseteq 1..MaxLines
  BY ProcFacts
<1> QED BY <1>1, <1>2, <1>5, <1>6, <1>7, <1>9, <1>10, <1>11, StepKeeps
     DEF Begin, names

LEMMA ReadSnapshotKeeps ==
  ASSUME FilesInv, NEW q \in Procs, ReadSnapshot(q)
  PROVE  FilesInv'
<1> DEFINE s == proc[q]
           new == [s EXCEPT !.pc = "tail", !.base = snapshot]
<1>1. s \in ProcRecs /\ Shape(s) /\ s.pc = "snapshot"
  BY ProcFacts DEF ReadSnapshot
<1>2. proc' = [proc EXCEPT ![q] = new]
  BY DEF ReadSnapshot, FilesInv
<1>3. snapshot \in Seq(Line) /\ "tail" \in Pcs
  BY DEF FilesInv, DiskInv, DiskTyped, Pcs, LockedPcs
<1>4. /\ new \in ProcRecs /\ new.pc = "tail" /\ new.base = snapshot
      /\ new.verb = s.verb /\ new.fd = s.fd
  BY <1>1, <1>3 DEF ProcRecs
<1> HIDE DEF new
<1>5. Shape(new)
  BY <1>1, <1>4 DEF Shape, Writes, WriterPcs, RepairPcs, ProcRecs
<1>6. proc'[q] = new
  BY <1>2 DEF FilesInv
<1>7. Writes(new) => WriterKnows(q)'
  BY <1>1, <1>4, <1>6, ProcFacts
  DEF Writes, WriterKnows, OwnerPcs, ReadSnapshot, names
<1>8. new.verb # "repair"
  BY <1>1, <1>4 DEF Shape, RepairPcs
<1>9. copies \subseteq 1..MaxLines
  BY ProcFacts
<1> QED BY <1>1, <1>2, <1>4, <1>5, <1>7, <1>8, <1>9, StepKeeps
     DEF ReadSnapshot, names, LockedPcs

LEMMA ReadLedgerKeeps ==
  ASSUME FilesInv, NEW q \in Procs, ReadLedger(q)
  PROVE  FilesInv'
<1> DEFINE s == proc[q]
           pc == CASE s.verb = "append" -> "write"
                   [] s.verb = "rotate" -> "gate"
                   [] OTHER             -> "accepted"
           new == [s EXCEPT !.file = Current, !.pc = pc]
<1>1. s \in ProcRecs /\ Shape(s) /\ s.pc = "tail"
  BY ProcFacts DEF ReadLedger
<1>2. CASE ~Replays(s.base, Current)
  BY <1>2, RefusedKeeps DEF ReadLedger, Current
<1>3. CASE Replays(s.base, Current)
  <2>1. proc' = [proc EXCEPT ![q] = new] /\ UNCHANGED inodes
    BY <1>3 DEF ReadLedger, FilesInv, Current
  <2>2. Current \in FileRecs /\ pc \in Pcs
    BY CurrentTyped DEF FilesInv, DiskInv, CurrentShape, Pcs, LockedPcs
  <2> HIDE DEF pc
  <2>3. /\ new \in ProcRecs /\ new.pc = pc /\ new.file = Current
        /\ new.verb = s.verb /\ new.fd = s.fd /\ new.base = s.base
    BY <1>1, <2>2 DEF ProcRecs
  <2> HIDE DEF new
  <2>4. s.verb # "repair" /\ s.verb \in AllVerbs
    BY <1>1 DEF Shape, RepairPcs, ProcRecs
  <2>5. Shape(new) /\ (new.fd # 0 => pc \in LockedPcs)
    BY <1>1, <2>3, <2>4
    DEF Shape, Writes, WriterPcs, pc, AllVerbs, LockedPcs
  <2>6. proc'[q] = new /\ Current' = Current
    BY <2>1 DEF FilesInv, ReadLedger, names, Current, Bytes
  <2>7. Writes(new) => WriterKnows(q)'
    <3> SUFFICES ASSUME Writes(new) PROVE WriterKnows(q)'
      OBVIOUS
    <3>1. Writes(s) /\ pc \in {"write", "gate"}
      BY <2>3 DEF Writes, pc
    <3>2. s.fd = ledger /\ s.base = snapshot
      BY <1>1, <3>1, ProcFacts DEF WriterKnows, OwnerPcs
    <3>3. snapshot' = snapshot /\ ledger' = ledger
      BY DEF ReadLedger, names
    <3>4. ~Current.torn /\ Continues(s.base, Current.lines)
      BY <1>3 DEF Replays
    <3> QED BY <2>3, <2>6, <3>1, <3>2, <3>3, <3>4 DEF WriterKnows
  <2>8. copies \subseteq 1..MaxLines
    BY ProcFacts
  <2> QED BY <1>1, <2>1, <2>3, <2>4, <2>5, <2>7, <2>8, StepKeeps
       DEF ReadLedger, names, LockedPcs
<1> QED BY <1>2, <1>3

LEMMA GateKeeps ==
  ASSUME FilesInv, NEW q \in Procs, Gate(q)
  PROVE  FilesInv'
<1> DEFINE s == proc[q]
           new == [s EXCEPT !.pc = "copy"]
<1>1. s \in ProcRecs /\ Shape(s) /\ s.pc = "gate"
  BY ProcFacts DEF Gate
<1>2. CASE Return(q)
  BY <1>2, RefusedKeeps DEF Gate
<1>3. CASE ~Return(q)
  <2>1. /\ proc' = [proc EXCEPT ![q] = new] /\ UNCHANGED inodes
        /\ s.file.lines # <<>> /\ \A a \in archive : a.base # Len(View(q))
    BY <1>3 DEF Gate, FilesInv, Step
  <2>2. /\ new \in ProcRecs /\ new.pc = "copy" /\ new.file = s.file
        /\ new.verb = s.verb /\ new.fd = s.fd /\ new.base = s.base
    BY <1>1 DEF ProcRecs, Pcs, LockedPcs
  <2> HIDE DEF new
  <2>3. Writes(s) /\ s.verb # "repair"
    BY <1>1 DEF Shape, RepairPcs, Writes, ProcRecs, AllVerbs
  <2>4. Shape(new)
    BY <1>1, <2>2, <2>3 DEF Shape, Writes, WriterPcs
  <2>5. /\ proc'[q] = new /\ Current' = Current /\ View(q)' = View(q)
        /\ archive' = archive /\ snapshot' = snapshot /\ ledger' = ledger
    BY <2>1, <2>2 DEF FilesInv, Gate, names, Current, Bytes, View
  <2>6. WriterKnows(q)'
    BY <1>1, <2>1, <2>2, <2>3, <2>5, ProcFacts DEF WriterKnows, OwnerPcs
  <2>7. copies \subseteq 1..MaxLines
    BY ProcFacts
  <2> QED BY <1>1, <2>1, <2>2, <2>3, <2>4, <2>6, <2>7, StepKeeps
       DEF Gate, names, LockedPcs
<1> QED BY <1>2, <1>3

LEMMA CopySnapshotKeeps ==
  ASSUME FilesInv, NEW q \in Procs, CopySnapshot(q)
  PROVE  FilesInv'
<1> DEFINE s == proc[q]
           new == [s EXCEPT !.pc = "activate"]
<1>1. s \in ProcRecs /\ Shape(s) /\ s.pc = "copy"
  BY ProcFacts DEF CopySnapshot
<1>2. CASE Len(s.base) \in copies
  BY <1>2, RefusedKeeps DEF CopySnapshot, names
<1>3. CASE Len(s.base) \notin copies
  <2>1. /\ proc' = [proc EXCEPT ![q] = new] /\ UNCHANGED inodes
        /\ copies' = IF s.base = <<>> THEN copies ELSE copies \cup {Len(s.base)}
    BY <1>3 DEF CopySnapshot, FilesInv, Step
  <2>2. /\ new \in ProcRecs /\ new.pc = "activate" /\ new.file = s.file
        /\ new.verb = s.verb /\ new.fd = s.fd /\ new.base = s.base
    BY <1>1 DEF ProcRecs, Pcs, LockedPcs
  <2> HIDE DEF new
  <2>3. Writes(s) /\ s.verb # "repair"
    BY <1>1 DEF Shape, RepairPcs, Writes, ProcRecs, AllVerbs
  <2>4. Shape(new)
    BY <1>1, <2>2, <2>3 DEF Shape, Writes, WriterPcs
  <2>5. /\ proc'[q] = new /\ Current' = Current /\ View(q)' = View(q)
        /\ archive' = archive /\ snapshot' = snapshot /\ ledger' = ledger
    BY <2>1, <2>2 DEF FilesInv, CopySnapshot, Current, Bytes, View
  <2>6. WriterKnows(q)'
    BY <1>1, <2>1, <2>2, <2>3, <2>5, ProcFacts DEF WriterKnows, OwnerPcs
  <2>7. copies' \subseteq 1..MaxLines
    <3>1. s.base = snapshot /\ copies \subseteq 1..MaxLines
      BY <1>1, <2>3, ProcFacts DEF WriterKnows
    <3>2. Len(snapshot) \in Nat /\ Len(snapshot) <= MaxLines
          /\ (snapshot # <<>> => Len(snapshot) # 0)
      BY CommittedTyped, EmptySeq, FilesAssumption
      DEF FilesInv, FilesAssumption
    <3>3. s.base # <<>> => Len(s.base) \in 1..MaxLines
      BY <3>1, <3>2, FilesAssumption DEF FilesAssumption
    <3> QED BY <2>1, <3>1, <3>3
  <2> QED BY <1>1, <2>1, <2>2, <2>3, <2>4, <2>6, <2>7, StepKeeps
       DEF CopySnapshot, LockedPcs
<1> QED BY <1>2, <1>3

------------------------------------------------------------------------------
(* repair, as far as it only reads.                                        *)

\* What repair relies on is about the files it does not hold as well.
LEMMA SameSight ==
  ASSUME Current' = Current, snapshot' = snapshot, ledger' = ledger, aside' = aside
  PROVE  /\ \A f : Aside(f)' <=> Aside(f)
         /\ \A f : Diagnosed(f)' <=> Diagnosed(f)
         /\ \A f, fd : Damaged(f, fd)' <=> Damaged(f, fd)
         /\ Remains' = Remains
<1>1. \A f : Aside(f)' <=> Aside(f)
  BY DEF Aside
<1>2. \A f : Diagnosed(f)' <=> Diagnosed(f)
  BY <1>1 DEF Diagnosed
<1>3. \A f, fd : Damaged(f, fd)' <=> Damaged(f, fd)
  BY <1>1 DEF Damaged
<1> QED BY <1>1, <1>2, <1>3 DEF Remains

LEMMA DiagnoseFileKeeps ==
  ASSUME FilesInv, NEW q \in Procs, DiagnoseFile(q)
  PROVE  FilesInv'
<1> DEFINE s == proc[q]
           new == [s EXCEPT !.pc = "judge", !.file = Current]
<1>1. s \in ProcRecs /\ Shape(s) /\ s.pc = "diagnose" /\ s.verb = "repair"
  BY ProcFacts DEF DiagnoseFile, Is
<1>2. CASE ledger = 0
  BY <1>2, RefusedKeeps DEF DiagnoseFile
<1>3. CASE ledger # 0
  <2>1. proc' = [proc EXCEPT ![q] = new] /\ UNCHANGED inodes
    BY <1>3 DEF DiagnoseFile, FilesInv, Current
  <2>2. CurrentShape
    BY CurrentTyped DEF FilesInv, DiskInv
  <2>3. /\ new \in ProcRecs /\ new.pc = "judge" /\ new.file = Current
        /\ new.verb = s.verb /\ new.fd = s.fd /\ new.seen = s.seen
    BY <1>1, <2>2 DEF ProcRecs, Pcs, LockedPcs, CurrentShape
  <2> HIDE DEF new
  <2>4. Shape(new)
    BY <1>1, <2>3 DEF Shape, Writes, RepairPcs
  <2>5. /\ proc'[q] = new /\ Current' = Current /\ snapshot' = snapshot
        /\ ledger' = ledger /\ aside' = aside
    BY <2>1 DEF FilesInv, DiagnoseFile, names, Current, Bytes
  <2>6. Diagnosed(Current)
    BY <2>2, PrefixReflexive DEF Diagnosed, CurrentShape
  <2>7. s.fd # 0 => Damaged(s.seen, s.fd)
    BY <1>1, ProcFacts DEF RepairKnows
  <2>8. s.fd # 0 /\ Current = s.seen => Aside(s.seen) \/ s.fd = ledger
    BY <2>7 DEF Damaged
  <2>9. /\ \A f : Aside(f)' <=> Aside(f)
        /\ \A f : Diagnosed(f)' <=> Diagnosed(f)
        /\ \A f, fd : Damaged(f, fd)' <=> Damaged(f, fd)
    BY <2>5, SameSight
  <2>11. RepairKnows(q)'
    BY <2>3, <2>5, <2>6, <2>7, <2>8, <2>9 DEF RepairKnows
  <2>12. ~Writes(new) /\ copies \subseteq 1..MaxLines
    BY <1>1, <2>3, ProcFacts DEF Writes
  <2> QED BY <1>1, <2>1, <2>3, <2>4, <2>11, <2>12, StepKeeps
       DEF DiagnoseFile, names, LockedPcs
<1> QED BY <1>2, <1>3

LEMMA JudgeKeeps ==
  ASSUME FilesInv, NEW q \in Procs, Judge(q)
  PROVE  FilesInv'
<1> DEFINE s == proc[q]
<1>1. /\ s \in ProcRecs /\ Shape(s) /\ s.pc = "judge" /\ s.verb = "repair"
      /\ RepairKnows(q) /\ s.file \in FileRecs /\ s.file.lines \in Seq(Line)
      /\ copies \subseteq 1..MaxLines
  BY ProcFacts DEF Judge, Is
<1>2. CASE Return(q)
  BY <1>2, RefusedKeeps DEF Judge
<1>3. CASE ~Return(q) /\ s.fd = 0
  <2> DEFINE new == [s EXCEPT !.pc = "reopen", !.seen = s.file]
  <2>1. /\ proc' = [proc EXCEPT ![q] = new] /\ UNCHANGED inodes
        /\ ~Replays(snapshot, s.file)
    BY <1>3 DEF Judge, FilesInv
  <2>2. /\ new \in ProcRecs /\ new.pc = "reopen" /\ new.seen = s.file
        /\ new.verb = s.verb /\ new.fd = s.fd
    BY <1>1 DEF ProcRecs, Pcs
  <2> HIDE DEF new
  <2>3. Shape(new) /\ ~Writes(new)
    BY <1>1, <1>3, <2>2 DEF Shape, Writes, RepairPcs
  <2>4. /\ proc'[q] = new /\ Current' = Current /\ snapshot' = snapshot
        /\ ledger' = ledger /\ aside' = aside
    BY <2>1 DEF FilesInv, Judge, names, Current, Bytes
  <2>5. Diagnosed(s.file)
    BY <1>1, <1>3 DEF RepairKnows
  <2>6. Damaged(s.file, 0)
    <3>1. CASE s.file.torn
      BY <1>1, <2>5, <3>1 DEF Diagnosed, Damaged
    <3>2. CASE ~s.file.torn
      <4>1. ~Continues(snapshot, s.file.lines) /\ s.file.lines # <<>>
        BY <2>1, <3>2, ContinuesEmpty DEF Replays
      <4>2. Current.lines \in Seq(Line) /\ DOMAIN Current.lines = 1..Len(Current.lines)
        BY CurrentTyped, LenProperties DEF FilesInv, DiskInv, CurrentShape
      <4>3. ASSUME IsPrefix(s.file.lines, Current.lines)
            PROVE  s.file.lines[1] \in ToSet(snapshot)
        <5>1. Folded
          BY <1>1, <4>1, <4>2, <4>3, ContinuesPrefix
          DEF FilesInv, DiskInv, Attached
        <5>2. Current.lines # <<>> /\ s.file.lines[1] = Current.lines[1]
          BY <1>1, <4>1, <4>2, <4>3, FirstOfPrefix
        <5>3. 1 \in DOMAIN Current.lines
          BY <4>2, <5>2, EmptySeq
        <5> QED BY <5>1, <5>2, <5>3 DEF Folded
      <4>4. s.file.lines[1] \in ToSet(snapshot)
        BY <2>5, <3>2, <4>1, <4>3 DEF Diagnosed
      <4> QED BY <1>1, <3>2, <4>1, <4>4 DEF Damaged
    <3> QED BY <3>1, <3>2
  <2>7. \A f, fd : Damaged(f, fd)' <=> Damaged(f, fd)
    BY <2>4, SameSight
  <2>8. RepairKnows(q)'
    BY <1>3, <2>2, <2>4, <2>6, <2>7 DEF RepairKnows
  <2> QED BY <1>1, <1>3, <2>1, <2>2, <2>3, <2>8, StepKeeps DEF Judge, names
<1>4. CASE ~Return(q) /\ s.fd # 0
  <2> DEFINE new == [s EXCEPT !.pc = "stage", !.base = snapshot]
  <2>1. /\ proc' = [proc EXCEPT ![q] = new] /\ UNCHANGED inodes
        /\ s.file = s.seen
    BY <1>4 DEF Judge, FilesInv
  <2>2. snapshot \in Seq(Line)
    BY DEF FilesInv, DiskInv, DiskTyped
  <2>3. /\ new \in ProcRecs /\ new.pc = "stage" /\ new.seen = s.seen
        /\ new.file = s.file /\ new.base = snapshot
        /\ new.verb = s.verb /\ new.fd = s.fd
    BY <1>1, <2>2 DEF ProcRecs, Pcs, LockedPcs
  <2> HIDE DEF new
  <2>4. Shape(new) /\ ~Writes(new)
    BY <1>1, <1>4, <2>3 DEF Shape, Writes, RepairPcs
  <2>5. /\ proc'[q] = new /\ Current' = Current /\ snapshot' = snapshot
        /\ ledger' = ledger /\ aside' = aside
    BY <2>1 DEF FilesInv, Judge, names, Current, Bytes
  <2>6. Aside(s.seen) \/ (s.fd = ledger /\ Current = s.seen)
    BY <1>1, <1>4, <2>1 DEF RepairKnows
  <2>7. /\ \A f : Aside(f)' <=> Aside(f)
        /\ \A f, fd : Damaged(f, fd)' <=> Damaged(f, fd)
    BY <2>5, SameSight
  <2>8. RepairKnows(q)'
    BY <2>1, <2>3, <2>5, <2>6, <2>7 DEF RepairKnows
  <2> QED BY <1>1, <2>1, <2>3, <2>4, <2>8, StepKeeps DEF Judge, names, LockedPcs
<1> QED BY <1>2, <1>3, <1>4

\* The longest clean prefix exists; it is all of a file that continues the
\* snapshot and nothing of one whose first line does not.
LEMMA CleanPrefixIs ==
  ASSUME NEW b \in Seq(Line), NEW s \in Seq(Line)
  PROVE  /\ CleanPrefix(b, s) \in 0..Len(s)
         /\ Continues(b, s) => CleanPrefix(b, s) = Len(s)
         /\ s # <<>> /\ s[1].prev # HeadOf(b, s[1].cap) => CleanPrefix(b, s) = 0
<1> DEFINE Clean(n) == Continues(b, SubSeq(s, 1, n))
           Longest(n) == Clean(n) /\ (n < Len(s) => ~Clean(n + 1))
<1>1. Len(s) \in Nat
  BY LenProperties
<1>2. Clean(0)
  <2>1. SubSeq(s, 1, 0) = <<>>
    BY SubSeqEmpty
  <2> QED BY <2>1, ContinuesEmpty
<1>3. \A n \in 0..Len(s) : /\ SubSeq(s, 1, n) \in Seq(Line)
                           /\ Len(SubSeq(s, 1, n)) = n
                           /\ IsPrefix(SubSeq(s, 1, n), s)
  BY CutIsPrefix
<1>4. \E n \in 0..Len(s) : Longest(n)
  <2> DEFINE G == {k \in 1..Len(s) + 1 : Clean(k - 1)}
  <2>1. 1 \in G /\ G \in SUBSET (1..Len(s) + 1)
    <3>1. 1 - 1 = 0 /\ 1 \in 1..Len(s) + 1
      BY <1>1
    <3>2. Clean(1 - 1)
      BY <1>2, <3>1
    <3> HIDE DEF Clean
    <3> QED BY <3>1, <3>2
  <2>2. Max(G) \in G /\ \A k \in G : k <= Max(G)
    <3>1. Len(s) + 1 \in Nat
      BY <1>1
    <3> HIDE DEF G
    <3> QED BY <2>1, <3>1, LastExists
  <2>3. PICK m \in 1..Len(s) + 1 : Clean(m - 1) /\ \A k \in G : k <= m
    <3> HIDE DEF Clean
    <3> QED BY <2>2
  <2>4. m - 1 \in 0..Len(s) /\ (m - 1) + 1 = m /\ (m + 1) - 1 = m
    BY <1>1
  <2>5. ASSUME m - 1 < Len(s), Clean(m) PROVE FALSE
    <3> HIDE DEF Clean
    <3>1. m + 1 \in 1..Len(s) + 1
      BY <1>1, <2>5
    <3>2. m + 1 \in G
      BY <2>4, <2>5, <3>1
    <3>3. m + 1 <= m
      BY <2>3, <3>2
    <3> QED BY <1>1, <3>3
  <2>6. Longest(m - 1)
    <3> HIDE DEF Clean
    <3> QED BY <2>3, <2>4, <2>5
  <2> QED BY <2>4, <2>6
<1>5. CleanPrefix(b, s) = CHOOSE n \in 0..Len(s) : Longest(n)
  BY DEF CleanPrefix
<1>6. PICK n : n = CleanPrefix(b, s) /\ n \in 0..Len(s) /\ Longest(n)
  <2> HIDE DEF Longest
  <2> QED BY <1>4, <1>5
<1>7. ASSUME Continues(b, s) PROVE n = Len(s)
  <2> SUFFICES ASSUME n < Len(s) PROVE FALSE
    BY <1>1, <1>6
  <2>1. n + 1 \in 0..Len(s)
    BY <1>1, <1>6
  <2>2. Clean(n + 1)
    BY <1>3, <1>7, <2>1, ContinuesPrefix
  <2> QED BY <1>6, <2>2
<1>8. ASSUME s # <<>>, s[1].prev # HeadOf(b, s[1].cap) PROVE n = 0
  <2> SUFFICES ASSUME n >= 1 PROVE FALSE
    BY <1>6
  <2> DEFINE t == SubSeq(s, 1, n)
  <2>1. t \in Seq(Line) /\ Len(t) = n /\ IsPrefix(t, s) /\ Continues(b, t)
    BY <1>3, <1>6
  <2> HIDE DEF t
  <2>2. t # <<>>
    BY <2>1, EmptySeq
  <2>3. t[1] = s[1]
    BY <2>1, <2>2, FirstOfPrefix
  <2>4. t[1].prev = HeadOf(b, t[1].cap)
    BY <2>1, <2>2, FirstPins
  <2> QED BY <1>8, <2>3, <2>4
<1> QED BY <1>6, <1>7, <1>8

LEMMA StageKeeps ==
  ASSUME FilesInv, NEW q \in Procs, Stage(q)
  PROVE  FilesInv'
<1> DEFINE s == proc[q]
           now == Current.lines
           keep == CleanPrefix(s.base, s.file.lines)
           kept == SubSeq(now, 1, IF keep < Len(now) THEN keep ELSE Len(now))
           new == [s EXCEPT !.pc = "link", !.file.lines = kept]
<1>1. /\ s \in ProcRecs /\ Shape(s) /\ s.pc = "stage" /\ s.verb = "repair"
      /\ RepairKnows(q) /\ s.file \in FileRecs /\ s.file.lines \in Seq(Line)
      /\ s.base \in Seq(Line) /\ copies \subseteq 1..MaxLines
  BY ProcFacts DEF Stage, Is
<1>2. CASE ledger = 0
  BY <1>2, RefusedKeeps DEF Stage
<1>3. CASE ledger # 0
  <2>1. proc' = [proc EXCEPT ![q] = new] /\ UNCHANGED inodes
    BY <1>1, <1>3 DEF Stage, FilesInv, Current
  <2>2. now \in Seq(Line) /\ Len(now) \in Nat
    BY CurrentTyped, LenProperties DEF FilesInv, DiskInv, CurrentShape
  <2>3. keep \in 0..Len(s.file.lines) /\ Len(s.file.lines) \in Nat
    BY <1>1, CleanPrefixIs, LenProperties
  <2>4. kept \in Seq(Line)
    <3>1. (IF keep < Len(now) THEN keep ELSE Len(now)) \in 0..Len(now)
      BY <2>2, <2>3
    <3> HIDE DEF now, keep
    <3> QED BY <2>2, <3>1, CutIsPrefix
  <2>5. ASSUME ~Aside(s.seen) PROVE kept = Remains
    <3>1. Current = s.seen /\ s.base = snapshot /\ s.file = s.seen
      BY <1>1, <2>5 DEF RepairKnows
    <3>2. s.file.lines = now
      BY <3>1
    <3>3. CASE Continues(snapshot, now)
      <4>1. keep = Len(now)
        BY <1>1, <3>1, <3>2, <3>3, CleanPrefixIs
      <4>2. kept = SubSeq(now, 1, Len(now))
        BY <2>2, <4>1
      <4> QED BY <2>2, <3>3, <4>2, SubSeqFull DEF Remains
    <3>4. CASE ~Continues(snapshot, now)
      <4>1. Folded
        BY <3>4 DEF FilesInv, DiskInv, Attached
      <4>2. keep = 0 /\ now # <<>>
        BY <1>1, <3>1, <3>2, <4>1, CleanPrefixIs DEF Folded
      <4>3. kept = SubSeq(now, 1, 0)
        BY <2>2, <4>2, EmptySeq
      <4>4. SubSeq(now, 1, 0) = <<>> /\ Remains = <<>>
        BY <3>4, SubSeqEmpty DEF Remains
      <4> QED BY <4>3, <4>4
    <3> QED BY <3>3, <3>4
  <2> HIDE DEF kept
  <2>6. /\ new \in ProcRecs /\ new.pc = "link" /\ new.seen = s.seen
        /\ new.file.lines = kept /\ new.base = s.base
        /\ new.verb = s.verb /\ new.fd = s.fd
    BY <1>1, <2>4 DEF ProcRecs, FileRecs, Pcs, LockedPcs
  <2> HIDE DEF new
  <2>7. Shape(new) /\ ~Writes(new)
    BY <1>1, <2>6 DEF Shape, Writes, RepairPcs
  <2>8. /\ proc'[q] = new /\ Current' = Current /\ snapshot' = snapshot
        /\ ledger' = ledger /\ aside' = aside
    BY <2>1 DEF FilesInv, Stage, names, Current, Bytes
  <2>9. (\A f : Aside(f)' <=> Aside(f)) /\ Remains' = Remains
    BY <2>8, SameSight
  <2>10. Aside(s.seen) \/ (s.fd = ledger /\ Current = s.seen /\ s.base = snapshot)
    BY <1>1 DEF RepairKnows
  <2>11. RepairKnows(q)'
    BY <2>5, <2>6, <2>8, <2>9, <2>10 DEF RepairKnows
  <2> QED BY <1>1, <2>1, <2>6, <2>7, <2>11, StepKeeps DEF Stage, names, LockedPcs
<1> QED BY <1>2, <1>3

------------------------------------------------------------------------------
(* Opening and locking.                                                    *)

LEMMA ReopenKeeps ==
  ASSUME FilesInv, NEW q \in Procs, Reopen(q)
  PROVE  FilesInv'
<1> DEFINE s == proc[q]
           new == [s EXCEPT !.pc = "lock", !.fd = ledger]
<1>1. /\ s \in ProcRecs /\ Shape(s) /\ s.pc = "reopen" /\ s.verb = "repair"
      /\ RepairKnows(q) /\ Locks(q) /\ Len(inodes) \in Nat
  BY ProcFacts DEF Reopen, Is
<1>2. CASE ledger = 0
  BY <1>2, RefusedKeeps DEF Reopen
<1>3. CASE ledger # 0
  <2>1. proc' = [proc EXCEPT ![q] = new] /\ UNCHANGED inodes
    BY <1>3 DEF Reopen, FilesInv
  <2>2. ledger \in 1..Len(inodes)
    BY <1>1, <1>3 DEF FilesInv, DiskInv, DiskTyped
  <2>3. /\ new \in ProcRecs /\ new.pc = "lock" /\ new.seen = s.seen
        /\ new.verb = s.verb /\ new.fd = ledger
    <3>1. ledger \in Nat
      BY <1>1, <2>2
    <3> QED BY <1>1, <3>1 DEF ProcRecs, Pcs
  <2> HIDE DEF new
  <2>4. /\ proc'[q] = new /\ Current' = Current /\ snapshot' = snapshot
        /\ ledger' = ledger /\ aside' = aside
    BY <2>1 DEF FilesInv, Reopen, names, Current, Bytes
  <2>5. \A f, fd : Damaged(f, fd)' <=> Damaged(f, fd)
    BY <2>4, SameSight
  <2>6. Damaged(s.seen, ledger)
    BY <1>1 DEF RepairKnows, Damaged
  <2>7. RepairKnows(q)'
    BY <2>3, <2>4, <2>5, <2>6 DEF RepairKnows
  <2>8. Shape(new) /\ ~Writes(new)
    BY <1>1, <1>3, <2>3 DEF Shape, Writes, RepairPcs
  <2>9. Locks(q)'
    BY <1>1, <2>1, <2>2, <2>3, <2>4 DEF Locks, LockedPcs
  <2>10. Quiet(q)
    BY <2>1, SameQuiet DEF Reopen, names
  <2>11. DiskTyped' /\ AnchorPins'
    BY <2>1 DEF FilesInv, DiskInv, DiskTyped, AnchorPins, Reopen, names
  <2>12. DiskInv' /\ Frame(q)
    BY <2>10, <2>11, QuietDisk, QuietFrame DEF FilesInv, DiskInv
  <2>13. ProcInv(q)'
    BY <1>1, <2>3, <2>4, <2>7, <2>8, <2>9 DEF ProcInv
  <2> QED BY <2>1, <2>3, <2>12, <2>13, OneMoves
<1> QED BY <1>2, <1>3

LEMMA LockKeeps ==
  ASSUME FilesInv, NEW q \in Procs, Lock(q)
  PROVE  FilesInv'
<1> DEFINE s == proc[q]
           pc == IF s.verb = "repair" THEN "diagnose" ELSE "check"
           new == [s EXCEPT !.pc = pc]
<1>1. /\ s \in ProcRecs /\ Shape(s) /\ s.pc = "lock" /\ Locks(q)
      /\ Len(inodes) \in Nat /\ s.fd \in Nat
      /\ s.verb = "repair" => RepairKnows(q)
  BY ProcFacts DEF Lock
<1>2. s.fd # 0 /\ s.fd \in 1..Len(inodes) /\ (s.verb = "repair" \/ Writes(s))
  BY <1>1 DEF Shape, Locks, Writes, ProcRecs, AllVerbs, WriterPcs
<1>3. proc' = [proc EXCEPT ![q] = new]
  BY DEF Lock, Step, FilesInv
<1>4. /\ inodes \in Seq(InodeRecs) /\ inodes[s.fd] \in InodeRecs
      /\ inodes[s.fd].lock = None
      /\ inodes' = [inodes EXCEPT ![s.fd] = [inodes[s.fd] EXCEPT !.lock = q]]
  BY <1>2, ElementOfSeq DEF Lock, FilesInv, DiskInv, DiskTyped
<1>5. [inodes[s.fd] EXCEPT !.lock = q] \in InodeRecs
  BY <1>4 DEF InodeRecs
<1>6. /\ inodes' \in Seq(InodeRecs) /\ Len(inodes') = Len(inodes)
      /\ \A i \in 1..Len(inodes) :
           inodes'[i] = IF i = s.fd THEN [inodes[s.fd] EXCEPT !.lock = q]
                        ELSE inodes[i]
  BY <1>2, <1>4, <1>5, ExceptSeq
<1>7. \A i \in 1..Len(inodes) :
        /\ inodes'[i].lines = inodes[i].lines /\ inodes'[i].torn = inodes[i].torn
        /\ inodes'[i].lock = IF i = s.fd THEN q ELSE inodes[i].lock
  BY <1>4, <1>6 DEF InodeRecs
<1>8. /\ new \in ProcRecs /\ new.pc = pc /\ new.seen = s.seen
      /\ new.verb = s.verb /\ new.fd = s.fd
  BY <1>1 DEF ProcRecs, Pcs, LockedPcs
<1> HIDE DEF new
<1>9. /\ proc'[q] = new /\ snapshot' = snapshot /\ ledger' = ledger
      /\ aside' = aside /\ archive' = archive /\ written' = written
  BY <1>3 DEF FilesInv, Lock, names
<1>10. Current' = Current
  BY <1>1, <1>6, <1>7, <1>9 DEF Current, Bytes, FilesInv, DiskInv, DiskTyped
<1>11. Stay(q)
  BY <1>1, <1>2, <1>4, <1>6, <1>7, FilesAssumption DEF Stay, FilesAssumption
<1>12. Quiet(q)
  BY <1>6, <1>7, <1>9, <1>10, <1>11 DEF Quiet
<1>13. DiskTyped' /\ AnchorPins'
  <2>1. DOMAIN inodes' = DOMAIN inodes
    BY <1>4, <1>6, LenProperties
  <2> QED BY <1>6, <2>1 DEF FilesInv, DiskInv, DiskTyped, AnchorPins, Lock, names
<1>14. DiskInv' /\ Frame(q)
  BY <1>12, <1>13, QuietDisk, QuietFrame DEF FilesInv, DiskInv
<1>15. Shape(new)
  BY <1>1, <1>2, <1>8 DEF Shape, Writes, WriterPcs, RepairPcs
<1>16. Locks(q)'
  BY <1>1, <1>2, <1>6, <1>7, <1>8, <1>9 DEF Locks, LockedPcs
<1>17. Writes(new) => WriterKnows(q)'
  BY <1>8, <1>9 DEF WriterKnows, OwnerPcs, Writes
<1>18. new.verb = "repair" => RepairKnows(q)'
  <2>1. \A f, fd : Damaged(f, fd)' <=> Damaged(f, fd)
    BY <1>9, <1>10, SameSight
  <2> QED BY <1>1, <1>8, <1>9, <2>1 DEF RepairKnows
<1>19. ProcInv(q)'
  BY <1>9, <1>15, <1>16, <1>17, <1>18 DEF ProcInv
<1> QED BY <1>3, <1>8, <1>14, <1>19, OneMoves

LEMMA CheckSameKeeps ==
  ASSUME FilesInv, NEW q \in Procs, CheckSame(q)
  PROVE  FilesInv'
<1> DEFINE s == proc[q]
<1>1. /\ s \in ProcRecs /\ Shape(s) /\ s.pc = "check" /\ Writes(s)
      /\ copies \subseteq 1..MaxLines
  BY ProcFacts DEF CheckSame, Shape, RepairPcs, Writes, ProcRecs, AllVerbs
<1>2. CASE s.fd = ledger
  <2> DEFINE new == [s EXCEPT !.pc = "snapshot"]
  <2>1. proc' = [proc EXCEPT ![q] = new] /\ UNCHANGED inodes
    BY <1>2 DEF CheckSame, SameFile, Step, FilesInv
  <2>2. /\ new \in ProcRecs /\ new.pc = "snapshot"
        /\ new.verb = s.verb /\ new.fd = s.fd
    BY <1>1 DEF ProcRecs, Pcs, LockedPcs
  <2> HIDE DEF new
  <2>3. Shape(new) /\ new.verb # "repair"
    BY <1>1, <2>2 DEF Shape, Writes, WriterPcs
  <2>4. proc'[q] = new /\ ledger' = ledger
    BY <2>1 DEF FilesInv, CheckSame, names
  <2>5. WriterKnows(q)'
    BY <1>2, <2>2, <2>4 DEF WriterKnows
  <2> QED BY <1>1, <2>1, <2>2, <2>3, <2>5, StepKeeps DEF CheckSame, names, LockedPcs
<1>3. CASE s.fd # ledger /\ s.tries = Attempts
  <2>1. Return(q)
    BY <1>3 DEF CheckSame, SameFile, Return, FilesInv
  <2> QED BY <2>1, RefusedKeeps DEF CheckSame
<1>4. CASE s.fd # ledger /\ s.tries # Attempts
  <2> DEFINE new == [s EXCEPT !.pc = "open", !.fd = 0]
  <2>1. proc' = [proc EXCEPT ![q] = new] /\ inodes' = Unlocked(inodes, q)
    BY <1>4 DEF CheckSame, SameFile, FilesInv
  <2>2. /\ new \in ProcRecs /\ new.pc = "open"
        /\ new.verb = s.verb /\ new.fd = 0
    BY <1>1 DEF ProcRecs, Pcs
  <2> HIDE DEF new
  <2>3. Shape(new) /\ new.verb # "repair"
    BY <1>1, <2>2 DEF Shape, Writes, WriterPcs
  <2>4. proc'[q] = new
    BY <2>1 DEF FilesInv
  <2>5. /\ Quiet(q) /\ inodes' \in Seq(InodeRecs) /\ Len(inodes') = Len(inodes)
        /\ \A i \in 1..Len(inodes') : inodes'[i].lock # q
    BY <2>1, UnlockQuiet DEF CheckSame, names
  <2>6. DiskTyped' /\ AnchorPins'
    <3>1. DOMAIN inodes' = DOMAIN inodes
      BY <2>5, LenProperties DEF FilesInv, DiskInv, DiskTyped
    <3> QED BY <2>5, <3>1
         DEF FilesInv, DiskInv, DiskTyped, AnchorPins, CheckSame, names
  <2>7. DiskInv' /\ Frame(q)
    BY <2>5, <2>6, QuietDisk, QuietFrame DEF FilesInv, DiskInv
  <2>8. ProcInv(q)'
    BY <2>2, <2>3, <2>4, <2>5 DEF ProcInv, Locks, WriterKnows, OwnerPcs
  <2> QED BY <2>1, <2>2, <2>7, <2>8, OneMoves
<1> QED BY <1>2, <1>3, <1>4

\* A new empty file at a path that led nowhere.
LEMMA NewFile ==
  ASSUME FilesInv, NEW q \in Procs, ledger = 0,
         inodes' = Append(inodes, Fresh(<<>>)), ledger' = Len(inodes'),
         UNCHANGED <<snapshot, copies, archive, aside, anchor,
                     acked, written, crashes>>
  PROVE  /\ DiskInv' /\ Frame(q) /\ Current' = Current
         /\ ledger' = Len(inodes) + 1 /\ Len(inodes') = Len(inodes) + 1
         /\ \A i \in 1..Len(inodes) : inodes'[i] = inodes[i]
         /\ inodes'[Len(inodes) + 1].lock = None
<1>1. inodes \in Seq(InodeRecs) /\ Len(inodes) \in Nat
  BY LenProperties DEF FilesInv, DiskInv, DiskTyped
<1>2. Fresh(<<>>) \in InodeRecs
  BY EmptySeq DEF Fresh, InodeRecs
<1>3. /\ inodes' \in Seq(InodeRecs) /\ Len(inodes') = Len(inodes) + 1
      /\ \A i \in 1..Len(inodes) : inodes'[i] = inodes[i]
      /\ inodes'[Len(inodes) + 1] = Fresh(<<>>)
  BY <1>1, <1>2, AppendProperties
<1>4. DOMAIN inodes = 1..Len(inodes) /\ DOMAIN inodes' = 1..Len(inodes) + 1
  BY <1>1, <1>3, LenProperties
<1>5. Current' = Current
  <2>1. ledger' = Len(inodes) + 1 /\ ledger' # 0
    BY <1>1, <1>3
  <2>2. inodes'[ledger'].lines = <<>> /\ inodes'[ledger'].torn = FALSE
    BY <1>3, <2>1 DEF Fresh
  <2>3. Current' = [lines |-> inodes'[ledger'].lines, torn |-> inodes'[ledger'].torn]
    BY <2>1 DEF Current, Bytes
  <2> QED BY <2>2, <2>3 DEF Current, Bytes, NoFile
<1>6. \A p \in Procs : p # None
  BY FilesAssumption DEF FilesAssumption
<1>7. Stay(q)
  BY <1>1, <1>3, <1>6 DEF Stay, Fresh
<1>8. Quiet(q)
  BY <1>3, <1>5, <1>7 DEF Quiet
<1>9. DiskTyped' /\ AnchorPins'
  BY <1>1, <1>3, <1>4 DEF FilesInv, DiskInv, DiskTyped, AnchorPins
<1> QED BY <1>3, <1>5, <1>8, <1>9, QuietDisk, QuietFrame
     DEF FilesInv, DiskInv, Fresh

LEMMA OpenKeeps ==
  ASSUME FilesInv, NEW q \in Procs, Open(q)
  PROVE  FilesInv'
<1> DEFINE s == proc[q]
           new == [s EXCEPT !.pc = "lock", !.fd = ledger', !.tries = @ + 1]
<1>1. /\ s \in ProcRecs /\ Shape(s) /\ s.pc = "open" /\ Writes(s) /\ Locks(q)
      /\ Len(inodes) \in Nat
  BY ProcFacts DEF Open, Shape, RepairPcs, Writes, ProcRecs, AllVerbs
<1>2. \A i \in 1..Len(inodes) : inodes[i].lock # q
  BY <1>1 DEF Locks, LockedPcs
<1>3. /\ DiskInv' /\ Frame(q) /\ ledger' \in 1..Len(inodes')
      /\ \A i \in 1..Len(inodes') : inodes'[i].lock # q
  <2>1. CASE ledger = 0
    <3>1. /\ DiskInv' /\ Frame(q) /\ ledger' = Len(inodes) + 1
          /\ Len(inodes') = Len(inodes) + 1
          /\ \A i \in 1..Len(inodes) : inodes'[i] = inodes[i]
          /\ inodes'[Len(inodes) + 1].lock = None
      BY <2>1, NewFile DEF Open
    <3> QED BY <1>1, <1>2, <3>1, FilesAssumption DEF FilesAssumption
  <2>2. CASE ledger # 0
    <3>1. Quiet(q)
      BY <2>2, SameQuiet DEF Open
    <3>2. DiskTyped' /\ AnchorPins'
      BY <2>2 DEF FilesInv, DiskInv, DiskTyped, AnchorPins, Open
    <3>3. DiskInv' /\ Frame(q)
      BY <3>1, <3>2, QuietDisk, QuietFrame DEF FilesInv, DiskInv
    <3>4. ledger' \in 1..Len(inodes')
      BY <1>1, <2>2 DEF FilesInv, DiskInv, DiskTyped, Open
    <3> QED BY <1>2, <2>2, <3>3, <3>4 DEF Open
  <2> QED BY <2>1, <2>2
<1>4. proc' = [proc EXCEPT ![q] = new]
  BY DEF Open, FilesInv
<1>5. ledger' \in Nat /\ ledger' # 0
  BY <1>3
<1>6. /\ new \in ProcRecs /\ new.pc = "lock" /\ new.verb = s.verb /\ new.fd = ledger'
  <2>1. s.tries + 1 \in Nat /\ "lock" \in Pcs
    BY <1>1 DEF ProcRecs, Pcs
  <2>2. \A n \in Nat, k \in Nat :
          LET t == [s EXCEPT !.pc = "lock", !.fd = n, !.tries = k] IN
          t \in ProcRecs /\ t.pc = "lock" /\ t.verb = s.verb /\ t.fd = n
    BY <1>1, <2>1 DEF ProcRecs
  <2>3. new = [s EXCEPT !.pc = "lock", !.fd = ledger', !.tries = s.tries + 1]
    BY <1>1 DEF ProcRecs
  <2> HIDE DEF new
  <2> QED BY <1>5, <2>1, <2>2, <2>3
<1> HIDE DEF new
<1>7. Shape(new) /\ new.verb # "repair"
  BY <1>1, <1>5, <1>6 DEF Shape, Writes, WriterPcs
<1>8. proc'[q] = new
  BY <1>4 DEF FilesInv
<1>9. ProcInv(q)'
  BY <1>3, <1>6, <1>7, <1>8 DEF ProcInv, Locks, WriterKnows, OwnerPcs, LockedPcs
<1> QED BY <1>3, <1>4, <1>6, <1>9, OneMoves

LEMMA CreateEmptyKeeps ==
  ASSUME FilesInv, NEW q \in Procs, CreateEmpty(q)
  PROVE  FilesInv'
<1> DEFINE s == proc[q]
           new == [s EXCEPT !.pc = "anchor"]
<1>1. /\ s \in ProcRecs /\ Shape(s) /\ s.pc = "create" /\ Writes(s) /\ Locks(q)
      /\ WriterKnows(q) /\ Len(inodes) \in Nat /\ s.fd # 0
  BY ProcFacts DEF CreateEmpty, Shape, RepairPcs, Writes, ProcRecs, AllVerbs
<1>2. /\ DiskInv' /\ Frame(q)
      /\ \A i \in 1..Len(inodes) : i \in 1..Len(inodes') /\ inodes'[i] = inodes[i]
      /\ \A i \in 1..Len(inodes') :
             i \in 1..Len(inodes) \/ inodes'[i].lock = None
  <2>1. CASE ledger = 0
    <3>1. /\ DiskInv' /\ Frame(q) /\ ledger' = Len(inodes) + 1
          /\ Len(inodes') = Len(inodes) + 1
          /\ \A i \in 1..Len(inodes) : inodes'[i] = inodes[i]
          /\ inodes'[Len(inodes) + 1].lock = None
      BY <2>1, NewFile DEF CreateEmpty
    <3> QED BY <1>1, <3>1
  <2>2. CASE ledger # 0
    <3>1. Quiet(q)
      BY <2>2, SameQuiet DEF CreateEmpty
    <3>2. DiskTyped' /\ AnchorPins'
      BY <2>2 DEF FilesInv, DiskInv, DiskTyped, AnchorPins, CreateEmpty
    <3>3. DiskInv' /\ Frame(q)
      BY <3>1, <3>2, QuietDisk, QuietFrame DEF FilesInv, DiskInv
    <3> QED BY <2>2, <3>3 DEF CreateEmpty
  <2> QED BY <2>1, <2>2
<1>3. proc' = [proc EXCEPT ![q] = new]
  BY DEF CreateEmpty, Step, FilesInv
<1>4. /\ new \in ProcRecs /\ new.pc = "anchor" /\ new.verb = s.verb
      /\ new.fd = s.fd /\ new.base = s.base /\ new.file = s.file
  BY <1>1 DEF ProcRecs, Pcs, LockedPcs
<1> HIDE DEF new
<1>5. Shape(new) /\ new.verb # "repair"
  BY <1>1, <1>4 DEF Shape, Writes, WriterPcs
<1>6. proc'[q] = new /\ View(q)' = View(q) /\ snapshot' = snapshot
  BY <1>3, <1>4 DEF FilesInv, View, CreateEmpty
<1>7. Locks(q)'
  <2>1. \A p \in Procs : p # None
    BY FilesAssumption DEF FilesAssumption
  <2> QED BY <1>1, <1>2, <1>4, <1>6, <2>1 DEF Locks, LockedPcs
<1>8. WriterKnows(q)'
  BY <1>1, <1>4, <1>6 DEF WriterKnows, OwnerPcs
<1>9. ProcInv(q)'
  BY <1>5, <1>6, <1>7, <1>8 DEF ProcInv
<1> QED BY <1>2, <1>3, <1>4, <1>9, OneMoves

------------------------------------------------------------------------------
(* Steps of the owner of the ledger.                                       *)

LEMMA OnlyOwner ==
  ASSUME NEW q \in Procs, Owner(q)
  PROVE  ~\E p \in Procs \ {q} : Owner(p)
  BY DEF Owner

\* Lines that stand in a file go on standing there.
LEMMA HeldKeeps ==
  ASSUME DiskInv, DiskTyped', snapshot' = snapshot,
         \A i \in Held \ {0} : i \in Held',
         \A i \in 1..Len(inodes) : IsPrefix(inodes[i].lines, inodes'[i].lines),
         Len(inodes) <= Len(inodes')
  PROVE  SnapshotHeld'
<1>1. /\ Len(inodes) \in Nat /\ Len(inodes') \in Nat
      /\ DOMAIN inodes = 1..Len(inodes)
  BY LenProperties DEF DiskInv, DiskTyped
<1>2. \A i \in Held \ {0} : i \in 1..Len(inodes) /\ i \in 1..Len(inodes')
  BY <1>1 DEF Held, DiskInv, DiskTyped
<1>3. ASSUME NEW k \in 1..Len(snapshot)
      PROVE  \E i \in Held' \ {0} : \E j \in 1..Len(inodes'[i].lines) :
                 inodes'[i].lines[j] = snapshot[k]
  <2>1. PICK i \in Held \ {0} : \E j \in 1..Len(inodes[i].lines) :
                 inodes[i].lines[j] = snapshot[k]
    BY DEF DiskInv, SnapshotHeld
  <2>2. PICK j \in 1..Len(inodes[i].lines) : inodes[i].lines[j] = snapshot[k]
    BY <2>1
  <2>3. inodes[i] \in InodeRecs /\ inodes'[i] \in InodeRecs
    BY <1>2, ElementOfSeq DEF DiskInv, DiskTyped
  <2>4. inodes[i].lines \in Seq(Line) /\ inodes'[i].lines \in Seq(Line)
    BY <2>3 DEF InodeRecs
  <2>5. /\ Len(inodes[i].lines) <= Len(inodes'[i].lines)
        /\ \A m \in 1..Len(inodes[i].lines) : inodes[i].lines[m] = inodes'[i].lines[m]
    BY <1>2, <2>4, PrefixPoints
  <2>6. Len(inodes[i].lines) \in Nat /\ Len(inodes'[i].lines) \in Nat
    BY <2>4, LenProperties
  <2>7. j \in 1..Len(inodes[i].lines)
    BY <2>2
  <2>8. j \in 1..Len(inodes'[i].lines) /\ inodes'[i].lines[j] = snapshot[k]
    BY ONLY <2>2, <2>5, <2>6, <2>7
  <2> QED BY <2>1, <2>8
<1> QED BY <1>3 DEF SnapshotHeld

\* What commitUnderLock stands on when it writes.
LEMMA AtWrite ==
  ASSUME FilesInv, NEW q \in Procs,
         proc[q].pc \in {"write", "gate", "copy", "activate"}
  PROVE  /\ Writes(proc[q]) /\ Owner(q) /\ proc[q].verb # "repair"
         /\ proc[q].base = snapshot /\ proc[q].file = Current
         /\ ~Current.torn /\ Continues(snapshot, Current.lines)
         /\ Committed = snapshot \o Current.lines /\ View(q) = Committed
         /\ Current.lines = inodes[ledger].lines
         /\ ledger \in 1..Len(inodes) /\ proc[q].fd = ledger
<1> DEFINE s == proc[q]
<1>1. s \in ProcRecs /\ Shape(s) /\ Locks(q)
  BY ProcFacts
<1>2. Writes(s) /\ s.verb # "repair"
  BY <1>1 DEF Shape, RepairPcs, Writes, ProcRecs, AllVerbs, Idle
<1>3. /\ s.fd = ledger /\ s.base = snapshot /\ s.file = Current /\ ~s.file.torn
      /\ Continues(s.base, s.file.lines)
  BY <1>2, ProcFacts DEF WriterKnows, OwnerPcs
<1>4. s.fd # 0 /\ s.pc \in LockedPcs
  BY <1>1, <1>2 DEF Shape, LockedPcs
<1>5. Owner(q) /\ ledger # 0
  BY <1>1, <1>3, <1>4 DEF Owner, Locks
<1>6. Committed = snapshot \o Current.lines
  BY <1>3 DEF Committed, Current
<1> QED BY <1>2, <1>3, <1>5, <1>6, CurrentTyped
     DEF View, FilesInv, DiskInv, CurrentShape

\* The files after a write: one line more in the ledger.
LEMMA WriteShape ==
  ASSUME FilesInv, NEW q \in Procs, Write(q)
  PROVE  \E x \in Line :
           /\ x.cap \in Caps /\ x.id = written + 1
           /\ x.prev = HeadOf(Committed, x.cap)
           /\ inodes' \in Seq(InodeRecs) /\ Len(inodes') = Len(inodes)
           /\ \A i \in 1..Len(inodes) :
                  /\ inodes'[i].torn = inodes[i].torn
                  /\ inodes'[i].lock = inodes[i].lock
                  /\ inodes'[i].lines = IF i = ledger THEN Append(inodes[i].lines, x)
                                        ELSE inodes[i].lines
           /\ Current'.lines = Append(Current.lines, x) /\ ~Current'.torn
           /\ Committed' = Append(Committed, x)
           /\ Continues(snapshot, Current'.lines)
<1> DEFINE s == proc[q]
           L == Current.lines
<1>1. /\ Owner(q) /\ s.fd = ledger /\ ~Current.torn /\ Continues(snapshot, L)
      /\ Committed = snapshot \o L /\ View(q) = Committed
      /\ L = inodes[ledger].lines /\ ledger \in 1..Len(inodes)
  BY AtWrite DEF Write
<1>2. PICK c \in Caps :
        inodes' = [inodes EXCEPT ![s.fd].lines = Append(@, NewLine(q, c))]
  BY DEF Write
<1> DEFINE x == NewLine(q, c)
<1>3. /\ inodes \in Seq(InodeRecs) /\ written \in 0..MaxLines
      /\ snapshot \in Seq(Line) /\ L \in Seq(Line) /\ ledger # 0
      /\ Len(inodes) \in Nat
  BY CurrentTyped, LenProperties, <1>1
  DEF FilesInv, DiskInv, DiskTyped, CurrentShape, Owner
<1>4. Committed \in Seq(Line)
  BY CommittedTyped DEF FilesInv
<1>5. x \in Line /\ x.cap = c /\ x.id = written + 1 /\ x.prev = HeadOf(Committed, c)
  <2>1. HeadOf(Committed, c) \in 0..MaxLines
    BY <1>4, HeadTyped
  <2>2. written + 1 \in 1..MaxLines
    BY <1>3, FilesAssumption DEF Write, FilesAssumption
  <2> QED BY <1>1, <2>1, <2>2 DEF NewLine, Line
<1> HIDE DEF x
<1>6. inodes[ledger] \in InodeRecs
  BY <1>1, <1>3, ElementOfSeq
<1> DEFINE new == [inodes[ledger] EXCEPT !.lines = Append(L, x)]
<1>7. Append(L, x) \in Seq(Line)
  BY <1>3, <1>5, AppendProperties
<1>8. /\ new \in InodeRecs /\ new.lines = Append(L, x)
      /\ new.torn = inodes[ledger].torn /\ new.lock = inodes[ledger].lock
  BY <1>6, <1>7 DEF InodeRecs
<1>9. inodes' = [inodes EXCEPT ![ledger] = new]
  BY <1>1, <1>2, <1>3 DEF x
<1> HIDE DEF new
<1>10. /\ inodes' \in Seq(InodeRecs) /\ Len(inodes') = Len(inodes)
       /\ \A i \in 1..Len(inodes) : inodes'[i] = IF i = ledger THEN new ELSE inodes[i]
  BY <1>1, <1>3, <1>8, <1>9, ExceptSeq
<1>11. /\ snapshot' = snapshot /\ ledger' = ledger
  BY DEF Write, names
<1>12. Current'.lines = Append(L, x) /\ ~Current'.torn
  <2>1. Current' = [lines |-> new.lines, torn |-> new.torn]
    BY <1>1, <1>3, <1>10, <1>11 DEF Current, Bytes
  <2>2. new.torn = FALSE
    BY <1>1, <1>3, <1>8 DEF Current, Bytes
  <2> QED BY <1>8, <2>1, <2>2
<1>13. Continues(snapshot, Current'.lines)
  BY <1>1, <1>3, <1>5, <1>12, ContinuesAppend
<1>14. Committed' = Append(Committed, x)
  <2>1. Committed' = snapshot \o Append(L, x)
    BY <1>11, <1>12, <1>13 DEF Committed, Current
  <2>2. snapshot \o Append(L, x) = Append(snapshot \o L, x)
    <3>1. snapshot \in Seq(Line) /\ L \in Seq(Line)
      BY <1>3
    <3> QED BY ONLY <1>5, <3>1, AppendConcat
  <2> QED BY <1>1, <2>1, <2>2
<1>15. \A i \in 1..Len(inodes) :
         /\ inodes'[i].torn = inodes[i].torn /\ inodes'[i].lock = inodes[i].lock
         /\ inodes'[i].lines = IF i = ledger THEN Append(inodes[i].lines, x)
                               ELSE inodes[i].lines
  BY <1>1, <1>8, <1>10
<1> QED BY <1>5, <1>10, <1>12, <1>13, <1>14, <1>15

LEMMA WriteKeeps ==
  ASSUME FilesInv, NEW q \in Procs, Write(q)
  PROVE  FilesInv'
<1> DEFINE s == proc[q]
           L == Current.lines
           new == [s EXCEPT !.pc = "sync", !.seen = written + 1]
<1>1. PICK x \in Line :
           /\ x.cap \in Caps /\ x.id = written + 1
           /\ x.prev = HeadOf(Committed, x.cap)
           /\ inodes' \in Seq(InodeRecs) /\ Len(inodes') = Len(inodes)
           /\ \A i \in 1..Len(inodes) :
                  /\ inodes'[i].torn = inodes[i].torn
                  /\ inodes'[i].lock = inodes[i].lock
                  /\ inodes'[i].lines = IF i = ledger THEN Append(inodes[i].lines, x)
                                        ELSE inodes[i].lines
           /\ Current'.lines = Append(L, x) /\ ~Current'.torn
           /\ Committed' = Append(Committed, x)
           /\ Continues(snapshot, Current'.lines)
  BY WriteShape
<1>2. /\ Writes(s) /\ s.verb # "repair" /\ Owner(q) /\ s.fd = ledger
      /\ s.pc = "write" /\ ~Current.torn
      /\ Continues(snapshot, L) /\ Committed = snapshot \o L
      /\ s \in ProcRecs /\ Shape(s) /\ Locks(q)
      /\ ledger \in 1..Len(inodes)
  BY AtWrite, ProcFacts DEF Write
<1>3. /\ snapshot' = snapshot /\ ledger' = ledger /\ archive' = archive
      /\ aside' = aside /\ written' = written + 1 /\ acked' = acked
      /\ copies' = copies /\ anchor' = anchor /\ crashes' = crashes
  BY DEF Write, names
<1>4. /\ snapshot \in Seq(Line) /\ L \in Seq(Line) /\ written \in 0..MaxLines
      /\ written < MaxLines /\ Committed \in Seq(Line) /\ Len(Committed) \in Nat
      /\ Len(inodes) \in Nat /\ inodes \in Seq(InodeRecs)
      /\ DOMAIN inodes = 1..Len(inodes) /\ DOMAIN inodes' = 1..Len(inodes)
  BY <1>1, CurrentTyped, CommittedTyped, LenProperties
  DEF FilesInv, DiskInv, DiskTyped, CurrentShape, Write
<1>5. DiskTyped'
  BY <1>1, <1>3, <1>4, FilesAssumption
  DEF FilesInv, DiskInv, DiskTyped, FilesAssumption
<1>6. Attached'
  BY <1>1, <1>3 DEF Attached
<1>7. Numbered'
  <2>1. /\ Len(Committed') = Len(Committed) + 1
        /\ \A i \in 1..Len(Committed) : Committed'[i] = Committed[i]
        /\ Committed'[Len(Committed) + 1] = x
    BY <1>1, <1>4, AppendProperties
  <2>2. /\ Rising(Committed) /\ Len(Committed) <= written
        /\ \A i \in 1..Len(Committed) : Committed[i].id <= written
    BY DEF FilesInv, DiskInv, Numbered
  <2>3. \A i \in 1..Len(Committed) : Committed[i].id \in Nat
    <3>1. \A i \in 1..Len(Committed) : Committed[i] \in Line
      BY <1>4, ElementOfSeq
    <3> QED BY <3>1, FilesAssumption DEF Line, FilesAssumption
  <2>4. \A i \in 1..Len(Committed') : Committed'[i].id <= written'
    BY <1>1, <1>3, <1>4, <2>1, <2>2, <2>3
  <2>5. Rising(Committed')
    BY <1>1, <1>4, <2>1, <2>2, <2>3 DEF Rising
  <2> QED BY <1>3, <1>4, <2>1, <2>2, <2>4, <2>5 DEF Numbered
<1>8. SnapshotHeld'
  <2>1. \A i \in 1..Len(inodes) : IsPrefix(inodes[i].lines, inodes'[i].lines)
    <3> SUFFICES ASSUME NEW i \in 1..Len(inodes)
                 PROVE  IsPrefix(inodes[i].lines, inodes'[i].lines)
      OBVIOUS
    <3>1. inodes[i] \in InodeRecs
      BY <1>4, ElementOfSeq
    <3>2. inodes[i].lines \in Seq(Line)
      BY <3>1 DEF InodeRecs
    <3> QED BY <1>1, <3>2, PrefixAppend, PrefixReflexive
  <2>2. Held' = Held
    BY <1>3 DEF Held
  <2> QED BY <1>1, <1>3, <1>4, <1>5, <2>1, <2>2, HeldKeeps DEF FilesInv
<1>9. AnchorPins'
  BY <1>3 DEF FilesInv, DiskInv, AnchorPins
<1>10. Frame(q)
  <2>1. Stay(q)
    BY <1>1, <1>4 DEF Stay
  <2>2. IsPrefix(snapshot, snapshot') /\ IsPrefix(L, Current'.lines)
    BY <1>1, <1>3, <1>4, PrefixReflexive, PrefixAppend
  <2>3. ASSUME Current'.lines[1] \in ToSet(snapshot)
        PROVE  L # <<>> /\ L[1] = Current'.lines[1]
    <3>1. L # <<>>
      <4> SUFFICES ASSUME L = <<>> PROVE FALSE
        OBVIOUS
      <4>1. Len(L) = 0
        BY EmptySeq
      <4>2. Current'.lines[1] = x
        BY <1>1, <1>4, <4>1, AppendProperties
      <4>3. PICK k \in DOMAIN snapshot : snapshot[k] = x
        BY <2>3, <4>2 DEF ToSet
      <4>4. k \in 1..Len(Committed) /\ Committed[k] = x
        <5>1. /\ DOMAIN snapshot = 1..Len(snapshot) /\ Len(snapshot) \in Nat
              /\ Len(snapshot) <= Len(Committed)
              /\ \A i \in 1..Len(snapshot) : snapshot[i] = Committed[i]
          BY <1>4, LenProperties, CommittedTyped, PrefixPoints DEF FilesInv
        <5> QED BY <1>4, <4>3, <5>1
      <4> QED BY <1>1, <1>4, <4>4 DEF FilesInv, DiskInv, Numbered
    <3> QED BY <1>1, <1>4, <2>2, <3>1, FirstOfPrefix, AppendProperties
  <2> QED BY <1>2, <1>3, <2>1, <2>2, <2>3, OnlyOwner DEF Frame
<1>11. proc' = [proc EXCEPT ![q] = new]
  BY DEF Write, FilesInv
<1>12. /\ new \in ProcRecs /\ new.pc = "sync" /\ new.verb = s.verb
       /\ new.fd = s.fd /\ new.seen = written + 1
  <2>1. written + 1 \in Nat /\ "sync" \in Pcs
    BY <1>4 DEF Pcs, LockedPcs
  <2> QED BY <1>2, <2>1 DEF ProcRecs
<1> HIDE DEF new
<1>13. Shape(new)
  BY <1>2, <1>12 DEF Shape, Writes, WriterPcs
<1>14. proc'[q] = new
  BY <1>11 DEF FilesInv
<1>15. Locks(q)'
  BY <1>1, <1>2, <1>4, <1>12, <1>14 DEF Locks, LockedPcs
<1>16. WriterKnows(q)'
  <2>1. /\ Current'.lines # <<>>
        /\ Current'.lines[Len(Current'.lines)].id = written + 1
    BY <1>1, <1>4, AppendProperties
  <2> QED BY <1>1, <1>2, <1>3, <1>12, <1>14, <2>1 DEF WriterKnows
<1>17. ProcInv(q)'
  BY <1>2, <1>12, <1>13, <1>14, <1>15, <1>16 DEF ProcInv
<1> QED BY <1>5, <1>6, <1>7, <1>8, <1>9, <1>10, <1>11, <1>12, <1>17, OneMoves
     DEF DiskInv

\* A write cut short: the torn file is nobody's, and its lines are as before.
LEMMA TearKeeps ==
  ASSUME FilesInv, NEW q \in Procs, Tear(q)
  PROVE  FilesInv' /\ Committed' = Committed
<1> DEFINE s == proc[q]
           L == Current.lines
           new == [inodes[ledger] EXCEPT !.torn = TRUE]
           files == [inodes EXCEPT ![ledger] = new]
<1>1. /\ Owner(q) /\ s.fd = ledger /\ ~Current.torn /\ Continues(snapshot, L)
      /\ L = inodes[ledger].lines /\ ledger \in 1..Len(inodes)
  BY AtWrite DEF Tear
<1>2. /\ inodes \in Seq(InodeRecs) /\ Len(inodes) \in Nat /\ L \in Seq(Line)
      /\ snapshot \in Seq(Line) /\ ledger # 0
  BY <1>1, CurrentTyped, LenProperties
  DEF FilesInv, DiskInv, DiskTyped, CurrentShape, Owner
<1>3. inodes[ledger] \in InodeRecs
  BY <1>1, <1>2, ElementOfSeq
<1>4. /\ new \in InodeRecs /\ new.lines = inodes[ledger].lines
      /\ new.torn = TRUE /\ new.lock = inodes[ledger].lock
  BY <1>3 DEF InodeRecs
<1>5. inodes' = Unlocked(files, q)
  BY <1>1 DEF Tear
<1> HIDE DEF new
<1>6. /\ files \in Seq(InodeRecs) /\ Len(files) = Len(inodes)
      /\ \A i \in 1..Len(inodes) : files[i] = IF i = ledger THEN new ELSE inodes[i]
  BY <1>1, <1>2, <1>4, ExceptSeq
<1> HIDE DEF files
<1>7. /\ inodes' \in Seq(InodeRecs) /\ Len(inodes') = Len(inodes)
      /\ \A i \in 1..Len(inodes) :
             /\ inodes'[i].lines = inodes[i].lines
             /\ inodes'[i].torn = IF i = ledger THEN TRUE ELSE inodes[i].torn
             /\ inodes'[i].lock = IF inodes[i].lock = q THEN None ELSE inodes[i].lock
  <2>1. /\ inodes' \in Seq(InodeRecs) /\ Len(inodes') = Len(files)
        /\ \A i \in 1..Len(files) :
               /\ inodes'[i].lines = files[i].lines
               /\ inodes'[i].torn = files[i].torn
               /\ inodes'[i].lock = IF files[i].lock = q THEN None ELSE files[i].lock
    BY <1>5, <1>6, UnlockShape
  <2>2. ASSUME NEW i \in 1..Len(inodes)
        PROVE  /\ inodes'[i].lines = inodes[i].lines
               /\ inodes'[i].torn = IF i = ledger THEN TRUE ELSE inodes[i].torn
               /\ inodes'[i].lock = IF inodes[i].lock = q THEN None ELSE inodes[i].lock
    <3>1. i \in 1..Len(files) /\ files[i] = IF i = ledger THEN new ELSE inodes[i]
      BY <1>6
    <3>2. /\ files[i].lines = inodes[i].lines /\ files[i].lock = inodes[i].lock
          /\ files[i].torn = IF i = ledger THEN TRUE ELSE inodes[i].torn
      BY ONLY <1>4, <3>1
    <3> QED BY ONLY <2>1, <3>1, <3>2
  <2> QED BY ONLY <1>6, <2>1, <2>2
<1>8. /\ snapshot' = snapshot /\ ledger' = ledger /\ archive' = archive
      /\ aside' = aside /\ written' = written /\ acked' = acked
      /\ copies' = copies /\ anchor' = anchor /\ crashes' = crashes + 1
      /\ crashes < MaxCrashes /\ proc' = [proc EXCEPT ![q] = Idle]
  BY DEF Tear, names
<1>9. Current'.lines = L /\ Current'.torn = TRUE
  <2>1. Current' = [lines |-> inodes'[ledger].lines, torn |-> inodes'[ledger].torn]
    BY <1>2, <1>8 DEF Current, Bytes
  <2> QED BY <1>1, <1>7, <2>1
<1>10. Committed' = Committed
  BY <1>8, <1>9 DEF Committed, Current
<1>11. DiskTyped'
  <2>1. DOMAIN inodes = 1..Len(inodes) /\ DOMAIN inodes' = 1..Len(inodes)
    BY <1>2, <1>7, LenProperties
  <2> QED BY <1>7, <1>8, <2>1, FilesAssumption
       DEF FilesInv, DiskInv, DiskTyped, FilesAssumption
<1>12. Attached' /\ Numbered' /\ AnchorPins'
  BY <1>1, <1>8, <1>9, <1>10
  DEF FilesInv, DiskInv, Attached, Numbered, AnchorPins
<1>13. SnapshotHeld'
  <2>1. \A i \in 1..Len(inodes) : IsPrefix(inodes[i].lines, inodes'[i].lines)
    <3> SUFFICES ASSUME NEW i \in 1..Len(inodes)
                 PROVE  IsPrefix(inodes[i].lines, inodes'[i].lines)
      OBVIOUS
    <3>1. inodes[i] \in InodeRecs
      BY <1>2, ElementOfSeq
    <3>2. inodes[i].lines \in Seq(Line)
      BY <3>1 DEF InodeRecs
    <3> QED BY <1>7, <3>2, PrefixReflexive
  <2>2. Held' = Held
    BY <1>8 DEF Held
  <2> QED BY <1>2, <1>7, <1>8, <1>11, <2>1, <2>2, HeldKeeps DEF FilesInv
<1>14. Frame(q)
  <2>1. Stay(q)
    <3>1. Len(inodes) <= Len(inodes')
      BY <1>2, <1>7
    <3>2. ASSUME NEW p \in Procs \ {q}, NEW i \in 1..Len(inodes')
          PROVE  inodes'[i].lock = p <=> i <= Len(inodes) /\ inodes[i].lock = p
      <4>1. p # None /\ p # q
        BY FilesAssumption DEF FilesAssumption
      <4>2. i \in 1..Len(inodes) /\ i <= Len(inodes)
        BY <1>2, <1>7
      <4>3. inodes'[i].lock = IF inodes[i].lock = q THEN None ELSE inodes[i].lock
        BY <1>7, <4>2
      <4> QED BY <4>1, <4>2, <4>3
    <3> QED BY <3>1, <3>2 DEF Stay
  <2>2. IsPrefix(snapshot, snapshot') /\ IsPrefix(L, Current'.lines)
    BY <1>2, <1>8, <1>9, PrefixReflexive
  <2> QED BY <1>1, <1>8, <1>9, <2>1, <2>2, OnlyOwner DEF Frame
<1>15. proc'[q] = Idle
  BY <1>8 DEF FilesInv
<1>16. ProcInv(q)'
  <2>1. Shape(Idle) /\ ~Writes(Idle) /\ Idle.verb # "repair" /\ Idle.fd = 0
    BY DEF Idle, Shape, Writes
  <2>2. \A i \in 1..Len(inodes') : inodes'[i].lock # q
    BY <1>7, FilesAssumption DEF FilesAssumption
  <2> QED BY <1>15, <2>1, <2>2 DEF ProcInv, Locks
<1> QED BY <1>10, <1>8, <1>11, <1>12, <1>13, <1>14, <1>16, IdleTyped, OneMoves DEF DiskInv

\* The writer is told of the line that is the last of the history.
LEMMA SyncedAt ==
  ASSUME FilesInv, NEW q \in Procs, Synced(q)
  PROVE  /\ Committed # <<>> /\ Len(Committed) \in 1..Len(Committed)
         /\ acked' = acked \cup {Committed[Len(Committed)].id}
         /\ Committed[Len(Committed)].id \in 1..written
<1> DEFINE s == proc[q]
           L == Current.lines
<1>1. /\ s \in ProcRecs /\ Shape(s) /\ s.pc = "sync"
      /\ acked' = acked \cup {s.seen}
  BY ProcFacts DEF Synced
<1>2. Writes(s)
  BY <1>1 DEF Shape, RepairPcs, Writes, ProcRecs, AllVerbs, Idle
<1>3. Continues(snapshot, L) /\ L # <<>> /\ L[Len(L)].id = s.seen
  BY <1>1, <1>2, ProcFacts DEF WriterKnows
<1>4. /\ snapshot \in Seq(Line) /\ L \in Seq(Line) /\ Committed \in Seq(Line)
      /\ written \in 0..MaxLines
  BY CurrentTyped, CommittedTyped DEF FilesInv, DiskInv, DiskTyped, CurrentShape
<1>5. Committed = snapshot \o L
  BY <1>3 DEF Committed, Current
<1> DEFINE C == Committed
<1>6. /\ Len(snapshot) \in Nat /\ Len(L) \in Nat /\ Len(L) # 0
      /\ Len(C) = Len(snapshot) + Len(L)
      /\ \A i \in 1..Len(snapshot) + Len(L) :
             C[i] = IF i <= Len(snapshot) THEN snapshot[i] ELSE L[i - Len(snapshot)]
  BY <1>3, <1>4, <1>5, LenProperties, EmptySeq, ConcatProperties
<1> HIDE DEF C
<1>7. C[Len(C)] = L[Len(L)] /\ Len(C) \in 1..Len(C)
  BY <1>6
<1>8. C[Len(C)] \in Line /\ C[Len(C)].id <= written
  BY <1>4, <1>7, ElementOfSeq DEF C, FilesInv, DiskInv, Numbered
<1>9. C[Len(C)].id \in 1..written
  BY <1>4, <1>8, FilesAssumption DEF Line, FilesAssumption
<1>10. C # <<>>
  BY <1>4, <1>6, EmptySeq DEF C
<1> QED BY <1>1, <1>3, <1>7, <1>9, <1>10 DEF C

LEMMA SyncedKeeps ==
  ASSUME FilesInv, NEW q \in Procs, Synced(q)
  PROVE  FilesInv'
<1>1. Committed[Len(Committed)].id \in 1..written
      /\ acked' = acked \cup {Committed[Len(Committed)].id}
  BY SyncedAt
<1>2. /\ copies \subseteq 1..MaxLines /\ acked' \subseteq 1..written
      /\ crashes \in 0..MaxCrashes /\ AnchorPins'
  BY <1>1 DEF FilesInv, DiskInv, DiskTyped, AnchorPins, Synced, names
<1> QED BY <1>2, ReturnKeeps DEF Synced, names

LEMMA WriteAnchorKeeps ==
  ASSUME FilesInv, NEW q \in Procs, WriteAnchor(q)
  PROVE  FilesInv'
<1> DEFINE s == proc[q]
<1>1. /\ s \in ProcRecs /\ Shape(s) /\ s.pc = "anchor"
      /\ s.base \in Seq(Line) /\ s.file.lines \in Seq(Line)
  BY ProcFacts DEF WriteAnchor
<1>2. Writes(s)
  BY <1>1 DEF Shape, RepairPcs, Writes, ProcRecs, AllVerbs, Idle
<1>3. IsPrefix(View(q), snapshot) /\ View(q) \in Seq(Line)
  BY <1>1, <1>2, ProcFacts, ConcatProperties DEF WriterKnows, View
<1>4. anchor' = [pins |-> View(q), fold |-> View(q)] /\ snapshot' = snapshot
  BY DEF WriteAnchor, BuildAnchor, View
<1>5. AnchorPins'
  BY <1>3, <1>4 DEF AnchorPins
<1>6. /\ copies \subseteq 1..MaxLines /\ acked \subseteq 1..written
      /\ crashes \in 0..MaxCrashes
  BY DEF FilesInv, DiskInv, DiskTyped
<1> QED BY <1>5, <1>6, ReturnKeeps DEF WriteAnchor

LEMMA CrashKeeps ==
  ASSUME FilesInv, NEW q \in Procs, Crash(q)
  PROVE  FilesInv'
<1>1. /\ copies \subseteq 1..MaxLines /\ acked \subseteq 1..written
      /\ crashes + 1 \in 0..MaxCrashes /\ AnchorPins'
  BY FilesAssumption
  DEF FilesInv, DiskInv, DiskTyped, AnchorPins, Crash, names, FilesAssumption
<1> QED BY <1>1, ReturnKeeps DEF Crash, names

LEMMA ReadEndsKeeps ==
  ASSUME FilesInv, NEW q \in Procs, ReadEnds(q)
  PROVE  FilesInv'
  BY RefusedKeeps DEF ReadEnds

------------------------------------------------------------------------------
(* Rotate, where it moves the line between snapshot and ledger.            *)

\* The new snapshot folds what it found and the ledger: the file the path
\* leads to is folded now, and the history is what it was.
LEMMA ActivateKeeps ==
  ASSUME FilesInv, NEW q \in Procs, Activate(q)
  PROVE  FilesInv' /\ Committed' = Committed
<1> DEFINE s == proc[q]
           L == Current.lines
           new == [s EXCEPT !.pc = "move"]
<1>1. /\ Writes(s) /\ Owner(q) /\ s.verb # "repair" /\ s.base = snapshot
      /\ s.file = Current /\ ~Current.torn /\ Continues(snapshot, L)
      /\ Committed = snapshot \o L /\ View(q) = Committed
      /\ L = inodes[ledger].lines /\ ledger \in 1..Len(inodes)
      /\ s.fd = ledger /\ s.pc = "activate" /\ s.fd # 0
  BY AtWrite DEF Activate, Owner
<1>2. /\ s \in ProcRecs /\ Shape(s) /\ Locks(q)
      /\ L # <<>> /\ \A a \in archive : a.base # Len(View(q))
  BY <1>1, ProcFacts DEF WriterKnows
<1>3. /\ snapshot \in Seq(Line) /\ L \in Seq(Line) /\ Committed \in Seq(Line)
      /\ Len(snapshot) \in Nat /\ Len(L) \in Nat /\ DOMAIN L = 1..Len(L)
      /\ Rising(Committed) /\ IsPrefix(snapshot, Committed)
  BY CurrentTyped, CommittedTyped, LenProperties
  DEF FilesInv, DiskInv, DiskTyped, CurrentShape, Numbered
<1>4. /\ snapshot' = Committed /\ ledger' = ledger /\ archive' = archive
      /\ aside' = aside /\ written' = written /\ acked' = acked
      /\ copies' = copies /\ anchor' = anchor /\ crashes' = crashes
      /\ inodes' = inodes
  BY <1>1 DEF Activate
<1>5. Current' = Current
  BY <1>4 DEF Current, Bytes
<1>6. L[1].prev # HeadOf(Committed, L[1].cap)
  BY <1>1, <1>2, <1>3, FoldedHead
<1>7. ~Continues(Committed, L)
  BY <1>2, <1>3, <1>6, FirstPins
<1>8. \A k \in DOMAIN L : L[k] \in ToSet(Committed)
  <2> SUFFICES ASSUME NEW k \in DOMAIN L PROVE L[k] \in ToSet(Committed)
    OBVIOUS
  <2>1. /\ Len(snapshot \o L) = Len(snapshot) + Len(L)
        /\ (snapshot \o L)[Len(snapshot) + k] = L[k]
    BY <1>3, ConcatProperties
  <2>2. DOMAIN Committed = 1..Len(Committed)
    BY <1>3, LenProperties
  <2>3. /\ Len(snapshot) + k \in DOMAIN Committed
        /\ Committed[Len(snapshot) + k] = L[k]
    BY <1>1, <1>3, <2>1, <2>2
  <2> QED BY <2>3 DEF ToSet
<1>9. Folded'
  BY <1>1, <1>2, <1>4, <1>5, <1>6, <1>8 DEF Folded
<1>10. Committed' = Committed
  BY <1>4, <1>5, <1>7 DEF Committed, Current
<1>11. DiskTyped' /\ Attached'
  BY <1>3, <1>4, <1>9 DEF FilesInv, DiskInv, DiskTyped, Attached
<1>12. Numbered'
  BY <1>4, <1>10 DEF FilesInv, DiskInv, Numbered
<1>13. SnapshotHeld'
  <2>1. Held' = Held /\ ledger \in Held \ {0}
    BY <1>1, <1>4 DEF Held
  <2>2. ASSUME NEW k \in 1..Len(Committed)
        PROVE  \E i \in Held \ {0} : \E j \in 1..Len(inodes[i].lines) :
                   inodes[i].lines[j] = Committed[k]
    <3>1. /\ Len(Committed) = Len(snapshot) + Len(L)
          /\ Committed[k] = IF k <= Len(snapshot) THEN snapshot[k]
                            ELSE L[k - Len(snapshot)]
      BY <1>1, <1>3, ConcatProperties
    <3>2. CASE k <= Len(snapshot)
      <4>1. k \in 1..Len(snapshot) /\ Committed[k] = snapshot[k]
        BY <1>3, <3>1, <3>2
      <4> QED BY <4>1 DEF FilesInv, DiskInv, SnapshotHeld
    <3>3. CASE ~(k <= Len(snapshot))
      <4>1. /\ k - Len(snapshot) \in 1..Len(L)
            /\ Committed[k] = L[k - Len(snapshot)]
        BY <1>3, <3>1, <3>3
      <4> QED BY <1>1, <2>1, <4>1
    <3> QED BY <3>2, <3>3
  <2> QED BY <1>4, <2>1, <2>2 DEF SnapshotHeld
<1>14. AnchorPins'
  <2> SUFFICES ASSUME anchor # None
               PROVE  /\ anchor.pins \in Seq(Line) /\ anchor.fold \in Seq(Line)
                      /\ IsPrefix(anchor.pins, Committed)
                      /\ IsPrefix(anchor.fold, Committed)
    BY <1>4 DEF AnchorPins
  <2>1. /\ anchor.pins \in Seq(Line) /\ anchor.fold \in Seq(Line)
        /\ IsPrefix(anchor.pins, snapshot) /\ IsPrefix(anchor.fold, snapshot)
    BY DEF FilesInv, DiskInv, AnchorPins
  <2> QED BY <1>3, <2>1, PrefixTransitive
<1>15. Frame(q)
  <2>1. Stay(q)
    BY <1>4, LenProperties DEF Stay, FilesInv, DiskInv, DiskTyped
  <2>2. IsPrefix(snapshot, snapshot') /\ IsPrefix(L, Current'.lines)
    BY <1>3, <1>4, <1>5, PrefixReflexive
  <2> QED BY <1>1, <1>2, <1>4, <1>5, <2>1, <2>2, OnlyOwner DEF Frame
<1>16. proc' = [proc EXCEPT ![q] = new]
  BY DEF Activate, Step, FilesInv
<1>17. /\ new \in ProcRecs /\ new.pc = "move" /\ new.verb = s.verb
       /\ new.fd = s.fd /\ new.base = s.base /\ new.file = s.file
  BY <1>2 DEF ProcRecs, Pcs, LockedPcs
<1> HIDE DEF new
<1>18. Shape(new)
  BY <1>1, <1>2, <1>17 DEF Shape, Writes, WriterPcs
<1>19. proc'[q] = new /\ View(q)' = View(q)
  BY <1>16, <1>17 DEF FilesInv, View
<1>20. Locks(q)'
  BY <1>1, <1>2, <1>4, <1>17, <1>19 DEF Locks, LockedPcs
<1>21. WriterKnows(q)'
  BY <1>1, <1>2, <1>4, <1>5, <1>7, <1>17, <1>19 DEF WriterKnows
<1>22. ProcInv(q)'
  BY <1>1, <1>17, <1>18, <1>19, <1>20, <1>21 DEF ProcInv
<1> QED BY <1>10, <1>11, <1>12, <1>13, <1>14, <1>15, <1>16, <1>17, <1>22, OneMoves
     DEF DiskInv

\* The folded file becomes an archive; the path leads nowhere.
LEMMA MoveKeeps ==
  ASSUME FilesInv, NEW q \in Procs, Move(q)
  PROVE  FilesInv' /\ Committed' = Committed
<1> DEFINE s == proc[q]
           L == Current.lines
           n == Len(View(q))
           new == [s EXCEPT !.pc = "create"]
<1>1. s \in ProcRecs /\ Shape(s) /\ Locks(q) /\ s.pc = "move"
  BY ProcFacts DEF Move
<1>2. Writes(s) /\ s.verb # "repair"
  BY <1>1 DEF Shape, RepairPcs, Writes, ProcRecs, AllVerbs, Idle
<1>3. /\ s.fd = ledger /\ s.fd # 0 /\ snapshot = View(q) /\ s.file = Current
      /\ ~Current.torn /\ ~Continues(snapshot, L) /\ L # <<>>
      /\ \A a \in archive : a.base # n
  BY <1>1, <1>2, ProcFacts DEF WriterKnows, OwnerPcs, Shape
<1>4. Owner(q) /\ ledger # 0
  BY <1>1, <1>3 DEF Owner, Locks, LockedPcs
<1>5. /\ snapshot \in Seq(Line) /\ L \in Seq(Line) /\ Len(snapshot) \in Nat
      /\ Len(snapshot) <= MaxLines /\ ledger \in 1..Len(inodes)
      /\ inodes \in Seq(InodeRecs) /\ DOMAIN inodes = 1..Len(inodes)
      /\ Len(inodes) \in Nat /\ DOMAIN L = 1..Len(L)
  BY <1>4, CurrentTyped, CommittedTyped, LenProperties, FilesAssumption
  DEF FilesInv, DiskInv, DiskTyped, CurrentShape, FilesAssumption
<1>6. Folded
  BY <1>3 DEF FilesInv, DiskInv, Attached
<1>7. 1 \in DOMAIN L /\ L[1] \in ToSet(snapshot)
  BY <1>3, <1>5, <1>6, EmptySeq DEF Folded
<1>8. n \in 1..MaxLines
  <2>1. DOMAIN snapshot # {} /\ DOMAIN snapshot = 1..Len(snapshot)
    BY <1>5, <1>7, LenProperties DEF ToSet
  <2>2. Len(snapshot) >= 1
    BY <1>5, <2>1
  <2> QED BY <1>3, <1>5, <2>2, FilesAssumption DEF FilesAssumption
<1>9. /\ snapshot' = snapshot /\ ledger' = 0
      /\ aside' = aside /\ written' = written /\ acked' = acked
      /\ copies' = copies /\ anchor' = anchor /\ crashes' = crashes
      /\ inodes' = inodes
      /\ archive' = archive \cup {[base |-> n, ino |-> ledger]}
  <2>1. {a \in archive : a.base # n} = archive
    BY <1>3
  <2> QED BY <1>4, <2>1 DEF Move
<1>10. Current' = NoFile /\ Current'.lines = <<>> /\ ~Current'.torn
  BY <1>9 DEF Current, Bytes, NoFile
<1>11. Continues(snapshot, <<>>) /\ snapshot \o <<>> = snapshot
  BY <1>5, ContinuesEmpty, ConcatEmptySeq
<1>12. Committed' = Committed
  <2>1. Committed = snapshot
    BY <1>3 DEF Committed, Current
  <2>2. Committed' = snapshot
    BY <1>9, <1>10, <1>11 DEF Committed, Current
  <2> QED BY <2>1, <2>2
<1>13. DiskTyped'
  BY <1>5, <1>8, <1>9 DEF FilesInv, DiskInv, DiskTyped
<1>14. Attached' /\ Numbered' /\ AnchorPins'
  BY <1>9, <1>10, <1>11, <1>12
  DEF FilesInv, DiskInv, Attached, Numbered, AnchorPins
<1>15. SnapshotHeld'
  <2>1. \A i \in Held \ {0} : i \in Held'
    BY <1>9 DEF Held
  <2>2. \A i \in 1..Len(inodes) : IsPrefix(inodes[i].lines, inodes'[i].lines)
    <3> SUFFICES ASSUME NEW i \in 1..Len(inodes)
                 PROVE  IsPrefix(inodes[i].lines, inodes'[i].lines)
      OBVIOUS
    <3>1. inodes[i] \in InodeRecs
      BY <1>5, ElementOfSeq
    <3>2. inodes[i].lines \in Seq(Line)
      BY <3>1 DEF InodeRecs
    <3> QED BY <1>9, <3>2, PrefixReflexive
  <2> QED BY <1>5, <1>9, <1>13, <2>1, <2>2, HeldKeeps DEF FilesInv
<1>16. Frame(q)
  <2>1. Stay(q)
    BY <1>5, <1>9 DEF Stay
  <2>2. IsPrefix(snapshot, snapshot')
    BY <1>5, <1>9, PrefixReflexive
  <2> QED BY <1>3, <1>4, <1>7, <1>9, <1>10, <2>1, <2>2, OnlyOwner DEF Frame
<1>17. proc' = [proc EXCEPT ![q] = new]
  BY <1>4 DEF Move, Step, FilesInv
<1>18. /\ new \in ProcRecs /\ new.pc = "create" /\ new.verb = s.verb
       /\ new.fd = s.fd /\ new.base = s.base /\ new.file = s.file
  BY <1>1 DEF ProcRecs, Pcs, LockedPcs
<1> HIDE DEF new
<1>19. Shape(new)
  BY <1>1, <1>2, <1>18 DEF Shape, Writes, WriterPcs
<1>20. proc'[q] = new /\ View(q)' = View(q)
  BY <1>17, <1>18 DEF FilesInv, View
<1>21. Locks(q)'
  BY <1>1, <1>9, <1>18, <1>20 DEF Locks, LockedPcs
<1>22. IsPrefix(View(q)', snapshot')
  BY <1>3, <1>5, <1>9, <1>20, PrefixReflexive
<1>23. WriterKnows(q)'
  BY <1>18, <1>20, <1>22 DEF WriterKnows, OwnerPcs
<1>24. ProcInv(q)'
  BY <1>2, <1>18, <1>19, <1>20, <1>21, <1>23 DEF ProcInv
<1> QED BY <1>12, <1>13, <1>14, <1>15, <1>16, <1>17, <1>18, <1>24, OneMoves DEF DiskInv

------------------------------------------------------------------------------
(* Quarantine, where it moves files.                                       *)

LEMMA PreserveKeeps ==
  ASSUME FilesInv, NEW q \in Procs, Preserve(q)
  PROVE  FilesInv'
<1> DEFINE s == proc[q]
           new == [s EXCEPT !.pc = "swap"]
<1>1. /\ s \in ProcRecs /\ Shape(s) /\ s.pc = "link" /\ s.verb = "repair"
      /\ RepairKnows(q) /\ Locks(q)
  BY ProcFacts DEF Preserve, Is
<1>2. CASE ledger = 0 \/ Aside(s.seen)
  <2>1. Return(q) /\ UNCHANGED aside
    BY <1>2 DEF Preserve, Aside
  <2> QED BY <2>1, RefusedKeeps DEF Preserve, names
<1>3. CASE ledger # 0 /\ ~Aside(s.seen)
  <2>1. /\ proc' = [proc EXCEPT ![q] = new] /\ UNCHANGED inodes
        /\ aside' = aside \cup {[of |-> s.seen, ino |-> ledger]}
    BY <1>3 DEF Preserve, Preserved, Aside, Step, FilesInv
  <2>2. /\ ledger' = ledger /\ snapshot' = snapshot /\ archive' = archive
        /\ copies' = copies /\ anchor' = anchor /\ acked' = acked
        /\ written' = written /\ crashes' = crashes
    BY DEF Preserve
  <2>3. ledger \in DOMAIN inodes
    <3>1. DOMAIN inodes = 1..Len(inodes) /\ Len(inodes) \in Nat
      BY LenProperties DEF FilesInv, DiskInv, DiskTyped
    <3> QED BY <1>3, <3>1 DEF FilesInv, DiskInv, DiskTyped
  <2>4. Current' = Current /\ aside \subseteq aside'
    BY <2>1, <2>2 DEF Current, Bytes
  <2>5. Quiet(q)
    <3>1. Len(inodes) \in Nat
      BY LenProperties DEF FilesInv, DiskInv, DiskTyped
    <3> QED BY <2>1, <2>2, <2>4, <3>1 DEF Quiet, Stay
  <2>6. DiskTyped' /\ AnchorPins'
    BY <2>1, <2>2, <2>3 DEF FilesInv, DiskInv, DiskTyped, AnchorPins
  <2>7. DiskInv' /\ Frame(q)
    BY <2>5, <2>6, QuietDisk, QuietFrame DEF FilesInv, DiskInv
  <2>8. /\ new \in ProcRecs /\ new.pc = "swap" /\ new.seen = s.seen
        /\ new.verb = s.verb /\ new.fd = s.fd /\ new.file = s.file
    BY <1>1 DEF ProcRecs, Pcs, LockedPcs
  <2> HIDE DEF new
  <2>9. proc'[q] = new
    BY <2>1 DEF FilesInv
  <2>10. Shape(new) /\ ~Writes(new)
    BY <1>1, <2>8 DEF Shape, Writes, RepairPcs
  <2>11. Locks(q)'
    BY <1>1, <2>1, <2>8, <2>9 DEF Locks, LockedPcs
  <2>12. s.fd = ledger /\ Current = s.seen /\ s.file.lines = Remains
    BY <1>1, <1>3 DEF RepairKnows
  <2>13. Remains' = Remains
    BY <2>2, <2>4 DEF Remains
  <2>14. \E e \in aside' : e.of = s.seen /\ e.ino = ledger
    <3> DEFINE e == [of |-> s.seen, ino |-> ledger]
    <3>1. e \in aside' /\ e.of = s.seen /\ e.ino = ledger
      BY <2>1
    <3> HIDE DEF e
    <3> QED BY <3>1
  <2>15. RepairKnows(q)'
    BY <2>2, <2>4, <2>8, <2>9, <2>12, <2>13, <2>14 DEF RepairKnows
  <2>16. ProcInv(q)'
    BY <2>8, <2>9, <2>10, <2>11, <2>15 DEF ProcInv
  <2> QED BY <2>1, <2>7, <2>8, <2>16, OneMoves
<1> QED BY <1>2, <1>3

\* A ledger that continues the snapshot holds no line of it.
LEMMA NotFolded ==
  ASSUME DiskInv, Continues(snapshot, Current.lines), Current.lines # <<>>
  PROVE  Current.lines[1] \notin ToSet(snapshot)
<1> DEFINE L == Current.lines
           C == Committed
<1>1. /\ snapshot \in Seq(Line) /\ L \in Seq(Line) /\ C \in Seq(Line)
      /\ Len(snapshot) \in Nat /\ Len(L) \in Nat /\ Len(L) # 0
      /\ DOMAIN snapshot = 1..Len(snapshot) /\ C = snapshot \o L
  BY CurrentTyped, CommittedTyped, LenProperties, EmptySeq
  DEF DiskInv, DiskTyped, CurrentShape, Committed, Current
<1>2. /\ Len(C) = Len(snapshot) + Len(L) /\ C[Len(snapshot) + 1] = L[1]
      /\ \A i \in 1..Len(snapshot) : C[i] = snapshot[i]
  BY <1>1, ConcatProperties
<1>3. \A i \in 1..Len(C) : C[i] \in Line
  BY <1>1, ElementOfSeq
<1>4. \A i \in 1..Len(C) : C[i].id \in Nat
  BY <1>3, FilesAssumption DEF Line, FilesAssumption
<1>5. \A i, j \in 1..Len(C) : i < j => C[i].id < C[j].id
  BY DEF DiskInv, Numbered, Rising
<1> HIDE DEF C
<1> SUFFICES ASSUME L[1] \in ToSet(snapshot) PROVE FALSE
  OBVIOUS
<1>6. PICK k \in 1..Len(snapshot) : snapshot[k] = L[1]
  BY <1>1 DEF ToSet
<1>7. /\ k \in 1..Len(C) /\ Len(snapshot) + 1 \in 1..Len(C)
      /\ k < Len(snapshot) + 1
  BY <1>1, <1>2
<1>8. C[k] = C[Len(snapshot) + 1]
  BY <1>2, <1>6
<1>9. C[k].id < C[Len(snapshot) + 1].id
  BY <1>5, <1>7
<1> QED BY <1>4, <1>7, <1>8, <1>9

\* The clean prefix takes the place of the damaged file, which has another
\* name by now.
LEMMA SwapKeeps ==
  ASSUME FilesInv, NEW q \in Procs, Swap(q)
  PROVE  FilesInv' /\ Committed' = Committed
<1> DEFINE s == proc[q]
           L == Current.lines
           n == Len(inodes) + 1
           files == Append(inodes, Fresh(Remains))
<1>1. /\ s \in ProcRecs /\ Shape(s) /\ s.pc = "swap" /\ s.verb = "repair"
      /\ RepairKnows(q) /\ Locks(q)
  BY ProcFacts DEF Swap, Is
<1>2. /\ s.fd = ledger /\ s.fd # 0 /\ Current = s.seen /\ s.file.lines = Remains
      /\ \E e \in aside : e.of = Current /\ e.ino = ledger
  BY <1>1 DEF RepairKnows, Shape
<1>3. Owner(q) /\ ledger # 0
  BY <1>1, <1>2 DEF Owner, Locks, LockedPcs
<1>4. /\ snapshot \in Seq(Line) /\ L \in Seq(Line)
      /\ inodes \in Seq(InodeRecs) /\ Len(inodes) \in Nat
      /\ ledger \in 1..Len(inodes)
  BY <1>3, CurrentTyped, LenProperties
  DEF FilesInv, DiskInv, DiskTyped, CurrentShape
<1>5. Continues(snapshot, Remains) /\ Remains \in Seq(Line)
  BY <1>4, ContinuesEmpty, EmptySeq DEF Remains
<1>6. /\ Fresh(Remains) \in InodeRecs /\ Fresh(Remains).lines = Remains
      /\ Fresh(Remains).torn = FALSE /\ Fresh(Remains).lock = None
  BY <1>5 DEF Fresh, InodeRecs
<1>7. /\ files \in Seq(InodeRecs) /\ Len(files) = n
      /\ \A i \in 1..Len(inodes) : files[i] = inodes[i]
      /\ files[n] = Fresh(Remains)
  BY <1>4, <1>6, AppendProperties
<1>8. inodes' = Unlocked(files, q)
  BY <1>2 DEF Swap
<1> HIDE DEF files
<1>9. /\ inodes' \in Seq(InodeRecs) /\ Len(inodes') = n
      /\ \A i \in 1..n :
             /\ inodes'[i].lines = files[i].lines
             /\ inodes'[i].torn = files[i].torn
             /\ inodes'[i].lock = IF files[i].lock = q THEN None ELSE files[i].lock
  BY <1>7, <1>8, UnlockShape
<1>10. /\ n \in Nat /\ n # 0 /\ n \in 1..n
       /\ \A i \in 1..Len(inodes) : i \in 1..n
       /\ \A i \in 1..n : i \in 1..Len(inodes) \/ i = n
  BY <1>4
<1>11. /\ snapshot' = snapshot /\ ledger' = n /\ archive' = archive
       /\ aside' = aside /\ written' = written /\ acked' = acked
       /\ copies' = copies /\ anchor' = anchor /\ crashes' = crashes
       /\ proc' = [proc EXCEPT ![q] = Idle]
  BY <1>9 DEF Swap
<1>12. Current'.lines = Remains /\ Current'.torn = FALSE
  <2>1. Current' = [lines |-> inodes'[n].lines, torn |-> inodes'[n].torn]
    BY <1>10, <1>11 DEF Current, Bytes
  <2> QED BY <1>6, <1>7, <1>9, <1>10, <2>1
<1>13. Committed' = Committed
  <2>1. Committed' = snapshot \o Remains
    BY <1>5, <1>11, <1>12 DEF Committed, Current
  <2>2. snapshot \o <<>> = snapshot
    BY <1>4, ConcatEmptySeq
  <2> QED BY <2>1, <2>2 DEF Committed, Remains, Current
<1>14. DiskTyped'
  <2>1. DOMAIN inodes = 1..Len(inodes) /\ DOMAIN inodes' = 1..n
    BY <1>4, <1>9, LenProperties
  <2>2. n \in 0..n
    BY <1>10
  <2> QED BY <1>9, <1>10, <1>11, <2>1, <2>2 DEF FilesInv, DiskInv, DiskTyped
<1>15. Attached' /\ Numbered' /\ AnchorPins'
  BY <1>5, <1>11, <1>12, <1>13
  DEF FilesInv, DiskInv, Attached, Numbered, AnchorPins
<1>16. SnapshotHeld'
  <2>1. \A i \in Held \ {0} : i \in Held'
    BY <1>2, <1>11 DEF Held
  <2>2. \A i \in 1..Len(inodes) : IsPrefix(inodes[i].lines, inodes'[i].lines)
    <3> SUFFICES ASSUME NEW i \in 1..Len(inodes)
                 PROVE  IsPrefix(inodes[i].lines, inodes'[i].lines)
      OBVIOUS
    <3>1. inodes[i] \in InodeRecs
      BY <1>4, ElementOfSeq
    <3>2. inodes[i].lines \in Seq(Line) /\ inodes'[i].lines = inodes[i].lines
      BY <1>7, <1>9, <1>10, <3>1 DEF InodeRecs
    <3> QED BY <3>2, PrefixReflexive
  <2>3. Len(inodes) <= Len(inodes')
    BY <1>4, <1>9
  <2> QED BY <1>11, <1>14, <2>1, <2>2, <2>3, HeldKeeps DEF FilesInv
<1>17. \A p \in Procs : p # None
  BY FilesAssumption DEF FilesAssumption
<1>18. Frame(q)
  <2>1. Stay(q)
    <3>1. Len(inodes) <= Len(inodes')
      BY <1>4, <1>9
    <3>2. ASSUME NEW p \in Procs \ {q}, NEW i \in 1..Len(inodes')
          PROVE  inodes'[i].lock = p <=> i <= Len(inodes) /\ inodes[i].lock = p
      <4>1. inodes'[i].lock = IF files[i].lock = q THEN None ELSE files[i].lock
        BY <1>9
      <4>2. CASE i \in 1..Len(inodes)
        BY <1>4, <1>7, <1>17, <4>1, <4>2
      <4>3. CASE i = n
        <5>1. ~(i <= Len(inodes)) /\ inodes'[i].lock = None
          BY <1>4, <1>6, <1>7, <4>1, <4>3
        <5> QED BY <1>17, <5>1
      <4> QED BY <1>9, <1>10, <4>2, <4>3
    <3> QED BY <3>1, <3>2 DEF Stay
  <2>2. IsPrefix(snapshot, snapshot')
    BY <1>4, <1>11, PrefixReflexive
  <2>3. Current'.lines # <<>> => Current'.lines[1] \notin ToSet(snapshot)
    BY <1>12, NotFolded DEF Remains, FilesInv
  <2>4. L = <<>> \/ IsPrefix(L, Current'.lines) \/ L[1] \in ToSet(snapshot')
    <3>1. CASE Continues(snapshot, L)
      BY <1>4, <1>12, <3>1, PrefixReflexive DEF Remains
    <3>2. CASE ~Continues(snapshot, L)
      <4>1. Folded
        BY <3>2 DEF FilesInv, DiskInv, Attached
      <4>2. L # <<>> => 1 \in DOMAIN L
        BY <1>4, LenProperties, EmptySeq
      <4> QED BY <1>11, <4>1, <4>2 DEF Folded
    <3> QED BY <3>1, <3>2
  <2> QED BY <1>2, <1>3, <1>11, <2>1, <2>2, <2>3, <2>4, OnlyOwner DEF Frame
<1>19. proc'[q] = Idle
  BY <1>11 DEF FilesInv
<1>20. ProcInv(q)'
  <2>1. Shape(Idle) /\ ~Writes(Idle) /\ Idle.verb # "repair" /\ Idle.fd = 0
    BY DEF Idle, Shape, Writes
  <2>2. \A i \in 1..Len(inodes') : inodes'[i].lock # q
    BY <1>9, <1>17
  <2> QED BY <1>19, <2>1, <2>2 DEF ProcInv, Locks
<1> QED BY <1>13, <1>11, <1>14, <1>15, <1>16, <1>18, <1>20, IdleTyped, OneMoves DEF DiskInv

------------------------------------------------------------------------------
(* The invariant, and what it says.                                        *)

LEMMA StepFiles == FilesInv /\ [Next]_vars => FilesInv'
<1> SUFFICES ASSUME FilesInv, [Next]_vars PROVE FilesInv'
  OBVIOUS
<1>1. CASE UNCHANGED vars
  <2>1. UNCHANGED <<inodes, ledger, snapshot, copies, archive, aside, anchor,
                    proc, acked, written, crashes>>
    BY <1>1 DEF vars, names
  <2>2. Current' = Current /\ Held' = Held
    BY <2>1 DEF Current, Bytes, Held
  <2>3. Committed' = Committed
    BY <2>1, <2>2 DEF Committed, Current
  <2>4. DiskInv'
    BY <2>1, <2>2, <2>3
    DEF FilesInv, DiskInv, DiskTyped, Attached, Folded, Numbered, SnapshotHeld,
        AnchorPins
  <2>5. ASSUME NEW p \in Procs PROVE ProcInv(p)'
    <3>1. ProcInv(p) /\ View(p)' = View(p)
      BY <2>1 DEF FilesInv, View
    <3>2. Shape(proc[p])' /\ Locks(p)'
      BY <2>1, <3>1 DEF ProcInv, Shape, Locks
    <3>3. Writes(proc[p]) => WriterKnows(p)'
      BY <2>1, <2>2, <3>1 DEF ProcInv, WriterKnows
    <3>4. /\ \A f : Aside(f)' <=> Aside(f)
          /\ \A f : Diagnosed(f)' <=> Diagnosed(f)
          /\ \A f, fd : Damaged(f, fd)' <=> Damaged(f, fd)
          /\ Remains' = Remains
      BY <2>1, <2>2, SameSight
    <3>5. proc[p].verb = "repair" => RepairKnows(p)'
      BY <2>1, <2>2, <3>1, <3>4 DEF ProcInv, RepairKnows
    <3> QED BY <2>1, <3>2, <3>3, <3>5 DEF ProcInv
  <2> QED BY <2>1, <2>4, <2>5 DEF FilesInv
<1>2. ASSUME NEW p \in Procs, NEW verb \in AllVerbs, Begin(p, verb) PROVE FilesInv'
  BY <1>2, BeginKeeps
<1>3. ASSUME NEW p \in Procs, Writing(p) PROVE FilesInv'
  BY <1>3, OpenKeeps, LockKeeps, CheckSameKeeps, WriteKeeps, TearKeeps,
     SyncedKeeps DEF Writing
<1>4. ASSUME NEW p \in Procs, Reading(p) PROVE FilesInv'
  BY <1>4, ReadSnapshotKeeps, ReadLedgerKeeps, ReadEndsKeeps DEF Reading
<1>5. ASSUME NEW p \in Procs, Rotating(p) PROVE FilesInv'
  BY <1>5, GateKeeps, CopySnapshotKeeps, ActivateKeeps, MoveKeeps,
     CreateEmptyKeeps, WriteAnchorKeeps DEF Rotating
<1>6. ASSUME NEW p \in Procs, Repairing(p) PROVE FilesInv'
  BY <1>6, DiagnoseFileKeeps, JudgeKeeps, ReopenKeeps, StageKeeps,
     PreserveKeeps, SwapKeeps DEF Repairing
<1>7. ASSUME NEW p \in Procs, Crash(p) PROVE FilesInv'
  BY <1>7, CrashKeeps
<1> QED BY <1>1, <1>2, <1>3, <1>4, <1>5, <1>6, <1>7 DEF Next

LEMMA FilesHolds == Spec => []FilesInv
  BY InitFiles, StepFiles, PTL DEF Spec

\* Locks and new empty files do not change the history.
LEMMA SameHistory ==
  ASSUME FilesInv, NEW q \in Procs, snapshot' = snapshot, ledger' = ledger,
         inodes' = inodes \/ inodes' = Unlocked(inodes, q)
  PROVE  Committed' = Committed
<1>1. inodes \in Seq(InodeRecs) /\ Len(inodes) \in Nat /\ ledger \in 0..Len(inodes)
  BY LenProperties DEF FilesInv, DiskInv, DiskTyped
<1>2. CASE inodes' = inodes
  BY <1>2 DEF Committed, Bytes
<1>3. CASE inodes' = Unlocked(inodes, q)
  <2>1. \A i \in 1..Len(inodes) :
          inodes'[i].lines = inodes[i].lines /\ inodes'[i].torn = inodes[i].torn
    BY <1>1, <1>3, UnlockShape
  <2>2. Bytes(ledger)' = Bytes(ledger)
    BY <1>1, <2>1 DEF Bytes
  <2> QED BY <2>2 DEF Committed
<1> QED BY <1>2, <1>3

LEMMA CreatedHistory ==
  ASSUME FilesInv, NEW q \in Procs, Open(q) \/ CreateEmpty(q)
  PROVE  Committed' = Committed /\ acked' = acked
<1>1. /\ acked' = acked /\ snapshot' = snapshot /\ copies' = copies
      /\ archive' = archive /\ aside' = aside /\ anchor' = anchor
      /\ written' = written /\ crashes' = crashes
  BY DEF Open, CreateEmpty
<1>2. CASE ledger = 0
  <2>1. Current' = Current
    BY <1>1, <1>2, NewFile DEF Open, CreateEmpty
  <2> QED BY <1>1, <2>1 DEF Committed, Current
<1>3. CASE ledger # 0
  BY <1>1, <1>3, SameHistory DEF Open, CreateEmpty
<1> QED BY <1>2, <1>3

LEMMA LockedHistory ==
  ASSUME FilesInv, NEW q \in Procs, Lock(q)
  PROVE  Committed' = Committed /\ acked' = acked
<1> DEFINE fd == proc[q].fd
           new == [inodes[fd] EXCEPT !.lock = q]
<1>1. /\ inodes \in Seq(InodeRecs) /\ Len(inodes) \in Nat
      /\ ledger \in 0..Len(inodes) /\ fd \in 1..Len(inodes)
  BY ProcFacts, LenProperties
  DEF FilesInv, DiskInv, DiskTyped, Lock, Locks, Shape, Writes, WriterPcs,
      ProcRecs, AllVerbs
<1>2. inodes[fd] \in InodeRecs
  BY <1>1, ElementOfSeq
<1>3. /\ new \in InodeRecs /\ new.lines = inodes[fd].lines
      /\ new.torn = inodes[fd].torn
  BY <1>2 DEF InodeRecs
<1>4. inodes' = [inodes EXCEPT ![fd] = new]
  BY <1>1 DEF Lock
<1> HIDE DEF new
<1>5. \A i \in 1..Len(inodes) : inodes'[i] = IF i = fd THEN new ELSE inodes[i]
  BY <1>1, <1>3, <1>4, ExceptSeq
<1>6. ledger' = ledger /\ snapshot' = snapshot /\ acked' = acked
  BY DEF Lock, names
<1>7. Bytes(ledger)' = Bytes(ledger)
  BY <1>1, <1>3, <1>5, <1>6 DEF Bytes
<1> QED BY <1>6, <1>7 DEF Committed

\* The steps that leave the files' contents alone leave the history alone.
LEMMA StillHistory ==
  ASSUME FilesInv, NEW q \in Procs,
         \/ \E verb \in AllVerbs : Begin(q, verb)
         \/ CheckSame(q) \/ Reading(q) \/ Gate(q) \/ CopySnapshot(q)
         \/ WriteAnchor(q) \/ DiagnoseFile(q) \/ Judge(q) \/ Reopen(q)
         \/ Stage(q) \/ Preserve(q) \/ Crash(q)
  PROVE  Committed' = Committed /\ acked' = acked
<1>1. snapshot' = snapshot /\ ledger' = ledger /\ acked' = acked
  BY DEF Begin, CheckSame, Reading, ReadSnapshot, ReadLedger, ReadEnds, Gate,
         CopySnapshot, WriteAnchor, DiagnoseFile, Judge, Reopen, Stage,
         Preserve, Crash, names
<1>2. inodes' = inodes \/ inodes' = Unlocked(inodes, q)
  BY DEF Begin, CheckSame, Reading, ReadSnapshot, ReadLedger, ReadEnds, Gate,
         CopySnapshot, WriteAnchor, DiagnoseFile, Judge, Reopen, Stage,
         Preserve, Crash, Return
<1> QED BY <1>1, <1>2, SameHistory

LEMMA HeadsAgree == \A s, c : Promise!HeadOf(s, c) = HeadOf(s, c)
  BY DEF Promise!HeadOf, HeadOf, Promise!Max, Max

\* A write is the commit of module History.
LEMMA WriteCommits ==
  ASSUME FilesInv, NEW q \in Procs, Write(q)
  PROVE  Promise!Commit
<1>1. PICK x \in Line : /\ x.cap \in Caps /\ x.id = written + 1
                        /\ x.prev = HeadOf(Committed, x.cap)
                        /\ Committed' = Append(Committed, x)
  BY WriteShape
<1> DEFINE C == Committed
           D == Committed'
<1>2. C \in Seq(Line) /\ Len(C) \in Nat /\ written \in Nat /\ DOMAIN C = 1..Len(C)
  BY CommittedTyped, LenProperties, FilesAssumption
  DEF FilesInv, DiskInv, DiskTyped, FilesAssumption
<1>3. /\ D \in Seq(Line) /\ Len(D) = Len(C) + 1 /\ D[Len(D)] = x
      /\ IsPrefix(C, D)
  BY <1>1, <1>2, AppendProperties, PrefixAppend
<1>4. SubSeq(D, 1, Len(C)) = C
  BY <1>2, <1>3, SubSeqFull DEF IsPrefix
<1>5. \A i \in DOMAIN C : C[i].id # x.id
  <2>1. \A i \in 1..Len(C) : C[i].id <= written /\ C[i] \in Line
    BY <1>2, ElementOfSeq DEF FilesInv, DiskInv, Numbered
  <2>2. \A i \in 1..Len(C) : C[i].id \in Nat
    BY <2>1, FilesAssumption DEF Line, FilesAssumption
  <2> QED BY <1>1, <1>2, <2>1, <2>2
<1>6. acked' = acked
  BY DEF Write
<1> HIDE DEF C, D
<1>7. D[Len(D)].prev = Promise!HeadOf(C, D[Len(D)].cap)
  BY <1>1, <1>3, HeadsAgree DEF C
<1> QED BY <1>1, <1>3, <1>4, <1>5, <1>6, <1>7 DEF Promise!Commit, C, D

LEMMA SyncAcknowledges ==
  ASSUME FilesInv, NEW q \in Procs, Synced(q)
  PROVE  Promise!Acknowledge
<1>1. /\ Len(Committed) \in 1..Len(Committed)
      /\ acked' = acked \cup {Committed[Len(Committed)].id}
  BY SyncedAt
<1>2. DOMAIN Committed = 1..Len(Committed)
  BY CommittedTyped, LenProperties DEF FilesInv
<1>3. Committed' = Committed
  BY SameHistory DEF Synced, Return, names
<1> QED BY <1>1, <1>2, <1>3 DEF Promise!Acknowledge

LEMMA StepHistory ==
  FilesInv /\ [Next]_vars => [Promise!Next]_<<Committed, acked>>
<1> SUFFICES ASSUME FilesInv, [Next]_vars
             PROVE  Promise!Next \/ (Committed' = Committed /\ acked' = acked)
  OBVIOUS
<1>1. CASE UNCHANGED vars
  BY <1>1 DEF vars, names, Committed, Bytes
<1>2. ASSUME NEW p \in Procs, Writing(p)
      PROVE  Promise!Next \/ (Committed' = Committed /\ acked' = acked)
  <2>1. Tear(p) => acked' = acked
    BY DEF Tear
  <2> QED BY <1>2, <2>1, CreatedHistory, LockedHistory, StillHistory,
             WriteCommits, TearKeeps, SyncAcknowledges DEF Writing, Promise!Next
<1>3. ASSUME NEW p \in Procs, Rotating(p)
      PROVE  Promise!Next \/ (Committed' = Committed /\ acked' = acked)
  <2>1. Activate(p) \/ Move(p) => acked' = acked
    BY DEF Activate, Move
  <2> QED BY <1>3, <2>1, StillHistory, ActivateKeeps, MoveKeeps, CreatedHistory
          DEF Rotating
<1>4. ASSUME NEW p \in Procs, Repairing(p)
      PROVE  Promise!Next \/ (Committed' = Committed /\ acked' = acked)
  <2>1. Swap(p) => acked' = acked
    BY DEF Swap
  <2> QED BY <1>4, <2>1, StillHistory, SwapKeeps DEF Repairing
<1> QED BY <1>1, <1>2, <1>3, <1>4, StillHistory DEF Next

LEMMA InitHistory == Init => Promise!Init
<1> SUFFICES ASSUME Init PROVE Promise!Init
  OBVIOUS
<1>1. <<>> \o <<>> = <<>>
  BY EmptySeq, ConcatEmptySeq
<1> QED BY <1>1 DEF Init, Promise!Init, Committed, Bytes, NoFile

LEMMA InvTyped == FilesInv => TypeOK
<1> SUFFICES ASSUME FilesInv PROVE TypeOK
  OBVIOUS
<1>1. /\ inodes \in Seq(InodeRecs) /\ DOMAIN inodes = 1..Len(inodes)
      /\ snapshot \in Seq(Line) /\ DOMAIN snapshot = 1..Len(snapshot)
  BY LenProperties DEF FilesInv, DiskInv, DiskTyped
<1>2. \A k \in DOMAIN snapshot : snapshot[k] \in Line
  BY <1>1, ElementOfSeq
<1>3. ASSUME NEW i \in DOMAIN inodes
      PROVE  /\ \A k \in DOMAIN inodes[i].lines : inodes[i].lines[k] \in Line
             /\ inodes[i].torn \in BOOLEAN
             /\ inodes[i].lock \in Procs \cup {None}
             /\ inodes[i].lock # None =>
                    /\ proc[inodes[i].lock].fd = i
                    /\ proc[inodes[i].lock].pc \in LockedPcs
  <2>1. inodes[i] \in InodeRecs
    BY <1>1, ElementOfSeq
  <2>2. /\ inodes[i].lines \in Seq(Line) /\ inodes[i].torn \in BOOLEAN
        /\ inodes[i].lock \in Procs \cup {None}
    BY <2>1 DEF InodeRecs
  <2>3. \A k \in DOMAIN inodes[i].lines : inodes[i].lines[k] \in Line
    <3>1. DOMAIN inodes[i].lines = 1..Len(inodes[i].lines)
      BY <2>2, LenProperties
    <3> QED BY <2>2, <3>1, ElementOfSeq
  <2>4. ASSUME inodes[i].lock # None
        PROVE  /\ proc[inodes[i].lock].fd = i
               /\ proc[inodes[i].lock].pc \in LockedPcs
    <3>1. PICK p \in Procs : inodes[i].lock = p
      BY <2>2, <2>4
    <3>2. Locks(p)
      BY DEF FilesInv, ProcInv
    <3> QED BY <1>1, <3>1, <3>2 DEF Locks
  <2> QED BY <2>2, <2>3, <2>4
<1> QED BY <1>2, <1>3 DEF TypeOK, FilesInv, DiskInv, DiskTyped

LEMMA InvHeld == FilesInv => NothingDeleted
<1> SUFFICES ASSUME FilesInv, NEW k \in DOMAIN Committed
             PROVE  \E i \in Held \ {0} : \E j \in DOMAIN inodes[i].lines :
                        inodes[i].lines[j] = Committed[k]
  BY DEF NothingDeleted
<1> DEFINE L == Current.lines
           C == Committed
<1>1. /\ snapshot \in Seq(Line) /\ L \in Seq(Line) /\ C \in Seq(Line)
      /\ Len(snapshot) \in Nat /\ Len(L) \in Nat
      /\ k \in 1..Len(C) /\ DOMAIN L = 1..Len(L)
  BY CurrentTyped, CommittedTyped, LenProperties
  DEF FilesInv, DiskInv, DiskTyped, CurrentShape
<1>2. CASE k \in 1..Len(snapshot) /\ C[k] = snapshot[k]
  <2>1. PICK i \in Held \ {0} : \E j \in 1..Len(inodes[i].lines) :
                 inodes[i].lines[j] = C[k]
    BY <1>2 DEF FilesInv, DiskInv, SnapshotHeld
  <2>2. i \in 1..Len(inodes) /\ inodes \in Seq(InodeRecs)
    <3>1. DOMAIN inodes = 1..Len(inodes) /\ Len(inodes) \in Nat
      BY LenProperties DEF FilesInv, DiskInv, DiskTyped
    <3> QED BY <3>1 DEF Held, FilesInv, DiskInv, DiskTyped
  <2>3. inodes[i] \in InodeRecs
    BY <2>2, ElementOfSeq
  <2>4. DOMAIN inodes[i].lines = 1..Len(inodes[i].lines)
    BY <2>3, LenProperties DEF InodeRecs
  <2> QED BY <2>1, <2>4
<1>3. CASE \E j \in 1..Len(L) : C[k] = L[j]
  <2>1. PICK j \in 1..Len(L) : C[k] = L[j]
    BY <1>3
  <2>2. L # <<>>
    BY <1>1, <2>1, EmptySeq
  <2>3. ledger # 0 /\ L = inodes[ledger].lines
    BY <2>2, CurrentTyped DEF FilesInv, DiskInv, CurrentShape
  <2>4. ledger \in Held \ {0}
    BY <2>3 DEF Held
  <2> QED BY <1>1, <2>1, <2>3, <2>4
<1>4. (k \in 1..Len(snapshot) /\ C[k] = snapshot[k]) \/ \E j \in 1..Len(L) : C[k] = L[j]
  <2>1. CASE C = snapshot
    BY <1>1, <2>1
  <2>2. CASE C = snapshot \o L
    <3>1. /\ Len(C) = Len(snapshot) + Len(L)
          /\ \A i \in 1..Len(C) : C[i] = IF i <= Len(snapshot) THEN snapshot[i]
                                         ELSE L[i - Len(snapshot)]
      BY <1>1, <2>2, ConcatProperties
    <3> HIDE DEF C, L
    <3>2. CASE k <= Len(snapshot)
      BY <1>1, <3>1, <3>2
    <3>3. CASE ~(k <= Len(snapshot))
      <4>1. k - Len(snapshot) \in 1..Len(L) /\ C[k] = L[k - Len(snapshot)]
        BY <1>1, <3>1, <3>3
      <4> QED BY <4>1
    <3> QED BY <3>2, <3>3
  <2> QED BY <2>1, <2>2 DEF Committed, Current
<1> QED BY <1>2, <1>3, <1>4

LEMMA InvAnchor == FilesInv => AnchorHonest
<1> SUFFICES ASSUME FilesInv, anchor # None
             PROVE  IsPrefix(anchor.pins, Committed) /\ IsPrefix(anchor.fold, snapshot)
  BY DEF AnchorHonest
<1>1. /\ anchor.pins \in Seq(Line) /\ anchor.fold \in Seq(Line)
      /\ IsPrefix(anchor.pins, snapshot) /\ IsPrefix(anchor.fold, snapshot)
  BY DEF FilesInv, DiskInv, AnchorPins
<1>2. snapshot \in Seq(Line) /\ Committed \in Seq(Line) /\ IsPrefix(snapshot, Committed)
  BY CommittedTyped DEF FilesInv
<1> QED BY <1>1, <1>2, PrefixTransitive

\* Types, and locks: a lock is held on the descriptor of a process inside the
\* locked section of its verb (lockLedger and the deferred unlocks).
THEOREM FilesTyped == Spec => []TypeOK
  BY FilesHolds, InvTyped, PTL

\* Every line of the history stands in the ledger, in an archive or in a file
\* a repair set aside, whatever was interrupted (Rotate, Quarantine).
THEOREM NothingIsDeleted == Spec => []NothingDeleted
  BY FilesHolds, InvHeld, PTL

\* The anchor pins a prefix of the history, and its fold is one the snapshot
\* extends (BuildAnchor and the refresh at the end of Rotate).
THEOREM AnchorsAreHonest == Spec => []AnchorHonest
  BY FilesHolds, InvAnchor, PTL

\* The files implement the growing history: commitUnderLock is its commit, the
\* answer to the writer its acknowledgement, and opening, locking, rotating,
\* repairing and being killed anywhere in between are invisible in it.
THEOREM FilesKeepTheHistory == Spec => HistoryGrows
<1>1. Init => Promise!Init
  BY InitHistory
<1>2. FilesInv /\ [Next]_vars => [Promise!Next]_<<Committed, acked>>
  BY StepHistory
<1> QED BY <1>1, <1>2, FilesHolds, PTL DEF Spec, HistoryGrows, Promise!Spec

\* A set of naturals that holds zero and every successor of its members holds
\* them all: induction, for the set of those a statement is true of.
LEMMA NaturalsByStep ==
  ASSUME NEW T, 0 \in T, \A n \in Nat : n \in T => n + 1 \in T
  PROVE  \A n \in Nat : n \in T
<1> DEFINE Missing == Nat \ T
           R == OpToRel(<, Nat)
<1>1. SUFFICES ASSUME Missing # {} PROVE FALSE
  OBVIOUS
<1>2. PICK u \in Missing : \A v \in Missing : ~(<<v, u>> \in R)
  <2>1. IsWellFoundedOn(R, Nat) /\ Missing \subseteq Nat
    BY NatLessThanWellFounded
  <2> HIDE DEF Missing, R
  <2> QED BY <1>1, <2>1, WFMin
<1>3. u \in Nat /\ u # 0 /\ u - 1 \in Nat
  OBVIOUS
<1>4. <<u - 1, u>> \in R
  BY <1>3 DEF OpToRel
<1>5. u - 1 \in T
  <2> HIDE DEF R
  <2> QED BY <1>2, <1>3, <1>4
<1> QED BY <1>3, <1>5

------------------------------------------------------------------------------
(* The lines about a capability.                                           *)

\* f holds the lines about c among the first n, for every n up to k: the
\* equation About computes by.
AboutBy(f, s, c, k) ==
    f = [n \in 0..k |->
            IF n = 0 THEN <<>>
            ELSE IF s[n].cap = c THEN Append(f[n-1], s[n]) ELSE f[n-1]]

AboutTo(s, c, k) == (CHOOSE f : AboutBy(f, s, c, k))[k]

\* The k-th line is put to the others about c, or it is not.
OneMore(s, c, k, t) == IF s[k].cap = c THEN Append(t, s[k]) ELSE t

\* There is such a function, and About computes it.
LEMMA AboutExists ==
  ASSUME NEW s, NEW c, NEW k \in Nat
  PROVE  \E f : AboutBy(f, s, c, k)
<1> DEFINE T == {n \in Nat : \E f : AboutBy(f, s, c, n)}
<1>1. 0 \in T
  <2> DEFINE f == [n \in 0..0 |-> <<>>]
  <2>1. f = [n \in 0..0 |->
               IF n = 0 THEN <<>>
               ELSE IF s[n].cap = c THEN Append(f[n-1], s[n]) ELSE f[n-1]]
    OBVIOUS
  <2> HIDE DEF f
  <2>2. AboutBy(f, s, c, 0)
    BY <2>1 DEF AboutBy
  <2> QED BY <2>2
<1>2. ASSUME NEW n \in Nat, n \in T PROVE n + 1 \in T
  <2>1. PICK f : AboutBy(f, s, c, n)
    BY <1>2
  <2> DEFINE g == [m \in 0..n+1 |-> IF m <= n THEN f[m] ELSE OneMore(s, c, n+1, f[n])]
  <2>2. f = [m \in 0..n |-> IF m = 0 THEN <<>> ELSE OneMore(s, c, m, f[m-1])]
    BY <2>1 DEF AboutBy, OneMore
  <2>3. ASSUME NEW m \in 0..n+1
        PROVE  g[m] = IF m = 0 THEN <<>> ELSE OneMore(s, c, m, g[m-1])
    <3>1. CASE m = 0
      BY <2>2, <3>1
    <3>2. CASE m \in 1..n
      <4>1. g[m] = f[m] /\ g[m-1] = f[m-1] /\ m # 0
        BY <3>2
      <4>2. f[m] = OneMore(s, c, m, f[m-1])
        BY <2>2, <3>2
      <4> QED BY <4>1, <4>2
    <3>3. CASE m = n + 1
      <4>1. g[m] = OneMore(s, c, m, f[n]) /\ g[m-1] = f[n] /\ m # 0
        BY <3>3
      <4> QED BY <4>1
    <3> QED BY <3>1, <3>2, <3>3
  <2>4. g = [m \in 0..n+1 |-> IF m = 0 THEN <<>> ELSE OneMore(s, c, m, g[m-1])]
    BY <2>3
  <2> HIDE DEF g
  <2>5. AboutBy(g, s, c, n + 1)
    BY <2>4 DEF AboutBy, OneMore
  <2> QED BY <2>5
<1> HIDE DEF T
<1>3. k \in T
  BY <1>1, <1>2, NaturalsByStep
<1> QED BY <1>3 DEF T

\* It goes by the lines and by nothing else.
LEMMA AboutAgree ==
  ASSUME NEW s, NEW t, NEW c, NEW k \in Nat, NEW f, NEW g, NEW j \in 0..k,
         AboutBy(f, s, c, k), AboutBy(g, t, c, j), \A i \in 1..j : s[i] = t[i]
  PROVE  f[j] = g[j]
<1> DEFINE T == {n \in Nat : n <= j => f[n] = g[n]}
<1>1. /\ f = [n \in 0..k |-> IF n = 0 THEN <<>> ELSE OneMore(s, c, n, f[n-1])]
      /\ g = [n \in 0..j |-> IF n = 0 THEN <<>> ELSE OneMore(t, c, n, g[n-1])]
  BY DEF AboutBy, OneMore
<1>2. 0 \in T
  <2>1. f[0] = <<>>
    BY <1>1
  <2>2. g[0] = <<>>
    BY <1>1
  <2> QED BY <2>1, <2>2
<1>3. ASSUME NEW n \in Nat, n \in T PROVE n + 1 \in T
  <2> SUFFICES ASSUME n + 1 <= j PROVE f[n+1] = g[n+1]
    OBVIOUS
  <2>1. n + 1 \in 1..j /\ n + 1 \in 0..j /\ n + 1 \in 0..k /\ n + 1 # 0 /\ (n + 1) - 1 = n
    OBVIOUS
  <2>2. f[n+1] = OneMore(s, c, n+1, f[n])
    BY <1>1, <2>1
  <2>3. g[n+1] = OneMore(t, c, n+1, g[n])
    BY <1>1, <2>1
  <2>4. s[n+1] = t[n+1]
    BY <2>1
  <2> QED BY <1>3, <2>1, <2>2, <2>3, <2>4 DEF OneMore
<1> HIDE DEF T
<1>4. j \in T
  BY <1>2, <1>3, NaturalsByStep
<1> QED BY <1>4 DEF T

LEMMA AboutLocal ==
  ASSUME NEW s, NEW t, NEW c, NEW k \in Nat, \A i \in 1..k : s[i] = t[i]
  PROVE  AboutTo(s, c, k) = AboutTo(t, c, k)
<1> DEFINE f == CHOOSE f : AboutBy(f, s, c, k)
           g == CHOOSE g : AboutBy(g, t, c, k)
<1>1. AboutBy(f, s, c, k)
  BY AboutExists, Zenon
<1>2. AboutBy(g, t, c, k)
  BY AboutExists, Zenon
<1>3. AboutTo(s, c, k) = f[k] /\ AboutTo(t, c, k) = g[k]
  BY DEF AboutTo
<1> HIDE DEF f, g
<1>4. k \in 0..k
  OBVIOUS
<1>5. f[k] = g[k]
  BY <1>1, <1>2, <1>4, AboutAgree
<1> QED BY <1>3, <1>5

LEMMA AboutSteps ==
  ASSUME NEW s, NEW c
  PROVE  /\ AboutTo(s, c, 0) = <<>>
         /\ \A k \in Nat : AboutTo(s, c, k + 1) =
                IF s[k+1].cap = c THEN Append(AboutTo(s, c, k), s[k+1])
                ELSE AboutTo(s, c, k)
<1>1. AboutTo(s, c, 0) = <<>>
  <2> DEFINE f == CHOOSE f : AboutBy(f, s, c, 0)
  <2>1. AboutBy(f, s, c, 0)
    BY AboutExists, Zenon
  <2>2. AboutTo(s, c, 0) = f[0]
    BY DEF AboutTo
  <2> HIDE DEF f
  <2> QED BY <2>1, <2>2 DEF AboutBy
<1>2. ASSUME NEW k \in Nat
      PROVE  AboutTo(s, c, k + 1) = OneMore(s, c, k + 1, AboutTo(s, c, k))
  <2> DEFINE f == CHOOSE f : AboutBy(f, s, c, k)
             g == CHOOSE g : AboutBy(g, s, c, k + 1)
  <2>1. AboutBy(f, s, c, k)
    BY AboutExists, Zenon
  <2>2. AboutBy(g, s, c, k + 1)
    <3>1. k + 1 \in Nat
      OBVIOUS
    <3> QED BY <3>1, AboutExists, Zenon
  <2>3. AboutTo(s, c, k) = f[k] /\ AboutTo(s, c, k + 1) = g[k+1]
    BY DEF AboutTo
  <2> HIDE DEF f, g
  <2>4. g[k] = f[k]
    <3>1. k + 1 \in Nat /\ k \in 0..k+1
      OBVIOUS
    <3> QED BY <2>1, <2>2, <3>1, AboutAgree
  <2>5. g[k+1] = OneMore(s, c, k+1, g[k])
    <3>1. g = [n \in 0..k+1 |-> IF n = 0 THEN <<>> ELSE OneMore(s, c, n, g[n-1])]
      BY <2>2 DEF AboutBy, OneMore
    <3>2. k + 1 \in 0..k+1 /\ k + 1 # 0 /\ (k + 1) - 1 = k
      OBVIOUS
    <3> QED BY <3>1, <3>2
  <2> QED BY <2>3, <2>4, <2>5
<1> QED BY <1>1, <1>2 DEF OneMore

LEMMA AboutAll ==
  ASSUME NEW s, NEW c, Len(s) \in Nat
  PROVE  About(s, c) = AboutTo(s, c, Len(s))
BY DEF About, AboutTo, AboutBy

LEMMA AboutTyped ==
  ASSUME NEW s \in Seq(Line), NEW c, NEW k \in 0..Len(s)
  PROVE  AboutTo(s, c, k) \in Seq(Line)
<1> DEFINE T == {n \in Nat : n <= Len(s) => AboutTo(s, c, n) \in Seq(Line)}
<1>1. Len(s) \in Nat /\ \A i \in 1..Len(s) : s[i] \in Line
  BY LenProperties, ElementOfSeq
<1>2. 0 \in T
  <2>1. AboutTo(s, c, 0) = <<>> /\ <<>> \in Seq(Line)
    BY AboutSteps, EmptySeq
  <2> QED BY <2>1
<1>3. ASSUME NEW n \in Nat, n \in T PROVE n + 1 \in T
  <2> SUFFICES ASSUME n + 1 <= Len(s) PROVE AboutTo(s, c, n + 1) \in Seq(Line)
    OBVIOUS
  <2>1. AboutTo(s, c, n) \in Seq(Line) /\ s[n+1] \in Line
    BY <1>1, <1>3
  <2>2. Append(AboutTo(s, c, n), s[n+1]) \in Seq(Line)
    BY <2>1, AppendProperties
  <2> QED BY <2>1, <2>2, AboutSteps
<1> HIDE DEF T
<1>4. k \in T
  BY <1>1, <1>2, <1>3, NaturalsByStep
<1> QED BY <1>1, <1>4 DEF T

\* The lines about a capability only become more.
LEMMA AboutGrows ==
  ASSUME NEW s \in Seq(Line), NEW c, NEW j \in 0..Len(s), NEW k \in j..Len(s)
  PROVE  IsPrefix(AboutTo(s, c, j), AboutTo(s, c, k))
<1> DEFINE A(n) == AboutTo(s, c, n)
           T == {n \in Nat : j <= n /\ n <= Len(s) => IsPrefix(A(j), A(n))}
<1>1. Len(s) \in Nat /\ j \in Nat /\ k \in Nat /\ \A i \in 1..Len(s) : s[i] \in Line
  BY LenProperties, ElementOfSeq
<1>2. \A n \in 0..Len(s) : A(n) \in Seq(Line)
  BY AboutTyped
<1>3. IsPrefix(A(j), A(j))
  BY <1>2, PrefixReflexive
<1>4. \A n \in Nat : A(n+1) = IF s[n+1].cap = c THEN Append(A(n), s[n+1]) ELSE A(n)
  BY AboutSteps
<1> HIDE DEF A
<1>5. 0 \in T
  BY <1>1, <1>3
<1>6. ASSUME NEW n \in Nat, n \in T PROVE n + 1 \in T
  <2> SUFFICES ASSUME j <= n + 1, n + 1 <= Len(s) PROVE IsPrefix(A(j), A(n + 1))
    OBVIOUS
  <2>1. CASE j = n + 1
    BY <1>3, <2>1
  <2>2. CASE j <= n
    <3>1. /\ IsPrefix(A(j), A(n)) /\ A(j) \in Seq(Line) /\ A(n) \in Seq(Line)
          /\ A(n+1) \in Seq(Line) /\ s[n+1] \in Line
      BY <1>1, <1>2, <1>6, <2>2
    <3>2. CASE s[n+1].cap = c
      <4>1. A(n+1) = Append(A(n), s[n+1])
        BY <1>4, <3>2
      <4>2. IsPrefix(A(n), A(n+1))
        BY <3>1, <4>1, PrefixAppend
      <4> QED BY <3>1, <4>2, PrefixTransitive
    <3>3. CASE s[n+1].cap # c
      BY <1>4, <3>1, <3>3
    <3> QED BY <3>2, <3>3
  <2> QED BY <1>1, <2>1, <2>2
<1> HIDE DEF T
<1>7. k \in T
  BY ONLY <1>1, <1>5, <1>6, NaturalsByStep
<1> QED BY <1>1, <1>7 DEF T, A

\* Where no line is about the capability, nothing is added.
LEMMA AboutStill ==
  ASSUME NEW s, NEW c, NEW j \in Nat, NEW k \in Nat, j <= k,
         \A i \in j+1..k : s[i].cap # c
  PROVE  AboutTo(s, c, k) = AboutTo(s, c, j)
<1> DEFINE A(n) == AboutTo(s, c, n)
           T == {n \in Nat : j <= n /\ n <= k => A(n) = A(j)}
<1>1. \A n \in Nat : A(n+1) = IF s[n+1].cap = c THEN Append(A(n), s[n+1]) ELSE A(n)
  BY ONLY AboutSteps
<1> HIDE DEF A
<1>2. 0 \in T
  OBVIOUS
<1>3. ASSUME NEW n \in Nat, n \in T PROVE n + 1 \in T
  <2> SUFFICES ASSUME j <= n + 1, n + 1 <= k PROVE A(n + 1) = A(j)
    OBVIOUS
  <2>1. CASE j = n + 1
    BY <2>1
  <2>2. CASE j <= n
    <3>1. s[n+1].cap # c /\ A(n) = A(j)
      BY <1>3, <2>2
    <3> QED BY <1>1, <3>1
  <2> QED BY <2>1, <2>2
<1> HIDE DEF T
<1>4. k \in T
  BY <1>2, <1>3, NaturalsByStep
<1> QED BY <1>4 DEF T, A

\* The head of a capability is the last of the lines about it.
LEMMA AboutHead ==
  ASSUME NEW s \in Seq(Line), NEW c, NEW k \in 0..Len(s)
  PROVE  LET own == AboutTo(s, c, k) IN
         HeadOf(SubSeq(s, 1, k), c) = IF own = <<>> THEN 0 ELSE own[Len(own)].id
<1> DEFINE cut == SubSeq(s, 1, k)
           own == AboutTo(s, c, k)
<1>1. Len(s) \in Nat /\ k \in Nat /\ \A i \in 1..k : s[i] \in Line
  BY LenProperties, ElementOfSeq
<1>2. cut \in Seq(Line) /\ Len(cut) = k /\ \A i \in 1..k : cut[i] = s[i]
  BY <1>1, SubSeqProperties
<1> HIDE DEF cut
<1>3. CASE (\A i \in 1..k : s[i].cap # c) /\ HeadOf(cut, c) = 0
  <2>1. own = AboutTo(s, c, 0)
    BY <1>1, <1>3, AboutStill
  <2> QED BY <1>3, <2>1, AboutSteps DEF cut
<1>4. CASE \E m \in 1..k : /\ s[m].cap = c /\ HeadOf(cut, c) = s[m].id
                           /\ \A i \in 1..k : s[i].cap = c => i <= m
  <2>1. PICK m \in 1..k : /\ s[m].cap = c /\ HeadOf(cut, c) = s[m].id
                          /\ \A i \in 1..k : s[i].cap = c => i <= m
    BY <1>4
  <2>2. \A i \in m+1..k : s[i].cap # c
    BY <1>1, <2>1
  <2>3. own = AboutTo(s, c, m)
    BY <1>1, <2>2, AboutStill
  <2>4. m - 1 \in Nat /\ (m - 1) + 1 = m /\ m - 1 \in 0..Len(s)
    BY <1>1
  <2>5. AboutTo(s, c, m) = Append(AboutTo(s, c, m - 1), s[m])
    BY <2>1, <2>4, AboutSteps
  <2>6. AboutTo(s, c, m - 1) \in Seq(Line) /\ s[m] \in Line
    BY <1>1, <2>4, AboutTyped
  <2>7. own # <<>> /\ own[Len(own)] = s[m]
    BY <2>3, <2>5, <2>6, AppendProperties
  <2> QED BY <2>1, <2>7 DEF cut
<1>5. \/ (\A i \in 1..k : s[i].cap # c) /\ HeadOf(cut, c) = 0
      \/ \E m \in 1..k : /\ s[m].cap = c /\ HeadOf(cut, c) = s[m].id
                         /\ \A i \in 1..k : s[i].cap = c => i <= m
  <2>1. \/ (\A i \in 1..Len(cut) : cut[i].cap # c) /\ HeadOf(cut, c) = 0
        \/ \E m \in 1..Len(cut) :
                /\ cut[m].cap = c /\ HeadOf(cut, c) = cut[m].id
                /\ \A i \in 1..Len(cut) : cut[i].cap = c => i <= m
    BY <1>2, HeadWhere
  <2> QED BY <1>2, <2>1
<1> QED BY <1>3, <1>4, <1>5

\* A history has one state of a capability for every head of it.
LEMMA SameHeadOrder ==
  ASSUME NEW s \in Seq(Line), Rising(s), NEW c, NEW j \in 0..Len(s), NEW k \in j..Len(s),
         HeadOf(SubSeq(s, 1, j), c) = HeadOf(SubSeq(s, 1, k), c)
  PROVE  AboutTo(s, c, j) = AboutTo(s, c, k)
<1>1. Len(s) \in Nat /\ j \in Nat /\ k \in Nat /\ \A i \in 1..Len(s) : s[i] \in Line
  BY LenProperties, ElementOfSeq
<1>2. \A i \in 1..Len(s) : s[i].id \in Nat /\ s[i].id > 0
  BY <1>1, FilesAssumption DEF Line, FilesAssumption
<1> DEFINE a == SubSeq(s, 1, j)
           b == SubSeq(s, 1, k)
           h == HeadOf(b, c)
<1>3. /\ a \in Seq(Line) /\ Len(a) = j
      /\ \A i \in 1..j : a[i] = s[i]
  BY <1>1, SubSeqProperties
<1>4. /\ b \in Seq(Line) /\ Len(b) = k
      /\ \A i \in 1..k : b[i] = s[i]
  BY <1>1, SubSeqProperties
<1>4a. h = HeadOf(a, c)
  OBVIOUS
<1> HIDE DEF a, b
<1>5. \/ h = 0
      \/ \E m \in 1..j : h = s[m].id
  <2>1. \/ HeadOf(a, c) = 0
        \/ \E m \in 1..Len(a) : HeadOf(a, c) = a[m].id
    BY <1>3, HeadWhere
  <2> QED BY <1>3, <1>4a, <2>1
<1>6. \/ \A i \in 1..k : s[i].cap # c
      \/ \E m \in 1..k : h = s[m].id /\ \A i \in 1..k : s[i].cap = c => i <= m
  <2>1. \/ \A i \in 1..Len(b) : b[i].cap # c
        \/ \E m \in 1..Len(b) :
             /\ h = b[m].id
             /\ \A i \in 1..Len(b) : b[i].cap = c => i <= m
    BY <1>4, HeadWhere
  <2> QED BY <1>4, <2>1
<1> HIDE DEF h
<1>7. \A i \in j+1..k : s[i].cap # c
  <2>1. CASE \A i \in 1..k : s[i].cap # c
    BY <1>1, <2>1
  <2>2. CASE \E m \in 1..k : h = s[m].id /\ \A i \in 1..k : s[i].cap = c => i <= m
    <3>1. PICK m \in 1..k : h = s[m].id /\ \A i \in 1..k : s[i].cap = c => i <= m
      BY <2>2
    <3>2. m \in 1..Len(s) /\ h # 0
      BY <1>1, <1>2, <3>1
    <3>3. PICK q \in 1..j : h = s[q].id
      BY <1>5, <3>2
    <3>4. ~(q < m)
      <4>1. q \in 1..Len(s)
        BY <1>1
      <4>2. q < m => s[q].id < s[m].id
        BY <3>2, <4>1 DEF Rising
      <4> QED BY <1>2, <3>1, <3>3, <4>1, <4>2
    <3> QED BY <1>1, <3>1, <3>4
  <2> QED BY <1>6, <2>1, <2>2
<1> QED BY <1>1, <1>7, AboutStill

\* A cut past the base is the base with a cut of what follows it.
LEMMA CutConcat ==
  ASSUME NEW S, NEW s \in Seq(S), NEW t \in Seq(S), NEW n \in 0..Len(t)
  PROVE  s \o SubSeq(t, 1, n) = SubSeq(s \o t, 1, Len(s) + n)
<1> DEFINE b == Len(s)
           u == SubSeq(t, 1, n)
           v == s \o t
           x == s \o u
           y == SubSeq(v, 1, b + n)
<1>1. b \in Nat /\ Len(t) \in Nat /\ n \in Nat
  BY LenProperties
<1>2. /\ v \in Seq(S) /\ Len(v) = b + Len(t)
      /\ \A i \in 1..b + Len(t) : v[i] = IF i <= b THEN s[i] ELSE t[i - b]
  BY ConcatProperties
<1>3. \A i \in 1..n : t[i] \in S
  BY <1>1, ElementOfSeq
<1>4. u \in Seq(S) /\ Len(u) = n /\ \A i \in 1..n : u[i] = t[i]
  BY <1>1, <1>3, SubSeqProperties
<1> HIDE DEF u, v
<1>5. /\ x \in Seq(S) /\ Len(x) = b + n
      /\ \A i \in 1..b + n : x[i] = IF i <= b THEN s[i] ELSE u[i - b]
  <2>1. /\ x \in Seq(S) /\ Len(x) = b + Len(u)
        /\ \A i \in 1..b + Len(u) : x[i] = IF i <= b THEN s[i] ELSE u[i - b]
    BY <1>4, ConcatProperties
  <2> QED BY <1>4, <2>1
<1>6. /\ y \in Seq(S) /\ Len(y) = b + n /\ \A i \in 1..b + n : y[i] = v[i]
  <2>1. \A i \in 1..b + n : v[i] \in S
    BY <1>1, <1>2, ElementOfSeq
  <2> QED BY <1>1, <2>1, SubSeqProperties
<1> HIDE DEF x, y
<1>7. ASSUME NEW i \in 1..b + n PROVE x[i] = y[i]
  <2> HIDE DEF b
  <2>3. y[i] = v[i]
    BY <1>6
  <2>4. i \in 1..b + Len(t)
    BY <1>1
  <2>1. CASE i <= b
    <3>1. x[i] = s[i]
      BY <1>5, <2>1
    <3>2. v[i] = s[i]
      BY <1>2, <2>1, <2>4
    <3> QED BY <2>3, <3>1, <3>2
  <2>2. CASE ~(i <= b)
    <3>1. i - b \in 1..n
      BY <1>1, <2>2
    <3>2. x[i] = u[i - b]
      BY <1>5, <2>2
    <3>3. v[i] = t[i - b]
      BY <1>2, <2>2, <2>4
    <3> QED BY <1>4, <2>3, <3>1, <3>2, <3>3
  <2> QED BY <2>1, <2>2
<1>8. x = y
  BY <1>5, <1>6, <1>7, SeqEqual
<1> QED BY <1>8 DEF x, y, u, v

\* A chain of lines each of which pins the head before it.
Chained(s) == \A i \in 1..Len(s) : s[i].prev = HeadOf(SubSeq(s, 1, i - 1), s[i].cap)

LEMMA SameHead ==
  ASSUME NEW s \in Seq(Line), Rising(s), NEW c, NEW j \in 0..Len(s), NEW k \in 0..Len(s),
         HeadOf(SubSeq(s, 1, j), c) = HeadOf(SubSeq(s, 1, k), c)
  PROVE  AboutTo(s, c, j) = AboutTo(s, c, k)
<1>1. Len(s) \in Nat
  BY LenProperties
<1>2. CASE j <= k
  <2>1. k \in j..Len(s)
    BY <1>1, <1>2
  <2> QED BY <2>1, SameHeadOrder
<1>3. CASE k <= j
  <2>1. j \in k..Len(s)
    BY <1>1, <1>3
  <2> QED BY <2>1, SameHeadOrder
<1> QED BY <1>1, <1>2, <1>3

\* What continues an earlier state of a history with lines of that history is,
\* for each capability, an earlier state of it: the pins leave no choice.
LEMMA ReadsHistory ==
  ASSUME NEW C \in Seq(Line), Rising(C), Chained(C),
         NEW base \in Seq(Line), IsPrefix(base, C),
         NEW L \in Seq(Line), Continues(base, L),
         \A n \in 1..Len(L) : \E i \in 1..Len(C) : L[n] = C[i],
         NEW c
  PROVE  IsPrefix(About(base \o L, c), About(C, c))
<1> DEFINE V == base \o L
           b == Len(base)
           Met(n) == \A d : \E m \in 0..Len(C) : AboutTo(V, d, b + n) = AboutTo(C, d, m)
           T == {n \in Nat : n <= Len(L) => Met(n)}
<1>1. b \in Nat /\ Len(L) \in Nat /\ Len(C) \in Nat
  BY LenProperties
<1>2. /\ V \in Seq(Line) /\ Len(V) = b + Len(L)
      /\ \A i \in 1..b + Len(L) : V[i] = IF i <= b THEN base[i] ELSE L[i - b]
  BY ConcatProperties
<1>3. b <= Len(C) /\ \A i \in 1..b : base[i] = C[i]
  BY PrefixPoints
<1>4. \A n \in 1..Len(L) : V[b + n] = L[n]
  <2> SUFFICES ASSUME NEW n \in 1..Len(L) PROVE V[b + n] = L[n]
    OBVIOUS
  <2>1. b + n \in 1..b + Len(L) /\ ~(b + n <= b) /\ b + n - b = n
    BY <1>1
  <2> QED BY <1>2, <2>1
<1>5. \A i \in 1..b : V[i] = C[i]
  BY <1>1, <1>2, <1>3
<1> HIDE DEF V, b
<1>6. 0 \in T
  <2>1. ASSUME NEW d PROVE AboutTo(V, d, b) = AboutTo(C, d, b)
    BY <1>1, <1>5, AboutLocal
  <2>2. b + 0 = b /\ b \in 0..Len(C)
    BY <1>1, <1>3
  <2> QED BY <2>1, <2>2
<1>7. ASSUME NEW n \in Nat, n \in T PROVE n + 1 \in T
  <2> SUFFICES ASSUME n + 1 <= Len(L), NEW d
               PROVE  \E m \in 0..Len(C) : AboutTo(V, d, b + (n + 1)) = AboutTo(C, d, m)
    OBVIOUS
  <2>1. PICK m \in 0..Len(C) : AboutTo(V, d, b + n) = AboutTo(C, d, m)
    BY <1>1, <1>7
  <2>2. n + 1 \in 1..Len(L)
    BY <1>1
  <2>3. PICK i \in 1..Len(C) : L[n+1] = C[i]
    BY <2>2
  <2>4. V[b + (n + 1)] = C[i]
    BY <1>4, <2>2, <2>3
  <2>5. b + n \in Nat /\ (b + n) + 1 = b + (n + 1) /\ b + n \in 0..Len(V)
    BY <1>1, <1>2
  <2>6. AboutTo(V, d, b + (n + 1)) = IF C[i].cap = d
                                      THEN Append(AboutTo(V, d, b + n), C[i])
                                      ELSE AboutTo(V, d, b + n)
    <3>1. AboutTo(V, d, (b + n) + 1) = IF V[(b + n) + 1].cap = d
                                        THEN Append(AboutTo(V, d, b + n), V[(b + n) + 1])
                                        ELSE AboutTo(V, d, b + n)
      <4>1. \A k \in Nat : AboutTo(V, d, k + 1) = IF V[k+1].cap = d
                                                   THEN Append(AboutTo(V, d, k), V[k+1])
                                                   ELSE AboutTo(V, d, k)
        BY ONLY AboutSteps
      <4> QED BY ONLY <2>5, <4>1
    <3> QED BY <2>4, <2>5, <3>1
  <2>7. CASE C[i].cap # d
    BY <2>1, <2>6, <2>7
  <2>8. CASE C[i].cap = d
    <3>1. base \o SubSeq(L, 1, n) = SubSeq(V, 1, b + n)
      <4>1. n \in 0..Len(L)
        BY <1>1, <2>2
      <4> QED BY <4>1, CutConcat DEF V, b
    <3>2. C[i].prev = HeadOf(SubSeq(V, 1, b + n), d)
      <4>1. DOMAIN L = 1..Len(L) /\ (n + 1) - 1 = n
        BY LenProperties
      <4>2. L[n+1].prev = HeadOf(base \o SubSeq(L, 1, (n + 1) - 1), L[n+1].cap)
        BY <2>2, <4>1 DEF Continues
      <4> QED BY <2>3, <2>8, <3>1, <4>1, <4>2
    <3>3. C[i].prev = HeadOf(SubSeq(C, 1, i - 1), d)
      BY <2>8 DEF Chained
    <3>4. HeadOf(SubSeq(V, 1, b + n), d) = HeadOf(SubSeq(C, 1, m), d)
      <4> DEFINE own == AboutTo(C, d, m)
      <4>1. HeadOf(SubSeq(C, 1, m), d) = IF own = <<>> THEN 0 ELSE own[Len(own)].id
        BY AboutHead
      <4>2. AboutTo(V, d, b + n) = own
        BY <2>1
      <4> HIDE DEF own
      <4>3. HeadOf(SubSeq(V, 1, b + n), d) = IF own = <<>> THEN 0 ELSE own[Len(own)].id
        BY <1>2, <2>5, <4>2, AboutHead
      <4> QED BY <4>1, <4>3
    <3>5. i - 1 \in 0..Len(C) /\ i - 1 \in Nat /\ (i - 1) + 1 = i /\ i \in 0..Len(C)
      BY <1>1
    <3>6. AboutTo(C, d, m) = AboutTo(C, d, i - 1)
      BY <3>2, <3>3, <3>4, <3>5, SameHead
    <3>7. AboutTo(C, d, (i - 1) + 1) = Append(AboutTo(C, d, i - 1), C[(i - 1) + 1])
      <4>1. \A k \in Nat : AboutTo(C, d, k + 1) = IF C[k+1].cap = d
                                                   THEN Append(AboutTo(C, d, k), C[k+1])
                                                   ELSE AboutTo(C, d, k)
        BY ONLY AboutSteps
      <4>2. C[(i - 1) + 1].cap = d
        BY ONLY <2>8, <3>5
      <4> QED BY ONLY <3>5, <4>1, <4>2
    <3>8. AboutTo(V, d, b + (n + 1)) = AboutTo(C, d, i)
      BY <2>1, <2>6, <2>8, <3>5, <3>6, <3>7
    <3> QED BY <3>5, <3>8
  <2> QED BY <2>7, <2>8
<1> HIDE DEF T
<1>8. Len(L) \in T
  BY ONLY <1>1, <1>6, <1>7, NaturalsByStep
<1>9. PICK m \in 0..Len(C) : AboutTo(V, c, b + Len(L)) = AboutTo(C, c, m)
  <2>1. Met(Len(L))
    <3> HIDE DEF Met
    <3> QED BY ONLY <1>1, <1>8 DEF T
  <2> QED BY ONLY <2>1
<1>10. About(V, c) = AboutTo(C, c, m) /\ About(C, c) = AboutTo(C, c, Len(C))
  <2>1. Len(V) \in Nat
    BY <1>1, <1>2
  <2> QED BY <1>1, <1>2, <1>9, <2>1, AboutAll
<1>11. IsPrefix(AboutTo(C, c, m), AboutTo(C, c, Len(C)))
  <2>1. Len(C) \in m..Len(C)
    BY <1>1
  <2> QED BY <2>1, AboutGrows
<1> QED BY <1>10, <1>11 DEF V

------------------------------------------------------------------------------
(* Readers.                                                                *)

\* What a reader, or anyone else, has read of the snapshot is an earlier state
\* of the history, and so is what it accepted, capability by capability.
Saw(p) ==
    /\ proc[p].pc = "tail" => IsPrefix(proc[p].base, Committed)
    /\ proc[p].pc = "accepted" =>
           \A c \in Caps : IsPrefix(About(View(p), c), About(Committed, c))

ReadInv == Chained(Committed) /\ \A p \in Procs : Saw(p)

CommittedShape == Committed \in Seq(Line)

LEMMA CommittedTypedNext == DiskInv' => CommittedShape'
<1>1. DiskInv => CommittedShape
  BY CommittedTyped DEF CommittedShape
<1> QED BY <1>1, PTL

\* What the history becomes in a step.
LEMMA HistoryStep ==
  ASSUME FilesInv, FilesInv', Chained(Committed),
         Promise!Next \/ Committed' = Committed
  PROVE  /\ Chained(Committed)' /\ IsPrefix(Committed, Committed')
         /\ Committed \in Seq(Line) /\ Committed' \in Seq(Line)
<1>1. Committed \in Seq(Line) /\ Len(Committed) \in Nat
  BY CommittedTyped DEF FilesInv
<1>2. Committed' \in Seq(Line)
  BY CommittedTypedNext DEF FilesInv, CommittedShape
<1> DEFINE C == Committed
           D == Committed'
<1>3. CASE D = C
  BY <1>1, <1>3, PrefixReflexive DEF Chained
<1>4. CASE /\ Len(D) = Len(C) + 1 /\ SubSeq(D, 1, Len(C)) = C
           /\ D[Len(D)].prev = HeadOf(C, D[Len(D)].cap)
  <2>1. C \in Seq(Line) /\ D \in Seq(Line) /\ Len(C) \in Nat /\ Len(C) \in 0..Len(D)
    BY <1>1, <1>2, <1>4
  <2>2. IsPrefix(C, D)
    BY <1>4, <2>1, CutIsPrefix
  <2>3. ASSUME NEW i \in 1..Len(D)
        PROVE  D[i].prev = HeadOf(SubSeq(D, 1, i - 1), D[i].cap)
    <3>1. CASE i <= Len(C)
      <4>1. i \in 1..Len(C) /\ i - 1 \in 0..Len(C)
        BY <2>1, <3>1
      <4>2. SubSeq(D, 1, i - 1) = SubSeq(C, 1, i - 1)
        BY <2>1, <2>2, <4>1, CutOfCut
      <4>3. D[i] = C[i]
        BY <2>1, <2>2, <4>1, PrefixPoints
      <4> QED BY <4>1, <4>2, <4>3 DEF Chained
    <3>2. CASE i = Len(D)
      <4>1. i - 1 = Len(C)
        BY <1>4, <2>1, <3>2
      <4> QED BY <1>4, <3>2, <4>1
    <3> QED BY <1>4, <2>1, <3>1, <3>2
  <2> HIDE DEF C, D
  <2>4. Chained(D)
    BY <2>3 DEF Chained
  <2>5. IsPrefix(C, D) /\ C \in Seq(Line) /\ D \in Seq(Line)
    BY <2>1, <2>2
  <2> QED BY <2>4, <2>5 DEF C, D, Chained
<1>5. Promise!Next => \/ D = C
                      \/ /\ Len(D) = Len(C) + 1 /\ SubSeq(D, 1, Len(C)) = C
                         /\ D[Len(D)].prev = HeadOf(C, D[Len(D)].cap)
  BY HeadsAgree DEF Promise!Next, Promise!Commit, Promise!Acknowledge
<1> QED BY <1>3, <1>4, <1>5

LEMMA AboutPrefix ==
  ASSUME NEW s \in Seq(Line), NEW t \in Seq(Line), IsPrefix(s, t), NEW c
  PROVE  /\ IsPrefix(About(s, c), About(t, c))
         /\ About(s, c) \in Seq(Line) /\ About(t, c) \in Seq(Line)
<1>1. Len(s) \in Nat /\ Len(t) \in Nat
  BY LenProperties
<1>2. Len(s) <= Len(t) /\ \A i \in 1..Len(s) : s[i] = t[i]
  BY PrefixPoints
<1>3. About(s, c) = AboutTo(s, c, Len(s)) /\ About(t, c) = AboutTo(t, c, Len(t))
  BY <1>1, AboutAll
<1>4. AboutTo(s, c, Len(s)) = AboutTo(t, c, Len(s))
  BY <1>1, <1>2, AboutLocal
<1>5. /\ Len(s) \in 0..Len(t) /\ Len(t) \in Len(s)..Len(t)
      /\ Len(s) \in 0..Len(s) /\ Len(t) \in 0..Len(t)
  BY <1>1, <1>2
<1>6. IsPrefix(AboutTo(t, c, Len(s)), AboutTo(t, c, Len(t)))
  BY <1>5, AboutGrows
<1>7. AboutTo(s, c, Len(s)) \in Seq(Line) /\ AboutTo(t, c, Len(t)) \in Seq(Line)
  BY <1>5, AboutTyped
<1> QED BY <1>3, <1>4, <1>6, <1>7

\* What was seen of the history stays so when it grows.
LEMMA SawStill ==
  ASSUME FilesInv, NEW p \in Procs, Saw(p), proc'[p] = proc[p],
         Committed \in Seq(Line), Committed' \in Seq(Line),
         IsPrefix(Committed, Committed')
  PROVE  Saw(p)'
<1>1. proc[p].base \in Seq(Line) /\ View(p) \in Seq(Line) /\ View(p)' = View(p)
  <2>1. proc[p].base \in Seq(Line) /\ proc[p].file.lines \in Seq(Line)
    BY ProcFacts
  <2> QED BY <2>1, ConcatProperties DEF View
<1>2. CASE proc[p].pc = "tail"
  <2>1. IsPrefix(proc[p].base, Committed')
    BY <1>1, <1>2, PrefixTransitive DEF Saw
  <2> QED BY <1>2, <2>1 DEF Saw
<1>3. CASE proc[p].pc = "accepted"
  <2>1. ASSUME NEW c \in Caps PROVE IsPrefix(About(View(p), c), About(Committed', c))
    <3>1. /\ IsPrefix(About(Committed, c), About(Committed', c))
          /\ About(Committed, c) \in Seq(Line) /\ About(Committed', c) \in Seq(Line)
      BY AboutPrefix
    <3>2. IsPrefix(View(p), View(p))
      BY <1>1, PrefixReflexive
    <3>3. About(View(p), c) \in Seq(Line)
      BY <1>1, <3>2, AboutPrefix
    <3>4. IsPrefix(About(View(p), c), About(Committed, c))
      BY <1>3 DEF Saw
    <3> QED BY <3>1, <3>3, <3>4, PrefixTransitive
  <2>2. \A c : About(View(p), c)' = About(View(p)', c) /\ About(Committed, c)' = About(Committed', c)
    BY DEF About
  <2> QED BY <1>1, <1>3, <2>1, <2>2 DEF Saw
<1>4. CASE proc[p].pc \notin {"tail", "accepted"}
  BY <1>4 DEF Saw
<1> QED BY <1>2, <1>3, <1>4

\* Nobody starts to read but by reading the snapshot, and nobody accepts what
\* was read but by reading the ledger.
LEMMA WhoReads ==
  ASSUME FilesInv, [Next]_vars, NEW p \in Procs
  PROVE  \/ proc'[p] = proc[p] \/ proc'[p].pc \notin {"tail", "accepted"}
         \/ ReadSnapshot(p) \/ ReadLedger(p)
<1> DEFINE Says == \/ proc'[p] = proc[p] \/ proc'[p].pc \notin {"tail", "accepted"}
                   \/ ReadSnapshot(p) \/ ReadLedger(p)
<1>0. proc \in [Procs -> ProcRecs] /\ Idle.pc = "idle"
  BY DEF FilesInv, Idle
<1>1. CASE UNCHANGED vars
  BY <1>1 DEF vars
<1>2. ASSUME NEW q \in Procs, NEW pc \in {"open", "lock", "check", "diagnose", "snapshot",
                "copy", "activate", "move", "create", "anchor", "judge", "reopen",
                "stage", "link", "swap", "sync", "idle"},
             NEW new, new.pc = pc, proc' = [proc EXCEPT ![q] = new]
      PROVE  Says
  BY <1>0, <1>2
<1>3. ASSUME NEW q \in Procs, Return(q) PROVE Says
  BY <1>0, <1>3 DEF Return
<1>4. ASSUME NEW q \in Procs, proc' = [proc EXCEPT ![q] = Idle] PROVE Says
  BY <1>0, <1>4
<1>5. ASSUME NEW q \in Procs,
             NEW pc \in {"check", "diagnose", "snapshot", "copy", "activate", "move",
                         "create", "anchor", "swap"},
             Step(q, pc)
      PROVE  Says
  <2>1. proc[q] \in ProcRecs /\ proc' = [proc EXCEPT ![q] = [proc[q] EXCEPT !.pc = pc]]
    BY <1>0, <1>5 DEF Step
  <2>2. [proc[q] EXCEPT !.pc = pc].pc = pc
    BY <2>1 DEF ProcRecs
  <2> QED BY <1>2, <2>1, <2>2
<1>6. ASSUME NEW q \in Procs, NEW verb \in AllVerbs, Begin(q, verb) PROVE Says
  <2> DEFINE new == [proc[q] EXCEPT !.verb = verb,
                        !.seen = IF verb = "read" THEN acked # {} ELSE None,
                        !.pc = CASE verb = "read"   -> "snapshot"
                                 [] verb = "repair" -> "diagnose"
                                 [] OTHER           -> "open"]
  <2>1. proc' = [proc EXCEPT ![q] = new]
    BY <1>0, <1>6 DEF Begin
  <2>2. new.pc \in {"snapshot", "diagnose", "open"}
    BY <1>0 DEF ProcRecs
  <2> HIDE DEF new
  <2> QED BY <1>2, <2>1, <2>2
<1>7. ASSUME NEW q \in Procs, Open(q) PROVE Says
  <2> DEFINE new == [proc[q] EXCEPT !.pc = "lock", !.fd = ledger', !.tries = @ + 1]
  <2>1. proc' = [proc EXCEPT ![q] = new]
    BY <1>0, <1>7 DEF Open
  <2>2. new.pc = "lock"
    BY <1>0 DEF ProcRecs
  <2> HIDE DEF new
  <2> QED BY <1>2, <2>1, <2>2
<1>8. ASSUME NEW q \in Procs, Lock(q) PROVE Says
  BY <1>5, <1>8 DEF Lock
<1>9. ASSUME NEW q \in Procs, CheckSame(q) PROVE Says
  <2>1. CASE Step(q, "snapshot")
    BY <1>5, <2>1
  <2>2. CASE proc' = [proc EXCEPT ![q] = IF @.tries = Attempts THEN Idle
                                         ELSE [@ EXCEPT !.pc = "open", !.fd = 0]]
    <3> DEFINE new == [proc[q] EXCEPT !.pc = "open", !.fd = 0]
    <3>1. proc' = [proc EXCEPT ![q] = Idle] \/ proc' = [proc EXCEPT ![q] = new]
      BY <1>0, <2>2
    <3>2. new.pc = "open"
      BY <1>0 DEF ProcRecs
    <3> HIDE DEF new
    <3> QED BY <1>2, <1>4, <3>1, <3>2
  <2> QED BY <1>9, <2>1, <2>2 DEF CheckSame
<1>10. ASSUME NEW q \in Procs, Write(q) PROVE Says
  <2> DEFINE new == [proc[q] EXCEPT !.pc = "sync", !.seen = written + 1]
  <2>1. proc' = [proc EXCEPT ![q] = new]
    BY <1>0, <1>10 DEF Write
  <2>2. new.pc = "sync"
    BY <1>0 DEF ProcRecs
  <2> HIDE DEF new
  <2> QED BY <1>2, <2>1, <2>2
<1>11. ASSUME NEW q \in Procs, Tear(q) PROVE Says
  BY <1>4, <1>11 DEF Tear
<1>12. ASSUME NEW q \in Procs, Synced(q) \/ ReadEnds(q) \/ WriteAnchor(q) \/ Crash(q)
       PROVE  Says
  BY <1>3, <1>12 DEF Synced, ReadEnds, WriteAnchor, Crash
<1>13. ASSUME NEW q \in Procs, ReadSnapshot(q) \/ ReadLedger(q) PROVE Says
  <2>1. CASE q = p
    BY <1>13, <2>1
  <2>2. CASE q # p
    BY <1>0, <1>13, <2>2 DEF ReadSnapshot, ReadLedger, Return
  <2> QED BY <2>1, <2>2
<1>14. ASSUME NEW q \in Procs,
              Gate(q) \/ CopySnapshot(q) \/ Activate(q) \/ Move(q) \/ CreateEmpty(q)
       PROVE  Says
  <2>1. Return(q) \/ \E pc \in {"copy", "activate", "move", "create", "anchor"} : Step(q, pc)
    BY <1>14 DEF Gate, CopySnapshot, Activate, Move, CreateEmpty
  <2> QED BY <1>3, <1>5, <2>1
<1>15. ASSUME NEW q \in Procs, DiagnoseFile(q) PROVE Says
  <2> DEFINE new == [proc[q] EXCEPT !.pc = "judge", !.file = Bytes(ledger)]
  <2>1. Return(q) \/ proc' = [proc EXCEPT ![q] = new]
    BY <1>0, <1>15 DEF DiagnoseFile
  <2>2. new.pc = "judge"
    BY <1>0 DEF ProcRecs
  <2> HIDE DEF new
  <2> QED BY <1>2, <1>3, <2>1, <2>2
<1>16. ASSUME NEW q \in Procs, Judge(q) PROVE Says
  <2> DEFINE one == [proc[q] EXCEPT !.pc = "reopen", !.seen = proc[q].file]
             two == [proc[q] EXCEPT !.pc = "stage", !.base = snapshot]
  <2>1. \/ Return(q) \/ proc' = [proc EXCEPT ![q] = one] \/ proc' = [proc EXCEPT ![q] = two]
    BY <1>0, <1>16 DEF Judge
  <2>2. one.pc = "reopen" /\ two.pc = "stage"
    BY <1>0 DEF ProcRecs
  <2> HIDE DEF one, two
  <2> QED BY <1>2, <1>3, <2>1, <2>2
<1>17. ASSUME NEW q \in Procs, Reopen(q) PROVE Says
  <2> DEFINE new == [proc[q] EXCEPT !.pc = "lock", !.fd = ledger]
  <2>1. Return(q) \/ proc' = [proc EXCEPT ![q] = new]
    BY <1>0, <1>17 DEF Reopen
  <2>2. new.pc = "lock"
    BY <1>0 DEF ProcRecs
  <2> HIDE DEF new
  <2> QED BY <1>2, <1>3, <2>1, <2>2
<1>18. ASSUME NEW q \in Procs, Stage(q) PROVE Says
  <2> DEFINE now  == Bytes(ledger).lines
             keep == CleanPrefix(proc[q].base, proc[q].file.lines)
             cut  == SubSeq(now, 1, IF keep < Len(now) THEN keep ELSE Len(now))
             new  == [proc[q] EXCEPT !.pc = "link", !.file.lines = cut]
  <2>1. Return(q) \/ proc' = [proc EXCEPT ![q] = new]
    BY <1>0, <1>18 DEF Stage
  <2> HIDE DEF cut
  <2>2. new.pc = "link"
    BY <1>0 DEF ProcRecs
  <2> HIDE DEF new
  <2> QED BY <1>2, <1>3, <2>1, <2>2
<1>19. ASSUME NEW q \in Procs, Preserve(q) PROVE Says
  BY <1>3, <1>5, <1>19 DEF Preserve
<1>20. ASSUME NEW q \in Procs, Swap(q) PROVE Says
  BY <1>4, <1>20 DEF Swap
<1> HIDE DEF Says
<1>21. Says
  <2>1. CASE Next
    <3>1. PICK q \in Procs :
            \/ \E verb \in AllVerbs : Begin(q, verb)
            \/ Writing(q) \/ Reading(q) \/ Rotating(q) \/ Repairing(q)
            \/ Crash(q)
      BY <2>1 DEF Next
    <3>2. Writing(q) => Says
      BY <1>7, <1>8, <1>9, <1>10, <1>11, <1>12 DEF Writing
    <3>3. Reading(q) => Says
      BY <1>12, <1>13 DEF Reading
    <3>4. Rotating(q) => Says
      BY <1>12, <1>14 DEF Rotating
    <3>5. Repairing(q) => Says
      BY <1>15, <1>16, <1>17, <1>18, <1>19, <1>20 DEF Repairing
    <3> QED BY <1>6, <1>12, <3>1, <3>2, <3>3, <3>4, <3>5
  <2> QED BY <1>1, <2>1 DEF Says
<1> QED BY <1>21 DEF Says

\* The snapshot, whenever it is read, is an earlier state of the history.
LEMMA SnapshotSeen ==
  ASSUME FilesInv, NEW p \in Procs, ReadSnapshot(p)
  PROVE  Saw(p)'
<1> DEFINE new == [proc[p] EXCEPT !.pc = "tail", !.base = snapshot]
<1>1. proc \in [Procs -> ProcRecs]
  BY DEF FilesInv
<1>2. proc' = [proc EXCEPT ![p] = new]
  BY <1>1 DEF ReadSnapshot
<1>3. snapshot \in Seq(Line) /\ IsPrefix(snapshot, Committed)
  BY CommittedTyped DEF FilesInv
<1>4. new.pc = "tail" /\ new.base = snapshot
  BY <1>1, <1>3 DEF ProcRecs
<1> HIDE DEF new
<1>5. proc'[p].pc = "tail" /\ proc'[p].base = snapshot
  BY <1>1, <1>2, <1>4
<1>6. Committed' = Committed
  BY DEF ReadSnapshot, names, Committed, Bytes
<1> QED BY <1>3, <1>5, <1>6 DEF Saw

\* A ledger that continues what was read of the snapshot makes an earlier state
\* of each capability of it, be the snapshot read still the one in place or not.
LEMMA LedgerSeen ==
  ASSUME FilesInv, Chained(Committed), NEW p \in Procs, Saw(p), ReadLedger(p)
  PROVE  Saw(p)'
<1> DEFINE s == proc[p]
           L == Current.lines
           C == Committed
           pc == CASE s.verb = "append" -> "write"
                   [] s.verb = "rotate" -> "gate"
                   [] OTHER             -> "accepted"
           new == [s EXCEPT !.file = Current, !.pc = pc]
<1>0. proc \in [Procs -> ProcRecs]
  BY DEF FilesInv
<1>1. CASE ~Replays(s.base, Current)
  <2>1. Return(p)
    BY <1>1 DEF ReadLedger, Current
  <2>2. proc'[p].pc = "idle"
    BY <1>0, <2>1 DEF Return, Idle
  <2> QED BY <2>2 DEF Saw
<1>2. CASE Replays(s.base, Current)
  <2>1. proc' = [proc EXCEPT ![p] = new] /\ inodes' = inodes /\ ledger' = ledger
        /\ snapshot' = snapshot
    BY <1>0, <1>2 DEF ReadLedger, Current, names
  <2>2. s \in ProcRecs /\ s.pc = "tail" /\ s.base \in Seq(Line)
    BY <1>0, ProcFacts DEF ReadLedger
  <2>3. pc \in {"write", "gate", "accepted"}
    OBVIOUS
  <2>4. CurrentShape
    BY CurrentTyped DEF FilesInv, DiskInv
  <2>5. Current \in FileRecs /\ L \in Seq(Line)
    BY <2>4 DEF CurrentShape
  <2> HIDE DEF pc
  <2>6. new.pc = pc /\ new.base = s.base /\ new.file = Current
    BY <2>2, <2>3, <2>5 DEF ProcRecs
  <2> HIDE DEF new
  <2>7. proc'[p] = new /\ Committed' = C
    BY <1>0, <2>1 DEF Committed, Bytes
  <2>8. View(p)' = s.base \o L
    BY <2>6, <2>7 DEF View
  <2>9. proc'[p].pc # "tail"
    BY <2>3, <2>6, <2>7
  <2>10. Continues(s.base, L)
    BY <1>2 DEF Replays
  <2>11. /\ C \in Seq(Line) /\ snapshot \in Seq(Line) /\ IsPrefix(snapshot, C)
         /\ Rising(C) /\ Len(C) \in Nat /\ Len(snapshot) \in Nat
    BY CommittedTyped DEF FilesInv, DiskInv, Numbered
  <2>12. IsPrefix(s.base, C)
    BY <2>2 DEF Saw
  <2>13. \A n \in 1..Len(L) : \E i \in 1..Len(C) : L[n] = C[i]
    <3>1. CASE Continues(snapshot, L)
      <4>1. C = snapshot \o L
        BY <3>1 DEF Committed, Current
      <4>2. /\ Len(L) \in Nat /\ Len(snapshot \o L) = Len(snapshot) + Len(L)
            /\ \A i \in 1..Len(snapshot) + Len(L) :
                 (snapshot \o L)[i] = IF i <= Len(snapshot) THEN snapshot[i]
                                      ELSE L[i - Len(snapshot)]
        BY <2>5, <2>11, LenProperties, ConcatProperties
      <4> HIDE DEF L, C
      <4>3. ASSUME NEW n \in 1..Len(L) PROVE \E i \in 1..Len(C) : L[n] = C[i]
        <5> DEFINE i == Len(snapshot) + n
        <5>1. /\ i \in 1..Len(snapshot) + Len(L) /\ ~(i <= Len(snapshot))
              /\ i - Len(snapshot) = n
          BY <2>11, <4>2
        <5> HIDE DEF i
        <5>2. i \in 1..Len(C) /\ C[i] = L[n]
          BY <4>1, <4>2, <5>1
        <5> QED BY <5>2
      <4> QED BY <4>3
    <3>2. CASE ~Continues(snapshot, L)
      <4>1. C = snapshot /\ Folded
        BY <3>2 DEF Committed, Current, FilesInv, DiskInv, Attached
      <4>2. DOMAIN L = 1..Len(L) /\ DOMAIN snapshot = 1..Len(snapshot)
        BY <2>5, <2>11, LenProperties
      <4>3. \A n \in 1..Len(L) : L[n] \in ToSet(snapshot)
        BY <4>1, <4>2 DEF Folded
      <4> QED BY <4>1, <4>2, <4>3 DEF ToSet
    <3> QED BY <3>1, <3>2
  <2>14. \A c \in Caps : IsPrefix(About(s.base \o L, c), About(C, c))
    <3> HIDE DEF s, L, C
    <3> SUFFICES ASSUME NEW c \in Caps PROVE IsPrefix(About(s.base \o L, c), About(C, c))
      OBVIOUS
    <3>1. Chained(C)
      BY DEF C
    <3> QED BY <2>2, <2>5, <2>10, <2>11, <2>12, <2>13, <3>1, ReadsHistory
  <2>15. \A c : About(View(p), c)' = About(s.base \o L, c) /\ About(Committed, c)' = About(C, c)
    <3>1. \A c : About(View(p), c)' = About(View(p)', c) /\ About(Committed, c)' = About(Committed', c)
      BY DEF About
    <3> QED BY <2>7, <2>8, <3>1
  <2> QED BY <2>9, <2>14, <2>15 DEF Saw
<1> QED BY <1>1, <1>2

LEMMA ReadInvStep ==
  FilesInv /\ FilesInv' /\ ReadInv /\ [Next]_vars => ReadInv'
<1> SUFFICES ASSUME FilesInv, FilesInv', ReadInv, [Next]_vars PROVE ReadInv'
  OBVIOUS
<1>1. Promise!Next \/ Committed' = Committed
  BY StepHistory
<1>2. /\ Chained(Committed)' /\ IsPrefix(Committed, Committed')
      /\ Committed \in Seq(Line) /\ Committed' \in Seq(Line)
  BY <1>1, HistoryStep DEF ReadInv
<1>3. ASSUME NEW p \in Procs PROVE Saw(p)'
  <2>1. Saw(p) /\ Chained(Committed)
    BY DEF ReadInv
  <2>2. CASE proc'[p] = proc[p]
    BY <1>2, <2>1, <2>2, SawStill
  <2>3. CASE proc'[p].pc \notin {"tail", "accepted"}
    BY <2>3 DEF Saw
  <2>4. CASE ReadSnapshot(p)
    BY <2>4, SnapshotSeen
  <2>5. CASE ReadLedger(p)
    BY <2>1, <2>5, LedgerSeen
  <2> QED BY <2>2, <2>3, <2>4, <2>5, WhoReads
<1> QED BY <1>2, <1>3 DEF ReadInv

LEMMA ReadInvHolds == Spec => []ReadInv
<1>1. Init => ReadInv
  <2> SUFFICES ASSUME Init PROVE ReadInv
    OBVIOUS
  <2>1. <<>> \o <<>> = <<>> /\ Len(<<>>) = 0
    BY EmptySeq, ConcatEmptySeq
  <2>2. Committed = <<>>
    BY <2>1 DEF Init, Committed, Bytes, NoFile
  <2>3. Chained(Committed)
    BY <2>1, <2>2 DEF Chained
  <2>4. \A p \in Procs : Saw(p)
    BY DEF Init, Saw, Idle
  <2> QED BY <2>3, <2>4 DEF ReadInv
<1> QED BY <1>1, FilesHolds, ReadInvStep, PTL DEF Spec

\* A reader takes no lock and reads two files, the snapshot and the ledger, one
\* after the other (ReplayFile), while others append, rotate and repair: what
\* verifyPrev lets it accept is for every capability an earlier state of that
\* capability's history, never a mixture of two.
THEOREM ReadersAreLateAtMost == Spec => []ReadersSeePrefixes
<1>1. ReadInv => ReadersSeePrefixes
  BY DEF ReadInv, Saw, ReadersSeePrefixes
<1> QED BY <1>1, ReadInvHolds, PTL
==============================================================================

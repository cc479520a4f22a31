-------------------------------- MODULE Files --------------------------------
(***************************************************************************)
(* The files a ledger is kept in and the processes that work on them: the  *)
(* ledger itself, the snapshot beside it that folds the compacted prefix,  *)
(* the archives, the anchor and what a repair set aside.  A name (a path)  *)
(* leads to an inode; a lock is held on an inode, so a process may hold    *)
(* the lock of a file that has meanwhile been renamed away.                *)
(*                                                                         *)
(* One action is one system call that other processes can see, in the      *)
(* order the code makes them.  A line is reduced to its capability and the *)
(* head it pins; a snapshot to the lines it folds; a hash of some bytes to *)
(* the bytes.                                                              *)
(***************************************************************************)
EXTENDS Naturals, Sequences, SequencesExt

CONSTANTS
    Caps,       \* capabilities lines are about
    Procs,      \* operating-system processes
    Verbs,      \* Verbs[p]: what the command line of p may ask for
    MaxLines,   \* bound: lines ever written
    MaxCrashes, \* bound: processes killed and writes cut short
    Attempts,   \* tries of lockLedger before it gives up (8 in the code)
    None

AllVerbs == {"append", "rotate", "read", "repair"}

ASSUME FilesAssumption ==
    /\ Verbs \in [Procs -> SUBSET AllVerbs]
    /\ MaxLines \in Nat /\ MaxCrashes \in Nat /\ Attempts \in Nat \ {0}
    /\ None \notin Procs

VARIABLES
    inodes,     \* the files: whole lines, a torn tail or not, lock holder
    ledger,     \* the ledger path: an inode, or 0
    snapshot,   \* the lines the snapshot beside it folds; <<>>: no snapshot
    copies,     \* positions whose outgoing snapshot was copied to its archive
    archive,    \* archived ledger files: [base, ino]
    aside,      \* quarantined files: [of, ino]
    anchor,     \* the anchor beside the ledger, or None
    proc,       \* what each process is doing
    acked,      \* lines whose writer was told they are in the ledger
    written,    \* lines given out
    crashes

names == <<ledger, snapshot, copies, archive, aside, anchor>>
vars  == <<inodes, names, proc, acked, written, crashes>>

------------------------------------------------------------------------------
(* Lines and folds.                                                        *)

\* The head of a capability: the last line about it.
HeadOf(s, c) ==
    LET own == {i \in DOMAIN s : s[i].cap = c} IN
    IF own = {} THEN 0 ELSE s[Max(own)].id

\* Each line pins the head of its capability.
Continues(base, tail) ==
    \A i \in DOMAIN tail :
        tail[i].prev = HeadOf(base \o SubSeq(tail, 1, i - 1), tail[i].cap)

\* Mutant of Replays: no check of the chain.
TornOnly(base, file) == ~file.torn

\* ReplayFile accepts the file over the snapshot.
Replays(base, file) == ~file.torn /\ Continues(base, file.lines)

\* The longest clean prefix, which a quarantine keeps.
CleanPrefix(base, tail) ==
    CHOOSE n \in 0..Len(tail) :
        /\ Continues(base, SubSeq(tail, 1, n))
        /\ n < Len(tail) => ~Continues(base, SubSeq(tail, 1, n + 1))

NoFile  == [lines |-> <<>>, torn |-> FALSE]
Bytes(i) == IF i = 0 THEN NoFile
            ELSE [lines |-> inodes[i].lines, torn |-> inodes[i].torn]

\* Mutant of BuildAnchor: positions of the tail only.
TailAnchor(base, tail) == [pins |-> tail, fold |-> base \o tail]

\* The anchor of a compaction: the history it pins, and the new fold.
BuildAnchor(base, tail) == [pins |-> base \o tail, fold |-> base \o tail]

\* CheckAnchor: the fold is the pinned one and the history extends the pins.
Verified(a, base, view) == a.fold = base /\ IsPrefix(a.pins, view)

------------------------------------------------------------------------------
(* Processes.                                                              *)

Idle == [pc |-> "idle", verb |-> "none", fd |-> 0, tries |-> 0,
         base |-> <<>>, file |-> NoFile, seen |-> None]

Is(p, verb, pc) == proc[p].verb = verb /\ proc[p].pc = pc
Step(p, pc)     == proc' = [proc EXCEPT ![p].pc = pc]

\* Mutant of Unlocked: the lock outlives the operation.
StillLocked(files, p) == files

Unlocked(files, p) ==
    [i \in DOMAIN files |->
        IF files[i].lock = p THEN [files[i] EXCEPT !.lock = None] ELSE files[i]]

\* The process returns: its descriptors are closed, its lock is free.
Return(p) ==
    /\ proc' = [proc EXCEPT ![p] = Idle]
    /\ inodes' = Unlocked(inodes, p)

Fresh(lines) == [lines |-> lines, torn |-> FALSE, lock |-> None]

------------------------------------------------------------------------------
(* Opening and locking.                                                    *)

\* An append names the file into existence; a rotation wants it there.
Begin(p, verb) ==
    /\ proc[p].pc = "idle"
    /\ verb \in Verbs[p]
    /\ verb = "append" => written < MaxLines
    /\ verb \in {"rotate", "repair"} => ledger # 0
    /\ proc' = [proc EXCEPT ![p].verb = verb,
                            ![p].seen = IF verb = "read" THEN acked # {} ELSE None,
                            ![p].pc = CASE verb = "read"   -> "snapshot"
                                        [] verb = "repair" -> "diagnose"
                                        [] OTHER           -> "open"]
    /\ UNCHANGED <<inodes, names, acked, written, crashes>>

\* lockLedger: open with O_CREATE.
Open(p) ==
    /\ proc[p].pc = "open"
    /\ IF ledger = 0
       THEN /\ inodes' = Append(inodes, Fresh(<<>>))
            /\ ledger' = Len(inodes')
       ELSE UNCHANGED <<inodes, ledger>>
    /\ proc' = [proc EXCEPT ![p].pc = "lock", ![p].fd = ledger',
                            ![p].tries = @ + 1]
    /\ UNCHANGED <<snapshot, copies, archive, aside, anchor,
                   acked, written, crashes>>

Lock(p) ==
    /\ proc[p].pc = "lock"
    /\ inodes[proc[p].fd].lock = None
    /\ inodes' = [inodes EXCEPT ![proc[p].fd].lock = p]
    /\ Step(p, IF proc[p].verb = "repair" THEN "diagnose" ELSE "check")
    /\ UNCHANGED <<names, acked, written, crashes>>

\* Mutant of SameFile: the file that was opened is taken for the ledger.
AnyFile(fd) == TRUE

\* sameFile: the descriptor is still what the path leads to.
SameFile(fd) == fd = ledger

CheckSame(p) ==
    /\ proc[p].pc = "check"
    /\ IF SameFile(proc[p].fd)
       THEN Step(p, "snapshot") /\ UNCHANGED inodes
       ELSE /\ inodes' = Unlocked(inodes, p)
            /\ proc' = [proc EXCEPT ![p] =
                           IF @.tries = Attempts THEN Idle
                           ELSE [@ EXCEPT !.pc = "open", !.fd = 0]]
    /\ UNCHANGED <<names, acked, written, crashes>>

------------------------------------------------------------------------------
(* ReplayFile: first the snapshot, then the ledger, by their paths.        *)

ReadSnapshot(p) ==
    /\ proc[p].pc = "snapshot"
    /\ proc' = [proc EXCEPT ![p].pc = "tail", ![p].base = snapshot]
    /\ UNCHANGED <<inodes, names, acked, written, crashes>>

ReadLedger(p) ==
    /\ proc[p].pc = "tail"
    /\ LET file == Bytes(ledger) IN
       IF Replays(proc[p].base, file)
       THEN /\ proc' = [proc EXCEPT ![p].file = file,
                            ![p].pc = CASE proc[p].verb = "append" -> "write"
                                        [] proc[p].verb = "rotate" -> "gate"
                                        [] OTHER                   -> "accepted"]
            /\ UNCHANGED inodes
       ELSE Return(p)
    /\ UNCHANGED <<names, acked, written, crashes>>

View(p) == proc[p].base \o proc[p].file.lines

\* A reader used what it accepted.
ReadEnds(p) ==
    /\ proc[p].pc = "accepted"
    /\ Return(p)
    /\ UNCHANGED <<names, acked, written, crashes>>

------------------------------------------------------------------------------
(* commitUnderLock: one line on the fresh heads, to the locked descriptor. *)

NewLine(p, c) == [id |-> written + 1, cap |-> c, prev |-> HeadOf(View(p), c)]

Write(p) ==
    /\ proc[p].pc = "write" /\ written < MaxLines
    /\ \E c \in Caps :
           /\ inodes' = [inodes EXCEPT
                             ![proc[p].fd].lines = Append(@, NewLine(p, c))]
           /\ proc' = [proc EXCEPT ![p].pc = "sync", ![p].seen = written + 1]
    /\ written' = written + 1
    /\ UNCHANGED <<names, acked, crashes>>

\* Write or disk fails half-way, or the process dies in it.
Tear(p) ==
    /\ proc[p].pc = "write" /\ crashes < MaxCrashes
    /\ crashes' = crashes + 1
    /\ inodes' = Unlocked([inodes EXCEPT ![proc[p].fd].torn = TRUE], p)
    /\ proc' = [proc EXCEPT ![p] = Idle]
    /\ UNCHANGED <<names, acked, written>>

Synced(p) ==
    /\ proc[p].pc = "sync"
    /\ acked' = acked \cup {proc[p].seen}
    /\ Return(p)
    /\ UNCHANGED <<names, written, crashes>>

------------------------------------------------------------------------------
(* Rotate, under the lock of the ledger file.                              *)

\* EnforceAnchor, an empty tail, an archive already there: refused.
Gate(p) ==
    /\ proc[p].pc = "gate"
    /\ IF /\ anchor # None => Verified(anchor, proc[p].base, View(p))
          /\ proc[p].file.lines # <<>>
          /\ \A a \in archive : a.base # Len(View(p))
       THEN Step(p, "copy") /\ UNCHANGED inodes
       ELSE Return(p)
    /\ UNCHANGED <<names, acked, written, crashes>>

\* 1. The outgoing snapshot is copied to its archive, never over another.
CopySnapshot(p) ==
    /\ proc[p].pc = "copy"
    /\ IF Len(proc[p].base) \in copies
       THEN Return(p) /\ UNCHANGED copies
       ELSE /\ copies' = IF proc[p].base = <<>> THEN copies
                         ELSE copies \cup {Len(proc[p].base)}
            /\ Step(p, "activate") /\ UNCHANGED inodes
    /\ UNCHANGED <<ledger, snapshot, archive, aside, anchor,
                   acked, written, crashes>>

\* 2. The new snapshot takes its place.
Activate(p) ==
    /\ proc[p].pc = "activate"
    /\ snapshot' = View(p)
    /\ Step(p, "move")
    /\ UNCHANGED <<inodes, ledger, copies, archive, aside, anchor,
                   acked, written, crashes>>

\* 3. The ledger becomes the archive, whatever file the path leads to ...
Move(p) ==
    /\ proc[p].pc = "move"
    /\ IF ledger = 0 THEN Return(p) /\ UNCHANGED <<ledger, archive>>
       ELSE /\ archive' = {a \in archive : a.base # Len(View(p))}
                              \cup {[base |-> Len(View(p)), ino |-> ledger]}
            /\ ledger' = 0
            /\ Step(p, "create") /\ UNCHANGED inodes
    /\ UNCHANGED <<snapshot, copies, aside, anchor, acked, written, crashes>>

\* ... and an empty tail is created unless a writer already did.
CreateEmpty(p) ==
    /\ proc[p].pc = "create"
    /\ IF ledger = 0
       THEN /\ inodes' = Append(inodes, Fresh(<<>>))
            /\ ledger' = Len(inodes')
       ELSE UNCHANGED <<inodes, ledger>>
    /\ Step(p, "anchor")
    /\ UNCHANGED <<snapshot, copies, archive, aside, anchor,
                   acked, written, crashes>>

\* The anchor is refreshed with what this rotation folded.
WriteAnchor(p) ==
    /\ proc[p].pc = "anchor"
    /\ anchor' = BuildAnchor(proc[p].base, proc[p].file.lines)
    /\ Return(p)
    /\ UNCHANGED <<ledger, snapshot, copies, archive, aside,
                   acked, written, crashes>>

------------------------------------------------------------------------------
(* repair: a diagnosis without the lock, then --quarantine with its        *)
(* fingerprint under the lock, which diagnoses again.                      *)

\* Diagnose reads the ledger before it reads the snapshot.
DiagnoseFile(p) ==
    /\ Is(p, "repair", "diagnose")
    /\ IF ledger = 0 THEN Return(p)
       ELSE /\ proc' = [proc EXCEPT ![p].pc = "judge", ![p].file = Bytes(ledger)]
            /\ UNCHANGED inodes
    /\ UNCHANGED <<names, acked, written, crashes>>

\* The operator confirms the fingerprint of the diagnosis, then only that
\* file is cut.
Judge(p) ==
    /\ Is(p, "repair", "judge")
    /\ CASE Replays(snapshot, proc[p].file) -> Return(p)
         [] ~Replays(snapshot, proc[p].file) /\ proc[p].fd = 0 ->
                /\ proc' = [proc EXCEPT ![p].pc = "reopen",
                                        ![p].seen = proc[p].file]
                /\ UNCHANGED inodes
         [] ~Replays(snapshot, proc[p].file) /\ proc[p].fd # 0 ->
                IF proc[p].file # proc[p].seen THEN Return(p)
                ELSE /\ proc' = [proc EXCEPT ![p].pc = "stage",
                                             ![p].base = snapshot]
                     /\ UNCHANGED inodes
    /\ UNCHANGED <<names, acked, written, crashes>>

\* Quarantine opens the path as it is, without the check of lockLedger.
Reopen(p) ==
    /\ Is(p, "repair", "reopen")
    /\ IF ledger = 0 THEN Return(p)
       ELSE /\ proc' = [proc EXCEPT ![p].pc = "lock", ![p].fd = ledger]
            /\ UNCHANGED inodes
    /\ UNCHANGED <<names, acked, written, crashes>>

\* The clean prefix of the file, read again, goes to a temporary file.
Stage(p) ==
    /\ Is(p, "repair", "stage")
    /\ IF ledger = 0 THEN Return(p)
       ELSE /\ LET keep == CleanPrefix(proc[p].base, proc[p].file.lines)
                   now  == Bytes(ledger).lines IN
               proc' = [proc EXCEPT ![p].pc = "link",
                   ![p].file.lines = SubSeq(now, 1, IF keep < Len(now) THEN keep
                                                    ELSE Len(now))]
            /\ UNCHANGED inodes
    /\ UNCHANGED <<names, acked, written, crashes>>

\* Mutant of Preserved: the prefix is swapped in over the only name.
NotPreserved(fp) == UNCHANGED aside

\* The damaged file gets a second name, so the path never lacks a file.
Preserved(fp) == aside' = aside \cup {[of |-> fp, ino |-> ledger]}

Preserve(p) ==
    /\ Is(p, "repair", "link")
    /\ IF ledger = 0 \/ \E q \in aside : q.of = proc[p].seen
       THEN Return(p) /\ UNCHANGED aside
       ELSE Preserved(proc[p].seen) /\ Step(p, "swap") /\ UNCHANGED inodes
    /\ UNCHANGED <<ledger, snapshot, copies, archive, anchor,
                   acked, written, crashes>>

Swap(p) ==
    /\ Is(p, "repair", "swap")
    /\ inodes' = Unlocked(Append(inodes, Fresh(proc[p].file.lines)), p)
    /\ ledger' = Len(inodes')
    /\ proc' = [proc EXCEPT ![p] = Idle]
    /\ UNCHANGED <<snapshot, copies, archive, aside, anchor,
                   acked, written, crashes>>

------------------------------------------------------------------------------
\* A process is killed; the kernel drops its lock, the files stay.
Crash(p) ==
    /\ proc[p].pc # "idle" /\ crashes < MaxCrashes
    /\ crashes' = crashes + 1
    /\ Return(p)
    /\ UNCHANGED <<names, acked, written>>

Init ==
    /\ inodes = <<>> /\ ledger = 0 /\ snapshot = <<>> /\ copies = {}
    /\ archive = {} /\ aside = {} /\ anchor = None
    /\ proc = [p \in Procs |-> Idle]
    /\ acked = {} /\ written = 0 /\ crashes = 0

Writing(p)   == Open(p) \/ Lock(p) \/ CheckSame(p) \/ Write(p) \/ Tear(p)
                    \/ Synced(p)
Reading(p)   == ReadSnapshot(p) \/ ReadLedger(p) \/ ReadEnds(p)
Rotating(p)  == Gate(p) \/ CopySnapshot(p) \/ Activate(p) \/ Move(p)
                    \/ CreateEmpty(p) \/ WriteAnchor(p)
Repairing(p) == DiagnoseFile(p) \/ Judge(p) \/ Reopen(p) \/ Stage(p)
                    \/ Preserve(p) \/ Swap(p)

Next ==
    \E p \in Procs :
        \/ \E verb \in AllVerbs : Begin(p, verb)
        \/ Writing(p) \/ Reading(p) \/ Rotating(p) \/ Repairing(p)
        \/ Crash(p)

Spec == Init /\ [][Next]_vars

------------------------------------------------------------------------------
(* Properties.                                                             *)

\* The history the files hold: what the snapshot folds, then the ledger
\* when it continues the snapshot; a ledger that does not is the file an
\* interrupted rotation already folded.
Committed ==
    IF Continues(snapshot, Bytes(ledger).lines)
    THEN snapshot \o Bytes(ledger).lines
    ELSE snapshot

\* Types, and locks: only a process that is inside the locked section of
\* its verb holds a lock, one lock, that of its descriptor (lockLedger and
\* the deferred unlocks of commitUnderLock, Rotate and Quarantine).
Line == [id : 1..MaxLines, cap : Caps, prev : 0..MaxLines]

LockedPcs == {"check", "snapshot", "tail", "write", "sync", "gate", "copy",
              "activate", "move", "create", "anchor", "diagnose", "judge",
              "stage", "link", "swap"}

TypeOK ==
    /\ \A i \in DOMAIN inodes :
           /\ \A k \in DOMAIN inodes[i].lines : inodes[i].lines[k] \in Line
           /\ inodes[i].torn \in BOOLEAN
           /\ inodes[i].lock \in Procs \cup {None}
           /\ inodes[i].lock # None =>
                  /\ proc[inodes[i].lock].fd = i
                  /\ proc[inodes[i].lock].pc \in LockedPcs
    /\ ledger \in 0..Len(inodes)
    /\ \A k \in DOMAIN snapshot : snapshot[k] \in Line
    /\ copies \subseteq 1..MaxLines
    /\ \A a \in archive : a.base \in 1..MaxLines /\ a.ino \in DOMAIN inodes
    /\ \A q \in aside : q.ino \in DOMAIN inodes
    /\ acked \subseteq 1..written
    /\ written \in 0..MaxLines /\ crashes \in 0..MaxCrashes

\* The files together are one history that only grows: rotations, repairs
\* and crashes between their steps change nothing of it, a line is appended
\* once on the current heads, and a writer is told only of a line that is
\* in it (Rotate, Quarantine, commitUnderLock).
Promise == INSTANCE History WITH hist <- Committed

HistoryGrows == Promise!Spec

\* The lines about a capability, in their order.
About(s, c) ==
    LET upTo[n \in 0..Len(s)] ==
            IF n = 0 THEN <<>>
            ELSE IF s[n].cap = c THEN Append(upTo[n-1], s[n]) ELSE upTo[n-1]
    IN upTo[Len(s)]

\* A reader takes no lock, yet what it accepts is for every capability a
\* prefix of that capability's history: it may be late, it is never a
\* mixture (verifyPrev over a snapshot and a tail read one after the other).
ReadersSeePrefixes ==
    \A p \in Procs : proc[p].pc = "accepted" =>
        \A c \in Caps : IsPrefix(About(View(p), c), About(Committed, c))

\* Every line of the history stands, as it was written, in the ledger, in
\* an archive or in a file a repair set aside (Rotate renames, Quarantine
\* links: nothing is ever deleted).
Held == {ledger} \cup {a.ino : a \in archive} \cup {q.ino : q \in aside}

NothingDeleted ==
    \A k \in DOMAIN Committed :
        \E i \in Held \ {0} : \E j \in DOMAIN inodes[i].lines :
            inodes[i].lines[j] = Committed[k]

\* The anchor pins a prefix of the history and a fold the snapshot extends,
\* so a refusal against it never comes from a line that was not there
\* (BuildAnchor, the refresh at the end of Rotate).
AnchorHonest ==
    anchor # None =>
        IsPrefix(anchor.pins, Committed) /\ IsPrefix(anchor.fold, snapshot)

\* What state-model.md says of compaction: "never a silently-empty ledger".
\* A reader accepts an empty history only if nothing had been acknowledged
\* when it began (ReplayFile, which takes no lock, beside Rotate).
NeverSilentlyEmpty ==
    \A p \in Procs :
        Is(p, "read", "accepted") /\ View(p) = <<>> => ~proc[p].seen
==============================================================================

------------------------------ MODULE Recovery ------------------------------
(***************************************************************************)
(* Disaster recovery: backup cuts an anchor and one capsule per capability *)
(* from a ledger that others go on writing, and restore weaves a ledger    *)
(* from an anchor and capsules of any age and origin.                      *)
(*                                                                         *)
(* An event is named by its line in the ledger, which stands for its hash; *)
(* the line after the last is an event that a copy of the ledger got after *)
(* it went its own way.  A capsule is a capability's events; their lines    *)
(* tell their order, so the chain is a set; one that does not verify is    *)
(* empty.                                                                  *)
(***************************************************************************)
EXTENDS LedgerReplay, SequencesExt

VARIABLES
  backup,     \* the backup under way or made: anchor, capsules
  restore     \* the restore under way or made

recovery == <<backup, restore>>

NoBackup  == [at |-> 0, todo |-> {}, capsules |-> [c \in Cap |-> {}], status |-> "none"]
NoRestore == [pc |-> "none", at |-> 0, partial |-> FALSE, todo |-> {},
              chains |-> [c \in Cap |-> {}], lines |-> <<>>, anchor |-> FALSE, exit |-> 9]

----------------------------------------------------------------------------
(* Capsules and anchors. *)

(* EmitCapsule: the chain of a capability in the first n lines. *)
EmitCapsule(c, n) == {i \in 1..n : c \in log[i].caps}

(* BuildAnchor over the first n lines: the capabilities it names, and their heads. *)
Heads(n) == {c \in Cap : EmitCapsule(c, n) # {}}
HeadAt(c, n) == Max(EmitCapsule(c, n))

Fork == Len(log) + 1
Body(i) ==
  IF i # Fork THEN log[i]
  ELSE [type |-> "observation.recorded", caps |-> Cap, at |-> led.clock]

(* What an operator can have for a capability: a capsule of any age, one of a  *)
(* copy that went its own way after some line, one that does not verify.  Up   *)
(* to two of them are supplied.                                                *)
Sources(c) ==
  LET own == {EmitCapsule(c, n) : n \in 0..Len(log)} IN
  own \cup {chain \cup {Fork} : chain \in own}

Groups(c) == {{}} \cup {{s, t} : s, t \in Sources(c)}

(* mergeGroup: the longest chain wins when it contains every other; a fork has *)
(* no winner.                                                                  *)
Winners(group) == {w \in group : \A other \in group : other \subseteq w}

AnyTip(c, group, n) == Winners(group) \ {{}}              \* seeded fault: no pin

(* classifyCapability: the winning chain, if every source verifies and it ends *)
(* at the head the anchor pins.                                                *)
classifyCapability(c, group, n) ==
  {w \in Winners(group) : {} \notin group /\ Max(w) = HeadAt(c, n)}

(* What some chains hold between them, and whose chains there are. *)
Events(chains) == UNION {chains[c] : c \in Cap}
Restored(chains) == {c \in Cap : chains[c] # {}}

Uncoupled(chains) == Restored(chains)               \* seeded fault: no demotion

(* The coupling fixpoint: the capabilities all of whose events list only       *)
(* capabilities that are restored as well.                                     *)
Coupled(chains) ==
  UNION {caps \in SUBSET Restored(chains) :
           \A c \in caps : \A i \in chains[c] : Body(i).caps \subseteq caps}

----------------------------------------------------------------------------
(* linearize. *)

(* Events whose predecessors on every capability are out already. *)
Ready(rest) ==
  {i \in rest : \A j \in rest : j < i => Body(j).caps \cap Body(i).caps = {}}

ByHash(rest) == Ready(rest)                         \* seeded fault: time ignored

(* The heap: the genesis first, then by time; the hash decides among equals,   *)
(* so any of them may be next.                                                 *)
Pops(rest) ==
  IF 1 \in rest THEN {1}
  ELSE {i \in Ready(rest) : \A j \in Ready(rest) : Body(i).at <= Body(j).at}

(* Every order in which the heap can give out the events. *)
linearize(events) ==
  {woven \in [1..Cardinality(events) -> events] :
     \A k \in DOMAIN woven : woven[k] \in Pops(events \ {woven[j] : j \in 1..k-1})}

(* The file a weave writes. *)
Lines(woven) == [k \in DOMAIN woven |-> Body(woven[k])]

(* Each line follows the line it pins, on each of its capabilities. *)
Linked(woven) ==
  \A k \in DOMAIN woven : \A c \in Body(woven[k]).caps :
    EmitCapsule(c, woven[k] - 1) \subseteq {woven[j] : j \in 1..k-1}

----------------------------------------------------------------------------
(* backup. *)

(* The ledger is replayed and its anchor written. *)
BackupBegins ==
  /\ backup.status = "none" /\ restore.pc = "none" /\ log # <<>>
  /\ backup' = [NoBackup EXCEPT !.status = "running", !.at = Len(log),
                                !.todo = Heads(Len(log))]
  /\ UNCHANGED <<vars, restore>>

(* Each capsule is cut from a fresh replay, here in one step: the code reads the   *)
(* snapshot and then the lines once more, and an append between the two reads of   *)
(* the file is left out.                                                           *)
BackupEmits(c) ==
  /\ backup.status = "running" /\ c \in backup.todo
  /\ backup' = [backup EXCEPT !.todo = @ \ {c},
                              !.capsules[c] = EmitCapsule(c, Len(log)),
                              !.status = IF backup.todo = {c} THEN "backed-up" ELSE @]
  /\ UNCHANGED <<vars, restore>>

----------------------------------------------------------------------------
(* restore. *)

(* The anchor names the set; an anchor without identity is refused, and so is, in *)
(* either mode, a capsule of a capability it does not name.  The copies restore   *)
(* works from are no longer the backup's.                                         *)
RestoreBegins ==
  /\ restore.pc = "none"
  /\ \E n \in 1..Len(log), partial \in BOOLEAN :
       LET begun == [NoRestore EXCEPT !.at = n, !.partial = partial] IN
       \/ restore' = [begun EXCEPT !.pc = "classify", !.todo = Heads(n)]
       \/ /\ Heads(n) # Cap
          /\ restore' = [begun EXCEPT !.pc = "done", !.exit = 5]
  /\ backup' = NoBackup
  /\ UNCHANGED vars

Refused == [restore EXCEPT !.pc = "done", !.exit = 5, !.lines = <<>>, !.anchor = FALSE,
                           !.todo = {}, !.chains = NoRestore.chains]

(* One capability is judged; in full mode an unsound one refuses the set.      *)
Classify(c) ==
  /\ restore.pc = "classify" /\ c \in restore.todo
  /\ \E winner \in {classifyCapability(c, group, restore.at) : group \in Groups(c)} :
       \/ /\ winner = {} /\ ~restore.partial
          /\ restore' = Refused
       \/ /\ winner = {} /\ restore.partial
          /\ restore' = [restore EXCEPT !.todo = @ \ {c}]
       \/ \E chain \in winner :
            restore' = [restore EXCEPT !.todo = @ \ {c}, !.chains[c] = chain]
  /\ UNCHANGED <<vars, backup>>

(* The set is woven and the file written. *)
Write ==
  /\ restore.pc = "classify" /\ restore.todo = {}
  /\ LET caps == IF restore.partial THEN Coupled(restore.chains) ELSE Cap
         chains == [c \in Cap |-> IF c \in caps THEN restore.chains[c] ELSE {}]
     IN  \E woven \in linearize(Events(chains)) :
           restore' = [restore EXCEPT !.pc = "written", !.chains = chains,
                                      !.lines = woven]
  /\ UNCHANGED <<vars, backup>>

(* What the written file has to pass: the replay, with its links; in full mode *)
(* the identity and the number of events; the heads of all that was restored.  *)
Passes ==
  /\ Linked(restore.lines)
  /\ ReplayFile(Lines(restore.lines)).ok
  /\ restore.partial \/ (Len(restore.lines) = restore.at /\ restore.lines[1] = 1)
  /\ \A c \in Restored(restore.chains) :
       \E k \in DOMAIN restore.lines :
         /\ restore.lines[k] = HeadAt(c, restore.at)
         /\ \A j \in k+1..Len(restore.lines) : c \notin Body(restore.lines[j]).caps

(* The file is replayed and gets its anchor, or it is removed. *)
Accept ==
  /\ restore.pc = "written"
  /\ restore' = IF Passes THEN [restore EXCEPT !.pc = "anchored", !.anchor = TRUE]
                ELSE Refused
  /\ UNCHANGED <<vars, backup>>

PartialGreen(missing) == 0                         \* seeded fault: before D1082

(* The exit code of a restore that left some capabilities out. *)
ExitFor(missing) == IF missing = {} THEN 0 ELSE 5

(* A partial restore of nothing leaves nothing, one of a part no anchor.       *)
Conclude ==
  /\ restore.pc = "anchored"
  /\ LET missing == Heads(restore.at) \ Restored(restore.chains) IN
     \/ /\ restore.lines = <<>>
        /\ restore' = Refused
     \/ /\ restore.lines # <<>>
        /\ restore' = [restore EXCEPT !.pc = "done", !.anchor = missing = {},
                                      !.exit = ExitFor(missing)]
  /\ UNCHANGED <<vars, backup>>

RestoreDies ==
  /\ restore.pc \in {"classify", "written", "anchored"}
  /\ restore' = [restore EXCEPT !.pc = "dead"]
  /\ UNCHANGED <<vars, backup>>

----------------------------------------------------------------------------

RecoveryInit == Init /\ backup = NoBackup /\ restore = NoRestore

(* The writers of module Ledger, as far as their events couple capabilities or *)
(* stand under leases, until a restore begins.                                 *)
Writes ==
  /\ restore.pc = "none"
  /\ \E caps \in CapSets, at \in Clock :
       \/ \E ttl \in Ttls : Acquire(caps, at, ttl)
       \/ \E token \in Tokens : Release(caps, at, token)
       \/ \E token \in Tokens, type \in Marks : Mark(type, caps, at, token)
       \/ \E status \in Statuses, receipt \in Receipt :
            WriteReceipt(caps, at, status, receipt)
  /\ UNCHANGED recovery

RecoveryNext ==
  \/ Writes
  \/ BackupBegins \/ (\E c \in Cap : BackupEmits(c))
  \/ RestoreBegins \/ (\E c \in Cap : Classify(c))
  \/ Write \/ Accept \/ Conclude \/ RestoreDies

RecoverySpec == RecoveryInit /\ [][RecoveryNext]_<<vars, recovery>>

----------------------------------------------------------------------------
(* Properties. *)

(* Two folds tell the same of some capabilities; which leases are one and the    *)
(* same is part of it, their numbers are not (D633).                             *)
Agree(one, two, caps) ==
  \A c \in caps :
    /\ [one.lease[c] EXCEPT !.seq = 0] = [two.lease[c] EXCEPT !.seq = 0]
    /\ one.maxToken[c] = two.maxToken[c]
    /\ one.pending[c] = two.pending[c]
    /\ one.binding[c] = two.binding[c]
    /\ one.decided[c] = two.decided[c]
    /\ \A d \in caps : (one.lease[c].seq = one.lease[d].seq)
                         <=> (two.lease[c].seq = two.lease[d].seq)

(* linearize gives a replay-valid order: whatever the hashes are and whatever    *)
(* was left out, a set that passed the classification is never refused after it  *)
(* was woven, though its lines come in an order nobody wrote them in.            *)
WovenReplays == restore.pc = "written" => Passes

(* A restore fabricates nothing: what it says of a restored capability is what   *)
(* the history said when the anchor was cut, and it has no line about any other  *)
(* capability (the coupling fixpoint of restore --partial).                      *)
RestoredFaithful ==
  restore.pc \in {"anchored", "done"} =>
    /\ Agree(ReplayFile(Lines(restore.lines)).led,
             ReplayFile(SubSeq(log, 1, restore.at)).led, Restored(restore.chains))
    /\ \A k \in DOMAIN restore.lines :
         Body(restore.lines[k]).caps \subseteq Restored(restore.chains)

(* A green restore is a whole one: with exit code 0 the file holds every event   *)
(* the anchor counted (D618, D1082).                                             *)
GreenIsWhole ==
  restore.exit = 0 => ToSet(restore.lines) = 1..restore.at

(* backup.go: "A backup that reports success and cannot restore is the worst     *)
(* kind there is." A full restore from the very anchor and capsules of a backup  *)
(* that was reported made finds every capability sound.                          *)
BackupRestores ==
  backup.status = "backed-up" =>
    \A c \in Heads(backup.at) :
      classifyCapability(c, {backup.capsules[c]}, backup.at) # {}
=============================================================================

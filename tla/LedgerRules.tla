---------------------------- MODULE LedgerRules ----------------------------
(***************************************************************************)
(* The rules of the ledger's in-memory fold (internal/ledger/ledger.go) as *)
(* pure operators over a state record, so that the same definitions serve  *)
(* a live append (commitUnderLock), a replay of the file (ReplayFile) and  *)
(* every verb that drives the ledger.                                      *)
(*                                                                         *)
(*   Accepts(led, e, now)   checkRules: may e be appended at clock now?    *)
(*   Step(led, e, now)      the state Append leaves behind when it may     *)
(*                                                                         *)
(* An event is a record with the fields its type needs:                    *)
(*   type, caps, at              every event (capabilities, occurredAt)    *)
(*   ttl, token                  lease.acquired, lease.renewed             *)
(*   token                       lease.released and the mutation types     *)
(*   adopt                       lease.broken (body.adoptReceipts)         *)
(*   status, receipt             operation.receipt                         *)
(*   bound, replaces, tombs      binding.updated (resources and lineage)   *)
(* Hashes are abstracted to positions: decided[c] counts the decision      *)
(* events of c, so two equal counts are two equal decision heads.          *)
(***************************************************************************)
EXTENDS Integers, FiniteSets

CONSTANTS
  Cap,        \* capability ids
  NoRes       \* "no provider resource": the empty resources list of a binding

(* The closed sets of event types the rules branch on. *)
MutationTypes == {"binding.updated", "apply.started", "apply.finished", "apply.failed"}
DecisionTypes ==
  MutationTypes \cup {"contract.published", "candidate.verified", "plan.sealed"}
(* The types without a rule of their own; those left out act like observation.recorded. *)
NoteTypes ==
  (DecisionTypes \ MutationTypes) \cup {"ownership.claimed", "observation.recorded"}
PendingStatuses == {"pending", "unknown"}
ReceiptStatuses == PendingStatuses \cup {"succeeded", "failed", "retryable"}

NoLease == [token |-> 0, expiry |-> 0, ended |-> TRUE, seq |-> 0]
Unbound == [id |-> NoRes, gen |-> 0, adopted |-> FALSE]

EmptyLedger ==
  [ clock      |-> 0,                        \* maxOccurred
    lease      |-> [c \in Cap |-> NoLease],
    maxToken   |-> [c \in Cap |-> 0],
    seq        |-> 0,                        \* leaseSeq
    pending    |-> [c \in Cap |-> {}],       \* pending and pendingBody
    binding    |-> [c \in Cap |-> Unbound],
    replaced   |-> [c \in Cap |-> {}],
    tombstoned |-> [c \in Cap |-> {}],
    claimed    |-> {},
    decided    |-> [c \in Cap |-> 0] ]       \* DecisionHeads

----------------------------------------------------------------------------
(* Leases. *)

Active(led, c, now) == ~led.lease[c].ended /\ now < led.lease[c].expiry

AnyHolder(led, c, token, now) == Active(led, c, now)        \* seeded fault: token ignored

Holds(led, c, token, now) == Active(led, c, now) /\ led.lease[c].token = token

NumberIsEnough(led, caps) == TRUE                           \* seeded fault: before D633

(* One lease, not merely one token number, covers every capability of a mutation. *)
OneLease(led, caps) == \A c, d \in caps : led.lease[c].seq = led.lease[d].seq

LeastToken(led, caps) ==                                   \* seeded fault: min for max
  CHOOSE t \in {led.maxToken[c] : c \in caps} : \A c \in caps : led.maxToken[c] >= t

TopToken(led, caps) ==
  CHOOSE t \in {led.maxToken[c] : c \in caps} : \A c \in caps : led.maxToken[c] <= t

NewToken(led, caps) == TopToken(led, caps) + 1

ClockUnchecked(led, e) == FALSE                             \* seeded fault: before D56

(* The coordination clock: a new append never goes behind recorded history. *)
Regresses(led, e) == e.at < led.clock

Accepts(led, e, now) ==
  /\ e.type = "lease.acquired" => \A c \in e.caps : ~Active(led, c, now)
  /\ e.type \in {"lease.released", "lease.renewed"} =>
       \A c \in e.caps : Holds(led, c, e.token, now)
  /\ e.type = "lease.broken" => e.adopt \/ \A c \in e.caps : led.pending[c] = {}
  /\ e.type \in MutationTypes =>
       /\ \A c \in e.caps : Holds(led, c, e.token, now)
       /\ OneLease(led, e.caps)

----------------------------------------------------------------------------
(* What an accepted event does to each part of the state. *)

(* A renewal brings its ttl here; that one without keeps the ttl of the lease is   *)
(* left out.                                                                       *)
LeaseAfter(led, e, now) ==
  LET On(l) ==
        CASE e.type = "lease.acquired" ->
               [token |-> NewToken(led, e.caps), expiry |-> now + e.ttl,
                ended |-> FALSE, seq |-> led.seq + 1]
          [] e.type = "lease.renewed" -> [l EXCEPT !.expiry = now + e.ttl]
          [] e.type \in {"lease.released", "lease.broken"} -> [l EXCEPT !.ended = TRUE]
          [] OTHER -> l
  IN  [c \in Cap |-> IF c \in e.caps THEN On(led.lease[c]) ELSE led.lease[c]]

MaxTokenAfter(led, e) ==
  [c \in Cap |-> IF e.type = "lease.acquired" /\ c \in e.caps
                 THEN NewToken(led, e.caps) ELSE led.maxToken[c]]

SeqAfter(led, e) == IF e.type = "lease.acquired" THEN led.seq + 1 ELSE led.seq

(* A pending or unknown receipt leaves the intent open and refreshes its body; *)
(* any other status concludes it; a break that adopts receipts drops them all. *)
PendingAfter(led, e) ==
  LET Others(c) == {r \in led.pending[c] : r.op # e.receipt.op}
      On(c) ==
        CASE e.type = "operation.receipt" ->
               IF e.status \in PendingStatuses THEN Others(c) \cup {e.receipt} ELSE Others(c)
          [] e.type = "lease.broken" -> IF e.adopt THEN {} ELSE led.pending[c]
          [] OTHER -> led.pending[c]
  IN  [c \in Cap |-> IF c \in e.caps THEN On(c) ELSE led.pending[c]]

(* Seeded fault: the id is stored and the rest of the body is dropped. *)
BindIdOnly(led, e) ==
  [c \in Cap |-> IF e.type = "binding.updated" /\ c \in e.caps
                 THEN [id |-> e.bound.id] ELSE led.binding[c]]

BindingAfter(led, e) ==
  [c \in Cap |-> IF e.type = "binding.updated" /\ c \in e.caps
                 THEN e.bound ELSE led.binding[c]]

(* Lineage accumulates over the whole history; nothing ever leaves these sets. *)
ReplacedAfter(led, e) ==
  [c \in Cap |-> IF e.type = "binding.updated" /\ c \in e.caps
                 THEN led.replaced[c] \cup e.replaces ELSE led.replaced[c]]

TombstonedAfter(led, e) ==
  [c \in Cap |-> IF e.type = "binding.updated" /\ c \in e.caps
                 THEN led.tombstoned[c] \cup e.tombs ELSE led.tombstoned[c]]

(* Seeded fault: the claim outlives the binding (before D192). *)
ClaimedForGood(led, e) ==
  IF e.type = "ownership.claimed" THEN led.claimed \cup e.caps ELSE led.claimed

(* Releasing a binding voids the authorship stamped on the released resource. *)
ClaimedAfter(led, e) ==
  CASE e.type = "ownership.claimed" -> led.claimed \cup e.caps
    [] e.type = "binding.updated" /\ e.bound.id = NoRes -> led.claimed \ e.caps
    [] OTHER -> led.claimed

DecidedAfter(led, e) ==
  [c \in Cap |-> IF e.type \in DecisionTypes /\ c \in e.caps
                 THEN led.decided[c] + 1 ELSE led.decided[c]]

Step(led, e, now) ==
  [ clock      |-> IF e.at > led.clock THEN e.at ELSE led.clock,
    lease      |-> LeaseAfter(led, e, now),
    maxToken   |-> MaxTokenAfter(led, e),
    seq        |-> SeqAfter(led, e),
    pending    |-> PendingAfter(led, e),
    binding    |-> BindingAfter(led, e),
    replaced   |-> ReplacedAfter(led, e),
    tombstoned |-> TombstonedAfter(led, e),
    claimed    |-> ClaimedAfter(led, e),
    decided    |-> DecidedAfter(led, e) ]

----------------------------------------------------------------------------
(* Projections the verbs read. *)

BoundIds(led) == {led.binding[c].id : c \in Cap} \ {NoRes}

PendingTargets(led, c) == {r.target : r \in led.pending[c]} \ {NoRes}

(* Orphans of failed replacements: replaced, not tombstoned, bound by nobody. *)
DeposedAll(led, c) == led.replaced[c] \ (led.tombstoned[c] \cup BoundIds(led))

(* The default list leaves out the ids a pending delete already owns. *)
Deposed(led, c) == DeposedAll(led, c) \ PendingTargets(led, c)
============================================================================

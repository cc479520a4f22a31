------------------------------- MODULE Ledger -------------------------------
(***************************************************************************)
(* The ledger as every writer sees it through commitUnderLock: a file of   *)
(* events to which one process at a time appends, under the file lock, an  *)
(* event that the rules accept on a fresh replay.                          *)
(*                                                                         *)
(* The writers are left open: any event of any type may be offered at any  *)
(* time, with any capability set, any clock and any fencing token ever     *)
(* issued.  What holds here holds for every verb of the program, for a     *)
(* worker that slept through its lease, and for a writer that misbehaves.  *)
(***************************************************************************)
EXTENDS LedgerRules, Sequences

CONSTANTS
  Res,        \* provider resource ids
  Receipt,    \* bodies of operation receipts: [op, target]
  Ttls,       \* lease lifetimes a writer may ask for
  Marks,      \* run markers writers use, among apply.started, apply.finished, apply.failed
  Notes,      \* lease-free events writers use, among the members of NoteTypes
  Statuses,   \* receipt statuses writers use
  MaxClock,   \* bound on the coordination clock
  MaxEvents   \* bound on the length of the file

ASSUME LedgerAssumption ==
  /\ Cap # {}
  /\ NoRes \notin Res
  /\ Ttls \subseteq Nat \ {0}
  /\ Marks \subseteq MutationTypes \ {"binding.updated"}
  /\ Notes \subseteq NoteTypes
  /\ Statuses \subseteq ReceiptStatuses
  /\ MaxClock \in Nat
  /\ MaxEvents \in Nat

VARIABLES
  led,        \* the fold of the file, as a fresh replay computes it
  log         \* the lines of the file, oldest first

vars == <<led, log>>

Clock == 0..MaxClock
CapSets == (SUBSET Cap) \ {{}}
Bound == [id : Res \cup {NoRes}, gen : Nat, adopted : BOOLEAN]
Lineage == [replaces : SUBSET Res, tombs : SUBSET Res]
Lease == [token : Nat, expiry : Nat, ended : BOOLEAN, seq : Nat]

(* The lines of the file, by type. *)
Event ==
  [type : {"lease.acquired"}, caps : CapSets, at : Nat, ttl : Ttls, token : Nat, seq : Nat]
    \cup [type : {"lease.renewed"}, caps : CapSets, at : Nat, ttl : Ttls, token : Nat]
    \cup [type : {"lease.released"} \cup Marks, caps : CapSets, at : Nat, token : Nat]
    \cup [type : {"lease.broken"}, caps : CapSets, at : Nat, adopt : BOOLEAN]
    \cup [type : {"binding.updated"}, caps : CapSets, at : Nat, token : Nat,
          bound : Bound, replaces : SUBSET Res, tombs : SUBSET Res]
    \cup [type : {"operation.receipt"}, caps : CapSets, at : Nat,
          status : Statuses, receipt : Receipt]
    \cup [type : Notes, caps : CapSets, at : Nat]

(* The tokens somebody was given; a writer can present no other. *)
Tokens == 1..led.seq

Init ==
  /\ led = EmptyLedger
  /\ log = <<>>

(* A line as the log keeps it: a grant is remembered with the token and the   *)
(* lease identity it was given, which the file leaves to the fold.            *)
Line(e) ==
  IF e.type = "lease.acquired"
  THEN [e EXCEPT !.token = NewToken(led, e.caps), !.seq = led.seq + 1]
  ELSE e

(* commitUnderLock: replay, align the rule clock with the writer's, refuse a  *)
(* regressing clock, check the rules, append.                                 *)
Commit(e) ==
  /\ Len(log) < MaxEvents
  /\ ~Regresses(led, e)
  /\ Accepts(led, e, e.at)
  /\ led' = Step(led, e, e.at)
  /\ log' = Append(log, Line(e))

----------------------------------------------------------------------------
(* What a writer can offer. *)

Acquire(caps, at, ttl) ==
  Commit([type |-> "lease.acquired", caps |-> caps, at |-> at, ttl |-> ttl,
          token |-> 0, seq |-> 0])

Renew(caps, at, ttl, token) ==
  Commit([type |-> "lease.renewed", caps |-> caps, at |-> at, ttl |-> ttl, token |-> token])

Release(caps, at, token) ==
  Commit([type |-> "lease.released", caps |-> caps, at |-> at, token |-> token])

Break(caps, at, adopt) ==
  Commit([type |-> "lease.broken", caps |-> caps, at |-> at, adopt |-> adopt])

Mark(type, caps, at, token) ==
  Commit([type |-> type, caps |-> caps, at |-> at, token |-> token])

Bind(caps, at, token, id, lineage) ==
  Commit([type |-> "binding.updated", caps |-> caps, at |-> at, token |-> token,
          bound |-> [id |-> id, gen |-> IF id = NoRes THEN 0 ELSE 1, adopted |-> FALSE],
          replaces |-> lineage.replaces, tombs |-> lineage.tombs])

WriteReceipt(caps, at, status, receipt) ==
  Commit([type |-> "operation.receipt", caps |-> caps, at |-> at,
          status |-> status, receipt |-> receipt])

(* Everything that needs no lease, carries no token and has no rule of its own. *)
Note(type, caps, at) ==
  Commit([type |-> type, caps |-> caps, at |-> at])

Next ==
  \E caps \in CapSets, at \in Clock :
    \/ \E ttl \in Ttls : Acquire(caps, at, ttl)
    \/ \E ttl \in Ttls, token \in Tokens : Renew(caps, at, ttl, token)
    \/ \E token \in Tokens : Release(caps, at, token)
    \/ \E adopt \in BOOLEAN : Break(caps, at, adopt)
    \/ \E token \in Tokens, type \in Marks : Mark(type, caps, at, token)
    \/ \E token \in Tokens, id \in Res \cup {NoRes}, lineage \in Lineage :
         Bind(caps, at, token, id, lineage)
    \/ \E status \in Statuses, receipt \in Receipt :
         WriteReceipt(caps, at, status, receipt)
    \/ \E type \in Notes : Note(type, caps, at)

Spec == Init /\ [][Next]_vars

----------------------------------------------------------------------------
(* Properties. *)

(* The fold keeps its types (the Ledger struct of ledger.go), and the file holds *)
(* only events of the registry over non-empty capability sets.                   *)
TypeOK ==
  /\ log \in Seq(Event)
  /\ led.clock \in Nat
  /\ led.lease \in [Cap -> Lease]
  /\ led.maxToken \in [Cap -> Nat]
  /\ led.seq \in Nat
  /\ led.pending \in [Cap -> SUBSET Receipt]
  /\ led.binding \in [Cap -> Bound]
  /\ led.replaced \in [Cap -> SUBSET Res]
  /\ led.tombstoned \in [Cap -> SUBSET Res]
  /\ led.claimed \in SUBSET Cap
  /\ led.decided \in [Cap -> Nat]

Grant(i) == log[i].type = "lease.acquired"
Mutation(i) == log[i].type \in MutationTypes
Share(i, j) == log[i].caps \cap log[j].caps # {}

(* Fencing tokens come from the history: of two leases that ever held one        *)
(* capability, the later carries the larger token, so a token names one lease of *)
(* each of its capabilities (lease.acquired in checkRules, D29).                 *)
GrantsOrdered ==
  \A i, j \in DOMAIN log :
    Grant(i) /\ Grant(j) /\ i < j /\ Share(i, j) => log[i].token < log[j].token

(* A paused-and-resumed worker cannot write history: once a mutation of a        *)
(* capability, or a grant over it, carries some token, no later mutation of that *)
(* capability carries a smaller one, whatever expired, was released or broken in *)
(* between (spec/state-model.md section 2, MutationTypes in checkRules).         *)
StaleTokenNeverWrites ==
  \A i, j \in DOMAIN log :
    (Grant(i) \/ Mutation(i)) /\ Mutation(j) /\ i < j /\ Share(i, j)
      => log[i].token <= log[j].token

(* Line i granted one lease over all that line j writes, with the token j shows,  *)
(* nothing between them granted, released or broke any part of it, and for every  *)
(* capability written some grant or renewal still ran at the time of j.           *)
Covers(i, j) ==
  /\ Grant(i)
  /\ i < j
  /\ log[j].caps \subseteq log[i].caps
  /\ log[i].token = log[j].token
  /\ \A k \in i+1 .. j-1 :
       Share(k, j) => log[k].type \notin {"lease.acquired", "lease.released", "lease.broken"}
  /\ \A c \in log[j].caps : \E k \in i .. j-1 :
       /\ log[k].type \in {"lease.acquired", "lease.renewed"}
       /\ c \in log[k].caps
       /\ log[j].at < log[k].at + log[k].ttl

(* One mutation, one lease (D633): behind every mutation in the file stands one   *)
(* grant that covered all its capabilities and was still in force. Tokens are     *)
(* counters per capability, so equal numbers on two leases must not add up to     *)
(* one, and a foreign renewal or release can only deny.                           *)
OneLeaseCovers == \A j \in DOMAIN log : Mutation(j) => \E i \in DOMAIN log : Covers(i, j)
============================================================================

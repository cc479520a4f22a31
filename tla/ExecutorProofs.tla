--------------------------- MODULE ExecutorProofs ---------------------------
(***************************************************************************)
(* Theorems about the verbs over one ledger and one provider, for any      *)
(* number of processes, capabilities and runs, any plans and any clock.    *)
(***************************************************************************)
EXTENDS Executor, RulesProofs

Ops == {"create", "update", "delete", "claim"}
Clocks == 0..MaxClock
CapSets == (SUBSET Cap) \ {{}}
Leases == [token : Nat, expiry : Nat, ended : BOOLEAN, seq : Nat]
Bounds == [id : Ids \cup {NoRes}, gen : Nat, adopted : BOOLEAN]

Actions == [cap : Cap, op : Ops, id : Ids, gen : Nat, old : Ids \cup {NoRes},
            deposed : BOOLEAN]
Replies == [status : {"succeeded", "failed", "retryable", "unknown"}, id : Ids]
OpIds == {OpId(a) : a \in Actions}

(* An intent to change or delete names what it is about. *)
Receipts ==
  {r \in [op : OpIds, kind : Ops, gen : Nat, target : Ids \cup {NoRes}, called : BOOLEAN] :
     r.kind \in {"update", "delete"} => r.target \in Ids}
Items == [cap : Cap, receipt : Receipts]

LedRecs ==
  [clock : Clocks, lease : [Cap -> Leases], maxToken : [Cap -> Nat], seq : Nat,
   pending : [Cap -> SUBSET Receipts], binding : [Cap -> Bounds],
   replaced : [Cap -> SUBSET Ids], tombstoned : [Cap -> SUBSET Ids],
   claimed : SUBSET Cap, decided : [Cap -> Nat]]

ApplyRecs ==
  [verb : {"apply"}, pc : {"lease", "start", "act", "call", "settle", "conclude", "release"},
   caps : CapSets, at : Clocks, token : Nat, plan : SUBSET Actions, todo : SUBSET Actions,
   failed : SUBSET Actions, cur : Actions \cup {NoRes}, reply : Replies \cup {NoRes},
   pins : UNION {[S -> Nat] : S \in CapSets},
   bound : UNION {[S -> Ids \cup {NoRes}] : S \in CapSets}]
ResumeRecs ==
  [verb : {"resume"}, pc : {"lease", "ask", "settle", "conclude", "release"},
   caps : CapSets, at : Clocks, token : Nat, todo : SUBSET Items,
   cur : Items \cup {NoRes}, verdict : {"none", "succeeded", "failed"}]
BindRecs ==
  [verb : {"adopt", "unadopt"}, pc : {"lease", "bind", "release"},
   caps : CapSets, at : Clocks, token : Nat, to : Bounds]

----------------------------------------------------------------------------
(* The invariant: what holds of one process s beside a ledger l.            *)

(* What apply was given: one goal per capability makes of it a change, a        *)
(* creation, a deletion, both of them in this order, or deletions of the        *)
(* deposed, with a claim before; a deposed identity is not the bound one.       *)
PlanShape(s) ==
  /\ s.pins \in [s.caps -> Nat] /\ s.bound \in [s.caps -> Ids \cup {NoRes}]
  /\ \A a \in s.plan :
       /\ a.cap \in s.caps
       /\ a.op = "update" => a.id = s.bound[a.cap]
       /\ a.deposed => a.op = "delete" /\ (a.id = s.bound[a.cap] => a.id = NoRes)
  /\ \A a, b \in s.plan : a.cap = b.cap /\ a # b =>
       \/ a.op = "claim" \/ b.op = "claim"
       \/ a.op = "create" /\ b.op = "delete" /\ ~b.deposed
       \/ a.op = "delete" /\ b.op = "create" /\ ~a.deposed
       \/ a.deposed /\ b.deposed

(* How far it came: the action under way waits for nothing, and what came back *)
(* is about it.                                                                *)
Progress(s) ==
  /\ s.todo \subseteq s.plan
  /\ s.pc \in {"call", "settle", "conclude"} =>
       s.cur \in s.plan \ s.todo /\ \A b \in s.todo : ~DependsOn(s.cur, b)
  /\ s.pc = "settle" => s.reply \in Replies /\ (TagScan \/ s.reply.id = s.cur.id)

(* The actions that have not written their binding yet. *)
Left(s) == s.todo \cup IF s.pc \in {"call", "settle"} THEN {s.cur} ELSE {}

(* A decision head that did not move vouches for the binding. *)
Pinned(s, l) ==
  s.pc = "lease" =>
    \A c \in s.caps : /\ s.pins[c] <= l.decided[c]
                      /\ l.decided[c] = s.pins[c] => l.binding[c].id = s.bound[c]

(* The lease of c is still the one s was given. *)
Mine(s, l, c) == ~l.lease[c].ended /\ l.lease[c].token = s.token

(* While it is, the binding is the one of the plan, or its successor, or there  *)
(* is nothing left to do for the capability.                                    *)
KeptBound(s, l, c) ==
  \/ l.binding[c].id = s.bound[c]
  \/ \E b \in s.plan \ Left(s) : b.op = "create" /\ b.cap = c /\ l.binding[c].id = b.id
  \/ \A a \in Left(s) : a.cap = c => a.op = "claim"

Kept(s, l) ==
  ~TagScan /\ s.pc \in {"start", "act", "call", "settle", "conclude"} =>
    \A c \in s.caps : Mine(s, l, c) => KeptBound(s, l, c)

(* resume works on receipts of its own capabilities, none of them a claim's. *)
ItemsOK(s) ==
  /\ \A item \in s.todo : item.cap \in s.caps /\ item.receipt.kind # "claim"
  /\ s.pc \in {"settle", "conclude"} =>
       s.cur \in Items /\ s.cur.cap \in s.caps /\ s.cur.receipt.kind # "claim"

Good(s, l) ==
  /\ s \in ApplyRecs \cup ResumeRecs \cup BindRecs
  /\ s.token = 0 <=> s.pc = "lease"
  /\ \A c \in s.caps : s.token <= l.maxToken[c]
  /\ s.verb = "apply" => PlanShape(s) /\ Progress(s) /\ Pinned(s, l) /\ Kept(s, l)
  /\ s.verb = "resume" => ItemsOK(s)

(* Two processes never have one token of one capability. *)
Apart(s, t) ==
  s.token # 0 /\ t.token # 0 => \A c \in s.caps \cap t.caps : s.token # t.token

WorldTyped == alive \subseteq Ids /\ stamped \subseteq Foreign /\ vain \subseteq Ids

LedTyped == led \in LedRecs /\ \A c \in Cap : led.maxToken[c] <= led.seq

ExecInv ==
  /\ LedTyped /\ WorldTyped
  /\ DOMAIN worker = Worker
  /\ \A w \in Worker : worker[w] # Idle => Good(worker[w], led)
  /\ \A w, v \in Worker :
       w # v /\ worker[w] # Idle /\ worker[v] # Idle => Apart(worker[w], worker[v])

----------------------------------------------------------------------------
(* Records and receipts. *)

LEMMA NotIdle == \A s \in ApplyRecs \cup ResumeRecs \cup BindRecs : s # Idle
  BY DEF ApplyRecs, ResumeRecs, BindRecs, Idle

(* The verb tells what record a process is. *)
LEMMA ByVerb ==
  ASSUME NEW s \in ApplyRecs \cup ResumeRecs \cup BindRecs
  PROVE  /\ s.verb = "apply" => s \in ApplyRecs
         /\ s.verb = "resume" => s \in ResumeRecs
         /\ s.verb \in {"adopt", "unadopt"} => s \in BindRecs
         /\ s.verb \in {"apply", "resume", "adopt", "unadopt"}
         /\ s.caps \in CapSets /\ s.at \in Clocks /\ s.token \in Nat
  BY DEF ApplyRecs, ResumeRecs, BindRecs

LEMMA ReceiptTyped ==
  ASSUME NEW a \in Actions, NEW called \in BOOLEAN, NEW id \in Ids \cup {NoRes}
  PROVE  ReceiptOf(a, called, id) \in Receipts
<1>1. AtLeastOne(a.gen) \in Nat
  BY DEF AtLeastOne, Actions
<1>2. OpId(a) \in OpIds
  BY DEF OpIds
<1> QED BY <1>1, <1>2 DEF ReceiptOf, Receipts, Actions, Ops

(* What a reconciler looks for is an identity. *)
LEMMA SoughtTyped ==
  ASSUME NEW c \in Cap, NEW r \in Receipts
  PROVE  /\ Sought(c, r) \in Ids \cup {NoRes}
         /\ r.kind # "claim" => Sought(c, r) \in Ids
<1>1. OwnId(c, r.gen) \in Ids
  BY DEF OwnId, Ids, Receipts
<1> QED BY <1>1 DEF Sought, Receipts, Ops

----------------------------------------------------------------------------
(* What the events do to the ledger. *)

(* What a process can rely on when another, s, writes: tokens and heads only     *)
(* grow, no lease comes back, and a binding moves only with its decision head    *)
(* and under the lease of s.                                                     *)
Fenced(s, l, m) ==
  /\ m \in LedRecs /\ \A c \in Cap : m.maxToken[c] <= m.seq
  /\ \A c \in Cap :
       /\ l.maxToken[c] <= m.maxToken[c] /\ l.decided[c] <= m.decided[c]
       /\ m.binding[c].id # l.binding[c].id =>
            /\ l.decided[c] < m.decided[c]
            /\ s.token # 0 /\ c \in s.caps /\ Mine(s, l, c)
       /\ \A t \in 0..l.maxToken[c] :
            ~m.lease[c].ended /\ m.lease[c].token = t
              => ~l.lease[c].ended /\ l.lease[c].token = t

LEMMA LedFields ==
  ASSUME LedTyped
  PROVE  /\ led.clock \in Clocks /\ led.lease \in [Cap -> Leases]
         /\ led.maxToken \in [Cap -> Nat] /\ led.seq \in Nat
         /\ led.pending \in [Cap -> SUBSET Receipts] /\ led.binding \in [Cap -> Bounds]
         /\ led.replaced \in [Cap -> SUBSET Ids] /\ led.tombstoned \in [Cap -> SUBSET Ids]
         /\ led.claimed \in SUBSET Cap /\ led.decided \in [Cap -> Nat]
         /\ \A c \in Cap : led.maxToken[c] <= led.seq
  BY DEF LedTyped, LedRecs

(* The receipts and notes leave leases, heads and bindings alone. *)
LEMMA StillFenced ==
  ASSUME LedTyped, NEW s, NEW m \in LedRecs, m.maxToken = led.maxToken, m.seq = led.seq,
         m.decided = led.decided, m.binding = led.binding, m.lease = led.lease
  PROVE  Fenced(s, led, m)
  BY LedFields DEF Fenced, LedTyped
(* The clock of the fold. *)
LEMMA ClockTyped ==
  ASSUME LedTyped, NEW e, e.at \in Clocks
  PROVE  Step(led, e, e.at).clock \in Clocks
  BY LedFields DEF Step

LEMMA ReceiptStep ==
  ASSUME LedTyped, NEW w \in Worker, NEW c \in Cap, NEW status, NEW receipt \in Receipts,
         worker[w].at \in Clocks, NEW s
  PROVE  LET m == Step(led, ReceiptEvent(w, c, status, receipt), worker[w].at) IN
         Fenced(s, led, m) /\ m.lease = led.lease /\ m.maxToken = led.maxToken
           /\ m.decided = led.decided /\ m.binding = led.binding
<1> DEFINE e == ReceiptEvent(w, c, status, receipt)
           m == Step(led, e, worker[w].at)
<1>1. /\ e.type = "operation.receipt" /\ e.caps = {c} /\ e.at = worker[w].at
      /\ e.status = status /\ e.receipt = receipt
  BY DEF ReceiptEvent
<1> HIDE DEF e
<1>2. LeaseAfter(led, e, worker[w].at) = led.lease
  BY <1>1, LedFields DEF LeaseAfter
<1>3. MaxTokenAfter(led, e) = led.maxToken /\ SeqAfter(led, e) = led.seq
  BY <1>1, LedFields DEF MaxTokenAfter, SeqAfter
<1>4. BindingAfter(led, e) = led.binding /\ ReplacedAfter(led, e) = led.replaced
      /\ TombstonedAfter(led, e) = led.tombstoned
  BY <1>1, LedFields DEF BindingAfter, ReplacedAfter, TombstonedAfter
<1>5. ClaimedAfter(led, e) = led.claimed /\ DecidedAfter(led, e) = led.decided
  BY <1>1, LedFields DEF ClaimedAfter, DecidedAfter, DecisionTypes, MutationTypes
<1>6. PendingAfter(led, e) \in [Cap -> SUBSET Receipts]
  BY <1>1, LedFields DEF PendingAfter
<1>7. m.clock \in Clocks
  BY <1>1, ClockTyped
<1>8. /\ m.lease = led.lease /\ m.maxToken = led.maxToken /\ m.seq = led.seq
      /\ m.decided = led.decided /\ m.binding = led.binding
  BY <1>2, <1>3, <1>4, <1>5 DEF Step
<1>9. m \in LedRecs
  BY <1>2, <1>3, <1>4, <1>5, <1>6, <1>7, LedFields DEF LedRecs, Step
<1> HIDE DEF m
<1>10. Fenced(s, led, m)
  BY <1>8, <1>9, StillFenced
<1> QED BY <1>8, <1>10 DEF m, e

LEMMA NoteStep ==
  ASSUME LedTyped, NEW type \in {"ownership.claimed", "observation.recorded"},
         NEW c \in Cap, NEW at \in Clocks, NEW s
  PROVE  LET m == Step(led, [type |-> type, caps |-> {c}, at |-> at], at) IN
         Fenced(s, led, m) /\ m.lease = led.lease /\ m.maxToken = led.maxToken
           /\ m.decided = led.decided /\ m.binding = led.binding
<1> DEFINE e == [type |-> type, caps |-> {c}, at |-> at]
           m == Step(led, e, at)
<1>1. e.type = type /\ e.caps = {c} /\ e.at = at
  OBVIOUS
<1> HIDE DEF e
<1>2. LeaseAfter(led, e, at) = led.lease
  BY <1>1, LedFields DEF LeaseAfter
<1>3. MaxTokenAfter(led, e) = led.maxToken /\ SeqAfter(led, e) = led.seq
  BY <1>1, LedFields DEF MaxTokenAfter, SeqAfter
<1>4. BindingAfter(led, e) = led.binding /\ ReplacedAfter(led, e) = led.replaced
      /\ TombstonedAfter(led, e) = led.tombstoned
  BY <1>1, LedFields DEF BindingAfter, ReplacedAfter, TombstonedAfter
<1>5. ClaimedAfter(led, e) \in SUBSET Cap /\ DecidedAfter(led, e) = led.decided
  BY <1>1, LedFields DEF ClaimedAfter, DecidedAfter, DecisionTypes, MutationTypes
<1>6. PendingAfter(led, e) = led.pending
  BY <1>1, LedFields DEF PendingAfter
<1>7. m.clock \in Clocks
  BY <1>1, ClockTyped
<1>8. /\ m.lease = led.lease /\ m.maxToken = led.maxToken /\ m.seq = led.seq
      /\ m.decided = led.decided /\ m.binding = led.binding
  BY <1>2, <1>3, <1>4, <1>5 DEF Step
<1>9. m \in LedRecs
  BY <1>2, <1>3, <1>4, <1>5, <1>6, <1>7, LedFields DEF LedRecs, Step
<1> HIDE DEF m
<1>10. Fenced(s, led, m)
  BY <1>8, <1>9, StillFenced
<1> QED BY <1>8, <1>10 DEF m, e

(* A marker of a run moves decision heads, a release ends leases: neither can   *)
(* bring back a lease or touch a binding.                                       *)
LEMMA MarkStep ==
  ASSUME LedTyped, NEW w \in Worker, worker[w].at \in Clocks, worker[w].caps \in CapSets,
         NEW type \in {"lease.released", "apply.started", "apply.finished", "apply.failed"},
         NEW s
  PROVE  LET m == Step(led, MarkEvent(w, type), worker[w].at) IN
         Fenced(s, led, m) /\ m.binding = led.binding /\ m.maxToken = led.maxToken
<1> DEFINE e == MarkEvent(w, type)
           m == Step(led, e, worker[w].at)
<1>1. e.type = type /\ e.caps = worker[w].caps /\ e.at = worker[w].at
  BY DEF MarkEvent
<1> HIDE DEF e
<1>2. LeaseAfter(led, e, worker[w].at) \in [Cap -> Leases]
  <2>1. ASSUME NEW l \in Leases PROVE [l EXCEPT !.ended = TRUE] \in Leases
    BY DEF Leases
  <2>2. led.lease \in [Cap -> Leases]
    BY LedFields
  <2>3. e.type \notin {"lease.acquired", "lease.renewed", "lease.broken"}
    BY <1>1
  <2>4. CASE e.type = "lease.released"
    <3>1. LeaseAfter(led, e, worker[w].at) =
            [c \in Cap |-> IF c \in e.caps THEN [led.lease[c] EXCEPT !.ended = TRUE]
                           ELSE led.lease[c]]
      BY <2>4 DEF LeaseAfter
    <3> QED BY <2>1, <2>2, <3>1
  <2>5. CASE e.type # "lease.released"
    <3>1. LeaseAfter(led, e, worker[w].at) = [c \in Cap |-> led.lease[c]]
      BY <2>3, <2>5 DEF LeaseAfter
    <3> QED BY <2>2, <3>1
  <2> QED BY <2>4, <2>5
<1>3. \A c \in Cap : LET after == LeaseAfter(led, e, worker[w].at)[c] IN
        after.token = led.lease[c].token /\ (led.lease[c].ended => after.ended)
  BY <1>1, LedFields DEF LeaseAfter, Leases
<1>4. MaxTokenAfter(led, e) = led.maxToken /\ SeqAfter(led, e) = led.seq
  BY <1>1, LedFields DEF MaxTokenAfter, SeqAfter
<1>5. BindingAfter(led, e) = led.binding /\ ReplacedAfter(led, e) = led.replaced
      /\ TombstonedAfter(led, e) = led.tombstoned
  BY <1>1, LedFields DEF BindingAfter, ReplacedAfter, TombstonedAfter
<1>6. ClaimedAfter(led, e) = led.claimed /\ PendingAfter(led, e) = led.pending
  BY <1>1, LedFields DEF ClaimedAfter, PendingAfter
<1>7. /\ DecidedAfter(led, e) \in [Cap -> Nat]
      /\ \A c \in Cap : led.decided[c] <= DecidedAfter(led, e)[c]
  BY LedFields DEF DecidedAfter
<1>8. m.clock \in Clocks
  BY <1>1, ClockTyped
<1>9. /\ m.lease = LeaseAfter(led, e, worker[w].at) /\ m.maxToken = led.maxToken
      /\ m.seq = led.seq /\ m.decided = DecidedAfter(led, e) /\ m.binding = led.binding
  BY <1>4, <1>5 DEF Step
<1>10. m \in LedRecs
  BY <1>2, <1>4, <1>5, <1>6, <1>7, <1>8, LedFields DEF LedRecs, Step
<1> HIDE DEF m
<1>11. Fenced(s, led, m)
  BY <1>2, <1>3, <1>7, <1>9, <1>10, LedFields DEF Fenced, Leases
<1> QED BY <1>9, <1>11 DEF m, e

(* A binding is written under the lease whose token it shows. *)
LEMMA BindStep ==
  ASSUME LedTyped, NEW w \in Worker, worker[w].at \in Clocks, worker[w].token # 0,
         NEW c \in Cap, c \in worker[w].caps, NEW e, Admits(e),
         e.type = "binding.updated", e.caps = {c}, e.at = worker[w].at,
         e.token = worker[w].token, e.bound \in Bounds, e.replaces \in SUBSET Ids,
         e.tombs \in SUBSET Ids
  PROVE  LET m == Step(led, e, worker[w].at) IN
         /\ Fenced(worker[w], led, m) /\ m.lease = led.lease /\ m.maxToken = led.maxToken
         /\ m.binding[c] = e.bound /\ \A d \in Cap \ {c} : m.binding[d] = led.binding[d]
         /\ Mine(worker[w], led, c)
<1> DEFINE m == Step(led, e, worker[w].at)
           bound == e.bound
<1>1. /\ e.type = "binding.updated" /\ e.caps = {c} /\ e.at = worker[w].at
      /\ e.token = worker[w].token /\ e.bound = bound /\ bound \in Bounds
  OBVIOUS
<1>2. Mine(worker[w], led, c)
  <2>1. Accepts(led, e, worker[w].at)
    BY <1>1 DEF Admits
  <2> QED BY <1>1, <2>1 DEF Accepts, MutationTypes, Holds, Active, Mine
<1> HIDE DEF bound
<1>3. LeaseAfter(led, e, worker[w].at) = led.lease
  BY <1>1, LedFields DEF LeaseAfter
<1>4. MaxTokenAfter(led, e) = led.maxToken /\ SeqAfter(led, e) = led.seq
  BY <1>1, LedFields DEF MaxTokenAfter, SeqAfter
<1>5. BindingAfter(led, e) = [led.binding EXCEPT ![c] = bound]
  BY <1>1, LedFields DEF BindingAfter
<1>6. /\ ReplacedAfter(led, e) \in [Cap -> SUBSET Ids]
      /\ TombstonedAfter(led, e) \in [Cap -> SUBSET Ids]
  BY <1>1, LedFields DEF ReplacedAfter, TombstonedAfter
<1>7. ClaimedAfter(led, e) \in SUBSET Cap /\ PendingAfter(led, e) = led.pending
  BY <1>1, LedFields DEF ClaimedAfter, PendingAfter
<1>8. DecidedAfter(led, e) = [led.decided EXCEPT ![c] = @ + 1]
  BY <1>1, LedFields DEF DecidedAfter, DecisionTypes, MutationTypes
<1>9. m.clock \in Clocks
  BY <1>1, ClockTyped
<1>10. /\ m.lease = led.lease /\ m.maxToken = led.maxToken
       /\ m.seq = led.seq /\ m.decided = [led.decided EXCEPT ![c] = @ + 1]
       /\ m.binding = [led.binding EXCEPT ![c] = bound]
  BY <1>3, <1>4, <1>5, <1>8 DEF Step
<1>11. m \in LedRecs
  <2>1. /\ BindingAfter(led, e) \in [Cap -> Bounds] /\ DecidedAfter(led, e) \in [Cap -> Nat]
    BY <1>1, <1>5, <1>8, LedFields
  <2> QED BY <1>3, <1>4, <1>6, <1>7, <1>9, <2>1, LedFields DEF LedRecs, Step
<1> HIDE DEF m
<1>12. Fenced(worker[w], led, m)
  <2>1. \A d \in Cap : /\ led.decided[d] <= m.decided[d]
                       /\ m.binding[d].id # led.binding[d].id =>
                            d = c /\ led.decided[d] < m.decided[d]
    BY <1>10, LedFields
  <2> QED BY <1>2, <1>10, <1>11, <2>1, LedFields DEF Fenced
<1>13. m.binding[c] = bound /\ \A d \in Cap \ {c} : m.binding[d] = led.binding[d]
  BY <1>10, LedFields
<1> QED BY <1>2, <1>10, <1>12, <1>13 DEF m, bound

(* A grant gives a token no capability of it has seen. *)
LEMMA LeaseStep ==
  ASSUME LedTyped, NEW w \in Worker, worker[w].at \in Clocks, worker[w].caps \in CapSets,
         NEW s
  PROVE  LET m == Step(led, LeaseEvent(w), worker[w].at)
             token == NewToken(led, worker[w].caps) IN
         /\ Fenced(s, led, m) /\ m.binding = led.binding /\ m.decided = led.decided
         /\ token \in Nat
         /\ \A c \in worker[w].caps : led.maxToken[c] < token /\ m.maxToken[c] = token
<1> DEFINE e == LeaseEvent(w)
           m == Step(led, e, worker[w].at)
           token == NewToken(led, worker[w].caps)
<1>1. /\ e.type = "lease.acquired" /\ e.caps = worker[w].caps /\ e.at = worker[w].at
      /\ e.ttl = Ttl
  BY DEF LeaseEvent
<1>2. worker[w].caps \in SUBSET Cap /\ worker[w].caps # {}
  BY DEF CapSets
<1>3. /\ token \in Nat /\ token <= led.seq + 1
      /\ \A c \in worker[w].caps : led.maxToken[c] < token
  BY <1>2, LedFields, TokenAbove
<1> HIDE DEF e, token
<1>4. NewToken(led, e.caps) = token
  BY <1>1 DEF token
<1>5. worker[w].at + Ttl \in Nat
  BY ExecutorAssumption DEF Clocks, ExecutorAssumption
<1> DEFINE grant == [token |-> token, expiry |-> worker[w].at + Ttl, ended |-> FALSE,
                     seq |-> led.seq + 1]
<1>6. LeaseAfter(led, e, worker[w].at) =
        [c \in Cap |-> IF c \in worker[w].caps THEN grant ELSE led.lease[c]]
  BY <1>1, <1>4 DEF LeaseAfter
<1>7. grant \in Leases /\ grant.token = token
  BY <1>3, <1>5, LedFields DEF Leases
<1> HIDE DEF grant
<1>8. LeaseAfter(led, e, worker[w].at) \in [Cap -> Leases]
  BY <1>6, <1>7, LedFields
<1>9. MaxTokenAfter(led, e) =
        [c \in Cap |-> IF c \in worker[w].caps THEN token ELSE led.maxToken[c]]
  BY <1>1, <1>4 DEF MaxTokenAfter
<1>10. SeqAfter(led, e) = led.seq + 1
  BY <1>1 DEF SeqAfter
<1>11. BindingAfter(led, e) = led.binding /\ ReplacedAfter(led, e) = led.replaced
      /\ TombstonedAfter(led, e) = led.tombstoned
  BY <1>1, LedFields DEF BindingAfter, ReplacedAfter, TombstonedAfter
<1>12. ClaimedAfter(led, e) = led.claimed /\ PendingAfter(led, e) = led.pending
  BY <1>1, LedFields DEF ClaimedAfter, PendingAfter
<1>13. DecidedAfter(led, e) = led.decided
  BY <1>1, LedFields DEF DecidedAfter, DecisionTypes, MutationTypes
<1>14. m.clock \in Clocks
  BY <1>1, ClockTyped
<1>15. MaxTokenAfter(led, e) \in [Cap -> Nat] /\ led.seq + 1 \in Nat
  BY <1>3, <1>9, LedFields
<1>16. /\ m.lease = LeaseAfter(led, e, worker[w].at) /\ m.maxToken = MaxTokenAfter(led, e)
       /\ m.seq = led.seq + 1 /\ m.decided = led.decided /\ m.binding = led.binding
  BY <1>10, <1>11, <1>13 DEF Step
<1>17. m \in LedRecs
  BY <1>8, <1>10, <1>11, <1>12, <1>13, <1>14, <1>15, LedFields DEF LedRecs, Step
<1> HIDE DEF m
<1>18. ASSUME NEW c \in Cap
       PROVE  /\ m.maxToken[c] <= m.seq /\ led.maxToken[c] <= m.maxToken[c]
              /\ \A t \in 0..led.maxToken[c] :
                   ~m.lease[c].ended /\ m.lease[c].token = t
                     => ~led.lease[c].ended /\ led.lease[c].token = t
  BY <1>2, <1>3, <1>6, <1>7, <1>9, <1>16, LedFields
<1>19. Fenced(s, led, m)
  BY <1>16, <1>17, <1>18, LedFields DEF Fenced
<1>20. \A c \in worker[w].caps : led.maxToken[c] < token /\ m.maxToken[c] = token
  BY <1>2, <1>3, <1>9, <1>16
<1> QED BY <1>3, <1>16, <1>19, <1>20 DEF m, e, token

----------------------------------------------------------------------------
(* One process writes, the others keep what they had. *)

(* A fenced write does not disturb a process that shares no token with the writer. *)
LEMMA OthersKeep ==
  ASSUME LedTyped, NEW t, Good(t, led), NEW s, NEW m, Fenced(s, led, m),
         s.token # 0 => Apart(t, s)
  PROVE  Good(t, m)
<1>1. /\ t \in ApplyRecs \cup ResumeRecs \cup BindRecs
      /\ t.token = 0 <=> t.pc = "lease"
      /\ \A c \in t.caps : t.token <= led.maxToken[c]
      /\ t.verb = "apply" => PlanShape(t) /\ Progress(t) /\ Pinned(t, led) /\ Kept(t, led)
      /\ t.verb = "resume" => ItemsOK(t)
  BY DEF Good
<1>2. t.caps \in CapSets /\ t.token \in Nat
  BY <1>1, ByVerb
<1>3. t.caps \subseteq Cap
  BY <1>2 DEF CapSets
<1>4. /\ m \in LedRecs
      /\ \A c \in Cap : m.maxToken[c] \in Nat /\ m.decided[c] \in Nat
      /\ \A c \in Cap : led.maxToken[c] \in Nat /\ led.decided[c] \in Nat
  BY LedFields DEF Fenced, LedRecs
<1>5. \A c \in t.caps : t.token <= m.maxToken[c]
  BY <1>1, <1>2, <1>3, <1>4 DEF Fenced
<1>6. ASSUME t.verb = "apply" PROVE Pinned(t, m)
  <2> SUFFICES ASSUME t.pc = "lease", NEW c \in t.caps
               PROVE  /\ t.pins[c] <= m.decided[c]
                      /\ m.decided[c] = t.pins[c] => m.binding[c].id = t.bound[c]
    BY DEF Pinned
  <2>1. t.pins[c] \in Nat
    BY <1>1, <1>6 DEF PlanShape
  <2>2. t.pins[c] <= led.decided[c] /\ (led.decided[c] = t.pins[c] => led.binding[c].id = t.bound[c])
    BY <1>1, <1>6 DEF Pinned
  <2>3. /\ led.decided[c] <= m.decided[c]
        /\ m.binding[c].id # led.binding[c].id => led.decided[c] < m.decided[c]
    BY <1>3 DEF Fenced
  <2> QED BY <1>3, <1>4, <2>1, <2>2, <2>3
<1>7. ASSUME t.verb = "apply" PROVE Kept(t, m)
  <2> SUFFICES ASSUME ~TagScan, t.pc \in {"start", "act", "call", "settle", "conclude"},
                      NEW c \in t.caps, Mine(t, m, c)
               PROVE  KeptBound(t, m, c)
    BY DEF Kept
  <2>1. t.token \in 0..led.maxToken[c] /\ t.token # 0
    BY <1>1, <1>2, <1>3, <1>4
  <2>2. Mine(t, led, c)
    BY <1>3, <2>1 DEF Fenced, Mine
  <2>3. KeptBound(t, led, c)
    BY <1>1, <1>7, <2>2 DEF Kept
  <2>4. m.binding[c].id = led.binding[c].id
    <3> SUFFICES ASSUME m.binding[c].id # led.binding[c].id PROVE FALSE
      OBVIOUS
    <3>1. s.token # 0 /\ c \in s.caps /\ Mine(s, led, c)
      BY <1>3 DEF Fenced
    <3> QED BY <2>1, <2>2, <3>1 DEF Mine, Apart
  <2> QED BY <2>3, <2>4 DEF KeptBound
<1> QED BY <1>1, <1>5, <1>6, <1>7 DEF Good

(* The step of one process: what it writes is fenced, and its token is the old   *)
(* one, or none, or new to the ledger.                                           *)
LEMMA OneMoves ==
  ASSUME ExecInv, NEW w \in Worker, NEW new, NEW s, Become(w, new),
         LedTyped => Fenced(s, led, led'), WorldTyped',
         s.token = 0 \/ (worker[w] # Idle /\ s = worker[w]),
         new # Idle =>
           /\ Good(new, led')
           /\ \/ new.token = 0
              \/ /\ worker[w] # Idle
                 /\ new.caps = worker[w].caps /\ new.token = worker[w].token
              \/ \A c \in new.caps : led.maxToken[c] < new.token
  PROVE  ExecInv'
<1>1. Fenced(s, led, led') /\ LedTyped
  BY DEF ExecInv
<1>2. LedTyped'
  BY <1>1 DEF Fenced, LedTyped
<1>3. DOMAIN worker' = Worker /\ worker'[w] = new /\ \A v \in Worker : v # w => worker'[v] = worker[v]
  BY DEF ExecInv, Become
<1>4. ASSUME NEW v \in Worker, v # w, worker[v] # Idle
      PROVE  Good(worker[v], led')
  <2>1. Good(worker[v], led)
    BY <1>4 DEF ExecInv
  <2>2. s.token # 0 => Apart(worker[v], s)
    BY <1>4 DEF ExecInv
  <2> QED BY <1>1, <2>1, <2>2, OthersKeep
<1>5. ASSUME NEW v \in Worker, v # w, worker[v] # Idle, new # Idle
      PROVE  Apart(worker[v], new) /\ Apart(new, worker[v])
  <2>1. Good(worker[v], led)
    BY <1>5 DEF ExecInv
  <2>2. worker[v].token \in Nat /\ worker[v].caps \subseteq Cap
        /\ \A c \in worker[v].caps : worker[v].token <= led.maxToken[c]
    BY <2>1, ByVerb DEF Good, CapSets
  <2>3. new.token \in Nat
    BY <1>5, ByVerb DEF Good
  <2>4. CASE new.token = 0
    BY <2>4 DEF Apart
  <2>5. CASE worker[w] # Idle /\ new.caps = worker[w].caps /\ new.token = worker[w].token
    BY <1>5, <2>5 DEF Apart, ExecInv
  <2>6. CASE \A c \in new.caps : led.maxToken[c] < new.token
    <3>1. \A c \in worker[v].caps : led.maxToken[c] \in Nat
      BY <1>1, <2>2, LedFields
    <3> QED BY <2>2, <2>3, <2>6, <3>1 DEF Apart
  <2> QED BY <1>5, <2>4, <2>5, <2>6
<1>6. \A v \in Worker : worker'[v] # Idle => Good(worker'[v], led')
  BY <1>3, <1>4
<1>7. \A u, v \in Worker :
        u # v /\ worker'[u] # Idle /\ worker'[v] # Idle => Apart(worker'[u], worker'[v])
  BY <1>3, <1>5 DEF ExecInv
<1> QED BY <1>2, <1>3, <1>6, <1>7 DEF ExecInv

(* A step that stays off the ledger. *)
LEMMA OffLedger ==
  ASSUME ExecInv, NEW w \in Worker, NEW new, Become(w, new), UNCHANGED led, WorldTyped',
         new # Idle =>
           /\ Good(new, led)
           /\ \/ new.token = 0
              \/ /\ worker[w] # Idle
                 /\ new.caps = worker[w].caps /\ new.token = worker[w].token
  PROVE  ExecInv'
<1> DEFINE s == [token |-> 0]
<1>1. Fenced(s, led, led')
  BY StillFenced DEF ExecInv, LedTyped
<1> QED BY <1>1, OneMoves

(* A step that moves no binding, as far as the others can tell. *)
LEMMA PlainStep ==
  ASSUME ExecInv, NEW w \in Worker, NEW new, Become(w, new),
         Fenced([token |-> 0], led, led'), WorldTyped',
         new # Idle =>
           /\ Good(new, led)
           /\ \/ new.token = 0
              \/ /\ worker[w] # Idle
                 /\ new.caps = worker[w].caps /\ new.token = worker[w].token
  PROVE  ExecInv'
<1> DEFINE s == [token |-> 0]
<1>1. Fenced(s, led, led') /\ s.token = 0
  OBVIOUS
<1>2. LedTyped
  BY DEF ExecInv
<1> HIDE DEF s
<1>3. new # Idle => Good(new, led')
  BY <1>1, <1>2, OthersKeep
<1> QED BY <1>1, <1>3, OneMoves

(* What is known of a process at work. *)
LEMMA AtWork ==
  ASSUME ExecInv, NEW w \in Worker, worker[w] # Idle
  PROVE  /\ LedTyped /\ WorldTyped /\ Good(worker[w], led)
         /\ worker[w] \in ApplyRecs \cup ResumeRecs \cup BindRecs
         /\ worker[w].caps \in CapSets /\ worker[w].at \in Clocks /\ worker[w].token \in Nat
         /\ worker[w].caps \subseteq Cap
<1>1. LedTyped /\ WorldTyped /\ Good(worker[w], led)
  BY DEF ExecInv
<1>2. worker[w] \in ApplyRecs \cup ResumeRecs \cup BindRecs
  BY <1>1 DEF Good
<1> QED BY <1>1, <1>2, ByVerb DEF CapSets

(* An append that moves no binding. *)
LEMMA AppendPlain ==
  ASSUME ExecInv, NEW w \in Worker, worker[w] # Idle, NEW e, NEW onward, NEW refused,
         AppendOr(e, w, onward, refused), WorldTyped',
         Fenced([token |-> 0], led, Step(led, e, e.at)),
         \A new \in {onward, refused} : new # Idle =>
           Good(new, led) /\ new.caps = worker[w].caps /\ new.token = worker[w].token
  PROVE  ExecInv'
<1>1. CASE Admits(e) /\ led' = Step(led, e, e.at) /\ Become(w, onward)
  BY <1>1, PlainStep
<1>2. CASE ~Admits(e) /\ UNCHANGED led /\ Become(w, refused)
  BY <1>2, OffLedger
<1> QED BY <1>1, <1>2 DEF AppendOr

(* A process whose lease is in hand may always give it back. *)
LEMMA ToRelease ==
  ASSUME NEW s, NEW l, Good(s, l), s.pc # "lease"
  PROVE  LET new == [s EXCEPT !.pc = "release"] IN
         /\ Good(new, l) /\ new # Idle
         /\ new.caps = s.caps /\ new.token = s.token
<1> DEFINE new == [s EXCEPT !.pc = "release"]
<1>1. s \in ApplyRecs \cup ResumeRecs \cup BindRecs
  BY DEF Good
<1>2. new \in ApplyRecs \cup ResumeRecs \cup BindRecs
  BY <1>1 DEF ApplyRecs, ResumeRecs, BindRecs
<1>3. /\ new.pc = "release" /\ new.verb = s.verb /\ new.caps = s.caps /\ new.token = s.token
  BY <1>1 DEF ApplyRecs, ResumeRecs, BindRecs
<1>4. s.verb = "apply" => /\ new.pins = s.pins /\ new.bound = s.bound
                          /\ new.plan = s.plan /\ new.todo = s.todo
  BY <1>1 DEF ApplyRecs, ResumeRecs, BindRecs
<1>5. s.verb = "resume" => new.todo = s.todo
  BY <1>1 DEF ApplyRecs, ResumeRecs, BindRecs
<1> HIDE DEF new
<1>6. s.verb = "apply" => PlanShape(new)
  BY <1>3, <1>4 DEF Good, PlanShape
<1>7. s.verb = "apply" => Progress(new) /\ Pinned(new, l) /\ Kept(new, l)
  BY <1>3, <1>4 DEF Good, Progress, Pinned, Kept
<1>8. s.verb = "resume" => ItemsOK(new)
  BY <1>3, <1>5 DEF Good, ItemsOK
<1>9. Good(new, l)
  BY <1>2, <1>3, <1>6, <1>7, <1>8 DEF Good
<1> QED BY <1>2, <1>3, <1>9, NotIdle DEF new

----------------------------------------------------------------------------
(* Init and the starts. *)

LEMMA ExecInit == Init => ExecInv
<1> SUFFICES ASSUME Init PROVE ExecInv
  OBVIOUS
<1>1. EmptyLedger \in LedRecs
  <2>1. NoLease \in Leases /\ Unbound \in Bounds
    BY DEF NoLease, Leases, Unbound, Bounds
  <2>2. 0 \in Clocks
    BY ExecutorAssumption DEF ExecutorAssumption, Clocks
  <2> QED BY <2>1, <2>2 DEF EmptyLedger, LedRecs
<1>2. LedTyped
  BY <1>1 DEF Init, LedTyped, EmptyLedger
<1>3. WorldTyped
  BY DEF Init, WorldTyped, Ids
<1> QED BY <1>2, <1>3 DEF Init, ExecInv

LEMMA ClaimTyped ==
  ASSUME LedTyped, NEW c \in Cap, Bound(c) # NoRes
  PROVE  /\ ClaimFirst(c) \subseteq Actions
         /\ \A a \in ClaimFirst(c) : a.cap = c /\ a.op = "claim" /\ a.deposed = FALSE
<1> DEFINE claim == Action(c, "claim", Bound(c), 0, NoRes, FALSE)
<1>1. Bound(c) \in Ids
  BY LedFields DEF Bound, Bounds
<1>2. claim \in Actions /\ claim.cap = c /\ claim.op = "claim" /\ claim.deposed = FALSE
  BY <1>1 DEF Action, Actions, Ops
<1>3. ClaimFirst(c) \subseteq {claim}
  BY DEF ClaimFirst
<1> QED BY <1>2, <1>3

(* What the compiler makes of one goal. *)
LEMMA PlanMade ==
  ASSUME LedTyped, NEW c \in Cap, NEW goal
  PROVE  /\ Plan(c, goal) \subseteq Actions
         /\ \A a \in Plan(c, goal) :
              /\ a.cap = c
              /\ a.op = "update" => a.id = Bound(c)
              /\ a.deposed => a.op = "delete" /\ (a.id = Bound(c) => a.id = NoRes)
         /\ \A a, b \in Plan(c, goal) : a # b =>
              \/ a.op = "claim" \/ b.op = "claim"
              \/ a.op = "create" /\ b.op = "delete" /\ ~b.deposed
              \/ a.op = "delete" /\ b.op = "create" /\ ~a.deposed
              \/ a.deposed /\ b.deposed
<1> DEFINE Shaped(P) ==
             /\ P \subseteq Actions
             /\ \A a \in P :
                  /\ a.cap = c
                  /\ a.op = "update" => a.id = Bound(c)
                  /\ a.deposed => a.op = "delete" /\ (a.id = Bound(c) => a.id = NoRes)
             /\ \A a, b \in P : a # b =>
                  \/ a.op = "claim" \/ b.op = "claim"
                  \/ a.op = "create" /\ b.op = "delete" /\ ~b.deposed
                  \/ a.op = "delete" /\ b.op = "create" /\ ~a.deposed
                  \/ a.deposed /\ b.deposed
<1>1. led.binding[c] \in Bounds
  BY LedFields
<1>2. BoundGen(c) \in Nat /\ BoundGen(c) + 1 \in Nat
  BY <1>1 DEF BoundGen, AtLeastOne, Bounds
<1>3. Bound(c) \in Ids \cup {NoRes}
  BY <1>1 DEF Bound, Bounds
<1>4. \A n \in Nat : OwnId(c, n) \in Ids
  BY DEF OwnId, Ids
<1>5. Create(c) \in Actions /\ Create(c).cap = c /\ Create(c).op = "create" /\ Create(c).deposed = FALSE
  BY <1>4 DEF Create, Action, Actions, Ops
<1>6. Shaped({Create(c)})
  BY <1>5
<1>7. ASSUME Bound(c) # NoRes
      PROVE  /\ Shaped(ClaimFirst(c) \cup {Action(c, "update", Bound(c), 0, NoRes, FALSE)})
             /\ Shaped(ClaimFirst(c) \cup {Successor(c), Delete(c, Bound(c), BoundGen(c), FALSE)})
             /\ Shaped(ClaimFirst(c) \cup {Delete(c, Bound(c), BoundGen(c), FALSE)})
             /\ Shaped(ClaimFirst(c))
  <2> DEFINE change == Action(c, "update", Bound(c), 0, NoRes, FALSE)
             next == Successor(c)
             del == Delete(c, Bound(c), BoundGen(c), FALSE)
  <2>1. change \in Actions /\ change.cap = c /\ change.op = "update" /\ change.id = Bound(c)
        /\ change.deposed = FALSE
    BY <1>3, <1>7 DEF Action, Actions, Ops
  <2>2. next \in Actions /\ next.cap = c /\ next.op = "create" /\ next.deposed = FALSE
    BY <1>2, <1>3, <1>4 DEF Successor, Action, Actions, Ops
  <2>3. del \in Actions /\ del.cap = c /\ del.op = "delete" /\ del.deposed = FALSE
    BY <1>2, <1>3, <1>7 DEF Delete, Action, Actions, Ops
  <2>4. /\ ClaimFirst(c) \subseteq Actions
        /\ \A a \in ClaimFirst(c) : a.cap = c /\ a.op = "claim" /\ a.deposed = FALSE
    BY <1>7, ClaimTyped
  <2> HIDE DEF change, next, del
  <2>5. Shaped(ClaimFirst(c) \cup {change})
    BY <2>1, <2>4
  <2>6. Shaped(ClaimFirst(c) \cup {next, del})
    BY <2>2, <2>3, <2>4
  <2>7. Shaped(ClaimFirst(c) \cup {del})
    BY <2>3, <2>4
  <2>8. Shaped(ClaimFirst(c))
    BY <2>4
  <2> QED BY <2>5, <2>6, <2>7, <2>8 DEF change, next, del
<1>8. Shaped({Delete(c, id, 0, TRUE) : id \in Deposed(led, c)})
  <2>1. \A id \in Deposed(led, c) : id \in Ids /\ (id = Bound(c) => id = NoRes)
    BY LedFields DEF Deposed, DeposedAll, BoundIds, Bound
  <2>2. \A id \in Deposed(led, c) :
          LET a == Delete(c, id, 0, TRUE) IN
          a \in Actions /\ a.cap = c /\ a.op = "delete" /\ a.id = id /\ a.deposed = TRUE
    BY <2>1 DEF Delete, Action, Actions, Ops
  <2>3. \A a \in {Delete(c, id, 0, TRUE) : id \in Deposed(led, c)} :
          /\ a \in Actions /\ a.cap = c /\ a.op = "delete" /\ a.deposed = TRUE
          /\ a.id = Bound(c) => a.id = NoRes
    <3> TAKE a \in {Delete(c, id, 0, TRUE) : id \in Deposed(led, c)}
    <3>1. PICK id \in Deposed(led, c) : a = Delete(c, id, 0, TRUE)
      OBVIOUS
    <3>2. a \in Actions /\ a.cap = c /\ a.op = "delete" /\ a.id = id /\ a.deposed = TRUE
      BY <2>2, <3>1
    <3> QED BY <2>1, <3>2
  <2> QED BY <2>3
<1>9. Shaped({})
  OBVIOUS
<1> HIDE DEF Shaped
<1>10. Shaped(Plan(c, goal))
  BY <1>6, <1>7, <1>8, <1>9 DEF Plan
<1> QED BY <1>10 DEF Shaped

LEMMA SameWorld ==
  ASSUME ExecInv, UNCHANGED world, UNCHANGED vain
  PROVE  WorldTyped'
  BY DEF ExecInv, WorldTyped, world

LEMMA LessVain ==
  ASSUME ExecInv, UNCHANGED world, vain' \subseteq vain
  PROVE  WorldTyped'
  BY DEF ExecInv, WorldTyped, world

(* A run starts without a token. *)
LEMMA Starts ==
  ASSUME ExecInv, NEW w \in Worker, NEW new, StartRun(w, new), Good(new, led), new.token = 0
  PROVE  ExecInv'
<1>1. Become(w, new) /\ UNCHANGED led /\ WorldTyped'
  BY SameWorld DEF StartRun
<1> QED BY <1>1, OffLedger

LEMMA ApplyStarts ==
  ASSUME ExecInv, NEW w \in Worker, StartApply(w)
  PROVE  ExecInv'
<1>0. PICK caps \in (SUBSET Cap) \ {{}}, at \in led.clock..MaxClock :
        \E goal \in [caps -> Goals] :
        StartRun(w, [ verb |-> "apply", pc |-> "lease", caps |-> caps, at |-> at, token |-> 0,
                      plan |-> UNION {Plan(c, goal[c]) : c \in caps},
                      todo |-> UNION {Plan(c, goal[c]) : c \in caps}, failed |-> {},
                      cur |-> NoRes, reply |-> NoRes,
                      pins |-> [c \in caps |-> led.decided[c]],
                      bound |-> [c \in caps |-> Bound(c)] ])
  BY DEF StartApply
<1>1. PICK goal \in [caps -> Goals] :
        StartRun(w, [ verb |-> "apply", pc |-> "lease", caps |-> caps, at |-> at, token |-> 0,
                      plan |-> UNION {Plan(c, goal[c]) : c \in caps},
                      todo |-> UNION {Plan(c, goal[c]) : c \in caps}, failed |-> {},
                      cur |-> NoRes, reply |-> NoRes,
                      pins |-> [c \in caps |-> led.decided[c]],
                      bound |-> [c \in caps |-> Bound(c)] ])
  BY <1>0
<1> DEFINE all == UNION {Plan(c, goal[c]) : c \in caps}
           pins == [c \in caps |-> led.decided[c]]
           bound == [c \in caps |-> Bound(c)]
           new == [ verb |-> "apply", pc |-> "lease", caps |-> caps, at |-> at, token |-> 0,
                    plan |-> all, todo |-> all, failed |-> {}, cur |-> NoRes, reply |-> NoRes,
                    pins |-> pins, bound |-> bound ]
<1>2. LedTyped /\ caps \in CapSets /\ caps \subseteq Cap
  BY DEF ExecInv, CapSets
<1>3. at \in Clocks
  BY <1>2, LedFields, ExecutorAssumption DEF Clocks, ExecutorAssumption
<1>4. \A a \in all : a.cap \in caps /\ a \in Plan(a.cap, goal[a.cap]) /\ a \in Actions
  <2> TAKE a \in all
  <2>1. PICK c \in caps : a \in Plan(c, goal[c])
    OBVIOUS
  <2> QED BY <1>2, <2>1, PlanMade
<1>5. pins \in [caps -> Nat] /\ \A c \in caps : pins[c] = led.decided[c]
  BY <1>2, LedFields
<1>6. bound \in [caps -> Ids \cup {NoRes}] /\ \A c \in caps : bound[c] = led.binding[c].id
  BY <1>2, LedFields DEF Bound, Bounds
<1>7. StartRun(w, new)
  BY <1>1
<1> HIDE DEF all, pins, bound
<1>8. new \in ApplyRecs
  <2>1. all \subseteq Actions
    BY <1>4
  <2> QED BY <1>2, <1>3, <1>5, <1>6, <2>1 DEF ApplyRecs
<1>9. /\ new.verb = "apply" /\ new.pc = "lease" /\ new.token = 0 /\ new.caps = caps
      /\ new.plan = all /\ new.todo = all /\ new.pins = pins /\ new.bound = bound
  OBVIOUS
<1> HIDE DEF new
<1>10. PlanShape(new)
  <2>1. ASSUME NEW a \in all
        PROVE  /\ a.op = "update" => a.id = bound[a.cap]
               /\ a.deposed => a.op = "delete" /\ (a.id = bound[a.cap] => a.id = NoRes)
    <3>1. a.cap \in Cap /\ a.cap \in caps /\ a \in Plan(a.cap, goal[a.cap])
      BY <1>2, <1>4
    <3>2. bound[a.cap] = Bound(a.cap)
      BY <1>6, <3>1 DEF Bound
    <3> QED BY <1>2, <3>1, <3>2, PlanMade
  <2>2. ASSUME NEW a \in all, NEW b \in all, a.cap = b.cap, a # b
        PROVE  \/ a.op = "claim" \/ b.op = "claim"
               \/ a.op = "create" /\ b.op = "delete" /\ ~b.deposed
               \/ a.op = "delete" /\ b.op = "create" /\ ~a.deposed
               \/ a.deposed /\ b.deposed
    <3>1. /\ a.cap \in Cap /\ a \in Plan(a.cap, goal[a.cap]) /\ b \in Plan(a.cap, goal[a.cap])
      BY <1>2, <1>4, <2>2
    <3> QED BY <1>2, <2>2, <3>1, PlanMade
  <2> QED BY <1>4, <1>5, <1>6, <1>9, <2>1, <2>2 DEF PlanShape
<1>11. Progress(new) /\ Kept(new, led)
  BY <1>9 DEF Progress, Kept
<1>12. Pinned(new, led)
  <2>1. \A c \in caps : led.decided[c] \in Nat
    BY <1>2, LedFields
  <2> QED BY <1>5, <1>6, <1>9, <2>1 DEF Pinned
<1>13. \A c \in new.caps : new.token <= led.maxToken[c]
  <2>1. \A c \in caps : led.maxToken[c] \in Nat
    BY <1>2, LedFields
  <2> QED BY <1>9, <2>1
<1>14. Good(new, led)
  BY <1>8, <1>9, <1>10, <1>11, <1>12, <1>13 DEF Good
<1> QED BY <1>7, <1>9, <1>14, Starts

LEMMA ResumeStarts ==
  ASSUME ExecInv, NEW w \in Worker, StartResume(w)
  PROVE  ExecInv'
<1> DEFINE caps == {c \in Cap : led.pending[c] # {}}
           todo == UNION {[cap : {c}, receipt : led.pending[c]] : c \in caps}
<1>1. PICK at \in led.clock..MaxClock :
        /\ caps # {}
        /\ \A item \in todo : item.receipt.kind # "claim"
        /\ StartRun(w, [ verb |-> "resume", pc |-> "lease", caps |-> caps, at |-> at,
                         token |-> 0, todo |-> todo, cur |-> NoRes, verdict |-> "none" ])
  BY DEF StartResume
<1> DEFINE new == [ verb |-> "resume", pc |-> "lease", caps |-> caps, at |-> at,
                    token |-> 0, todo |-> todo, cur |-> NoRes, verdict |-> "none" ]
<1>2. LedTyped /\ caps \in CapSets /\ caps \subseteq Cap
  BY <1>1 DEF ExecInv, CapSets
<1>3. at \in Clocks
  BY <1>2, LedFields, ExecutorAssumption DEF Clocks, ExecutorAssumption
<1>4. \A item \in todo : item \in Items /\ item.cap \in caps
  <2> TAKE item \in todo
  <2>1. PICK c \in caps : item \in [cap : {c}, receipt : led.pending[c]]
    OBVIOUS
  <2>2. led.pending[c] \subseteq Receipts /\ c \in Cap
    BY <1>2, LedFields
  <2> QED BY <2>1, <2>2 DEF Items
<1>5. StartRun(w, new) /\ \A item \in todo : item.receipt.kind # "claim"
  BY <1>1
<1>6. \A c \in caps : led.maxToken[c] \in Nat
  BY <1>2, LedFields
<1> HIDE DEF caps, todo
<1>7. new \in ResumeRecs
  <2>1. todo \subseteq Items
    BY <1>4
  <2> QED BY <1>2, <1>3, <2>1 DEF ResumeRecs
<1>8. new.verb = "resume" /\ new.pc = "lease" /\ new.token = 0 /\ new.caps = caps /\ new.todo = todo
  OBVIOUS
<1> HIDE DEF new
<1>9. ItemsOK(new)
  BY <1>4, <1>5, <1>8 DEF ItemsOK
<1>10. Good(new, led)
  BY <1>6, <1>7, <1>8, <1>9 DEF Good
<1> QED BY <1>5, <1>8, <1>10, Starts

(* adopt and unadopt start alike. *)
LEMMA BindStarts ==
  ASSUME ExecInv, NEW w \in Worker, NEW verb \in {"adopt", "unadopt"}, NEW c \in Cap,
         NEW at \in led.clock..MaxClock, NEW to \in Bounds,
         StartRun(w, [ verb |-> verb, pc |-> "lease", caps |-> {c}, at |-> at, token |-> 0,
                       to |-> to ])
  PROVE  ExecInv'
<1> DEFINE new == [ verb |-> verb, pc |-> "lease", caps |-> {c}, at |-> at, token |-> 0,
                    to |-> to ]
<1>1. LedTyped /\ {c} \in CapSets
  BY DEF ExecInv, CapSets
<1>2. at \in Clocks
  BY <1>1, LedFields, ExecutorAssumption DEF Clocks, ExecutorAssumption
<1>3. new \in BindRecs
  BY <1>1, <1>2 DEF BindRecs
<1>4. new.verb = verb /\ new.pc = "lease" /\ new.token = 0 /\ new.caps = {c} /\ StartRun(w, new)
  OBVIOUS
<1>5. led.maxToken[c] \in Nat
  BY <1>1, LedFields
<1> HIDE DEF new
<1>6. Good(new, led)
  BY <1>3, <1>4, <1>5 DEF Good
<1> QED BY <1>4, <1>6, Starts

LEMMA AdoptStarts ==
  ASSUME ExecInv, NEW w \in Worker, StartAdopt(w) \/ StartUnadopt(w)
  PROVE  ExecInv'
<1>1. CASE StartAdopt(w)
  <2>1. PICK c \in Cap, id \in alive, at \in led.clock..MaxClock :
          StartRun(w, [ verb |-> "adopt", pc |-> "lease", caps |-> {c}, at |-> at, token |-> 0,
                        to |-> [id |-> id, gen |-> 1, adopted |-> TRUE] ])
    BY <1>1 DEF StartAdopt
  <2>2. [id |-> id, gen |-> 1, adopted |-> TRUE] \in Bounds
    BY DEF Bounds, ExecInv, WorldTyped
  <2> QED BY <2>1, <2>2, BindStarts
<1>2. CASE StartUnadopt(w)
  <2>1. PICK c \in Cap, at \in led.clock..MaxClock :
          StartRun(w, [ verb |-> "unadopt", pc |-> "lease", caps |-> {c}, at |-> at, token |-> 0,
                        to |-> Unbound ])
    BY <1>2 DEF StartUnadopt
  <2>2. Unbound \in Bounds
    BY DEF Bounds, Unbound
  <2> QED BY <2>1, <2>2, BindStarts
<1> QED BY <1>1, <1>2

----------------------------------------------------------------------------
(* The lease. *)

(* A process with a fresh token, on the ledger that granted it. *)
LEMMA FreshGood ==
  ASSUME ExecInv, NEW w \in Worker, worker[w] # Idle, worker[w].pc = "lease",
         NEW m, m.binding = led.binding, m.decided = led.decided,
         NewToken(led, worker[w].caps) \in Nat \ {0},
         \A c \in worker[w].caps : m.maxToken[c] = NewToken(led, worker[w].caps)
  PROVE  /\ Good(UnderLease(w), m) /\ UnderLease(w).caps = worker[w].caps
         /\ UnderLease(w).token = NewToken(led, worker[w].caps)
<1> DEFINE s == worker[w]
           token == NewToken(led, worker[w].caps)
<1>1. Good(s, led) /\ s \in ApplyRecs \cup ResumeRecs \cup BindRecs
  BY AtWork
<1>2. token \in Nat /\ token # 0 /\ \A c \in s.caps : m.maxToken[c] = token
  OBVIOUS
<1>3. CASE s.verb = "apply"
  <2> DEFINE new == [[s EXCEPT !.pc = IF Stale(w) THEN "release" ELSE "start"]
                       EXCEPT !.token = token]
  <2>1. s \in ApplyRecs /\ UnderLease(w) = new
    BY <1>1, <1>3, ByVerb DEF UnderLease, Held, To
  <2> HIDE DEF token
  <2>2. new \in ApplyRecs
    BY <1>2, <2>1 DEF ApplyRecs
  <2>3. /\ new.verb = "apply" /\ new.pc = (IF Stale(w) THEN "release" ELSE "start")
        /\ new.token = token /\ new.caps = s.caps /\ new.plan = s.plan /\ new.todo = s.todo
        /\ new.pins = s.pins /\ new.bound = s.bound
    BY <2>1 DEF ApplyRecs
  <2>4. PlanShape(s) /\ Progress(s) /\ Pinned(s, led)
    BY <1>1, <1>3 DEF Good
  <2> HIDE DEF new
  <2>5. PlanShape(new)
    BY <2>3, <2>4 DEF PlanShape
  <2>6. Progress(new) /\ Pinned(new, m)
    BY <2>3, <2>4 DEF Progress, Pinned
  <2>7. Kept(new, m)
    <3> SUFFICES ASSUME ~Stale(w), NEW c \in s.caps PROVE m.binding[c].id = s.bound[c]
      BY <2>3 DEF Kept, KeptBound
    <3> QED BY <2>4 DEF Stale, Pinned
  <2>8. Good(new, m)
    BY <1>2, <2>2, <2>3, <2>5, <2>6, <2>7 DEF Good
  <2> QED BY <2>1, <2>3, <2>8 DEF token
<1>4. CASE s.verb = "resume"
  <2> DEFINE new == [[[s EXCEPT !.pc = "ask"] EXCEPT !.token = token]
                       EXCEPT !.todo = StillPending(w)]
  <2>1. s \in ResumeRecs /\ ItemsOK(s) /\ UnderLease(w) = new
    BY <1>1, <1>4, ByVerb DEF Good, UnderLease, Held, To
  <2> HIDE DEF token
  <2>2. StillPending(w) \subseteq s.todo
    BY DEF StillPending
  <2>3. StillPending(w) \in SUBSET Items
    BY <2>1, <2>2 DEF ResumeRecs
  <2>4. new \in ResumeRecs
    BY <1>2, <2>1, <2>3 DEF ResumeRecs
  <2>5. /\ new.verb = "resume" /\ new.pc = "ask" /\ new.token = token
        /\ new.caps = s.caps /\ new.todo = StillPending(w)
    BY <2>1 DEF ResumeRecs
  <2> HIDE DEF new
  <2>6. ItemsOK(new)
    BY <2>1, <2>2, <2>5 DEF ItemsOK
  <2>7. Good(new, m)
    BY <1>2, <2>4, <2>5, <2>6 DEF Good
  <2> QED BY <2>1, <2>5, <2>7 DEF token
<1>5. CASE s.verb \in {"adopt", "unadopt"}
  <2> DEFINE new == [[s EXCEPT !.pc = "bind"] EXCEPT !.token = token]
  <2>1. s \in BindRecs /\ UnderLease(w) = new
    BY <1>1, <1>5, ByVerb DEF UnderLease, Held, To
  <2> HIDE DEF token
  <2>2. new \in BindRecs
    BY <1>2, <2>1 DEF BindRecs
  <2>3. /\ new.verb = s.verb /\ new.pc = "bind" /\ new.token = token /\ new.caps = s.caps
    BY <2>1 DEF BindRecs
  <2> HIDE DEF new
  <2>4. Good(new, m)
    BY <1>2, <1>5, <2>2, <2>3 DEF Good
  <2> QED BY <2>1, <2>3, <2>4 DEF token
<1> QED BY <1>1, <1>3, <1>4, <1>5, ByVerb

LEMMA LeaseTaken ==
  ASSUME ExecInv, NEW w \in Worker, TakeLease(w)
  PROVE  ExecInv'
<1>1. worker[w] # Idle /\ worker[w].pc = "lease" /\ WorldTyped'
  BY SameWorld DEF TakeLease, Idle
<1>2. LedTyped /\ worker[w].at \in Clocks /\ worker[w].caps \in CapSets /\ worker[w].caps \subseteq Cap
  BY <1>1, AtWork
<1>3. CASE Admits(LeaseEvent(w)) /\ led' = Step(led, LeaseEvent(w), worker[w].at)
           /\ Become(w, UnderLease(w))
  <2> DEFINE token == NewToken(led, worker[w].caps)
             s == [token |-> 0]
  <2>1. /\ Fenced(s, led, led') /\ led'.binding = led.binding /\ led'.decided = led.decided
        /\ token \in Nat
        /\ \A c \in worker[w].caps : led.maxToken[c] < token /\ led'.maxToken[c] = token
    BY <1>2, <1>3, LeaseStep
  <2>2. s.token = 0
    OBVIOUS
  <2>3. token # 0
    <3>1. PICK c \in worker[w].caps : TRUE
      BY <1>2 DEF CapSets
    <3>2. led.maxToken[c] \in Nat
      BY <1>2, LedFields
    <3> QED BY <2>1, <3>2
  <2> HIDE DEF token, s
  <2>5. Good(UnderLease(w), led') /\ UnderLease(w).token = token /\ UnderLease(w).caps = worker[w].caps
    BY <1>1, <2>1, <2>3, FreshGood DEF token
  <2> QED BY <1>1, <1>3, <2>1, <2>2, <2>5, OneMoves
<1>4. CASE ~Admits(LeaseEvent(w)) /\ UNCHANGED led /\ Become(w, Idle)
  BY <1>1, <1>4, OffLedger
<1>5. LeaseEvent(w).at = worker[w].at
  BY DEF LeaseEvent
<1> QED BY <1>3, <1>4, <1>5 DEF TakeLease, AppendOr

LEMMA LeaseReleased ==
  ASSUME ExecInv, NEW w \in Worker, Release(w)
  PROVE  ExecInv'
<1>1. worker[w] # Idle /\ worker[w].pc = "release" /\ WorldTyped'
  BY SameWorld DEF Release, Idle
<1>2. LedTyped /\ worker[w].at \in Clocks /\ worker[w].caps \in CapSets
  BY <1>1, AtWork
<1> DEFINE e == MarkEvent(w, "lease.released")
<1>3. AppendOr(e, w, Idle, Idle)
  BY DEF Release
<1>4. e.at = worker[w].at
  BY DEF MarkEvent
<1>5. Fenced([token |-> 0], led, Step(led, e, e.at))
  BY <1>2, <1>4, MarkStep
<1> HIDE DEF e
<1> QED BY <1>1, <1>3, <1>5, AppendPlain

(* A process off the ledger's bindings needs only its token. *)
LEMMA TokenIsEnough ==
  ASSUME NEW s, NEW l, NEW m, Good(s, l), s.verb # "apply" \/ s.pc = "release",
         m.maxToken = l.maxToken
  PROVE  Good(s, m)
<1>1. s.verb = "apply" => Pinned(s, m) /\ Kept(s, m)
  BY DEF Pinned, Kept
<1> QED BY <1>1 DEF Good

(* An append of a binding by a process that does not go by it afterwards. *)
LEMMA AppendBinding ==
  ASSUME ExecInv, NEW w \in Worker, worker[w] # Idle, worker[w].token # 0,
         NEW c \in Cap, c \in worker[w].caps, NEW bound \in Bounds,
         NEW tombs \in SUBSET Ids, NEW onward, NEW refused, WorldTyped',
         AppendOr(BindingEvent(w, c, bound, {}, tombs), w, onward, refused),
         onward.verb # "apply" \/ onward.pc = "release",
         \A new \in {onward, refused} :
           Good(new, led) /\ new.caps = worker[w].caps /\ new.token = worker[w].token
  PROVE  ExecInv'
<1> DEFINE e == BindingEvent(w, c, bound, {}, tombs)
           s == worker[w]
<1>1. LedTyped /\ worker[w].at \in Clocks
  BY AtWork
<1>2. e.at = worker[w].at
  BY DEF BindingEvent
<1>3. CASE Admits(e) /\ led' = Step(led, e, e.at) /\ Become(w, onward)
  <2>1. Fenced(s, led, led') /\ led'.maxToken = led.maxToken
    <3>1. /\ e.type = "binding.updated" /\ e.caps = {c} /\ e.token = worker[w].token
          /\ e.bound = bound /\ e.replaces = {} /\ e.tombs = tombs
      BY DEF BindingEvent
    <3>2. e.replaces \in SUBSET Ids /\ Admits(e) /\ led' = Step(led, e, worker[w].at)
      BY <1>2, <1>3, <3>1
    <3> HIDE DEF e
    <3> QED BY <1>1, <1>2, <3>1, <3>2, BindStep
  <2>2. Good(onward, led')
    BY <2>1, TokenIsEnough
  <2> HIDE DEF e
  <2> QED BY <1>3, <2>1, <2>2, OneMoves
<1>4. CASE ~Admits(e) /\ UNCHANGED led /\ Become(w, refused)
  BY <1>4, OffLedger
<1>5. AppendOr(e, w, onward, refused)
  OBVIOUS
<1> HIDE DEF e
<1> QED BY <1>3, <1>4, <1>5 DEF AppendOr

LEMMA Rebinds ==
  ASSUME ExecInv, NEW w \in Worker, Rebind(w)
  PROVE  ExecInv'
<1>1. /\ worker[w] # Idle /\ worker[w].pc = "bind" /\ worker[w].verb \in {"adopt", "unadopt"}
      /\ WorldTyped'
  BY SameWorld DEF Rebind, Idle
<1>2. Good(worker[w], led) /\ worker[w].caps \subseteq Cap
  BY <1>1, AtWork
<1>3. worker[w] \in BindRecs /\ worker[w].token # 0
  BY <1>1, <1>2, ByVerb DEF Good
<1>4. worker[w].to \in Bounds
  BY <1>3 DEF BindRecs
<1>5. PICK c \in worker[w].caps :
        AppendOr(BindingEvent(w, c, worker[w].to, {}, {}), w, To(w, "release"), To(w, "release"))
  BY DEF Rebind
<1>6. /\ Good(To(w, "release"), led) /\ To(w, "release").caps = worker[w].caps
      /\ To(w, "release").token = worker[w].token
  BY <1>1, <1>2, ToRelease DEF To
<1>7. To(w, "release").pc = "release"
  BY <1>3 DEF BindRecs, To
<1>8. c \in Cap /\ {} \in SUBSET Ids
  BY <1>2
<1> QED BY <1>1, <1>3, <1>4, <1>5, <1>6, <1>7, <1>8, AppendBinding

----------------------------------------------------------------------------
(* apply under its lease. *)

Working == {"start", "act", "call", "settle", "conclude"}

(* A step of apply that leaves no more to be bound than before. *)
LEMMA ApplyOn ==
  ASSUME NEW s, NEW l, Good(s, l), s.verb = "apply", s.pc \in Working,
         NEW new \in ApplyRecs, new.pc \in Working,
         new.caps = s.caps, new.token = s.token, new.plan = s.plan,
         new.pins = s.pins, new.bound = s.bound, Progress(new), Left(new) \subseteq Left(s)
  PROVE  Good(new, l)
<1>1. PlanShape(s) /\ Kept(s, l) /\ s.token # 0
  BY DEF Good, Working
<1>2. PlanShape(new)
  BY <1>1 DEF PlanShape
<1>3. new.verb = "apply"
  BY DEF ApplyRecs
<1>4. Kept(new, l)
  <2> SUFFICES ASSUME ~TagScan, NEW c \in s.caps, Mine(s, l, c) PROVE KeptBound(new, l, c)
    BY DEF Kept, Mine
  <2>1. KeptBound(s, l, c)
    BY <1>1 DEF Kept, Working
  <2> QED BY <2>1 DEF KeptBound
<1>5. Pinned(new, l)
  BY DEF Pinned, Working
<1> QED BY <1>1, <1>2, <1>3, <1>4, <1>5 DEF Good, Working

(* What is known of an apply under its lease. *)
LEMMA Applying ==
  ASSUME ExecInv, NEW w \in Worker, NEW pc \in Working, At(w, "apply", pc)
  PROVE  /\ worker[w] # Idle /\ worker[w] \in ApplyRecs /\ Good(worker[w], led)
         /\ LedTyped /\ worker[w].at \in Clocks /\ worker[w].caps \in CapSets
         /\ worker[w].verb = "apply" /\ worker[w].pc = pc /\ worker[w].token # 0
         /\ PlanShape(worker[w]) /\ Progress(worker[w]) /\ Kept(worker[w], led)
<1>1. worker[w] # Idle /\ worker[w].verb = "apply" /\ worker[w].pc = pc
  BY DEF At, Idle
<1>2. /\ Good(worker[w], led) /\ LedTyped /\ worker[w].at \in Clocks /\ worker[w].caps \in CapSets
      /\ worker[w] \in ApplyRecs \cup ResumeRecs \cup BindRecs
  BY <1>1, AtWork
<1>3. worker[w] \in ApplyRecs
  BY <1>1, <1>2, ByVerb
<1> QED BY <1>1, <1>2, <1>3 DEF Good, Working

LEMMA ApplyBegins ==
  ASSUME ExecInv, NEW w \in Worker, ApplyStarted(w)
  PROVE  ExecInv'
<1> DEFINE s == worker[w]
           e == MarkEvent(w, "apply.started")
           new == To(w, "act")
<1>1. At(w, "apply", "start") /\ WorldTyped' /\ AppendOr(e, w, new, Idle)
  BY SameWorld DEF ApplyStarted
<1>2. /\ worker[w] # Idle /\ s \in ApplyRecs /\ Good(s, led) /\ LedTyped /\ s.at \in Clocks
      /\ s.caps \in CapSets /\ s.verb = "apply" /\ s.pc = "start" /\ Progress(s)
  BY <1>1, Applying DEF Working
<1>3. /\ new \in ApplyRecs /\ new.pc = "act" /\ new.caps = s.caps /\ new.token = s.token
      /\ new.plan = s.plan /\ new.todo = s.todo /\ new.pins = s.pins /\ new.bound = s.bound
  BY <1>2 DEF ApplyRecs, To
<1> HIDE DEF new
<1>4. Progress(new) /\ Left(new) \subseteq Left(s)
  BY <1>2, <1>3 DEF Progress, Left
<1>5. Good(new, led)
  BY <1>2, <1>3, <1>4, ApplyOn DEF Working
<1>6. e.at = s.at
  BY DEF MarkEvent
<1>7. Fenced([token |-> 0], led, Step(led, e, e.at))
  BY <1>2, <1>6, MarkStep
<1> HIDE DEF e
<1> QED BY <1>1, <1>2, <1>3, <1>5, <1>7, AppendPlain

(* An action is given up before it was begun. *)
LEMMA GivesUp ==
  ASSUME ExecInv, NEW w \in Worker, Skip(w) \/ RefuseFirst(w)
  PROVE  ExecInv'
<1> DEFINE s == worker[w]
<1>1. At(w, "apply", "act") /\ WorldTyped' /\ UNCHANGED led
  BY SameWorld DEF Skip, RefuseFirst
<1>2. PICK a \in s.todo : Become(w, [worker[w] EXCEPT !.todo = @ \ {a}, !.failed = @ \cup {a}])
  BY DEF Skip, RefuseFirst
<1> DEFINE new == [worker[w] EXCEPT !.todo = @ \ {a}, !.failed = @ \cup {a}]
<1>3. /\ worker[w] # Idle /\ s \in ApplyRecs /\ Good(s, led)
      /\ s.verb = "apply" /\ s.pc = "act" /\ Progress(s)
  BY <1>1, Applying DEF Working
<1>4. a \in Actions /\ s.todo \in SUBSET Actions /\ s.failed \in SUBSET Actions
  BY <1>3 DEF ApplyRecs
<1>5. /\ new \in ApplyRecs /\ new.pc = "act" /\ new.caps = s.caps /\ new.token = s.token
      /\ new.plan = s.plan /\ new.todo = s.todo \ {a} /\ new.pins = s.pins /\ new.bound = s.bound
  BY <1>3, <1>4 DEF ApplyRecs
<1>6. Become(w, new)
  BY <1>2
<1> HIDE DEF new
<1>7. Progress(new) /\ Left(new) \subseteq Left(s)
  BY <1>3, <1>5 DEF Progress, Left
<1>8. Good(new, led)
  BY <1>3, <1>5, <1>7, ApplyOn DEF Working
<1> QED BY <1>1, <1>3, <1>5, <1>6, <1>8, OffLedger

LEMMA IntentWritten ==
  ASSUME ExecInv, NEW w \in Worker, WriteIntent(w)
  PROVE  ExecInv'
<1> DEFINE s == worker[w]
<1>1. At(w, "apply", "act") /\ WorldTyped'
  BY SameWorld DEF WriteIntent
<1>2. PICK a \in s.todo :
        /\ ~Waits(w, a)
        /\ AppendOr(ReceiptEvent(w, a.cap, "pending", ReceiptOf(a, FALSE, NoRes)), w,
                    [To(w, "call") EXCEPT !.cur = a, !.todo = @ \ {a}], Idle)
  BY DEF WriteIntent
<1> DEFINE new == [To(w, "call") EXCEPT !.cur = a, !.todo = @ \ {a}]
           e == ReceiptEvent(w, a.cap, "pending", ReceiptOf(a, FALSE, NoRes))
<1>3. /\ worker[w] # Idle /\ s \in ApplyRecs /\ Good(s, led) /\ LedTyped /\ s.at \in Clocks
      /\ s.verb = "apply" /\ s.pc = "act" /\ Progress(s)
  BY <1>1, Applying DEF Working
<1>4. a \in Actions /\ s.todo \in SUBSET Actions
  BY <1>3 DEF ApplyRecs
<1>5. /\ new \in ApplyRecs /\ new.pc = "call" /\ new.caps = s.caps /\ new.token = s.token
      /\ new.plan = s.plan /\ new.todo = s.todo \ {a} /\ new.cur = a
      /\ new.pins = s.pins /\ new.bound = s.bound
  BY <1>3, <1>4 DEF ApplyRecs, To
<1>6. AppendOr(e, w, new, Idle)
  BY <1>2
<1> HIDE DEF new
<1>7. Left(new) \subseteq Left(s)
  BY <1>3, <1>5 DEF Left
<1>8. Progress(new)
  BY <1>2, <1>3, <1>5 DEF Progress, Waits
<1>9. Good(new, led)
  BY <1>3, <1>5, <1>7, <1>8, ApplyOn DEF Working
<1>10. e.at = s.at
  BY DEF ReceiptEvent
<1>11. Fenced([token |-> 0], led, Step(led, e, e.at))
  <2>1. ReceiptOf(a, FALSE, NoRes) \in Receipts /\ a.cap \in Cap
    BY <1>4, ReceiptTyped DEF Actions
  <2> QED BY <1>3, <1>10, <2>1, ReceiptStep
<1> HIDE DEF e
<1> QED BY <1>1, <1>3, <1>5, <1>6, <1>9, <1>11, AppendPlain

LEMMA ProviderCalled ==
  ASSUME ExecInv, NEW w \in Worker, CallProvider(w)
  PROVE  ExecInv'
<1> DEFINE s == worker[w]
           a == worker[w].cur
<1>1. At(w, "apply", "call") /\ UNCHANGED led /\ UNCHANGED vain
  BY DEF CallProvider
<1>2. /\ worker[w] # Idle /\ s \in ApplyRecs /\ Good(s, led)
      /\ s.verb = "apply" /\ s.pc = "call" /\ Progress(s)
  BY <1>1, Applying DEF Working
<1>3. s.plan \in SUBSET Actions /\ a \in s.plan
  BY <1>2 DEF ApplyRecs, Progress
<1>4. a.id \in Ids /\ alive \subseteq Ids /\ stamped \subseteq Foreign /\ vain \subseteq Ids
  BY <1>3 DEF Actions, ExecInv, WorldTyped
<1>5. PICK landed \in BOOLEAN, id \in Answers(a) :
      \E status \in Reports(a, landed) :
       /\ alive' = CASE landed /\ a.op = "create" -> alive \cup {id}
                     [] landed /\ a.op = "delete" -> alive \ {id}
                     [] OTHER -> alive
       /\ stamped' = IF landed /\ a.op = "claim" THEN stamped \cup ({id} \cap Foreign) ELSE stamped
       /\ Become(w, [To(w, "settle") EXCEPT !.reply = [status |-> Judged(a, id, status),
                                                       id |-> id]])
  BY DEF CallProvider
<1>6. PICK status \in {"succeeded", "unknown", "failed", "retryable"} :
        Become(w, [To(w, "settle") EXCEPT !.reply = [status |-> Judged(a, id, status), id |-> id]])
  BY <1>5 DEF Reports
<1>7. id \in Ids /\ (TagScan \/ id = a.id)
  BY <1>4 DEF Answers
<1>8. WorldTyped'
  BY <1>1, <1>4, <1>5, <1>7 DEF WorldTyped
<1> DEFINE reply == [status |-> Judged(a, id, status), id |-> id]
           new == [To(w, "settle") EXCEPT !.reply = reply]
<1>9. reply \in Replies /\ reply.id = id
  BY <1>7 DEF Replies, Judged
<1>10. Become(w, new)
  BY <1>6
<1> HIDE DEF reply
<1>11. /\ new \in ApplyRecs /\ new.pc = "settle" /\ new.caps = s.caps /\ new.token = s.token
       /\ new.plan = s.plan /\ new.todo = s.todo /\ new.cur = s.cur /\ new.reply = reply
       /\ new.pins = s.pins /\ new.bound = s.bound
  BY <1>2, <1>9 DEF ApplyRecs, To
<1> HIDE DEF new
<1>12. Left(new) \subseteq Left(s)
  BY <1>2, <1>11 DEF Left
<1>13. Progress(new)
  BY <1>2, <1>7, <1>9, <1>11 DEF Progress
<1>14. Good(new, led)
  BY <1>2, <1>11, <1>12, <1>13, ApplyOn DEF Working
<1> QED BY <1>1, <1>2, <1>8, <1>10, <1>11, <1>14, OffLedger

LEMMA FailureSettled ==
  ASSUME ExecInv, NEW w \in Worker, SettleFailure(w)
  PROVE  ExecInv'
<1> DEFINE s == worker[w]
           a == worker[w].cur
           status == worker[w].reply.status
           receipt == IF status = "unknown" THEN ReceiptOf(a, TRUE, worker[w].reply.id)
                      ELSE ReceiptOf(a, FALSE, NoRes)
           e == ReceiptEvent(w, a.cap, status, receipt)
           new == [Onward(w) EXCEPT !.failed = @ \cup {a}]
<1>1. /\ At(w, "apply", "settle") /\ AppendOr(e, w, new, Idle) /\ UNCHANGED world
      /\ vain' = IF Admits(e) THEN vain \cup FailedCreate(w) ELSE vain
  BY DEF SettleFailure
<1>2. /\ worker[w] # Idle /\ s \in ApplyRecs /\ Good(s, led) /\ LedTyped /\ s.at \in Clocks
      /\ s.verb = "apply" /\ s.pc = "settle" /\ Progress(s)
  BY <1>1, Applying DEF Working
<1>3. s.plan \in SUBSET Actions /\ a \in Actions /\ s.reply \in Replies
  BY <1>2 DEF ApplyRecs, Progress
<1>4. /\ new \in ApplyRecs /\ new.pc = "act" /\ new.caps = s.caps /\ new.token = s.token
      /\ new.plan = s.plan /\ new.todo = s.todo /\ new.pins = s.pins /\ new.bound = s.bound
  BY <1>2, <1>3 DEF ApplyRecs, To, Onward
<1>5. receipt \in Receipts /\ a.cap \in Cap
  BY <1>3, ReceiptTyped DEF Actions, Replies
<1>6. e.at = s.at
  BY DEF ReceiptEvent
<1> HIDE DEF new, receipt
<1>7. Fenced([token |-> 0], led, Step(led, e, e.at))
  BY <1>2, <1>5, <1>6, ReceiptStep
<1>8. Progress(new) /\ Left(new) \subseteq Left(s)
  BY <1>2, <1>4 DEF Progress, Left
<1>9. Good(new, led)
  BY <1>2, <1>4, <1>8, ApplyOn DEF Working
<1> HIDE DEF e
<1>10. FailedCreate(w) \subseteq Ids
  BY <1>3 DEF FailedCreate, Actions
<1>11. WorldTyped'
  BY <1>1, <1>10 DEF ExecInv, WorldTyped, world
<1> QED BY <1>1, <1>2, <1>4, <1>7, <1>9, <1>11, AppendPlain

LEMMA Concluded ==
  ASSUME ExecInv, NEW w \in Worker, Conclude(w)
  PROVE  ExecInv'
<1> DEFINE s == worker[w]
           a == worker[w].cur
           receipt == ReceiptOf(a, FALSE, NoRes)
           e == ReceiptEvent(w, a.cap, "succeeded", receipt)
           new == Onward(w)
<1>1. At(w, "apply", "conclude") /\ WorldTyped' /\ AppendOr(e, w, new, Idle)
  BY SameWorld DEF Conclude
<1>2. /\ worker[w] # Idle /\ s \in ApplyRecs /\ Good(s, led) /\ LedTyped /\ s.at \in Clocks
      /\ s.verb = "apply" /\ s.pc = "conclude" /\ Progress(s)
  BY <1>1, Applying DEF Working
<1>3. a \in Actions
  BY <1>2 DEF ApplyRecs, Progress
<1>4. /\ new \in ApplyRecs /\ new.pc = "act" /\ new.caps = s.caps /\ new.token = s.token
      /\ new.plan = s.plan /\ new.todo = s.todo /\ new.pins = s.pins /\ new.bound = s.bound
  BY <1>2, <1>3 DEF ApplyRecs, To, Onward
<1>5. receipt \in Receipts /\ a.cap \in Cap
  BY <1>3, ReceiptTyped DEF Actions
<1>6. e.at = s.at
  BY DEF ReceiptEvent
<1> HIDE DEF new, receipt
<1>7. Fenced([token |-> 0], led, Step(led, e, e.at))
  BY <1>2, <1>5, <1>6, ReceiptStep
<1>8. Progress(new) /\ Left(new) \subseteq Left(s)
  BY <1>2, <1>4 DEF Progress, Left
<1>9. Good(new, led)
  BY <1>2, <1>4, <1>8, ApplyOn DEF Working
<1> HIDE DEF e
<1> QED BY <1>1, <1>2, <1>4, <1>7, <1>9, AppendPlain

LEMMA Finished ==
  ASSUME ExecInv, NEW w \in Worker, Finish(w)
  PROVE  ExecInv'
<1> DEFINE type == IF worker[w].failed = {} THEN "apply.finished" ELSE "apply.failed"
           e == MarkEvent(w, type)
           new == To(w, "release")
<1>1. At(w, "apply", "act") /\ WorldTyped' /\ AppendOr(e, w, new, Idle)
  BY SameWorld DEF Finish
<1>2. /\ worker[w] # Idle /\ Good(worker[w], led) /\ LedTyped /\ worker[w].at \in Clocks
      /\ worker[w].caps \in CapSets /\ worker[w].pc = "act"
  BY <1>1, Applying DEF Working
<1>3. Good(new, led) /\ new.caps = worker[w].caps /\ new.token = worker[w].token
  BY <1>2, ToRelease DEF To
<1>4. e.at = worker[w].at
  BY DEF MarkEvent
<1>5. type \in {"lease.released", "apply.started", "apply.finished", "apply.failed"}
  OBVIOUS
<1> HIDE DEF new, type
<1>6. Fenced([token |-> 0], led, Step(led, e, e.at))
  BY <1>2, <1>4, <1>5, MarkStep
<1> HIDE DEF e
<1> QED BY <1>1, <1>2, <1>3, <1>6, AppendPlain

(* The binding apply writes. *)
LEMMA BindingTyped ==
  ASSUME LedTyped, NEW w \in Worker, NEW a \in Actions, worker[w].reply \in Replies
  PROVE  BindingOf(w, a) \in Bounds
<1>1. led.binding[a.cap] \in Bounds
  BY LedFields DEF Actions
<1> QED BY <1>1 DEF BindingOf, Bounds, Unbound, Actions, Replies

(* The heart of it: the binding that apply leaves for its own capability is its  *)
(* plan's, or its successor's, or the last thing the plan wanted there.          *)
LEMMA BindsItsOwn ==
  ASSUME ExecInv, NEW w \in Worker, At(w, "apply", "settle"), ~TagScan,
         NEW new, new.plan = worker[w].plan, new.bound = worker[w].bound,
         Left(new) = worker[w].todo, NEW m, worker[w].cur.op # "claim",
         Mine(worker[w], led, worker[w].cur.cap),
         m.binding[worker[w].cur.cap] = BindingOf(w, worker[w].cur)
  PROVE  KeptBound(new, m, worker[w].cur.cap)
<1> DEFINE s == worker[w]
           a == worker[w].cur
           c == worker[w].cur.cap
<1>1. /\ s \in ApplyRecs /\ PlanShape(s) /\ Progress(s) /\ Kept(s, led) /\ s.pc = "settle"
  BY Applying DEF Working
<1>2. /\ a \in s.plan \ s.todo /\ s.todo \subseteq s.plan
      /\ (\A b \in s.todo : ~DependsOn(a, b)) /\ s.reply.id = a.id
  BY <1>1 DEF Progress
<1>3. a \in Actions /\ c \in s.caps
  BY <1>1, <1>2 DEF ApplyRecs, PlanShape
<1>4. CASE a.op = "create"
  <2>1. m.binding[c].id = a.id
    BY <1>2, <1>4 DEF BindingOf
  <2> QED BY <1>2, <1>4, <2>1 DEF KeptBound
<1>5. CASE a.op = "update"
  <2>1. m.binding[c].id = a.id
    BY <1>2, <1>5 DEF BindingOf
  <2>2. a.id = s.bound[c]
    BY <1>1, <1>2, <1>5 DEF PlanShape
  <2> QED BY <2>1, <2>2 DEF KeptBound
<1>6. CASE a.op = "delete" /\ ~a.deposed
  <2>1. \A b \in s.todo : b.cap = c => b.op = "claim"
    <3> SUFFICES ASSUME NEW b \in s.todo, b.cap = c, b.op # "claim" PROVE FALSE
      OBVIOUS
    <3>1. b \in s.plan /\ a # b
      BY <1>2
    <3>2. b.op = "create"
      BY <1>1, <1>2, <1>6, <3>1 DEF PlanShape
    <3> QED BY <1>2, <1>6, <3>2 DEF DependsOn
  <2> QED BY <2>1 DEF KeptBound
<1>7. CASE a.op = "delete" /\ a.deposed
  <2>1. a.id = s.bound[c] => a.id = NoRes
    BY <1>1, <1>2, <1>7 DEF PlanShape
  <2>2. KeptBound(s, led, c)
    BY <1>1, <1>3 DEF Kept
  <2>3. ~ \E b \in s.plan \ Left(s) : b.op = "create" /\ b.cap = c /\ led.binding[c].id = b.id
    BY <1>1, <1>2, <1>7 DEF PlanShape
  <2>4. led.binding[c].id = s.bound[c]
    BY <1>1, <1>7, <2>2, <2>3 DEF KeptBound, Left
  <2>5. m.binding[c].id = s.bound[c]
    BY <1>7, <2>1, <2>4 DEF BindingOf, Unbound
  <2> QED BY <2>5 DEF KeptBound
<1> QED BY <1>3, <1>4, <1>5, <1>6, <1>7 DEF Actions, Ops

LEMMA SuccessSettled ==
  ASSUME ExecInv, NEW w \in Worker, SettleSuccess(w)
  PROVE  ExecInv'
<1> DEFINE s == worker[w]
           a == worker[w].cur
           new == To(w, "conclude")
           note == [type |-> "ownership.claimed", caps |-> {a.cap}, at |-> worker[w].at]
           bind == BindingEvent(w, a.cap, BindingOf(w, a), {a.old} \ {NoRes},
                                IF a.op = "delete" THEN {a.id} ELSE {})
<1>1. /\ At(w, "apply", "settle") /\ WorldTyped'
      /\ AppendOr(IF a.op = "claim" THEN note ELSE bind, w, new, Idle)
  <2>1. vain' \subseteq vain /\ UNCHANGED world
    BY DEF SettleSuccess
  <2>2. WorldTyped'
    BY <2>1, LessVain
  <2>3. (IF a.op = "claim" THEN note ELSE bind) = Written(w)
    BY DEF Written
  <2> HIDE DEF note, bind
  <2> QED BY <2>2, <2>3 DEF SettleSuccess
<1>2. /\ worker[w] # Idle /\ s \in ApplyRecs /\ Good(s, led) /\ LedTyped /\ s.at \in Clocks
      /\ s.verb = "apply" /\ s.pc = "settle" /\ s.token # 0
      /\ PlanShape(s) /\ Progress(s) /\ Kept(s, led)
  BY <1>1, Applying DEF Working
<1>3. a \in s.plan \ s.todo /\ a \in Actions /\ s.reply \in Replies /\ a.cap \in s.caps /\ a.cap \in Cap
  BY <1>2 DEF ApplyRecs, Progress, PlanShape, Actions
<1>4. /\ new \in ApplyRecs /\ new.pc = "conclude" /\ new.caps = s.caps /\ new.token = s.token
      /\ new.plan = s.plan /\ new.todo = s.todo /\ new.cur = s.cur
      /\ new.pins = s.pins /\ new.bound = s.bound /\ new.verb = "apply"
  BY <1>2 DEF ApplyRecs, To
<1> HIDE DEF new
<1>5. Progress(new) /\ Left(new) = s.todo /\ Left(new) \subseteq Left(s)
  BY <1>2, <1>4 DEF Progress, Left
<1>6. Good(new, led)
  BY <1>2, <1>4, <1>5, ApplyOn DEF Working
<1>7. CASE a.op = "claim"
  <2> DEFINE type == "ownership.claimed"
  <2>1. AppendOr(note, w, new, Idle) /\ note.at = s.at
    BY <1>1, <1>7
  <2>2. Fenced([token |-> 0], led, Step(led, note, note.at))
    <3>1. type \in {"ownership.claimed", "observation.recorded"}
      OBVIOUS
    <3>2. note = [type |-> type, caps |-> {a.cap}, at |-> s.at]
      OBVIOUS
    <3> HIDE DEF type
    <3> QED BY <1>2, <1>3, <2>1, <3>1, <3>2, NoteStep
  <2> HIDE DEF note
  <2> QED BY <1>1, <1>2, <1>4, <1>6, <2>1, <2>2, AppendPlain
<1>8. CASE a.op # "claim"
  <2>1. /\ bind.type = "binding.updated" /\ bind.caps = {a.cap} /\ bind.at = s.at
        /\ bind.token = s.token /\ bind.bound = BindingOf(w, a)
        /\ bind.replaces = {a.old} \ {NoRes}
        /\ bind.tombs = (IF a.op = "delete" THEN {a.id} ELSE {})
    BY DEF BindingEvent
  <2>2. bind.bound \in Bounds
    BY <1>2, <1>3, <2>1, BindingTyped
  <2>3. bind.replaces \in SUBSET Ids /\ bind.tombs \in SUBSET Ids
    BY <1>3, <2>1 DEF Actions
  <2>4. AppendOr(bind, w, new, Idle)
    BY <1>1, <1>8
  <2> HIDE DEF bind
  <2>5. CASE Admits(bind) /\ led' = Step(led, bind, bind.at) /\ Become(w, new)
    <3>0. led' = Step(led, bind, s.at)
      BY <2>1, <2>5
    <3>1. /\ Fenced(s, led, led') /\ led'.lease = led.lease /\ led'.maxToken = led.maxToken
          /\ led'.binding[a.cap] = BindingOf(w, a)
          /\ \A d \in Cap \ {a.cap} : led'.binding[d] = led.binding[d]
          /\ Mine(s, led, a.cap)
      BY <1>2, <1>3, <2>1, <2>2, <2>3, <2>5, <3>0, BindStep
    <3>2. Kept(new, led')
      <4> SUFFICES ASSUME ~TagScan, NEW c \in s.caps, Mine(new, led', c) PROVE KeptBound(new, led', c)
        BY <1>4 DEF Kept
      <4>1. CASE c = a.cap
        BY <1>1, <1>4, <1>5, <1>8, <3>1, <4>1, BindsItsOwn
      <4>2. CASE c # a.cap
        <5>1. c \in Cap /\ led'.binding[c] = led.binding[c]
          BY <1>2, <3>1, <4>2, AtWork
        <5>2. KeptBound(new, led, c)
          BY <1>4, <1>6, <3>1 DEF Good, Kept, Mine
        <5> QED BY <5>1, <5>2 DEF KeptBound
      <4> QED BY <4>1, <4>2
    <3>3. Good(new, led')
      BY <1>4, <1>6, <3>1, <3>2 DEF Good, Pinned
    <3> QED BY <1>1, <1>2, <1>4, <2>5, <3>1, <3>3, OneMoves
  <2>6. CASE ~Admits(bind) /\ UNCHANGED led /\ Become(w, Idle)
    BY <1>1, <2>6, OffLedger
  <2> QED BY <2>4, <2>5, <2>6 DEF AppendOr
<1> QED BY <1>7, <1>8

----------------------------------------------------------------------------
(* resume under its lease. *)

(* What is known of a resume under its lease. *)
LEMMA Resuming ==
  ASSUME ExecInv, NEW w \in Worker, NEW pc \in {"ask", "settle", "conclude"}, At(w, "resume", pc)
  PROVE  /\ worker[w] # Idle /\ worker[w] \in ResumeRecs /\ Good(worker[w], led)
         /\ LedTyped /\ WorldTyped /\ worker[w].at \in Clocks /\ worker[w].caps \subseteq Cap
         /\ worker[w].verb = "resume" /\ worker[w].pc = pc /\ worker[w].token # 0
         /\ ItemsOK(worker[w])
<1>1. worker[w] # Idle /\ worker[w].verb = "resume" /\ worker[w].pc = pc
  BY DEF At, Idle
<1>2. /\ Good(worker[w], led) /\ LedTyped /\ WorldTyped /\ worker[w].at \in Clocks
      /\ worker[w] \in ApplyRecs \cup ResumeRecs \cup BindRecs /\ worker[w].caps \subseteq Cap
  BY <1>1, AtWork
<1>3. worker[w] \in ResumeRecs
  BY <1>1, <1>2, ByVerb
<1> QED BY <1>1, <1>2, <1>3 DEF Good

(* A step of resume keeps its token and its receipts. *)
LEMMA ResumeOn ==
  ASSUME NEW s, NEW l, Good(s, l), s.token # 0, NEW new \in ResumeRecs, new.pc # "lease",
         new.caps = s.caps, new.token = s.token, ItemsOK(new)
  PROVE  Good(new, l)
<1>1. new.verb = "resume"
  BY DEF ResumeRecs
<1> QED BY <1>1 DEF Good

(* The receipt under way, and what it is about. *)
LEMMA ItemTyped ==
  ASSUME ExecInv, NEW w \in Worker, NEW pc \in {"settle", "conclude"}, At(w, "resume", pc)
  PROVE  /\ CapOf(w) \in Cap /\ CapOf(w) \in worker[w].caps
         /\ ItemOf(w) \in Receipts /\ ItemOf(w).kind \in {"create", "update", "delete"}
         /\ TargetOf(w) \in Ids
<1>1. ItemsOK(worker[w]) /\ worker[w].pc = pc
  BY Resuming
<1>2. worker[w].cur \in Items /\ worker[w].cur.cap \in worker[w].caps
      /\ worker[w].cur.receipt.kind # "claim"
  BY <1>1 DEF ItemsOK
<1>3. CapOf(w) \in Cap /\ ItemOf(w) \in Receipts
  BY <1>2 DEF CapOf, ItemOf, Items
<1>4. ItemOf(w).kind \in Ops /\ ItemOf(w).kind # "claim"
  BY <1>2, <1>3 DEF ItemOf, Receipts
<1>5. TargetOf(w) \in Ids
  BY <1>3, <1>4, SoughtTyped DEF TargetOf
<1> QED BY <1>2, <1>3, <1>4, <1>5 DEF CapOf, Ops

LEMMA AnsweredGood ==
  ASSUME ExecInv, NEW w \in Worker, NEW pc \in {"settle", "conclude"}, At(w, "resume", pc)
  PROVE  /\ \A new \in {Answered(w), Stopped(w)} :
              Good(new, led) /\ new.caps = worker[w].caps /\ new.token = worker[w].token
<1> DEFINE s == worker[w]
           new == Answered(w)
<1>1. /\ s \in ResumeRecs /\ Good(s, led) /\ s.token # 0 /\ ItemsOK(s) /\ s.pc = pc
      /\ s.verb = "resume"
  BY Resuming
<1>2. /\ new \in ResumeRecs /\ new.pc = "ask" /\ new.caps = s.caps /\ new.token = s.token
      /\ new.todo = s.todo
  BY <1>1 DEF ResumeRecs, Answered, To
<1> HIDE DEF new
<1>3. ItemsOK(new)
  BY <1>1, <1>2 DEF ItemsOK
<1>4. Good(new, led)
  BY <1>1, <1>2, <1>3, ResumeOn
<1>5. Stopped(w) = To(w, "release")
  BY <1>1 DEF Stopped
<1>6. /\ Good(To(w, "release"), led) /\ To(w, "release").caps = s.caps
      /\ To(w, "release").token = s.token
  BY <1>1, ToRelease DEF To
<1> QED BY <1>2, <1>4, <1>5, <1>6 DEF new

LEMMA Asked ==
  ASSUME ExecInv, NEW w \in Worker, Ask(w)
  PROVE  ExecInv'
<1> DEFINE s == worker[w]
<1>1. At(w, "resume", "ask") /\ UNCHANGED led /\ WorldTyped'
  BY SameWorld DEF Ask
<1>2. PICK item \in s.todo, verdict \in {"unknown", "succeeded", "failed"} :
        Become(w, IF verdict = "unknown"
                  THEN [worker[w] EXCEPT !.todo = @ \ {item}]
                  ELSE [To(w, "settle") EXCEPT !.todo = @ \ {item}, !.cur = item,
                                               !.verdict = verdict])
  BY DEF Ask
<1>3. /\ s # Idle /\ s \in ResumeRecs /\ Good(s, led) /\ s.token # 0 /\ ItemsOK(s) /\ s.pc = "ask"
  BY <1>1, Resuming
<1>4. item \in Items /\ item.cap \in s.caps /\ item.receipt.kind # "claim"
  BY <1>3 DEF ResumeRecs, ItemsOK
<1>5. CASE verdict = "unknown"
  <2> DEFINE new == [worker[w] EXCEPT !.todo = @ \ {item}]
  <2>1. /\ new \in ResumeRecs /\ new.pc = "ask" /\ new.caps = s.caps /\ new.token = s.token
        /\ new.todo = s.todo \ {item}
    BY <1>3 DEF ResumeRecs
  <2>2. Become(w, new)
    BY <1>2, <1>5
  <2> HIDE DEF new
  <2>3. Good(new, led)
    BY <1>3, <2>1, ResumeOn DEF ItemsOK
  <2> QED BY <1>1, <1>3, <2>1, <2>2, <2>3, OffLedger
<1>6. CASE verdict # "unknown"
  <2> DEFINE new == [To(w, "settle") EXCEPT !.todo = @ \ {item}, !.cur = item,
                                            !.verdict = verdict]
  <2>1. /\ new \in ResumeRecs /\ new.pc = "settle" /\ new.caps = s.caps /\ new.token = s.token
        /\ new.todo = s.todo \ {item} /\ new.cur = item
    BY <1>3, <1>4, <1>6 DEF ResumeRecs, To
  <2>2. Become(w, new)
    BY <1>2, <1>6
  <2> HIDE DEF new
  <2>3. Good(new, led)
    BY <1>3, <1>4, <2>1, ResumeOn DEF ItemsOK
  <2> QED BY <1>1, <1>3, <2>1, <2>2, <2>3, OffLedger
<1> QED BY <1>5, <1>6

LEMMA OnlyClosed ==
  ASSUME ExecInv, NEW w \in Worker, CloseOnly(w)
  PROVE  ExecInv'
<1> DEFINE e == ReceiptEvent(w, CapOf(w), worker[w].verdict, ItemOf(w))
<1>1. /\ At(w, "resume", "settle") /\ AppendOr(e, w, Answered(w), Stopped(w))
      /\ vain' = (IF Admits(e) THEN vain \cup InVain(w) ELSE vain) /\ UNCHANGED world
  BY DEF CloseOnly
<1>2. worker[w] # Idle /\ LedTyped /\ WorldTyped /\ worker[w].at \in Clocks
  BY <1>1, Resuming
<1>3. CapOf(w) \in Cap /\ ItemOf(w) \in Receipts /\ TargetOf(w) \in Ids
  BY <1>1, ItemTyped
<1>4. InVain(w) \subseteq Ids
  BY <1>3 DEF InVain
<1>5. WorldTyped'
  BY <1>1, <1>2, <1>4 DEF WorldTyped, world
<1>6. e.at = worker[w].at
  BY DEF ReceiptEvent
<1>7. Fenced([token |-> 0], led, Step(led, e, e.at))
  BY <1>2, <1>3, <1>6, ReceiptStep
<1> HIDE DEF e
<1>8. \A new \in {Answered(w), Stopped(w)} :
        Good(new, led) /\ new.caps = worker[w].caps /\ new.token = worker[w].token
  BY <1>1, AnsweredGood
<1> QED BY <1>1, <1>2, <1>5, <1>7, <1>8, AppendPlain

LEMMA Closed ==
  ASSUME ExecInv, NEW w \in Worker, Close(w)
  PROVE  ExecInv'
<1> DEFINE e == ReceiptEvent(w, CapOf(w), "succeeded", ItemOf(w))
<1>1. At(w, "resume", "conclude") /\ AppendOr(e, w, Answered(w), Stopped(w)) /\ WorldTyped'
  BY SameWorld DEF Close
<1>2. worker[w] # Idle /\ LedTyped /\ worker[w].at \in Clocks
  BY <1>1, Resuming
<1>3. CapOf(w) \in Cap /\ ItemOf(w) \in Receipts
  BY <1>1, ItemTyped
<1>4. e.at = worker[w].at
  BY DEF ReceiptEvent
<1>5. Fenced([token |-> 0], led, Step(led, e, e.at))
  BY <1>2, <1>3, <1>4, ReceiptStep
<1> HIDE DEF e
<1>6. \A new \in {Answered(w), Stopped(w)} :
        Good(new, led) /\ new.caps = worker[w].caps /\ new.token = worker[w].token
  BY <1>1, AnsweredGood
<1> QED BY <1>1, <1>2, <1>5, <1>6, AppendPlain

LEMMA Projected ==
  ASSUME ExecInv, NEW w \in Worker, Project(w)
  PROVE  ExecInv'
<1> DEFINE s == worker[w]
           new == To(w, "conclude")
           tombs == IF ItemOf(w).kind = "delete" THEN {TargetOf(w)} ELSE {}
<1>1. /\ At(w, "resume", "settle") /\ WorldTyped'
      /\ AppendOr(BindingEvent(w, CapOf(w), ProjectionOf(w), {}, tombs), w, new, Stopped(w))
  <2>1. vain' \subseteq vain /\ UNCHANGED world
    BY DEF Project
  <2>2. WorldTyped'
    BY <2>1, LessVain
  <2> QED BY <2>2 DEF Project
<1>2. /\ s # Idle /\ s \in ResumeRecs /\ Good(s, led) /\ LedTyped /\ s.token # 0 /\ ItemsOK(s)
      /\ s.pc = "settle"
  BY <1>1, Resuming
<1>3. /\ CapOf(w) \in Cap /\ CapOf(w) \in s.caps /\ ItemOf(w) \in Receipts
      /\ ItemOf(w).kind \in {"create", "update", "delete"} /\ TargetOf(w) \in Ids
  BY <1>1, ItemTyped
<1>4. ProjectionOf(w) \in Bounds
  <2>1. led.binding[CapOf(w)] \in Bounds /\ ItemOf(w).gen \in Nat
    BY <1>2, <1>3, LedFields DEF Receipts
  <2> QED BY <1>3, <2>1 DEF ProjectionOf, Bounds, Unbound
<1>5. tombs \in SUBSET Ids
  BY <1>3
<1>6. /\ new \in ResumeRecs /\ new.pc = "conclude" /\ new.caps = s.caps /\ new.token = s.token
      /\ new.todo = s.todo /\ new.cur = s.cur /\ new.verb = "resume"
  BY <1>2 DEF ResumeRecs, To
<1> HIDE DEF new, tombs
<1>7. Good(new, led)
  BY <1>2, <1>6, ResumeOn DEF ItemsOK
<1>8. Good(Stopped(w), led) /\ Stopped(w).caps = s.caps /\ Stopped(w).token = s.token
  BY <1>1, AnsweredGood
<1> QED BY <1>1, <1>2, <1>3, <1>4, <1>5, <1>6, <1>7, <1>8, AppendBinding

LEMMA AllDone ==
  ASSUME ExecInv, NEW w \in Worker, AllAsked(w)
  PROVE  ExecInv'
<1>1. At(w, "resume", "ask") /\ UNCHANGED led /\ WorldTyped' /\ Become(w, To(w, "release"))
  BY SameWorld DEF AllAsked
<1>2. worker[w] # Idle /\ Good(worker[w], led) /\ worker[w].pc = "ask"
  BY <1>1, Resuming
<1>3. /\ Good(To(w, "release"), led) /\ To(w, "release").caps = worker[w].caps
      /\ To(w, "release").token = worker[w].token
  BY <1>2, ToRelease DEF To
<1> QED BY <1>1, <1>2, <1>3, OffLedger

----------------------------------------------------------------------------
(* The surroundings, and every step. *)

LEMMA Crashed ==
  ASSUME ExecInv, NEW w \in Worker, Crash(w)
  PROVE  ExecInv'
<1>1. UNCHANGED led /\ WorldTyped' /\ Become(w, Idle)
  BY SameWorld DEF Crash
<1> QED BY <1>1, OffLedger

(* No process moves, and the ledger no more than a note. *)
LEMMA NobodyMoves ==
  ASSUME ExecInv, Fenced([token |-> 0], led, led'), UNCHANGED worker, WorldTyped'
  PROVE  ExecInv'
<1> DEFINE s == [token |-> 0]
<1>1. Fenced(s, led, led') /\ s.token = 0 /\ LedTyped
  BY DEF ExecInv
<1>2. LedTyped'
  BY <1>1 DEF Fenced, LedTyped
<1> HIDE DEF s
<1>3. \A v \in Worker : worker[v] # Idle => Good(worker[v], led')
  <2> TAKE v \in Worker
  <2> HAVE worker[v] # Idle
  <2>1. Good(worker[v], led)
    BY DEF ExecInv
  <2> QED BY <1>1, <2>1, OthersKeep
<1> QED BY <1>2, <1>3 DEF ExecInv

LEMMA Surroundings ==
  ASSUME ExecInv, Observe \/ Lose
  PROVE  ExecInv'
<1>0. LedTyped /\ WorldTyped
  BY DEF ExecInv
<1>1. CASE Observe
  <2>1. PICK c \in Cap, at \in led.clock+1 .. MaxClock :
          led' = Step(led, [type |-> "observation.recorded", caps |-> {c}, at |-> at], at)
    BY <1>1 DEF Observe
  <2>2. UNCHANGED worker /\ WorldTyped'
    BY <1>1, SameWorld DEF Observe
  <2>3. at \in Clocks
    BY <1>0, LedFields, ExecutorAssumption DEF Clocks, ExecutorAssumption
  <2> DEFINE type == "observation.recorded"
  <2>4. type \in {"ownership.claimed", "observation.recorded"}
        /\ led' = Step(led, [type |-> type, caps |-> {c}, at |-> at], at)
    BY <2>1
  <2> HIDE DEF type
  <2>5. Fenced([token |-> 0], led, led')
    BY <1>0, <2>3, <2>4, NoteStep
  <2> QED BY <2>2, <2>5, NobodyMoves
<1>2. CASE Lose
  <2>1. UNCHANGED <<led, worker>> /\ WorldTyped'
    BY <1>0, <1>2 DEF Lose, WorldTyped
  <2>2. Fenced([token |-> 0], led, led')
    BY <1>0, <2>1, StillFenced DEF LedTyped
  <2> QED BY <2>1, <2>2, NobodyMoves
<1> QED BY <1>1, <1>2

LEMMA ExecNext == ExecInv /\ [Next]_vars => ExecInv'
<1> SUFFICES ASSUME ExecInv, [Next]_vars PROVE ExecInv'
  OBVIOUS
<1>1. ASSUME NEW w \in Worker, RunStep(w) PROVE ExecInv'
  BY <1>1, ApplyStarts, ResumeStarts, AdoptStarts, LeaseTaken, LeaseReleased, Rebinds,
     ApplyBegins, GivesUp, IntentWritten, ProviderCalled, FailureSettled, SuccessSettled,
     Concluded, Finished, Asked, OnlyClosed, Projected, Closed, AllDone, Crashed
     DEF RunStep
<1>2. CASE UNCHANGED vars
  BY <1>2 DEF vars, ExecInv, LedTyped, WorldTyped
<1> QED BY <1>1, <1>2, Surroundings DEF Next

----------------------------------------------------------------------------
(* Theorems. *)

LEMMA ExecutorHolds == Spec => []ExecInv
  BY ExecInit, ExecNext, PTL DEF Spec

(* The processes, the ledger they fold and the world keep their types whatever  *)
(* runs, crashes and interleavings there are: apply, resume, adopt and unadopt   *)
(* write only bindings, lineages and receipts that name identities a provider    *)
(* can have, and work only with the token of a lease in hand.                    *)
THEOREM ExecutorTyped == Spec => []TypeOK
<1>1. ExecInv => TypeOK
  <2> SUFFICES ASSUME ExecInv PROVE TypeOK
    OBVIOUS
  <2>1. LedTyped /\ WorldTyped
    BY DEF ExecInv
  <2>2. led.clock \in 0..MaxClock
    BY <2>1, LedFields DEF Clocks
  <2>3. ASSUME NEW c \in Cap
        PROVE  /\ led.binding[c] \in [id : Ids \cup {NoRes}, gen : Nat, adopted : BOOLEAN]
               /\ led.replaced[c] \cup led.tombstoned[c] \subseteq Ids
               /\ \A r \in led.pending[c] :
                    /\ r.kind \in {"create", "update", "delete", "claim"}
                    /\ Sought(c, r) \in Ids \cup {NoRes}
    <3>1. led.binding[c] \in Bounds /\ led.replaced[c] \subseteq Ids
          /\ led.tombstoned[c] \subseteq Ids /\ led.pending[c] \subseteq Receipts
      BY <2>1, LedFields
    <3>2. \A r \in Receipts : r.kind \in {"create", "update", "delete", "claim"}
      BY DEF Receipts, Ops
    <3> QED BY <3>1, <3>2, SoughtTyped DEF Bounds
  <2>4. ASSUME NEW w \in Worker, worker[w] # Idle
        PROVE  /\ worker[w].verb \in {"apply", "resume", "adopt", "unadopt"}
               /\ worker[w].caps \in (SUBSET Cap) \ {{}}
               /\ worker[w].at \in 0..MaxClock
               /\ worker[w].pc \in {"lease", "start", "act", "call", "settle", "conclude",
                                    "ask", "bind", "release"}
               /\ worker[w].token = 0 <=> worker[w].pc = "lease"
    <3>1. Good(worker[w], led) /\ worker[w] \in ApplyRecs \cup ResumeRecs \cup BindRecs
      BY <2>4, AtWork
    <3>2. worker[w].pc \in {"lease", "start", "act", "call", "settle", "conclude",
                            "ask", "bind", "release"}
      BY <3>1 DEF ApplyRecs, ResumeRecs, BindRecs
    <3> QED BY <3>1, <3>2, ByVerb DEF Good, CapSets, Clocks
  <2> QED BY <2>1, <2>2, <2>3, <2>4 DEF TypeOK, WorldTyped
<1> QED BY <1>1, ExecutorHolds, PTL

(* A step of a run moves that process alone. *)
LEMMA RunBecomes ==
  ASSUME NEW v \in Worker, RunStep(v)
  PROVE  \E new : Become(v, new)
<1>1. \A e, onward, refused : AppendOr(e, v, onward, refused) => \E new : Become(v, new)
  BY DEF AppendOr
<1>2. \A new : StartRun(v, new) => \E n : Become(v, n)
  BY DEF StartRun
<1> QED
  BY <1>1, <1>2
     DEF RunStep, StartApply, StartResume, StartAdopt, StartUnadopt, TakeLease, Release,
         Rebind, ApplyStarted, Skip, RefuseFirst, WriteIntent, CallProvider, SettleFailure,
         SettleSuccess, Conclude, Finish, Ask, CloseOnly, Project, Close, AllAsked, Crash

(* Only a settled success takes an apply from its answer to its conclusion. *)
LEMMA OnlySuccess ==
  ASSUME ExecInv, [Next]_vars, NEW w \in Worker, At(w, "apply", "settle"),
         worker'[w] = To(w, "conclude")
  PROVE  SettleSuccess(w)
<1>1. /\ worker[w] # Idle /\ worker[w] \in ApplyRecs /\ worker[w].pc = "settle"
      /\ worker[w].verb = "apply"
  BY Applying DEF Working
<1>2. worker'[w] \in ApplyRecs /\ worker'[w].pc = "conclude"
  BY <1>1 DEF To, ApplyRecs
<1>3. worker'[w] # Idle /\ worker'[w] # worker[w]
  BY <1>1, <1>2, NotIdle
<1>4. worker' # worker
  BY <1>3
<1>5. PICK v \in Worker : RunStep(v)
  BY <1>4 DEF Next, Observe, Lose, vars
<1>6. \E new : Become(v, new)
  BY <1>5, RunBecomes
<1>7. v = w
  BY <1>3, <1>6 DEF Become, ExecInv
<1>8. ~SettleFailure(w)
  <2> SUFFICES ASSUME SettleFailure(w) PROVE FALSE
    OBVIOUS
  <2> DEFINE new == [Onward(w) EXCEPT !.failed = @ \cup {worker[w].cur}]
  <2>1. new.pc = "act"
    BY <1>1 DEF Onward, To, ApplyRecs
  <2>2. Become(w, new) \/ Become(w, Idle)
    BY DEF SettleFailure, AppendOr
  <2>3. worker'[w] = new \/ worker'[w] = Idle
    BY <2>2 DEF Become, ExecInv
  <2> QED BY <1>2, <1>3, <2>1, <2>3
<1>9. ~Crash(w)
  BY <1>3 DEF Crash, Become, ExecInv
<1>10. RunStep(w) => SettleFailure(w) \/ SettleSuccess(w) \/ Crash(w)
  BY <1>1 DEF RunStep, StartApply, StartResume, StartAdopt, StartUnadopt, StartRun, TakeLease,
              Release, Rebind, ApplyStarted, Skip, RefuseFirst, WriteIntent, CallProvider,
              Conclude, Finish, Ask, CloseOnly, Project, Close, AllAsked, At
<1> QED BY <1>5, <1>7, <1>8, <1>9, <1>10

(* No lost update, for any number of processes: while creates are named and not  *)
(* looked up by tag, an apply overwrites only the binding its plan was compiled   *)
(* on, or its own successor. The decision heads compared again under the lease,    *)
(* and a fencing token nobody else is given, are what makes it so.                 *)
THEOREM UpdatesAreNotLost == ~TagScan => (Spec => NoLostUpdate)
<1> SUFFICES ASSUME ~TagScan PROVE Spec => NoLostUpdate
  OBVIOUS
<1>1. ASSUME ExecInv, [Next]_vars, NEW w \in Worker, At(w, "apply", "settle"),
             worker'[w] = To(w, "conclude"), worker[w].cur.op # "claim"
      PROVE  LET a == worker[w].cur IN
             \/ Bound(a.cap) = worker[w].bound[a.cap]
             \/ \E b \in worker[w].plan : DependsOn(a, b) /\ Bound(a.cap) = b.id
  <2> DEFINE s == worker[w]
             a == worker[w].cur
             bind == BindingEvent(w, a.cap, BindingOf(w, a), {a.old} \ {NoRes},
                                  IF a.op = "delete" THEN {a.id} ELSE {})
  <2>1. SettleSuccess(w)
    BY <1>1, OnlySuccess
  <2>2. /\ s \in ApplyRecs /\ s.pc = "settle" /\ s # Idle
        /\ PlanShape(s) /\ Progress(s) /\ Kept(s, led)
    BY <1>1, Applying DEF Working
  <2>3. AppendOr(bind, w, To(w, "conclude"), Idle)
    BY <1>1, <2>1 DEF SettleSuccess, Written
  <2>4. worker'[w] # Idle
    <3>1. To(w, "conclude") \in ApplyRecs
      BY <2>2 DEF To, ApplyRecs
    <3> QED BY <1>1, <3>1, NotIdle
  <2>5. Admits(bind)
    BY <1>1, <2>3, <2>4 DEF AppendOr, Become, ExecInv
  <2>6. a \in s.plan /\ a \in Left(s) /\ a.cap \in s.caps
    BY <2>2 DEF Progress, Left, PlanShape
  <2>7. Mine(s, led, a.cap)
    BY <2>5 DEF BindingEvent, Admits, Accepts, MutationTypes, Holds, Active, Mine
  <2>8. KeptBound(s, led, a.cap)
    BY <2>2, <2>6, <2>7 DEF Kept
  <2>9. ASSUME NEW b \in s.plan \ Left(s), b.op = "create", b.cap = a.cap
        PROVE  DependsOn(a, b)
    <3>1. a.op = "delete"
      BY <1>1, <2>2, <2>6, <2>9 DEF PlanShape
    <3> QED BY <2>9, <3>1 DEF DependsOn
  <2> QED BY <1>1, <2>6, <2>8, <2>9 DEF KeptBound, Bound
<1>2. ExecInv /\ [Next]_vars =>
        [\A w \in Worker :
           LET a == worker[w].cur IN
           At(w, "apply", "settle") /\ worker'[w] = To(w, "conclude") /\ a.op # "claim" =>
             \/ Bound(a.cap) = worker[w].bound[a.cap]
             \/ \E b \in worker[w].plan : DependsOn(a, b) /\ Bound(a.cap) = b.id]_vars
  BY <1>1
<1> QED BY <1>2, ExecutorHolds, PTL DEF Spec, NoLostUpdate

----------------------------------------------------------------------------
(* A run writes only while its lease is its own.                            *)

(* Until history has passed the clock of a run, its lease is the one it was given. *)
InForce(s, l) ==
  s.pc # "lease" =>
    \A c \in s.caps : s.at < l.clock \/ (Mine(s, l, c) /\ l.lease[c].expiry = s.at + Ttl)

HeldInv == \A w \in Worker : worker[w] # Idle => InForce(worker[w], led)

LeaseTypes == {"lease.acquired", "lease.released", "lease.renewed", "lease.broken"}

(* What a writer s may do to leases: end its own, and grant what nobody holds. *)
Yields(s, l, m) ==
  /\ l.clock <= m.clock
  /\ \A c \in Cap : \/ m.lease[c] = l.lease[c]
                    \/ s.token # 0 /\ c \in s.caps /\ Mine(s, l, c)
                    \/ ~Active(l, c, m.clock)

SameRun(s, n) == n.caps = s.caps /\ n.at = s.at /\ n.token = s.token

Quiet(w) == led' # led => \A c \in worker[w].caps : Mine(worker[w], led, c)

LEMMA OthersHold ==
  ASSUME LedTyped, NEW m \in LedRecs, NEW t, Good(t, led), InForce(t, led),
         NEW s, Yields(s, led, m), s.token # 0 => Apart(t, s)
  PROVE  InForce(t, m)
<1> SUFFICES ASSUME t.pc # "lease", NEW c \in t.caps, ~(t.at < m.clock)
             PROVE  Mine(t, m, c) /\ m.lease[c].expiry = t.at + Ttl
  BY DEF InForce
<1>1. /\ t.token # 0 /\ t.caps \subseteq Cap /\ t.at \in Nat /\ c \in Cap
  BY ByVerb, ExecutorAssumption DEF Good, CapSets, Clocks, ExecutorAssumption
<1>2. led.clock \in Nat /\ m.clock \in Nat /\ led.clock <= m.clock
  BY LedFields, ExecutorAssumption DEF LedRecs, Yields, Clocks, ExecutorAssumption
<1>3. Mine(t, led, c) /\ led.lease[c].expiry = t.at + Ttl
  BY <1>1, <1>2 DEF InForce
<1>4. CASE m.lease[c] = led.lease[c]
  BY <1>3, <1>4 DEF Mine
<1>5. CASE s.token # 0 /\ c \in s.caps /\ Mine(s, led, c)
  BY <1>1, <1>3, <1>5 DEF Apart, Mine
<1>6. CASE ~Active(led, c, m.clock)
  BY <1>1, <1>2, <1>3, <1>6, ExecutorAssumption DEF Active, Mine, ExecutorAssumption
<1> QED BY <1>1, <1>4, <1>5, <1>6 DEF Yields

(* The clock of the fold never goes back. *)
LEMMA ClockGrows ==
  ASSUME LedTyped, NEW e, e.at \in Clocks, Admits(e)
  PROVE  LET m == Step(led, e, e.at) IN m.clock = e.at /\ led.clock <= m.clock
<1>1. led.clock \in Int /\ e.at \in Int
  BY LedFields, ExecutorAssumption DEF Clocks, ExecutorAssumption
<1>2. ~(e.at < led.clock)
  BY DEF Admits, Regresses
<1> QED BY <1>1, <1>2 DEF Step

LEMMA FreeYields ==
  ASSUME LedTyped, NEW e, e.at \in Clocks, Admits(e), e.type \notin LeaseTypes, NEW s
  PROVE  LET m == Step(led, e, e.at) IN Yields(s, led, m) /\ m.lease = led.lease
<1> DEFINE m == Step(led, e, e.at)
<1>1. m.lease = led.lease
  <2>1. LeaseAfter(led, e, e.at) = led.lease
    BY LedFields DEF LeaseAfter, LeaseTypes
  <2> QED BY <2>1 DEF Step
<1>2. led.clock <= m.clock
  BY ClockGrows
<1> HIDE DEF m
<1>3. Yields(s, led, m)
  BY <1>1, <1>2 DEF Yields
<1> QED BY <1>1, <1>3 DEF m

(* The step of one process, as far as leases go. *)
LEMMA OneHolds ==
  ASSUME ExecInv, ExecInv', HeldInv, NEW w \in Worker, NEW new, Become(w, new), NEW s,
         s.token = 0 \/ (worker[w] # Idle /\ s = worker[w]), Yields(s, led, led'),
         new # Idle => InForce(new, led')
  PROVE  HeldInv'
<1>1. LedTyped /\ led' \in LedRecs
  BY DEF ExecInv, LedTyped
<1>2. worker'[w] = new /\ \A v \in Worker : v # w => worker'[v] = worker[v]
  BY DEF ExecInv, Become
<1>3. ASSUME NEW v \in Worker, v # w, worker[v] # Idle
      PROVE  InForce(worker[v], led')
  <2>1. Good(worker[v], led) /\ InForce(worker[v], led)
    BY <1>3 DEF ExecInv, HeldInv
  <2>2. s.token # 0 => Apart(worker[v], s)
    BY <1>3 DEF ExecInv
  <2> QED BY <1>1, <2>1, <2>2, OthersHold
<1> QED BY <1>2, <1>3 DEF HeldInv

(* A run under its lease takes one step: it stays the same run, or ends, and      *)
(* appends nothing, or an event of its clock that moves no lease.                  *)
OnItsWay(w, new) ==
  /\ worker[w] # Idle /\ worker[w].pc # "lease" /\ Become(w, new)
  /\ new # Idle => SameRun(worker[w], new)
  /\ \/ UNCHANGED led
     \/ \E e : /\ Admits(e) /\ led' = Step(led, e, e.at)
               /\ e.at = worker[w].at /\ e.type \notin LeaseTypes

(* Without an append no lease moves and no clock. *)
LEMMA NothingYields ==
  ASSUME LedTyped, NEW s, UNCHANGED led
  PROVE  Yields(s, led, led')
  BY LedFields DEF Yields, Clocks

LEMMA HeldOff ==
  ASSUME ExecInv, ExecInv', HeldInv, NEW w \in Worker, NEW new, Become(w, new), UNCHANGED led,
         new # Idle => new.pc = "lease"
  PROVE  HeldInv' /\ Quiet(w)
<1> DEFINE s == [token |-> 0]
<1>1. LedTyped /\ s.token = 0
  BY DEF ExecInv
<1> HIDE DEF s
<1>2. Yields(s, led, led')
  BY <1>1, NothingYields
<1>3. new # Idle => InForce(new, led')
  BY DEF InForce
<1> QED BY <1>1, <1>2, <1>3, OneHolds DEF Quiet

(* The writer's own lease: admitted at its clock, it was not outbid before. *)
LEMMA NotOutbid ==
  ASSUME ExecInv, HeldInv, NEW w \in Worker, worker[w] # Idle, worker[w].pc # "lease",
         NEW e, Admits(e), e.at = worker[w].at
  PROVE  \A c \in worker[w].caps :
           Mine(worker[w], led, c) /\ led.lease[c].expiry = worker[w].at + Ttl
<1>1. ~(worker[w].at < led.clock)
  BY DEF Admits, Regresses
<1> QED BY <1>1 DEF HeldInv, InForce

LEMMA HeldOn ==
  ASSUME ExecInv, ExecInv', HeldInv, NEW w \in Worker, NEW new, OnItsWay(w, new)
  PROVE  HeldInv' /\ Quiet(w)
<1> DEFINE s == worker[w]
           z == [token |-> 0]
<1>1. /\ LedTyped /\ s # Idle /\ s.pc # "lease" /\ s.at \in Clocks /\ s.caps \subseteq Cap
      /\ Become(w, new) /\ z.token = 0 /\ InForce(s, led)
  BY AtWork DEF OnItsWay, HeldInv
<1> HIDE DEF z
<1>2. CASE UNCHANGED led
  <2>1. Yields(z, led, led')
    BY <1>1, <1>2, NothingYields
  <2>2. new # Idle => InForce(new, led')
    BY <1>1, <1>2 DEF OnItsWay, SameRun, InForce, Mine
  <2> QED BY <1>1, <1>2, <2>1, <2>2, OneHolds DEF Quiet
<1>3. ASSUME NEW e, Admits(e), led' = Step(led, e, e.at), e.at = s.at, e.type \notin LeaseTypes
      PROVE  HeldInv' /\ Quiet(w)
  <2>1. Yields(z, led, led') /\ led'.lease = led.lease
    BY <1>1, <1>3, FreeYields
  <2>2. \A c \in s.caps : Mine(s, led, c) /\ led.lease[c].expiry = s.at + Ttl
    BY <1>1, <1>3, NotOutbid
  <2>3. new # Idle => InForce(new, led')
    BY <2>1, <2>2 DEF OnItsWay, SameRun, InForce, Mine
  <2> QED BY <1>1, <2>1, <2>2, <2>3, OneHolds DEF Quiet
<1> QED BY <1>2, <1>3 DEF OnItsWay

(* An append on the way. *)
LEMMA AppendOn ==
  ASSUME NEW w \in Worker, worker[w] # Idle, worker[w].pc # "lease", NEW e, NEW onward, NEW refused,
         AppendOr(e, w, onward, refused), e.at = worker[w].at, e.type \notin LeaseTypes,
         onward = Idle \/ SameRun(worker[w], onward),
         refused = Idle \/ SameRun(worker[w], refused)
  PROVE  \E new : OnItsWay(w, new)
<1>1. CASE Admits(e) /\ led' = Step(led, e, e.at) /\ Become(w, onward)
  <2>1. OnItsWay(w, onward)
    BY <1>1 DEF OnItsWay
  <2> QED BY <2>1
<1>2. CASE ~Admits(e) /\ UNCHANGED led /\ Become(w, refused)
  <2>1. OnItsWay(w, refused)
    BY <1>2 DEF OnItsWay
  <2> QED BY <2>1
<1> QED BY <1>1, <1>2 DEF AppendOr

(* What a run becomes on its way keeps its capabilities, its clock and its token. *)
LEMMA Continues ==
  ASSUME ExecInv, NEW w \in Worker, worker[w] # Idle
  PROVE  /\ \A pc : SameRun(worker[w], To(w, pc))
         /\ worker[w].verb = "apply" =>
              /\ SameRun(worker[w], Onward(w))
              /\ \A a : /\ SameRun(worker[w], [Onward(w) EXCEPT !.failed = @ \cup {a}])
                        /\ SameRun(worker[w], [To(w, "call") EXCEPT !.cur = a, !.todo = @ \ {a}])
                        /\ SameRun(worker[w], [To(w, "settle") EXCEPT !.reply = a])
                        /\ SameRun(worker[w], [worker[w] EXCEPT !.todo = @ \ {a},
                                                                !.failed = @ \cup {a}])
         /\ worker[w].verb = "resume" =>
              /\ SameRun(worker[w], Answered(w)) /\ SameRun(worker[w], Stopped(w))
              /\ \A i, v : /\ SameRun(worker[w], [worker[w] EXCEPT !.todo = @ \ {i}])
                           /\ SameRun(worker[w], [To(w, "settle") EXCEPT !.todo = @ \ {i},
                                                    !.cur = i, !.verdict = v])
<1> DEFINE s == worker[w]
<1>1. s \in ApplyRecs \cup ResumeRecs \cup BindRecs
  BY AtWork
<1>2. \A pc : SameRun(s, To(w, pc))
  BY <1>1 DEF ApplyRecs, ResumeRecs, BindRecs, SameRun, To
<1>3. ASSUME s.verb = "apply"
      PROVE  /\ SameRun(s, Onward(w))
             /\ \A a : /\ SameRun(s, [Onward(w) EXCEPT !.failed = @ \cup {a}])
                       /\ SameRun(s, [To(w, "call") EXCEPT !.cur = a, !.todo = @ \ {a}])
                       /\ SameRun(s, [To(w, "settle") EXCEPT !.reply = a])
                       /\ SameRun(s, [s EXCEPT !.todo = @ \ {a}, !.failed = @ \cup {a}])
  <2>1. s \in ApplyRecs
    BY <1>1, <1>3, ByVerb
  <2> QED BY <2>1 DEF ApplyRecs, SameRun, To, Onward
<1>4. ASSUME s.verb = "resume"
      PROVE  /\ SameRun(s, Answered(w)) /\ SameRun(s, Stopped(w))
             /\ \A i, v : /\ SameRun(s, [s EXCEPT !.todo = @ \ {i}])
                          /\ SameRun(s, [To(w, "settle") EXCEPT !.todo = @ \ {i},
                                           !.cur = i, !.verdict = v])
  <2>1. s \in ResumeRecs
    BY <1>1, <1>4, ByVerb
  <2>2. SameRun(s, Stopped(w))
    BY <1>2, <1>4 DEF Stopped
  <2> QED BY <2>1, <2>2 DEF ResumeRecs, SameRun, To, Answered
<1> QED BY <1>2, <1>3, <1>4

(* Every step of a run under its lease but the last is on its way. *)
LEMMA AppliesOn ==
  ASSUME ExecInv, NEW w \in Worker,
         \/ ApplyStarted(w) \/ Skip(w) \/ RefuseFirst(w) \/ WriteIntent(w) \/ CallProvider(w)
         \/ SettleFailure(w) \/ SettleSuccess(w) \/ Conclude(w) \/ Finish(w)
  PROVE  \E new : OnItsWay(w, new)
<1> DEFINE s == worker[w]
<1>1. s.verb = "apply" /\ s # Idle /\ s.pc # "lease"
  <2>1. \E pc \in Working : At(w, "apply", pc)
    BY Zenon DEF ApplyStarted, Skip, RefuseFirst, WriteIntent, CallProvider, SettleFailure,
                 SettleSuccess, Conclude, Finish, Working
  <2> QED BY <2>1 DEF At, Idle, Working
<1>2. /\ \A pc : SameRun(s, To(w, pc))
      /\ SameRun(s, Onward(w))
      /\ \A a : /\ SameRun(s, [Onward(w) EXCEPT !.failed = @ \cup {a}])
                /\ SameRun(s, [To(w, "call") EXCEPT !.cur = a, !.todo = @ \ {a}])
                /\ SameRun(s, [To(w, "settle") EXCEPT !.reply = a])
                /\ SameRun(s, [s EXCEPT !.todo = @ \ {a}, !.failed = @ \cup {a}])
  BY <1>1, Continues
<1>3. ASSUME NEW type \in MutationTypes
      PROVE  MarkEvent(w, type).at = s.at /\ MarkEvent(w, type).type \notin LeaseTypes
  BY DEF MarkEvent, MutationTypes, LeaseTypes
<1>4. \A c, status, receipt :
        /\ ReceiptEvent(w, c, status, receipt).at = s.at
        /\ ReceiptEvent(w, c, status, receipt).type \notin LeaseTypes
  BY DEF ReceiptEvent, LeaseTypes
<1>5. CASE ApplyStarted(w)
  <2>1. "apply.started" \in MutationTypes
    BY DEF MutationTypes
  <2>2. AppendOr(MarkEvent(w, "apply.started"), w, To(w, "act"), Idle)
    BY <1>5 DEF ApplyStarted
  <2> QED BY <1>1, <1>2, <1>3, <2>1, <2>2, AppendOn
<1>6. CASE Skip(w) \/ RefuseFirst(w)
  <2>1. PICK a \in s.todo : Become(w, [s EXCEPT !.todo = @ \ {a}, !.failed = @ \cup {a}])
    BY <1>6 DEF Skip, RefuseFirst
  <2>2. OnItsWay(w, [s EXCEPT !.todo = @ \ {a}, !.failed = @ \cup {a}])
    BY <1>1, <1>2, <1>6, <2>1 DEF OnItsWay, Skip, RefuseFirst
  <2> QED BY <2>2
<1>7. CASE WriteIntent(w)
  <2>1. PICK a \in s.todo :
          AppendOr(ReceiptEvent(w, a.cap, "pending", ReceiptOf(a, FALSE, NoRes)), w,
                   [To(w, "call") EXCEPT !.cur = a, !.todo = @ \ {a}], Idle)
    BY <1>7 DEF WriteIntent
  <2> QED BY <1>1, <1>2, <1>4, <2>1, AppendOn
<1>8. CASE CallProvider(w)
  <2>1. PICK reply : Become(w, [To(w, "settle") EXCEPT !.reply = reply])
    BY <1>8 DEF CallProvider
  <2>2. OnItsWay(w, [To(w, "settle") EXCEPT !.reply = reply])
    BY <1>1, <1>2, <1>8, <2>1 DEF OnItsWay, CallProvider
  <2> QED BY <2>2
<1>9. CASE SettleFailure(w)
  <2>1. PICK receipt : AppendOr(ReceiptEvent(w, s.cur.cap, s.reply.status, receipt), w,
                                [Onward(w) EXCEPT !.failed = @ \cup {s.cur}], Idle)
    BY <1>9 DEF SettleFailure
  <2> QED BY <1>1, <1>2, <1>4, <2>1, AppendOn
<1>10. CASE SettleSuccess(w)
  <2> DEFINE a == s.cur
             e == IF a.op = "claim"
                  THEN [type |-> "ownership.claimed", caps |-> {a.cap}, at |-> worker[w].at]
                  ELSE BindingEvent(w, a.cap, BindingOf(w, a), {a.old} \ {NoRes},
                                    IF a.op = "delete" THEN {a.id} ELSE {})
  <2>1. AppendOr(e, w, To(w, "conclude"), Idle)
    BY <1>10 DEF SettleSuccess, Written
  <2>2. e.at = s.at /\ e.type \notin LeaseTypes
    BY DEF BindingEvent, LeaseTypes
  <2> HIDE DEF e
  <2> QED BY <1>1, <1>2, <2>1, <2>2, AppendOn
<1>11. CASE Conclude(w)
  <2>1. AppendOr(ReceiptEvent(w, s.cur.cap, "succeeded", ReceiptOf(s.cur, FALSE, NoRes)),
                 w, Onward(w), Idle)
    BY <1>11 DEF Conclude
  <2> QED BY <1>1, <1>2, <1>4, <2>1, AppendOn
<1>12. CASE Finish(w)
  <2> DEFINE type == IF s.failed = {} THEN "apply.finished" ELSE "apply.failed"
  <2>1. AppendOr(MarkEvent(w, type), w, To(w, "release"), Idle)
    BY <1>12 DEF Finish
  <2>2. type \in MutationTypes
    BY DEF MutationTypes
  <2> HIDE DEF type
  <2> QED BY <1>1, <1>2, <1>3, <2>1, <2>2, AppendOn
<1> QED BY <1>5, <1>6, <1>7, <1>8, <1>9, <1>10, <1>11, <1>12

LEMMA ResumesOn ==
  ASSUME ExecInv, NEW w \in Worker,
         Ask(w) \/ CloseOnly(w) \/ Project(w) \/ Close(w) \/ AllAsked(w) \/ Rebind(w)
  PROVE  \E new : OnItsWay(w, new)
<1> DEFINE s == worker[w]
<1>1. s # Idle /\ s.pc # "lease"
  <2>1. \/ \E pc \in {"ask", "settle", "conclude"} : At(w, "resume", pc)
        \/ s.verb \in {"adopt", "unadopt"} /\ s.pc = "bind"
    BY Zenon DEF Ask, CloseOnly, Project, Close, AllAsked, Rebind
  <2> QED BY <2>1 DEF At, Idle
<1>2. \A pc : SameRun(s, To(w, pc))
  BY <1>1, Continues
<1>3. ASSUME s.verb = "resume"
      PROVE  /\ SameRun(s, Answered(w)) /\ SameRun(s, Stopped(w))
             /\ \A i, v : /\ SameRun(s, [s EXCEPT !.todo = @ \ {i}])
                          /\ SameRun(s, [To(w, "settle") EXCEPT !.todo = @ \ {i},
                                           !.cur = i, !.verdict = v])
  BY <1>1, <1>3, Continues
<1>4. \A c, status, receipt :
        /\ ReceiptEvent(w, c, status, receipt).at = s.at
        /\ ReceiptEvent(w, c, status, receipt).type \notin LeaseTypes
  BY DEF ReceiptEvent, LeaseTypes
<1>5. \A c, bound, replaces, tombs :
        /\ BindingEvent(w, c, bound, replaces, tombs).at = s.at
        /\ BindingEvent(w, c, bound, replaces, tombs).type \notin LeaseTypes
  BY DEF BindingEvent, LeaseTypes
<1>6. CASE Ask(w)
  <2>0. s.verb = "resume" /\ UNCHANGED led
    BY <1>6 DEF Ask, At
  <2>1. PICK item \in s.todo, verdict \in {"unknown", "succeeded", "failed"} :
          Become(w, IF verdict = "unknown"
                    THEN [worker[w] EXCEPT !.todo = @ \ {item}]
                    ELSE [To(w, "settle") EXCEPT !.todo = @ \ {item}, !.cur = item,
                                                 !.verdict = verdict])
    BY <1>6 DEF Ask
  <2> DEFINE new == IF verdict = "unknown"
                    THEN [worker[w] EXCEPT !.todo = @ \ {item}]
                    ELSE [To(w, "settle") EXCEPT !.todo = @ \ {item}, !.cur = item,
                                                 !.verdict = verdict]
  <2>2. SameRun(s, new)
    BY <1>3, <2>0
  <2>3. Become(w, new)
    BY <2>1
  <2> HIDE DEF new
  <2>4. OnItsWay(w, new)
    BY <1>1, <2>0, <2>2, <2>3 DEF OnItsWay
  <2> QED BY <2>4
<1>7. CASE CloseOnly(w)
  <2>1. /\ s.verb = "resume"
        /\ AppendOr(ReceiptEvent(w, CapOf(w), s.verdict, ItemOf(w)), w, Answered(w), Stopped(w))
    BY <1>7 DEF CloseOnly, At
  <2> QED BY <1>1, <1>3, <1>4, <2>1, AppendOn
<1>8. CASE Project(w)
  <2>1. /\ s.verb = "resume"
        /\ AppendOr(BindingEvent(w, CapOf(w), ProjectionOf(w), {},
                                 IF ItemOf(w).kind = "delete" THEN {TargetOf(w)} ELSE {}),
                    w, To(w, "conclude"), Stopped(w))
    BY <1>8 DEF Project, At
  <2> QED BY <1>1, <1>2, <1>3, <1>5, <2>1, AppendOn
<1>9. CASE Close(w)
  <2>1. /\ s.verb = "resume"
        /\ AppendOr(ReceiptEvent(w, CapOf(w), "succeeded", ItemOf(w)), w, Answered(w), Stopped(w))
    BY <1>9 DEF Close, At
  <2> QED BY <1>1, <1>3, <1>4, <2>1, AppendOn
<1>10. CASE AllAsked(w)
  <2>1. OnItsWay(w, To(w, "release"))
    BY <1>1, <1>2, <1>10 DEF OnItsWay, AllAsked
  <2> QED BY <2>1
<1>11. CASE Rebind(w)
  <2>1. PICK c \in s.caps :
          AppendOr(BindingEvent(w, c, s.to, {}, {}), w, To(w, "release"), To(w, "release"))
    BY <1>11 DEF Rebind
  <2> QED BY <1>1, <1>2, <1>5, <2>1, AppendOn
<1> QED BY <1>6, <1>7, <1>8, <1>9, <1>10, <1>11

(* The steps that move leases: another run's is over before one is granted, and *)
(* a run ends its own alone.                                                     *)
LEMMA LeaseGranted ==
  ASSUME ExecInv, ExecInv', HeldInv, NEW w \in Worker, TakeLease(w)
  PROVE  HeldInv'
<1> DEFINE e == LeaseEvent(w)
           m == Step(led, e, e.at)
           z == [token |-> 0]
           token == NewToken(led, worker[w].caps)
<1>1. worker[w] # Idle /\ worker[w].pc = "lease" /\ AppendOr(e, w, UnderLease(w), Idle)
  BY DEF TakeLease, Idle
<1>2. /\ LedTyped /\ worker[w].at \in Clocks /\ worker[w].caps \in CapSets
      /\ worker[w].caps \subseteq Cap
  BY <1>1, AtWork
<1>3. /\ e.type = "lease.acquired" /\ e.caps = worker[w].caps /\ e.at = worker[w].at
      /\ e.ttl = Ttl /\ z.token = 0
  BY DEF LeaseEvent
<1> HIDE DEF e, z
<1>4. CASE ~Admits(e) /\ UNCHANGED led /\ Become(w, Idle)
  BY <1>4, HeldOff
<1>5. CASE Admits(e) /\ led' = m /\ Become(w, UnderLease(w))
  <2>1. led.clock <= m.clock /\ m.clock = worker[w].at
    BY <1>2, <1>3, <1>5, ClockGrows
  <2>2. m.lease = [c \in Cap |-> IF c \in worker[w].caps
                                 THEN [token |-> token, expiry |-> worker[w].at + Ttl,
                                       ended |-> FALSE, seq |-> led.seq + 1]
                                 ELSE led.lease[c]]
    BY <1>3 DEF Step, LeaseAfter
  <2>3. \A c \in worker[w].caps : ~Active(led, c, worker[w].at)
    BY <1>3, <1>5 DEF Admits, Accepts
  <2> HIDE DEF m, token
  <2>4. Yields(z, led, m)
    BY <1>2, <2>1, <2>2, <2>3 DEF Yields
  <2>5. /\ led'.binding = led.binding /\ led'.decided = led.decided /\ token \in Nat
        /\ \A c \in worker[w].caps : led.maxToken[c] < token /\ led'.maxToken[c] = token
    BY <1>2, <1>3, <1>5, LeaseStep DEF m, token, e
  <2>6. token # 0
    <3>1. PICK c \in worker[w].caps : TRUE
      BY <1>2 DEF CapSets
    <3>2. led.maxToken[c] \in Nat
      BY <1>2, LedFields
    <3> QED BY <2>5, <3>2
  <2>7. UnderLease(w).token = token /\ UnderLease(w).caps = worker[w].caps
    BY <1>1, <2>5, <2>6, FreshGood DEF token
  <2>8. UnderLease(w).at = worker[w].at
    <3>1. worker[w] \in ApplyRecs \cup ResumeRecs \cup BindRecs
      BY <1>1, AtWork
    <3> QED BY <3>1 DEF UnderLease, Held, To, ApplyRecs, ResumeRecs, BindRecs
  <2>9. InForce(UnderLease(w), led')
    BY <1>2, <1>5, <2>2, <2>7, <2>8 DEF InForce, Mine
  <2> QED BY <1>3, <1>5, <2>4, <2>9, OneHolds
<1> QED BY <1>1, <1>4, <1>5 DEF AppendOr

LEMMA LeaseGivenUp ==
  ASSUME ExecInv, ExecInv', HeldInv, NEW w \in Worker, Release(w)
  PROVE  HeldInv' /\ Quiet(w)
<1> DEFINE e == MarkEvent(w, "lease.released")
           m == Step(led, e, e.at)
           s == worker[w]
<1>1. s # Idle /\ s.pc = "release" /\ AppendOr(e, w, Idle, Idle)
  BY DEF Release, Idle
<1>2. LedTyped /\ s.at \in Clocks /\ s.caps \subseteq Cap /\ s.token # 0
  BY <1>1, AtWork DEF Good
<1>3. e.type = "lease.released" /\ e.caps = s.caps /\ e.at = s.at
  BY DEF MarkEvent
<1> HIDE DEF e
<1>4. CASE ~Admits(e) /\ UNCHANGED led /\ Become(w, Idle)
  BY <1>4, HeldOff
<1>5. CASE Admits(e) /\ led' = m /\ Become(w, Idle)
  <2>1. led.clock <= m.clock
    BY <1>2, <1>3, <1>5, ClockGrows
  <2>2. \A c \in s.caps : Mine(s, led, c)
    BY <1>1, <1>3, <1>5, NotOutbid
  <2>3. \A c \in Cap : c \notin s.caps => m.lease[c] = led.lease[c]
    BY <1>2, <1>3, LedFields DEF Step, LeaseAfter
  <2> HIDE DEF m
  <2>4. Yields(s, led, m)
    BY <1>2, <2>1, <2>2, <2>3 DEF Yields
  <2>5. HeldInv'
    BY <1>1, <1>5, <2>4, OneHolds
  <2> QED BY <2>2, <2>5 DEF Quiet
<1> QED BY <1>1, <1>4, <1>5 DEF AppendOr

(* A run starts with no lease and leaves without a word. *)
LEMMA ComesAndGoes ==
  ASSUME ExecInv, ExecInv', HeldInv, NEW w \in Worker,
         StartApply(w) \/ StartResume(w) \/ StartAdopt(w) \/ StartUnadopt(w) \/ Crash(w)
  PROVE  HeldInv' /\ Quiet(w)
<1>1. ASSUME NEW new, StartRun(w, new), new.pc = "lease"
      PROVE  HeldInv' /\ Quiet(w)
  <2>1. Become(w, new) /\ UNCHANGED led
    BY <1>1 DEF StartRun
  <2> QED BY <1>1, <2>1, HeldOff
<1>2. CASE Crash(w)
  <2>1. Become(w, Idle) /\ UNCHANGED led
    BY <1>2 DEF Crash
  <2> QED BY <2>1, HeldOff
<1>3. CASE StartApply(w)
  <2>1. PICK new : StartRun(w, new) /\ new.pc = "lease"
    BY <1>3 DEF StartApply
  <2> QED BY <1>1, <2>1
<1>4. CASE StartResume(w)
  <2>1. PICK new : StartRun(w, new) /\ new.pc = "lease"
    BY <1>4 DEF StartResume
  <2> QED BY <1>1, <2>1
<1>5. CASE StartAdopt(w)
  <2>1. PICK new : StartRun(w, new) /\ new.pc = "lease"
    BY <1>5 DEF StartAdopt
  <2> QED BY <1>1, <2>1
<1>6. CASE StartUnadopt(w)
  <2>1. PICK new : StartRun(w, new) /\ new.pc = "lease"
    BY <1>6 DEF StartUnadopt
  <2> QED BY <1>1, <2>1
<1> QED BY <1>2, <1>3, <1>4, <1>5, <1>6

LEMMA RunHolds ==
  ASSUME ExecInv, ExecInv', HeldInv, NEW w \in Worker, RunStep(w)
  PROVE  HeldInv' /\ (worker[w] # Idle /\ worker[w].pc # "lease" => Quiet(w))
<1>1. CASE TakeLease(w)
  BY <1>1, LeaseGranted DEF TakeLease
<1>2. CASE Release(w)
  BY <1>2, LeaseGivenUp
<1>3. CASE \E new : OnItsWay(w, new)
  BY <1>3, HeldOn
<1> QED BY <1>1, <1>2, <1>3, ComesAndGoes, AppliesOn, ResumesOn DEF RunStep

(* A note of a lease-free writer moves the clock on, and no lease. *)
LEMMA NotesHold ==
  ASSUME ExecInv, ExecInv', HeldInv, Observe \/ Lose
  PROVE  HeldInv'
<1>1. LedTyped /\ led' \in LedRecs /\ UNCHANGED worker
  BY DEF ExecInv, LedTyped, Observe, Lose
<1>2. CASE Observe
  <2>1. PICK c \in Cap, at \in led.clock+1 .. MaxClock :
          led' = Step(led, [type |-> "observation.recorded", caps |-> {c}, at |-> at], at)
    BY <1>2 DEF Observe
  <2> DEFINE type == "observation.recorded"
             e == [type |-> type, caps |-> {c}, at |-> at]
  <2>2. /\ led.clock \in Int /\ at \in Int /\ led.clock < at /\ at \in Clocks
        /\ type \in {"ownership.claimed", "observation.recorded"}
    BY <1>1, LedFields, ExecutorAssumption DEF Clocks, ExecutorAssumption
  <2>3. led' = Step(led, e, at) /\ e.at = at
    BY <2>1
  <2>4. led'.clock = at
    BY <2>2, <2>3 DEF Step
  <2>5. led'.lease = led.lease
    <3> HIDE DEF type
    <3> QED BY <1>1, <2>2, <2>3, NoteStep
  <2>6. ASSUME NEW w \in Worker, worker[w] # Idle
        PROVE  InForce(worker[w], led')
    <3>1. worker[w].at \in Int
      BY <2>6, AtWork, ExecutorAssumption DEF Clocks, ExecutorAssumption
    <3>2. InForce(worker[w], led)
      BY <2>6 DEF HeldInv
    <3> QED BY <2>2, <2>4, <2>5, <3>1, <3>2 DEF InForce, Mine
  <2> QED BY <1>1, <2>6 DEF HeldInv
<1>3. CASE Lose
  BY <1>1, <1>3 DEF Lose, HeldInv, InForce, Mine
<1> QED BY <1>2, <1>3

LEMMA HeldNext == ExecInv /\ HeldInv /\ [Next]_vars => HeldInv'
<1> SUFFICES ASSUME ExecInv, HeldInv, [Next]_vars PROVE HeldInv'
  OBVIOUS
<1>1. ExecInv'
  BY ExecNext
<1>2. CASE UNCHANGED vars
  BY <1>2 DEF vars, HeldInv, InForce, Mine
<1> QED BY <1>1, <1>2, RunHolds, NotesHold DEF Next

(* A run whose lease another has taken over is silent: it appends no receipt and   *)
(* no stamp either, whose rules ask for no lease, for any number of processes and *)
(* any clocks. The clock of a run is that of its start, and a lease is granted     *)
(* over a capability only at or past the end of the one before; so an append of    *)
(* the run that was outbid would go behind history, and is refused.                *)
THEOREM OutbidIsSilent == Spec => SilentWhenOutbid
<1>1. Init => HeldInv
  BY DEF Init, HeldInv
<1>2. Spec => []HeldInv
  BY <1>1, HeldNext, ExecutorHolds, PTL DEF Spec
<1>3. ASSUME ExecInv, ExecInv', HeldInv, [Next]_vars, NEW w \in Worker, worker[w] # Idle,
             worker[w].pc # "lease", worker'[w] # worker[w], led' # led, NEW c \in worker[w].caps
      PROVE  ~led.lease[c].ended /\ led.lease[c].token = worker[w].token
  <2>1. PICK v \in Worker : RunStep(v)
    <3>1. worker' # worker
      BY <1>3
    <3> QED BY <1>3, <3>1 DEF Next, Observe, Lose, vars
  <2>2. \E new : Become(v, new)
    BY <2>1, RunBecomes
  <2>3. v = w
    BY <1>3, <2>2 DEF Become, ExecInv
  <2>4. Quiet(w)
    BY <1>3, <2>1, <2>3, RunHolds
  <2> QED BY <1>3, <2>4 DEF Quiet, Mine
<1>4. ExecInv /\ ExecInv' /\ HeldInv /\ [Next]_vars =>
        [\A w \in Worker :
           worker[w] # Idle /\ worker[w].pc # "lease" /\ worker'[w] # worker[w] /\ led' # led =>
             \A c \in worker[w].caps :
               ~led.lease[c].ended /\ led.lease[c].token = worker[w].token]_vars
  BY <1>3
<1> QED BY <1>2, <1>4, ExecutorHolds, PTL DEF Spec, SilentWhenOutbid

----------------------------------------------------------------------------
(* What the events do to the part of the fold that speaks of the world. *)

SameFold(l, m) ==
  /\ m.binding = l.binding /\ m.pending = l.pending /\ m.claimed = l.claimed
  /\ m.replaced = l.replaced /\ m.tombstoned = l.tombstoned

QuietTypes == {"lease.acquired", "lease.released", "apply.started", "apply.finished",
               "apply.failed", "observation.recorded"}

LEMMA QuietEffect ==
  ASSUME LedTyped, NEW e, e.type \in QuietTypes, NEW now
  PROVE  SameFold(led, Step(led, e, now))
<1>1. BindingAfter(led, e) = led.binding /\ PendingAfter(led, e) = led.pending
  BY LedFields DEF BindingAfter, PendingAfter, QuietTypes
<1>2. ReplacedAfter(led, e) = led.replaced /\ TombstonedAfter(led, e) = led.tombstoned
  BY LedFields DEF ReplacedAfter, TombstonedAfter, QuietTypes
<1>3. ClaimedAfter(led, e) = led.claimed
  BY DEF ClaimedAfter, QuietTypes
<1> QED BY <1>1, <1>2, <1>3 DEF Step, SameFold

(* What a receipt leaves open for its capability. *)
Receipted(open, status, receipt) ==
  {r \in open : r.op # receipt.op} \cup IF status \in PendingStatuses THEN {receipt} ELSE {}

LEMMA ReceiptEffect ==
  ASSUME LedTyped, NEW w \in Worker, NEW c \in Cap, NEW status, NEW receipt, NEW now
  PROVE  LET m == Step(led, ReceiptEvent(w, c, status, receipt), now) IN
         /\ m.binding = led.binding /\ m.claimed = led.claimed
         /\ m.replaced = led.replaced /\ m.tombstoned = led.tombstoned
         /\ m.pending[c] = Receipted(led.pending[c], status, receipt)
         /\ \A d \in Cap \ {c} : m.pending[d] = led.pending[d]
<1> DEFINE e == ReceiptEvent(w, c, status, receipt)
<1>1. /\ e.type = "operation.receipt" /\ e.caps = {c} /\ e.status = status
      /\ e.receipt = receipt
  BY DEF ReceiptEvent
<1> HIDE DEF e
<1>2. BindingAfter(led, e) = led.binding /\ ReplacedAfter(led, e) = led.replaced
      /\ TombstonedAfter(led, e) = led.tombstoned
  BY <1>1, LedFields DEF BindingAfter, ReplacedAfter, TombstonedAfter
<1>3. ClaimedAfter(led, e) = led.claimed
  BY <1>1 DEF ClaimedAfter
<1>4. /\ PendingAfter(led, e)[c] = Receipted(led.pending[c], status, receipt)
      /\ \A d \in Cap \ {c} : PendingAfter(led, e)[d] = led.pending[d]
  BY <1>1 DEF PendingAfter, Receipted
<1>5. LET m == Step(led, e, now) IN
      /\ m.binding = led.binding /\ m.claimed = led.claimed
      /\ m.replaced = led.replaced /\ m.tombstoned = led.tombstoned
      /\ m.pending = PendingAfter(led, e)
  BY <1>2, <1>3 DEF Step
<1> QED BY <1>4, <1>5 DEF e

LEMMA BindEffect ==
  ASSUME LedTyped, NEW w \in Worker, NEW c \in Cap, NEW bound, NEW replaces, NEW tombs, NEW now
  PROVE  LET m == Step(led, BindingEvent(w, c, bound, replaces, tombs), now) IN
         /\ m.binding[c] = bound /\ \A d \in Cap \ {c} : m.binding[d] = led.binding[d]
         /\ m.pending = led.pending
         /\ m.replaced[c] = led.replaced[c] \cup replaces
         /\ \A d \in Cap \ {c} : m.replaced[d] = led.replaced[d]
         /\ m.tombstoned[c] = led.tombstoned[c] \cup tombs
         /\ \A d \in Cap \ {c} : m.tombstoned[d] = led.tombstoned[d]
         /\ m.claimed = IF bound.id = NoRes THEN led.claimed \ {c} ELSE led.claimed
<1> DEFINE e == BindingEvent(w, c, bound, replaces, tombs)
<1>1. /\ e.type = "binding.updated" /\ e.caps = {c} /\ e.bound = bound
      /\ e.replaces = replaces /\ e.tombs = tombs
  BY DEF BindingEvent
<1> HIDE DEF e
<1>2. BindingAfter(led, e)[c] = bound /\ \A d \in Cap \ {c} : BindingAfter(led, e)[d] = led.binding[d]
  BY <1>1 DEF BindingAfter
<1>3. PendingAfter(led, e) = led.pending
  BY <1>1, LedFields DEF PendingAfter
<1>4. /\ ReplacedAfter(led, e)[c] = led.replaced[c] \cup replaces
      /\ \A d \in Cap \ {c} : ReplacedAfter(led, e)[d] = led.replaced[d]
  BY <1>1 DEF ReplacedAfter
<1>5. /\ TombstonedAfter(led, e)[c] = led.tombstoned[c] \cup tombs
      /\ \A d \in Cap \ {c} : TombstonedAfter(led, e)[d] = led.tombstoned[d]
  BY <1>1 DEF TombstonedAfter
<1>6. ClaimedAfter(led, e) = IF bound.id = NoRes THEN led.claimed \ {c} ELSE led.claimed
  BY <1>1 DEF ClaimedAfter
<1>7. LET m == Step(led, e, now) IN
      /\ m.binding = BindingAfter(led, e) /\ m.pending = PendingAfter(led, e)
      /\ m.replaced = ReplacedAfter(led, e) /\ m.tombstoned = TombstonedAfter(led, e)
      /\ m.claimed = ClaimedAfter(led, e)
  BY DEF Step
<1> QED BY <1>2, <1>3, <1>4, <1>5, <1>6, <1>7 DEF e

LEMMA ClaimEffect ==
  ASSUME LedTyped, NEW c \in Cap, NEW at, NEW now
  PROVE  LET m == Step(led, [type |-> "ownership.claimed", caps |-> {c}, at |-> at], now) IN
         /\ m.binding = led.binding /\ m.pending = led.pending
         /\ m.replaced = led.replaced /\ m.tombstoned = led.tombstoned
         /\ m.claimed = led.claimed \cup {c}
<1> DEFINE e == [type |-> "ownership.claimed", caps |-> {c}, at |-> at]
<1>1. e.type = "ownership.claimed" /\ e.caps = {c}
  OBVIOUS
<1> HIDE DEF e
<1>2. BindingAfter(led, e) = led.binding /\ PendingAfter(led, e) = led.pending
  BY <1>1, LedFields DEF BindingAfter, PendingAfter
<1>3. ReplacedAfter(led, e) = led.replaced /\ TombstonedAfter(led, e) = led.tombstoned
  BY <1>1, LedFields DEF ReplacedAfter, TombstonedAfter
<1>4. ClaimedAfter(led, e) = led.claimed \cup {c}
  BY <1>1 DEF ClaimedAfter
<1>5. LET m == Step(led, e, now) IN
      /\ m.binding = led.binding /\ m.pending = led.pending
      /\ m.replaced = led.replaced /\ m.tombstoned = led.tombstoned
      /\ m.claimed = led.claimed \cup {c}
  BY <1>2, <1>3, <1>4 DEF Step
<1> QED BY <1>5 DEF e

(* A binding on the ledger, and nothing else. *)
Rebinding(l, m, c, bound, replaces) ==
  /\ m.binding[c] = bound /\ \A d \in Cap \ {c} : m.binding[d] = l.binding[d]
  /\ m.pending = l.pending
  /\ m.replaced[c] = l.replaced[c] \cup replaces
  /\ \A d \in Cap \ {c} : m.replaced[d] = l.replaced[d]
  /\ m.claimed = IF bound.id = NoRes THEN l.claimed \ {c} ELSE l.claimed

LEMMA BindingWrites ==
  ASSUME LedTyped, NEW w \in Worker, NEW c \in Cap, NEW bound, NEW replaces, NEW tombs, NEW now
  PROVE  Rebinding(led, Step(led, BindingEvent(w, c, bound, replaces, tombs), now), c, bound, replaces)
<1> DEFINE m == Step(led, BindingEvent(w, c, bound, replaces, tombs), now)
<1>1. /\ m.binding[c] = bound /\ \A d \in Cap \ {c} : m.binding[d] = led.binding[d]
      /\ m.pending = led.pending
      /\ m.replaced[c] = led.replaced[c] \cup replaces
      /\ \A d \in Cap \ {c} : m.replaced[d] = led.replaced[d]
      /\ m.claimed = IF bound.id = NoRes THEN led.claimed \ {c} ELSE led.claimed
  BY BindEffect
<1> HIDE DEF m
<1>2. Rebinding(led, m, c, bound, replaces)
  BY <1>1 DEF Rebinding
<1> QED BY <1>2 DEF m

----------------------------------------------------------------------------
(* Generations: with runs of several processes, none of which retires or adopts. *)

(* Nothing bound is ever destroyed, or adopted, so nothing bound is created again. *)
Undisturbed ==
  /\ ~Vanish /\ ~TagScan
  /\ "retired" \notin Goals /\ "adopt" \notin Verbs /\ "unadopt" \notin Verbs

(* The binding of c has come to the name j, or beyond. *)
Reached(l, c, j) == \E k \in Nat : l.binding[c].id = OwnId(c, k) /\ j <= k

(* No open create is after what c is bound to. *)
Clear(l, c) ==
  \A r \in l.pending[c] : r.kind = "create" => Sought(c, r) # l.binding[c].id

(* A binding is a name, its resource is there, and its generation is at least the *)
(* name's.                                                                         *)
Named(l, al) ==
  \A c \in Cap :
    /\ ~l.binding[c].adopted
    /\ l.binding[c].id # NoRes =>
         /\ l.binding[c].id \in al
         /\ \E k \in 1..l.binding[c].gen : l.binding[c].id = OwnId(c, k)
    /\ \A id \in l.replaced[c] : \E j \in Nat : id = OwnId(c, j) /\ Reached(l, c, j + 1)

(* An intent, or a receipt that a resume read: a create is after the name its       *)
(* operation tells, a delete after a name left behind, an update after one left     *)
(* behind or after the bound one, and then no create is after that.                 *)
Safe(c, r, l) ==
  /\ r.kind # "claim"
  /\ r.kind = "create" <=> \E g \in Nat : r.op = <<c, "create", g>>
  /\ r.kind = "create" => /\ \A g \in Nat : r.op = <<c, "create", g>> => r.gen = AtLeastOne(g)
                          /\ Sought(c, r) = OwnId(c, r.gen)
  /\ r.kind \in {"update", "delete"} =>
       \E j \in Nat : /\ r.target = OwnId(c, j)
                      /\ \/ Reached(l, c, j + 1)
                         \/ r.kind = "update" /\ l.binding[c].id = r.target /\ Clear(l, c)

(* A create that would find its name bound would not take its generation back. *)
Forward(c, r, l) ==
  r.kind = "create" /\ Sought(c, r) = l.binding[c].id => l.binding[c].gen <= r.gen

Intents(l) == \A c \in Cap : \A r \in l.pending[c] : Safe(c, r, l) /\ Forward(c, r, l)

(* What is planned for a capability leads past its binding. *)
Leads(s, l) ==
  /\ \A c \in s.caps : s.bound[c] = NoRes \/ \E k \in Nat : s.bound[c] = OwnId(c, k)
  /\ \A a \in s.plan :
       /\ a.op # "claim"
       /\ a.op = "create" =>
            /\ a.id = OwnId(a.cap, AtLeastOne(a.gen)) /\ a.old = s.bound[a.cap] /\ ~a.deposed
            /\ a.gen = 0 => a.old = NoRes
            /\ \A j \in Nat : a.old = OwnId(a.cap, j) => j < AtLeastOne(a.gen)
       /\ a.op # "create" => a.old = NoRes
       /\ a.op = "update" => a.gen = 0
       /\ a.op = "delete" =>
            \E j \in Nat :
              /\ a.id = OwnId(a.cap, j)
              /\ \/ Reached(l, a.cap, j + 1)
                 \/ \E b \in s.plan : b.op = "create" /\ b.cap = a.cap /\ j < AtLeastOne(b.gen)

(* The creates that succeeded were reached, a delete in hand is behind, what was     *)
(* just created is there unless it was left behind since.                            *)
Leaves(s, l, al) ==
  /\ \A b \in s.plan \ (Left(s) \cup s.failed) :
       b.op = "create" => Reached(l, b.cap, AtLeastOne(b.gen))
  /\ s.pc \in {"call", "settle", "conclude"} /\ s.cur.op = "delete" =>
       \E j \in Nat : s.cur.id = OwnId(s.cur.cap, j) /\ Reached(l, s.cur.cap, j + 1)
  /\ s.pc = "settle" /\ s.cur.op = "create" /\ s.reply.status = "succeeded" =>
       s.cur.id \in al \/ Reached(l, s.cur.cap, AtLeastOne(s.cur.gen) + 1)

(* An update was planned with nothing open, and nothing is open under its lease. *)
Undoubted(s, l) ==
  /\ s.pc = "lease" => \A c \in s.caps : l.decided[c] = s.pins[c] => Clear(l, c)
  /\ s.pc \in Working /\ ~(s.at < l.clock) =>
       \A a \in Left(s) : a.op = "update" => Clear(l, a.cap)

(* What a resume still has to ask or to settle. *)
Hand(s) == s.todo \cup IF s.pc \in {"settle", "conclude"} THEN {s.cur} ELSE {}

Concludes(s, l, al) ==
  /\ \A i \in Hand(s) : Safe(i.cap, i.receipt, l)
  /\ s.pc # "lease" /\ ~(s.at < l.clock) =>
       \A i \in Hand(s) : Forward(i.cap, i.receipt, l)
  /\ \A u, q \in Hand(s) :
       u.cap = q.cap /\ u.receipt.kind = "update" /\ q.receipt.kind = "create" =>
         \/ Sought(q.cap, q.receipt) # u.receipt.target
         \/ \E j \in Nat : u.receipt.target = OwnId(u.cap, j) /\ Reached(l, u.cap, j + 1)
  /\ s.pc = "settle" /\ s.verdict = "succeeded" /\ s.cur.receipt.kind = "create" =>
       Sought(s.cur.cap, s.cur.receipt) \in al \/ Reached(l, s.cur.cap, s.cur.receipt.gen + 1)

Moves(s, l, al) ==
  /\ s.verb \in {"apply", "resume"}
  /\ s.verb = "apply" /\ s.pc # "release" =>
       Leads(s, l) /\ Leaves(s, l, al) /\ Undoubted(s, l)
  /\ s.verb = "resume" /\ s.pc # "release" => Concludes(s, l, al)

GenInv ==
  /\ Named(led, alive) /\ Intents(led)
  /\ \A w \in Worker : worker[w] # Idle => Moves(worker[w], led, alive)

----------------------------------------------------------------------------
(* How the ledger goes on. *)

LEMMA NamesApart ==
  ASSUME NEW c \in Cap, NEW j \in Nat
  PROVE  /\ OwnId(c, j) # NoRes /\ OwnId(c, j) \in Ids
         /\ \A k \in Nat : OwnId(c, j) = OwnId(c, k) => j = k
<1>1. OwnId(c, j) \in Cap \X Nat
  BY DEF OwnId
<1> QED BY <1>1, ExecutorAssumption DEF ExecutorAssumption, Ids, OwnId

(* One step of a process s, or of nobody: clock and heads grow, a binding is       *)
(* written under the lease of s, and goes on to a later name or keeps its own, its  *)
(* generation and what it was spared.                                              *)
Rises(s, l, m) ==
  /\ l.clock <= m.clock
  /\ \A c \in Cap :
       /\ l.decided[c] <= m.decided[c]
       /\ m.binding[c] # l.binding[c] => s.token # 0 /\ c \in s.caps /\ Mine(s, l, c)
       /\ \/ /\ m.binding[c].id = l.binding[c].id /\ l.binding[c].gen <= m.binding[c].gen
             /\ Clear(l, c) => Clear(m, c)
          \/ \E k \in Nat : /\ m.binding[c].id = OwnId(c, k)
                            /\ \A j \in Nat : l.binding[c].id = OwnId(c, j) => j < k

LEMMA ReachedKept ==
  ASSUME NEW s, NEW l, NEW m, Rises(s, l, m), NEW c \in Cap, NEW j \in Nat, Reached(l, c, j)
  PROVE  Reached(m, c, j)
<1>1. PICK i \in Nat : l.binding[c].id = OwnId(c, i) /\ j <= i
  BY DEF Reached
<1>2. CASE m.binding[c].id = l.binding[c].id
  BY <1>1, <1>2 DEF Reached
<1>3. ASSUME NEW k \in Nat, m.binding[c].id = OwnId(c, k), i < k
      PROVE  Reached(m, c, j)
  <2>1. j <= k
    BY <1>1, <1>3
  <2> QED BY <1>3, <2>1 DEF Reached
<1> QED BY <1>1, <1>2, <1>3 DEF Rises

LEMMA SafeKept ==
  ASSUME NEW s, NEW l, NEW m, Rises(s, l, m), NEW c \in Cap, NEW r, Safe(c, r, l)
  PROVE  Safe(c, r, m)
<1>1. ASSUME r.kind \in {"update", "delete"}
      PROVE  \E j \in Nat : /\ r.target = OwnId(c, j)
                            /\ \/ Reached(m, c, j + 1)
                               \/ r.kind = "update" /\ m.binding[c].id = r.target /\ Clear(m, c)
  <2>1. PICK j \in Nat : /\ r.target = OwnId(c, j)
                         /\ \/ Reached(l, c, j + 1)
                            \/ r.kind = "update" /\ l.binding[c].id = r.target /\ Clear(l, c)
    BY <1>1 DEF Safe
  <2>2. CASE Reached(l, c, j + 1)
    <3>1. j + 1 \in Nat
      OBVIOUS
    <3> QED BY <2>1, <2>2, <3>1, ReachedKept
  <2>3. CASE r.kind = "update" /\ l.binding[c].id = r.target /\ Clear(l, c)
    <3>1. CASE m.binding[c].id = l.binding[c].id /\ (Clear(l, c) => Clear(m, c))
      BY <2>1, <2>3, <3>1
    <3>2. ASSUME NEW k \in Nat, m.binding[c].id = OwnId(c, k), j < k
          PROVE  Reached(m, c, j + 1)
      BY <3>2 DEF Reached
    <3> QED BY <2>1, <2>3, <3>1, <3>2 DEF Rises
  <2> QED BY <2>1, <2>2, <2>3
<1>2. /\ r.kind # "claim"
      /\ r.kind = "create" <=> \E g \in Nat : r.op = <<c, "create", g>>
      /\ r.kind = "create" => /\ \A g \in Nat : r.op = <<c, "create", g>> => r.gen = AtLeastOne(g)
                              /\ Sought(c, r) = OwnId(c, r.gen)
  BY DEF Safe
<1> QED BY <1>1, <1>2 DEF Safe

(* Only what was left behind is destroyed. *)
Spares(m, al, am) ==
  \A c \in Cap, k \in Nat : OwnId(c, k) \in al /\ OwnId(c, k) \notin am => Reached(m, c, k + 1)

----------------------------------------------------------------------------
(* The others keep what they had. *)

(* A run whose lease is in force still finds the binding of its plan. *)
LEMMA StillPlanned ==
  ASSUME ~TagScan, NEW s \in ApplyRecs, NEW l, Good(s, l), InForce(s, l), s.verb = "apply",
         s.pc \in Working, ~(s.at < l.clock), NEW a \in Left(s), a.op \in {"create", "update"}
  PROVE  l.binding[a.cap].id = s.bound[a.cap]
<1>1. PlanShape(s) /\ Progress(s) /\ Kept(s, l)
  BY DEF Good
<1>2. a \in s.plan
  BY <1>1 DEF Left, Progress
<1>3. a.cap \in s.caps
  BY <1>1, <1>2 DEF PlanShape
<1>4. KeptBound(s, l, a.cap)
  BY <1>1, <1>3 DEF Kept, InForce, Working
<1>5. ASSUME NEW b \in s.plan \ Left(s), b.op = "create", b.cap = a.cap PROVE FALSE
  BY <1>1, <1>2, <1>5 DEF PlanShape
<1> QED BY <1>4, <1>5 DEF KeptBound

LEMMA LeadsKept ==
  ASSUME NEW s, NEW l, NEW m, Rises(s, l, m), NEW t, PlanShape(t), t.caps \subseteq Cap,
         Leads(t, l)
  PROVE  Leads(t, m)
<1>1. ASSUME NEW a \in t.plan, a.op = "delete"
      PROVE  \E j \in Nat :
               /\ a.id = OwnId(a.cap, j)
               /\ \/ Reached(m, a.cap, j + 1)
                  \/ \E b \in t.plan : b.op = "create" /\ b.cap = a.cap /\ j < AtLeastOne(b.gen)
  <2>1. PICK j \in Nat :
               /\ a.id = OwnId(a.cap, j)
               /\ \/ Reached(l, a.cap, j + 1)
                  \/ \E b \in t.plan : b.op = "create" /\ b.cap = a.cap /\ j < AtLeastOne(b.gen)
    BY <1>1 DEF Leads
  <2>2. a.cap \in Cap /\ j + 1 \in Nat
    BY DEF PlanShape
  <2>3. Reached(l, a.cap, j + 1) => Reached(m, a.cap, j + 1)
    BY <2>2, ReachedKept
  <2> QED BY <2>1, <2>3
<1> QED BY <1>1 DEF Leads

LEMMA GenTyped ==
  ASSUME NEW a \in Actions
  PROVE  AtLeastOne(a.gen) \in Nat /\ AtLeastOne(a.gen) + 1 \in Nat /\ AtLeastOne(a.gen) >= 1
  BY DEF Actions, AtLeastOne

LEMMA LeavesKept ==
  ASSUME NEW s, NEW l, NEW m, Rises(s, l, m), NEW al, NEW am, Spares(m, al, am),
         NEW t \in ApplyRecs, PlanShape(t), Progress(t), Leads(t, l), Leaves(t, l, al)
  PROVE  Leaves(t, m, am)
<1>1. \A a \in t.plan : a \in Actions /\ a.cap \in Cap
  BY DEF ApplyRecs, Actions
<1>2. ASSUME NEW b \in t.plan \ (Left(t) \cup t.failed), b.op = "create"
      PROVE  Reached(m, b.cap, AtLeastOne(b.gen))
  <2>1. Reached(l, b.cap, AtLeastOne(b.gen))
    BY <1>2 DEF Leaves
  <2> QED BY <1>1, <2>1, GenTyped, ReachedKept
<1>3. ASSUME t.pc \in {"call", "settle", "conclude"}, t.cur.op = "delete"
      PROVE  \E j \in Nat : t.cur.id = OwnId(t.cur.cap, j) /\ Reached(m, t.cur.cap, j + 1)
  <2>1. PICK j \in Nat : t.cur.id = OwnId(t.cur.cap, j) /\ Reached(l, t.cur.cap, j + 1)
    BY <1>3 DEF Leaves
  <2>2. t.cur.cap \in Cap /\ j + 1 \in Nat
    BY <1>1, <1>3 DEF Progress
  <2> QED BY <2>1, <2>2, ReachedKept
<1>4. ASSUME t.pc = "settle", t.cur.op = "create", t.reply.status = "succeeded"
      PROVE  t.cur.id \in am \/ Reached(m, t.cur.cap, AtLeastOne(t.cur.gen) + 1)
  <2> DEFINE a == t.cur
             g == AtLeastOne(a.gen)
  <2>1. a \in t.plan
    BY <1>4 DEF Progress
  <2>2. a \in Actions /\ a.cap \in Cap /\ g \in Nat /\ g + 1 \in Nat /\ a.id = OwnId(a.cap, g)
    BY <1>1, <1>4, <2>1, GenTyped DEF Leads
  <2>3. a.id \in al \/ Reached(l, a.cap, g + 1)
    BY <1>4 DEF Leaves
  <2> HIDE DEF a, g
  <2>4. ASSUME a.id \in al PROVE a.id \in am \/ Reached(m, a.cap, g + 1)
    BY <2>2, <2>4 DEF Spares
  <2>5. ASSUME Reached(l, a.cap, g + 1) PROVE Reached(m, a.cap, g + 1)
    BY <2>2, <2>5, ReachedKept
  <2>6. a.id \in am \/ Reached(m, a.cap, g + 1)
    BY <2>3, <2>4, <2>5
  <2> QED BY <2>6 DEF a, g
<1> QED BY <1>2, <1>3, <1>4 DEF Leaves

LEMMA UndoubtedKept ==
  ASSUME ~TagScan, NEW s, NEW l \in LedRecs, NEW m \in LedRecs, Rises(s, l, m),
         NEW t \in ApplyRecs, t.verb = "apply", Good(t, l), Good(t, m),
         InForce(t, l), InForce(t, m), Undoubted(t, l)
  PROVE  Undoubted(t, m)
<1>1. /\ PlanShape(t) /\ Pinned(t, l) /\ Pinned(t, m) /\ t.caps \subseteq Cap
      /\ t.at \in Clocks
  BY DEF Good, ApplyRecs, CapSets
<1>2. ASSUME NEW c \in Cap, m.binding[c].id = l.binding[c].id, Clear(l, c)
      PROVE  Clear(m, c)
  <2>1. ASSUME NEW k \in Nat, m.binding[c].id = OwnId(c, k),
               \A j \in Nat : l.binding[c].id = OwnId(c, j) => j < k
        PROVE  FALSE
    BY <1>2, <2>1
  <2> QED BY <1>2, <2>1 DEF Rises
<1>3. ASSUME t.pc = "lease", NEW c \in t.caps, m.decided[c] = t.pins[c]
      PROVE  Clear(m, c)
  <2>1. c \in Cap /\ l.decided[c] \in Nat /\ m.decided[c] \in Nat /\ t.pins[c] \in Nat
    BY <1>1 DEF LedRecs, PlanShape
  <2>2. t.pins[c] <= l.decided[c] /\ l.decided[c] <= m.decided[c]
    BY <1>1, <1>3, <2>1 DEF Pinned, Rises
  <2>3. l.decided[c] = t.pins[c]
    BY <1>3, <2>1, <2>2
  <2>4. l.binding[c].id = t.bound[c] /\ m.binding[c].id = t.bound[c]
    BY <1>1, <1>3, <2>3 DEF Pinned
  <2> QED BY <1>2, <1>3, <2>1, <2>3, <2>4 DEF Undoubted
<1>4. ASSUME t.pc \in Working, ~(t.at < m.clock), NEW a \in Left(t), a.op = "update"
      PROVE  Clear(m, a.cap)
  <2>1. /\ l.clock \in Int /\ m.clock \in Int /\ t.at \in Int /\ l.clock <= m.clock
    BY <1>1, ExecutorAssumption DEF LedRecs, Rises, Clocks, ExecutorAssumption
  <2>2. ~(t.at < l.clock)
    BY <1>4, <2>1
  <2>3. l.binding[a.cap].id = t.bound[a.cap] /\ m.binding[a.cap].id = t.bound[a.cap]
    BY <1>4, <2>2, StillPlanned
  <2>4. a.cap \in Cap
    BY <1>1, <1>4 DEF Left, Good, Progress, PlanShape
  <2> QED BY <1>2, <1>4, <2>2, <2>3, <2>4 DEF Undoubted
<1> QED BY <1>3, <1>4 DEF Undoubted

LEMMA HandOf ==
  ASSUME NEW s \in ResumeRecs, ItemsOK(s), NEW i \in Hand(s)
  PROVE  /\ i \in Items /\ i.cap \in Cap /\ i.cap \in s.caps /\ i.receipt \in Receipts
         /\ i.receipt.kind # "claim" /\ i.receipt.gen \in Nat
<1>1. s.todo \subseteq Items /\ s.caps \subseteq Cap
  BY DEF ResumeRecs, CapSets
<1>2. i \in Items /\ i.cap \in s.caps /\ i.receipt.kind # "claim"
  BY <1>1 DEF Hand, ItemsOK
<1> QED BY <1>1, <1>2 DEF Items, Receipts

LEMMA ConcludesKept ==
  ASSUME NEW s, NEW l \in LedRecs, NEW m \in LedRecs, Rises(s, l, m),
         NEW al, NEW am, Spares(m, al, am),
         NEW t \in ResumeRecs, ItemsOK(t), t.token = 0 <=> t.pc = "lease",
         InForce(t, l), s.token # 0 => Apart(t, s), Concludes(t, l, al)
  PROVE  Concludes(t, m, am)
<1>1. \A i \in Hand(t) : i.cap \in Cap /\ i.cap \in t.caps /\ i.receipt.gen \in Nat
  BY HandOf
<1>2. \A i \in Hand(t) : Safe(i.cap, i.receipt, m)
  BY <1>1, SafeKept DEF Concludes
<1>3. ASSUME t.pc # "lease", ~(t.at < m.clock), NEW i \in Hand(t)
      PROVE  Forward(i.cap, i.receipt, m)
  <2>1. /\ l.clock \in Int /\ m.clock \in Int /\ t.at \in Int /\ l.clock <= m.clock
    BY ExecutorAssumption DEF LedRecs, Rises, Clocks, ResumeRecs, ExecutorAssumption
  <2>2. ~(t.at < l.clock)
    BY <1>3, <2>1
  <2>3. Mine(t, l, i.cap)
    BY <1>1, <1>3, <2>2 DEF InForce
  <2>4. m.binding[i.cap] = l.binding[i.cap]
    BY <1>1, <1>3, <2>3 DEF Rises, Mine, Apart
  <2>5. Forward(i.cap, i.receipt, l)
    BY <1>3, <2>2 DEF Concludes
  <2> QED BY <2>4, <2>5 DEF Forward
<1>4. ASSUME NEW u \in Hand(t), NEW q \in Hand(t),
             u.cap = q.cap, u.receipt.kind = "update", q.receipt.kind = "create"
      PROVE  \/ Sought(q.cap, q.receipt) # u.receipt.target
             \/ \E j \in Nat : u.receipt.target = OwnId(u.cap, j) /\ Reached(m, u.cap, j + 1)
  <2>1. ASSUME NEW j \in Nat, Reached(l, u.cap, j + 1) PROVE Reached(m, u.cap, j + 1)
    <3>1. j + 1 \in Nat
      OBVIOUS
    <3> QED BY <1>1, <2>1, <3>1, ReachedKept
  <2> QED BY <1>4, <2>1 DEF Concludes
<1>5. ASSUME t.pc = "settle", t.verdict = "succeeded", t.cur.receipt.kind = "create"
      PROVE  Sought(t.cur.cap, t.cur.receipt) \in am \/ Reached(m, t.cur.cap, t.cur.receipt.gen + 1)
  <2> DEFINE c == t.cur.cap
             r == t.cur.receipt
  <2>1. t.cur \in Hand(t)
    BY <1>5 DEF Hand
  <2>2. c \in Cap /\ r.gen \in Nat /\ r.gen + 1 \in Nat
    BY <1>1, <2>1
  <2>3. Sought(c, r) = OwnId(c, r.gen)
    BY <1>5, <2>1 DEF Concludes, Safe
  <2>4. Sought(c, r) \in al \/ Reached(l, c, r.gen + 1)
    BY <1>5 DEF Concludes
  <2> HIDE DEF c, r
  <2>5. Sought(c, r) \in am \/ Reached(m, c, r.gen + 1)
    <3>1. ASSUME Sought(c, r) \in al PROVE Sought(c, r) \in am \/ Reached(m, c, r.gen + 1)
      BY <2>2, <2>3, <3>1 DEF Spares
    <3>2. ASSUME Reached(l, c, r.gen + 1) PROVE Reached(m, c, r.gen + 1)
      BY <2>2, <3>2, ReachedKept
    <3> QED BY <2>4, <3>1, <3>2
  <2> QED BY <2>5 DEF c, r
<1> QED BY <1>2, <1>3, <1>4, <1>5 DEF Concludes

(* All that holds of a process beside the ledger and the world. *)
LEMMA MovesKept ==
  ASSUME ~TagScan, NEW s, NEW l \in LedRecs, NEW m \in LedRecs, Rises(s, l, m),
         NEW al, NEW am, Spares(m, al, am),
         NEW t, Good(t, l), Good(t, m), InForce(t, l), InForce(t, m),
         s.token # 0 => Apart(t, s), Moves(t, l, al)
  PROVE  Moves(t, m, am)
<1>1. /\ t \in ApplyRecs \cup ResumeRecs \cup BindRecs
      /\ t.token = 0 <=> t.pc = "lease"
      /\ t.verb = "apply" => PlanShape(t) /\ Progress(t)
      /\ t.verb = "resume" => ItemsOK(t)
  BY DEF Good
<1>2. ASSUME t.verb = "apply", t.pc # "release"
      PROVE  Leads(t, m) /\ Leaves(t, m, am) /\ Undoubted(t, m)
  <2>1. t \in ApplyRecs /\ t.caps \subseteq Cap
    BY <1>1, <1>2, ByVerb DEF CapSets
  <2>2. Leads(t, l) /\ Leaves(t, l, al) /\ Undoubted(t, l)
    BY <1>2 DEF Moves
  <2> QED BY <1>1, <1>2, <2>1, <2>2, LeadsKept, LeavesKept, UndoubtedKept
<1>3. ASSUME t.verb = "resume", t.pc # "release"
      PROVE  Concludes(t, m, am)
  <2>1. t \in ResumeRecs
    BY <1>1, <1>3, ByVerb
  <2> QED BY <1>1, <1>3, <2>1, ConcludesKept DEF Moves
<1> QED BY <1>2, <1>3 DEF Moves

(* What a step of w has to show. *)
LEMMA GenMoves ==
  ASSUME ~TagScan, ExecInv, ExecInv', HeldInv, HeldInv', GenInv, NEW w \in Worker, NEW new,
         Become(w, new), NEW s, s.token = 0 \/ (worker[w] # Idle /\ s = worker[w]),
         Rises(s, led, led'), Spares(led', alive, alive'), Named(led', alive'), Intents(led'),
         new # Idle => Moves(new, led', alive')
  PROVE  GenInv'
<1>1. worker'[w] = new /\ \A v \in Worker : v # w => worker'[v] = worker[v]
  BY DEF ExecInv, Become
<1>2. led \in LedRecs /\ led' \in LedRecs
  BY DEF ExecInv, LedTyped
<1>3. ASSUME NEW v \in Worker, v # w, worker[v] # Idle
      PROVE  Moves(worker[v], led', alive')
  <2>1. Good(worker[v], led) /\ InForce(worker[v], led) /\ Moves(worker[v], led, alive)
    BY <1>3 DEF ExecInv, HeldInv, GenInv
  <2>2. Good(worker[v], led') /\ InForce(worker[v], led')
    BY <1>1, <1>3 DEF ExecInv, HeldInv
  <2>3. s.token # 0 => Apart(worker[v], s)
    BY <1>3 DEF ExecInv
  <2> QED BY <1>2, <2>1, <2>2, <2>3, MovesKept
<1> QED BY <1>1, <1>3 DEF GenInv

----------------------------------------------------------------------------
(* The steps, by what they write. *)

Advances == \E s : Rises(s, led, led')

GenAll == ExecInv /\ ExecInv' /\ HeldInv /\ HeldInv' /\ GenInv /\ ~TagScan

(* An append that leaves the bindings alone. *)
Spoken(l, m) ==
  /\ m.binding = l.binding /\ m.replaced = l.replaced
  /\ l.clock <= m.clock /\ \A c \in Cap : l.decided[c] <= m.decided[c]
  /\ \A c \in Cap : Clear(l, c) => Clear(m, c)

LEMMA SpokenRises ==
  ASSUME NEW l \in LedRecs, NEW m, Spoken(l, m)
  PROVE  /\ \A s : Rises(s, l, m)
         /\ \A al : Named(l, al) => Named(m, al)
         /\ \A al : Spares(m, al, al)
<1>1. \A s : Rises(s, l, m)
  <2>1. \A c \in Cap : l.binding[c].gen <= m.binding[c].gen
    BY DEF Spoken, LedRecs, Bounds
  <2> QED BY <2>1 DEF Spoken, Rises
<1>2. \A al : Named(l, al) => Named(m, al)
  BY DEF Spoken, Named, Reached
<1>3. \A al : Spares(m, al, al)
  BY DEF Spares
<1> QED BY <1>1, <1>2, <1>3

LEMMA SpokenMoves ==
  ASSUME NEW l \in LedRecs, NEW m, Spoken(l, m), m.clock \in Clocks,
         NEW n \in ApplyRecs \cup ResumeRecs \cup BindRecs,
         n.verb = "apply" => PlanShape(n) /\ Progress(n), n.verb = "resume" => ItemsOK(n),
         n.pc # "lease", NEW al, Moves(n, l, al)
  PROVE  Moves(n, m, al)
<1>1. \A s : Rises(s, l, m)
  BY SpokenRises
<1>2. /\ l.clock \in Int /\ m.clock \in Int /\ n.at \in Int /\ l.clock <= m.clock
  BY ByVerb, ExecutorAssumption DEF LedRecs, Spoken, Clocks, ExecutorAssumption
<1>3. ~(n.at < m.clock) => ~(n.at < l.clock)
  BY <1>2
<1>4. \A c, j : Reached(l, c, j) = Reached(m, c, j)
  BY DEF Spoken, Reached
<1>5. ASSUME n.verb = "apply", n.pc # "release"
      PROVE  Leads(n, m) /\ Leaves(n, m, al) /\ Undoubted(n, m)
  <2>1. Leads(n, l) /\ Leaves(n, l, al) /\ Undoubted(n, l)
    BY <1>5 DEF Moves
  <2>2. Leads(n, m) /\ Leaves(n, m, al)
    BY <1>4, <2>1 DEF Leads, Leaves
  <2>3. \A a \in Left(n) : a.cap \in Cap
    <3>1. n.caps \subseteq Cap
      BY ByVerb DEF CapSets
    <3> QED BY <1>5, <3>1 DEF Left, Progress, PlanShape
  <2>4. Undoubted(n, m)
    BY <1>3, <2>1, <2>3 DEF Undoubted, Spoken
  <2> QED BY <2>1, <2>2, <2>4
<1>6. ASSUME n.verb = "resume", n.pc # "release"
      PROVE  Concludes(n, m, al)
  <2>1. n \in ResumeRecs
    BY <1>6, ByVerb
  <2>2. Concludes(n, l, al) /\ \A i \in Hand(n) : i.cap \in Cap
    BY <1>6, <2>1, HandOf DEF Moves
  <2>3. \A i \in Hand(n) : Safe(i.cap, i.receipt, m)
    BY <1>1, <2>2, SafeKept DEF Concludes
  <2>4. \A i \in Hand(n) : Forward(i.cap, i.receipt, l) => Forward(i.cap, i.receipt, m)
    BY DEF Forward, Spoken
  <2> QED BY <1>3, <1>4, <2>2, <2>3, <2>4 DEF Concludes
<1> QED BY <1>5, <1>6 DEF Moves

(* A step that stays off the ledger. *)
LEMMA GenStill ==
  ASSUME GenAll, NEW w \in Worker, NEW new, Become(w, new), UNCHANGED <<led, alive>>,
         new # Idle => Moves(new, led, alive)
  PROVE  GenInv' /\ Advances
<1> DEFINE s == [token |-> 0]
<1>1. s.token = 0
  OBVIOUS
<1> HIDE DEF s
<1>2. led \in LedRecs
  BY DEF GenAll, ExecInv, LedTyped
<1>3. Spoken(led, led')
  BY <1>2, ExecutorAssumption DEF Spoken, LedRecs, Clocks, ExecutorAssumption
<1>4. Rises(s, led, led') /\ Spares(led', alive, alive')
  BY <1>2, <1>3, SpokenRises
<1>5. Named(led', alive') /\ Intents(led')
  BY DEF GenAll, GenInv
<1>6. new # Idle => Moves(new, led', alive')
  OBVIOUS
<1> QED BY <1>1, <1>4, <1>5, <1>6, GenMoves DEF GenAll, Advances

(* An append that leaves the bindings alone, or its refusal. *)
LEMMA GenSpeaks ==
  ASSUME GenAll, NEW w \in Worker, worker[w] # Idle, NEW e, e.at \in Clocks,
         NEW onward, NEW refused, AppendOr(e, w, onward, refused), UNCHANGED alive,
         Admits(e) => LET m == Step(led, e, e.at) IN Spoken(led, m) /\ Intents(m),
         Admits(e) /\ onward # Idle => onward.pc # "lease" /\ Moves(onward, led, alive),
         refused # Idle => Moves(refused, led, alive)
  PROVE  GenInv' /\ Advances
<1>1. CASE Admits(e) /\ led' = Step(led, e, e.at) /\ Become(w, onward)
  <2> DEFINE s == [token |-> 0]
  <2>1. s.token = 0
    OBVIOUS
  <2> HIDE DEF s
  <2>2. led \in LedRecs /\ led' \in LedRecs
    BY DEF GenAll, ExecInv, LedTyped
  <2>3. Spoken(led, led') /\ Intents(led')
    BY <1>1
  <2>4. Rises(s, led, led') /\ Spares(led', alive, alive') /\ Named(led', alive')
    BY <2>2, <2>3, SpokenRises DEF GenAll, GenInv
  <2>5. ASSUME onward # Idle PROVE Moves(onward, led', alive')
    <3>1. worker'[w] = onward
      BY <1>1 DEF Become, GenAll, ExecInv
    <3>2. Good(onward, led')
      BY <2>5, <3>1 DEF GenAll, ExecInv
    <3>3. led'.clock \in Clocks
      BY <2>2 DEF LedRecs
    <3>4. Moves(onward, led, alive) /\ onward.pc # "lease"
      BY <1>1, <2>5
    <3>5. Moves(onward, led', alive)
      BY <2>2, <2>3, <3>2, <3>3, <3>4, SpokenMoves DEF Good
    <3> QED BY <3>5
  <2> QED BY <1>1, <2>1, <2>3, <2>4, <2>5, GenMoves DEF GenAll, Advances
<1>2. CASE ~Admits(e) /\ UNCHANGED led /\ Become(w, refused)
  BY <1>2, GenStill
<1> QED BY <1>1, <1>2 DEF AppendOr

(* Leases and marks say nothing of bindings or intents. *)
LEMMA QuietSpoken ==
  ASSUME LedTyped, NEW e, e.type \in QuietTypes, e.at \in Clocks, Admits(e), Intents(led)
  PROVE  LET m == Step(led, e, e.at) IN Spoken(led, m) /\ Intents(m)
<1> DEFINE m == Step(led, e, e.at)
<1>1. SameFold(led, m)
  BY QuietEffect
<1>2. led.clock <= m.clock
  BY ClockGrows
<1>3. \A c \in Cap : led.decided[c] <= m.decided[c]
  <2>1. m.decided = DecidedAfter(led, e)
    BY DEF Step
  <2> QED BY <2>1, LedFields DEF DecidedAfter
<1> HIDE DEF m
<1>4. \A c : Clear(led, c) = Clear(m, c)
  BY <1>1 DEF SameFold, Clear
<1>5. Intents(m)
  BY <1>1, <1>4 DEF SameFold, Intents, Safe, Forward, Reached
<1> QED BY <1>1, <1>2, <1>3, <1>4, <1>5 DEF SameFold, Spoken, m

----------------------------------------------------------------------------
(* The steps that say nothing of a capability. *)

(* A run that is over, or about to give its lease back, has nothing to show. *)
LEMMA OverMoves ==
  ASSUME NEW s, s \in ApplyRecs \cup ResumeRecs \cup BindRecs, NEW l, NEW al, Moves(s, l, al)
  PROVE  Moves([s EXCEPT !.pc = "release"], l, al)
<1>1. [s EXCEPT !.pc = "release"].verb = s.verb /\ [s EXCEPT !.pc = "release"].pc = "release"
  BY DEF ApplyRecs, ResumeRecs, BindRecs
<1> QED BY <1>1 DEF Moves

(* What an apply becomes without having done more. *)
LEMMA ApplyMoves ==
  ASSUME NEW s, NEW n \in ApplyRecs, s.verb = "apply", s.pc \in Working, NEW l, NEW al, Moves(s, l, al),
         n.pc \in Working, n.caps = s.caps, n.at = s.at, n.plan = s.plan, n.bound = s.bound,
         Left(n) \subseteq Left(s), Left(s) \cup s.failed \subseteq Left(n) \cup n.failed,
         n.pc \in {"call", "settle", "conclude"} /\ n.cur.op = "delete" =>
           \E j \in Nat : n.cur.id = OwnId(n.cur.cap, j) /\ Reached(l, n.cur.cap, j + 1),
         n.pc = "settle" /\ n.cur.op = "create" /\ n.reply.status = "succeeded" =>
           n.cur.id \in al \/ Reached(l, n.cur.cap, AtLeastOne(n.cur.gen) + 1)
  PROVE  Moves(n, l, al)
<1>1. Leads(s, l) /\ Leaves(s, l, al) /\ Undoubted(s, l)
  BY DEF Moves, Working
<1>2. n.verb = "apply"
  BY DEF ApplyRecs
<1>3. Leads(n, l)
  BY <1>1 DEF Leads
<1>4. Leaves(n, l, al)
  BY <1>1 DEF Leaves
<1>5. Undoubted(n, l)
  BY <1>1 DEF Undoubted, Working
<1> QED BY <1>2, <1>3, <1>4, <1>5 DEF Moves

LEMMA MovesOf ==
  ASSUME GenAll, NEW w \in Worker, worker[w] # Idle
  PROVE  /\ Moves(worker[w], led, alive) /\ LedTyped /\ Intents(led) /\ Named(led, alive)
         /\ worker[w].at \in Clocks /\ worker[w].caps \subseteq Cap
         /\ worker[w] \in ApplyRecs \cup ResumeRecs \cup BindRecs
         /\ led.clock \in Clocks
  BY AtWork DEF GenAll, GenInv, LedTyped, LedRecs

LEMMA GenCrash ==
  ASSUME GenAll, NEW w \in Worker, Crash(w)
  PROVE  GenInv' /\ Advances
  BY GenStill DEF Crash, world

(* The marks. *)
LEMMA GenMarks ==
  ASSUME GenAll, NEW w \in Worker, worker[w] # Idle, NEW type \in QuietTypes, NEW onward,
         AppendOr(MarkEvent(w, type), w, onward, Idle), UNCHANGED alive,
         onward # Idle => onward.pc # "lease" /\ Moves(onward, led, alive)
  PROVE  GenInv' /\ Advances
<1> DEFINE e == MarkEvent(w, type)
<1>1. e.type = type /\ e.at = worker[w].at
  BY DEF MarkEvent
<1> HIDE DEF e
<1>2. e.type \in QuietTypes /\ e.at \in Clocks /\ LedTyped /\ Intents(led)
  BY <1>1, MovesOf
<1>3. Admits(e) => LET m == Step(led, e, e.at) IN Spoken(led, m) /\ Intents(m)
  BY <1>2, QuietSpoken
<1>4. AppendOr(e, w, onward, Idle)
  BY DEF e
<1> QED BY <1>2, <1>3, <1>4, GenSpeaks

LEMMA GenRelease ==
  ASSUME GenAll, NEW w \in Worker, Release(w)
  PROVE  GenInv' /\ Advances
<1> DEFINE type == "lease.released"
<1>1. type \in QuietTypes
  BY DEF QuietTypes
<1>2. worker[w] # Idle /\ AppendOr(MarkEvent(w, type), w, Idle, Idle) /\ UNCHANGED alive
  BY DEF Release, Idle, world
<1> HIDE DEF type
<1> QED BY <1>1, <1>2, GenMarks

LEMMA GenApplyStarted ==
  ASSUME GenAll, NEW w \in Worker, ApplyStarted(w)
  PROVE  GenInv' /\ Advances
<1> DEFINE type == "apply.started"
           s == worker[w]
           new == To(w, "act")
<1>1. type \in QuietTypes
  BY DEF QuietTypes
<1>2. At(w, "apply", "start") /\ AppendOr(MarkEvent(w, type), w, new, Idle) /\ UNCHANGED alive
  BY DEF ApplyStarted, world
<1>3. worker[w] # Idle /\ s \in ApplyRecs /\ s.verb = "apply" /\ s.pc = "start"
  BY <1>2, Applying DEF GenAll, Working
<1>4. Moves(s, led, alive)
  BY <1>3, MovesOf
<1>5. /\ new \in ApplyRecs /\ new.pc = "act" /\ new.caps = s.caps /\ new.at = s.at
      /\ new.plan = s.plan /\ new.todo = s.todo /\ new.failed = s.failed /\ new.bound = s.bound
  BY <1>3 DEF ApplyRecs, To
<1> HIDE DEF type, new
<1>6. Left(new) = Left(s)
  BY <1>3, <1>5 DEF Left
<1>7. Moves(new, led, alive)
  BY <1>3, <1>4, <1>5, <1>6, ApplyMoves DEF Working
<1> QED BY <1>1, <1>2, <1>3, <1>5, <1>7, GenMarks

LEMMA GenFinish ==
  ASSUME GenAll, NEW w \in Worker, Finish(w)
  PROVE  GenInv' /\ Advances
<1> DEFINE type == IF worker[w].failed = {} THEN "apply.finished" ELSE "apply.failed"
           new == To(w, "release")
<1>1. type \in QuietTypes
  BY DEF QuietTypes
<1>2. At(w, "apply", "act") /\ AppendOr(MarkEvent(w, type), w, new, Idle) /\ UNCHANGED alive
  BY DEF Finish, world
<1>3. worker[w] # Idle /\ worker[w] \in ApplyRecs
  BY <1>2, Applying DEF GenAll, Working
<1>4. Moves(new, led, alive) /\ new.pc = "release"
  BY <1>3, MovesOf, OverMoves DEF To, ApplyRecs
<1> HIDE DEF type, new
<1> QED BY <1>1, <1>2, <1>3, <1>4, GenMarks

(* An action given up. *)
LEMMA GenGivesUp ==
  ASSUME GenAll, NEW w \in Worker, Skip(w) \/ RefuseFirst(w)
  PROVE  GenInv' /\ Advances
<1> DEFINE s == worker[w]
<1>1. At(w, "apply", "act") /\ UNCHANGED <<led, alive>>
  BY DEF Skip, RefuseFirst, world
<1>2. PICK a \in s.todo : Become(w, [worker[w] EXCEPT !.todo = @ \ {a}, !.failed = @ \cup {a}])
  BY DEF Skip, RefuseFirst
<1> DEFINE new == [worker[w] EXCEPT !.todo = @ \ {a}, !.failed = @ \cup {a}]
<1>3. worker[w] # Idle /\ s \in ApplyRecs /\ s.verb = "apply" /\ s.pc = "act"
  BY <1>1, Applying DEF GenAll, Working
<1>4. a \in Actions /\ s.todo \in SUBSET Actions /\ s.failed \in SUBSET Actions
  BY <1>3 DEF ApplyRecs
<1>5. /\ new \in ApplyRecs /\ new.pc = "act" /\ new.caps = s.caps /\ new.at = s.at
      /\ new.plan = s.plan /\ new.todo = s.todo \ {a} /\ new.failed = s.failed \cup {a}
      /\ new.bound = s.bound
  BY <1>3, <1>4 DEF ApplyRecs
<1>6. Become(w, new)
  BY <1>2
<1> HIDE DEF new
<1>7. Left(new) \subseteq Left(s) /\ Left(s) \cup s.failed \subseteq Left(new) \cup new.failed
  BY <1>3, <1>5 DEF Left
<1>8. Moves(s, led, alive)
  BY <1>3, MovesOf
<1>9. Moves(new, led, alive)
  BY <1>3, <1>5, <1>7, <1>8, ApplyMoves DEF Working
<1> QED BY <1>1, <1>6, <1>9, GenStill

----------------------------------------------------------------------------
(* The receipts. *)

(* What may be opened: an intent that is safe, and a create of a name not bound. *)
Opens(c, r, l) == Safe(c, r, l) /\ (r.kind = "create" => Sought(c, r) # l.binding[c].id)

LEMMA ReceiptSpoken ==
  ASSUME GenAll, NEW w \in Worker, worker[w] # Idle, NEW c \in Cap, NEW status,
         NEW r \in Receipts, NEW e, e = ReceiptEvent(w, c, status, r), Admits(e),
         status \in PendingStatuses => Opens(c, r, led)
  PROVE  LET m == Step(led, e, e.at) IN Spoken(led, m) /\ Intents(m)
<1> DEFINE m == Step(led, e, e.at)
<1>1. LedTyped /\ Intents(led) /\ worker[w].at \in Clocks /\ led \in LedRecs
  BY MovesOf DEF LedTyped
<1>2. e.at = worker[w].at
  BY DEF ReceiptEvent
<1>3. /\ m.binding = led.binding /\ m.replaced = led.replaced
      /\ m.pending[c] = Receipted(led.pending[c], status, r)
      /\ \A d \in Cap \ {c} : m.pending[d] = led.pending[d]
  BY <1>1, <1>2, ReceiptEffect
<1>4. m.decided = led.decided
  BY <1>1, <1>2, ReceiptStep
<1>5. led.clock <= m.clock
  BY <1>1, <1>2, ClockGrows
<1> HIDE DEF m
<1>6. \A d \in Cap : \A q \in m.pending[d] :
        q \in led.pending[d] \/ (d = c /\ q = r /\ status \in PendingStatuses)
  BY <1>3 DEF Receipted
<1>7. ASSUME NEW d \in Cap, Clear(led, d) PROVE Clear(m, d)
  BY <1>3, <1>6, <1>7 DEF Clear, Opens
<1>8. Spoken(led, m)
  <2>1. \A d \in Cap : led.decided[d] <= m.decided[d]
    BY <1>1, <1>4, LedFields
  <2> QED BY <1>3, <1>5, <1>7, <2>1 DEF Spoken
<1>9. \A s : Rises(s, led, m)
  BY <1>1, <1>8, SpokenRises
<1>10. ASSUME NEW d \in Cap, NEW q \in m.pending[d] PROVE Safe(d, q, m) /\ Forward(d, q, m)
  <2>1. Safe(d, q, led) /\ Forward(d, q, led)
    <3>1. CASE q \in led.pending[d]
      BY <1>1, <3>1 DEF Intents
    <3>2. CASE d = c /\ q = r /\ status \in PendingStatuses
      BY <3>2 DEF Opens, Forward
    <3> QED BY <1>6, <3>1, <3>2
  <2>2. Safe(d, q, m)
    BY <1>9, <2>1, SafeKept
  <2> QED BY <1>3, <2>1, <2>2 DEF Forward
<1> QED BY <1>8, <1>10 DEF Intents, m

(* Whoever may append at all still has its lease in force. *)
LEMMA WritesInForce ==
  ASSUME GenAll, NEW w \in Worker, At(w, "apply", worker[w].pc), worker[w].pc \in Working,
         NEW e, Admits(e), e.at = worker[w].at
  PROVE  /\ ~(worker[w].at < led.clock)
         /\ \A a \in Left(worker[w]) :
              a.op \in {"create", "update"} => led.binding[a.cap].id = worker[w].bound[a.cap]
<1>1. ~(worker[w].at < led.clock)
  BY DEF Admits, Regresses
<1>2. /\ worker[w] # Idle /\ worker[w] \in ApplyRecs /\ Good(worker[w], led)
      /\ worker[w].verb = "apply"
  BY Applying DEF GenAll
<1>3. InForce(worker[w], led)
  BY <1>2 DEF GenAll, HeldInv
<1> QED BY <1>1, <1>2, <1>3, StillPlanned DEF GenAll

(* The operation of a create tells its name. *)
LEMMA OpOf ==
  ASSUME NEW a \in Actions, a.op = "create" => ~a.deposed
  PROVE  /\ a.op = "create" <=> \E g \in Nat : OpId(a) = <<a.cap, "create", g>>
         /\ a.op = "create" => \A g \in Nat : OpId(a) = <<a.cap, "create", g>> => g = a.gen
<1>1. a.gen \in Nat
  BY DEF Actions
<1>2. \A c, g, h, i, o : /\ <<c, "create", g>> # <<c, "deposed", i>> /\ <<c, "create", g>> # <<c, o>>
                         /\ <<c, "create", g>> = <<c, "create", h>> => g = h
  OBVIOUS
<1>3. CASE a.op = "create"
  BY <1>1, <1>2, <1>3 DEF OpId
<1>4. CASE a.op # "create"
  BY <1>2, <1>4 DEF OpId
<1> QED BY <1>3, <1>4

(* The receipts of an action that was planned, and is next or under way. *)
LEMMA IntentOpens ==
  ASSUME GenAll, NEW w \in Worker, At(w, "apply", worker[w].pc), worker[w].pc \in Working,
         NEW e, Admits(e), e.at = worker[w].at, NEW a \in Left(worker[w]),
         a.op = "delete" => \E j \in Nat : a.id = OwnId(a.cap, j) /\ Reached(led, a.cap, j + 1),
         NEW called \in BOOLEAN, NEW id \in {NoRes, a.id}
  PROVE  Opens(a.cap, ReceiptOf(a, called, id), led)
<1> DEFINE s == worker[w]
           c == a.cap
           g == AtLeastOne(a.gen)
           r == ReceiptOf(a, called, id)
<1>1. /\ s # Idle /\ s \in ApplyRecs /\ s.verb = "apply" /\ s.pc \in Working
      /\ PlanShape(s) /\ Progress(s)
  BY Applying DEF GenAll
<1>2. Leads(s, led) /\ Undoubted(s, led)
  BY <1>1, MovesOf DEF Moves, Working
<1>3. a \in s.plan /\ a \in Actions /\ c \in Cap /\ c \in s.caps
  BY <1>1 DEF Left, Progress, ApplyRecs, PlanShape, Actions
<1>4. a.op \in {"create", "update", "delete"}
  BY <1>2, <1>3 DEF Leads, Actions, Ops
<1>5. /\ ~(s.at < led.clock)
      /\ a.op \in {"create", "update"} => led.binding[c].id = s.bound[c]
  BY WritesInForce
<1>6. /\ r.kind = a.op /\ r.op = OpId(a)
      /\ a.op = "create" => r.gen = g /\ r.target = id
      /\ a.op \in {"update", "delete"} => r.target = a.id
  BY <1>4 DEF ReceiptOf
<1> HIDE DEF r
<1>7. ASSUME a.op = "create" PROVE Opens(c, r, led)
  <2>1. /\ a.id = OwnId(c, g) /\ ~a.deposed /\ a.old = s.bound[c]
        /\ \A j \in Nat : a.old = OwnId(c, j) => j < g
    BY <1>2, <1>3, <1>7 DEF Leads
  <2>2. g \in Nat
    BY <1>3, GenTyped
  <2>3. Sought(c, r) = OwnId(c, g)
    BY <1>6, <1>7, <2>1 DEF Sought
  <2>4. r.kind = "create" <=> \E h \in Nat : r.op = <<c, "create", h>>
    BY <1>3, <1>6, <2>1, OpOf
  <2>5. \A h \in Nat : r.op = <<c, "create", h>> => r.gen = AtLeastOne(h)
    BY <1>3, <1>6, <1>7, <2>1, OpOf
  <2>6. Sought(c, r) # led.binding[c].id
    <3> SUFFICES ASSUME OwnId(c, g) = led.binding[c].id PROVE FALSE
      BY <2>3
    <3>1. a.old = OwnId(c, g)
      BY <1>5, <1>7, <2>1
    <3> QED BY <2>1, <2>2, <3>1
  <2>7. Safe(c, r, led)
    BY <1>6, <1>7, <2>3, <2>4, <2>5 DEF Safe
  <2> QED BY <2>6, <2>7 DEF Opens
<1>8. ASSUME a.op # "create" PROVE Opens(c, r, led)
  <2>1. r.kind = "create" <=> \E h \in Nat : r.op = <<c, "create", h>>
    BY <1>3, <1>6, <1>8, OpOf
  <2>2. \E j \in Nat : /\ r.target = OwnId(c, j)
                       /\ \/ Reached(led, c, j + 1)
                          \/ r.kind = "update" /\ led.binding[c].id = r.target /\ Clear(led, c)
    <3>1. CASE a.op = "delete"
      BY <1>6, <3>1
    <3>2. CASE a.op = "update"
      <4>1. a.id = s.bound[c] /\ Clear(led, c)
        BY <1>1, <1>2, <1>3, <1>5, <3>2 DEF PlanShape, Undoubted
      <4>2. a.id # NoRes
        BY <1>3, ExecutorAssumption DEF Actions, Ids, ExecutorAssumption
      <4>3. PICK k \in Nat : s.bound[c] = OwnId(c, k)
        BY <1>2, <1>3, <4>1, <4>2 DEF Leads
      <4> QED BY <1>5, <1>6, <3>2, <4>1, <4>3
    <3> QED BY <1>4, <1>8, <3>1, <3>2
  <2>3. Safe(c, r, led)
    BY <1>4, <1>6, <1>8, <2>1, <2>2 DEF Safe
  <2> QED BY <1>6, <1>8, <2>3 DEF Opens
<1> QED BY <1>7, <1>8 DEF r

LEMMA GenIntent ==
  ASSUME GenAll, NEW w \in Worker, WriteIntent(w)
  PROVE  GenInv' /\ Advances
<1> DEFINE s == worker[w]
<1>1. At(w, "apply", "act") /\ UNCHANGED alive
  BY DEF WriteIntent, world
<1>2. PICK a \in s.todo :
        /\ ~Waits(w, a) /\ ~DepFailed(w, a)
        /\ AppendOr(ReceiptEvent(w, a.cap, "pending", ReceiptOf(a, FALSE, NoRes)), w,
                    [To(w, "call") EXCEPT !.cur = a, !.todo = @ \ {a}], Idle)
  BY DEF WriteIntent
<1> DEFINE new == [To(w, "call") EXCEPT !.cur = a, !.todo = @ \ {a}]
           r == ReceiptOf(a, FALSE, NoRes)
           e == ReceiptEvent(w, a.cap, "pending", r)
           status == "pending"
<1>3. /\ s # Idle /\ s \in ApplyRecs /\ s.verb = "apply" /\ s.pc = "act"
      /\ PlanShape(s) /\ Progress(s)
  BY <1>1, Applying DEF GenAll, Working
<1>4. /\ Moves(s, led, alive) /\ s.at \in Clocks
      /\ Leads(s, led) /\ Leaves(s, led, alive) /\ Undoubted(s, led)
  BY <1>3, MovesOf DEF Moves
<1>5. a \in Actions /\ s.todo \in SUBSET Actions /\ a \in s.plan /\ a \in Left(s) /\ a.cap \in Cap
  BY <1>3 DEF ApplyRecs, Progress, Left, Actions
<1>6. /\ new \in ApplyRecs /\ new.pc = "call" /\ new.caps = s.caps /\ new.at = s.at
      /\ new.plan = s.plan /\ new.todo = s.todo \ {a} /\ new.cur = a /\ new.failed = s.failed
      /\ new.bound = s.bound
  BY <1>3, <1>5 DEF ApplyRecs, To
<1>7. r \in Receipts
  BY <1>5, ReceiptTyped
<1>8. AppendOr(e, w, new, Idle)
  BY <1>2
<1>9. e.at = s.at /\ status \in PendingStatuses /\ e = ReceiptEvent(w, a.cap, status, r)
  BY DEF ReceiptEvent, PendingStatuses
<1> HIDE DEF new, e, status
<1>10. ASSUME a.op = "delete"
       PROVE  \E j \in Nat : a.id = OwnId(a.cap, j) /\ Reached(led, a.cap, j + 1)
  <2>1. PICK j \in Nat :
          /\ a.id = OwnId(a.cap, j)
          /\ \/ Reached(led, a.cap, j + 1)
             \/ \E b \in s.plan : b.op = "create" /\ b.cap = a.cap /\ j < AtLeastOne(b.gen)
    BY <1>4, <1>5, <1>10 DEF Leads
  <2>2. ASSUME NEW b \in s.plan, b.op = "create", b.cap = a.cap, j < AtLeastOne(b.gen)
        PROVE  Reached(led, a.cap, j + 1)
    <3>1. DependsOn(a, b)
      BY <1>10, <2>2 DEF DependsOn
    <3>2. b \notin s.todo /\ b \notin s.failed
      BY <1>2, <3>1 DEF Waits, DepFailed
    <3>3. b \notin Left(s)
      BY <1>3, <3>2 DEF Left
    <3>4. Reached(led, b.cap, AtLeastOne(b.gen))
      BY <1>4, <2>2, <3>2, <3>3 DEF Leaves
    <3>5. AtLeastOne(b.gen) \in Nat
      BY <1>3, GenTyped DEF ApplyRecs
    <3>6. PICK k \in Nat : led.binding[b.cap].id = OwnId(b.cap, k) /\ AtLeastOne(b.gen) <= k
      BY <3>4 DEF Reached
    <3>7. j + 1 <= k
      BY <2>2, <3>5, <3>6
    <3> QED BY <2>2, <3>6, <3>7 DEF Reached
  <2> QED BY <2>1, <2>2
<1>11. Admits(e) => Opens(a.cap, r, led)
  <2>1. At(w, "apply", s.pc) /\ s.pc \in Working
    BY <1>1, <1>3 DEF Working, At
  <2>2. FALSE \in BOOLEAN /\ NoRes \in {NoRes, a.id}
    OBVIOUS
  <2> QED BY <1>5, <1>9, <1>10, <2>1, <2>2, IntentOpens
<1> HIDE DEF r
<1>12. Admits(e) => LET m == Step(led, e, e.at) IN Spoken(led, m) /\ Intents(m)
  BY <1>3, <1>5, <1>7, <1>9, <1>11, ReceiptSpoken
<1>13. Left(new) \subseteq Left(s) /\ Left(s) \cup s.failed \subseteq Left(new) \cup new.failed
  BY <1>3, <1>5, <1>6 DEF Left
<1>14. Moves(new, led, alive)
  BY <1>3, <1>4, <1>6, <1>10, <1>13, ApplyMoves DEF Working
<1> QED BY <1>1, <1>3, <1>4, <1>6, <1>8, <1>9, <1>12, <1>14, GenSpeaks

LEMMA GenCall ==
  ASSUME GenAll, NEW w \in Worker, CallProvider(w)
  PROVE  GenInv' /\ Advances
<1> DEFINE s == worker[w]
           a == worker[w].cur
<1>1. At(w, "apply", "call") /\ UNCHANGED led
  BY DEF CallProvider
<1>2. /\ s # Idle /\ s \in ApplyRecs /\ s.verb = "apply" /\ s.pc = "call"
      /\ PlanShape(s) /\ Progress(s)
  BY <1>1, Applying DEF GenAll, Working
<1>3. /\ Moves(s, led, alive) /\ Leads(s, led) /\ Leaves(s, led, alive) /\ Undoubted(s, led)
      /\ Named(led, alive) /\ Intents(led) /\ led \in LedRecs
  BY <1>2, MovesOf DEF Moves, LedTyped
<1>4. a \in s.plan \ s.todo /\ a \in Actions /\ a.cap \in Cap
  BY <1>2 DEF Progress, ApplyRecs, Actions
<1>5. PICK landed \in BOOLEAN, id \in Answers(a) :
        \E status \in Reports(a, landed) :
          /\ alive' = CASE landed /\ a.op = "create" -> alive \cup {id}
                        [] landed /\ a.op = "delete" -> alive \ {id}
                        [] OTHER -> alive
          /\ Become(w, [To(w, "settle") EXCEPT !.reply = [status |-> Judged(a, id, status),
                                                          id |-> id]])
  BY DEF CallProvider
<1>6. PICK status \in Reports(a, landed) :
          /\ alive' = CASE landed /\ a.op = "create" -> alive \cup {id}
                        [] landed /\ a.op = "delete" -> alive \ {id}
                        [] OTHER -> alive
          /\ Become(w, [To(w, "settle") EXCEPT !.reply = [status |-> Judged(a, id, status),
                                                          id |-> id]])
  BY <1>5
<1>7. id = a.id /\ a.id \in Ids
  BY <1>4 DEF Answers, GenAll, Actions
<1> DEFINE reply == [status |-> Judged(a, id, status), id |-> id]
           new == [To(w, "settle") EXCEPT !.reply = reply]
<1>8. /\ reply \in Replies /\ reply.id = a.id
      /\ reply.status = "succeeded" => landed
  BY <1>7 DEF Judged, Replies, Reports
<1>9. Become(w, new)
  BY <1>6
<1> HIDE DEF reply
<1>10. /\ new \in ApplyRecs /\ new.pc = "settle" /\ new.caps = s.caps /\ new.at = s.at
       /\ new.plan = s.plan /\ new.todo = s.todo /\ new.cur = a /\ new.failed = s.failed
       /\ new.bound = s.bound /\ new.reply = reply
  BY <1>2, <1>8 DEF ApplyRecs, To
<1> HIDE DEF new
<1>11. ASSUME a.op = "delete"
       PROVE  \E j \in Nat : a.id = OwnId(a.cap, j) /\ Reached(led, a.cap, j + 1)
  BY <1>2, <1>3, <1>11 DEF Leaves
<1>12. ASSUME NEW x \in alive, x \notin alive'
       PROVE  \E j \in Nat : x = OwnId(a.cap, j) /\ Reached(led, a.cap, j + 1)
  <2>1. landed /\ a.op = "delete" /\ x = a.id
    BY <1>6, <1>7, <1>12
  <2> QED BY <1>11, <2>1
<1>13. Spares(led', alive, alive')
  <2> SUFFICES ASSUME NEW c \in Cap, NEW k \in Nat, OwnId(c, k) \in alive, OwnId(c, k) \notin alive'
               PROVE  Reached(led, c, k + 1)
    BY <1>1 DEF Spares
  <2>1. PICK j \in Nat : OwnId(c, k) = OwnId(a.cap, j) /\ Reached(led, a.cap, j + 1)
    BY <1>12
  <2>2. c = a.cap /\ k = j
    BY <2>1 DEF OwnId
  <2> QED BY <2>1, <2>2
<1>14. Named(led', alive')
  <2> SUFFICES ASSUME NEW c \in Cap, led.binding[c].id # NoRes PROVE led.binding[c].id \in alive'
    BY <1>1, <1>3 DEF Named
  <2>1. PICK k \in 1..led.binding[c].gen : led.binding[c].id = OwnId(c, k)
    BY <1>3 DEF Named
  <2>2. led.binding[c].id \in alive /\ led.binding[c].gen \in Nat
    BY <1>3 DEF Named, LedRecs, Bounds
  <2>3. k \in Nat
    BY <2>2
  <2>4. ASSUME OwnId(c, k) \notin alive' PROVE FALSE
    <3>1. Reached(led, c, k + 1)
      BY <1>1, <1>13, <2>1, <2>2, <2>3, <2>4 DEF Spares
    <3>2. PICK i \in Nat : led.binding[c].id = OwnId(c, i) /\ k + 1 <= i
      BY <3>1 DEF Reached
    <3>3. i = k
      BY <2>1, <2>3, <3>2, NamesApart
    <3> QED BY <2>3, <3>2, <3>3
  <2> QED BY <2>1, <2>4
<1>15. new.pc = "settle" /\ new.cur.op = "create" /\ new.reply.status = "succeeded"
         => new.cur.id \in alive'
  BY <1>6, <1>7, <1>8, <1>10
<1>16. Moves(new, led', alive')
  <2>1. s.verb = "apply" /\ s.pc \in Working /\ Moves(s, led, alive')
    <3>1. Leaves(s, led, alive')
      BY <1>2, <1>3 DEF Leaves
    <3> QED BY <1>2, <1>3, <3>1 DEF Moves, Working
  <2>2. Left(new) \subseteq Left(s) /\ Left(s) \cup s.failed \subseteq Left(new) \cup new.failed
    BY <1>2, <1>10 DEF Left
  <2>3. Moves(new, led, alive')
    BY <1>10, <1>11, <1>15, <2>1, <2>2, ApplyMoves DEF Working
  <2> QED BY <1>1, <2>3
<1> DEFINE t == [token |-> 0]
<1>17. t.token = 0
  OBVIOUS
<1> HIDE DEF t
<1>18. Rises(t, led, led')
  <2>1. Spoken(led, led')
    BY <1>1, <1>3, ExecutorAssumption DEF Spoken, LedRecs, Clocks, ExecutorAssumption
  <2> QED BY <1>3, <2>1, SpokenRises
<1>19. Intents(led')
  BY <1>1, <1>3
<1> QED BY <1>9, <1>13, <1>14, <1>16, <1>17, <1>18, <1>19, GenMoves DEF GenAll, Advances

(* What apply goes on with after an action. *)
LEMMA OnwardMoves ==
  ASSUME GenAll, NEW w \in Worker, At(w, "apply", worker[w].pc),
         worker[w].pc \in {"settle", "conclude"},
         NEW F \in SUBSET Actions, worker[w].pc = "settle" => worker[w].cur \in F,
         NEW new, new = [Onward(w) EXCEPT !.failed = @ \cup F]
  PROVE  new \in ApplyRecs /\ new.pc # "lease" /\ Moves(new, led, alive)
<1> DEFINE s == worker[w]
<1>1. /\ s # Idle /\ s \in ApplyRecs /\ s.verb = "apply" /\ s.pc \in {"settle", "conclude"}
  BY Applying DEF GenAll, Working
<1>2. Moves(s, led, alive)
  BY <1>1, MovesOf
<1>3. /\ new \in ApplyRecs /\ new.pc = "act" /\ new.caps = s.caps /\ new.at = s.at
      /\ new.plan = s.plan /\ new.todo = s.todo /\ new.failed = s.failed \cup F
      /\ new.bound = s.bound
  BY <1>1 DEF ApplyRecs, Onward, To
<1>4. Left(new) \subseteq Left(s) /\ Left(s) \cup s.failed \subseteq Left(new) \cup new.failed
  BY <1>1, <1>3 DEF Left
<1>5. /\ s.pc \in Working /\ new.pc \in Working
      /\ new.pc \notin {"call", "settle", "conclude"} /\ new.pc # "settle" /\ new.pc # "lease"
  BY <1>1, <1>3 DEF Working
<1>6. Moves(new, led, alive)
  BY ONLY <1>1, <1>2, <1>3, <1>4, <1>5, ApplyMoves
<1> QED BY <1>3, <1>5, <1>6

LEMMA GenFailure ==
  ASSUME GenAll, NEW w \in Worker, SettleFailure(w)
  PROVE  GenInv' /\ Advances
<1> DEFINE s == worker[w]
           a == s.cur
           status == s.reply.status
           called == status = "unknown"
           id == IF status = "unknown" THEN s.reply.id ELSE NoRes
           r == ReceiptOf(a, called, id)
           e == ReceiptEvent(w, a.cap, status, r)
           new == [Onward(w) EXCEPT !.failed = @ \cup {a}]
<1>1. /\ At(w, "apply", "settle") /\ status # "succeeded" /\ UNCHANGED alive
      /\ AppendOr(ReceiptEvent(w, a.cap, status,
                    IF status = "unknown" THEN ReceiptOf(a, TRUE, s.reply.id)
                    ELSE ReceiptOf(a, FALSE, NoRes)), w, new, Idle)
  BY DEF SettleFailure, world
<1>2. /\ s # Idle /\ s \in ApplyRecs /\ s.verb = "apply" /\ s.pc = "settle"
      /\ PlanShape(s) /\ Progress(s)
  BY <1>1, Applying DEF GenAll, Working
<1>3. /\ s.at \in Clocks /\ Leads(s, led) /\ Leaves(s, led, alive)
  BY <1>2, MovesOf DEF Moves
<1>4. a \in s.plan \ s.todo /\ a \in Actions /\ a \in Left(s) /\ a.cap \in Cap
  BY <1>2 DEF Progress, ApplyRecs, Left, Actions
<1>5. s.reply \in Replies /\ s.reply.id = a.id
  BY <1>2 DEF Progress, GenAll
<1>6. r = IF status = "unknown" THEN ReceiptOf(a, TRUE, s.reply.id) ELSE ReceiptOf(a, FALSE, NoRes)
  OBVIOUS
<1>7. called \in BOOLEAN /\ id \in {NoRes, a.id} /\ id \in Ids \cup {NoRes}
  BY <1>4, <1>5 DEF Actions
<1> HIDE DEF called, id
<1>8. r \in Receipts
  BY <1>4, <1>7, ReceiptTyped
<1>9. AppendOr(e, w, new, Idle)
  BY <1>1, <1>6
<1>10. e.at = s.at /\ e = ReceiptEvent(w, a.cap, status, r)
  BY DEF ReceiptEvent
<1> HIDE DEF new, e
<1>11. a.op = "delete" => \E j \in Nat : a.id = OwnId(a.cap, j) /\ Reached(led, a.cap, j + 1)
  BY <1>2, <1>3 DEF Leaves
<1>12. Admits(e) => Opens(a.cap, r, led)
  <2>1. At(w, "apply", s.pc) /\ s.pc \in Working
    BY <1>1, <1>2 DEF Working, At
  <2> QED BY <1>4, <1>7, <1>10, <1>11, <2>1, IntentOpens
<1> HIDE DEF r
<1>13. Admits(e) => LET m == Step(led, e, e.at) IN Spoken(led, m) /\ Intents(m)
  BY <1>2, <1>4, <1>8, <1>10, <1>12, ReceiptSpoken
<1>14. new.pc # "lease" /\ Moves(new, led, alive)
  <2>1. At(w, "apply", s.pc) /\ {a} \in SUBSET Actions
    BY <1>1, <1>2, <1>4 DEF At
  <2> QED BY <1>2, <2>1, OnwardMoves DEF new
<1> QED BY <1>1, <1>2, <1>3, <1>9, <1>10, <1>13, <1>14, GenSpeaks

(* A receipt that closes. *)
LEMMA GenCloses ==
  ASSUME GenAll, NEW w \in Worker, worker[w] # Idle, NEW c \in Cap,
         NEW status, status \notin PendingStatuses, NEW r \in Receipts, NEW onward, NEW refused,
         AppendOr(ReceiptEvent(w, c, status, r), w, onward, refused), UNCHANGED alive,
         onward # Idle => onward.pc # "lease" /\ Moves(onward, led, alive),
         refused # Idle => Moves(refused, led, alive)
  PROVE  GenInv' /\ Advances
<1> DEFINE e == ReceiptEvent(w, c, status, r)
<1>1. e.at = worker[w].at /\ e = ReceiptEvent(w, c, status, r)
  BY DEF ReceiptEvent
<1>2. AppendOr(e, w, onward, refused)
  OBVIOUS
<1> HIDE DEF e
<1>3. Admits(e) => LET m == Step(led, e, e.at) IN Spoken(led, m) /\ Intents(m)
  BY <1>1, ReceiptSpoken
<1>4. e.at \in Clocks
  BY <1>1, MovesOf
<1> QED BY <1>2, <1>3, <1>4, GenSpeaks

LEMMA GenConclude ==
  ASSUME GenAll, NEW w \in Worker, Conclude(w)
  PROVE  GenInv' /\ Advances
<1> DEFINE s == worker[w]
           a == s.cur
           r == ReceiptOf(a, FALSE, NoRes)
           status == "succeeded"
           none == {}
           new == [Onward(w) EXCEPT !.failed = @ \cup none]
<1>1. /\ At(w, "apply", "conclude") /\ UNCHANGED alive
      /\ AppendOr(ReceiptEvent(w, a.cap, status, r), w, Onward(w), Idle)
  BY DEF Conclude, world
<1>2. s # Idle /\ s \in ApplyRecs /\ s.verb = "apply" /\ s.pc = "conclude" /\ Progress(s)
  BY <1>1, Applying DEF GenAll, Working
<1>3. a \in Actions /\ a.cap \in Cap
  BY <1>2 DEF Progress, ApplyRecs, Actions
<1>4. r \in Receipts /\ status \notin PendingStatuses /\ none \in SUBSET Actions
  BY <1>3, ReceiptTyped DEF PendingStatuses
<1>5. new = Onward(w)
  BY <1>2 DEF ApplyRecs, Onward, To
<1> HIDE DEF r, status, none, new
<1>6. new.pc # "lease" /\ Moves(new, led, alive)
  <2>1. At(w, "apply", s.pc) /\ s.pc # "settle"
    BY <1>1, <1>2 DEF At
  <2> QED BY <1>2, <1>4, <2>1, OnwardMoves DEF new
<1> QED BY <1>1, <1>2, <1>3, <1>4, <1>5, <1>6, GenCloses

----------------------------------------------------------------------------
(* The starts. *)

(* What the compiler makes of a goal leads past the binding. *)
LEMMA PlanLeads ==
  ASSUME Undisturbed, LedTyped, Named(led, alive), NEW c \in Cap, NEW goal \in Goals,
         NEW a \in Plan(c, goal)
  PROVE  /\ a.op # "claim"
         /\ a.op = "create" =>
              /\ a.id = OwnId(c, AtLeastOne(a.gen)) /\ a.old = Bound(c) /\ ~a.deposed
              /\ a.gen = 0 => a.old = NoRes
              /\ \A j \in Nat : a.old = OwnId(c, j) => j < AtLeastOne(a.gen)
         /\ a.op # "create" => a.old = NoRes
         /\ a.op = "update" => a.gen = 0
         /\ a.op = "delete" =>
              \E j \in Nat :
                /\ a.id = OwnId(c, j)
                /\ \/ Reached(led, c, j + 1)
                   \/ \E b \in Plan(c, goal) : b.op = "create" /\ b.cap = c /\ j < AtLeastOne(b.gen)
<1>1. /\ led.binding[c] \in Bounds /\ ~led.binding[c].adopted
      /\ Bound(c) # NoRes =>
           Bound(c) \in alive /\ \E k \in 1..led.binding[c].gen : Bound(c) = OwnId(c, k)
  BY LedFields DEF Named, Bound
<1>2. ClaimFirst(c) = {}
  BY <1>1 DEF ClaimFirst
<1>3. goal # "retired"
  BY DEF Undisturbed
<1>4. CASE goal = "present"
  <2>1. a = Create(c) /\ Bound(c) \notin alive
    BY <1>2, <1>4 DEF Plan
  <2>2. Bound(c) = NoRes
    BY <1>1, <2>1
  <2>3. a.op = "create" /\ a.id = OwnId(c, 1) /\ a.gen = 0 /\ a.old = NoRes /\ ~a.deposed
    BY <2>1 DEF Create, Action
  <2>4. \A j \in Nat : NoRes # OwnId(c, j)
    BY NamesApart
  <2>5. AtLeastOne(0) = 1
    BY DEF AtLeastOne
  <2> QED BY <2>2, <2>3, <2>4, <2>5
<1>5. CASE goal = "update"
  <2>1. a = Action(c, "update", Bound(c), 0, NoRes, FALSE)
    BY <1>2, <1>5 DEF Plan
  <2>2. a.op = "update" /\ a.gen = 0 /\ a.old = NoRes
    BY <2>1 DEF Action
  <2> QED BY <2>2
<1>6. CASE goal = "replace"
  <2> DEFINE b == Successor(c)
             d == Delete(c, Bound(c), BoundGen(c), FALSE)
             g == BoundGen(c) + 1
  <2>1. Bound(c) # NoRes /\ Plan(c, goal) = {b, d}
    BY <1>2, <1>6 DEF Plan
  <2>2. PICK k \in 1..led.binding[c].gen : Bound(c) = OwnId(c, k)
    BY <1>1, <2>1
  <2>3. k \in Nat /\ led.binding[c].gen \in Nat
    BY <1>1, <2>2 DEF Bounds
  <2>4. g \in Nat /\ k < g /\ AtLeastOne(g) = g /\ g # 0
    BY <2>2, <2>3 DEF BoundGen, AtLeastOne
  <2> HIDE DEF g
  <2>5. /\ b.op = "create" /\ b.cap = c /\ b.id = OwnId(c, g) /\ b.gen = g /\ b.old = Bound(c)
        /\ ~b.deposed
    BY DEF Successor, Action, g
  <2>6. d.op = "delete" /\ d.id = OwnId(c, k) /\ d.old = NoRes
    BY <2>2 DEF Delete, Action
  <2> HIDE DEF b, d
  <2>7. ASSUME NEW j \in Nat, b.old = OwnId(c, j)
        PROVE  j < g
    <3>1. OwnId(c, k) = OwnId(c, j)
      BY ONLY <2>2, <2>5, <2>7
    <3>2. k = j
      BY ONLY <2>3, <3>1, NamesApart, <2>7, c \in Cap
    <3> QED BY ONLY <2>4, <3>2
  <2>8. CASE a = b
    BY <2>4, <2>5, <2>7, <2>8
  <2>9. CASE a = d
    BY <2>1, <2>3, <2>4, <2>5, <2>6, <2>9
  <2> QED BY <2>1, <2>8, <2>9
<1>7. CASE goal = "deposed"
  <2>1. PICK id \in Deposed(led, c) : a = Delete(c, id, 0, TRUE)
    BY <1>7 DEF Plan
  <2>2. a.op = "delete" /\ a.id = id /\ a.old = NoRes
    BY <2>1 DEF Delete, Action
  <2>3. PICK j \in Nat : id = OwnId(c, j) /\ Reached(led, c, j + 1)
    BY <2>1 DEF Named, Deposed, DeposedAll
  <2> QED BY <2>2, <2>3
<1> QED BY <1>3, <1>4, <1>5, <1>6, <1>7, ExecutorAssumption DEF ExecutorAssumption

LEMMA GenStartApply ==
  ASSUME GenAll, Undisturbed, NEW w \in Worker, StartApply(w)
  PROVE  GenInv' /\ Advances
<1>0. PICK caps \in (SUBSET Cap) \ {{}}, at \in led.clock..MaxClock :
        \E goal \in [caps -> Goals] :
        /\ \A c \in caps : led.pending[c] = {}
        /\ StartRun(w, [ verb |-> "apply", pc |-> "lease", caps |-> caps, at |-> at, token |-> 0,
                         plan |-> UNION {Plan(c, goal[c]) : c \in caps},
                         todo |-> UNION {Plan(c, goal[c]) : c \in caps}, failed |-> {},
                         cur |-> NoRes, reply |-> NoRes,
                         pins |-> [c \in caps |-> led.decided[c]],
                         bound |-> [c \in caps |-> Bound(c)] ])
  BY DEF StartApply
<1>a. PICK goal \in [caps -> Goals] :
        /\ \A c \in caps : led.pending[c] = {}
        /\ StartRun(w, [ verb |-> "apply", pc |-> "lease", caps |-> caps, at |-> at, token |-> 0,
                         plan |-> UNION {Plan(c, goal[c]) : c \in caps},
                         todo |-> UNION {Plan(c, goal[c]) : c \in caps}, failed |-> {},
                         cur |-> NoRes, reply |-> NoRes,
                         pins |-> [c \in caps |-> led.decided[c]],
                         bound |-> [c \in caps |-> Bound(c)] ])
  BY <1>0
<1> DEFINE all == UNION {Plan(c, goal[c]) : c \in caps}
           pins == [c \in caps |-> led.decided[c]]
           bound == [c \in caps |-> Bound(c)]
           new == [ verb |-> "apply", pc |-> "lease", caps |-> caps, at |-> at, token |-> 0,
                    plan |-> all, todo |-> all, failed |-> {}, cur |-> NoRes, reply |-> NoRes,
                    pins |-> pins, bound |-> bound ]
<1>1. LedTyped /\ Named(led, alive) /\ caps \subseteq Cap
  BY DEF GenAll, GenInv, ExecInv
<1>2. StartRun(w, new) /\ \A c \in caps : led.pending[c] = {}
  BY <1>a
<1>3. \A a \in all : a.cap \in caps /\ a \in Plan(a.cap, goal[a.cap])
  <2> TAKE a \in all
  <2>1. PICK c \in caps : a \in Plan(c, goal[c])
    OBVIOUS
  <2> QED BY <1>1, <2>1, PlanMade
<1>4. \A c \in caps : Plan(c, goal[c]) \subseteq all
  OBVIOUS
<1>5. \A c \in caps : bound[c] = Bound(c)
  OBVIOUS
<1> HIDE DEF all, pins, bound
<1>6. /\ new.verb = "apply" /\ new.pc = "lease" /\ new.caps = caps /\ new.plan = all
      /\ new.todo = all /\ new.bound = bound
  OBVIOUS
<1> HIDE DEF new
<1>7. Leads(new, led)
  <2>1. ASSUME NEW c \in caps
        PROVE  bound[c] = NoRes \/ \E k \in Nat : bound[c] = OwnId(c, k)
    <3>1. led.binding[c] \in Bounds /\ c \in Cap
      BY <1>1, LedFields
    <3>2. \A k \in 1..led.binding[c].gen : k \in Nat
      BY <3>1 DEF Bounds
    <3> QED BY <1>1, <1>5, <3>1, <3>2 DEF Named, Bound
  <2>2. ASSUME NEW a \in all
        PROVE  /\ a.op # "claim"
               /\ a.op = "create" =>
                    /\ a.id = OwnId(a.cap, AtLeastOne(a.gen)) /\ a.old = bound[a.cap]
                    /\ ~a.deposed
                    /\ a.gen = 0 => a.old = NoRes
                    /\ \A j \in Nat : a.old = OwnId(a.cap, j) => j < AtLeastOne(a.gen)
               /\ a.op # "create" => a.old = NoRes
               /\ a.op = "update" => a.gen = 0
               /\ a.op = "delete" =>
                    \E j \in Nat :
                      /\ a.id = OwnId(a.cap, j)
                      /\ \/ Reached(led, a.cap, j + 1)
                         \/ \E b \in all : b.op = "create" /\ b.cap = a.cap /\ j < AtLeastOne(b.gen)
    <3> DEFINE c == a.cap
    <3>1. c \in caps /\ c \in Cap /\ a \in Plan(c, goal[c]) /\ Plan(c, goal[c]) \subseteq all
          /\ goal[c] \in Goals /\ bound[c] = Bound(c)
      BY <1>1, <1>3, <1>4, <1>5
    <3>2. /\ a.op # "claim"
          /\ a.op = "create" =>
               /\ a.id = OwnId(c, AtLeastOne(a.gen)) /\ a.old = Bound(c) /\ ~a.deposed
               /\ a.gen = 0 => a.old = NoRes
               /\ \A j \in Nat : a.old = OwnId(c, j) => j < AtLeastOne(a.gen)
          /\ a.op # "create" => a.old = NoRes
          /\ a.op = "update" => a.gen = 0
          /\ a.op = "delete" =>
               \E j \in Nat :
                 /\ a.id = OwnId(c, j)
                 /\ \/ Reached(led, c, j + 1)
                    \/ \E b \in Plan(c, goal[c]) :
                         b.op = "create" /\ b.cap = c /\ j < AtLeastOne(b.gen)
      BY <1>1, <3>1, PlanLeads
    <3> HIDE DEF c
    <3>3. a.op = "delete" =>
            \E j \in Nat :
              /\ a.id = OwnId(c, j)
              /\ \/ Reached(led, c, j + 1)
                 \/ \E b \in all : b.op = "create" /\ b.cap = c /\ j < AtLeastOne(b.gen)
      <4> SUFFICES ASSUME a.op = "delete"
                   PROVE  \E j \in Nat :
                            /\ a.id = OwnId(c, j)
                            /\ \/ Reached(led, c, j + 1)
                               \/ \E b \in all :
                                    b.op = "create" /\ b.cap = c /\ j < AtLeastOne(b.gen)
        OBVIOUS
      <4>1. PICK j \in Nat :
              /\ a.id = OwnId(c, j)
              /\ \/ Reached(led, c, j + 1)
                 \/ \E b \in Plan(c, goal[c]) :
                      b.op = "create" /\ b.cap = c /\ j < AtLeastOne(b.gen)
        BY <3>2
      <4>2. \A b \in Plan(c, goal[c]) : b \in all
        BY <3>1
      <4> QED BY ONLY <4>1, <4>2
    <3>4. bound[c] = Bound(c) /\ c = a.cap
      BY <3>1 DEF c
    <3> QED BY <3>2, <3>3, <3>4
  <2> QED BY <1>6, <2>1, <2>2 DEF Leads
<1>8. Leaves(new, led, alive)
  BY <1>6 DEF Leaves, Left
<1>9. Undoubted(new, led)
  BY <1>2, <1>6 DEF Undoubted, Clear, Working
<1>10. Moves(new, led, alive)
  BY <1>6, <1>7, <1>8, <1>9 DEF Moves
<1>11. Become(w, new) /\ UNCHANGED <<led, alive>>
  BY <1>2 DEF StartRun, world
<1> QED BY <1>10, <1>11, GenStill

LEMMA GenStartResume ==
  ASSUME GenAll, NEW w \in Worker, StartResume(w)
  PROVE  GenInv' /\ Advances
<1> DEFINE caps == {c \in Cap : led.pending[c] # {}}
           todo == UNION {[cap : {c}, receipt : led.pending[c]] : c \in caps}
<1>1. PICK at \in led.clock..MaxClock :
        StartRun(w, [ verb |-> "resume", pc |-> "lease", caps |-> caps, at |-> at,
                      token |-> 0, todo |-> todo, cur |-> NoRes, verdict |-> "none" ])
  BY DEF StartResume
<1> DEFINE new == [ verb |-> "resume", pc |-> "lease", caps |-> caps, at |-> at,
                    token |-> 0, todo |-> todo, cur |-> NoRes, verdict |-> "none" ]
<1>2. Become(w, new) /\ UNCHANGED <<led, alive>>
  BY <1>1 DEF StartRun, world
<1>3. \A i \in todo : i.cap \in Cap /\ i.receipt \in led.pending[i.cap]
  OBVIOUS
<1> HIDE DEF caps, todo
<1>4. new.verb = "resume" /\ new.pc = "lease" /\ Hand(new) = todo
  BY DEF Hand
<1> HIDE DEF new
<1>5. \A i \in todo : Safe(i.cap, i.receipt, led)
  BY <1>3 DEF GenAll, GenInv, Intents
<1>6. ASSUME NEW u \in todo, NEW q \in todo,
             u.cap = q.cap, u.receipt.kind = "update", q.receipt.kind = "create"
      PROVE  \/ Sought(q.cap, q.receipt) # u.receipt.target
             \/ \E j \in Nat : u.receipt.target = OwnId(u.cap, j) /\ Reached(led, u.cap, j + 1)
  <2>1. PICK j \in Nat :
          /\ u.receipt.target = OwnId(u.cap, j)
          /\ \/ Reached(led, u.cap, j + 1)
             \/ led.binding[u.cap].id = u.receipt.target /\ Clear(led, u.cap)
    BY <1>5, <1>6 DEF Safe
  <2>2. Clear(led, u.cap) => Sought(q.cap, q.receipt) # led.binding[u.cap].id
    BY <1>3, <1>6 DEF Clear
  <2> QED BY <2>1, <2>2
<1>7. Moves(new, led, alive)
  BY <1>4, <1>5, <1>6 DEF Moves, Concludes
<1> QED BY <1>2, <1>7, GenStill

(* The lease: an apply finds nothing moved since its plan, and a resume goes on with *)
(* the receipts that are open now, under the operations it read.                     *)
LEMMA GenTakeLease ==
  ASSUME GenAll, NEW w \in Worker, TakeLease(w)
  PROVE  GenInv' /\ Advances
<1> DEFINE s == worker[w]
           e == LeaseEvent(w)
           new == UnderLease(w)
<1>1. s # Idle /\ s.pc = "lease" /\ AppendOr(e, w, new, Idle) /\ UNCHANGED alive
  BY DEF TakeLease, Idle, world
<1>2. e.type = "lease.acquired" /\ e.at = s.at
  BY DEF LeaseEvent
<1> HIDE DEF e
<1>3. /\ Moves(s, led, alive) /\ LedTyped /\ Intents(led) /\ s.at \in Clocks
      /\ s \in ApplyRecs \cup ResumeRecs \cup BindRecs /\ Good(s, led)
  BY <1>1, MovesOf DEF GenAll, ExecInv
<1>4. Admits(e) => LET m == Step(led, e, e.at) IN Spoken(led, m) /\ Intents(m)
  BY <1>2, <1>3, QuietSpoken DEF QuietTypes
<1>5. CASE s.verb = "apply"
  <2> DEFINE token == NewToken(led, s.caps)
             pc == IF Stale(w) THEN "release" ELSE "start"
             n == [[s EXCEPT !.pc = pc] EXCEPT !.token = token]
  <2>1. s \in ApplyRecs /\ new = n /\ PlanShape(s) /\ Progress(s)
    BY <1>3, <1>5, ByVerb DEF UnderLease, Held, To, Good
  <2> HIDE DEF token, pc
  <2>2. /\ n.verb = "apply" /\ n.pc = pc /\ n.caps = s.caps /\ n.plan = s.plan
        /\ n.todo = s.todo /\ n.failed = s.failed /\ n.bound = s.bound
    BY <2>1 DEF ApplyRecs
  <2>3. pc \in {"release", "start"} /\ (pc # "release" => ~Stale(w))
    BY DEF pc
  <2> HIDE DEF n, new
  <2>4. ASSUME pc = "start" PROVE Moves(n, led, alive)
    <3>1. Leads(s, led) /\ Leaves(s, led, alive) /\ Undoubted(s, led)
      BY <1>1, <1>3, <1>5 DEF Moves
    <3>2. Leads(n, led)
      BY <2>2, <3>1 DEF Leads
    <3>3. Left(n) = Left(s)
      BY <1>1, <2>2, <2>4 DEF Left
    <3>4. Leaves(n, led, alive)
      BY <2>2, <2>4, <3>1, <3>3 DEF Leaves
    <3>5. \A a \in Left(n) : a.cap \in s.caps
      BY <1>1, <2>1, <3>3 DEF Left, Progress, PlanShape
    <3>6. Undoubted(n, led)
      BY <1>1, <2>2, <2>3, <2>4, <3>1, <3>5 DEF Undoubted, Stale
    <3> QED BY <2>2, <3>2, <3>4, <3>6 DEF Moves
  <2>5. Moves(n, led, alive) /\ n.pc # "lease"
    BY <2>2, <2>3, <2>4 DEF Moves
  <2> QED BY <1>1, <1>2, <1>3, <1>4, <2>1, <2>5, GenSpeaks
<1>6. CASE s.verb = "resume"
  <2> DEFINE token == NewToken(led, s.caps)
             still == StillPending(w)
             n == [[[s EXCEPT !.pc = "ask"] EXCEPT !.token = token] EXCEPT !.todo = still]
  <2>1. s \in ResumeRecs /\ new = n /\ ItemsOK(s) /\ Concludes(s, led, alive)
    BY <1>1, <1>3, <1>6, ByVerb DEF UnderLease, Held, To, Good, Moves
  <2> HIDE DEF token
  <2>2. /\ still \subseteq s.todo
        /\ \A i \in still : \E r \in led.pending[i.cap] : i.receipt.op = r.op
    BY DEF StillPending
  <2> HIDE DEF still
  <2>3. n.verb = "resume" /\ n.pc = "ask" /\ n.todo = still
    BY <2>1 DEF ResumeRecs
  <2> HIDE DEF n, new
  <2>4. Hand(n) = still /\ still \subseteq Hand(s)
    BY <2>2, <2>3 DEF Hand
  <2>5. ASSUME NEW i \in still PROVE Forward(i.cap, i.receipt, led)
    <3> DEFINE c == i.cap
               q == i.receipt
    <3>1. c \in Cap /\ Safe(c, q, led) /\ q.gen \in Nat
      BY <2>1, <2>4, HandOf DEF Concludes
    <3>2. PICK r \in led.pending[c] : q.op = r.op
      BY <2>2
    <3>3. Safe(c, r, led) /\ Forward(c, r, led)
      BY <1>3, <3>1 DEF Intents
    <3> HIDE DEF c, q
    <3>4. ASSUME q.kind = "create", Sought(c, q) = led.binding[c].id
          PROVE  led.binding[c].gen <= q.gen
      <4>1. PICK g \in Nat : q.op = <<c, "create", g>>
        BY <3>1, <3>4 DEF Safe
      <4>2. q.gen = AtLeastOne(g) /\ Sought(c, q) = OwnId(c, q.gen)
        BY <3>1, <3>4, <4>1 DEF Safe
      <4>3. r.kind = "create" /\ r.gen = AtLeastOne(g) /\ Sought(c, r) = OwnId(c, r.gen)
        BY <3>2, <3>3, <4>1 DEF Safe
      <4> QED BY <3>3, <3>4, <4>2, <4>3 DEF Forward
    <3>5. Forward(c, q, led)
      BY <3>4 DEF Forward
    <3> QED BY <3>5 DEF c, q
  <2>6. Concludes(n, led, alive)
    BY <2>1, <2>3, <2>4, <2>5 DEF Concludes
  <2>7. Moves(n, led, alive) /\ n.pc # "lease"
    BY <2>3, <2>6 DEF Moves
  <2> QED BY <1>1, <1>2, <1>3, <1>4, <2>1, <2>7, GenSpeaks
<1> QED BY <1>3, <1>5, <1>6 DEF Moves

----------------------------------------------------------------------------
(* The bindings. *)

(* What may be bound: what is bound already, with no news of it, or a name that is   *)
(* there, the bound one with no lesser generation or a later one, which replaces     *)
(* only earlier ones; and no open create of that name would take its generation      *)
(* back.                                                                             *)
Binds(l, al, c, bound, replaces) ==
  \/ bound = l.binding[c] /\ replaces = {}
  \/ /\ ~bound.adopted /\ bound.id \in al
     /\ \E k \in 1..bound.gen :
          /\ bound.id = OwnId(c, k)
          /\ \/ bound.id = l.binding[c].id /\ l.binding[c].gen <= bound.gen
             \/ \A j \in Nat : l.binding[c].id = OwnId(c, j) => j < k
          /\ \A id \in replaces : \E j \in Nat : id = OwnId(c, j) /\ j < k
     /\ \A q \in l.pending[c] :
          q.kind = "create" /\ Sought(c, q) = bound.id => bound.gen <= q.gen

LEMMA BindRises ==
  ASSUME GenAll, NEW w \in Worker, worker[w] # Idle, worker[w].token # 0,
         NEW c \in Cap, c \in worker[w].caps, NEW bound \in Bounds,
         NEW replaces \in SUBSET Ids, NEW tombs \in SUBSET Ids,
         NEW e, e = BindingEvent(w, c, bound, replaces, tombs), Admits(e),
         led' = Step(led, e, e.at), Binds(led, alive, c, bound, replaces)
  PROVE  /\ Rises(worker[w], led, led') /\ Named(led', alive) /\ Intents(led')
         /\ led'.binding[c] = bound /\ \A d \in Cap \ {c} : led'.binding[d] = led.binding[d]
         /\ led'.pending = led.pending
<1> DEFINE s == worker[w]
           m == Step(led, e, s.at)
<1>1. /\ LedTyped /\ Named(led, alive) /\ Intents(led) /\ s.at \in Clocks /\ bound.gen \in Nat
  BY MovesOf DEF Bounds
<1>2. /\ e.type = "binding.updated" /\ e.caps = {c} /\ e.at = s.at /\ e.token = s.token
      /\ e.bound = bound /\ e.replaces = replaces /\ e.tombs = tombs
  BY DEF BindingEvent
<1>3. Mine(s, led, c)
  BY <1>1, <1>2, BindStep
<1>4. led' = m
  BY <1>2
<1>5. /\ m.binding[c] = bound /\ \A d \in Cap \ {c} : m.binding[d] = led.binding[d]
      /\ m.pending = led.pending
      /\ m.replaced[c] = led.replaced[c] \cup replaces
      /\ \A d \in Cap \ {c} : m.replaced[d] = led.replaced[d]
  <2>1. m = Step(led, BindingEvent(w, c, bound, replaces, tombs), s.at)
    OBVIOUS
  <2> HIDE DEF m
  <2>2. Rebinding(led, Step(led, BindingEvent(w, c, bound, replaces, tombs), s.at), c, bound,
                  replaces)
    BY <1>1, BindingWrites
  <2>3. Rebinding(led, m, c, bound, replaces)
    BY <2>1, <2>2
  <2> QED BY <2>3 DEF Rebinding
<1>6. led.clock <= m.clock
  BY <1>1, <1>2, ClockGrows
<1>7. \A d \in Cap : led.decided[d] <= m.decided[d]
  <2>1. m.decided = DecidedAfter(led, e)
    BY DEF Step
  <2> QED BY <1>1, <2>1, LedFields DEF DecidedAfter
<1>8. led'.binding = m.binding /\ led'.pending = m.pending /\ led'.replaced = m.replaced
  BY <1>4
<1> HIDE DEF m
<1>9. \A d \in Cap : m.binding[d].id = led.binding[d].id /\ Clear(led, d) => Clear(m, d)
  BY <1>5 DEF Clear
<1>10. /\ \A d \in Cap : led.binding[d].gen \in Nat
       /\ \A j \in 1..bound.gen : j \in Nat
  BY <1>1, LedFields DEF Bounds
<1>11. Rises(s, led, m)
  <2>1. ASSUME NEW d \in Cap
        PROVE  \/ m.binding[d].id = led.binding[d].id /\ led.binding[d].gen <= m.binding[d].gen
               \/ \E k \in Nat : /\ m.binding[d].id = OwnId(d, k)
                                 /\ \A j \in Nat : led.binding[d].id = OwnId(d, j) => j < k
    <3>1. CASE m.binding[d] = led.binding[d]
      <4>1. led.binding[d].gen <= led.binding[d].gen
        BY <1>10
      <4> QED BY <3>1, <4>1
    <3>2. CASE m.binding[d] # led.binding[d]
      BY <1>5, <1>10, <3>2 DEF Binds
    <3> QED BY <3>1, <3>2
  <2> QED BY <1>3, <1>5, <1>6, <1>7, <1>9, <2>1 DEF Rises
<1>12. Named(m, alive)
  <2>1. ASSUME NEW d \in Cap
        PROVE  /\ ~m.binding[d].adopted
               /\ m.binding[d].id # NoRes =>
                    /\ m.binding[d].id \in alive
                    /\ \E k \in 1..m.binding[d].gen : m.binding[d].id = OwnId(d, k)
    <3>1. CASE m.binding[d] = led.binding[d]
      BY <1>1, <3>1 DEF Named
    <3>2. CASE m.binding[d] # led.binding[d]
      BY <1>5, <3>2 DEF Binds
    <3> QED BY <3>1, <3>2
  <2>2. ASSUME NEW d \in Cap, NEW id \in m.replaced[d]
        PROVE  \E j \in Nat : id = OwnId(d, j) /\ Reached(m, d, j + 1)
    <3>1. CASE id \in led.replaced[d]
      <4>1. PICK j \in Nat : id = OwnId(d, j) /\ Reached(led, d, j + 1)
        BY <1>1, <3>1 DEF Named
      <4>2. j + 1 \in Nat
        OBVIOUS
      <4> QED BY <1>11, <4>1, <4>2, ReachedKept
    <3>2. CASE id \notin led.replaced[d]
      <4>1. d = c /\ id \in replaces
        BY <1>5, <2>2, <3>2
      <4>2. PICK k \in 1..bound.gen :
              /\ bound.id = OwnId(c, k)
              /\ \A i \in replaces : \E j \in Nat : i = OwnId(c, j) /\ j < k
        BY <4>1 DEF Binds
      <4>3. PICK j \in Nat : id = OwnId(c, j) /\ j < k
        BY <4>1, <4>2
      <4>4. k \in Nat /\ j + 1 <= k
        BY <1>10, <4>3
      <4>5. Reached(m, c, j + 1)
        BY <1>5, <4>2, <4>4 DEF Reached
      <4> QED BY <4>1, <4>3, <4>5
    <3> QED BY <3>1, <3>2
  <2> QED BY <2>1, <2>2 DEF Named
<1>13. Intents(m)
  <2>1. ASSUME NEW d \in Cap, NEW q \in m.pending[d]
        PROVE  Safe(d, q, m) /\ Forward(d, q, m)
    <3>1. q \in led.pending[d] /\ Safe(d, q, led) /\ Forward(d, q, led)
      BY <1>1, <1>5, <2>1 DEF Intents
    <3>2. Safe(d, q, m)
      BY <1>11, <3>1, SafeKept
    <3>3. CASE m.binding[d] = led.binding[d]
      BY <3>1, <3>2, <3>3 DEF Forward
    <3>4. CASE m.binding[d] # led.binding[d]
      BY <1>5, <3>1, <3>2, <3>4 DEF Forward, Binds
    <3> QED BY <3>3, <3>4
  <2> QED BY <2>1 DEF Intents
<1>14. \A t : Rises(t, led, m) => Rises(t, led, led')
  BY <1>4 DEF m
<1>15. Named(led', alive) /\ Intents(led')
  BY <1>4, <1>12, <1>13 DEF m
<1> QED BY <1>5, <1>8, <1>11, <1>14, <1>15

(* What apply binds after an action that succeeded. *)
LEMMA SuccessBinds ==
  ASSUME GenAll, NEW w \in Worker, At(w, "apply", "settle"),
         worker[w].reply.status = "succeeded", worker[w].cur.op # "claim",
         NEW e, Admits(e), e.at = worker[w].at
  PROVE  LET a == worker[w].cur
             bound == BindingOf(w, a) IN
         /\ Binds(led, alive, a.cap, bound, {a.old} \ {NoRes})
         /\ a.op = "create" => bound.id = OwnId(a.cap, AtLeastOne(a.gen))
<1> DEFINE s == worker[w]
           a == s.cur
           c == a.cap
           g == AtLeastOne(a.gen)
           cur == led.binding[c]
           bound == BindingOf(w, a)
<1>1. /\ s # Idle /\ s \in ApplyRecs /\ s.verb = "apply" /\ s.pc = "settle"
      /\ PlanShape(s) /\ Progress(s)
  BY Applying DEF GenAll, Working
<1>2. /\ Named(led, alive) /\ Intents(led) /\ LedTyped
      /\ Leads(s, led) /\ Leaves(s, led, alive) /\ Undoubted(s, led)
  BY <1>1, MovesOf DEF Moves
<1>3. a \in s.plan /\ a \in Actions /\ c \in Cap /\ a \in Left(s) /\ s.reply.id = a.id
  BY <1>1 DEF Progress, ApplyRecs, Actions, Left, GenAll
<1>4. /\ ~(s.at < led.clock)
      /\ a.op \in {"create", "update"} => cur.id = s.bound[c]
  <2>1. At(w, "apply", s.pc) /\ s.pc \in Working
    BY <1>1 DEF At, Working
  <2> QED BY <1>3, <2>1, WritesInForce
<1>5. g \in Nat /\ g >= 1 /\ a.gen \in Nat /\ cur \in Bounds /\ cur.gen \in Nat
  BY <1>2, <1>3, GenTyped, LedFields DEF Actions, Bounds
<1>6. /\ a.op # "delete" => /\ bound.id = a.id /\ ~bound.adopted
                            /\ bound.gen = IF a.gen >= 1 THEN a.gen
                                           ELSE IF cur.id = NoRes THEN 1 ELSE cur.gen + 1
      /\ a.op = "delete" => bound = IF cur.id \in {NoRes, a.id} THEN Unbound ELSE cur
  BY <1>3 DEF BindingOf
<1>7. a.gen >= 1 => g = a.gen
  BY DEF AtLeastOne
<1>8. a.gen = 0 => g = 1
  BY DEF AtLeastOne
<1> HIDE DEF bound, g, cur
<1>9. ASSUME a.op = "create"
      PROVE  Binds(led, alive, c, bound, {a.old} \ {NoRes}) /\ bound.id = OwnId(c, g)
  <2>1. /\ a.id = OwnId(c, g) /\ a.old = s.bound[c] /\ (a.gen = 0 => a.old = NoRes)
        /\ \A j \in Nat : a.old = OwnId(c, j) => j < g
    BY <1>2, <1>3, <1>9 DEF Leads, g
  <2>2. cur.id = a.old
    BY <1>4, <1>9, <2>1
  <2>3. bound.id = OwnId(c, g) /\ ~bound.adopted /\ bound.gen = g
    BY <1>5, <1>6, <1>7, <1>8, <1>9, <2>1, <2>2
  <2>4. a.id \in alive \/ Reached(led, c, g + 1)
    BY <1>1, <1>2, <1>9 DEF Leaves, g
  <2>5. ~Reached(led, c, g + 1)
    <3> SUFFICES ASSUME NEW k \in Nat, cur.id = OwnId(c, k), g + 1 <= k PROVE FALSE
      BY DEF Reached, cur
    <3>1. k < g
      BY <2>1, <2>2
    <3> QED BY <1>5, <3>1
  <2>6. \A q \in led.pending[c] : q.kind = "create" /\ Sought(c, q) = bound.id => bound.gen <= q.gen
    <3> SUFFICES ASSUME NEW q \in led.pending[c], q.kind = "create", Sought(c, q) = OwnId(c, g)
                 PROVE  g <= q.gen
      BY <2>3
    <3>1. q.gen \in Nat
      BY <1>2, <1>3, LedFields DEF Receipts
    <3>2. Safe(c, q, led)
      BY <1>2, <1>3 DEF Intents
    <3>3. Sought(c, q) = OwnId(c, q.gen)
      <4>1. PICK h \in Nat : q.op = <<c, "create", h>>
        BY <3>2 DEF Safe
      <4> QED BY <3>2 DEF Safe
    <3>4. g = q.gen
      BY <1>3, <1>5, <3>1, <3>3, NamesApart
    <3> QED BY <1>5, <3>4
  <2>7. ASSUME NEW id \in {a.old} \ {NoRes}
        PROVE  \E j \in Nat : id = OwnId(c, j) /\ j < g
    <3>1. PICK j \in 1..cur.gen : cur.id = OwnId(c, j)
      BY <1>2, <1>3, <2>2, <2>7 DEF Named, cur
    <3>2. j \in Nat
      BY <1>5
    <3> QED BY <2>1, <2>2, <2>7, <3>1, <3>2
  <2>8. g \in 1..bound.gen
    BY <1>5, <2>3
  <2>9. \A j \in Nat : led.binding[c].id = OwnId(c, j) => j < g
    BY <2>1, <2>2 DEF cur
  <2>10. bound.id \in alive
    BY <2>1, <2>3, <2>4, <2>5
  <2>11. Binds(led, alive, c, bound, {a.old} \ {NoRes})
    BY ONLY <2>3, <2>6, <2>7, <2>8, <2>9, <2>10 DEF Binds
  <2> QED BY <2>3, <2>11
<1>10. ASSUME a.op = "update"
       PROVE  Binds(led, alive, c, bound, {a.old} \ {NoRes})
  <2>1. a.gen = 0 /\ a.old = NoRes /\ a.id = s.bound[c] /\ Clear(led, c)
    BY <1>1, <1>2, <1>3, <1>4, <1>10 DEF Leads, PlanShape, Undoubted, Working
  <2>2. cur.id = a.id /\ a.id # NoRes
    BY <1>3, <1>4, <1>10, <2>1, ExecutorAssumption DEF Actions, Ids, ExecutorAssumption
  <2>3. bound.id = cur.id /\ ~bound.adopted /\ bound.gen = cur.gen + 1
    BY <1>5, <1>6, <1>10, <2>1, <2>2
  <2>4. cur.id \in alive /\ \E k \in 1..cur.gen : cur.id = OwnId(c, k)
    BY <1>2, <1>3, <2>2 DEF Named, cur
  <2>5. PICK k \in 1..cur.gen : cur.id = OwnId(c, k)
    BY <2>4
  <2>6. k \in 1..bound.gen /\ cur.gen <= bound.gen
    BY <1>5, <2>3, <2>5
  <2>7. \A q \in led.pending[c] : ~(q.kind = "create" /\ Sought(c, q) = bound.id)
    BY <2>1, <2>3 DEF Clear, cur
  <2>8. {a.old} \ {NoRes} = {}
    BY <2>1
  <2>9. Binds(led, alive, c, bound, {})
    BY <2>3, <2>4, <2>5, <2>6, <2>7 DEF Binds, cur
  <2> QED BY <2>8, <2>9
<1>11. ASSUME a.op = "delete"
       PROVE  Binds(led, alive, c, bound, {a.old} \ {NoRes})
  <2>1. a.old = NoRes
    BY <1>2, <1>3, <1>11 DEF Leads
  <2>2. PICK j \in Nat : a.id = OwnId(c, j) /\ Reached(led, c, j + 1)
    BY <1>1, <1>2, <1>11 DEF Leaves
  <2>3. PICK k \in Nat : cur.id = OwnId(c, k) /\ j + 1 <= k
    BY <2>2 DEF Reached, cur
  <2>4. k # j
    BY <2>3
  <2>5. cur.id # NoRes /\ cur.id # a.id
    BY <1>3, <2>2, <2>3, <2>4, NamesApart
  <2>6. bound = cur /\ {a.old} \ {NoRes} = {}
    BY <1>6, <1>11, <2>1, <2>5
  <2> QED BY <2>6 DEF Binds, cur
<1>12. a.op \in {"create", "update", "delete"}
  BY <1>3 DEF Actions, Ops
<1> QED BY <1>9, <1>10, <1>11, <1>12 DEF bound, g

LEMMA GenSettleSuccess ==
  ASSUME GenAll, NEW w \in Worker, SettleSuccess(w)
  PROVE  GenInv' /\ Advances
<1> DEFINE s == worker[w]
           a == s.cur
           c == a.cap
           bound == BindingOf(w, a)
           replaces == {a.old} \ {NoRes}
           tombs == IF a.op = "delete" THEN {a.id} ELSE {}
           e == BindingEvent(w, c, bound, replaces, tombs)
           new == To(w, "conclude")
<1>1. At(w, "apply", "settle") /\ s.reply.status = "succeeded" /\ UNCHANGED alive
  BY DEF SettleSuccess, world
<1>2. /\ s # Idle /\ s \in ApplyRecs /\ s.verb = "apply" /\ s.pc = "settle" /\ s.token # 0
      /\ PlanShape(s) /\ Progress(s) /\ LedTyped
  BY <1>1, Applying DEF GenAll, Working
<1>3. /\ s.at \in Clocks /\ led \in LedRecs
      /\ Leads(s, led) /\ Leaves(s, led, alive) /\ Undoubted(s, led)
  BY <1>2, MovesOf DEF Moves, LedTyped
<1>4. /\ a \in s.plan \ s.todo /\ a \in Actions /\ c \in Cap /\ c \in s.caps /\ a.op # "claim"
      /\ s.reply \in Replies
  BY <1>2, <1>3 DEF Progress, ApplyRecs, Actions, PlanShape, Leads
<1>5. AppendOr(e, w, new, Idle)
  BY <1>4 DEF SettleSuccess, Written
<1>6. bound \in Bounds /\ replaces \in SUBSET Ids /\ tombs \in SUBSET Ids
  BY <1>2, <1>4, BindingTyped DEF Actions
<1>7. e.at = s.at /\ e = BindingEvent(w, c, bound, replaces, tombs)
  BY DEF BindingEvent
<1>8. /\ new \in ApplyRecs /\ new.verb = "apply" /\ new.pc = "conclude" /\ new.caps = s.caps
      /\ new.at = s.at /\ new.plan = s.plan /\ new.todo = s.todo /\ new.failed = s.failed
      /\ new.cur = a /\ new.bound = s.bound
  BY <1>2 DEF ApplyRecs, To
<1> HIDE DEF e, new
<1>9. ASSUME Admits(e)
      PROVE  /\ Binds(led, alive, c, bound, replaces)
             /\ a.op = "create" => bound.id = OwnId(c, AtLeastOne(a.gen))
  BY <1>1, <1>4, <1>7, <1>9, SuccessBinds
<1> HIDE DEF bound, replaces, tombs
<1>10. ASSUME Admits(e), led' = Step(led, e, e.at), Become(w, new)
       PROVE  GenInv' /\ Advances
  <2>1. /\ Rises(s, led, led') /\ Named(led', alive) /\ Intents(led')
        /\ led'.binding[c] = bound /\ \A d \in Cap \ {c} : led'.binding[d] = led.binding[d]
        /\ led'.pending = led.pending
    BY <1>2, <1>4, <1>6, <1>7, <1>9, <1>10, BindRises
  <2>2. Spares(led', alive, alive)
    BY DEF Spares
  <2>3. Leads(s, led') /\ Leaves(s, led', alive)
    <3>1. s.caps \subseteq Cap
      BY <1>2 DEF ApplyRecs, CapSets
    <3> QED BY <1>2, <1>3, <2>1, <2>2, <3>1, LeadsKept, LeavesKept
  <2>4. Leads(new, led')
    BY <1>8, <2>3 DEF Leads
  <2>5. Leaves(new, led', alive)
    <3>1. ASSUME NEW b \in new.plan \ (Left(new) \cup new.failed), b.op = "create"
          PROVE  Reached(led', b.cap, AtLeastOne(b.gen))
      <4>1. CASE b = a
        <5>1. led'.binding[c].id = OwnId(c, AtLeastOne(a.gen)) /\ AtLeastOne(a.gen) \in Nat
          BY <1>4, <1>9, <1>10, <2>1, <3>1, <4>1, GenTyped
        <5>2. AtLeastOne(a.gen) <= AtLeastOne(a.gen)
          BY <5>1
        <5> QED BY <4>1, <5>1, <5>2 DEF Reached
      <4>2. CASE b # a
        <5>1. b \in s.plan \ (Left(s) \cup s.failed)
          BY <1>2, <1>8, <3>1, <4>2 DEF Left
        <5> QED BY <2>3, <3>1, <5>1 DEF Leaves
      <4> QED BY <4>1, <4>2
    <3>2. a.op = "delete" => \E j \in Nat : a.id = OwnId(c, j) /\ Reached(led', c, j + 1)
      BY <1>2, <2>3 DEF Leaves
    <3> QED BY <1>8, <3>1, <3>2 DEF Leaves
  <2>6. Undoubted(new, led')
    <3>1. ASSUME ~(s.at < led'.clock), NEW b \in s.todo, b.op = "update"
          PROVE  Clear(led', b.cap)
      <4>1. b \in s.plan /\ b # a /\ b.cap \in Cap /\ b \in Left(s)
        <5>1. b \in s.plan /\ s.plan \subseteq Actions
          BY <1>2, <3>1 DEF Progress, ApplyRecs
        <5> QED BY <1>4, <3>1, <5>1 DEF Actions, Left
      <4>2. b.cap # c
        BY <1>2, <1>4, <3>1, <4>1 DEF PlanShape
      <4>3. ~(s.at < led.clock)
        BY <1>7, <1>10 DEF Admits, Regresses
      <4>4. Clear(led, b.cap)
        BY <1>2, <3>1, <4>1, <4>3, <1>3 DEF Undoubted, Working
      <4> QED BY <2>1, <4>1, <4>2, <4>4 DEF Clear
    <3>2. Left(new) = s.todo
      BY <1>8 DEF Left
    <3> QED BY <1>8, <3>1, <3>2 DEF Undoubted, Working
  <2>7. Moves(new, led', alive')
    <3>1. Moves(new, led', alive)
      BY <1>8, <2>4, <2>5, <2>6 DEF Moves
    <3> QED BY <1>1, <3>1
  <2>8. Named(led', alive') /\ Spares(led', alive, alive')
    BY <1>1, <2>1, <2>2
  <2> QED BY <1>2, <1>10, <2>1, <2>7, <2>8, GenMoves DEF GenAll, Advances
<1>11. ASSUME ~Admits(e), UNCHANGED led, Become(w, Idle)
       PROVE  GenInv' /\ Advances
  BY <1>1, <1>11, GenStill
<1> QED BY <1>5, <1>10, <1>11 DEF AppendOr

----------------------------------------------------------------------------
(* What a resume concludes. *)

(* What a resume becomes without having written. *)
LEMMA ResumeMoves ==
  ASSUME NEW s, NEW n, s.verb = "resume", n.verb = "resume", n.at = s.at,
         s.pc \in {"ask", "settle", "conclude"}, n.pc # "lease", Hand(n) \subseteq Hand(s),
         NEW l, NEW al, Moves(s, l, al),
         n.pc = "settle" /\ n.verdict = "succeeded" /\ n.cur.receipt.kind = "create" =>
           \/ Sought(n.cur.cap, n.cur.receipt) \in al
           \/ Reached(l, n.cur.cap, n.cur.receipt.gen + 1)
  PROVE  Moves(n, l, al)
<1>1. Concludes(s, l, al)
  BY DEF Moves
<1>2. Concludes(n, l, al)
  BY <1>1 DEF Concludes
<1> QED BY <1>2 DEF Moves

LEMMA GenAsk ==
  ASSUME GenAll, NEW w \in Worker, Ask(w)
  PROVE  GenInv' /\ Advances
<1> DEFINE s == worker[w]
<1>1. At(w, "resume", "ask") /\ UNCHANGED <<led, alive>>
  BY DEF Ask, world
<1>2. PICK item \in s.todo, verdict \in {"unknown", "succeeded", "failed"} :
        /\ verdict \in Verdicts(item.cap, item.receipt)
        /\ Become(w, IF verdict = "unknown"
                     THEN [worker[w] EXCEPT !.todo = @ \ {item}]
                     ELSE [To(w, "settle") EXCEPT !.todo = @ \ {item}, !.cur = item,
                                                  !.verdict = verdict])
  BY DEF Ask
<1>3. s # Idle /\ s \in ResumeRecs /\ s.verb = "resume" /\ s.pc = "ask"
  BY <1>1, Resuming DEF GenAll
<1>4. Moves(s, led, alive) /\ Hand(s) = s.todo
  BY <1>3, MovesOf DEF Hand
<1>5. CASE verdict = "unknown"
  <2> DEFINE new == [worker[w] EXCEPT !.todo = @ \ {item}]
  <2>1. new.verb = "resume" /\ new.pc = "ask" /\ new.at = s.at /\ new.todo = s.todo \ {item}
    BY <1>3 DEF ResumeRecs
  <2>2. Become(w, new)
    BY <1>2, <1>5
  <2> HIDE DEF new
  <2>3. Hand(new) \subseteq Hand(s)
    BY <1>4, <2>1 DEF Hand
  <2>4. Moves(new, led, alive)
    BY <1>3, <1>4, <2>1, <2>3, ResumeMoves
  <2> QED BY <1>1, <2>2, <2>4, GenStill
<1>6. CASE verdict # "unknown"
  <2> DEFINE new == [To(w, "settle") EXCEPT !.todo = @ \ {item}, !.cur = item,
                                            !.verdict = verdict]
  <2>1. /\ new.verb = "resume" /\ new.pc = "settle" /\ new.at = s.at
        /\ new.todo = s.todo \ {item} /\ new.cur = item /\ new.verdict = verdict
    BY <1>3 DEF ResumeRecs, To
  <2>2. Become(w, new)
    BY <1>2, <1>6
  <2> HIDE DEF new
  <2>3. Hand(new) \subseteq Hand(s)
    BY <1>4, <2>1 DEF Hand
  <2>4. verdict = "succeeded" /\ item.receipt.kind = "create" =>
          Sought(item.cap, item.receipt) \in alive
    BY <1>2 DEF Verdicts
  <2>5. Moves(new, led, alive)
    BY <1>3, <1>4, <2>1, <2>3, <2>4, ResumeMoves
  <2> QED BY <1>1, <2>2, <2>5, GenStill
<1> QED BY <1>5, <1>6

LEMMA GenAllAsked ==
  ASSUME GenAll, NEW w \in Worker, AllAsked(w)
  PROVE  GenInv' /\ Advances
<1>1. /\ At(w, "resume", "ask") /\ UNCHANGED <<led, alive>> /\ Become(w, To(w, "release"))
  BY DEF AllAsked, world
<1>2. worker[w] # Idle
  BY <1>1, Resuming DEF GenAll
<1>3. Moves(To(w, "release"), led, alive)
  BY <1>2, MovesOf, OverMoves DEF To
<1> QED BY <1>1, <1>3, GenStill

LEMMA AnsweredMoves ==
  ASSUME GenAll, NEW w \in Worker, NEW pc \in {"settle", "conclude"}, At(w, "resume", pc)
  PROVE  /\ worker[w] # Idle /\ CapOf(w) \in Cap /\ ItemOf(w) \in Receipts
         /\ Answered(w).pc # "lease" /\ Moves(Answered(w), led, alive)
         /\ Moves(Stopped(w), led, alive)
<1> DEFINE s == worker[w]
           new == Answered(w)
<1>1. s # Idle /\ s \in ResumeRecs /\ s.verb = "resume" /\ s.pc = pc
  BY Resuming DEF GenAll
<1>2. Moves(s, led, alive)
  BY <1>1, MovesOf
<1>3. CapOf(w) \in Cap /\ ItemOf(w) \in Receipts
  BY ItemTyped DEF GenAll
<1>4. new.verb = "resume" /\ new.pc = "ask" /\ new.at = s.at /\ new.todo = s.todo
  BY <1>1 DEF ResumeRecs, Answered, To
<1>5. Moves(Stopped(w), led, alive)
  <2>1. Stopped(w) = [s EXCEPT !.pc = "release"]
    BY <1>1 DEF Stopped, To
  <2> QED BY <1>1, <1>2, <2>1, OverMoves
<1> HIDE DEF new
<1>6. Hand(new) \subseteq Hand(s)
  BY <1>4 DEF Hand
<1>7. Moves(new, led, alive)
  BY <1>1, <1>2, <1>4, <1>6, ResumeMoves
<1> QED BY <1>1, <1>3, <1>4, <1>5, <1>7 DEF new

LEMMA GenClosed ==
  ASSUME GenAll, NEW w \in Worker, CloseOnly(w) \/ Close(w)
  PROVE  GenInv' /\ Advances
<1>1. CASE CloseOnly(w)
  <2> DEFINE status == worker[w].verdict
  <2>1. /\ At(w, "resume", "settle") /\ UNCHANGED alive
        /\ AppendOr(ReceiptEvent(w, CapOf(w), status, ItemOf(w)), w, Answered(w), Stopped(w))
    BY <1>1 DEF CloseOnly, world
  <2>2. status \notin PendingStatuses
    <3>1. worker[w] \in ResumeRecs
      BY <2>1, Resuming DEF GenAll
    <3> QED BY <3>1 DEF ResumeRecs, PendingStatuses
  <2> HIDE DEF status
  <2>3. /\ worker[w] # Idle /\ CapOf(w) \in Cap /\ ItemOf(w) \in Receipts
        /\ Answered(w).pc # "lease" /\ Moves(Answered(w), led, alive)
        /\ Moves(Stopped(w), led, alive)
    BY <2>1, AnsweredMoves
  <2> QED BY <2>1, <2>2, <2>3, GenCloses
<1>2. CASE Close(w)
  <2> DEFINE status == "succeeded"
  <2>1. /\ At(w, "resume", "conclude") /\ UNCHANGED alive
        /\ AppendOr(ReceiptEvent(w, CapOf(w), status, ItemOf(w)), w, Answered(w), Stopped(w))
    BY <1>2 DEF Close, world
  <2>2. status \notin PendingStatuses
    BY DEF PendingStatuses
  <2> HIDE DEF status
  <2>3. /\ worker[w] # Idle /\ CapOf(w) \in Cap /\ ItemOf(w) \in Receipts
        /\ Answered(w).pc # "lease" /\ Moves(Answered(w), led, alive)
        /\ Moves(Stopped(w), led, alive)
    BY <2>1, AnsweredMoves
  <2> QED BY <2>1, <2>2, <2>3, GenCloses
<1> QED BY <1>1, <1>2

(* A name that a create was after. *)
LEMMA NameOf ==
  ASSUME NEW c \in Cap, NEW r, NEW l, Safe(c, r, l), r.kind = "create", r.gen \in Nat
  PROVE  Sought(c, r) = OwnId(c, r.gen) /\ r.gen >= 1
<1>1. PICK g \in Nat : r.op = <<c, "create", g>>
  BY DEF Safe
<1>2. r.gen = AtLeastOne(g) /\ Sought(c, r) = OwnId(c, r.gen)
  BY <1>1 DEF Safe
<1> QED BY <1>1, <1>2 DEF AtLeastOne

(* What a resume binds, and that what it has in hand still goes forward from there. *)
LEMMA ProjectionBinds ==
  ASSUME GenAll, NEW w \in Worker, At(w, "resume", "settle"), Completes(w),
         NEW e, Admits(e), e.at = worker[w].at
  PROVE  LET c == CapOf(w)
             bound == ProjectionOf(w) IN
         /\ Binds(led, alive, c, bound, {})
         /\ \A i \in Hand(worker[w]) :
              i.cap = c /\ i.receipt.kind = "create" /\ Sought(c, i.receipt) = bound.id
                => bound.gen <= i.receipt.gen
<1> DEFINE s == worker[w]
           c == CapOf(w)
           r == ItemOf(w)
           id == TargetOf(w)
           cur == led.binding[c]
           bound == ProjectionOf(w)
           Behind == \A i \in Hand(s) :
                       i.cap = c /\ i.receipt.kind = "create" /\ Sought(c, i.receipt) = bound.id
                         => bound.gen <= i.receipt.gen
<1>1. s # Idle /\ s \in ResumeRecs /\ s.verb = "resume" /\ s.pc = "settle" /\ ItemsOK(s)
  BY Resuming DEF GenAll
<1>2. Concludes(s, led, alive) /\ Named(led, alive) /\ Intents(led) /\ LedTyped
  BY <1>1, MovesOf DEF Moves
<1>3. /\ c \in Cap /\ r \in Receipts /\ r.kind \in {"create", "update", "delete"} /\ r.gen \in Nat
      /\ id = Sought(c, r) /\ s.cur \in Hand(s) /\ c = s.cur.cap /\ r = s.cur.receipt
  BY <1>1, ItemTyped DEF GenAll, Receipts, TargetOf, Hand, CapOf, ItemOf
<1>4. Safe(c, r, led) /\ cur \in Bounds /\ cur.gen \in Nat
  BY <1>2, <1>3, LedFields DEF Concludes, Bounds
<1>5. \A i \in Hand(s) : Forward(i.cap, i.receipt, led)
  BY <1>1, <1>2 DEF Concludes, Admits, Regresses
<1>6. s.verdict = "succeeded" /\ ~Rebound(w)
  BY DEF Completes
<1>7. \A i \in Hand(s) : i.receipt.gen \in Nat
  BY <1>1, HandOf
<1>8. ASSUME r.kind = "create" PROVE Binds(led, alive, c, bound, {}) /\ Behind
  <2> DEFINE g == r.gen
  <2>1. id = OwnId(c, g) /\ g >= 1 /\ g \in Nat
    BY <1>3, <1>4, <1>8, NameOf
  <2>2. bound.id = id /\ bound.gen = g /\ ~bound.adopted
    BY <1>8 DEF ProjectionOf
  <2>3. cur.id = NoRes \/ cur.id = id
    BY <1>6, <1>8 DEF Rebound, Bound
  <2>4. id \in alive \/ Reached(led, c, g + 1)
    BY <1>1, <1>2, <1>3, <1>6, <1>8 DEF Concludes
  <2>5. cur.id = id => cur.gen <= g
    BY <1>3, <1>5, <1>8 DEF Forward
  <2> HIDE DEF g, bound, id, cur
  <2>6. ~Reached(led, c, g + 1)
    <3> SUFFICES ASSUME NEW k \in Nat, cur.id = OwnId(c, k), g + 1 <= k PROVE FALSE
      BY DEF Reached, cur
    <3>1. cur.id = OwnId(c, g)
      BY <1>3, <2>1, <2>3, NamesApart
    <3>2. k = g
      BY <1>3, <2>1, <3>1, NamesApart
    <3> QED BY <2>1, <3>2
  <2>7. \/ cur.id = id /\ cur.gen <= g
        \/ \A j \in Nat : cur.id = OwnId(c, j) => j < g
    BY <1>3, <2>3, <2>5, NamesApart
  <2>8. \A q \in led.pending[c] : q.kind = "create" /\ Sought(c, q) = id => g <= q.gen
    <3> SUFFICES ASSUME NEW q \in led.pending[c], q.kind = "create", Sought(c, q) = OwnId(c, g)
                 PROVE  g <= q.gen
      BY <2>1
    <3>1. q.gen \in Nat /\ Safe(c, q, led)
      BY <1>2, <1>3, LedFields DEF Receipts, Intents
    <3>2. g = q.gen
      BY <1>3, <2>1, <3>1, NameOf, NamesApart
    <3> QED BY <2>1, <3>2
  <2>9. ASSUME NEW i \in Hand(s), i.cap = c, i.receipt.kind = "create", Sought(c, i.receipt) = id
        PROVE  g <= i.receipt.gen
    <3>1. i.receipt.gen \in Nat /\ Safe(c, i.receipt, led)
      BY <1>2, <1>7, <2>9 DEF Concludes
    <3>2. g = i.receipt.gen
      BY <1>3, <2>1, <2>9, <3>1, NameOf, NamesApart
    <3> QED BY <2>1, <3>2
  <2>10. g \in 1..bound.gen
    BY <2>1, <2>2
  <2>11. Binds(led, alive, c, bound, {})
    BY <2>1, <2>2, <2>4, <2>6, <2>7, <2>8, <2>10 DEF Binds, cur
  <2> QED BY <2>2, <2>9, <2>11
<1>9. ASSUME r.kind = "update" PROVE Binds(led, alive, c, bound, {}) /\ Behind
  <2>1. id = r.target /\ cur.id = id
    BY <1>3, <1>6, <1>9 DEF Rebound, Bound, Sought
  <2>2. id # NoRes
    BY <1>3, <1>9, <2>1, ExecutorAssumption DEF Receipts, Ids, ExecutorAssumption
  <2>3. cur.id \in alive /\ \E k \in 1..cur.gen : cur.id = OwnId(c, k)
    BY <1>2, <1>3, <2>1, <2>2 DEF Named
  <2>4. PICK k \in 1..cur.gen : cur.id = OwnId(c, k)
    BY <2>3
  <2>5. bound.id = id /\ bound.gen = cur.gen + 1 /\ ~bound.adopted
    BY <1>4, <1>9, <2>4 DEF ProjectionOf
  <2> HIDE DEF bound, id
  <2>6. \A j \in Nat : ~(r.target = OwnId(c, j) /\ Reached(led, c, j + 1))
    <3> SUFFICES ASSUME NEW j \in Nat, cur.id = OwnId(c, j), NEW i \in Nat,
                        cur.id = OwnId(c, i), j + 1 <= i
                 PROVE  FALSE
      BY <2>1 DEF Reached
    <3>1. i = j
      BY <1>3, NamesApart
    <3> QED BY <3>1
  <2>7. Clear(led, c)
    BY <1>4, <1>9, <2>6 DEF Safe
  <2>8. \A q \in led.pending[c] : ~(q.kind = "create" /\ Sought(c, q) = bound.id)
    BY <2>1, <2>5, <2>7 DEF Clear
  <2>9. ASSUME NEW i \in Hand(s), i.cap = c, i.receipt.kind = "create"
        PROVE  Sought(c, i.receipt) # bound.id
    BY <1>2, <1>3, <1>9, <2>1, <2>5, <2>6, <2>9 DEF Concludes
  <2>10. k \in 1..bound.gen /\ cur.gen <= bound.gen
    BY <1>4, <2>4, <2>5
  <2>11. Binds(led, alive, c, bound, {})
    BY <2>1, <2>3, <2>4, <2>5, <2>8, <2>10 DEF Binds
  <2> QED BY <2>9, <2>11
<1>10. ASSUME r.kind = "delete" PROVE Binds(led, alive, c, bound, {}) /\ Behind
  <2>1. PICK j \in Nat : r.target = OwnId(c, j) /\ Reached(led, c, j + 1)
    BY <1>4, <1>10 DEF Safe
  <2>2. id = r.target
    BY <1>3, <1>10 DEF Sought
  <2>3. PICK k \in Nat : cur.id = OwnId(c, k) /\ j + 1 <= k
    BY <2>1 DEF Reached
  <2>4. k # j
    BY <2>3
  <2>5. cur.id # id
    BY <1>3, <2>1, <2>2, <2>3, <2>4, NamesApart
  <2>6. bound = cur
    BY <1>10, <2>5 DEF ProjectionOf
  <2>7. Behind
    BY <1>5, <2>6 DEF Forward
  <2> QED BY <2>6, <2>7 DEF Binds
<1> HIDE DEF bound, c
<1>11. Binds(led, alive, c, bound, {}) /\ Behind
  BY <1>3, <1>8, <1>9, <1>10
<1> QED BY <1>11 DEF bound, c

LEMMA GenProject ==
  ASSUME GenAll, NEW w \in Worker, Project(w)
  PROVE  GenInv' /\ Advances
<1> DEFINE s == worker[w]
           c == CapOf(w)
           bound == ProjectionOf(w)
           none == {}
           tombs == IF ItemOf(w).kind = "delete" THEN {TargetOf(w)} ELSE {}
           e == BindingEvent(w, c, bound, none, tombs)
           new == To(w, "conclude")
<1>1. /\ At(w, "resume", "settle") /\ Completes(w) /\ UNCHANGED alive
      /\ AppendOr(e, w, new, Stopped(w))
  BY DEF Project, world
<1>2. /\ s # Idle /\ s \in ResumeRecs /\ s.verb = "resume" /\ s.pc = "settle" /\ s.token # 0
      /\ ItemsOK(s) /\ Good(s, led) /\ LedTyped /\ s.at \in Clocks
  BY <1>1, Resuming DEF GenAll
<1>3. Concludes(s, led, alive) /\ led \in LedRecs
  BY <1>2, MovesOf DEF Moves, LedTyped
<1>4. c \in Cap /\ c \in s.caps /\ ItemOf(w) \in Receipts /\ TargetOf(w) \in Ids
      /\ ItemOf(w).kind \in {"create", "update", "delete"}
  BY <1>1, ItemTyped DEF GenAll
<1>5. bound \in Bounds
  <2>1. led.binding[c] \in Bounds /\ ItemOf(w).gen \in Nat
    BY <1>2, <1>4, LedFields DEF Receipts
  <2> QED BY <1>4, <2>1 DEF ProjectionOf, Bounds, Unbound
<1>6. tombs \in SUBSET Ids /\ none \in SUBSET Ids /\ none = {}
  BY <1>4
<1>7. e.at = s.at /\ e = BindingEvent(w, c, bound, none, tombs)
  BY DEF BindingEvent
<1>8. /\ new.verb = "resume" /\ new.pc = "conclude" /\ new.at = s.at /\ new.todo = s.todo
      /\ new.cur = s.cur
  BY <1>2 DEF ResumeRecs, To
<1> HIDE DEF e, new
<1>9. ASSUME Admits(e)
      PROVE  /\ Binds(led, alive, c, bound, none)
             /\ \A i \in Hand(s) :
                  i.cap = c /\ i.receipt.kind = "create" /\ Sought(c, i.receipt) = bound.id
                    => bound.gen <= i.receipt.gen
  BY <1>1, <1>7, <1>9, ProjectionBinds
<1> HIDE DEF bound, tombs, c, none
<1>10. ASSUME Admits(e), led' = Step(led, e, e.at), Become(w, new)
       PROVE  GenInv' /\ Advances
  <2>1. /\ Rises(s, led, led') /\ Named(led', alive) /\ Intents(led')
        /\ led'.binding[c] = bound /\ \A d \in Cap \ {c} : led'.binding[d] = led.binding[d]
    BY <1>2, <1>4, <1>5, <1>6, <1>7, <1>9, <1>10, BindRises
  <2>2. Spares(led', alive, alive)
    BY DEF Spares
  <2>3. Hand(new) = Hand(s) /\ \A i \in Hand(s) : i.cap \in Cap
    BY <1>2, <1>8, HandOf DEF Hand
  <2>4. \A i \in Hand(s) : Safe(i.cap, i.receipt, led')
    BY <1>3, <2>1, <2>3, SafeKept DEF Concludes
  <2>5. ASSUME NEW i \in Hand(s) PROVE Forward(i.cap, i.receipt, led')
    <3>1. Forward(i.cap, i.receipt, led)
      BY <1>2, <1>3, <1>7, <1>10 DEF Concludes, Admits, Regresses
    <3>2. CASE i.cap = c
      BY <1>9, <1>10, <2>1, <3>2 DEF Forward
    <3>3. CASE i.cap # c
      BY <2>1, <2>3, <3>1, <3>3 DEF Forward
    <3> QED BY <3>2, <3>3
  <2>6. ASSUME NEW u \in Hand(s), NEW q \in Hand(s),
               u.cap = q.cap, u.receipt.kind = "update", q.receipt.kind = "create"
        PROVE  \/ Sought(q.cap, q.receipt) # u.receipt.target
               \/ \E j \in Nat : u.receipt.target = OwnId(u.cap, j) /\ Reached(led', u.cap, j + 1)
    <3>1. ASSUME NEW j \in Nat, Reached(led, u.cap, j + 1) PROVE Reached(led', u.cap, j + 1)
      <4>1. j + 1 \in Nat
        OBVIOUS
      <4> QED BY <2>1, <2>3, <3>1, <4>1, ReachedKept
    <3> QED BY <1>3, <2>6, <3>1 DEF Concludes
  <2>7. Concludes(new, led', alive)
    BY <1>8, <2>3, <2>4, <2>5, <2>6 DEF Concludes
  <2>8. Moves(new, led', alive)
    BY <1>8, <2>7 DEF Moves
  <2>9. Moves(new, led', alive') /\ Named(led', alive') /\ Spares(led', alive, alive')
    BY <1>1, <2>1, <2>2, <2>8
  <2> QED BY <1>2, <1>10, <2>1, <2>9, GenMoves DEF GenAll, Advances
<1>11. ASSUME ~Admits(e), UNCHANGED led, Become(w, Stopped(w))
       PROVE  GenInv' /\ Advances
  <2>1. Moves(Stopped(w), led, alive)
    BY <1>1, AnsweredMoves
  <2> QED BY <1>1, <1>11, <2>1, GenStill
<1> QED BY <1>1, <1>10, <1>11 DEF AppendOr

----------------------------------------------------------------------------
(* Every step. *)

(* Nobody moves, and the ledger no more than an observation. *)
LEMMA GenAround ==
  ASSUME GenAll, UNCHANGED <<worker, alive>>, Spoken(led, led'), Intents(led')
  PROVE  GenInv' /\ Advances
<1> DEFINE s == [token |-> 0]
<1>1. s.token = 0
  OBVIOUS
<1> HIDE DEF s
<1>2. led \in LedRecs /\ led' \in LedRecs
  BY DEF GenAll, ExecInv, LedTyped
<1>3. Rises(s, led, led') /\ Spares(led', alive, alive') /\ Named(led', alive')
  BY <1>2, SpokenRises DEF GenAll, GenInv
<1>4. ASSUME NEW v \in Worker, worker[v] # Idle
      PROVE  Moves(worker[v], led', alive')
  <2>1. Good(worker[v], led) /\ InForce(worker[v], led) /\ Moves(worker[v], led, alive)
    BY <1>4 DEF GenAll, ExecInv, HeldInv, GenInv
  <2>2. Good(worker[v], led') /\ InForce(worker[v], led')
    BY <1>4 DEF GenAll, ExecInv, HeldInv
  <2> QED BY <1>1, <1>2, <1>3, <2>1, <2>2, MovesKept DEF GenAll
<1> QED BY <1>3, <1>4 DEF GenInv, Advances

LEMMA GenObserve ==
  ASSUME GenAll, Observe
  PROVE  GenInv' /\ Advances
<1>0. LedTyped /\ Intents(led)
  BY DEF GenAll, ExecInv, GenInv
<1>1. PICK c \in Cap, at \in led.clock+1 .. MaxClock :
        led' = Step(led, [type |-> "observation.recorded", caps |-> {c}, at |-> at], at)
  BY DEF Observe
<1> DEFINE e == [type |-> "observation.recorded", caps |-> {c}, at |-> at]
<1>2. led' = Step(led, e, e.at) /\ e.type = "observation.recorded" /\ e.at = at
  BY <1>1
<1> HIDE DEF e
<1>3. led.clock \in Int /\ at \in Clocks /\ ~(at < led.clock)
  BY <1>0, LedFields, ExecutorAssumption DEF Clocks, ExecutorAssumption
<1>4. Admits(e)
  BY <1>2, <1>3 DEF Admits, Regresses, Accepts, MutationTypes
<1>5. Spoken(led, led') /\ Intents(led')
  BY <1>0, <1>2, <1>3, <1>4, QuietSpoken DEF QuietTypes
<1>6. UNCHANGED <<worker, alive>>
  BY DEF Observe, world
<1> QED BY <1>5, <1>6, GenAround

LEMMA GenStep ==
  ASSUME GenAll, Undisturbed, [Next]_vars
  PROVE  GenInv' /\ Advances
<1>1. ASSUME NEW w \in Worker, RunStep(w) PROVE GenInv' /\ Advances
  <2>1. ~StartAdopt(w) /\ ~StartUnadopt(w)
    BY DEF Undisturbed, StartAdopt, StartUnadopt
  <2>2. ~Rebind(w)
    <3> SUFFICES ASSUME Rebind(w) PROVE FALSE
      OBVIOUS
    <3>1. worker[w].verb \in {"adopt", "unadopt"} /\ worker[w] # Idle
      BY DEF Rebind, Idle
    <3>2. Moves(worker[w], led, alive)
      BY <3>1, MovesOf
    <3> QED BY <3>1, <3>2 DEF Moves
  <2> QED BY <1>1, <2>1, <2>2, GenStartApply, GenStartResume, GenTakeLease, GenRelease,
             GenApplyStarted, GenGivesUp, GenIntent, GenCall, GenFailure, GenSettleSuccess,
             GenConclude, GenFinish, GenAsk, GenClosed, GenProject, GenAllAsked, GenCrash
             DEF RunStep
<1>2. CASE Lose
  BY <1>2 DEF Lose, Undisturbed
<1>3. CASE UNCHANGED vars
  <2>1. led \in LedRecs /\ Intents(led) /\ UNCHANGED <<led, worker, alive>>
    BY <1>3 DEF GenAll, ExecInv, LedTyped, GenInv, vars
  <2>2. Spoken(led, led') /\ Intents(led')
    BY <2>1, ExecutorAssumption DEF Spoken, LedRecs, Clocks, ExecutorAssumption
  <2> QED BY <2>1, <2>2, GenAround
<1> QED BY <1>1, <1>2, <1>3, GenObserve DEF Next

LEMMA GenInit == Init => GenInv
  BY DEF Init, GenInv, EmptyLedger, Unbound, Named, Intents

(* The generation of what stays bound never goes back, for any number of processes, *)
(* capabilities and runs, wherever they are interrupted, while nothing bound is     *)
(* retired, adopted or lost behind the ledger's back. A create that a run left      *)
(* open is found bound only under the name its operation tells, and would write     *)
(* the generation of that name: so no update may raise the generation of a binding  *)
(* that an open create is after. It may not because apply plans an update only with  *)
(* nothing pending and finds, under its lease, the decision head where it was        *)
(* (D42), and because resume asks again, under its lease, what is still open (D960). *)
THEOREM GenerationsAreKept == Undisturbed => (Spec => GenerationKept)
<1> SUFFICES ASSUME Undisturbed PROVE Spec => GenerationKept
  OBVIOUS
<1>1. Spec => []HeldInv
  <2>1. Init => HeldInv
    BY DEF Init, HeldInv
  <2> QED BY <2>1, HeldNext, ExecutorHolds, PTL DEF Spec
<1>2. ExecInv /\ ExecInv' /\ HeldInv /\ HeldInv' /\ GenInv /\ [Next]_vars => GenInv'
  BY GenStep DEF GenAll, Undisturbed
<1>3. Spec => []GenInv
  BY <1>1, <1>2, GenInit, ExecutorHolds, PTL DEF Spec
<1>4. ASSUME ExecInv, ExecInv', HeldInv, HeldInv', GenInv, [Next]_vars,
             NEW c \in Cap, Bound(c) # NoRes, led'.binding[c].id = Bound(c)
      PROVE  led'.binding[c].gen >= led.binding[c].gen
  <2>1. PICK s : Rises(s, led, led')
    BY <1>4, GenStep DEF GenAll, Undisturbed, Advances
  <2>2. /\ led.binding[c].gen \in Nat /\ led'.binding[c].gen \in Nat
    BY <1>4 DEF ExecInv, LedTyped, LedRecs, Bounds
  <2>3. PICK k \in 1..led.binding[c].gen : led.binding[c].id = OwnId(c, k)
    BY <1>4 DEF GenInv, Named, Bound
  <2>4. k \in Nat
    BY <2>2
  <2>5. ASSUME NEW i \in Nat, led'.binding[c].id = OwnId(c, i),
               \A j \in Nat : led.binding[c].id = OwnId(c, j) => j < i
        PROVE  FALSE
    <3>1. i < i
      BY <1>4, <2>5 DEF Bound
    <3> QED BY <3>1
  <2>6. led.binding[c].gen <= led'.binding[c].gen
    BY <2>1, <2>5 DEF Rises
  <2> QED BY <2>2, <2>6
<1>5. ExecInv /\ ExecInv' /\ HeldInv /\ HeldInv' /\ GenInv /\ [Next]_vars =>
        [\A c \in Cap : Bound(c) # NoRes /\ led'.binding[c].id = Bound(c)
                          => led'.binding[c].gen >= led.binding[c].gen]_vars
  BY <1>4
<1> QED BY <1>1, <1>3, <1>5, ExecutorHolds, PTL DEF Spec, GenerationKept
==============================================================================

----------------------------- MODULE CrashProofs -----------------------------
(***************************************************************************)
(* Theorems about one process at a time that may crash between any two of  *)
(* its steps: what the ledger says of the world stays true, for any number *)
(* of capabilities and runs and any plans.  Two processes can break each   *)
(* of them, because a provider call is not fenced.                         *)
(***************************************************************************)
EXTENDS ExecutorProofs

Own(c) == {c} \X Nat

(* A run of apply that still has something to lose. *)
Runs(s) == s.verb = "apply" /\ s.pc # "release"

(* The actions whose success is on the ledger. *)
Done(s) == s.plan \ (Left(s) \cup s.failed)

InHand(s) == s.verb = "apply" /\ s.pc \in {"call", "settle", "conclude"}

(* What the compiler gave to apply, beside what PlanShape says. *)
PlanFacts(s) ==
  /\ \A a \in s.plan :
       /\ a.op = "create" => /\ a.id = OwnId(a.cap, AtLeastOne(a.gen))
                             /\ ~a.deposed /\ a.old \in {NoRes, s.bound[a.cap]}
       /\ a.op # "create" => a.old = NoRes
       /\ a.op = "claim" \/ (a.op = "delete" /\ ~a.deposed) => a.id = s.bound[a.cap]
  /\ \A a, b \in s.plan : a.cap = b.cap /\ a # b =>
       /\ OpId(a) # OpId(b)
       /\ a.op = "create" => a.old # NoRes
       /\ a.deposed => b.deposed

(* An action is carried out after those it depends on were. *)
InOrder(s) ==
  /\ s.failed \cap Left(s) = {}
  /\ s.pc \in {"call", "settle"} =>
       \A b \in s.plan : DependsOn(s.cur, b) => b \in Done(s)
  /\ \A a \in Done(s), b \in s.plan : DependsOn(a, b) => b \in Done(s)

(* A binding moves only when the plan moves it. *)
InPlace(s, l) ==
  \A c \in s.caps :
    \/ l.binding[c].id = s.bound[c]
    \/ \E b \in Done(s) : b.cap = c /\ b.op \in {"create", "delete"}

(* What the run did is on the ledger. *)
Shown(s, l) ==
  \A b \in Done(s) :
    /\ b.op = "create" => /\ l.binding[b.cap].id \in Own(b.cap) \ {b.old}
                          /\ TagScan \/ l.binding[b.cap].id = b.id
    /\ b.op = "claim" => \/ b.cap \in l.claimed
                         \/ \E d \in Done(s) : d.cap = b.cap /\ d.op = "delete"

(* What it did not begin has no receipt, what it has in hand has one. *)
Unopened(s, l) == \A b \in s.todo : \A r \in l.pending[b.cap] : r.op # OpId(b)

Opened(s, l) ==
  s.pc \in {"call", "settle", "conclude"} =>
    ReceiptOf(s.cur, FALSE, NoRes) \in l.pending[s.cur.cap]

OnLedger(s, l) == InPlace(s, l) /\ Shown(s, l) /\ Unopened(s, l) /\ Opened(s, l)

(* What an answer is worth. *)
Answer(s, al, st) ==
  s.pc = "settle" =>
    /\ s.cur.op = "create" => s.reply.id \in Own(s.cur.cap)
    /\ s.cur.op # "create" => s.reply.id = s.cur.id
    /\ s.reply.status = "succeeded" =>
         /\ s.cur.op = "create" => s.reply.id # s.cur.old
         /\ s.cur.op = "claim" /\ s.cur.id \in Foreign => s.cur.id \in st
         /\ s.cur.op = "delete" => s.cur.id \notin al

(* A resume has in hand what is pending, and its verdict is still true. *)
ResumeFacts(s, l, al) ==
  LET id == Sought(s.cur.cap, s.cur.receipt) IN
  /\ \A item \in s.todo : item.receipt \in l.pending[item.cap]
  /\ s.pc \in {"settle", "conclude"} =>
       s.cur.receipt \in l.pending[s.cur.cap] /\ s.cur \notin s.todo
  /\ s.pc = "settle" =>
       /\ s.verdict # "none"
       /\ s.cur.receipt.kind = "delete" /\ s.verdict = "succeeded" => id \notin al
  /\ s.pc = "conclude" /\ s.cur.receipt.kind = "create" =>
       l.binding[s.cur.cap].id = id /\ ~l.binding[s.cur.cap].adopted

(* An identity history has set aside for good. *)
SetAside(l, va, id) == id \in va \/ \E c \in Cap : id \in l.replaced[c]

(* adopt found the capability unbound, unadopt found it adopted. *)
BindFacts(s, l, va) ==
  s.pc \in {"lease", "bind"} =>
    \A c \in s.caps :
      /\ s.verb = "adopt" =>
           /\ "adopt" \in Verbs /\ l.binding[c].id = NoRes /\ s.to.id \in Ids
           /\ s.to.id \in Own(c) => SetAside(l, va, s.to.id)
      /\ s.verb = "unadopt" => l.binding[c].adopted /\ s.to = Unbound

(* One receipt for an operation; a create is after a name of its capability. *)
PendingFacts(l) ==
  \A c \in Cap :
    /\ \A r, q \in l.pending[c] : r.op = q.op => r = q
    /\ \A r \in l.pending[c] : r.kind = "create" => Sought(c, r) \in Own(c)

Claimed(l, st) ==
  \A c \in l.claimed : l.binding[c].id # NoRes
                       /\ (l.binding[c].id \in Foreign => l.binding[c].id \in st)

(* A capability that adopted one of its own names took an orphan of its. *)
Adopted(l, va) ==
  \A c \in Cap : l.binding[c].adopted /\ l.binding[c].id \in Own(c)
                   => SetAside(l, va, l.binding[c].id)

Facts(s, l, al, st, va) ==
  /\ Runs(s) => PlanFacts(s) /\ InOrder(s) /\ OnLedger(s, l) /\ Answer(s, al, st)
  /\ s.verb = "resume" /\ s.pc # "release" => ResumeFacts(s, l, al)
  /\ s.verb \in {"adopt", "unadopt"} => BindFacts(s, l, va)
  /\ PendingFacts(l) /\ Claimed(l, st) /\ Adopted(l, va)

(* The bindings a create of the run is about to overwrite for good. *)
Shaky(s) ==
  IF Runs(s) THEN {a.cap : a \in {b \in Left(s) : b.op = "create" /\ b.old = NoRes}} ELSE {}

(* The open receipt of the action under way is about to be closed. *)
Closing(s, c, r) == InHand(s) /\ c = s.cur.cap /\ r.op = OpId(s.cur)

(* On record, and not only by what the run is about to overwrite or close. *)
Sure(s, l, va, id) ==
  \/ SetAside(l, va, id)
  \/ \E c \in Cap : c \notin Shaky(s) /\ ~l.binding[c].adopted /\ l.binding[c].id = id
  \/ \E c \in Cap : \E r \in l.pending[c] :
       r.kind = "create" /\ Sought(c, r) = id /\ ~Closing(s, c, r)

(* What the run just made, whole or half, and is about to write down. *)
Fresh(s, id) ==
  /\ s.verb = "apply" /\ s.pc = "settle" /\ s.cur.op = "create"
  /\ s.reply.status \in {"succeeded", "unknown", "failed"} /\ s.cur.id = id /\ s.reply.id = id

Recorded(s, l, al, va) == \A id \in al \ Foreign : Sure(s, l, va, id) \/ Fresh(s, id)

(* With nothing vanishing, no delete that is done and reported as failed, and no *)
(* capability that adopts what another made.                                     *)
Secluded == ~Vanish /\ ~Halfway /\ (("adopt" \in Verbs) => \A c, d \in Cap : c = d)

Home(c) == {id \in Ids : (\A d \in Cap : d = c) \/ id \in Own(c)}

AtHome(s, l) ==
  /\ \A c \in Cap :
       /\ l.binding[c].id \in Home(c) \cup {NoRes} /\ l.replaced[c] \subseteq Home(c)
       /\ \A r \in l.pending[c] : r.kind # "claim" => Sought(c, r) \in Home(c)
  /\ Runs(s) => \A a \in s.plan : a.id \in Home(a.cap)

Dying(s, l, c) ==
  /\ s.verb = "apply" /\ s.pc = "settle" /\ s.cur.op = "delete" /\ s.cur.cap = c
  /\ s.reply.status \in {"succeeded", "unknown"} /\ l.binding[c].id = s.cur.id

(* A binding without a resource has an open delete that says so. *)
Backed(s, l, al) ==
  \A c \in Cap :
    \/ l.binding[c].id \in al \cup {NoRes}
    \/ \E r \in l.pending[c] :
         r.kind = "delete" /\ r.target = l.binding[c].id /\ ~Closing(s, c, r)
    \/ Dying(s, l, c)

(* An answer, a verdict, or an adoption still stands. *)
AnswerStands(s, al) ==
  Runs(s) /\ s.pc = "settle" /\ s.reply.status = "succeeded" /\ s.cur.op # "delete" =>
    s.reply.id \in al

VerdictStands(s, l, al) ==
  LET id == Sought(s.cur.cap, s.cur.receipt) IN
  s.verb = "resume" =>
    /\ s.pc = "settle" /\ s.cur.receipt.kind = "create" /\ s.verdict = "succeeded" => id \in al
    /\ s.pc = "settle" /\ s.cur.receipt.kind = "delete" /\ s.verdict = "failed" => id \in al
    /\ s.pc = "conclude" /\ s.cur.receipt.kind = "delete" => l.binding[s.cur.cap].id # id

AdoptionStands(s, al) == s.verb = "adopt" /\ s.pc # "release" => s.to.id \in al

Real(s, l, al) ==
  Backed(s, l, al) /\ AnswerStands(s, al) /\ VerdictStands(s, l, al) /\ AdoptionStands(s, al)

Faithful(s, l, al, st, va) ==
  /\ Facts(s, l, al, st, va)
  /\ Recorded(s, l, al, va)
  /\ Secluded => AtHome(s, l) /\ Real(s, l, al)

(* The invariant, for the one process w. *)
Truth(w) == Faithful(worker[w], led, alive, stamped, vain)

CrashInv(w) == ExecInv /\ Truth(w)

----------------------------------------------------------------------------
(* Steps that leave the fold as it is. *)

LEMMA FaithfulSame ==
  ASSUME NEW s, NEW l, NEW m, NEW al, NEW st, NEW va, Faithful(s, l, al, st, va), SameFold(l, m)
  PROVE  Faithful(s, m, al, st, va)
<1>1. Facts(s, m, al, st, va)
  <2>1. OnLedger(s, l) => OnLedger(s, m)
    BY DEF SameFold, OnLedger, InPlace, Shown, Unopened, Opened
  <2>2. ResumeFacts(s, l, al) => ResumeFacts(s, m, al)
    BY DEF SameFold, ResumeFacts
  <2>3. BindFacts(s, l, va) => BindFacts(s, m, va)
    BY DEF SameFold, BindFacts, SetAside
  <2>4. PendingFacts(m) /\ Claimed(m, st) /\ Adopted(m, va)
    BY DEF Faithful, Facts, SameFold, PendingFacts, Claimed, Adopted, SetAside
  <2> QED BY <2>1, <2>2, <2>3, <2>4 DEF Faithful, Facts
<1>2. Recorded(s, m, al, va)
  BY DEF Faithful, SameFold, Recorded, Sure, SetAside
<1>3. Secluded => AtHome(s, m) /\ Real(s, m, al)
  BY DEF Faithful, SameFold, AtHome, Real, Backed, VerdictStands, Dying
<1> QED BY <1>1, <1>2, <1>3 DEF Faithful

(* The open receipt of the action under way names what the action is about. *)
LEMMA HandReceipt ==
  ASSUME NEW s \in ApplyRecs, PlanShape(s), Progress(s), PlanFacts(s), NEW l, OnLedger(s, l),
         s.pc \in {"call", "settle", "conclude"}
  PROVE  \E r \in l.pending[s.cur.cap] :
           /\ r.op = OpId(s.cur) /\ r.kind = s.cur.op
           /\ s.cur.op = "create" => Sought(s.cur.cap, r) = s.cur.id
           /\ s.cur.op = "delete" => r.target = s.cur.id
<1> DEFINE r == ReceiptOf(s.cur, FALSE, NoRes)
<1>1. r \in l.pending[s.cur.cap]
  BY DEF OnLedger, Opened
<1>2. /\ r.op = OpId(s.cur) /\ r.kind = s.cur.op
      /\ s.cur.op = "create" => r.gen = AtLeastOne(s.cur.gen) /\ r.target = NoRes
      /\ s.cur.op = "delete" => r.target = s.cur.id
  BY DEF ReceiptOf
<1>3. s.cur \in s.plan
  BY DEF Progress
<1>4. s.cur.op = "create" => s.cur.id = OwnId(s.cur.cap, AtLeastOne(s.cur.gen))
  BY <1>3 DEF PlanFacts
<1> HIDE DEF r
<1> QED BY <1>1, <1>2, <1>4 DEF Sought

(* A process that dies, or is left with a lease to give back, takes nothing with *)
(* it: what it was about to write down is what its open receipt names.           *)
Over(n) == n.verb = "idle" \/ n.pc = "release"

LEMMA GivesAllUp ==
  ASSUME NEW s, NEW n, NEW l, NEW al, NEW st, NEW va, Faithful(s, l, al, st, va), Over(n),
         s.verb = "apply" => s \in ApplyRecs /\ PlanShape(s) /\ Progress(s)
  PROVE  Faithful(n, l, al, st, va)
<1>1. Facts(n, l, al, st, va)
  BY DEF Faithful, Facts, Over, Runs, BindFacts
<1>2. Shaky(n) = {} /\ ~InHand(n) /\ ~Runs(n)
  BY DEF Over, Shaky, InHand, Runs
<1>3. Recorded(n, l, al, va)
  <2> SUFFICES ASSUME NEW id \in al \ Foreign PROVE Sure(n, l, va, id)
    BY DEF Recorded
  <2>1. CASE Sure(s, l, va, id)
    BY <1>2, <2>1 DEF Sure, Closing
  <2>2. CASE Fresh(s, id)
    <3>1. s.verb = "apply" /\ s.pc = "settle" /\ s.cur.op = "create" /\ s.cur.id = id
      BY <2>2 DEF Fresh
    <3>2. PlanFacts(s) /\ OnLedger(s, l)
      BY <3>1 DEF Faithful, Facts, Runs
    <3>3. PICK r \in l.pending[s.cur.cap] : r.kind = "create" /\ Sought(s.cur.cap, r) = id
      BY <3>1, <3>2, HandReceipt
    <3>4. s.cur.cap \in Cap
      BY <3>1 DEF Progress, ApplyRecs, Actions
    <3> QED BY <1>2, <3>3, <3>4 DEF Sure, Closing
  <2> QED BY <2>1, <2>2 DEF Faithful, Recorded
<1>4. ASSUME Secluded PROVE AtHome(n, l) /\ Real(n, l, al)
  <2>1. AtHome(s, l) /\ Real(s, l, al)
    BY <1>4 DEF Faithful
  <2>2. ASSUME NEW c \in Cap, l.binding[c].id \notin al \cup {NoRes}
        PROVE  \E r \in l.pending[c] : r.kind = "delete" /\ r.target = l.binding[c].id
    <3>1. CASE Dying(s, l, c)
      <4>1. /\ s.verb = "apply" /\ s.pc = "settle" /\ s.cur.op = "delete" /\ s.cur.cap = c
            /\ l.binding[c].id = s.cur.id
        BY <3>1 DEF Dying
      <4>2. PlanFacts(s) /\ OnLedger(s, l)
        BY <4>1 DEF Faithful, Facts, Runs
      <4> QED BY <4>1, <4>2, HandReceipt
    <3> QED BY <2>1, <2>2, <3>1 DEF Real, Backed
  <2>3. Backed(n, l, al)
    BY <1>2, <2>2 DEF Backed, Closing
  <2> QED BY <1>2, <2>1, <2>3 DEF AtHome, Real, AnswerStands, VerdictStands, AdoptionStands, Over
<1> QED BY <1>1, <1>3, <1>4 DEF Faithful

(* Apply goes on with what it has already done, and less left to do. *)
LEMMA GoesOn ==
  ASSUME NEW s \in ApplyRecs, NEW n \in ApplyRecs, NEW l, NEW al, NEW st, NEW va,
         Faithful(s, l, al, st, va), Runs(s), Runs(n), ~InHand(n), ~InHand(s),
         n.plan = s.plan, n.bound = s.bound, n.caps = s.caps, n.todo \subseteq s.todo,
         Done(n) = Done(s), n.failed \cap Left(n) = {}
  PROVE  Faithful(n, l, al, st, va)
<1>1. n.verb = "apply" /\ s.verb = "apply"
  BY DEF Runs
<1>2. n.pc \notin {"call", "settle", "conclude"} /\ s.pc \notin {"call", "settle", "conclude"}
  BY <1>1 DEF InHand
<1>3. PlanFacts(s) /\ InOrder(s) /\ OnLedger(s, l)
  BY DEF Faithful, Facts
<1>4. PlanFacts(n) /\ InOrder(n) /\ Answer(n, al, st)
  <2>1. PlanFacts(n)
    BY <1>3 DEF PlanFacts
  <2>2. InOrder(n)
    BY <1>2, <1>3 DEF InOrder
  <2> QED BY <1>2, <2>1, <2>2 DEF Answer
<1>5. OnLedger(n, l)
  <2>1. InPlace(n, l)
    BY <1>3 DEF OnLedger, InPlace
  <2>2. Shown(n, l)
    BY <1>3 DEF OnLedger, Shown
  <2> QED BY <1>2, <1>3, <2>1, <2>2 DEF OnLedger, Unopened, Opened
<1>6. Facts(n, l, al, st, va)
  BY <1>1, <1>4, <1>5 DEF Faithful, Facts
<1>7. Shaky(n) \subseteq Shaky(s)
  BY <1>2 DEF Shaky, Left
<1>8. Recorded(n, l, al, va)
  <2> SUFFICES ASSUME NEW id \in al \ Foreign PROVE Sure(n, l, va, id)
    BY DEF Recorded
  <2>1. Sure(s, l, va, id)
    BY <1>2 DEF Faithful, Recorded, Fresh
  <2> QED BY <1>7, <2>1 DEF Sure, Closing
<1>9. ASSUME Secluded PROVE AtHome(n, l) /\ Real(n, l, al)
  <2>1. AtHome(s, l) /\ Backed(s, l, al)
    BY <1>9 DEF Faithful, Real
  <2>2. AtHome(n, l) /\ Backed(n, l, al)
    BY <1>2, <2>1 DEF AtHome, Backed, Dying, Closing
  <2> QED BY <1>1, <1>2, <2>2 DEF Real, AnswerStands, VerdictStands, AdoptionStands
<1> QED BY <1>6, <1>8, <1>9 DEF Faithful

(* Between processes other than apply, only what they have in hand differs. *)
LEMMA NotApply ==
  ASSUME NEW s, NEW n, NEW l, NEW al, NEW st, NEW va, Faithful(s, l, al, st, va),
         s.verb # "apply", n.verb # "apply",
         n.verb = "resume" /\ n.pc # "release" => ResumeFacts(n, l, al),
         n.verb \in {"adopt", "unadopt"} => BindFacts(n, l, va),
         Secluded => VerdictStands(n, l, al) /\ AdoptionStands(n, al)
  PROVE  Faithful(n, l, al, st, va)
<1>1. ~Runs(s) /\ ~Runs(n) /\ ~InHand(s) /\ ~InHand(n) /\ Shaky(s) = {} /\ Shaky(n) = {}
  BY DEF Runs, InHand, Shaky
<1>2. Facts(n, l, al, st, va)
  BY <1>1 DEF Faithful, Facts
<1>3. Recorded(n, l, al, va)
  BY <1>1 DEF Faithful, Recorded, Sure, Fresh, Closing
<1>4. ASSUME Secluded PROVE AtHome(n, l) /\ Real(n, l, al)
  BY <1>1, <1>4 DEF Faithful, AtHome, Real, Backed, Dying, Closing, AnswerStands
<1> QED BY <1>2, <1>3, <1>4 DEF Faithful

(* The step of the one process. *)
LEMMA Lands ==
  ASSUME ExecInv, NEW w \in Worker, NEW n, Become(w, n),
         Faithful(n, led', alive', stamped', vain')
  PROVE  Truth(w)'
<1>1. worker'[w] = n
  BY DEF Become, ExecInv
<1> QED BY <1>1 DEF Truth

LEMMA Quits ==
  ASSUME NEW w \in Worker, CrashInv(w), NEW n, Over(n), Become(w, n), SameFold(led, led'),
         UNCHANGED world, UNCHANGED vain
  PROVE  Truth(w)'
<1>1. ExecInv /\ Faithful(worker[w], led, alive, stamped, vain)
  BY DEF CrashInv, Truth
<1>2. worker[w].verb = "apply" =>
        worker[w] \in ApplyRecs /\ PlanShape(worker[w]) /\ Progress(worker[w])
  <2> HAVE worker[w].verb = "apply"
  <2>1. worker[w] # Idle
    BY DEF Idle
  <2> QED BY <1>1, <2>1, AtWork, ByVerb DEF Good
<1>3. Faithful(n, led, alive, stamped, vain)
  BY <1>1, <1>2, GivesAllUp
<1>4. Faithful(n, led', alive', stamped', vain')
  BY <1>3, FaithfulSame DEF world
<1> QED BY <1>1, <1>4, Lands

(* An append refused. *)
LEMMA Refused ==
  ASSUME NEW w \in Worker, CrashInv(w), NEW n, Over(n), Become(w, n), UNCHANGED <<led, world, vain>>
  PROVE  Truth(w)'
<1>1. SameFold(led, led')
  BY DEF SameFold
<1> QED BY <1>1, Quits

(* What is known of an apply at work. *)
LEMMA AtApply ==
  ASSUME NEW w \in Worker, CrashInv(w), NEW pc \in Working, At(w, "apply", pc)
  PROVE  /\ ExecInv /\ LedTyped /\ WorldTyped
         /\ worker[w] \in ApplyRecs /\ PlanShape(worker[w]) /\ Progress(worker[w])
         /\ worker[w].verb = "apply" /\ worker[w].pc = pc /\ Runs(worker[w])
         /\ worker[w].caps \subseteq Cap
         /\ Faithful(worker[w], led, alive, stamped, vain)
         /\ PlanFacts(worker[w]) /\ InOrder(worker[w]) /\ OnLedger(worker[w], led)
         /\ Answer(worker[w], alive, stamped)
<1>1. ExecInv /\ Faithful(worker[w], led, alive, stamped, vain)
  BY DEF CrashInv, Truth
<1>2. /\ worker[w] # Idle /\ worker[w] \in ApplyRecs /\ LedTyped /\ worker[w].caps \in CapSets
      /\ worker[w].verb = "apply" /\ worker[w].pc = pc
      /\ PlanShape(worker[w]) /\ Progress(worker[w])
  BY <1>1, Applying
<1>3. Runs(worker[w])
  BY <1>2 DEF Runs, Working
<1> QED BY <1>1, <1>2, <1>3 DEF Faithful, Facts, CapSets, ExecInv

----------------------------------------------------------------------------
(* The lease, the markers, and what is not begun. *)

LEMMA TruthTakeLease ==
  ASSUME NEW w \in Worker, CrashInv(w), TakeLease(w)
  PROVE  Truth(w)'
<1> DEFINE s == worker[w]
           e == LeaseEvent(w)
           n == UnderLease(w)
<1>1. /\ s # Idle /\ s.pc = "lease" /\ UNCHANGED world /\ UNCHANGED vain
      /\ AppendOr(e, w, n, Idle)
  BY DEF TakeLease, Idle
<1>2. ExecInv /\ LedTyped /\ Faithful(s, led, alive, stamped, vain)
  BY DEF CrashInv, Truth, ExecInv
<1>3. /\ Good(s, led) /\ s \in ApplyRecs \cup ResumeRecs \cup BindRecs
      /\ s.verb \in {"apply", "resume", "adopt", "unadopt"}
      /\ (s.verb = "apply" => s \in ApplyRecs) /\ (s.verb = "resume" => s \in ResumeRecs)
      /\ (s.verb \in {"adopt", "unadopt"} => s \in BindRecs)
  BY <1>1, <1>2, AtWork, ByVerb
<1>4. CASE ~Admits(e) /\ UNCHANGED led /\ Become(w, Idle)
  BY <1>1, <1>4, Refused DEF Over, Idle
<1>5. CASE Admits(e) /\ led' = Step(led, e, e.at) /\ Become(w, n)
  <2>1. SameFold(led, led')
    BY <1>2, <1>5, QuietEffect DEF QuietTypes, LeaseEvent
  <2>2. CASE s.verb = "apply" /\ Stale(w)
    <3>1. n = Held(w, "release")
      BY <2>2 DEF UnderLease
    <3>2. n.pc = "release"
      BY <1>3, <2>2, <3>1 DEF Held, To, ApplyRecs
    <3> QED BY <1>1, <1>5, <2>1, <3>2, Quits DEF Over
  <2>3. CASE s.verb = "apply" /\ ~Stale(w)
    <3>1. n = Held(w, "start")
      BY <2>3 DEF UnderLease
    <3>2. s \in ApplyRecs
      BY <1>3, <2>3
    <3>3. NewToken(led, s.caps) \in Nat
      BY <1>1, <1>2, LeaseStep, AtWork
    <3>4. /\ n \in ApplyRecs /\ n.verb = "apply" /\ n.pc = "start" /\ n.plan = s.plan
          /\ n.bound = s.bound /\ n.caps = s.caps /\ n.todo = s.todo /\ n.failed = s.failed
      BY <3>1, <3>2, <3>3 DEF ApplyRecs, Held, To
    <3> HIDE DEF n
    <3>5. Runs(s) /\ Runs(n) /\ ~InHand(s) /\ ~InHand(n) /\ Done(n) = Done(s)
      BY <1>1, <2>3, <3>4 DEF Runs, InHand, Done, Left
    <3>8. n.failed \cap Left(n) = {}
      BY <1>1, <1>2, <2>3, <3>4, <3>5 DEF Faithful, Facts, InOrder, Left
    <3>6. Faithful(n, led, alive, stamped, vain)
      BY <1>2, <3>2, <3>4, <3>5, <3>8, GoesOn
    <3>7. Faithful(n, led', alive', stamped', vain')
      BY <1>1, <2>1, <3>6, FaithfulSame DEF world
    <3> QED BY <1>2, <1>5, <3>7, Lands
  <2>4. CASE s.verb # "apply"
    <3>1. ASSUME s.verb = "resume" PROVE Faithful(n, led, alive, stamped, vain)
      <4>1. n = [Held(w, "ask") EXCEPT !.todo = StillPending(w)]
        BY <3>1 DEF UnderLease
      <4>2. s \in ResumeRecs
        BY <1>3, <3>1
      <4>3. n.verb = "resume" /\ n.pc = "ask" /\ n.todo \subseteq s.todo
        BY <4>1, <4>2 DEF ResumeRecs, Held, To, StillPending
      <4> HIDE DEF n
      <4>4. ResumeFacts(s, led, alive)
        BY <1>1, <1>2, <3>1 DEF Faithful, Facts
      <4>5. ResumeFacts(n, led, alive) /\ VerdictStands(n, led, alive) /\ AdoptionStands(n, alive)
        BY <4>3, <4>4 DEF ResumeFacts, VerdictStands, AdoptionStands
      <4>6. Faithful(n, led, alive, stamped, vain)
        BY <1>2, <2>4, <4>3, <4>5, NotApply
      <4> QED BY <4>6 DEF n
    <3>2. ASSUME s.verb # "resume" PROVE Faithful(n, led, alive, stamped, vain)
      <4>1. n = Held(w, "bind")
        BY <2>4, <3>2 DEF UnderLease
      <4>2. s \in BindRecs /\ s.verb \in {"adopt", "unadopt"}
        BY <1>3, <2>4, <3>2
      <4>3. n.verb = s.verb /\ n.pc = "bind" /\ n.to = s.to /\ n.caps = s.caps
        BY <4>1, <4>2 DEF BindRecs, Held, To
      <4> HIDE DEF n
      <4>4. BindFacts(s, led, vain) /\ (Secluded => AdoptionStands(s, alive))
        BY <1>2, <4>2 DEF Faithful, Facts, Real
      <4>5. BindFacts(n, led, vain)
        BY <1>1, <4>3, <4>4 DEF BindFacts
      <4>6. VerdictStands(n, led, alive) /\ (Secluded => AdoptionStands(n, alive))
        BY <1>1, <4>2, <4>3, <4>4 DEF VerdictStands, AdoptionStands
      <4>7. Faithful(n, led, alive, stamped, vain)
        BY <1>2, <2>4, <4>2, <4>3, <4>5, <4>6, NotApply
      <4> QED BY <4>7 DEF n
    <3>3. Faithful(n, led, alive, stamped, vain)
      BY <3>1, <3>2
    <3>4. Faithful(n, led', alive', stamped', vain')
      BY <1>1, <2>1, <3>3, FaithfulSame DEF world
    <3> QED BY <1>2, <1>5, <3>4, Lands
  <2> QED BY <2>2, <2>3, <2>4
<1> QED BY <1>1, <1>4, <1>5 DEF AppendOr

LEMMA TruthRelease ==
  ASSUME NEW w \in Worker, CrashInv(w), Release(w) \/ Crash(w)
  PROVE  Truth(w)'
<1>1. CASE Crash(w)
  BY <1>1, Refused DEF Crash, Over, Idle
<1>2. CASE Release(w)
  <2> DEFINE e == MarkEvent(w, "lease.released")
  <2>1. AppendOr(e, w, Idle, Idle) /\ UNCHANGED world /\ UNCHANGED vain
    BY <1>2 DEF Release
  <2>2. LedTyped /\ e.type \in QuietTypes
    BY DEF CrashInv, ExecInv, MarkEvent, QuietTypes
  <2> HIDE DEF e
  <2>3. SameFold(led, led') /\ Become(w, Idle)
    BY <2>1, <2>2, QuietEffect DEF AppendOr, SameFold
  <2> QED BY <2>1, <2>3, Quits DEF Over, Idle
<1> QED BY <1>1, <1>2

LEMMA TruthFinish ==
  ASSUME NEW w \in Worker, CrashInv(w), Finish(w)
  PROVE  Truth(w)'
<1> DEFINE e == MarkEvent(w, IF worker[w].failed = {} THEN "apply.finished" ELSE "apply.failed")
           n == To(w, "release")
<1>1. At(w, "apply", "act") /\ AppendOr(e, w, n, Idle) /\ UNCHANGED world /\ UNCHANGED vain
  BY DEF Finish
<1>2. LedTyped /\ e.type \in QuietTypes
  BY DEF CrashInv, ExecInv, MarkEvent, QuietTypes
<1>3. worker[w] \in ApplyRecs
  BY <1>1, AtApply DEF Working
<1>4. Over(n) /\ Over(Idle)
  BY <1>3 DEF Over, To, ApplyRecs, Idle
<1> HIDE DEF e, n
<1>5. SameFold(led, led') /\ (Become(w, n) \/ Become(w, Idle))
  BY <1>1, <1>2, QuietEffect DEF AppendOr, SameFold
<1> QED BY <1>1, <1>4, <1>5, Quits

(* Three steps of apply that begin nothing. *)
LEMMA TruthWaiting ==
  ASSUME NEW w \in Worker, CrashInv(w), ApplyStarted(w) \/ Skip(w) \/ RefuseFirst(w)
  PROVE  Truth(w)'
<1> DEFINE s == worker[w]
<1>1. CASE ApplyStarted(w)
  <2> DEFINE e == MarkEvent(w, "apply.started")
             n == To(w, "act")
  <2>1. At(w, "apply", "start") /\ AppendOr(e, w, n, Idle) /\ UNCHANGED world /\ UNCHANGED vain
    BY <1>1 DEF ApplyStarted
  <2>2. /\ s \in ApplyRecs /\ Runs(s) /\ s.verb = "apply" /\ s.pc = "start" /\ ExecInv
        /\ LedTyped /\ Faithful(s, led, alive, stamped, vain)
    BY <2>1, AtApply DEF Working
  <2>3. /\ n \in ApplyRecs /\ n.verb = "apply" /\ n.pc = "act" /\ n.plan = s.plan
        /\ n.bound = s.bound /\ n.caps = s.caps /\ n.todo = s.todo /\ n.failed = s.failed
    BY <2>2 DEF ApplyRecs, To
  <2>4. e.type \in QuietTypes
    BY DEF MarkEvent, QuietTypes
  <2> HIDE DEF e, n
  <2>5. Runs(n) /\ ~InHand(s) /\ ~InHand(n) /\ Done(n) = Done(s)
    BY <2>2, <2>3 DEF Runs, InHand, Done, Left
  <2>9. n.failed \cap Left(n) = {}
    BY <2>2, <2>3 DEF Faithful, Facts, InOrder, Left
  <2>6. Faithful(n, led, alive, stamped, vain)
    BY <2>2, <2>3, <2>5, <2>9, GoesOn
  <2>7. CASE Admits(e) /\ led' = Step(led, e, e.at) /\ Become(w, n)
    <3>1. SameFold(led, led')
      BY <2>2, <2>4, <2>7, QuietEffect
    <3>2. Faithful(n, led', alive', stamped', vain')
      BY <2>1, <2>6, <3>1, FaithfulSame DEF world
    <3> QED BY <2>2, <2>7, <3>2, Lands
  <2>8. CASE ~Admits(e) /\ UNCHANGED led /\ Become(w, Idle)
    BY <2>1, <2>8, Refused DEF Over, Idle
  <2> QED BY <2>1, <2>7, <2>8 DEF AppendOr
<1>2. CASE Skip(w) \/ RefuseFirst(w)
  <2>1. At(w, "apply", "act") /\ UNCHANGED <<led, world, vain>>
    BY <1>2 DEF Skip, RefuseFirst
  <2>2. PICK a \in s.todo : Become(w, [worker[w] EXCEPT !.todo = @ \ {a}, !.failed = @ \cup {a}])
    BY <1>2 DEF Skip, RefuseFirst
  <2> DEFINE n == [worker[w] EXCEPT !.todo = @ \ {a}, !.failed = @ \cup {a}]
  <2>3. /\ s \in ApplyRecs /\ Runs(s) /\ s.verb = "apply" /\ s.pc = "act" /\ ExecInv
        /\ Faithful(s, led, alive, stamped, vain)
    BY <2>1, AtApply DEF Working
  <2>4. a \in Actions
    BY <2>3 DEF ApplyRecs
  <2>5. /\ n \in ApplyRecs /\ n.verb = "apply" /\ n.pc = "act" /\ n.plan = s.plan
        /\ n.bound = s.bound /\ n.caps = s.caps /\ n.todo = s.todo \ {a}
        /\ n.failed = s.failed \cup {a}
    BY <2>3, <2>4 DEF ApplyRecs
  <2>6. Become(w, n)
    BY <2>2
  <2> HIDE DEF n
  <2>7. Runs(n) /\ ~InHand(s) /\ ~InHand(n)
    BY <2>3, <2>5 DEF Runs, InHand
  <2>8. Done(n) = Done(s)
    BY <2>3, <2>5 DEF Done, Left
  <2>11. n.failed \cap Left(n) = {}
    BY <2>3, <2>5 DEF Faithful, Facts, InOrder, Left
  <2>9. Faithful(n, led, alive, stamped, vain)
    BY <2>3, <2>5, <2>7, <2>8, <2>11, GoesOn
  <2>10. Faithful(n, led', alive', stamped', vain')
    BY <2>1, <2>9 DEF world
  <2> QED BY <2>3, <2>6, <2>10, Lands
<1> QED BY <1>1, <1>2

----------------------------------------------------------------------------
(* The surroundings. *)

LEMMA TruthAround ==
  ASSUME NEW w \in Worker, CrashInv(w), Observe \/ Lose
  PROVE  Truth(w)'
<1>1. Faithful(worker[w], led, alive, stamped, vain) /\ LedTyped
  BY DEF CrashInv, Truth, ExecInv
<1>2. CASE Observe
  <2>1. PICK c \in Cap, at \in led.clock+1 .. MaxClock :
          /\ led' = Step(led, [type |-> "observation.recorded", caps |-> {c}, at |-> at], at)
          /\ UNCHANGED <<worker, world, vain>>
    BY <1>2 DEF Observe
  <2>2. SameFold(led, led')
    BY <1>1, <2>1, QuietEffect DEF QuietTypes
  <2>3. Faithful(worker[w], led', alive, stamped, vain)
    BY <1>1, <2>2, FaithfulSame
  <2> QED BY <2>1, <2>3 DEF Truth, world
<1>3. CASE Lose
  <2> DEFINE s == worker[w]
  <2>1. /\ alive' \subseteq alive /\ UNCHANGED <<led, worker, stamped, vain>> /\ ~Secluded
    BY <1>3 DEF Lose, Secluded
  <2>2. Facts(s, led, alive', stamped, vain)
    BY <1>1, <2>1 DEF Faithful, Facts, Answer, ResumeFacts
  <2>3. Recorded(s, led, alive', vain)
    BY <1>1, <2>1 DEF Faithful, Recorded
  <2> QED BY <2>1, <2>2, <2>3 DEF Truth, Faithful
<1> QED BY <1>2, <1>3

----------------------------------------------------------------------------
(* The starts. *)

LEMMA OpIdApart ==
  ASSUME NEW a \in Actions, NEW b \in Actions, a.op # b.op \/ (a.deposed /\ b.deposed /\ a.id # b.id),
         a.op = "create" => ~a.deposed, b.op = "create" => ~b.deposed,
         a.deposed => a.op = "delete", b.deposed => b.op = "delete"
  PROVE  OpId(a) # OpId(b)
<1>1. ASSUME NEW x \in Actions, x.op = "create", ~x.deposed PROVE OpId(x) = <<x.cap, "create", x.gen>>
  BY <1>1 DEF OpId
<1>2. ASSUME NEW x \in Actions, x.op # "create", x.deposed PROVE OpId(x) = <<x.cap, "deposed", x.id>>
  BY <1>2 DEF OpId
<1>3. ASSUME NEW x \in Actions, x.op # "create", ~x.deposed PROVE OpId(x) = <<x.cap, x.op>>
  BY <1>3 DEF OpId
<1>4. \A c, d, g, i, o : /\ <<c, "create", g>> # <<d, "deposed", i>>
                         /\ <<c, "create", g>> # <<d, o>> /\ <<c, "deposed", i>> # <<d, o>>
  OBVIOUS
<1>5. \A c, d, i, j : i # j => <<c, "deposed", i>> # <<d, "deposed", j>> /\ <<c, i>> # <<d, j>>
  OBVIOUS
<1>6. CASE a.op = "create" \/ b.op = "create"
  BY <1>1, <1>2, <1>3, <1>4, <1>6
<1>7. CASE a.op # "create" /\ b.op # "create"
  BY <1>2, <1>3, <1>4, <1>5, <1>7
<1> QED BY <1>6, <1>7

(* What the compiler makes of one goal, once more. *)
LEMMA PlanFactsMade ==
  ASSUME LedTyped, NEW c \in Cap, NEW goal
  PROVE  /\ \A a \in Plan(c, goal) :
              /\ a.op = "create" => /\ a.id = OwnId(c, AtLeastOne(a.gen))
                                    /\ ~a.deposed /\ a.old \in {NoRes, Bound(c)}
                                    /\ a.old = NoRes => Bound(c) \notin alive
              /\ a.op # "create" => a.old = NoRes
              /\ a.op = "claim" \/ (a.op = "delete" /\ ~a.deposed) => a.id = Bound(c)
              /\ a.deposed => a.op = "delete"
              /\ a.op # "create" => a.id = Bound(c) \/ a.id \in led.replaced[c]
         /\ \A a, b \in Plan(c, goal) : a # b =>
              /\ OpId(a) # OpId(b)
              /\ a.op = "create" => a.old # NoRes
              /\ a.deposed => b.deposed
<1> DEFINE One(a) ==
             /\ a \in Actions /\ a.cap = c
             /\ a.op = "create" => /\ a.id = OwnId(c, AtLeastOne(a.gen))
                                   /\ ~a.deposed /\ a.old \in {NoRes, Bound(c)}
                                   /\ a.old = NoRes => Bound(c) \notin alive
             /\ a.op # "create" => a.old = NoRes
             /\ a.op = "claim" \/ (a.op = "delete" /\ ~a.deposed) => a.id = Bound(c)
             /\ a.deposed => a.op = "delete"
             /\ a.op # "create" => a.id = Bound(c) \/ a.id \in led.replaced[c]
           Two(a, b) ==
             /\ a.op # b.op \/ (a.deposed /\ b.deposed /\ a.id # b.id)
             /\ a.op = "create" => a.old # NoRes
             /\ a.deposed => b.deposed
           Fit(P) == (\A a \in P : One(a)) /\ \A a, b \in P : a # b => Two(a, b)
<1>1. led.binding[c] \in Bounds
  BY LedFields
<1>2. /\ BoundGen(c) \in Nat /\ BoundGen(c) >= 1 /\ BoundGen(c) + 1 \in Nat
      /\ AtLeastOne(BoundGen(c) + 1) = BoundGen(c) + 1 /\ AtLeastOne(0) = 1
  BY <1>1 DEF BoundGen, AtLeastOne, Bounds
<1>3. Bound(c) \in Ids \cup {NoRes}
  BY <1>1 DEF Bound, Bounds
<1>4. \A n \in Nat : OwnId(c, n) \in Ids
  BY DEF OwnId, Ids
<1>5. ASSUME Bound(c) \notin alive PROVE Fit({Create(c)})
  <2>1. /\ Create(c) \in Actions /\ Create(c).cap = c /\ Create(c).op = "create"
        /\ Create(c).deposed = FALSE /\ Create(c).id = OwnId(c, 1) /\ Create(c).gen = 0
        /\ Create(c).old = NoRes
    BY <1>4 DEF Create, Action, Actions, Ops
  <2> QED BY <1>2, <1>5, <2>1
<1>6. ASSUME Bound(c) # NoRes
      PROVE  /\ Fit(ClaimFirst(c) \cup {Action(c, "update", Bound(c), 0, NoRes, FALSE)})
             /\ Fit(ClaimFirst(c) \cup {Successor(c), Delete(c, Bound(c), BoundGen(c), FALSE)})
             /\ Fit(ClaimFirst(c) \cup {Delete(c, Bound(c), BoundGen(c), FALSE)})
             /\ Fit(ClaimFirst(c))
  <2> DEFINE claim == Action(c, "claim", Bound(c), 0, NoRes, FALSE)
             change == Action(c, "update", Bound(c), 0, NoRes, FALSE)
             next == Successor(c)
             del == Delete(c, Bound(c), BoundGen(c), FALSE)
  <2>1. /\ claim \in Actions /\ claim.cap = c /\ claim.op = "claim" /\ claim.id = Bound(c)
        /\ claim.deposed = FALSE /\ claim.old = NoRes
    BY <1>3, <1>6 DEF Action, Actions, Ops
  <2>2. /\ change \in Actions /\ change.cap = c /\ change.op = "update" /\ change.id = Bound(c)
        /\ change.deposed = FALSE /\ change.old = NoRes
    BY <1>3, <1>6 DEF Action, Actions, Ops
  <2>3. /\ next \in Actions /\ next.cap = c /\ next.op = "create"
        /\ next.id = OwnId(c, BoundGen(c) + 1) /\ next.gen = BoundGen(c) + 1
        /\ next.old = Bound(c) /\ next.deposed = FALSE
    BY <1>2, <1>3, <1>4 DEF Successor, Action, Actions, Ops
  <2>4. /\ del \in Actions /\ del.cap = c /\ del.op = "delete" /\ del.id = Bound(c)
        /\ del.deposed = FALSE /\ del.old = NoRes
    BY <1>2, <1>3, <1>6 DEF Delete, Action, Actions, Ops
  <2>5. ClaimFirst(c) \subseteq {claim}
    BY DEF ClaimFirst
  <2> HIDE DEF claim, change, next, del
  <2>6. One(claim) /\ One(change) /\ One(next) /\ One(del)
    BY <1>2, <1>6, <2>1, <2>2, <2>3, <2>4
  <2>7. /\ Two(claim, change) /\ Two(change, claim) /\ Two(claim, next) /\ Two(next, claim)
        /\ Two(claim, del) /\ Two(del, claim) /\ Two(next, del) /\ Two(del, next)
    BY <1>6, <2>1, <2>2, <2>3, <2>4
  <2> HIDE DEF One, Two
  <2>8. /\ Fit(ClaimFirst(c) \cup {change}) /\ Fit(ClaimFirst(c) \cup {next, del})
        /\ Fit(ClaimFirst(c) \cup {del}) /\ Fit(ClaimFirst(c))
    BY <2>5, <2>6, <2>7
  <2> QED BY <2>8 DEF change, next, del
<1>7. Fit({Delete(c, id, 0, TRUE) : id \in Deposed(led, c)})
  <2>1. ASSUME NEW id \in Deposed(led, c)
        PROVE  LET a == Delete(c, id, 0, TRUE) IN
               One(a) /\ a.op = "delete" /\ a.deposed = TRUE /\ a.id = id
    <3>1. id \in led.replaced[c] /\ id \in Ids
      BY LedFields DEF Deposed, DeposedAll
    <3> QED BY <3>1 DEF Delete, Action, Actions, Ops
  <2>2. ASSUME NEW id \in Deposed(led, c), NEW jd \in Deposed(led, c), id # jd
        PROVE  Two(Delete(c, id, 0, TRUE), Delete(c, jd, 0, TRUE))
    <3> DEFINE a == Delete(c, id, 0, TRUE)
               b == Delete(c, jd, 0, TRUE)
    <3> SUFFICES Two(a, b)
      OBVIOUS
    <3>1. a.op = "delete" /\ a.deposed = TRUE /\ a.id = id
      BY <2>1
    <3>2. b.op = "delete" /\ b.deposed = TRUE /\ b.id = jd
      BY <2>1
    <3> HIDE DEF a, b
    <3> QED BY <2>2, <3>1, <3>2
  <2> HIDE DEF One, Two
  <2> QED BY <2>1, <2>2
<1>8. Fit({})
  OBVIOUS
<1>9. Fit(Plan(c, goal))
  <2> HIDE DEF Fit
  <2> QED BY <1>5, <1>6, <1>7, <1>8 DEF Plan
<1>10. ASSUME NEW a \in Plan(c, goal), NEW b \in Plan(c, goal), a # b PROVE OpId(a) # OpId(b)
  <2>1. One(a) /\ One(b) /\ Two(a, b)
    BY <1>9, <1>10
  <2> QED BY <2>1, OpIdApart
<1> QED BY <1>9, <1>10

LEMMA TruthStarts ==
  ASSUME NEW w \in Worker, CrashInv(w), NEW n, StartRun(w, n),
         worker[w] = Idle => Faithful(n, led, alive, stamped, vain)
  PROVE  Truth(w)'
<1>1. /\ ExecInv /\ Become(w, n) /\ UNCHANGED <<led, world, vain>>
      /\ Faithful(n, led, alive, stamped, vain)
  BY DEF CrashInv, StartRun
<1>2. Faithful(n, led', alive', stamped', vain')
  BY <1>1 DEF world
<1> QED BY <1>1, <1>2, Lands

LEMMA OwnIsOwn ==
  ASSUME NEW c \in Cap, NEW id
  PROVE  /\ id \in Own(c) => /\ id \in Ids /\ id \notin Foreign /\ id # NoRes
                             /\ \A d \in Cap : id \in Own(d) => d = c
         /\ \A n \in Nat : OwnId(c, n) \in Own(c)
<1>1. id \in Own(c) => id \in Cap \X Nat
  BY DEF Own
<1>2. ASSUME id \in Own(c), NEW d \in Cap, id \in Own(d) PROVE d = c
  BY <1>2 DEF Own
<1>3. \A n \in Nat : OwnId(c, n) \in Own(c)
  BY DEF OwnId, Own
<1> QED BY <1>1, <1>2, <1>3, ExecutorAssumption DEF ExecutorAssumption, Ids

LEMMA TruthStartApply ==
  ASSUME NEW w \in Worker, CrashInv(w), StartApply(w)
  PROVE  Truth(w)'
<1>0. PICK caps \in (SUBSET Cap) \ {{}}, at \in led.clock..MaxClock :
      \E goal \in [caps -> Goals] :
        /\ \A c \in caps : Plan(c, goal[c]) # {} /\ led.pending[c] = {}
        /\ StartRun(w, [ verb |-> "apply", pc |-> "lease", caps |-> caps, at |-> at, token |-> 0,
                      plan |-> UNION {Plan(c, goal[c]) : c \in caps},
                      todo |-> UNION {Plan(c, goal[c]) : c \in caps}, failed |-> {},
                      cur |-> NoRes, reply |-> NoRes,
                      pins |-> [c \in caps |-> led.decided[c]],
                      bound |-> [c \in caps |-> Bound(c)] ])
  BY DEF StartApply
<1>1. PICK goal \in [caps -> Goals] :
        /\ \A c \in caps : Plan(c, goal[c]) # {} /\ led.pending[c] = {}
        /\ StartRun(w, [ verb |-> "apply", pc |-> "lease", caps |-> caps, at |-> at, token |-> 0,
                      plan |-> UNION {Plan(c, goal[c]) : c \in caps},
                      todo |-> UNION {Plan(c, goal[c]) : c \in caps}, failed |-> {},
                      cur |-> NoRes, reply |-> NoRes,
                      pins |-> [c \in caps |-> led.decided[c]],
                      bound |-> [c \in caps |-> Bound(c)] ])
  BY <1>0
<1> DEFINE all == UNION {Plan(c, goal[c]) : c \in caps}
           bound == [c \in caps |-> Bound(c)]
           n == [ verb |-> "apply", pc |-> "lease", caps |-> caps, at |-> at, token |-> 0,
                  plan |-> all, todo |-> all, failed |-> {}, cur |-> NoRes, reply |-> NoRes,
                  pins |-> [c \in caps |-> led.decided[c]], bound |-> bound ]
<1>2. StartRun(w, n) /\ \A c \in caps : led.pending[c] = {} /\ c \in Cap
  BY <1>1
<1>3. ExecInv /\ LedTyped /\ Faithful(worker[w], led, alive, stamped, vain)
  BY DEF CrashInv, Truth, ExecInv
<1>4. \A a \in all : a.cap \in caps /\ a \in Plan(a.cap, goal[a.cap]) /\ a \in Actions
  <2> TAKE a \in all
  <2>1. PICK c \in caps : a \in Plan(c, goal[c])
    OBVIOUS
  <2> QED BY <1>2, <1>3, <2>1, PlanMade
<1>5. \A c \in caps : bound[c] = Bound(c)
  OBVIOUS
<1> HIDE DEF all, bound
<1>6. /\ n.verb = "apply" /\ n.pc = "lease" /\ n.caps = caps /\ n.plan = all /\ n.todo = all
      /\ n.failed = {} /\ n.bound = bound
  OBVIOUS
<1> HIDE DEF n
<1>7. PlanFacts(n)
  <2>1. ASSUME NEW a \in all
        PROVE  /\ a.op = "create" => /\ a.id = OwnId(a.cap, AtLeastOne(a.gen))
                                     /\ ~a.deposed /\ a.old \in {NoRes, bound[a.cap]}
               /\ a.op # "create" => a.old = NoRes
               /\ a.op = "claim" \/ (a.op = "delete" /\ ~a.deposed) => a.id = bound[a.cap]
    <3>1. a.cap \in Cap /\ a.cap \in caps /\ a \in Plan(a.cap, goal[a.cap]) /\ bound[a.cap] = Bound(a.cap)
      BY <1>2, <1>4, <1>5
    <3> QED BY <1>3, <3>1, PlanFactsMade
  <2>2. ASSUME NEW a \in all, NEW b \in all, a.cap = b.cap, a # b
        PROVE  /\ OpId(a) # OpId(b)
               /\ a.op = "create" => a.old # NoRes
               /\ a.deposed => b.deposed
    <3>1. a.cap \in Cap /\ a \in Plan(a.cap, goal[a.cap]) /\ b \in Plan(a.cap, goal[a.cap])
      BY <1>2, <1>4, <2>2
    <3> QED BY <1>3, <2>2, <3>1, PlanFactsMade
  <2> QED BY <1>6, <2>1, <2>2 DEF PlanFacts
<1>8. Done(n) = {} /\ Runs(n) /\ ~InHand(n)
  BY <1>6 DEF Done, Left, Runs, InHand
<1>9. InOrder(n) /\ Answer(n, alive, stamped)
  BY <1>6, <1>8 DEF InOrder, Answer
<1>10. OnLedger(n, led)
  <2>1. InPlace(n, led)
    BY <1>5, <1>6 DEF InPlace, Bound
  <2>2. Unopened(n, led)
    BY <1>2, <1>4, <1>6 DEF Unopened
  <2> QED BY <1>6, <1>8, <2>1, <2>2 DEF OnLedger, Shown, Opened
<1>11. Facts(n, led, alive, stamped, vain)
  BY <1>3, <1>6, <1>7, <1>8, <1>9, <1>10 DEF Faithful, Facts
<1>12. ASSUME worker[w] = Idle PROVE Recorded(n, led, alive, vain)
  <2> SUFFICES ASSUME NEW id \in alive \ Foreign PROVE Sure(n, led, vain, id)
    BY DEF Recorded
  <2>1. Sure(Idle, led, vain, id)
    BY <1>3, <1>12 DEF Faithful, Recorded, Fresh, Idle
  <2>2. \A c \in Shaky(n) : Bound(c) # id
    <3> SUFFICES ASSUME NEW a \in all, a.op = "create", a.old = NoRes PROVE Bound(a.cap) # id
      BY <1>6 DEF Shaky, Left
    <3>1. a.cap \in Cap /\ a \in Plan(a.cap, goal[a.cap])
      BY <1>2, <1>4
    <3> QED BY <1>3, <3>1, PlanFactsMade
  <2> QED BY <1>8, <2>1, <2>2 DEF Sure, Closing, Bound
<1>13. ASSUME Secluded, worker[w] = Idle PROVE AtHome(n, led) /\ Real(n, led, alive)
  <2>1. AtHome(Idle, led) /\ Backed(Idle, led, alive)
    BY <1>3, <1>13 DEF Faithful, Real
  <2>2. ASSUME NEW a \in all PROVE a.id \in Home(a.cap)
    <3>1. a \in Actions /\ a.cap \in Cap /\ a \in Plan(a.cap, goal[a.cap])
      BY <1>2, <1>4
    <3>2. CASE a.op = "create"
      <4>1. a.id = OwnId(a.cap, AtLeastOne(a.gen)) /\ AtLeastOne(a.gen) \in Nat
        BY <1>3, <3>1, <3>2, PlanFactsMade DEF Actions, AtLeastOne
      <4>2. a.id \in Own(a.cap) /\ a.id \in Ids
        BY <3>1, <4>1, OwnIsOwn
      <4> QED BY <4>2 DEF Home
    <3>3. CASE a.op # "create"
      <4>1. a.id = Bound(a.cap) \/ a.id \in led.replaced[a.cap]
        BY <1>3, <3>1, <3>3, PlanFactsMade
      <4>2. a.id # NoRes
        BY <3>1, ExecutorAssumption DEF Actions, Ids, ExecutorAssumption
      <4> QED BY <2>1, <3>1, <4>1, <4>2 DEF AtHome, Bound
    <3> QED BY <3>2, <3>3
  <2>3. AtHome(n, led)
    BY <1>6, <2>1, <2>2 DEF AtHome
  <2>4. Backed(n, led, alive)
    BY <1>8, <2>1 DEF Backed, Dying, Closing, Idle
  <2> QED BY <1>6, <2>3, <2>4 DEF Real, AnswerStands, VerdictStands, AdoptionStands
<1> QED BY <1>2, <1>11, <1>12, <1>13, TruthStarts DEF Faithful

LEMMA TruthStartOther ==
  ASSUME NEW w \in Worker, CrashInv(w), StartResume(w) \/ StartAdopt(w) \/ StartUnadopt(w)
  PROVE  Truth(w)'
<1>1. ExecInv /\ LedTyped /\ WorldTyped /\ Faithful(worker[w], led, alive, stamped, vain)
  BY DEF CrashInv, Truth, ExecInv
<1>2. Idle.verb # "apply"
  BY DEF Idle
<1>3. CASE StartResume(w)
  <2> DEFINE caps == {c \in Cap : led.pending[c] # {}}
             todo == UNION {[cap : {c}, receipt : led.pending[c]] : c \in caps}
  <2>1. PICK at : StartRun(w, [ verb |-> "resume", pc |-> "lease", caps |-> caps, at |-> at,
                                token |-> 0, todo |-> todo, cur |-> NoRes, verdict |-> "none" ])
    BY <1>3 DEF StartResume
  <2> DEFINE n == [ verb |-> "resume", pc |-> "lease", caps |-> caps, at |-> at,
                    token |-> 0, todo |-> todo, cur |-> NoRes, verdict |-> "none" ]
  <2>2. StartRun(w, n)
    BY <2>1
  <2>3. \A item \in todo : item.receipt \in led.pending[item.cap]
    OBVIOUS
  <2> HIDE DEF caps, todo
  <2>4. n.verb = "resume" /\ n.pc = "lease" /\ n.todo = todo
    OBVIOUS
  <2> HIDE DEF n
  <2>5. ResumeFacts(n, led, alive) /\ VerdictStands(n, led, alive) /\ AdoptionStands(n, alive)
    BY <2>3, <2>4 DEF ResumeFacts, VerdictStands, AdoptionStands
  <2>6. worker[w] = Idle => Faithful(n, led, alive, stamped, vain)
    BY <1>1, <1>2, <2>4, <2>5, NotApply
  <2> QED BY <2>2, <2>6, TruthStarts
<1>4. CASE StartAdopt(w)
  <2>1. PICK c \in Cap, id \in alive, at \in led.clock..MaxClock :
          /\ "adopt" \in Verbs /\ Bound(c) = NoRes
          /\ led.pending[c] = {} /\ id \notin BoundIds(led)
          /\ StartRun(w, [ verb |-> "adopt", pc |-> "lease", caps |-> {c}, at |-> at, token |-> 0,
                           to |-> [id |-> id, gen |-> 1, adopted |-> TRUE] ])
    BY <1>4 DEF StartAdopt
  <2> DEFINE n == [ verb |-> "adopt", pc |-> "lease", caps |-> {c}, at |-> at, token |-> 0,
                    to |-> [id |-> id, gen |-> 1, adopted |-> TRUE] ]
  <2>2. StartRun(w, n)
    BY <2>1
  <2>3. n.verb = "adopt" /\ n.pc = "lease" /\ n.caps = {c} /\ n.to.id = id
    OBVIOUS
  <2> HIDE DEF n
  <2>4. id \in Ids
    BY <1>1 DEF WorldTyped
  <2>5. ASSUME id \in Own(c), worker[w] = Idle PROVE SetAside(led, vain, id)
    <3>1. id \notin Foreign /\ id # NoRes /\ \A d \in Cap : id \in Own(d) => d = c
      BY <2>5, OwnIsOwn
    <3>2. Sure(Idle, led, vain, id)
      BY <1>1, <2>5, <3>1 DEF Faithful, Recorded, Fresh, Idle
    <3>3. \A d \in Cap : led.binding[d].id # id
      BY <2>1, <3>1 DEF BoundIds
    <3>4. \A d \in Cap : \A r \in led.pending[d] : r.kind = "create" => Sought(d, r) # id
      BY <1>1, <2>1, <3>1 DEF Faithful, Facts, PendingFacts
    <3> QED BY <3>2, <3>3, <3>4 DEF Sure
  <2>6. worker[w] = Idle => BindFacts(n, led, vain)
    BY <2>1, <2>3, <2>4, <2>5 DEF BindFacts, Bound
  <2>7. VerdictStands(n, led, alive) /\ AdoptionStands(n, alive)
    BY <2>3 DEF VerdictStands, AdoptionStands
  <2>8. worker[w] = Idle => Faithful(n, led, alive, stamped, vain)
    BY <1>1, <1>2, <2>3, <2>6, <2>7, NotApply
  <2> QED BY <2>2, <2>8, TruthStarts
<1>5. CASE StartUnadopt(w)
  <2>1. PICK c \in Cap, at \in led.clock..MaxClock :
          /\ led.binding[c].adopted
          /\ StartRun(w, [ verb |-> "unadopt", pc |-> "lease", caps |-> {c}, at |-> at,
                           token |-> 0, to |-> Unbound ])
    BY <1>5 DEF StartUnadopt
  <2> DEFINE n == [ verb |-> "unadopt", pc |-> "lease", caps |-> {c}, at |-> at,
                    token |-> 0, to |-> Unbound ]
  <2>2. StartRun(w, n)
    BY <2>1
  <2>3. n.verb = "unadopt" /\ n.pc = "lease" /\ n.caps = {c} /\ n.to = Unbound
    OBVIOUS
  <2> HIDE DEF n
  <2>4. BindFacts(n, led, vain)
    BY <2>1, <2>3 DEF BindFacts
  <2>5. VerdictStands(n, led, alive) /\ AdoptionStands(n, alive)
    BY <2>3 DEF VerdictStands, AdoptionStands
  <2>6. worker[w] = Idle => Faithful(n, led, alive, stamped, vain)
    BY <1>1, <1>2, <2>3, <2>4, <2>5, NotApply
  <2> QED BY <2>2, <2>6, TruthStarts
<1> QED BY <1>3, <1>4, <1>5

----------------------------------------------------------------------------
(* apply: the intent. *)

(* A receipt on the ledger, and nothing else. *)
Wrote(l, m, c, status, receipt) ==
  /\ m.binding = l.binding /\ m.claimed = l.claimed /\ m.replaced = l.replaced
  /\ m.pending[c] = Receipted(l.pending[c], status, receipt)
  /\ \A d \in Cap \ {c} : m.pending[d] = l.pending[d]

LEMMA ReceiptWrites ==
  ASSUME LedTyped, NEW w \in Worker, NEW c \in Cap, NEW status, NEW receipt, NEW now
  PROVE  Wrote(led, Step(led, ReceiptEvent(w, c, status, receipt), now), c, status, receipt)
<1> DEFINE m == Step(led, ReceiptEvent(w, c, status, receipt), now)
<1>1. /\ m.binding = led.binding /\ m.claimed = led.claimed /\ m.replaced = led.replaced
      /\ m.pending[c] = Receipted(led.pending[c], status, receipt)
      /\ \A d \in Cap \ {c} : m.pending[d] = led.pending[d]
  BY ReceiptEffect
<1> HIDE DEF m
<1>2. Wrote(led, m, c, status, receipt)
  BY <1>1 DEF Wrote
<1> QED BY <1>2 DEF m

LEMMA WroteFacts ==
  ASSUME NEW l, NEW m, NEW c \in Cap, NEW status, NEW receipt, NEW st, NEW va,
         Wrote(l, m, c, status, receipt), PendingFacts(l), Claimed(l, st), Adopted(l, va),
         status \in PendingStatuses /\ receipt.kind = "create" => Sought(c, receipt) \in Own(c)
  PROVE  PendingFacts(m) /\ Claimed(m, st) /\ Adopted(m, va)
<1>1. PendingFacts(m)
  <2> SUFFICES ASSUME NEW d \in Cap
               PROVE  /\ \A r, q \in m.pending[d] : r.op = q.op => r = q
                      /\ \A r \in m.pending[d] : r.kind = "create" => Sought(d, r) \in Own(d)
    BY DEF PendingFacts
  <2>1. CASE d = c
    BY <2>1 DEF Wrote, Receipted, PendingFacts
  <2>2. CASE d # c
    BY <2>2 DEF Wrote, PendingFacts
  <2> QED BY <2>1, <2>2
<1>2. Claimed(m, st) /\ Adopted(m, va)
  BY DEF Wrote, Claimed, Adopted, SetAside
<1> QED BY <1>1, <1>2

(* What a receipt of an action is about. *)
LEMMA ReceiptAbout ==
  ASSUME NEW a \in Actions, NEW called, NEW id \in Ids \cup {NoRes},
         a.op = "create" => a.id = OwnId(a.cap, AtLeastOne(a.gen)) /\ id \in Own(a.cap) \cup {NoRes}
  PROVE  LET r == ReceiptOf(a, called, id) IN
         /\ r.op = OpId(a) /\ r.kind = a.op
         /\ a.op = "create" => /\ Sought(a.cap, r) \in Own(a.cap)
                               /\ Sought(a.cap, r) = IF id = NoRes THEN a.id ELSE id
         /\ a.op \in {"update", "delete"} => r.target = a.id /\ Sought(a.cap, r) = a.id
<1> DEFINE r == ReceiptOf(a, called, id)
<1>1. /\ r.op = OpId(a) /\ r.kind = a.op
      /\ a.op = "create" => r.gen = AtLeastOne(a.gen) /\ r.target = id
      /\ a.op \in {"update", "delete"} => r.target = a.id
  BY DEF ReceiptOf
<1>2. AtLeastOne(a.gen) \in Nat /\ a.cap \in Cap
  BY DEF AtLeastOne, Actions
<1>3. OwnId(a.cap, AtLeastOne(a.gen)) \in Own(a.cap)
  BY <1>2, OwnIsOwn
<1> HIDE DEF r
<1>4. a.op = "create" => Sought(a.cap, r) = IF id = NoRes THEN a.id ELSE id
  BY <1>1 DEF Sought
<1>5. a.op = "create" => Sought(a.cap, r) \in Own(a.cap)
  BY <1>3, <1>4
<1>6. a.op \in {"update", "delete"} => Sought(a.cap, r) = a.id
  BY <1>1 DEF Sought
<1> QED BY <1>1, <1>4, <1>5, <1>6 DEF r

LEMMA TruthIntent ==
  ASSUME NEW w \in Worker, CrashInv(w), WriteIntent(w)
  PROVE  Truth(w)'
<1> DEFINE s == worker[w]
<1>1. At(w, "apply", "act") /\ UNCHANGED world /\ UNCHANGED vain
  BY DEF WriteIntent
<1>2. PICK a \in s.todo :
        /\ ~Waits(w, a) /\ ~DepFailed(w, a)
        /\ AppendOr(ReceiptEvent(w, a.cap, "pending", ReceiptOf(a, FALSE, NoRes)), w,
                    [To(w, "call") EXCEPT !.cur = a, !.todo = @ \ {a}], Idle)
  BY DEF WriteIntent
<1> DEFINE n == [To(w, "call") EXCEPT !.cur = a, !.todo = @ \ {a}]
           R == ReceiptOf(a, FALSE, NoRes)
           e == ReceiptEvent(w, a.cap, "pending", R)
<1>3. /\ ExecInv /\ LedTyped /\ s \in ApplyRecs /\ PlanShape(s) /\ Progress(s) /\ s.verb = "apply"
      /\ s.pc = "act" /\ Runs(s) /\ Faithful(s, led, alive, stamped, vain)
      /\ PlanFacts(s) /\ InOrder(s) /\ OnLedger(s, led)
  BY <1>1, AtApply DEF Working
<1>4. a \in Actions /\ a \in s.plan /\ a.cap \in Cap
  BY <1>3 DEF ApplyRecs, Progress, Actions
<1>5. /\ n.verb = "apply" /\ n.pc = "call" /\ n.plan = s.plan /\ n.bound = s.bound
      /\ n.caps = s.caps /\ n.todo = s.todo \ {a} /\ n.failed = s.failed /\ n.cur = a
  BY <1>3 DEF ApplyRecs, To
<1>6. /\ R.op = OpId(a) /\ R.kind = a.op
      /\ a.op = "create" => Sought(a.cap, R) \in Own(a.cap)
      /\ a.op \in {"update", "delete"} => R.target = a.id /\ Sought(a.cap, R) = a.id
  <2>1. a.op = "create" => a.id = OwnId(a.cap, AtLeastOne(a.gen))
    BY <1>3, <1>4 DEF PlanFacts
  <2>2. NoRes \in Ids \cup {NoRes} /\ NoRes \in Own(a.cap) \cup {NoRes}
    OBVIOUS
  <2> QED BY <1>4, <2>1, <2>2, ReceiptAbout
<1>7. AppendOr(e, w, n, Idle)
  BY <1>2
<1> HIDE DEF n, R
<1>8. CASE ~Admits(e) /\ UNCHANGED led /\ Become(w, Idle)
  BY <1>1, <1>8, Refused DEF Over, Idle
<1>9. CASE Admits(e) /\ led' = Step(led, e, e.at) /\ Become(w, n)
  <2>1. Wrote(led, led', a.cap, "pending", R)
    BY <1>3, <1>4, <1>9, ReceiptWrites
  <2> DEFINE m == led'
  <2>2. m.pending[a.cap] = {r \in led.pending[a.cap] : r.op # OpId(a)} \cup {R}
    BY <1>6, <2>1 DEF Wrote, Receipted, PendingStatuses
  <2>3. Left(n) = Left(s) /\ Done(n) = Done(s) /\ Runs(n) /\ InHand(n) /\ ~InHand(s)
        /\ Left(s) = s.todo
    BY <1>3, <1>5 DEF Left, Done, Runs, InHand
  <2>4. PlanFacts(n)
    BY <1>3, <1>5 DEF PlanFacts
  <2>5. InOrder(n)
    <3>1. \A b \in s.plan : DependsOn(a, b) => b \in Done(n)
      BY <1>2, <2>3 DEF Waits, DepFailed, Done
    <3> QED BY <1>3, <1>5, <2>3, <3>1 DEF InOrder
  <2>6. OnLedger(n, m)
    <3>1. InPlace(n, m)
      BY <1>3, <1>5, <2>1, <2>3 DEF OnLedger, InPlace, Wrote
    <3>2. Shown(n, m)
      BY <1>3, <1>5, <2>1, <2>3 DEF OnLedger, Shown, Wrote
    <3>3. Unopened(n, m)
      <4> SUFFICES ASSUME NEW b \in s.todo \ {a}, NEW r \in m.pending[b.cap] PROVE r.op # OpId(b)
        BY <1>5 DEF Unopened
      <4>1. b \in s.plan /\ b.cap \in Cap /\ \A q \in led.pending[b.cap] : q.op # OpId(b)
        BY <1>3 DEF Progress, ApplyRecs, Actions, OnLedger, Unopened
      <4>2. CASE b.cap = a.cap
        <5>1. OpId(a) # OpId(b)
          BY <1>3, <1>4, <4>1, <4>2 DEF PlanFacts
        <5> QED BY <1>6, <2>2, <4>1, <4>2, <5>1
      <4>3. CASE b.cap # a.cap
        BY <2>1, <4>1, <4>3 DEF Wrote
      <4> QED BY <4>2, <4>3
    <3>4. Opened(n, m)
      BY <1>5, <2>2 DEF Opened, R
    <3> QED BY <3>1, <3>2, <3>3, <3>4 DEF OnLedger
  <2>7. Facts(n, m, alive, stamped, vain)
    <3>1. PendingFacts(m) /\ Claimed(m, stamped) /\ Adopted(m, vain)
      <4>1. PendingFacts(led) /\ Claimed(led, stamped) /\ Adopted(led, vain)
        BY <1>3 DEF Faithful, Facts
      <4> QED BY <1>4, <1>6, <2>1, <4>1, WroteFacts
    <3> QED BY <1>5, <2>4, <2>5, <2>6, <3>1 DEF Facts, Answer
  <2>8. \A r \in led.pending[a.cap] : r.op # OpId(a)
    BY <1>3 DEF OnLedger, Unopened
  <2>9. \A c \in Cap : \A r \in led.pending[c] : r \in m.pending[c] /\ ~Closing(n, c, r)
    BY <1>5, <2>1, <2>2, <2>8 DEF Closing, Wrote
  <2>10. Recorded(n, m, alive, vain)
    <3>1. Shaky(n) = Shaky(s)
      BY <1>3, <1>5, <2>3 DEF Shaky
    <3> SUFFICES ASSUME NEW id \in alive \ Foreign PROVE Sure(n, m, vain, id)
      BY DEF Recorded
    <3>2. Sure(s, led, vain, id)
      BY <1>3 DEF Faithful, Recorded, Fresh
    <3> QED BY <2>1, <2>9, <3>1, <3>2 DEF Sure, SetAside, Wrote
  <2>11. ASSUME Secluded PROVE AtHome(n, m) /\ Real(n, m, alive)
    <3>1. AtHome(s, led) /\ Backed(s, led, alive)
      BY <1>3, <2>11 DEF Faithful, Real
    <3>2. AtHome(n, m)
      <4>1. a.op # "claim" => Sought(a.cap, R) \in Home(a.cap)
        <5>1. a.op = "create" => Sought(a.cap, R) \in Home(a.cap)
          BY <1>4, <1>6, OwnIsOwn DEF Home
        <5>2. a.id \in Home(a.cap)
          BY <1>3, <1>4, <3>1 DEF AtHome
        <5> QED BY <1>4, <1>6, <5>1, <5>2 DEF Actions, Ops
      <4>2. ASSUME NEW c \in Cap, NEW r \in m.pending[c], r.kind # "claim" PROVE Sought(c, r) \in Home(c)
        <5>1. CASE c = a.cap
          BY <1>6, <2>2, <3>1, <4>1, <4>2, <5>1 DEF AtHome
        <5>2. CASE c # a.cap
          BY <2>1, <3>1, <4>2, <5>2 DEF AtHome, Wrote
        <5> QED BY <5>1, <5>2
      <4> QED BY <1>3, <1>5, <2>1, <3>1, <4>2 DEF AtHome, Wrote
    <3>3. Backed(n, m, alive)
      BY <1>3, <2>1, <2>9, <3>1 DEF Backed, Dying, Wrote
    <3> QED BY <1>5, <3>2, <3>3 DEF Real, AnswerStands, VerdictStands, AdoptionStands
  <2>12. Faithful(n, led', alive', stamped', vain')
    BY <1>1, <2>7, <2>10, <2>11 DEF Faithful, world
  <2> QED BY <1>3, <1>9, <2>12, Lands
<1> HIDE DEF e
<1> QED BY <1>7, <1>8, <1>9 DEF AppendOr

----------------------------------------------------------------------------
(* apply: the call. *)

LEMMA HomeApart ==
  ASSUME NEW c \in Cap, NEW d \in Cap, NEW id, id \in Home(c), id \in Home(d)
  PROVE  c = d
  BY OwnIsOwn DEF Home

(* While a create or an update is ahead, the binding is the one of the plan. *)
LEMMA StillBound ==
  ASSUME NEW s, PlanShape(s), Progress(s), InOrder(s), NEW l, InPlace(s, l),
         NEW a \in Left(s), a.op \in {"create", "update"}
  PROVE  l.binding[a.cap].id = s.bound[a.cap]
<1>1. a \in s.plan /\ a.cap \in s.caps
  BY DEF Progress, Left, PlanShape
<1>2. SUFFICES ASSUME NEW b \in Done(s), b.cap = a.cap, b.op \in {"create", "delete"} PROVE FALSE
  BY <1>1 DEF InPlace
<1>3. b \in s.plan /\ b # a
  BY DEF Done
<1>4. a.op = "create" /\ b.op = "delete"
  BY <1>1, <1>2, <1>3 DEF PlanShape
<1>5. DependsOn(b, a)
  BY <1>2, <1>4 DEF DependsOn
<1>6. a \in Done(s)
  BY <1>1, <1>5 DEF InOrder
<1> QED BY <1>6 DEF Done

LEMMA TruthCall ==
  ASSUME NEW w \in Worker, CrashInv(w), CallProvider(w)
  PROVE  Truth(w)'
<1> DEFINE s == worker[w]
           a == worker[w].cur
<1>1. At(w, "apply", "call") /\ UNCHANGED <<led, vain>>
  BY DEF CallProvider
<1>2. /\ ExecInv /\ LedTyped /\ WorldTyped /\ s \in ApplyRecs /\ PlanShape(s) /\ Progress(s)
      /\ s.verb = "apply" /\ s.pc = "call" /\ Runs(s) /\ Faithful(s, led, alive, stamped, vain)
      /\ PlanFacts(s) /\ InOrder(s) /\ OnLedger(s, led)
  BY <1>1, AtApply DEF Working
<1>3. a \in Actions /\ a \in s.plan /\ a.cap \in Cap /\ a \in Left(s) /\ a.id \in Ids
      /\ a.op \in Ops
  BY <1>2 DEF ApplyRecs, Progress, Actions, Left
<1>4. PICK landed \in BOOLEAN, id \in Answers(a) :
      \E status \in Reports(a, landed) :
       /\ landed => Possible(a)
       /\ alive' = CASE landed /\ a.op = "create" -> alive \cup {id}
                     [] landed /\ a.op = "delete" -> alive \ {id}
                     [] OTHER -> alive
       /\ stamped' = IF landed /\ a.op = "claim" THEN stamped \cup ({id} \cap Foreign) ELSE stamped
       /\ Become(w, [To(w, "settle") EXCEPT !.reply = [status |-> Judged(a, id, status),
                                                       id |-> id]])
  BY DEF CallProvider
<1>5. PICK status \in {"succeeded", "failed", "retryable", "unknown"} :
       /\ landed => status # "retryable"
       /\ landed /\ a.op = "delete" /\ ~Halfway => status # "failed"
       /\ ~landed => status # "succeeded"
       /\ landed => Possible(a)
       /\ alive' = CASE landed /\ a.op = "create" -> alive \cup {id}
                     [] landed /\ a.op = "delete" -> alive \ {id}
                     [] OTHER -> alive
       /\ stamped' = IF landed /\ a.op = "claim" THEN stamped \cup ({id} \cap Foreign) ELSE stamped
       /\ Become(w, [To(w, "settle") EXCEPT !.reply = [status |-> Judged(a, id, status),
                                                       id |-> id]])
  BY <1>4 DEF Reports
<1> DEFINE n == [To(w, "settle") EXCEPT !.reply = [status |-> Judged(a, id, status), id |-> id]]
<1>6. /\ n.verb = "apply" /\ n.pc = "settle" /\ n.plan = s.plan /\ n.bound = s.bound
      /\ n.caps = s.caps /\ n.todo = s.todo /\ n.failed = s.failed /\ n.cur = a
      /\ n.reply.status = Judged(a, id, status) /\ n.reply.id = id
  BY <1>2 DEF ApplyRecs, To
<1>7. Become(w, n)
  BY <1>5
<1> HIDE DEF n
<1>8. /\ alive' = IF landed /\ a.op = "create" THEN alive \cup {id}
                  ELSE IF landed /\ a.op = "delete" THEN alive \ {id} ELSE alive
      /\ stamped' = IF landed /\ a.op = "claim" THEN stamped \cup ({id} \cap Foreign) ELSE stamped
      /\ landed => Possible(a)
      /\ landed => status # "retryable"
      /\ landed /\ a.op = "delete" /\ ~Halfway => status # "failed"
      /\ ~landed => status # "succeeded"
  BY <1>5
<1>9. /\ a.op = "create" => id \in Own(a.cap) /\ a.id \in Own(a.cap)
      /\ a.op # "create" => id = a.id
      /\ id # a.id => id \in alive
  <2>1. a.op = "create" => a.id \in Own(a.cap)
    <3>1. AtLeastOne(a.gen) \in Nat
      BY <1>3 DEF Actions, AtLeastOne
    <3> QED BY <1>2, <1>3, <3>1, OwnIsOwn DEF PlanFacts
  <2>2. ASSUME id \in alive \ Foreign, id[1] = a.cap PROVE id \in Own(a.cap)
    <3>1. id \in Cap \X Nat
      BY <1>2, <2>2 DEF WorldTyped, Ids
    <3> QED BY <2>2, <3>1 DEF Own
  <2> QED BY <2>1, <2>2 DEF Answers
<1>10. /\ Judged(a, id, status) \in {status, "failed"}
       /\ Judged(a, id, status) = "succeeded" => status = "succeeded" /\ landed
       /\ Judged(a, id, status) = "succeeded" /\ a.op = "create" => id # a.old
       /\ a.op # "create" => Judged(a, id, status) = status
       /\ Judged(a, id, status) # status => a.op = "create" /\ id = a.old /\ a.old # NoRes
  <2>1. a.op = "create" => id # NoRes
    BY <1>3, <1>9, OwnIsOwn
  <2> QED BY <1>8, <2>1 DEF Judged
<1>11. Left(n) = Left(s) /\ Done(n) = Done(s) /\ Runs(n) /\ InHand(n) /\ InHand(s)
       /\ Shaky(n) = Shaky(s)
  <2>1. Left(n) = Left(s) /\ Runs(n) /\ InHand(n) /\ InHand(s)
    BY <1>2, <1>6 DEF Left, Runs, InHand
  <2> QED BY <1>2, <1>6, <2>1 DEF Done, Shaky
<1>12. Facts(n, led, alive', stamped', vain)
  <2>1. PlanFacts(n)
    BY <1>2, <1>6 DEF PlanFacts
  <2>2. InOrder(n)
    BY <1>2, <1>6, <1>11 DEF InOrder
  <2>3. OnLedger(n, led)
    <3>1. InPlace(n, led) /\ Shown(n, led)
      BY <1>2, <1>6, <1>11 DEF OnLedger, InPlace, Shown
    <3>2. Unopened(n, led) /\ Opened(n, led)
      BY <1>2, <1>6 DEF OnLedger, Unopened, Opened
    <3> QED BY <3>1, <3>2 DEF OnLedger
  <2>4. Answer(n, alive', stamped')
    BY <1>6, <1>8, <1>9, <1>10 DEF Answer
  <2>5. PendingFacts(led) /\ Claimed(led, stamped') /\ Adopted(led, vain)
    BY <1>2, <1>8 DEF Faithful, Facts, Claimed
  <2> QED BY <1>6, <2>1, <2>2, <2>3, <2>4, <2>5 DEF Facts
<1>13. \A c, r : Closing(n, c, r) <=> Closing(s, c, r)
  BY <1>6, <1>11 DEF Closing
<1>14. Recorded(n, led, alive', vain)
  <2> SUFFICES ASSUME NEW jd \in alive' \ Foreign PROVE Sure(n, led, vain, jd) \/ Fresh(n, jd)
    BY DEF Recorded
  <2>1. CASE jd \in alive
    <3>1. Sure(s, led, vain, jd)
      BY <1>2, <2>1 DEF Faithful, Recorded, Fresh
    <3> QED BY <1>11, <1>13, <3>1 DEF Sure
  <2>2. CASE jd \notin alive
    <3>1. landed /\ a.op = "create" /\ jd = id /\ id = a.id
      BY <1>8, <1>9, <2>2
    <3> QED BY <1>6, <1>8, <1>10, <3>1 DEF Fresh
  <2> QED BY <2>1, <2>2
<1>15. ASSUME Secluded PROVE AtHome(n, led) /\ Real(n, led, alive')
  <2>1. AtHome(s, led) /\ Backed(s, led, alive)
    BY <1>2, <1>15 DEF Faithful, Real
  <2>2. AtHome(n, led)
    BY <1>2, <1>6, <2>1 DEF AtHome
  <2>3. Backed(n, led, alive')
    <3> SUFFICES ASSUME NEW c \in Cap, led.binding[c].id \notin alive' \cup {NoRes},
                        ~ \E r \in led.pending[c] :
                             r.kind = "delete" /\ r.target = led.binding[c].id /\ ~Closing(n, c, r)
                 PROVE  Dying(n, led, c)
      BY DEF Backed
    <3>1. led.binding[c].id \in alive
      BY <1>2, <1>13, <2>1 DEF Backed, Dying
    <3>2. landed /\ a.op = "delete" /\ led.binding[c].id = a.id
      BY <1>8, <1>9, <3>1
    <3>3. a.id \in Home(a.cap) /\ led.binding[c].id \in Home(c)
      <4>1. led.binding[c].id # NoRes
        OBVIOUS
      <4> QED BY <1>2, <1>3, <2>1, <4>1 DEF AtHome
    <3>4. c = a.cap
      BY <1>3, <3>2, <3>3, HomeApart
    <3> QED BY <1>6, <1>8, <1>10, <1>15, <3>2, <3>4 DEF Dying, Secluded
  <2>4. AnswerStands(n, alive')
    <3> SUFFICES ASSUME n.reply.status = "succeeded", a.op # "delete" PROVE id \in alive'
      BY <1>6 DEF AnswerStands
    <3>1. landed
      BY <1>6, <1>10
    <3>2. CASE a.op = "create"
      BY <1>8, <3>1, <3>2
    <3>3. CASE a.op \in {"update", "claim"}
      BY <1>8, <1>9, <3>1, <3>3 DEF Possible
    <3> QED BY <1>3, <3>2, <3>3 DEF Ops
  <2> QED BY <1>6, <2>2, <2>3, <2>4 DEF Real, VerdictStands, AdoptionStands
<1>16. Faithful(n, led', alive', stamped', vain')
  BY <1>1, <1>12, <1>14, <1>15 DEF Faithful
<1> QED BY <1>2, <1>7, <1>16, Lands

----------------------------------------------------------------------------
(* apply: the receipts that end an action. *)

LEMMA HandsBack ==
  ASSUME NEW w \in Worker, CrashInv(w), NEW pc \in {"settle", "conclude"}, At(w, "apply", pc),
         NEW n, n.verb = "apply", n.pc = "act", n.plan = worker[w].plan,
         n.bound = worker[w].bound, n.caps = worker[w].caps, n.todo = worker[w].todo,
         Done(n) = Done(worker[w]), n.failed \cap Left(n) = {},
         NEW status, NEW called, NEW id \in Ids \cup {NoRes}, NEW m, NEW va, vain \subseteq va,
         worker[w].cur.op = "create" => id \in Own(worker[w].cur.cap) \cup {NoRes},
         Wrote(led, m, worker[w].cur.cap, status, ReceiptOf(worker[w].cur, called, id)),
         pc = "settle" => \/ worker[w].reply.status \in {"failed", "retryable"}
                          \/ /\ worker[w].reply.status = "unknown" /\ status = "unknown"
                             /\ id = worker[w].reply.id,
         pc = "settle" /\ worker[w].cur.op = "create" /\ worker[w].reply.status = "failed"
           => worker[w].cur.id \in va
  PROVE  Faithful(n, m, alive, stamped, va)
<1> DEFINE s == worker[w]
           a == worker[w].cur
           R == ReceiptOf(a, called, id)
<1>1. /\ LedTyped /\ s \in ApplyRecs /\ PlanShape(s) /\ Progress(s) /\ s.verb = "apply"
      /\ s.pc = pc /\ Runs(s) /\ Faithful(s, led, alive, stamped, vain)
      /\ PlanFacts(s) /\ InOrder(s) /\ OnLedger(s, led) /\ Answer(s, alive, stamped)
  BY AtApply DEF Working
<1>2. /\ a \in Actions /\ a \in s.plan \ s.todo /\ a.cap \in Cap /\ a.op \in Ops
  BY <1>1 DEF ApplyRecs, Progress, Actions
<1>3. /\ R.op = OpId(a) /\ R.kind = a.op
      /\ a.op = "create" => /\ Sought(a.cap, R) \in Own(a.cap)
                            /\ Sought(a.cap, R) = IF id = NoRes THEN a.id ELSE id
      /\ a.op \in {"update", "delete"} => R.target = a.id /\ Sought(a.cap, R) = a.id
  <2>1. a.op = "create" => a.id = OwnId(a.cap, AtLeastOne(a.gen))
    BY <1>1, <1>2 DEF PlanFacts
  <2> QED BY <1>2, <2>1, ReceiptAbout
<1>4. Wrote(led, m, a.cap, status, R)
  OBVIOUS
<1> HIDE DEF R
<1>5. /\ m.binding = led.binding /\ m.replaced = led.replaced
      /\ m.pending[a.cap] = {r \in led.pending[a.cap] : r.op # OpId(a)}
                              \cup IF status \in PendingStatuses THEN {R} ELSE {}
      /\ \A d \in Cap \ {a.cap} : m.pending[d] = led.pending[d]
  BY <1>3, <1>4 DEF Wrote, Receipted
<1>6. Left(n) \subseteq Left(s) /\ Runs(n) /\ ~InHand(n) /\ InHand(s) /\ Left(n) = s.todo
  BY <1>1 DEF Left, Runs, InHand
<1>7. \A c \in Cap : \A r \in led.pending[c] :
        ~Closing(s, c, r) => r \in m.pending[c] /\ ~Closing(n, c, r)
  BY <1>5, <1>6 DEF Closing
<1>8. Facts(n, m, alive, stamped, va)
  <2>1. PlanFacts(n)
    BY <1>1 DEF PlanFacts
  <2>2. InOrder(n)
    BY <1>1 DEF InOrder
  <2>3. InPlace(n, m) /\ Shown(n, m)
    <3>1. InPlace(s, led) /\ Shown(s, led)
      BY <1>1 DEF OnLedger
    <3>2. m.binding = led.binding /\ m.claimed = led.claimed
      BY <1>4 DEF Wrote
    <3>3. InPlace(n, m)
      BY <3>1, <3>2 DEF InPlace
    <3>4. Shown(n, m)
      BY <3>1, <3>2 DEF Shown
    <3> QED BY <3>3, <3>4
  <2>4. Unopened(n, m)
    <3> SUFFICES ASSUME NEW b \in s.todo, NEW r \in m.pending[b.cap] PROVE r.op # OpId(b)
      BY DEF Unopened
    <3>1. b \in s.plan /\ b # a /\ b.cap \in Cap /\ \A q \in led.pending[b.cap] : q.op # OpId(b)
      BY <1>1, <1>2 DEF Progress, ApplyRecs, Actions, OnLedger, Unopened
    <3>2. CASE b.cap = a.cap
      <4>1. OpId(a) # OpId(b)
        BY <1>1, <1>2, <3>1, <3>2 DEF PlanFacts
      <4> QED BY <1>3, <1>5, <3>1, <3>2, <4>1
    <3>3. CASE b.cap # a.cap
      BY <1>5, <3>1, <3>3
    <3> QED BY <3>2, <3>3
  <2>5. OnLedger(n, m) /\ Answer(n, alive, stamped)
    BY <2>3, <2>4 DEF OnLedger, Opened, Answer
  <2>6. PendingFacts(m) /\ Claimed(m, stamped) /\ Adopted(m, va)
    <3>1. PendingFacts(led) /\ Claimed(led, stamped) /\ Adopted(led, vain)
      BY <1>1 DEF Faithful, Facts
    <3>2. PendingFacts(m) /\ Claimed(m, stamped) /\ Adopted(m, vain)
      BY <1>2, <1>3, <1>4, <3>1, WroteFacts
    <3> QED BY <3>2 DEF Adopted, SetAside
  <2> QED BY <2>1, <2>2, <2>5, <2>6 DEF Facts
<1>9. Recorded(n, m, alive, va)
  <2> SUFFICES ASSUME NEW jd \in alive \ Foreign PROVE Sure(n, m, va, jd)
    BY DEF Recorded
  <2>1. CASE Sure(s, led, vain, jd)
    <3>1. Shaky(n) \subseteq Shaky(s)
      BY <1>1, <1>6 DEF Shaky
    <3> QED BY <1>5, <1>7, <2>1, <3>1 DEF Sure, SetAside
  <2>2. CASE Fresh(s, jd)
    <3>1. pc = "settle" /\ a.op = "create" /\ a.id = jd /\ s.reply.id = jd
      BY <1>1, <2>2 DEF Fresh
    <3>2. CASE s.reply.status = "failed"
      BY <3>1, <3>2 DEF Sure, SetAside
    <3>3. CASE s.reply.status # "failed"
      <4>1. status = "unknown" /\ id = jd
        BY <1>1, <2>2, <3>1, <3>3 DEF Fresh
      <4>2. R \in m.pending[a.cap] /\ R.kind = "create" /\ Sought(a.cap, R) = jd
        BY <1>3, <1>5, <3>1, <4>1 DEF PendingStatuses
      <4> QED BY <1>2, <1>6, <4>2 DEF Sure, Closing
    <3> QED BY <3>2, <3>3
  <2> QED BY <1>1, <2>1, <2>2 DEF Faithful, Recorded
<1>10. ASSUME Secluded PROVE AtHome(n, m) /\ Real(n, m, alive)
  <2>1. AtHome(s, led) /\ Backed(s, led, alive)
    BY <1>1, <1>10 DEF Faithful, Real
  <2>2. AtHome(n, m)
    <3>1. a.op # "claim" => Sought(a.cap, R) \in Home(a.cap)
      <4>1. a.op = "create" => Sought(a.cap, R) \in Home(a.cap)
        BY <1>2, <1>3, OwnIsOwn DEF Home
      <4>2. a.id \in Home(a.cap)
        BY <1>1, <1>2, <2>1 DEF AtHome
      <4> QED BY <1>2, <1>3, <4>1, <4>2 DEF Ops
    <3>2. ASSUME NEW c \in Cap, NEW r \in m.pending[c], r.kind # "claim" PROVE Sought(c, r) \in Home(c)
      <4>1. r \in led.pending[c] \/ (c = a.cap /\ r = R)
        BY <1>5
      <4> QED BY <1>3, <2>1, <3>1, <3>2, <4>1 DEF AtHome
    <3> QED BY <1>1, <1>5, <2>1, <3>2 DEF AtHome
  <2>3. Backed(n, m, alive)
    <3> SUFFICES ASSUME NEW c \in Cap, led.binding[c].id \notin alive \cup {NoRes}
                 PROVE  \E r \in m.pending[c] : r.kind = "delete" /\ r.target = led.binding[c].id
                                                /\ ~Closing(n, c, r)
      BY <1>5 DEF Backed
    <3>1. CASE Dying(s, led, c)
      <4>1. /\ pc = "settle" /\ a.op = "delete" /\ a.cap = c /\ status = "unknown"
            /\ led.binding[c].id = a.id
        BY <1>1, <3>1 DEF Dying
      <4> QED BY <1>3, <1>5, <1>6, <4>1 DEF Closing, PendingStatuses
    <3> QED BY <1>7, <2>1, <3>1 DEF Backed
  <2> QED BY <2>2, <2>3 DEF Real, AnswerStands, VerdictStands, AdoptionStands
<1> QED BY <1>8, <1>9, <1>10 DEF Faithful

LEMMA TruthFailure ==
  ASSUME NEW w \in Worker, CrashInv(w), SettleFailure(w)
  PROVE  Truth(w)'
<1> DEFINE s == worker[w]
           a == worker[w].cur
           status == worker[w].reply.status
           called == status = "unknown"
           id == IF status = "unknown" THEN worker[w].reply.id ELSE NoRes
           e == ReceiptEvent(w, a.cap, status, ReceiptOf(a, called, id))
           n == [Onward(w) EXCEPT !.failed = @ \cup {a}]
<1>1. At(w, "apply", "settle") /\ status # "succeeded" /\ UNCHANGED world
  BY DEF SettleFailure
<1>2. (IF status = "unknown" THEN ReceiptOf(a, TRUE, worker[w].reply.id)
                             ELSE ReceiptOf(a, FALSE, NoRes)) = ReceiptOf(a, called, id)
  OBVIOUS
<1>3. /\ AppendOr(e, w, n, Idle)
      /\ vain' = IF Admits(e) THEN vain \cup FailedCreate(w) ELSE vain
  BY <1>2 DEF SettleFailure
<1>4. /\ ExecInv /\ LedTyped /\ s \in ApplyRecs /\ Progress(s) /\ s.verb = "apply"
      /\ s.pc = "settle" /\ InOrder(s) /\ Answer(s, alive, stamped)
  BY <1>1, AtApply DEF Working
<1>5. /\ a \in Actions /\ a \in s.plan \ s.todo /\ a.cap \in Cap /\ a \notin s.failed
      /\ s.reply \in Replies
  BY <1>4 DEF ApplyRecs, Progress, Actions, InOrder, Left
<1>6. /\ n.verb = "apply" /\ n.pc = "act" /\ n.plan = s.plan /\ n.bound = s.bound
      /\ n.caps = s.caps /\ n.todo = s.todo /\ n.failed = s.failed \cup {a}
  BY <1>4 DEF ApplyRecs, Onward, To
<1> HIDE DEF n
<1>7. Done(n) = Done(s) /\ n.failed \cap Left(n) = {}
  BY <1>4, <1>5, <1>6 DEF Done, Left, InOrder
<1>8. id \in Ids \cup {NoRes} /\ (a.op = "create" => id \in Own(a.cap) \cup {NoRes})
  BY <1>4, <1>5 DEF Replies, Answer
<1>9. (status = "unknown" /\ id = s.reply.id) \/ status \in {"failed", "retryable"}
  BY <1>1, <1>5 DEF Replies
<1>10. CASE ~Admits(e) /\ UNCHANGED led /\ Become(w, Idle)
  BY <1>1, <1>3, <1>10, Refused DEF Over, Idle
<1>11. CASE Admits(e) /\ led' = Step(led, e, e.at) /\ Become(w, n)
  <2> HIDE DEF called, id
  <2>1. Wrote(led, led', a.cap, status, ReceiptOf(a, called, id))
    BY <1>4, <1>5, <1>11, ReceiptWrites
  <2>2. vain \subseteq vain' /\ (a.op = "create" /\ status = "failed" => a.id \in vain')
    BY <1>3, <1>11 DEF FailedCreate
  <2>3. Faithful(n, led', alive, stamped, vain')
    BY <1>1, <1>6, <1>7, <1>8, <1>9, <2>1, <2>2, HandsBack
  <2>4. Faithful(n, led', alive', stamped', vain')
    BY <1>1, <2>3 DEF world
  <2> QED BY <1>4, <1>11, <2>4, Lands
<1> HIDE DEF e
<1> QED BY <1>3, <1>10, <1>11 DEF AppendOr

LEMMA TruthConclude ==
  ASSUME NEW w \in Worker, CrashInv(w), Conclude(w)
  PROVE  Truth(w)'
<1> DEFINE s == worker[w]
           a == worker[w].cur
           e == ReceiptEvent(w, a.cap, "succeeded", ReceiptOf(a, FALSE, NoRes))
           n == Onward(w)
<1>1. /\ At(w, "apply", "conclude") /\ UNCHANGED world /\ UNCHANGED vain
      /\ AppendOr(e, w, n, Idle)
  BY DEF Conclude
<1>2. /\ ExecInv /\ LedTyped /\ s \in ApplyRecs /\ Progress(s) /\ s.verb = "apply"
      /\ s.pc = "conclude" /\ InOrder(s)
  BY <1>1, AtApply DEF Working
<1>3. a \in Actions /\ a.cap \in Cap
  BY <1>2 DEF ApplyRecs, Progress, Actions
<1>4. /\ n.verb = "apply" /\ n.pc = "act" /\ n.plan = s.plan /\ n.bound = s.bound
      /\ n.caps = s.caps /\ n.todo = s.todo /\ n.failed = s.failed
  BY <1>2 DEF ApplyRecs, Onward, To
<1> HIDE DEF n
<1>5. Done(n) = Done(s) /\ n.failed \cap Left(n) = {}
  BY <1>2, <1>4 DEF Done, Left, InOrder
<1>6. CASE ~Admits(e) /\ UNCHANGED led /\ Become(w, Idle)
  BY <1>1, <1>6, Refused DEF Over, Idle
<1>7. CASE Admits(e) /\ led' = Step(led, e, e.at) /\ Become(w, n)
  <2>1. Wrote(led, led', a.cap, "succeeded", ReceiptOf(a, FALSE, NoRes))
    BY <1>2, <1>3, <1>7, ReceiptWrites
  <2>2. NoRes \in Ids \cup {NoRes} /\ NoRes \in Own(a.cap) \cup {NoRes}
    OBVIOUS
  <2>3. Faithful(n, led', alive, stamped, vain)
    BY <1>1, <1>4, <1>5, <2>1, <2>2, HandsBack
  <2>4. Faithful(n, led', alive', stamped', vain')
    BY <1>1, <2>3 DEF world
  <2> QED BY <1>2, <1>7, <2>4, Lands
<1> HIDE DEF e
<1> QED BY <1>1, <1>6, <1>7 DEF AppendOr

----------------------------------------------------------------------------
(* apply: what a success writes down. *)

(* What a claim finds bound: what it is about, or the successor made before it. *)
LEMMA ClaimBound ==
  ASSUME NEW s \in ApplyRecs, PlanShape(s), PlanFacts(s), Progress(s), InOrder(s), NEW l,
         OnLedger(s, l), NEW a \in Left(s), a.op = "claim"
  PROVE  l.binding[a.cap].id = a.id \/ l.binding[a.cap].id \in Own(a.cap)
<1>1. a \in s.plan /\ a.cap \in s.caps /\ a.id = s.bound[a.cap]
  BY DEF Progress, Left, PlanShape, PlanFacts
<1>2. SUFFICES ASSUME NEW b \in Done(s), b.cap = a.cap, b.op \in {"create", "delete"}
               PROVE  l.binding[a.cap].id \in Own(a.cap)
  BY <1>1 DEF OnLedger, InPlace
<1>3. CASE b.op = "create"
  BY <1>2, <1>3 DEF OnLedger, Shown
<1>4. CASE b.op = "delete"
  <2>1. b \in s.plan /\ DependsOn(b, a)
    BY <1>2, <1>4 DEF Done, DependsOn
  <2>2. a \in Done(s)
    BY <1>1, <2>1 DEF InOrder
  <2> QED BY <2>2 DEF Done
<1> QED BY <1>2, <1>3, <1>4

LEMMA TruthClaimed ==
  ASSUME NEW w \in Worker, CrashInv(w), SettleSuccess(w), worker[w].cur.op = "claim"
  PROVE  Truth(w)'
<1> DEFINE s == worker[w]
           a == worker[w].cur
           e == [type |-> "ownership.claimed", caps |-> {a.cap}, at |-> worker[w].at]
           n == To(w, "conclude")
<1>1. /\ At(w, "apply", "settle") /\ s.reply.status = "succeeded"
      /\ UNCHANGED world /\ UNCHANGED vain /\ AppendOr(e, w, n, Idle)
  <2>1. Written(w) = e /\ Healed(w) = {}
    BY DEF Written, Healed
  <2>2. vain \ {} = vain
    OBVIOUS
  <2> HIDE DEF e
  <2> QED BY <2>1, <2>2 DEF SettleSuccess
<1>2. /\ ExecInv /\ LedTyped /\ s \in ApplyRecs /\ PlanShape(s) /\ Progress(s) /\ s.verb = "apply"
      /\ s.pc = "settle" /\ Runs(s) /\ Faithful(s, led, alive, stamped, vain)
      /\ PlanFacts(s) /\ InOrder(s) /\ OnLedger(s, led) /\ Answer(s, alive, stamped)
  BY <1>1, AtApply DEF Working
<1>3. /\ a \in Actions /\ a \in s.plan \ s.todo /\ a.cap \in Cap /\ a \in Left(s) /\ a.id \in Ids
      /\ a \notin s.failed
  BY <1>2 DEF ApplyRecs, Progress, Actions, Left, InOrder
<1>4. /\ n.verb = "apply" /\ n.pc = "conclude" /\ n.plan = s.plan /\ n.bound = s.bound
      /\ n.caps = s.caps /\ n.todo = s.todo /\ n.failed = s.failed /\ n.cur = a
  BY <1>2 DEF ApplyRecs, To
<1> HIDE DEF n
<1>5. /\ Done(n) = Done(s) \cup {a} /\ Left(n) = s.todo /\ Left(n) \subseteq Left(s)
      /\ Runs(n) /\ InHand(n) /\ InHand(s)
  BY <1>2, <1>3, <1>4 DEF Done, Left, Runs, InHand
<1>6. CASE ~Admits(e) /\ UNCHANGED led /\ Become(w, Idle)
  BY <1>1, <1>6, Refused DEF Over, Idle
<1>7. CASE Admits(e) /\ led' = Step(led, e, e.at) /\ Become(w, n)
  <2> DEFINE m == led'
  <2>1. /\ m.binding = led.binding /\ m.pending = led.pending /\ m.replaced = led.replaced
        /\ m.claimed = led.claimed \cup {a.cap}
    BY <1>2, <1>3, <1>7, ClaimEffect
  <2>2. PlanFacts(n)
    BY <1>2, <1>4 DEF PlanFacts
  <2>3. InOrder(n)
    BY <1>2, <1>4, <1>5 DEF InOrder
  <2>4. OnLedger(n, m)
    <3>1. InPlace(n, m)
      BY <1>2, <1>4, <1>5, <2>1 DEF OnLedger, InPlace
    <3>2. Shown(n, m)
      <4>1. Shown(s, led)
        BY <1>2 DEF OnLedger
      <4> QED BY <1>5, <2>1, <4>1 DEF Shown
    <3>3. Unopened(n, m) /\ Opened(n, m)
      BY <1>2, <1>4, <2>1 DEF OnLedger, Unopened, Opened
    <3> QED BY <3>1, <3>2, <3>3 DEF OnLedger
  <2>5. Claimed(m, stamped)
    <3>1. led.binding[a.cap].id = a.id \/ led.binding[a.cap].id \in Own(a.cap)
      BY <1>2, <1>3, ClaimBound
    <3>2. a.id # NoRes /\ (a.id \in Foreign => a.id \in stamped)
      BY <1>1, <1>2, <1>3, ExecutorAssumption DEF Answer, Ids, ExecutorAssumption
    <3>3. /\ led.binding[a.cap].id # NoRes
          /\ led.binding[a.cap].id \in Foreign => led.binding[a.cap].id \in stamped
      BY <1>3, <3>1, <3>2, OwnIsOwn
    <3> QED BY <1>2, <2>1, <3>3 DEF Faithful, Facts, Claimed
  <2>6. Facts(n, m, alive, stamped, vain)
    <3>1. PendingFacts(m) /\ Adopted(m, vain)
      BY <1>2, <2>1 DEF Faithful, Facts, PendingFacts, Adopted, SetAside
    <3> QED BY <1>4, <2>2, <2>3, <2>4, <2>5, <3>1 DEF Facts, Answer
  <2>7. \A c, r : Closing(n, c, r) <=> Closing(s, c, r)
    BY <1>4, <1>5 DEF Closing
  <2>8. Recorded(n, m, alive, vain)
    <3>1. Shaky(n) \subseteq Shaky(s)
      BY <1>2, <1>5 DEF Shaky
    <3> SUFFICES ASSUME NEW id \in alive \ Foreign PROVE Sure(n, m, vain, id)
      BY DEF Recorded
    <3>2. Sure(s, led, vain, id)
      BY <1>2 DEF Faithful, Recorded, Fresh
    <3> QED BY <2>1, <2>7, <3>1, <3>2 DEF Sure, SetAside
  <2>9. ASSUME Secluded PROVE AtHome(n, m) /\ Real(n, m, alive)
    <3>1. AtHome(s, led) /\ Backed(s, led, alive)
      BY <1>2, <2>9 DEF Faithful, Real
    <3>2. AtHome(n, m)
      BY <1>2, <1>4, <2>1, <3>1 DEF AtHome
    <3>3. Backed(n, m, alive)
      BY <2>1, <2>7, <3>1 DEF Backed, Dying
    <3> QED BY <1>4, <3>2, <3>3 DEF Real, AnswerStands, VerdictStands, AdoptionStands
  <2>10. Faithful(n, led', alive', stamped', vain')
    BY <1>1, <2>6, <2>8, <2>9 DEF Faithful, world
  <2> QED BY <1>2, <1>7, <2>10, Lands
<1> HIDE DEF e
<1> QED BY <1>1, <1>6, <1>7 DEF AppendOr

LEMMA TruthBound ==
  ASSUME NEW w \in Worker, CrashInv(w), SettleSuccess(w), worker[w].cur.op # "claim"
  PROVE  Truth(w)'
<1> DEFINE s == worker[w]
           a == worker[w].cur
           B == BindingOf(w, a)
           olds == {a.old} \ {NoRes}
           tombs == IF a.op = "delete" THEN {a.id} ELSE {}
           e == BindingEvent(w, a.cap, B, olds, tombs)
           n == To(w, "conclude")
           m == led'
           va == vain'
           id == s.reply.id
           was == led.binding[a.cap].id
<1>1. /\ At(w, "apply", "settle") /\ s.reply.status = "succeeded"
      /\ UNCHANGED world /\ AppendOr(e, w, n, Idle)
      /\ vain' = IF Admits(e) THEN vain \ Healed(w) ELSE vain
  <2>1. Written(w) = e
    BY DEF Written
  <2> HIDE DEF e
  <2> QED BY <2>1 DEF SettleSuccess
<1>2. /\ ExecInv /\ LedTyped /\ WorldTyped /\ s \in ApplyRecs /\ PlanShape(s) /\ Progress(s)
      /\ s.verb = "apply" /\ s.pc = "settle" /\ Runs(s)
      /\ Faithful(s, led, alive, stamped, vain)
      /\ PlanFacts(s) /\ InOrder(s) /\ OnLedger(s, led) /\ Answer(s, alive, stamped)
  BY <1>1, AtApply DEF Working
<1>3. /\ a \in Actions /\ a \in s.plan \ s.todo /\ a.cap \in Cap /\ a \in Left(s) /\ a.id \in Ids
      /\ a \notin s.failed /\ a.op \in {"create", "update", "delete"} /\ a.id # NoRes
      /\ s.todo \subseteq s.plan /\ a.cap \in s.caps
  <2>1. NoRes \notin Ids
    BY ExecutorAssumption DEF Ids, ExecutorAssumption
  <2> QED BY <1>2, <2>1 DEF ApplyRecs, Progress, Actions, Left, InOrder, Ops, PlanShape
<1>4. /\ n.verb = "apply" /\ n.pc = "conclude" /\ n.plan = s.plan /\ n.bound = s.bound
      /\ n.caps = s.caps /\ n.todo = s.todo /\ n.failed = s.failed /\ n.cur = a
  BY <1>2 DEF ApplyRecs, To
<1> HIDE DEF n
<1>5. /\ Done(n) = Done(s) \cup {a} /\ Left(n) = s.todo /\ Left(n) \subseteq Left(s)
      /\ Runs(n) /\ InHand(n) /\ InHand(s) /\ Shaky(n) \subseteq Shaky(s)
  <2>1. /\ Done(n) = Done(s) \cup {a} /\ Left(n) = s.todo /\ Left(n) \subseteq Left(s)
        /\ Runs(n) /\ InHand(n) /\ InHand(s)
    BY <1>2, <1>3, <1>4 DEF Done, Left, Runs, InHand
  <2> QED BY <1>2, <2>1 DEF Shaky
<1>6. CASE ~Admits(e) /\ UNCHANGED led /\ Become(w, Idle)
  BY <1>1, <1>6, Refused DEF Over, Idle
<1>7. CASE Admits(e) /\ led' = Step(led, e, e.at) /\ Become(w, n)
  <2>1. Rebinding(led, m, a.cap, B, olds)
    <3> HIDE DEF B, olds, tombs
    <3> QED BY <1>2, <1>3, <1>7, BindingWrites
  <2>2. /\ a.op \in {"create", "update"} => B.id = id /\ ~B.adopted
        /\ a.op = "delete" => \/ B = Unbound /\ was \in {NoRes, a.id}
                              \/ B = led.binding[a.cap] /\ was \notin {NoRes, a.id}
    BY DEF BindingOf
  <2> HIDE DEF B
  <2>3. /\ m.binding[a.cap] = B /\ \A d \in Cap \ {a.cap} : m.binding[d] = led.binding[d]
        /\ m.pending = led.pending
        /\ m.replaced[a.cap] = led.replaced[a.cap] \cup olds
        /\ \A d \in Cap \ {a.cap} : m.replaced[d] = led.replaced[d]
        /\ m.claimed = IF B.id = NoRes THEN led.claimed \ {a.cap} ELSE led.claimed
    BY <2>1 DEF Rebinding
  <2>4. /\ a.op = "create" => id \in Own(a.cap) \ {a.old} /\ (TagScan \/ id = a.id)
        /\ a.op # "create" => id = a.id
        /\ a.op = "delete" => a.id \notin alive
    BY <1>1, <1>2 DEF Answer, Progress
  <2>5. a.op \in {"create", "update"} => was = s.bound[a.cap]
    BY <1>2, <1>3, StillBound DEF OnLedger
  <2>6. a.op = "update" => a.id = was
    BY <1>2, <1>3, <2>5 DEF PlanShape
  <2>7. B.id # NoRes \/ a.op = "delete"
    BY <1>3, <2>2, <2>4, OwnIsOwn
  <2>8. \A c \in Cap : led.replaced[c] \subseteq m.replaced[c]
    BY <2>3
  <2>9. \A jd : SetAside(led, vain, jd) /\ ~(a.op = "create" /\ jd = id) => SetAside(m, va, jd)
    <3>1. va = vain \ Healed(w) /\ (a.op # "create" => Healed(w) = {})
          /\ (a.op = "create" => Healed(w) = {id})
      BY <1>1, <1>7 DEF Healed
    <3> HIDE DEF va
    <3> QED BY <2>8, <3>1 DEF SetAside
  <2>10. PlanFacts(n)
    BY <1>2, <1>4 DEF PlanFacts
  <2>11. InOrder(n)
    BY <1>2, <1>4, <1>5 DEF InOrder
  <2>12. InPlace(n, m)
    <3> SUFFICES ASSUME NEW c \in s.caps
                 PROVE  \/ m.binding[c].id = s.bound[c]
                        \/ \E b \in Done(n) : b.cap = c /\ b.op \in {"create", "delete"}
      BY <1>4 DEF InPlace
    <3>1. c \in Cap
      BY <1>2 DEF ApplyRecs, CapSets
    <3>2. CASE c # a.cap
      BY <1>2, <1>5, <2>3, <3>1, <3>2 DEF OnLedger, InPlace
    <3>3. CASE c = a.cap /\ a.op = "update"
      BY <2>2, <2>3, <2>4, <2>5, <2>6, <3>3
    <3>4. CASE c = a.cap /\ a.op # "update"
      BY <1>3, <1>5, <3>4
    <3> QED BY <3>2, <3>3, <3>4
  <2>13. Shown(n, m)
    <3>1. ASSUME NEW b \in Done(n), b.op = "create"
          PROVE  /\ m.binding[b.cap].id \in Own(b.cap) \ {b.old}
                 /\ TagScan \/ m.binding[b.cap].id = b.id
      <4>1. CASE b = a
        BY <2>2, <2>3, <2>4, <3>1, <4>1
      <4>2. CASE b # a
        <5>1. b \in Done(s) /\ b \in s.plan /\ b.cap \in Cap
          BY <1>2, <1>5, <4>2 DEF Done, ApplyRecs, Actions
        <5>2. /\ led.binding[b.cap].id \in Own(b.cap) \ {b.old}
              /\ TagScan \/ led.binding[b.cap].id = b.id
          BY <1>2, <3>1, <5>1 DEF OnLedger, Shown
        <5>3. CASE b.cap # a.cap
          BY <2>3, <5>1, <5>2, <5>3
        <5>4. CASE b.cap = a.cap
          <6>1. a.op = "delete" /\ ~a.deposed
            BY <1>2, <1>3, <3>1, <4>2, <5>1, <5>4 DEF PlanShape
          <6>2. b.old # NoRes /\ b.old \in {NoRes, s.bound[b.cap]} /\ a.id = s.bound[a.cap]
            BY <1>2, <1>3, <3>1, <4>2, <5>1, <5>4, <6>1 DEF PlanFacts
          <6>3. was # NoRes /\ was # a.id
            BY <5>1, <5>2, <5>4, <6>2, OwnIsOwn
          <6> QED BY <2>2, <2>3, <5>2, <5>4, <6>1, <6>3
        <5> QED BY <5>3, <5>4
      <4> QED BY <4>1, <4>2
    <3>2. ASSUME NEW b \in Done(n), b.op = "claim"
          PROVE  b.cap \in m.claimed \/ \E d \in Done(n) : d.cap = b.cap /\ d.op = "delete"
      <4>1. b \in Done(s)
        BY <1>3, <1>5, <3>2
      <4>2. b.cap \in led.claimed \/ \E d \in Done(s) : d.cap = b.cap /\ d.op = "delete"
        BY <1>2, <3>2, <4>1 DEF OnLedger, Shown
      <4> QED BY <1>5, <2>3, <2>7, <4>2
    <3> QED BY <3>1, <3>2 DEF Shown
  <2>14. OnLedger(n, m)
    <3>1. Unopened(n, m) /\ Opened(n, m)
      BY <1>2, <1>4, <2>3 DEF OnLedger, Unopened, Opened
    <3> QED BY <2>12, <2>13, <3>1 DEF OnLedger
  <2>15. PendingFacts(m) /\ Claimed(m, stamped) /\ Adopted(m, va)
    <3>1. PendingFacts(led) /\ Claimed(led, stamped) /\ Adopted(led, vain)
      BY <1>2 DEF Faithful, Facts
    <3>2. PendingFacts(m)
      BY <2>3, <3>1 DEF PendingFacts
    <3>3. ASSUME NEW c \in m.claimed
          PROVE  /\ m.binding[c].id # NoRes
                 /\ m.binding[c].id \in Foreign => m.binding[c].id \in stamped
      <4>1. c \in led.claimed /\ (B.id = NoRes => c # a.cap) /\ c \in Cap
        BY <1>2, <2>3, LedFields
      <4>2. /\ led.binding[c].id # NoRes
            /\ led.binding[c].id \in Foreign => led.binding[c].id \in stamped
        BY <3>1, <4>1 DEF Claimed
      <4>3. CASE c # a.cap
        BY <2>3, <4>1, <4>2, <4>3
      <4>4. CASE c = a.cap /\ a.op = "create"
        BY <1>3, <2>2, <2>3, <2>4, <4>4, OwnIsOwn
      <4>5. CASE c = a.cap /\ a.op = "update"
        BY <2>2, <2>3, <2>4, <2>6, <4>2, <4>5
      <4>6. CASE c = a.cap /\ a.op = "delete"
        <5>1. B.id # NoRes /\ (B = Unbound => B.id = NoRes)
          BY <4>1, <4>6 DEF Unbound
        <5>2. B = led.binding[c]
          BY <2>2, <4>6, <5>1
        <5> QED BY <2>3, <4>2, <4>6, <5>2
      <4> QED BY <1>3, <4>3, <4>4, <4>5, <4>6
    <3>4. ASSUME NEW c \in Cap, m.binding[c].adopted, m.binding[c].id \in Own(c)
          PROVE  SetAside(m, va, m.binding[c].id)
      <4>1. m.binding[c] = led.binding[c]
        <5>1. CASE c # a.cap
          BY <2>3, <5>1
        <5>2. CASE c = a.cap
          <6>1. B.adopted
            BY <2>3, <3>4, <5>2
          <6>2. a.op = "delete"
            BY <1>3, <2>2, <6>1
          <6>3. B # Unbound
            BY <6>1 DEF Unbound
          <6> QED BY <2>2, <2>3, <5>2, <6>2, <6>3
        <5> QED BY <5>1, <5>2
      <4>2. ~(a.op = "create" /\ m.binding[c].id = id)
        <5>1. CASE c # a.cap
          BY <1>3, <2>4, <3>4, <5>1 DEF Own
        <5>2. CASE c = a.cap
          BY <2>2, <2>3, <3>4, <5>2
        <5> QED BY <5>1, <5>2
      <4> QED BY <2>9, <3>1, <3>4, <4>1, <4>2 DEF Adopted
    <3> QED BY <3>2, <3>3, <3>4 DEF Claimed, Adopted
  <2>16. Facts(n, m, alive, stamped, va)
    BY <1>4, <2>10, <2>11, <2>14, <2>15 DEF Facts, Answer
  <2>17. \A c, r : Closing(n, c, r) <=> Closing(s, c, r)
    BY <1>4, <1>5 DEF Closing
  <2>18. Recorded(n, m, alive, va)
    <3> SUFFICES ASSUME NEW jd \in alive \ Foreign PROVE Sure(n, m, va, jd)
      BY DEF Recorded
    <3>0. jd # NoRes
      BY <1>2, ExecutorAssumption DEF WorldTyped, Ids, ExecutorAssumption
    <3>1. CASE SetAside(led, vain, jd) /\ ~(a.op = "create" /\ jd = id)
      BY <2>9, <3>1 DEF Sure
    <3>2. CASE \E c \in Cap : \E r \in led.pending[c] :
                 r.kind = "create" /\ Sought(c, r) = jd /\ ~Closing(s, c, r)
      BY <2>3, <2>17, <3>2 DEF Sure
    <3>3. ASSUME NEW c \in Cap, c \notin Shaky(s), ~led.binding[c].adopted, led.binding[c].id = jd
          PROVE  Sure(n, m, va, jd)
      <4>1. c \notin Shaky(n)
        BY <1>5, <3>3
      <4>2. CASE c # a.cap
        BY <2>3, <3>3, <4>1, <4>2 DEF Sure
      <4>3. CASE c = a.cap /\ a.op = "create"
        <5>1. a.old # NoRes
          BY <1>2, <1>3, <3>3, <4>3 DEF Shaky
        <5>2. a.old = jd
          BY <1>2, <1>3, <2>5, <3>3, <4>3, <5>1 DEF PlanFacts
        <5>3. jd \in m.replaced[a.cap]
          BY <2>3, <5>1, <5>2
        <5> QED BY <1>3, <5>3 DEF Sure, SetAside
      <4>4. CASE c = a.cap /\ a.op = "update"
        BY <2>2, <2>3, <2>4, <2>6, <3>3, <4>1, <4>4 DEF Sure
      <4>5. CASE c = a.cap /\ a.op = "delete"
        <5>1. B = led.binding[a.cap]
          BY <2>2, <2>4, <3>0, <3>3, <4>5
        <5> QED BY <2>3, <3>3, <4>1, <4>5, <5>1 DEF Sure
      <4> QED BY <1>3, <4>2, <4>3, <4>4, <4>5
    <3>4. CASE a.op = "create" /\ id = jd
      <4>1. a.op = "create" /\ id = jd
        BY <3>4
      <4>2. a.cap \notin Shaky(n)
        <5>1. \A b \in s.todo : ~(b.op = "create" /\ b.cap = a.cap)
          BY <1>2, <1>3, <4>1 DEF PlanShape
        <5> QED BY <1>5, <5>1 DEF Shaky
      <4>3. a.cap \in Cap /\ ~m.binding[a.cap].adopted /\ m.binding[a.cap].id = jd
        BY <1>3, <2>2, <2>3, <4>1
      <4> QED BY ONLY <4>2, <4>3 DEF Sure
    <3>5. Sure(s, led, vain, jd) \/ Fresh(s, jd)
      BY <1>2 DEF Faithful, Recorded
    <3>6. Fresh(s, jd) => a.op = "create" /\ id = jd
      BY DEF Fresh
    <3> QED BY <3>1, <3>2, <3>3, <3>4, <3>5, <3>6 DEF Sure
  <2>19. ASSUME Secluded PROVE AtHome(n, m) /\ Real(n, m, alive)
    <3>1. AtHome(s, led) /\ Backed(s, led, alive) /\ AnswerStands(s, alive)
      BY <1>2, <2>19 DEF Faithful, Real
    <3>2. a.id \in Home(a.cap) /\ was \in Home(a.cap) \cup {NoRes}
      BY <1>2, <1>3, <3>1 DEF AtHome
    <3>3. B.id \in Home(a.cap) \cup {NoRes}
      <4>1. a.op = "create" => id \in Home(a.cap)
        BY <1>3, <2>4, OwnIsOwn DEF Home
      <4> QED BY <1>3, <2>2, <2>4, <3>2, <4>1 DEF Unbound
    <3>4. olds \subseteq Home(a.cap)
      <4>1. CASE a.old = NoRes
        BY <4>1
      <4>2. CASE a.op = "create" /\ a.old # NoRes
        BY <1>2, <1>3, <2>5, <3>2, <4>2 DEF PlanFacts
      <4>3. CASE a.op # "create" /\ a.old # NoRes
        BY <1>2, <1>3, <4>3 DEF PlanFacts
      <4> QED BY <4>1, <4>2, <4>3
    <3>5. AtHome(n, m)
      BY <1>2, <1>4, <2>3, <3>1, <3>3, <3>4 DEF AtHome
    <3>6. Backed(n, m, alive)
      <4> SUFFICES ASSUME NEW c \in Cap, m.binding[c].id \notin alive \cup {NoRes}
                   PROVE  \E r \in m.pending[c] : r.kind = "delete" /\ r.target = m.binding[c].id
                                                  /\ ~Closing(n, c, r)
        BY DEF Backed
      <4>1. CASE a.op # "delete" /\ c = a.cap
        <5>1. id \in alive
          BY <1>1, <1>2, <3>1, <4>1 DEF AnswerStands
        <5> QED BY <1>3, <2>2, <2>3, <4>1, <5>1
      <4>2. CASE a.op = "delete" \/ c # a.cap
        <5>1. m.binding[c] = led.binding[c] /\ (c = a.cap => was # a.id)
          BY <2>2, <2>3, <4>2 DEF Unbound
        <5>2. ~Dying(s, led, c)
          BY <5>1 DEF Dying
        <5> QED BY <2>3, <2>17, <3>1, <5>1, <5>2 DEF Backed
      <4> QED BY <4>1, <4>2
    <3> QED BY <1>4, <3>5, <3>6 DEF Real, AnswerStands, VerdictStands, AdoptionStands
  <2>20. Faithful(n, led', alive', stamped', vain')
    BY <1>1, <2>16, <2>18, <2>19 DEF Faithful, world
  <2> QED BY <1>2, <1>7, <2>20, Lands
<1> HIDE DEF e
<1> QED BY <1>1, <1>6, <1>7 DEF AppendOr

----------------------------------------------------------------------------
(* resume, adopt and unadopt. *)

(* What is known of a resume at work. *)
LEMMA AtResume ==
  ASSUME NEW w \in Worker, CrashInv(w), NEW pc \in {"ask", "settle", "conclude"},
         At(w, "resume", pc)
  PROVE  /\ ExecInv /\ LedTyped /\ WorldTyped /\ worker[w] \in ResumeRecs
         /\ ItemsOK(worker[w]) /\ worker[w].verb = "resume" /\ worker[w].pc = pc
         /\ Faithful(worker[w], led, alive, stamped, vain)
         /\ ResumeFacts(worker[w], led, alive)
         /\ PendingFacts(led) /\ Claimed(led, stamped) /\ Adopted(led, vain)
         /\ \A id \in alive \ Foreign : Sure(worker[w], led, vain, id)
<1>1. ExecInv /\ Faithful(worker[w], led, alive, stamped, vain)
  BY DEF CrashInv, Truth
<1>2. /\ worker[w] \in ResumeRecs /\ LedTyped /\ WorldTyped /\ ItemsOK(worker[w])
      /\ worker[w].verb = "resume" /\ worker[w].pc = pc
  BY <1>1, Resuming
<1> QED BY <1>1, <1>2 DEF Faithful, Facts, Recorded, Fresh

LEMMA TruthAsk ==
  ASSUME NEW w \in Worker, CrashInv(w), Ask(w)
  PROVE  Truth(w)'
<1> DEFINE s == worker[w]
<1>1. At(w, "resume", "ask") /\ UNCHANGED <<led, world, vain>>
  BY DEF Ask
<1>2. PICK item \in s.todo, verdict \in {"unknown", "succeeded", "failed"} :
        /\ verdict \in Verdicts(item.cap, item.receipt)
        /\ Become(w, IF verdict = "unknown"
                     THEN [worker[w] EXCEPT !.todo = @ \ {item}]
                     ELSE [To(w, "settle") EXCEPT !.todo = @ \ {item}, !.cur = item,
                                                  !.verdict = verdict])
  BY DEF Ask
<1>3. /\ ExecInv /\ s \in ResumeRecs /\ ItemsOK(s) /\ s.verb = "resume" /\ s.pc = "ask"
      /\ Faithful(s, led, alive, stamped, vain) /\ ResumeFacts(s, led, alive)
  BY <1>1, AtResume
<1>4. /\ item.receipt \in led.pending[item.cap] /\ item.receipt.kind # "claim"
  BY <1>3 DEF ResumeFacts, ItemsOK
<1>5. CASE verdict = "unknown"
  <2> DEFINE n == [worker[w] EXCEPT !.todo = @ \ {item}]
  <2>1. n.verb = "resume" /\ n.pc = "ask" /\ n.todo = s.todo \ {item}
    BY <1>3 DEF ResumeRecs
  <2>2. Become(w, n)
    BY <1>2, <1>5
  <2> HIDE DEF n
  <2>3. ResumeFacts(n, led, alive) /\ VerdictStands(n, led, alive) /\ AdoptionStands(n, alive)
    BY <1>3, <2>1 DEF ResumeFacts, VerdictStands, AdoptionStands
  <2>4. Faithful(n, led, alive, stamped, vain)
    BY <1>3, <2>1, <2>3, NotApply
  <2>5. Faithful(n, led', alive', stamped', vain')
    BY <1>1, <2>4 DEF world
  <2> QED BY <1>3, <2>2, <2>5, Lands
<1>6. CASE verdict # "unknown"
  <2> DEFINE n == [To(w, "settle") EXCEPT !.todo = @ \ {item}, !.cur = item,
                                          !.verdict = verdict]
             id == Sought(item.cap, item.receipt)
  <2>1. /\ n.verb = "resume" /\ n.pc = "settle" /\ n.todo = s.todo \ {item} /\ n.cur = item
        /\ n.verdict = verdict
    BY <1>3 DEF ResumeRecs, To
  <2>2. Become(w, n)
    BY <1>2, <1>6
  <2> HIDE DEF n
  <2>3. /\ item.receipt.kind = "create" /\ verdict = "succeeded" => id \in alive
        /\ item.receipt.kind = "delete" /\ verdict = "succeeded" => id \notin alive
        /\ item.receipt.kind = "delete" /\ verdict = "failed" => id \in alive \/ Halfway
    BY <1>2, <1>6 DEF Verdicts
  <2>4. ResumeFacts(n, led, alive)
    BY <1>3, <1>4, <2>1, <2>3 DEF ResumeFacts
  <2>5. Secluded => VerdictStands(n, led, alive) /\ AdoptionStands(n, alive)
    BY <2>1, <2>3 DEF Secluded, VerdictStands, AdoptionStands
  <2>6. Faithful(n, led, alive, stamped, vain)
    BY <1>3, <2>1, <2>4, <2>5, NotApply
  <2>7. Faithful(n, led', alive', stamped', vain')
    BY <1>1, <2>6 DEF world
  <2> QED BY <1>3, <2>2, <2>7, Lands
<1> QED BY <1>5, <1>6

LEMMA StopsOver ==
  ASSUME NEW w \in Worker, CrashInv(w), NEW pc \in {"ask", "settle", "conclude"},
         At(w, "resume", pc)
  PROVE  Over(Stopped(w)) /\ Over(To(w, "release"))
<1>1. worker[w] \in ResumeRecs /\ worker[w].verb = "resume"
  BY AtResume
<1>2. Over(To(w, "release"))
  BY <1>1 DEF Over, To, ResumeRecs
<1> QED BY <1>1, <1>2 DEF Stopped

LEMMA TruthAllAsked ==
  ASSUME NEW w \in Worker, CrashInv(w), AllAsked(w)
  PROVE  Truth(w)'
  BY StopsOver, Refused DEF AllAsked

(* A receipt that resume closes: nothing is lost with it. *)
LEMMA Drops ==
  ASSUME NEW w \in Worker, CrashInv(w), NEW pc \in {"settle", "conclude"}, At(w, "resume", pc),
         NEW status \in {"succeeded", "failed"}, NEW m, NEW va, vain \subseteq va,
         Wrote(led, m, CapOf(w), status, ItemOf(w)),
         ItemOf(w).kind = "create" =>
           \/ TargetOf(w) \in va
           \/ Bound(CapOf(w)) = TargetOf(w) /\ ~led.binding[CapOf(w)].adopted,
         Secluded /\ ItemOf(w).kind = "delete" =>
           Bound(CapOf(w)) # TargetOf(w) \/ TargetOf(w) \in alive
  PROVE  Faithful(Answered(w), m, alive, stamped, va)
<1> DEFINE s == worker[w]
           n == Answered(w)
           c == CapOf(w)
           R == ItemOf(w)
<1>1. /\ LedTyped /\ s \in ResumeRecs /\ ItemsOK(s) /\ s.verb = "resume" /\ s.pc = pc
      /\ Faithful(s, led, alive, stamped, vain) /\ ResumeFacts(s, led, alive)
      /\ PendingFacts(led) /\ Claimed(led, stamped) /\ Adopted(led, vain)
      /\ \A id \in alive \ Foreign : Sure(s, led, vain, id)
  BY AtResume
<1>2. s.cur \in Items /\ s.cur = [cap |-> c, receipt |-> R] /\ c \in Cap /\ s.todo \subseteq Items
      /\ s.cur \notin s.todo /\ R \in led.pending[c]
  BY <1>1 DEF ItemsOK, CapOf, ItemOf, Items, ResumeFacts, ResumeRecs
<1>3. n.verb = "resume" /\ n.pc = "ask" /\ n.todo = s.todo
  BY <1>1 DEF Answered, To, ResumeRecs
<1> HIDE DEF n
<1>4. /\ m.binding = led.binding /\ m.replaced = led.replaced /\ m.claimed = led.claimed
      /\ m.pending[c] = {r \in led.pending[c] : r.op # R.op}
      /\ \A d \in Cap \ {c} : m.pending[d] = led.pending[d]
  BY DEF Wrote, Receipted, PendingStatuses
<1>5. \A r \in led.pending[c] : r.op = R.op => r = R
  BY <1>1, <1>2 DEF PendingFacts
<1>6. \A d \in Cap : \A r \in led.pending[d] : r \in m.pending[d] \/ (d = c /\ r = R)
  BY <1>4, <1>5
<1>7. \A d \in Cap : m.pending[d] \subseteq led.pending[d]
  BY <1>4
<1>8. ResumeFacts(n, m, alive)
  <2> SUFFICES ASSUME NEW item \in s.todo PROVE item.receipt \in m.pending[item.cap]
    BY <1>3 DEF ResumeFacts
  <2>1. item.cap \in Cap /\ item.receipt \in led.pending[item.cap]
    BY <1>1, <1>2 DEF ResumeFacts, Items
  <2>2. ~(item.cap = c /\ item.receipt = R)
    BY <1>2 DEF Items
  <2> QED BY <1>6, <2>1, <2>2
<1>9. Facts(n, m, alive, stamped, va)
  <2>1. PendingFacts(m)
    BY <1>1, <1>7 DEF PendingFacts
  <2>2. Claimed(m, stamped) /\ Adopted(m, va)
    BY <1>1, <1>4 DEF Claimed, Adopted, SetAside
  <2> QED BY <1>3, <1>8, <2>1, <2>2 DEF Facts, Runs
<1>10. ~InHand(s) /\ ~InHand(n) /\ Shaky(s) = {} /\ Shaky(n) = {}
  BY <1>1, <1>3 DEF InHand, Shaky, Runs
<1>11. Recorded(n, m, alive, va)
  <2> SUFFICES ASSUME NEW id \in alive \ Foreign PROVE Sure(n, m, va, id)
    BY DEF Recorded
  <2>1. CASE SetAside(led, vain, id)
    BY <1>4, <2>1 DEF Sure, SetAside
  <2>2. CASE \E d \in Cap : ~led.binding[d].adopted /\ led.binding[d].id = id
    BY <1>4, <1>10, <2>2 DEF Sure
  <2>3. ASSUME NEW d \in Cap, NEW r \in led.pending[d], r.kind = "create", Sought(d, r) = id
        PROVE  Sure(n, m, va, id)
    <3>1. CASE r \in m.pending[d]
      BY <1>10, <2>3, <3>1 DEF Sure, Closing
    <3>2. CASE d = c /\ r = R
      <4>1. R.kind = "create" /\ TargetOf(w) = id
        BY <2>3, <3>2 DEF TargetOf
      <4>2. id \in va \/ (led.binding[c].id = id /\ ~led.binding[c].adopted)
        BY <4>1 DEF Bound
      <4> QED BY <1>2, <1>4, <1>10, <4>2 DEF Sure, SetAside
    <3> QED BY <1>6, <3>1, <3>2
  <2> QED BY <1>1, <2>1, <2>2, <2>3 DEF Sure
<1>12. ASSUME Secluded PROVE AtHome(n, m) /\ Real(n, m, alive)
  <2>1. AtHome(s, led) /\ Backed(s, led, alive)
    BY <1>1, <1>12 DEF Faithful, Real
  <2>2. AtHome(n, m)
    BY <1>3, <1>4, <1>7, <2>1 DEF AtHome, Runs
  <2>3. ASSUME NEW d \in Cap, led.binding[d].id \notin alive \cup {NoRes}
        PROVE  \E r \in m.pending[d] : r.kind = "delete" /\ r.target = led.binding[d].id
    <3>1. PICK r \in led.pending[d] : r.kind = "delete" /\ r.target = led.binding[d].id
      BY <1>1, <2>1, <2>3 DEF Backed, Dying
    <3>2. ~(d = c /\ r = R)
      <4> SUFFICES ASSUME d = c, r = R PROVE FALSE
        OBVIOUS
      <4>1. R.kind = "delete" /\ TargetOf(w) = led.binding[c].id
        BY <3>1 DEF TargetOf, Sought
      <4> QED BY <1>12, <2>3, <4>1 DEF Bound
    <3> QED BY <1>6, <3>1, <3>2
  <2>4. Backed(n, m, alive)
    BY <1>4, <1>10, <2>3 DEF Backed, Closing
  <2> QED BY <1>3, <2>2, <2>4 DEF Real, AnswerStands, VerdictStands, AdoptionStands, Runs
<1> QED BY <1>9, <1>11, <1>12 DEF Faithful, n

LEMMA TruthClosed ==
  ASSUME NEW w \in Worker, CrashInv(w), CloseOnly(w) \/ Close(w)
  PROVE  Truth(w)'
<1> DEFINE s == worker[w]
           c == CapOf(w)
           R == ItemOf(w)
           n == Answered(w)
<1>1. CASE CloseOnly(w)
  <2> DEFINE e == ReceiptEvent(w, c, s.verdict, R)
  <2>1. /\ At(w, "resume", "settle") /\ ~Completes(w) /\ AppendOr(e, w, n, Stopped(w))
        /\ vain' = (IF Admits(e) THEN vain \cup InVain(w) ELSE vain) /\ UNCHANGED world
    BY <1>1 DEF CloseOnly
  <2>2. /\ ExecInv /\ LedTyped /\ s \in ResumeRecs /\ s.verb = "resume" /\ s.pc = "settle"
        /\ Faithful(s, led, alive, stamped, vain) /\ ResumeFacts(s, led, alive)
    BY <2>1, AtResume
  <2>3. c \in Cap /\ R.kind \in {"create", "update", "delete"}
    BY <2>1, <2>2, ItemTyped
  <2>4. s.verdict \in {"succeeded", "failed"}
    BY <2>2 DEF ResumeFacts, ResumeRecs
  <2>5. CASE ~Admits(e) /\ UNCHANGED led /\ Become(w, Stopped(w))
    <3>1. Over(Stopped(w))
      BY <2>1, StopsOver
    <3>2. UNCHANGED <<led, world, vain>>
      BY <2>1, <2>5
    <3> QED BY <2>5, <3>1, <3>2, Refused
  <2>6. CASE Admits(e) /\ led' = Step(led, e, e.at) /\ Become(w, n)
    <3>1. Wrote(led, led', c, s.verdict, R)
      BY <2>2, <2>3, <2>6, ReceiptWrites
    <3>2. vain' = vain \cup InVain(w) /\ vain \subseteq vain'
      BY <2>1, <2>6
    <3>3. R.kind = "create" => TargetOf(w) \in vain'
      BY <3>2 DEF InVain
    <3>4. ASSUME Secluded, R.kind = "delete" PROVE TargetOf(w) \in alive
      <4>1. s.verdict # "succeeded"
        BY <2>1, <3>4 DEF Completes, Rebound
      <4>2. VerdictStands(s, led, alive)
        BY <2>2, <3>4 DEF Faithful, Real
      <4> QED BY <2>2, <2>4, <3>4, <4>1, <4>2 DEF VerdictStands, TargetOf, CapOf, ItemOf
    <3>5. Faithful(n, led', alive, stamped, vain')
      BY <2>1, <2>4, <3>1, <3>2, <3>3, <3>4, Drops
    <3>6. Faithful(n, led', alive', stamped', vain')
      BY <2>1, <3>5 DEF world
    <3> QED BY <2>2, <2>6, <3>6, Lands
  <2> HIDE DEF e
  <2> QED BY <2>1, <2>5, <2>6 DEF AppendOr
<1>2. CASE Close(w)
  <2> DEFINE e == ReceiptEvent(w, c, "succeeded", R)
  <2>1. /\ At(w, "resume", "conclude") /\ AppendOr(e, w, n, Stopped(w))
        /\ UNCHANGED world /\ UNCHANGED vain
    BY <1>2 DEF Close
  <2>2. /\ ExecInv /\ LedTyped /\ s.verb = "resume" /\ s.pc = "conclude"
        /\ Faithful(s, led, alive, stamped, vain) /\ ResumeFacts(s, led, alive)
    BY <2>1, AtResume
  <2>3. c \in Cap
    BY <2>1, <2>2, ItemTyped
  <2>4. CASE ~Admits(e) /\ UNCHANGED led /\ Become(w, Stopped(w))
    BY <2>1, <2>4, StopsOver, Refused
  <2>5. CASE Admits(e) /\ led' = Step(led, e, e.at) /\ Become(w, n)
    <3>1. Wrote(led, led', c, "succeeded", R)
      BY <2>2, <2>3, <2>5, ReceiptWrites
    <3>2. R.kind = "create" => Bound(c) = TargetOf(w) /\ ~led.binding[c].adopted
      BY <2>2 DEF ResumeFacts, TargetOf, CapOf, ItemOf, Bound
    <3>3. Secluded /\ R.kind = "delete" => Bound(c) # TargetOf(w)
      BY <2>2 DEF Faithful, Real, VerdictStands, TargetOf, CapOf, ItemOf, Bound
    <3>4. Faithful(n, led', alive, stamped, vain)
      BY <2>1, <3>1, <3>2, <3>3, Drops
    <3>5. Faithful(n, led', alive', stamped', vain')
      BY <2>1, <3>4 DEF world
    <3> QED BY <2>2, <2>5, <3>5, Lands
  <2> HIDE DEF e
  <2> QED BY <2>1, <2>4, <2>5 DEF AppendOr
<1> QED BY <1>1, <1>2

(* resume binds what it found, or lets go of what it found gone. *)
LEMMA TruthProject ==
  ASSUME NEW w \in Worker, CrashInv(w), Project(w)
  PROVE  Truth(w)'
<1> DEFINE s == worker[w]
           c == CapOf(w)
           R == ItemOf(w)
           id == TargetOf(w)
           was == led.binding[CapOf(w)]
           P == ProjectionOf(w)
           tombs == IF ItemOf(w).kind = "delete" THEN {TargetOf(w)} ELSE {}
           none == {}
           e == BindingEvent(w, c, P, none, tombs)
           n == To(w, "conclude")
           m == led'
           va == vain'
<1>1. /\ At(w, "resume", "settle") /\ Completes(w) /\ UNCHANGED world
      /\ AppendOr(e, w, n, Stopped(w))
      /\ vain' = IF Admits(e) THEN vain \ InVain(w) ELSE vain
  BY DEF Project
<1>2. /\ ExecInv /\ LedTyped /\ WorldTyped /\ s \in ResumeRecs /\ s.verb = "resume"
      /\ s.pc = "settle" /\ Faithful(s, led, alive, stamped, vain) /\ ResumeFacts(s, led, alive)
      /\ PendingFacts(led) /\ Claimed(led, stamped) /\ Adopted(led, vain)
      /\ \A jd \in alive \ Foreign : Sure(s, led, vain, jd)
  BY <1>1, AtResume
<1>3. c \in Cap /\ R.kind \in {"create", "update", "delete"} /\ id \in Ids
  BY <1>1, <1>2, ItemTyped
<1>4. s.verdict = "succeeded" /\ id = Sought(s.cur.cap, s.cur.receipt) /\ c = s.cur.cap
      /\ R = s.cur.receipt /\ R \in led.pending[c]
  BY <1>1, <1>2 DEF Completes, TargetOf, CapOf, ItemOf, ResumeFacts
<1>5. /\ R.kind = "create" => P.id = id /\ ~P.adopted /\ was.id \in {NoRes, id}
      /\ R.kind = "update" => P.id = id /\ ~P.adopted /\ was.id = id
      /\ R.kind = "delete" => (P = Unbound /\ was.id = id) \/ (P = was /\ was.id # id)
  <2>1. /\ R.kind = "create" => was.id \in {NoRes, id}
        /\ R.kind = "update" => was.id = id
    BY <1>1, <1>3 DEF Completes, Rebound, Bound
  <2>2. /\ R.kind = "create" => P = [id |-> id, gen |-> R.gen, adopted |-> FALSE]
        /\ R.kind = "update" =>
             P = [id |-> id, gen |-> IF was.gen >= 1 THEN was.gen + 1 ELSE 2, adopted |-> FALSE]
        /\ R.kind = "delete" => P = IF was.id = id THEN Unbound ELSE was
    BY DEF ProjectionOf
  <2> HIDE DEF P, id, was
  <2> QED BY <2>1, <2>2
<1>6. /\ n.verb = "resume" /\ n.pc = "conclude" /\ n.todo = s.todo /\ n.cur = s.cur
  BY <1>2 DEF To, ResumeRecs
<1>7. id # NoRes
  BY <1>3, ExecutorAssumption DEF Ids, ExecutorAssumption
<1> HIDE DEF n, P
<1>8. CASE ~Admits(e) /\ UNCHANGED led /\ Become(w, Stopped(w))
  BY <1>1, <1>8, StopsOver, Refused
<1>9. CASE Admits(e) /\ led' = Step(led, e, e.at) /\ Become(w, n)
  <2>1. Rebinding(led, m, c, P, none)
    <3> HIDE DEF tombs
    <3> QED BY <1>2, <1>3, <1>9, BindingWrites
  <2>2. /\ m.binding[c] = P /\ \A d \in Cap \ {c} : m.binding[d] = led.binding[d]
        /\ m.pending = led.pending
        /\ \A d \in Cap : m.replaced[d] = led.replaced[d]
        /\ m.claimed = IF P.id = NoRes THEN led.claimed \ {c} ELSE led.claimed
    BY <2>1 DEF Rebinding
  <2>3. /\ R.kind = "create" => id \in Own(c)
        /\ R.kind = "delete" => id \notin alive
    BY <1>2, <1>3, <1>4 DEF PendingFacts, ResumeFacts
  <2>0. /\ R.kind = "create" => va = vain \ {id}
        /\ R.kind # "create" => va = vain
    <3>1. va = vain \ InVain(w) /\ InVain(w) = IF R.kind = "create" THEN {id} ELSE {}
      BY <1>1, <1>9 DEF InVain
    <3> HIDE DEF va, R, id
    <3> QED BY <3>1
  <2> HIDE DEF va
  <2>4. ResumeFacts(n, m, alive)
    <3>1. /\ n.pc = "conclude" /\ n.cur = s.cur /\ n.todo = s.todo /\ m.pending = led.pending
          /\ m.binding[c] = P
      BY <1>6, <2>2
    <3>2. /\ \A item \in s.todo : item.receipt \in led.pending[item.cap]
          /\ s.cur.receipt \in led.pending[s.cur.cap] /\ s.cur \notin s.todo
      BY <1>2 DEF ResumeFacts
    <3>3. R.kind = "create" => P.id = id /\ ~P.adopted
      BY <1>5
    <3>4. n.cur.receipt = R /\ n.cur.cap = c /\ id = Sought(n.cur.cap, n.cur.receipt)
      BY <1>4, <3>1
    <3> HIDE DEF R, c, id, s, m
    <3> QED BY ONLY <3>1, <3>2, <3>3, <3>4 DEF ResumeFacts
  <2>5. Facts(n, m, alive, stamped, va)
    <3>1. PendingFacts(m)
      BY <1>2, <2>2 DEF PendingFacts
    <3>2. ASSUME NEW d \in m.claimed
          PROVE  /\ m.binding[d].id # NoRes
                 /\ m.binding[d].id \in Foreign => m.binding[d].id \in stamped
      <4>1. d \in led.claimed /\ (P.id = NoRes => d # c) /\ d \in Cap
        BY <1>2, <2>2, <3>2, LedFields
      <4>2. /\ led.binding[d].id # NoRes
            /\ led.binding[d].id \in Foreign => led.binding[d].id \in stamped
        BY <1>2, <4>1 DEF Claimed
      <4>3. CASE d # c
        BY <2>2, <4>1, <4>2, <4>3
      <4>4. CASE d = c /\ R.kind = "create"
        BY <1>3, <1>5, <2>2, <2>3, <4>4, OwnIsOwn
      <4>5. CASE d = c /\ R.kind \in {"update", "delete"}
        <5>1. P.id = was.id
          BY <1>5, <4>1, <4>5 DEF Unbound
        <5> QED BY <2>2, <4>2, <4>5, <5>1
      <4> QED BY <1>3, <4>3, <4>4, <4>5
    <3>3. ASSUME NEW d \in Cap, m.binding[d].adopted, m.binding[d].id \in Own(d)
          PROVE  SetAside(m, va, m.binding[d].id)
      <4>1. m.binding[d] = led.binding[d]
        BY <1>3, <1>5, <2>2, <3>3 DEF Unbound
      <4>2. SetAside(led, vain, led.binding[d].id)
        BY <1>2, <3>3, <4>1 DEF Adopted
      <4>3. ~(R.kind = "create" /\ m.binding[d].id = id)
        <5>1. CASE d # c
          BY <2>3, <3>3, <5>1 DEF Own
        <5>2. CASE d = c
          BY <1>5, <2>2, <3>3, <5>2
        <5> QED BY <5>1, <5>2
      <4> QED BY <2>0, <2>2, <4>1, <4>2, <4>3 DEF SetAside
    <3> QED BY <1>6, <2>4, <3>1, <3>2, <3>3 DEF Facts, Runs, Claimed, Adopted
  <2>6. ~InHand(s) /\ ~InHand(n) /\ Shaky(s) = {} /\ Shaky(n) = {}
    BY <1>2, <1>6 DEF InHand, Shaky, Runs
  <2>7. Recorded(n, m, alive, va)
    <3> SUFFICES ASSUME NEW jd \in alive \ Foreign PROVE Sure(n, m, va, jd)
      BY DEF Recorded
    <3>0. jd # NoRes
      BY <1>2, ExecutorAssumption DEF WorldTyped, Ids, ExecutorAssumption
    <3>1. CASE SetAside(led, vain, jd)
      <4>1. CASE R.kind = "create" /\ jd = id
        BY <1>3, <1>5, <2>2, <2>6, <4>1 DEF Sure
      <4>2. CASE ~(R.kind = "create" /\ jd = id)
        <5>1. SetAside(m, va, jd)
          BY <2>0, <2>2, <3>1, <4>2 DEF SetAside
        <5> QED BY <5>1 DEF Sure
      <4> QED BY <4>1, <4>2
    <3>2. CASE \E d \in Cap : \E r \in led.pending[d] : r.kind = "create" /\ Sought(d, r) = jd
      BY <2>2, <2>6, <3>2 DEF Sure, Closing
    <3>3. ASSUME NEW d \in Cap, ~led.binding[d].adopted, led.binding[d].id = jd
          PROVE  Sure(n, m, va, jd)
      <4>1. CASE d # c
        BY <2>2, <2>6, <3>3, <4>1 DEF Sure
      <4>2. CASE d = c
        <5>1. P.id = jd /\ ~P.adopted
          BY <1>3, <1>5, <2>3, <3>0, <3>3, <4>2
        <5> QED BY <1>3, <2>2, <2>6, <5>1 DEF Sure
      <4> QED BY <4>1, <4>2
    <3> QED BY <1>2, <3>1, <3>2, <3>3 DEF Sure
  <2>8. ASSUME Secluded PROVE AtHome(n, m) /\ Real(n, m, alive)
    <3>1. AtHome(s, led) /\ Backed(s, led, alive) /\ VerdictStands(s, led, alive)
      BY <1>2, <2>8 DEF Faithful, Real
    <3>2. id \in Home(c) /\ was.id \in Home(c) \cup {NoRes}
      BY <1>3, <1>4, <3>1 DEF AtHome
    <3>3. P.id \in Home(c) \cup {NoRes}
      BY <1>3, <1>5, <3>2 DEF Unbound
    <3>4. AtHome(n, m)
      BY <1>6, <2>2, <3>1, <3>3 DEF AtHome, Runs
    <3>5. R.kind = "create" => id \in alive
      BY <1>2, <1>4, <3>1 DEF VerdictStands
    <3>6. Backed(n, m, alive)
      <4> SUFFICES ASSUME NEW d \in Cap, m.binding[d].id \notin alive \cup {NoRes}
                   PROVE  \E r \in m.pending[d] : r.kind = "delete" /\ r.target = m.binding[d].id
        BY <2>6 DEF Backed, Closing
      <4>1. m.binding[d].id = led.binding[d].id
        BY <1>3, <1>5, <2>2, <3>5 DEF Unbound
      <4> QED BY <1>2, <2>2, <3>1, <4>1 DEF Backed, Dying
    <3>7. VerdictStands(n, m, alive)
      <4>1. R.kind = "delete" => P.id # id
        BY <1>5, <1>7 DEF Unbound
      <4> QED BY <1>4, <1>6, <2>2, <4>1 DEF VerdictStands
    <3> QED BY <1>6, <3>4, <3>6, <3>7 DEF Real, AnswerStands, AdoptionStands, Runs
  <2>9. Faithful(n, led', alive', stamped', vain')
    BY <1>1, <2>5, <2>7, <2>8 DEF Faithful, world, va
  <2> QED BY <1>2, <1>9, <2>9, Lands
<1> HIDE DEF e
<1> QED BY <1>1, <1>8, <1>9 DEF AppendOr

LEMMA TruthRebind ==
  ASSUME NEW w \in Worker, CrashInv(w), Rebind(w)
  PROVE  Truth(w)'
<1> DEFINE s == worker[w]
           to == worker[w].to
           none == {}
           n == To(w, "release")
           m == led'
<1>1. /\ s.verb \in {"adopt", "unadopt"} /\ s.pc = "bind" /\ s # Idle
      /\ UNCHANGED world /\ UNCHANGED vain
  BY DEF Rebind, Idle
<1>2. PICK c \in s.caps : AppendOr(BindingEvent(w, c, to, none, none), w, n, n)
  BY DEF Rebind
<1> DEFINE e == BindingEvent(w, c, to, none, none)
<1>3. /\ ExecInv /\ LedTyped /\ WorldTyped /\ s \in BindRecs /\ c \in Cap
      /\ Faithful(s, led, alive, stamped, vain) /\ BindFacts(s, led, vain)
      /\ PendingFacts(led) /\ Claimed(led, stamped) /\ Adopted(led, vain)
      /\ \A jd \in alive \ Foreign : Sure(s, led, vain, jd)
  <2>1. ExecInv /\ Faithful(s, led, alive, stamped, vain)
    BY DEF CrashInv, Truth
  <2>2. LedTyped /\ WorldTyped /\ s \in BindRecs /\ s.caps \subseteq Cap
    BY <1>1, <2>1, AtWork, ByVerb
  <2> QED BY <1>1, <1>2, <2>1, <2>2 DEF Faithful, Facts, Recorded, Fresh
<1>4. n.verb = s.verb /\ n.pc = "release"
  BY <1>3 DEF BindRecs, To
<1>5. AppendOr(e, w, n, n)
  BY <1>2
<1> HIDE DEF n
<1>6. /\ s.verb = "adopt" => /\ "adopt" \in Verbs /\ led.binding[c].id = NoRes /\ to.id \in Ids
                             /\ to.id \in Own(c) => SetAside(led, vain, to.id)
      /\ s.verb = "unadopt" => led.binding[c].adopted /\ to = Unbound
  BY <1>1, <1>2, <1>3 DEF BindFacts
<1>7. CASE ~Admits(e) /\ UNCHANGED led /\ Become(w, n)
  BY <1>1, <1>4, <1>7, Refused DEF Over
<1>8. CASE Admits(e) /\ led' = Step(led, e, e.at) /\ Become(w, n)
  <2>1. Rebinding(led, m, c, to, none)
    BY <1>3, <1>8, BindingWrites
  <2>2. /\ m.binding[c] = to /\ \A d \in Cap \ {c} : m.binding[d] = led.binding[d]
        /\ m.pending = led.pending
        /\ \A d \in Cap : m.replaced[d] = led.replaced[d]
        /\ m.claimed = IF to.id = NoRes THEN led.claimed \ {c} ELSE led.claimed
    BY <2>1 DEF Rebinding
  <2>3. c \notin m.claimed
    <3>1. c \in led.claimed => led.binding[c].id # NoRes
      BY <1>3 DEF Claimed
    <3> QED BY <1>1, <1>6, <2>2, <3>1 DEF Unbound
  <2>4. Facts(n, m, alive, stamped, vain)
    <3>1. PendingFacts(m)
      BY <1>3, <2>2 DEF PendingFacts
    <3>2. Claimed(m, stamped)
      <4> SUFFICES ASSUME NEW d \in m.claimed
                   PROVE  /\ m.binding[d].id # NoRes
                          /\ m.binding[d].id \in Foreign => m.binding[d].id \in stamped
        BY DEF Claimed
      <4>1. d \in led.claimed /\ d # c /\ d \in Cap
        BY <1>3, <2>2, <2>3, LedFields
      <4> QED BY <1>3, <2>2, <4>1 DEF Claimed
    <3>3. Adopted(m, vain)
      <4> SUFFICES ASSUME NEW d \in Cap, m.binding[d].adopted, m.binding[d].id \in Own(d)
                   PROVE  SetAside(led, vain, m.binding[d].id)
        BY <2>2 DEF Adopted, SetAside
      <4>1. CASE d = c
        BY <1>1, <1>6, <2>2, <4>1 DEF Unbound
      <4>2. CASE d # c
        BY <1>3, <2>2, <4>2 DEF Adopted
      <4> QED BY <4>1, <4>2
    <3> QED BY <1>1, <1>4, <3>1, <3>2, <3>3 DEF Facts, Runs, BindFacts
  <2>5. ~InHand(s) /\ ~InHand(n) /\ Shaky(s) = {} /\ Shaky(n) = {}
    BY <1>1, <1>4 DEF InHand, Shaky, Runs
  <2>6. Recorded(n, m, alive, vain)
    <3> SUFFICES ASSUME NEW jd \in alive \ Foreign PROVE Sure(n, m, vain, jd)
      BY DEF Recorded
    <3>0. jd # NoRes
      BY <1>3, ExecutorAssumption DEF WorldTyped, Ids, ExecutorAssumption
    <3>1. CASE SetAside(led, vain, jd)
      BY <2>2, <3>1 DEF Sure, SetAside
    <3>2. CASE \E d \in Cap : \E r \in led.pending[d] : r.kind = "create" /\ Sought(d, r) = jd
      BY <2>2, <2>5, <3>2 DEF Sure, Closing
    <3>3. ASSUME NEW d \in Cap, ~led.binding[d].adopted, led.binding[d].id = jd
          PROVE  Sure(n, m, vain, jd)
      <4>1. d # c
        BY <1>1, <1>6, <3>0, <3>3
      <4> QED BY <2>2, <2>5, <3>3, <4>1 DEF Sure
    <3> QED BY <1>3, <3>1, <3>2, <3>3 DEF Sure
  <2>7. ASSUME Secluded PROVE AtHome(n, m) /\ Real(n, m, alive)
    <3>1. AtHome(s, led) /\ Backed(s, led, alive) /\ AdoptionStands(s, alive)
      BY <1>3, <2>7 DEF Faithful, Real
    <3>2. to.id \in Home(c) \cup {NoRes} /\ to.id \in alive \cup {NoRes}
      <4>1. CASE s.verb = "adopt"
        <5>1. \A d \in Cap : d = c
          BY <1>3, <1>6, <2>7, <4>1 DEF Secluded
        <5> QED BY <1>1, <1>6, <3>1, <4>1, <5>1 DEF Home, AdoptionStands
      <4>2. CASE s.verb = "unadopt"
        BY <1>6, <4>2 DEF Unbound
      <4> QED BY <1>1, <4>1, <4>2
    <3>3. AtHome(n, m)
      BY <1>1, <1>4, <2>2, <3>1, <3>2 DEF AtHome, Runs
    <3>4. Backed(n, m, alive)
      <4> SUFFICES ASSUME NEW d \in Cap, m.binding[d].id \notin alive \cup {NoRes}
                   PROVE  \E r \in m.pending[d] : r.kind = "delete" /\ r.target = m.binding[d].id
        BY <2>5 DEF Backed, Closing
      <4>1. d # c
        BY <2>2, <3>2
      <4> QED BY <1>1, <2>2, <3>1, <4>1 DEF Backed, Dying
    <3> QED BY <1>1, <1>4, <3>3, <3>4 DEF Real, AnswerStands, VerdictStands, AdoptionStands, Runs
  <2>8. Faithful(n, led', alive', stamped', vain')
    BY <1>1, <2>4, <2>6, <2>7 DEF Faithful, world
  <2> QED BY <1>3, <1>8, <2>8, Lands
<1> HIDE DEF e
<1> QED BY <1>5, <1>7, <1>8 DEF AppendOr

----------------------------------------------------------------------------
(* Every step. *)

LEMMA CrashInit ==
  ASSUME NEW w \in Worker, Init
  PROVE  CrashInv(w)
<1>1. ExecInv
  BY ExecInit
<1>2. /\ worker[w] = Idle /\ alive = Foreign
      /\ \A c \in Cap : led.binding[c] = Unbound /\ led.pending[c] = {} /\ led.replaced[c] = {}
      /\ led.claimed = {}
  BY DEF Init, EmptyLedger
<1> DEFINE l == led
<1>3. /\ ~Runs(Idle) /\ Shaky(Idle) = {} /\ Idle.verb = "idle"
  BY DEF Runs, Shaky, Idle
<1> HIDE DEF l
<1>4. l = led
  BY DEF l
<1>5. Facts(Idle, l, alive, stamped, vain)
  BY <1>2, <1>3, <1>4 DEF Facts, PendingFacts, Claimed, Adopted, Unbound
<1>6. Recorded(Idle, l, alive, vain)
  BY <1>2 DEF Recorded
<1>7. AtHome(Idle, l) /\ Real(Idle, l, alive)
  BY <1>2, <1>3, <1>4 DEF AtHome, Real, Backed, AnswerStands, VerdictStands, AdoptionStands, Unbound
<1> QED BY <1>1, <1>2, <1>4, <1>5, <1>6, <1>7 DEF CrashInv, Truth, Faithful

LEMMA CrashNext ==
  ASSUME NEW w, Worker = {w}, CrashInv(w), [Next]_vars
  PROVE  CrashInv(w)'
<1>1. w \in Worker /\ ExecInv'
  BY ExecNext DEF CrashInv
<1>2. CASE RunStep(w)
  BY <1>1, <1>2, TruthStartApply, TruthStartOther, TruthTakeLease, TruthRelease, TruthRebind,
     TruthWaiting, TruthIntent, TruthCall, TruthFailure, TruthClaimed, TruthBound, TruthConclude,
     TruthFinish, TruthAsk, TruthClosed, TruthProject, TruthAllAsked
     DEF RunStep, CrashInv
<1>3. CASE Observe \/ Lose
  BY <1>1, <1>3, TruthAround DEF CrashInv
<1>4. CASE UNCHANGED vars
  BY <1>1, <1>4 DEF vars, CrashInv, Truth
<1> QED BY <1>2, <1>3, <1>4 DEF Next

LEMMA CrashHolds ==
  ASSUME NEW w, Worker = {w}
  PROVE  Spec => []CrashInv(w)
<1>1. Init => CrashInv(w)
  BY CrashInit
<1>2. CrashInv(w) /\ [Next]_vars => CrashInv(w)'
  BY CrashNext
<1> QED BY <1>1, <1>2, PTL DEF Spec

(* What a process says of the ledger, its absence would say too. *)
LEMMA AsIfDead ==
  ASSUME NEW w \in Worker, CrashInv(w)
  PROVE  Faithful(Idle, led, alive, stamped, vain)
<1>1. ExecInv /\ Faithful(worker[w], led, alive, stamped, vain)
  BY DEF CrashInv, Truth
<1>2. worker[w].verb = "apply" =>
        worker[w] \in ApplyRecs /\ PlanShape(worker[w]) /\ Progress(worker[w])
  <2> HAVE worker[w].verb = "apply"
  <2>1. worker[w] # Idle
    BY DEF Idle
  <2> QED BY <1>1, <2>1, AtWork, ByVerb DEF Good
<1>3. Over(Idle)
  BY DEF Over, Idle
<1> QED BY <1>1, <1>2, <1>3, GivesAllUp

----------------------------------------------------------------------------
(* Theorems. *)

OneProcess == \E w : Worker = {w}

(* No resource groundhold created is ever off the record, wherever its one        *)
(* process dies: the receipt is written before the call (D29), an unknown answer  *)
(* keeps it open with the identity it names (D57), the binding is written before  *)
(* the receipt is closed (D180), what a replacement leaves behind stays in the    *)
(* lineage (D58), and what a failed or a late create leaves behind is the subject *)
(* of the line that last concluded that create. The provider may report as failed *)
(* any create that left its resource standing, and so may a reconciler (D736).    *)
THEOREM CreationsStayOnRecord == OneProcess => (Spec => []OrphanRecorded)
<1> SUFFICES ASSUME NEW w, Worker = {w} PROVE Spec => []OrphanRecorded
  BY DEF OneProcess
<1>1. CrashInv(w) => OrphanRecorded
  <2> SUFFICES ASSUME CrashInv(w), NEW id \in alive \ Foreign
               PROVE  OnRecord(id) \/ id \in vain \/ \E c \in Cap : id \in led.replaced[c]
    BY DEF OrphanRecorded
  <2>1. Faithful(Idle, led, alive, stamped, vain)
    BY AsIfDead
  <2>2. Sure(Idle, led, vain, id)
    BY <2>1 DEF Faithful, Recorded, Fresh, Idle
  <2> QED BY <2>2 DEF Sure, SetAside, OnRecord, Bound, Pending
<1> QED BY <1>1, CrashHolds, PTL

(* A binding is never left pointing at nothing: a bound resource that does not     *)
(* exist has an open intent naming it, wherever apply or resume dies between the  *)
(* call, the projection and the conclusion of a delete (D180). Nothing is deleted *)
(* by hand, no delete is reported as failed after its resource is gone, and no    *)
(* capability adopts what groundhold made for another.                            *)
THEOREM BindingsStayReal == OneProcess /\ Secluded => (Spec => []BoundIsReal)
<1> SUFFICES ASSUME NEW w, Worker = {w}, Secluded PROVE Spec => []BoundIsReal
  BY DEF OneProcess
<1>1. CrashInv(w) => BoundIsReal
  <2> SUFFICES ASSUME CrashInv(w), NEW c \in Cap PROVE Bound(c) \in alive \cup Pending(c) \cup {NoRes}
    BY DEF BoundIsReal
  <2>1. Faithful(Idle, led, alive, stamped, vain)
    BY AsIfDead
  <2>2. \/ led.binding[c].id \in alive \cup {NoRes}
        \/ \E r \in led.pending[c] : r.kind = "delete" /\ r.target = led.binding[c].id
    BY <2>1 DEF Faithful, Real, Backed, Dying, Idle
  <2>3. \A r \in led.pending[c] : r.kind = "delete" => Sought(c, r) = r.target
    BY DEF Sought
  <2> QED BY <2>2, <2>3 DEF Bound, Pending
<1> QED BY <1>1, CrashHolds, PTL

(* Authorship is never assumed: what is recorded as claimed was made or stamped  *)
(* by groundhold, because the claim is written only after the provider confirmed *)
(* the stamp, and a released binding takes its claim along (D52, D140, D192).    *)
THEOREM ClaimsStayTrue == OneProcess => (Spec => []ClaimsAreTrue)
<1> SUFFICES ASSUME NEW w, Worker = {w} PROVE Spec => []ClaimsAreTrue
  BY DEF OneProcess
<1>1. CrashInv(w) => ClaimsAreTrue
  <2> SUFFICES ASSUME CrashInv(w), NEW c \in led.claimed PROVE Ours(Bound(c))
    BY DEF ClaimsAreTrue
  <2>1. Claimed(led, stamped)
    BY DEF CrashInv, Truth, Faithful, Facts
  <2> QED BY <2>1 DEF Claimed, Ours, Bound
<1> QED BY <1>1, CrashHolds, PTL

(* A call is made on what the ledger says: when an action reaches the provider,    *)
(* the binding of its producer or predecessor and the stamp of its claim are on    *)
(* record (depFailed, D1055). A create looked up by tag is bound to what it found. *)
THEOREM DependenciesComeFirst == OneProcess /\ ~TagScan => (Spec => []DependenciesMet)
<1> SUFFICES ASSUME NEW w, Worker = {w}, ~TagScan PROVE Spec => []DependenciesMet
  BY DEF OneProcess
<1>1. CrashInv(w) => DependenciesMet
  <2> DEFINE s == worker[w]
  <2> SUFFICES ASSUME CrashInv(w), At(w, "apply", "call"),
                      NEW b \in s.plan, DependsOn(s.cur, b)
               PROVE  CASE b.op = "create" -> Bound(b.cap) = b.id
                        [] b.op = "claim" -> b.cap \in led.claimed
                        [] OTHER -> FALSE
    BY DEF DependenciesMet
  <2>1. /\ s \in ApplyRecs /\ PlanShape(s) /\ Progress(s) /\ s.pc = "call"
        /\ PlanFacts(s) /\ InOrder(s) /\ OnLedger(s, led)
    BY AtApply DEF Working
  <2>2. b \in Done(s) /\ s.cur \in s.plan /\ s.cur \in Left(s)
    BY <2>1 DEF InOrder, Progress, Left
  <2>3. CASE b.op = "create"
    <3>1. Bound(b.cap) = b.id
      BY <2>1, <2>2, <2>3 DEF OnLedger, Shown, Bound
    <3> QED BY <2>3, <3>1
  <2>4. CASE b.op = "claim"
    <3>1. s.cur.cap = b.cap /\ s.cur.op \in {"update", "delete"}
      BY <2>4 DEF DependsOn
    <3>2. ASSUME NEW d \in Done(s), d.cap = b.cap, d.op = "delete" PROVE FALSE
      <4>1. d \in s.plan /\ d # s.cur /\ d # b
        BY <2>2, <2>4, <3>2 DEF Done
      <4>2. d.deposed
        BY <2>1, <2>2, <3>1, <3>2, <4>1 DEF PlanShape
      <4>3. b.deposed
        BY <2>1, <3>2, <4>1, <4>2 DEF PlanFacts
      <4> QED BY <2>1, <2>4, <4>3 DEF PlanShape
    <3>3. b.cap \in led.claimed
      BY <2>1, <2>2, <2>4, <3>2 DEF OnLedger, Shown
    <3> QED BY <2>4, <3>3
  <2> QED BY <2>3, <2>4 DEF DependsOn
<1> QED BY <1>1, CrashHolds, PTL

(* Only two steps write tombstones. *)
LEMMA NoTombs ==
  ASSUME LedTyped, NEW e, NEW now, e.type # "binding.updated" \/ e.tombs = {}
  PROVE  Step(led, e, now).tombstoned = led.tombstoned
<1>1. TombstonedAfter(led, e) = led.tombstoned
  BY LedFields DEF TombstonedAfter
<1> QED BY <1>1 DEF Step

(* What an appended binding changes of the fold, when it is admitted at all. *)
Burying(l, m, c, bound, tombs) ==
  /\ m.binding[c] = bound /\ \A d \in Cap \ {c} : m.binding[d] = l.binding[d]
  /\ m.tombstoned[c] = l.tombstoned[c] \cup tombs
  /\ \A d \in Cap \ {c} : m.tombstoned[d] = l.tombstoned[d]

LEMMA BindingBuries ==
  ASSUME LedTyped, NEW w \in Worker, NEW c \in Cap, NEW bound, NEW replaces, NEW tombs, NEW now
  PROVE  Burying(led, Step(led, BindingEvent(w, c, bound, replaces, tombs), now), c, bound, tombs)
<1> DEFINE e == BindingEvent(w, c, bound, replaces, tombs)
<1>1. e.type = "binding.updated" /\ e.caps = {c} /\ e.bound = bound /\ e.tombs = tombs
  BY DEF BindingEvent
<1> HIDE DEF e
<1>2. BindingAfter(led, e)[c] = bound /\ \A d \in Cap \ {c} : BindingAfter(led, e)[d] = led.binding[d]
  BY <1>1 DEF BindingAfter
<1>3. /\ TombstonedAfter(led, e)[c] = led.tombstoned[c] \cup tombs
      /\ \A d \in Cap \ {c} : TombstonedAfter(led, e)[d] = led.tombstoned[d]
  BY <1>1 DEF TombstonedAfter
<1>4. /\ Step(led, e, now).binding = BindingAfter(led, e)
      /\ Step(led, e, now).tombstoned = TombstonedAfter(led, e)
  BY DEF Step
<1>5. Burying(led, Step(led, e, now), c, bound, tombs)
  BY <1>2, <1>3, <1>4 DEF Burying
<1> QED BY <1>5 DEF e

LEMMA BindingAppended ==
  ASSUME LedTyped, NEW w \in Worker, NEW c \in Cap, NEW bound, NEW replaces, NEW tombs, NEW n, NEW r,
         AppendOr(BindingEvent(w, c, bound, replaces, tombs), w, n, r)
  PROVE  UNCHANGED led \/ Burying(led, led', c, bound, tombs)
<1> DEFINE e == BindingEvent(w, c, bound, replaces, tombs)
<1>1. UNCHANGED led \/ led' = Step(led, e, e.at)
  BY DEF AppendOr
<1>2. Burying(led, Step(led, e, e.at), c, bound, tombs)
  BY BindingBuries
<1> HIDE DEF e
<1> QED BY <1>1, <1>2

LEMMA SameTombs ==
  ASSUME LedTyped, NEW w \in Worker, RunStep(w), ~SettleSuccess(w), ~Project(w)
  PROVE  led'.tombstoned = led.tombstoned
<1>1. ASSUME NEW e, NEW n, NEW r, AppendOr(e, w, n, r), e.type # "binding.updated" \/ e.tombs = {}
      PROVE  led'.tombstoned = led.tombstoned
  BY <1>1, NoTombs DEF AppendOr
<1>2. CASE TakeLease(w)
  BY <1>1, <1>2 DEF TakeLease, LeaseEvent
<1>3. CASE Release(w)
  BY <1>1, <1>3 DEF Release, MarkEvent
<1>4. CASE Rebind(w)
  <2>1. PICK c \in worker[w].caps :
          AppendOr(BindingEvent(w, c, worker[w].to, {}, {}), w, To(w, "release"), To(w, "release"))
    BY <1>4 DEF Rebind
  <2>2. BindingEvent(w, c, worker[w].to, {}, {}).tombs = {}
    BY DEF BindingEvent
  <2> QED BY <1>1, <2>1, <2>2
<1>5. CASE ApplyStarted(w) \/ Finish(w)
  BY <1>1, <1>5 DEF ApplyStarted, Finish, MarkEvent
<1>6. \A c, status, receipt : ReceiptEvent(w, c, status, receipt).type = "operation.receipt"
  BY DEF ReceiptEvent
<1>7. CASE WriteIntent(w)
  BY <1>1, <1>6, <1>7 DEF WriteIntent
<1>8. CASE SettleFailure(w) \/ Conclude(w)
  BY <1>1, <1>6, <1>8 DEF SettleFailure, Conclude
<1>9. CASE CloseOnly(w) \/ Close(w)
  BY <1>1, <1>6, <1>9 DEF CloseOnly, Close
<1>10. CASE UNCHANGED led
  BY <1>10
<1> QED
  BY <1>2, <1>3, <1>4, <1>5, <1>7, <1>8, <1>9, <1>10
     DEF RunStep, StartApply, StartResume, StartAdopt, StartUnadopt, StartRun, Skip, RefuseFirst,
         CallProvider, Ask, AllAsked, Crash

(* History buries only the dead: apply tombstones what the provider confirmed      *)
(* deleted, resume what it read to be gone, and nothing comes back in between.     *)
THEOREM TombstonesStayTrue == OneProcess => (Spec => TombstonesTrue)
<1> SUFFICES ASSUME NEW w, Worker = {w} PROVE Spec => TombstonesTrue
  BY DEF OneProcess
<1>1. ASSUME CrashInv(w), [Next]_vars, NEW c \in Cap
      PROVE  (led'.tombstoned[c] \ led.tombstoned[c]) \cap alive = {}
  <2>1. LedTyped
    BY <1>1 DEF CrashInv, ExecInv
  <2>2. ASSUME NEW d \in Cap, NEW bound, NEW replaces, NEW tombs, NEW n, NEW r,
               AppendOr(BindingEvent(w, d, bound, replaces, tombs), w, n, r), tombs \cap alive = {}
        PROVE  (led'.tombstoned[c] \ led.tombstoned[c]) \cap alive = {}
    <3>1. UNCHANGED led \/ Burying(led, led', d, bound, tombs)
      BY <2>1, <2>2, BindingAppended
    <3> QED BY <2>2, <3>1 DEF Burying
  <2>3. CASE SettleSuccess(w)
    <3> DEFINE s == worker[w]
               a == worker[w].cur
               tombs == IF a.op = "delete" THEN {a.id} ELSE {}
    <3>1. At(w, "apply", "settle") /\ s.reply.status = "succeeded"
      BY <2>3 DEF SettleSuccess
    <3>2. /\ s \in ApplyRecs /\ Progress(s) /\ s.pc = "settle" /\ Answer(s, alive, stamped)
      BY <1>1, <3>1, AtApply DEF Working
    <3>3. a.cap \in Cap /\ tombs \cap alive = {}
      BY <3>1, <3>2 DEF ApplyRecs, Progress, Actions, Answer
    <3>4. CASE a.op # "claim"
      <4>1. AppendOr(BindingEvent(w, a.cap, BindingOf(w, a), {a.old} \ {NoRes}, tombs), w,
                     To(w, "conclude"), Idle)
        BY <2>3, <3>4 DEF SettleSuccess, Written
      <4> HIDE DEF tombs
      <4> QED BY <2>2, <3>3, <4>1
    <3>5. CASE a.op = "claim"
      <4> DEFINE e == [type |-> "ownership.claimed", caps |-> {a.cap}, at |-> s.at]
      <4>1. AppendOr(e, w, To(w, "conclude"), Idle)
        BY <2>3, <3>5 DEF SettleSuccess, Written
      <4>2. e.type # "binding.updated"
        OBVIOUS
      <4> HIDE DEF e
      <4> QED BY <2>1, <4>1, <4>2, NoTombs DEF AppendOr
    <3> QED BY <3>4, <3>5
  <2>4. CASE Project(w)
    <3> DEFINE tombs == IF ItemOf(w).kind = "delete" THEN {TargetOf(w)} ELSE {}
    <3>1. /\ At(w, "resume", "settle") /\ Completes(w)
          /\ AppendOr(BindingEvent(w, CapOf(w), ProjectionOf(w), {}, tombs), w,
                      To(w, "conclude"), Stopped(w))
      BY <2>4 DEF Project
    <3>2. ExecInv /\ ResumeFacts(worker[w], led, alive) /\ worker[w].pc = "settle"
      BY <1>1, <3>1, AtResume
    <3>3. CapOf(w) \in Cap
      BY <1>1, <3>1, <3>2, ItemTyped
    <3>4. tombs \cap alive = {}
      BY <3>1, <3>2 DEF Completes, ResumeFacts, ItemOf, TargetOf, CapOf
    <3> HIDE DEF tombs
    <3> QED BY <2>2, <3>1, <3>3, <3>4
  <2>5. CASE RunStep(w) /\ ~SettleSuccess(w) /\ ~Project(w)
    BY <1>1, <2>1, <2>5, SameTombs
  <2>6. CASE Observe \/ Lose \/ UNCHANGED vars
    <3>1. CASE Observe
      BY <2>1, <3>1, NoTombs DEF Observe
    <3> QED BY <2>6, <3>1 DEF Lose, vars
  <2> QED BY <1>1, <2>3, <2>4, <2>5, <2>6 DEF Next
<1>2. CrashInv(w) /\ [Next]_vars =>
        [\A c \in Cap : (led'.tombstoned[c] \ led.tombstoned[c]) \cap alive = {}]_vars
  BY <1>1
<1> QED BY <1>2, CrashHolds, PTL DEF Spec, TombstonesTrue

LEMMA CrashAll == OneProcess => (Spec => [](\A p \in Worker : CrashInv(p)))
<1> SUFFICES ASSUME NEW w, Worker = {w} PROVE Spec => [](\A p \in Worker : CrashInv(p))
  BY DEF OneProcess
<1>1. CrashInv(w) => \A p \in Worker : CrashInv(p)
  OBVIOUS
<1> QED BY <1>1, CrashHolds, PTL

(* A replacement never destroys what it left bound: no run that creates for a      *)
(* capability empties its binding, because its delete waits for its create and a   *)
(* create that came back as the identity it replaces is a failure (D723, D1055).   *)
THEOREM ReplacementsKeepOne == OneProcess => (Spec => ReplacementKeepsOne)
<1> SUFFICES ASSUME OneProcess PROVE Spec => ReplacementKeepsOne
  OBVIOUS
<1>1. ASSUME NEW w, Worker = {w}, CrashInv(w), [Next]_vars, At(w, "apply", "settle"), worker'[w] # worker[w],
             NEW b \in worker[w].plan, b.op = "create", Bound(b.cap) # NoRes
      PROVE  led'.binding[b.cap].id # NoRes
  <2> DEFINE s == worker[w]
             a == worker[w].cur
             id == s.reply.id
  <2>1. /\ ExecInv /\ LedTyped /\ s \in ApplyRecs /\ PlanShape(s) /\ Progress(s)
        /\ s.verb = "apply" /\ s.pc = "settle" /\ s # Idle
        /\ PlanFacts(s) /\ InOrder(s) /\ OnLedger(s, led)
    <3>1. s # Idle
      BY <1>1 DEF At, Idle
    <3> QED BY <1>1, <3>1, AtApply DEF Working
  <2>2. a \in s.plan /\ a.cap \in Cap /\ b.cap \in Cap /\ a.op \in Ops /\ id \in Ids
    BY <2>1 DEF Progress, ApplyRecs, Actions, Replies
  <2>3. SettleSuccess(w) \/ SettleFailure(w) \/ Crash(w)
    <3>1. RunStep(w)
      BY <1>1 DEF Next, Observe, Lose, vars
    <3> QED BY <2>1, <3>1 DEF RunStep, StartApply, StartResume, StartAdopt, StartUnadopt, StartRun,
              TakeLease, Release, Rebind, ApplyStarted, Skip, RefuseFirst, WriteIntent,
              CallProvider, Conclude, Finish, Ask, CloseOnly, Project, Close, AllAsked, At
  <2>4. CASE Crash(w)
    BY <1>1, <2>4 DEF Crash, Bound
  <2>5. CASE SettleFailure(w)
    <3>1. PICK status, receipt, n :
            AppendOr(ReceiptEvent(w, a.cap, status, receipt), w, n, Idle)
      BY <2>5 DEF SettleFailure
    <3>2. led'.binding = led.binding
      BY <1>1, <2>1, <2>2, <3>1, ReceiptEffect DEF AppendOr
    <3> QED BY <1>1, <3>2 DEF Bound
  <2>6. CASE SettleSuccess(w) /\ a.op = "claim"
    <3>1. \E at : led' = led \/ led' = Step(led, [type |-> "ownership.claimed", caps |-> {a.cap},
                                                at |-> at], at)
      BY <2>6 DEF SettleSuccess, Written, AppendOr
    <3>2. led'.binding = led.binding
      BY <2>1, <2>2, <3>1, ClaimEffect
    <3> QED BY <1>1, <3>2 DEF Bound
  <2>7. CASE SettleSuccess(w) /\ a.op # "claim"
    <3> DEFINE B == BindingOf(w, a)
               olds == {a.old} \ {NoRes}
               tombs == IF a.op = "delete" THEN {a.id} ELSE {}
    <3>1. AppendOr(BindingEvent(w, a.cap, B, olds, tombs), w, To(w, "conclude"), Idle)
      BY <2>7 DEF SettleSuccess, Written
    <3>2. CASE UNCHANGED led
      BY <1>1, <3>2 DEF Bound
    <3>3. CASE ~UNCHANGED led
      <4> SUFFICES ASSUME led'.binding[b.cap].id = NoRes PROVE FALSE
        OBVIOUS
      <4>1. led'.binding[a.cap] = B /\ \A d \in Cap \ {a.cap} : led'.binding[d] = led.binding[d]
        <5> HIDE DEF B, olds, tombs, a
        <5>1. UNCHANGED led \/ Burying(led, led', a.cap, B, tombs)
          BY <1>1, <2>1, <2>2, <3>1, BindingAppended
        <5> QED BY <3>3, <5>1 DEF Burying
      <4>2. a.cap = b.cap /\ B.id = NoRes
        BY <1>1, <2>2, <4>1 DEF Bound
      <4>3. NoRes \notin Ids
        BY ExecutorAssumption DEF Ids, ExecutorAssumption
      <4>4. a.op = "delete" /\ Bound(a.cap) = a.id
        BY <1>1, <2>2, <4>2, <4>3 DEF BindingOf, Bound
      <4>5. DependsOn(a, b) /\ a # b /\ ~a.deposed
        BY <1>1, <2>1, <2>2, <4>2, <4>4 DEF DependsOn, PlanShape
      <4>6. Bound(a.cap) # b.old
        <5>1. b \in Done(s)
          BY <2>1, <4>5 DEF InOrder
        <5> QED BY <1>1, <2>1, <4>2, <5>1 DEF OnLedger, Shown, Bound
      <4>7. b.old = a.id
        BY <1>1, <2>1, <2>2, <4>2, <4>4, <4>5 DEF PlanFacts
      <4> QED BY <4>4, <4>6, <4>7
    <3> QED BY <3>2, <3>3
  <2> QED BY <2>3, <2>4, <2>5, <2>6, <2>7
<1>2. (\A p \in Worker : CrashInv(p)) /\ [Next]_vars =>
        [\A w \in Worker : At(w, "apply", "settle") /\ worker'[w] # worker[w] =>
           \A b \in worker[w].plan :
             b.op = "create" /\ Bound(b.cap) # NoRes => led'.binding[b.cap].id # NoRes]_vars
  <2> SUFFICES ASSUME \A p \in Worker : CrashInv(p), [Next]_vars, NEW w \in Worker,
                      At(w, "apply", "settle"), worker'[w] # worker[w],
                      NEW b \in worker[w].plan, b.op = "create", Bound(b.cap) # NoRes
               PROVE  led'.binding[b.cap].id # NoRes
    OBVIOUS
  <2>1. Worker = {w}
    BY DEF OneProcess
  <2> QED BY <1>1, <2>1
<1> QED BY <1>2, CrashAll, PTL DEF Spec, ReplacementKeepsOne
==============================================================================

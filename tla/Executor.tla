------------------------------ MODULE Executor ------------------------------
(***************************************************************************)
(* The verbs that write the ledger and touch the world: apply              *)
(* (internal/apply), resume (internal/resume), adopt and unadopt           *)
(* (internal/adopt), run by concurrent processes over one ledger file and  *)
(* one provider, with what the compiler seals (internal/compiler) as the   *)
(* input of apply.                                                         *)
(*                                                                         *)
(* A process is a slot of Worker.  Each of its steps is one append or one  *)
(* provider call, so that other processes, and a crash, fall between any   *)
(* two of them.  Every append goes through the rules of LedgerRules on the *)
(* state of that moment, with the clock (--at) the run was started with.   *)
(*                                                                         *)
(* The provider is external.  Ids of created resources are the             *)
(* deterministic names <<capability, generation>>; a call may land or not  *)
(* and may say so or not, and one that is reported as failed may have left *)
(* its resource behind.  A resource's attributes are left out.             *)
(***************************************************************************)
EXTENDS LedgerRules

CONSTANTS
  Worker,     \* process slots
  Foreign,    \* resources that exist before groundhold does
  Goals,      \* what contracts ask for: present, update, replace, retired, deposed
  Verbs,      \* verbs that are run: apply, resume, adopt, unadopt, observe
  Feeds,      \* <<producer, consumer>>: the consumer's create reads an output
  Vanish,     \* may a resource disappear behind groundhold's back?
  Halfway,    \* may a delete be reported as failed although its resource is gone?
  TagScan,    \* does a create adopt any resource carrying the capability's tag?
  Ttl,        \* lease lifetime (300 s)
  MaxClock,   \* bound on --at
  MaxRuns     \* bound on the number of runs

ASSUME ExecutorAssumption ==
  /\ Cap # {}
  /\ Goals \subseteq {"present", "update", "replace", "retired", "deposed"}
  /\ Verbs \subseteq {"apply", "resume", "adopt", "unadopt", "observe"}
  /\ Feeds \subseteq Cap \X Cap
  /\ NoRes \notin Foreign \cup (Cap \X Nat)
  /\ \A id \in Foreign : id \notin Cap \X Nat       \* created names are taken by nobody else
  /\ Vanish \in BOOLEAN /\ Halfway \in BOOLEAN /\ TagScan \in BOOLEAN
  /\ Ttl \in Nat \ {0} /\ MaxClock \in Nat /\ MaxRuns \in Nat

VARIABLES
  led,        \* the ledger file, as a fresh replay folds it
  worker,     \* what each process is doing
  alive,      \* resources that exist
  stamped,    \* foreign resources that carry groundhold's ownership marker
  vain,       \* names whose create the history last concluded without a binding
  runs        \* runs started so far

vars == <<led, worker, alive, stamped, vain, runs>>
world == <<alive, stamped>>

Idle == [verb |-> "idle"]
OwnId(c, gen) == <<c, gen>>
Ours(id) == id \notin Foreign \/ id \in stamped
Bound(c) == led.binding[c].id

Init ==
  /\ led = EmptyLedger
  /\ worker = [w \in Worker |-> Idle]
  /\ alive = Foreign
  /\ stamped = {}
  /\ vain = {}
  /\ runs = 0

----------------------------------------------------------------------------
(* Plans: the actions the compiler seals for one capability and one goal.   *)
(*   id   the identity acted on; for a create, the name it will be given    *)
(*   gen  targetGeneration; 0 when the action carries none                  *)
(*   old  for the create of a replacement, the identity it replaces         *)

Action(c, op, id, gen, old, deposed) ==
  [cap |-> c, op |-> op, id |-> id, gen |-> gen, old |-> old, deposed |-> deposed]

AtLeastOne(gen) == IF gen >= 1 THEN gen ELSE 1
BoundGen(c) == AtLeastOne(led.binding[c].gen)

Create(c) == Action(c, "create", OwnId(c, 1), 0, NoRes, FALSE)
Delete(c, id, gen, deposed) == Action(c, "delete", id, gen, NoRes, deposed)

(* Own before destroy, own before patch: an adopted binding not yet stamped. *)
ClaimFirst(c) ==
  IF led.binding[c].adopted /\ c \notin led.claimed
  THEN {Action(c, "claim", Bound(c), 0, NoRes, FALSE)} ELSE {}

Successor(c) == Action(c, "create", OwnId(c, BoundGen(c) + 1), BoundGen(c) + 1, Bound(c), FALSE)

(* The compiler goes by observations: what it takes for bound and there may be   *)
(* gone, what it takes for absent was seen to be.                                *)
Plan(c, goal) ==
  CASE goal = "present" /\ Bound(c) \notin alive -> {Create(c)}
    [] goal = "present" /\ Bound(c) # NoRes /\ Bound(c) \in alive -> ClaimFirst(c)
    [] goal = "update" /\ Bound(c) # NoRes ->
         ClaimFirst(c) \cup {Action(c, "update", Bound(c), 0, NoRes, FALSE)}
    [] goal = "replace" /\ Bound(c) # NoRes ->
         ClaimFirst(c) \cup {Successor(c), Delete(c, Bound(c), BoundGen(c), FALSE)}
    [] goal = "retired" /\ Bound(c) # NoRes ->
         ClaimFirst(c) \cup {Delete(c, Bound(c), BoundGen(c), FALSE)}
    [] goal = "deposed" -> {Delete(c, id, 0, TRUE) : id \in Deposed(led, c)}
    [] OTHER -> {}

(* dependsOn, as compiled, and as enforceReplaceOrdering restores it. *)
DependsOn(a, b) ==
  \/ /\ a.cap = b.cap
     /\ \/ b.op = "claim" /\ a.op \in {"update", "delete"}
        \/ b.op = "create" /\ a.op = "delete"
  \/ <<b.cap, a.cap>> \in Feeds /\ a.op = "create" /\ b.op = "create"

(* idempotencyKey: per candidate, so the same intent keeps its id from run to run. *)
OpId(a) ==
  CASE a.op = "create" -> <<a.cap, "create", a.gen>>
    [] a.deposed -> <<a.cap, "deposed", a.id>>
    [] OTHER -> <<a.cap, a.op>>

(* The body of an action's receipt. A create or claim names its target only when  *)
(* the call came back unknown with an id in hand.                                  *)
ReceiptOf(a, called, id) ==
  [ op     |-> OpId(a), kind |-> a.op,
    gen    |-> IF a.op = "create" THEN AtLeastOne(a.gen) ELSE 0,
    target |-> IF a.op \in {"create", "claim"} THEN id ELSE a.id,
    called |-> called ]

(* The identity a reconciler looks for. *)
Sought(c, receipt) ==
  IF receipt.kind = "create" /\ receipt.target = NoRes
  THEN OwnId(c, receipt.gen) ELSE receipt.target

----------------------------------------------------------------------------
(* Appending. *)

Admits(e) == ~Regresses(led, e) /\ Accepts(led, e, e.at)

Become(w, state) == worker' = [worker EXCEPT ![w] = state]
To(w, pc) == [worker[w] EXCEPT !.pc = pc]

(* One append of a run: the event lands and the run goes on, or it is refused *)
(* and the run ends where its verb's error path ends.                         *)
AppendOr(e, w, onward, refused) ==
  \/ Admits(e) /\ led' = Step(led, e, e.at) /\ Become(w, onward)
  \/ ~Admits(e) /\ UNCHANGED led /\ Become(w, refused)

(* apply stops dead (ledger corrupted); the others try to release their lease. *)
Stopped(w) == IF worker[w].verb = "apply" THEN Idle ELSE To(w, "release")

ReceiptEvent(w, c, status, receipt) ==
  [type |-> "operation.receipt", caps |-> {c}, at |-> worker[w].at,
   status |-> status, receipt |-> receipt]

BindingEvent(w, c, bound, replaces, tombs) ==
  [type |-> "binding.updated", caps |-> {c}, at |-> worker[w].at, token |-> worker[w].token,
   bound |-> bound, replaces |-> replaces, tombs |-> tombs]

MarkEvent(w, type) ==
  [type |-> type, caps |-> worker[w].caps, at |-> worker[w].at, token |-> worker[w].token]

At(w, verb, pc) == worker[w].verb = verb /\ worker[w].pc = pc

----------------------------------------------------------------------------
(* Starting a run, and its lease. *)

StartRun(w, state) ==
  /\ worker[w] = Idle
  /\ runs < MaxRuns
  /\ runs' = runs + 1
  /\ Become(w, state)
  /\ UNCHANGED <<led, world, vain>>

(* Compile and apply up to the lease: a fresh plan for some capabilities, the   *)
(* decision heads it was compiled at, and the entry gates (nothing pending, the *)
(* clock not behind history). The entry-time bindings stay in use to the end.   *)
StartApply(w) ==
  \E caps \in (SUBSET Cap) \ {{}}, at \in led.clock..MaxClock :
  \E goal \in [caps -> Goals] :
    /\ "apply" \in Verbs
    /\ \A c \in caps : Plan(c, goal[c]) # {} /\ led.pending[c] = {}
    /\ (\A c \in caps : goal[c] = "deposed") \/ (\A c \in caps : goal[c] # "deposed")
    /\ StartRun(w, [ verb |-> "apply", pc |-> "lease", caps |-> caps, at |-> at, token |-> 0,
                     plan |-> UNION {Plan(c, goal[c]) : c \in caps},
                     todo |-> UNION {Plan(c, goal[c]) : c \in caps}, failed |-> {},
                     cur |-> NoRes, reply |-> NoRes,
                     pins |-> [c \in caps |-> led.decided[c]],
                     bound |-> [c \in caps |-> Bound(c)] ])

(* resume takes every pending receipt of the ledger it read, or none: a pending *)
(* claim is beyond it.                                                          *)
StartResume(w) ==
  LET caps == {c \in Cap : led.pending[c] # {}}
      todo == UNION {[cap : {c}, receipt : led.pending[c]] : c \in caps}
  IN  \E at \in led.clock..MaxClock :
        /\ "resume" \in Verbs
        /\ caps # {}
        /\ \A item \in todo : item.receipt.kind # "claim"
        /\ StartRun(w, [ verb |-> "resume", pc |-> "lease", caps |-> caps, at |-> at,
                         token |-> 0, todo |-> todo, cur |-> NoRes, verdict |-> "none" ])

(* adopt binds an existing resource nobody owns to an unbound capability. *)
StartAdopt(w) ==
  \E c \in Cap, id \in alive, at \in led.clock..MaxClock :
    /\ "adopt" \in Verbs
    /\ Bound(c) = NoRes
    /\ led.pending[c] = {}
    /\ id \notin BoundIds(led)
    /\ StartRun(w, [ verb |-> "adopt", pc |-> "lease", caps |-> {c}, at |-> at, token |-> 0,
                     to |-> [id |-> id, gen |-> 1, adopted |-> TRUE] ])

(* unadopt forgets a binding that adoption made. *)
StartUnadopt(w) ==
  \E c \in Cap, at \in led.clock..MaxClock :
    /\ "unadopt" \in Verbs
    /\ led.binding[c].adopted
    /\ led.pending[c] = {}
    /\ StartRun(w, [ verb |-> "unadopt", pc |-> "lease", caps |-> {c}, at |-> at, token |-> 0,
                     to |-> Unbound ])

LeaseEvent(w) ==
  [type |-> "lease.acquired", caps |-> worker[w].caps, at |-> worker[w].at, ttl |-> Ttl]

Tokenless(w, pc) == To(w, pc)               \* seeded fault: the token is dropped

Held(w, pc) == [To(w, pc) EXCEPT !.token = NewToken(led, worker[w].caps)]

(* Seeded fault: the receipts read before the lease are all concluded. *)
AsRead(w) == worker[w].todo

(* Of the receipts read before the lease, those still pending under it (D960). *)
StillPending(w) ==
  {item \in worker[w].todo : item.receipt.op \in {r.op : r \in led.pending[item.cap]}}

NeverStale(w) == FALSE                      \* seeded fault: no second look (before D42)

(* The decision heads moved between compile and lease (D42). *)
Stale(w) == \E c \in worker[w].caps : led.decided[c] # worker[w].pins[c]

(* The state a verb enters with its lease in hand. *)
UnderLease(w) ==
  CASE worker[w].verb = "apply" -> Held(w, IF Stale(w) THEN "release" ELSE "start")
    [] worker[w].verb = "resume" -> [Held(w, "ask") EXCEPT !.todo = StillPending(w)]
    [] OTHER -> Held(w, "bind")

TakeLease(w) ==
  /\ worker[w].verb # "idle" /\ worker[w].pc = "lease"
  /\ AppendOr(LeaseEvent(w), w, UnderLease(w), Idle)
  /\ UNCHANGED <<world, vain, runs>>

(* The last append of every verb; when it is refused the lease runs out. *)
Release(w) ==
  /\ worker[w].verb # "idle" /\ worker[w].pc = "release"
  /\ AppendOr(MarkEvent(w, "lease.released"), w, Idle, Idle)
  /\ UNCHANGED <<world, vain, runs>>

(* adopt and unadopt write one binding. *)
Rebind(w) ==
  /\ worker[w].verb \in {"adopt", "unadopt"} /\ worker[w].pc = "bind"
  /\ \E c \in worker[w].caps :
       AppendOr(BindingEvent(w, c, worker[w].to, {}, {}), w, To(w, "release"), To(w, "release"))
  /\ UNCHANGED <<world, vain, runs>>

----------------------------------------------------------------------------
(* apply under its lease. *)

ApplyStarted(w) ==
  /\ At(w, "apply", "start")
  /\ AppendOr(MarkEvent(w, "apply.started"), w, To(w, "act"), Idle)
  /\ UNCHANGED <<world, vain, runs>>

Onward(w) == [To(w, "act") EXCEPT !.cur = NoRes, !.reply = NoRes]

Waits(w, a) == \E b \in worker[w].todo : DependsOn(a, b)

NothingFailed(w, a) == FALSE                \* seeded fault: dependents run anyway

DepFailed(w, a) == \E b \in worker[w].failed : DependsOn(a, b)

Skip(w) ==
  /\ At(w, "apply", "act")
  /\ \E a \in worker[w].todo :
       /\ DepFailed(w, a)
       /\ Become(w, [worker[w] EXCEPT !.todo = @ \ {a}, !.failed = @ \cup {a}])
  /\ UNCHANGED <<led, world, vain, runs>>

(* An action that reads a producer's outputs may find them missing or unfit, and *)
(* is refused before its intent is written (D275).                               *)
RefuseFirst(w) ==
  /\ At(w, "apply", "act")
  /\ \E a \in worker[w].todo :
       /\ ~Waits(w, a) /\ ~DepFailed(w, a)
       /\ a.op = "create" /\ \E b \in worker[w].plan : <<b.cap, a.cap>> \in Feeds
       /\ Become(w, [worker[w] EXCEPT !.todo = @ \ {a}, !.failed = @ \cup {a}])
  /\ UNCHANGED <<led, world, vain, runs>>

(* The pending receipt lands before the call. *)
WriteIntent(w) ==
  /\ At(w, "apply", "act")
  /\ \E a \in worker[w].todo :
       /\ ~Waits(w, a) /\ ~DepFailed(w, a)
       /\ AppendOr(ReceiptEvent(w, a.cap, "pending", ReceiptOf(a, FALSE, NoRes)), w,
                   [To(w, "call") EXCEPT !.cur = a, !.todo = @ \ {a}], Idle)
  /\ UNCHANGED <<world, vain, runs>>

(* A create finds its own name, or whatever carries the capability's tags. *)
Answers(a) ==
  {a.id} \cup IF a.op = "create" /\ TagScan
              THEN {id \in alive \ Foreign : id[1] = a.cap} ELSE {}

(* May the provider carry the call out?  Deleting what is gone succeeds. *)
Possible(a) ==
  CASE a.op = "create" -> TRUE
    [] a.op = "delete" -> Ours(a.id) \/ a.id \notin alive
    [] a.op = "update" -> Ours(a.id) /\ a.id \in alive
    [] a.op = "claim" -> a.id \in alive

Aliased(a, id, status) == status            \* seeded fault: before D723

(* A replacement that comes back as the identity it replaces created nothing. *)
Judged(a, id, status) ==
  IF status = "succeeded" /\ a.op = "create" /\ a.old # NoRes /\ id = a.old
  THEN "failed" ELSE status

(* What is heard of a call. One that landed is confirmed or lost, or its operation *)
(* ends in an error and leaves the resource standing half made; one that did not   *)
(* land fails, is throttled or is lost.                                            *)
Reports(a, landed) ==
  IF landed
  THEN {"succeeded", "unknown"} \cup IF a.op = "delete" /\ ~Halfway THEN {} ELSE {"failed"}
  ELSE {"failed", "retryable", "unknown"}

CallProvider(w) ==
  LET a == worker[w].cur IN
  /\ At(w, "apply", "call")
  /\ \E landed \in BOOLEAN, id \in Answers(a) :
     \E status \in Reports(a, landed) :
       /\ landed => Possible(a)
       /\ alive' = CASE landed /\ a.op = "create" -> alive \cup {id}
                     [] landed /\ a.op = "delete" -> alive \ {id}
                     [] OTHER -> alive
       /\ stamped' = IF landed /\ a.op = "claim" THEN stamped \cup ({id} \cap Foreign) ELSE stamped
       /\ Become(w, [To(w, "settle") EXCEPT !.reply = [status |-> Judged(a, id, status),
                                                       id |-> id]])
  /\ UNCHANGED <<led, vain, runs>>

(* The name a failed create leaves on the line that concludes it. *)
FailedCreate(w) ==
  LET a == worker[w].cur IN
  IF a.op = "create" /\ worker[w].reply.status = "failed" THEN {a.id} ELSE {}

(* Any outcome but success is concluded by its receipt alone; an unknown one stays *)
(* open, with the identity it may have left behind (D57).                          *)
SettleFailure(w) ==
  LET a == worker[w].cur
      status == worker[w].reply.status
      e == ReceiptEvent(w, a.cap, status,
             IF status = "unknown" THEN ReceiptOf(a, TRUE, worker[w].reply.id)
             ELSE ReceiptOf(a, FALSE, NoRes))
  IN  /\ At(w, "apply", "settle")
      /\ status # "succeeded"
      /\ AppendOr(e, w, [Onward(w) EXCEPT !.failed = @ \cup {a}], Idle)
      /\ vain' = IF Admits(e) THEN vain \cup FailedCreate(w) ELSE vain
      /\ UNCHANGED <<world, runs>>

(* The binding after a successful action, on the fresh projection (D67). *)
BindingOf(w, a) ==
  LET cur == led.binding[a.cap] IN
  IF a.op = "delete"
  THEN IF cur.id \in {NoRes, a.id} THEN Unbound ELSE cur
  ELSE [ id |-> worker[w].reply.id, adopted |-> FALSE,
         gen |-> IF a.gen >= 1 THEN a.gen ELSE IF cur.id = NoRes THEN 1 ELSE cur.gen + 1 ]

(* Success is written down before the intent is closed (D180): the stamp of a *)
(* claim, or the whole binding.                                               *)
Written(w) ==
  LET a == worker[w].cur IN
  IF a.op = "claim"
  THEN [type |-> "ownership.claimed", caps |-> {a.cap}, at |-> worker[w].at]
  ELSE BindingEvent(w, a.cap, BindingOf(w, a), {a.old} \ {NoRes},
                    IF a.op = "delete" THEN {a.id} ELSE {})

(* What a create brought home, whatever an earlier attempt left of it. *)
Healed(w) == IF worker[w].cur.op = "create" THEN {worker[w].reply.id} ELSE {}

SettleSuccess(w) ==
  /\ At(w, "apply", "settle")
  /\ worker[w].reply.status = "succeeded"
  /\ AppendOr(Written(w), w, To(w, "conclude"), Idle)
  /\ vain' = IF Admits(Written(w)) THEN vain \ Healed(w) ELSE vain
  /\ UNCHANGED <<world, runs>>

Conclude(w) ==
  /\ At(w, "apply", "conclude")
  /\ AppendOr(ReceiptEvent(w, worker[w].cur.cap, "succeeded",
                           ReceiptOf(worker[w].cur, FALSE, NoRes)),
              w, Onward(w), Idle)
  /\ UNCHANGED <<world, vain, runs>>

(* One marker for the whole run, when every action was run or skipped. *)
Finish(w) ==
  /\ At(w, "apply", "act")
  /\ worker[w].todo = {}
  /\ AppendOr(MarkEvent(w, IF worker[w].failed = {} THEN "apply.finished" ELSE "apply.failed"),
              w, To(w, "release"), Idle)
  /\ UNCHANGED <<world, vain, runs>>

----------------------------------------------------------------------------
(* resume under its lease. *)

(* Seeded fault: a delete is believed without a look. *)
TrustDelete(c, receipt) ==
  IF receipt.kind = "delete" THEN {"succeeded"}
  ELSE IF Sought(c, receipt) \in alive THEN {"unknown", "succeeded"} ELSE {"unknown"}

(* What a read-only reconciler may conclude.  A create is taken for failed when its *)
(* operation is on record as failed, its resource stands in a failed state or none  *)
(* is found; where the provider keeps operations their error is believed before any *)
(* resource is read, whatever was asked.  Else absence proves a delete, presence a  *)
(* create, a target that exists refutes a delete, and the rest is unknown.          *)
Verdicts(c, receipt) ==
  LET id == Sought(c, receipt)
      erred == IF receipt.called THEN {"failed"} ELSE {}
  IN  {"unknown"} \cup
      CASE receipt.kind = "create" ->
             {"failed"} \cup IF id \in alive THEN {"succeeded"} ELSE {}
        [] receipt.kind = "delete" ->
             IF id \in alive THEN {"failed"}
             ELSE {"succeeded"} \cup IF Halfway THEN erred ELSE {}
        [] receipt.kind = "update" ->
             erred \cup IF id \notin alive THEN {}
                        ELSE {IF Ours(id) THEN "succeeded" ELSE "failed"}

(* One receipt at a time; an outcome still unknown stays pending. *)
Ask(w) ==
  /\ At(w, "resume", "ask")
  /\ \E item \in worker[w].todo, verdict \in {"unknown", "succeeded", "failed"} :
       /\ verdict \in Verdicts(item.cap, item.receipt)
       /\ Become(w, IF verdict = "unknown"
                    THEN [worker[w] EXCEPT !.todo = @ \ {item}]
                    ELSE [To(w, "settle") EXCEPT !.todo = @ \ {item}, !.cur = item,
                                                 !.verdict = verdict])
  /\ UNCHANGED <<led, world, vain, runs>>

(* Resume's item under way: its capability, receipt and identity. *)
CapOf(w) == worker[w].cur.cap
ItemOf(w) == worker[w].cur.receipt
TargetOf(w) == Sought(CapOf(w), ItemOf(w))
Answered(w) == [To(w, "ask") EXCEPT !.cur = NoRes, !.verdict = "none"]

ReboundNever(w) == FALSE                    \* seeded fault: the guard left out

(* The capability was bound elsewhere while the operation hung. *)
Rebound(w) ==
  LET cur == Bound(CapOf(w)) IN
  CASE ItemOf(w).kind = "create" -> cur # NoRes /\ cur # TargetOf(w)
    [] ItemOf(w).kind = "update" -> cur # TargetOf(w)
    [] ItemOf(w).kind = "delete" -> FALSE

Completes(w) == worker[w].verdict = "succeeded" /\ ~Rebound(w)

(* The name of a create, in vain until it is bound: one that failed may have left  *)
(* its resource standing (D736), one for a capability bound elsewhere has.         *)
InVain(w) == IF ItemOf(w).kind = "create" THEN {TargetOf(w)} ELSE {}

(* Nothing to project: the receipt is closed, and the line that closes a create    *)
(* names what it may have left behind.                                             *)
CloseOnly(w) ==
  /\ At(w, "resume", "settle")
  /\ ~Completes(w)
  /\ LET e == ReceiptEvent(w, CapOf(w), worker[w].verdict, ItemOf(w)) IN
     /\ AppendOr(e, w, Answered(w), Stopped(w))
     /\ vain' = IF Admits(e) THEN vain \cup InVain(w) ELSE vain
  /\ UNCHANGED <<world, runs>>

(* Seeded fault: a concluded delete leaves the binding alone. *)
BindingKept(w) ==
  IF ItemOf(w).kind = "delete" THEN led.binding[CapOf(w)]
  ELSE [id |-> TargetOf(w), gen |-> led.binding[CapOf(w)].gen + 1, adopted |-> FALSE]

(* The binding of a concluded operation, on the fresh projection (F3, D67). *)
ProjectionOf(w) ==
  LET cur == led.binding[CapOf(w)] IN
  CASE ItemOf(w).kind = "create" ->
         [id |-> TargetOf(w), gen |-> ItemOf(w).gen, adopted |-> FALSE]
    [] ItemOf(w).kind = "update" ->
         [id |-> TargetOf(w), gen |-> IF cur.gen >= 1 THEN cur.gen + 1 ELSE 2, adopted |-> FALSE]
    [] ItemOf(w).kind = "delete" -> IF cur.id = TargetOf(w) THEN Unbound ELSE cur

Project(w) ==
  LET e == BindingEvent(w, CapOf(w), ProjectionOf(w), {},
                        IF ItemOf(w).kind = "delete" THEN {TargetOf(w)} ELSE {})
  IN  /\ At(w, "resume", "settle")
      /\ Completes(w)
      /\ AppendOr(e, w, To(w, "conclude"), Stopped(w))
      /\ vain' = IF Admits(e) THEN vain \ InVain(w) ELSE vain
      /\ UNCHANGED <<world, runs>>

Close(w) ==
  /\ At(w, "resume", "conclude")
  /\ AppendOr(ReceiptEvent(w, CapOf(w), "succeeded", ItemOf(w)), w, Answered(w), Stopped(w))
  /\ UNCHANGED <<world, vain, runs>>

AllAsked(w) ==
  /\ At(w, "resume", "ask")
  /\ worker[w].todo = {}
  /\ Become(w, To(w, "release"))
  /\ UNCHANGED <<led, world, vain, runs>>

----------------------------------------------------------------------------
(* The surroundings. *)

Crash(w) ==
  /\ worker[w] # Idle
  /\ Become(w, Idle)
  /\ UNCHANGED <<led, world, vain, runs>>

(* Lease-free writers (observe, audit, publish) move the clock of the file. *)
Observe ==
  \E c \in Cap, at \in led.clock+1 .. MaxClock :
    /\ "observe" \in Verbs
    /\ led' = Step(led, [type |-> "observation.recorded", caps |-> {c}, at |-> at], at)
    /\ UNCHANGED <<worker, world, vain, runs>>

(* Somebody deletes a resource by hand. *)
Lose ==
  \E id \in alive :
    /\ Vanish
    /\ alive' = alive \ {id}
    /\ UNCHANGED <<led, worker, stamped, vain, runs>>

RunStep(w) ==
  \/ StartApply(w) \/ StartResume(w) \/ StartAdopt(w) \/ StartUnadopt(w)
  \/ TakeLease(w) \/ Release(w) \/ Rebind(w)
  \/ ApplyStarted(w) \/ Skip(w) \/ RefuseFirst(w) \/ WriteIntent(w) \/ CallProvider(w)
  \/ SettleFailure(w) \/ SettleSuccess(w) \/ Conclude(w) \/ Finish(w)
  \/ Ask(w) \/ CloseOnly(w) \/ Project(w) \/ Close(w) \/ AllAsked(w)
  \/ Crash(w)

Next == (\E w \in Worker : RunStep(w)) \/ Observe \/ Lose

Spec == Init /\ [][Next]_vars

----------------------------------------------------------------------------
(* Properties. *)

Ids == Foreign \cup (Cap \X Nat)

(* The processes and the world keep their types: every identity the fold binds  *)
(* or remembers is one the provider can have, and only a run that holds a lease *)
(* works on actions or receipts (the Writer of ledger/replay.go).               *)
TypeOK ==
  /\ led.clock \in 0..MaxClock
  /\ \A c \in Cap :
       /\ led.binding[c] \in [id : Ids \cup {NoRes}, gen : Nat, adopted : BOOLEAN]
       /\ led.replaced[c] \cup led.tombstoned[c] \subseteq Ids
       /\ \A r \in led.pending[c] :
            /\ r.kind \in {"create", "update", "delete", "claim"}
            /\ Sought(c, r) \in Ids \cup {NoRes}
  /\ alive \subseteq Ids /\ stamped \subseteq Foreign /\ vain \subseteq Ids
  /\ \A w \in Worker : worker[w] # Idle =>
       /\ worker[w].verb \in {"apply", "resume", "adopt", "unadopt"}
       /\ worker[w].caps \in (SUBSET Cap) \ {{}}
       /\ worker[w].at \in 0..MaxClock
       /\ worker[w].pc \in {"lease", "start", "act", "call", "settle", "conclude",
                            "ask", "bind", "release"}
       /\ worker[w].token = 0 <=> worker[w].pc = "lease"

Pending(c) == {Sought(c, r) : r \in led.pending[c]}
OnRecord(id) == \E c \in Cap : Bound(c) = id \/ id \in Pending(c)

(* No resource groundhold created is ever out of sight: it is bound, listed as    *)
(* deposed, the subject of an open intent, or of the line that last concluded its  *)
(* create without binding it. This is what the write-ahead receipt (D29), its late *)
(* conclusion (D180), the lineage (D58) and resume (D57) are for, whatever is lost *)
(* or crashes in between.                                                          *)
OrphanVisible ==
  \A id \in alive \ Foreign :
    OnRecord(id) \/ id \in vain \/ \E c \in Cap : id \in DeposedAll(led, c)

(* The same without the tombstones: a living creation that is neither bound nor   *)
(* pending was replaced, as the history accumulates it (accumulateLineage), or the *)
(* last line about its create concluded it as failed, or for a capability bound    *)
(* elsewhere. A failed conclusion does not say that nothing stands (D736, and the  *)
(* reconcilers that believe an operation's error before they look).                *)
OrphanRecorded ==
  \A id \in alive \ Foreign :
    OnRecord(id) \/ id \in vain \/ \E c \in Cap : id \in led.replaced[c]

(* A binding is never left pointing at nothing: while no process is suspended     *)
(* inside a call, a bound resource that does not exist has an open intent naming  *)
(* it, because the call, the projection and the conclusion of a delete come in an *)
(* order no crash can break (D180) and resume finishes what was cut. It is so as  *)
(* long as no delete is reported as failed after its work is done (~Halfway):     *)
(* such a report closes the intent and keeps the binding.                         *)
BoundIsReal == \A c \in Cap : Bound(c) \in alive \cup Pending(c) \cup {NoRes}

(* A call is made on what the ledger already says, never on an action's word:     *)
(* when an action reaches the provider, the stamp or the binding of every action  *)
(* it depends on is on record. A failed producer feeds no consumer, and a         *)
(* predecessor dies only after its successor is bound (depFailed, D1055).         *)
DependenciesMet ==
  \A w \in Worker : At(w, "apply", "call") =>
    \A b \in worker[w].plan : DependsOn(worker[w].cur, b) =>
      CASE b.op = "create" -> Bound(b.cap) = b.id
        [] b.op = "claim" -> b.cap \in led.claimed
        [] OTHER -> FALSE

(* Authorship is never assumed: a capability recorded as claimed is bound to a    *)
(* resource that groundhold made or stamped, through any adoptions, releases,     *)
(* re-adoptions and lost claims (D52, D140, D192).                                *)
ClaimsAreTrue ==
  \A c \in led.claimed : Bound(c) = NoRes \/ Ours(Bound(c))

(* No lost update: an apply overwrites only the binding its plan was compiled on, *)
(* or its own successor, however its run interleaved with the others (the         *)
(* decision-heads check, its repetition under the lease, and fencing).            *)
NoLostUpdate ==
  [][\A w \in Worker :
       LET a == worker[w].cur IN
       At(w, "apply", "settle") /\ worker'[w] = To(w, "conclude") /\ a.op # "claim" =>
         \/ Bound(a.cap) = worker[w].bound[a.cap]
         \/ \E b \in worker[w].plan : DependsOn(a, b) /\ Bound(a.cap) = b.id]_vars

(* Receipts and stamps show no token, so no lease is asked of whoever appends     *)
(* them; yet a run writes nothing, not even these, once another has taken a lease *)
(* over one of its capabilities: its clock is that of its start, a takeover comes *)
(* at or past the end of its lease, and history is never written behind (D56).    *)
SilentWhenOutbid ==
  [][\A w \in Worker :
       worker[w] # Idle /\ worker[w].pc # "lease" /\ worker'[w] # worker[w] /\ led' # led =>
         \A c \in worker[w].caps :
           ~led.lease[c].ended /\ led.lease[c].token = worker[w].token]_vars

(* History buries only the dead: an identity is tombstoned when it does not exist *)
(* (apply's delete branch and resume's, which concludes from a read).             *)
TombstonesTrue ==
  [][\A c \in Cap : (led'.tombstoned[c] \ led.tombstoned[c]) \cap alive = {}]_vars

(* A replacement never destroys what it left bound: no run that creates for a     *)
(* capability empties its binding (D723, enforceReplaceOrdering).                 *)
ReplacementKeepsOne ==
  [][\A w \in Worker : At(w, "apply", "settle") /\ worker'[w] # worker[w] =>
       \A b \in worker[w].plan :
         b.op = "create" /\ Bound(b.cap) # NoRes => led'.binding[b.cap].id # NoRes]_vars

(* Generations identify what a later plan pins: the recorded generation of one    *)
(* and the same bound resource never goes back (D46, D960).                       *)
GenerationKept ==
  [][\A c \in Cap :
       Bound(c) # NoRes /\ led'.binding[c].id = Bound(c)
         => led'.binding[c].gen >= led.binding[c].gen]_vars
==============================================================================

------------------------------- MODULE Converge -------------------------------
(***************************************************************************)
(* converge: the verb that verifies, plans, asks for consent, applies,     *)
(* observes and only then says what the world is like.  It runs its phases *)
(* as child processes and decides from their exit codes, so between two    *)
(* phases the ledger and the world may change under it: another converge,  *)
(* an observe, a resume, a drift.                                          *)
(*                                                                         *)
(* A capability is abstracted to what the compiler would do about it.  The *)
(* apply child is two steps, begin (lease, read-set, pending receipts) and *)
(* end (which actions landed); module Executor has its inside, with the    *)
(* lease that lapses under a live apply.  Run status is the fold of the    *)
(* markers a run leaves in the ledger.                                     *)
(***************************************************************************)
EXTENDS Naturals, FiniteSets

CONSTANTS
    Caps,           \* capabilities of the contract
    Retired,        \* those the candidate retires
    Opaque,         \* those with an attribute no driver can observe
    Hard,           \* those with a hard constraint, which exposure violates
    Runs,           \* invocations that differ in contract, candidate, clock
                    \* or project
    Drifts,         \* what a resource may be like behind the ledger's back
    MaxApplyRetries,\* 4 in the code
    MaxOutside,     \* bound: faults and steps of other actors
    Nobody          \* no plan in the file

Live == Caps \ Retired

\* What closing the gap between candidate and resource takes.
Kinds == {"absent", "match", "update", "expose", "blocked"}

ASSUME ConvergeAssumption ==
    /\ Retired \subseteq Caps /\ Opaque \subseteq Live /\ Hard \subseteq Live
    /\ Drifts \subseteq Kinds \ {"absent"}
    /\ MaxApplyRetries \in Nat /\ MaxOutside \in Nat
    /\ Nobody \notin Runs

VARIABLES
    real,       \* what each resource is
    known,      \* what the ledger says of it: "absent" when it has no
                \* binding, "none" when bound and not observed
    pending,    \* capabilities with a receipt whose outcome is unknown
    head,       \* decision heads, as versions
    planFile,   \* the plan files, by path
    run,        \* what each invocation is doing
    marks,      \* fold of the run markers in the ledger, by handle
    outside     \* faults and steps of other actors so far

vars == <<real, known, pending, head, planFile, run, marks, outside>>
world == <<real, known, pending, head>>

------------------------------------------------------------------------------
(* Handles, plan files and the fold of a run's markers.                    *)

\* Mutant of RunID: the candidate is not part of a run's identity.
ContractOnly(r) == <<"converge">>

\* A hash of contract, candidate, clock and project. Invocations that agree on
\* these, a repeated one or one with another ledger, provider or region, share
\* it and the plan path; Runs holds no two of them.
RunID(r) == <<"converge", r>>

\* The handle the apply child writes under, in its lease event too.
ApplyID(r) == <<"apply", r>>

Handles == {RunID(r) : r \in Runs} \cup {ApplyID(r) : r \in Runs}

\* Mutant of planPathFor: one file for the directory.
OnePath(r) == <<"converge">>

planPathFor(r) == RunID(r)

Running == 9    \* no exit code yet

Unmarked == [started |-> FALSE, exit |-> Running, lease |-> FALSE,
             pending |-> FALSE]

\* DeriveRunStatus: the last terminal marker, else the lease of the handle.
DeriveRunStatus(h) ==
    CASE ~marks[h].started      -> "unknown"
      [] marks[h].started /\ marks[h].exit = 0 -> "done"
      [] marks[h].started /\ marks[h].exit \in 1..5 -> "failed"
      [] marks[h].started /\ marks[h].exit = Running ->
             CASE marks[h].lease                       -> "running"
               [] ~marks[h].lease /\ marks[h].pending  -> "needs-reconcile"
               [] ~marks[h].lease /\ ~marks[h].pending -> "stalled"

\* runWait: the exit code wait returns for a handle, or it polls on.
runWait(h) ==
    CASE DeriveRunStatus(h) \in {"done", "failed"} -> marks[h].exit
      [] DeriveRunStatus(h) \in {"stalled", "needs-reconcile"} -> 3
      [] DeriveRunStatus(h) \in {"unknown", "running"} -> Running

------------------------------------------------------------------------------
(* The children.                                                           *)

\* plan: actions for what differs, deletes for what is retired and bound; a
\* capability it cannot reconcile is held back, one it cannot see completely
\* is carried as unverified.
Acts == {c \in Live : known[c] \in {"absent", "update", "expose"}}
            \cup {c \in Retired : known[c] # "absent"}
Held == {c \in Live : known[c] = "blocked"}
Unseen == {c \in Opaque : known[c] \in {"match", "update", "expose"}}

ObservationRequired == \E c \in Live : known[c] = "none"
NothingToChange == Acts = {} /\ Held = {} /\ Unseen = {}

NoPlan == [by |-> Nobody, acts |-> {}, heads |-> <<>>]

SealedPlan(r) == [by |-> r, acts |-> Acts, heads |-> [c \in Acts |-> head[c]]]

\* observe --record: every bound resource it could read.
Observed(read) ==
    known' = [c \in Caps |-> IF c \in read /\ known[c] # "absent"
                             THEN real[c] ELSE known[c]]

\* audit: a recorded observation witnesses every hard constraint.
AuditClean == \A c \in Hard :
                  c \notin Opaque /\ known[c] \in {"match", "update", "blocked"}

------------------------------------------------------------------------------
(* The invocation.                                                         *)

\* The last field is history: receipts this run found unresolved and nobody
\* has concluded since.
Ready == [pc |-> "idle", observed |-> FALSE, held |-> {}, using |-> NoPlan,
          attempt |-> 0, then |-> "none", exit |-> Running,
          status |-> "none", debt |-> {}]

At(r, pc) == run[r].pc = pc
Goto(r, pc) == run' = [run EXCEPT ![r].pc = pc]
Over(r) == run[r].pc \in {"done", "dead"}

\* What is left of an invocation once its process is gone; the plan of an
\* apply that was killed, for its lease.
Remains(r, pc, exit, status) ==
    [Ready EXCEPT !.pc = pc, !.exit = exit, !.status = status,
                  !.held = run[r].held, !.debt = run[r].debt,
                  !.using = IF marks[ApplyID(r)].lease THEN run[r].using ELSE NoPlan]

\* One more fault, or step of another actor.
Outside == outside < MaxOutside /\ outside' = outside + 1

\* A marker of the run, which is best effort.
Marked(new) ==
    \/ marks' = new /\ UNCHANGED outside
    \/ UNCHANGED marks /\ Outside

\* converge.finished or converge.failed.
Concluded(r, code) == [marks EXCEPT ![RunID(r)].exit = code]

\* finish: the one exit of a run.
Finish(r, code, status) ==
    /\ run' = [run EXCEPT ![r] = Remains(r, "done", code, status)]
    /\ Marked(Concluded(r, code))

\* converge.started, best effort too.
Begin(r) ==
    /\ At(r, "idle")
    /\ run' = [run EXCEPT ![r].pc = "verify", ![r].debt = pending]
    /\ Marked([marks EXCEPT ![RunID(r)].started = TRUE])
    /\ UNCHANGED <<world, planFile>>

Verify(r) ==
    /\ At(r, "verify")
    /\ \/ Goto(r, "plan") /\ UNCHANGED <<marks, outside>>
       \/ Finish(r, 2, "refused")
    /\ UNCHANGED <<world, planFile>>

\* Mutant of RefreshOnce: refreshes as long as the plan asks for it.
RefreshAlways(r) == TRUE

\* One refresh of stale observations, then the answer stands.
RefreshOnce(r) == ~run[r].observed

\* On to the gates of a green verdict: the plan found nothing to change, the
\* apply had nothing to do, or it has done it.
ToGates(r, then) ==
    run' = [run EXCEPT ![r] = [Ready EXCEPT !.pc = "pending", !.then = then,
                                   !.held = run[r].held, !.debt = run[r].debt]]

Plan(r) ==
    /\ At(r, "plan")
    /\ \/ /\ ObservationRequired /\ RefreshOnce(r)
          /\ run' = [run EXCEPT ![r].pc = "refresh", ![r].observed = TRUE]
          /\ UNCHANGED <<planFile, marks, outside>>
       \/ /\ ObservationRequired /\ ~RefreshOnce(r)
          /\ Finish(r, 2, "refused") /\ UNCHANGED planFile
       \/ /\ ~ObservationRequired /\ NothingToChange
          /\ ToGates(r, "matched")
          /\ UNCHANGED <<planFile, marks, outside>>
       \/ /\ ~ObservationRequired /\ ~NothingToChange
          /\ run' = [run EXCEPT ![r].pc = "confirm", ![r].held = Held,
                                ![r].using = SealedPlan(r)]
          /\ planFile' = [planFile EXCEPT ![planPathFor(r)] = SealedPlan(r)]
          /\ UNCHANGED <<marks, outside>>
    /\ UNCHANGED world

Refresh(r) ==
    /\ At(r, "refresh")
    /\ \/ \E read \in SUBSET Caps : Observed(read) /\ Goto(r, "plan")
                                        /\ UNCHANGED <<marks, outside>>
       \/ Finish(r, 2, "refused") /\ UNCHANGED known
    /\ UNCHANGED <<real, pending, head, planFile>>

\* Consent, by flag or at the prompt, to the plan it printed and to each of its
\* risks (deletion, exposure); without it the run refuses.
Confirm(r) ==
    /\ At(r, "confirm")
    /\ \/ Goto(r, "apply") /\ UNCHANGED <<marks, outside>>
       \/ Finish(r, 2, "refused")
    /\ UNCHANGED <<world, planFile>>

------------------------------------------------------------------------------
(* The apply phase.                                                        *)

Leased(r) == {c \in run[r].using.acts : marks[ApplyID(r)].lease}

\* A pending receipt in the write-set, a moved head, a lease of another run.
Conflict(r, plan) ==
    \/ plan.acts \cap pending # {}
    \/ \E c \in plan.acts : plan.heads[c] # head[c]
    \/ \E o \in Runs \ {r} : Leased(o) \cap plan.acts # {}

\* The apply child takes its plan from the file.
ApplyBegins(r) ==
    /\ At(r, "apply")
    /\ LET plan == planFile[planPathFor(r)] IN
       \/ /\ plan.acts = {}
          /\ ToGates(r, "nothing") /\ UNCHANGED <<marks, outside>>
       \/ /\ plan.acts # {} /\ Conflict(r, plan)
          /\ Finish(r, 3, "stale-or-conflict")
       \/ /\ plan.acts # {} /\ ~Conflict(r, plan)
          /\ run' = [run EXCEPT ![r].pc = "applying", ![r].using = plan]
          /\ marks' = [marks EXCEPT ![ApplyID(r)] =
                          [Unmarked EXCEPT !.started = TRUE, !.lease = TRUE]]
          /\ UNCHANGED outside
    /\ UNCHANGED <<world, planFile>>

\* The actions of done landed; those of lost ended in an unknown outcome, and
\* any of them may have landed.
Landed(r, done, lost) ==
    /\ \E hit \in SUBSET lost :
           real' = [c \in Caps |->
                       CASE c \in done \cup hit /\ c \in Live -> "match"
                         [] c \in done \cup hit /\ c \in Retired -> "absent"
                         [] OTHER -> real[c]]
    /\ known' = [c \in Caps |->
                    CASE c \in done /\ c \in Retired -> "absent"
                      [] c \in done /\ c \in Live /\ known[c] = "absent" -> "none"
                      [] OTHER -> known[c]]
    /\ pending' = pending \cup lost
    /\ head' = [c \in Caps |-> IF c \in run[r].using.acts THEN head[c] + 1
                               ELSE head[c]]

\* Mutant of Applied: the lease is not given back.
LeaseKept(r, exit, lost) ==
    [marks[ApplyID(r)] EXCEPT !.exit = exit, !.pending = lost # {}]

\* What the apply child leaves under its handle.
Applied(r, exit, lost) ==
    [marks[ApplyID(r)] EXCEPT !.exit = exit, !.lease = FALSE,
                              !.pending = lost # {}]

\* The child concluded: everything landed; or some was throttled and a retry
\* is left; or something failed, is unknown, or was throttled once too often.
ApplyEnds(r) ==
    /\ At(r, "applying")
    /\ \E done \in SUBSET run[r].using.acts :
           LET left == run[r].using.acts \ done IN
           \/ /\ left = {}
              /\ Landed(r, done, {})
              /\ marks' = [marks EXCEPT ![ApplyID(r)] = Applied(r, 0, {})]
              /\ Goto(r, "observe")
           \/ /\ left # {} /\ run[r].attempt < MaxApplyRetries
              /\ Landed(r, done, {})
              /\ marks' = [marks EXCEPT ![ApplyID(r)] = Applied(r, 4, {})]
              /\ run' = [run EXCEPT ![r].pc = "replan", ![r].attempt = @ + 1]
           \/ /\ left # {}
              /\ \E lost \in SUBSET left :
                     /\ Landed(r, done, lost)
                     /\ marks' = [marks EXCEPT ![ApplyID(r)] = Applied(r, 4, lost)]
              /\ Goto(r, "report")
    /\ UNCHANGED <<planFile, outside>>

\* The exit code of an apply that did not succeed passes through.
Report(r) ==
    /\ At(r, "report")
    /\ Finish(r, 4, "failed")
    /\ UNCHANGED <<world, planFile>>

\* After the backoff: plan again on the current heads, then apply again.
Replan(r) ==
    /\ At(r, "replan")
    /\ \/ /\ ObservationRequired
          /\ Finish(r, 2, "refused") /\ UNCHANGED planFile
       \/ /\ ~ObservationRequired /\ NothingToChange
          /\ ToGates(r, "nothing")
          /\ UNCHANGED <<planFile, marks, outside>>
       \/ /\ ~ObservationRequired /\ ~NothingToChange
          /\ planFile' = [planFile EXCEPT ![planPathFor(r)] = SealedPlan(r)]
          /\ Goto(r, "apply") /\ UNCHANGED <<marks, outside>>
    /\ UNCHANGED world

------------------------------------------------------------------------------
(* After the apply, and the gates every green verdict passes.              *)

\* Post-apply observe, best effort; held capabilities refuse the green.
Observe(r) ==
    /\ At(r, "observe")
    /\ \/ \E read \in SUBSET Caps : Observed(read)
       \/ UNCHANGED known
    /\ \/ /\ run[r].held # {}
          /\ Finish(r, 2, "applied")
       \/ /\ run[r].held = {}
          /\ ToGates(r, "applied") /\ UNCHANGED <<marks, outside>>
    /\ UNCHANGED <<real, pending, head, planFile>>

\* Mutant of pendingBlocker: only what the plan writes is looked at.
PlannedOnly == pending \cap Acts

\* Receipts of the contract's capabilities, planned or not. The replay this
\* read makes is taken to succeed: the code finds no blocker when it fails.
pendingBlocker == pending \cap Caps

refuseIfPending(r) ==
    /\ At(r, "pending")
    /\ \/ /\ pendingBlocker # {}
          /\ Finish(r, 3, "refused")
       \/ /\ pendingBlocker = {}
          /\ Goto(r, "witness") /\ UNCHANGED <<marks, outside>>
    /\ UNCHANGED <<world, planFile>>

\* The audit child; a public edge that does not answer spoils an apply.
witnessReality(r) ==
    /\ At(r, "witness")
    /\ \/ /\ ~AuditClean
          /\ Finish(r, 2, IF run[r].then = "matched" THEN "refused"
                          ELSE "applied")
       \/ /\ AuditClean /\ run[r].then # "applied"
          /\ Finish(r, 0, "converged")
       \/ /\ AuditClean /\ run[r].then = "applied"
          /\ \E code \in {0, 2} : Finish(r, code, "applied")
    /\ UNCHANGED <<world, planFile>>

\* exitStatus of a child that broke: what converge reports for it.
exitStatus ==
    [verify  |-> {<<2, "refused">>},
     plan    |-> {<<2, "refused">>, <<4, "failed">>, <<5, "corrupted">>},
     replan  |-> {<<2, "refused">>, <<4, "failed">>, <<5, "corrupted">>},
     apply   |-> {<<2, "refused">>, <<4, "failed">>, <<5, "corrupted">>},
     witness |-> {<<2, "applied">>, <<5, "corrupted">>}]

ChildBreaks(r) ==
    /\ run[r].pc \in DOMAIN exitStatus
    /\ \E e \in exitStatus[run[r].pc] :
           run' = [run EXCEPT ![r] = Remains(r, "done", e[1], e[2])]
    /\ marks' = Concluded(r, run'[r].exit) /\ Outside
    /\ UNCHANGED <<world, planFile>>

------------------------------------------------------------------------------
(* Faults and the other actors.                                            *)

\* What an apply child that is killed leaves: its lease, and at most one
\* receipt of a call in flight.
Abandoned(r) ==
    \E done \in SUBSET run[r].using.acts :
    \E lost \in {{}} \cup {{c} : c \in run[r].using.acts \ done} :
        /\ Landed(r, done, lost)
        /\ marks' = [marks EXCEPT ![ApplyID(r)].pending = lost # {}]

\* The run is killed, and its child with it.
Kill(r) ==
    /\ ~At(r, "idle") /\ ~Over(r)
    /\ Outside
    /\ run' = [run EXCEPT ![r] = Remains(r, "dead", Running, "none")]
    /\ \/ ~At(r, "applying") /\ UNCHANGED <<world, marks>>
       \/ At(r, "applying") /\ Abandoned(r)
    /\ UNCHANGED planFile

\* Only the apply child is killed: its exit code is no verdict, and converge
\* does not call it a refusal.
KillChild(r) ==
    /\ At(r, "applying")
    /\ Outside
    /\ Goto(r, "report")
    /\ Abandoned(r)
    /\ UNCHANGED planFile

\* The lease of a killed apply expires.
Lapse(r) ==
    /\ Over(r) /\ marks[ApplyID(r)].lease
    /\ marks' = [marks EXCEPT ![ApplyID(r)].lease = FALSE]
    /\ run' = [run EXCEPT ![r].using = NoPlan]
    /\ UNCHANGED <<world, planFile, outside>>

Drift(c, kind) ==
    /\ known[c] # "absent" /\ real[c] # kind
    /\ real' = [real EXCEPT ![c] = kind]
    /\ Outside
    /\ UNCHANGED <<known, pending, head, planFile, run, marks>>

OtherObserve ==
    /\ Observed(Caps) /\ known' # known
    /\ Outside
    /\ UNCHANGED <<real, pending, head, planFile, run, marks>>

\* resume concludes a receipt from what the provider has, and binds a create
\* or unbinds a delete that landed.
OtherResume(c) ==
    /\ c \in pending
    /\ \A r \in Runs : c \notin Leased(r)
    /\ pending' = pending \ {c}
    /\ head' = [head EXCEPT ![c] = @ + 1]
    /\ known' = [known EXCEPT ![c] =
                    CASE real[c] = "absent" -> "absent"
                      [] real[c] # "absent" /\ @ = "absent" -> "none"
                      [] OTHER -> @]
    /\ run' = [r \in Runs |-> [run[r] EXCEPT !.debt = @ \ {c}]]
    /\ Outside
    /\ UNCHANGED <<real, planFile, marks>>

------------------------------------------------------------------------------

\* The ledger knows a bound resource as it is, or not yet; a create of a
\* capability that was retired since may have been left without an outcome.
Init ==
    /\ real \in [Caps -> Drifts \cup {"absent", "match"}]
    /\ known \in [Caps -> Drifts \cup {"absent", "match", "none"}]
    /\ pending \in SUBSET Retired
    /\ \A c \in Caps :
           /\ c \notin pending => known[c] \in {real[c], "none"}
           /\ c \in pending => known[c] = "absent" /\ real[c] \in {"absent", "match"}
           /\ real[c] = "absent" => known[c] = "absent"
           /\ c \in Retired => known[c] = "absent"
    /\ head = [c \in Caps |-> 0]
    /\ planFile = [p \in {planPathFor(r) : r \in Runs} |-> NoPlan]
    /\ run = [r \in Runs |-> Ready]
    /\ marks = [h \in Handles |-> Unmarked]
    /\ outside = 0

\* The phases of a run that has begun.
Phase(r) ==
    \/ Verify(r) \/ Plan(r) \/ Refresh(r) \/ Confirm(r)
    \/ ApplyBegins(r) \/ ApplyEnds(r) \/ Report(r) \/ Replan(r)
    \/ Observe(r)
    \/ refuseIfPending(r) \/ witnessReality(r) \/ ChildBreaks(r)

Next ==
    \/ \E r \in Runs : Begin(r) \/ Phase(r) \/ Kill(r) \/ KillChild(r) \/ Lapse(r)
    \/ \E c \in Caps, kind \in Drifts \cup {"match"} : Drift(c, kind)
    \/ OtherObserve
    \/ \E c \in Caps : OtherResume(c)

Spec == Init /\ [][Next]_vars

\* A process that runs makes progress, and each child returns. The code waits
\* for its children, a bounded sleep and, where consent was neither given nor
\* ruled out beforehand, for a person's answer; that answer is taken to come.
FairSpec == Spec /\ \A r \in Runs : WF_vars(Phase(r))

------------------------------------------------------------------------------
(* Properties.                                                             *)

Pcs == {"idle", "verify", "plan", "refresh", "confirm", "apply", "applying",
        "report", "replan", "observe", "pending", "witness", "done", "dead"}

\* Every state component stays in its domain, a process that is gone has an
\* exit code exactly when it ended by itself, and only an apply child or one
\* that was killed has a live lease.
TypeOK ==
    /\ real \in [Caps -> Kinds]
    /\ known \in [Caps -> Kinds \cup {"none"}]
    /\ pending \subseteq Caps
    /\ head \in [Caps -> Nat]
    /\ \A r \in Runs :
           /\ run[r].pc \in Pcs
           /\ run[r].attempt \in 0..MaxApplyRetries
           /\ (run[r].exit \in {0, 2, 3, 4, 5}) <=> At(r, "done")
           /\ marks[ApplyID(r)].lease => run[r].pc \in {"applying", "report", "done", "dead"}
    /\ outside \in 0..MaxOutside

\* refuseIfPending (D935, D939): a run that ends green leaves no receipt
\* unresolved that it found when it began, also for a capability its plan has
\* no action for.
GreenOwesNothing == \A r \in Runs : run[r].exit = 0 => run[r].debt = {}

\* planPathFor (D656): the apply child executes the plan its own run sealed,
\* whatever run of another contract, candidate, clock or project works in the
\* same directory.
AppliesOwnPlan == \A r \in Runs : At(r, "applying") => run[r].using.by = r

\* RunID, finish and DeriveRunStatus: when status says a run is done or failed
\* and wait returns its code, that run has ended, and with that code.
WaitRelaysExit ==
    \A r \in Runs :
        DeriveRunStatus(RunID(r)) \in {"done", "failed"} =>
            At(r, "done") /\ run[r].exit = runWait(RunID(r))

\* The refresh of stale observations happens once and the retries of a
\* throttled apply are bounded: every run that begins ends or is killed, if
\* whoever it asks for consent answers.
RunsEnd == \A r \in Runs : ~At(r, "idle") ~> Over(r)

\* converge.go, after the apply: "a BLOCKED capability means the run did NOT
\* fully converge - a non-zero exit so automation never reads it as green".
BlockedNeverGreen == \A r \in Runs : run[r].held # {} => run[r].exit # 0
==============================================================================

# A verification project for groundhold

groundhold turns a contract (what capabilities must exist) and a candidate (how
to provide them) into a sealed plan, executes the plan against a cloud
provider, and records everything it decides, does and observes in one
append-only file, the ledger. There is no server: every verb is a short-lived
process that replays the ledger, checks its gates, appends events under a file
lock, and calls the provider in between. What makes that hard is exactly what
unit tests hardly reach: two verbs interleaving over one file, a verb dying
between a provider call and the event that records it, answers that are lost,
leases that expire under a worker that is still running, and names that come
back after having been retired.

This directory holds TLA+ modules of that core (the ledger and its files, the
verbs that change the world, the loop around them, the evidence they rest on
and disaster recovery), TLC configurations that check them on small instances,
and TLAPS proofs, for all instances, of what the ledger, its files, the
executor, converge, the evidence readers and restore promise.

## 1. Inventory

Paths are below `src/go/internal/`. *State* is what a part keeps between two
steps, *operations* what changes it.

### Parts that carry the core logic

| part | state | operations | what must hold |
|---|---|---|---|
| ledger rules and fold, `ledger/ledger.go` | leases and fencing tokens per capability, pending receipts, bindings, lineage (replaced and tombstoned ids), claims, decision heads, coordination clock, observations | `Append` = clock check, `checkRules`, commit; projections such as `Deposed`, `PendingReceipts`, `BoundProviderIDs` | tokens order the leases of a capability; a superseded token never writes; one mutation is covered by one lease; orphans stay visible |
| ledger file, `ledger/replay.go` | the lines of the file, its lock | `commitUnderLock` (lock, replay, append, sync), `AppendLease`, `ReplayFile` | what was accepted once is accepted by every later replay, which rebuilds the same state |
| snapshot, rotation, repair, anchor, `ledger/snapshot.go`, `repair.go`, `anchor.go` | snapshot, archives, anchor and quarantined files beside the ledger | `Rotate`, `ReplayFile` over snapshot and tail, `Diagnose`, `Quarantine` | no crash and no concurrent reader or writer loses or forks history |
| apply, `apply/apply.go` | the run: sealed plan, entry-time bindings, lease token, outcomes | gates, lease, re-check, then per action: intent, call, binding, conclusion; final marker, release | no lost update, dependents of a failure do not run, a replacement never destroys what it leaves bound |
| resume, `resume/resume.go` | the run: receipts read at entry, lease | reconcile each pending receipt by reading the provider, project, conclude | conclusions are true, nothing stale is concluded, orphans are named |
| adopt and unadopt, `adopt/adopt.go` | the run | gates, lease, one binding | one owner per resource; a claim never outlives the resource it was stamped on |
| compiler, `compiler/compiler.go` | none (pure) | `Compile`, `CompileDeposed`, `wireReferences` | pins, keys and dependencies of the sealed actions |
| provider and drivers, `provider/`, `gcp/`, `aws/`, `azure/`, `k8s/`, ... | the cloud | create, update, delete, claim, observe, reconcile | external; what a call may do and what a read may conclude |
| observation writers, `observe/`, `probe/`, `publish/` | none | lease-free appends | a newer observation is never displaced by an older one |
| evidence readers, `audit/`, `refresh/`, `horizon/` | the recorded alarm | verdicts over fresh and strong enough readings; `audit --record` appends transitions | gates fail before proof expires; the alarm comes to say what the evidence says |
| converge, `converge/converge.go`, run status, `runstatus/`, `wait` in `cmd/groundhold/main.go` | the loop, its plan file, the run markers | verify, plan, refresh, confirm, apply with retries, observe, report | it ends; it applies its own plan; exit 0 leaves nothing unresolved; wait relays the exit of the right run |
| backup and restore, `backup/`, `restore/`, `ledger/capsule.go` | anchor and capsules; the woven ledger | emit, merge, classify, couple, linearize, accept | what is woven replays and is faithful; exit 0 means whole |

### Other parts

Contract and candidate language, verification over four-valued verdicts,
canonical hashing, plan sealing, posture, forecasts, discovery and import,
signatures and attestations, the MCP server and the dispatch of the command
line: `PROJECT.json` lists each with its status and the reason. They are pure
folds and renderings, or cryptographic envelopes, around the core above.

### How the parts interact

A plan pins the *decision heads* of the capabilities it reads. `apply` checks
them on the ledger it read at entry and again under the lease. All mutating
events carry the fencing token of a lease; receipts and claims do not need one.
Before every provider call a *pending receipt* is appended, after a success
first the binding (or claim) and only then the concluding receipt, so that a
crash at any point leaves a receipt for `resume`. `adopt` binds resources that
exist already; `apply` claims (stamps) them before it changes or destroys them.
Observation writers need no lease but move the coordination clock, behind which
no later append may go. `converge` runs verify, plan, apply and observe as child
processes and decides from their exits; between two children anything may have
happened. Every append takes the lock of the ledger file, which a rotation or a
quarantine may have replaced while the writer waited; no reader takes it.

### What is hard

`PROJECT.json` lists 40 hazards at their lines: stale tokens, leases that
happen to share a token number, live and replayed clocks, entry-time checks not
repeated under the lease, crashes between binding and receipt, lost answers,
receipts concluded twice, recycled names, replaced resources answering for
their successors, partial failure of a plan, rotation races, torn lines, audits
that cross, proof at the instant it expires, plan files shared between runs,
lost run markers, capsules cut at different moments. Each names the properties
that cover it or says why none does.

## 2. Modules

| module | models | extends |
|---|---|---|
| `LedgerRules` | `ledger.go` as pure operators over a state record: `Accepts` (checkRules), `Step` (Append's commit), the projections | - |
| `Ledger` | the file: any writer offers any event at any time (`commitUnderLock`) | `LedgerRules` |
| `LedgerReplay` | `ReplayFile` as a recursive function over the lines of `Ledger` | `Ledger` |
| `RulesProofs` | lemmas about the operators of `LedgerRules`: new tokens; induction on the naturals over a set | `LedgerRules`, library theorems |
| `LedgerProofs` | theorems about `Ledger` and `LedgerReplay` | `LedgerReplay`, `RulesProofs` |
| `Executor` | apply, resume, adopt, unadopt, lease-free writers, crashes and the provider, over one ledger | `LedgerRules` |
| `ExecutorProofs` | theorems about `Executor`, for any number of processes | `Executor`, `RulesProofs` |
| `CrashProofs` | theorems about `Executor`, for one process at a time that crashes | `ExecutorProofs` |
| `History` | abstract: one growing history of chained lines, and acknowledgements that are true | - |
| `Files` | the files of a ledger, one system call at a time: append, rotate, read, quarantine, crash | - |
| `FilesProofs` | theorems about `Files`, the refinement of `History` among them | `Files`, library theorems |
| `Converge` | converge, its children as outcomes, run markers, status and wait | - |
| `ConvergeProofs` | theorems about `Converge` | `Converge` |
| `Evidence` | observations of one attribute and the verbs that judge them | - |
| `EvidenceProofs` | theorems about `Evidence` | `Evidence` |
| `Recovery` | backup and restore over the ledger of `Ledger` | `LedgerReplay` |
| `RecoveryProofs` | theorems about restore | `Recovery`, `LedgerProofs` |
| `MCLedger`, `MCExecutor`, `MCFiles`, `MCConverge`, `MCEvidence`, `MCRecovery` | instances for TLC | the module of that name (`MCLedger`: `LedgerReplay`) |

`Ledger`, `Executor` and `Recovery` use the same `Accepts` and `Step`. `Ledger`
leaves the writers open: what is shown there holds for every verb, including
those that are not modelled and those that misbehave. `Executor` constrains the
writers to what the verbs really do and adds the world. `Recovery` composes
`Ledger`'s writers and `ReplayFile` with backup and restore. `Files` opens up the
step that `Ledger` takes as atomic, and is shown to implement `History`.

### Ledger

The state record `led` is the fold (`Ledger` struct): `clock` is `maxOccurred`,
`lease[c]` the lease record with its token, expiry, `ended` flag and identity
`seq` (D633), `pending[c]` the set of receipt bodies still open, `binding[c]` the
bound id, its generation and whether its origin is "adopted", `replaced` and
`tombstoned` the accumulated lineage, `decided[c]` the number of decision events,
which stands for the decision head (two equal hashes are two equal counts).
`log` keeps the lines; a grant is remembered with the token and lease identity
it was given, which the real file leaves to the fold, so that the properties can
speak about them.

One action per kind of event goes through `Commit`: replay (the state is the
replay), align the rules' clock with the writer's, refuse a clock behind
history, check the rules, append. The file lock makes this one atomic step.
Event hashes, signatures and document validation are left out.

### Executor

A process is a slot of `Worker` holding a record: its verb, program counter,
capabilities, clock (`--at`, fixed for the run), token, and the verb's own data.
Each step is one append or one provider call, so that other processes and
crashes fall between any two.

* `StartApply` merges the compiler with apply's entry gates. `Plan` gives the
  actions sealed for a capability and a goal: `present` (create, also when the
  bound resource was seen to be gone, or the claim alone when that is all there is to do), `update`, `replace` (create the successor, then
  delete the predecessor), `retired`, `deposed` (delete the orphans of failed
  replacements); an adopted, unclaimed binding is claimed first. The entry-time
  bindings stay with the run as they do in the code.
* `TakeLease` grants the lease and, in the same step, does what the verb does
  with the fresh ledger before its next append: apply compares decision heads
  (`Stale`), resume drops concluded receipts (`StillPending`).
* `WriteIntent`, `CallProvider`, `SettleFailure` / `SettleSuccess`, `Conclude`
  are the four steps of an action; `Skip` and `RefuseFirst` are the ways an action
  is passed over; `Finish` and `Release` end the run. A refused append ends
  apply dead (status corrupted) and sends the others to their release.
* `Ask`, `CloseOnly`, `Project`, `Close` conclude one receipt in resume.
  `Verdicts` is what a reconciler may answer: absence proves a delete and presence a
  create; everything else needs the provider's own operation record or stays unknown.
  That record is asked first (`gcp/reconcile_gcp.go:86`): an operation that is done with
  an error is `failed` before any resource is read, so a create may be called
  failed with its resource standing (D736 in `resume.go`).
* `Crash` drops a process anywhere. The ledger and the world stay.

The provider is external. A call lands or not and says so or not; `unknown` may
be either, and so may `failed`: an operation can end in an error when it has made
its resource, or part of it (`gcp/driver.go:840-849`), which `Reports` allows for every
create, update and claim. `Halfway` says whether a delete, too, can be called failed when its
resource is gone, by its driver or by a reconciler that asks the operation first. A request that is still on its way when its process dies has
landed or been lost by the time another process acts. The name of a created resource is `<<capability, generation>>`, as
deterministic as in the drivers; with `TagScan` a create may instead return any
living resource that carries the capability's tag. A paused process can still
make its call after losing its lease, since provider calls are not fenced.

`vain` is a history variable that no action reads: the names whose
create the ledger's last line about it closed without a binding, as `FailedCreate` and `Healed` tell.
`OrphanRecorded` needs it to say where the trace of such a resource is.

Abstractions: any topological order of the plan is allowed (the code's order is
one of them); one candidate, so idempotency keys depend on the capability and the
operation; `adopt` takes one resource per run, and the observations it appends
at the end change nothing here; what the compiler takes for bound or absent may
be out of date only in that a bound resource may be gone; permission preflight,
consent gates, provider-name gates (D637), anchors, attribute values and the
last-seen generations of deposed resources are left out; a driver supports
claims. `ExecutorAssumption` says that the names groundhold gives
are taken by nobody else: no foreign resource carries the name of a capability and a generation.

### Files and History

A name leads to an inode and a lock is held on an inode, which is what makes the
races of `lockLedger` expressible: a process can hold the lock of a file that is
no longer the ledger. `inodes` are the files (whole lines, a torn tail or not,
the lock holder), `ledger` is the path, `snapshot` the lines folded by the
sidecar, `copies` and `archive` what a rotation put away, `aside` what a
quarantine linked away, `anchor` the pins beside the ledger.

* `Open`, `Lock`, `CheckSame`: lockLedger with its bounded retries (D655).
* `ReadSnapshot`, `ReadLedger`: the two reads of ReplayFile; for writers they
  happen under the lock, for readers without. `Replays` is verifyPrev: each line
  pins the head of its capability.
* `Write`, `Tear`, `Synced`: a line is written whole or cut short, and only a
  synced one is acknowledged.
* `Gate`, `CopySnapshot`, `Activate`, `Move`, `CreateEmpty`, `WriteAnchor`: Rotate.
* `DiagnoseFile`, `Judge`, `Reopen`, `Stage`, `Preserve`, `Swap`: repair, which is
  asked to quarantine the damage it diagnosed and looks again under the lock.
* `Crash` ends a process before any step; the kernel drops its lock.

The refinement mapping gives `History` the lines of the snapshot followed by the
ledger's when they continue it. `Activate` then changes no history, because the
snapshot folds exactly the ledger it is about to replace, and between `Activate`
and `Move` the old file does not continue the new snapshot and does not count.

### Converge

A capability is abstracted to what the compiler would do about it: nothing,
create, update, an exposing update, or blocked. `known` is what the ledger says of it, `real` what it
is. A run of converge is a record with a program counter over its phases;
a child is one step with any of the outcomes its code has, except apply, which begins and
ends so that others can act while it holds its lease. `marks` folds the run
markers per handle, and `DeriveRunStatus` and `runWait` read only those. Markers
are best effort: the append may fail (`Marked`). `Kill`, `KillChild` and `Lapse` are the faults,
`Drift`, `OtherObserve` and `OtherResume` the other actors.

### Evidence

One attribute of one capability with a hard constraint on it. A reading has a source, a derivation, an
instant and whether the constraint holds of it. `Read` and `Record` are separate
steps, and so are `Audit` and `Emit`, so readings and alarms are appended in
another order than they were taken. `slot` and `bySource` are the two projections
of the fold; `isStale`, `stalenessRefusal`, `Verdicts` and `HorizonPasses` are
the four readers.

### Recovery

An event is its line number, which stands for its hash; the numbers also tell the
order of a chain, so a capsule is a set of them. `BackupBegins` cuts the
anchor and `BackupEmits` each capsule, with writers in between. An operator
supplies up to two capsules per capability, of any age, of a copy of the ledger that went its
own way, or broken; restore merges, classifies, closes under coupling,
weaves in the order of its priority queue, writes, replays and reports. Ties
of the queue are broken by hash, so any order of them is allowed.

## 3. Runs

The module, constants and properties of each run are in its `.cfg`. All passing
runs finish in under two minutes with two workers; the largest are `crash` (2.1 million states), `plan`
(1.7), `race` (1.4) and `restore` (1.2). `CHECK_DEADLOCK FALSE` everywhere: the number of
events, runs, lines and clock ticks is bounded and processes end, so every behaviour ends.

| run | instance | shows |
|---|---|---|
| `ledger` | 2 capabilities, 1 resource, ttl 2, clock 0..2, 4 events of all kinds | `TypeOK`, `GrantsOrdered`, `StaleTokenNeverWrites`, `OneLeaseCovers`, `ReplayAgrees` |
| `crash` | 1 capability, 1 process that dies anywhere, 2 foreign resources, all goals, 5 runs, tag scans, `Halfway` false | `TypeOK`, `OrphanRecorded`, `BoundIsReal`, `ClaimsAreTrue`, `TombstonesTrue`, `ReplacementKeepsOne` |
| `race` | 1 capability, 2 processes that create, update and replace, a lease-free writer, 4 runs, lease lifetime 1 of 2 ticks | `NoLostUpdate`, `GenerationKept`, `SilentWhenOutbid` |
| `plan` | 2 capabilities, the first feeding the second, an adoption, resources that vanish, 3 runs, clock 0 | `DependenciesMet` |
| `files` | 2 processes that append and rotate, 1 that reads and repairs, 2 capabilities, 2 lines, 2 crashes or torn writes, 2 tries for the lock | `TypeOK`, `ReadersSeePrefixes`, `NothingDeleted`, `AnchorHonest`, and the refinement `HistoryGrows` |
| `converge` | 2 runs in one directory, 2 capabilities of which one is retired, 1 retry, 1 fault or foreign step | `TypeOK`, `GreenOwesNothing`, `AppliesOwnPlan`, `WaitRelaysExit`, and the liveness `RunsEnd` |
| `evidence` | 1 observer, 2 auditors, 4 bases of a reading, 3 readings, clock 0..2, lifetimes 1 and 3 | `TypeOK`, `ProjectionNewest`, `HorizonGate`, `RefreshLeads`, and the liveness `AlarmSettles` |
| `restore` | 3 capabilities, 3 events, clock 0..2, up to 2 capsules per capability | `WovenReplays`, `RestoredFaithful`, `GreenIsWhole` |

Bounds. *Ledger*: the shortest violation of each rule with its guard removed
has at most 4 events (two grants, one mutation, one expiry); clock 2 with ttl 2 makes leases expire
exactly at, and not before, a later event. *Executor*: five runs are create,
replace, crash, resume, deposed clean-up, or adopt, claim, release, re-adopt and retire;
two processes with four runs cover a plan
sealed before, executed around and finished after another run. `plan` is about the order within
one run and needs no clock: no lease expires in it. `Ttl = 1` of a
clock of 0..2 stands for the 300 seconds: a lease is over for any later clock.
*Files*: two lines are a snapshot and a tail; two writers that can both rotate give every race of a
waiting writer with a replacement of the file, and two crashes an interrupted
rotation followed by an interrupted quarantine. Two tries for the lock instead of
eight make the giving up reachable. *Converge*: one retry instead of four, and
one fault, since every property speaks of what one fault between two phases can do.
*Evidence*: three readings are an incumbent, a newer one and a late one; one
lifetime ends inside the clock and one outside. *Recovery*: three capabilities give a
coupling through a third, and three events two chains that share an event and one
that does not. Each property is also broken by a seeded fault (the definitions
marked "seeded fault" or "mutant"), which shows that the instances are large enough to reach the case.

Symmetry is over capabilities in `MCLedger` and `MCRecovery`, over processes and foreign
resources in `MCExecutor`, over the two writers and the capabilities in `MCFiles`; no
operator chooses among them. `HistoryGrows` is a safety property (an initial
predicate and a step predicate), which symmetry keeps. The runs with liveness use no symmetry.

### Fairness

`Converge!FairSpec` asks for weak fairness of each run's `Phase`: the process waits
only for its children, each of which returns, and for a backoff of bounded
length, so a run that can take its next step takes it. The one other thing it waits for is the
answer at the prompt of `Confirm`, which reads standard input (`converge.go:884-909`): for an
interactive run without consent given beforehand the fairness assumes that somebody answers, yes or no.
Nothing is asked of the start of a run, of faults or of the other actors. Under it
every run that begins ends: the refresh happens once and the retries are
counted.

`Evidence!FairSpec` asks for weak fairness of `Tick` and of each auditor's step: time
passes, and audit is meant to be run on a schedule (the `drift-audit` jobs of
`examples/ci/gitlab-ci.yml` and `github-actions.yml`, here with `--record`). Nothing is
asked of the observers. Under it the recorded alarm ends up agreeing with
a verdict on the evidence, whatever transitions crossed on the way.

No liveness is claimed of `Executor`: an operation can stay unknown for ever (a
lost operation name), and a pending claim receipt makes resume refuse as a whole.

### Runs that end in a violation

Four runs check a sentence of the documentation, or of a comment, that the code does not keep.
They are listed with quotations under `findings`.

* `recycled`: create, retire, create again under the same deterministic name,
  start a replacement and let it die before its delete. `Deposed` subtracts ids *ever*
  tombstoned, so the living predecessor is not listed.
* `torn`: a reader looks for the snapshot, finds none, and is overtaken by a whole rotation;
  it then reads the fresh, empty tail and accepts an empty history of a
  ledger whose lines had been acknowledged before it began.
* `blocked`: everything there is to change is blocked, so the plan has no actions;
  apply says there is nothing to change, and converge reports exit 0.
* `backup`: an append between the anchor of a backup and a capsule; the backup is reported as made,
  and its own restore calls the capability stale and refuses.

`OrphanRecorded` is the part of `OrphanVisible` that does hold: a living creation is bound, or the
subject of an open receipt, or in the lineage, or else the last thing the ledger says about it
is that its create came to nothing. A create that failed halfway leaves such a
resource, and no projection names it; the line, with the name or the key, is all there is to find it by.
And `ReadersSeePrefixes`
the part of `NeverSilentlyEmpty`: what a reader accepts is late, never a mixture.
`ClaimsAreTrue` holds as long as adopts do not overlap with other runs, since their
gates are not repeated under the lease. `WaitRelaysExit` is about the answers done and failed only. Of the answer stalled the documents say that the
lease of the writer lapsed, and of wait that it blocks until the run is over; neither holds of a converge. Status looks for a lease
under the handle it was asked about (`runstatus.go:270-272, 306`), and the lease of a converge is taken by
its apply, under the handle of the apply. So a converge that lives is called stalled from its start on
(in the model, the state after `Begin`), and wait returns 3.
`GenerationKept` is checked, and proved, where no bound resource
has to be created again, so `race` neither retires nor lets resources vanish. The receipt
of such a re-creation says generation 1 although its binding
says the next one, and a resume after a crash between the two writes what the receipt says: the
regression that the comment at `resume.go:171-175` describes, by another way. Besides a deletion by hand, the
delete of a paused process that lands after a resume has concluded it as failed brings a plan
to create a bound resource again (two processes, five runs).
`DependenciesMet` is checked without tag scans, where a create may
be answered by a deposed resource. `BoundIsReal` is stated, and proved, where a delete is not called failed after its
work is done (`~Halfway`): else a failed delete leaves a binding to nothing until the next
observation, which is for `resume` and `refresh` to find. It and `TombstonesTrue` are claims about crashes, not about
concurrency: with two processes a call of a worker that lost its lease can bring a
resource back to life, or destroy one, after a resume has concluded otherwise.

## 4. Proofs

Every theorem holds for all values of the constants that satisfy the named
assumption of its module: any sets of capabilities, processes and resources, any
clock and lifetimes, any bound on events, runs and retries. The bounds stay in
the guards, so a theorem covers the unbounded system by taking them large.

| theorem | states |
|---|---|
| `LedgerTypes`, `TokensOrdered`, `StaleTokensFenced`, `OneLeasePerMutation` | `Ledger` keeps `TypeOK`, `GrantsOrdered`, `StaleTokenNeverWrites`, `OneLeaseCovers` |
| `ReplayAlwaysAgrees` | `Ledger` keeps `ReplayAgrees` |
| `RestoreNeverRefusesWoven`, `RestoreFabricatesNothing`, `GreenRestoreIsWhole` | `Recovery` keeps `WovenReplays`, `RestoredFaithful`, `GreenIsWhole` |
| `ExecutorTyped` | `Executor` keeps `TypeOK` |
| `UpdatesAreNotLost` | without tag scans, `Executor` satisfies the action property `NoLostUpdate` |
| `OutbidIsSilent` | `Executor` satisfies the action property `SilentWhenOutbid` |
| `GenerationsAreKept` | with nothing retired, adopted, deleted by hand or found by a tag scan, `Executor` satisfies the action property `GenerationKept` |
| `CreationsStayOnRecord`, `ClaimsStayTrue`, `TombstonesStayTrue`, `ReplacementsKeepOne` | with one process, `Executor` keeps `OrphanRecorded` and `ClaimsAreTrue` and satisfies `TombstonesTrue` and `ReplacementKeepsOne` |
| `BindingsStayReal` | with one process, nothing deleted by hand no capability that adopts what another made and no delete that fails after its work, `Executor` keeps `BoundIsReal` |
| `DependenciesComeFirst` | with one process and no tag scans, `Executor` keeps `DependenciesMet` |
| `FilesTyped`, `NothingIsDeleted`, `AnchorsAreHonest` | `Files` keeps `TypeOK`, `NothingDeleted`, `AnchorHonest` |
| `FilesKeepTheHistory` | `Files` implements `History` (`HistoryGrows`) |
| `ReadersAreLateAtMost` | `Files` keeps `ReadersSeePrefixes` |
| `ConvergeTyped`, `GreenOwes`, `OwnPlanApplied`, `WaitTells` | `Converge` keeps `TypeOK`, `GreenOwesNothing`, `AppliesOwnPlan`, `WaitRelaysExit` |
| `EvidenceTyped`, `ProjectionsAreNewest`, `RefreshIsALead`, `HorizonIsAGate` | `Evidence` keeps `TypeOK`, `ProjectionNewest`, `RefreshLeads`, `HorizonGate` |

### Ledger

Every action of `Next` is a `Commit` of some event (`NextCommits`), so each
invariant is shown to be kept once, by a commit of any event.

*Tokens.* `GrantsOrdered` is not inductive: the file alone does not say what the
next token will be. `TokenInv` adds that the counter of a capability bounds every
token the file mentions for it (`LoggedBelowMax`), that a live lease carries
its capability's largest token (`LiveIsNewest`), and that no token exceeds the
number of leases (`TokensCounted`). A new grant takes a token above the
counters of all its capabilities (`TokenAbove`, from `MaxExists`, which finds the
largest of a finite set of counters), and a mutation shows the token of a live lease, which is the
largest, hence the two properties. The set of capabilities of one event need not be finite, so
`MaxExists` goes by the bound on tokens and well-founded descent rather than by induction on a set.

*Leases.* `OneLeaseCovers` needs a lease to be traced back to its grant. `LeaseInv`
says that lease identities are unique in the file (`SeqUnique`) and that every lease
that has not ended is `Backed`: one grant line carries its identity and
token, covers the capability, no later line touching the capability granted, released or broke
it, and some grant or renewal of it accounts for its expiry. For a mutation, the
rule that all leases have one identity gives one grant line for all
capabilities, which is the witness of `Covers`.

*Replay.* `ReplayFile` is a recursive function over the lines. An induction theorem
that takes a predicate is out of reach, one over a set is not: `NaturalsByStep` says
that a set of naturals with 0 and with the successor of each of its members has
them all, and follows from the least natural that would be missing (`LeastOf`). With it
there is one function that is the fold of the first k lines for every k
(`FoldExists`, `FoldsAgree`), it is what `ReplayFile` computes (`ReplayIsFold`),
and it depends on no later line (`FoldLocal`). `FoldInv`, that the fold of the whole file is
the live state, is then kept by every commit, because what the rules accept at a
writer's clock they accept at the clock of the line (`LineAccepted`).

### Executor

`ExecInv` has one part per process, `Good`, over the ledger as a parameter, and
one part between processes, `Apart`. Beside the types of a process record, `Good` says that
a process that passed its lease has a token, never above the counter of any of its
capabilities; that the actions of apply have the shape the compiler gave them
(`PlanShape`) and their states the order of the loop (`Progress`); that as long as the
decision head a plan pinned has not moved, the binding is the one it was
compiled from (`Pinned`); and that while the lease is still the process's
own, the binding of its capability is the one the plan was made for, or the successor its own create
has bound, or nothing is left to do for it (`Kept`). `Apart` says that two processes never
hold one token for one capability.

The argument for `NoLostUpdate`: when a process writes under a token, the rules
ask for a live lease with that token (`Fenced`); by `Apart` nobody else holds that
token, so for every other process the lease is not its own any more, or its
capability is not touched, and `Kept` is vacuous or undisturbed (`OthersKeep`). For the writer itself, `Kept`
says which binding it overwrites. A grant changes no binding and takes the
lease away from everybody else (`TokenAbove`). Each action of the verbs is one lemma on top of
`OneMoves`. With tag scans a create may be answered by any living resource of the
capability, and the successor's name says nothing; the theorem assumes `~TagScan`,
as the run does.

The argument for `SilentWhenOutbid`: receipts and ownership stamps carry no token, and the
rules ask no lease of them (`ledger.go` fences the mutation types only). That a run which lost its lease cannot
write them all the same follows from the clock. `HeldInv` says of each run past its lease and each of its
capabilities that either history has passed the run's clock, or the lease is the one it was
given, expiring at that clock plus the lifetime (`InForce`). It holds with `ExecInv`, since whoever moves leases may
only end its own or grant one where none is in force at its clock (`Yields`); to take over another run's
it must come at or past its expiry, and its event puts history there. An append of
the run that was outbid would then regress, and D56 refuses it (`NotOutbid`). The argument needs the clock of
a run to be that of its start, as `--at` is, and the lifetime to be positive.

The argument for `GenerationKept`: as long as nothing bound is ever destroyed, a binding only goes
on to later names of its capability (`Rises`), and a generation could go back in one way only: a write
for a name that is bound already. `GenInv`, which holds with `ExecInv` and `HeldInv`, excludes it.

* `Named`: a binding is a name of its capability, its resource lives, and its generation is at least
  that of the name; what has been replaced is a name left behind (`Reached`).
* `Intents`: an open create is after the name its operation tells, and would write that name's generation
  (`Safe`), which is no less than the bound one should the name be bound already (`Forward`). An open delete is
  after a name left behind. An open update is after one too, or after the bound name while no
  open create is after that (`Clear`): since an update raises the generation of the binding, a create
  concluded after it would take it back.
* `Leads`, `Leaves`, `Undoubted`, of an apply: its plan leads past the binding it was compiled on, what it still
  deletes is left behind, and it updates only what no open create is after. The last is the gate at
  apply's entry, which goes on only with nothing pending; until the lease is given it holds
  as long as the decision head that the plan pins has not moved, and after that by the lease.
* `Concludes`, of a resume: the receipts it has read stay `Safe` whoever works meanwhile, and
  `Forward` from the look under its lease on. Of an update and a create that it read for the same
  capability, the update is not after the name the create is after, or that name has been left behind.

Only the holder of a lease in force writes a binding, and a run that was outbid appends nothing
(`HeldInv`), so each lemma about an action of one process leaves the parts of the others in place
by `Rises` alone. The hypotheses, `Undisturbed`, are not for the provers' sake: on the instance of `race` TLC
refutes the property with `adopt`, with resources that vanish and with tag scans, and with
`retired` in five runs, as told in section 3.

### Crashes

Six properties relate the ledger to the world, and hold for one process at a time (`OneProcess`):
any number of runs one after the other, each dying anywhere. A second
process breaks them because a provider call is not fenced: it may land when another process
has concluded what it was about. Nothing else is restricted: the theorems are for
any capabilities, plans, feeds, clock and number of runs, with tag scans and resources
that vanish unless they say otherwise.

The invariant is `CrashInv`: `ExecInv`, and of the process, the ledger and the world `Faithful`, whose parts are

* `Facts`: what the compiler gave (`PlanFacts`), that an action is carried out after
  those it depends on (`InOrder`), what the run did is on the ledger (`Shown`), the binding is
  the one of the plan until the plan moves it (`InPlace`), an action has its receipt open exactly
  while it is in hand (`Unopened`, `Opened`), what an answer is worth (`Answer`), and that a receipt in
  the hands of resume is pending and its verdict still true (`ResumeFacts`).
* `Recorded`: each living creation is `Sure` or `Fresh`. `OrphanRecorded` alone is not
  inductive, since the next step of a run may overwrite a binding or close a receipt that is the only
  record. When a create is closed without a binding, the line that closes it becomes the record (`vain`), until a later
  success binds the name again; a reconciler that asks the operation first makes this happen to resources that
  stand, so the theorem promises a line to look at, and not that a projection shows it. So a record counts only if the run in hand is not about to take it away: not the
  binding of a capability it creates for without replacing it (`Shaky`), nor the receipt of its own
  action (`Closing`). The one exception, until the next append, is what the call has just made
  (`Fresh`). A plan that creates anew for a bound capability is sealed only when the bound resource is gone,
  and nothing but that very create brings its name back to life.
* under `Secluded`, `AtHome` and `Real`: a capability only ever speaks of its own names, and a binding
  whose resource is gone has an open delete that names it (`Backed`), up to the instant between the
  answer of a delete and its settling (`Dying`). `Secluded` asks that nothing
  vanishes by hand, that no delete is called failed after its resource is gone (`~Halfway`), and, when adopt is run, that there is a single capability: else one capability can
  adopt and retire what a pending receipt of another is about.

A crash keeps all of it because `Faithful` asks more of a running process
than of an idle one (`AsIfDead`). `DependenciesComeFirst` needs `~TagScan`: a create that is answered by tag
binds what it found, not the name the plan gave.

### Files

`FilesInv` has a part about the disk, `DiskInv`, and one per process, `ProcInv`.

*The disk.* Nothing in the file system says which lines of the ledger count:
between the second and the third step of a rotation the path still leads to a file
the snapshot has folded. `Attached` says that the ledger either continues the
snapshot or is such a file (`Folded`: whole, its lines are all in the snapshot, and its first line pins
an older head than the snapshot has). The two exclude each other because lines
are numbered in the order they were written (`Numbered`): the head that a line of
the tail stood on is older than the head once that line is folded (`FoldedHead`).
`SnapshotHeld` says that every folded line stands in a file that still has a name, and
`AnchorPins` that the anchor's pins and fold are prefixes of the snapshot.

*The processes.* Each change of the ledger, the snapshot or the archives is made by
the holder of the lock of the file the path leads to (`Owner`). `WriterKnows` says
what an append or a rotation has read and may rely on from the check of its descriptor on;
once a rotation has moved the file away it no longer owns the path, and what is left to
do, the empty tail and the anchor, relies only on a snapshot that grows.
Quarantine opens the path without that check, so it may hold the lock of a file that is no longer
the ledger. What saves it is the fingerprint (`RepairKnows`): a file that was found damaged is
torn, and then it is the ledger until it is set aside, or it is folded, and then, once
it has gone, no file that starts with its first line ever becomes the ledger again. So a second
diagnosis under the lock that reads the same file proves that the descriptor is the
ledger, or that it was quarantined already, in which case `Preserve` refuses.

*The steps.* `Frame` collects what a step of one process may do as far as another can tell;
`OthersKeep` shows once that a step within `Frame` leaves what the others know true, and
`OneMoves` reduces each action to its own process and the disk. There is one lemma per action.
For the refinement, `Write` is `Commit` (`WriteCommits`), `Synced` is `Acknowledge`
(`SyncAcknowledges`) and every other step stutters: `Activate` because the new snapshot is the
old history, `Move` because the file it removes was folded, `Swap` because the
clean prefix of a ledger that continues the snapshot is all of it, and of one that is folded is
nothing (`CleanPrefixIs`).

*The readers.* A reader takes the snapshot of one instant and the ledger of another, and any number
of appends, rotations and quarantines may lie between. `ReadInv` adds that every line of the
history pins the head before it (`Chained`, kept by the refinement's `Commit`) and that
a snapshot once read is an earlier state of the history for good, since the history only
grows. What it accepts is then decided line by line (`ReadsHistory`, an induction over the ledger it read): every
line of the ledger is a line of the history, because the ledger is a tail or folded; it pins the head
the reader has and the head the history had, so the two are one head; and since lines are numbered in order,
a capability has one state for each of its heads (`SameHead`). `About`, the lines about
a capability, is a recursive function, for which `AboutSteps` gives the equations.

### Converge

`ConvergeInv` has the types of the world and of the markers, and per run
`RunInv`: from its plan step to its apply the file under the run's own path is the
plan it sealed itself, and what its apply child reads is that plan, whatever other runs do
in the directory; the receipts a run found when it began and that nobody has resolved since
are pending still (`debt`), and both the phase before a green end and exit 0
itself have none left; an end marker exists only for a run that is done, and
carries its exit. Handles are told apart once and for all by `HandlesDiffer`, so a step of one
run touches nothing of another's part (`RunSteps`).

### Evidence

`EvidenceInv` adds to the types that a projection is filled as soon as a reading
qualifies for it (`Filled`) and that no reading is from after the ledger's last instant (`Past`).
`ProjectionNewest` is inductive with them: whatever the order of arrival, the
incumbent gives way only to a reading that is newer than it, and is then newer than all it
was newer than (`NewerIsNewest`). `RefreshLeads` follows from `Past` and the order of the two
expiries. `HorizonGate` speaks of all instants of a window, of which horizon judges only the
breakpoints. The reading a verdict rests on is also the best one at the breakpoint where it
began to count, and horizon found it good there; had it expired before the instant in question, the instant
after its expiry would be a breakpoint too, and horizon would have refused.

### Recovery

`HistInv` is about the history restore works from: the lines are in the order of
their times (`Sorted`, D56), and after any number m of them (`Past`) the fold was a
state of the ledger, with a clock no later line is behind, and with lease identities
that name the grant a lease goes back to (`Numbered`).

*The weave.* What may be woven is `Closed`: all lines about some capabilities up to the anchor,
none of which is about another capability. A weave gives each out once (`WeaveOrder`), in the
order of their times (`PopsEarliest`), and on each capability in the order of the history
(`WeaveFacts`). Its state after k lines is none the ledger ever had: of one capability it
may be far behind, of another ahead. `Follows` says what remains true: for each capability alone it stands where
the history stood after the same lines about that capability, and of two capabilities it tells
alike whether their leases are one lease; what the rules ask is the same, then, in both
(`AcceptsAlike`, `TokenAlike`), and so is what an accepted line does
(`StepAlike`, `StepLeases`). That lease numbers differ is the hard part: two leases
of the weave must not become one, which is where `Numbered` and the clock come in (`PastNumbers`).
`FollowsStep` is the step and `WeaveFolds` the induction over k. At the end of the weave every
capability has all its lines up to the anchor, hence `WeavePasses` and `WeaveAgrees`.

*The restore.* `RestoreInv` follows the run: what was classified as sound is the chain of the
history itself, because the head the anchor pins is in it and nothing after it is, which
a shorter, a longer or a forked capsule cannot have (`ClassifiedIsChain`); the coupling fixpoint of a
partial restore, or the completeness of a full one, make the set `Closed` (`WriteInv`); and
a woven set always passes (`WovenPasses`), so `Accept` never refuses. Exit code 0 is
given only when every capability the anchor names was restored, and a line is about at least one of
them, so the weave is all of the lines (`AllHeads`).

### Only model-checked

* `RunsEnd` and `AlarmSettles`: liveness, fairness and `ENABLED` are out of the
  prover's reach.
* Of the theorems about one process, what remains true of several: `TypeOK`, `NoLostUpdate`,
  `SilentWhenOutbid` and `GenerationKept` are proved for any number of processes; the relation of
  ledger and world is not.
* The sentences of the runs that end in a violation, which do not hold.

## 5. Not modelled, and the plan

The repository has some 155,000 lines of Go, of which most build requests for and
parse responses of single cloud services. They are external to the interleavings this
project is about: each is reached through the provider interface, whose
contract `Executor` models. Parsing of contracts, rendering, hashing and signatures
are left out too: an abstraction small enough for TLC would leave out what
could be wrong there. So the mapped share of the whole repository stays small, while
the ledger, its files, the executor, resume, adopt, converge, the evidence
readers and recovery are mapped for the most part.

Left out inside the modelled parts: leases of snapshots older than lease
identities (D644), a snapshot that exists and cannot be read, version-ahead lines, an anchor kept off-host;
two mappings per adopt; the provider pin (D637); consent inside apply; observations of a
capability that was bound anew; the documents and signatures of a backup; occurredAt
with mixed offsets, which restore's queue compares as strings; a renewal without a ttl, which
keeps the one stored (`ledger.go:932-935`).

Some reads that can fail or be overtaken are taken to succeed at once. `pendingBlocker` finds nothing when its replay
fails (`converge.go:331-333`); the model's always reads. A capsule is cut from three reads of
the file (replay, snapshot, lines); the model's from one, so an append between them is
left out, while one between two capsules, or between the anchor and a capsule, is not.

`RunID` hashes contract, candidate, clock and project, and nothing else: two invocations that differ only
in ledger, provider or region, or that are repeated, share their handle and their plan path. `Runs` is a set of
runs that differ in the four, and `AppliesOwnPlan` and `WaitRelaysExit` say nothing about others.

`ReadersSeePrefixes` is a statement per capability: each chain that a reader accepts is a
prefix of the history's, but the chains of two capabilities may be cut at different moments.

Next in the plan is an abstraction: a fenced store (per capability a value and the newest
token) implemented by `Ledger`.

---------------------------- MODULE ConvergeProofs ----------------------------
(***************************************************************************)
(* Theorems about converge, for any contract, any number of invocations    *)
(* and retries, and any number of faults and steps of other actors.        *)
(***************************************************************************)
EXTENDS Converge, TLAPS

Codes == {0, 2, 3, 4, 5}
Exits == Codes \cup {Running}

PlanRecs == [by : Runs \cup {Nobody}, acts : SUBSET Caps,
             heads : UNION {[S -> Nat] : S \in SUBSET Caps}]

RunRecs == [pc : Pcs, observed : BOOLEAN, held : SUBSET Caps, using : PlanRecs,
            attempt : 0..MaxApplyRetries,
            then : {"none", "matched", "nothing", "applied"}, exit : Exits,
            status : {"none", "refused", "stale-or-conflict", "failed",
                      "corrupted", "applied", "converged"},
            debt : SUBSET Caps]

MarkRecs == [started : BOOLEAN, exit : Exits, lease : BOOLEAN, pending : BOOLEAN]

\* The pcs at which an apply of the run may hold a lease.
LeasePcs == {"applying", "report", "done", "dead"}

WorldTyped ==
    /\ real \in [Caps -> Kinds]
    /\ known \in [Caps -> Kinds \cup {"none"}]
    /\ pending \in SUBSET Caps
    /\ head \in [Caps -> Nat]
    /\ outside \in 0..MaxOutside

Typed ==
    /\ planFile \in [{planPathFor(r) : r \in Runs} -> PlanRecs]
    /\ run \in [Runs -> RunRecs]
    /\ marks \in [Handles -> MarkRecs]

\* What holds of one run: the exit code and the lease that go with its pc; from
\* consent to apply the plan in its file is its own; what it still owes is
\* pending; the marker of its end is its exit code.
RunInv(r) ==
    /\ run[r].exit \in Codes <=> At(r, "done")
    /\ marks[ApplyID(r)].lease => run[r].pc \in LeasePcs
    /\ run[r].pc \in {"confirm", "apply"} => planFile[planPathFor(r)].by = r
    /\ At(r, "applying") => run[r].using.by = r
    /\ run[r].debt \subseteq pending
    /\ At(r, "witness") => run[r].debt = {}
    /\ run[r].exit = 0 => run[r].debt = {}
    /\ marks[RunID(r)].exit # Running =>
           At(r, "done") /\ marks[RunID(r)].exit = run[r].exit

ConvergeInv == WorldTyped /\ Typed /\ \A r \in Runs : RunInv(r)

------------------------------------------------------------------------------
(* Handles, records and plans.                                             *)

\* A run's handle, its apply's and every other run's are different.
LEMMA HandlesDiffer ==
  /\ \A r \in Runs : RunID(r) \in Handles /\ ApplyID(r) \in Handles
  /\ \A r, o \in Runs : RunID(r) # ApplyID(o)
  /\ \A r, o \in Runs : r # o => RunID(r) # RunID(o) /\ ApplyID(r) # ApplyID(o)
  BY DEF RunID, ApplyID, Handles

LEMMA NoPlanTyped == NoPlan \in PlanRecs
<1>1. <<>> \in [{} -> Nat]
  OBVIOUS
<1>2. <<>> \in UNION {[S -> Nat] : S \in SUBSET Caps}
  BY <1>1
<1> QED BY <1>2 DEF NoPlan, PlanRecs

LEMMA ReadyTyped == Ready \in RunRecs
  BY NoPlanTyped, ConvergeAssumption
  DEF Ready, RunRecs, Pcs, Exits, Running, ConvergeAssumption

LEMMA UnmarkedTyped == Unmarked \in MarkRecs
  BY DEF Unmarked, MarkRecs, Exits, Running

LEMMA SealedTyped ==
  ASSUME WorldTyped, NEW r \in Runs
  PROVE  SealedPlan(r) \in PlanRecs /\ SealedPlan(r).by = r
<1>1. Acts \in SUBSET Caps
  BY ConvergeAssumption DEF Acts, Live, ConvergeAssumption
<1>2. [c \in Acts |-> head[c]] \in [Acts -> Nat]
  BY <1>1 DEF WorldTyped
<1>3. [c \in Acts |-> head[c]] \in UNION {[S -> Nat] : S \in SUBSET Caps}
  BY <1>1, <1>2
<1> QED BY <1>1, <1>3 DEF SealedPlan, PlanRecs

\* What is left of a process is the record of a run.
LEMMA RemainsTyped ==
  ASSUME Typed, NEW r \in Runs, NEW pc \in Pcs, NEW exit \in Exits,
         NEW status \in {"none", "refused", "stale-or-conflict", "failed",
                         "corrupted", "applied", "converged"}
  PROVE  /\ Remains(r, pc, exit, status) \in RunRecs
         /\ Remains(r, pc, exit, status).pc = pc
         /\ Remains(r, pc, exit, status).exit = exit
         /\ Remains(r, pc, exit, status).debt = run[r].debt
<1>1. run[r] \in RunRecs
  BY DEF Typed
<1> DEFINE plan == IF marks[ApplyID(r)].lease THEN run[r].using ELSE NoPlan
<1>2. plan \in PlanRecs /\ run[r].held \in SUBSET Caps /\ run[r].debt \in SUBSET Caps
  BY <1>1, NoPlanTyped DEF RunRecs
<1> HIDE DEF plan
<1>3. Remains(r, pc, exit, status) =
        [Ready EXCEPT !.pc = pc, !.exit = exit, !.status = status,
                      !.held = run[r].held, !.debt = run[r].debt, !.using = plan]
  BY DEF Remains, plan
<1> QED BY <1>2, <1>3, ReadyTyped DEF RunRecs

------------------------------------------------------------------------------
(* The invariant.                                                          *)

LEMMA InitConverge == Init => ConvergeInv
<1> SUFFICES ASSUME Init PROVE ConvergeInv
  OBVIOUS
<1>1. WorldTyped
  <2>1. Drifts \cup {"absent", "match"} \subseteq Kinds /\ MaxOutside \in Nat
    BY ConvergeAssumption DEF Kinds, ConvergeAssumption
  <2>2. real \in [Caps -> Kinds] /\ known \in [Caps -> Kinds \cup {"none"}]
    BY <2>1 DEF Init
  <2>3. head \in [Caps -> Nat] /\ outside \in 0..MaxOutside
    BY <2>1 DEF Init
  <2>4. pending \in SUBSET Caps
    BY ConvergeAssumption DEF Init, ConvergeAssumption
  <2> QED BY <2>2, <2>3, <2>4 DEF WorldTyped
<1>2. Typed
  BY NoPlanTyped, ReadyTyped, UnmarkedTyped DEF Init, Typed
<1>3. ASSUME NEW r \in Runs PROVE RunInv(r)
  <2>1. run[r] = Ready /\ marks[ApplyID(r)] = Unmarked /\ marks[RunID(r)] = Unmarked
    BY HandlesDiffer DEF Init
  <2> QED BY <2>1 DEF RunInv, At, Ready, Unmarked, Codes, Running
<1> QED BY <1>1, <1>2, <1>3 DEF ConvergeInv

\* A step of one run keeps the invariant when it keeps that run's part of it
\* and leaves the other runs, their markers and their plan files alone.
LEMMA RunSteps ==
  ASSUME ConvergeInv, NEW r \in Runs, WorldTyped', Typed', RunInv(r)',
         pending \subseteq pending',
         \A o \in Runs : o # r =>
             /\ run'[o] = run[o] /\ planFile'[planPathFor(o)] = planFile[planPathFor(o)]
             /\ marks'[RunID(o)] = marks[RunID(o)]
             /\ marks'[ApplyID(o)] = marks[ApplyID(o)]
  PROVE  ConvergeInv'
<1>1. ASSUME NEW o \in Runs, o # r PROVE RunInv(o)'
  <2>1. RunInv(o)
    BY DEF ConvergeInv
  <2> QED BY <1>1, <2>1 DEF RunInv, At
<1> QED BY <1>1 DEF ConvergeInv
\* What a step of one run leaves alone of the others, from the shape of its
\* assignments.
LEMMA OthersAlone ==
  ASSUME ConvergeInv, NEW r \in Runs, NEW new \in RunRecs,
         run' = [run EXCEPT ![r] = new]
  PROVE  /\ run' \in [Runs -> RunRecs] /\ run'[r] = new
         /\ \A o \in Runs : o # r => run'[o] = run[o]
  BY DEF ConvergeInv, Typed

\* Only the markers of the run itself are written, the one of its end included.
LEMMA MarksAlone ==
  ASSUME ConvergeInv, NEW r \in Runs, NEW h \in {RunID(r), ApplyID(r)},
         NEW new \in MarkRecs, marks' = [marks EXCEPT ![h] = new]
  PROVE  /\ marks' \in [Handles -> MarkRecs]
         /\ marks'[h] = new
         /\ \A g \in Handles : g # h => marks'[g] = marks[g]
         /\ \A o \in Runs : o # r =>
                /\ marks'[RunID(o)] = marks[RunID(o)]
                /\ marks'[ApplyID(o)] = marks[ApplyID(o)]
  BY HandlesDiffer DEF ConvergeInv, Typed

\* finish keeps the invariant: the code it ends with is the one it marks.
LEMMA FinishKeeps ==
  ASSUME ConvergeInv, NEW r \in Runs, NEW code \in Codes,
         NEW status \in {"none", "refused", "stale-or-conflict", "failed",
                         "corrupted", "applied", "converged"},
         ~Over(r), code = 0 => run[r].debt = {},
         run' = [run EXCEPT ![r] = Remains(r, "done", code, status)],
         \/ marks' = Concluded(r, code)
         \/ UNCHANGED marks,
         WorldTyped', UNCHANGED <<planFile, pending>>
  PROVE  ConvergeInv'
<1>1. Typed /\ RunInv(r)
  BY DEF ConvergeInv
<1> DEFINE left == Remains(r, "done", code, status)
<1>2. left \in RunRecs /\ left.pc = "done" /\ left.exit = code /\ left.debt = run[r].debt
  BY <1>1, RemainsTyped DEF Exits, Pcs
<1> HIDE DEF left
<1>3. run' = [run EXCEPT ![r] = left]
  BY DEF left
<1>4. /\ run' \in [Runs -> RunRecs] /\ run'[r] = left
      /\ \A o \in Runs : o # r => run'[o] = run[o]
  BY <1>2, <1>3, OthersAlone
<1>5. /\ marks[RunID(r)] \in MarkRecs /\ marks[RunID(r)].exit = Running
  BY <1>1, HandlesDiffer DEF Typed, RunInv, Over, At
<1>6. /\ marks' \in [Handles -> MarkRecs]
      /\ marks'[RunID(r)].exit \in {code, Running}
      /\ marks'[ApplyID(r)] = marks[ApplyID(r)]
      /\ \A o \in Runs : o # r => /\ marks'[RunID(o)] = marks[RunID(o)]
                                  /\ marks'[ApplyID(o)] = marks[ApplyID(o)]
  <2>1. CASE UNCHANGED marks
    BY <1>1, <1>5, <2>1 DEF Typed
  <2>2. CASE marks' = Concluded(r, code)
    <3> DEFINE new == [marks[RunID(r)] EXCEPT !.exit = code]
    <3>1. new \in MarkRecs /\ new.exit = code
      BY <1>5 DEF MarkRecs, Exits
    <3>2. marks' = [marks EXCEPT ![RunID(r)] = new]
      BY <2>2 DEF Concluded
    <3> HIDE DEF new
    <3> QED BY <3>1, <3>2, HandlesDiffer, MarksAlone
  <2> QED BY <2>1, <2>2
<1>7. Typed'
  BY <1>1, <1>4, <1>6 DEF Typed
<1>8. RunInv(r)'
  BY <1>1, <1>2, <1>4, <1>6 DEF RunInv, At, Codes, LeasePcs, Running
<1> QED BY <1>4, <1>6, <1>7, <1>8, RunSteps

\* A step that only moves the run on, and may change what it carries.
LEMMA MoveKeeps ==
  ASSUME ConvergeInv, NEW r \in Runs, NEW new \in RunRecs,
         run' = [run EXCEPT ![r] = new],
         new.pc \in Pcs \ {"done"}, new.exit = Running, ~Over(r),
         new.pc # "dead" => ~marks[ApplyID(r)].lease,
         new.pc \in {"confirm", "apply"} => planFile'[planPathFor(r)].by = r,
         new.pc # "applying", new.debt \subseteq pending,
         new.pc = "witness" => new.debt = {},
         WorldTyped', UNCHANGED <<marks, pending>>,
         \/ UNCHANGED planFile
         \/ planFile' = [planFile EXCEPT ![planPathFor(r)] = SealedPlan(r)]
  PROVE  ConvergeInv'
<1>1. Typed /\ RunInv(r) /\ WorldTyped
  BY DEF ConvergeInv
<1>2. /\ run' \in [Runs -> RunRecs] /\ run'[r] = new
      /\ \A o \in Runs : o # r => run'[o] = run[o]
  BY OthersAlone
<1>3. /\ planFile' \in [{planPathFor(o) : o \in Runs} -> PlanRecs]
      /\ \A o \in Runs : o # r => planFile'[planPathFor(o)] = planFile[planPathFor(o)]
  BY <1>1, SealedTyped, HandlesDiffer DEF Typed, planPathFor
<1>4. Typed'
  BY <1>1, <1>2, <1>3 DEF Typed
<1>5. marks[RunID(r)].exit = Running
  BY <1>1 DEF RunInv, Over, At
<1>6. RunInv(r)'
  BY <1>1, <1>2, <1>5 DEF RunInv, At, Codes, LeasePcs, Running
<1> QED BY <1>2, <1>3, <1>4, <1>6, RunSteps
\* Moving on with the record of the run otherwise as it is.
LEMMA GotoKeeps ==
  ASSUME ConvergeInv, NEW r \in Runs, NEW pc \in Pcs \ {"done", "dead", "applying"},
         Goto(r, pc), ~Over(r), ~marks[ApplyID(r)].lease,
         pc \in {"confirm", "apply"} => planFile'[planPathFor(r)].by = r,
         pc = "witness" => run[r].debt = {},
         WorldTyped', UNCHANGED <<marks, pending>>,
         \/ UNCHANGED planFile
         \/ planFile' = [planFile EXCEPT ![planPathFor(r)] = SealedPlan(r)]
  PROVE  ConvergeInv'
<1> DEFINE new == [run[r] EXCEPT !.pc = pc]
<1>1. Typed /\ RunInv(r)
  BY DEF ConvergeInv
<1>2. run[r] \in RunRecs
  BY <1>1 DEF Typed
<1>3. run[r].exit = Running
  BY <1>1, <1>2 DEF RunInv, RunRecs, Over, At, Exits
<1>4. /\ new \in RunRecs /\ new.pc = pc /\ new.exit = Running /\ new.debt = run[r].debt
  BY <1>2, <1>3 DEF RunRecs
<1>5. run' = [run EXCEPT ![r] = new]
  BY DEF Goto
<1>6. new.debt \subseteq pending
  BY <1>1, <1>4 DEF RunInv
<1> HIDE DEF new
<1> QED BY <1>4, <1>5, <1>6, MoveKeeps

\* A process with no apply under way has no lease.
LEMMA NoLease ==
  ASSUME ConvergeInv, NEW r \in Runs, run[r].pc \notin LeasePcs
  PROVE  ~marks[ApplyID(r)].lease /\ ~Over(r)
<1>1. RunInv(r)
  BY DEF ConvergeInv
<1> QED BY <1>1 DEF RunInv, LeasePcs, Over

\* On to the gates.
LEMMA GatesKeep ==
  ASSUME ConvergeInv, NEW r \in Runs, NEW then \in {"matched", "nothing", "applied"},
         ToGates(r, then), run[r].pc \notin LeasePcs,
         WorldTyped', UNCHANGED <<marks, pending, planFile>>
  PROVE  ConvergeInv'
<1> DEFINE new == [Ready EXCEPT !.pc = "pending", !.then = then,
                       !.held = run[r].held, !.debt = run[r].debt]
<1>1. Typed /\ RunInv(r)
  BY DEF ConvergeInv
<1>2. run[r] \in RunRecs
  BY <1>1 DEF Typed
<1>3. /\ new \in RunRecs /\ new.pc = "pending" /\ new.debt = run[r].debt
  BY <1>2, ReadyTyped DEF RunRecs, Pcs
<1>4. new.exit = Running
  BY DEF Ready
<1>5. run' = [run EXCEPT ![r] = new]
  BY DEF ToGates
<1>6. new.debt \subseteq pending
  BY <1>1, <1>3 DEF RunInv
<1>7. "pending" \in Pcs \ {"done"}
  BY DEF Pcs
<1> HIDE DEF new
<1> QED BY <1>3, <1>4, <1>5, <1>6, <1>7, NoLease, MoveKeeps

------------------------------------------------------------------------------
(* The phases of a run.                                                    *)

\* A step that touches neither the resources nor what the ledger knows of them.
LEMMA SameWorld ==
  ASSUME ConvergeInv, UNCHANGED world, UNCHANGED outside \/ Outside
  PROVE  WorldTyped' /\ UNCHANGED pending
<1>1. WorldTyped
  BY DEF ConvergeInv
<1>2. outside' \in 0..MaxOutside
  BY <1>1, ConvergeAssumption DEF WorldTyped, Outside, ConvergeAssumption
<1> QED BY <1>1, <1>2 DEF WorldTyped, world

\* Observing keeps the types of what is known.
LEMMA ObservedTyped ==
  ASSUME ConvergeInv, NEW read \in SUBSET Caps, Observed(read),
         UNCHANGED <<real, pending, head>>, UNCHANGED outside \/ Outside
  PROVE  WorldTyped'
<1>1. WorldTyped
  BY DEF ConvergeInv
<1>2. outside' \in 0..MaxOutside
  BY <1>1, ConvergeAssumption DEF WorldTyped, Outside, ConvergeAssumption
<1>3. known' \in [Caps -> Kinds \cup {"none"}]
  BY <1>1 DEF WorldTyped, Observed
<1> QED BY <1>1, <1>2, <1>3 DEF WorldTyped

\* The exit through finish, with the step of another actor when its marker is
\* lost.
LEMMA FinishStep ==
  ASSUME ConvergeInv, NEW r \in Runs, NEW code \in Codes,
         NEW status \in {"none", "refused", "stale-or-conflict", "failed",
                         "corrupted", "applied", "converged"},
         Finish(r, code, status), ~Over(r), code = 0 => run[r].debt = {},
         UNCHANGED <<world, planFile>>
  PROVE  ConvergeInv'
<1>1. WorldTyped' /\ UNCHANGED pending
  BY SameWorld DEF Finish, Marked
<1> QED BY <1>1, FinishKeeps DEF Finish, Marked

LEMMA BeginKeeps ==
  ASSUME ConvergeInv, NEW r \in Runs, Begin(r)
  PROVE  ConvergeInv'
<1>1. Typed /\ RunInv(r) /\ WorldTyped' /\ UNCHANGED pending /\ WorldTyped
  BY SameWorld DEF ConvergeInv, Begin, Marked
<1> DEFINE new == [run[r] EXCEPT !.pc = "verify", !.debt = pending]
           mark == [marks[RunID(r)] EXCEPT !.started = TRUE]
<1>2. run[r] \in RunRecs /\ marks[RunID(r)] \in MarkRecs
  BY <1>1, HandlesDiffer DEF Typed
<1>3. new \in RunRecs /\ new.pc = "verify" /\ new.debt = pending /\ new.exit = run[r].exit
  BY <1>1, <1>2 DEF RunRecs, Pcs, WorldTyped
<1>4. mark \in MarkRecs /\ mark.exit = marks[RunID(r)].exit
  BY <1>2 DEF MarkRecs
<1>5. run' = [run EXCEPT ![r] = new]
  BY DEF Begin
<1>6. marks' = [marks EXCEPT ![RunID(r)] = mark] \/ UNCHANGED marks
  BY DEF Begin, Marked
<1> HIDE DEF new, mark
<1>7. /\ run' \in [Runs -> RunRecs] /\ run'[r] = new
      /\ \A o \in Runs : o # r => run'[o] = run[o]
  BY <1>3, <1>5, OthersAlone
<1>8. /\ marks' \in [Handles -> MarkRecs]
      /\ marks'[RunID(r)].exit = marks[RunID(r)].exit
      /\ marks'[ApplyID(r)] = marks[ApplyID(r)]
      /\ \A o \in Runs : o # r => /\ marks'[RunID(o)] = marks[RunID(o)]
                                  /\ marks'[ApplyID(o)] = marks[ApplyID(o)]
  <2>1. CASE UNCHANGED marks
    BY <1>1, <2>1 DEF Typed
  <2>2. CASE marks' = [marks EXCEPT ![RunID(r)] = mark]
    BY <1>4, <2>2, HandlesDiffer, MarksAlone
  <2> QED BY <1>6, <2>1, <2>2
<1>9. Typed'
  BY <1>1, <1>7, <1>8 DEF Typed, Begin
<1>10. run[r].pc = "idle" /\ UNCHANGED planFile
  BY DEF Begin, At
<1>11. RunInv(r)'
  BY <1>1, <1>2, <1>3, <1>7, <1>8, <1>10 DEF RunInv, At, Codes, LeasePcs, Running, RunRecs, Exits
<1> QED BY <1>1, <1>7, <1>8, <1>9, <1>10, <1>11, RunSteps

LEMMA VerifyKeeps ==
  ASSUME ConvergeInv, NEW r \in Runs, Verify(r)
  PROVE  ConvergeInv'
<1>1. run[r].pc = "verify" /\ UNCHANGED <<world, planFile>>
  BY DEF Verify, At
<1>2. ~marks[ApplyID(r)].lease /\ ~Over(r)
  BY <1>1, NoLease DEF LeasePcs
<1>3. CASE Goto(r, "plan") /\ UNCHANGED <<marks, outside>>
  BY <1>1, <1>2, <1>3, SameWorld, GotoKeeps DEF Pcs
<1>4. CASE Finish(r, 2, "refused")
  BY <1>1, <1>2, <1>4, FinishStep DEF Codes
<1> QED BY <1>3, <1>4 DEF Verify

LEMMA ConfirmKeeps ==
  ASSUME ConvergeInv, NEW r \in Runs, Confirm(r)
  PROVE  ConvergeInv'
<1>1. run[r].pc = "confirm" /\ UNCHANGED <<world, planFile>>
  BY DEF Confirm, At
<1>2. ~marks[ApplyID(r)].lease /\ ~Over(r)
  BY <1>1, NoLease DEF LeasePcs
<1>3. planFile'[planPathFor(r)].by = r
  BY <1>1 DEF ConvergeInv, RunInv
<1>4. CASE Goto(r, "apply") /\ UNCHANGED <<marks, outside>>
  BY <1>1, <1>2, <1>3, <1>4, SameWorld, GotoKeeps DEF Pcs
<1>5. CASE Finish(r, 2, "refused")
  BY <1>1, <1>2, <1>5, FinishStep DEF Codes
<1> QED BY <1>4, <1>5 DEF Confirm
LEMMA PlanKeeps ==
  ASSUME ConvergeInv, NEW r \in Runs, Plan(r)
  PROVE  ConvergeInv'
<1>1. run[r].pc = "plan" /\ UNCHANGED world /\ Typed /\ WorldTyped /\ RunInv(r)
  BY DEF Plan, At, ConvergeInv
<1>2. ~marks[ApplyID(r)].lease /\ ~Over(r) /\ run[r].pc \notin LeasePcs
  BY <1>1, NoLease DEF LeasePcs
<1>3. run[r] \in RunRecs /\ run[r].exit = Running /\ run[r].debt \subseteq pending
  BY <1>1 DEF Typed, RunInv, RunRecs, Exits, At
<1>4. CASE /\ run' = [run EXCEPT ![r].pc = "refresh", ![r].observed = TRUE]
           /\ UNCHANGED <<planFile, marks, outside>>
  <2> DEFINE new == [run[r] EXCEPT !.pc = "refresh", !.observed = TRUE]
  <2>1. new \in RunRecs /\ new.pc = "refresh" /\ new.exit = Running
        /\ new.debt = run[r].debt
    BY <1>3 DEF RunRecs, Pcs
  <2>2. run' = [run EXCEPT ![r] = new]
    BY <1>4
  <2>3. WorldTyped' /\ UNCHANGED pending
    BY <1>1, <1>4, SameWorld
  <2>4. "refresh" \in Pcs \ {"done"}
    BY DEF Pcs
  <2> HIDE DEF new
  <2> QED BY <1>2, <1>3, <1>4, <2>1, <2>2, <2>3, <2>4, MoveKeeps
<1>5. CASE Finish(r, 2, "refused") /\ UNCHANGED planFile
  BY <1>1, <1>2, <1>5, FinishStep DEF Codes
<1>6. CASE ToGates(r, "matched") /\ UNCHANGED <<planFile, marks, outside>>
  BY <1>1, <1>2, <1>6, SameWorld, GatesKeep
<1>7. CASE /\ run' = [run EXCEPT ![r].pc = "confirm", ![r].held = Held,
                                 ![r].using = SealedPlan(r)]
           /\ planFile' = [planFile EXCEPT ![planPathFor(r)] = SealedPlan(r)]
           /\ UNCHANGED <<marks, outside>>
  <2> DEFINE new == [run[r] EXCEPT !.pc = "confirm", !.held = Held,
                                   !.using = SealedPlan(r)]
  <2>1. SealedPlan(r) \in PlanRecs /\ SealedPlan(r).by = r
    BY <1>1, SealedTyped
  <2>2. Held \in SUBSET Caps
    BY DEF Held, Live
  <2>3. new \in RunRecs /\ new.pc = "confirm" /\ new.exit = Running
        /\ new.debt = run[r].debt
    BY <1>3, <2>1, <2>2 DEF RunRecs, Pcs
  <2>4. run' = [run EXCEPT ![r] = new]
    BY <1>7
  <2>5. planFile'[planPathFor(r)].by = r
    BY <1>1, <1>7, <2>1 DEF Typed
  <2>6. WorldTyped' /\ UNCHANGED pending
    BY <1>1, <1>7, SameWorld
  <2>7. "confirm" \in Pcs \ {"done"}
    BY DEF Pcs
  <2> HIDE DEF new
  <2> QED BY <1>2, <1>3, <1>7, <2>3, <2>4, <2>5, <2>6, <2>7, MoveKeeps
<1> QED BY <1>4, <1>5, <1>6, <1>7 DEF Plan

LEMMA ReplanKeeps ==
  ASSUME ConvergeInv, NEW r \in Runs, Replan(r)
  PROVE  ConvergeInv'
<1>1. run[r].pc = "replan" /\ UNCHANGED world /\ Typed /\ WorldTyped
  BY DEF Replan, At, ConvergeInv
<1>2. ~marks[ApplyID(r)].lease /\ ~Over(r) /\ run[r].pc \notin LeasePcs
  BY <1>1, NoLease DEF LeasePcs
<1>3. CASE Finish(r, 2, "refused") /\ UNCHANGED planFile
  BY <1>1, <1>2, <1>3, FinishStep DEF Codes
<1>4. CASE ToGates(r, "nothing") /\ UNCHANGED <<planFile, marks, outside>>
  BY <1>1, <1>2, <1>4, SameWorld, GatesKeep
<1>5. CASE /\ planFile' = [planFile EXCEPT ![planPathFor(r)] = SealedPlan(r)]
           /\ Goto(r, "apply") /\ UNCHANGED <<marks, outside>>
  <2>1. planFile'[planPathFor(r)].by = r
    BY <1>1, <1>5, SealedTyped DEF Typed
  <2>2. WorldTyped' /\ UNCHANGED pending
    BY <1>1, <1>5, SameWorld
  <2>3. "apply" \in Pcs \ {"done", "dead", "applying"}
    BY DEF Pcs
  <2> QED BY <1>2, <1>5, <2>1, <2>2, <2>3, GotoKeeps
<1> QED BY <1>3, <1>4, <1>5 DEF Replan

LEMMA RefreshKeeps ==
  ASSUME ConvergeInv, NEW r \in Runs, Refresh(r)
  PROVE  ConvergeInv'
<1>1. run[r].pc = "refresh" /\ UNCHANGED <<real, pending, head, planFile>>
  BY DEF Refresh, At
<1>2. ~marks[ApplyID(r)].lease /\ ~Over(r)
  BY <1>1, NoLease DEF LeasePcs
<1>3. ASSUME NEW read \in SUBSET Caps, Observed(read), Goto(r, "plan"),
             UNCHANGED <<marks, outside>>
      PROVE  ConvergeInv'
  <2>1. WorldTyped'
    BY <1>1, <1>3, ObservedTyped
  <2> QED BY <1>1, <1>2, <1>3, <2>1, GotoKeeps DEF Pcs
<1>4. CASE Finish(r, 2, "refused") /\ UNCHANGED known
  BY <1>1, <1>2, <1>4, FinishStep DEF Codes, world
<1> QED BY <1>3, <1>4 DEF Refresh

LEMMA ObserveKeeps ==
  ASSUME ConvergeInv, NEW r \in Runs, Observe(r)
  PROVE  ConvergeInv'
<1>1. run[r].pc = "observe" /\ UNCHANGED <<real, pending, head, planFile>>
  BY DEF Observe, At
<1>2. ~Over(r) /\ run[r].pc \notin LeasePcs
  BY <1>1, NoLease DEF LeasePcs
<1>3. UNCHANGED outside \/ Outside
  BY DEF Observe, Finish, Marked
<1>4. WorldTyped'
  <2>1. CASE UNCHANGED known
    BY <1>1, <1>3, <2>1, SameWorld DEF world
  <2>2. ASSUME NEW read \in SUBSET Caps, Observed(read) PROVE WorldTyped'
    BY <1>1, <1>3, <2>2, ObservedTyped
  <2> QED BY <2>1, <2>2 DEF Observe
<1>5. CASE Finish(r, 2, "applied")
  <2>1. /\ run' = [run EXCEPT ![r] = Remains(r, "done", 2, "applied")]
        /\ marks' = Concluded(r, 2) \/ UNCHANGED marks
    BY <1>5 DEF Finish, Marked
  <2>2. 2 \in Codes /\ 2 # 0
    BY DEF Codes
  <2> QED BY <1>1, <1>2, <1>4, <2>1, <2>2, FinishKeeps
<1>6. CASE ToGates(r, "applied") /\ UNCHANGED <<marks, outside>>
  BY <1>1, <1>2, <1>4, <1>6, GatesKeep
<1> QED BY <1>5, <1>6 DEF Observe

LEMMA ReportKeeps ==
  ASSUME ConvergeInv, NEW r \in Runs, Report(r)
  PROVE  ConvergeInv'
<1>1. run[r].pc = "report" /\ UNCHANGED <<world, planFile>> /\ Finish(r, 4, "failed")
  BY DEF Report, At
<1>2. ~Over(r)
  BY <1>1 DEF Over
<1> QED BY <1>1, <1>2, FinishStep DEF Codes

\* The gate: behind it the run owes nothing, since what it owes is pending.
LEMMA PendingKeeps ==
  ASSUME ConvergeInv, NEW r \in Runs, refuseIfPending(r)
  PROVE  ConvergeInv'
<1>1. run[r].pc = "pending" /\ UNCHANGED <<world, planFile>>
  BY DEF refuseIfPending, At
<1>2. ~marks[ApplyID(r)].lease /\ ~Over(r)
  BY <1>1, NoLease DEF LeasePcs
<1>3. CASE Finish(r, 3, "refused")
  BY <1>1, <1>2, <1>3, FinishStep DEF Codes
<1>4. CASE pendingBlocker = {} /\ Goto(r, "witness") /\ UNCHANGED <<marks, outside>>
  <2>1. run[r].debt = {}
    BY <1>4 DEF ConvergeInv, RunInv, WorldTyped, pendingBlocker
  <2>2. WorldTyped' /\ UNCHANGED pending
    BY <1>1, <1>4, SameWorld
  <2> QED BY <1>1, <1>2, <1>4, <2>1, <2>2, GotoKeeps DEF Pcs
<1> QED BY <1>3, <1>4 DEF refuseIfPending

LEMMA WitnessKeeps ==
  ASSUME ConvergeInv, NEW r \in Runs, witnessReality(r)
  PROVE  ConvergeInv'
<1>1. run[r].pc = "witness" /\ UNCHANGED <<world, planFile>>
  BY DEF witnessReality, At
<1>2. ~Over(r) /\ run[r].debt = {}
  BY <1>1 DEF Over, ConvergeInv, RunInv, At
<1>3. \E code \in Codes, status \in {"refused", "applied", "converged"} :
          Finish(r, code, status)
  <2>1. CASE Finish(r, 2, IF run[r].then = "matched" THEN "refused" ELSE "applied")
    BY <2>1 DEF Codes
  <2>2. CASE Finish(r, 0, "converged")
    BY <2>2 DEF Codes
  <2>3. CASE \E code \in {0, 2} : Finish(r, code, "applied")
    BY <2>3 DEF Codes
  <2> QED BY <2>1, <2>2, <2>3 DEF witnessReality
<1> QED BY <1>1, <1>2, <1>3, FinishStep

LEMMA BreaksKeeps ==
  ASSUME ConvergeInv, NEW r \in Runs, ChildBreaks(r)
  PROVE  ConvergeInv'
<1>1. run[r].pc \in {"verify", "plan", "replan", "apply", "witness"}
  BY DEF ChildBreaks, exitStatus
<1>2. ~Over(r)
  BY <1>1 DEF Over
<1>3. PICK e \in exitStatus[run[r].pc] :
        run' = [run EXCEPT ![r] = Remains(r, "done", e[1], e[2])]
  BY DEF ChildBreaks
<1>4. e[1] \in {2, 4, 5} /\ e[2] \in {"refused", "failed", "corrupted", "applied"}
  BY <1>1 DEF exitStatus
<1>5. Typed
  BY DEF ConvergeInv
<1>6. run'[r].exit = e[1]
  <2>1. e[1] \in Exits /\ "done" \in Pcs
    BY <1>4 DEF Exits, Codes, Pcs
  <2>2. Remains(r, "done", e[1], e[2]) \in RunRecs
        /\ Remains(r, "done", e[1], e[2]).exit = e[1]
    BY <1>4, <1>5, <2>1, RemainsTyped
  <2> QED BY <1>3, <2>2, OthersAlone
<1>7. WorldTyped' /\ UNCHANGED <<planFile, pending>> /\ marks' = Concluded(r, e[1])
  BY <1>6, SameWorld DEF ChildBreaks
<1>8. e[1] \in Codes /\ e[1] # 0
  BY <1>4 DEF Codes
<1> QED BY <1>2, <1>3, <1>4, <1>7, <1>8, FinishKeeps
------------------------------------------------------------------------------
(* The apply child, and its end by force.                                  *)

\* What an apply leaves of the world; a receipt it cannot conclude stays.
LEMMA LandedTyped ==
  ASSUME ConvergeInv, NEW r \in Runs, NEW done \in SUBSET run[r].using.acts,
         NEW lost \in SUBSET (run[r].using.acts \ done), Landed(r, done, lost),
         UNCHANGED outside \/ Outside
  PROVE  WorldTyped' /\ pending \subseteq pending'
<1>1. WorldTyped /\ run[r] \in RunRecs
  BY DEF ConvergeInv, Typed
<1>2. lost \subseteq Caps
  BY <1>1 DEF RunRecs, PlanRecs
<1>3. outside' \in 0..MaxOutside
  BY <1>1, ConvergeAssumption DEF WorldTyped, Outside, ConvergeAssumption
<1>4. real' \in [Caps -> Kinds]
  BY <1>1 DEF WorldTyped, Landed, Kinds
<1>5. known' \in [Caps -> Kinds \cup {"none"}]
  BY <1>1 DEF WorldTyped, Landed, Kinds
<1>6. head' \in [Caps -> Nat]
  BY <1>1 DEF WorldTyped, Landed
<1>7. pending' \in SUBSET Caps /\ pending \subseteq pending'
  BY <1>1, <1>2 DEF WorldTyped, Landed
<1> QED BY <1>3, <1>4, <1>5, <1>6, <1>7 DEF WorldTyped

\* A step of a run and of the apply child under its handle.
LEMMA ChildKeeps ==
  ASSUME ConvergeInv, NEW r \in Runs, NEW new \in RunRecs, NEW mark \in MarkRecs,
         run' = [run EXCEPT ![r] = new], marks' = [marks EXCEPT ![ApplyID(r)] = mark],
         ~Over(r), new.exit = Running, new.debt = run[r].debt,
         new.pc \notin {"done", "witness", "confirm", "apply"},
         new.pc = "applying" => new.using.by = r,
         mark.lease => new.pc \in LeasePcs,
         WorldTyped', pending \subseteq pending', UNCHANGED planFile
  PROVE  ConvergeInv'
<1>1. Typed /\ RunInv(r)
  BY DEF ConvergeInv
<1>2. /\ run' \in [Runs -> RunRecs] /\ run'[r] = new
      /\ \A o \in Runs : o # r => run'[o] = run[o]
  BY OthersAlone
<1>3. /\ marks' \in [Handles -> MarkRecs] /\ marks'[ApplyID(r)] = mark
      /\ marks'[RunID(r)] = marks[RunID(r)]
      /\ \A o \in Runs : o # r => /\ marks'[RunID(o)] = marks[RunID(o)]
                                  /\ marks'[ApplyID(o)] = marks[ApplyID(o)]
  BY MarksAlone, HandlesDiffer
<1>4. Typed'
  BY <1>1, <1>2, <1>3 DEF Typed
<1>5. marks[RunID(r)].exit = Running
  BY <1>1 DEF RunInv, Over, At
<1>6. RunInv(r)'
  BY <1>1, <1>2, <1>3, <1>5 DEF RunInv, At, Codes, Running
<1> QED BY <1>2, <1>3, <1>4, <1>6, RunSteps

LEMMA ApplyBeginsKeeps ==
  ASSUME ConvergeInv, NEW r \in Runs, ApplyBegins(r)
  PROVE  ConvergeInv'
<1> DEFINE plan == planFile[planPathFor(r)]
<1>1. run[r].pc = "apply" /\ UNCHANGED <<world, planFile>> /\ Typed /\ RunInv(r)
  BY DEF ApplyBegins, At, ConvergeInv
<1>2. ~Over(r) /\ run[r].pc \notin LeasePcs
  BY <1>1, NoLease DEF LeasePcs
<1>3. CASE ToGates(r, "nothing") /\ UNCHANGED <<marks, outside>>
  BY <1>1, <1>2, <1>3, SameWorld, GatesKeep
<1>4. CASE Finish(r, 3, "stale-or-conflict")
  BY <1>1, <1>2, <1>4, FinishStep DEF Codes
<1>5. CASE /\ run' = [run EXCEPT ![r].pc = "applying", ![r].using = plan]
           /\ marks' = [marks EXCEPT ![ApplyID(r)] =
                           [Unmarked EXCEPT !.started = TRUE, !.lease = TRUE]]
           /\ UNCHANGED outside
  <2> DEFINE new == [run[r] EXCEPT !.pc = "applying", !.using = plan]
             mark == [Unmarked EXCEPT !.started = TRUE, !.lease = TRUE]
  <2>1. plan \in PlanRecs /\ plan.by = r
    BY <1>1 DEF Typed, RunInv
  <2>2. run[r] \in RunRecs /\ run[r].exit = Running
    BY <1>1 DEF Typed, RunInv, RunRecs, Exits, At
  <2>3. new \in RunRecs /\ new.pc = "applying" /\ new.exit = Running
        /\ new.debt = run[r].debt /\ new.using.by = r
    BY <2>1, <2>2 DEF RunRecs, Pcs
  <2>4. mark \in MarkRecs
    BY DEF MarkRecs, Unmarked, Exits
  <2>5. run' = [run EXCEPT ![r] = new]
    BY <1>5
  <2>6. marks' = [marks EXCEPT ![ApplyID(r)] = mark]
    BY <1>5
  <2>7. WorldTyped' /\ UNCHANGED pending
    BY <1>1, <1>5, SameWorld
  <2> HIDE DEF new, mark, plan
  <2> QED BY <1>1, <1>2, <2>3, <2>4, <2>5, <2>6, <2>7, ChildKeeps DEF LeasePcs
<1> QED BY <1>3, <1>4, <1>5 DEF ApplyBegins

\* What the child leaves under its handle.
LEMMA AppliedTyped ==
  ASSUME ConvergeInv, NEW r \in Runs, NEW exit \in Codes, NEW lost
  PROVE  Applied(r, exit, lost) \in MarkRecs /\ ~Applied(r, exit, lost).lease
<1>1. marks[ApplyID(r)] \in MarkRecs
  BY HandlesDiffer DEF ConvergeInv, Typed
<1>2. (lost # {}) \in BOOLEAN
  OBVIOUS
<1> QED BY <1>1, <1>2 DEF Applied, MarkRecs, Exits

LEMMA ApplyEndsKeeps ==
  ASSUME ConvergeInv, NEW r \in Runs, ApplyEnds(r)
  PROVE  ConvergeInv'
<1>1. run[r].pc = "applying" /\ UNCHANGED <<planFile, outside>> /\ Typed /\ RunInv(r)
  BY DEF ApplyEnds, At, ConvergeInv
<1>2. ~Over(r) /\ run[r] \in RunRecs /\ run[r].exit = Running
  BY <1>1 DEF Over, Typed, RunInv, RunRecs, Exits, At
<1>3. ASSUME NEW done \in SUBSET run[r].using.acts,
             NEW lost \in SUBSET (run[r].using.acts \ done),
             NEW exit \in Codes, NEW new \in RunRecs,
             Landed(r, done, lost),
             marks' = [marks EXCEPT ![ApplyID(r)] = Applied(r, exit, lost)],
             run' = [run EXCEPT ![r] = new],
             new.pc \in {"observe", "replan", "report"}, new.exit = Running,
             new.debt = run[r].debt
      PROVE  ConvergeInv'
  <2>1. WorldTyped' /\ pending \subseteq pending'
    BY <1>1, <1>3, LandedTyped
  <2>2. Applied(r, exit, lost) \in MarkRecs /\ ~Applied(r, exit, lost).lease
    BY AppliedTyped
  <2> QED BY <1>1, <1>2, <1>3, <2>1, <2>2, ChildKeeps
<1>4. PICK done \in SUBSET run[r].using.acts :
        LET left == run[r].using.acts \ done IN
        \/ /\ left = {}
           /\ Landed(r, done, {})
           /\ marks' = [marks EXCEPT ![ApplyID(r)] = Applied(r, 0, {})]
           /\ Goto(r, "observe")
        \/ /\ left # {} /\ run[r].attempt < MaxApplyRetries
           /\ Landed(r, done, {})
           /\ marks' = [marks EXCEPT ![ApplyID(r)] = Applied(r, 4, {})]
           /\ run' = [run EXCEPT ![r].pc = "replan", ![r].attempt = @ + 1]
        \/ /\ left # {}
           /\ \E lost \in SUBSET left :
                  /\ Landed(r, done, lost)
                  /\ marks' = [marks EXCEPT ![ApplyID(r)] = Applied(r, 4, lost)]
           /\ Goto(r, "report")
  BY DEF ApplyEnds
<1>5. {} \in SUBSET (run[r].using.acts \ done) /\ 0 \in Codes /\ 4 \in Codes
  BY DEF Codes
<1>6. ASSUME NEW pc \in {"observe", "report"}, Goto(r, pc)
      PROVE  /\ run' = [run EXCEPT ![r] = [run[r] EXCEPT !.pc = pc]]
             /\ [run[r] EXCEPT !.pc = pc] \in RunRecs
             /\ [run[r] EXCEPT !.pc = pc].pc = pc
             /\ [run[r] EXCEPT !.pc = pc].exit = Running
             /\ [run[r] EXCEPT !.pc = pc].debt = run[r].debt
  BY <1>2, <1>6 DEF Goto, RunRecs, Pcs
<1>7. CASE /\ Landed(r, done, {}) /\ Goto(r, "observe")
           /\ marks' = [marks EXCEPT ![ApplyID(r)] = Applied(r, 0, {})]
  BY <1>3, <1>5, <1>6, <1>7
<1>8. CASE /\ run[r].attempt < MaxApplyRetries /\ Landed(r, done, {})
           /\ marks' = [marks EXCEPT ![ApplyID(r)] = Applied(r, 4, {})]
           /\ run' = [run EXCEPT ![r].pc = "replan", ![r].attempt = @ + 1]
  <2> DEFINE new == [run[r] EXCEPT !.pc = "replan", !.attempt = @ + 1]
  <2>1. run[r].attempt + 1 \in 0..MaxApplyRetries
    BY <1>2, <1>8, ConvergeAssumption DEF RunRecs, ConvergeAssumption
  <2>2. new \in RunRecs /\ new.pc = "replan" /\ new.exit = Running
        /\ new.debt = run[r].debt
    BY <1>2, <2>1 DEF RunRecs, Pcs
  <2>3. run' = [run EXCEPT ![r] = new]
    BY <1>8
  <2> HIDE DEF new
  <2> QED BY <1>3, <1>5, <1>8, <2>2, <2>3
<1>9. ASSUME NEW lost \in SUBSET (run[r].using.acts \ done), Landed(r, done, lost),
             marks' = [marks EXCEPT ![ApplyID(r)] = Applied(r, 4, lost)],
             Goto(r, "report")
      PROVE  ConvergeInv'
  BY <1>3, <1>5, <1>6, <1>9
<1> QED BY <1>4, <1>7, <1>8, <1>9

\* A killed child leaves its lease where it was.
LEMMA AbandonedTyped ==
  ASSUME ConvergeInv, NEW r \in Runs, Abandoned(r), Outside
  PROVE  /\ WorldTyped' /\ pending \subseteq pending'
         /\ \E mark \in MarkRecs : marks' = [marks EXCEPT ![ApplyID(r)] = mark]
<1>1. PICK done \in SUBSET run[r].using.acts :
      \E lost \in {{}} \cup {{c} : c \in run[r].using.acts \ done} :
        /\ Landed(r, done, lost)
        /\ marks' = [marks EXCEPT ![ApplyID(r)].pending = lost # {}]
  BY DEF Abandoned
<1>2. PICK lost \in {{}} \cup {{c} : c \in run[r].using.acts \ done} :
        /\ Landed(r, done, lost)
        /\ marks' = [marks EXCEPT ![ApplyID(r)].pending = lost # {}]
  BY <1>1
<1>3. lost \in SUBSET (run[r].using.acts \ done)
  OBVIOUS
<1>4. WorldTyped' /\ pending \subseteq pending'
  BY <1>2, <1>3, LandedTyped
<1> DEFINE mark == [marks[ApplyID(r)] EXCEPT !.pending = lost # {}]
<1>5. marks[ApplyID(r)] \in MarkRecs
  BY HandlesDiffer DEF ConvergeInv, Typed
<1>6. mark \in MarkRecs
  <2>1. (lost # {}) \in BOOLEAN
    OBVIOUS
  <2> QED BY <1>5, <2>1 DEF MarkRecs
<1>7. marks' = [marks EXCEPT ![ApplyID(r)] = mark]
  BY <1>2
<1> QED BY <1>4, <1>6, <1>7

LEMMA KillChildKeeps ==
  ASSUME ConvergeInv, NEW r \in Runs, KillChild(r)
  PROVE  ConvergeInv'
<1>1. run[r].pc = "applying" /\ UNCHANGED planFile /\ Typed /\ RunInv(r)
  BY DEF KillChild, At, ConvergeInv
<1>2. ~Over(r) /\ run[r] \in RunRecs /\ run[r].exit = Running
  BY <1>1 DEF Over, Typed, RunInv, RunRecs, Exits, At
<1>3. PICK mark \in MarkRecs : marks' = [marks EXCEPT ![ApplyID(r)] = mark]
  BY AbandonedTyped DEF KillChild
<1>4. WorldTyped' /\ pending \subseteq pending'
  BY AbandonedTyped DEF KillChild
<1> DEFINE new == [run[r] EXCEPT !.pc = "report"]
<1>5. new \in RunRecs /\ new.pc = "report" /\ new.exit = Running
      /\ new.debt = run[r].debt
  BY <1>2 DEF RunRecs, Pcs
<1>6. run' = [run EXCEPT ![r] = new]
  BY DEF KillChild, Goto
<1> HIDE DEF new
<1> QED BY <1>1, <1>2, <1>3, <1>4, <1>5, <1>6, ChildKeeps DEF LeasePcs

LEMMA KillKeeps ==
  ASSUME ConvergeInv, NEW r \in Runs, Kill(r)
  PROVE  ConvergeInv'
<1>1. ~Over(r) /\ UNCHANGED planFile /\ Typed /\ RunInv(r) /\ Outside
  BY DEF Kill, ConvergeInv
<1> DEFINE new == Remains(r, "dead", Running, "none")
<1>2. new \in RunRecs /\ new.pc = "dead" /\ new.exit = Running
      /\ new.debt = run[r].debt
  BY <1>1, RemainsTyped DEF Pcs, Exits
<1>3. run' = [run EXCEPT ![r] = new]
  BY DEF Kill
<1> HIDE DEF new
<1>4. CASE UNCHANGED <<world, marks>>
  <2>1. WorldTyped' /\ UNCHANGED pending
    BY <1>1, <1>4, SameWorld
  <2>2. new.debt \subseteq pending
    BY <1>1, <1>2 DEF RunInv
  <2> QED BY <1>1, <1>2, <1>3, <1>4, <2>1, <2>2, MoveKeeps DEF Pcs
<1>5. CASE Abandoned(r)
  <2>1. WorldTyped' /\ pending \subseteq pending'
    BY <1>1, <1>5, AbandonedTyped
  <2>2. PICK mark \in MarkRecs : marks' = [marks EXCEPT ![ApplyID(r)] = mark]
    BY <1>1, <1>5, AbandonedTyped
  <2> QED BY <1>1, <1>2, <1>3, <2>1, <2>2, ChildKeeps DEF LeasePcs
<1> QED BY <1>4, <1>5 DEF Kill

LEMMA LapseKeeps ==
  ASSUME ConvergeInv, NEW r \in Runs, Lapse(r)
  PROVE  ConvergeInv'
<1>1. /\ run[r].pc \in {"done", "dead"} /\ UNCHANGED <<world, planFile, outside>>
      /\ Typed /\ RunInv(r)
  BY DEF Lapse, Over, ConvergeInv
<1> DEFINE new == [run[r] EXCEPT !.using = NoPlan]
           mark == [marks[ApplyID(r)] EXCEPT !.lease = FALSE]
<1>2. run[r] \in RunRecs /\ marks[ApplyID(r)] \in MarkRecs
  BY <1>1, HandlesDiffer DEF Typed
<1>3. /\ new \in RunRecs /\ new.pc = run[r].pc /\ new.exit = run[r].exit
      /\ new.debt = run[r].debt
  BY <1>2, NoPlanTyped DEF RunRecs
<1>4. mark \in MarkRecs /\ ~mark.lease
  BY <1>2 DEF MarkRecs
<1>5. run' = [run EXCEPT ![r] = new] /\ marks' = [marks EXCEPT ![ApplyID(r)] = mark]
  BY DEF Lapse
<1> HIDE DEF new, mark
<1>6. /\ run' \in [Runs -> RunRecs] /\ run'[r] = new
      /\ \A o \in Runs : o # r => run'[o] = run[o]
  BY <1>3, <1>5, OthersAlone
<1>7. /\ marks' \in [Handles -> MarkRecs] /\ marks'[ApplyID(r)] = mark
      /\ marks'[RunID(r)] = marks[RunID(r)]
      /\ \A o \in Runs : o # r => /\ marks'[RunID(o)] = marks[RunID(o)]
                                  /\ marks'[ApplyID(o)] = marks[ApplyID(o)]
  BY <1>4, <1>5, MarksAlone, HandlesDiffer
<1>8. WorldTyped' /\ UNCHANGED pending
  BY <1>1, SameWorld
<1>9. Typed'
  BY <1>1, <1>6, <1>7 DEF Typed
<1>10. RunInv(r)'
  BY <1>1, <1>3, <1>4, <1>6, <1>7, <1>8 DEF RunInv, At
<1> QED BY <1>1, <1>6, <1>7, <1>8, <1>9, <1>10, RunSteps

------------------------------------------------------------------------------
(* The other actors.                                                       *)

\* A step that touches no run keeps the invariant when nothing stops being
\* pending.
LEMMA OutsideKeeps ==
  ASSUME ConvergeInv, WorldTyped', UNCHANGED <<pending, planFile, run, marks>>
  PROVE  ConvergeInv'
<1>1. Typed'
  BY DEF ConvergeInv, Typed
<1>2. ASSUME NEW r \in Runs PROVE RunInv(r)'
  <2>1. RunInv(r)
    BY DEF ConvergeInv
  <2> QED BY <2>1 DEF RunInv, At
<1> QED BY <1>1, <1>2 DEF ConvergeInv

LEMMA DriftKeeps ==
  ASSUME ConvergeInv, NEW c \in Caps, NEW kind \in Drifts \cup {"match"},
         Drift(c, kind)
  PROVE  ConvergeInv'
<1>1. WorldTyped
  BY DEF ConvergeInv
<1>2. kind \in Kinds
  BY ConvergeAssumption DEF Kinds, ConvergeAssumption
<1>3. real' \in [Caps -> Kinds]
  BY <1>1, <1>2 DEF WorldTyped, Drift
<1>4. outside' \in 0..MaxOutside
  BY <1>1, ConvergeAssumption DEF WorldTyped, Drift, Outside, ConvergeAssumption
<1>5. WorldTyped'
  BY <1>1, <1>3, <1>4 DEF WorldTyped, Drift
<1> QED BY <1>5, OutsideKeeps DEF Drift

LEMMA OtherObserveKeeps ==
  ASSUME ConvergeInv, OtherObserve
  PROVE  ConvergeInv'
<1>1. WorldTyped'
  BY ObservedTyped DEF OtherObserve
<1> QED BY <1>1, OutsideKeeps DEF OtherObserve

\* resume concludes a receipt, and with it what any run owes on its account.
LEMMA ResumeKeeps ==
  ASSUME ConvergeInv, NEW c \in Caps, OtherResume(c)
  PROVE  ConvergeInv'
<1>1. WorldTyped /\ Typed
  BY DEF ConvergeInv
<1>2. WorldTyped'
  <2>1. known' \in [Caps -> Kinds \cup {"none"}]
    BY <1>1 DEF WorldTyped, OtherResume, Kinds
  <2>2. head' \in [Caps -> Nat] /\ pending' \in SUBSET Caps
    BY <1>1 DEF WorldTyped, OtherResume
  <2>3. outside' \in 0..MaxOutside
    BY <1>1, ConvergeAssumption DEF WorldTyped, OtherResume, Outside, ConvergeAssumption
  <2> QED BY <1>1, <2>1, <2>2, <2>3 DEF WorldTyped, OtherResume
<1>3. ASSUME NEW r \in Runs
      PROVE  /\ run'[r] \in RunRecs /\ run'[r].pc = run[r].pc
             /\ run'[r].exit = run[r].exit /\ run'[r].using = run[r].using
             /\ run'[r].debt = run[r].debt \ {c}
  <2>1. run[r] \in RunRecs
    BY <1>1 DEF Typed
  <2>2. run'[r] = [run[r] EXCEPT !.debt = @ \ {c}]
    BY DEF OtherResume
  <2> QED BY <2>1, <2>2 DEF RunRecs
<1>4. run' \in [Runs -> RunRecs]
  <2>1. run' = [r \in Runs |-> run'[r]]
    BY DEF OtherResume
  <2> QED BY <1>3, <2>1
<1>5. Typed'
  BY <1>1, <1>4 DEF Typed, OtherResume
<1>6. ASSUME NEW r \in Runs PROVE RunInv(r)'
  <2>1. RunInv(r) /\ pending' = pending \ {c} /\ UNCHANGED <<planFile, marks>>
    BY DEF ConvergeInv, OtherResume
  <2> QED BY <1>3, <2>1 DEF RunInv, At
<1> QED BY <1>2, <1>5, <1>6 DEF ConvergeInv

LEMMA StepConverge == ConvergeInv /\ [Next]_vars => ConvergeInv'
<1> SUFFICES ASSUME ConvergeInv, [Next]_vars PROVE ConvergeInv'
  OBVIOUS
<1>1. ASSUME NEW r \in Runs, Phase(r) PROVE ConvergeInv'
  BY <1>1, VerifyKeeps, PlanKeeps, RefreshKeeps, ConfirmKeeps, ApplyBeginsKeeps,
     ApplyEndsKeeps, ReportKeeps, ReplanKeeps, ObserveKeeps, PendingKeeps,
     WitnessKeeps, BreaksKeeps DEF Phase
<1>2. CASE UNCHANGED vars
  <2>1. WorldTyped'
    BY <1>2 DEF ConvergeInv, WorldTyped, vars
  <2> QED BY <1>2, <2>1, OutsideKeeps DEF vars
<1>3. CASE Next
  BY <1>1, <1>3, BeginKeeps, KillKeeps, KillChildKeeps, LapseKeeps, DriftKeeps,
     OtherObserveKeeps, ResumeKeeps DEF Next
<1> QED BY <1>2, <1>3

------------------------------------------------------------------------------
(* The theorems.                                                           *)

LEMMA ConvergeHolds == Spec => []ConvergeInv
  BY InitConverge, StepConverge, PTL DEF Spec

\* The state keeps its types, an exit code goes with the end of a process and
\* a live lease with an apply or the remains of one.
THEOREM ConvergeTyped == Spec => []TypeOK
<1>1. ASSUME ConvergeInv PROVE TypeOK
  <2>1. \A r \in Runs : run[r] \in RunRecs /\ RunInv(r)
    BY <1>1 DEF ConvergeInv, Typed
  <2>2. \A r \in Runs : /\ run[r].pc \in Pcs
                        /\ run[r].attempt \in 0..MaxApplyRetries
    BY <2>1 DEF RunRecs
  <2>3. WorldTyped
    BY <1>1 DEF ConvergeInv
  <2> QED BY <2>1, <2>2, <2>3 DEF TypeOK, WorldTyped, RunInv, Codes, LeasePcs
<1> QED BY <1>1, ConvergeHolds, PTL

\* A run that ends green leaves no receipt unresolved that it found when it
\* began: refuseIfPending looks at every capability of the contract, and what a
\* run owes stays pending until somebody concludes it.
THEOREM GreenOwes == Spec => []GreenOwesNothing
<1>1. ConvergeInv => GreenOwesNothing
  BY DEF ConvergeInv, RunInv, GreenOwesNothing
<1> QED BY <1>1, ConvergeHolds, PTL

\* The apply child executes the plan its own run sealed, however many runs work
\* in the directory: planPathFor gives each its own file.
THEOREM OwnPlanApplied == Spec => []AppliesOwnPlan
<1>1. ConvergeInv => AppliesOwnPlan
  BY DEF ConvergeInv, RunInv, AppliesOwnPlan
<1> QED BY <1>1, ConvergeHolds, PTL

\* When status calls a run done or failed that run has ended, and wait returns
\* the code it ended with.
THEOREM WaitTells == Spec => []WaitRelaysExit
<1>1. ASSUME ConvergeInv PROVE WaitRelaysExit
  <2> SUFFICES ASSUME NEW r \in Runs,
                      DeriveRunStatus(RunID(r)) \in {"done", "failed"}
               PROVE  At(r, "done") /\ run[r].exit = runWait(RunID(r))
    BY DEF WaitRelaysExit
  <2>1. marks[RunID(r)] \in MarkRecs /\ RunInv(r)
    BY <1>1, HandlesDiffer DEF ConvergeInv, Typed
  <2>2. /\ marks[RunID(r)].started \in BOOLEAN /\ marks[RunID(r)].exit \in Exits
        /\ marks[RunID(r)].lease \in BOOLEAN /\ marks[RunID(r)].pending \in BOOLEAN
    BY <2>1 DEF MarkRecs
  <2>3. marks[RunID(r)].exit # Running
    <3> SUFFICES ASSUME marks[RunID(r)].exit = Running PROVE FALSE
      OBVIOUS
    <3> QED BY <2>2 DEF DeriveRunStatus, Running
  <2>4. runWait(RunID(r)) = marks[RunID(r)].exit
    BY DEF runWait
  <2> QED BY <2>1, <2>3, <2>4 DEF RunInv
<1> QED BY <1>1, ConvergeHolds, PTL
===============================================================================

------------------------------- MODULE Evidence -------------------------------
(***************************************************************************)
(* What the ledger knows of one attribute of one capability, and what the  *)
(* verbs make of it: observe, probe and adopt record readings, the fold    *)
(* projects them, and plan, refresh, audit and horizon each judge how      *)
(* fresh and how strong they are.  audit --record also keeps the alarm     *)
(* state of the hard constraint on the attribute.                          *)
(*                                                                         *)
(* Nobody here takes a lease: a reading is taken and recorded, and a       *)
(* verdict reached and recorded, in two steps with the others in between.  *)
(* A value is abstracted to whether the constraint holds of it.            *)
(***************************************************************************)
EXTENDS Naturals, Sequences, SequencesExt

CONSTANTS
    Observers,      \* processes that take readings
    Auditors,       \* processes that run audit --record
    Basis,          \* what a reading rests on: the <<source, derivation>> pairs
    Method,         \* verify.method of the constraint
    Security,       \* is it on a security path?
    Ttl,            \* source |-> lifetime of a reading, positive
    MaxLines,       \* bound: readings recorded
    MaxClock        \* bound on --at

Sources == {"candidate-declared", "provider-api", "probe"}
Values == {"good", "bad"}

ASSUME EvidenceAssumption ==
    /\ Basis \subseteq Sources \X {"measured", "config-intent", "intent"}
    /\ Method \in {"static", "provider-api", "probe"}
    /\ Security \in BOOLEAN
    /\ Ttl \in [Sources -> Nat \ {0}]
    /\ MaxLines \in Nat /\ MaxClock \in Nat

VARIABLES
    now,        \* the wall clock
    clock,      \* the latest instant the ledger has an event for
    log,        \* the readings in the ledger
    slot,       \* Observations: the newest reading of any source
    bySource,   \* ObservationsBySource: the newest reading of each
    alarm,      \* ViolationState of the constraint
    observer,   \* readings taken and not yet recorded
    auditor     \* verdicts reached and not yet recorded

vars == <<now, clock, log, slot, bySource, alarm, observer, auditor>>

Idle == [busy |-> FALSE]
Nothing == [line |-> 0]

------------------------------------------------------------------------------
(* The projection of readings.                                             *)

\* Mutant of obsNewer: of two readings in one second the first stays (D667).
IncumbentStays(candidate, incumbent) ==
    \/ candidate.at > incumbent.at
    \/ /\ candidate.at = incumbent.at
       /\ candidate.derivation # incumbent.derivation
       /\ candidate.derivation = "measured"

\* The later instant; in one instant a measurement before anything else, and
\* the later line of two on the same basis (D45, D667).
obsNewer(candidate, incumbent) ==
    \/ candidate.at > incumbent.at
    \/ /\ candidate.at = incumbent.at
       /\ \/ candidate.derivation = incumbent.derivation
          \/ candidate.derivation = "measured"

Newer(rec, prev) == IF prev = Nothing \/ obsNewer(rec, prev) THEN rec ELSE prev

\* Mutant of projectObservations: one slot per attribute feeds every source.
OneSlot(rec) ==
    /\ log' = Append(log, rec)
    /\ slot' = Newer(rec, slot)
    /\ bySource' = [bySource EXCEPT ![rec.source] = slot']

projectObservations(rec) ==
    /\ log' = Append(log, rec)
    /\ slot' = Newer(rec, slot)
    /\ bySource' = [bySource EXCEPT ![rec.source] = Newer(rec, @)]

------------------------------------------------------------------------------
(* Freshness, and who asks for it.                                         *)

ObservationExpired(rec, t) == rec.at + rec.ttl < t

\* Mutant of ObservationDecayInstant: one second short (D666).
OneShort(rec) == rec.at + rec.ttl - 1

\* The last instant at which a reading is fresh.
ObservationDecayInstant(rec) == rec.at + rec.ttl

\* Mutant of isStale: the lead time is left out.
StaleNow(at, window) == slot = Nothing \/ ObservationExpired(slot, at)

\* refresh: does the proof decay within the window?
isStale(at, window) == slot = Nothing \/ ObservationExpired(slot, at + window)

\* plan: does the freshness of the reading stop it?
stalenessRefusal(t) ==
    slot = Nothing \/ ObservationExpired(slot, t) \/ t < slot.at

------------------------------------------------------------------------------
(* audit.                                                                  *)

methodRank == CASE Method = "probe" -> 2
                [] Method = "provider-api" -> 1
                [] Method = "static" -> IF Security THEN 1 ELSE 0

\* Evidence counts for its source, unless it only repeats a setting (D722).
evidenceRank(rec) ==
    CASE rec.derivation = "config-intent" -> 0
      [] rec.derivation # "config-intent" /\ rec.source = "probe" -> 2
      [] rec.derivation # "config-intent" /\ rec.source = "provider-api" -> 1
      [] OTHER -> 0

Judged(rec, t) == CASE ObservationExpired(rec, t) -> "unknown"
                    [] ~ObservationExpired(rec, t) /\ rec.value = "good" -> "satisfied"
                    [] ~ObservationExpired(rec, t) /\ rec.value = "bad" -> "violated"

\* latestSufficient: of the readings strong enough and not from the future
\* the newest.  The sources come in the order of a Go map, so of two readings
\* of one instant either may be taken: a set of verdicts.
Verdicts(t) ==
    LET sufficient == {bySource[s] : s \in {q \in Sources :
                          /\ bySource[q] # Nothing
                          /\ evidenceRank(bySource[q]) >= methodRank}}
        past == {rec \in sufficient : rec.at <= t}
        best == {rec \in past : \A other \in past : other.at <= rec.at}
    IN  CASE sufficient = {} -> {"unknown"}
          [] sufficient # {} /\ past = {} -> {"unverifiable"}
          [] past # {} -> {Judged(rec, t) : rec \in best}

\* What the alarm should say under a verdict.
AlarmOf(verdict) == IF verdict = "satisfied" THEN "none" ELSE verdict

------------------------------------------------------------------------------
(* horizon.                                                                *)

\* The instants of the window at which a verdict could change.
Breakpoints(at, window) ==
    {t \in at + 1 .. at + window :
        \E s \in Sources :
            /\ bySource[s] # Nothing
            /\ LET inst == ObservationDecayInstant(bySource[s]) IN
               \/ t \in {inst, inst + 1}
               \/ bySource[s].at > at /\ t \in {bySource[s].at - 1, bySource[s].at}}

\* horizon --within exits 0: no block now and none at a breakpoint, whichever
\* of two readings of one instant is taken.
HorizonPasses(at, window) ==
    \A t \in {at} \cup Breakpoints(at, window) : Verdicts(t) = {"satisfied"}

------------------------------------------------------------------------------
(* The verbs that write.                                                   *)

Init ==
    /\ now = 0 /\ clock = 0
    /\ log = <<>>
    /\ slot = Nothing
    /\ bySource = [s \in Sources |-> Nothing]
    /\ alarm = "none"
    /\ observer = [o \in Observers |-> Idle]
    /\ auditor = [a \in Auditors |-> Idle]

\* An append at an instant behind the ledger's is refused (D56).
Admits(at) == at >= clock

\* observe, probe and adopt begin under an explicit --at, which may be ahead of
\* time, and read the resource.
Read(o) ==
    /\ ~observer[o].busy /\ Len(log) < MaxLines
    /\ \E at \in now..MaxClock :
           observer' = [observer EXCEPT ![o] = [busy |-> TRUE, at |-> at]]
    /\ UNCHANGED <<now, clock, log, slot, bySource, alarm, auditor>>

\* What was read can be anything: the resource may have changed since anybody
\* looked.  Where nothing is readable adopt takes the candidate's word, which
\* satisfied the contract.
Readings(o) ==
    {[line |-> Len(log) + 1, source |-> r[1][1], derivation |-> r[1][2],
      value |-> r[2], at |-> observer[o].at, ttl |-> Ttl[r[1][1]]] :
     r \in {pair \in Basis \X Values :
         pair[1][1] = "candidate-declared" => pair[2] = "good"}}

\* recordEvent.
Record(o) ==
    /\ observer[o].busy
    /\ observer' = [observer EXCEPT ![o] = Idle]
    /\ \/ /\ Admits(observer[o].at) /\ Len(log) < MaxLines
          /\ \E rec \in Readings(o) : projectObservations(rec)
          /\ clock' = observer[o].at
       \/ /\ ~Admits(observer[o].at)
          /\ UNCHANGED <<clock, log, slot, bySource>>
    /\ UNCHANGED <<now, alarm, auditor>>

\* recordFailure: the read failed, which says nothing of the resource.
RecordFailure(o) ==
    /\ observer[o].busy /\ Admits(observer[o].at)
    /\ observer' = [observer EXCEPT ![o] = Idle]
    /\ clock' = observer[o].at
    /\ UNCHANGED <<now, log, slot, bySource, alarm, auditor>>

\* Mutant of Transition: a resolved constraint is not recorded.
OnlyFailures(verdict) == verdict # "satisfied" /\ alarm # verdict

\* Events are written on transitions only (D54).
Transition(verdict) == alarm # AlarmOf(verdict)

\* audit --record: the ledger is read and the constraint judged.  An audit that
\* finds no transition writes nothing and is no step here.
Audit(a) ==
    /\ ~auditor[a].busy
    /\ \E verdict \in Verdicts(now) :
           /\ Transition(verdict)
           /\ auditor' = [auditor EXCEPT ![a] =
                  [busy |-> TRUE, at |-> now, state |-> AlarmOf(verdict)]]
    /\ UNCHANGED <<now, clock, log, slot, bySource, alarm, observer>>

\* emit and projectViolation: the transition is written as the auditor saw it.
Emit(a) ==
    /\ auditor[a].busy
    /\ auditor' = [auditor EXCEPT ![a] = Idle]
    /\ \/ /\ Admits(auditor[a].at)
          /\ alarm' = auditor[a].state
          /\ clock' = auditor[a].at
       \/ /\ ~Admits(auditor[a].at)
          /\ UNCHANGED <<alarm, clock>>
    /\ UNCHANGED <<now, log, slot, bySource, observer>>

Tick ==
    /\ now < MaxClock /\ now' = now + 1
    /\ UNCHANGED <<clock, log, slot, bySource, alarm, observer, auditor>>

AuditStep(a) == Audit(a) \/ Emit(a)

Next ==
    \/ \E o \in Observers : Read(o) \/ Record(o) \/ RecordFailure(o)
    \/ \E a \in Auditors : AuditStep(a)
    \/ Tick

Spec == Init /\ [][Next]_vars

\* Time passes and audit runs on a schedule (the drift-audit jobs of
\* examples/ci); nothing is assumed of the observers.
FairSpec == Spec /\ WF_vars(Tick) /\ \A a \in Auditors : WF_vars(AuditStep(a))

------------------------------------------------------------------------------
(* Properties.                                                             *)

Records == [line : 1..MaxLines, source : Sources, value : Values, at : 0..MaxClock,
            derivation : {"measured", "config-intent", "intent"},
            ttl : {Ttl[s] : s \in Sources}]

\* The state keeps its types, and the projections hold lines of the ledger,
\* the one of a source a line of that source.
TypeOK ==
    /\ now \in 0..MaxClock /\ clock \in 0..MaxClock
    /\ \A i \in 1..Len(log) : log[i] \in Records /\ log[i].line = i
    /\ slot \in ToSet(log) \cup {Nothing}
    /\ \A s \in Sources :
           bySource[s] \in {rec \in ToSet(log) : rec.source = s} \cup {Nothing}
    /\ alarm \in {"none", "unknown", "unverifiable", "violated"}

\* A reading is the newest of some lines: none is of a later instant, none of
\* the same instant a measurement when it is not, none on the same basis came
\* after it.
Newest(rec, lines) ==
    \A other \in lines :
        /\ other.at <= rec.at
        /\ other.at = rec.at /\ other.derivation = "measured"
               => rec.derivation = "measured"
        /\ other.at = rec.at /\ other.derivation = rec.derivation
               => other.line <= rec.line

\* obsNewer, folded line by line in whatever order readings of several writers
\* come in, keeps the newest reading of all and of every source (D191, D667).
ProjectionNewest ==
    /\ log # <<>> => Newest(slot, ToSet(log))
    /\ \A s \in Sources :
           LET own == {rec \in ToSet(log) : rec.source = s} IN
           own # {} => Newest(bySource[s], own)

\* horizon --within is an early warning: when it passes, no audit of the same
\* ledger can block at any instant of the window, breakpoint or not.
HorizonGate ==
    \A at \in 0..MaxClock, window \in 0..MaxClock :
        HorizonPasses(at, window) =>
            \A t \in at..at + window : Verdicts(t) = {"satisfied"}

\* refresh --window is a lead time: what it leaves alone at or after the
\* ledger's last instant, plan does not refuse as stale before the window ends.
RefreshLeads ==
    \A at \in clock..MaxClock, window \in 0..MaxClock :
        ~isStale(at, window) =>
            \A t \in at..at + window : ~stalenessRefusal(t)

\* audit --record, on a schedule and by several processes: whatever verdicts
\* cross on the way, the recorded alarm settles on what the evidence says.
AlarmSettles == <>[](alarm \in {AlarmOf(v) : v \in Verdicts(MaxClock)})
==============================================================================

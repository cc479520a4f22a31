---------------------------- MODULE EvidenceProofs ----------------------------
(***************************************************************************)
(* Theorems about the evidence of an attribute, for any number of readers, *)
(* auditors and readings, any lifetimes and any clock.                     *)
(***************************************************************************)
EXTENDS Evidence, TLAPS

Derivations == {"measured", "config-intent", "intent"}
Alarms == {"none", "unknown", "unverifiable", "violated"}

\* What the processes carry between their two steps, and what the projections
\* are made of; a projection is empty only while nothing of its kind came in.
Shapes ==
    /\ log \in Seq(Records)
    /\ bySource \in [Sources -> Records \cup {Nothing}]
    /\ observer \in [Observers -> {Idle} \cup [busy : {TRUE}, at : 0..MaxClock]]
    /\ auditor \in [Auditors ->
           {Idle} \cup [busy : {TRUE}, at : 0..MaxClock, state : Alarms]]

Filled ==
    /\ slot = Nothing => log = <<>>
    /\ \A s \in Sources : bySource[s] = Nothing =>
           \A i \in 1..Len(log) : log[i].source # s

\* No reading is from after the ledger's last instant.
Past == \A i \in 1..Len(log) : log[i].at <= clock

EvidenceInv == TypeOK /\ Shapes /\ Filled /\ Past /\ ProjectionNewest

------------------------------------------------------------------------------
(* Lemmas about the operators.                                             *)

\* A record is not the empty slot.
LEMMA NotNothing == \A rec \in Records : rec # Nothing /\ rec.line # 0
  BY EvidenceAssumption DEF Records, Nothing, EvidenceAssumption

LEMMA RecordFields ==
  ASSUME NEW rec \in Records
  PROVE  /\ rec.line \in Nat /\ rec.at \in 0..MaxClock /\ rec.at \in Nat
         /\ rec.ttl \in Nat \ {0}
         /\ rec.source \in Sources /\ rec.value \in Values
         /\ rec.derivation \in Derivations
  BY EvidenceAssumption DEF Records, EvidenceAssumption, Derivations

\* What an observer can record is a record, on the next line.
LEMMA ReadingsTyped ==
  ASSUME NEW o \in Observers, NEW rec \in Readings(o), Shapes, observer[o].busy,
         Len(log) < MaxLines
  PROVE  /\ rec \in Records /\ rec.line = Len(log) + 1
         /\ rec.at = observer[o].at
<1>1. observer[o].at \in 0..MaxClock /\ Len(log) \in Nat
  <2>1. observer[o] \in {Idle} \cup [busy : {TRUE}, at : 0..MaxClock]
    BY DEF Shapes
  <2>2. observer[o] # Idle
    BY DEF Idle
  <2>3. observer[o] \in [busy : {TRUE}, at : 0..MaxClock]
    BY <2>1, <2>2
  <2>4. observer[o].at \in 0..MaxClock
    BY <2>3
  <2>5. log \in Seq(Records)
    BY DEF Shapes
  <2> QED BY <2>4, <2>5
<1>2. PICK r \in Basis \X Values :
        rec = [line |-> Len(log) + 1, source |-> r[1][1], derivation |-> r[1][2],
               value |-> r[2], at |-> observer[o].at, ttl |-> Ttl[r[1][1]]]
  BY DEF Readings
<1>3. r[1] \in Sources \X Derivations /\ r[2] \in Values
  BY EvidenceAssumption DEF EvidenceAssumption, Derivations
<1>4. r[1][1] \in Sources /\ r[1][2] \in Derivations
  BY <1>3
<1>5. Len(log) + 1 \in 1..MaxLines
  BY <1>1, EvidenceAssumption DEF EvidenceAssumption
<1> QED BY <1>1, <1>2, <1>3, <1>4, <1>5 DEF Records, Derivations

\* The lines after an append.
LEMMA AppendLines ==
  ASSUME NEW rec \in Records, log \in Seq(Records), log' = Append(log, rec)
  PROVE  /\ log' \in Seq(Records) /\ Len(log') = Len(log) + 1 /\ Len(log) \in Nat
         /\ \A i \in 1..Len(log) : log'[i] = log[i]
         /\ log'[Len(log) + 1] = rec
         /\ ToSet(log') = ToSet(log) \cup {rec}
<1>1. /\ log' \in Seq(Records) /\ Len(log') = Len(log) + 1 /\ Len(log) \in Nat
      /\ \A i \in 1..Len(log) : log'[i] = log[i]
      /\ log'[Len(log) + 1] = rec
      /\ DOMAIN log = 1..Len(log) /\ DOMAIN log' = 1..(Len(log) + 1)
  OBVIOUS
<1> QED BY <1>1 DEF ToSet

\* obsNewer decides rightly: the newest reading of some lines, or the reading
\* just written, is the newest of both.
LEMMA NewerIsNewest ==
  ASSUME NEW lines \in SUBSET Records, NEW rec \in Records,
         NEW prev \in lines, Newest(prev, lines),
         \A other \in lines : other.line < rec.line
  PROVE  Newest(Newer(rec, prev), lines \cup {rec})
<1>1. prev # Nothing
  BY NotNothing
<1>2. \A r \in lines \cup {rec} : r.at \in Nat /\ r.line \in Nat
  BY RecordFields
<1>3. CASE obsNewer(rec, prev)
  BY <1>1, <1>2, <1>3 DEF Newer, obsNewer, Newest
<1>4. CASE ~obsNewer(rec, prev)
  BY <1>1, <1>2, <1>4 DEF Newer, obsNewer, Newest
<1> QED BY <1>3, <1>4

LEMMA NewerChooses == \A rec, prev : Newer(rec, prev) \in {rec, prev}
  BY DEF Newer

\* Every verdict is one of four words, so every alarm is too.
LEMMA VerdictsTyped ==
  ASSUME TypeOK, Shapes, NEW t \in Nat
  PROVE  Verdicts(t) \subseteq {"satisfied", "unknown", "unverifiable", "violated"}
<1> DEFINE sufficient == {bySource[s] : s \in {q \in Sources :
                             /\ bySource[q] # Nothing
                             /\ evidenceRank(bySource[q]) >= methodRank}}
           past == {rec \in sufficient : rec.at <= t}
           best == {rec \in past : \A other \in past : other.at <= rec.at}
<1>1. sufficient \subseteq Records
  BY DEF Shapes
<1>2. \A rec \in Records : Judged(rec, t) \in {"satisfied", "unknown", "violated"}
  BY RecordFields DEF Judged, Values
<1>3. \A rec \in best : Judged(rec, t) \in {"satisfied", "unknown", "violated"}
  BY <1>1, <1>2
<1>4. Verdicts(t) = CASE sufficient = {} -> {"unknown"}
                      [] sufficient # {} /\ past = {} -> {"unverifiable"}
                      [] past # {} -> {Judged(rec, t) : rec \in best}
  BY DEF Verdicts
<1>5. past # {} => sufficient # {}
  OBVIOUS
<1> HIDE DEF sufficient, past, best
<1> QED BY <1>3, <1>4, <1>5

------------------------------------------------------------------------------
(* The invariant.                                                          *)

LEMMA InitEvidence == Init => EvidenceInv
<1> SUFFICES ASSUME Init PROVE EvidenceInv
  OBVIOUS
<1> USE EvidenceAssumption DEF EvidenceAssumption, Init
<1>1. ToSet(log) = {} /\ Len(log) = 0 /\ log \in Seq(Records)
  BY DEF ToSet
<1>2. TypeOK
  BY <1>1 DEF TypeOK
<1>3. Shapes
  BY <1>1 DEF Shapes, Idle
<1>4. Filled /\ Past
  BY <1>1 DEF Filled, Past
<1>5. ProjectionNewest
  BY <1>1 DEF ProjectionNewest
<1> QED BY <1>2, <1>3, <1>4, <1>5 DEF EvidenceInv

\* A reading that is recorded keeps the invariant.
LEMMA RecordKeeps ==
  ASSUME EvidenceInv, NEW rec \in Records, rec.line = Len(log) + 1,
         rec.at >= clock, projectObservations(rec), clock' = rec.at,
         now' = now, alarm' = alarm, auditor' = auditor,
         observer' \in [Observers -> {Idle} \cup [busy : {TRUE}, at : 0..MaxClock]]
  PROVE  EvidenceInv'
<1> USE DEF EvidenceInv
<1>1. /\ log' \in Seq(Records) /\ Len(log') = Len(log) + 1 /\ Len(log) \in Nat
      /\ \A i \in 1..Len(log) : log'[i] = log[i]
      /\ log'[Len(log) + 1] = rec
      /\ ToSet(log') = ToSet(log) \cup {rec}
  BY AppendLines DEF projectObservations, Shapes
<1>2. ToSet(log) \subseteq Records /\ \A i \in 1..Len(log) : log[i] \in ToSet(log)
  BY DEF ToSet, Shapes
<1>3. \A other \in ToSet(log) : other.line < rec.line
  <2> SUFFICES ASSUME NEW other \in ToSet(log) PROVE other.line < rec.line
    OBVIOUS
  <2>1. PICK i \in 1..Len(log) : other = log[i]
    BY DEF ToSet, Shapes
  <2> QED BY <1>1, <2>1 DEF TypeOK
<1>4. rec # Nothing
  BY NotNothing
<1>5. slot' = Newer(rec, slot)
      /\ bySource' = [bySource EXCEPT ![rec.source] = Newer(rec, @)]
  BY DEF projectObservations
<1>6. rec.source \in Sources /\ rec.at \in 0..MaxClock /\ clock \in Nat
  BY RecordFields, EvidenceAssumption DEF TypeOK, EvidenceAssumption
<1>7. \A s \in Sources : bySource'[s] = IF s = rec.source THEN Newer(rec, bySource[s])
                                        ELSE bySource[s]
  BY <1>5 DEF Shapes
<1>8. slot' \in ToSet(log') /\ slot' # Nothing
  <2>1. CASE slot = Nothing
    BY <1>1, <1>4, <1>5, <2>1 DEF Newer
  <2>2. CASE slot # Nothing
    <3>1. slot \in ToSet(log)
      BY <2>2 DEF TypeOK
    <3>2. slot' \in {rec, slot}
      BY <1>5, NewerChooses
    <3> QED BY <1>1, <1>4, <2>2, <3>1, <3>2
  <2> QED BY <2>1, <2>2
<1>9. ASSUME NEW s \in Sources
      PROVE  /\ bySource'[s] \in {r \in ToSet(log') : r.source = s} \cup {Nothing}
             /\ bySource'[s] = Nothing =>
                  bySource[s] = Nothing /\ s # rec.source
  <2>1. bySource[s] \in {r \in ToSet(log) : r.source = s} \cup {Nothing}
    BY DEF TypeOK
  <2>2. CASE s = rec.source
    <3>1. CASE bySource[s] = Nothing
      BY <1>1, <1>4, <1>7, <2>2, <3>1 DEF Newer
    <3>2. CASE bySource[s] # Nothing
      <4>1. bySource'[s] \in {rec, bySource[s]}
        BY <1>7, <2>2, NewerChooses
      <4> QED BY <1>1, <1>4, <2>1, <2>2, <3>2, <4>1
    <3> QED BY <3>1, <3>2
  <2>3. CASE s # rec.source
    BY <1>1, <1>7, <2>1, <2>3
  <2> QED BY <2>2, <2>3
<1>10. TypeOK'
  <2>1. \A i \in 1..Len(log') : log'[i] \in Records /\ log'[i].line = i
    BY <1>1 DEF TypeOK
  <2>2. now' \in 0..MaxClock /\ clock' \in 0..MaxClock
    BY <1>6 DEF TypeOK
  <2>3. alarm' \in Alarms
    BY DEF TypeOK, Alarms
  <2> QED BY <1>8, <1>9, <2>1, <2>2, <2>3 DEF TypeOK, Alarms
<1>11. Shapes'
  <2>1. bySource' \in [Sources -> Records \cup {Nothing}]
    BY <1>2, <1>5, <1>6, NewerChooses DEF Shapes
  <2> QED BY <1>1, <2>1 DEF Shapes
<1>12. Filled'
  <2>1. \A s \in Sources : bySource'[s] = Nothing =>
           \A i \in 1..Len(log') : log'[i].source # s
    BY <1>1, <1>9 DEF Filled
  <2> QED BY <1>8, <2>1 DEF Filled
<1>13. Past'
  BY <1>1, <1>2, <1>6, RecordFields DEF Past, TypeOK
<1>14. ProjectionNewest'
  <2>1. Newest(slot', ToSet(log'))
    <3>1. CASE slot = Nothing
      <4>1. ToSet(log) = {}
        BY <3>1 DEF Filled, ToSet
      <4>2. slot' = rec
        BY <1>5, <3>1 DEF Newer
      <4> QED BY <1>1, <1>6, <4>1, <4>2 DEF Newest
    <3>2. CASE slot # Nothing
      <4>1. slot \in ToSet(log)
        BY <3>2 DEF TypeOK
      <4>2. log # <<>>
        BY <4>1 DEF ToSet
      <4>3. Newest(slot, ToSet(log))
        BY <4>2 DEF ProjectionNewest
      <4> QED BY <1>1, <1>2, <1>3, <1>5, <4>1, <4>3, NewerIsNewest
    <3> QED BY <3>1, <3>2
  <2>2. ASSUME NEW s \in Sources
        PROVE  LET own == {r \in ToSet(log') : r.source = s} IN
               own # {} => Newest(bySource'[s], own)
    <3> DEFINE old == {r \in ToSet(log) : r.source = s}
               own == {r \in ToSet(log') : r.source = s}
    <3> SUFFICES own # {} => Newest(bySource'[s], own)
      OBVIOUS
    <3>1. old # {} => Newest(bySource[s], old)
      BY DEF ProjectionNewest
    <3>2. bySource[s] # Nothing => bySource[s] \in old
      BY DEF TypeOK
    <3>3. bySource[s] = Nothing => old = {}
      BY DEF Filled, ToSet, Shapes
    <3>4. CASE s # rec.source
      <4>1. own = old
        BY <1>1, <3>4
      <4>2. bySource'[s] = bySource[s]
        BY <1>7, <3>4
      <4> QED BY ONLY <3>1, <4>1, <4>2
    <3>5. CASE s = rec.source
      <4>1. own = old \cup {rec}
        BY <1>1, <3>5
      <4>2. bySource'[s] = Newer(rec, bySource[s])
        BY <1>7, <3>5
      <4>3. CASE bySource[s] = Nothing
        BY <1>6, <3>3, <4>1, <4>2, <4>3 DEF Newer, Newest
      <4>4. CASE bySource[s] # Nothing
        <5>1. bySource[s] \in old /\ old \in SUBSET Records /\ Newest(bySource[s], old)
          BY <1>2, <3>1, <3>2, <4>4
        <5>2. \A other \in old : other.line < rec.line
          BY <1>3
        <5> HIDE DEF old, own
        <5> QED BY <4>1, <4>2, <5>1, <5>2, NewerIsNewest
      <4> QED BY <4>3, <4>4
    <3> QED BY <3>4, <3>5
  <2> QED BY <2>1, <2>2 DEF ProjectionNewest
<1> QED BY <1>10, <1>11, <1>12, <1>13, <1>14

\* What an observer at work carries.
LEMMA BusyObserver ==
  ASSUME Shapes, NEW o \in Observers, observer[o].busy
  PROVE  observer[o].at \in 0..MaxClock
<1>1. observer[o] \in {Idle} \cup [busy : {TRUE}, at : 0..MaxClock]
  BY DEF Shapes
<1>2. observer[o] # Idle
  BY DEF Idle
<1>3. observer[o] \in [busy : {TRUE}, at : 0..MaxClock]
  BY <1>1, <1>2
<1> QED BY <1>3

\* What an auditor at work carries.
LEMMA BusyAuditor ==
  ASSUME Shapes, NEW a \in Auditors, auditor[a].busy
  PROVE  auditor[a].at \in 0..MaxClock /\ auditor[a].state \in Alarms
<1>1. auditor[a] \in {Idle} \cup [busy : {TRUE}, at : 0..MaxClock, state : Alarms]
  BY DEF Shapes
<1>2. auditor[a] # Idle
  BY DEF Idle
<1>3. auditor[a] \in [busy : {TRUE}, at : 0..MaxClock, state : Alarms]
  BY <1>1, <1>2
<1> QED BY <1>3

\* A step that writes no reading keeps the invariant when what it changes keeps
\* its type and the ledger's clock does not go back.
LEMMA SameReadings ==
  ASSUME EvidenceInv, UNCHANGED <<log, slot, bySource>>,
         now' \in 0..MaxClock, clock' \in 0..MaxClock, clock' >= clock,
         alarm' \in Alarms,
         observer' \in [Observers -> {Idle} \cup [busy : {TRUE}, at : 0..MaxClock]],
         auditor' \in [Auditors ->
             {Idle} \cup [busy : {TRUE}, at : 0..MaxClock, state : Alarms]]
  PROVE  EvidenceInv'
<1> USE DEF EvidenceInv
<1>1. TypeOK'
  BY DEF TypeOK, Alarms
<1>2. Shapes'
  BY DEF Shapes
<1>3. Filled'
  BY DEF Filled
<1>4. Past'
  <2>1. ASSUME NEW i \in 1..Len(log) PROVE log[i].at <= clock'
    <3>1. log[i].at \in Nat
      BY RecordFields DEF TypeOK
    <3>2. log[i].at <= clock /\ clock \in Nat /\ clock' \in Nat
      BY EvidenceAssumption DEF Past, TypeOK, EvidenceAssumption
    <3> QED BY <3>1, <3>2
  <2> QED BY <2>1 DEF Past
<1>5. ProjectionNewest'
  BY DEF ProjectionNewest
<1> QED BY <1>1, <1>2, <1>3, <1>4, <1>5

LEMMA StepEvidence == EvidenceInv /\ [Next]_vars => EvidenceInv'
<1> SUFFICES ASSUME EvidenceInv, [Next]_vars PROVE EvidenceInv'
  OBVIOUS
<1>1. /\ now \in 0..MaxClock /\ clock \in 0..MaxClock /\ alarm \in Alarms
      /\ now \in Nat /\ clock \in Nat /\ clock >= clock
      /\ TypeOK /\ Shapes
  BY EvidenceAssumption DEF EvidenceInv, TypeOK, Alarms, EvidenceAssumption
<1>2. /\ observer \in [Observers -> {Idle} \cup [busy : {TRUE}, at : 0..MaxClock]]
      /\ auditor \in [Auditors ->
             {Idle} \cup [busy : {TRUE}, at : 0..MaxClock, state : Alarms]]
  BY <1>1 DEF Shapes
<1>3. ASSUME NEW o \in Observers, Read(o) PROVE EvidenceInv'
  <2>1. PICK at \in now..MaxClock :
          observer' = [observer EXCEPT ![o] = [busy |-> TRUE, at |-> at]]
    BY <1>3 DEF Read
  <2>2. [busy |-> TRUE, at |-> at] \in [busy : {TRUE}, at : 0..MaxClock]
    BY <1>1, EvidenceAssumption DEF EvidenceAssumption
  <2>3. observer' \in [Observers -> {Idle} \cup [busy : {TRUE}, at : 0..MaxClock]]
    BY <1>2, <2>1, <2>2
  <2> QED BY <1>1, <1>2, <1>3, <2>3, SameReadings DEF Read
<1>4. ASSUME NEW o \in Observers, Record(o) PROVE EvidenceInv'
  <2>1. observer[o].busy
    BY <1>4 DEF Record
  <2>2. observer' \in [Observers -> {Idle} \cup [busy : {TRUE}, at : 0..MaxClock]]
    BY <1>2, <1>4 DEF Record
  <2>3. UNCHANGED <<now, alarm, auditor>>
    BY <1>4 DEF Record
  <2>4. CASE /\ Admits(observer[o].at) /\ Len(log) < MaxLines
             /\ \E rec \in Readings(o) : projectObservations(rec)
             /\ clock' = observer[o].at
    <3>1. PICK rec \in Readings(o) : projectObservations(rec)
      BY <2>4
    <3>2. /\ rec \in Records /\ rec.line = Len(log) + 1
          /\ rec.at = observer[o].at
      BY <1>1, <2>1, <2>4, ReadingsTyped
    <3>3. rec.at >= clock /\ clock' = rec.at
      BY <2>4, <3>2 DEF Admits
    <3> QED BY <2>2, <2>3, <3>1, <3>2, <3>3, RecordKeeps
  <2>5. CASE UNCHANGED <<clock, log, slot, bySource>>
    BY <1>1, <1>2, <2>2, <2>3, <2>5, SameReadings
  <2> QED BY <1>4, <2>4, <2>5 DEF Record
<1>5. ASSUME NEW o \in Observers, RecordFailure(o) PROVE EvidenceInv'
  <2>1. observer[o].busy
    BY <1>5 DEF RecordFailure
  <2>2. observer' \in [Observers -> {Idle} \cup [busy : {TRUE}, at : 0..MaxClock]]
    BY <1>2, <1>5 DEF RecordFailure
  <2>3. clock' \in 0..MaxClock /\ clock' >= clock
    BY <1>1, <1>5, <2>1, BusyObserver DEF RecordFailure, Admits
  <2> QED BY <1>1, <1>2, <1>5, <2>2, <2>3, SameReadings DEF RecordFailure
<1>6. ASSUME NEW a \in Auditors, Audit(a) PROVE EvidenceInv'
  <2>1. PICK verdict \in Verdicts(now) :
          auditor' = [auditor EXCEPT ![a] =
              [busy |-> TRUE, at |-> now, state |-> AlarmOf(verdict)]]
    BY <1>6 DEF Audit
  <2>2. AlarmOf(verdict) \in Alarms
    BY <1>1, VerdictsTyped DEF AlarmOf, Alarms
  <2>3. auditor' \in [Auditors ->
            {Idle} \cup [busy : {TRUE}, at : 0..MaxClock, state : Alarms]]
    BY <1>1, <1>2, <2>1, <2>2
  <2> QED BY <1>1, <1>2, <1>6, <2>3, SameReadings DEF Audit
<1>7. ASSUME NEW a \in Auditors, Emit(a) PROVE EvidenceInv'
  <2>1. auditor[a].busy
    BY <1>7 DEF Emit
  <2>2. auditor' \in [Auditors ->
            {Idle} \cup [busy : {TRUE}, at : 0..MaxClock, state : Alarms]]
    BY <1>2, <1>7 DEF Emit
  <2>3. clock' \in 0..MaxClock /\ clock' >= clock /\ alarm' \in Alarms
    BY <1>1, <1>7, <2>1, BusyAuditor DEF Emit, Admits
  <2> QED BY <1>1, <1>2, <1>7, <2>2, <2>3, SameReadings DEF Emit
<1>8. CASE Tick
  <2>1. now' \in 0..MaxClock
    BY <1>1, <1>8, EvidenceAssumption DEF Tick, EvidenceAssumption
  <2> QED BY <1>1, <1>2, <1>8, <2>1, SameReadings DEF Tick
<1>9. CASE UNCHANGED vars
  BY <1>1, <1>2, <1>9, SameReadings DEF vars
<1> QED BY <1>3, <1>4, <1>5, <1>6, <1>7, <1>8, <1>9 DEF Next, AuditStep

------------------------------------------------------------------------------
(* The theorems.                                                           *)

LEMMA EvidenceHolds == Spec => []EvidenceInv
  BY InitEvidence, StepEvidence, PTL DEF Spec

\* The state keeps its types and the projections hold lines of the ledger,
\* whatever readings and verdicts cross on their way to it.
THEOREM EvidenceTyped == Spec => []TypeOK
<1>1. EvidenceInv => TypeOK
  BY DEF EvidenceInv
<1> QED BY <1>1, EvidenceHolds, PTL

\* obsNewer, folded line by line, keeps the newest reading of all and of every
\* source, whatever the order in which its writers reach the ledger.
THEOREM ProjectionsAreNewest == Spec => []ProjectionNewest
<1>1. EvidenceInv => ProjectionNewest
  BY DEF EvidenceInv
<1> QED BY <1>1, EvidenceHolds, PTL

\* What refresh leaves alone at or after the ledger's last instant, plan does
\* not refuse as stale before the window ends, for every window and lifetime.
THEOREM RefreshIsALead == Spec => []RefreshLeads
<1>1. ASSUME EvidenceInv PROVE RefreshLeads
  <2> SUFFICES ASSUME NEW at \in clock..MaxClock, NEW window \in 0..MaxClock,
                      ~isStale(at, window), NEW t \in at..at + window
               PROVE  ~stalenessRefusal(t)
    BY DEF RefreshLeads
  <2>1. clock \in Nat /\ at \in Nat /\ window \in Nat /\ t \in Nat
    BY <1>1, EvidenceAssumption DEF EvidenceInv, TypeOK, EvidenceAssumption
  <2>2. slot # Nothing /\ ~ObservationExpired(slot, at + window)
    BY DEF isStale
  <2>3. PICK i \in 1..Len(log) : slot = log[i]
    BY <1>1, <2>2 DEF EvidenceInv, TypeOK, Shapes, ToSet
  <2>4. slot \in Records /\ slot.at <= clock
    BY <1>1, <2>3 DEF EvidenceInv, TypeOK, Past
  <2>5. slot.at \in Nat /\ slot.ttl \in Nat
    BY <2>4, RecordFields
  <2> QED BY <2>1, <2>2, <2>4, <2>5 DEF stalenessRefusal, ObservationExpired
<1> QED BY <1>1, EvidenceHolds, PTL
------------------------------------------------------------------------------
(* horizon.                                                                *)

\* The readings strong enough for the constraint, those of them that are not
\* from the future, and the newest of these: what Verdicts calls by the same
\* names.
Sufficient == {bySource[s] : s \in {q \in Sources :
                  /\ bySource[q] # Nothing
                  /\ evidenceRank(bySource[q]) >= methodRank}}
PastAt(t) == {rec \in Sufficient : rec.at <= t}
BestAt(t) == {rec \in PastAt(t) : \A other \in PastAt(t) : other.at <= rec.at}

\* Of up to three readings one is the latest.
LEMMA LatestOfThree ==
  ASSUME NEW a, NEW b, NEW c, NEW S \in SUBSET {a, b, c}, S # {},
         \A x \in S : x.at \in Nat
  PROVE  \E x \in S : \A y \in S : y.at <= x.at
<1>1. ASSUME NEW x \in S, NEW y, NEW z, S \subseteq {x, y, z}
      PROVE  \E n \in S : \A m \in S : m.at <= n.at
  <2>1. PICK m \in S : x.at <= m.at /\ (y \in S => y.at <= m.at)
    <3>1. CASE y \in S /\ x.at <= y.at
      BY <3>1
    <3>2. CASE ~(y \in S /\ x.at <= y.at)
      BY <3>2
    <3> QED BY <3>1, <3>2
  <2>2. PICK n \in S : m.at <= n.at /\ (z \in S => z.at <= n.at)
    <3>1. CASE z \in S /\ m.at <= z.at
      BY <3>1
    <3>2. CASE ~(z \in S /\ m.at <= z.at)
      BY <3>2
    <3> QED BY <3>1, <3>2
  <2>3. x.at \in Nat /\ m.at \in Nat /\ n.at \in Nat /\ (y \in S => y.at \in Nat)
    OBVIOUS
  <2>4. x.at <= n.at /\ (y \in S => y.at <= n.at)
    BY ONLY <2>1, <2>2, <2>3
  <2> QED BY <1>1, <2>2, <2>4
<1>2. CASE a \in S
  BY <1>1, <1>2
<1>3. CASE b \in S
  BY <1>1, <1>3
<1>4. CASE c \in S
  BY <1>1, <1>4
<1> QED BY <1>2, <1>3, <1>4

\* The constraint is satisfied at an instant exactly when there is a reading to
\* judge it by and every reading that may be taken satisfies it.
LEMMA SatisfiedAt ==
  ASSUME Shapes, NEW t \in Nat
  PROVE  Verdicts(t) = {"satisfied"} <=>
             /\ PastAt(t) # {}
             /\ \A rec \in BestAt(t) : Judged(rec, t) = "satisfied"
<1>1. Sufficient \subseteq Records
  BY DEF Shapes, Sufficient
<1>2. Verdicts(t) = CASE Sufficient = {} -> {"unknown"}
                      [] Sufficient # {} /\ PastAt(t) = {} -> {"unverifiable"}
                      [] PastAt(t) # {} -> {Judged(rec, t) : rec \in BestAt(t)}
  BY DEF Verdicts, Sufficient, PastAt, BestAt
<1>3. PastAt(t) # {} => Sufficient # {}
  BY DEF PastAt
<1>4. ASSUME PastAt(t) # {} PROVE BestAt(t) # {}
  <2> DEFINE x == bySource["candidate-declared"]
             y == bySource["provider-api"]
             z == bySource["probe"]
  <2>1. PastAt(t) \in SUBSET {x, y, z}
    BY DEF PastAt, Sufficient, Sources
  <2>2. \A rec \in PastAt(t) : rec.at \in Nat
    BY <1>1, RecordFields DEF PastAt
  <2>3. \E m \in PastAt(t) : \A o \in PastAt(t) : o.at <= m.at
    <3> HIDE DEF x, y, z
    <3> QED BY <1>4, <2>1, <2>2, LatestOfThree
  <2> QED BY <2>3 DEF BestAt
<1>5. CASE PastAt(t) = {}
  BY <1>2, <1>5
<1>6. CASE PastAt(t) # {}
  BY <1>2, <1>3, <1>4, <1>6
<1> QED BY <1>5, <1>6

\* A reading that satisfies the constraint has not expired and holds of it.
LEMMA JudgedSatisfied ==
  ASSUME NEW rec \in Records, NEW t \in Nat
  PROVE  Judged(rec, t) = "satisfied" <=>
             ~ObservationExpired(rec, t) /\ rec.value = "good"
  BY RecordFields DEF Judged, Values

\* When horizon --within passes, no audit of the same ledger can block at any
\* instant of the window: what a verdict rests on changes at breakpoints only.
THEOREM HorizonIsAGate == Spec => []HorizonGate
<1>1. ASSUME EvidenceInv PROVE HorizonGate
  <2> SUFFICES ASSUME NEW at \in 0..MaxClock, NEW window \in 0..MaxClock,
                      HorizonPasses(at, window), NEW t \in at..at + window
               PROVE  Verdicts(t) = {"satisfied"}
    BY DEF HorizonGate
  <2>1. Shapes /\ at \in Nat /\ window \in Nat /\ t \in Nat /\ at <= t
        /\ t <= at + window
    BY <1>1, EvidenceAssumption DEF EvidenceInv, EvidenceAssumption
  <2>2. \A u \in {at} \cup Breakpoints(at, window) : u \in Nat
    BY <2>1 DEF Breakpoints
  <2>3. \A u \in {at} \cup Breakpoints(at, window) :
          /\ PastAt(u) # {}
          /\ \A rec \in BestAt(u) : Judged(rec, u) = "satisfied"
    BY <2>1, <2>2, SatisfiedAt DEF HorizonPasses
  <2>4. Sufficient \subseteq Records
    BY <2>1 DEF Shapes, Sufficient
  <2>5. \A rec \in Sufficient : rec.at \in Nat /\ rec.ttl \in Nat
    BY <2>4, RecordFields
  <2>6. PastAt(t) # {}
    <3>1. PastAt(at) \subseteq PastAt(t)
      BY <2>1, <2>5 DEF PastAt
    <3> QED BY <2>3, <3>1
  <2>7. ASSUME NEW rec \in BestAt(t)
        PROVE  Judged(rec, t) = "satisfied"
    <3> DEFINE inst == rec.at + rec.ttl
               start == IF rec.at <= at THEN at ELSE rec.at
    <3>1. /\ rec \in Sufficient /\ rec \in Records /\ rec.at <= t
          /\ rec.at \in Nat /\ rec.ttl \in Nat
          /\ \A other \in PastAt(t) : other.at <= rec.at
      BY <2>4, <2>5 DEF BestAt, PastAt
    <3>2. PICK s \in Sources : bySource[s] # Nothing /\ rec = bySource[s]
      BY <3>1 DEF Sufficient
    <3>3. ASSUME NEW u \in Nat, rec.at <= u, u <= t PROVE rec \in BestAt(u)
      BY <2>1, <2>5, <3>1, <3>3 DEF BestAt, PastAt
    <3>4. ASSUME NEW u \in at + 1 .. at + window,
                 u = inst + 1 \/ (rec.at > at /\ u = rec.at)
          PROVE  u \in Breakpoints(at, window)
      BY <3>2, <3>4 DEF Breakpoints, ObservationDecayInstant
    <3>5. start \in {at} \cup Breakpoints(at, window)
      BY <2>1, <3>1, <3>4
    <3>6. start \in Nat /\ rec.at <= start /\ start <= t /\ at <= start
      BY <2>1, <3>1
    <3>7. Judged(rec, start) = "satisfied"
      <4> HIDE DEF start
      <4> QED BY <2>3, <3>3, <3>5, <3>6
    <3>8. rec.value = "good" /\ inst >= start
      <4>1. ~ObservationExpired(rec, start) /\ rec.value = "good"
        <5> HIDE DEF start
        <5> QED BY <3>1, <3>6, <3>7, JudgedSatisfied
      <4> QED BY <3>1, <3>6, <4>1 DEF ObservationExpired
    <3>9. ~ObservationExpired(rec, t)
      <4> SUFFICES ASSUME inst < t PROVE FALSE
        BY DEF ObservationExpired
      <4>1. inst + 1 \in at + 1 .. at + window /\ inst + 1 <= t
            /\ inst + 1 \in Nat /\ rec.at <= inst + 1
        BY <2>1, <3>1, <3>6, <3>8
      <4>2. inst + 1 \in Breakpoints(at, window)
        BY <3>4, <4>1
      <4>3. Judged(rec, inst + 1) = "satisfied"
        <5> HIDE DEF inst
        <5> QED BY <2>3, <3>3, <4>1, <4>2
      <4>4. ~ObservationExpired(rec, inst + 1)
        <5> HIDE DEF inst
        <5> QED BY <3>1, <4>1, <4>3, JudgedSatisfied
      <4> QED BY <3>1, <4>4 DEF ObservationExpired
    <3> QED BY <2>1, <3>1, <3>8, <3>9, JudgedSatisfied
  <2> QED BY <2>1, <2>6, <2>7, SatisfiedAt
<1> QED BY <1>1, EvidenceHolds, PTL
===============================================================================

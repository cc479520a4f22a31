--------------------------- MODULE RecoveryProofs ---------------------------
(***************************************************************************)
(* Theorems about restore, for every ledger its capsules can come from,    *)
(* any capabilities and any length of the file: what was classified as     *)
(* sound is never refused after it was woven, says of every restored       *)
(* capability what the history said, and with exit code 0 is all of it.    *)
(*                                                                         *)
(* The weave is an order nobody wrote the lines in.  It is compared with   *)
(* the history capability by capability: after any number of its lines     *)
(* each capability stands where the history had it after the same lines    *)
(* about that capability.                                                  *)
(***************************************************************************)
EXTENDS Recovery, LedgerProofs, FiniteSetTheorems

(* The lines of the file stand in the order of their times (D56), and none is  *)
(* ahead of the clock.                                                         *)
Sorted ==
  /\ \A i, j \in 1..Len(log) : i <= j => log[i].at <= log[j].at
  /\ \A i \in 1..Len(log) : log[i].at <= led.clock

(* What a weave has given out after k lines. *)
Out(woven, k) == {woven[j] : j \in 1..k}

----------------------------------------------------------------------------
(* The order of a weave. *)

LEMMA BodyIsLine ==
  ASSUME TypeOK, NEW i \in 1..Len(log)
  PROVE  Body(i) = log[i]
<1>1. Len(log) \in Nat
  BY DEF TypeOK
<1> QED BY <1>1 DEF Body, Fork

(* The heap gives out what is left, the earliest of it, and nothing before what *)
(* it has to follow.                                                            *)
LEMMA PopsEarliest ==
  ASSUME TypeOK, Sorted, NEW rest \in SUBSET (1..Len(log)), NEW i \in Pops(rest)
  PROVE  /\ i \in rest
         /\ \A j \in rest : j < i => log[j].caps \cap log[i].caps = {}
         /\ \A j \in rest : log[i].at <= log[j].at
<1>0. Len(log) \in Nat /\ \A j \in 1..Len(log) : log[j].at \in Nat /\ Body(j) = log[j]
  BY BodyIsLine, EventFields DEF TypeOK
<1>1. CASE 1 \in rest
  <2>1. i = 1
    BY <1>1 DEF Pops
  <2>2. \A j \in rest : 1 <= j /\ ~(j < 1) /\ log[1].at <= log[j].at
    BY <1>0, <1>1 DEF Sorted
  <2> QED BY <1>1, <2>1, <2>2
<1>2. CASE 1 \notin rest
  <2>1. i \in Ready(rest) /\ \A j \in Ready(rest) : Body(i).at <= Body(j).at
    BY <1>2 DEF Pops
  <2>2. i \in rest /\ \A j \in rest : j < i => log[j].caps \cap log[i].caps = {}
    BY <1>0, <2>1 DEF Ready
  <2>3. ASSUME NEW j \in rest PROVE log[i].at <= log[j].at
    <3>0. rest \in SUBSET Nat /\ rest # {}
      BY <1>0
    <3>1. PICK m \in rest : \A v \in rest : m <= v
      BY <3>0, LeastOf
    <3>2. m \in Ready(rest)
      BY <1>0, <3>1 DEF Ready
    <3>3. log[i].at <= log[m].at
      BY <1>0, <2>1, <2>2, <3>1, <3>2
    <3>4. log[m].at <= log[j].at
      BY <3>1 DEF Sorted
    <3> QED BY <1>0, <2>2, <3>3, <3>4
  <2> QED BY <2>2, <2>3
<1> QED BY <1>1, <1>2

(* A weave gives out every event once, in the order of the times and, among the *)
(* events of a capability, in the order of the history.                         *)
LEMMA WeaveOrder ==
  ASSUME TypeOK, Sorted, NEW events \in SUBSET (1..Len(log)), NEW woven \in linearize(events)
  PROVE  /\ Cardinality(events) \in Nat
         /\ woven \in Seq(events) /\ Len(woven) = Cardinality(events)
         /\ DOMAIN woven = 1..Cardinality(events)
         /\ Out(woven, 0) = {} /\ Out(woven, Cardinality(events)) = events
         /\ \A k \in 1..Cardinality(events) :
              /\ woven[k] \in events \ Out(woven, k-1)
              /\ Out(woven, k) = Out(woven, k-1) \cup {woven[k]}
              /\ \A j \in events \ Out(woven, k-1) :
                   /\ j < woven[k] => log[j].caps \cap log[woven[k]].caps = {}
                   /\ log[woven[k]].at <= log[j].at
<1> DEFINE K == Cardinality(events)
<1>0. IsFiniteSet(events) /\ K \in Nat
  <2>0. Len(log) \in Int
    BY DEF TypeOK
  <2>1. IsFiniteSet(1..Len(log))
    BY <2>0, FS_Interval
  <2>2. IsFiniteSet(events)
    BY <2>1, FS_Subset
  <2> QED BY <2>2, FS_CardinalityType
<1>1. /\ woven \in [1..K -> events]
      /\ \A k \in 1..K : woven[k] \in Pops(events \ Out(woven, k-1))
  BY DEF linearize, Out
<1> HIDE DEF K
<1>2. woven \in Seq(events) /\ Len(woven) = K /\ DOMAIN woven = 1..K
  BY <1>0, <1>1
<1>3. ASSUME NEW k \in 1..K
      PROVE  /\ woven[k] \in events \ Out(woven, k-1)
             /\ Out(woven, k) = Out(woven, k-1) \cup {woven[k]}
             /\ \A j \in events \ Out(woven, k-1) :
                  /\ j < woven[k] => log[j].caps \cap log[woven[k]].caps = {}
                  /\ log[woven[k]].at <= log[j].at
  <2>1. woven[k] \in Pops(events \ Out(woven, k-1))
    BY <1>1
  <2>2. events \ Out(woven, k-1) \in SUBSET (1..Len(log))
    OBVIOUS
  <2>3. 1..k = (1..k-1) \cup {k}
    BY <1>0
  <2>4. Out(woven, k) = Out(woven, k-1) \cup {woven[k]}
    BY <2>3 DEF Out
  <2> QED BY <2>1, <2>2, <2>4, PopsEarliest
<1>4. Out(woven, 0) = {}
  BY DEF Out
<1>5. Out(woven, K) = events
  <2>1. \A j, k \in 1..K : woven[j] = woven[k] => j = k
    <3>1. ASSUME NEW j \in 1..K, NEW k \in 1..K, j < k PROVE woven[j] # woven[k]
      <4>1. woven[j] \in Out(woven, k-1)
        BY <1>0, <3>1 DEF Out
      <4> QED BY <1>3, <4>1
    <3> QED BY <1>0, <3>1
  <2>2. woven \in Bijection(1..K, Out(woven, K))
    BY <1>1, <2>1 DEF Bijection, Injection, IsInjective, Surjection, Out
  <2>3. Cardinality(Out(woven, K)) = K
    BY <1>0, <2>2, FS_CountingElements DEF ExistsBijection
  <2>4. Out(woven, K) \in SUBSET events
    BY <1>1 DEF Out
  <2> QED BY <1>0, <2>3, <2>4, FS_Subset DEF K
<1> QED BY <1>0, <1>2, <1>3, <1>4, <1>5 DEF K

----------------------------------------------------------------------------
(* Two folds that tell the same of the capabilities of an event.               *)

(* What the fencing of a fold rests on. *)
Leases(l) ==
  /\ l.lease \in [Cap -> Lease]
  /\ l.maxToken \in [Cap -> Nat]
  /\ l.seq \in Nat
  /\ l.clock \in Nat
  /\ \A c \in Cap : l.maxToken[c] <= l.seq /\ l.lease[c].seq <= l.seq

(* The same of one capability, but for the number of its lease ...             *)
Alike(one, two, c) ==
  /\ one.lease[c].token = two.lease[c].token
  /\ one.lease[c].expiry = two.lease[c].expiry
  /\ one.lease[c].ended = two.lease[c].ended
  /\ one.maxToken[c] = two.maxToken[c]
  /\ one.pending[c] = two.pending[c]
  /\ one.binding[c] = two.binding[c]
  /\ one.decided[c] = two.decided[c]

(* ... and the same about which leases are one. *)
OneInBoth(one, two, c, d) ==
  one.lease[c].seq = one.lease[d].seq <=> two.lease[c].seq = two.lease[d].seq

(* The rules look at nothing else (checkRules). *)
LEMMA AcceptsAlike ==
  ASSUME NEW one, NEW two, NEW e, NEW now, Accepts(one, e, now),
         \A c \in e.caps : Alike(one, two, c),
         \A c, d \in e.caps : OneInBoth(one, two, c, d)
  PROVE  Accepts(two, e, now)
<1>1. \A c \in e.caps : Active(one, c, now) <=> Active(two, c, now)
  BY DEF Alike, Active
<1>2. e.type \in {"lease.released", "lease.renewed"} \cup MutationTypes =>
        \A c \in e.caps : Holds(one, c, e.token, now) => Holds(two, c, e.token, now)
  BY <1>1 DEF Alike, Holds
<1>3. OneLease(one, e.caps) => OneLease(two, e.caps)
  BY DEF OneLease, OneInBoth
<1>4. \A c \in e.caps : one.pending[c] = {} => two.pending[c] = {}
  BY DEF Alike
<1> QED BY <1>1, <1>2, <1>3, <1>4 DEF Accepts

(* A new token is one above the largest, so it is the same for the same maxima. *)
LEMMA TopOf ==
  ASSUME NEW l, Leases(l), NEW caps \in CapSets
  PROVE  /\ TopToken(l, caps) \in Nat
         /\ \E c \in caps : TopToken(l, caps) = l.maxToken[c]
         /\ \A c \in caps : l.maxToken[c] <= TopToken(l, caps)
<1> DEFINE f == [c \in caps |-> l.maxToken[c]]
           S == {l.maxToken[c] : c \in caps}
<1>1. f \in [caps -> Nat] /\ caps # {} /\ l.seq \in Nat /\ \A c \in caps : f[c] <= l.seq
  BY DEF Leases, CapSets
<1>2. \E c \in caps : \A d \in caps : f[d] <= f[c]
  <2> HIDE DEF f
  <2> QED BY <1>1, MaxExists
<1>3. \E t \in S : \A c \in caps : l.maxToken[c] <= t
  BY <1>2
<1>4. TopToken(l, caps) \in S /\ \A c \in caps : l.maxToken[c] <= TopToken(l, caps)
  BY <1>3 DEF TopToken
<1> QED BY <1>1, <1>4

LEMMA TokenAlike ==
  ASSUME NEW one, Leases(one), NEW two, Leases(two), NEW caps \in CapSets,
         \A c \in caps : Alike(one, two, c)
  PROVE  NewToken(one, caps) = NewToken(two, caps) /\ NewToken(one, caps) \in Nat
<1> DEFINE t == TopToken(one, caps)
           u == TopToken(two, caps)
<1>1. \A c \in caps : one.maxToken[c] = two.maxToken[c]
  BY DEF Alike
<1>2. /\ t \in Nat /\ \A c \in caps : one.maxToken[c] <= t
      /\ \E c \in caps : t = one.maxToken[c]
  BY TopOf
<1>3. /\ u \in Nat /\ \A c \in caps : two.maxToken[c] <= u
      /\ \E c \in caps : u = two.maxToken[c]
  BY TopOf
<1> HIDE DEF t, u
<1>4. t = u
  BY <1>1, <1>2, <1>3
<1> QED BY <1>2, <1>4 DEF NewToken, t, u

(* What an event does to the lease of a capability it is about. *)
LEMMA StepLease ==
  ASSUME NEW l, NEW e, NEW now, NEW c \in Cap, c \in e.caps, l.lease[c] \in Lease
  PROVE  /\ Step(l, e, now).lease[c].token =
              IF e.type = "lease.acquired" THEN NewToken(l, e.caps) ELSE l.lease[c].token
         /\ Step(l, e, now).lease[c].expiry =
              IF e.type \in {"lease.acquired", "lease.renewed"} THEN now + e.ttl
              ELSE l.lease[c].expiry
         /\ e.type \notin {"lease.acquired", "lease.released", "lease.broken"} =>
              Step(l, e, now).lease[c].ended = l.lease[c].ended
         /\ Step(l, e, now).lease[c].seq =
              IF e.type = "lease.acquired" THEN l.seq + 1 ELSE l.lease[c].seq
<1>1. Step(l, e, now).lease = LeaseAfter(l, e, now)
  BY DEF Step
<1>2. CASE e.type = "lease.acquired"
  <2>1. Step(l, e, now).lease[c] = [token |-> NewToken(l, e.caps), expiry |-> now + e.ttl,
                                    ended |-> FALSE, seq |-> l.seq + 1]
    BY <1>1, <1>2, Zenon DEF LeaseAfter
  <2> QED BY <1>2, <2>1
<1>3. CASE e.type = "lease.renewed"
  <2>1. Step(l, e, now).lease[c] = [l.lease[c] EXCEPT !.expiry = now + e.ttl]
    BY <1>1, <1>3, Zenon DEF LeaseAfter
  <2>2. ASSUME NEW r \in Lease, NEW v
        PROVE  LET s == [r EXCEPT !.expiry = v] IN
               s.token = r.token /\ s.expiry = v /\ s.ended = r.ended /\ s.seq = r.seq
    BY DEF Lease
  <2> QED BY <1>3, <2>1, <2>2
<1>4. CASE e.type \in {"lease.released", "lease.broken"}
  <2>1. Step(l, e, now).lease[c] = [l.lease[c] EXCEPT !.ended = TRUE]
    BY <1>1, <1>4 DEF LeaseAfter
  <2>2. ASSUME NEW r \in Lease
        PROVE  LET s == [r EXCEPT !.ended = TRUE] IN
               s.token = r.token /\ s.expiry = r.expiry /\ s.ended = TRUE /\ s.seq = r.seq
    BY DEF Lease
  <2> QED BY <1>4, <2>1, <2>2
<1>5. CASE e.type \notin {"lease.acquired", "lease.renewed", "lease.released", "lease.broken"}
  BY <1>1, <1>5 DEF LeaseAfter
<1> QED BY <1>2, <1>3, <1>4, <1>5

LEMMA StepGrants ==
  ASSUME NEW l, NEW e, NEW now, NEW c \in Cap, c \in e.caps, e.type = "lease.acquired"
  PROVE  Step(l, e, now).lease[c].ended = FALSE
<1>1. Step(l, e, now).lease = LeaseAfter(l, e, now)
  BY DEF Step
<1>2. Step(l, e, now).lease[c] = [token |-> NewToken(l, e.caps), expiry |-> now + e.ttl,
                                  ended |-> FALSE, seq |-> l.seq + 1]
  BY <1>1, Zenon DEF LeaseAfter
<1> QED BY <1>2

LEMMA StepEnds ==
  ASSUME NEW l, NEW e, NEW now, NEW c \in Cap, c \in e.caps, l.lease[c] \in Lease,
         e.type \in {"lease.released", "lease.broken"}
  PROVE  Step(l, e, now).lease[c].ended = TRUE
<1>1. Step(l, e, now).lease = LeaseAfter(l, e, now)
  BY DEF Step
<1>2. Step(l, e, now).lease[c] = [l.lease[c] EXCEPT !.ended = TRUE]
  BY <1>1 DEF LeaseAfter
<1>3. ASSUME NEW r \in Lease PROVE [r EXCEPT !.ended = TRUE].ended = TRUE
  BY DEF Lease
<1> QED BY <1>2, <1>3

(* What an event does to a capability it is about. *)
LEMMA StepAlike ==
  ASSUME NEW one, Leases(one), NEW two, Leases(two), NEW e \in Event, NEW now \in Nat,
         \A c \in e.caps : Alike(one, two, c)
  PROVE  \A c \in e.caps : Alike(Step(one, e, now), Step(two, e, now), c)
<1> DEFINE One == Step(one, e, now)
           Two == Step(two, e, now)
<1>1. e.caps \in CapSets /\ e.caps \subseteq Cap
  BY EventFields DEF CapSets
<1>2. NewToken(one, e.caps) = NewToken(two, e.caps)
  BY <1>1, TokenAlike
<1>3. SUFFICES ASSUME NEW c \in e.caps PROVE Alike(One, Two, c)
  OBVIOUS
<1>4. c \in Cap /\ one.lease[c] \in Lease /\ two.lease[c] \in Lease
  BY <1>1 DEF Leases
<1>5. Alike(one, two, c)
  OBVIOUS
<1>10. One.lease[c].token = Two.lease[c].token /\ One.lease[c].expiry = Two.lease[c].expiry
  <2> HIDE DEF One, Two
  <2>1. /\ One.lease[c].token = IF e.type = "lease.acquired" THEN NewToken(one, e.caps)
                                ELSE one.lease[c].token
        /\ One.lease[c].expiry = IF e.type \in {"lease.acquired", "lease.renewed"}
                                 THEN now + e.ttl ELSE one.lease[c].expiry
    BY <1>4, StepLease DEF One
  <2>2. /\ Two.lease[c].token = IF e.type = "lease.acquired" THEN NewToken(two, e.caps)
                                ELSE two.lease[c].token
        /\ Two.lease[c].expiry = IF e.type \in {"lease.acquired", "lease.renewed"}
                                 THEN now + e.ttl ELSE two.lease[c].expiry
    BY <1>4, StepLease DEF Two
  <2> QED BY <1>2, <1>5, <2>1, <2>2 DEF Alike
<1>11. One.lease[c].ended = Two.lease[c].ended
  <2> HIDE DEF One, Two
  <2>1. CASE e.type = "lease.acquired"
    <3>1. One.lease[c].ended = FALSE
      BY <1>4, <2>1, StepGrants, Zenon DEF One
    <3>2. Two.lease[c].ended = FALSE
      BY <1>4, <2>1, StepGrants, Zenon DEF Two
    <3> QED BY <3>1, <3>2
  <2>2. CASE e.type \in {"lease.released", "lease.broken"}
    <3>1. One.lease[c].ended = TRUE
      BY <1>4, <2>2, StepEnds, Zenon DEF One
    <3>2. Two.lease[c].ended = TRUE
      BY <1>4, <2>2, StepEnds, Zenon DEF Two
    <3> QED BY <3>1, <3>2
  <2>3. CASE e.type \notin {"lease.acquired", "lease.released", "lease.broken"}
    <3>1. One.lease[c].ended = one.lease[c].ended
      BY <1>4, <2>3, StepLease DEF One
    <3>2. Two.lease[c].ended = two.lease[c].ended
      BY <1>4, <2>3, StepLease DEF Two
    <3> QED BY <1>5, <3>1, <3>2 DEF Alike
  <2> QED BY <2>1, <2>2, <2>3
<1>6. One.maxToken[c] = Two.maxToken[c]
  BY <1>2, <1>4 DEF Step, MaxTokenAfter, Alike
<1>7. One.pending[c] = Two.pending[c]
  BY <1>4 DEF Step, PendingAfter, Alike
<1>8. One.binding[c] = Two.binding[c]
  BY <1>4 DEF Step, BindingAfter, Alike
<1>9. One.decided[c] = Two.decided[c]
  BY <1>4 DEF Step, DecidedAfter, Alike
<1> HIDE DEF One, Two
<1> QED BY <1>6, <1>7, <1>8, <1>9, <1>10, <1>11 DEF Alike

(* An event is no business of a capability it does not list. *)
LEMMA StepApart ==
  ASSUME NEW l, NEW e, NEW now, NEW c \in Cap, c \notin e.caps
  PROVE  /\ Alike(Step(l, e, now), l, c)
         /\ Step(l, e, now).lease[c].seq = l.lease[c].seq
BY DEF Alike, Step, LeaseAfter, MaxTokenAfter, PendingAfter, BindingAfter, DecidedAfter

(* A grant gives its capabilities one new number; no other event gives any.    *)
LEMMA StepNumbers ==
  ASSUME NEW l, Leases(l), NEW e \in Event, NEW now \in Nat
  PROVE  /\ Step(l, e, now).seq = IF e.type = "lease.acquired" THEN l.seq + 1 ELSE l.seq
         /\ \A c \in e.caps : Step(l, e, now).lease[c].seq =
              IF e.type = "lease.acquired" THEN l.seq + 1 ELSE l.lease[c].seq
<1>1. e.caps \subseteq Cap
  BY EventFields DEF CapSets
<1>2. \A c \in e.caps : c \in Cap /\ l.lease[c] \in Lease
  BY <1>1 DEF Leases
<1>3. Step(l, e, now).seq = IF e.type = "lease.acquired" THEN l.seq + 1 ELSE l.seq
  BY DEF Step, SeqAfter
<1>4. \A c \in e.caps : Step(l, e, now).lease[c].seq =
        IF e.type = "lease.acquired" THEN l.seq + 1 ELSE l.lease[c].seq
  BY <1>2, StepLease
<1> QED BY <1>3, <1>4

LEMMA StepLeases ==
  ASSUME NEW l, Leases(l), NEW e \in Event, NEW now \in Nat
  PROVE  Leases(Step(l, e, now))
<1> DEFINE after == Step(l, e, now)
<1>1. /\ e.caps \in CapSets /\ e.caps \subseteq Cap /\ e.at \in Nat
      /\ e.type \in {"lease.acquired", "lease.renewed"} => e.ttl \in Nat
  BY EventFields DEF CapSets
<1>2. NewToken(l, e.caps) \in Nat /\ NewToken(l, e.caps) <= l.seq + 1
  BY <1>1, TokenAbove DEF Leases, CapSets
<1>3. after.lease \in [Cap -> Lease]
  <2>1. \A c \in Cap : l.lease[c] \in Lease
    BY DEF Leases
  <2>2. e.type = "lease.acquired" =>
          [token |-> NewToken(l, e.caps), expiry |-> now + e.ttl,
           ended |-> FALSE, seq |-> l.seq + 1] \in Lease
    BY <1>1, <1>2 DEF Lease, Leases
  <2>3. e.type = "lease.renewed" =>
          \A c \in Cap : [l.lease[c] EXCEPT !.expiry = now + e.ttl] \in Lease
    BY <1>1, <2>1 DEF Lease
  <2>4. \A c \in Cap : [l.lease[c] EXCEPT !.ended = TRUE] \in Lease
    BY <2>1 DEF Lease
  <2> QED BY <2>1, <2>2, <2>3, <2>4 DEF Step, LeaseAfter
<1>4. after.maxToken \in [Cap -> Nat] /\ after.seq \in Nat /\ after.clock \in Nat
  BY <1>1, <1>2 DEF Step, MaxTokenAfter, SeqAfter, Leases
<1>5. ASSUME NEW c \in Cap
      PROVE  after.maxToken[c] <= after.seq /\ after.lease[c].seq <= after.seq
  <2>1. after.seq = IF e.type = "lease.acquired" THEN l.seq + 1 ELSE l.seq
    BY StepNumbers
  <2>2. after.maxToken[c] <= after.seq
    BY <1>2, <2>1 DEF Step, MaxTokenAfter, Leases
  <2>3. CASE c \in e.caps
    <3>1. after.lease[c].seq = IF e.type = "lease.acquired" THEN l.seq + 1 ELSE l.lease[c].seq
      BY <2>3, StepNumbers
    <3> QED BY <2>1, <2>2, <3>1 DEF Leases
  <2>4. CASE c \notin e.caps
    <3>1. after.lease[c].seq = l.lease[c].seq
      BY <2>4, StepApart
    <3>2. l.lease[c].seq \in Nat /\ l.lease[c].seq <= l.seq /\ l.seq \in Nat
      BY DEF Leases, Lease
    <3> HIDE DEF after
    <3> QED BY <2>1, <2>2, <3>1, <3>2
  <2> QED BY <2>3, <2>4
<1> HIDE DEF after
<1>6. Leases(after)
  BY <1>3, <1>4, <1>5 DEF Leases
<1> QED BY <1>6 DEF after

----------------------------------------------------------------------------
(* The history.  What the restore of an old anchor is compared with is not the *)
(* state of the ledger but a state it once had, the fold of its first m lines: *)
(* the invariant speaks of all of them.                                        *)

(* The lease of c has a number only from a grant among the first m lines.      *)
Numbered(l, c, m) ==
  \/ l.lease[c].seq = 0
  \/ \E i \in 1..m : Grant(i) /\ c \in log[i].caps /\ log[i].seq = l.lease[c].seq

Past(m) ==
  LET l == Fold(log, m).led IN
  /\ Fold(log, m).ok
  /\ Leases(l)
  /\ l.clock <= led.clock /\ \A i \in m+1..Len(log) : l.clock <= log[i].at
  /\ \A c \in Cap : Numbered(l, c, m)
  /\ m # 0 /\ Grant(m) => log[m].seq = l.seq

PastInv == \A m \in 0..Len(log) : Past(m)

HistInv == TokenInv /\ SeqUnique /\ FoldInv /\ Sorted /\ PastInv

LEMMA CommitSorted ==
  ASSUME HistInv, NEW e \in Event, Commit(e)
  PROVE  Sorted' /\ led.clock <= led'.clock /\ led.clock <= e.at /\ led'.clock = e.at
<1>1. TypeOK /\ TokensCounted /\ Sorted /\ led.clock \in Nat /\ led.seq \in Nat
  BY DEF HistInv, TokenInv, TypeOK
<1>2. e.at \in Nat /\ led.clock <= e.at
  BY <1>1, EventFields DEF Commit, Regresses
<1>3. led'.clock = e.at
  BY <1>1, <1>2 DEF Commit, Step
<1>4. /\ Len(log) \in Nat /\ Len(log') = Len(log) + 1 /\ log'[Len(log) + 1] = Line(e)
      /\ \A i \in 1..Len(log) : log'[i] = log[i] /\ log[i] \in Event
      /\ NewToken(led, e.caps) \in Nat
  BY <1>1, CommitLog
<1>5. Line(e).at = e.at
  BY <1>1, <1>4, LineFields
<1>6. \A i \in 1..Len(log) : log[i].at \in Nat /\ log[i].at <= led.clock
  BY <1>1, <1>4, EventFields DEF Sorted
<1>7. \A i \in 1..Len(log') : log'[i].at <= e.at
  BY <1>1, <1>2, <1>4, <1>5, <1>6
<1>8. ASSUME NEW i \in 1..Len(log'), NEW j \in 1..Len(log'), i <= j
      PROVE  log'[i].at <= log'[j].at
  <2>1. CASE j = Len(log) + 1
    BY <1>4, <1>5, <1>7, <2>1
  <2>2. CASE j \in 1..Len(log)
    <3>1. i \in 1..Len(log) /\ log'[i] = log[i] /\ log'[j] = log[j]
      BY <1>4, <1>8, <2>2
    <3> QED BY <1>1, <1>8, <2>2, <3>1 DEF Sorted
  <2> QED BY <1>4, <2>1, <2>2
<1> QED BY <1>2, <1>3, <1>7, <1>8 DEF Sorted

LEMMA CommitPast ==
  ASSUME HistInv, NEW e \in Event, Commit(e)
  PROVE  PastInv'
<1>0. PICK N \in Nat : N = Len(log)
  BY DEF HistInv, TokenInv, TypeOK
<1>1. /\ TypeOK /\ TokensCounted /\ FoldInv /\ PastInv /\ led.seq \in Nat /\ led.clock \in Nat
  BY DEF HistInv, TokenInv, TypeOK
<1>2. /\ N \in Nat /\ Len(log') = N + 1 /\ log'[N + 1] = Line(e)
      /\ \A i \in 1..N : log'[i] = log[i] /\ log[i] \in Event
      /\ NewToken(led, e.caps) \in Nat
  BY <1>0, <1>1, CommitLog
<1>3. /\ Line(e).type = e.type /\ Line(e).caps = e.caps /\ Line(e).at = e.at
      /\ e.type = "lease.acquired" => Line(e).seq = led.seq + 1
  BY <1>1, <1>2, LineFields
<1>4. led.clock <= led'.clock /\ led.clock <= e.at /\ led'.clock = e.at
  BY CommitSorted
<1>5. FoldInv' /\ \A m \in 0..N : Fold(log', m) = Fold(log, m)
  BY <1>0, <1>1, CommitFolds
<1>6. \A i \in 1..N : Grant(i)' <=> Grant(i)
  BY <1>2 DEF Grant
<1>7. ASSUME NEW m \in 0..N PROVE Past(m)'
  <2> DEFINE l == Fold(log, m).led
  <2>1. Past(m)
    BY <1>0, <1>1 DEF PastInv
  <2>2. /\ Fold(log, m).ok /\ Leases(l) /\ l.clock <= led.clock /\ l.clock \in Nat
        /\ \A i \in m+1..N : l.clock <= log[i].at
        /\ \A c \in Cap : Numbered(l, c, m)
        /\ m # 0 /\ Grant(m) => log[m].seq = l.seq
    BY <1>0, <2>1 DEF Past, Leases
  <2>3. Fold(log', m) = Fold(log, m)
    BY <1>5
  <2> HIDE DEF l
  <2>4. ASSUME NEW i \in m+1..Len(log') PROVE l.clock <= log'[i].at
    <3>1. CASE i \in m+1..N
      BY <1>2, <2>2, <3>1
    <3>2. CASE i = N + 1
      <4>1. log'[i].at = e.at /\ e.at \in Nat
        BY <1>2, <1>3, <3>2, EventFields
      <4> QED BY <1>1, <1>4, <2>2, <4>1
    <3> QED BY <1>2, <3>1, <3>2
  <2>5. l.clock <= led'.clock
    BY <1>1, <1>4, <2>2, EventFields
  <2>6. ASSUME NEW c \in Cap PROVE Numbered(l, c, m)'
    <3>1. Numbered(l, c, m)
      BY <2>2
    <3>2. \A i \in 1..m : i \in 1..N
      BY <1>2
    <3>3. l' = l
      BY <2>3 DEF l
    <3> QED BY <1>2, <1>6, <3>1, <3>2, <3>3 DEF Numbered
  <2>7. m # 0 /\ Grant(m)' => log'[m].seq = l.seq
    <3>1. m # 0 => m \in 1..N
      BY <1>2
    <3> QED BY <1>2, <1>6, <2>2, <3>1
  <2>8. l' = l
    BY <2>3 DEF l
  <2> QED BY <1>2, <2>2, <2>3, <2>4, <2>5, <2>6, <2>7, <2>8 DEF Past, l
<1>8. Past(N + 1)'
  <2>1. Fold(log', N + 1) = [ok |-> TRUE, led |-> led']
    BY <1>2, <1>5 DEF FoldInv
  <2>2. Leases(led) /\ \A c \in Cap : Numbered(led, c, N)
    <3>1. Past(N)
      BY <1>0, <1>1, <1>2 DEF PastInv
    <3>2. Fold(log, N) = [ok |-> TRUE, led |-> led]
      BY <1>0, <1>1 DEF FoldInv
    <3> QED BY <3>1, <3>2 DEF Past
  <2>3. led' = Step(led, e, e.at) /\ e.at \in Nat
    BY EventFields DEF Commit
  <2>4. Leases(led')
    BY <2>2, <2>3, StepLeases
  <2>5. /\ led'.seq = IF e.type = "lease.acquired" THEN led.seq + 1 ELSE led.seq
        /\ \A c \in e.caps : led'.lease[c].seq =
             IF e.type = "lease.acquired" THEN led.seq + 1 ELSE led.lease[c].seq
    BY <2>2, <2>3, StepNumbers
  <2>6. ASSUME NEW c \in Cap
        PROVE  \/ led'.lease[c].seq = 0
               \/ \E i \in 1..N+1 : Grant(i)' /\ c \in log'[i].caps
                                    /\ log'[i].seq = led'.lease[c].seq
    <3>1. CASE e.type = "lease.acquired" /\ c \in e.caps
      <4>1. N + 1 \in 1..N+1 /\ Grant(N + 1)' /\ c \in log'[N+1].caps
            /\ log'[N+1].seq = led'.lease[c].seq
        BY <1>2, <1>3, <2>5, <3>1 DEF Grant
      <4> QED BY <4>1
    <3>2. CASE ~(e.type = "lease.acquired" /\ c \in e.caps)
      <4>1. led'.lease[c].seq = led.lease[c].seq
        <5>1. CASE c \in e.caps
          BY <2>5, <3>2, <5>1
        <5>2. CASE c \notin e.caps
          BY <2>3, <5>2, StepApart
        <5> QED BY <5>1, <5>2
      <4>2. Numbered(led, c, N)
        BY <2>2
      <4> QED BY <1>2, <1>6, <4>1, <4>2 DEF Numbered
    <3> QED BY <3>1, <3>2
  <2>7. Grant(N + 1)' => log'[N+1].seq = led'.seq
    BY <1>2, <1>3, <2>5 DEF Grant
  <2>8. led'.clock <= led'.clock /\ \A i \in N+2..N+1 : FALSE
    BY <1>2, <2>4 DEF Leases
  <2> QED BY <1>2, <2>1, <2>4, <2>6, <2>7, <2>8 DEF Past, Numbered
<1>9. \A m \in 0..N+1 : m \in 0..N \/ m = N + 1
  BY <1>2
<1> QED BY <1>2, <1>7, <1>8, <1>9 DEF PastInv

(* The history is what it is said to be in every state of the open ledger.     *)
LEMMA HistInvInductive == Spec => []HistInv
<1>1. Init => SeqUnique /\ FoldInv /\ Sorted /\ PastInv
  <2> SUFFICES ASSUME Init PROVE SeqUnique /\ FoldInv /\ Sorted /\ PastInv
    OBVIOUS
  <2>1. log = <<>> /\ Len(log) = 0 /\ led = EmptyLedger
    BY DEF Init
  <2>2. FoldInv /\ Fold(log, 0) = [ok |-> TRUE, led |-> EmptyLedger]
    BY <2>1, FoldSteps DEF FoldInv, Start
  <2>3. Leases(EmptyLedger)
    BY DEF Leases, EmptyLedger, NoLease, Lease
  <2>4. Past(0)
    <3>1. Fold(log, 0).ok /\ Fold(log, 0).led = EmptyLedger
      BY <2>2
    <3>2. \A c \in Cap : EmptyLedger.lease[c].seq = 0
      BY DEF EmptyLedger, NoLease
    <3>3. led.clock = 0 /\ EmptyLedger.clock = 0
      BY <2>1 DEF EmptyLedger
    <3> QED BY <2>1, <2>3, <3>1, <3>2, <3>3 DEF Past, Numbered
  <2>5. \A m \in 0..0 : m = 0
    OBVIOUS
  <2> QED BY <2>1, <2>2, <2>4, <2>5 DEF SeqUnique, Sorted, PastInv
<1>2. TokenInv /\ SeqUnique /\ FoldInv /\ Sorted /\ PastInv /\ [Next]_vars
        => (SeqUnique /\ FoldInv /\ Sorted /\ PastInv)'
  <2> SUFFICES ASSUME TokenInv /\ SeqUnique /\ FoldInv /\ Sorted /\ PastInv, [Next]_vars
               PROVE  (SeqUnique /\ FoldInv /\ Sorted /\ PastInv)'
    OBVIOUS
  <2>1. CASE Next
    <3>1. PICK e \in Event : Commit(e)
      BY <2>1, NextCommits DEF TokenInv, TypeOK
    <3>2. HistInv
      BY DEF HistInv
    <3> QED BY <3>1, <3>2, CommitSeqUnique, CommitFolds, CommitSorted, CommitPast
            DEF TokenInv
  <2>2. CASE UNCHANGED vars
    BY <2>2 DEF vars, SeqUnique, FoldInv, Sorted, PastInv, Past, Numbered, Grant
  <2> QED BY <2>1, <2>2
<1> QED BY <1>1, <1>2, TokenInvInductive, PTL DEF Spec, HistInv

(* A line of the history is the step between the states before and after it.   *)
LEMMA PastStep ==
  ASSUME HistInv, NEW m \in 1..Len(log)
  PROVE  /\ log[m] \in Event /\ log[m].at \in Nat /\ m - 1 \in 0..Len(log)
         /\ Leases(Fold(log, m-1).led) /\ Leases(Fold(log, m).led)
         /\ Accepts(Fold(log, m-1).led, log[m], log[m].at)
         /\ Fold(log, m).led = Step(Fold(log, m-1).led, log[m], log[m].at)
<1>1. Len(log) \in Nat /\ log[m] \in Event
  BY DEF HistInv, TokenInv, TypeOK
<1>2. m - 1 \in 0..Len(log) /\ m \in 0..Len(log) /\ m - 1 \in Nat /\ (m - 1) + 1 = m
  BY <1>1
<1>3. Past(m-1) /\ Past(m)
  BY <1>2 DEF HistInv, PastInv
<1>4. Fold(log, m) = ReplayLine(Fold(log, m-1), log[m])
  BY <1>2, FoldSteps
<1> DEFINE l == Fold(log, m-1).led
<1>5. log[m].at \in Nat /\ l.clock \in Nat /\ l.clock <= log[m].at
  BY <1>1, <1>2, <1>3, EventFields DEF Past, Leases
<1>6. ReplayClock(l, log[m]) = log[m].at
  BY <1>5 DEF ReplayClock
<1>7. /\ Fold(log, m).ok => Accepts(l, log[m], log[m].at)
      /\ Fold(log, m).led = Step(l, log[m], log[m].at)
  <2> DEFINE both == Fold(log, m-1).ok /\ Accepts(l, log[m], log[m].at)
             stepped == Step(l, log[m], log[m].at)
  <2>1. Fold(log, m) = [ok |-> both, led |-> stepped]
    BY <1>4, <1>6 DEF ReplayLine
  <2>2. both => Accepts(l, log[m], log[m].at)
    OBVIOUS
  <2> HIDE DEF both
  <2>3. Fold(log, m).led = stepped
    BY <2>1
  <2>4. ASSUME Fold(log, m).ok, ~both PROVE FALSE
    <3>1. both = FALSE
      BY <2>4 DEF both
    <3>2. Fold(log, m) = [ok |-> FALSE, led |-> stepped]
      BY <2>1, <3>1
    <3> QED BY <2>4, <3>2
  <2> QED BY <2>2, <2>3, <2>4
<1>8. Leases(l) /\ Leases(Fold(log, m).led) /\ Fold(log, m).ok
  BY <1>3 DEF Past
<1> QED BY <1>1, <1>2, <1>5, <1>7, <1>8

(* Between two lines about a capability nothing of it changes.                 *)
LEMMA PastStill ==
  ASSUME HistInv, NEW c \in Cap, NEW a \in 0..Len(log), NEW b \in a..Len(log),
         \A i \in a+1..b : c \notin log[i].caps
  PROVE  /\ Alike(Fold(log, a).led, Fold(log, b).led, c)
         /\ Fold(log, a).led.lease[c].seq = Fold(log, b).led.lease[c].seq
<1>0. Len(log) \in Nat /\ a \in Nat /\ b \in Nat /\ b - a \in Nat
  BY DEF HistInv, TokenInv, TypeOK
<1> DEFINE T == {n \in Nat : a + n <= b =>
                   /\ Alike(Fold(log, a).led, Fold(log, a + n).led, c)
                   /\ Fold(log, a).led.lease[c].seq = Fold(log, a + n).led.lease[c].seq}
<1>1. 0 \in T
  BY <1>0 DEF Alike
<1>2. ASSUME NEW n \in Nat, n \in T PROVE n + 1 \in T
  <2> SUFFICES ASSUME a + (n + 1) <= b
               PROVE  /\ Alike(Fold(log, a).led, Fold(log, a + (n + 1)).led, c)
                      /\ Fold(log, a).led.lease[c].seq = Fold(log, a + (n + 1)).led.lease[c].seq
    OBVIOUS
  <2> DEFINE m == a + (n + 1)
             l == Fold(log, a + n).led
  <2>1. m \in 1..Len(log) /\ m - 1 = a + n /\ m \in a+1..b /\ a + n <= b
    BY <1>0
  <2>2. Alike(Fold(log, a).led, l, c) /\ Fold(log, a).led.lease[c].seq = l.lease[c].seq
    BY <1>2, <2>1
  <2>3. c \notin log[m].caps
    BY <2>1
  <2>4. Fold(log, m).led = Step(l, log[m], log[m].at)
    BY <2>1, PastStep
  <2> HIDE DEF l, m
  <2>5. Alike(Fold(log, m).led, l, c) /\ Fold(log, m).led.lease[c].seq = l.lease[c].seq
    BY <2>3, <2>4, StepApart
  <2>6. Alike(Fold(log, a).led, Fold(log, m).led, c)
    BY <2>2, <2>5 DEF Alike
  <2> QED BY <2>2, <2>5, <2>6 DEF m
<1> HIDE DEF T
<1>3. b - a \in T
  BY <1>0, <1>1, <1>2, NaturalsByStep
<1>4. a + (b - a) = b
  BY <1>0
<1> QED BY <1>0, <1>3, <1>4 DEF T

(* The number of a grant is the number of no lease of a capability it did not  *)
(* list, then or at any other time.                                            *)
LEMMA PastNumbers ==
  ASSUME HistInv, NEW i \in 1..Len(log), Grant(i), NEW c \in log[i].caps,
         NEW d \in Cap, d \notin log[i].caps, NEW m \in 0..Len(log)
  PROVE  Fold(log, i).led.lease[c].seq # Fold(log, m).led.lease[d].seq
<1>1. /\ log[i] \in Event /\ log[i].at \in Nat /\ Leases(Fold(log, i-1).led)
      /\ Fold(log, i).led = Step(Fold(log, i-1).led, log[i], log[i].at)
  BY PastStep
<1> DEFINE l == Fold(log, i-1).led
           s == Fold(log, m).led.lease[d].seq
<1>2. l.seq \in Nat /\ Fold(log, i).led.seq = l.seq + 1 /\ Fold(log, i).led.lease[c].seq = l.seq + 1
  <2>1. l.seq \in Nat /\ log[i].type = "lease.acquired"
    BY <1>1 DEF Grant, Leases
  <2> HIDE DEF l
  <2>2. /\ Step(l, log[i], log[i].at).seq = l.seq + 1
        /\ Step(l, log[i], log[i].at).lease[c].seq = l.seq + 1
    BY <1>1, <2>1, StepNumbers DEF l
  <2> QED BY <1>1, <2>1, <2>2 DEF l
<1>3. i \in 0..Len(log) /\ i # 0
  OBVIOUS
<1>4. Past(i) /\ Past(m)
  BY <1>3 DEF HistInv, PastInv
<1>5. log[i].seq = l.seq + 1
  BY <1>2, <1>3, <1>4 DEF Past
<1>6. s = 0 \/ \E j \in 1..m : Grant(j) /\ d \in log[j].caps /\ log[j].seq = s
  BY <1>4 DEF Past, Numbered
<1> HIDE DEF l, s
<1>7. SUFFICES ASSUME s = l.seq + 1 PROVE FALSE
  BY <1>2 DEF s
<1>8. PICK j \in 1..m : Grant(j) /\ d \in log[j].caps /\ log[j].seq = s
  BY <1>2, <1>6, <1>7
<1>9. i \in DOMAIN log /\ j \in DOMAIN log
  BY DEF HistInv, TokenInv, TypeOK
<1>10. j = i
  BY <1>5, <1>7, <1>8, <1>9 DEF HistInv, SeqUnique
<1> QED BY <1>8, <1>10

----------------------------------------------------------------------------
(* The weave against the history. *)

(* The first m lines hold the same about c as what was given out. *)
UpTo(c, m, given) == EmitCapsule(c, m) = {i \in given : c \in log[i].caps}

(* A fold that stands, for each of some capabilities, where the history stood   *)
(* after the lines about it that were given out.                                *)
Follows(l, given, n, caps) ==
  /\ Leases(l)
  /\ \A c \in caps, m \in 0..n : UpTo(c, m, given) => Alike(Fold(log, m).led, l, c)
  /\ \A c, d \in caps, m, q \in 0..n :
       UpTo(c, m, given) /\ UpTo(d, q, given) =>
         (Fold(log, m).led.lease[c].seq = Fold(log, q).led.lease[d].seq
            <=> l.lease[c].seq = l.lease[d].seq)

(* The next line of the weave is accepted and keeps the fold where it belongs,  *)
(* if all that comes before it on its capabilities was given out, and no more.  *)
LEMMA FollowsStep ==
  ASSUME HistInv, NEW n \in 0..Len(log), NEW caps \in SUBSET Cap,
         NEW given \in SUBSET (1..n), NEW i \in 1..n, log[i].caps \subseteq caps,
         \A c \in log[i].caps : UpTo(c, i-1, given),
         NEW l, Follows(l, given, n, caps)
  PROVE  /\ Accepts(l, log[i], log[i].at)
         /\ Follows(Step(l, log[i], log[i].at), given \cup {i}, n, caps)
<1> DEFINE e == log[i]
           old == Fold(log, i-1).led
           new == Fold(log, i).led
           after == Step(l, e, e.at)
<1>0. n \in Nat /\ n <= Len(log) /\ Len(log) \in Nat /\ i \in 1..Len(log) /\ i - 1 \in 0..n
  BY DEF HistInv, TokenInv, TypeOK
<1>1. /\ e \in Event /\ e.at \in Nat /\ Leases(old) /\ Leases(l) /\ e.caps \subseteq Cap
      /\ Accepts(old, e, e.at) /\ new = Step(old, e, e.at)
  BY <1>0, PastStep, EventFields DEF Follows, CapSets
<1>2. \A c \in e.caps : Alike(old, l, c)
  BY <1>0 DEF Follows
<1>3. \A c, d \in e.caps : OneInBoth(old, l, c, d)
  BY <1>0 DEF Follows, OneInBoth
<1>4. Accepts(l, e, e.at)
  BY <1>1, <1>2, <1>3, AcceptsAlike
<1>5. Leases(after)
  BY <1>1, StepLeases
<1>6. \A c \in e.caps : Alike(new, after, c)
  BY <1>1, <1>2, StepAlike
<1>7. /\ after.seq = IF e.type = "lease.acquired" THEN l.seq + 1 ELSE l.seq
      /\ \A c \in e.caps : after.lease[c].seq =
           IF e.type = "lease.acquired" THEN l.seq + 1 ELSE l.lease[c].seq
      /\ \A c \in e.caps : new.lease[c].seq =
           IF e.type = "lease.acquired" THEN old.seq + 1 ELSE old.lease[c].seq
  BY <1>1, StepNumbers
<1>8. \A c \in Cap \ e.caps : Alike(after, l, c) /\ after.lease[c].seq = l.lease[c].seq
  BY StepApart
<1>9. l.seq \in Nat /\ \A c \in Cap : l.lease[c].seq \in Nat /\ l.lease[c].seq <= l.seq
  BY <1>1 DEF Leases, Lease
<1> HIDE DEF old, new, after, e
\* Of the capabilities of the line the history stands where line i left it.
<1>10. ASSUME NEW c \in e.caps, NEW m \in 0..n, UpTo(c, m, given \cup {i})
       PROVE  Alike(new, Fold(log, m).led, c) /\ new.lease[c].seq = Fold(log, m).led.lease[c].seq
  <2>1. {j \in 1..m : c \in log[j].caps} = {j \in 1..i-1 : c \in log[j].caps} \cup {i}
    BY <1>10 DEF UpTo, EmitCapsule, e
  <2>2. i \in 1..m /\ m \in i..Len(log) /\ i \in 0..Len(log)
    BY <1>0, <2>1
  <2>3. ASSUME NEW j \in i+1..m PROVE c \notin log[j].caps
    BY <1>0, <2>1, <2>2
  <2> QED BY <1>1, <2>2, <2>3, PastStill DEF new
\* Of the others nothing has changed.
<1>11. ASSUME NEW c \in caps \ e.caps, NEW m \in 0..n, UpTo(c, m, given \cup {i})
       PROVE  UpTo(c, m, given)
  BY <1>11 DEF UpTo, e
<1>12. ASSUME NEW c \in caps, NEW m \in 0..n, UpTo(c, m, given \cup {i})
       PROVE  Alike(Fold(log, m).led, after, c)
  <2>1. CASE c \in e.caps
    BY <1>6, <1>10, <1>12, <2>1 DEF Alike
  <2>2. CASE c \notin e.caps
    <3>1. Alike(Fold(log, m).led, l, c)
      BY <1>11, <1>12, <2>2 DEF Follows
    <3> QED BY <1>8, <2>2, <3>1 DEF Alike
  <2> QED BY <2>1, <2>2
<1>13. ASSUME NEW c \in e.caps, NEW d \in caps \ e.caps, NEW m \in 0..n, NEW q \in 0..n,
              UpTo(c, m, given \cup {i}), UpTo(d, q, given \cup {i})
       PROVE  Fold(log, m).led.lease[c].seq = Fold(log, q).led.lease[d].seq
                <=> after.lease[c].seq = after.lease[d].seq
  <2>1. new.lease[c].seq = Fold(log, m).led.lease[c].seq /\ UpTo(d, q, given)
    BY <1>10, <1>11, <1>13
  <2>2. c \in Cap /\ d \in Cap /\ after.lease[d].seq = l.lease[d].seq /\ q \in 0..Len(log)
    BY <1>0, <1>1, <1>8
  <2>3. CASE e.type = "lease.acquired"
    <3>1. after.lease[c].seq # after.lease[d].seq
      BY <1>7, <1>9, <2>2, <2>3
    <3>2. new.lease[c].seq # Fold(log, q).led.lease[d].seq
      BY <1>0, <2>2, <2>3, PastNumbers DEF e, new, Grant
    <3> QED BY <2>1, <3>1, <3>2
  <2>4. CASE e.type # "lease.acquired"
    <3>1. after.lease[c].seq = l.lease[c].seq /\ new.lease[c].seq = old.lease[c].seq
      BY <1>7, <2>4
    <3>2. UpTo(c, i-1, given) /\ c \in caps
      BY DEF e
    <3>3. old.lease[c].seq = Fold(log, q).led.lease[d].seq
            <=> l.lease[c].seq = l.lease[d].seq
      BY <1>0, <2>1, <3>2 DEF Follows, old
    <3> QED BY <2>1, <2>2, <3>1, <3>3
  <2> QED BY <2>3, <2>4
<1>14. ASSUME NEW c \in caps, NEW d \in caps, NEW m \in 0..n, NEW q \in 0..n,
              UpTo(c, m, given \cup {i}), UpTo(d, q, given \cup {i})
       PROVE  Fold(log, m).led.lease[c].seq = Fold(log, q).led.lease[d].seq
                <=> after.lease[c].seq = after.lease[d].seq
  <2>1. CASE c \in e.caps /\ d \in e.caps
    <3>1. /\ new.lease[c].seq = Fold(log, m).led.lease[c].seq
          /\ new.lease[d].seq = Fold(log, q).led.lease[d].seq
      BY <1>10, <1>14, <2>1
    <3>2. OneInBoth(old, l, c, d)
      BY <1>3, <2>1
    <3> QED BY <1>7, <2>1, <3>1, <3>2 DEF OneInBoth
  <2>2. CASE c \in e.caps /\ d \notin e.caps
    BY <1>13, <1>14, <2>2
  <2>3. CASE c \notin e.caps /\ d \in e.caps
    <3>1. Fold(log, q).led.lease[d].seq = Fold(log, m).led.lease[c].seq
            <=> after.lease[d].seq = after.lease[c].seq
      BY <1>13, <1>14, <2>3
    <3> QED BY <3>1
  <2>4. CASE c \notin e.caps /\ d \notin e.caps
    <3>1. UpTo(c, m, given) /\ UpTo(d, q, given)
      BY <1>11, <1>14, <2>4
    <3>2. c \in Cap /\ d \in Cap /\ after.lease[c].seq = l.lease[c].seq
          /\ after.lease[d].seq = l.lease[d].seq
      BY <1>8, <2>4
    <3> QED BY <3>1, <3>2 DEF Follows
  <2> QED BY <2>1, <2>2, <2>3, <2>4
<1>15. Follows(after, given \cup {i}, n, caps)
  <2>1. \A c \in caps, m \in 0..n :
          UpTo(c, m, given \cup {i}) => Alike(Fold(log, m).led, after, c)
    BY <1>12
  <2>2. \A c, d \in caps, m, q \in 0..n :
          UpTo(c, m, given \cup {i}) /\ UpTo(d, q, given \cup {i}) =>
            (Fold(log, m).led.lease[c].seq = Fold(log, q).led.lease[d].seq
               <=> after.lease[c].seq = after.lease[d].seq)
    BY <1>14
  <2> QED BY <1>5, <2>1, <2>2, Zenon DEF Follows
<1> QED BY <1>4, <1>15 DEF e, after

(* What a weave may be made of: all lines about some capabilities among the     *)
(* first n, none of which is about another capability.                          *)
Closed(events, caps, n) ==
  /\ n \in 0..Len(log)
  /\ caps \subseteq Cap
  /\ events = {i \in 1..n : log[i].caps \cap caps # {}}
  /\ \A i \in events : log[i].caps \subseteq caps

(* The facts about a weave, in the form the lemmas below use. *)
LEMMA WeaveFacts ==
  ASSUME HistInv, NEW n, NEW caps, NEW events, Closed(events, caps, n),
         NEW woven \in linearize(events), NEW k \in 1..Cardinality(events)
  PROVE  /\ woven[k] \in events /\ woven[k] \in 1..n /\ woven[k] \notin Out(woven, k-1)
         /\ Body(woven[k]) = log[woven[k]] /\ log[woven[k]].caps \subseteq caps
         /\ Out(woven, k) = Out(woven, k-1) \cup {woven[k]}
         /\ Out(woven, k-1) \in SUBSET events
         /\ \A j \in events \ Out(woven, k-1) :
              /\ j < woven[k] => log[j].caps \cap log[woven[k]].caps = {}
              /\ log[woven[k]].at <= log[j].at
         /\ \A c \in log[woven[k]].caps : UpTo(c, woven[k] - 1, Out(woven, k-1))
<1> DEFINE K == Cardinality(events)
           i == woven[k]
<1>0. TypeOK /\ Sorted /\ Len(log) \in Nat /\ n \in Nat /\ n <= Len(log)
  BY DEF HistInv, TokenInv, TypeOK, Closed
<1>1. events \in SUBSET (1..Len(log)) /\ events \subseteq 1..n
  BY <1>0 DEF Closed
<1>2. /\ K \in Nat
      /\ \A m \in 1..K :
           /\ woven[m] \in events \ Out(woven, m-1)
           /\ Out(woven, m) = Out(woven, m-1) \cup {woven[m]}
           /\ \A j \in events \ Out(woven, m-1) :
                /\ j < woven[m] => log[j].caps \cap log[woven[m]].caps = {}
                /\ log[woven[m]].at <= log[j].at
  BY <1>0, <1>1, WeaveOrder
<1> HIDE DEF K
<1>3. /\ i \in events \ Out(woven, k-1) /\ i \in 1..n /\ i \in 1..Len(log)
      /\ Out(woven, k) = Out(woven, k-1) \cup {i}
      /\ \A j \in events \ Out(woven, k-1) :
           /\ j < i => log[j].caps \cap log[i].caps = {}
           /\ log[i].at <= log[j].at
  BY <1>1, <1>2 DEF K
<1>4. Out(woven, k-1) \in SUBSET events
  <2>1. \A j \in 1..k-1 : j \in 1..K
    BY <1>2 DEF K
  <2> QED BY <1>2, <2>1 DEF Out
<1>5. ASSUME NEW c \in log[i].caps PROVE UpTo(c, i-1, Out(woven, k-1))
  <2>1. c \in caps
    BY <1>3 DEF Closed
  <2>2. ASSUME NEW j \in 1..i-1, c \in log[j].caps PROVE j \in Out(woven, k-1)
    <3>1. j \in events /\ j < i
      BY <1>0, <1>3, <2>1, <2>2 DEF Closed
    <3> QED BY <1>3, <2>2, <3>1
  <2>3. ASSUME NEW j \in Out(woven, k-1), c \in log[j].caps PROVE j \in 1..i-1
    <3>1. PICK m \in 1..k-1 : j = woven[m]
      BY <2>3 DEF Out
    <3>2. m \in 1..K /\ \A q \in 1..m-1 : q \in 1..k-1
      BY <1>2, <3>1 DEF K
    <3>3. i \in events \ Out(woven, m-1)
      BY <1>3, <3>2 DEF Out
    <3>4. ~(i < j) /\ i # j /\ j \in 1..n
      BY <1>1, <1>2, <1>3, <1>4, <2>3, <3>1, <3>2, <3>3
    <3> QED BY <1>0, <1>3, <3>4
  <2> QED BY <2>2, <2>3 DEF UpTo, EmitCapsule
<1>6. Body(i) = log[i] /\ log[i].caps \subseteq caps
  BY <1>0, <1>3, BodyIsLine DEF Closed
<1> QED BY <1>3, <1>4, <1>5, <1>6

(* A weave replays line by line, next to the history.                           *)
LEMMA WeaveFolds ==
  ASSUME HistInv, NEW n, NEW caps, NEW events, Closed(events, caps, n),
         NEW woven \in linearize(events), NEW k \in 0..Cardinality(events)
  PROVE  /\ Fold(Lines(woven), k).ok
         /\ Follows(Fold(Lines(woven), k).led, Out(woven, k), n, caps)
<1> DEFINE K == Cardinality(events)
           F(m) == Fold(Lines(woven), m)
           Good(m) == /\ F(m).ok
                      /\ Follows(F(m).led, Out(woven, m), n, caps)
                      /\ \A j \in events \ Out(woven, m) : F(m).led.clock <= log[j].at
           T == {m \in Nat : m <= K => Good(m)}
<1>0. TypeOK /\ Sorted /\ Len(log) \in Nat /\ n \in 0..Len(log) /\ caps \in SUBSET Cap
  BY DEF HistInv, TokenInv, TypeOK, Closed
<1>1. events \in SUBSET (1..n) /\ events \in SUBSET (1..Len(log))
  BY <1>0 DEF Closed
<1>2. K \in Nat /\ DOMAIN woven = 1..K /\ Out(woven, 0) = {}
  BY <1>0, <1>1, WeaveOrder
<1>3. \A j \in 1..Len(log) : log[j] \in Event /\ log[j].at \in Nat
  BY <1>0, EventFields DEF TypeOK
<1>4. 0 \in T
  <2>1. F(0).ok /\ F(0).led = EmptyLedger
    BY FoldSteps DEF Start
  <2>2. Leases(EmptyLedger) /\ EmptyLedger.clock = 0
    BY DEF Leases, EmptyLedger, NoLease, Lease
  <2>3. ASSUME NEW c \in caps, NEW m \in 0..n, UpTo(c, m, {})
        PROVE  /\ Alike(Fold(log, m).led, EmptyLedger, c)
               /\ Fold(log, m).led.lease[c].seq = EmptyLedger.lease[c].seq
    <3>1. \A i \in 1..m : c \notin log[i].caps
      BY <2>3 DEF UpTo, EmitCapsule
    <3>2. Fold(log, 0).led = EmptyLedger
      BY FoldSteps DEF Start
    <3>3. c \in Cap /\ 0 \in 0..Len(log) /\ m \in 0..Len(log)
          /\ \A i \in 0+1..m : c \notin log[i].caps
      BY <1>0, <3>1
    <3>4. Alike(EmptyLedger, Fold(log, m).led, c)
          /\ EmptyLedger.lease[c].seq = Fold(log, m).led.lease[c].seq
      BY <3>2, <3>3, PastStill
    <3> QED BY <3>4 DEF Alike
  <2>4. Follows(EmptyLedger, {}, n, caps)
    <3>1. \A c \in caps, m \in 0..n : UpTo(c, m, {}) => Alike(Fold(log, m).led, EmptyLedger, c)
      BY <2>3
    <3>2. \A c, d \in caps, m, q \in 0..n : UpTo(c, m, {}) /\ UpTo(d, q, {}) =>
            (Fold(log, m).led.lease[c].seq = Fold(log, q).led.lease[d].seq
               <=> EmptyLedger.lease[c].seq = EmptyLedger.lease[d].seq)
      BY <2>3
    <3> QED BY <2>2, <3>1, <3>2, Zenon DEF Follows
  <2>5. \A j \in events \ Out(woven, 0) : F(0).led.clock <= log[j].at
    BY <1>1, <1>3, <2>1, <2>2
  <2> QED BY <1>2, <2>1, <2>4, <2>5
<1>5. ASSUME NEW m \in Nat, m \in T PROVE m + 1 \in T
  <2> SUFFICES ASSUME m + 1 <= K PROVE Good(m + 1)
    OBVIOUS
  <2> DEFINE i == woven[m+1]
             e == log[i]
             l == F(m).led
  <2>1. m + 1 \in 1..K /\ m <= K /\ (m + 1) - 1 = m
    BY <1>2
  <2>2. Good(m)
    BY <1>5, <2>1
  <2>3. /\ i \in events /\ i \in 1..n /\ i \notin Out(woven, m)
        /\ Body(i) = log[i] /\ log[i].caps \subseteq caps
        /\ Out(woven, m+1) = Out(woven, m) \cup {i}
        /\ Out(woven, m) \in SUBSET events
        /\ \A j \in events \ Out(woven, m) : log[i].at <= log[j].at
        /\ \A c \in log[i].caps : UpTo(c, i-1, Out(woven, m))
    BY <2>1, WeaveFacts
  <2>4. Lines(woven)[m+1] = e
    BY <1>2, <2>1, <2>3 DEF Lines
  <2>5. F(m+1) = ReplayLine(F(m), e)
    BY <2>4, FoldSteps
  <2>6. F(m).ok /\ Follows(l, Out(woven, m), n, caps) /\ l.clock <= e.at
        /\ l.clock \in Nat /\ e.at \in Nat
    BY <1>1, <1>3, <2>2, <2>3 DEF Follows, Leases
  <2>7. Out(woven, m) \in SUBSET (1..n)
    BY <1>1, <2>3
  <2> HIDE DEF F, l
  <2>8. Accepts(l, e, e.at) /\ Follows(Step(l, e, e.at), Out(woven, m) \cup {i}, n, caps)
    BY <1>0, <2>3, <2>6, <2>7, FollowsStep
  <2>9. ReplayClock(l, e) = e.at
    BY <2>6 DEF ReplayClock
  <2> HIDE DEF e, i
  <2>10. F(m+1).ok /\ F(m+1).led = Step(l, e, e.at)
    <3>1. F(m+1) = [ok  |-> F(m).ok /\ Accepts(l, e, e.at), led |-> Step(l, e, e.at)]
      BY <2>5, <2>9 DEF ReplayLine, l
    <3>2. (F(m).ok /\ Accepts(l, e, e.at)) = TRUE
      BY <2>6, <2>8
    <3>3. F(m+1) = [ok |-> TRUE, led |-> Step(l, e, e.at)]
      BY <3>1, <3>2
    <3> QED BY <3>3
  <2>11. Step(l, e, e.at).clock = e.at
    BY <2>6 DEF Step
  <2>12. \A j \in events \ Out(woven, m+1) : F(m+1).led.clock <= log[j].at
    BY <2>3, <2>10, <2>11 DEF e
  <2> QED BY <2>3, <2>8, <2>10, <2>12
<1> HIDE DEF T
<1>6. k \in T
  BY <1>2, <1>4, <1>5, NaturalsByStep
<1> QED BY <1>2, <1>6 DEF T

(* A bounded set of lines that is not empty has a last one. *)
LEMMA MaxOf ==
  ASSUME NEW b \in Nat, NEW S \in SUBSET (1..b), S # {}
  PROVE  Max(S) \in S /\ \A y \in S : y <= Max(S)
<1> DEFINE f == [i \in S |-> i]
<1>1. f \in [S -> Nat] /\ \A i \in S : f[i] <= b
  OBVIOUS
<1>2. \E x \in S : \A y \in S : f[y] <= f[x]
  <2> HIDE DEF f
  <2> QED BY <1>1, MaxExists
<1>3. \E x \in S : \A y \in S : x >= y
  BY <1>2
<1>4. Max(S) \in S /\ \A y \in S : Max(S) >= y
  BY <1>3 DEF Max
<1> QED BY <1>4

(* The file of a weave follows its links, replays, and ends every capability at *)
(* the head the history has.                                                    *)
LEMMA WeavePasses ==
  ASSUME HistInv, NEW n, NEW caps, NEW events, Closed(events, caps, n),
         NEW woven \in linearize(events)
  PROVE  /\ Linked(woven)
         /\ ReplayFile(Lines(woven)).ok
         /\ \A c \in caps : EmitCapsule(c, n) # {} =>
              \E k \in DOMAIN woven :
                /\ woven[k] = HeadAt(c, n)
                /\ \A j \in k+1..Len(woven) : c \notin Body(woven[j]).caps
<1> DEFINE K == Cardinality(events)
<1>0. TypeOK /\ Sorted /\ Len(log) \in Nat /\ n \in 0..Len(log) /\ n \in Nat
  BY DEF HistInv, TokenInv, TypeOK, Closed
<1>1. events \in SUBSET (1..n) /\ events \in SUBSET (1..Len(log))
  BY <1>0 DEF Closed
<1>2. K \in Nat /\ DOMAIN woven = 1..K /\ Len(woven) = K /\ Out(woven, K) = events
  BY <1>0, <1>1, WeaveOrder
<1>3. ASSUME NEW k \in 1..K
      PROVE  /\ woven[k] \in events /\ woven[k] \in 1..n /\ woven[k] \notin Out(woven, k-1)
             /\ Body(woven[k]) = log[woven[k]]
             /\ \A j \in events \ Out(woven, k-1) :
                  j < woven[k] => log[j].caps \cap log[woven[k]].caps = {}
             /\ \A c \in log[woven[k]].caps : UpTo(c, woven[k] - 1, Out(woven, k-1))
  BY WeaveFacts
<1> HIDE DEF K
<1>4. Linked(woven)
  <2> SUFFICES ASSUME NEW k \in 1..K, NEW c \in Body(woven[k]).caps
               PROVE  EmitCapsule(c, woven[k] - 1) \subseteq {woven[j] : j \in 1..k-1}
    BY <1>2 DEF Linked
  <2>1. UpTo(c, woven[k] - 1, Out(woven, k-1))
    BY <1>3
  <2> QED BY <2>1 DEF UpTo, Out
<1>5. ReplayFile(Lines(woven)).ok
  <2>1. Len(Lines(woven)) = K
    <3>1. Lines(woven) = [k \in 1..K |-> Body(woven[k])]
      BY <1>2 DEF Lines
    <3> QED BY <1>2, <3>1
  <2>2. K \in 0..K
    BY <1>2
  <2>3. Fold(Lines(woven), K).ok
    BY <2>2, WeaveFolds DEF K
  <2> QED BY <1>2, <2>1, <2>3, ReplayIsFold
<1>6. ASSUME NEW c \in caps, EmitCapsule(c, n) # {}
      PROVE  \E k \in DOMAIN woven :
               /\ woven[k] = HeadAt(c, n)
               /\ \A j \in k+1..Len(woven) : c \notin Body(woven[j]).caps
  <2> DEFINE h == HeadAt(c, n)
  <2>1. EmitCapsule(c, n) \in SUBSET (1..n)
    BY DEF EmitCapsule
  <2>2. h \in EmitCapsule(c, n) /\ \A j \in EmitCapsule(c, n) : j <= h
    BY <1>0, <1>6, <2>1, MaxOf DEF HeadAt
  <2> HIDE DEF h
  <2>3. h \in events /\ c \in log[h].caps /\ h \in 1..n
    BY <2>2 DEF EmitCapsule, Closed
  <2>4. PICK k \in 1..K : woven[k] = h
    BY <1>2, <2>3 DEF Out
  <2>5. ASSUME NEW j \in k+1..K, c \in log[woven[j]].caps PROVE FALSE
    <3>1. j \in 1..K /\ k \in 1..j-1 /\ \A m \in 1..k-1 : m \in 1..j-1
      BY <1>2
    <3>2. woven[j] \in events /\ woven[j] \in 1..n /\ woven[j] \notin Out(woven, j-1)
      BY <1>3, <3>1
    <3>3. woven[j] # h /\ woven[j] \notin Out(woven, k-1)
      BY <2>4, <3>1, <3>2 DEF Out
    <3>4. woven[j] <= h
      BY <2>2, <2>5, <3>2 DEF EmitCapsule
    <3>5. woven[j] < woven[k]
      BY <2>3, <2>4, <3>2, <3>3, <3>4
    <3>6. log[woven[j]].caps \cap log[woven[k]].caps = {}
      BY <1>3, <3>2, <3>3, <3>5
    <3> QED BY <2>3, <2>4, <2>5, <3>6
  <2>6. \A j \in k+1..Len(woven) : c \notin Body(woven[j]).caps
    <3>1. \A j \in k+1..K : Body(woven[j]) = log[woven[j]]
      BY <1>2, <1>3
    <3> QED BY <1>2, <2>5, <3>1
  <2> QED BY <1>2, <2>4, <2>6 DEF h
<1> QED BY <1>4, <1>5, <1>6

(* The file of a weave says of its capabilities what the history said, and has *)
(* no line about any other.                                                    *)
LEMMA WeaveAgrees ==
  ASSUME HistInv, NEW n, NEW caps, NEW events, Closed(events, caps, n),
         NEW woven \in linearize(events)
  PROVE  /\ Agree(ReplayFile(Lines(woven)).led, ReplayFile(SubSeq(log, 1, n)).led, caps)
         /\ \A k \in DOMAIN woven : Body(woven[k]).caps \subseteq caps
         /\ ToSet(woven) = events
<1> DEFINE K == Cardinality(events)
           l == ReplayFile(Lines(woven)).led
           past == Fold(log, n).led
<1>0. TypeOK /\ Sorted /\ Len(log) \in Nat /\ n \in 0..Len(log) /\ n \in Nat /\ n \in 0..n
  BY DEF HistInv, TokenInv, TypeOK, Closed
<1>1. events \in SUBSET (1..n) /\ events \in SUBSET (1..Len(log)) /\ caps \subseteq Cap
  BY <1>0 DEF Closed
<1>2. K \in Nat /\ DOMAIN woven = 1..K /\ Out(woven, K) = events
  BY <1>0, <1>1, WeaveOrder
<1>3. l = Fold(Lines(woven), K).led
  <2>1. Lines(woven) = [k \in 1..K |-> Body(woven[k])]
    BY <1>2 DEF Lines
  <2>2. Len(Lines(woven)) = K
    BY <1>2, <2>1
  <2> QED BY <1>2, <2>2, ReplayIsFold
<1>4. Follows(l, events, n, caps)
  <2>1. K \in 0..K
    BY <1>2
  <2> QED BY <1>2, <1>3, <2>1, WeaveFolds
<1>5. ReplayFile(SubSeq(log, 1, n)).led = past
  <2> DEFINE cut == SubSeq(log, 1, n)
  <2>1. Len(cut) = n /\ \A i \in 1..n : cut[i] = log[i]
    BY <1>0 DEF TypeOK
  <2> HIDE DEF cut
  <2>2. ReplayFile(cut) = Fold(cut, n) /\ Fold(cut, n) = Fold(log, n)
    BY <1>0, <2>1, ReplayIsFold, FoldLocal
  <2> QED BY <2>2 DEF cut
<1>6. ASSUME NEW c \in caps PROVE UpTo(c, n, events)
  BY <1>1 DEF UpTo, EmitCapsule, Closed
<1>7. Leases(past)
  BY <1>0 DEF HistInv, PastInv, Past
<1> HIDE DEF l, past, K
<1>8. ASSUME NEW c \in caps
      PROVE  /\ [l.lease[c] EXCEPT !.seq = 0] = [past.lease[c] EXCEPT !.seq = 0]
             /\ l.maxToken[c] = past.maxToken[c]
             /\ l.pending[c] = past.pending[c]
             /\ l.binding[c] = past.binding[c]
             /\ l.decided[c] = past.decided[c]
  <2>1. Alike(past, l, c)
    BY <1>0, <1>4, <1>6 DEF Follows, past
  <2>2. l.lease[c] \in Lease /\ past.lease[c] \in Lease
    BY <1>1, <1>4, <1>7 DEF Follows, Leases
  <2>3. ASSUME NEW one \in Lease, NEW two \in Lease, one.token = two.token,
               one.expiry = two.expiry, one.ended = two.ended
        PROVE  [one EXCEPT !.seq = 0] = [two EXCEPT !.seq = 0]
    BY <2>3 DEF Lease
  <2> QED BY <2>1, <2>2, <2>3 DEF Alike
<1>9. ASSUME NEW c \in caps, NEW d \in caps
      PROVE  l.lease[c].seq = l.lease[d].seq <=> past.lease[c].seq = past.lease[d].seq
  BY <1>0, <1>4, <1>6 DEF Follows, past
<1>10. Agree(l, past, caps)
  BY <1>8, <1>9 DEF Agree
<1>11. ASSUME NEW k \in 1..K PROVE Body(woven[k]).caps \subseteq caps
  <2>1. Body(woven[k]) = log[woven[k]] /\ log[woven[k]].caps \subseteq caps
    BY WeaveFacts DEF K
  <2> QED BY <2>1
<1>12. ToSet(woven) = events
  BY <1>2 DEF ToSet, Out
<1> QED BY <1>2, <1>5, <1>10, <1>11, <1>12 DEF l

----------------------------------------------------------------------------
(* The restore. *)

(* What is classified as sound is the history of its capability, up to the     *)
(* anchor: neither an older or a newer capsule nor one of a fork ends there.    *)
LEMMA ClassifiedIsChain ==
  ASSUME TypeOK, NEW n \in 1..Len(log), NEW c \in Heads(n), NEW group \in Groups(c),
         NEW chain \in classifyCapability(c, group, n)
  PROVE  chain = EmitCapsule(c, n)
<1> DEFINE h == HeadAt(c, n)
<1>0. Len(log) \in Nat /\ n \in Nat /\ n <= Len(log)
  BY DEF TypeOK
<1>1. chain \in group /\ chain # {} /\ Max(chain) = h
  BY DEF classifyCapability, Winners
<1>2. chain \in Sources(c)
  BY <1>1 DEF Groups
<1>3. EmitCapsule(c, n) \in SUBSET (1..n) /\ EmitCapsule(c, n) # {}
  BY DEF EmitCapsule, Heads
<1>4. h \in EmitCapsule(c, n) /\ \A j \in EmitCapsule(c, n) : j <= h
  BY <1>0, <1>3, MaxOf DEF HeadAt
<1>5. PICK m \in 0..Len(log) : \/ chain = EmitCapsule(c, m)
                               \/ chain = EmitCapsule(c, m) \cup {Fork}
  BY <1>2 DEF Sources
<1>6. chain \in SUBSET (1..Len(log) + 1)
  BY <1>0, <1>5 DEF EmitCapsule, Fork
<1>7. h \in chain /\ \A j \in chain : j <= h
  <2>1. Len(log) + 1 \in Nat
    BY <1>0
  <2>2. Max(chain) \in chain /\ \A j \in chain : j <= Max(chain)
    BY <1>1, <1>6, <2>1, MaxOf
  <2> QED BY <1>1, <2>2
<1> HIDE DEF h
<1>8. Fork \notin chain
  BY <1>0, <1>3, <1>4, <1>7 DEF Fork
<1>9. chain = EmitCapsule(c, m)
  BY <1>5, <1>8
<1>10. \A j : j \in EmitCapsule(c, m) <=> j \in EmitCapsule(c, n)
  BY <1>0, <1>4, <1>7, <1>9 DEF EmitCapsule
<1> QED BY <1>9, <1>10

(* A woven file and the chains it was woven of. *)
Woven ==
  /\ Closed(Events(restore.chains), Restored(restore.chains), restore.at)
  /\ \A c \in Restored(restore.chains) : restore.chains[c] = EmitCapsule(c, restore.at)
  /\ restore.lines \in linearize(Events(restore.chains))
  /\ restore.partial \/ Heads(restore.at) \subseteq Restored(restore.chains)

Restores ==
  [pc : {"none", "classify", "written", "anchored", "done", "dead"}, at : Nat,
   partial : BOOLEAN, todo : SUBSET Cap, chains : [Cap -> SUBSET Nat],
   lines : Seq(Nat), anchor : BOOLEAN, exit : Nat]

RestoreType == restore \in Restores

LEMMA NoRestoreType == NoRestore \in Restores
BY DEF NoRestore, Restores

LEMMA BeginsType ==
  ASSUME NEW n \in Nat, NEW partial \in BOOLEAN, NEW todo \in SUBSET Cap
  PROVE  LET begun == [NoRestore EXCEPT !.at = n, !.partial = partial] IN
         /\ [begun EXCEPT !.pc = "classify", !.todo = todo] \in Restores
         /\ [begun EXCEPT !.pc = "done", !.exit = 5] \in Restores
BY NoRestoreType DEF Restores

LEMMA RefusedType == RestoreType => Refused \in Restores
<1> SUFFICES ASSUME RestoreType PROVE Refused \in Restores
  OBVIOUS
<1>1. NoRestore.chains \in [Cap -> SUBSET Nat] /\ <<>> \in Seq(Nat)
  BY DEF NoRestore
<1> QED BY <1>1 DEF Refused, RestoreType, Restores

LEMMA WrittenType ==
  ASSUME NEW r \in Restores, NEW chains \in [Cap -> SUBSET Nat], NEW woven \in Seq(Nat)
  PROVE  [r EXCEPT !.pc = "written", !.chains = chains, !.lines = woven] \in Restores
BY DEF Restores

RestoreInv ==
  /\ RestoreType
  /\ restore.pc # "none" => restore.at \in 1..Len(log)
  /\ restore.pc = "classify" =>
       /\ restore.todo \subseteq Heads(restore.at)
       /\ \A c \in Cap : restore.chains[c] \in {{}, EmitCapsule(c, restore.at)}
       /\ restore.partial \/ \A c \in Heads(restore.at) \ restore.todo :
                               restore.chains[c] = EmitCapsule(c, restore.at)
  /\ restore.pc \in {"written", "anchored"} => Woven
  /\ restore.pc = "done" =>
       \/ restore.exit = 5 /\ restore.lines = <<>> /\ Restored(restore.chains) = {}
       \/ Woven /\ (restore.exit = 0 => Heads(restore.at) \subseteq Restored(restore.chains))
  /\ restore.exit = 0 => restore.pc = "done"

(* The events of a whole restore are the first lines of the file, to the last. *)
LEMMA AllHeads ==
  ASSUME TypeOK, NEW n \in 0..Len(log), NEW caps, Heads(n) \subseteq caps,
         NEW events, Closed(events, caps, n)
  PROVE  events = 1..n
<1>1. Len(log) \in Nat /\ \A i \in 1..n : i \in 1..Len(log) /\ log[i] \in Event
  BY DEF TypeOK
<1>2. ASSUME NEW i \in 1..n PROVE log[i].caps \cap caps # {}
  <2>1. log[i].caps # {} /\ log[i].caps \subseteq Cap
    BY <1>1, EventFields DEF CapSets
  <2>2. PICK c \in log[i].caps : TRUE
    BY <2>1
  <2>3. c \in Heads(n)
    BY <2>1, <2>2 DEF Heads, EmitCapsule
  <2> QED BY <2>2, <2>3
<1> QED BY <1>2 DEF Closed

(* What was woven is never refused. *)
LEMMA WovenPasses ==
  ASSUME HistInv, RestoreType, restore.at \in 1..Len(log), Woven
  PROVE  Passes
<1> DEFINE events == Events(restore.chains)
           caps == Restored(restore.chains)
           n == restore.at
           woven == restore.lines
<1>0. TypeOK /\ Sorted /\ Len(log) \in Nat /\ n \in 1..Len(log) /\ n \in Nat
  BY DEF HistInv, TokenInv, TypeOK
<1>1. /\ Closed(events, caps, n) /\ woven \in linearize(events)
      /\ \A c \in caps : restore.chains[c] = EmitCapsule(c, n)
      /\ restore.partial \/ Heads(n) \subseteq caps
  BY DEF Woven
<1>2. \A c \in caps : restore.chains[c] # {}
  BY DEF Restored
<1> HIDE DEF events, caps, n, woven
<1>3. /\ Linked(woven) /\ ReplayFile(Lines(woven)).ok
      /\ \A c \in caps : EmitCapsule(c, n) # {} =>
           \E k \in DOMAIN woven :
             /\ woven[k] = HeadAt(c, n)
             /\ \A j \in k+1..Len(woven) : c \notin Body(woven[j]).caps
  BY <1>1, WeavePasses
<1>4. \A c \in caps : \E k \in DOMAIN woven :
        /\ woven[k] = HeadAt(c, n)
        /\ \A j \in k+1..Len(woven) : c \notin Body(woven[j]).caps
  BY <1>1, <1>2, <1>3
<1>5. restore.partial \/ (Len(woven) = n /\ woven[1] = 1)
  <2> SUFFICES ASSUME Heads(n) \subseteq caps PROVE Len(woven) = n /\ woven[1] = 1
    BY <1>1
  <2>0. n \in 0..Len(log)
    BY <1>0
  <2>1. events = 1..n
    BY <1>0, <1>1, <2>0, AllHeads
  <2>2. Cardinality(events) = n
    BY <1>0, <2>1, FS_Interval
  <2>3. events \in SUBSET (1..Len(log))
    BY <1>0, <2>1
  <2>4. Len(woven) = n /\ Out(woven, 0) = {} /\ woven \in [1..n -> events]
    BY <1>0, <1>1, <2>2, <2>3, WeaveOrder DEF linearize
  <2>5. woven[1] \in Pops(events \ {woven[j] : j \in 1..1-1})
    BY <1>0, <1>1, <2>2 DEF linearize
  <2>6. {woven[j] : j \in 1..1-1} = {}
    OBVIOUS
  <2>7. 1 \in events /\ events \ {} = events
    BY <1>0, <2>1
  <2>8. woven[1] \in Pops(events)
    BY <2>5, <2>6, <2>7
  <2> QED BY <2>4, <2>7, <2>8 DEF Pops
<1> QED BY <1>3, <1>4, <1>5 DEF Passes, caps, n, woven

(* A restore only starts on a ledger nobody writes to any more. *)
LEMMA BeginsInv ==
  ASSUME HistInv, RestoreInv, RestoreBegins
  PROVE  RestoreInv'
<1> DEFINE begun(n, partial) == [NoRestore EXCEPT !.at = n, !.partial = partial]
<1>1. PICK n \in 1..Len(log), partial \in BOOLEAN :
        \/ restore' = [begun(n, partial) EXCEPT !.pc = "classify", !.todo = Heads(n)]
        \/ restore' = [begun(n, partial) EXCEPT !.pc = "done", !.exit = 5]
  BY DEF RestoreBegins
<1>2. log' = log /\ Len(log) \in Nat
  BY DEF RestoreBegins, vars, HistInv, TokenInv, TypeOK
<1>3. restore'.at = n /\ restore'.chains = [c \in Cap |-> {}] /\ restore'.lines = <<>>
  BY <1>1 DEF NoRestore
<1>4. RestoreType'
  <2>1. n \in Nat /\ Heads(n) \in SUBSET Cap
    BY <1>2 DEF Heads
  <2>2. /\ [begun(n, partial) EXCEPT !.pc = "classify", !.todo = Heads(n)] \in Restores
        /\ [begun(n, partial) EXCEPT !.pc = "done", !.exit = 5] \in Restores
    BY <2>1, BeginsType
  <2> HIDE DEF begun
  <2> QED BY <1>1, <2>2 DEF RestoreType
<1>5. CASE restore' = [begun(n, partial) EXCEPT !.pc = "classify", !.todo = Heads(n)]
  <2>1. restore'.pc = "classify" /\ restore'.todo = Heads(n) /\ restore'.exit = 9
    BY <1>5 DEF NoRestore
  <2>2. Heads(restore.at)' = Heads(n)
    BY <1>2, <1>3 DEF Heads, EmitCapsule
  <2> QED BY <1>2, <1>3, <1>4, <2>1, <2>2 DEF RestoreInv
<1>6. CASE restore' = [begun(n, partial) EXCEPT !.pc = "done", !.exit = 5]
  <2>1. restore'.pc = "done" /\ restore'.exit = 5
    BY <1>6 DEF NoRestore
  <2>2. Restored(restore.chains)' = {}
    BY <1>3 DEF Restored
  <2> QED BY <1>2, <1>3, <1>4, <2>1, <2>2 DEF RestoreInv
<1> QED BY <1>1, <1>5, <1>6

(* A step that leaves the ledger, the chains and the file alone. *)
LEMMA WovenStill ==
  ASSUME Woven, log' = log, led' = led, restore'.at = restore.at,
         restore'.chains = restore.chains, restore'.lines = restore.lines,
         restore'.partial = restore.partial
  PROVE  Woven'
<1>1. PICK m, chains, S, E : /\ m = restore.at /\ chains = restore.chains
                             /\ S = Restored(chains) /\ E = Events(chains)
  OBVIOUS
<1>2. Restored(restore.chains)' = S /\ Events(restore.chains)' = E /\ restore.at' = m
  BY <1>1 DEF Restored, Events
<1>3. Closed(E, S, m)' <=> Closed(E, S, m)
  BY DEF Closed
<1>4. linearize(E)' = linearize(E) /\ Heads(m)' = Heads(m) /\ Restored(chains)' = Restored(chains)
  BY DEF linearize, Pops, Ready, Body, Fork, Heads, EmitCapsule, Restored
<1>5. \A d : EmitCapsule(d, m)' = EmitCapsule(d, m)
  BY DEF EmitCapsule
<1>6. /\ Closed(E, S, m) /\ \A c \in S : chains[c] = EmitCapsule(c, m)
      /\ restore.lines \in linearize(E) /\ (restore.partial \/ Heads(m) \subseteq S)
  BY <1>1 DEF Woven
<1> QED BY <1>1, <1>2, <1>3, <1>4, <1>5, <1>6 DEF Woven

(* One capability is judged. *)
LEMMA ClassifyInv ==
  ASSUME HistInv, RestoreInv, NEW c \in Cap, Classify(c)
  PROVE  RestoreInv'
<1> DEFINE n == restore.at
<1>0. TypeOK /\ Len(log) \in Nat /\ n \in 1..Len(log) /\ RestoreType /\ log' = log
  <2>1. TypeOK /\ Len(log) \in Nat
    BY DEF HistInv, TokenInv, TypeOK
  <2>2. log' = log /\ restore.pc = "classify"
    BY DEF Classify, vars
  <2>3. RestoreType /\ n \in 1..Len(log)
    BY <2>2 DEF RestoreInv
  <2> QED BY <2>1, <2>2, <2>3
<1>1. /\ restore.pc = "classify" /\ c \in restore.todo /\ restore.todo \subseteq Heads(n)
      /\ \A d \in Cap : restore.chains[d] \in {{}, EmitCapsule(d, n)}
      /\ restore.partial \/ \A d \in Heads(n) \ restore.todo :
                              restore.chains[d] = EmitCapsule(d, n)
      /\ restore.exit # 0
  BY DEF Classify, RestoreInv
<1>2. \A d : EmitCapsule(d, n)' = EmitCapsule(d, n') /\ Heads(n)' = Heads(n')
  BY <1>0 DEF EmitCapsule, Heads
<1>3. CASE restore' = Refused
  <2>1. /\ restore'.pc = "done" /\ restore'.exit = 5 /\ restore'.lines = <<>>
        /\ restore'.at = restore.at /\ restore'.chains = [d \in Cap |-> {}]
    BY <1>0, <1>3 DEF Refused, RestoreType, Restores, NoRestore
  <2>2. RestoreType'
    BY <1>0, <1>3, RefusedType DEF RestoreType
  <2>3. Restored(restore.chains)' = {}
    BY <2>1 DEF Restored
  <2> QED BY <1>0, <2>1, <2>2, <2>3 DEF RestoreInv
<1>4. CASE restore.partial /\ restore' = [restore EXCEPT !.todo = @ \ {c}]
  <2>1. /\ restore'.pc = "classify" /\ restore'.at = n /\ restore'.todo = restore.todo \ {c}
        /\ restore'.chains = restore.chains /\ restore'.partial /\ restore'.exit = restore.exit
    BY <1>0, <1>1, <1>4 DEF RestoreType, Restores
  <2>2. RestoreType'
    BY <1>0, <1>4 DEF RestoreType, Restores
  <2>3. Heads(restore.at)' = Heads(n) /\ \A d : EmitCapsule(d, restore.at)' = EmitCapsule(d, n)
    BY <1>0, <2>1 DEF Heads, EmitCapsule
  <2> QED BY <1>0, <1>1, <2>1, <2>2, <2>3 DEF RestoreInv
<1>5. ASSUME NEW group \in Groups(c), NEW chain \in classifyCapability(c, group, n),
             restore' = [restore EXCEPT !.todo = @ \ {c}, !.chains[c] = chain]
      PROVE  RestoreInv'
  <2>1. chain = EmitCapsule(c, n) /\ chain \in SUBSET Nat
    BY <1>0, <1>1, ClassifiedIsChain DEF EmitCapsule
  <2>2. /\ restore'.pc = "classify" /\ restore'.at = n /\ restore'.todo = restore.todo \ {c}
        /\ restore'.chains = [restore.chains EXCEPT ![c] = chain]
        /\ restore'.partial = restore.partial /\ restore'.exit = restore.exit
    BY <1>0, <1>1, <1>5 DEF RestoreType, Restores
  <2>3. RestoreType'
    BY <1>0, <1>5, <2>1 DEF RestoreType, Restores
  <2>4. restore.chains \in [Cap -> SUBSET Nat]
    BY <1>0 DEF RestoreType, Restores
  <2>5. \A d \in Cap : restore'.chains[d] = IF d = c THEN EmitCapsule(c, n) ELSE restore.chains[d]
    BY <2>1, <2>2, <2>4
  <2>6. Heads(restore.at)' = Heads(n) /\ \A d : EmitCapsule(d, restore.at)' = EmitCapsule(d, n)
    BY <1>0, <2>2 DEF Heads, EmitCapsule
  <2>7. Heads(n) \subseteq Cap
    BY DEF Heads
  <2> QED BY <1>0, <1>1, <2>2, <2>3, <2>5, <2>6, <2>7 DEF RestoreInv
<1> QED BY <1>3, <1>4, <1>5 DEF Classify

(* The chains a file is woven of are closed: in full mode because every capability *)
(* is there, in partial mode because of the coupling fixpoint.                     *)
LEMMA WriteInv ==
  ASSUME HistInv, RestoreInv, Write
  PROVE  RestoreInv'
<1> DEFINE n == restore.at
           caps == IF restore.partial THEN Coupled(restore.chains) ELSE Cap
           chains == [c \in Cap |-> IF c \in caps THEN restore.chains[c] ELSE {}]
           R == Restored(chains)
<1>0. TypeOK /\ Len(log) \in Nat /\ n \in 1..Len(log) /\ RestoreType /\ log' = log /\ led' = led
  BY DEF HistInv, TokenInv, TypeOK, RestoreInv, Write, vars
<1>1. /\ restore.pc = "classify" /\ restore.todo = {} /\ restore.exit # 0
      /\ \A d \in Cap : restore.chains[d] \in {{}, EmitCapsule(d, n)}
      /\ restore.partial \/ \A d \in Heads(n) : restore.chains[d] = EmitCapsule(d, n)
  BY DEF Write, RestoreInv
<1>2. PICK woven \in linearize(Events(chains)) :
        restore' = [restore EXCEPT !.pc = "written", !.chains = chains, !.lines = woven]
  BY DEF Write
<1>3. caps \subseteq Cap
  BY DEF Coupled, Restored
<1>4. \A i \in 1..n : Body(i) = log[i] /\ log[i] \in Event /\ i \in 1..Len(log)
                      /\ log[i].caps \subseteq Cap
  BY <1>0, BodyIsLine, EventFields DEF TypeOK, CapSets
<1> HIDE DEF caps
<1>5. /\ R \subseteq Cap /\ R \subseteq caps
      /\ \A c \in R : chains[c] = EmitCapsule(c, n) /\ restore.chains[c] = chains[c]
      /\ \A c \in Cap \ R : chains[c] = {}
  BY <1>1 DEF Restored
<1>6. ~restore.partial => Heads(n) \subseteq R
  BY <1>1 DEF caps, Restored, Heads
<1> HIDE DEF chains
<1>7. Events(chains) = {i \in 1..n : log[i].caps \cap R # {}}
  <2>1. ASSUME NEW i \in Events(chains) PROVE i \in 1..n /\ log[i].caps \cap R # {}
    BY <1>5 DEF Events, EmitCapsule
  <2>2. ASSUME NEW i \in 1..n, log[i].caps \cap R # {} PROVE i \in Events(chains)
    BY <1>5, <2>2 DEF Events, EmitCapsule
  <2> QED BY <2>1, <2>2
<1>8. ASSUME NEW i \in Events(chains) PROVE log[i].caps \subseteq R
  <2>1. PICK c \in R : i \in chains[c]
    BY <1>5 DEF Events
  <2>2. i \in 1..n
    BY <1>7
  <2>3. CASE ~restore.partial
    <3>1. ASSUME NEW d \in log[i].caps PROVE d \in Heads(n)
      BY <1>4, <2>2 DEF Heads, EmitCapsule
    <3> QED BY <1>6, <2>3, <3>1
  <2>4. CASE restore.partial
    <3>1. c \in Coupled(restore.chains)
      BY <1>5, <2>4 DEF caps
    <3>2. PICK some \in SUBSET Restored(restore.chains) :
            /\ c \in some
            /\ \A d \in some : \A j \in restore.chains[d] : Body(j).caps \subseteq some
      BY <3>1 DEF Coupled
    <3>3. log[i].caps \subseteq some
      BY <1>4, <1>5, <2>1, <2>2, <3>2
    <3>4. some \subseteq caps /\ some \subseteq Restored(restore.chains)
      BY <2>4, <3>2 DEF caps, Coupled
    <3>5. some \subseteq R
      BY <3>4 DEF Restored, chains
    <3> QED BY <3>3, <3>5
  <2> QED BY <2>3, <2>4
<1>9. Closed(Events(chains), R, n)
  BY <1>0, <1>5, <1>7, <1>8 DEF Closed
<1>10. chains \in [Cap -> SUBSET Nat]
  BY <1>5 DEF chains, EmitCapsule
<1>11. woven \in Seq(Nat)
  <2>1. Events(chains) \in SUBSET (1..Len(log)) /\ Events(chains) \subseteq Nat
    BY <1>0, <1>7
  <2>2. woven \in Seq(Events(chains))
    BY <1>0, <2>1, WeaveOrder DEF HistInv
  <2> QED BY <2>1, <2>2
<1>12. /\ restore'.pc = "written" /\ restore'.at = n /\ restore'.chains = chains
       /\ restore'.lines = woven /\ restore'.partial = restore.partial
       /\ restore'.exit = restore.exit
  BY <1>0, <1>2 DEF RestoreType, Restores
<1>13. RestoreType'
  BY <1>0, <1>2, <1>10, <1>11, WrittenType DEF RestoreType
<1>14. PICK m \in Nat : m = n
  BY <1>0
<1>15. PICK S : S = R
  OBVIOUS
<1>16. PICK E : E = Events(chains)
  OBVIOUS
<1> HIDE DEF R
<1>17. Woven'
  <2>1. Restored(restore.chains)' = S /\ Events(restore.chains)' = E /\ restore.at' = m
    <3>1. Restored(restore'.chains) = Restored(chains)
      BY <1>12
    <3>2. Events(restore'.chains) = Events(chains)
      BY <1>12
    <3> QED BY <1>12, <1>14, <1>15, <1>16, <3>1, <3>2 DEF R
  <2>2. Closed(E, S, m)'
    BY <1>0, <1>9, <1>14, <1>15, <1>16 DEF Closed
  <2>3. Closed(Events(restore.chains), Restored(restore.chains), restore.at)'
    BY <2>1, <2>2
  <2>4. \A d \in S : restore'.chains[d] = EmitCapsule(d, m)'
    BY <1>0, <1>5, <1>12, <1>14, <1>15 DEF EmitCapsule
  <2>5. linearize(E)' = linearize(E) /\ Heads(m)' = Heads(m)
    BY <1>0 DEF linearize, Pops, Ready, Body, Fork, Heads, EmitCapsule
  <2>6. restore'.lines \in linearize(E)'
    BY <1>2, <1>12, <1>16, <2>5
  <2>7. restore'.partial \/ Heads(m)' \subseteq S
    BY <1>6, <1>12, <1>14, <1>15, <2>5
  <2> QED BY <2>1, <2>3, <2>4, <2>6, <2>7 DEF Woven
<1> QED BY <1>0, <1>1, <1>12, <1>13, <1>17 DEF RestoreInv

LEMMA AcceptInv ==
  ASSUME HistInv, RestoreInv, Accept
  PROVE  RestoreInv'
<1>0. /\ restore.pc = "written" /\ RestoreType /\ restore.at \in 1..Len(log) /\ Woven
      /\ restore.exit # 0 /\ log' = log /\ led' = led
  <2>1. restore.pc = "written" /\ log' = log /\ led' = led
    BY DEF Accept, vars
  <2> QED BY <2>1 DEF RestoreInv
<1>1. Passes
  BY <1>0, WovenPasses
<1>2. restore' = [restore EXCEPT !.pc = "anchored", !.anchor = TRUE]
  BY <1>1 DEF Accept
<1>3. /\ restore'.pc = "anchored" /\ restore'.at = restore.at /\ restore'.exit = restore.exit
      /\ restore'.chains = restore.chains /\ restore'.lines = restore.lines
      /\ restore'.partial = restore.partial
  BY <1>0, <1>2 DEF RestoreType, Restores
<1>4. RestoreType'
  BY <1>0, <1>2 DEF RestoreType, Restores
<1>5. Woven'
  BY <1>0, <1>3, WovenStill
<1> QED BY <1>0, <1>3, <1>4, <1>5 DEF RestoreInv

(* Only a whole restore is reported as one. *)
LEMMA ConcludeInv ==
  ASSUME HistInv, RestoreInv, Conclude
  PROVE  RestoreInv'
<1>0. /\ restore.pc = "anchored" /\ RestoreType /\ restore.at \in 1..Len(log) /\ Woven
      /\ restore.exit # 0 /\ log' = log /\ led' = led
  <2>1. restore.pc = "anchored" /\ log' = log /\ led' = led
    BY DEF Conclude, vars
  <2> QED BY <2>1 DEF RestoreInv
<1>1. CASE restore' = Refused
  <2>1. /\ restore'.pc = "done" /\ restore'.exit = 5 /\ restore'.lines = <<>>
        /\ restore'.at = restore.at /\ restore'.chains = [d \in Cap |-> {}]
    BY <1>0, <1>1 DEF Refused, RestoreType, Restores, NoRestore
  <2>2. RestoreType'
    BY <1>0, <1>1, RefusedType DEF RestoreType
  <2>3. Restored(restore.chains)' = {}
    BY <2>1 DEF Restored
  <2> QED BY <1>0, <2>1, <2>2, <2>3 DEF RestoreInv
<1>2. ASSUME NEW missing, missing = Heads(restore.at) \ Restored(restore.chains),
             NEW whole \in BOOLEAN,
             restore' = [restore EXCEPT !.pc = "done", !.anchor = whole,
                                        !.exit = ExitFor(missing)]
      PROVE  RestoreInv'
  <2>0. ExitFor(missing) \in {0, 5} /\ (ExitFor(missing) = 0 => missing = {})
    BY DEF ExitFor
  <2> HIDE DEF ExitFor
  <2>1. PICK code \in {0, 5} : code = ExitFor(missing)
    BY <2>0
  <2>2. restore' = [restore EXCEPT !.pc = "done", !.anchor = whole, !.exit = code]
    BY <1>2, <2>1
  <2>3. /\ restore'.pc = "done" /\ restore'.at = restore.at /\ restore'.exit = code
        /\ restore'.chains = restore.chains /\ restore'.lines = restore.lines
        /\ restore'.partial = restore.partial
    BY <1>0, <2>2 DEF RestoreType, Restores
  <2>4. RestoreType'
    <3>1. code \in Nat
      OBVIOUS
    <3>2. [restore EXCEPT !.pc = "done", !.anchor = whole, !.exit = code] \in Restores
      BY <1>0, <3>1 DEF RestoreType, Restores
    <3> QED BY <2>2, <3>2 DEF RestoreType
  <2>5. Woven'
    BY <1>0, <2>3, WovenStill
  <2>6. code = 0 => Heads(restore.at) \subseteq Restored(restore.chains)
    BY <1>2, <2>0, <2>1
  <2>7. Heads(restore.at)' = Heads(restore.at)
    BY <1>0, <2>3 DEF Heads, EmitCapsule
  <2>8. Restored(restore.chains)' = Restored(restore.chains)
    BY <2>3 DEF Restored
  <2> QED BY <1>0, <2>3, <2>4, <2>5, <2>6, <2>7, <2>8 DEF RestoreInv
<1>3. \/ restore' = Refused
      \/ restore' = [restore EXCEPT !.pc = "done",
                       !.anchor = (Heads(restore.at) \ Restored(restore.chains) = {}),
                       !.exit = ExitFor(Heads(restore.at) \ Restored(restore.chains))]
  BY DEF Conclude
<1> QED BY <1>1, <1>2, <1>3

(* A restore that dies says nothing. *)
LEMMA DiesInv ==
  ASSUME HistInv, RestoreInv, RestoreDies
  PROVE  RestoreInv'
<1>1. /\ restore.pc \in {"classify", "written", "anchored"} /\ RestoreType
      /\ restore.at \in 1..Len(log) /\ restore.exit # 0 /\ log' = log
      /\ restore' = [restore EXCEPT !.pc = "dead"]
  <2>1. /\ restore.pc \in {"classify", "written", "anchored"} /\ log' = log
        /\ restore' = [restore EXCEPT !.pc = "dead"]
    BY DEF RestoreDies, vars
  <2> QED BY <2>1 DEF RestoreInv
<1>2. restore'.pc = "dead" /\ restore'.at = restore.at /\ restore'.exit = restore.exit
  BY <1>1 DEF RestoreType, Restores
<1>3. RestoreType'
  BY <1>1 DEF RestoreType, Restores
<1> QED BY <1>1, <1>2, <1>3 DEF RestoreInv

(* Nobody writes to a ledger that is being restored from. *)
LEMMA WritesInv ==
  ASSUME RestoreInv, restore' = restore, restore.pc = "none"
  PROVE  RestoreInv'
<1>1. RestoreType' /\ restore.exit # 0 /\ restore'.pc = "none" /\ restore'.exit # 0
  BY DEF RestoreInv, RestoreType
<1> QED BY <1>1 DEF RestoreInv

LEMMA StillInv ==
  ASSUME RestoreInv, restore' = restore, log' = log, led' = led
  PROVE  RestoreInv'
<1>1. CASE restore.pc = "none"
  BY <1>1, WritesInv
<1>2. ASSUME Woven PROVE Woven'
  BY <1>2, WovenStill
<1>3. /\ RestoreType' /\ restore'.pc = restore.pc /\ restore'.exit = restore.exit
      /\ restore'.at = restore.at /\ restore'.todo = restore.todo
      /\ restore'.chains = restore.chains /\ restore'.partial = restore.partial
      /\ restore'.lines = restore.lines
  BY DEF RestoreInv, RestoreType
<1>4. Heads(restore.at)' = Heads(restore.at) /\ Restored(restore.chains)' = Restored(restore.chains)
  BY DEF Heads, EmitCapsule, Restored
<1>5. \A c : EmitCapsule(c, restore.at)' = EmitCapsule(c, restore.at)
  BY DEF EmitCapsule
<1>6. (\A c \in Cap : restore.chains[c] \in {{}, EmitCapsule(c, restore.at)})'
        <=> \A c \in Cap : restore.chains[c] \in {{}, EmitCapsule(c, restore.at)}
  BY <1>3, <1>5
<1>7. (\A c \in Heads(restore.at) \ restore.todo :
         restore.chains[c] = EmitCapsule(c, restore.at))'
        <=> \A c \in Heads(restore.at) \ restore.todo :
              restore.chains[c] = EmitCapsule(c, restore.at)
  BY <1>3, <1>4, <1>5
<1> QED BY <1>2, <1>3, <1>4, <1>6, <1>7 DEF RestoreInv

LEMMA RestoreInvInductive == RecoverySpec => []HistInv /\ []RestoreInv
<1>1. RecoveryInit => Init /\ RestoreInv
  <2> SUFFICES ASSUME RecoveryInit PROVE Init /\ RestoreInv
    OBVIOUS
  <2>1. restore = NoRestore /\ Init
    BY DEF RecoveryInit
  <2>2. restore.pc = "none" /\ restore.exit = 9
    BY <2>1 DEF NoRestore
  <2>3. RestoreType
    BY <2>1, NoRestoreType DEF RestoreType
  <2> QED BY <2>1, <2>2, <2>3 DEF RestoreInv
<1>2. [RecoveryNext]_<<vars, recovery>> => [Next]_vars
  <2>1. CASE Writes
    BY <2>1 DEF Writes, Next
  <2>2. CASE UNCHANGED <<vars, recovery>>
    BY <2>2
  <2>3. CASE BackupBegins \/ (\E c \in Cap : BackupEmits(c)) \/ RestoreBegins
             \/ (\E c \in Cap : Classify(c)) \/ Write \/ Accept \/ Conclude \/ RestoreDies
    BY <2>3 DEF BackupBegins, BackupEmits, RestoreBegins, Classify, Write, Accept,
                Conclude, RestoreDies
  <2> QED BY <2>1, <2>2, <2>3 DEF RecoveryNext
<1>3. RecoverySpec => Spec
  BY <1>1, <1>2, PTL DEF RecoverySpec, Spec
<1>4. HistInv /\ RestoreInv /\ [RecoveryNext]_<<vars, recovery>> => RestoreInv'
  <2> SUFFICES ASSUME HistInv, RestoreInv, [RecoveryNext]_<<vars, recovery>> PROVE RestoreInv'
    OBVIOUS
  <2>1. CASE Writes
    <3>1. restore' = restore /\ restore.pc = "none"
      BY <2>1 DEF Writes, recovery
    <3> QED BY <3>1, WritesInv
  <2>2. CASE UNCHANGED <<vars, recovery>>
    <3>1. restore' = restore /\ log' = log /\ led' = led
      BY <2>2 DEF vars, recovery
    <3> QED BY <3>1, StillInv
  <2>3. CASE BackupBegins \/ \E c \in Cap : BackupEmits(c)
    <3>1. restore' = restore /\ log' = log /\ led' = led
      BY <2>3 DEF BackupBegins, BackupEmits, vars
    <3> QED BY <3>1, StillInv
  <2>4. CASE RestoreBegins
    BY <2>4, BeginsInv
  <2>5. ASSUME NEW c \in Cap, Classify(c) PROVE RestoreInv'
    BY <2>5, ClassifyInv
  <2>6. CASE Write
    BY <2>6, WriteInv
  <2>7. CASE Accept
    BY <2>7, AcceptInv
  <2>8. CASE Conclude
    BY <2>8, ConcludeInv
  <2>9. CASE RestoreDies
    BY <2>9, DiesInv
  <2> QED BY <2>1, <2>2, <2>3, <2>4, <2>5, <2>6, <2>7, <2>8, <2>9 DEF RecoveryNext
<1> QED BY <1>1, <1>3, <1>4, HistInvInductive, PTL DEF RecoverySpec

----------------------------------------------------------------------------

(* internal/backup restore, linearize: a set whose capabilities were found sound *)
(* is never refused after it was woven.  The merge writes the lines in an order   *)
(* nobody wrote them in, by time where the hash chains leave a choice, and with   *)
(* whole capabilities left out; replay accepts the file all the same, its links   *)
(* hold, and its heads are the ones the anchor pins.                              *)
THEOREM RestoreNeverRefusesWoven == RecoverySpec => []WovenReplays
<1>1. HistInv /\ RestoreInv => WovenReplays
  <2> SUFFICES ASSUME HistInv, RestoreInv, restore.pc = "written" PROVE Passes
    BY DEF WovenReplays
  <2>1. RestoreType /\ restore.at \in 1..Len(log) /\ Woven
    BY DEF RestoreInv
  <2> QED BY <2>1, WovenPasses
<1> QED BY <1>1, RestoreInvInductive, PTL

(* internal/backup restore: what a restored ledger says of a capability is what   *)
(* the first lines of the ledger said when the anchor was cut -- its lease, its   *)
(* tokens, its pending receipt, its binding -- and no line of it is about a       *)
(* capability the restore left out (the coupling fixpoint of restore --partial).  *)
THEOREM RestoreFabricatesNothing == RecoverySpec => []RestoredFaithful
<1>1. HistInv /\ RestoreInv => RestoredFaithful
  <2> SUFFICES ASSUME HistInv, RestoreInv, restore.pc \in {"anchored", "done"}
               PROVE  /\ Agree(ReplayFile(Lines(restore.lines)).led,
                               ReplayFile(SubSeq(log, 1, restore.at)).led,
                               Restored(restore.chains))
                      /\ \A k \in DOMAIN restore.lines :
                           Body(restore.lines[k]).caps \subseteq Restored(restore.chains)
    BY DEF RestoredFaithful
  <2>1. CASE Woven
    <3>1. /\ restore.at \in 1..Len(log)
          /\ Closed(Events(restore.chains), Restored(restore.chains), restore.at)
          /\ restore.lines \in linearize(Events(restore.chains))
      BY <2>1 DEF RestoreInv, Woven
    <3> QED BY <3>1, WeaveAgrees
  <2>2. CASE restore.lines = <<>> /\ Restored(restore.chains) = {}
    BY <2>2 DEF Agree
  <2> QED BY <2>1, <2>2 DEF RestoreInv
<1> QED BY <1>1, RestoreInvInductive, PTL

(* internal/backup restore, the verdict (D618, D1082): exit code 0 is only said   *)
(* of a file that holds every event the anchor counted.                           *)
THEOREM GreenRestoreIsWhole == RecoverySpec => []GreenIsWhole
<1>1. HistInv /\ RestoreInv => GreenIsWhole
  <2> SUFFICES ASSUME HistInv, RestoreInv, restore.exit = 0
               PROVE  ToSet(restore.lines) = 1..restore.at
    BY DEF GreenIsWhole
  <2>1. /\ restore.at \in 1..Len(log) /\ Woven
        /\ Heads(restore.at) \subseteq Restored(restore.chains)
    BY DEF RestoreInv
  <2>2. /\ Closed(Events(restore.chains), Restored(restore.chains), restore.at)
        /\ restore.lines \in linearize(Events(restore.chains))
    BY <2>1 DEF Woven
  <2>3. ToSet(restore.lines) = Events(restore.chains)
    BY <2>1, <2>2, WeaveAgrees
  <2>4. TypeOK /\ restore.at \in 0..Len(log)
    BY <2>1 DEF HistInv, TokenInv, TypeOK
  <2>5. Events(restore.chains) = 1..restore.at
    BY <2>1, <2>2, <2>4, AllHeads
  <2> QED BY <2>3, <2>5
<1> QED BY <1>1, RestoreInvInductive, PTL
==============================================================================

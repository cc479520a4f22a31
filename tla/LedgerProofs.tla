---------------------------- MODULE LedgerProofs ----------------------------
(***************************************************************************)
(* The theorems of the open ledger, for every set of capabilities, every   *)
(* lifetime and every length of the file: the fencing of its writers, and  *)
(* the replay of its file.                                                 *)
(***************************************************************************)
EXTENDS LedgerReplay, RulesProofs, SequenceTheorems, TLAPS

(* Every token is one more than an older one, so none outruns the grants. *)
TokensCounted == \A c \in Cap : led.maxToken[c] <= led.seq

(* A lease that was not ended carries the newest token of its capability. *)
LiveIsNewest == \A c \in Cap : ~led.lease[c].ended => led.lease[c].token = led.maxToken[c]

(* No token in the file is above the maximum remembered for its capabilities. *)
LoggedBelowMax ==
  \A i \in DOMAIN log :
    Grant(i) \/ Mutation(i) => \A c \in log[i].caps : log[i].token <= led.maxToken[c]

(* Lease identities are never handed out twice. *)
SeqUnique ==
  /\ \A i \in DOMAIN log : Grant(i) => log[i].seq \in 1..led.seq
  /\ \A i, j \in DOMAIN log : Grant(i) /\ Grant(j) /\ log[i].seq = log[j].seq => i = j

(* Line i granted the lease c is under, nothing ended it since, and some grant *)
(* or renewal from line i on set the expiry it has now.                        *)
Stands(c, i) ==
  /\ Grant(i)
  /\ c \in log[i].caps
  /\ log[i].seq = led.lease[c].seq
  /\ log[i].token = led.lease[c].token
  /\ \A k \in i+1 .. Len(log) :
       c \in log[k].caps =>
         log[k].type \notin {"lease.acquired", "lease.released", "lease.broken"}
  /\ \E k \in i .. Len(log) :
       /\ log[k].type \in {"lease.acquired", "lease.renewed"}
       /\ c \in log[k].caps
       /\ led.lease[c].expiry = log[k].at + log[k].ttl

Backed == \A c \in Cap : ~led.lease[c].ended => \E i \in DOMAIN log : Stands(c, i)

(* The inductive invariant, in two parts: the order of tokens, then the leases  *)
(* behind the mutations.                                                        *)
TokenInv == TypeOK /\ TokensCounted /\ LiveIsNewest /\ LoggedBelowMax
LeaseInv == SeqUnique /\ Backed

----------------------------------------------------------------------------
(* Lemmas about the operators of the rules. *)

(* The token of a new lease is above every token its capabilities have seen     *)
(* (lease.acquired in checkRules), and at most one above the largest.           *)
LEMMA NewTokenAbove ==
  ASSUME NEW caps \in CapSets, led.maxToken \in [Cap -> Nat], led.seq \in Nat, TokensCounted
  PROVE  /\ NewToken(led, caps) \in Nat
         /\ \A c \in caps : led.maxToken[c] < NewToken(led, caps)
         /\ NewToken(led, caps) <= led.seq + 1
  BY TokenAbove DEF CapSets, TokensCounted

(* The fields an event has, by its type. *)
LEMMA EventFields ==
  ASSUME NEW e \in Event
  PROVE  /\ e.caps \in CapSets
         /\ e.at \in Nat
         /\ e.type \in {"lease.acquired", "lease.renewed"} => e.ttl \in Nat \ {0}
         /\ e.type \in {"lease.acquired", "lease.renewed", "lease.released"} \cup MutationTypes
              => e.token \in Nat
         /\ e.type = "lease.acquired" => e.seq \in Nat
         /\ e.type = "binding.updated" =>
              e.bound \in Bound /\ e.replaces \subseteq Res /\ e.tombs \subseteq Res
         /\ e.type = "operation.receipt" => e.receipt \in Receipt
<1> USE LedgerAssumption DEF LedgerAssumption, NoteTypes, DecisionTypes, MutationTypes
<1>1. CASE e \in [type : {"lease.acquired"}, caps : CapSets, at : Nat, ttl : Ttls,
                  token : Nat, seq : Nat]
  BY <1>1
<1>2. CASE e \in [type : {"lease.renewed"}, caps : CapSets, at : Nat, ttl : Ttls, token : Nat]
  BY <1>2
<1>3. CASE e \in [type : {"lease.released"} \cup Marks, caps : CapSets, at : Nat, token : Nat]
  BY <1>3
<1>4. CASE e \in [type : {"lease.broken"}, caps : CapSets, at : Nat, adopt : BOOLEAN]
  BY <1>4
<1>5. CASE e \in [type : {"binding.updated"}, caps : CapSets, at : Nat, token : Nat,
                  bound : Bound, replaces : SUBSET Res, tombs : SUBSET Res]
  BY <1>5
<1>6. CASE e \in [type : {"operation.receipt"}, caps : CapSets, at : Nat,
                  status : Statuses, receipt : Receipt]
  BY <1>6
<1>7. CASE e \in [type : Notes, caps : CapSets, at : Nat]
  BY <1>7
<1> QED BY <1>1, <1>2, <1>3, <1>4, <1>5, <1>6, <1>7 DEF Event

(* The line of an event is an event, and only a grant differs from what was     *)
(* offered: in the token and in the lease identity.                             *)
LEMMA LineFields ==
  ASSUME NEW e \in Event, NewToken(led, e.caps) \in Nat, led.seq \in Nat
  PROVE  /\ Line(e) \in Event
         /\ Line(e).type = e.type
         /\ Line(e).caps = e.caps
         /\ Line(e).at = e.at
         /\ e.type \in {"lease.acquired", "lease.renewed"} => Line(e).ttl = e.ttl
         /\ e.type = "lease.acquired" =>
              Line(e).token = NewToken(led, e.caps) /\ Line(e).seq = led.seq + 1
         /\ e.type # "lease.acquired" => Line(e).token = e.token
<1>1. CASE e.type = "lease.acquired"
  <2>1. e \in [type : {"lease.acquired"}, caps : CapSets, at : Nat, ttl : Ttls,
               token : Nat, seq : Nat]
    BY <1>1, LedgerAssumption
       DEF Event, LedgerAssumption, MutationTypes, NoteTypes, DecisionTypes
  <2>2. Line(e) = [type |-> e.type, caps |-> e.caps, at |-> e.at, ttl |-> e.ttl,
                   token |-> NewToken(led, e.caps), seq |-> led.seq + 1]
    BY <1>1, <2>1 DEF Line
  <2>3. Line(e) \in [type : {"lease.acquired"}, caps : CapSets, at : Nat, ttl : Ttls,
                     token : Nat, seq : Nat]
    BY <2>1, <2>2
  <2>4. Line(e) \in Event
    BY <2>3 DEF Event
  <2> QED BY <1>1, <2>2, <2>4
<1>2. CASE e.type # "lease.acquired"
  BY <1>2 DEF Line
<1> QED BY <1>1, <1>2

(* Whatever a writer offers is an event, and the step is its commit. *)
LEMMA NextCommits ==
  ASSUME led.seq \in Nat, Next
  PROVE  \E e \in Event : Commit(e)
<1> USE LedgerAssumption DEF LedgerAssumption, Clock, Tokens
<1>1. PICK caps \in CapSets, at \in Clock :
        \/ \E ttl \in Ttls : Acquire(caps, at, ttl)
        \/ \E ttl \in Ttls, token \in Tokens : Renew(caps, at, ttl, token)
        \/ \E token \in Tokens : Release(caps, at, token)
        \/ \E adopt \in BOOLEAN : Break(caps, at, adopt)
        \/ \E token \in Tokens, type \in Marks : Mark(type, caps, at, token)
        \/ \E token \in Tokens, id \in Res \cup {NoRes}, lineage \in Lineage :
             Bind(caps, at, token, id, lineage)
        \/ \E status \in Statuses, receipt \in Receipt : WriteReceipt(caps, at, status, receipt)
        \/ \E type \in Notes : Note(type, caps, at)
  BY Zenon DEF Next
<1>2. at \in Nat
  BY <1>1
<1>3. ASSUME NEW ttl \in Ttls, Acquire(caps, at, ttl) PROVE \E e \in Event : Commit(e)
  <2>1. [type |-> "lease.acquired", caps |-> caps, at |-> at, ttl |-> ttl,
         token |-> 0, seq |-> 0] \in Event
    BY <1>1, <1>2 DEF Event
  <2> QED BY <1>3, <2>1, Zenon DEF Acquire
<1>4. ASSUME NEW ttl \in Ttls, NEW token \in Tokens, Renew(caps, at, ttl, token)
      PROVE  \E e \in Event : Commit(e)
  <2>1. [type |-> "lease.renewed", caps |-> caps, at |-> at, ttl |-> ttl, token |-> token]
          \in Event
    BY <1>1, <1>2 DEF Event
  <2> QED BY <1>4, <2>1, Zenon DEF Renew
<1>5. ASSUME NEW token \in Tokens, Release(caps, at, token) PROVE \E e \in Event : Commit(e)
  <2>1. [type |-> "lease.released", caps |-> caps, at |-> at, token |-> token] \in Event
    BY <1>1, <1>2 DEF Event
  <2> QED BY <1>5, <2>1, Zenon DEF Release
<1>6. ASSUME NEW adopt \in BOOLEAN, Break(caps, at, adopt) PROVE \E e \in Event : Commit(e)
  <2>1. [type |-> "lease.broken", caps |-> caps, at |-> at, adopt |-> adopt] \in Event
    BY <1>1, <1>2 DEF Event
  <2> QED BY <1>6, <2>1, Zenon DEF Break
<1>7. ASSUME NEW token \in Tokens, NEW type \in Marks, Mark(type, caps, at, token)
      PROVE  \E e \in Event : Commit(e)
  <2>1. [type |-> type, caps |-> caps, at |-> at, token |-> token] \in Event
    BY <1>1, <1>2 DEF Event
  <2> QED BY <1>7, <2>1, Zenon DEF Mark
<1>8. ASSUME NEW token \in Tokens, NEW id \in Res \cup {NoRes}, NEW lineage \in Lineage,
             Bind(caps, at, token, id, lineage)
      PROVE  \E e \in Event : Commit(e)
  <2>1. [id |-> id, gen |-> IF id = NoRes THEN 0 ELSE 1, adopted |-> FALSE] \in Bound
    BY DEF Bound
  <2>2. lineage.replaces \in SUBSET Res /\ lineage.tombs \in SUBSET Res
    BY DEF Lineage
  <2>3. [type |-> "binding.updated", caps |-> caps, at |-> at, token |-> token,
         bound |-> [id |-> id, gen |-> IF id = NoRes THEN 0 ELSE 1, adopted |-> FALSE],
         replaces |-> lineage.replaces, tombs |-> lineage.tombs] \in Event
    BY <1>1, <1>2, <2>1, <2>2 DEF Event
  <2> QED BY <1>8, <2>3, Zenon DEF Bind
<1>9. ASSUME NEW status \in Statuses, NEW receipt \in Receipt,
             WriteReceipt(caps, at, status, receipt)
      PROVE  \E e \in Event : Commit(e)
  <2>1. [type |-> "operation.receipt", caps |-> caps, at |-> at,
         status |-> status, receipt |-> receipt] \in Event
    BY <1>1, <1>2 DEF Event
  <2> QED BY <1>9, <2>1, Zenon DEF WriteReceipt
<1>10. ASSUME NEW type \in Notes, Note(type, caps, at) PROVE \E e \in Event : Commit(e)
  <2>1. [type |-> type, caps |-> caps, at |-> at] \in Event
    BY <1>1, <1>2 DEF Event
  <2> QED BY <1>10, <2>1, Zenon DEF Note
<1> QED BY <1>1, <1>3, <1>4, <1>5, <1>6, <1>7, <1>8, <1>9, <1>10, Zenon

(* What a commit appends. *)
LEMMA CommitLog ==
  ASSUME TypeOK, TokensCounted, NEW e \in Event, Commit(e)
  PROVE  /\ NewToken(led, e.caps) \in Nat
         /\ log' = Append(log, Line(e))
         /\ log' \in Seq(Event)
         /\ Len(log) \in Nat /\ Len(log') = Len(log) + 1
         /\ DOMAIN log = 1..Len(log) /\ DOMAIN log' = 1..Len(log) + 1
         /\ \A i \in 1..Len(log) : log'[i] = log[i] /\ log[i] \in Event
         /\ log'[Len(log) + 1] = Line(e)
<1>1. e.caps \in CapSets
  BY EventFields
<1>2. NewToken(led, e.caps) \in Nat
  BY <1>1, NewTokenAbove DEF TypeOK
<1>3. log' = Append(log, Line(e)) /\ Line(e) \in Event
  BY <1>2, LineFields DEF TypeOK, Commit
<1> QED BY <1>2, <1>3 DEF TypeOK

(* A commit keeps the types. *)
LEMMA CommitTypeOK ==
  ASSUME TypeOK, TokensCounted, NEW e \in Event, Commit(e)
  PROVE  TypeOK'
<1>1. /\ e.caps \in CapSets /\ e.at \in Nat
      /\ e.type \in {"lease.acquired", "lease.renewed"} => e.ttl \in Nat \ {0}
      /\ e.type = "binding.updated" =>
           e.bound \in Bound /\ e.replaces \subseteq Res /\ e.tombs \subseteq Res
      /\ e.type = "operation.receipt" => e.receipt \in Receipt
  BY EventFields
<1>2. NewToken(led, e.caps) \in Nat /\ log' \in Seq(Event)
  BY CommitLog
<1>3. led' = Step(led, e, e.at)
  BY DEF Commit
<1>4. led'.lease \in [Cap -> Lease]
  <2>1. led'.lease = LeaseAfter(led, e, e.at)
    BY <1>3 DEF Step
  <2>2. \A c \in Cap : led.lease[c] \in Lease
    BY DEF TypeOK
  <2>3. e.type = "lease.acquired" =>
          [token |-> NewToken(led, e.caps), expiry |-> e.at + e.ttl,
           ended |-> FALSE, seq |-> led.seq + 1] \in Lease
    BY <1>1, <1>2 DEF Lease, TypeOK
  <2>4. e.type = "lease.renewed" =>
          \A c \in Cap : [led.lease[c] EXCEPT !.expiry = e.at + e.ttl] \in Lease
    BY <1>1, <2>2 DEF Lease
  <2>5. \A c \in Cap : [led.lease[c] EXCEPT !.ended = TRUE] \in Lease
    BY <2>2 DEF Lease
  <2> QED BY <2>1, <2>2, <2>3, <2>4, <2>5 DEF LeaseAfter
<1>5. led'.maxToken \in [Cap -> Nat] /\ led'.seq \in Nat
  BY <1>2, <1>3 DEF Step, MaxTokenAfter, SeqAfter, TypeOK
<1>6. led'.pending \in [Cap -> SUBSET Receipt]
  BY <1>1, <1>3 DEF Step, PendingAfter, TypeOK
<1>7. led'.binding \in [Cap -> Bound]
  BY <1>1, <1>3 DEF Step, BindingAfter, TypeOK
<1>8. led'.replaced \in [Cap -> SUBSET Res] /\ led'.tombstoned \in [Cap -> SUBSET Res]
  BY <1>1, <1>3 DEF Step, ReplacedAfter, TombstonedAfter, TypeOK
<1>9. led'.claimed \in SUBSET Cap
  BY <1>1, <1>3 DEF Step, ClaimedAfter, TypeOK, CapSets
<1>10. led'.decided \in [Cap -> Nat] /\ led'.clock \in Nat
  BY <1>1, <1>3 DEF Step, DecidedAfter, TypeOK
<1> QED BY <1>2, <1>4, <1>5, <1>6, <1>7, <1>8, <1>9, <1>10 DEF TypeOK

----------------------------------------------------------------------------
(* The order of tokens. *)

(* What an accepted mutation may rely on. *)
LEMMA MutationHolds ==
  ASSUME NEW e \in Event, Commit(e), e.type \in MutationTypes
  PROVE  /\ \A c \in e.caps : /\ ~led.lease[c].ended
                              /\ e.at < led.lease[c].expiry
                              /\ led.lease[c].token = e.token
         /\ \A c, d \in e.caps : led.lease[c].seq = led.lease[d].seq
BY DEF Commit, Accepts, Holds, Active, OneLease

(* A commit never lowers a maximum, and a grant raises its own to the new token. *)
LEMMA CommitMax ==
  ASSUME TypeOK, TokensCounted, NEW e \in Event, Commit(e)
  PROVE  /\ TokensCounted'
         /\ \A c \in Cap : led.maxToken[c] <= led'.maxToken[c]
         /\ e.type = "lease.acquired" =>
              \A c \in e.caps : /\ led'.maxToken[c] = NewToken(led, e.caps)
                                /\ led.maxToken[c] < NewToken(led, e.caps)
<1>1. e.caps \in CapSets
  BY EventFields
<1>2. /\ NewToken(led, e.caps) \in Nat
      /\ \A c \in e.caps : led.maxToken[c] < NewToken(led, e.caps)
      /\ NewToken(led, e.caps) <= led.seq + 1
  BY <1>1, NewTokenAbove DEF TypeOK
<1>3. led'.maxToken = MaxTokenAfter(led, e) /\ led'.seq = SeqAfter(led, e)
  BY DEF Commit, Step
<1> QED BY <1>1, <1>2, <1>3 DEF MaxTokenAfter, SeqAfter, TokensCounted, TypeOK, CapSets

(* A commit leaves a live lease with the newest token of its capability. *)
LEMMA CommitLive ==
  ASSUME TypeOK, TokensCounted, LiveIsNewest, NEW e \in Event, Commit(e)
  PROVE  LiveIsNewest'
<1>1. led'.lease = LeaseAfter(led, e, e.at) /\ led'.maxToken = MaxTokenAfter(led, e)
  BY DEF Commit, Step
<1>2. \A c \in Cap : led.lease[c] \in Lease
  BY DEF TypeOK
<1> QED BY <1>1, <1>2 DEF LeaseAfter, MaxTokenAfter, LiveIsNewest, TypeOK, Lease

(* A commit keeps the tokens in the file below the maxima. *)
LEMMA CommitLogged ==
  ASSUME TokenInv, NEW e \in Event, Commit(e)
  PROVE  LoggedBelowMax'
<1> USE DEF TokenInv
<1>1. e.caps \in CapSets
  BY EventFields
<1>2. SUFFICES ASSUME NEW i \in 1..Len(log) + 1, (Grant(i) \/ Mutation(i))',
                      NEW c \in log'[i].caps
               PROVE  log'[i].token <= led'.maxToken[c]
  BY CommitLog DEF LoggedBelowMax
<1>3. CASE i \in 1..Len(log)
  <2>1. log'[i] = log[i] /\ log[i] \in Event /\ i \in DOMAIN log
    BY <1>3, CommitLog
  <2>2. Grant(i) \/ Mutation(i)
    BY <1>2, <2>1 DEF Grant, Mutation
  <2>3. c \in Cap /\ log[i].token <= led.maxToken[c] /\ log[i].token \in Nat
    BY <1>2, <2>1, <2>2, EventFields DEF LoggedBelowMax, Grant, Mutation, CapSets
  <2>4. led.maxToken[c] <= led'.maxToken[c]
    BY <2>3, CommitMax
  <2>5. led.maxToken[c] \in Nat /\ led'.maxToken[c] \in Nat
    BY <2>3, CommitTypeOK DEF TypeOK
  <2> QED BY <2>1, <2>3, <2>4, <2>5
<1>4. CASE i = Len(log) + 1
  <2>1. log'[i] = Line(e)
    BY <1>4, CommitLog
  <2>2. CASE e.type = "lease.acquired"
    <3>1. Line(e).token = NewToken(led, e.caps) /\ Line(e).caps = e.caps
      BY <2>2, CommitLog, LineFields DEF TypeOK
    <3>2. NewToken(led, e.caps) \in Nat /\ led'.maxToken[c] = NewToken(led, e.caps)
      BY <1>2, <2>1, <2>2, <3>1, CommitLog, CommitMax
    <3> QED BY <2>1, <3>1, <3>2
  <2>3. CASE e.type # "lease.acquired"
    <3>1. Line(e) = e
      BY <2>3 DEF Line
    <3>2. e.type \in MutationTypes
      BY <1>2, <2>1, <2>3, <3>1 DEF Grant, Mutation
    <3>3. c \in Cap /\ c \in e.caps
      BY <1>1, <1>2, <2>1, <3>1 DEF CapSets
    <3>4. e.token = led.maxToken[c]
      BY <3>2, <3>3, MutationHolds DEF LiveIsNewest
    <3> QED BY <2>1, <3>1, <3>3, <3>4, CommitMax
  <2> QED BY <2>2, <2>3
<1> QED BY <1>3, <1>4, CommitLog

(* The strengthening of the token order holds initially and is inductive. *)
LEMMA TokenInvInductive == Spec => []TokenInv
<1>1. Init => TokenInv
  <2> SUFFICES ASSUME Init PROVE TokenInv
    OBVIOUS
  <2>1. TypeOK
    BY DEF Init, TypeOK, EmptyLedger, NoLease, Unbound, Lease, Bound
  <2>2. TokensCounted /\ LiveIsNewest /\ LoggedBelowMax
    BY DEF Init, EmptyLedger, NoLease, TokensCounted, LiveIsNewest, LoggedBelowMax
  <2> QED BY <2>1, <2>2 DEF TokenInv
<1>2. TokenInv /\ [Next]_vars => TokenInv'
  <2>1. ASSUME TokenInv, Next PROVE TokenInv'
    <3>1. PICK e \in Event : Commit(e)
      BY <2>1, NextCommits DEF TokenInv, TypeOK
    <3>2. TypeOK' /\ TokensCounted' /\ LiveIsNewest'
      BY <2>1, <3>1, CommitTypeOK, CommitMax, CommitLive DEF TokenInv
    <3>3. LoggedBelowMax'
      BY <2>1, <3>1, CommitLogged
    <3> QED BY <3>2, <3>3 DEF TokenInv
  <2>2. ASSUME TokenInv, UNCHANGED vars PROVE TokenInv'
    BY <2>2 DEF vars, TokenInv, TypeOK, TokensCounted, LiveIsNewest, LoggedBelowMax,
                Grant, Mutation
  <2> QED BY <2>1, <2>2
<1> QED BY <1>1, <1>2, PTL DEF Spec

(* The state of the fold has its types (the Ledger struct), and the file holds  *)
(* only events of the registry, whatever the writers offered.                   *)
THEOREM LedgerTypes == Spec => []TypeOK
<1>1. TokenInv => TypeOK
  BY DEF TokenInv
<1> QED BY <1>1, TokenInvInductive, PTL

(* A later lease of a capability carries a larger token (lease.acquired in      *)
(* checkRules): the token is taken above every maximum, and no line in the file *)
(* is above the maxima.                                                         *)
THEOREM TokensOrdered == Spec => []GrantsOrdered
<1>1. Init => GrantsOrdered
  BY DEF Init, GrantsOrdered
<1>2. TokenInv /\ GrantsOrdered /\ [Next]_vars => GrantsOrdered'
  <2>1. ASSUME TokenInv, GrantsOrdered, Next PROVE GrantsOrdered'
    <3>1. PICK e \in Event : Commit(e)
      BY <2>1, NextCommits DEF TokenInv, TypeOK
    <3>2. TypeOK /\ TokensCounted
      BY <2>1 DEF TokenInv
    <3> SUFFICES ASSUME NEW i \in DOMAIN log', NEW j \in DOMAIN log',
                        Grant(i)', Grant(j)', i < j, Share(i, j)'
                 PROVE  log'[i].token < log'[j].token
      BY DEF GrantsOrdered
    <3>3. i \in 1..Len(log) /\ log'[i] = log[i] /\ log[i] \in Event
      BY <3>1, <3>2, CommitLog
    <3>4. CASE j \in 1..Len(log)
      BY <2>1, <3>1, <3>2, <3>3, <3>4, CommitLog DEF GrantsOrdered, Grant, Share
    <3>5. CASE j = Len(log) + 1
      <4>1. log'[j] = Line(e) /\ NewToken(led, e.caps) \in Nat
        BY <3>1, <3>2, <3>5, CommitLog
      <4>2. Line(e).type = e.type /\ Line(e).caps = e.caps
        BY <3>2, <4>1, LineFields DEF TypeOK
      <4>3. e.type = "lease.acquired"
        BY <4>1, <4>2 DEF Grant
      <4>4. Line(e).token = NewToken(led, e.caps)
        BY <3>2, <4>1, <4>3, LineFields DEF TypeOK
      <4>5. PICK c : c \in log[i].caps /\ c \in e.caps
        BY <3>3, <4>1, <4>2 DEF Share
      <4>6. log[i].token <= led.maxToken[c] /\ log[i].token \in Nat /\ c \in Cap
        BY <2>1, <3>3, <4>5, EventFields, CommitLog
           DEF TokenInv, LoggedBelowMax, Grant, CapSets, TypeOK
      <4>7. led.maxToken[c] < NewToken(led, e.caps) /\ led.maxToken[c] \in Nat
        BY <3>1, <3>2, <4>3, <4>5, <4>6, CommitMax DEF TypeOK
      <4> QED BY <3>3, <4>1, <4>4, <4>6, <4>7
    <3> QED BY <3>1, <3>2, <3>4, <3>5, CommitLog
  <2>2. ASSUME GrantsOrdered, UNCHANGED vars PROVE GrantsOrdered'
    BY <2>2 DEF vars, GrantsOrdered, Grant, Share
  <2> QED BY <2>1, <2>2
<1> QED BY <1>1, <1>2, TokenInvInductive, PTL DEF Spec

(* A worker that lost its lease cannot write history any more (MutationTypes in *)
(* checkRules): an accepted mutation carries the maximum of its capabilities.   *)
THEOREM StaleTokensFenced == Spec => []StaleTokenNeverWrites
<1>1. Init => StaleTokenNeverWrites
  BY DEF Init, StaleTokenNeverWrites
<1>2. TokenInv /\ StaleTokenNeverWrites /\ [Next]_vars => StaleTokenNeverWrites'
  <2>1. ASSUME TokenInv, StaleTokenNeverWrites, Next PROVE StaleTokenNeverWrites'
    <3>1. PICK e \in Event : Commit(e)
      BY <2>1, NextCommits DEF TokenInv, TypeOK
    <3>2. TypeOK /\ TokensCounted
      BY <2>1 DEF TokenInv
    <3> SUFFICES ASSUME NEW i \in DOMAIN log', NEW j \in DOMAIN log',
                        (Grant(i) \/ Mutation(i))', Mutation(j)', i < j, Share(i, j)'
                 PROVE  log'[i].token <= log'[j].token
      BY DEF StaleTokenNeverWrites
    <3>3. i \in 1..Len(log) /\ log'[i] = log[i] /\ log[i] \in Event
      BY <3>1, <3>2, CommitLog
    <3>4. CASE j \in 1..Len(log)
      BY <2>1, <3>1, <3>2, <3>3, <3>4, CommitLog
         DEF StaleTokenNeverWrites, Grant, Mutation, Share
    <3>5. CASE j = Len(log) + 1
      <4>1. log'[j] = Line(e) /\ NewToken(led, e.caps) \in Nat
        BY <3>1, <3>2, <3>5, CommitLog
      <4>2. Line(e).type = e.type /\ Line(e).caps = e.caps
        BY <3>2, <4>1, LineFields DEF TypeOK
      <4>3. e.type \in MutationTypes /\ e.type # "lease.acquired"
        BY <4>1, <4>2 DEF Mutation, MutationTypes
      <4>4. Line(e).token = e.token
        BY <4>3 DEF Line
      <4>5. PICK c : c \in log[i].caps /\ c \in e.caps
        BY <3>3, <4>1, <4>2 DEF Share
      <4>6. log[i].token <= led.maxToken[c] /\ c \in Cap
        <5>1. i \in DOMAIN log
          BY <3>1, <3>2, <3>3, CommitLog
        <5>2. Grant(i) \/ Mutation(i)
          BY <3>3 DEF Grant, Mutation
        <5>3. log[i].caps \subseteq Cap
          BY <3>3, EventFields DEF CapSets
        <5>4. LoggedBelowMax
          BY <2>1 DEF TokenInv
        <5> QED BY ONLY <4>5, <5>1, <5>2, <5>3, <5>4 DEF LoggedBelowMax
      <4>7. e.token = led.maxToken[c]
        BY <2>1, <3>1, <4>3, <4>5, <4>6, MutationHolds DEF TokenInv, LiveIsNewest
      <4> QED BY <3>3, <4>1, <4>4, <4>6, <4>7
    <3> QED BY <3>1, <3>2, <3>4, <3>5, CommitLog
  <2>2. ASSUME StaleTokenNeverWrites, UNCHANGED vars PROVE StaleTokenNeverWrites'
    BY <2>2 DEF vars, StaleTokenNeverWrites, Grant, Mutation, Share
  <2> QED BY <2>1, <2>2
<1> QED BY <1>1, <1>2, TokenInvInductive, PTL DEF Spec

----------------------------------------------------------------------------
(* The lease behind a mutation. *)

(* A commit gives no lease an identity that was given before. *)
LEMMA CommitSeqUnique ==
  ASSUME TokenInv, SeqUnique, NEW e \in Event, Commit(e)
  PROVE  SeqUnique'
<1>1. TypeOK /\ TokensCounted /\ led.seq \in Nat
  BY DEF TokenInv, TypeOK
<1>2. NewToken(led, e.caps) \in Nat /\ log'[Len(log) + 1] = Line(e)
  BY <1>1, CommitLog
<1>3. led'.seq = IF e.type = "lease.acquired" THEN led.seq + 1 ELSE led.seq
  BY DEF Commit, Step, SeqAfter
<1>4. Line(e).type = e.type
  BY <1>1, <1>2, LineFields
<1>5. e.type = "lease.acquired" => Line(e).seq = led.seq + 1
  BY <1>1, <1>2, LineFields
<1>6. \A i \in 1..Len(log) : Grant(i)' => Grant(i) /\ log'[i].seq = log[i].seq
  BY <1>1, CommitLog DEF Grant
<1>7. \A i \in 1..Len(log) : Grant(i)' => log'[i].seq \in 1..led.seq
  BY <1>1, <1>6, CommitLog DEF SeqUnique
<1>8. ASSUME NEW i \in DOMAIN log', Grant(i)'
      PROVE  /\ i \in 1..Len(log) => log'[i].seq \in 1..led.seq
             /\ i \notin 1..Len(log) => i = Len(log) + 1 /\ log'[i].seq = led.seq + 1
                                          /\ led'.seq = led.seq + 1
  BY <1>1, <1>2, <1>3, <1>4, <1>5, <1>7, <1>8, CommitLog DEF Grant
<1>9. \A i \in DOMAIN log' : Grant(i)' => log'[i].seq \in 1..led'.seq
  BY <1>1, <1>3, <1>8
<1>10. ASSUME NEW i \in DOMAIN log', NEW j \in DOMAIN log', Grant(i)', Grant(j)',
              log'[i].seq = log'[j].seq
       PROVE  i = j
  <2>1. CASE i \in 1..Len(log) /\ j \in 1..Len(log)
    BY <1>1, <1>6, <1>10, <2>1, CommitLog DEF SeqUnique
  <2>2. CASE ~(i \in 1..Len(log) /\ j \in 1..Len(log))
    BY <1>1, <1>8, <1>10, <2>2
  <2> QED BY <2>1, <2>2
<1> QED BY <1>9, <1>10 DEF SeqUnique

(* A grant that stands still stands after a commit that does not end it.        *)
LEMMA StandsKept ==
  ASSUME TypeOK, TokensCounted, NEW e \in Event, Commit(e),
         NEW c \in Cap, NEW i \in DOMAIN log, Stands(c, i),
         c \in e.caps =>
           e.type \notin {"lease.acquired", "lease.released", "lease.broken"},
         led'.lease[c].seq = led.lease[c].seq, led'.lease[c].token = led.lease[c].token,
         \/ led'.lease[c].expiry = led.lease[c].expiry
         \/ /\ e.type = "lease.renewed"
            /\ c \in e.caps
            /\ led'.lease[c].expiry = e.at + e.ttl
  PROVE  Stands(c, i)'
<1> DEFINE n == Len(log) + 1
           Ends == {"lease.acquired", "lease.released", "lease.broken"}
<1>1. /\ n \in Nat /\ i \in 1..Len(log) /\ Len(log') = n /\ Len(log) \in Nat
      /\ log'[n] = Line(e) /\ NewToken(led, e.caps) \in Nat
      /\ \A k \in 1..Len(log) : log'[k] = log[k]
  BY CommitLog
<1>2. /\ Line(e).type = e.type /\ Line(e).caps = e.caps /\ Line(e).at = e.at
      /\ e.type \in {"lease.acquired", "lease.renewed"} => Line(e).ttl = e.ttl
  BY <1>1, LineFields DEF TypeOK
<1>3. /\ Grant(i)' /\ c \in log'[i].caps
      /\ log'[i].seq = led'.lease[c].seq /\ log'[i].token = led'.lease[c].token
  BY <1>1 DEF Stands, Grant
<1>4. ASSUME NEW k \in i+1 .. n, c \in log'[k].caps
      PROVE  log'[k].type \notin Ends
  BY <1>1, <1>2, <1>4 DEF Stands
<1>5. \E k \in i .. n :
        /\ log'[k].type \in {"lease.acquired", "lease.renewed"}
        /\ c \in log'[k].caps
        /\ led'.lease[c].expiry = log'[k].at + log'[k].ttl
  <2>1. CASE led'.lease[c].expiry = led.lease[c].expiry
    <3>1. PICK k \in i .. Len(log) :
            /\ log[k].type \in {"lease.acquired", "lease.renewed"}
            /\ c \in log[k].caps
            /\ led.lease[c].expiry = log[k].at + log[k].ttl
      BY DEF Stands
    <3>2. k \in i .. n /\ log'[k] = log[k]
      BY <1>1, <3>1
    <3> QED BY <2>1, <3>1, <3>2
  <2>2. CASE e.type = "lease.renewed" /\ c \in e.caps
              /\ led'.lease[c].expiry = e.at + e.ttl
    <3>1. n \in i .. n
      BY <1>1
    <3> QED BY <1>1, <1>2, <2>2, <3>1
  <2> QED BY <2>1, <2>2
<1> QED BY <1>1, <1>3, <1>4, <1>5 DEF Stands

(* After a commit, too, every live lease has its grant in the file.             *)
LEMMA CommitBacked ==
  ASSUME TokenInv, Backed, NEW e \in Event, Commit(e)
  PROVE  Backed'
<1>1. TypeOK /\ TokensCounted
  BY DEF TokenInv
<1>2. led'.lease = LeaseAfter(led, e, e.at) /\ e.caps \in CapSets /\ e.at \in Nat
  BY EventFields DEF Commit, Step
<1>3. \A c \in Cap : led.lease[c] \in Lease
  BY <1>1 DEF TypeOK
<1>4. SUFFICES ASSUME NEW c \in Cap, ~led'.lease[c].ended
               PROVE  \E i \in DOMAIN log' : Stands(c, i)'
  BY DEF Backed
<1>5. DOMAIN log \subseteq DOMAIN log'
  BY <1>1, CommitLog
<1>6. CASE c \notin e.caps
  <2>1. led'.lease[c] = led.lease[c]
    BY <1>2, <1>6 DEF LeaseAfter
  <2>2. PICK i \in DOMAIN log : Stands(c, i)
    BY <1>4, <2>1 DEF Backed
  <2>3. Stands(c, i)'
    BY <1>1, <1>6, <2>1, <2>2, StandsKept
  <2> QED BY <1>5, <2>3
<1>7. CASE c \in e.caps /\ e.type = "lease.acquired"
  <2>1. led'.lease[c] = [token |-> NewToken(led, e.caps), expiry |-> e.at + e.ttl,
                         ended |-> FALSE, seq |-> led.seq + 1]
    BY <1>2, <1>7 DEF LeaseAfter
  <2>2. PICK n \in Nat : n = Len(log) + 1
    BY <1>1, CommitLog
  <2>3. /\ NewToken(led, e.caps) \in Nat
        /\ n \in DOMAIN log' /\ Len(log') = n /\ log'[n] = Line(e)
    BY <1>1, <2>2, CommitLog
  <2>4. /\ Line(e).type = e.type /\ Line(e).caps = e.caps /\ Line(e).at = e.at
        /\ Line(e).ttl = e.ttl /\ Line(e).token = NewToken(led, e.caps)
        /\ Line(e).seq = led.seq + 1
    BY <1>1, <1>7, <2>3, LineFields DEF TypeOK
  <2>5. /\ Grant(n)' /\ c \in log'[n].caps
        /\ log'[n].seq = led'.lease[c].seq /\ log'[n].token = led'.lease[c].token
    BY <1>7, <2>1, <2>3, <2>4 DEF Grant
  <2>6. \A k \in n+1 .. Len(log') : FALSE
    BY <2>2, <2>3
  <2>7. n \in n .. Len(log') /\ log'[n].type \in {"lease.acquired", "lease.renewed"}
          /\ led'.lease[c].expiry = log'[n].at + log'[n].ttl
    BY <1>7, <2>1, <2>2, <2>3, <2>4
  <2>8. Stands(c, n)'
    BY <2>5, <2>6, <2>7 DEF Stands
  <2> QED BY <2>3, <2>8
<1>8. CASE c \in e.caps /\ e.type = "lease.renewed"
  <2>1. /\ ~led.lease[c].ended
        /\ led'.lease[c].seq = led.lease[c].seq /\ led'.lease[c].token = led.lease[c].token
        /\ led'.lease[c].expiry = e.at + e.ttl
    BY <1>2, <1>3, <1>8 DEF LeaseAfter, Commit, Accepts, Holds, Active, Lease
  <2>2. PICK i \in DOMAIN log : Stands(c, i)
    BY <2>1 DEF Backed
  <2>3. Stands(c, i)'
    BY <1>1, <1>8, <2>1, <2>2, StandsKept
  <2> QED BY <1>5, <2>3
<1>9. CASE c \in e.caps /\ e.type \in {"lease.released", "lease.broken"}
  BY <1>2, <1>3, <1>4, <1>9 DEF LeaseAfter, Lease
<1>10. CASE c \in e.caps /\ e.type \notin
              {"lease.acquired", "lease.renewed", "lease.released", "lease.broken"}
  <2>1. led'.lease[c] = led.lease[c]
    BY <1>2, <1>10 DEF LeaseAfter
  <2>2. PICK i \in DOMAIN log : Stands(c, i)
    BY <1>4, <2>1 DEF Backed
  <2>3. Stands(c, i)'
    BY <1>1, <1>10, <2>1, <2>2, StandsKept
  <2> QED BY <1>5, <2>3
<1> QED BY <1>6, <1>7, <1>8, <1>9, <1>10

(* A mutation that is accepted stands under one grant of the file.              *)
LEMMA MutationCovered ==
  ASSUME TokenInv, LeaseInv, NEW e \in Event, Commit(e), e.type \in MutationTypes
  PROVE  \E i \in DOMAIN log : \A c \in e.caps : Stands(c, i)
<1>1. e.caps # {} /\ e.caps \subseteq Cap
  BY EventFields DEF CapSets
<1>2. \A c \in e.caps : ~led.lease[c].ended
  BY MutationHolds
<1>3. PICK d \in e.caps : TRUE
  BY <1>1
<1>4. PICK i \in DOMAIN log : Stands(d, i)
  BY <1>1, <1>2, <1>3 DEF LeaseInv, Backed
<1>5. ASSUME NEW c \in e.caps PROVE Stands(c, i)
  <2>1. PICK j \in DOMAIN log : Stands(c, j)
    BY <1>1, <1>2, <1>5 DEF LeaseInv, Backed
  <2>2. led.lease[c].seq = led.lease[d].seq
    BY <1>3, <1>5, MutationHolds
  <2>3. j = i
    BY <1>4, <2>1, <2>2 DEF LeaseInv, SeqUnique, Stands
  <2> QED BY <2>1, <2>3
<1> QED BY <1>5

(* One mutation, one lease (D633, the covering check of MutationTypes in          *)
(* checkRules): behind every mutation in the file stands a single grant over all  *)
(* it writes, not released, broken or expired, and a writer of another lease that *)
(* happens to hold the same token number never gets a mutation in.                *)
THEOREM OneLeasePerMutation == Spec => []OneLeaseCovers
<1> DEFINE Inv == LeaseInv /\ OneLeaseCovers
<1>1. Init => Inv
  BY DEF Init, EmptyLedger, NoLease, LeaseInv, SeqUnique, Backed, OneLeaseCovers
<1>2. TokenInv /\ Inv /\ [Next]_vars => Inv'
  <2>1. ASSUME TokenInv, Inv, Next PROVE Inv'
    <3>1. PICK e \in Event : Commit(e)
      BY <2>1, NextCommits DEF TokenInv, TypeOK
    <3>2. TypeOK /\ TokensCounted
      BY <2>1 DEF TokenInv
    <3>3. LeaseInv'
      BY <2>1, <3>1, CommitSeqUnique, CommitBacked DEF LeaseInv
    <3>4. ASSUME NEW j \in DOMAIN log', Mutation(j)'
          PROVE  \E i \in DOMAIN log' : Covers(i, j)'
      <4>1. CASE j \in 1..Len(log)
        <5>1. log'[j] = log[j] /\ j \in DOMAIN log /\ Mutation(j)
          BY <3>1, <3>2, <3>4, <4>1, CommitLog DEF Mutation
        <5>2. PICK i \in DOMAIN log : Covers(i, j)
          BY <2>1, <5>1 DEF OneLeaseCovers
        <5>3. /\ i \in 1..Len(log) /\ i \in DOMAIN log' /\ Len(log) \in Nat
              /\ \A k \in 1..Len(log) : log'[k] = log[k]
          BY <3>1, <3>2, CommitLog
        <5>4. \A k \in i .. j-1 : log'[k] = log[k]
          BY <4>1, <5>3
        <5>5. Covers(i, j)'
          <6>1. i < j /\ log'[i] = log[i] /\ \A k \in i+1 .. j-1 : log'[k] = log[k]
            BY <5>2, <5>3, <5>4 DEF Covers
          <6>2. /\ Grant(i)' /\ log'[j].caps \subseteq log'[i].caps
                /\ log'[i].token = log'[j].token
            BY <5>1, <5>2, <6>1 DEF Covers, Grant
          <6>3. \A k \in i+1 .. j-1 : Share(k, j)' =>
                  log'[k].type \notin {"lease.acquired", "lease.released", "lease.broken"}
            BY <5>1, <5>2, <6>1 DEF Covers, Share
          <6>4. \A c \in log'[j].caps : \E k \in i .. j-1 :
                  /\ log'[k].type \in {"lease.acquired", "lease.renewed"}
                  /\ c \in log'[k].caps
                  /\ log'[j].at < log'[k].at + log'[k].ttl
            BY <5>1, <5>2, <5>4 DEF Covers
          <6> QED BY ONLY <6>1, <6>2, <6>3, <6>4 DEF Covers
        <5> QED BY <5>3, <5>5
      <4>2. CASE j = Len(log) + 1
        <5>1. /\ log'[j] = Line(e) /\ NewToken(led, e.caps) \in Nat /\ Len(log) \in Nat
              /\ \A k \in 1..Len(log) : log'[k] = log[k]
              /\ DOMAIN log = 1..Len(log) /\ DOMAIN log' = 1 .. Len(log) + 1
          BY <3>1, <3>2, <4>2, CommitLog
        <5>2. Line(e).type = e.type
          BY <3>2, <5>1, LineFields DEF TypeOK
        <5>3. e.type \in MutationTypes /\ Line(e) = e
          BY <3>4, <5>1, <5>2 DEF Mutation, MutationTypes, Line
        <5>4. PICK i \in DOMAIN log : \A c \in e.caps : Stands(c, i)
          BY <2>1, <3>1, <5>3, MutationCovered
        <5>5. PICK d \in e.caps : TRUE
          BY EventFields DEF CapSets
        <5>6. \A c \in e.caps : e.at < led.lease[c].expiry /\ led.lease[c].token = e.token
          BY <3>1, <5>3, MutationHolds
        <5>7. /\ i \in 1..Len(log) /\ i \in DOMAIN log' /\ i < j
              /\ \A k \in i .. j-1 : k \in i .. Len(log) /\ log'[k] = log[k]
              /\ i .. Len(log) = i .. j-1 /\ i+1 .. Len(log) = i+1 .. j-1
          BY <4>2, <5>1
        <5>8. Grant(i)' /\ log'[j].caps \subseteq log'[i].caps /\ log'[i].token = log'[j].token
          BY <5>1, <5>3, <5>4, <5>5, <5>6, <5>7 DEF Stands, Grant
        <5>9. ASSUME NEW k \in i+1 .. j-1, Share(k, j)'
              PROVE  log'[k].type \notin {"lease.acquired", "lease.released", "lease.broken"}
          <6>1. k \in i+1 .. Len(log) /\ k \in i .. j-1
            BY <5>7, <5>9
          <6>2. PICK c \in e.caps : c \in log[k].caps
            BY <5>1, <5>3, <5>7, <5>9, <6>1 DEF Share
          <6> QED BY <5>4, <5>7, <6>1, <6>2 DEF Stands
        <5>10. ASSUME NEW c \in log'[j].caps
               PROVE  \E k \in i .. j-1 :
                        /\ log'[k].type \in {"lease.acquired", "lease.renewed"}
                        /\ c \in log'[k].caps
                        /\ log'[j].at < log'[k].at + log'[k].ttl
          <6>1. c \in e.caps
            BY <5>1, <5>3, <5>10
          <6>2. PICK k \in i .. Len(log) :
                  /\ log[k].type \in {"lease.acquired", "lease.renewed"}
                  /\ c \in log[k].caps
                  /\ led.lease[c].expiry = log[k].at + log[k].ttl
            BY <5>4, <6>1 DEF Stands
          <6>3. k \in i .. j-1 /\ log'[k] = log[k]
            BY <5>7, <6>2
          <6>4. e.at < log[k].at + log[k].ttl
            BY <5>6, <6>1, <6>2
          <6> QED BY <5>1, <5>3, <6>2, <6>3, <6>4
        <5>11. Covers(i, j)'
          BY <5>7, <5>8, <5>9, <5>10 DEF Covers
        <5> QED BY <5>7, <5>11
      <4> QED BY <3>1, <3>2, <3>4, <4>1, <4>2, CommitLog
    <3> QED BY <3>3, <3>4 DEF OneLeaseCovers
  <2>2. ASSUME Inv, UNCHANGED vars PROVE Inv'
    <3>1. LeaseInv'
      BY <2>2 DEF vars, LeaseInv, SeqUnique, Backed, Stands, Grant
    <3>2. OneLeaseCovers'
      BY <2>2 DEF vars, OneLeaseCovers, Covers, Mutation, Grant, Share
    <3> QED BY <3>1, <3>2
  <2> QED BY <2>1, <2>2
<1>3. Inv => OneLeaseCovers
  OBVIOUS
<1> QED
  <2> HIDE DEF Inv
  <2> QED BY <1>1, <1>2, <1>3, TokenInvInductive, PTL DEF Spec

----------------------------------------------------------------------------
(* The replay of a file. *)

Start == [ok |-> TRUE, led |-> EmptyLedger]

(* f is the fold of the first k of some lines: the equation ReplayFile computes by. *)
FoldOf(f, lines, k) ==
  f = [n \in 0..k |-> IF n = 0 THEN Start ELSE ReplayLine(f[n-1], lines[n])]

(* What a replay makes of the first k lines. *)
Fold(lines, k) == (CHOOSE f : FoldOf(f, lines, k))[k]

LEMMA FoldExists ==
  ASSUME NEW lines, NEW k \in Nat
  PROVE  \E f : FoldOf(f, lines, k)
<1> DEFINE T == {n \in Nat : \E f : FoldOf(f, lines, n)}
<1>1. 0 \in T
  <2> DEFINE f == [n \in 0..0 |-> Start]
  <2>1. f = [n \in 0..0 |-> IF n = 0 THEN Start ELSE ReplayLine(f[n-1], lines[n])]
    OBVIOUS
  <2> HIDE DEF f
  <2>2. FoldOf(f, lines, 0)
    BY <2>1 DEF FoldOf
  <2> QED BY <2>2
<1>2. ASSUME NEW n \in Nat, n \in T PROVE n + 1 \in T
  <2>1. PICK f : FoldOf(f, lines, n)
    BY <1>2
  <2> DEFINE g == [m \in 0..n+1 |-> IF m <= n THEN f[m] ELSE ReplayLine(f[n], lines[n+1])]
  <2>2. f = [m \in 0..n |-> IF m = 0 THEN Start ELSE ReplayLine(f[m-1], lines[m])]
    BY <2>1 DEF FoldOf
  <2>3. ASSUME NEW m \in 0..n+1
        PROVE  g[m] = IF m = 0 THEN Start ELSE ReplayLine(g[m-1], lines[m])
    <3>1. CASE m = 0
      BY <2>2, <3>1
    <3>2. CASE m \in 1..n
      <4>1. g[m] = f[m] /\ g[m-1] = f[m-1] /\ m # 0
        BY <3>2
      <4>2. f[m] = ReplayLine(f[m-1], lines[m])
        BY <2>2, <3>2
      <4> QED BY <4>1, <4>2
    <3>3. CASE m = n + 1
      <4>1. g[m] = ReplayLine(f[n], lines[m]) /\ g[m-1] = f[n] /\ m # 0
        BY <3>3
      <4> QED BY <4>1
    <3> QED BY <3>1, <3>2, <3>3
  <2>4. g = [m \in 0..n+1 |-> IF m = 0 THEN Start ELSE ReplayLine(g[m-1], lines[m])]
    BY <2>3
  <2> HIDE DEF g
  <2>5. FoldOf(g, lines, n + 1)
    BY <2>4 DEF FoldOf
  <2> QED BY <2>5
<1> HIDE DEF T
<1>3. k \in T
  BY <1>1, <1>2, NaturalsByStep
<1> QED BY <1>3 DEF T

(* Folds go by their lines and by nothing else. *)
LEMMA FoldsAgree ==
  ASSUME NEW lines, NEW more, NEW k \in Nat, NEW f, NEW g, NEW j \in 0..k,
         FoldOf(f, lines, k), FoldOf(g, more, j), \A i \in 1..j : lines[i] = more[i]
  PROVE  f[j] = g[j]
<1> DEFINE T == {n \in Nat : n <= j => f[n] = g[n]}
<1>1. /\ f = [n \in 0..k |-> IF n = 0 THEN Start ELSE ReplayLine(f[n-1], lines[n])]
      /\ g = [n \in 0..j |-> IF n = 0 THEN Start ELSE ReplayLine(g[n-1], more[n])]
  BY DEF FoldOf
<1>2. 0 \in T
  <2>1. f[0] = Start
    BY <1>1
  <2>2. g[0] = Start
    BY <1>1
  <2> QED BY <2>1, <2>2
<1>3. ASSUME NEW n \in Nat, n \in T PROVE n + 1 \in T
  <2> SUFFICES ASSUME n + 1 <= j PROVE f[n+1] = g[n+1]
    OBVIOUS
  <2>1. n + 1 \in 1..j /\ n + 1 \in 0..j /\ n + 1 \in 0..k /\ n + 1 # 0 /\ (n + 1) - 1 = n
    OBVIOUS
  <2>2. f[n+1] = ReplayLine(f[n], lines[n+1])
    BY <1>1, <2>1
  <2>3. g[n+1] = ReplayLine(g[n], more[n+1])
    BY <1>1, <2>1
  <2> QED BY <1>3, <2>1, <2>2, <2>3
<1> HIDE DEF T
<1>4. j \in T
  BY <1>2, <1>3, NaturalsByStep
<1> QED BY <1>4 DEF T

LEMMA FoldLocal ==
  ASSUME NEW lines, NEW more, NEW k \in Nat, \A i \in 1..k : lines[i] = more[i]
  PROVE  Fold(lines, k) = Fold(more, k)
<1> DEFINE f == CHOOSE f : FoldOf(f, lines, k)
           g == CHOOSE g : FoldOf(g, more, k)
<1>1. FoldOf(f, lines, k)
  BY FoldExists, Zenon
<1>2. FoldOf(g, more, k)
  BY FoldExists, Zenon
<1>3. Fold(lines, k) = f[k] /\ Fold(more, k) = g[k]
  BY DEF Fold
<1> HIDE DEF f, g
<1>4. k \in 0..k
  OBVIOUS
<1>5. f[k] = g[k]
  BY ONLY <1>1, <1>2, <1>4, FoldsAgree, k \in Nat, \A i \in 1..k : lines[i] = more[i]
<1> QED BY <1>3, <1>5

(* The fold of no lines, and of one line more. *)
LEMMA FoldSteps ==
  ASSUME NEW lines
  PROVE  /\ Fold(lines, 0) = Start
         /\ \A k \in Nat : Fold(lines, k + 1) = ReplayLine(Fold(lines, k), lines[k+1])
<1>1. Fold(lines, 0) = Start
  <2> DEFINE f == CHOOSE f : FoldOf(f, lines, 0)
  <2>1. FoldOf(f, lines, 0)
    BY FoldExists, Zenon
  <2>2. Fold(lines, 0) = f[0]
    BY DEF Fold
  <2> HIDE DEF f
  <2> QED BY <2>1, <2>2 DEF FoldOf
<1>2. ASSUME NEW k \in Nat
      PROVE  Fold(lines, k + 1) = ReplayLine(Fold(lines, k), lines[k+1])
  <2> DEFINE f == CHOOSE f : FoldOf(f, lines, k)
             g == CHOOSE g : FoldOf(g, lines, k + 1)
  <2>1. FoldOf(f, lines, k)
    BY FoldExists, Zenon
  <2>2. FoldOf(g, lines, k + 1)
    <3>1. k + 1 \in Nat
      OBVIOUS
    <3> QED BY <3>1, FoldExists, Zenon
  <2>3. Fold(lines, k) = f[k] /\ Fold(lines, k + 1) = g[k+1]
    BY DEF Fold
  <2> HIDE DEF f, g
  <2>4. g[k] = f[k]
    <3>1. k + 1 \in Nat /\ k \in 0..k+1
      OBVIOUS
    <3> QED BY <2>1, <2>2, <3>1, FoldsAgree
  <2>5. g[k+1] = ReplayLine(g[k], lines[k+1])
    <3>1. g = [n \in 0..k+1 |-> IF n = 0 THEN Start ELSE ReplayLine(g[n-1], lines[n])]
      BY <2>2 DEF FoldOf
    <3>2. k + 1 \in 0..k+1 /\ k + 1 # 0 /\ (k + 1) - 1 = k
      OBVIOUS
    <3> QED BY <3>1, <3>2
  <2> QED BY <2>3, <2>4, <2>5
<1> QED BY <1>1, <1>2

(* ReplayFile is the fold of all lines. *)
LEMMA ReplayIsFold ==
  ASSUME NEW lines, Len(lines) \in Nat
  PROVE  ReplayFile(lines) = Fold(lines, Len(lines))
BY DEF ReplayFile, Fold, FoldOf, Start

(* A line is folded on a replay exactly as its event was live: what the log     *)
(* remembers of a grant beyond the event is nothing the rules look at.          *)
LEMMA LineAccepted ==
  ASSUME TypeOK, TokensCounted, NEW e \in Event, Commit(e)
  PROVE  ReplayLine([ok |-> TRUE, led |-> led], Line(e)) = [ok |-> TRUE, led |-> led']
<1>1. NewToken(led, e.caps) \in Nat /\ led.seq \in Nat /\ led.clock \in Nat
  BY CommitLog DEF TypeOK
<1>2. /\ Line(e).type = e.type /\ Line(e).caps = e.caps /\ Line(e).at = e.at
      /\ e.type = "lease.acquired" => Line(e).ttl = e.ttl
  BY <1>1, LineFields
<1>3. e.at \in Nat /\ e.at >= led.clock
  BY <1>1, EventFields DEF Commit, Regresses
<1>4. ReplayClock(led, Line(e)) = e.at
  BY <1>1, <1>2, <1>3 DEF ReplayClock
<1>5. CASE e.type # "lease.acquired"
  <2>1. Line(e) = e
    BY <1>5 DEF Line
  <2> QED BY <1>4, <2>1 DEF ReplayLine, Commit
<1>6. CASE e.type = "lease.acquired"
  <2> DEFINE l == Line(e)
  <2>0. l.type = "lease.acquired" /\ l.caps = e.caps /\ l.at = e.at /\ l.ttl = e.ttl
    BY <1>2, <1>6
  <2> HIDE DEF l
  <2>1. Accepts(led, l, e.at)
    BY <1>6, <2>0 DEF Commit, Accepts, MutationTypes
  <2>2. LeaseAfter(led, l, e.at) = LeaseAfter(led, e, e.at)
    BY <1>6, <2>0 DEF LeaseAfter
  <2>3. MaxTokenAfter(led, l) = MaxTokenAfter(led, e) /\ SeqAfter(led, l) = SeqAfter(led, e)
    BY <1>6, <2>0 DEF MaxTokenAfter, SeqAfter
  <2>4. PendingAfter(led, l) = PendingAfter(led, e)
    BY <1>6, <2>0 DEF PendingAfter
  <2>5. /\ BindingAfter(led, l) = BindingAfter(led, e)
        /\ ReplacedAfter(led, l) = ReplacedAfter(led, e)
        /\ TombstonedAfter(led, l) = TombstonedAfter(led, e)
        /\ ClaimedAfter(led, l) = ClaimedAfter(led, e)
    BY <1>6, <2>0 DEF BindingAfter, ReplacedAfter, TombstonedAfter, ClaimedAfter
  <2>6. DecidedAfter(led, l) = DecidedAfter(led, e)
    BY <1>6, <2>0 DEF DecidedAfter
  <2>7. Step(led, l, e.at) = Step(led, e, e.at)
    BY <2>0, <2>2, <2>3, <2>4, <2>5, <2>6 DEF Step
  <2>8. ReplayClock(led, l) = e.at
    BY <1>4 DEF l
  <2>9. led' = Step(led, e, e.at)
    BY DEF Commit
  <2>10. ReplayLine([ok |-> TRUE, led |-> led], l) = [ok |-> TRUE, led |-> led']
    BY <2>1, <2>7, <2>8, <2>9 DEF ReplayLine
  <2> QED BY <2>10 DEF l
<1> QED BY <1>5, <1>6

(* A file that was written under the rules replays, and to the state its         *)
(* writers worked from: checkRules at the writer's clock and at the clock of the *)
(* lines agree, because commitUnderLock refuses a clock that goes back.          *)
FoldInv == Fold(log, Len(log)) = [ok |-> TRUE, led |-> led]

LEMMA CommitFolds ==
  ASSUME TypeOK, TokensCounted, FoldInv, NEW e \in Event, Commit(e)
  PROVE  FoldInv' /\ \A k \in 0..Len(log) : Fold(log', k) = Fold(log, k)
<1> DEFINE N == Len(log)
<1>1. /\ N \in Nat /\ Len(log') = N + 1 /\ log'[N + 1] = Line(e)
      /\ \A i \in 1..N : log'[i] = log[i]
  BY CommitLog
<1> HIDE DEF N
<1>2. ASSUME NEW k \in 0..N PROVE Fold(log', k) = Fold(log, k)
  BY <1>1, FoldLocal
<1>3. Fold(log', N + 1) = ReplayLine(Fold(log', N), log'[N + 1])
  BY <1>1, FoldSteps
<1>4. Fold(log', N) = [ok |-> TRUE, led |-> led]
  BY <1>1, <1>2 DEF FoldInv, N
<1>5. ReplayLine([ok |-> TRUE, led |-> led], Line(e)) = [ok |-> TRUE, led |-> led']
  BY LineAccepted
<1>6. Fold(log', Len(log')) = [ok |-> TRUE, led |-> led']
  BY <1>1, <1>3, <1>4, <1>5
<1> QED BY <1>2, <1>6 DEF FoldInv, N

(* The replay of the file is its live state, whoever wrote it and when. *)
THEOREM ReplayAlwaysAgrees == Spec => []ReplayAgrees
<1>1. Init => FoldInv
  BY FoldSteps DEF Init, FoldInv, Start
<1>2. TokenInv /\ FoldInv /\ [Next]_vars => FoldInv'
  <2> SUFFICES ASSUME TokenInv, FoldInv, [Next]_vars PROVE FoldInv'
    OBVIOUS
  <2>1. CASE Next
    <3>1. PICK e \in Event : Commit(e)
      BY <2>1, NextCommits DEF TokenInv, TypeOK
    <3> QED BY <3>1, CommitFolds DEF TokenInv
  <2>2. CASE UNCHANGED vars
    BY <2>2 DEF vars, FoldInv
  <2> QED BY <2>1, <2>2
<1>3. TokenInv /\ FoldInv => ReplayAgrees
  BY ReplayIsFold DEF TokenInv, TypeOK, FoldInv, ReplayAgrees
<1> QED BY <1>1, <1>2, <1>3, TokenInvInductive, PTL DEF Spec
============================================================================

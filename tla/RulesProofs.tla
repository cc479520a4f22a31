---------------------------- MODULE RulesProofs -----------------------------
(***************************************************************************)
(* Lemmas about the rules of the fold that every proof over a ledger needs.*)
(***************************************************************************)
EXTENDS LedgerRules, WellFoundedInduction, TLAPS

(* A set of naturals that is not empty has a least member.                      *)
LEMMA LeastOf ==
  ASSUME NEW S \in SUBSET Nat, S # {}
  PROVE  \E m \in S : \A v \in S : m <= v
<1> DEFINE R == OpToRel(<, Nat)
<1>1. IsWellFoundedOn(R, Nat)
  BY NatLessThanWellFounded
<1>2. \A u, v \in Nat : u < v => <<u, v>> \in R
  BY DEF OpToRel
<1> HIDE DEF R
<1>3. PICK m \in S : \A v \in S : ~(<<v, m>> \in R)
  BY <1>1, WFMin
<1>4. ASSUME NEW v \in S PROVE m <= v
  <2>1. ~(v < m)
    BY <1>2, <1>3
  <2> QED BY <2>1
<1> QED BY <1>4

(* A set of naturals that holds zero and every successor of its members holds   *)
(* them all: induction, for the set of those a statement is true of.            *)
LEMMA NaturalsByStep ==
  ASSUME NEW T, 0 \in T, \A n \in Nat : n \in T => n + 1 \in T
  PROVE  \A n \in Nat : n \in T
<1> DEFINE Missing == Nat \ T
<1>1. SUFFICES ASSUME Missing # {} PROVE FALSE
  OBVIOUS
<1>2. PICK u \in Missing : \A v \in Missing : u <= v
  <2>1. Missing \in SUBSET Nat
    OBVIOUS
  <2> HIDE DEF Missing
  <2> QED BY <1>1, <2>1, LeastOf
<1>3. u \in Nat /\ u # 0 /\ u - 1 \in Nat
  OBVIOUS
<1>4. u - 1 \in T
  BY <1>2, <1>3
<1> QED BY <1>3, <1>4

(* A bounded family of naturals over a non-empty set has a greatest member.     *)
LEMMA MaxExists ==
  ASSUME NEW C, C # {}, NEW f \in [C -> Nat],
         NEW B \in Nat, \A c \in C : f[c] <= B
  PROVE  \E c \in C : \A d \in C : f[d] <= f[c]
<1> DEFINE T == {n \in Nat : \A c \in C : f[c] <= n}
           R == OpToRel(<, Nat)
<1>1. T \subseteq Nat /\ T # {}
  OBVIOUS
<1>2. PICK u \in T : \A v \in T : ~(<<v, u>> \in R)
  <2>1. IsWellFoundedOn(R, Nat)
    BY NatLessThanWellFounded
  <2> HIDE DEF T, R
  <2> QED BY <1>1, <2>1, WFMin
<1>3. \A v \in T : u <= v
  <2>1. \A m, n \in Nat : m < n => <<m, n>> \in R
    BY DEF OpToRel
  <2> SUFFICES ASSUME NEW v \in T PROVE u <= v
    OBVIOUS
  <2>2. u \in Nat /\ v \in Nat
    BY <1>1
  <2>3. ~(v < u)
    <3> HIDE DEF T, R
    <3> QED BY <1>2, <2>1, <2>2, Zenon
  <2> QED BY <2>2, <2>3
<1>4. SUFFICES ASSUME \A c \in C : f[c] # u
               PROVE  FALSE
  BY <1>3
<1>5. u - 1 \in T
  BY <1>3, <1>4
<1> QED BY <1>3, <1>5

(* The token of a new lease is above every token its capabilities have seen     *)
(* (lease.acquired in checkRules), and at most one above the number of grants.  *)
LEMMA TokenAbove ==
  ASSUME NEW l, l.maxToken \in [Cap -> Nat], l.seq \in Nat,
         \A c \in Cap : l.maxToken[c] <= l.seq,
         NEW caps \in SUBSET Cap, caps # {}
  PROVE  /\ NewToken(l, caps) \in Nat
         /\ \A c \in caps : l.maxToken[c] < NewToken(l, caps)
         /\ NewToken(l, caps) <= l.seq + 1
<1> DEFINE f == [c \in caps |-> l.maxToken[c]]
           S == {l.maxToken[c] : c \in caps}
<1>1. f \in [caps -> Nat] /\ \A c \in caps : f[c] <= l.seq
  OBVIOUS
<1>2. \E c \in caps : \A d \in caps : f[d] <= f[c]
  <2> HIDE DEF f
  <2> QED BY <1>1, MaxExists
<1>3. \E t \in S : \A c \in caps : l.maxToken[c] <= t
  BY <1>2
<1>4. TopToken(l, caps) \in S /\ \A c \in caps : l.maxToken[c] <= TopToken(l, caps)
  BY <1>3 DEF TopToken
<1> QED BY <1>4 DEF NewToken
=============================================================================

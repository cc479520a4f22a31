------------------------------ MODULE MCEvidence ------------------------------
(* Instances of Evidence for TLC.                                          *)
EXTENDS Evidence, TLC

CONSTANTS o1, a1, a2

OneObserver == {o1}
TwoAuditors == {a1, a2}
AllBases == {<<"provider-api", "measured">>, <<"provider-api", "config-intent">>,
             <<"probe", "measured">>, <<"candidate-declared", "intent">>}
Lifetimes == [s \in Sources |-> IF s = "candidate-declared" THEN 3 ELSE 1]
===============================================================================

------------------------------ MODULE MCConverge ------------------------------
(* Instances of Converge for TLC.                                          *)
EXTENDS Converge, TLC

CONSTANTS db, old, a, b, nobody

TwoCaps == {db, old}
OneRun == {a}
TwoRuns == {a, b}
OnlyOld == {old}
OnlyDb == {db}
None == {}
TwoDrifts == {"update", "blocked"}
===============================================================================

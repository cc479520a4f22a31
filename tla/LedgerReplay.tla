---------------------------- MODULE LedgerReplay ----------------------------
(***************************************************************************)
(* ReplayFile (internal/ledger/replay.go) over files of module Ledger:    *)
(* the fold from the empty ledger, line by line, with the clock of the     *)
(* rules taken from the lines instead of from the writer.                  *)
(***************************************************************************)
EXTENDS Ledger

(* The clock the rules see on a replay never goes back, whatever a line says. *)
ReplayClock(state, e) == IF e.at > state.clock THEN e.at ELSE state.clock

(* One line: a line the rules refuse makes the whole file unreadable. *)
ReplayLine(state, e) ==
  [ok  |-> state.ok /\ Accepts(state.led, e, ReplayClock(state.led, e)),
   led |-> Step(state.led, e, ReplayClock(state.led, e))]

(* ReplayFile, by recursion on the number of lines read. *)
ReplayFile(lines) ==
  LET upTo[n \in 0..Len(lines)] ==
        IF n = 0 THEN [ok |-> TRUE, led |-> EmptyLedger]
        ELSE ReplayLine(upTo[n-1], lines[n])
  IN  upTo[Len(lines)]

(* A line that was accepted live is accepted for ever: a live append evaluates    *)
(* the rules at the writer's clock and a replay at the clock of the lines, and    *)
(* were they to disagree once, every later verb would refuse the file as corrupt. *)
(* The replay also rebuilds the very state the writers worked from.               *)
ReplayAgrees == ReplayFile(log) = [ok |-> TRUE, led |-> led]
============================================================================

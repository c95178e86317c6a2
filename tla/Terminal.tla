-------------------------------- MODULE Terminal -------------------------------
(***************************************************************************)
(* What a Ui has on the terminal (capulus/src/progress.rs).                *)
(*                                                                         *)
(* Lines go to stderr.  An interactive Ui also draws bars, in a target     *)
(* that is hidden while any thread has handed the terminal to an           *)
(* operation; the hand-overs are counted.                                  *)
(***************************************************************************)
EXTENDS Naturals, Sequences

CONSTANTS
  Threads,  \* the threads that use the Ui
  MaxDepth  \* how deep a thread nests the operations that it suspends for

ASSUME TerminalAssumption == "nobody" \notin Threads

VARIABLES
  displayMode,  \* how progress is shown: "interactive", "plain" or "off"
  lines,        \* the lines on stderr
  broken,       \* nobody reads stderr any more: a write to it panics
  target,       \* the draw target of the bars, "terminal" or "hidden"
  depth,        \* how many operations have been handed the terminal
  nested,       \* nested[t]: how many of them by thread t
  busy          \* the thread that has the suspension lock, or "nobody"

terminal == <<displayMode, lines, broken, target, depth, nested, busy>>

(* validate_for: the mode that is asked for and whether stderr is a        *)
(* terminal.                                                               *)
Resolved(asked, stderr) ==
  CASE asked = "auto"        -> IF stderr THEN "interactive" ELSE "plain"
    [] asked = "interactive" -> IF stderr THEN "interactive" ELSE "refused"
    [] OTHER                 -> asked

TerminalInit ==
  /\ \E asked \in {"auto", "interactive", "plain", "off"}, stderr \in BOOLEAN :
       displayMode = Resolved(asked, stderr)
  /\ displayMode # "refused"
  /\ lines = <<>>
  /\ broken = FALSE
  /\ target = "terminal"
  /\ depth = 0
  /\ nested = [t \in Threads |-> 0]
  /\ busy = "nobody"

(* Ui::write_line: a line is written whether or not bars are hidden.       *)
WriteLines(new) == lines' = lines \o new

--------------------------------------------------------------------------------
(* Ui::suspend *)

(* The thread takes the suspension lock and clears the bars.               *)
Suspend(t) ==
  /\ displayMode = "interactive" /\ busy = "nobody" /\ nested[t] < MaxDepth
  /\ busy' = t
  /\ UNCHANGED <<displayMode, lines, broken, target, depth, nested>>

Hide(t) ==
  /\ busy = t
  /\ target' = IF depth = 0 THEN "hidden" ELSE target
  /\ depth' = depth + 1
  /\ nested' = [nested EXCEPT ![t] = @ + 1]
  /\ busy' = "nobody"
  /\ UNCHANGED <<displayMode, lines, broken>>

\* mutant: whoever is done shows the bars again
RestoreAlways(t) ==
  /\ busy = "nobody" /\ nested[t] > 0
  /\ depth' = depth - 1
  /\ nested' = [nested EXCEPT ![t] = @ - 1]
  /\ target' = "terminal"
  /\ UNCHANGED <<displayMode, lines, broken, busy>>

(* RestoreProgress::drop, when the operation returns or panics.            *)
Restore(t) ==
  /\ busy = "nobody" /\ nested[t] > 0
  /\ depth' = depth - 1
  /\ nested' = [nested EXCEPT ![t] = @ - 1]
  /\ target' = IF depth = 1 THEN "terminal" ELSE target
  /\ UNCHANGED <<displayMode, lines, broken, busy>>

BreakStderr ==
  /\ ~broken
  /\ broken' = TRUE
  /\ UNCHANGED <<displayMode, lines, target, depth, nested, busy>>

================================================================================

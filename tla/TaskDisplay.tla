------------------------------- MODULE TaskDisplay -----------------------------
(***************************************************************************)
(* A task and the thread that renders it (capulus/src/progress.rs, Task).  *)
(*                                                                         *)
(* The owner changes the state of the task under a mutex; the renderer     *)
(* sleeps on a condition variable until there is something to show, and    *)
(* the completion joins it.  A panic of the renderer with the mutex        *)
(* poisons it, and the owner cannot even drop its task after that.         *)
(***************************************************************************)
EXTENDS Terminal

CONSTANTS
  MaxPhases,     \* how many phases the owner sets
  MaxHeartbeats, \* how many times the renderer reports that it still waits
  Total          \* the total of the counter

VARIABLES
  owner,      \* what the owner of the task does
  asked,      \* the outcome that it completes the task with
  outcome,    \* the outcome of the task
  phase,      \* phase_revision, and the number of the phase that is set
  position,   \* how far the counter is
  renderer,   \* what the renderer does
  shown,      \* the revision that it has shown
  heartbeats, \* how often it has reported that it waits
  bar,        \* the bar: "none", "attached" or "cleared"
  poisoned    \* the renderer panicked with the mutex of the task

task == <<owner, asked, outcome, phase, position, renderer, shown, heartbeats, bar, poisoned>>

Outcomes == {"success", "failure", "abandoned", "clear"}

TaskLine(kind) == [from |-> "task", kind |-> kind, phase |-> phase]

TaskInit ==
  /\ owner = "idle"
  /\ asked = "none"
  /\ outcome = "none"
  /\ phase = 0
  /\ position = 0
  /\ renderer = "none"
  /\ shown = 0
  /\ heartbeats = 0
  /\ bar = "none"
  /\ poisoned = FALSE

--------------------------------------------------------------------------------
(* The owner *)

(* Ui::task                                                                *)
StartTask ==
  /\ owner = "idle"
  /\ owner' = "working"
  /\ renderer' = IF displayMode = "off" THEN "none" ELSE "waiting"
  /\ UNCHANGED <<asked, outcome, phase, position, shown, heartbeats, bar, poisoned, terminal>>

SetPhase ==
  /\ owner = "working" /\ ~poisoned /\ phase < MaxPhases
  /\ phase' = phase + 1
  /\ UNCHANGED <<owner, asked, outcome, position, renderer, shown, heartbeats, bar, poisoned, terminal>>

(* set_position and inc end at the total.                                  *)
Advance ==
  /\ owner = "working" /\ ~poisoned
  /\ \E delta \in 1..(Total + 1) :
       position' = IF position + delta > Total THEN Total ELSE position + delta
  /\ UNCHANGED <<owner, asked, outcome, phase, renderer, shown, heartbeats, bar, poisoned, terminal>>

(* finish, fail, abandon, finish_and_clear, the end of Ui::run, or a drop  *)
Complete ==
  /\ owner = "working" /\ ~poisoned
  /\ \E o \in Outcomes : asked' = o
  /\ owner' = "completing"
  /\ UNCHANGED <<outcome, phase, position, renderer, shown, heartbeats, bar, poisoned, terminal>>

\* mutant: a task that is dropped is left to its renderer
SetOutcomeUnlessDropped ==
  /\ owner = "completing" /\ ~poisoned
  /\ outcome' = IF asked = "clear" THEN outcome ELSE asked
  /\ owner' = "joining"
  /\ UNCHANGED <<asked, phase, position, renderer, shown, heartbeats, bar, poisoned, terminal>>

SetOutcome ==
  /\ owner = "completing" /\ ~poisoned
  /\ outcome' = IF outcome = "none" THEN asked ELSE outcome
  /\ owner' = "joining"
  /\ UNCHANGED <<asked, phase, position, renderer, shown, heartbeats, bar, poisoned, terminal>>

(* join_renderer, and the drop after it, which finds an outcome            *)
Join ==
  /\ owner = "joining" /\ renderer \in {"none", "done", "dead"} /\ ~poisoned
  /\ owner' = "returned"
  /\ UNCHANGED <<asked, outcome, phase, position, renderer, shown, heartbeats, bar, poisoned, terminal>>

(* Every use of a poisoned mutex panics, the one in Task::drop too: a      *)
(* panic within a panic ends the process.                                  *)
AbortTask ==
  /\ owner \in {"working", "completing"} \/ (owner = "joining" /\ renderer = "dead")
  /\ poisoned
  /\ owner' = "aborted"
  /\ UNCHANGED <<asked, outcome, phase, position, renderer, shown, heartbeats, bar, poisoned, terminal>>

--------------------------------------------------------------------------------
(* The renderer *)

Renders(new, next, locked) ==
  IF broken /\ new # <<>>
  THEN /\ renderer' = "dead"
       /\ poisoned' = (poisoned \/ locked)
       /\ UNCHANGED lines
  ELSE /\ renderer' = next
       /\ WriteLines(new)
       /\ UNCHANGED poisoned

OutcomeLines(cleared) ==
  IF outcome = "clear" THEN cleared ELSE <<TaskLine(outcome)>>

Quiet == UNCHANGED <<owner, asked, outcome, phase, position, displayMode, broken, target, depth, nested, busy>>

(* wait_until_visible_or_complete: the task has an outcome, or the delay   *)
(* is over.  The mutex is free before the next step.                       *)
Appear ==
  /\ renderer = "waiting"
  /\ renderer' = IF outcome # "none" THEN "fast" ELSE "slow"
  /\ UNCHANGED <<shown, heartbeats, bar, poisoned, lines>> /\ Quiet

(* render_fast_completion, and the same in the interactive renderer        *)
RenderFast ==
  /\ renderer = "fast"
  /\ Renders(OutcomeLines(<<>>), "done", TRUE)
  /\ UNCHANGED <<shown, heartbeats, bar>> /\ Quiet

(* The plain renderer keeps the mutex until it waits: what is done before  *)
(* its first wait is in its first line, and an outcome is not missed.      *)
PlainStart ==
  /\ renderer = "slow" /\ displayMode = "plain"
  /\ IF outcome = "none"
     THEN Renders(<<TaskLine("start")>>, "asleep", TRUE)
     ELSE Renders(<<TaskLine("start")>> \o OutcomeLines(<<TaskLine("clear")>>), "done", TRUE)
  /\ shown' = phase
  /\ UNCHANGED <<heartbeats, bar>> /\ Quiet

\* mutant: a phase that was set just before the outcome is not reported
PlainWakeForOutcome ==
  /\ renderer = "asleep"
  /\ \/ outcome # "none" /\ Renders(OutcomeLines(<<TaskLine("clear")>>), "done", TRUE)
     \/ outcome = "none" /\ phase # shown /\ Renders(<<TaskLine("phase")>>, "asleep", TRUE)
  /\ shown' = phase
  /\ UNCHANGED <<heartbeats, bar>> /\ Quiet

PlainWake ==
  /\ renderer = "asleep"
  /\ LET news   == IF phase # shown THEN <<TaskLine("phase")>> ELSE <<>>
         ending == IF outcome = "none" THEN <<>> ELSE OutcomeLines(<<TaskLine("clear")>>)
     IN  /\ news \o ending # <<>>
         /\ Renders(news \o ending, IF outcome = "none" THEN "asleep" ELSE "done", TRUE)
  /\ shown' = phase
  /\ UNCHANGED <<heartbeats, bar>> /\ Quiet

Heartbeat ==
  /\ renderer = "asleep" /\ phase = shown /\ heartbeats < MaxHeartbeats
  /\ LET ending == IF outcome = "none" THEN <<>> ELSE OutcomeLines(<<TaskLine("clear")>>)
     IN  Renders(<<TaskLine("wait")>> \o ending,
                 IF outcome = "none" THEN "asleep" ELSE "done", TRUE)
  /\ heartbeats' = heartbeats + 1
  /\ UNCHANGED <<shown, bar>> /\ Quiet

InteractiveStart ==
  /\ renderer = "slow" /\ displayMode = "interactive"
  /\ bar' = "attached"
  /\ renderer' = "drawing"
  /\ shown' = phase
  /\ UNCHANGED <<heartbeats, poisoned, lines>> /\ Quiet

(* The state is drawn, and once there is an outcome the bar is cleared,    *)
(* without the mutex, before the line of the outcome.                      *)
InteractiveDraw ==
  /\ renderer = "drawing"
  /\ phase # shown \/ outcome # "none"
  /\ shown' = phase
  /\ renderer' = IF outcome = "none" THEN "drawing" ELSE "finishing"
  /\ UNCHANGED <<heartbeats, bar, poisoned, lines>> /\ Quiet

InteractiveClear ==
  /\ renderer = "finishing" /\ bar = "attached"
  /\ bar' = "cleared"
  /\ UNCHANGED <<renderer, shown, heartbeats, poisoned, lines>> /\ Quiet

InteractiveOutcome ==
  /\ renderer = "finishing" /\ bar = "cleared"
  /\ Renders(OutcomeLines(<<>>), "done", FALSE)
  /\ UNCHANGED <<shown, heartbeats, bar>> /\ Quiet

Owner == StartTask \/ SetPhase \/ Advance \/ Complete \/ SetOutcome \/ Join \/ AbortTask

Renderer ==
  \/ Appear \/ RenderFast \/ PlainStart \/ PlainWake \/ Heartbeat
  \/ InteractiveStart \/ InteractiveDraw \/ InteractiveClear \/ InteractiveOutcome

================================================================================

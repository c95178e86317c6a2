-------------------------------- MODULE Progress -------------------------------
(***************************************************************************)
(* The progress display of a command (capulus/src/progress.rs): a task or  *)
(* a group of live rows, beside threads that hand the terminal to          *)
(* operations.                                                             *)
(***************************************************************************)
EXTENDS TaskDisplay, LiveDisplay

VARIABLES subject  \* what the command shows, "task" or "rows"

progressVars == <<subject, terminal, task, live>>

ProgressInit ==
  /\ subject \in {"task", "rows"}
  /\ TerminalInit /\ TaskInit /\ LiveInit

(* The rows have nothing to do with the target: hand-overs are taken with  *)
(* the task, whose renderer attaches and clears a bar meanwhile.           *)
Handover ==
  /\ subject = "task"
  /\ \E t \in Threads : Suspend(t) \/ Hide(t) \/ Restore(t)
  /\ UNCHANGED <<subject, task, live>>

OwnerStep == subject = "task" /\ Owner /\ UNCHANGED <<subject, live>>

RendererStep == owner # "aborted" /\ Renderer /\ UNCHANGED <<subject, live>>

LiveStep ==
  /\ subject = "rows"
  /\ Group \/ \E t \in Threads : Row(t)
  /\ UNCHANGED <<subject, task>>

(* The reader of stderr goes away.                                         *)
Break == subject = "task" /\ BreakStderr /\ UNCHANGED <<subject, task, live>>

ProgressNext == Handover \/ OwnerStep \/ RendererStep \/ LiveStep \/ Break

ProgressSpec == ProgressInit /\ [][ProgressNext]_progressVars

(* The renderer runs, and so does the owner once it completes its task.    *)
FairProgressSpec ==
  /\ ProgressSpec
  /\ WF_progressVars(RendererStep)
  /\ WF_progressVars(/\ subject = "task"
                     /\ SetOutcome \/ Join \/ AbortTask
                     /\ UNCHANGED <<subject, live>>)

--------------------------------------------------------------------------------
(* Properties *)

Told(kinds) == {i \in DOMAIN lines : lines[i].kind \in kinds}

(* What is left on stderr tells how a task went: a line for its beginning  *)
(* unless it was over at once, the last phase that was set, and at the end *)
(* its outcome, once; when the completion returns it is there.             *)
TaskIsTold ==
  subject = "task" =>
    /\ \A i \in Told(Outcomes) : i = Len(lines) /\ lines[i].kind = outcome
    /\ \A i \in Told(Outcomes) : i > 1 => lines[i - 1].phase = phase
    /\ \A i \in Told({"start"}) : i = 1
    /\ \A i \in Told({"phase", "wait"}) : i > 1
    /\ \A i \in Told({"phase"}) : lines[i].phase > lines[i - 1].phase
    /\ (owner = "returned" /\ ~broken /\ displayMode # "off" /\ asked # "clear") => Told(Outcomes) # {}

(* A row says nothing after its outcome, whoever still talks to it.        *)
RowIsTold ==
  \A i, j \in DOMAIN lines :
    i < j /\ lines[i].from = "row" /\ lines[i].kind = "outcome" => lines[j].from # "row"

TranscriptsAreWhole == TaskIsTold /\ RowIsTold

(* The bars are hidden just while some thread has handed the terminal on,  *)
(* however the hand-overs of the threads nest and overlap.                 *)
HiddenWhileSuspended ==
  busy = "nobody" => (target = "hidden" <=> \E t \in Threads : nested[t] > 0)

(* Completing a task returns, unless stderr was closed under its renderer. *)
CompletionsReturn ==
  owner = "completing" ~> (owner = "returned" \/ (owner = "aborted" /\ broken))
================================================================================

----------------------------- MODULE LibraryProofs -----------------------------
(***************************************************************************)
(* Theorems about the two parts of capulus that any of its commands uses:  *)
(* the display (Progress, whose specification is ProgressSpec) and the     *)
(* execution of another program (Subprocess, whose specification is Spec). *)
(***************************************************************************)
EXTENDS Progress, Subprocess, FiniteSetTheorems, SequenceTheorems, TLAPS

--------------------------------------------------------------------------------
(* The display: hand-overs. *)

(* One pair for every operation that a thread has handed the terminal to.  *)
Operations == {w \in Threads \X Nat : w[2] < nested[w[1]]}

(* The counter counts these, and the bars are hidden while there are any.  *)
HandoverInv ==
  /\ nested \in [Threads -> Nat]
  /\ busy \in Threads \union {"nobody"}
  /\ target \in {"terminal", "hidden"}
  /\ IsFiniteSet(Operations)
  /\ depth = Cardinality(Operations)
  /\ target = "hidden" <=> depth > 0

LEMMA InitHandover ==
  ASSUME ProgressInit
  PROVE  HandoverInv
<1>1. Operations = {}
  BY DEF ProgressInit, TerminalInit, Operations
<1> QED
  BY <1>1, FS_EmptySet DEF ProgressInit, TerminalInit, HandoverInv

LEMMA HideStep ==
  ASSUME HandoverInv, NEW t \in Threads, Hide(t)
  PROVE  HandoverInv'
<1> USE DEF HandoverInv
<1>1. nested' = [nested EXCEPT ![t] = @ + 1] /\ nested[t] \in Nat /\ busy' = "nobody"
  BY DEF Hide
<1>2. Operations' = Operations \union {<<t, nested[t]>>} /\ <<t, nested[t]>> \notin Operations
  BY <1>1 DEF Operations
<1>3. depth \in Nat /\ depth' = depth + 1 /\ target' = IF depth = 0 THEN "hidden" ELSE target
  BY FS_CardinalityType DEF Hide
<1> HIDE DEF Operations
<1>4. IsFiniteSet(Operations') /\ Cardinality(Operations') = Cardinality(Operations) + 1
  BY <1>2, FS_AddElement
<1> QED
  BY <1>1, <1>3, <1>4

LEMMA RestoreStep ==
  ASSUME HandoverInv, NEW t \in Threads, Restore(t)
  PROVE  HandoverInv'
<1> USE DEF HandoverInv
<1>1. nested' = [nested EXCEPT ![t] = @ - 1] /\ nested[t] \in Nat \ {0} /\ UNCHANGED busy
  BY DEF Restore
<1>2. Operations' = Operations \ {<<t, nested[t] - 1>>} /\ <<t, nested[t] - 1>> \in Operations
  BY <1>1 DEF Operations
<1>3. depth \in Nat /\ depth' = depth - 1 /\ target' = IF depth = 1 THEN "terminal" ELSE target
  BY FS_CardinalityType DEF Restore
<1> HIDE DEF Operations
<1>4. IsFiniteSet(Operations') /\ Cardinality(Operations') = Cardinality(Operations) - 1
  BY <1>2, FS_RemoveElement
<1>5. depth > 0
  BY <1>2, <1>3, FS_EmptySet
<1> QED
  BY <1>1, <1>3, <1>4, <1>5

(* Neither a task nor rows have anything to do with the hand-overs.        *)
LEMMA NoHandover ==
  ASSUME ProgressNext
  PROVE  Handover \/ UNCHANGED <<target, depth, nested, busy>>
<1>1. CASE OwnerStep
  BY <1>1 DEF OwnerStep, Owner, StartTask, SetPhase, Advance, Complete, SetOutcome, Join, AbortTask, terminal
<1>2. CASE RendererStep
  BY <1>2 DEF RendererStep, Renderer, Appear, RenderFast, PlainStart, PlainWake, Heartbeat,
              InteractiveStart, InteractiveDraw, InteractiveClear, InteractiveOutcome, Quiet
<1>3. CASE LiveStep
  <2>1. CASE Group
    BY <2>1 DEF Group, NewGroup, CreateRow, Summarize, FinishGroup, Silent
  <2>2. CASE \E t \in Threads : Row(t)
    BY <2>2 DEF Row, SetMessage, CheckDetail, SetDetail, SwapFinished, TakeBar, Report, DropRow,
                GiveUpRow, Silent
  <2> QED
    BY <1>3, <2>1, <2>2 DEF LiveStep
<1>4. CASE Break
  BY <1>4 DEF Break, BreakStderr
<1> QED
  BY <1>1, <1>2, <1>3, <1>4 DEF ProgressNext

LEMMA HandoverStep ==
  ASSUME HandoverInv, [ProgressNext]_progressVars
  PROVE  HandoverInv'
<1>1. CASE UNCHANGED <<target, depth, nested, busy>>
  BY <1>1 DEF HandoverInv, Operations
<1>2. CASE Handover
  <2>1. ASSUME NEW t \in Threads, Suspend(t) PROVE HandoverInv'
    BY <2>1 DEF Suspend, HandoverInv, Operations
  <2> QED
    BY <1>2, <2>1, HideStep, RestoreStep DEF Handover
<1>3. CASE UNCHANGED progressVars
  BY <1>1, <1>3 DEF progressVars, terminal
<1> QED
  BY <1>1, <1>2, <1>3, NoHandover

(* The bars are hidden just while some thread has handed the terminal on,  *)
(* for any number of threads and however deep each of them nests: the      *)
(* count of Ui::suspend never differs from what the threads have open.     *)
THEOREM BarsAreHidden ==
  ProgressSpec => []HiddenWhileSuspended
<1>1. ASSUME HandoverInv PROVE HiddenWhileSuspended
  <2>1. depth \in Nat /\ (depth = 0 <=> Operations = {})
    BY <1>1, FS_CardinalityType, FS_EmptySet DEF HandoverInv
  <2>2. Operations = {} <=> \A t \in Threads : ~(nested[t] > 0)
    <3>1. ASSUME NEW t \in Threads, nested[t] > 0 PROVE Operations # {}
      <4>1. <<t, 0>> \in Operations
        BY <1>1, <3>1 DEF HandoverInv, Operations
      <4> QED
        BY <4>1
    <3>2. ASSUME NEW w \in Operations PROVE \E t \in Threads : nested[t] > 0
      BY <1>1, <3>2 DEF HandoverInv, Operations
    <3> QED
      BY <3>1, <3>2
  <2> QED
    BY <1>1, <2>1, <2>2 DEF HiddenWhileSuspended, HandoverInv
<1>2. ProgressInit => HandoverInv
  BY InitHandover
<1>3. HandoverInv /\ [ProgressNext]_progressVars => HandoverInv'
  BY HandoverStep
<1> QED
  BY <1>1, <1>2, <1>3, PTL DEF ProgressSpec

--------------------------------------------------------------------------------
(* The display: what a task leaves on stderr. *)

TaskLines == [from : {"task"}, kind : Outcomes \union {"start", "phase", "wait"}, phase : Nat]

(* A transcript of a task that goes on: it begins with a start, tells of   *)
(* later and later phases, and is at phase p.                              *)
Open(told, p) ==
  /\ told \in Seq(TaskLines)
  /\ \A i \in 1..Len(told) :
       /\ told[i].kind \notin Outcomes
       /\ told[i].kind = "start" <=> i = 1
       /\ told[i].kind = "phase" => told[i].phase > told[i - 1].phase
  /\ told # <<>> => told[Len(told)].phase = p

(* One that ends with the outcome o, and tells of phase p before it.       *)
ToldEnd(told, p, o) ==
  /\ told \in Seq(TaskLines) /\ told # <<>>
  /\ told[Len(told)].kind = o
  /\ Len(told) > 1 => told[Len(told) - 1].phase = p
  /\ \A i \in 1..(Len(told) - 1) :
       /\ told[i].kind \notin Outcomes
       /\ told[i].kind = "start" <=> i = 1
       /\ told[i].kind = "phase" => told[i].phase > told[i - 1].phase

LEMMA NothingTold ==
  ASSUME NEW p
  PROVE  Open(<<>>, p)
BY DEF Open

LEMMA MoreTold ==
  ASSUME NEW told, NEW p \in Nat, Open(told, p), NEW line \in TaskLines,
         line.kind \notin Outcomes,
         line.kind = "start" <=> told = <<>>,
         line.kind = "phase" => line.phase > p
  PROVE  Open(told \o <<line>>, line.phase) /\ told \o <<line>> # <<>>
<1> DEFINE all == told \o <<line>>
<1>1. told \in Seq(TaskLines) /\ Len(told) \in Nat
  BY DEF Open
<1>2. /\ all \in Seq(TaskLines) /\ Len(all) = Len(told) + 1
      /\ all[Len(told) + 1] = line
      /\ \A i \in 1..Len(told) : all[i] = told[i]
  BY <1>1
<1> HIDE DEF all
<1>3. ASSUME NEW i \in 1..Len(all)
      PROVE  /\ all[i].kind \notin Outcomes
             /\ all[i].kind = "start" <=> i = 1
             /\ all[i].kind = "phase" => all[i].phase > all[i - 1].phase
  <2>1. CASE i \in 1..Len(told)
    <3>1. all[i] = told[i] /\ (i > 1 => all[i - 1] = told[i - 1])
      BY <1>1, <1>2, <2>1
    <3>2. told[i].kind = "start" <=> i = 1
      BY <2>1 DEF Open
    <3> QED
      BY <2>1, <3>1, <3>2 DEF Open
  <2>2. CASE i = Len(told) + 1
    <3>1. told = <<>> <=> Len(told) = 0
      BY <1>1, EmptySeq
    <3>2. Len(told) > 0 => all[i - 1].phase = p
      BY <1>1, <1>2, <2>2, <3>1 DEF Open
    <3> QED
      BY <1>1, <1>2, <2>2, <3>1, <3>2
  <2> QED
    BY <1>1, <1>2, <2>1, <2>2
<1>4. all # <<>>
  BY <1>1, <1>2
<1> QED
  BY <1>1, <1>2, <1>3, <1>4 DEF Open, all

LEMMA EndTold ==
  ASSUME NEW told, NEW p \in Nat, Open(told, p), NEW line \in TaskLines, line.kind \in Outcomes
  PROVE  ToldEnd(told \o <<line>>, p, line.kind)
<1> DEFINE all == told \o <<line>>
<1>1. told \in Seq(TaskLines) /\ Len(told) \in Nat
  BY DEF Open
<1>2. /\ all \in Seq(TaskLines) /\ Len(all) = Len(told) + 1
      /\ all[Len(told) + 1] = line
      /\ \A i \in 1..Len(told) : all[i] = told[i]
  BY <1>1
<1> HIDE DEF all
<1>3. ASSUME NEW i \in 1..Len(told)
      PROVE  /\ all[i].kind \notin Outcomes
             /\ all[i].kind = "start" <=> i = 1
             /\ all[i].kind = "phase" => all[i].phase > all[i - 1].phase
  <2>1. all[i] = told[i] /\ (i > 1 => all[i - 1] = told[i - 1])
    BY <1>1, <1>2
  <2>2. told[i].kind = "start" <=> i = 1
    BY DEF Open
  <2> QED
    BY <2>1, <2>2 DEF Open
<1>4. all # <<>> /\ (Len(all) > 1 => all[Len(all) - 1].phase = p)
  <2>1. Len(told) > 0 => told # <<>> /\ all[Len(told)] = told[Len(told)]
    BY <1>1, <1>2
  <2> QED
    BY <1>1, <1>2, <2>1 DEF Open
<1> QED
  BY <1>1, <1>2, <1>3, <1>4 DEF ToldEnd, all

(* Where the renderer has not told anything yet.                           *)
Silently == {"none", "waiting", "fast", "slow", "drawing", "finishing"}

(* How far the owner is, and the renderer with respect to it.              *)
RunInv ==
  /\ displayMode \in {"interactive", "plain", "off"}
  /\ phase \in Nat /\ shown \in Nat /\ shown <= phase
  /\ owner \in {"idle", "working", "completing", "joining", "returned", "aborted"}
  /\ renderer \in Silently \union {"asleep", "done", "dead"}
  /\ outcome \in Outcomes \union {"none"}
  /\ owner \in {"completing", "joining", "returned"} => asked \in Outcomes
  /\ owner \in {"idle", "working", "completing"} => outcome = "none"
  /\ owner \in {"joining", "returned"} => outcome = asked
  /\ owner = "idle" => renderer = "none"
  /\ owner = "returned" => renderer \in {"none", "done", "dead"}
  /\ renderer = "none" => owner = "idle" \/ displayMode = "off"
  /\ renderer \in {"fast", "finishing", "done"} => outcome # "none"
  /\ renderer = "dead" => broken

(* What the renderer has told, by what it does next.                       *)
TellInv ==
  /\ renderer \in Silently => lines = <<>>
  /\ renderer = "asleep" => Open(lines, shown) /\ lines # <<>>
  /\ renderer = "dead" => \E p \in Nat : Open(lines, p)
  /\ renderer = "done" => ToldEnd(lines, phase, outcome) \/ (outcome = "clear" /\ lines = <<>>)

TaskInv ==
  /\ subject \in {"task", "rows"}
  /\ subject = "task" => RunInv /\ TellInv
  /\ subject = "rows" => renderer = "none"

LEMMA InitTask ==
  ASSUME ProgressInit
  PROVE  TaskInv
<1>1. displayMode \in {"interactive", "plain", "off"}
  BY DEF ProgressInit, TerminalInit, Resolved
<1>2. RunInv
  <2>1. owner = "idle" /\ outcome = "none" /\ renderer = "none" /\ phase = 0 /\ shown = 0
    BY DEF ProgressInit, TerminalInit, TaskInit
  <2> QED
    BY <1>1, <2>1 DEF RunInv, Silently
<1>3. TellInv
  BY DEF ProgressInit, TerminalInit, TaskInit, TellInv, Silently
<1> QED
  BY <1>2, <1>3 DEF ProgressInit, TaskInit, TaskInv

LEMMA OwnerKeepsTask ==
  ASSUME TaskInv, subject = "task", Owner, UNCHANGED subject
  PROVE  TaskInv'
<1> USE DEF TaskInv
<1>1. UNCHANGED terminal
  BY DEF Owner, StartTask, SetPhase, Advance, Complete, SetOutcome, Join, AbortTask
<1>2. RunInv'
  <2> USE DEF RunInv, Silently, Outcomes
  <2>1. CASE StartTask
    BY <1>1, <2>1 DEF StartTask, terminal
  <2>2. CASE SetPhase
    BY <1>1, <2>2 DEF SetPhase, terminal
  <2>3. CASE Advance
    BY <1>1, <2>3 DEF Advance, terminal
  <2>4. CASE Complete
    BY <1>1, <2>4 DEF Complete, terminal
  <2>5. CASE SetOutcome
    BY <1>1, <2>5 DEF SetOutcome, terminal
  <2>6. CASE Join
    BY <1>1, <2>6 DEF Join, terminal
  <2>7. CASE AbortTask
    BY <1>1, <2>7 DEF AbortTask, terminal
  <2> QED
    BY <2>1, <2>2, <2>3, <2>4, <2>5, <2>6, <2>7 DEF Owner
<1>3. UNCHANGED <<lines, shown>>
  BY <1>1 DEF terminal, Owner, StartTask, SetPhase, Advance, Complete, SetOutcome, Join, AbortTask
<1>4. TellInv'
  <2>1. CASE StartTask
    BY <1>3, <2>1 DEF StartTask, RunInv, TellInv, Silently
  <2>2. CASE ~StartTask
    <3>1. UNCHANGED renderer
      BY <2>2 DEF Owner, SetPhase, Advance, Complete, SetOutcome, Join, AbortTask
    <3>2. renderer = "done" => UNCHANGED <<phase, outcome>>
      BY <2>2 DEF Owner, SetPhase, Advance, Complete, SetOutcome, Join, AbortTask, RunInv
    <3> QED
      BY <1>3, <3>1, <3>2 DEF TellInv
  <2> QED
    BY <2>1, <2>2
<1> QED
  BY <1>2, <1>4

(* A renderer that writes to a stderr nobody reads is dead, and has told   *)
(* no outcome; another one has told what is new.                           *)
LEMMA Rendering ==
  ASSUME TaskInv, subject = "task", renderer \in Silently \union {"asleep"},
         NEW new, NEW next, NEW locked, Renders(new, next, locked), lines \in Seq(TaskLines), new \in Seq(TaskLines)
  PROVE  \/ broken /\ renderer' = "dead" /\ lines' = lines /\ \E p \in Nat : Open(lines, p)
         \/ renderer' = next /\ lines' = lines \o new
<1>1. \E p \in Nat : Open(lines, p)
  BY NothingTold DEF TaskInv, RunInv, TellInv, Silently
<1> QED
  BY <1>1 DEF Renders, WriteLines

(* The line of an outcome, or none for one that is cleared at once.        *)
LEMMA OutcomeTold ==
  ASSUME RunInv, outcome # "none"
  PROVE  /\ OutcomeLines(<<TaskLine("clear")>>) = <<TaskLine(outcome)>>
         /\ OutcomeLines(<<>>) = IF outcome = "clear" THEN <<>> ELSE <<TaskLine(outcome)>>
         /\ TaskLine(outcome) \in TaskLines /\ TaskLine(outcome).kind = outcome
BY DEF RunInv, OutcomeLines, TaskLine, TaskLines

LEMMA InnerTold ==
  ASSUME RunInv, NEW kind \in {"start", "phase", "wait"}
  PROVE  /\ TaskLine(kind) \in TaskLines
         /\ TaskLine(kind).phase = phase /\ TaskLine(kind).kind = kind
         /\ kind \notin Outcomes
BY DEF RunInv, TaskLine, TaskLines, Outcomes

(* Each turn of the renderer leaves a transcript that goes on, or one that *)
(* has ended.                                                              *)
LEMMA RendererKeepsTask ==
  ASSUME TaskInv, Renderer, UNCHANGED subject
  PROVE  TaskInv'
<1> USE DEF TaskInv
<1>1. subject = "task" /\ renderer # "none"
  BY DEF Renderer, Appear, RenderFast, PlainStart, PlainWake, Heartbeat, InteractiveStart,
         InteractiveDraw, InteractiveClear, InteractiveOutcome
<1>2. RunInv /\ TellInv
  BY <1>1
<1>3. Quiet
  BY DEF Renderer, Appear, RenderFast, PlainStart, PlainWake, Heartbeat, InteractiveStart,
         InteractiveDraw, InteractiveClear, InteractiveOutcome
<1>4. ASSUME shown' \in {shown, phase}, renderer' # "none",
             \/ renderer' \in Silently /\ lines' = <<>>
                  /\ (renderer' \in {"fast", "finishing"} => outcome # "none")
             \/ renderer' = "asleep" /\ Open(lines', shown') /\ lines' # <<>>
             \/ renderer' = "dead" /\ broken /\ \E p \in Nat : Open(lines', p)
             \/ renderer' = "done" /\ outcome # "none"
                  /\ (ToldEnd(lines', phase, outcome) \/ (outcome = "clear" /\ lines' = <<>>)),
             owner # "idle", owner = "returned" => renderer' \in {"done", "dead"}
      PROVE  TaskInv'
  <2>1. RunInv'
    BY <1>2, <1>3, <1>4 DEF RunInv, Quiet, Silently
  <2>2. TellInv'
    BY <1>2, <1>3, <1>4 DEF TellInv, Quiet, Silently
  <2> QED
    BY <1>1, <2>1, <2>2
<1>5. /\ owner # "idle" /\ shown \in Nat /\ phase \in Nat
      /\ renderer \notin {"none", "done", "dead"} => owner # "returned"
  BY <1>1, <1>2 DEF RunInv
<1>6. <<>> \in Seq(TaskLines)
  OBVIOUS
<1>7. CASE Appear \/ InteractiveStart \/ InteractiveDraw \/ InteractiveClear
  <2>1. /\ renderer \in Silently \ {"none"} /\ lines' = <<>> /\ shown' \in {shown, phase}
        /\ renderer' \in Silently \ {"none"}
        /\ renderer' \in {"fast", "finishing"} => outcome # "none"
    BY <1>2, <1>7 DEF Appear, InteractiveStart, InteractiveDraw, InteractiveClear, TellInv, RunInv, Silently
  <2>2. owner # "returned"
    BY <1>5, <2>1 DEF Silently
  <2> QED
    BY <1>4, <1>5, <2>1, <2>2
<1>8. CASE RenderFast \/ InteractiveOutcome
  <2>1. /\ renderer \in {"fast", "finishing"} /\ lines = <<>> /\ shown' = shown /\ outcome # "none"
        /\ \E locked \in BOOLEAN : Renders(OutcomeLines(<<>>), "done", locked)
    BY <1>2, <1>8 DEF RenderFast, InteractiveOutcome, TellInv, RunInv, Silently
  <2>2. /\ TaskLine(outcome) \in TaskLines /\ TaskLine(outcome).kind = outcome
        /\ OutcomeLines(<<>>) = IF outcome = "clear" THEN <<>> ELSE <<TaskLine(outcome)>>
    BY <1>2, <2>1, OutcomeTold
  <2>3. OutcomeLines(<<>>) \in Seq(TaskLines)
    <3>1. <<TaskLine(outcome)>> \in Seq(TaskLines)
      BY <2>2
    <3> QED
      BY <1>6, <2>2, <3>1
  <2>4. \/ broken /\ renderer' = "dead" /\ lines' = lines /\ \E p \in Nat : Open(lines, p)
        \/ renderer' = "done" /\ lines' = lines \o OutcomeLines(<<>>)
    BY <1>1, <1>6, <2>1, <2>3, Rendering DEF Silently
  <2>5. lines \o OutcomeLines(<<>>) = OutcomeLines(<<>>)
    BY <2>1, <2>3, ConcatEmptySeq
  <2>6. outcome # "clear" => ToldEnd(lines \o OutcomeLines(<<>>), phase, outcome)
    <3> SUFFICES ASSUME outcome # "clear" PROVE ToldEnd(lines \o <<TaskLine(outcome)>>, phase, outcome)
      BY <2>2
    <3>1. outcome \in Outcomes
      BY <1>2, <2>1 DEF RunInv
    <3> QED
      BY <1>5, <2>1, <2>2, <3>1, NothingTold, EndTold
  <2> QED
    BY <1>4, <1>5, <2>1, <2>2, <2>4, <2>5, <2>6
<1>9. ASSUME outcome # "none", NEW told \in Seq(TaskLines), Open(told, phase)
      PROVE  ToldEnd(told \o OutcomeLines(<<TaskLine("clear")>>), phase, outcome)
  <2>1. outcome \in Outcomes
    BY <1>2, <1>9 DEF RunInv
  <2> QED
    BY <1>2, <1>5, <1>9, <2>1, OutcomeTold, EndTold
<1>10. outcome # "none" => OutcomeLines(<<TaskLine("clear")>>) \in Seq(TaskLines)
  <2>1. outcome # "none" => TaskLine(outcome) \in TaskLines
    BY <1>2, OutcomeTold
  <2>2. TaskLine(outcome) \in TaskLines => <<TaskLine(outcome)>> \in Seq(TaskLines)
    OBVIOUS
  <2> QED
    BY <1>2, <2>1, <2>2, OutcomeTold
<1>11. CASE PlainStart
  <2>1. renderer = "slow" /\ lines = <<>> /\ shown' = phase
    BY <1>2, <1>11 DEF PlainStart, TellInv, Silently
  <2> DEFINE first == <<TaskLine("start")>>
  <2>2. first \in Seq(TaskLines) /\ Open(first, phase) /\ first # <<>> /\ lines \o first = first
    <3>1. TaskLine("start") \in TaskLines /\ TaskLine("start").phase = phase /\ TaskLine("start").kind = "start"
          /\ "start" \notin Outcomes
      BY <1>2, InnerTold
    <3>2. first \in Seq(TaskLines)
      BY <3>1
    <3>3. Open(<<>> \o first, phase) /\ <<>> \o first # <<>>
      BY <1>5, <3>1, NothingTold, MoreTold
    <3> QED
      BY <2>1, <3>2, <3>3, ConcatEmptySeq
  <2> HIDE DEF first
  <2>3. CASE outcome = "none"
    <3>1. Renders(first, "asleep", TRUE)
      BY <1>11, <2>3 DEF PlainStart, first
    <3>2. \/ broken /\ renderer' = "dead" /\ lines' = lines /\ \E p \in Nat : Open(lines, p)
          \/ renderer' = "asleep" /\ lines' = lines \o first
      BY <1>1, <1>6, <2>1, <2>2, <3>1, Rendering DEF Silently
    <3> QED
      BY <1>4, <1>5, <2>1, <2>2, <3>2
  <2>4. CASE outcome # "none"
    <3> DEFINE ending == OutcomeLines(<<TaskLine("clear")>>)
    <3>1. Renders(first \o ending, "done", TRUE)
      BY <1>11, <2>4 DEF PlainStart, first
    <3>2. ending \in Seq(TaskLines) /\ ToldEnd(first \o ending, phase, outcome)
      BY <1>9, <1>10, <2>2, <2>4
    <3> HIDE DEF ending
    <3>3. first \o ending \in Seq(TaskLines) /\ lines \o (first \o ending) = first \o ending
      BY <2>1, <2>2, <3>2, ConcatProperties, ConcatEmptySeq
    <3>4. \/ broken /\ renderer' = "dead" /\ lines' = lines /\ \E p \in Nat : Open(lines, p)
          \/ renderer' = "done" /\ lines' = lines \o (first \o ending)
      BY <1>1, <1>6, <2>1, <3>1, <3>3, Rendering DEF Silently
    <3> QED
      BY <1>4, <1>5, <2>1, <2>4, <3>2, <3>3, <3>4
  <2> QED
    BY <2>3, <2>4
<1>12. CASE PlainWake \/ Heartbeat
  <2>1. renderer = "asleep" /\ Open(lines, shown) /\ lines # <<>> /\ lines \in Seq(TaskLines)
    BY <1>2, <1>12 DEF PlainWake, Heartbeat, TellInv, Open
  <2> DEFINE ending == IF outcome = "none" THEN <<>> ELSE OutcomeLines(<<TaskLine("clear")>>)
  <2>2. ending \in Seq(TaskLines)
    BY <1>6, <1>10
  <2>3. PICK news \in Seq(TaskLines) :
          /\ Renders(news \o ending, IF outcome = "none" THEN "asleep" ELSE "done", TRUE)
          /\ Open(lines \o news, phase) /\ lines \o news \in Seq(TaskLines)
          /\ lines \o news # <<>>
          /\ shown' = phase
    <3>1. ASSUME NEW kind \in {"phase", "wait"}, kind = "phase" => phase > shown
          PROVE  /\ <<TaskLine(kind)>> \in Seq(TaskLines)
                 /\ Open(lines \o <<TaskLine(kind)>>, phase) /\ lines \o <<TaskLine(kind)>> # <<>>
      <4>1. TaskLine(kind) \in TaskLines /\ TaskLine(kind).phase = phase /\ TaskLine(kind).kind = kind
            /\ kind \notin Outcomes
        BY <1>2, InnerTold
      <4> QED
        BY <1>5, <2>1, <3>1, <4>1, MoreTold
    <3>2. CASE PlainWake
      <4> DEFINE news == IF phase # shown THEN <<TaskLine("phase")>> ELSE <<>>
      <4>1. Renders(news \o ending, IF outcome = "none" THEN "asleep" ELSE "done", TRUE) /\ shown' = phase
        BY <3>2 DEF PlainWake
      <4>2. CASE phase # shown
        <5>1. phase > shown
          BY <1>2, <4>2 DEF RunInv
        <5>2. news = <<TaskLine("phase")>>
          BY <4>2
        <5> HIDE DEF ending, news
        <5> QED
          BY <2>1, <3>1, <4>1, <5>1, <5>2 DEF Open
      <4>3. CASE phase = shown
        <5>1. news = <<>> /\ lines \o news = lines
          BY <2>1, <4>3
        <5> HIDE DEF ending, news
        <5> QED
          BY <1>6, <2>1, <4>1, <4>3, <5>1
      <4> QED
        BY <4>2, <4>3
    <3>3. CASE Heartbeat
      <4>1. /\ Renders(<<TaskLine("wait")>> \o ending, IF outcome = "none" THEN "asleep" ELSE "done", TRUE)
            /\ shown' = shown /\ phase = shown
        BY <3>3 DEF Heartbeat
      <4> HIDE DEF ending
      <4> QED
        BY <2>1, <3>1, <4>1 DEF Open
    <3> QED
      BY <1>12, <3>2, <3>3
  <2>4. news \o ending \in Seq(TaskLines) /\ lines \o (news \o ending) = (lines \o news) \o ending
    <3> HIDE DEF ending
    <3> QED
      BY <2>1, <2>2, <2>3, ConcatProperties, ConcatAssociative
  <2>5. \/ broken /\ renderer' = "dead" /\ lines' = lines /\ \E p \in Nat : Open(lines, p)
        \/ /\ renderer' = IF outcome = "none" THEN "asleep" ELSE "done"
           /\ lines' = (lines \o news) \o ending
    <3> HIDE DEF ending
    <3> QED
      BY <1>1, <2>1, <2>3, <2>4, Rendering
  <2>6. CASE outcome = "none"
    <3>1. (lines \o news) \o ending = lines \o news
      BY <2>3, <2>6, ConcatEmptySeq
    <3> HIDE DEF ending
    <3> QED
      BY <1>4, <1>5, <2>1, <2>3, <2>5, <2>6, <3>1
  <2>7. CASE outcome # "none"
    <3>1. ToldEnd((lines \o news) \o ending, phase, outcome)
      BY <1>9, <2>3, <2>7
    <3> HIDE DEF ending
    <3> QED
      BY <1>4, <1>5, <2>1, <2>3, <2>5, <2>7, <3>1
  <2> QED
    BY <2>6, <2>7
<1> QED
  BY <1>7, <1>8, <1>11, <1>12 DEF Renderer

LEMMA TaskStep ==
  ASSUME TaskInv, [ProgressNext]_progressVars
  PROVE  TaskInv'
<1>1. CASE OwnerStep
  BY <1>1, OwnerKeepsTask DEF OwnerStep
<1>2. CASE RendererStep
  BY <1>2, RendererKeepsTask DEF RendererStep
<1>3. CASE Handover \/ Break
  <2>1. UNCHANGED <<subject, task, lines, displayMode>> /\ (broken => broken')
    BY <1>3 DEF Handover, Suspend, Hide, Restore, Break, BreakStderr
  <2>2. RunInv => RunInv'
    BY <2>1 DEF RunInv, task
  <2>3. TellInv => TellInv'
    BY <2>1 DEF TellInv, task
  <2> QED
    BY <2>1, <2>2, <2>3 DEF TaskInv, task
<1>4. CASE LiveStep
  BY <1>4 DEF LiveStep, TaskInv, task
<1>5. CASE UNCHANGED progressVars
  <2>1. UNCHANGED <<subject, task, terminal>>
    BY <1>5 DEF progressVars
  <2> QED
    BY <2>1 DEF TaskInv, RunInv, TellInv, task, terminal
<1> QED
  BY <1>1, <1>2, <1>3, <1>4, <1>5 DEF ProgressNext

LEMMA TaskTold ==
  ASSUME TaskInv
  PROVE  TaskIsTold
<1> SUFFICES ASSUME subject = "task", RunInv, TellInv
             PROVE  TaskIsTold
  BY DEF TaskInv, TaskIsTold
<1>1. CASE lines = <<>>
  <2>1. DOMAIN lines = {}
    BY <1>1
  <2>2. ~(owner = "returned" /\ ~broken /\ displayMode # "off" /\ asked # "clear")
    <3> SUFFICES ASSUME owner = "returned", ~broken, displayMode # "off", asked # "clear" PROVE FALSE
      OBVIOUS
    <3>1. renderer = "done" /\ outcome = asked
      BY DEF RunInv
    <3> QED
      BY <1>1, <3>1 DEF TellInv, ToldEnd
  <2> QED
    BY <2>1, <2>2 DEF TaskIsTold, Told
<1>2. ASSUME NEW p \in Nat, Open(lines, p), renderer \in {"asleep", "dead"}
      PROVE  TaskIsTold
  <2>1. DOMAIN lines = 1..Len(lines)
    BY <1>2 DEF Open
  <2>2. ASSUME NEW i \in 1..Len(lines)
        PROVE  /\ lines[i].kind \notin Outcomes
               /\ lines[i].kind = "start" => i = 1
               /\ lines[i].kind \in {"phase", "wait"} => i > 1
               /\ lines[i].kind = "phase" => lines[i].phase > lines[i - 1].phase
    BY <1>2 DEF Open
  <2>3. owner = "returned" => broken
    BY <1>2 DEF RunInv
  <2> QED
    BY <2>1, <2>2, <2>3 DEF TaskIsTold, Told
<1>3. CASE renderer = "done" /\ ToldEnd(lines, phase, outcome)
  <2>1. DOMAIN lines = 1..Len(lines) /\ Len(lines) \in Nat \ {0}
    BY <1>3, EmptySeq DEF ToldEnd
  <2>2. outcome \in Outcomes /\ outcome \notin {"start", "phase", "wait"}
    BY <1>3 DEF RunInv, Outcomes
  <2>3. ASSUME NEW i \in 1..Len(lines)
        PROVE  /\ lines[i].kind \in Outcomes <=> i = Len(lines)
               /\ lines[i].kind = "start" => i = 1
               /\ lines[i].kind \in {"phase", "wait"} => i > 1
               /\ lines[i].kind = "phase" => lines[i].phase > lines[i - 1].phase
    <3>1. CASE i = Len(lines)
      BY <1>3, <2>2, <3>1 DEF ToldEnd
    <3>2. CASE i # Len(lines)
      <4>1. \A n \in Nat : i \in 1..n /\ i # n => i \in 1..(n - 1)
        OBVIOUS
      <4>2. i \in 1..(Len(lines) - 1)
        BY <2>1, <3>2, <4>1
      <4> QED
        BY <1>3, <3>2, <4>2 DEF ToldEnd
    <3> QED
      BY <3>1, <3>2
  <2>4. lines[Len(lines)].kind = outcome /\ (Len(lines) > 1 => lines[Len(lines) - 1].phase = phase)
    BY <1>3 DEF ToldEnd
  <2>5. Told(Outcomes) = {Len(lines)}
    <3>1. Len(lines) \in 1..Len(lines)
      BY <2>1
    <3>2. Told(Outcomes) = {i \in 1..Len(lines) : lines[i].kind \in Outcomes}
      BY <2>1 DEF Told
    <3> QED
      BY <2>3, <3>1, <3>2
  <2>6. /\ \A i \in Told({"start"}) : i = 1
        /\ \A i \in Told({"phase", "wait"}) : i > 1
        /\ \A i \in Told({"phase"}) : lines[i].phase > lines[i - 1].phase
    BY <2>1, <2>3 DEF Told
  <2> QED
    BY <2>4, <2>5, <2>6 DEF TaskIsTold
<1> QED
  BY <1>1, <1>2, <1>3 DEF RunInv, TellInv

--------------------------------------------------------------------------------
(* The display: what a row leaves on stderr. *)

LiveLines ==
  [from : {"row", "group"}, kind : {"start", "item", "wait", "status", "outcome", "phase"},
   text : Messages \union {Nothing}]

(* Threads that complete or clear the row and have not said so yet.        *)
Finishing == {"completing", "clearing", "reporting"}

(* The row has not told its outcome; or it has, and nothing after it.      *)
Untold(told) == \A i \in 1..Len(told) : ~(told[i].from = "row" /\ told[i].kind = "outcome")

LastTold(told) ==
  \A i, j \in 1..Len(told) :
    i < j /\ told[i].from = "row" /\ told[i].kind = "outcome" => told[j].from # "row"

(* One thread at most finishes the row, once, and nobody else tells of the *)
(* row after it has been finished.                                         *)
RowInv ==
  /\ lines \in Seq(LiveLines)
  /\ rowBar = "attached" => displayMode = "interactive"
  /\ message \in Messages \union {Nothing}
  /\ \A t \in Threads :
       /\ rowAt[t] # "none" => message # Nothing
       /\ rowAt[t] = "detail" => given[t] \in Messages
       /\ rowAt[t] \in Finishing => finished /\ Untold(lines)
       /\ rowAt[t] = "reporting" => displayMode = "plain"
  /\ \A t, u \in Threads : rowAt[t] \in Finishing /\ rowAt[u] \in Finishing => t = u
  /\ ~finished => Untold(lines)
  /\ message = Nothing => Untold(lines)
  /\ LastTold(lines)

RowsInv ==
  /\ subject \in {"task", "rows"}
  /\ rowAt = [t \in Threads |-> rowAt[t]] /\ given = [t \in Threads |-> given[t]]
  /\ subject = "rows" => RowInv

LEMMA InitRows ==
  ASSUME ProgressInit
  PROVE  RowsInv
BY DEF ProgressInit, TerminalInit, LiveInit, RowsInv, RowInv, Untold, LastTold, Finishing

(* A line that is not of the row, or is before its outcome, or is its      *)
(* outcome, keeps the order of what is told of it.                         *)
LEMMA LineTold ==
  ASSUME NEW told \in Seq(LiveLines), NEW line \in LiveLines, LastTold(told)
  PROVE  /\ told \o <<line>> \in Seq(LiveLines)
         /\ line.from # "row" \/ Untold(told) => LastTold(told \o <<line>>)
         /\ ~(line.from = "row" /\ line.kind = "outcome") /\ Untold(told) => Untold(told \o <<line>>)
<1> DEFINE all == told \o <<line>>
<1>1. Len(told) \in Nat
  OBVIOUS
<1>2. /\ all \in Seq(LiveLines) /\ Len(all) = Len(told) + 1
      /\ all[Len(told) + 1] = line
      /\ \A i \in 1..Len(told) : all[i] = told[i]
  OBVIOUS
<1> HIDE DEF all
<1>3. \A i \in 1..Len(all) : i \in 1..Len(told) \/ i = Len(told) + 1
  BY <1>1, <1>2
<1>4. ASSUME line.from # "row" \/ Untold(told) PROVE LastTold(all)
  <2> SUFFICES ASSUME NEW i \in 1..Len(all), NEW j \in 1..Len(all),
                      i < j, all[i].from = "row", all[i].kind = "outcome"
               PROVE  all[j].from # "row"
    BY DEF LastTold
  <2>1. i \in 1..Len(told) /\ all[i] = told[i]
    BY <1>1, <1>2, <1>3
  <2>2. line.from # "row"
    BY <1>4, <2>1 DEF Untold
  <2>3. CASE j \in 1..Len(told)
    BY <1>2, <2>1, <2>3 DEF LastTold
  <2>4. CASE j = Len(told) + 1
    BY <1>2, <2>2, <2>4
  <2> QED
    BY <1>3, <2>3, <2>4
<1>5. ASSUME ~(line.from = "row" /\ line.kind = "outcome"), Untold(told) PROVE Untold(all)
  BY <1>2, <1>3, <1>5 DEF Untold
<1> QED
  BY <1>2, <1>4, <1>5 DEF all

(* What any step of the rows does to stderr: nothing, or one line.         *)
LEMMA LineType ==
  ASSUME NEW from \in {"row", "group"},
         NEW kind \in {"start", "item", "wait", "status", "outcome", "phase"},
         NEW text \in Messages \union {Nothing}
  PROVE  /\ LiveLine(from, kind, text) \in LiveLines
         /\ LiveLine(from, kind, text).from = from /\ LiveLine(from, kind, text).kind = kind
BY DEF LiveLine, LiveLines

LEMMA GroupKeepsRows ==
  ASSUME RowsInv, subject = "rows", Group, UNCHANGED subject
  PROVE  RowsInv'
<1> USE DEF RowsInv
<1>1. RowInv
  OBVIOUS
<1>2. ASSUME UNCHANGED <<rowAt, given, message, rowBar, finished, displayMode>>, NEW line \in LiveLines, line.from = "group",
             lines' \in {lines, lines \o <<line>>}
      PROVE  RowsInv'
  <2>1. lines' \in Seq(LiveLines) /\ LastTold(lines') /\ (Untold(lines) => Untold(lines'))
    BY <1>1, <1>2, LineTold DEF RowInv
  <2> QED
    BY <1>1, <1>2, <2>1 DEF RowInv
<1>3. CASE NewGroup \/ FinishGroup
  <2>1. PICK kind \in {"start", "outcome"} : lines' \in {lines, lines \o <<LiveLine("group", kind, Nothing)>>}
    BY <1>3 DEF NewGroup, FinishGroup, Plainly, WriteLines
  <2>2. UNCHANGED <<rowAt, given, message, rowBar, finished, displayMode>>
    BY <1>3 DEF NewGroup, FinishGroup, Silent
  <2> QED
    BY <1>2, <2>1, <2>2, LineType
<1>4. CASE Summarize
  <2>1. PICK kind \in {"wait", "status"}, m \in Messages : lines' \in {lines, lines \o <<LiveLine("group", kind, m)>>}
    BY <1>4 DEF Summarize, Plainly, WriteLines
  <2>2. UNCHANGED <<rowAt, given, message, rowBar, finished, displayMode>>
    BY <1>4 DEF Summarize, Silent
  <2> QED
    BY <1>2, <2>1, <2>2, LineType
<1>5. CASE CreateRow
  <2>1. PICK m \in Messages : message' = m /\ lines' \in {lines, lines \o <<LiveLine("row", "item", m)>>}
    BY <1>5 DEF CreateRow, Plainly, WriteLines
  <2>2. /\ message = Nothing /\ rowBar' = Bar /\ rowAt' = [t \in Threads |-> "free"]
        /\ UNCHANGED <<given, finished, displayMode>>
    BY <1>5 DEF CreateRow, Silent
  <2>3. Untold(lines) /\ lines \in Seq(LiveLines) /\ LastTold(lines)
    BY <1>1, <2>2 DEF RowInv
  <2>4. lines' \in Seq(LiveLines) /\ LastTold(lines') /\ Untold(lines')
    <3> DEFINE line == LiveLine("row", "item", m)
    <3>1. line \in LiveLines /\ line.from = "row" /\ line.kind = "item"
      BY LineType
    <3> HIDE DEF line
    <3>2. lines \o <<line>> \in Seq(LiveLines) /\ LastTold(lines \o <<line>>) /\ Untold(lines \o <<line>>)
      BY <2>3, <3>1, LineTold
    <3> QED
      BY <2>1, <2>3, <3>2 DEF line
  <2>5. message' # Nothing /\ (rowBar' = "attached" => displayMode' = "interactive")
    BY <2>1, <2>2, LiveAssumption DEF Bar
  <2> QED
    BY <1>1, <2>1, <2>2, <2>4, <2>5 DEF RowInv, Finishing
<1> QED
  BY <1>3, <1>4, <1>5 DEF Group

LEMMA RowKeepsRows ==
  ASSUME RowsInv, subject = "rows", NEW t \in Threads, Row(t), UNCHANGED subject
  PROVE  RowsInv'
<1> USE DEF RowsInv
<1>1. RowInv
  OBVIOUS
<1>2. UNCHANGED displayMode
  BY DEF Row, SetMessage, CheckDetail, SetDetail, SwapFinished, TakeBar, Report, DropRow, GiveUpRow, Silent
<1>3. CASE SetMessage(t)
  <2>1. PICK m \in Messages : message' = m /\ lines' \in {lines, lines \o <<LiveLine("row", "phase", m)>>}
    BY <1>3 DEF SetMessage, Plainly, WriteLines
  <2>2. ~finished /\ UNCHANGED <<rowAt, given, rowBar, finished>>
    BY <1>3 DEF SetMessage
  <2>3. lines' \in Seq(LiveLines) /\ LastTold(lines') /\ Untold(lines')
    <3> DEFINE line == LiveLine("row", "phase", m)
    <3>1. line \in LiveLines /\ line.from = "row" /\ line.kind = "phase"
      BY LineType
    <3> HIDE DEF line
    <3>2. lines \in Seq(LiveLines) /\ LastTold(lines) /\ Untold(lines)
      BY <1>1, <2>2 DEF RowInv
    <3>3. lines \o <<line>> \in Seq(LiveLines) /\ LastTold(lines \o <<line>>) /\ Untold(lines \o <<line>>)
      BY <3>1, <3>2, LineTold
    <3> QED
      BY <2>1, <3>2, <3>3 DEF line
  <2> QED
    BY <1>1, <1>2, <2>1, <2>2, <2>3, LiveAssumption DEF RowInv
<1>4. CASE CheckDetail(t) \/ SetDetail(t)
  BY <1>1, <1>2, <1>4, LiveAssumption DEF CheckDetail, SetDetail, RowInv, Finishing
<1>5. CASE SwapFinished(t)
  BY <1>1, <1>2, <1>5 DEF SwapFinished, RowInv, Finishing
<1>6. ASSUME rowAt[t] \in Finishing, rowAt' = [rowAt EXCEPT ![t] = "free"],
             UNCHANGED <<given, message, finished>>, rowBar' = "attached" => rowBar = "attached",
             lines' \in {lines, lines \o <<LiveLine("row", "outcome", Nothing)>>}
      PROVE  RowsInv'
  <2>1. finished /\ message # Nothing /\ Untold(lines) /\ LastTold(lines) /\ lines \in Seq(LiveLines)
    BY <1>1, <1>6 DEF RowInv, Finishing
  <2>2. lines' \in Seq(LiveLines) /\ LastTold(lines')
    <3> DEFINE line == LiveLine("row", "outcome", Nothing)
    <3>1. line \in LiveLines
      BY LineType
    <3> HIDE DEF line
    <3>2. lines \o <<line>> \in Seq(LiveLines) /\ LastTold(lines \o <<line>>)
      BY <2>1, <3>1, LineTold
    <3> QED
      BY <1>6, <2>1, <3>2 DEF line
  <2>3. \A u \in Threads : rowAt'[u] \notin Finishing
    BY <1>1, <1>6 DEF RowInv, Finishing
  <2> QED
    BY <1>1, <1>2, <1>6, <2>1, <2>2, <2>3 DEF RowInv, Finishing
<1>7. CASE TakeBar(t)
  <2>1. rowAt[t] \in {"completing", "clearing"} /\ UNCHANGED <<given, message, finished>>
        /\ (rowBar' = "attached" => rowBar = "attached")
        /\ lines' \in {lines, lines \o <<LiveLine("row", "outcome", Nothing)>>}
    BY <1>7 DEF TakeBar, WriteLines
  <2>2. CASE rowAt[t] = "completing" /\ displayMode = "plain"
    <3>1. lines' = lines /\ rowAt' = [rowAt EXCEPT ![t] = "reporting"]
      BY <1>1, <1>7, <2>2 DEF TakeBar, RowInv
    <3> QED
      BY <1>1, <1>2, <2>1, <2>2, <3>1 DEF RowInv, Finishing
  <2>3. CASE ~(rowAt[t] = "completing" /\ displayMode = "plain")
    <3>1. rowAt' = [rowAt EXCEPT ![t] = "free"]
      BY <1>7, <2>3 DEF TakeBar
    <3> QED
      BY <1>6, <2>1, <3>1 DEF Finishing
  <2> QED
    BY <2>2, <2>3
<1>8. CASE Report(t)
  BY <1>6, <1>8 DEF Report, WriteLines, Finishing
<1>9. CASE DropRow(t) \/ GiveUpRow(t)
  <2>1. /\ rowAt[t] \in {"free", "dropping"} /\ rowAt' \in {[rowAt EXCEPT ![t] = "dropping"], [rowAt EXCEPT ![t] = "gone"]}
        /\ UNCHANGED <<given, message, lines>>
        /\ finished => finished'
        /\ rowBar' = "attached" => rowBar = "attached"
    BY <1>9 DEF DropRow, GiveUpRow
  <2> QED
    BY <1>1, <1>2, <2>1 DEF RowInv, Finishing
<1> QED
  BY <1>3, <1>4, <1>5, <1>7, <1>8, <1>9 DEF Row

LEMMA RowsStep ==
  ASSUME TaskInv, RowsInv, [ProgressNext]_progressVars
  PROVE  RowsInv'
<1>1. CASE LiveStep
  BY <1>1, GroupKeepsRows, RowKeepsRows DEF LiveStep
<1>2. CASE Handover \/ OwnerStep \/ Break
  BY <1>2 DEF Handover, OwnerStep, Break, RowsInv, live
<1>3. CASE UNCHANGED progressVars
  BY <1>3 DEF progressVars, terminal, live, RowsInv, RowInv
<1>4. CASE RendererStep
  <2>1. subject = "task"
    BY <1>4 DEF RowsInv, TaskInv, RendererStep, Renderer, Appear, RenderFast, PlainStart, PlainWake,
                Heartbeat, InteractiveStart, InteractiveDraw, InteractiveClear, InteractiveOutcome
  <2> QED
    BY <1>4, <2>1 DEF RendererStep, RowsInv, live
<1> QED
  BY <1>1, <1>2, <1>3, <1>4 DEF ProgressNext

LEMMA RowTold ==
  ASSUME TaskInv, RowsInv
  PROVE  RowIsTold
<1>1. CASE subject = "rows"
  <2>1. LastTold(lines) /\ DOMAIN lines = 1..Len(lines)
    BY <1>1 DEF RowsInv, RowInv
  <2> QED
    BY <2>1 DEF RowIsTold, LastTold
<1>2. CASE subject = "task"
  <2>1. lines \in Seq(TaskLines)
    <3>1. renderer \in Silently \union {"asleep", "done", "dead"} /\ TellInv
      BY <1>2 DEF TaskInv, RunInv
    <3>2. <<>> \in Seq(TaskLines)
      OBVIOUS
    <3>3. CASE renderer \in Silently
      BY <3>1, <3>2, <3>3 DEF TellInv
    <3>4. CASE renderer = "asleep"
      BY <3>1, <3>4 DEF TellInv, Open
    <3>5. CASE renderer = "dead"
      BY <3>1, <3>2, <3>5 DEF TellInv, Open
    <3>6. CASE renderer = "done"
      BY <3>1, <3>2, <3>6 DEF TellInv, ToldEnd
    <3> QED
      BY <3>1, <3>3, <3>4, <3>5, <3>6
  <2>2. \A i \in DOMAIN lines : lines[i].from = "task"
    <3>1. \A i \in DOMAIN lines : lines[i] \in TaskLines
      BY <2>1
    <3> QED
      BY <3>1 DEF TaskLines
  <2> QED
    BY <2>2 DEF RowIsTold
<1> QED
  BY <1>1, <1>2 DEF TaskInv

(* What is left on stderr tells how a task went, whenever its phases,      *)
(* its outcome, the delay, the heartbeats and a closed stderr come, and a  *)
(* row says nothing after its outcome, for any number of threads with a    *)
(* clone of it.                                                            *)
THEOREM TranscriptsWhole ==
  ProgressSpec => []TranscriptsAreWhole
<1>1. ProgressInit => TaskInv /\ RowsInv
  BY InitTask, InitRows
<1>2. TaskInv /\ RowsInv /\ [ProgressNext]_progressVars => TaskInv' /\ RowsInv'
  BY TaskStep, RowsStep
<1>3. TaskInv /\ RowsInv => TranscriptsAreWhole
  BY TaskTold, RowTold DEF TranscriptsAreWhole
<1> QED
  BY <1>1, <1>2, <1>3, PTL DEF ProgressSpec

--------------------------------------------------------------------------------
(* Processes: what each step of a caller may rely on: whether its command may still    *)
(* run, has ended, or was waited for, and from when on nobody is in its     *)
(* group.                                                                   *)
CallInv ==
  /\ pc = "start" => leader = "unborn" /\ (\A d \in Descendants : state[d] = "unborn")
  /\ pc \in {"mirror", "guard", "wait", "sleep", "abort", "term", "linger"} =>
       leader \in Alive \union {"zombie"}
  /\ pc \in {"kill", "drain", "read"} => leader = "reaped"
  /\ pc \in {"drain", "read"} => InGroup = {}
  /\ pc \in {"mirror", "guard", "sleep", "abort", "kill", "drain", "read"} => Captured
  /\ pc \in {"term", "linger"} => mode = "deadline"
  /\ own <= written
  /\ pc = "abort" => result.status # "ok"
  /\ CommandIsReaped
  /\ CapturedGroupIsDead
  /\ OutputIsWhole

SubprocessInv == TypeOK /\ CallInv

USE SubprocessAssumption

LEMMA InitInv == Init => SubprocessInv
<1> SUFFICES ASSUME Init PROVE SubprocessInv
  OBVIOUS
<1>1. TypeOK
  <2>1. Pending \in [status : {"pending", "ok", "failed", "cancelled", "late", "limit"}, output : 0..Limit]
    BY DEF Pending
  <2>2. state \in [Descendants -> {"unborn", "running", "deaf", "away", "dead"}]
    BY DEF Init
  <2>3. written \in 0..(Limit + 1) /\ own \in 0..(Limit + 1)
    BY DEF Init
  <2>4. pc \in Labels /\ result = Pending
    BY DEF Init, Labels
  <2> QED
    BY <2>1, <2>2, <2>3, <2>4 DEF Init, TypeOK
<1>2. CallInv
  BY DEF Init, CallInv, CommandIsReaped, CapturedGroupIsDead, OutputIsWhole
<1> QED
  BY <1>1, <1>2 DEF SubprocessInv

(* Every step keeps the types.                                             *)
LEMMA TypeStep ==
  ASSUME SubprocessInv, [Next]_vars
  PROVE  TypeOK'
<1> USE DEF SubprocessInv, TypeOK
<1>1. /\ Pending \in [status : {"pending", "ok", "failed", "cancelled", "late", "limit"}, output : 0..Limit]
      /\ \A s \in {"failed", "cancelled", "late", "limit"} :
           Failed(s) \in [status : {"pending", "ok", "failed", "cancelled", "late", "limit"}, output : 0..Limit]
      /\ \A n \in 0..Limit :
           [status |-> "ok", output |-> n] \in
             [status : {"pending", "ok", "failed", "cancelled", "late", "limit"}, output : 0..Limit]
  BY DEF Pending, Failed
<1>2. CASE Caller
  <2>1. CASE Spawn
    BY <2>1 DEF Spawn, Goto, Labels, output, clock, Alive
  <2>2. CASE SpawnFails
    BY <1>1, <2>2 DEF SpawnFails, Return, Labels, group, output, clock
  <2>3. CASE Mirror
    <3>1. behind' \in BOOLEAN
      BY <2>3 DEF Mirror
    <3>2. pc' \in Labels /\ (result' = result \/ result' = Failed("failed"))
      BY <2>3 DEF Mirror, Goto, Labels
    <3>3. UNCHANGED <<leader, state, reused, stray, written, own, expired, patience, cancelled, mode>>
      BY <2>3 DEF Mirror, group, clock
    <3> QED
      BY <1>1, <3>1, <3>2, <3>3
  <2>4. CASE Guard
    BY <1>1, <2>4 DEF Guard, Goto, Labels, group, output, clock, Error
  <2>5. CASE TryWait
    BY <2>5 DEF TryWait, Reap, Goto, Labels, output, clock
  <2>6. CASE Sleep
    BY <1>1, <2>6 DEF Sleep, Goto, Labels, group, output, clock
  <2>7. CASE KillDescendants
    BY <2>7 DEF KillDescendants, KillGroup, Goto, Labels, output, clock
  <2>8. CASE Drain
    BY <1>1, <2>8 DEF Drain, Goto, Return, Labels, group, clock
  <2>9. CASE ReadOutput
    BY <1>1, <2>9 DEF ReadOutput, Return, Labels, group, output, clock
  <2>10. CASE Abort
    BY <2>10 DEF Abort, Goto, Labels, output, clock
  <2>11. CASE WaitUnderDeadline
    BY <1>1, <2>11 DEF WaitUnderDeadline, Reap, Goto, Return, Labels, output, clock
  <2>12. CASE Terminate
    BY <2>12 DEF Terminate, TermGroup, Goto, Labels, output, clock
  <2>13. CASE Linger
    BY <1>1, <2>13 DEF Linger, Return, Labels, output, clock
  <2> QED
    BY <1>2, <2>1, <2>2, <2>3, <2>4, <2>5, <2>6, <2>7, <2>8, <2>9, <2>10, <2>11, <2>12, <2>13
    DEF Caller
<1>3. CASE Processes
  <2>1. CASE LeaderEnds
    BY <2>1 DEF LeaderEnds, clock
  <2>2. CASE Fork \/ Leave \/ DescendantEnds
    <3>1. UNCHANGED <<leader, reused, stray, written, own, behind, expired, patience, cancelled,
                      mode, pc, result>>
      BY <2>2 DEF Fork, Leave, DescendantEnds, output, clock
    <3>2. state' \in [Descendants -> {"unborn", "running", "deaf", "away", "dead"}]
      BY <2>2 DEF Fork, Leave, DescendantEnds, Alive, InGroup
    <3> QED
      BY <3>1, <3>2
  <2>3. CASE Write
    BY <2>3 DEF Write, group, clock
  <2>4. CASE NumberIsReused
    BY <2>4 DEF NumberIsReused, group, output, clock
  <2> QED
    BY <1>3, <2>1, <2>2, <2>3, <2>4 DEF Processes
<1>4. CASE Expire \/ Interrupt
  <2>1. UNCHANGED <<leader, state, reused, stray, written, own, behind, mode, result>>
    BY <1>4 DEF Expire, Interrupt, group, output, clock
  <2>2. pc' \in Labels
    BY <1>4 DEF Expire, Interrupt, Labels
  <2>3. expired' \in BOOLEAN /\ patience' \in BOOLEAN /\ cancelled' \in BOOLEAN
    BY <1>4 DEF Expire, Interrupt, clock
  <2> QED
    BY <2>1, <2>2, <2>3
<1>5. CASE UNCHANGED vars
  <2>1. UNCHANGED <<leader, state, reused, stray, written, own, behind, expired, patience,
                    cancelled, mode, pc, result>>
    BY <1>5 DEF vars, group, output, clock
  <2> QED
    BY <2>1
<1> QED
  BY <1>2, <1>3, <1>4, <1>5 DEF Next

(* Every step keeps what callers rely on.                                   *)
LEMMA CallStep ==
  ASSUME SubprocessInv, [Next]_vars
  PROVE  CallInv'
<1> USE DEF SubprocessInv, CommandIsReaped, CapturedGroupIsDead, OutputIsWhole
<1>1. CASE Caller
  <2>1. CASE Spawn
    BY <2>1 DEF TypeOK, CallInv, Spawn, Goto, output, clock, Alive, InGroup, Captured
  <2>2. CASE SpawnFails
    BY <2>2 DEF CallInv, SpawnFails, Return, Failed, group, output, clock, Alive, InGroup, Captured
  <2>3. CASE Mirror
    BY <2>3 DEF CallInv, Mirror, Failed, Goto, group, clock, InGroup, Captured
  <2>4. CASE Guard
    BY <2>4 DEF CallInv, Guard, Error, Failed, Goto, group, output, clock, InGroup, Captured
  <2>5. CASE TryWait
    BY <2>5 DEF CallInv, TryWait, Reap, Goto, output, clock, Alive, InGroup, Captured
  <2>6. CASE Sleep
    BY <2>6 DEF CallInv, Sleep, Failed, Goto, group, output, clock, InGroup, Captured
  <2>7. CASE KillDescendants
    BY <2>7 DEF TypeOK, CallInv, KillDescendants, KillGroup, Goto, output, clock, Alive, InGroup,
       Captured, LeaderUp
  <2>8. CASE Drain
    BY <2>8 DEF CallInv, Drain, Goto, Return, Failed, group, clock, InGroup, Captured
  <2>9. CASE ReadOutput
    BY <2>9 DEF TypeOK, CallInv, ReadOutput, Return, Failed, group, output, clock, InGroup, Captured
  <2>10. CASE Abort
    <3>1. result' = result /\ pc' = "returned" /\ leader' = "reaped" /\ UNCHANGED <<written, own, mode>>
      BY <2>10 DEF Abort, Goto, output
    <3>2. InGroup' = {}
      BY <2>10 DEF Abort, InGroup, Alive
    <3>3. own' <= written'
      BY <3>1 DEF CallInv
    <3>4. result.status # "ok"
      BY <2>10 DEF CallInv, Abort
    <3> QED
      BY <3>1, <3>2, <3>3, <3>4 DEF CallInv
  <2>11. CASE WaitUnderDeadline
    BY <2>11 DEF CallInv, WaitUnderDeadline, Reap, Goto, Return, output, clock, Alive, InGroup, Captured
  <2>12. CASE Terminate
    BY <2>12 DEF TypeOK, CallInv, Terminate, TermGroup, Goto, output, clock, Alive, InGroup, Captured
  <2>13. CASE Linger
    BY <2>13 DEF CallInv, Linger, Return, Failed, output, clock, InGroup, Captured
  <2> QED
    BY <1>1, <2>1, <2>2, <2>3, <2>4, <2>5, <2>6, <2>7, <2>8, <2>9, <2>10, <2>11, <2>12, <2>13
    DEF Caller
<1>2. CASE Processes
  <2>1. CASE LeaderEnds
    BY <2>1 DEF TypeOK, CallInv, LeaderEnds, LeaderUp, Alive, InGroup, Captured, clock
  <2>2. CASE Fork \/ Leave \/ DescendantEnds
    <3>1. UNCHANGED <<leader, written, own, mode, pc, result>>
      BY <2>2 DEF Fork, Leave, DescendantEnds, output
    <3>2. InGroup = {} /\ ~LeaderUp => InGroup' = {}
      BY <2>2 DEF TypeOK, Fork, Leave, DescendantEnds, InGroup, Alive
    <3>3. ~LeaderUp /\ (\A d \in Descendants : state[d] = "unborn") =>
            \A d \in Descendants : state'[d] = "unborn"
      BY <2>2 DEF TypeOK, Fork, Leave, DescendantEnds, InGroup, Alive
    <3> QED
      BY <3>1, <3>2, <3>3 DEF CallInv, LeaderUp, Alive, Captured
  <2>3. CASE Write
    BY <2>3 DEF TypeOK, CallInv, Write, group, clock, InGroup, Captured
  <2>4. CASE NumberIsReused
    BY <2>4 DEF CallInv, NumberIsReused, group, output, clock, InGroup, Captured
  <2> QED
    BY <1>2, <2>1, <2>2, <2>3, <2>4 DEF Processes
<1>3. CASE Expire \/ Interrupt
  BY <1>3 DEF CallInv, Expire, Interrupt, group, output, clock, InGroup, Captured
<1>4. CASE UNCHANGED vars
  BY <1>4 DEF CallInv, vars, group, output, clock, InGroup, Captured
<1> QED
  BY <1>1, <1>2, <1>3, <1>4 DEF Next

THEOREM SubprocessInvariant == Spec => []SubprocessInv
<1>1. SubprocessInv /\ [Next]_vars => SubprocessInv'
  BY TypeStep, CallStep DEF SubprocessInv
<1> QED
  BY <1>1, InitInv, PTL DEF Spec

--------------------------------------------------------------------------------

(* The variables keep their types, for any descendants and any limit.       *)
THEOREM TypeCorrect == Spec => []TypeOK
<1>1. SubprocessInv => TypeOK
  BY DEF SubprocessInv
<1> QED
  BY <1>1, SubprocessInvariant, PTL

(* Every way out of execute and run_with_deadline has waited for the        *)
(* command.                                                                 *)
THEOREM CommandsAreReaped == Spec => []CommandIsReaped
<1>1. SubprocessInv => CommandIsReaped
  BY DEF SubprocessInv, CallInv
<1> QED
  BY <1>1, SubprocessInvariant, PTL

(* Every way out of execute has killed the group of the command.            *)
THEOREM GroupsAreDead == Spec => []CapturedGroupIsDead
<1>1. SubprocessInv => CapturedGroupIsDead
  BY DEF SubprocessInv, CallInv
<1> QED
  BY <1>1, SubprocessInvariant, PTL

(* execute returns the whole output, or an error.                           *)
THEOREM OutputsAreWhole == Spec => []OutputIsWhole
<1>1. SubprocessInv => OutputIsWhole
  BY DEF SubprocessInv, CallInv
<1> QED
  BY <1>1, SubprocessInvariant, PTL
================================================================================

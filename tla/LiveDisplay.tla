------------------------------- MODULE LiveDisplay -----------------------------
(***************************************************************************)
(* A group of live rows with one row, of which every thread has a clone    *)
(* (capulus/src/progress.rs, LiveGroup and LiveRow).                       *)
(*                                                                         *)
(* Whoever first sets finished completes the row; the mutex of the row     *)
(* orders its last line after the lines of those that came before.         *)
(***************************************************************************)
EXTENDS Terminal, FiniteSets

CONSTANTS
  Messages,  \* what a row shows
  MaxLines,  \* how many lines there may be before a row is changed no more
  Nothing    \* no message

ASSUME LiveAssumption == Nothing \notin Messages

VARIABLES
  rowAt,     \* rowAt[t]: what thread t does with the row
  given,     \* given[t]: the message that it does it with
  message,   \* the message of the row
  rowBar,    \* the bar of the row: "none", "attached", "cleared" or "dropped"
  finished,  \* the row is finished
  clones,    \* the threads whose clone of the row is not dropped
  summary,   \* the message of the footer
  footer,    \* the bar of the footer
  over       \* whether the group is over: "none" before there is one, "no", "yes"

live == <<rowAt, given, message, rowBar, finished, clones, summary, footer, over>>

LiveLine(from, kind, text) == [from |-> from, kind |-> kind, text |-> text]

Plainly(new) == IF displayMode = "plain" THEN WriteLines(new) ELSE UNCHANGED lines

Bar == IF displayMode = "interactive" THEN "attached" ELSE "none"

Silent == UNCHANGED <<displayMode, broken, target, depth, nested, busy>>

LiveInit ==
  /\ rowAt = [t \in Threads |-> "none"]
  /\ given = [t \in Threads |-> Nothing]
  /\ message = Nothing
  /\ rowBar = "none"
  /\ finished = FALSE
  /\ clones = {}
  /\ summary = Nothing
  /\ footer = "none"
  /\ over = "none"

--------------------------------------------------------------------------------
(* The group *)

(* LiveGroup::new                                                          *)
NewGroup ==
  /\ over = "none"
  /\ over' = "no"
  /\ footer' = Bar
  /\ Plainly(<<LiveLine("group", "start", Nothing)>>)
  /\ UNCHANGED <<rowAt, given, message, rowBar, finished, clones, summary>> /\ Silent

(* create_row, and a clone for every thread                                *)
CreateRow ==
  /\ over # "none" /\ clones = {} /\ message = Nothing
  /\ \E m \in Messages :
       /\ message' = m
       /\ Plainly(<<LiveLine("row", "item", m)>>)
  /\ rowBar' = Bar
  /\ clones' = Threads
  /\ rowAt' = [t \in Threads |-> "free"]
  /\ UNCHANGED <<given, finished, summary, footer, over>> /\ Silent

(* set_summary, where the last one is a heartbeat ago, and print_summary:  *)
(* neither looks whether the group is finished.                            *)
Summarize ==
  /\ over # "none" /\ summary = Nothing
  /\ \E m \in Messages, kind \in {"wait", "status"} :
       /\ summary' = m
       /\ IF footer = "attached" THEN UNCHANGED lines
                                 ELSE Plainly(<<LiveLine("group", kind, m)>>)
  /\ UNCHANGED <<rowAt, given, message, rowBar, finished, clones, footer, over>> /\ Silent

(* finish, fail, abandon, clear or drop: only the first one counts.        *)
FinishGroup ==
  /\ over = "no"
  /\ over' = "yes"
  /\ footer' = IF footer = "attached" THEN "cleared" ELSE footer
  /\ \/ displayMode # "off" /\ WriteLines(<<LiveLine("group", "outcome", Nothing)>>)
     \/ UNCHANGED lines
  /\ UNCHANGED <<rowAt, given, message, rowBar, finished, clones, summary>> /\ Silent

--------------------------------------------------------------------------------
(* The row *)

(* set_phase and set_rendered, all under the mutex of the row              *)
SetMessage(t) ==
  /\ rowAt[t] = "free" /\ Len(lines) < MaxLines
  /\ \E m \in Messages :
       /\ ~(m = message \/ finished)
       /\ message' = m
       /\ IF rowBar = "attached" THEN UNCHANGED lines
                                 ELSE Plainly(<<LiveLine("row", "phase", m)>>)
  /\ UNCHANGED <<rowAt, given, rowBar, finished, clones, summary, footer, over>> /\ Silent

(* set_detail looks at finished before it takes the mutex, and prints      *)
(* nothing.                                                                *)
CheckDetail(t) ==
  /\ rowAt[t] = "free" /\ ~finished
  /\ \E m \in Messages : given' = [given EXCEPT ![t] = m]
  /\ rowAt' = [rowAt EXCEPT ![t] = "detail"]
  /\ UNCHANGED <<message, rowBar, finished, clones, summary, footer, over, lines>> /\ Silent

SetDetail(t) ==
  /\ rowAt[t] = "detail"
  /\ message' = given[t]
  /\ rowAt' = [rowAt EXCEPT ![t] = "free"]
  /\ UNCHANGED <<given, rowBar, finished, clones, summary, footer, over, lines>> /\ Silent

(* complete and clear: the swap of finished decides who goes on.           *)
SwapFinished(t) ==
  /\ rowAt[t] = "free" /\ ~finished
  /\ finished' = TRUE
  /\ \E how \in {"completing", "clearing"} : rowAt' = [rowAt EXCEPT ![t] = how]
  /\ UNCHANGED <<given, message, rowBar, clones, summary, footer, over, lines>> /\ Silent

(* The bar is taken under the mutex.  With a bar the line is written with  *)
(* the mutex, in plain mode after it.                                      *)
TakeBar(t) ==
  /\ rowAt[t] \in {"completing", "clearing"}
  /\ rowBar' = IF rowBar = "attached" THEN "cleared" ELSE rowBar
  /\ IF rowBar = "attached" /\ rowAt[t] = "completing"
     THEN WriteLines(<<LiveLine("row", "outcome", Nothing)>>)
     ELSE UNCHANGED lines
  /\ rowAt' = [rowAt EXCEPT ![t] =
              IF rowAt[t] = "completing" /\ displayMode = "plain" THEN "reporting" ELSE "free"]
  /\ UNCHANGED <<given, message, finished, clones, summary, footer, over>> /\ Silent

Report(t) ==
  /\ rowAt[t] = "reporting"
  /\ WriteLines(<<LiveLine("row", "outcome", Nothing)>>)
  /\ rowAt' = [rowAt EXCEPT ![t] = "free"]
  /\ UNCHANGED <<given, message, rowBar, finished, clones, summary, footer, over>> /\ Silent

(* LiveRow::drop clears the row when it sees no other clone, and the clone *)
(* is given up only after that: two that are dropped at once may both see  *)
(* the other.                                                              *)
DropRow(t) ==
  /\ rowAt[t] = "free" /\ t \in clones
  /\ IF clones = {t} /\ ~finished
     THEN /\ finished' = TRUE
          /\ rowBar' = IF rowBar = "attached" THEN "cleared" ELSE rowBar
     ELSE UNCHANGED <<finished, rowBar>>
  /\ rowAt' = [rowAt EXCEPT ![t] = "dropping"]
  /\ UNCHANGED <<given, message, clones, summary, footer, over, lines>> /\ Silent

(* The last clone takes a bar with it that nobody cleared.                 *)
GiveUpRow(t) ==
  /\ rowAt[t] = "dropping"
  /\ clones' = clones \ {t}
  /\ rowBar' = IF clones = {t} /\ rowBar = "attached" THEN "dropped" ELSE rowBar
  /\ rowAt' = [rowAt EXCEPT ![t] = "gone"]
  /\ UNCHANGED <<given, message, finished, summary, footer, over, lines>> /\ Silent

Group == NewGroup \/ CreateRow \/ Summarize \/ FinishGroup

Row(t) ==
  \/ SetMessage(t) \/ CheckDetail(t) \/ SetDetail(t)
  \/ SwapFinished(t) \/ TakeBar(t) \/ Report(t) \/ DropRow(t) \/ GiveUpRow(t)

================================================================================

------------------------------- MODULE Subprocess ------------------------------
(***************************************************************************)
(* A caller that runs a command in a process group of its own: captured    *)
(* (capulus/src/process.rs, CaptureConfig::run), captured and mirrored to  *)
(* the terminal (run_streaming), or only under a deadline                  *)
(* (capulus/src/managed/build.rs, run_with_deadline).                      *)
(*                                                                         *)
(* The command may start descendants, in its group or in a session of      *)
(* their own, and all of them may write to the output files, ignore        *)
(* SIGTERM and end when they like.  waitpid of a child of one's own does   *)
(* not fail.                                                               *)
(***************************************************************************)
EXTENDS Naturals, FiniteSets

CONSTANTS
  Descendants,  \* the processes that the command may start
  Limit,        \* max_output_bytes, in units of what is written at a time
  Escapes       \* whether descendants may leave the group (setsid)

ASSUME SubprocessAssumption ==
  /\ IsFiniteSet(Descendants)
  /\ Limit \in Nat
  /\ Escapes \in BOOLEAN

VARIABLES
  leader,     \* the command itself
  state,      \* state[d]: the process d
  reused,     \* another process group has the number of the command's
  stray,      \* a group that was not the command's has been killed
  written,    \* the length of an output file, of which one more than Limit stands for more
  own,        \* how much of it the command itself had written when it ended
  behind,     \* there is output that was not mirrored yet
  expired,    \* the time is up
  patience,   \* the two seconds after SIGTERM are up
  cancelled,  \* INTERRUPTED
  mode,       \* which of the three callers this is
  pc,         \* what the caller does next
  result      \* what it returns, with how much of the output

group   == <<leader, state>>
output  == <<written, own, behind>>
clock   == <<expired, patience>>
vars    == <<group, reused, stray, output, clock, cancelled, mode, pc, result>>

Captured == mode \in {"capture", "stream"}

Labels == {"start", "mirror", "guard", "wait", "sleep", "kill", "drain", "read", "abort",
           "term", "linger", "returned", "exited"}

Ended == pc \in {"returned", "exited"}

Pending == [status |-> "pending", output |-> 0]
Failed(status) == [status |-> status, output |-> 0]

Goto(label) == pc' = label /\ UNCHANGED result

Return(value) == pc' = "returned" /\ result' = value

--------------------------------------------------------------------------------
(* The command's process group *)

Alive    == {"running", "deaf"}
InGroup  == {d \in Descendants : state[d] \in Alive}
LeaderUp == leader \in Alive

(* kill(-pid, SIGKILL) reaches whoever has that number for a group.        *)
KillGroup ==
  /\ leader' = IF LeaderUp THEN "zombie" ELSE leader
  /\ state' = [d \in Descendants |-> IF d \in InGroup THEN "dead" ELSE state[d]]
  /\ stray' = (stray \/ reused)

(* SIGTERM: those that do not ignore it end, at once or in their own time.  *)
TermGroup ==
  /\ leader' \in {leader} \union (IF leader = "running" THEN {"zombie"} ELSE {})
  /\ \E ended \in SUBSET {d \in Descendants : state[d] = "running"} :
       state' = [d \in Descendants |-> IF d \in ended THEN "dead" ELSE state[d]]

Reap == leader' = (IF leader = "zombie" THEN "reaped" ELSE leader) /\ UNCHANGED state

--------------------------------------------------------------------------------
(* CaptureConfig::execute *)

Spawn ==
  /\ pc = "start"
  /\ ~(Captured /\ cancelled)
  /\ leader' \in Alive
  /\ Goto(IF mode = "stream" THEN "mirror" ELSE IF mode = "capture" THEN "guard" ELSE "wait")
  /\ UNCHANGED <<state, reused, stray, output, clock, cancelled, mode>>

SpawnFails ==
  /\ pc = "start"
  /\ Return(Failed(IF Captured /\ cancelled THEN "cancelled" ELSE "failed"))
  /\ UNCHANGED <<group, reused, stray, output, clock, cancelled, mode>>

(* mirror_output of a tick, which does so much and no more; a failure of    *)
(* the terminal is an error.                                               *)
Mirror ==
  /\ pc = "mirror"
  /\ \/ (behind' = FALSE \/ UNCHANGED behind) /\ Goto("guard")
     \/ UNCHANGED behind /\ pc' = "abort" /\ result' = Failed("failed")
  /\ UNCHANGED <<group, reused, stray, written, own, clock, cancelled, mode>>

(* The checks of a tick: cancellation, deadline, output limit, and         *)
(* whether the command has ended.                                          *)
Error ==
  CASE cancelled       -> "cancelled"
    [] expired         -> "late"
    [] written > Limit -> "limit"
    [] OTHER           -> "none"

Guard ==
  /\ pc = "guard"
  /\ IF Error = "none" THEN Goto("wait") ELSE pc' = "abort" /\ result' = Failed(Error)
  /\ UNCHANGED <<group, reused, stray, output, clock, cancelled, mode>>

TryWait ==
  /\ pc = "wait"
  /\ Captured
  /\ Reap
  /\ Goto(IF leader = "zombie" THEN "kill" ELSE "sleep")
  /\ UNCHANGED <<reused, stray, output, clock, cancelled, mode>>

Sleep ==
  /\ pc = "sleep"
  /\ IF cancelled THEN pc' = "abort" /\ result' = Failed("cancelled")
     ELSE Goto(IF mode = "stream" THEN "mirror" ELSE "guard")
  /\ UNCHANGED <<group, reused, stray, output, clock, cancelled, mode>>

\* mutant of KillDescendants
KillDescendantsForgotten ==
  /\ pc = "kill"
  /\ Goto(IF mode = "stream" THEN "drain" ELSE "read")
  /\ UNCHANGED <<group, reused, stray, output, clock, cancelled, mode>>

(* drop(child), of a command that has ended and been waited for.           *)
KillDescendants ==
  /\ pc = "kill"
  /\ KillGroup
  /\ Goto(IF mode = "stream" THEN "drain" ELSE "read")
  /\ UNCHANGED <<reused, output, clock, cancelled, mode>>

\* mutant of Drain
DrainUntilNothing ==
  /\ pc = "drain"
  /\ IF behind THEN UNCHANGED pc ELSE pc' = "read"
  /\ behind' = FALSE
  /\ UNCHANGED <<group, reused, stray, written, own, clock, cancelled, mode, result>>

(* The rest of the output is mirrored while there is more than before; the  *)
(* ticks that find nothing new are one step.                               *)
Drain ==
  /\ pc = "drain"
  /\ CASE ~behind              -> Goto("read") /\ UNCHANGED behind
       [] behind /\ cancelled  -> Return(Failed("cancelled")) /\ UNCHANGED behind
       [] OTHER                -> \/ behind' = FALSE /\ Goto("drain")
                                  \/ Return(Failed("failed")) /\ UNCHANGED behind
  /\ UNCHANGED <<group, reused, stray, written, own, clock, cancelled, mode>>

\* mutant of ReadOutput
ReadUpToLimit ==
  /\ pc = "read"
  /\ Return([status |-> "ok", output |-> IF written > Limit THEN Limit ELSE written])
  /\ UNCHANGED <<group, reused, stray, output, clock, cancelled, mode>>

(* One byte more than the limit is read, to tell; what is not UTF-8 fails.  *)
ReadOutput ==
  /\ pc = "read"
  /\ \/ Return(IF written > Limit THEN Failed("limit") ELSE [status |-> "ok", output |-> written])
     \/ Return(Failed("failed"))
  /\ UNCHANGED <<group, reused, stray, output, clock, cancelled, mode>>

\* mutant of Abort
AbortWithoutWaiting ==
  /\ pc = "abort"
  /\ KillGroup
  /\ Goto("returned")
  /\ UNCHANGED <<reused, output, clock, cancelled, mode>>

(* An error drops the child: its group is killed and it is waited for.     *)
Abort ==
  /\ pc = "abort"
  /\ stray' = (stray \/ reused)
  /\ leader' = "reaped"
  /\ state' = [d \in Descendants |-> IF d \in InGroup THEN "dead" ELSE state[d]]
  /\ Goto("returned")
  /\ UNCHANGED <<reused, output, clock, cancelled, mode>>

--------------------------------------------------------------------------------
(* run_with_deadline *)

WaitUnderDeadline ==
  /\ pc = "wait"
  /\ mode = "deadline"
  /\ Reap
  /\ IF leader = "zombie"
     THEN Return([status |-> "ok", output |-> 0]) \/ Return(Failed("failed"))
     ELSE Goto(IF expired THEN "term" ELSE "wait")
  /\ UNCHANGED <<reused, stray, output, clock, cancelled, mode>>

Terminate ==
  /\ pc = "term"
  /\ TermGroup
  /\ Goto("linger")
  /\ UNCHANGED <<reused, stray, output, clock, cancelled, mode>>

\* mutant of Linger
LingerWithoutKill ==
  /\ pc = "linger"
  /\ leader = "zombie"
  /\ leader' = "reaped"
  /\ Return(Failed("late"))
  /\ UNCHANGED <<state, reused, stray, output, clock, cancelled, mode>>

(* The command is waited for, and after two seconds its group is killed.   *)
Linger ==
  /\ pc = "linger"
  /\ \/ /\ leader = "zombie"
        /\ leader' = "reaped"
        /\ UNCHANGED <<state, stray>>
     \/ /\ LeaderUp
        /\ patience
        /\ leader' = "reaped"
        /\ state' = [d \in Descendants |-> IF d \in InGroup THEN "dead" ELSE state[d]]
        /\ stray' = (stray \/ reused)
  /\ Return(Failed("late"))
  /\ UNCHANGED <<reused, output, clock, cancelled, mode>>

--------------------------------------------------------------------------------
(* The processes, the clock and the terminal *)

LeaderEnds ==
  /\ LeaderUp
  /\ leader' = "zombie"
  /\ own' = written
  /\ UNCHANGED <<state, reused, stray, written, behind, clock, cancelled, mode, pc, result>>

(* A process starts another, which may leave the group.                    *)
Fork ==
  /\ LeaderUp \/ InGroup # {}
  /\ \E d \in Descendants : /\ state[d] = "unborn"
                            /\ \E s \in Alive : state' = [state EXCEPT ![d] = s]
  /\ UNCHANGED <<leader, reused, stray, output, clock, cancelled, mode, pc, result>>

Leave ==
  /\ Escapes
  /\ \E d \in InGroup : state' = [state EXCEPT ![d] = "away"]
  /\ UNCHANGED <<leader, reused, stray, output, clock, cancelled, mode, pc, result>>

DescendantEnds ==
  /\ \E d \in Descendants : /\ state[d] \in Alive \union {"away"}
                            /\ state' = [state EXCEPT ![d] = "dead"]
  /\ UNCHANGED <<leader, reused, stray, output, clock, cancelled, mode, pc, result>>

Write ==
  /\ LeaderUp \/ \E d \in Descendants : state[d] \in Alive \union {"away"}
  /\ written' = IF written > Limit THEN written ELSE written + 1
  /\ behind' = TRUE
  /\ UNCHANGED <<group, reused, stray, own, clock, cancelled, mode, pc, result>>

(* The number of a group is free when its leader has been waited for and   *)
(* nobody is in it.                                                        *)
NumberIsReused ==
  /\ leader = "reaped"
  /\ InGroup = {}
  /\ ~Ended
  /\ reused' = TRUE
  /\ UNCHANGED <<group, stray, output, clock, cancelled, mode, pc, result>>

Expire ==
  /\ pc # "start" /\ ~Ended
  /\ \/ ~expired /\ expired' = TRUE /\ UNCHANGED patience
     \/ pc = "linger" /\ patience' = TRUE /\ UNCHANGED expired
  /\ UNCHANGED <<group, reused, stray, output, cancelled, mode, pc, result>>

(* handle_sigint: the second one ends the caller.                          *)
Interrupt ==
  /\ Captured
  /\ ~Ended
  /\ cancelled' = TRUE
  /\ pc' = IF cancelled THEN "exited" ELSE pc
  /\ UNCHANGED <<group, reused, stray, output, clock, mode, result>>

Init ==
  /\ leader = "unborn"
  /\ state = [d \in Descendants |-> "unborn"]
  /\ reused = FALSE /\ stray = FALSE
  /\ written = 0 /\ own = 0 /\ behind = FALSE
  /\ expired = FALSE /\ patience = FALSE
  /\ cancelled = FALSE
  /\ mode \in {"capture", "stream", "deadline"}
  /\ pc = "start"
  /\ result = Pending

Caller ==
  \/ Spawn \/ SpawnFails \/ Mirror \/ Guard \/ TryWait \/ Sleep \/ KillDescendants \/ Drain
  \/ ReadOutput \/ Abort \/ WaitUnderDeadline \/ Terminate \/ Linger

Processes == LeaderEnds \/ Fork \/ Leave \/ DescendantEnds \/ Write \/ NumberIsReused

Next == Caller \/ Processes \/ Expire \/ Interrupt

Spec == Init /\ [][Next]_vars

(* The caller goes on, and time passes.                                    *)
FairSpec == Spec /\ WF_vars(Caller) /\ WF_vars(Expire)

--------------------------------------------------------------------------------
(* Properties *)

(* The variables range over the states of processes and callers.           *)
TypeOK ==
  /\ leader \in {"unborn", "running", "deaf", "zombie", "reaped"}
  /\ state \in [Descendants -> {"unborn", "running", "deaf", "away", "dead"}]
  /\ written \in 0..(Limit + 1) /\ own \in 0..(Limit + 1)
  /\ reused \in BOOLEAN /\ stray \in BOOLEAN /\ behind \in BOOLEAN
  /\ expired \in BOOLEAN /\ patience \in BOOLEAN /\ cancelled \in BOOLEAN
  /\ mode \in {"capture", "stream", "deadline"}
  /\ pc \in Labels
  /\ result \in [status : {"pending", "ok", "failed", "cancelled", "late", "limit"},
                 output : 0..Limit]

(* However a call ends, by the command's exit, an error, a deadline or a    *)
(* cancellation, and whatever races it, the command has been waited for     *)
(* when the call returns: no zombie is left.                                *)
CommandIsReaped == pc = "returned" => leader \in {"unborn", "reaped"}

(* "Descendants must not outlive the captured command or continue writing   *)
(* its output" (capulus/src/process.rs:108): none that has stayed in the    *)
(* group does.                                                              *)
CapturedGroupIsDead == pc = "returned" /\ Captured => InGroup = {}

(* What a captured call returns is all that the command itself has written, *)
(* and no more than the limit: output is never cut short without an error.  *)
OutputIsWhole ==
  pc = "returned" /\ Captured /\ result.status = "ok" =>
    own <= result.output /\ result.output <= Limit

(* A call ends, at the latest when its time is up, whatever the command     *)
(* does; only where the rest of the output is mirrored can it be kept, by   *)
(* a descendant that has left the group and goes on writing.                *)
Kept == pc = "drain" /\ \E d \in Descendants : state[d] = "away"

CallsReturn == (pc # "start") ~> (Ended \/ Kept)

(* A cancelled call ends whatever the command and its descendants do, even  *)
(* if they never stop writing.                                              *)
CancellationsReturn == (cancelled /\ pc # "start") ~> Ended

(* What these sentences say is not what the code does in every case: TLC    *)
(* refutes each of them.                                                   *)

(* "Capture a child and its descendants with bounded output and a deadline" *)
(* (capulus/src/process.rs:49): a call ends in any case.                    *)
DeadlinesHold == (pc # "start") ~> Ended

(* The whole sentence of process.rs:108, for descendants in sessions of     *)
(* their own as well.                                                       *)
DescendantsDoNotOutlive ==
  pc = "returned" /\ Captured /\ result.status = "ok" =>
    \A d \in Descendants : state[d] \in {"unborn", "dead"}

(* "The child creates its own process group before exec; a negative PID     *)
(* targets that group" (capulus/src/process.rs:164).                        *)
KillsItsOwnGroup == ~stray

(* "deadline_terminates_the_complete_child_process_group"                   *)
(* (capulus/src/managed/build.rs:560, a test): nobody of the group is left      *)
(* after a deadline.                                                        *)
DeadlineTerminatesGroup ==
  pc = "returned" /\ mode = "deadline" /\ result.status = "late" => InGroup = {}

================================================================================

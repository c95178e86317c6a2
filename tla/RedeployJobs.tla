------------------------------ MODULE RedeployJobs -----------------------------
(***************************************************************************)
(* The redeploy jobs of a managed product (capulus/src/managed/job.rs,     *)
(* with the calls that agent.rs, server.rs and worker.rs make): the files  *)
(* of the job store, the tasks of the agent that schedule and reconcile    *)
(* jobs, the transient unit of each job, and its worker.                   *)
(*                                                                         *)
(* Files are read and written by several processes with no lock but the    *)
(* scheduling lock, so every read and every write is an action of its own. *)
(* A process is a task of the agent or the worker of a job; workers go by  *)
(* the number of their job.                                                *)
(***************************************************************************)
EXTENDS Integers, FiniteSets

CONSTANTS
  Jobs,         \* the jobs that may be scheduled, numbered
  Tasks,        \* the tasks of the agent that touch the job store at once
  None,         \* no job, or no task
  LastPhase,    \* rank of the phase "complete"; 8 in the code
  MaxFaults     \* bound: how many processes fail or are killed

Queued    == 0
Complete  == LastPhase
Failed    == LastPhase + 1
Unwritten == -1

(* is_terminal *)
Terminal(rank) == rank >= Complete

ASSUME RedeployJobsAssumption ==
  /\ Jobs \subseteq Nat
  /\ Tasks \intersect Jobs = {}
  /\ None \notin Jobs \union Tasks
  /\ LastPhase \in Nat \ {0}
  /\ MaxFaults \in Nat

VARIABLES
  phase,     \* phase[j]: the rank of the phase in the status of job j
  active,    \* the job that active.json names
  requests,  \* the jobs whose secret request waits under the runtime directory
  fresh,     \* the requests written less than the start grace ago, those
             \* that were removed within it included
  stale,     \* the jobs whose status is of an earlier boot
  unit,      \* unit[j]: the transient unit of job j
  late,      \* the jobs whose units started late, see StartsLate
  agent,     \* "down", "starting" or "up"
  lock,      \* the task that holds the scheduling lock
  pc,        \* pc[p]: what process p does next
  subject,   \* subject[p]: the job that process p works on
  seen,      \* seen[p]: the phase that a task read, or that a worker last wrote
  ret,       \* ret[p]: where process p goes on after clear_active
  faults     \* how many failures have happened

store   == <<phase, active, requests>>
systemd == <<fresh, stale, unit, late, agent>>
locals  == <<pc, subject, seen, ret>>
vars    == <<store, systemd, lock, locals, faults>>

Procs == Tasks \union Jobs

--------------------------------------------------------------------------------

Fault == faults < MaxFaults /\ faults' = faults + 1

(* What a process remembers when it is doing nothing. *)
NoSubject(p) == IF p \in Jobs THEN p ELSE None

(* Every process of a set goes idle. *)
Rest(ps) ==
  /\ pc' = [p \in Procs |-> IF p \in ps THEN "idle" ELSE pc[p]]
  /\ subject' = [p \in Procs |-> IF p \in ps THEN NoSubject(p) ELSE subject[p]]
  /\ seen' = [p \in Procs |-> IF p \in ps THEN Queued ELSE seen[p]]
  /\ ret' = [p \in Procs |-> IF p \in ps THEN "idle" ELSE ret[p]]

Goto(p, label) ==
  IF label = "idle"
    THEN Rest({p})
    ELSE pc' = [pc EXCEPT ![p] = label] /\ UNCHANGED <<subject, seen, ret>>

(* The end of a task or of a worker.  A task that schedules drops the lock *)
(* and one that starts the agent leaves it up.                             *)
End(p) ==
  /\ Goto(p, "idle")
  /\ lock' = IF lock = p THEN None ELSE lock
  /\ unit' = IF p \in Jobs THEN [unit EXCEPT ![p] = "gone"] ELSE unit
  /\ agent' = IF agent = "starting" /\ p \in Tasks THEN "up" ELSE agent

(* The same by an error: an agent that was starting does not come up. *)
Abort(p) ==
  /\ Goto(p, "idle")
  /\ lock' = IF lock = p THEN None ELSE lock
  /\ unit' = IF p \in Jobs THEN [unit EXCEPT ![p] = "gone"] ELSE unit
  /\ agent' = IF agent = "starting" /\ p \in Tasks THEN "down" ELSE agent

Resume(p, label) ==
  IF label = "idle" THEN End(p) ELSE Goto(p, label) /\ UNCHANGED <<lock, unit, agent>>

(* A process goes on with job j, and afterwards at label next. *)
Call(p, label, j, next) ==
  /\ pc' = [pc EXCEPT ![p] = label]
  /\ subject' = [subject EXCEPT ![p] = j]
  /\ ret' = [ret EXCEPT ![p] = next]
  /\ UNCHANGED seen

--------------------------------------------------------------------------------
(* JobStore::fail, JobStore::clear_active and JobStore::remove_request *)

FailRead(p) ==
  /\ pc[p] = "fail"
  /\ IF Terminal(phase[subject[p]])
       THEN Abort(p)
       ELSE Goto(p, "fail_write") /\ UNCHANGED <<lock, unit, agent>>
  /\ UNCHANGED <<store, fresh, stale, late, faults>>

FailWrite(p) ==
  /\ pc[p] = "fail_write"
  /\ phase' = [phase EXCEPT ![subject[p]] = Failed]
  /\ Goto(p, "clear")
  /\ UNCHANGED <<active, requests, systemd, lock, faults>>

ClearRead(p) ==
  /\ pc[p] = "clear"
  /\ IF active = subject[p]
       THEN Goto(p, "clear_remove") /\ UNCHANGED <<lock, unit, agent>>
       ELSE Resume(p, ret[p])
  /\ UNCHANGED <<store, fresh, stale, late, faults>>

(* The file is removed, whichever job it names by now. *)
ClearRemove(p) ==
  /\ pc[p] = "clear_remove"
  /\ active' = None
  /\ Resume(p, ret[p])
  /\ UNCHANGED <<phase, requests, fresh, stale, late, faults>>

(* After a reconciliation the task goes on with its scheduling, if any;    *)
(* after a unit that did not start it ends.                                *)
DropRequest(t) ==
  /\ pc[t] \in {"drop", "drop_unstarted"}
  /\ requests' = requests \ {subject[t]}
  /\ Resume(t, IF pc[t] = "drop" /\ lock = t THEN "plan" ELSE "idle")
  /\ UNCHANGED <<phase, active, fresh, stale, late, faults>>

--------------------------------------------------------------------------------
(* RedeployCoordinator::reconcile_active, by a monitor of the agent, for a *)
(* client that asks for the status, or at the beginning of schedule        *)

Reconciled(t) == Resume(t, IF lock = t THEN "plan" ELSE "idle")

BeginReconcile(t) ==
  /\ agent = "up"
  /\ pc[t] = "idle"
  /\ Goto(t, "reconcile")
  /\ UNCHANGED <<store, systemd, lock, faults>>

ReadActive(t) ==
  /\ pc[t] = "reconcile"
  /\ IF active = None
       THEN Reconciled(t)
       ELSE Call(t, "read_status", active, "idle") /\ UNCHANGED <<lock, unit, agent>>
  /\ UNCHANGED <<store, fresh, stale, late, faults>>

\* mutant of ReadStatus
ReadStatusKeepingPointer(t) ==
  /\ pc[t] = "read_status"
  /\ seen' = [seen EXCEPT ![t] = phase[subject[t]]]
  /\ pc' = [pc EXCEPT ![t] = "query"]
  /\ ret' = [ret EXCEPT ![t] = IF lock = t THEN "plan" ELSE "idle"]
  /\ UNCHANGED <<subject, store, systemd, lock, faults>>

ReadStatus(t) ==
  /\ pc[t] = "read_status"
  /\ seen' = [seen EXCEPT ![t] = phase[subject[t]]]
  /\ pc' = [pc EXCEPT ![t] = IF Terminal(seen'[t]) THEN "clear" ELSE "query"]
  /\ ret' = [ret EXCEPT ![t] = IF lock = t THEN "plan" ELSE "idle"]
  /\ UNCHANGED <<subject, store, systemd, lock, faults>>

(* redeploy_is_active: the unit is active when the service manager answers *)
QueryAlive(t) ==
  /\ pc[t] = "query"
  /\ unit[subject[t]] = "active"
  /\ Reconciled(t)
  /\ UNCHANGED <<store, fresh, stale, late, faults>>

\* mutant of QueryStopped
QueryStoppedWithoutGrace(t) ==
  /\ pc[t] = "query"
  /\ unit[subject[t]] # "active"
  /\ Goto(t, "reread")
  /\ UNCHANGED <<store, systemd, lock, faults>>

(* It is not, and may still start if the job was queued when it was read.  *)
QueryStopped(t) ==
  /\ pc[t] = "query"
  /\ unit[subject[t]] # "active"
  /\ Goto(t, IF seen[t] = Queued THEN "grace" ELSE "reread")
  /\ UNCHANGED <<store, systemd, lock, faults>>

(* request_is_within_start_grace, after the answer: a request that is not  *)
(* there any more, for its worker has it, has no grace.                    *)
LookAtRequest(t) ==
  /\ pc[t] = "grace"
  /\ IF subject[t] \in requests \intersect fresh
       THEN Reconciled(t)
       ELSE Goto(t, "reread") /\ UNCHANGED <<lock, unit, agent>>
  /\ UNCHANGED <<store, fresh, stale, late, faults>>

Reread(t) ==
  /\ pc[t] = "reread"
  /\ IF active = subject[t]
       THEN Goto(t, "recheck") /\ UNCHANGED <<lock, unit, agent>>
       ELSE Reconciled(t)
  /\ UNCHANGED <<store, fresh, stale, late, faults>>

Recheck(t) ==
  /\ pc[t] = "recheck"
  /\ IF Terminal(phase[subject[t]])
       THEN Reconciled(t)
       ELSE Call(t, "fail", subject[t], "drop") /\ UNCHANGED <<lock, unit, agent>>
  /\ UNCHANGED <<store, fresh, stale, late, faults>>

Reconciling(t) ==
  \/ ReadActive(t) \/ ReadStatus(t) \/ QueryAlive(t) \/ QueryStopped(t)
  \/ LookAtRequest(t) \/ Reread(t) \/ Recheck(t)

--------------------------------------------------------------------------------
(* RedeployCoordinator::schedule, under the non-waiting scheduling lock *)

(* A job that has left no trace: the next random job ID. *)
New(j) ==
  /\ phase[j] = Unwritten
  /\ j \notin requests
  /\ \A t \in Tasks : pc[t] = "status" => subject[t] # j

\* mutant of BeginSchedule
BeginScheduleUnlocked(t) ==
  /\ agent = "up"
  /\ pc[t] = "idle"
  /\ \E j \in Jobs : New(j)
  /\ lock' = t
  /\ Goto(t, "reconcile")
  /\ UNCHANGED <<store, systemd, faults>>

(* Bound: a job is left. *)
BeginSchedule(t) ==
  /\ agent = "up"
  /\ pc[t] = "idle"
  /\ \E j \in Jobs : New(j)
  /\ lock = None
  /\ lock' = t
  /\ Goto(t, "reconcile")
  /\ UNCHANGED <<store, systemd, faults>>

PlanActive(t) ==
  /\ pc[t] = "plan"
  /\ IF active = None
       THEN Goto(t, "request")
       ELSE Call(t, "plan_status", active, "request")
  /\ UNCHANGED <<store, systemd, lock, faults>>

(* A job that is not over is answered for, or refuses another release. *)
PlanStatus(t) ==
  /\ pc[t] = "plan_status"
  /\ IF Terminal(phase[subject[t]])
       THEN Goto(t, "clear") /\ UNCHANGED <<lock, unit, agent>>
       ELSE End(t)
  /\ UNCHANGED <<store, fresh, stale, late, faults>>

WriteRequest(t, j) ==
  /\ pc[t] = "request"
  /\ New(j)
  /\ requests' = requests \union {j}
  /\ fresh' = fresh \union {j}
  /\ Call(t, "status", j, "idle")
  /\ UNCHANGED <<phase, active, stale, unit, late, agent, lock, faults>>

WriteStatus(t) ==
  /\ pc[t] = "status"
  /\ phase' = [phase EXCEPT ![subject[t]] = Queued]
  /\ Goto(t, "active")
  /\ UNCHANGED <<active, requests, systemd, lock, faults>>

WriteActive(t) ==
  /\ pc[t] = "active"
  /\ active' = subject[t]
  /\ Goto(t, "start")
  /\ UNCHANGED <<phase, requests, systemd, lock, faults>>

StartUnit(t) ==
  /\ pc[t] = "start"
  /\ unit[subject[t]] = "none"
  /\ unit' = [unit EXCEPT ![subject[t]] = "waiting"]
  /\ Goto(t, "idle")
  /\ lock' = None
  /\ UNCHANGED <<store, fresh, stale, late, agent, faults>>

(* The call reports an error, whether or not the unit was queued.          *)
StartFails(t) ==
  /\ pc[t] = "start"
  /\ Fault
  /\ unit' \in {unit, [unit EXCEPT ![subject[t]] = "waiting"]}
  /\ Call(t, "fail", subject[t], "drop_unstarted")
  /\ UNCHANGED <<store, fresh, stale, late, agent, lock>>

Scheduling(t) ==
  \/ PlanActive(t) \/ PlanStatus(t) \/ WriteStatus(t) \/ WriteActive(t) \/ StartUnit(t)
  \/ \E j \in Jobs : WriteRequest(t, j)

--------------------------------------------------------------------------------
(* RedeployCoordinator::new, in an agent or a worker that starts *)

AgentStarts(t) ==
  /\ agent = "down"
  /\ agent' = "starting"
  /\ Goto(t, "boot")
  /\ UNCHANGED <<store, fresh, stale, unit, late, lock, faults>>

\* mutant of ReconcileBoot
ReconcileBootOfAnyBoot(p) ==
  /\ pc[p] = "boot"
  /\ IF active # None /\ ~Terminal(phase[active])
       THEN Call(p, "fail", active, "dispose")
       ELSE Goto(p, "dispose")
  /\ UNCHANGED <<store, systemd, lock, faults>>

(* JobStore::reconcile_boot *)
ReconcileBoot(p) ==
  /\ pc[p] = "boot"
  /\ IF active \in stale /\ ~Terminal(phase[active])
       THEN Call(p, "fail", active, "dispose")
       ELSE Goto(p, "dispose")
  /\ UNCHANGED <<store, systemd, lock, faults>>

(* startup_disposition *)
Dispose(p) ==
  LET next == IF p \in Jobs THEN "take" ELSE "idle" IN
  /\ pc[p] = "dispose"
  /\ IF active # None /\ Terminal(phase[active])
       THEN Call(p, "clear", active, next) /\ UNCHANGED <<lock, unit, agent>>
       ELSE Resume(p, next)
  /\ UNCHANGED <<store, fresh, stale, late, faults>>

--------------------------------------------------------------------------------
(* The worker *)

(* A unit starts late when it does so after the start grace of its request *)
(* (it waits for the network), after the job has failed, while the agent   *)
(* has asked for its state and not yet looked at the request, or although  *)
(* the call that was to start it has reported an error.                    *)
StartsLate(j) ==
  \/ j \notin requests \intersect fresh
  \/ Terminal(phase[j])
  \/ \E t \in Tasks :
       /\ subject[t] = j
       /\ pc[t] = "grace" \/ (pc[t] \in {"fail", "fail_write"} /\ ret[t] = "drop_unstarted")

(* systemd starts the unit, at whatever time.                              *)
WorkerStarts(j) ==
  /\ unit[j] = "waiting"
  /\ unit' = [unit EXCEPT ![j] = "active"]
  /\ late' = IF StartsLate(j) THEN late \union {j} ELSE late
  /\ Goto(j, "boot")
  /\ UNCHANGED <<store, fresh, stale, agent, lock, faults>>

TakeRequest(j) ==
  /\ pc[j] = "take"
  /\ requests' = requests \ {j}
  /\ Call(j, IF j \in requests THEN "update" ELSE "fail", j, "idle")
  /\ UNCHANGED <<phase, active, systemd, lock, faults>>

(* validate_transition: the next phase comes after the one that is stored. *)
(* A refused update fails the job, a refused completion only the worker.   *)
UpdateRead(j) ==
  /\ pc[j] = "update"
  /\ IF ~Terminal(phase[j]) /\ seen[j] + 1 > phase[j]
       THEN Goto(j, "update_write") /\ UNCHANGED <<lock, unit, agent>>
       ELSE IF seen[j] + 1 = Complete
              THEN End(j)
              ELSE Goto(j, "fail") /\ UNCHANGED <<lock, unit, agent>>
  /\ UNCHANGED <<store, fresh, stale, late, faults>>

UpdateWrite(j) ==
  /\ pc[j] = "update_write"
  /\ phase' = [phase EXCEPT ![j] = seen[j] + 1]
  /\ seen' = [seen EXCEPT ![j] = seen[j] + 1]
  /\ pc' = [pc EXCEPT ![j] = IF seen[j] + 1 = Complete THEN "clear" ELSE "update"]
  /\ UNCHANGED <<subject, ret, active, requests, systemd, lock, faults>>

(* Building, staging or installing fails. *)
WorkFails(j) ==
  /\ pc[j] = "update"
  /\ Fault
  /\ Goto(j, "fail")
  /\ UNCHANGED <<store, systemd, lock>>

Working(j) == TakeRequest(j) \/ UpdateRead(j) \/ UpdateWrite(j)

--------------------------------------------------------------------------------
(* The environment *)

(* The start grace of a request that is still there runs out. *)
GraceEnds(j) ==
  /\ j \in fresh \intersect requests
  /\ fresh' = fresh \ {j}
  /\ UNCHANGED <<store, stale, unit, late, agent, lock, locals, faults>>

(* A task of the agent meets an error or its request's timeout.  A unit    *)
(* that it was about to start may have started all the same.               *)
TaskStops(t) ==
  /\ pc[t] # "idle"
  /\ Fault
  /\ Goto(t, "idle")
  /\ lock' = IF lock = t THEN None ELSE lock
  /\ agent' = IF agent = "starting" THEN "down" ELSE agent
  /\ unit' \in IF pc[t] = "start"
                 THEN {unit, [unit EXCEPT ![subject[t]] = "waiting"]}
                 ELSE {unit}
  /\ UNCHANGED <<store, fresh, stale, late>>

WorkerKilled(j) ==
  /\ unit[j] \in {"waiting", "active"}
  /\ Fault
  /\ unit' = [unit EXCEPT ![j] = "gone"]
  /\ Goto(j, "idle")
  /\ UNCHANGED <<store, fresh, stale, late, agent, lock>>

AgentKilled ==
  /\ agent # "down"
  /\ Fault
  /\ agent' = "down"
  /\ lock' = None
  /\ Rest(Tasks)
  /\ UNCHANGED <<store, fresh, stale, unit, late>>

(* The requests are in memory, and go with the units. *)
Reboot ==
  /\ Fault
  /\ agent' = "down"
  /\ lock' = None
  /\ Rest(Procs)
  /\ unit' = [j \in Jobs |-> IF unit[j] = "none" THEN "none" ELSE "gone"]
  /\ requests' = {}
  /\ fresh' = {}
  /\ stale' = {j \in Jobs : phase[j] # Unwritten}
  /\ UNCHANGED <<phase, active, late>>

--------------------------------------------------------------------------------

Init ==
  /\ phase = [j \in Jobs |-> Unwritten]
  /\ active = None
  /\ requests = {}
  /\ fresh = {}
  /\ stale = {}
  /\ unit = [j \in Jobs |-> "none"]
  /\ late = {}
  /\ agent = "down"
  /\ lock = None
  /\ pc = [p \in Procs |-> "idle"]
  /\ subject = [p \in Procs |-> NoSubject(p)]
  /\ seen = [p \in Procs |-> Queued]
  /\ ret = [p \in Procs |-> "idle"]
  /\ faults = 0

Shared(p) ==
  FailRead(p) \/ FailWrite(p) \/ ClearRead(p) \/ ClearRemove(p) \/ ReconcileBoot(p) \/ Dispose(p)

TaskStep(t) == Shared(t) \/ Reconciling(t) \/ Scheduling(t) \/ DropRequest(t)

WorkerStep(j) == Shared(j) \/ Working(j) \/ WorkerStarts(j)

Next ==
  \/ \E t \in Tasks :
       \/ TaskStep(t) \/ BeginReconcile(t) \/ BeginSchedule(t) \/ AgentStarts(t)
       \/ StartFails(t) \/ TaskStops(t)
  \/ \E j \in Jobs : WorkerStep(j) \/ WorkFails(j) \/ WorkerKilled(j) \/ GraceEnds(j)
  \/ AgentKilled \/ Reboot

Spec == Init /\ [][Next]_vars

(* Tasks and workers that are not killed go on, the agent is started when  *)
(* it is down, time passes, and the active job is looked at again and      *)
(* again, by its monitor or for the clients that wait for it.              *)
FairSpec ==
  /\ Spec
  /\ \A t \in Tasks : WF_vars(TaskStep(t)) /\ WF_vars(BeginReconcile(t)) /\ WF_vars(AgentStarts(t))
  /\ \A j \in Jobs : WF_vars(WorkerStep(j)) /\ WF_vars(GraceEnds(j))

--------------------------------------------------------------------------------
(* Properties *)

TaskLabels ==
  {"idle", "boot", "dispose", "reconcile", "read_status", "query", "grace", "reread", "recheck",
   "fail", "fail_write", "clear", "clear_remove", "drop", "drop_unstarted", "plan",
   "plan_status", "request", "status", "active", "start"}

WorkerLabels ==
  {"idle", "boot", "dispose", "take", "update", "update_write", "fail", "fail_write",
   "clear", "clear_remove"}

(* The type of every variable. *)
TypeOK ==
  /\ phase \in [Jobs -> Unwritten..Failed]
  /\ active \in Jobs \union {None}
  /\ requests \subseteq Jobs
  /\ fresh \subseteq Jobs
  /\ stale \subseteq Jobs
  /\ late \subseteq Jobs
  /\ unit \in [Jobs -> {"none", "waiting", "active", "gone"}]
  /\ agent \in {"down", "starting", "up"}
  /\ lock \in Tasks \union {None}
  /\ \A t \in Tasks : pc[t] \in TaskLabels
  /\ \A j \in Jobs : pc[j] \in WorkerLabels
  /\ subject \in [Procs -> Jobs \union {None}]
  /\ seen \in [Procs -> Unwritten..Failed]
  /\ ret \in [Procs -> TaskLabels \union WorkerLabels]
  /\ faults \in 0..MaxFaults

(* The status of a job whose unit did not start late only moves forward,   *)
(* and an outcome, once recorded, is final, although the agent and the     *)
(* worker read and write it without a lock.                                *)
PhasesOnlyAdvance ==
  [][\A j \in Jobs \ late :
       phase'[j] # phase[j] => phase'[j] > phase[j] /\ ~Terminal(phase[j])]_vars

(* Nobody fails a job behind the back of its worker: one that is recorded  *)
(* as failed is no longer being worked on, unless its unit started late.   *)
FailedMeansStopped ==
  \A j \in Jobs \ late : phase[j] = Failed => pc[j] \notin {"update", "update_write"}

(* No scheduling puts a job in the place of another that the pointer       *)
(* names: the pointer is removed first.  (It can be removed too early, see *)
(* ActiveJobsCoalesce.)                                                    *)
NoJobIsDisplaced ==
  [][active' \notin {active, None} => active = None]_vars

(* The pointer is given back, by the worker or by a reconciliation once it *)
(* is gone, whoever was killed when: redeploys are not refused for ever.   *)
PointerIsReleased == \A j \in Jobs : active = j ~> active # j

--------------------------------------------------------------------------------
(* What DESIGN.md says, and the code does not always do. *)

(* "Job phases are monotonic", whenever the units start.                   *)
PhasesAreMonotonic ==
  [][\A j \in Jobs : phase'[j] # phase[j] => phase'[j] > phase[j] /\ ~Terminal(phase[j])]_vars

(* "Stored active state is checked against the exact transient unit,       *)
(* including a bounded grace for the unit-start race": a job that is under *)
(* way within the grace of its request has not been failed.                *)
GraceCoversTheStart ==
  \A j \in fresh : phase[j] = Failed => pc[j] \notin {"update", "update_write"}

(* "Identical active releases coalesce", and others are refused: two jobs  *)
(* are never under way at once.                                            *)
Underway(j) == unit[j] = "active" /\ phase[j] \in Queued..(Complete - 1)

ActiveJobsCoalesce == \A i, j \in Jobs : Underway(i) /\ Underway(j) => i = j
================================================================================

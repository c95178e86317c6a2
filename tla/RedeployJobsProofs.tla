--------------------------- MODULE RedeployJobsProofs --------------------------
(***************************************************************************)
(* What RedeployJobs guarantees, for any jobs, any tasks, any number of    *)
(* phases and any number of failures.                                      *)
(***************************************************************************)
EXTENDS RedeployJobs, TLAPS

(* Labels under which a process is in fail or clear_active, and goes on at *)
(* ret afterwards.                                                         *)
Calling == {"fail", "fail_write", "clear", "clear_remove"}

(* Labels under which a task has planned its job and not started it.       *)
Starting == {"status", "active", "start"}

(* Which job a process works on and where it goes on, as far as its label  *)
(* tells.                                                                  *)
CallInv ==
  /\ pc \in [Procs -> TaskLabels \union WorkerLabels]
  /\ \A t \in Tasks :
       /\ pc[t] \notin {"idle", "boot", "dispose", "reconcile", "plan", "request"} => subject[t] \in Jobs
       /\ pc[t] \in {"fail", "fail_write"} => ret[t] \in {"drop", "drop_unstarted", "dispose"}
       /\ pc[t] \in {"clear", "clear_remove"} =>
            ret[t] \in {"idle", "plan", "request", "drop", "drop_unstarted", "dispose"}
       /\ pc[t] = "plan_status" => ret[t] = "request"
  /\ \A j \in Jobs :
       /\ subject[j] \in Jobs
       /\ pc[j] \in Calling => ret[j] \in {"idle", "take", "dispose"}
       /\ pc[j] \in {"update", "update_write"} =>
            subject[j] = j /\ ret[j] = "idle" /\ seen[j] \in Queued..(Complete - 1)
       /\ pc[j] \in {"idle", "boot", "dispose", "take"} \/ (pc[j] \in Calling /\ ret[j] # "idle") =>
            seen[j] = Queued

(* Only the holder of the scheduling lock schedules, and an idle task has  *)
(* let go of it.                                                           *)
LockInv ==
  \A t \in Tasks :
    /\ pc[t] \in {"plan", "plan_status", "request"} \union Starting => lock = t
    /\ pc[t] \in Calling /\ ret[t] \in {"plan", "request"} => lock = t
    /\ pc[t] = "idle" => lock # t

(* A unit is started once, for a job with a status, and its worker runs    *)
(* just while it is active.                                                *)
UnitInv ==
  /\ \A j \in Jobs :
       /\ unit[j] # "none" => phase[j] # Unwritten
       /\ pc[j] # "idle" => unit[j] = "active"
  /\ \A t \in Tasks :
       /\ pc[t] \in Starting => unit[subject[t]] = "none"
       /\ pc[t] \in {"active", "start"} => phase[subject[t]] # Unwritten

(* While a task schedules, the pointer names the job that it looks at or   *)
(* none, and none from when it has decided to schedule another.            *)
PointerInv ==
  \A t \in Tasks :
    /\ pc[t] \in {"request", "status", "active"} => active = None
    /\ pc[t] = "plan_status" \/ (pc[t] \in {"clear", "clear_remove"} /\ ret[t] = "request") =>
         active \in {subject[t], None}

SchedulingInv == TypeOK /\ CallInv /\ LockInv /\ UnitInv /\ PointerInv

(* The jobs whose units do not run and never will, and those whose units   *)
(* will start late, if they do, or have started late.                      *)
OverJobs ==
  {j \in Jobs :
     /\ phase[j] # Unwritten
     /\ \/ j \in late
        \/ unit[j] = "gone"
        \/ /\ unit[j] \in {"none", "waiting"}
           /\ j \notin requests \intersect fresh \/ Terminal(phase[j])
        \/ /\ unit[j] = "none"
           /\ \A t \in Tasks : subject[t] = j => pc[t] \notin Starting}

(* What is stored of a job is as far as its worker is, and a task that     *)
(* works on a job.                                                         *)
StoredOfWorker(j) ==
  j \notin late =>
    /\ pc[j] \in {"boot", "dispose", "take"} \/ (pc[j] \in Calling /\ ret[j] # "idle") =>
         phase[j] = Queued
    /\ pc[j] = "update_write" => ~Terminal(phase[j]) /\ phase[j] <= seen[j]

StoredOfTask(t) ==
  /\ pc[t] = "status" => phase[subject[t]] = Unwritten
  /\ pc[t] \in {"read_status", "query", "grace"} => phase[subject[t]] # Unwritten
  /\ pc[t] = "query" /\ unit[subject[t]] \in {"none", "waiting"} => seen[t] = Queued

StoredInv ==
  /\ active # None => phase[active] # Unwritten
  /\ \A j \in Jobs :
       unit[j] \in {"none", "waiting"} => phase[j] \in {Unwritten, Queued, Failed}
  /\ \A j \in Jobs : StoredOfWorker(j)
  /\ \A t \in Tasks : StoredOfTask(t)

(* Whoever fails a job does so for itself, or knows that the job is over   *)
(* or will have started late.                                              *)
FailsSafely(p) ==
  /\ pc[p] = "grace" => unit[subject[p]] # "active" \/ subject[p] \in late
  /\ pc[p] \in {"reread", "recheck"} => subject[p] \in OverJobs
  /\ pc[p] \in {"fail", "fail_write"} =>
       \/ subject[p] \in OverJobs
       \/ subject[p] = p /\ ret[p] = "idle"
       \/ ret[p] = "drop_unstarted" /\ unit[subject[p]] = "waiting"
  /\ pc[p] = "fail_write" => phase[subject[p]] # Complete \/ subject[p] \in late

FailureInv ==
  /\ stale \subseteq OverJobs
  /\ \A p \in Procs : FailsSafely(p)
  /\ FailedMeansStopped

JobsInv == SchedulingInv /\ StoredInv /\ FailureInv

USE RedeployJobsAssumption

--------------------------------------------------------------------------------
(* The phase and the unit of a job are of their types. *)

LEMMA PhaseType ==
  ASSUME TypeOK, NEW j \in Jobs
  PROVE  phase[j] \in Unwritten..Failed
BY DEF TypeOK

LEMMA UnitType ==
  ASSUME TypeOK, NEW j \in Jobs
  PROVE  unit[j] \in {"none", "waiting", "active", "gone"}
BY DEF TypeOK

(* A process in fail or clear_active has a job.                            *)
LEMMA CallingHasSubject ==
  ASSUME CallInv, NEW p \in Procs, pc[p] \in Calling
  PROVE  subject[p] \in Jobs
BY DEF CallInv, Calling, Procs

LEMMA InitInv == Init => JobsInv
<1> SUFFICES ASSUME Init PROVE JobsInv
  OBVIOUS
<1> USE DEF Init, Procs, NoSubject, Queued, Complete, Failed, Unwritten, TaskLabels, WorkerLabels, Calling
<1>1. TypeOK
  BY DEF TypeOK
<1>2. CallInv
  BY DEF CallInv
<1>3. LockInv /\ UnitInv /\ PointerInv
  BY DEF LockInv, UnitInv, PointerInv, Starting
<1>4. StoredInv
  BY DEF StoredInv, StoredOfWorker, StoredOfTask
<1>5. FailureInv
  BY DEF FailureInv, FailsSafely, FailedMeansStopped
<1> QED
  BY <1>1, <1>2, <1>3, <1>4, <1>5 DEF JobsInv, SchedulingInv

--------------------------------------------------------------------------------
(* Scheduling: what every step keeps, however late units start. *)

(* Every step keeps the types.                                             *)
LEMMA TypeStep ==
  ASSUME TypeOK, CallInv, [Next]_vars
  PROVE  TypeOK'
<1> USE DEF Goto, Rest, NoSubject, store, systemd, locals, vars, Procs, Terminal,
   Queued, Complete, Failed, Unwritten, TaskLabels, WorkerLabels, Calling, TypeOK,
   CallInv
<1>1. ASSUME NEW p \in Procs, FailRead(p) PROVE TypeOK'
  BY <1>1 DEF FailRead, Abort
<1>2. ASSUME NEW p \in Procs, FailWrite(p) PROVE TypeOK'
  <2>1. subject[p] \in Jobs
    BY <1>2, CallingHasSubject DEF FailWrite
  <2>2. phase' \in [Jobs -> Unwritten..Failed]
    BY <1>2, <2>1 DEF FailWrite
  <2>3. pc' = [pc EXCEPT ![p] = "clear"] /\ UNCHANGED <<subject, seen, ret>>
    BY <1>2 DEF FailWrite
  <2> QED
    BY <1>2, <2>2, <2>3 DEF FailWrite
<1>3. ASSUME NEW p \in Procs, ClearRead(p) PROVE TypeOK'
  BY <1>3 DEF ClearRead, Resume, End
<1>4. ASSUME NEW p \in Procs, ClearRemove(p) PROVE TypeOK'
  BY <1>4 DEF ClearRemove, Resume, End
<1>5. ASSUME NEW p \in Procs, ReconcileBoot(p) PROVE TypeOK'
  BY <1>5 DEF ReconcileBoot, Call
<1>6. ASSUME NEW p \in Procs, Dispose(p) PROVE TypeOK'
  BY <1>6 DEF Dispose, Call, Resume, End
<1>7. ASSUME NEW t \in Tasks, ReadActive(t) PROVE TypeOK'
  BY <1>7 DEF ReadActive, Reconciled, Resume, End, Call
<1>8. ASSUME NEW t \in Tasks, ReadStatus(t) PROVE TypeOK'
  <2>1. subject[t] \in Jobs
    BY <1>8 DEF ReadStatus
  <2>2. phase[subject[t]] \in Unwritten..Failed
    BY <2>1, PhaseType
  <2>3. seen' \in [Procs -> Unwritten..Failed]
    BY <1>8, <2>2 DEF ReadStatus
  <2>4. pc'[t] \in {"clear", "query"} /\ ret'[t] \in {"plan", "idle"}
    BY <1>8 DEF ReadStatus
  <2> QED
    BY <1>8, <2>3, <2>4 DEF ReadStatus
<1>9. ASSUME NEW t \in Tasks, QueryAlive(t) PROVE TypeOK'
  BY <1>9 DEF QueryAlive, Reconciled, Resume, End
<1>10. ASSUME NEW t \in Tasks, QueryStopped(t) PROVE TypeOK'
  BY <1>10 DEF QueryStopped
<1>11. ASSUME NEW t \in Tasks, Reread(t) PROVE TypeOK'
  BY <1>11 DEF Reread, Reconciled, Resume, End
<1>12. ASSUME NEW t \in Tasks, Recheck(t) PROVE TypeOK'
  <2>1. CASE Terminal(phase[subject[t]])
    BY <1>12, <2>1 DEF Recheck, Reconciled, Resume, End
  <2>2. CASE ~Terminal(phase[subject[t]])
    BY <1>12, <2>2 DEF Recheck, Call
  <2> QED
    BY <2>1, <2>2
<1>13. ASSUME NEW t \in Tasks, PlanActive(t) PROVE TypeOK'
  BY <1>13 DEF PlanActive, Call
<1>14. ASSUME NEW t \in Tasks, PlanStatus(t) PROVE TypeOK'
  BY <1>14 DEF PlanStatus, End
<1>15. ASSUME NEW t \in Tasks, WriteStatus(t) PROVE TypeOK'
  BY <1>15 DEF WriteStatus
<1>16. ASSUME NEW t \in Tasks, WriteActive(t) PROVE TypeOK'
  BY <1>16 DEF WriteActive
<1>17. ASSUME NEW t \in Tasks, StartUnit(t) PROVE TypeOK'
  BY <1>17 DEF StartUnit
<1>18. ASSUME NEW t \in Tasks, NEW k \in Jobs, WriteRequest(t, k) PROVE TypeOK'
  BY <1>18 DEF WriteRequest, Call, New
<1>19. ASSUME NEW t \in Tasks, DropRequest(t) PROVE TypeOK'
  <2>1. requests' \subseteq Jobs /\ UNCHANGED <<phase, active, fresh, stale, late, faults>>
    BY <1>19 DEF DropRequest
  <2>2. CASE pc[t] = "drop" /\ lock = t
    BY <1>19, <2>1, <2>2 DEF DropRequest, Resume
  <2>3. CASE ~(pc[t] = "drop" /\ lock = t)
    <3>1. End(t)
      BY <1>19, <2>3 DEF DropRequest, Resume
    <3> QED
      BY <2>1, <3>1 DEF End
  <2> QED
    BY <2>2, <2>3
<1>20. ASSUME NEW t \in Tasks, BeginReconcile(t) PROVE TypeOK'
  BY <1>20 DEF BeginReconcile
<1>21. ASSUME NEW t \in Tasks, BeginSchedule(t) PROVE TypeOK'
  BY <1>21 DEF BeginSchedule
<1>22. ASSUME NEW t \in Tasks, AgentStarts(t) PROVE TypeOK'
  BY <1>22 DEF AgentStarts
<1>23. ASSUME NEW t \in Tasks, StartFails(t) PROVE TypeOK'
  BY <1>23 DEF StartFails, Call, Fault
<1>24. ASSUME NEW t \in Tasks, TaskStops(t) PROVE TypeOK'
  BY <1>24 DEF TaskStops, Fault
<1>25. ASSUME NEW k \in Jobs, TakeRequest(k) PROVE TypeOK'
  BY <1>25 DEF TakeRequest, Call
<1>26. ASSUME NEW k \in Jobs, UpdateRead(k) PROVE TypeOK'
  BY <1>26 DEF UpdateRead, End
<1>27. ASSUME NEW k \in Jobs, UpdateWrite(k) PROVE TypeOK'
  BY <1>27 DEF UpdateWrite
<1>28. ASSUME NEW k \in Jobs, WorkerStarts(k) PROVE TypeOK'
  BY <1>28 DEF WorkerStarts, StartsLate
<1>29. ASSUME NEW k \in Jobs, WorkFails(k) PROVE TypeOK'
  BY <1>29 DEF WorkFails, Fault
<1>30. ASSUME NEW k \in Jobs, WorkerKilled(k) PROVE TypeOK'
  BY <1>30 DEF WorkerKilled, Fault
<1>31. ASSUME NEW k \in Jobs, GraceEnds(k) PROVE TypeOK'
  BY <1>31 DEF GraceEnds
<1>32. ASSUME AgentKilled PROVE TypeOK'
  BY <1>32 DEF AgentKilled, Fault
<1>33. ASSUME Reboot PROVE TypeOK'
  BY <1>33 DEF Reboot, Fault
<1>35. ASSUME NEW t \in Tasks, LookAtRequest(t) PROVE TypeOK'
  BY <1>35 DEF LookAtRequest, Reconciled, Resume, End
<1>34. CASE UNCHANGED vars
  BY <1>34
<1> HIDE DEF Goto, Rest, NoSubject, store, systemd, locals, vars, Procs, Terminal,
   Queued, Complete, Failed, Unwritten, TaskLabels, WorkerLabels, Calling, TypeOK,
   CallInv
<1> QED
  BY <1>1, <1>2, <1>3, <1>4, <1>5, <1>6, <1>7, <1>8, <1>9, <1>10, <1>11, <1>12, <1>13,
     <1>14, <1>15, <1>16, <1>17, <1>18, <1>19, <1>20, <1>21, <1>22, <1>23, <1>24, <1>25,
     <1>26, <1>27, <1>28, <1>29, <1>30, <1>31, <1>32, <1>33, <1>34, <1>35
  DEF Next, TaskStep, WorkerStep, Shared, Reconciling, Scheduling, Working, Procs


(* A process goes on with a job where its label says.                      *)
LEMMA CallStep ==
  ASSUME TypeOK, CallInv, UnitInv, [Next]_vars
  PROVE  CallInv'
<1> USE DEF Goto, Rest, NoSubject, store, systemd, locals, vars, Procs, Terminal,
   Queued, Complete, Failed, Unwritten, TaskLabels, WorkerLabels, Calling, TypeOK,
   CallInv, UnitInv
<1>1. ASSUME NEW p \in Procs, FailRead(p) PROVE CallInv'
  BY <1>1 DEF FailRead, Abort
<1>2. ASSUME NEW p \in Procs, FailWrite(p) PROVE CallInv'
  BY <1>2 DEF FailWrite
<1>3. ASSUME NEW p \in Procs, ClearRead(p) PROVE CallInv'
  BY <1>3 DEF ClearRead, Resume, End
<1>4. ASSUME NEW p \in Procs, ClearRemove(p) PROVE CallInv'
  BY <1>4 DEF ClearRemove, Resume, End
<1>5. ASSUME NEW p \in Procs, ReconcileBoot(p) PROVE CallInv'
  BY <1>5 DEF ReconcileBoot, Call
<1>6. ASSUME NEW p \in Procs, Dispose(p) PROVE CallInv'
  BY <1>6 DEF Dispose, Call, Resume, End
<1>7. ASSUME NEW t \in Tasks, ReadActive(t) PROVE CallInv'
  BY <1>7 DEF ReadActive, Reconciled, Resume, End, Call
<1>8. ASSUME NEW t \in Tasks, ReadStatus(t) PROVE CallInv'
  BY <1>8 DEF ReadStatus
<1>9. ASSUME NEW t \in Tasks, QueryAlive(t) PROVE CallInv'
  BY <1>9 DEF QueryAlive, Reconciled, Resume, End
<1>10. ASSUME NEW t \in Tasks, QueryStopped(t) PROVE CallInv'
  BY <1>10 DEF QueryStopped
<1>11. ASSUME NEW t \in Tasks, Reread(t) PROVE CallInv'
  BY <1>11 DEF Reread, Reconciled, Resume, End
<1>12. ASSUME NEW t \in Tasks, Recheck(t) PROVE CallInv'
  BY <1>12 DEF Recheck, Reconciled, Resume, End, Call
<1>13. ASSUME NEW t \in Tasks, PlanActive(t) PROVE CallInv'
  BY <1>13 DEF PlanActive, Call
<1>14. ASSUME NEW t \in Tasks, PlanStatus(t) PROVE CallInv'
  BY <1>14 DEF PlanStatus, End
<1>15. ASSUME NEW t \in Tasks, WriteStatus(t) PROVE CallInv'
  BY <1>15 DEF WriteStatus
<1>16. ASSUME NEW t \in Tasks, WriteActive(t) PROVE CallInv'
  BY <1>16 DEF WriteActive
<1>17. ASSUME NEW t \in Tasks, StartUnit(t) PROVE CallInv'
  BY <1>17 DEF StartUnit
<1>18. ASSUME NEW t \in Tasks, NEW k \in Jobs, WriteRequest(t, k) PROVE CallInv'
  BY <1>18 DEF WriteRequest, Call, New
<1>19. ASSUME NEW t \in Tasks, DropRequest(t) PROVE CallInv'
  BY <1>19 DEF DropRequest, Resume, End
<1>20. ASSUME NEW t \in Tasks, BeginReconcile(t) PROVE CallInv'
  BY <1>20 DEF BeginReconcile
<1>21. ASSUME NEW t \in Tasks, BeginSchedule(t) PROVE CallInv'
  BY <1>21 DEF BeginSchedule
<1>22. ASSUME NEW t \in Tasks, AgentStarts(t) PROVE CallInv'
  BY <1>22 DEF AgentStarts
<1>23. ASSUME NEW t \in Tasks, StartFails(t) PROVE CallInv'
  BY <1>23 DEF StartFails, Call, Fault
<1>24. ASSUME NEW t \in Tasks, TaskStops(t) PROVE CallInv'
  BY <1>24 DEF TaskStops, Fault
<1>25. ASSUME NEW k \in Jobs, TakeRequest(k) PROVE CallInv'
  BY <1>25 DEF TakeRequest, Call
<1>26. ASSUME NEW k \in Jobs, UpdateRead(k) PROVE CallInv'
  BY <1>26 DEF UpdateRead, End
<1>27. ASSUME NEW k \in Jobs, UpdateWrite(k) PROVE CallInv'
  BY <1>27 DEF UpdateWrite
<1>28. ASSUME NEW k \in Jobs, WorkerStarts(k) PROVE CallInv'
  BY <1>28 DEF WorkerStarts, StartsLate
<1>29. ASSUME NEW k \in Jobs, WorkFails(k) PROVE CallInv'
  BY <1>29 DEF WorkFails, Fault
<1>30. ASSUME NEW k \in Jobs, WorkerKilled(k) PROVE CallInv'
  BY <1>30 DEF WorkerKilled, Fault
<1>31. ASSUME NEW k \in Jobs, GraceEnds(k) PROVE CallInv'
  BY <1>31 DEF GraceEnds
<1>32. ASSUME AgentKilled PROVE CallInv'
  BY <1>32 DEF AgentKilled, Fault
<1>33. ASSUME Reboot PROVE CallInv'
  BY <1>33 DEF Reboot, Fault
<1>35. ASSUME NEW t \in Tasks, LookAtRequest(t) PROVE CallInv'
  BY <1>35 DEF LookAtRequest, Reconciled, Resume, End
<1>34. CASE UNCHANGED vars
  BY <1>34
<1> HIDE DEF Goto, Rest, NoSubject, store, systemd, locals, vars, Procs, Terminal,
   Queued, Complete, Failed, Unwritten, TaskLabels, WorkerLabels, Calling, TypeOK,
   CallInv, UnitInv
<1> QED
  BY <1>1, <1>2, <1>3, <1>4, <1>5, <1>6, <1>7, <1>8, <1>9, <1>10, <1>11, <1>12, <1>13,
     <1>14, <1>15, <1>16, <1>17, <1>18, <1>19, <1>20, <1>21, <1>22, <1>23, <1>24, <1>25,
     <1>26, <1>27, <1>28, <1>29, <1>30, <1>31, <1>32, <1>33, <1>34, <1>35
  DEF Next, TaskStep, WorkerStep, Shared, Reconciling, Scheduling, Working, Procs


(* Nobody schedules without the lock, and nobody keeps it when idle.       *)
LEMMA LockStep ==
  ASSUME TypeOK, CallInv, LockInv, [Next]_vars
  PROVE  LockInv'
<1> USE DEF Goto, Rest, NoSubject, store, systemd, locals, vars, Procs, Terminal,
   Queued, Complete, Failed, Unwritten, TaskLabels, WorkerLabels, Calling, TypeOK,
   CallInv, LockInv, Starting
<1>1. ASSUME NEW p \in Procs, FailRead(p) PROVE LockInv'
  BY <1>1 DEF FailRead, Abort
<1>2. ASSUME NEW p \in Procs, FailWrite(p) PROVE LockInv'
  BY <1>2 DEF FailWrite
<1>3. ASSUME NEW p \in Procs, ClearRead(p) PROVE LockInv'
  BY <1>3 DEF ClearRead, Resume, End
<1>4. ASSUME NEW p \in Procs, ClearRemove(p) PROVE LockInv'
  BY <1>4 DEF ClearRemove, Resume, End
<1>5. ASSUME NEW p \in Procs, ReconcileBoot(p) PROVE LockInv'
  BY <1>5 DEF ReconcileBoot, Call
<1>6. ASSUME NEW p \in Procs, Dispose(p) PROVE LockInv'
  BY <1>6 DEF Dispose, Call, Resume, End
<1>7. ASSUME NEW t \in Tasks, ReadActive(t) PROVE LockInv'
  BY <1>7 DEF ReadActive, Reconciled, Resume, End, Call
<1>8. ASSUME NEW t \in Tasks, ReadStatus(t) PROVE LockInv'
  BY <1>8 DEF ReadStatus
<1>9. ASSUME NEW t \in Tasks, QueryAlive(t) PROVE LockInv'
  BY <1>9 DEF QueryAlive, Reconciled, Resume, End
<1>10. ASSUME NEW t \in Tasks, QueryStopped(t) PROVE LockInv'
  BY <1>10 DEF QueryStopped
<1>11. ASSUME NEW t \in Tasks, Reread(t) PROVE LockInv'
  BY <1>11 DEF Reread, Reconciled, Resume, End
<1>12. ASSUME NEW t \in Tasks, Recheck(t) PROVE LockInv'
  BY <1>12 DEF Recheck, Reconciled, Resume, End, Call
<1>13. ASSUME NEW t \in Tasks, PlanActive(t) PROVE LockInv'
  BY <1>13 DEF PlanActive, Call
<1>14. ASSUME NEW t \in Tasks, PlanStatus(t) PROVE LockInv'
  BY <1>14 DEF PlanStatus, End
<1>15. ASSUME NEW t \in Tasks, WriteStatus(t) PROVE LockInv'
  BY <1>15 DEF WriteStatus
<1>16. ASSUME NEW t \in Tasks, WriteActive(t) PROVE LockInv'
  BY <1>16 DEF WriteActive
<1>17. ASSUME NEW t \in Tasks, StartUnit(t) PROVE LockInv'
  BY <1>17 DEF StartUnit
<1>18. ASSUME NEW t \in Tasks, NEW k \in Jobs, WriteRequest(t, k) PROVE LockInv'
  BY <1>18 DEF WriteRequest, Call, New
<1>19. ASSUME NEW t \in Tasks, DropRequest(t) PROVE LockInv'
  BY <1>19 DEF DropRequest, Resume, End
<1>20. ASSUME NEW t \in Tasks, BeginReconcile(t) PROVE LockInv'
  BY <1>20 DEF BeginReconcile
<1>21. ASSUME NEW t \in Tasks, BeginSchedule(t) PROVE LockInv'
  BY <1>21 DEF BeginSchedule
<1>22. ASSUME NEW t \in Tasks, AgentStarts(t) PROVE LockInv'
  BY <1>22 DEF AgentStarts
<1>23. ASSUME NEW t \in Tasks, StartFails(t) PROVE LockInv'
  BY <1>23 DEF StartFails, Call, Fault
<1>24. ASSUME NEW t \in Tasks, TaskStops(t) PROVE LockInv'
  BY <1>24 DEF TaskStops, Fault
<1>25. ASSUME NEW k \in Jobs, TakeRequest(k) PROVE LockInv'
  BY <1>25 DEF TakeRequest, Call
<1>26. ASSUME NEW k \in Jobs, UpdateRead(k) PROVE LockInv'
  BY <1>26 DEF UpdateRead, End
<1>27. ASSUME NEW k \in Jobs, UpdateWrite(k) PROVE LockInv'
  BY <1>27 DEF UpdateWrite
<1>28. ASSUME NEW k \in Jobs, WorkerStarts(k) PROVE LockInv'
  BY <1>28 DEF WorkerStarts, StartsLate
<1>29. ASSUME NEW k \in Jobs, WorkFails(k) PROVE LockInv'
  BY <1>29 DEF WorkFails, Fault
<1>30. ASSUME NEW k \in Jobs, WorkerKilled(k) PROVE LockInv'
  BY <1>30 DEF WorkerKilled, Fault
<1>31. ASSUME NEW k \in Jobs, GraceEnds(k) PROVE LockInv'
  BY <1>31 DEF GraceEnds
<1>32. ASSUME AgentKilled PROVE LockInv'
  BY <1>32 DEF AgentKilled, Fault
<1>33. ASSUME Reboot PROVE LockInv'
  BY <1>33 DEF Reboot, Fault
<1>35. ASSUME NEW t \in Tasks, LookAtRequest(t) PROVE LockInv'
  BY <1>35 DEF LookAtRequest, Reconciled, Resume, End
<1>34. CASE UNCHANGED vars
  BY <1>34
<1> HIDE DEF Goto, Rest, NoSubject, store, systemd, locals, vars, Procs, Terminal,
   Queued, Complete, Failed, Unwritten, TaskLabels, WorkerLabels, Calling, TypeOK,
   CallInv, LockInv, Starting
<1> QED
  BY <1>1, <1>2, <1>3, <1>4, <1>5, <1>6, <1>7, <1>8, <1>9, <1>10, <1>11, <1>12, <1>13,
     <1>14, <1>15, <1>16, <1>17, <1>18, <1>19, <1>20, <1>21, <1>22, <1>23, <1>24, <1>25,
     <1>26, <1>27, <1>28, <1>29, <1>30, <1>31, <1>32, <1>33, <1>34, <1>35
  DEF Next, TaskStep, WorkerStep, Shared, Reconciling, Scheduling, Working, Procs


(* A process that ends leaves no unit behind that runs.                    *)
LEMMA EndKeepsUnits ==
  ASSUME TypeOK, CallInv, UnitInv, NEW p \in Procs, End(p) \/ Abort(p), UNCHANGED phase,
         pc[p] # "idle"
  PROVE  UnitInv'
<1> USE DEF End, Abort, Goto, Rest, NoSubject, Procs, TypeOK, CallInv, UnitInv, Starting
<1>1. CASE p \in Tasks
  BY <1>1, RedeployJobsAssumption
<1>2. CASE p \in Jobs
  <2>1. unit[p] = "active" /\ phase[p] # Unwritten
    BY <1>2
  <2>2. /\ unit' = [unit EXCEPT ![p] = "gone"]
        /\ pc' = [q \in Procs |-> IF q = p THEN "idle" ELSE pc[q]]
    BY <1>2
  <2>3. \A t \in Tasks : pc'[t] = pc[t] /\ subject'[t] = subject[t]
    BY <1>2, RedeployJobsAssumption
  <2> HIDE DEF End, Abort
  <2> QED
    BY <1>2, <2>1, <2>2, <2>3
<1> QED
  BY <1>1, <1>2


(* Units and workers go together.                                          *)
LEMMA UnitStep ==
  ASSUME TypeOK, CallInv, LockInv, UnitInv, [Next]_vars
  PROVE  UnitInv'
<1> USE DEF Goto, Rest, NoSubject, store, systemd, locals, vars, Procs, Terminal,
   Queued, Complete, Failed, Unwritten, TaskLabels, WorkerLabels, Calling, TypeOK,
   CallInv, LockInv, UnitInv, Starting
<1>1. ASSUME NEW p \in Procs, FailRead(p) PROVE UnitInv'
  <2>1. CASE Terminal(phase[subject[p]])
    BY <1>1, <2>1, EndKeepsUnits DEF FailRead
  <2>2. CASE ~Terminal(phase[subject[p]])
    BY <1>1, <2>2 DEF FailRead
  <2> QED
    BY <2>1, <2>2
<1>2. ASSUME NEW p \in Procs, FailWrite(p) PROVE UnitInv'
  BY <1>2 DEF FailWrite
<1>3. ASSUME NEW p \in Procs, ClearRead(p) PROVE UnitInv'
  <2>1. CASE active = subject[p]
    BY <1>3, <2>1 DEF ClearRead
  <2>2. CASE active # subject[p] /\ ret[p] = "idle"
    BY <1>3, <2>2, EndKeepsUnits DEF ClearRead, Resume
  <2>3. CASE active # subject[p] /\ ret[p] # "idle"
    BY <1>3, <2>3 DEF ClearRead, Resume
  <2> QED
    BY <2>1, <2>2, <2>3
<1>4. ASSUME NEW p \in Procs, ClearRemove(p) PROVE UnitInv'
  <2>1. CASE ret[p] = "idle"
    BY <1>4, <2>1, EndKeepsUnits DEF ClearRemove, Resume
  <2>2. CASE ret[p] # "idle"
    BY <1>4, <2>2 DEF ClearRemove, Resume
  <2> QED
    BY <2>1, <2>2
<1>5. ASSUME NEW p \in Procs, ReconcileBoot(p) PROVE UnitInv'
  BY <1>5 DEF ReconcileBoot, Call
<1>6. ASSUME NEW p \in Procs, Dispose(p) PROVE UnitInv'
  BY <1>6 DEF Dispose, Call, Resume, End
<1>7. ASSUME NEW t \in Tasks, ReadActive(t) PROVE UnitInv'
  BY <1>7 DEF ReadActive, Reconciled, Resume, End, Call
<1>8. ASSUME NEW t \in Tasks, ReadStatus(t) PROVE UnitInv'
  BY <1>8 DEF ReadStatus
<1>9. ASSUME NEW t \in Tasks, QueryAlive(t) PROVE UnitInv'
  BY <1>9 DEF QueryAlive, Reconciled, Resume, End
<1>10. ASSUME NEW t \in Tasks, QueryStopped(t) PROVE UnitInv'
  BY <1>10 DEF QueryStopped
<1>11. ASSUME NEW t \in Tasks, Reread(t) PROVE UnitInv'
  BY <1>11 DEF Reread, Reconciled, Resume, End
<1>12. ASSUME NEW t \in Tasks, Recheck(t) PROVE UnitInv'
  BY <1>12 DEF Recheck, Reconciled, Resume, End, Call
<1>13. ASSUME NEW t \in Tasks, PlanActive(t) PROVE UnitInv'
  BY <1>13 DEF PlanActive, Call
<1>14. ASSUME NEW t \in Tasks, PlanStatus(t) PROVE UnitInv'
  BY <1>14 DEF PlanStatus, End
<1>15. ASSUME NEW t \in Tasks, WriteStatus(t) PROVE UnitInv'
  BY <1>15 DEF WriteStatus
<1>16. ASSUME NEW t \in Tasks, WriteActive(t) PROVE UnitInv'
  BY <1>16 DEF WriteActive
<1>17. ASSUME NEW t \in Tasks, StartUnit(t) PROVE UnitInv'
  BY <1>17 DEF StartUnit
<1>18. ASSUME NEW t \in Tasks, NEW k \in Jobs, WriteRequest(t, k) PROVE UnitInv'
  BY <1>18 DEF WriteRequest, Call, New
<1>19. ASSUME NEW t \in Tasks, DropRequest(t) PROVE UnitInv'
  BY <1>19 DEF DropRequest, Resume, End
<1>20. ASSUME NEW t \in Tasks, BeginReconcile(t) PROVE UnitInv'
  BY <1>20 DEF BeginReconcile
<1>21. ASSUME NEW t \in Tasks, BeginSchedule(t) PROVE UnitInv'
  BY <1>21 DEF BeginSchedule
<1>22. ASSUME NEW t \in Tasks, AgentStarts(t) PROVE UnitInv'
  BY <1>22 DEF AgentStarts
<1>23. ASSUME NEW t \in Tasks, StartFails(t) PROVE UnitInv'
  BY <1>23 DEF StartFails, Call, Fault
<1>24. ASSUME NEW t \in Tasks, TaskStops(t) PROVE UnitInv'
  BY <1>24 DEF TaskStops, Fault
<1>25. ASSUME NEW k \in Jobs, TakeRequest(k) PROVE UnitInv'
  BY <1>25 DEF TakeRequest, Call
<1>26. ASSUME NEW k \in Jobs, UpdateRead(k) PROVE UnitInv'
  <2>1. CASE End(k)
    BY <1>26, <2>1, EndKeepsUnits DEF UpdateRead
  <2>2. CASE ~End(k)
    BY <1>26, <2>2 DEF UpdateRead
  <2> QED
    BY <2>1, <2>2
<1>27. ASSUME NEW k \in Jobs, UpdateWrite(k) PROVE UnitInv'
  BY <1>27 DEF UpdateWrite
<1>28. ASSUME NEW k \in Jobs, WorkerStarts(k) PROVE UnitInv'
  BY <1>28 DEF WorkerStarts, StartsLate
<1>29. ASSUME NEW k \in Jobs, WorkFails(k) PROVE UnitInv'
  BY <1>29 DEF WorkFails, Fault
<1>30. ASSUME NEW k \in Jobs, WorkerKilled(k) PROVE UnitInv'
  BY <1>30 DEF WorkerKilled, Fault
<1>31. ASSUME NEW k \in Jobs, GraceEnds(k) PROVE UnitInv'
  BY <1>31 DEF GraceEnds
<1>32. ASSUME AgentKilled PROVE UnitInv'
  BY <1>32 DEF AgentKilled, Fault
<1>33. ASSUME Reboot PROVE UnitInv'
  BY <1>33 DEF Reboot, Fault
<1>35. ASSUME NEW t \in Tasks, LookAtRequest(t) PROVE UnitInv'
  BY <1>35 DEF LookAtRequest, Reconciled, Resume, End
<1>34. CASE UNCHANGED vars
  BY <1>34
<1> HIDE DEF Goto, Rest, NoSubject, store, systemd, locals, vars, Procs, Terminal,
   Queued, Complete, Failed, Unwritten, TaskLabels, WorkerLabels, Calling, TypeOK,
   CallInv, LockInv, UnitInv, Starting
<1> QED
  BY <1>1, <1>2, <1>3, <1>4, <1>5, <1>6, <1>7, <1>8, <1>9, <1>10, <1>11, <1>12, <1>13,
     <1>14, <1>15, <1>16, <1>17, <1>18, <1>19, <1>20, <1>21, <1>22, <1>23, <1>24, <1>25,
     <1>26, <1>27, <1>28, <1>29, <1>30, <1>31, <1>32, <1>33, <1>34, <1>35
  DEF Next, TaskStep, WorkerStep, Shared, Reconciling, Scheduling, Working, Procs


(* The pointer is what a task that schedules has last seen, or none.       *)
LEMMA PointerStep ==
  ASSUME SchedulingInv, [Next]_vars
  PROVE  PointerInv'
<1> USE DEF Goto, Rest, NoSubject, store, systemd, locals, vars, Procs, Terminal,
   Queued, Complete, Failed, Unwritten, TaskLabels, WorkerLabels, Calling, TypeOK,
   CallInv, LockInv, PointerInv, SchedulingInv, Starting
<1>1. ASSUME NEW p \in Procs, FailRead(p) PROVE PointerInv'
  BY <1>1 DEF FailRead, Abort
<1>2. ASSUME NEW p \in Procs, FailWrite(p) PROVE PointerInv'
  BY <1>2 DEF FailWrite
<1>3. ASSUME NEW p \in Procs, ClearRead(p) PROVE PointerInv'
  BY <1>3 DEF ClearRead, Resume, End
<1>4. ASSUME NEW p \in Procs, ClearRemove(p) PROVE PointerInv'
  BY <1>4 DEF ClearRemove, Resume, End
<1>5. ASSUME NEW p \in Procs, ReconcileBoot(p) PROVE PointerInv'
  BY <1>5 DEF ReconcileBoot, Call
<1>6. ASSUME NEW p \in Procs, Dispose(p) PROVE PointerInv'
  BY <1>6 DEF Dispose, Call, Resume, End
<1>7. ASSUME NEW t \in Tasks, ReadActive(t) PROVE PointerInv'
  BY <1>7 DEF ReadActive, Reconciled, Resume, End, Call
<1>8. ASSUME NEW t \in Tasks, ReadStatus(t) PROVE PointerInv'
  BY <1>8 DEF ReadStatus
<1>9. ASSUME NEW t \in Tasks, QueryAlive(t) PROVE PointerInv'
  BY <1>9 DEF QueryAlive, Reconciled, Resume, End
<1>10. ASSUME NEW t \in Tasks, QueryStopped(t) PROVE PointerInv'
  BY <1>10 DEF QueryStopped
<1>11. ASSUME NEW t \in Tasks, Reread(t) PROVE PointerInv'
  BY <1>11 DEF Reread, Reconciled, Resume, End
<1>12. ASSUME NEW t \in Tasks, Recheck(t) PROVE PointerInv'
  BY <1>12 DEF Recheck, Reconciled, Resume, End, Call
<1>13. ASSUME NEW t \in Tasks, PlanActive(t) PROVE PointerInv'
  BY <1>13 DEF PlanActive, Call
<1>14. ASSUME NEW t \in Tasks, PlanStatus(t) PROVE PointerInv'
  BY <1>14 DEF PlanStatus, End
<1>15. ASSUME NEW t \in Tasks, WriteStatus(t) PROVE PointerInv'
  BY <1>15 DEF WriteStatus
<1>16. ASSUME NEW t \in Tasks, WriteActive(t) PROVE PointerInv'
  BY <1>16 DEF WriteActive
<1>17. ASSUME NEW t \in Tasks, StartUnit(t) PROVE PointerInv'
  BY <1>17 DEF StartUnit
<1>18. ASSUME NEW t \in Tasks, NEW k \in Jobs, WriteRequest(t, k) PROVE PointerInv'
  BY <1>18 DEF WriteRequest, Call, New
<1>19. ASSUME NEW t \in Tasks, DropRequest(t) PROVE PointerInv'
  BY <1>19 DEF DropRequest, Resume, End
<1>20. ASSUME NEW t \in Tasks, BeginReconcile(t) PROVE PointerInv'
  BY <1>20 DEF BeginReconcile
<1>21. ASSUME NEW t \in Tasks, BeginSchedule(t) PROVE PointerInv'
  BY <1>21 DEF BeginSchedule
<1>22. ASSUME NEW t \in Tasks, AgentStarts(t) PROVE PointerInv'
  BY <1>22 DEF AgentStarts
<1>23. ASSUME NEW t \in Tasks, StartFails(t) PROVE PointerInv'
  BY <1>23 DEF StartFails, Call, Fault
<1>24. ASSUME NEW t \in Tasks, TaskStops(t) PROVE PointerInv'
  BY <1>24 DEF TaskStops, Fault
<1>25. ASSUME NEW k \in Jobs, TakeRequest(k) PROVE PointerInv'
  BY <1>25 DEF TakeRequest, Call
<1>26. ASSUME NEW k \in Jobs, UpdateRead(k) PROVE PointerInv'
  BY <1>26 DEF UpdateRead, End
<1>27. ASSUME NEW k \in Jobs, UpdateWrite(k) PROVE PointerInv'
  BY <1>27 DEF UpdateWrite
<1>28. ASSUME NEW k \in Jobs, WorkerStarts(k) PROVE PointerInv'
  BY <1>28 DEF WorkerStarts, StartsLate
<1>29. ASSUME NEW k \in Jobs, WorkFails(k) PROVE PointerInv'
  BY <1>29 DEF WorkFails, Fault
<1>30. ASSUME NEW k \in Jobs, WorkerKilled(k) PROVE PointerInv'
  BY <1>30 DEF WorkerKilled, Fault
<1>31. ASSUME NEW k \in Jobs, GraceEnds(k) PROVE PointerInv'
  BY <1>31 DEF GraceEnds
<1>32. ASSUME AgentKilled PROVE PointerInv'
  BY <1>32 DEF AgentKilled, Fault
<1>33. ASSUME Reboot PROVE PointerInv'
  BY <1>33 DEF Reboot, Fault
<1>35. ASSUME NEW t \in Tasks, LookAtRequest(t) PROVE PointerInv'
  BY <1>35 DEF LookAtRequest, Reconciled, Resume, End
<1>34. CASE UNCHANGED vars
  BY <1>34
<1> HIDE DEF Goto, Rest, NoSubject, store, systemd, locals, vars, Procs, Terminal,
   Queued, Complete, Failed, Unwritten, TaskLabels, WorkerLabels, Calling, TypeOK,
   CallInv, LockInv, PointerInv, SchedulingInv, Starting
<1> QED
  BY <1>1, <1>2, <1>3, <1>4, <1>5, <1>6, <1>7, <1>8, <1>9, <1>10, <1>11, <1>12, <1>13,
     <1>14, <1>15, <1>16, <1>17, <1>18, <1>19, <1>20, <1>21, <1>22, <1>23, <1>24, <1>25,
     <1>26, <1>27, <1>28, <1>29, <1>30, <1>31, <1>32, <1>33, <1>34, <1>35
  DEF Next, TaskStep, WorkerStep, Shared, Reconciling, Scheduling, Working, Procs


LEMMA SchedulingStep == SchedulingInv /\ [Next]_vars => SchedulingInv'
BY TypeStep, CallStep, LockStep, UnitStep, PointerStep DEF SchedulingInv

(* No scheduling puts another job in the place of one that the pointer     *)
(* names, for whatever failures and however late units start.              *)
THEOREM JobsAreNotDisplaced == Spec => NoJobIsDisplaced
<1>1. Init => SchedulingInv
  BY InitInv DEF JobsInv
<1>2. SchedulingInv /\ [Next]_vars => (active' \notin {active, None} => active = None)
  <2> SUFFICES ASSUME SchedulingInv, Next, active' \notin {active, None}
               PROVE  active = None
    BY DEF vars, store
  <2>1. PICK t \in Tasks : WriteActive(t)
    BY DEF Next, TaskStep, WorkerStep, Shared, Reconciling, Scheduling, Working, store,
           FailRead, FailWrite, ClearRead, ClearRemove, ReconcileBoot, Dispose, ReadActive,
           ReadStatus, QueryAlive, QueryStopped, LookAtRequest, Reread, Recheck, PlanActive, PlanStatus,
           WriteStatus, StartUnit, WriteRequest, DropRequest, BeginReconcile, BeginSchedule,
           AgentStarts, StartFails, TaskStops, TakeRequest, UpdateRead, UpdateWrite,
           WorkerStarts, WorkFails, WorkerKilled, GraceEnds, AgentKilled, Reboot
  <2> QED
    BY <2>1 DEF WriteActive, SchedulingInv, PointerInv
<1> QED
  BY <1>1, <1>2, SchedulingStep, PTL DEF Spec, NoJobIsDisplaced

--------------------------------------------------------------------------------
(* Jobs whose units do not start late. *)

(* A job that is over stays over.                                          *)
LEMMA OverStep ==
  ASSUME SchedulingInv, StoredInv, NEW o \in OverJobs, [Next]_vars
  PROVE  o \in OverJobs'
<1> USE DEF Goto, Rest, NoSubject, store, systemd, locals, vars, Procs, Terminal,
   Queued, Complete, Failed, Unwritten, TaskLabels, WorkerLabels, Calling, TypeOK,
   CallInv, LockInv, UnitInv, SchedulingInv, StoredInv, StoredOfWorker, StoredOfTask, OverJobs, Starting
<1>1. ASSUME NEW p \in Procs, FailRead(p) PROVE o \in OverJobs'
  BY <1>1 DEF FailRead, Abort
<1>2. ASSUME NEW p \in Procs, FailWrite(p) PROVE o \in OverJobs'
  BY <1>2 DEF FailWrite
<1>3. ASSUME NEW p \in Procs, ClearRead(p) PROVE o \in OverJobs'
  BY <1>3 DEF ClearRead, Resume, End
<1>4. ASSUME NEW p \in Procs, ClearRemove(p) PROVE o \in OverJobs'
  BY <1>4 DEF ClearRemove, Resume, End
<1>5. ASSUME NEW p \in Procs, ReconcileBoot(p) PROVE o \in OverJobs'
  BY <1>5 DEF ReconcileBoot, Call
<1>6. ASSUME NEW p \in Procs, Dispose(p) PROVE o \in OverJobs'
  BY <1>6 DEF Dispose, Call, Resume, End
<1>7. ASSUME NEW t \in Tasks, ReadActive(t) PROVE o \in OverJobs'
  BY <1>7 DEF ReadActive, Reconciled, Resume, End, Call
<1>8. ASSUME NEW t \in Tasks, ReadStatus(t) PROVE o \in OverJobs'
  BY <1>8 DEF ReadStatus
<1>9. ASSUME NEW t \in Tasks, QueryAlive(t) PROVE o \in OverJobs'
  BY <1>9 DEF QueryAlive, Reconciled, Resume, End
<1>10. ASSUME NEW t \in Tasks, QueryStopped(t) PROVE o \in OverJobs'
  BY <1>10 DEF QueryStopped
<1>11. ASSUME NEW t \in Tasks, Reread(t) PROVE o \in OverJobs'
  BY <1>11 DEF Reread, Reconciled, Resume, End
<1>12. ASSUME NEW t \in Tasks, Recheck(t) PROVE o \in OverJobs'
  BY <1>12 DEF Recheck, Reconciled, Resume, End, Call
<1>13. ASSUME NEW t \in Tasks, PlanActive(t) PROVE o \in OverJobs'
  BY <1>13 DEF PlanActive, Call
<1>14. ASSUME NEW t \in Tasks, PlanStatus(t) PROVE o \in OverJobs'
  BY <1>14 DEF PlanStatus, End
<1>15. ASSUME NEW t \in Tasks, WriteStatus(t) PROVE o \in OverJobs'
  BY <1>15 DEF WriteStatus
<1>16. ASSUME NEW t \in Tasks, WriteActive(t) PROVE o \in OverJobs'
  BY <1>16 DEF WriteActive
<1>17. ASSUME NEW t \in Tasks, StartUnit(t) PROVE o \in OverJobs'
  BY <1>17 DEF StartUnit
<1>18. ASSUME NEW t \in Tasks, NEW k \in Jobs, WriteRequest(t, k) PROVE o \in OverJobs'
  BY <1>18 DEF WriteRequest, Call, New
<1>19. ASSUME NEW t \in Tasks, DropRequest(t) PROVE o \in OverJobs'
  BY <1>19 DEF DropRequest, Resume, End
<1>20. ASSUME NEW t \in Tasks, BeginReconcile(t) PROVE o \in OverJobs'
  BY <1>20 DEF BeginReconcile
<1>21. ASSUME NEW t \in Tasks, BeginSchedule(t) PROVE o \in OverJobs'
  BY <1>21 DEF BeginSchedule
<1>22. ASSUME NEW t \in Tasks, AgentStarts(t) PROVE o \in OverJobs'
  BY <1>22 DEF AgentStarts
<1>23. ASSUME NEW t \in Tasks, StartFails(t) PROVE o \in OverJobs'
  BY <1>23 DEF StartFails, Call, Fault
<1>24. ASSUME NEW t \in Tasks, TaskStops(t) PROVE o \in OverJobs'
  BY <1>24 DEF TaskStops, Fault
<1>25. ASSUME NEW k \in Jobs, TakeRequest(k) PROVE o \in OverJobs'
  BY <1>25 DEF TakeRequest, Call
<1>26. ASSUME NEW k \in Jobs, UpdateRead(k) PROVE o \in OverJobs'
  BY <1>26 DEF UpdateRead, End
<1>27. ASSUME NEW k \in Jobs, UpdateWrite(k) PROVE o \in OverJobs'
  BY <1>27 DEF UpdateWrite
<1>28. ASSUME NEW k \in Jobs, WorkerStarts(k) PROVE o \in OverJobs'
  BY <1>28 DEF WorkerStarts, StartsLate
<1>29. ASSUME NEW k \in Jobs, WorkFails(k) PROVE o \in OverJobs'
  BY <1>29 DEF WorkFails, Fault
<1>30. ASSUME NEW k \in Jobs, WorkerKilled(k) PROVE o \in OverJobs'
  BY <1>30 DEF WorkerKilled, Fault
<1>31. ASSUME NEW k \in Jobs, GraceEnds(k) PROVE o \in OverJobs'
  BY <1>31 DEF GraceEnds
<1>32. ASSUME AgentKilled PROVE o \in OverJobs'
  BY <1>32 DEF AgentKilled, Fault
<1>33. ASSUME Reboot PROVE o \in OverJobs'
  BY <1>33 DEF Reboot, Fault
<1>35. ASSUME NEW t \in Tasks, LookAtRequest(t) PROVE o \in OverJobs'
  BY <1>35 DEF LookAtRequest, Reconciled, Resume, End
<1>34. CASE UNCHANGED vars
  BY <1>34
<1> HIDE DEF Goto, Rest, NoSubject, store, systemd, locals, vars, Procs, Terminal,
   Queued, Complete, Failed, Unwritten, TaskLabels, WorkerLabels, Calling, TypeOK,
   CallInv, LockInv, UnitInv, SchedulingInv, StoredInv, StoredOfWorker, StoredOfTask, OverJobs, Starting
<1> QED
  BY <1>1, <1>2, <1>3, <1>4, <1>5, <1>6, <1>7, <1>8, <1>9, <1>10, <1>11, <1>12, <1>13,
     <1>14, <1>15, <1>16, <1>17, <1>18, <1>19, <1>20, <1>21, <1>22, <1>23, <1>24, <1>25,
     <1>26, <1>27, <1>28, <1>29, <1>30, <1>31, <1>32, <1>33, <1>34, <1>35
  DEF Next, TaskStep, WorkerStep, Shared, Reconciling, Scheduling, Working, Procs


(* No unit starts.                                                         *)
NoUnitStarts ==
  \A j \in Jobs : \/ unit'[j] = unit[j]
                  \/ unit[j] = "active" /\ unit'[j] = "gone"
                  \/ unit[j] = "none" /\ unit'[j] = "waiting"

(* A step of one process that writes no status disturbs only what is       *)
(* stored of that process.                                                 *)
LEMMA OneProcessStores ==
  ASSUME SchedulingInv, StoredInv, NEW p \in Procs,
         p \in Jobs => StoredOfWorker(p)', p \in Tasks => StoredOfTask(p)',
         \A q \in Procs \ {p} : /\ pc'[q] = pc[q] /\ subject'[q] = subject[q]
                                /\ seen'[q] = seen[q] /\ ret'[q] = ret[q],
         UNCHANGED <<phase, late>>, active' \in {active, None}, NoUnitStarts
  PROVE  StoredInv'
<1>1. ASSUME NEW j \in Jobs PROVE StoredOfWorker(j)'
  BY DEF StoredInv, StoredOfWorker, Procs
<1>2. ASSUME NEW t \in Tasks PROVE StoredOfTask(t)'
  <2>1. pc[t] = "query" => subject[t] \in Jobs
    BY DEF SchedulingInv, CallInv
  <2>2. CASE t = p
    BY <2>2
  <2>3. CASE t # p
    <3>1. StoredOfTask(t) /\ pc'[t] = pc[t] /\ subject'[t] = subject[t] /\ seen'[t] = seen[t]
      BY <2>3 DEF StoredInv, Procs
    <3>2. pc[t] = "query" /\ unit'[subject[t]] \in {"none", "waiting"} =>
            unit[subject[t]] \in {"none", "waiting"}
      BY <2>1 DEF NoUnitStarts
    <3> QED
      BY <3>1, <3>2 DEF StoredOfTask
  <2> QED
    BY <2>2, <2>3
<1>3. \A j \in Jobs : unit'[j] \in {"none", "waiting"} => phase[j] \in {Unwritten, Queued, Failed}
  BY DEF StoredInv, NoUnitStarts
<1> QED
  BY <1>1, <1>2, <1>3 DEF StoredInv

LEMMA EndStores ==
  ASSUME SchedulingInv, StoredInv, NEW p \in Procs, End(p) \/ Abort(p), pc[p] # "idle",
         UNCHANGED <<phase, late>>, active' \in {active, None}
  PROVE  StoredInv'
<1>1. /\ pc' = [q \in Procs |-> IF q = p THEN "idle" ELSE pc[q]]
      /\ \A q \in Procs \ {p} : subject'[q] = subject[q] /\ seen'[q] = seen[q] /\ ret'[q] = ret[q]
      /\ unit' = IF p \in Jobs THEN [unit EXCEPT ![p] = "gone"] ELSE unit
  BY DEF End, Abort, Goto, Rest
<1>2. StoredOfWorker(p)' /\ StoredOfTask(p)'
  BY <1>1 DEF StoredOfWorker, StoredOfTask, Calling
<1>3. p \in Jobs => unit[p] = "active"
  BY DEF SchedulingInv, UnitInv
<1>4. NoUnitStarts
  BY <1>1, <1>3 DEF SchedulingInv, TypeOK, NoUnitStarts
<1> QED
  BY <1>1, <1>2, <1>4, OneProcessStores

LEMMA ResumeStores ==
  ASSUME SchedulingInv, StoredInv, NEW p \in Procs, pc[p] \in {"clear", "clear_remove"},
         Resume(p, ret[p]), UNCHANGED <<phase, late>>, active' \in {active, None}
  PROVE  StoredInv'
<1>1. CASE ret[p] = "idle"
  BY <1>1, EndStores DEF Resume
<1>2. CASE ret[p] # "idle"
  <2>1. /\ pc' = [pc EXCEPT ![p] = ret[p]]
        /\ UNCHANGED <<unit, subject, seen, ret>>
        /\ pc \in [Procs -> TaskLabels \union WorkerLabels]
    BY <1>2 DEF Resume, Goto, SchedulingInv, CallInv
  <2>2. p \in Tasks => ret[p] \in {"plan", "request", "drop", "drop_unstarted", "dispose"}
    BY <1>2 DEF SchedulingInv, CallInv
  <2>3. p \in Jobs => ret[p] \in {"take", "dispose"} /\ StoredOfWorker(p)
    BY <1>2 DEF SchedulingInv, CallInv, Calling, StoredInv
  <2>4. p \in Jobs => StoredOfWorker(p)'
    BY <1>2, <2>1, <2>3 DEF StoredOfWorker, Calling
  <2>5. p \in Tasks => StoredOfTask(p)'
    BY <2>1, <2>2 DEF StoredOfTask
  <2>6. NoUnitStarts
    BY <2>1 DEF NoUnitStarts
  <2> QED
    BY <2>1, <2>4, <2>5, <2>6, OneProcessStores
<1> QED
  BY <1>1, <1>2

(* What is stored of a job stays as far as its unit and its task are.      *)
LEMMA StoredStep ==
  ASSUME JobsInv, [Next]_vars
  PROVE  StoredInv'
<1> USE DEF Goto, Rest, NoSubject, store, systemd, locals, vars, Procs, Terminal,
   Queued, Complete, Failed, Unwritten, TaskLabels, WorkerLabels, Calling, TypeOK,
   CallInv, LockInv, UnitInv, PointerInv, SchedulingInv, StoredInv, StoredOfWorker, StoredOfTask, JobsInv,
   Starting
<1>1. ASSUME NEW p \in Procs, FailRead(p) PROVE StoredInv'
  <2>1. UNCHANGED <<phase, late, active>>
    BY <1>1 DEF FailRead
  <2>2. CASE Abort(p)
    BY <1>1, <2>1, <2>2, EndStores DEF FailRead
  <2>3. CASE ~Abort(p)
    <3>1. pc' = [pc EXCEPT ![p] = "fail_write"] /\ UNCHANGED <<subject, seen, ret, unit>>
      BY <1>1, <2>3 DEF FailRead
    <3>2. pc[p] = "fail" /\ (p \in Jobs => StoredOfWorker(p)) /\ NoUnitStarts
      BY <1>1, <3>1 DEF FailRead, NoUnitStarts
    <3>3. p \in Jobs => StoredOfWorker(p)'
      BY <2>1, <3>1, <3>2
    <3>4. p \in Tasks => StoredOfTask(p)'
      BY <3>1
    <3> HIDE DEF StoredOfWorker, StoredOfTask, StoredInv, SchedulingInv
    <3> QED
      BY <2>1, <3>1, <3>2, <3>3, <3>4, OneProcessStores
  <2> QED
    BY <2>2, <2>3
<1>2. ASSUME NEW p \in Procs, FailWrite(p) PROVE StoredInv'
  <2>1. subject[p] \in Jobs
    BY <1>2, CallingHasSubject DEF FailWrite
  <2>2. /\ phase' = [phase EXCEPT ![subject[p]] = Failed]
        /\ pc' = [pc EXCEPT ![p] = "clear"]
        /\ pc[p] = "fail_write"
        /\ UNCHANGED <<active, unit, late, subject, seen, ret>>
    BY <1>2 DEF FailWrite
  <2>3. \/ subject[p] \in OverJobs
        \/ subject[p] = p /\ ret[p] = "idle"
        \/ unit[subject[p]] = "waiting"
    BY <2>2 DEF FailureInv, FailsSafely
  <2>4. unit[subject[p]] \in {"none", "waiting", "active", "gone"}
    BY <2>1, UnitType
  <2>5. phase[subject[p]] # Unwritten
    BY <2>1, <2>2, <2>3 DEF OverJobs
  <2>6. subject[p] \in late \/ pc[subject[p]] = "idle" \/ (subject[p] = p /\ ret[p] = "idle")
    BY <2>1, <2>3, <2>4 DEF OverJobs
  <2>7. active # None => phase'[active] # Unwritten
    BY <2>1, <2>2
  <2>8. ASSUME NEW k \in Jobs \ late
        PROVE  /\ pc'[k] \in {"boot", "dispose", "take"} \/ (pc'[k] \in Calling /\ ret[k] # "idle") =>
                    phase'[k] = Queued
               /\ pc'[k] = "update_write" => ~Terminal(phase'[k]) /\ phase'[k] <= seen[k]
    <3>1. CASE k = subject[p]
      BY <2>1, <2>2, <2>6, <3>1
    <3>2. CASE k # subject[p]
      <4>1. phase'[k] = phase[k]
        BY <2>1, <2>2, <3>2
      <4>2. CASE k = p
        BY <2>2, <4>1, <4>2
      <4>3. CASE k # p
        BY <2>2, <4>1, <4>3
      <4> QED
        BY <4>2, <4>3
    <3> QED
      BY <3>1, <3>2
  <2>9. ASSUME NEW t \in Tasks
        PROVE  /\ pc'[t] = "status" => phase'[subject[t]] = Unwritten
               /\ pc'[t] \in {"read_status", "query", "grace"} => phase'[subject[t]] # Unwritten
               /\ pc'[t] = "query" /\ unit[subject[t]] \in {"none", "waiting"} => seen[t] = Queued
    BY <2>1, <2>2, <2>5
  <2>10. \A j \in Jobs : unit[j] \in {"none", "waiting"} => phase'[j] \in {Unwritten, Queued, Failed}
    BY <2>1, <2>2
  <2> QED
    BY <2>2, <2>7, <2>8, <2>9, <2>10
<1>3. ASSUME NEW p \in Procs, ClearRead(p) PROVE StoredInv'
  <2>1. UNCHANGED <<phase, late, active>>
    BY <1>3 DEF ClearRead
  <2>2. CASE active = subject[p]
    <3>1. pc' = [pc EXCEPT ![p] = "clear_remove"] /\ UNCHANGED <<subject, seen, ret, unit>>
      BY <1>3, <2>2 DEF ClearRead
    <3>2. pc[p] = "clear" /\ (p \in Jobs => StoredOfWorker(p)) /\ NoUnitStarts
      BY <1>3, <3>1 DEF ClearRead, NoUnitStarts
    <3>3. p \in Jobs => StoredOfWorker(p)'
      BY <2>1, <3>1, <3>2
    <3>4. p \in Tasks => StoredOfTask(p)'
      BY <3>1
    <3> HIDE DEF StoredOfWorker, StoredOfTask, StoredInv, SchedulingInv
    <3> QED
      BY <2>1, <3>1, <3>2, <3>3, <3>4, OneProcessStores
  <2>3. CASE active # subject[p]
    BY <1>3, <2>1, <2>3, ResumeStores DEF ClearRead
  <2> QED
    BY <2>2, <2>3
<1>4. ASSUME NEW p \in Procs, ClearRemove(p) PROVE StoredInv'
  <2>1. UNCHANGED <<phase, late>> /\ active' = None
    BY <1>4 DEF ClearRemove
  <2> QED
    BY <1>4, <2>1, ResumeStores DEF ClearRemove
<1>5. ASSUME NEW p \in Procs, ReconcileBoot(p) PROVE StoredInv'
  BY <1>5 DEF ReconcileBoot, Call
<1>6. ASSUME NEW p \in Procs, Dispose(p) PROVE StoredInv'
  BY <1>6 DEF Dispose, Call, Resume, End
<1>7. ASSUME NEW t \in Tasks, ReadActive(t) PROVE StoredInv'
  BY <1>7 DEF ReadActive, Reconciled, Resume, End, Call
<1>8. ASSUME NEW t \in Tasks, ReadStatus(t) PROVE StoredInv'
  <2>1. /\ pc'[t] \in {"clear", "query"} /\ subject[t] \in Jobs
        /\ pc'[t] = "query" => ~Terminal(seen'[t])
        /\ seen'[t] = phase[subject[t]]
        /\ \A q \in Procs \ {t} : pc'[q] = pc[q] /\ seen'[q] = seen[q] /\ ret'[q] = ret[q]
        /\ UNCHANGED <<phase, late, active, unit, subject>>
    BY <1>8 DEF ReadStatus
  <2>2. phase[subject[t]] # Unwritten
    BY <1>8 DEF ReadStatus
  <2>3. unit[subject[t]] \in {"none", "waiting"} /\ ~Terminal(phase[subject[t]]) =>
          phase[subject[t]] = Queued
    <3>1. unit[subject[t]] \in {"none", "waiting"} => phase[subject[t]] \in {Unwritten, Queued, Failed}
      BY <2>1
    <3> QED
      BY <2>2, <3>1
  <2>4. StoredOfTask(t)'
    BY <2>1, <2>2, <2>3
  <2>5. t \notin Jobs /\ NoUnitStarts
    BY <2>1 DEF NoUnitStarts
  <2> HIDE DEF StoredOfWorker, StoredOfTask, StoredInv, SchedulingInv
  <2> QED
    BY <2>1, <2>4, <2>5, OneProcessStores
<1>9. ASSUME NEW t \in Tasks, QueryAlive(t) PROVE StoredInv'
  BY <1>9 DEF QueryAlive, Reconciled, Resume, End
<1>10. ASSUME NEW t \in Tasks, QueryStopped(t) PROVE StoredInv'
  BY <1>10 DEF QueryStopped
<1>11. ASSUME NEW t \in Tasks, Reread(t) PROVE StoredInv'
  BY <1>11 DEF Reread, Reconciled, Resume, End
<1>12. ASSUME NEW t \in Tasks, Recheck(t) PROVE StoredInv'
  BY <1>12 DEF Recheck, Reconciled, Resume, End, Call
<1>13. ASSUME NEW t \in Tasks, PlanActive(t) PROVE StoredInv'
  BY <1>13 DEF PlanActive, Call
<1>14. ASSUME NEW t \in Tasks, PlanStatus(t) PROVE StoredInv'
  BY <1>14 DEF PlanStatus, End
<1>15. ASSUME NEW t \in Tasks, WriteStatus(t) PROVE StoredInv'
  BY <1>15 DEF WriteStatus
<1>16. ASSUME NEW t \in Tasks, WriteActive(t) PROVE StoredInv'
  BY <1>16 DEF WriteActive
<1>17. ASSUME NEW t \in Tasks, StartUnit(t) PROVE StoredInv'
  BY <1>17 DEF StartUnit
<1>18. ASSUME NEW t \in Tasks, NEW k \in Jobs, WriteRequest(t, k) PROVE StoredInv'
  BY <1>18 DEF WriteRequest, Call, New
<1>19. ASSUME NEW t \in Tasks, DropRequest(t) PROVE StoredInv'
  BY <1>19 DEF DropRequest, Resume, End
<1>20. ASSUME NEW t \in Tasks, BeginReconcile(t) PROVE StoredInv'
  BY <1>20 DEF BeginReconcile
<1>21. ASSUME NEW t \in Tasks, BeginSchedule(t) PROVE StoredInv'
  BY <1>21 DEF BeginSchedule
<1>22. ASSUME NEW t \in Tasks, AgentStarts(t) PROVE StoredInv'
  BY <1>22 DEF AgentStarts
<1>23. ASSUME NEW t \in Tasks, StartFails(t) PROVE StoredInv'
  <2>1. /\ pc'[t] = "fail" /\ subject[t] \in Jobs /\ unit[subject[t]] = "none"
        /\ \A q \in Procs \ {t} : pc'[q] = pc[q] /\ subject'[q] = subject[q] /\ ret'[q] = ret[q]
        /\ unit' \in {unit, [unit EXCEPT ![subject[t]] = "waiting"]}
        /\ UNCHANGED <<phase, late, active, seen>>
    BY <1>23 DEF StartFails, Call
  <2>2. StoredOfTask(t)' /\ t \notin Jobs /\ NoUnitStarts
    BY <2>1 DEF NoUnitStarts
  <2> HIDE DEF StoredOfWorker, StoredOfTask, StoredInv, SchedulingInv
  <2> QED
    BY <2>1, <2>2, OneProcessStores
<1>24. ASSUME NEW t \in Tasks, TaskStops(t) PROVE StoredInv'
  <2>1. /\ pc'[t] = "idle"
        /\ \A q \in Procs \ {t} : /\ pc'[q] = pc[q] /\ subject'[q] = subject[q]
                                 /\ seen'[q] = seen[q] /\ ret'[q] = ret[q]
        /\ UNCHANGED <<phase, late, active>>
    BY <1>24 DEF TaskStops
  <2>2. StoredOfTask(t)' /\ t \notin Jobs
    BY <2>1
  <2>3. NoUnitStarts
    <3>1. pc[t] = "start" => subject[t] \in Jobs /\ unit[subject[t]] = "none"
      BY <1>24
    <3> QED
      BY <1>24, <3>1 DEF TaskStops, NoUnitStarts
  <2> HIDE DEF StoredOfWorker, StoredOfTask, StoredInv, SchedulingInv
  <2> QED
    BY <2>1, <2>2, <2>3, OneProcessStores
<1>25. ASSUME NEW k \in Jobs, TakeRequest(k) PROVE StoredInv'
  BY <1>25 DEF TakeRequest, Call
<1>26. ASSUME NEW k \in Jobs, UpdateRead(k) PROVE StoredInv'
  <2>1. UNCHANGED <<phase, late, active>>
    BY <1>26 DEF UpdateRead
  <2>2. CASE End(k)
    BY <1>26, <2>1, <2>2, EndStores DEF UpdateRead
  <2>3. CASE ~End(k)
    <3>1. PICK label \in {"update_write", "fail"} :
            /\ pc' = [pc EXCEPT ![k] = label]
            /\ label = "update_write" => ~Terminal(phase[k]) /\ seen[k] + 1 > phase[k]
            /\ UNCHANGED <<subject, seen, ret, unit>>
      BY <1>26, <2>3 DEF UpdateRead
    <3>2. ret[k] = "idle" /\ seen[k] \in Int /\ phase[k] \in Int
      BY <1>26, PhaseType DEF UpdateRead
    <3>3. StoredOfWorker(k)' /\ k \notin Tasks /\ NoUnitStarts
      BY <2>1, <3>1, <3>2 DEF NoUnitStarts
    <3> HIDE DEF StoredOfWorker, StoredOfTask, StoredInv, SchedulingInv
    <3> QED
      BY <2>1, <3>1, <3>3, OneProcessStores
  <2> QED
    BY <2>2, <2>3
<1>27. ASSUME NEW k \in Jobs, UpdateWrite(k) PROVE StoredInv'
  BY <1>27 DEF UpdateWrite
<1>28. ASSUME NEW k \in Jobs, WorkerStarts(k) PROVE StoredInv'
  BY <1>28 DEF WorkerStarts, StartsLate
<1>29. ASSUME NEW k \in Jobs, WorkFails(k) PROVE StoredInv'
  BY <1>29 DEF WorkFails, Fault
<1>30. ASSUME NEW k \in Jobs, WorkerKilled(k) PROVE StoredInv'
  BY <1>30 DEF WorkerKilled, Fault
<1>31. ASSUME NEW k \in Jobs, GraceEnds(k) PROVE StoredInv'
  BY <1>31 DEF GraceEnds
<1>32. ASSUME AgentKilled PROVE StoredInv'
  BY <1>32 DEF AgentKilled, Fault
<1>33. ASSUME Reboot PROVE StoredInv'
  BY <1>33 DEF Reboot, Fault
<1>35. ASSUME NEW t \in Tasks, LookAtRequest(t) PROVE StoredInv'
  BY <1>35 DEF LookAtRequest, Reconciled, Resume, End
<1>34. CASE UNCHANGED vars
  BY <1>34
<1> HIDE DEF Goto, Rest, NoSubject, store, systemd, locals, vars, Procs, Terminal,
   Queued, Complete, Failed, Unwritten, TaskLabels, WorkerLabels, Calling, TypeOK,
   CallInv, LockInv, UnitInv, PointerInv, SchedulingInv, StoredInv, StoredOfWorker, StoredOfTask, JobsInv,
   Starting
<1> QED
  BY <1>1, <1>2, <1>3, <1>4, <1>5, <1>6, <1>7, <1>8, <1>9, <1>10, <1>11, <1>12, <1>13,
     <1>14, <1>15, <1>16, <1>17, <1>18, <1>19, <1>20, <1>21, <1>22, <1>23, <1>24, <1>25,
     <1>26, <1>27, <1>28, <1>29, <1>30, <1>31, <1>32, <1>33, <1>34, <1>35
  DEF Next, TaskStep, WorkerStep, Shared, Reconciling, Scheduling, Working, Procs


(* A step of one process disturbs only what is known of that process.      *)
LEMMA OneProcessFails ==
  ASSUME FailureInv, CallInv, NEW p \in Procs, FailsSafely(p)', FailedMeansStopped',
         \A q \in Procs \ {p} : pc'[q] = pc[q] /\ subject'[q] = subject[q] /\ ret'[q] = ret[q],
         UNCHANGED <<phase, stale, late>>, OverJobs \subseteq OverJobs', NoUnitStarts
  PROVE  FailureInv'
<1>1. ASSUME NEW q \in Procs \ {p} PROVE FailsSafely(q)'
  <2>1. pc[q] \in {"grace", "reread", "recheck", "fail", "fail_write"} => subject[q] \in Jobs
    BY DEF CallInv, Procs
  <2> QED
    BY <2>1 DEF FailureInv, FailsSafely, Procs, NoUnitStarts
<1>2. stale' \subseteq OverJobs'
  BY DEF FailureInv
<1> QED
  BY <1>1, <1>2 DEF FailureInv

(* A process that ends, or goes on after clear_active, fails nobody.       *)
LEMMA EndFailsNobody ==
  ASSUME JobsInv, NEW p \in Procs, End(p) \/ Abort(p), pc[p] # "idle",
         UNCHANGED <<phase, stale, late>>, OverJobs \subseteq OverJobs'
  PROVE  FailureInv'
<1>1. /\ pc' = [q \in Procs |-> IF q = p THEN "idle" ELSE pc[q]]
      /\ \A q \in Procs \ {p} : subject'[q] = subject[q] /\ ret'[q] = ret[q]
      /\ unit' = IF p \in Jobs THEN [unit EXCEPT ![p] = "gone"] ELSE unit
  BY DEF End, Abort, Goto, Rest
<1>2. FailsSafely(p)'
  BY <1>1 DEF FailsSafely
<1>3. FailedMeansStopped'
  BY <1>1 DEF FailedMeansStopped, JobsInv, FailureInv, Procs
<1>4. p \in Jobs => unit[p] = "active"
  BY DEF JobsInv, SchedulingInv, UnitInv
<1>5. NoUnitStarts
  BY <1>1, <1>4 DEF JobsInv, SchedulingInv, TypeOK, NoUnitStarts
<1> QED
  BY <1>1, <1>2, <1>3, <1>5, OneProcessFails DEF JobsInv, SchedulingInv

LEMMA ResumeFailsNobody ==
  ASSUME JobsInv, NEW p \in Procs, pc[p] \in {"clear", "clear_remove"}, Resume(p, ret[p]),
         UNCHANGED <<phase, stale, late>>, OverJobs \subseteq OverJobs'
  PROVE  FailureInv'
<1>1. CASE ret[p] = "idle"
  BY <1>1, EndFailsNobody DEF Resume
<1>2. CASE ret[p] # "idle"
  <2>1. /\ pc' = [pc EXCEPT ![p] = ret[p]]
        /\ UNCHANGED <<unit, subject, ret>>
        /\ pc \in [Procs -> TaskLabels \union WorkerLabels]
    BY <1>2 DEF Resume, Goto, JobsInv, SchedulingInv, CallInv
  <2>2. ret[p] \in {"plan", "request", "drop", "drop_unstarted", "dispose", "take"}
    BY <1>2 DEF JobsInv, SchedulingInv, CallInv, Calling, Procs
  <2>3. FailsSafely(p)'
    BY <2>1, <2>2 DEF FailsSafely
  <2>4. FailedMeansStopped'
    BY <2>1, <2>2 DEF FailedMeansStopped, JobsInv, FailureInv, Procs
  <2>5. NoUnitStarts
    BY <2>1 DEF NoUnitStarts
  <2> QED
    BY <2>1, <2>3, <2>4, <2>5, OneProcessFails DEF JobsInv, SchedulingInv
<1> QED
  BY <1>1, <1>2


(* Nobody comes to fail a job that is not over.                            *)
LEMMA FailureStep ==
  ASSUME JobsInv, [Next]_vars
  PROVE  FailureInv'
<1> USE DEF Goto, Rest, NoSubject, store, systemd, locals, vars, Procs, Terminal,
   Queued, Complete, Failed, Unwritten, TaskLabels, WorkerLabels, Calling, TypeOK,
   CallInv, LockInv, UnitInv, PointerInv, SchedulingInv, StoredInv, StoredOfWorker, StoredOfTask, FailureInv,
   FailsSafely, FailedMeansStopped, JobsInv, OverJobs, Starting
<1>1. ASSUME NEW p \in Procs, FailRead(p) PROVE FailureInv'
  <2>0. OverJobs \subseteq OverJobs'
    BY OverStep
  <2> HIDE DEF OverJobs, FailureInv
  <2>1. CASE Terminal(phase[subject[p]])
    BY <1>1, <2>0, <2>1, EndFailsNobody DEF FailRead
  <2>2. CASE ~Terminal(phase[subject[p]])
    <3>1. pc' = [pc EXCEPT ![p] = "fail_write"] /\ UNCHANGED <<phase, unit, late, stale, subject, ret>>
      BY <1>1, <2>2 DEF FailRead
    <3>2. FailsSafely(p) /\ pc[p] = "fail" /\ FailedMeansStopped
      BY <1>1 DEF FailRead, FailureInv
    <3>3. NoUnitStarts /\ FailsSafely(p)' /\ FailedMeansStopped'
      BY <2>0, <2>2, <3>1, <3>2 DEF NoUnitStarts
    <3> QED
      BY <2>0, <3>1, <3>3, OneProcessFails
  <2> QED
    BY <2>1, <2>2
<1>2. ASSUME NEW p \in Procs, FailWrite(p) PROVE FailureInv'
  BY <1>2 DEF FailWrite
<1>3. ASSUME NEW p \in Procs, ClearRead(p) PROVE FailureInv'
  <2>0. OverJobs \subseteq OverJobs'
    BY OverStep
  <2> HIDE DEF OverJobs, FailureInv
  <2>1. CASE active = subject[p]
    <3>1. pc' = [pc EXCEPT ![p] = "clear_remove"] /\ UNCHANGED <<phase, unit, late, stale, subject, ret>>
      BY <1>3, <2>1 DEF ClearRead
    <3>2. FailsSafely(p) /\ pc[p] = "clear" /\ FailedMeansStopped
      BY <1>3 DEF ClearRead, FailureInv
    <3>3. NoUnitStarts /\ FailsSafely(p)' /\ FailedMeansStopped'
      BY <2>0, <3>1, <3>2 DEF NoUnitStarts
    <3> QED
      BY <2>0, <3>1, <3>3, OneProcessFails
  <2>2. CASE active # subject[p]
    BY <1>3, <2>0, <2>2, ResumeFailsNobody DEF ClearRead
  <2> QED
    BY <2>1, <2>2
<1>4. ASSUME NEW p \in Procs, ClearRemove(p) PROVE FailureInv'
  <2>0. OverJobs \subseteq OverJobs'
    BY OverStep
  <2> HIDE DEF OverJobs, FailureInv
  <2> QED
    BY <1>4, <2>0, ResumeFailsNobody DEF ClearRemove
<1>5. ASSUME NEW p \in Procs, ReconcileBoot(p) PROVE FailureInv'
  BY <1>5 DEF ReconcileBoot, Call
<1>6. ASSUME NEW p \in Procs, Dispose(p) PROVE FailureInv'
  BY <1>6 DEF Dispose, Call, Resume, End
<1>7. ASSUME NEW t \in Tasks, ReadActive(t) PROVE FailureInv'
  BY <1>7 DEF ReadActive, Reconciled, Resume, End, Call
<1>8. ASSUME NEW t \in Tasks, ReadStatus(t) PROVE FailureInv'
  BY <1>8 DEF ReadStatus
<1>9. ASSUME NEW t \in Tasks, QueryAlive(t) PROVE FailureInv'
  BY <1>9 DEF QueryAlive, Reconciled, Resume, End
<1>10. ASSUME NEW t \in Tasks, QueryStopped(t) PROVE FailureInv'
  <2>1. /\ subject[t] \in Jobs /\ phase[subject[t]] # Unwritten
        /\ unit[subject[t]] \in {"none", "waiting", "gone"}
    <3>1. subject[t] \in Jobs /\ phase[subject[t]] # Unwritten /\ unit[subject[t]] # "active"
      BY <1>10 DEF QueryStopped
    <3> QED
      BY <3>1, UnitType
  <2>2. seen[t] # Queued => subject[t] \in OverJobs
    BY <1>10, <2>1 DEF QueryStopped
  <2>0. OverJobs \subseteq OverJobs'
    BY OverStep
  <2> HIDE DEF OverJobs, FailureInv
  <2>3. /\ pc' = [pc EXCEPT ![t] = IF seen[t] = Queued THEN "grace" ELSE "reread"]
        /\ UNCHANGED <<phase, unit, late, stale, subject, ret>>
    BY <1>10 DEF QueryStopped
  <2>4. FailsSafely(t)' /\ FailedMeansStopped'
    BY <2>0, <2>1, <2>2, <2>3 DEF FailureInv
  <2>5. NoUnitStarts
    BY <2>3 DEF NoUnitStarts
  <2> QED
    BY <2>0, <2>3, <2>4, <2>5, OneProcessFails
<1>11. ASSUME NEW t \in Tasks, Reread(t) PROVE FailureInv'
  BY <1>11 DEF Reread, Reconciled, Resume, End
<1>12. ASSUME NEW t \in Tasks, Recheck(t) PROVE FailureInv'
  BY <1>12 DEF Recheck, Reconciled, Resume, End, Call
<1>13. ASSUME NEW t \in Tasks, PlanActive(t) PROVE FailureInv'
  BY <1>13 DEF PlanActive, Call
<1>14. ASSUME NEW t \in Tasks, PlanStatus(t) PROVE FailureInv'
  BY <1>14 DEF PlanStatus, End
<1>15. ASSUME NEW t \in Tasks, WriteStatus(t) PROVE FailureInv'
  BY <1>15 DEF WriteStatus
<1>16. ASSUME NEW t \in Tasks, WriteActive(t) PROVE FailureInv'
  BY <1>16 DEF WriteActive
<1>17. ASSUME NEW t \in Tasks, StartUnit(t) PROVE FailureInv'
  BY <1>17 DEF StartUnit
<1>18. ASSUME NEW t \in Tasks, NEW k \in Jobs, WriteRequest(t, k) PROVE FailureInv'
  BY <1>18 DEF WriteRequest, Call, New
<1>19. ASSUME NEW t \in Tasks, DropRequest(t) PROVE FailureInv'
  BY <1>19 DEF DropRequest, Resume, End
<1>20. ASSUME NEW t \in Tasks, BeginReconcile(t) PROVE FailureInv'
  BY <1>20 DEF BeginReconcile
<1>21. ASSUME NEW t \in Tasks, BeginSchedule(t) PROVE FailureInv'
  BY <1>21 DEF BeginSchedule
<1>22. ASSUME NEW t \in Tasks, AgentStarts(t) PROVE FailureInv'
  BY <1>22 DEF AgentStarts
<1>23. ASSUME NEW t \in Tasks, StartFails(t) PROVE FailureInv'
  <2>0. OverJobs \subseteq OverJobs'
    BY OverStep
  <2>1. /\ subject[t] \in Jobs /\ unit[subject[t]] = "none" /\ phase[subject[t]] # Unwritten
        /\ \A s \in Tasks \ {t} : pc[s] \notin Starting
    BY <1>23 DEF StartFails
  <2>2. /\ pc' = [pc EXCEPT ![t] = "fail"]
        /\ \A q \in Procs \ {t} : subject'[q] = subject[q] /\ ret'[q] = ret[q]
        /\ subject'[t] = subject[t] /\ ret'[t] = "drop_unstarted"
        /\ UNCHANGED <<phase, stale, late, requests, fresh>>
        /\ unit' \in {unit, [unit EXCEPT ![subject[t]] = "waiting"]}
    BY <1>23 DEF StartFails, Call
  <2>3. CASE unit' = unit
    <3>1. subject[t] \in OverJobs'
      BY <2>1, <2>2, <2>3
    <3> HIDE DEF OverJobs, FailureInv
    <3>2. FailsSafely(t)' /\ FailedMeansStopped' /\ NoUnitStarts
      BY <2>2, <2>3, <3>1 DEF FailureInv, NoUnitStarts
    <3> QED
      BY <2>0, <2>2, <3>2, OneProcessFails
  <2>4. CASE unit' = [unit EXCEPT ![subject[t]] = "waiting"]
    <3> HIDE DEF OverJobs, FailureInv
    <3>1. FailsSafely(t)' /\ FailedMeansStopped' /\ NoUnitStarts
      BY <2>1, <2>2, <2>4 DEF FailureInv, NoUnitStarts
    <3> QED
      BY <2>0, <2>2, <3>1, OneProcessFails
  <2> QED
    BY <2>2, <2>3, <2>4
<1>24. ASSUME NEW t \in Tasks, TaskStops(t) PROVE FailureInv'
  <2>0. OverJobs \subseteq OverJobs'
    BY OverStep
  <2> HIDE DEF OverJobs, FailureInv
  <2>1. /\ pc' = [q \in Procs |-> IF q = t THEN "idle" ELSE pc[q]]
        /\ \A q \in Procs \ {t} : subject'[q] = subject[q] /\ ret'[q] = ret[q]
        /\ UNCHANGED <<phase, stale, late>>
    BY <1>24 DEF TaskStops
  <2>2. FailsSafely(t)' /\ FailedMeansStopped'
    BY <2>1 DEF FailureInv
  <2>3. NoUnitStarts
    BY <1>24 DEF TaskStops, NoUnitStarts
  <2> QED
    BY <2>0, <2>1, <2>2, <2>3, OneProcessFails
<1>25. ASSUME NEW k \in Jobs, TakeRequest(k) PROVE FailureInv'
  BY <1>25 DEF TakeRequest, Call
<1>26. ASSUME NEW k \in Jobs, UpdateRead(k) PROVE FailureInv'
  <2>0. OverJobs \subseteq OverJobs'
    BY OverStep
  <2> HIDE DEF OverJobs, FailureInv
  <2>1. CASE End(k)
    BY <1>26, <2>0, <2>1, EndFailsNobody DEF UpdateRead
  <2>2. CASE ~End(k)
    <3>1. PICK label \in {"update_write", "fail"} :
            /\ pc' = [pc EXCEPT ![k] = label]
            /\ label = "update_write" => phase[k] # Failed
            /\ UNCHANGED <<phase, unit, late, stale, subject, ret>>
      BY <1>26, <2>2 DEF UpdateRead
    <3>2. subject[k] = k /\ ret[k] = "idle" /\ FailedMeansStopped
      BY <1>26 DEF UpdateRead, FailureInv
    <3>3. FailsSafely(k)' /\ FailedMeansStopped'
      BY <3>1, <3>2
    <3>4. NoUnitStarts
      BY <3>1 DEF NoUnitStarts
    <3> QED
      BY <2>0, <3>1, <3>3, <3>4, OneProcessFails
  <2> QED
    BY <2>1, <2>2
<1>27. ASSUME NEW k \in Jobs, UpdateWrite(k) PROVE FailureInv'
  BY <1>27 DEF UpdateWrite
<1>28. ASSUME NEW k \in Jobs, WorkerStarts(k) PROVE FailureInv'
  <2>0. OverJobs \subseteq OverJobs'
    BY OverStep
  <2>1. /\ unit[k] = "waiting" /\ phase[k] # Unwritten /\ pc[k] = "idle"
        /\ unit' = [unit EXCEPT ![k] = "active"] /\ pc' = [pc EXCEPT ![k] = "boot"]
        /\ late' = IF StartsLate(k) THEN late \union {k} ELSE late
        /\ UNCHANGED <<phase, stale, subject, ret>>
    BY <1>28 DEF WorkerStarts
  <2>2. \A t \in Tasks :
          subject[t] = k /\ (pc[t] = "grace" \/ (pc[t] \in {"fail", "fail_write"} /\ ret[t] = "drop_unstarted"))
            => k \in late'
    BY <2>1 DEF StartsLate
  <2>3. k \in late' => k \in OverJobs'
    BY <2>1
  <2> HIDE DEF OverJobs, FailureInv
  <2>4. ASSUME NEW q \in Procs PROVE FailsSafely(q)'
    <3>1. CASE q = k
      BY <2>1, <3>1
    <3>2. CASE q # k
      <4>1. FailsSafely(q) /\ pc'[q] = pc[q] /\ late \subseteq late'
        BY <2>1, <3>2 DEF FailureInv
      <4>2. CASE subject[q] = k /\ q \in Tasks
        BY <2>0, <2>1, <2>2, <2>3, <4>1, <4>2
      <4>3. CASE q \in Jobs
        <5>1. pc[q] # "grace" /\ (pc[q] \in {"fail", "fail_write"} => ret[q] # "drop_unstarted")
          BY <4>3
        <5> QED
          BY <2>0, <2>1, <4>1, <5>1
      <4>4. CASE subject[q] # k
        <5>1. pc[q] \in {"grace", "reread", "recheck", "fail", "fail_write"} => subject[q] \in Jobs
          BY DEF CallInv
        <5> QED
          BY <2>0, <2>1, <4>1, <4>4, <5>1
      <4> QED
        BY <4>2, <4>3, <4>4
    <3> QED
      BY <3>1, <3>2
  <2>5. FailedMeansStopped'
    BY <2>1 DEF FailureInv
  <2>6. stale' \subseteq OverJobs'
    BY <2>0, <2>1 DEF FailureInv
  <2> QED
    BY <2>4, <2>5, <2>6 DEF FailureInv
<1>29. ASSUME NEW k \in Jobs, WorkFails(k) PROVE FailureInv'
  BY <1>29 DEF WorkFails, Fault
<1>30. ASSUME NEW k \in Jobs, WorkerKilled(k) PROVE FailureInv'
  BY <1>30 DEF WorkerKilled, Fault
<1>31. ASSUME NEW k \in Jobs, GraceEnds(k) PROVE FailureInv'
  BY <1>31 DEF GraceEnds
<1>32. ASSUME AgentKilled PROVE FailureInv'
  BY <1>32 DEF AgentKilled, Fault
<1>33. ASSUME Reboot PROVE FailureInv'
  BY <1>33 DEF Reboot, Fault
<1>35. ASSUME NEW t \in Tasks, LookAtRequest(t) PROVE FailureInv'
  <2>0. OverJobs \subseteq OverJobs'
    BY OverStep
  <2>1. CASE subject[t] \in requests \intersect fresh
    <3>1. End(t) \/ Goto(t, "plan")
      BY <1>35, <2>1 DEF LookAtRequest, Reconciled, Resume
    <3>2. pc[t] # "idle" /\ UNCHANGED <<phase, stale, late>>
      BY <1>35 DEF LookAtRequest
    <3> HIDE DEF OverJobs, FailureInv, Goto
    <3>3. CASE End(t)
      BY <2>0, <3>2, <3>3, EndFailsNobody
    <3>4. CASE Goto(t, "plan")
      <4>1. pc' = [pc EXCEPT ![t] = "plan"] /\ UNCHANGED <<subject, ret>>
        BY <3>4 DEF Goto
      <4>2. FailsSafely(t)' /\ FailedMeansStopped'
        BY <3>2, <4>1 DEF FailureInv
      <4>3. NoUnitStarts
        BY <1>35, <2>1, <3>4 DEF LookAtRequest, Reconciled, Resume, End, Goto, NoUnitStarts
      <4> QED
        BY <2>0, <3>2, <4>1, <4>2, <4>3, OneProcessFails
    <3> QED
      BY <3>1, <3>3, <3>4
  <2>2. CASE subject[t] \notin requests \intersect fresh
    <3>1. subject[t] \in Jobs /\ phase[subject[t]] # Unwritten
      BY <1>35 DEF LookAtRequest
    <3>2. unit[subject[t]] \in {"none", "waiting", "active", "gone"}
      BY <3>1, UnitType
    <3>3. subject[t] \in OverJobs
      BY <1>35, <2>2, <3>1, <3>2 DEF LookAtRequest
    <3>4. pc' = [pc EXCEPT ![t] = "reread"] /\ UNCHANGED <<phase, unit, late, stale, subject, ret>>
      BY <1>35, <2>2 DEF LookAtRequest
    <3> HIDE DEF OverJobs, FailureInv
    <3>5. FailsSafely(t)' /\ FailedMeansStopped' /\ NoUnitStarts
      BY <2>0, <3>3, <3>4 DEF FailureInv, NoUnitStarts
    <3> QED
      BY <2>0, <3>4, <3>5, OneProcessFails
  <2> QED
    BY <2>1, <2>2
<1>34. CASE UNCHANGED vars
  BY <1>34
<1> HIDE DEF Goto, Rest, NoSubject, store, systemd, locals, vars, Procs, Terminal,
   Queued, Complete, Failed, Unwritten, TaskLabels, WorkerLabels, Calling, TypeOK,
   CallInv, LockInv, UnitInv, PointerInv, SchedulingInv, StoredInv, StoredOfWorker, StoredOfTask, FailureInv,
   FailsSafely, FailedMeansStopped, JobsInv, OverJobs, Starting
<1> QED
  BY <1>1, <1>2, <1>3, <1>4, <1>5, <1>6, <1>7, <1>8, <1>9, <1>10, <1>11, <1>12, <1>13,
     <1>14, <1>15, <1>16, <1>17, <1>18, <1>19, <1>20, <1>21, <1>22, <1>23, <1>24, <1>25,
     <1>26, <1>27, <1>28, <1>29, <1>30, <1>31, <1>32, <1>33, <1>34, <1>35
  DEF Next, TaskStep, WorkerStep, Shared, Reconciling, Scheduling, Working, Procs


LEMMA JobsStep ==
  ASSUME JobsInv, [Next]_vars
  PROVE  JobsInv'
BY SchedulingStep, StoredStep, FailureStep DEF JobsInv

(* Nobody fails a job behind the back of its worker unless its unit        *)
(* started late: not a reconciliation of the agent, not the worker of      *)
(* another job, and not a restart after a boot.                            *)
THEOREM FailuresAreFinal == Spec => []FailedMeansStopped
<1>1. JobsInv /\ [Next]_vars => JobsInv'
  BY JobsStep
<1>2. JobsInv => FailedMeansStopped
  BY DEF JobsInv, FailureInv
<1> QED
  BY <1>1, <1>2, InitInv, PTL DEF Spec

(* And the status of such a job only moves forward, and never from an      *)
(* outcome, although the agent and the worker read and write it without a  *)
(* lock.                                                                   *)
THEOREM OutcomesAreFinal == Spec => PhasesOnlyAdvance
<1>1. JobsInv /\ [Next]_vars => JobsInv'
  BY JobsStep
<1>2. ASSUME JobsInv, [Next]_vars, NEW j \in Jobs \ late, phase'[j] # phase[j]
      PROVE  phase'[j] > phase[j] /\ ~Terminal(phase[j])
  <2> USE DEF JobsInv, SchedulingInv, Queued, Complete, Failed, Unwritten, Terminal
  <2>1. phase[j] \in Unwritten..Failed
    BY <1>2, PhaseType
  <2>2. \/ \E p \in Procs : FailWrite(p)
        \/ \E t \in Tasks : WriteStatus(t)
        \/ \E k \in Jobs : UpdateWrite(k)
    BY <1>2 DEF Next, TaskStep, WorkerStep, Shared, Reconciling, Scheduling, Working, Procs,
           vars, store, FailRead, ClearRead, ClearRemove, ReconcileBoot, Dispose, ReadActive,
           ReadStatus, QueryAlive, QueryStopped, LookAtRequest, Reread, Recheck, PlanActive, PlanStatus,
           WriteActive, StartUnit, WriteRequest, DropRequest, BeginReconcile, BeginSchedule,
           AgentStarts, StartFails, TaskStops, TakeRequest, UpdateRead,
           WorkerStarts, WorkFails, WorkerKilled, GraceEnds, AgentKilled, Reboot
  <2>3. CASE \E p \in Procs : FailWrite(p)
    <3>1. PICK p \in Procs : FailWrite(p)
      BY <2>3
    <3>2. subject[p] \in Jobs /\ (phase[subject[p]] # Complete \/ subject[p] \in late)
      BY <1>2, <3>1, CallingHasSubject DEF FailWrite, Calling, FailureInv, FailsSafely
    <3>3. j = subject[p] /\ phase'[j] = Failed
      BY <1>2, <3>1, <3>2 DEF FailWrite, TypeOK
    <3> QED
      BY <1>2, <2>1, <3>2, <3>3
  <2>4. CASE \E t \in Tasks : WriteStatus(t)
    <3>1. PICK t \in Tasks : WriteStatus(t)
      BY <2>4
    <3>2. subject[t] \in Jobs /\ phase[subject[t]] = Unwritten
      BY <1>2, <3>1 DEF WriteStatus, CallInv, StoredInv, StoredOfWorker, StoredOfTask
    <3> QED
      BY <1>2, <3>1, <3>2 DEF WriteStatus, TypeOK
  <2>5. CASE \E k \in Jobs : UpdateWrite(k)
    <3>1. PICK k \in Jobs : UpdateWrite(k)
      BY <2>5
    <3>2. ~Terminal(phase[k]) /\ phase[k] <= seen[k] /\ seen[k] \in Nat
      BY <1>2, <3>1 DEF UpdateWrite, StoredInv, StoredOfWorker, CallInv
    <3>3. j = k /\ phase'[j] = seen[j] + 1
      BY <1>2, <3>1 DEF UpdateWrite, TypeOK
    <3> QED
      BY <2>1, <3>2, <3>3
  <2> QED
    BY <2>2, <2>3, <2>4, <2>5
<1>3. JobsInv /\ [Next]_vars =>
        [\A j \in Jobs \ late :
             phase'[j] # phase[j] => phase'[j] > phase[j] /\ ~Terminal(phase[j])]_vars
  BY <1>2
<1> QED
  BY <1>1, <1>3, InitInv, PTL DEF Spec, PhasesOnlyAdvance

(* Every variable is of its type, whatever fails and whenever units start. *)
THEOREM TypesAreKept == Spec => []TypeOK
<1>1. Init => SchedulingInv
  BY InitInv DEF JobsInv
<1> QED
  BY <1>1, SchedulingStep, PTL DEF Spec, SchedulingInv
================================================================================

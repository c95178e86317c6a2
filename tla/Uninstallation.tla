----------------------------- MODULE Uninstallation ----------------------------
(***************************************************************************)
(* The uninstallation transaction of a managed product                     *)
(* (capulus/src/managed/installation.rs, SystemUninstallation, and         *)
(* recover_uninstallation, which every installation, repair and            *)
(* uninstallation runs first).  The command that drives it is the          *)
(* product's own and is not part of the repository: it is taken to prepare,*)
(* deactivate, remove and finalize, and to roll back what fails unless     *)
(* removal_committed says otherwise, as the redeploy worker does with      *)
(* acceptance_committed.                                                   *)
(*                                                                         *)
(* Records are numbered in the order of the journal: the service's unit,   *)
(* the other unit files, and the program last.  Units are stopped in this  *)
(* order too: the two sockets of a product, which the code takes in one    *)
(* order here and in the other there, are alike.                           *)
(***************************************************************************)
EXTENDS Naturals

CONSTANTS
  RecordCount,  \* number of managed files of the product
  Blobs,        \* file contents, told apart as the digests tell them apart
  Absent,       \* no file at a path
  Release,      \* Release[i]: what the installed release put in managed file i
  Edits         \* what an administrator may leave in a unit file between operations

Records == 1..RecordCount
Service == 1
Program == RecordCount
Units   == Records \ {Program}
Sockets == Units \ {Service}

Slots == Blobs \union {Absent}

ASSUME UninstallationAssumption ==
  /\ RecordCount \in Nat \ {0, 1}
  /\ Absent \notin Blobs
  /\ Release \in [Records -> Blobs]
  /\ Edits \subseteq Slots

VARIABLES
  dest,     \* dest[i]: the file at the managed destination of record i
  backup,   \* backup[i]: the file under the transaction's "old" directory
  journal,  \* the uninstallation journal, uninstall.json
  enabled,  \* the units that systemd has enabled
  active,   \* the units that systemd has started
  queued,   \* the units that systemd has a job to start or restart, not yet run
  late,     \* a client came after the first socket was stopped, before the last
  pc,       \* what the holder of the installation lock does next
  flow,     \* which of the code paths that share steps the holder is in
  index,    \* the record the holder works on
  kind      \* "uninstall", or "other" for an installation or a repair

disk     == <<dest, backup, journal>>
services == <<enabled, active, queued, late>>
memory   == <<pc, flow, index, kind>>
vars     == <<disk, services, memory>>

--------------------------------------------------------------------------------

Nothing == [i \in Records |-> Absent]

NoJournal == [state |-> "none", removed |-> 0, original |-> Nothing, enabled |-> {}]

Open    == journal.state = "open"
Removed == journal.state = "removed"

Kinds  == {"uninstall", "other"}
Flows  == {"recover", "uninstall", "rollback", "damaged"}
Labels == {"free", "recover", "plan", "stop", "await", "unenable", "remove", "record", "reload",
           "settle", "restore", "disable", "enable", "restart", "cleanup", "forget"}

Goto(label) == pc' = label /\ UNCHANGED <<flow, index, kind>>

Enter(label, path, i) == pc' = label /\ flow' = path /\ index' = i /\ UNCHANGED kind

Unlock == Enter("free", "recover", 1)

Acquire(k) ==
  /\ pc = "free"
  /\ pc' = "recover"
  /\ kind' = k
  /\ UNCHANGED <<flow, index, disk, services>>

--------------------------------------------------------------------------------
(* recover_uninstallation *)

(* The holder goes on to its own operation; those of other kinds are not   *)
(* followed here.                                                          *)
Proceed == IF kind = "uninstall" THEN Enter("plan", "uninstall", 1) ELSE Unlock

RecoverNothing ==
  /\ pc = "recover"
  /\ journal.state = "none"
  /\ Proceed
  /\ UNCHANGED <<disk, services>>

\* mutant of RecoverOpen
RecoverOpenWithoutRestoring ==
  pc = "recover" /\ Open /\ Goto("cleanup") /\ UNCHANGED <<disk, services>>

RecoverOpen ==
  /\ pc = "recover"
  /\ Open
  /\ Enter("restore", "recover", RecordCount)
  /\ UNCHANGED <<disk, services>>

RecoverRemoved ==
  /\ pc = "recover"
  /\ Removed
  /\ \A i \in Records : dest[i] = Absent
  /\ Goto("reload")
  /\ UNCHANGED <<disk, services>>

--------------------------------------------------------------------------------
(* restore_uninstallation_files: the records in reverse *)

Removable(i)   == backup[i] # Absent /\ dest[i] = Absent
Untouched(i)   == backup[i] = Absent /\ i > journal.removed /\ dest[i] = journal.original[i]

RestoredOne == IF index = 1 THEN Goto("stop") ELSE Enter("restore", flow, index - 1)

RestoreFile ==
  /\ pc = "restore"
  /\ Removable(index)
  /\ dest' = [dest EXCEPT ![index] = backup[index]]
  /\ backup' = [backup EXCEPT ![index] = Absent]
  /\ RestoredOne
  /\ UNCHANGED <<journal, services>>

KeepFile ==
  /\ pc = "restore"
  /\ Untouched(index)
  /\ RestoredOne
  /\ UNCHANGED <<disk, services>>

(* The record matches no case, or a file operation fails.  Recovery gives  *)
(* up; a rollback restores the services all the same.                      *)
RestoreFails ==
  /\ pc = "restore"
  /\ IF flow = "rollback" THEN Enter("stop", "damaged", 1) ELSE Unlock
  /\ UNCHANGED <<disk, services>>

--------------------------------------------------------------------------------
(* Stopping units: stop_unit_if_present and wait_until_inactive, for each  *)
(* unit of deactivate_installation, or for those that a restoration finds  *)
(* not to have been enabled before                                         *)

Stops(u) == flow = "uninstall" \/ u \notin journal.enabled

Stopped ==
  IF index + 1 \in Units
    THEN Enter("stop", flow, index + 1)
    ELSE Goto(IF flow = "uninstall" THEN "unenable" ELSE "disable")

SkipUnit ==
  /\ pc = "stop"
  /\ ~Stops(index)
  /\ Stopped
  /\ UNCHANGED <<disk, services>>

(* The unit file's Requires=: the service stops with any of its sockets.   *)
With(u) == IF u \in Sockets THEN {u, Service} ELSE {u}

\* mutant of StopUnit
StopService ==
  /\ pc = "stop"
  /\ Stops(index)
  /\ active' = active \ {Service}
  /\ queued' = queued \ {Service}
  /\ IF index = Service THEN Goto("await") ELSE Stopped
  /\ UNCHANGED <<disk, enabled, late>>

(* A stop replaces the jobs that are queued. *)
StopUnit ==
  /\ pc = "stop"
  /\ Stops(index)
  /\ active' = active \ With(index)
  /\ queued' = queued \ With(index)
  /\ Goto("await")
  /\ UNCHANGED <<disk, enabled, late>>

(* The holder polls until it has seen the unit inactive once. *)
SeeInactive ==
  /\ pc = "await"
  /\ index \notin active
  /\ Stopped
  /\ UNCHANGED <<disk, services>>

--------------------------------------------------------------------------------
(* ServiceManager::restore_installation, the service having been installed *)

DisableTargets ==
  /\ pc = "disable"
  /\ enabled' = enabled \intersect journal.enabled
  /\ Goto("enable")
  /\ UNCHANGED <<disk, active, queued, late>>

\* mutant of EnablePrevious
EnablePreviousForgotten == pc = "enable" /\ Goto("restart") /\ UNCHANGED <<disk, services>>

EnablePrevious ==
  /\ pc = "enable"
  /\ \A u \in journal.enabled : dest[u] # Absent
  /\ enabled' = enabled \union journal.enabled
  /\ Goto("restart")
  /\ UNCHANGED <<disk, active, queued, late>>

(* Restarting the service starts the sockets that it requires; the calls   *)
(* return when the jobs are queued.                                        *)
RestartPrevious ==
  /\ pc = "restart"
  /\ \A u \in Units : dest[u] # Absent
  /\ queued' = Units
  /\ IF flow = "damaged" THEN Unlock ELSE Goto("cleanup")
  /\ UNCHANGED <<disk, enabled, active, late>>

ServicesFail ==
  /\ \/ pc \in {"disable", "enable", "restart"}
     \/ pc \in {"stop", "await"} /\ flow # "uninstall"
  /\ Unlock
  /\ UNCHANGED <<disk, services>>

--------------------------------------------------------------------------------
(* SystemUninstallation::prepare, after the recovery *)

Plan ==
  /\ pc = "plan"
  /\ \A i \in Records : dest[i] # Absent
  /\ journal' = [state |-> "open", removed |-> 0, original |-> dest, enabled |-> enabled]
  /\ late' = FALSE
  /\ Enter("stop", flow, Service)
  /\ UNCHANGED <<dest, backup, enabled, active, queued>>

(* A file that is missing, or anything else before the journal is written. *)
PrepareFails ==
  /\ pc \in {"recover", "plan"}
  /\ Unlock
  /\ UNCHANGED <<disk, services>>

--------------------------------------------------------------------------------
(* SystemUninstallation::deactivate, after the units were stopped *)

DisableUnits ==
  /\ pc = "unenable"
  /\ enabled' = {}
  /\ Enter("remove", flow, 1)
  /\ UNCHANGED <<disk, active, queued, late>>

--------------------------------------------------------------------------------
(* SystemUninstallation::remove_files *)

RemoveFile ==
  /\ pc = "remove"
  /\ dest[index] = journal.original[index]
  /\ backup' = [backup EXCEPT ![index] = dest[index]]
  /\ dest' = [dest EXCEPT ![index] = Absent]
  /\ Goto("record")
  /\ UNCHANGED <<journal, services>>

RecordRemoval ==
  /\ pc = "record"
  /\ journal' = [journal EXCEPT !.removed = index]
  /\ IF index = RecordCount THEN Goto("reload") ELSE Enter("remove", flow, index + 1)
  /\ UNCHANGED <<dest, backup, services>>

\* mutant of UninstallFails
UninstallFailsCleaningFirst ==
  /\ flow = "uninstall"
  /\ pc \in {"stop", "await", "unenable", "remove", "record", "reload"}
  /\ Enter("cleanup", "rollback", 1)
  /\ UNCHANGED <<disk, services>>

(* What fails before the removal is committed is rolled back. *)
UninstallFails ==
  /\ flow = "uninstall"
  /\ pc \in {"stop", "await", "unenable", "remove", "record", "reload"}
  /\ Enter("restore", "rollback", RecordCount)
  /\ UNCHANGED <<disk, services>>

--------------------------------------------------------------------------------
(* SystemUninstallation::finalize, and the end of a recovery or a rollback *)

ReloadRemoved ==
  /\ pc = "reload"
  /\ IF flow = "recover" THEN Goto("cleanup") ELSE Goto("settle")
  /\ UNCHANGED <<disk, services>>

ReloadFails ==
  /\ pc = "reload"
  /\ flow = "recover"
  /\ Unlock
  /\ UNCHANGED <<disk, services>>

Settle ==
  /\ pc = "settle"
  /\ journal' = [journal EXCEPT !.state = "removed"]
  /\ Goto("cleanup")
  /\ UNCHANGED <<dest, backup, services>>

(* The flag is set in memory before the journal is written: the command    *)
(* takes the removal for committed whether the write took effect or not.   *)
SettleFails ==
  /\ pc = "settle"
  /\ \/ journal' = journal
     \/ journal' = [journal EXCEPT !.state = "removed"]
  /\ Unlock
  /\ UNCHANGED <<dest, backup, services>>

CleanupEntry(i) ==
  /\ pc = "cleanup"
  /\ backup[i] # Absent
  /\ backup' = [backup EXCEPT ![i] = Absent]
  /\ UNCHANGED <<dest, journal, services, memory>>

CleanupDone ==
  /\ pc = "cleanup"
  /\ backup = Nothing
  /\ Goto("forget")
  /\ UNCHANGED <<disk, services>>

RemoveJournal ==
  /\ pc = "forget"
  /\ journal' = NoJournal
  /\ IF flow = "recover" THEN Proceed ELSE Unlock
  /\ UNCHANGED <<dest, backup, services>>

(* The removal of a journal can take effect and still be reported failed.  *)
CleanupFails ==
  /\ pc \in {"cleanup", "forget"}
  /\ \/ journal' = journal
     \/ pc = "forget" /\ journal' = NoJournal
  /\ Unlock
  /\ UNCHANGED <<dest, backup, services>>

--------------------------------------------------------------------------------
(* The environment *)

(* The holder is killed. *)
Crash ==
  /\ pc # "free"
  /\ Unlock
  /\ UNCHANGED <<disk, services>>

(* The machine restarts: systemd starts the enabled units that have files, *)
(* and with the service the sockets that it requires.                      *)
Reboot ==
  LET installed == {u \in Units : dest[u] # Absent}
      start     == enabled \intersect installed IN
  /\ Unlock
  /\ active' = IF Service \in start /\ installed = Units /\ dest[Program] # Absent
                 THEN Units
                 ELSE start \ {Service}
  /\ queued' = {}
  /\ UNCHANGED <<disk, enabled, late>>

(* systemd gets to a job; that of the service comes after its sockets'.    *)
RunQueued(u) ==
  /\ u \in queued
  /\ u = Service => Sockets \intersect queued = {}
  /\ queued' = queued \ {u}
  /\ active' = IF u \in Sockets THEN active \union {u}
               ELSE IF dest[Program] # Absent THEN Units ELSE active \ {Service}
  /\ UNCHANGED <<disk, enabled, late, memory>>

(* A client starts the service through a socket, and with it every socket  *)
(* that it requires, from what systemd has loaded of their files.          *)
ServiceStarts ==
  /\ active \intersect Sockets # {}
  /\ Service \notin active
  /\ dest[Program] # Absent
  /\ active' = Units
  /\ late' = (late \/ (pc = "stop" /\ flow = "uninstall" /\ index - 1 \in Sockets))
  /\ UNCHANGED <<disk, enabled, queued, memory>>

ServiceExits ==
  /\ Service \in active
  /\ active' = active \ {Service}
  /\ UNCHANGED <<disk, enabled, queued, late, memory>>

(* A new installation, or an administrator who edits or removes a unit     *)
(* file, while no operation is in progress or interrupted.                 *)
Reinstall ==
  /\ pc = "free"
  /\ journal.state = "none"
  /\ dest' = Release
  /\ enabled' = Units
  /\ active' = Units
  /\ queued' = {}
  /\ UNCHANGED <<backup, journal, late, memory>>

Edit(i, blob) ==
  /\ pc = "free"
  /\ journal.state = "none"
  /\ dest' = [dest EXCEPT ![i] = blob]
  /\ UNCHANGED <<backup, journal, services, memory>>

Administer(units) ==
  /\ pc = "free"
  /\ journal.state = "none"
  /\ \A u \in units : u \in enabled \/ dest[u] # Absent
  /\ enabled' = units
  /\ UNCHANGED <<disk, active, queued, late, memory>>

--------------------------------------------------------------------------------

Init ==
  /\ dest = Release
  /\ backup = Nothing
  /\ journal = NoJournal
  /\ enabled \in SUBSET Units
  /\ active \in {{}, Sockets, Units}
  /\ queued = {}
  /\ late = FALSE
  /\ pc = "free"
  /\ flow = "recover"
  /\ index = 1
  /\ kind \in Kinds

Recovery == RecoverNothing \/ RecoverOpen \/ RecoverRemoved \/ PrepareFails

Restore ==
  \/ RestoreFile \/ KeepFile \/ RestoreFails
  \/ DisableTargets \/ EnablePrevious \/ RestartPrevious \/ ServicesFail

StopUnits == SkipUnit \/ StopUnit \/ SeeInactive

Uninstall ==
  \/ Plan \/ DisableUnits \/ RemoveFile \/ RecordRemoval \/ UninstallFails

Ending ==
  \/ ReloadRemoved \/ ReloadFails \/ Settle \/ SettleFails
  \/ \E i \in Records : CleanupEntry(i)
  \/ CleanupDone \/ RemoveJournal \/ CleanupFails

Environment ==
  \/ Crash \/ Reboot \/ ServiceStarts \/ ServiceExits \/ Reinstall
  \/ \E u \in Units : RunQueued(u)
  \/ \E i \in Units, blob \in Edits : Edit(i, blob)
  \/ \E units \in SUBSET Units : Administer(units)

Next ==
  \/ \E k \in Kinds : Acquire(k)
  \/ Recovery \/ Restore \/ StopUnits \/ Uninstall \/ Ending
  \/ Environment

Spec == Init /\ [][Next]_vars

--------------------------------------------------------------------------------
(* Properties *)

Journals ==
  [state : {"none", "open", "removed"}, removed : 0..RecordCount,
   original : [Records -> Slots], enabled : SUBSET Units]

(* The type of every variable. *)
TypeOK ==
  /\ dest \in [Records -> Slots]
  /\ backup \in [Records -> Slots]
  /\ journal \in Journals
  /\ enabled \in SUBSET Units
  /\ active \in SUBSET Units
  /\ queued \in SUBSET Units
  /\ late \in BOOLEAN
  /\ pc \in Labels
  /\ flow \in Flows
  /\ index \in Records
  /\ kind \in Kinds

(* Until the removal is committed every managed file exists, in its place  *)
(* or as its backup, whatever failed and wherever the command was killed.  *)
OriginalsPreserved ==
  Open => \A i \in Records : journal.original[i] \in {dest[i], backup[i]}

(* Nothing is started and nothing will be. *)
Quiet == active = {} /\ queued = {}

(* Files are only taken away from a product that no boot will start, and   *)
(* that is stopped for good, with no socket for a client to use and no job *)
(* queued by an earlier rollback, unless a client came between the end of  *)
(* one socket and the stop of the next.                                    *)
OnlyLateClientsDisturb ==
  pc \in {"remove", "record", "settle"} =>
    enabled = {} /\ (late \/ Quiet)

(* Once the removal is committed no file is in its place, so no recovery   *)
(* refuses it ("reappeared after committed uninstall"), and no unit is     *)
(* enabled, nor active unless a client came late.                          *)
RemovedIsWhole ==
  Removed => dest = Nothing /\ enabled = {} /\ (late \/ Quiet)

(* The journal is only removed over a whole outcome: every file and the    *)
(* enablement of every unit as they were, or every file gone for good.     *)
EndsAllOrNothing ==
  [][/\ Open /\ journal'.state = "none" =>
          dest' = journal.original /\ enabled' = journal.enabled
     /\ Removed /\ journal'.state = "none" => dest' = Nothing /\ backup' = Nothing]_vars

(* The files the system has settled on, or will once recovered. *)
Outcome ==
  CASE Open -> journal.original
    [] Removed -> Nothing
    [] OTHER -> dest

Image == INSTANCE SystemImage
  WITH image <- Outcome, Images <- {Release}, Versions <- {Release, Nothing},
       Contents <- [files \in {Release, Nothing} |-> files]

(* Crashes, failures and recoveries are invisible in the outcome: it only  *)
(* switches to nothing when the journal records the removal.               *)
ImplementsImage == Image!Spec

--------------------------------------------------------------------------------
(* The inductive invariant from which the properties above are proved *)

RestoreLabels == {"disable", "enable", "restart"}
EndLabels     == {"cleanup", "forget"}

(* Which paths share which steps, and what the journal says on each. *)
ControlInv ==
  /\ pc \in {"free", "recover"} => flow = "recover"
  /\ pc = "plan" => flow = "uninstall" /\ journal.state = "none"
  /\ pc \in {"unenable", "remove", "record", "settle"} => flow = "uninstall" /\ Open
  /\ pc \in {"stop", "await"} => flow \in {"uninstall", "recover", "rollback", "damaged"} /\ Open
  /\ pc \in {"stop", "await"} => index \in Units
  /\ pc = "reload" => (flow = "uninstall" /\ Open) \/ (flow = "recover" /\ Removed)
  /\ pc = "restore" => flow \in {"recover", "rollback"} /\ Open
  /\ pc \in RestoreLabels => flow \in {"recover", "rollback", "damaged"} /\ Open
  /\ pc \in EndLabels =>
       \/ flow = "rollback" /\ Open
       \/ flow = "uninstall" /\ Removed
       \/ flow = "recover" /\ (Open \/ Removed)

InPlace(i) == dest[i] = journal.original[i] /\ backup[i] = Absent
Taken(i)   == dest[i] = Absent /\ backup[i] = journal.original[i]

(* Where every file is, and how far the holder has come. *)
FilesInv ==
  /\ journal.state = "none" => backup = Nothing
  /\ Open => \A i \in Records : journal.original[i] # Absent /\ (InPlace(i) \/ Taken(i))
  /\ Removed => dest = Nothing
  /\ pc \in {"stop", "await"} /\ flow # "damaged" => \A i \in Records : InPlace(i)
  /\ pc = "unenable" => \A i \in Records : InPlace(i)
  /\ pc = "remove" => \A i \in Records : IF i < index THEN Taken(i) ELSE InPlace(i)
  /\ pc = "record" => \A i \in Records : IF i <= index THEN Taken(i) ELSE InPlace(i)
  /\ Open /\ pc \in {"reload", "settle"} => \A i \in Records : Taken(i)
  /\ pc = "restore" => \A i \in Records : i > index => InPlace(i)
  /\ Open /\ flow # "damaged" /\ pc \in RestoreLabels \union EndLabels =>
       \A i \in Records : InPlace(i)
  /\ pc = "forget" => backup = Nothing

(* What is started, and will be, while units are stopped and files away.   *)
ActiveInv ==
  /\ Service \in active => active = Units
  /\ flow = "uninstall" /\ pc = "stop" /\ index # Service => Service \notin queued
  /\ flow = "uninstall" /\ pc = "await" => Service \notin queued /\ index \notin queued
  /\ flow = "uninstall" /\ ~late /\ (pc = "stop" \/ (pc = "await" /\ index \notin active)) =>
       \A u \in Sockets : u < index => u \notin active /\ u \notin queued
  /\ flow = "uninstall" /\ pc \in {"unenable", "remove", "record", "reload", "settle"} =>
       late \/ Quiet
  /\ Removed => late \/ Quiet

(* What is enabled while files are away, and after a rollback. *)
EnabledInv ==
  /\ Removed => enabled = {}
  /\ pc \in {"remove", "record", "reload", "settle"} => enabled = {}
  /\ pc = "enable" => enabled \subseteq journal.enabled
  /\ pc = "restart" => enabled = journal.enabled
  /\ Open /\ pc \in EndLabels => enabled = journal.enabled

TransactionInv == TypeOK /\ ControlInv /\ FilesInv /\ ActiveInv /\ EnabledInv

--------------------------------------------------------------------------------
(* What DESIGN.md says, and the code does not always do: TLC refutes both. *)

(* "It stops units, moves only managed files to private backups": files    *)
(* are only taken away from a product that is stopped.                     *)
RemovalIsQuiet == pc \in {"remove", "record", "settle"} => active = {}

(* "An interruption before the commit boundary restores the installation": *)
(* wherever the holder was killed or failed, a later recovery finds each   *)
(* record in a state that restore_uninstallation_files goes on from.       *)
RecoveryResumes ==
  pc = "free" /\ Open => \A i \in Records : Removable(i) \/ Untouched(i)
================================================================================

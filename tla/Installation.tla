----------------------------- MODULE Installation ------------------------------
(***************************************************************************)
(* The installation transaction of a managed product                       *)
(* (capulus/src/managed/installation.rs, SystemInstallation) with the part *)
(* of the redeploy worker that drives it (worker.rs, execute and           *)
(* rollback_failure) and of the service manager it calls (systemd.rs).     *)
(*                                                                         *)
(* At most one process holds the product's installation lock; pc says what *)
(* that process does next.  Every file operation, journal write and call   *)
(* to the service manager that a crash can separate from the next one is   *)
(* an action of its own, and the process may be killed between any two.    *)
(*                                                                         *)
(* Records are numbered in the order of the manifest: the program first,   *)
(* then the unit files, the service's own unit before its sockets.  A      *)
(* release always declares exactly these files (product.rs,                *)
(* validate_release_manifest), so every record is a replacement or a first *)
(* installation and the removal records of the code cannot arise.          *)
(***************************************************************************)
EXTENDS Naturals

CONSTANTS
  Versions,     \* releases that may be installed
  RecordCount,  \* number of managed files of the product
  Blobs,        \* file contents, told apart as the digests tell them apart
  Absent,       \* no file at a path
  Torn,         \* the contents of a staged file that was not written to its end
  Contents,     \* Contents[v][i]: what release v puts in managed file i
  Edits         \* what an administrator may leave in a unit file between operations

Records == 1..RecordCount
Binary  == 1
Service == 2
Units   == 2..RecordCount

Slots == Blobs \union {Absent}

Declared == {Contents[v] : v \in Versions}

ASSUME InstallationAssumption ==
  /\ RecordCount \in Nat \ {0, 1}
  /\ Contents \in [Versions -> [Records -> Blobs]]
  /\ Torn \in Blobs
  /\ Absent \notin Blobs
  /\ \A v \in Versions, i \in Records : Contents[v][i] # Torn
  /\ \A v, w \in Versions : Contents[v][Binary] = Contents[w][Binary] => v = w
  /\ Edits \subseteq Slots \ {Torn}

VARIABLES
  dest,     \* dest[i]: the file at the managed destination of record i
  staged,   \* staged[i]: the file under the transaction's "new" directory
  backup,   \* backup[i]: the file under the transaction's "old" directory
  journal,  \* the installation journal, active.json
  enabled,  \* the units that systemd has enabled
  running,  \* the program the product's service runs, Absent when it is stopped
  queued,   \* systemd has a job to start or restart the service, and has not run it
  pc,       \* what the holder of the installation lock does next
  flow,     \* which of the code paths that share steps the holder is in
  index,    \* the record the holder works on
  kind,     \* "redeploy" or "repair": why the holder took the lock
  version,  \* the release a redeploy installs, or the one the repairing agent is
  report    \* the outcome that the last redeploy worker reported

disk     == <<dest, staged, backup, journal>>
services == <<enabled, running, queued>>
memory   == <<pc, flow, index, kind, version, report>>
vars     == <<disk, services, memory>>

--------------------------------------------------------------------------------
(* The journal *)

Nothing == [i \in Records |-> Absent]

NoJournal ==
  [state |-> "none", committed |-> 0, original |-> Nothing,
   replacement |-> Nothing, enabled |-> {}]

Open     == journal.state = "open"
Accepted == journal.state = "accepted"

(* Either all of the units were installed before, or none of them. *)
WholeTopology(files) ==
  \/ \A u \in Units : files[u] # Absent
  \/ \A u \in Units : files[u] = Absent

(* InstallationJournal::validate, without the spelling of its paths. *)
JournalValid ==
  /\ journal.committed \in 0..RecordCount
  /\ Accepted => journal.committed = RecordCount
  /\ WholeTopology(journal.original)

--------------------------------------------------------------------------------
(* The process that holds the lock *)

Kinds   == {"redeploy", "repair"}
Flows   == {"recover", "install", "abort", "rollback", "damaged", "accept", "repair"}
Reports == {"none", "complete", "before_commit", "after_commit", "rolled_back",
            "rollback_failed"}
Labels  == {"free", "recover", "plan", "stage", "copy", "commit", "replace", "record",
            "verify", "activate", "start", "health", "accept", "rollback",
            "reinstate", "disable", "enable", "restart", "cleanup", "forget",
            "repair", "refresh"}

Goto(label) == pc' = label /\ UNCHANGED <<flow, index, kind, version, report>>

Enter(label, path, i) ==
  /\ pc' = label
  /\ flow' = path
  /\ index' = i
  /\ UNCHANGED <<kind, version, report>>

(* The holder drops the lock; a redeploy worker leaves its report. *)
Release(outcome) ==
  /\ pc' = "free"
  /\ flow' = "recover"
  /\ index' = 1
  /\ report' = IF kind = "redeploy" THEN outcome ELSE "none"
  /\ UNCHANGED <<kind, version>>

(* What follows once an interrupted installation has been recovered. *)
Proceed ==
  IF kind = "redeploy" THEN Enter("plan", "install", 1) ELSE Enter("repair", "repair", 1)

(* A redeploy worker is started from the installed program; a repair runs  *)
(* in the agent, which knows the manifest of the release it was built from *)
Acquire(k, v) ==
  /\ pc = "free"
  /\ IF k = "redeploy" THEN dest[Binary] # Absent ELSE running = Contents[v][Binary]
  /\ pc' = "recover"
  /\ flow' = "recover"
  /\ index' = 1
  /\ kind' = k
  /\ version' = v
  /\ report' = "none"
  /\ UNCHANGED <<disk, services>>

--------------------------------------------------------------------------------
(* Recovery of an interrupted installation, before any new operation *)

RecoverNothing ==
  /\ pc = "recover"
  /\ journal.state = "none"
  /\ Proceed
  /\ UNCHANGED <<disk, services>>

RecoverOpen ==
  /\ pc = "recover"
  /\ Open
  /\ JournalValid
  /\ Enter("rollback", flow, RecordCount)
  /\ UNCHANGED <<disk, services>>

RecoverAccepted ==
  /\ pc = "recover"
  /\ Accepted
  /\ JournalValid
  /\ \A i \in Records : dest[i] = journal.replacement[i]
  /\ Goto("refresh")
  /\ UNCHANGED <<disk, services>>

--------------------------------------------------------------------------------
(* rollback_files: the records in reverse, each by what is left on disk *)

(* The record's destination was moved to its backup, and what took its     *)
(* place, if anything has, is the staged file.                             *)
Moved(i) ==
  /\ backup[i] # Absent
  /\ \/ dest[i] = journal.replacement[i]
     \/ dest[i] = Absent /\ staged[i] # Absent

(* The record was not committed, or has been rolled back. *)
Unmoved(i) ==
  /\ backup[i] = Absent
  /\ IF journal.original[i] # Absent
       THEN dest[i] = journal.original[i]
       ELSE staged[i] # Absent \/ dest[i] = Absent

(* The record put a first file where there was none. *)
Introduced(i) ==
  /\ backup[i] = Absent
  /\ journal.original[i] = Absent
  /\ staged[i] = Absent
  /\ dest[i] = journal.replacement[i]

RolledBack ==
  IF index = 1 THEN Enter("disable", flow, 1) ELSE Enter("rollback", flow, index - 1)

RemoveReplacement ==
  /\ pc = "rollback"
  /\ Moved(index)
  /\ dest' = [dest EXCEPT ![index] = Absent]
  /\ Goto("reinstate")
  /\ UNCHANGED <<staged, backup, journal, services>>

ReinstateOriginal ==
  /\ pc = "reinstate"
  /\ dest' = [dest EXCEPT ![index] = backup[index]]
  /\ backup' = [backup EXCEPT ![index] = Absent]
  /\ RolledBack
  /\ UNCHANGED <<staged, journal, services>>

KeepOriginal ==
  /\ pc = "rollback"
  /\ Unmoved(index)
  /\ RolledBack
  /\ UNCHANGED <<disk, services>>

\* mutant of RemoveIntroduced
RemoveIntroducedKeepingIt ==
  /\ pc = "rollback"
  /\ Introduced(index)
  /\ RolledBack
  /\ UNCHANGED <<disk, services>>

RemoveIntroduced ==
  /\ pc = "rollback"
  /\ Introduced(index)
  /\ dest' = [dest EXCEPT ![index] = Absent]
  /\ RolledBack
  /\ UNCHANGED <<staged, backup, journal, services>>

(* A record matches no case, or a file operation fails.  Recovery gives up *)
(* and keeps the journal; a worker restores the services all the same.     *)
RollbackFails ==
  /\ pc \in {"rollback", "reinstate"}
  /\ IF flow = "rollback"
       THEN Enter("disable", "damaged", 1)
       ELSE Release("before_commit")
  /\ UNCHANGED <<disk, services>>

--------------------------------------------------------------------------------
(* ServiceManager::restore_installation *)

ColdCutover == journal.original[Service] = Absent

(* A stop replaces the job that is queued, and is waited for. *)
StopService == running' = Absent /\ queued' = FALSE

\* mutant of DisableTargets
DisableTargetsForgotten == pc = "disable" /\ Goto("enable") /\ UNCHANGED <<disk, services>>

(* The whole runtime is stopped on a cold cutover, otherwise the units     *)
(* that the transaction enabled and that were not enabled before.  systemd *)
(* neither enables nor restarts a unit that has no file.                   *)
DisableTargets ==
  /\ pc = "disable"
  /\ IF ColdCutover \/ Service \notin journal.enabled
       THEN StopService
       ELSE UNCHANGED <<running, queued>>
  /\ enabled' = enabled \ (Units \ journal.enabled)
  /\ Goto("enable")
  /\ UNCHANGED disk

EnablePrevious ==
  /\ pc = "enable"
  /\ \A u \in journal.enabled : dest[u] # Absent
  /\ enabled' = enabled \union journal.enabled
  /\ Goto("restart")
  /\ UNCHANGED <<disk, running, queued>>

\* mutant of RestartPrevious
RestartPreviousForgotten ==
  /\ pc = "restart"
  /\ IF flow = "damaged" THEN Release("rollback_failed") ELSE Goto("cleanup")
  /\ UNCHANGED <<disk, services>>

(* The call to systemd returns when the restart is queued: the transaction *)
(* ends while the service still runs what it ran.                          *)
RestartPrevious ==
  /\ pc = "restart"
  /\ ColdCutover \/ \A u \in Units : dest[u] # Absent
  /\ queued' = (queued \/ ~ColdCutover)
  /\ IF flow = "damaged" THEN Release("rollback_failed") ELSE Goto("cleanup")
  /\ UNCHANGED <<disk, enabled, running>>

RestoreFails ==
  /\ pc \in {"disable", "enable", "restart"}
  /\ Release(IF flow = "recover" THEN "before_commit" ELSE "rollback_failed")
  /\ UNCHANGED <<disk, services>>

--------------------------------------------------------------------------------
(* cleanup_staging and the removal of the journal, on every path that ends *)
(* the transaction                                                         *)

(* What the holder reports when the end of its path succeeds or fails. *)
Succeeded ==
  CASE flow = "accept" -> "complete"
    [] flow = "rollback" -> "rolled_back"
    [] OTHER -> "before_commit"

Failed ==
  CASE flow = "accept" -> "after_commit"
    [] flow = "rollback" -> "rollback_failed"
    [] OTHER -> "before_commit"

(* The staging trees go entry by entry, in no order of the code's making. *)
CleanupEntry(i) ==
  /\ pc = "cleanup"
  /\ staged[i] # Absent \/ backup[i] # Absent
  /\ staged' = [staged EXCEPT ![i] = Absent]
  /\ backup' = [backup EXCEPT ![i] = Absent]
  /\ UNCHANGED <<dest, journal, services, memory>>

\* mutant of CleanupDone
CleanupDoneEarly == pc = "cleanup" /\ Goto("forget") /\ UNCHANGED <<disk, services>>

CleanupDone ==
  /\ pc = "cleanup"
  /\ \A i \in Records : staged[i] = Absent /\ backup[i] = Absent
  /\ Goto("forget")
  /\ UNCHANGED <<disk, services>>

RemoveJournal ==
  /\ pc = "forget"
  /\ journal' = NoJournal
  /\ IF flow = "recover" THEN Proceed ELSE Release(Succeeded)
  /\ UNCHANGED <<dest, staged, backup, services>>

(* The removal of a journal can take effect and still be reported failed. *)
CleanupFails ==
  /\ pc \in {"cleanup", "forget"}
  /\ \/ journal' = journal
     \/ pc = "forget" /\ journal' = NoJournal
  /\ Release(Failed)
  /\ UNCHANGED <<dest, staged, backup, services>>

--------------------------------------------------------------------------------
(* SystemInstallation::prepare: the journal first, then the staged files *)

(* ServiceManager::enabled_units: a unit whose file is gone is not enabled *)
EnabledUnits == {u \in enabled : dest[u] # Absent}

\* mutant of Plan
PlanPartialTopology ==
  /\ pc = "plan"
  /\ journal' = [state |-> "open", committed |-> 0, original |-> dest,
                 replacement |-> Contents[version], enabled |-> EnabledUnits]
  /\ Enter("stage", "install", 1)
  /\ UNCHANGED <<dest, staged, backup, services>>

Plan ==
  /\ pc = "plan"
  /\ WholeTopology(dest)
  /\ journal' = [state |-> "open", committed |-> 0, original |-> dest,
                 replacement |-> Contents[version],
                 enabled |-> EnabledUnits]
  /\ Enter("stage", "install", 1)
  /\ UNCHANGED <<dest, staged, backup, services>>

CreateStaged ==
  /\ pc = "stage"
  /\ staged' = [staged EXCEPT ![index] = Torn]
  /\ Goto("copy")
  /\ UNCHANGED <<dest, backup, journal, services>>

StageRecord ==
  /\ pc = "copy"
  /\ staged' = [staged EXCEPT ![index] = journal.replacement[index]]
  /\ IF index = RecordCount
       THEN Enter("commit", flow, 1)
       ELSE Enter("stage", flow, index + 1)
  /\ UNCHANGED <<dest, backup, journal, services>>

StageFails ==
  /\ pc \in {"stage", "copy"}
  /\ Enter("cleanup", "abort", 1)
  /\ UNCHANGED <<disk, services>>

--------------------------------------------------------------------------------
(* SystemInstallation::commit_files, activate, finalize and the worker's   *)
(* reaction to each failure                                                *)

PreserveOriginal ==
  /\ pc = "commit"
  /\ dest[index] = journal.original[index]
  /\ backup' = [backup EXCEPT ![index] = journal.original[index]]
  /\ dest' = [dest EXCEPT ![index] = Absent]
  /\ Goto("replace")
  /\ UNCHANGED <<staged, journal, services>>

InstallStaged ==
  /\ pc = "replace"
  /\ dest' = [dest EXCEPT ![index] = staged[index]]
  /\ staged' = [staged EXCEPT ![index] = Absent]
  /\ Goto("record")
  /\ UNCHANGED <<backup, journal, services>>

\* mutant of RecordProgress
RecordProgressOneShort ==
  /\ pc = "record"
  /\ journal' = [journal EXCEPT !.committed = index]
  /\ IF index = RecordCount - 1
       THEN Goto("verify")
       ELSE Enter("commit", flow, index + 1)
  /\ UNCHANGED <<dest, staged, backup, services>>

RecordProgress ==
  /\ pc = "record"
  /\ journal' = [journal EXCEPT !.committed = index]
  /\ IF index = RecordCount
       THEN Goto("verify")
       ELSE Enter("commit", flow, index + 1)
  /\ UNCHANGED <<dest, staged, backup, services>>

VerifyUnits ==
  /\ pc = "verify"
  /\ Goto("activate")
  /\ UNCHANGED <<disk, services>>

Activate ==
  /\ pc = "activate"
  /\ IF ColdCutover THEN StopService ELSE UNCHANGED <<running, queued>>
  /\ enabled' = Units
  /\ Goto("start")
  /\ UNCHANGED disk

(* Queued as well: the wait for the new agent is what follows. *)
StartService ==
  /\ pc = "start"
  /\ queued' = TRUE
  /\ Goto("health")
  /\ UNCHANGED <<disk, enabled, running>>

(* Both protocols report the exact release that was asked for. *)
BecomeHealthy ==
  /\ pc = "health"
  /\ running = journal.replacement[Binary]
  /\ Goto("accept")
  /\ UNCHANGED <<disk, services>>

Accept ==
  /\ pc = "accept"
  /\ journal' = [journal EXCEPT !.state = "accepted"]
  /\ Enter("cleanup", "accept", 1)
  /\ UNCHANGED <<dest, staged, backup, services>>

(* The flag is set in memory before the journal is written, so a write     *)
(* that fails, before or after it took effect, is reported as committed.   *)
AcceptFails ==
  /\ pc = "accept"
  /\ \/ journal' = journal
     \/ journal' = [journal EXCEPT !.state = "accepted"]
  /\ Release("after_commit")
  /\ UNCHANGED <<dest, staged, backup, services>>

(* The job's status cannot be advanced to the commit: the worker ends      *)
(* without a rollback, nothing having been moved.                          *)
AbandonBeforeCommit ==
  /\ pc = "commit"
  /\ index = 1
  /\ Release("before_commit")
  /\ UNCHANGED <<disk, services>>

\* mutant of InstallFails
InstallFailsCleaningFirst ==
  /\ pc \in {"commit", "replace", "record", "verify", "activate", "start", "health"}
  /\ Enter("cleanup", "rollback", 1)
  /\ UNCHANGED <<disk, services>>

\* mutant of InstallFails
InstallFailsBeforeHealth ==
  /\ pc \in {"commit", "replace", "record", "verify", "activate", "start"}
  /\ Enter("rollback", "rollback", RecordCount)
  /\ UNCHANGED <<disk, services>>

InstallFails ==
  /\ pc \in {"commit", "replace", "record", "verify", "activate", "start", "health"}
  /\ Enter("rollback", "rollback", RecordCount)
  /\ UNCHANGED <<disk, services>>

--------------------------------------------------------------------------------
(* SystemInstallation::inspect_and_repair, by an agent of release version *)

InspectBinary ==
  /\ pc = "repair"
  /\ index = Binary
  /\ dest[Binary] # Absent
  /\ Enter("repair", flow, index + 1)
  /\ UNCHANGED <<disk, services>>

RepairText ==
  /\ pc = "repair"
  /\ index \in Units
  /\ dest' = [dest EXCEPT ![index] = Contents[version][index]]
  /\ IF index = RecordCount THEN Goto("refresh") ELSE Enter("repair", flow, index + 1)
  /\ UNCHANGED <<staged, backup, journal, services>>

(* ServiceManager::refresh_installation, after a repair and in the         *)
(* recovery of an accepted installation.                                   *)
Refresh ==
  /\ pc = "refresh"
  /\ enabled' = Units
  /\ IF flow = "recover" THEN Goto("cleanup") ELSE Release("none")
  /\ UNCHANGED <<disk, running, queued>>

(* Whatever else an operation does may fail before its effect, and ends it *)
OperationFails ==
  /\ pc \in {"recover", "plan", "repair", "refresh"}
  /\ Release("before_commit")
  /\ UNCHANGED <<disk, services>>

--------------------------------------------------------------------------------
(* The environment *)

(* The holder is killed: its deadline, the kernel, a power failure, or, for *)
(* a repair, the end of the request that runs it or of the agent itself.    *)
Crash ==
  /\ pc # "free"
  /\ pc' = "free"
  /\ flow' = "recover"
  /\ index' = 1
  /\ UNCHANGED <<kind, version, report, disk, services>>

(* systemd gets to the job, whatever the holder, if there is one, is doing *)
(* meanwhile: what ran is stopped, and what is installed by now may start. *)
RunQueued ==
  /\ queued
  /\ queued' = FALSE
  /\ running' \in {Absent, dest[Binary]}
  /\ UNCHANGED <<disk, enabled, memory>>

AgentStops ==
  /\ running # Absent
  /\ running' = Absent
  /\ UNCHANGED <<disk, enabled, queued, memory>>

(* systemd starts the service: at boot, after its exit, or for a client.   *)
(* A unit that was activated and whose file is rolled back is still loaded *)
(* until systemd reloads.                                                  *)
AgentStarts ==
  /\ running = Absent
  /\ dest[Binary] # Absent
  /\ dest[Service] # Absent \/ (Open /\ journal.committed = RecordCount)
  /\ running' = dest[Binary]
  /\ UNCHANGED <<disk, enabled, queued, memory>>

(* An administrator edits or removes a unit file, or enables and disables  *)
(* units, while no operation is in progress or interrupted.                *)
Edit(i, blob) ==
  /\ pc = "free"
  /\ journal.state = "none"
  /\ dest' = [dest EXCEPT ![i] = blob]
  /\ UNCHANGED <<staged, backup, journal, services, memory>>

Administer(units) ==
  /\ pc = "free"
  /\ journal.state = "none"
  /\ \A u \in units : u \in enabled \/ dest[u] # Absent
  /\ enabled' = units
  /\ UNCHANGED <<disk, running, queued, memory>>

--------------------------------------------------------------------------------

(* Nothing is installed but the program itself, placed by the product's    *)
(* bootstrap, or a whole release is installed.                             *)
Bootstrapped == {[i \in Records |-> IF i = Binary THEN Contents[v][Binary] ELSE Absent] :
                   v \in Versions}

Init ==
  /\ dest \in Bootstrapped \union Declared
  /\ staged = Nothing
  /\ backup = Nothing
  /\ journal = NoJournal
  /\ enabled \in SUBSET {u \in Units : dest[u] # Absent}
  /\ running = IF dest[Service] = Absent THEN Absent ELSE dest[Binary]
  /\ queued = FALSE
  /\ pc = "free"
  /\ flow = "recover"
  /\ index = 1
  /\ kind \in Kinds
  /\ version \in Versions
  /\ report = "none"

Recovery == RecoverNothing \/ RecoverOpen \/ RecoverAccepted

Rollback ==
  \/ RemoveReplacement \/ ReinstateOriginal \/ KeepOriginal \/ RemoveIntroduced
  \/ RollbackFails

RestoreServices == DisableTargets \/ EnablePrevious \/ RestartPrevious \/ RestoreFails

Ending ==
  \/ \E i \in Records : CleanupEntry(i)
  \/ CleanupDone \/ RemoveJournal \/ CleanupFails

Install ==
  \/ Plan \/ CreateStaged \/ StageRecord \/ StageFails
  \/ PreserveOriginal \/ InstallStaged \/ RecordProgress \/ VerifyUnits
  \/ Activate \/ StartService \/ BecomeHealthy \/ Accept \/ AcceptFails
  \/ AbandonBeforeCommit \/ InstallFails

InspectAndRepair == InspectBinary \/ RepairText \/ Refresh

HolderStep ==
  Recovery \/ Rollback \/ RestoreServices \/ Ending \/ Install \/ InspectAndRepair
  \/ OperationFails

Environment ==
  \/ Crash \/ RunQueued \/ AgentStops \/ AgentStarts
  \/ \E i \in Units, blob \in Edits : Edit(i, blob)
  \/ \E units \in SUBSET Units : Administer(units)

Next ==
  \/ \E k \in Kinds, v \in Versions : Acquire(k, v)
  \/ HolderStep
  \/ Environment

Spec == Init /\ [][Next]_vars

(* A holder that is not killed keeps going: each of its waits has a        *)
(* deadline, and the worker's own runtime is limited.                      *)
FairSpec == Spec /\ WF_vars(HolderStep)

--------------------------------------------------------------------------------
(* Properties *)

Journals ==
  [state : {"none", "open", "accepted"}, committed : 0..RecordCount,
   original : [Records -> Slots], replacement : [Records -> Slots],
   enabled : SUBSET Units]

(* The type of every variable. *)
TypeOK ==
  /\ dest \in [Records -> Slots]
  /\ staged \in [Records -> Slots]
  /\ backup \in [Records -> Slots]
  /\ journal \in Journals
  /\ enabled \in SUBSET Units
  /\ running \in Slots
  /\ queued \in BOOLEAN
  /\ pc \in Labels
  /\ flow \in Flows
  /\ index \in Records
  /\ kind \in Kinds
  /\ version \in Versions
  /\ report \in Reports

(* Until the transaction is accepted, the previous contents of every       *)
(* managed file exist, at the destination or as the backup, whatever has   *)
(* failed and wherever the worker was killed: the order of commit_files    *)
(* and rollback_files never leaves an original with no copy.               *)
OriginalsPreserved ==
  Open => \A i \in Records :
            journal.original[i] # Absent =>
              journal.original[i] \in {dest[i], backup[i]}

(* An accepted transaction has every file of its release in place, so that *)
(* no recovery will refuse it or undo it (recover, validate_committed_files) *)
AcceptedIsWhole ==
  Accepted => \A i \in Records : dest[i] = journal.replacement[i]

(* A journal the program wrote passes its own validation in a later run,   *)
(* so no interruption makes recovery reject its journal.                   *)
JournalsValidate == journal.state # "none" => JournalValid

(* A managed destination never holds a file that was not staged to its end *)
(* and a file under the staging tree is never left behind once the journal *)
(* that would let recovery find it is gone.                                *)
NothingLeftBehind ==
  /\ \A i \in Records : dest[i] # Torn
  /\ journal.state = "none" => staged = Nothing /\ backup = Nothing

(* Whatever happened before, a recovery finds a journal that it accepts,   *)
(* for files that are whole, and nothing that no journal speaks of.        *)
JournalsAreTrue == AcceptedIsWhole /\ JournalsValidate /\ NothingLeftBehind

(* A transaction that ends without having been accepted, by a rollback of  *)
(* the worker or by a later recovery, leaves every managed file and the    *)
(* enablement of every unit as they were when it was planned.              *)
RollbackRestores ==
  [][Open /\ journal'.state = "none" =>
       /\ dest' = journal.original
       /\ EnabledUnits' = journal.enabled]_vars

(* The service runs the installed program or nothing, or is about to.      *)
Matched == running \in {Absent, dest[Binary]} \/ queued

(* With no transaction in progress or interrupted, an agent that is not    *)
(* the installed program has a restart before it: neither a commit, nor a  *)
(* rollback, nor a recovery, of this holder or of one that was killed with *)
(* a job still queued, settles on files that no agent will take up.        *)
AgentMatchesDisk == pc = "free" /\ journal.state = "none" => Matched

(* Every operation ends, in success, failure or death. *)
LockIsReleased == pc # "free" ~> pc = "free"

(* The files the system has settled on, or will once what was interrupted  *)
(* is recovered.                                                           *)
Outcome ==
  CASE Open -> journal.original
    [] Accepted -> journal.replacement
    [] OTHER -> dest

Image == INSTANCE SystemImage
  WITH image <- Outcome, Images <- Bootstrapped \union Declared

(* Crashes, failures and recoveries are invisible in the outcome: it only  *)
(* switches to a whole release, when the journal records the acceptance,   *)
(* and changes by single unit files when a repair or an administrator      *)
(* rewrites them.                                                          *)
ImplementsImage == Image!Spec

--------------------------------------------------------------------------------
(* The inductive invariant from which the properties above are proved *)

CommitLabels  == {"commit", "replace", "record", "verify", "activate", "start", "health",
                  "accept"}
DoneLabels    == {"verify", "activate", "start", "health", "accept"}
ServiceLabels == {"disable", "enable", "restart"}

(* Which paths share which steps, and what the journal says on each. *)
ControlInv ==
  /\ pc \in {"free", "recover"} => flow = "recover"
  /\ pc \in {"plan", "repair"} => journal.state = "none"
  /\ pc \in {"plan", "stage", "copy"} \union CommitLabels => flow = "install"
  /\ pc \in {"stage", "copy"} \union CommitLabels => Open
  /\ pc \in {"rollback", "reinstate"} => Open /\ flow \in {"recover", "rollback"}
  /\ pc \in ServiceLabels => Open /\ flow \in {"recover", "rollback", "damaged"}
  /\ pc \in {"cleanup", "forget"} =>
       \/ flow \in {"abort", "rollback"} /\ Open
       \/ flow = "accept" /\ Accepted
       \/ flow = "recover" /\ (Open \/ Accepted)
  /\ pc = "repair" => flow = "repair"
  /\ pc = "refresh" =>
       \/ flow = "recover" /\ Accepted
       \/ flow = "repair" /\ journal.state = "none"

(* Where the original of a record can be while the transaction is open. *)
Consistent(i) ==
  /\ backup[i] \in {Absent, journal.original[i]}
  /\ journal.original[i] # Absent /\ backup[i] = Absent => dest[i] = journal.original[i]
  /\ journal.original[i] = Absent /\ staged[i] # Absent => dest[i] = Absent

Restored(i)  == backup[i] = Absent /\ dest[i] = journal.original[i]
Pending(i)   == Restored(i) /\ staged[i] = journal.replacement[i]
Between(i)   == /\ backup[i] = journal.original[i]
                /\ dest[i] = Absent
                /\ staged[i] = journal.replacement[i]
Committed(i) == /\ backup[i] = journal.original[i]
                /\ dest[i] = journal.replacement[i]
                /\ staged[i] = Absent

(* How far the holder has come: which records it has staged, committed and *)
(* restored.                                                               *)
ProgressInv ==
  /\ pc \in {"stage", "copy"} =>
       /\ \A i \in Records : Restored(i)
       /\ \A i \in Records : i < index => staged[i] = journal.replacement[i]
  /\ pc \in {"commit", "replace", "record"} =>
       \A i \in Records :
         /\ i < index => Committed(i)
         /\ i > index => Pending(i)
  /\ pc = "commit" => Pending(index)
  /\ pc = "replace" => Between(index)
  /\ pc = "record" => Committed(index)
  /\ pc \in DoneLabels =>
       /\ journal.committed = RecordCount
       /\ \A i \in Records : Committed(i)
  /\ pc \in {"rollback", "reinstate"} =>
       \A i \in Records : i > index => Restored(i)
  /\ pc = "reinstate" => backup[index] # Absent
  /\ Open /\ flow \in {"abort", "recover", "rollback"}
       /\ pc \in ServiceLabels \union {"cleanup", "forget"} =>
         \A i \in Records : Restored(i)
  /\ pc = "forget" => staged = Nothing /\ backup = Nothing

(* What the journal and the files say of one another. *)
JournalInv ==
  /\ journal.state = "none" => staged = Nothing /\ backup = Nothing
  /\ Open => \A i \in Records : Consistent(i)
  /\ Accepted => journal.committed = RecordCount
  /\ journal.state # "none" => WholeTopology(journal.original)
  /\ \A i \in Records : dest[i] # Torn /\ backup[i] # Torn
  /\ \A i \in Records : journal.original[i] # Torn /\ journal.replacement[i] # Torn
  /\ journal.state # "none" => journal.replacement \in Declared

(* The enablement that a rollback has restored, or never touched. *)
EnablementInv ==
  /\ Open => \A u \in journal.enabled : journal.original[u] # Absent
  /\ pc = "enable" => enabled \subseteq journal.enabled
  /\ pc = "restart" => enabled = journal.enabled
  /\ Open /\ pc \in {"stage", "copy", "cleanup", "forget"} => EnabledUnits = journal.enabled

(* The program that the service runs, where it is known. *)
RunningInv ==
  /\ ~Open => Matched
  /\ pc \in {"stage", "copy", "health", "accept", "cleanup", "forget"} => Matched
  /\ pc \in {"enable", "restart"} /\ ColdCutover /\ flow # "damaged" => Matched

TransactionInv ==
  /\ TypeOK
  /\ ControlInv
  /\ JournalInv
  /\ AcceptedIsWhole
  /\ ProgressInv
  /\ EnablementInv
  /\ RunningInv

--------------------------------------------------------------------------------
(* What DESIGN.md says of interruptions and failures, and the code does not *)
(* always do: TLC refutes each of these.                                   *)

(* "Recovery resumes from the journal after interruption": wherever the    *)
(* holder was killed, a later recovery finds each record in a state that   *)
(* rollback_files goes on from.                                            *)
RecoveryResumes ==
  pc = "free" /\ Open => \A i \in Records : Moved(i) \/ Unmoved(i) \/ Introduced(i)

(* The same sentence needs a program to resume with: the installed one, or *)
(* the one that the running agent was started from.                        *)
RecoveryHasAProgram ==
  pc = "free" /\ Open => dest[Binary] # Absent \/ running # Absent

(* "Failure before acceptance rolls back files": a worker that ends after  *)
(* it has tried to accept leaves a journal that records the acceptance, or *)
(* it has rolled the files back itself.                                    *)
FailureRollsBack == pc = "free" /\ report = "after_commit" => ~Open

(* "Failure before acceptance rolls back files": where nobody edits them,  *)
(* and no operation is in progress or interrupted, every unit file that is *)
(* installed is the one that the installed program declares.               *)
OneRelease ==
  pc = "free" /\ journal.state = "none" =>
    \E v \in Versions :
      /\ dest[Binary] = Contents[v][Binary]
      /\ \A u \in Units : dest[u] \in {Absent, Contents[v][u]}
================================================================================

-------------------------- MODULE UninstallationProofs -------------------------
(***************************************************************************)
(* Proofs about the uninstallation transaction, for any number of managed  *)
(* files and any edits.  TransactionInv is inductive: one lemma per        *)
(* conjunct says that a step preserves it, with a case per action.         *)
(***************************************************************************)
EXTENDS Uninstallation, TLAPS

(* Recording the progress of a removal keeps the journal a journal. *)
LEMMA RecordedJournal ==
  ASSUME NEW entry \in Journals, NEW n \in Records
  PROVE  [entry EXCEPT !.removed = n] \in Journals
  <1>1. n \in 0..RecordCount
    BY UninstallationAssumption DEF Records
  <1> QED BY <1>1 DEF Journals

(* Every step keeps every variable in its type. *)
LEMMA TypeStep ==
  ASSUME TransactionInv, [Next]_vars
  PROVE  TypeOK'
  <1> USE UninstallationAssumption DEF TransactionInv, Goto, Enter, Unlock,
      Proceed, RestoredOne, Stopped, disk, services, memory, TypeOK, Labels, Flows, Kinds,
      Records, Units, Sockets, Program, Service, Slots, Nothing, NoJournal, With
  <1>1. ASSUME NEW k \in Kinds, Acquire(k)
        PROVE  TypeOK'
    BY <1>1 DEF Acquire
  <1>2. CASE Recovery
    <2>1. CASE RecoverNothing
      BY <2>1 DEF RecoverNothing
    <2>2. CASE RecoverOpen
      BY <2>2 DEF RecoverOpen
    <2>3. CASE RecoverRemoved
      BY <2>3 DEF RecoverRemoved
    <2>4. CASE PrepareFails
      BY <2>4 DEF PrepareFails
    <2> QED BY <1>2, <2>1, <2>2, <2>3, <2>4 DEF Recovery
  <1>3. CASE Restore
    <2>1. CASE RestoreFile
      BY <2>1 DEF RestoreFile
    <2>2. CASE KeepFile
      BY <2>2 DEF KeepFile
    <2>3. CASE RestoreFails
      BY <2>3 DEF RestoreFails
    <2>4. CASE DisableTargets
      BY <2>4 DEF DisableTargets
    <2>5. CASE EnablePrevious
      BY <2>5 DEF EnablePrevious, Journals
    <2>6. CASE RestartPrevious
      BY <2>6 DEF RestartPrevious
    <2>7. CASE ServicesFail
      BY <2>7 DEF ServicesFail
    <2> QED BY <1>3, <2>1, <2>2, <2>3, <2>4, <2>5, <2>6, <2>7 DEF Restore
  <1>4. CASE Uninstall
    <2>1. CASE Plan
      <3>1. journal' \in Journals
        BY <2>1 DEF Plan, Journals
      <3>2. late' \in BOOLEAN
        BY <2>1 DEF Plan
      <3> QED BY <2>1, <3>1, <3>2 DEF Plan
    <2>3. CASE DisableUnits
      BY <2>3 DEF DisableUnits
    <2>4. CASE RemoveFile
      BY <2>4 DEF RemoveFile
    <2>5. CASE RecordRemoval
      <3>1. journal' \in Journals
        BY <2>5, RecordedJournal DEF RecordRemoval
      <3> QED BY <2>5, <3>1 DEF RecordRemoval
    <2>6. CASE UninstallFails
      BY <2>6 DEF UninstallFails
    <2> QED BY <1>4, <2>1, <2>3, <2>4, <2>5, <2>6 DEF Uninstall
  <1>5. CASE Ending
    <2>1. CASE ReloadRemoved
      BY <2>1 DEF ReloadRemoved
    <2>2. CASE ReloadFails
      BY <2>2 DEF ReloadFails
    <2>3. CASE Settle
      <3>1. journal' \in Journals
        BY <2>3 DEF Settle, Journals
      <3> QED BY <2>3, <3>1 DEF Settle
    <2>4. CASE SettleFails
      <3>1. journal' \in Journals
        BY <2>4 DEF SettleFails, Journals
      <3> QED BY <2>4, <3>1 DEF SettleFails
    <2>5. ASSUME NEW i \in Records, CleanupEntry(i) PROVE TypeOK'
      BY <2>5 DEF CleanupEntry
    <2>6. CASE CleanupDone
      BY <2>6 DEF CleanupDone
    <2>7. CASE RemoveJournal
      <3>1. journal' \in Journals
        BY <2>7 DEF RemoveJournal, Journals
      <3> QED BY <2>7, <3>1 DEF RemoveJournal
    <2>8. CASE CleanupFails
      <3>1. journal' \in Journals
        BY <2>8 DEF CleanupFails, Journals
      <3> QED BY <2>8, <3>1 DEF CleanupFails
    <2> QED BY <1>5, <2>1, <2>2, <2>3, <2>4, <2>5, <2>6, <2>7, <2>8 DEF Ending
  <1>6. CASE Environment
    <2>1. CASE Crash
      BY <2>1 DEF Crash
    <2>2. CASE Reboot
      BY <2>2 DEF Reboot
    <2>3. CASE ServiceStarts
      BY <2>3 DEF ServiceStarts
    <2>4. CASE ServiceExits
      BY <2>4 DEF ServiceExits
    <2>8. ASSUME NEW u \in Units, RunQueued(u) PROVE TypeOK'
      BY <2>8 DEF RunQueued
    <2>5. CASE Reinstall
      BY <2>5 DEF Reinstall
    <2>6. ASSUME NEW i \in Units, NEW blob \in Edits, Edit(i, blob) PROVE TypeOK'
      BY <2>6 DEF Edit
    <2>7. ASSUME NEW units \in SUBSET Units, Administer(units) PROVE TypeOK'
      BY <2>7 DEF Administer
    <2> QED BY <1>6, <2>1, <2>2, <2>3, <2>4, <2>5, <2>6, <2>7, <2>8 DEF Environment
  <1>8. CASE StopUnits
    <2>1. CASE SkipUnit
      BY <2>1 DEF SkipUnit
    <2>2. CASE StopUnit
      BY <2>2 DEF StopUnit
    <2>3. CASE SeeInactive
      BY <2>3 DEF SeeInactive
    <2> QED BY <1>8, <2>1, <2>2, <2>3 DEF StopUnits
  <1>7. CASE UNCHANGED vars
    BY <1>7 DEF vars
  <1> QED BY <1>1, <1>2, <1>3, <1>4, <1>5, <1>6, <1>7, <1>8 DEF Next

(* Every step keeps the paths of the holder apart. *)
LEMMA ControlStep ==
  ASSUME TransactionInv, [Next]_vars
  PROVE  ControlInv'
  <1> USE UninstallationAssumption DEF TransactionInv, Goto, Enter, Unlock,
      Proceed, RestoredOne, Stopped, disk, services, memory, Open, Removed, RestoreLabels,
      EndLabels, ControlInv, NoJournal, Records, Units, Program, Service, TypeOK
  <1>1. ASSUME NEW k \in Kinds, Acquire(k)
        PROVE  ControlInv'
    BY <1>1 DEF Acquire
  <1>2. CASE Recovery
    BY <1>2 DEF Recovery, RecoverNothing, RecoverOpen, RecoverRemoved, PrepareFails
  <1>3. CASE Restore
    BY <1>3 DEF Restore, RestoreFile, KeepFile, RestoreFails, DisableTargets,
        EnablePrevious, RestartPrevious, ServicesFail
  <1>4. CASE Uninstall
    <2>1. CASE Plan
      BY <2>1 DEF Plan
    <2>3. CASE DisableUnits
      BY <2>3 DEF DisableUnits
    <2>4. CASE RemoveFile
      BY <2>4 DEF RemoveFile
    <2>5. CASE RecordRemoval
      BY <2>5 DEF RecordRemoval
    <2>6. CASE UninstallFails
      BY <2>6 DEF UninstallFails
    <2> QED BY <1>4, <2>1, <2>3, <2>4, <2>5, <2>6 DEF Uninstall
  <1>5. CASE Ending
    <2>1. CASE ReloadRemoved
      BY <2>1 DEF ReloadRemoved
    <2>2. CASE ReloadFails
      BY <2>2 DEF ReloadFails
    <2>3. CASE Settle
      BY <2>3 DEF Settle
    <2>4. CASE SettleFails
      BY <2>4 DEF SettleFails
    <2>5. ASSUME NEW i \in Records, CleanupEntry(i) PROVE ControlInv'
      BY <2>5 DEF CleanupEntry
    <2>6. CASE CleanupDone
      BY <2>6 DEF CleanupDone
    <2>7. CASE RemoveJournal
      BY <2>7 DEF RemoveJournal
    <2>8. CASE CleanupFails
      BY <2>8 DEF CleanupFails
    <2> QED BY <1>5, <2>1, <2>2, <2>3, <2>4, <2>5, <2>6, <2>7, <2>8 DEF Ending
  <1>6. CASE Environment
    BY <1>6 DEF Environment, Crash, Reboot, ServiceStarts, ServiceExits, RunQueued, Reinstall,
        Edit, Administer
  <1>8. CASE StopUnits
    <2>1. CASE SkipUnit
      BY <2>1 DEF SkipUnit
    <2>2. CASE StopUnit
      BY <2>2 DEF StopUnit
    <2>3. CASE SeeInactive
      BY <2>3 DEF SeeInactive
    <2> QED BY <1>8, <2>1, <2>2, <2>3 DEF StopUnits
  <1>7. CASE UNCHANGED vars
    BY <1>7 DEF vars
  <1> QED BY <1>1, <1>2, <1>3, <1>4, <1>5, <1>6, <1>7, <1>8 DEF Next

(* Every step leaves the files where the holder's path says they are. *)
LEMMA FilesStep ==
  ASSUME TransactionInv, [Next]_vars
  PROVE  FilesInv'
  <1> USE UninstallationAssumption DEF TransactionInv, Goto, Enter, Unlock,
      Proceed, RestoredOne, Stopped, disk, services, memory, Open, Removed, RestoreLabels,
      EndLabels, ControlInv, Records, Units, Sockets, Program, Service, Slots,
      Nothing, NoJournal, TypeOK, Journals, Labels, Flows, FilesInv, InPlace,
      Taken, Removable, Untouched
  <1>1. ASSUME NEW k \in Kinds, Acquire(k)
        PROVE  FilesInv'
    BY <1>1 DEF Acquire
  <1>2. CASE Recovery
    <2>1. CASE RecoverNothing
      BY <2>1 DEF RecoverNothing
    <2>2. CASE RecoverOpen
      BY <2>2 DEF RecoverOpen
    <2>3. CASE RecoverRemoved
      BY <2>3 DEF RecoverRemoved
    <2>4. CASE PrepareFails
      BY <2>4 DEF PrepareFails
    <2> QED BY <1>2, <2>1, <2>2, <2>3, <2>4 DEF Recovery
  <1>3. CASE Restore
    <2>1. CASE RestoreFile
      BY <2>1 DEF RestoreFile
    <2>2. CASE KeepFile
      BY <2>2 DEF KeepFile
    <2>3. CASE RestoreFails
      BY <2>3 DEF RestoreFails
    <2>4. CASE DisableTargets
      BY <2>4 DEF DisableTargets
    <2>5. CASE EnablePrevious
      BY <2>5 DEF EnablePrevious
    <2>6. CASE RestartPrevious
      BY <2>6 DEF RestartPrevious
    <2>7. CASE ServicesFail
      BY <2>7 DEF ServicesFail
    <2> QED BY <1>3, <2>1, <2>2, <2>3, <2>4, <2>5, <2>6, <2>7 DEF Restore
  <1>4. CASE Uninstall
    <2>1. CASE Plan
      BY <2>1 DEF Plan
    <2>3. CASE DisableUnits
      BY <2>3 DEF DisableUnits
    <2>4. CASE RemoveFile
      BY <2>4 DEF RemoveFile
    <2>5. CASE RecordRemoval
      BY <2>5 DEF RecordRemoval
    <2>6. CASE UninstallFails
      BY <2>6 DEF UninstallFails
    <2> QED BY <1>4, <2>1, <2>3, <2>4, <2>5, <2>6 DEF Uninstall
  <1>5. CASE Ending
    <2>1. CASE ReloadRemoved
      BY <2>1 DEF ReloadRemoved
    <2>2. CASE ReloadFails
      BY <2>2 DEF ReloadFails
    <2>3. CASE Settle
      BY <2>3 DEF Settle
    <2>4. CASE SettleFails
      BY <2>4 DEF SettleFails
    <2>5. ASSUME NEW i \in Records, CleanupEntry(i) PROVE FilesInv'
      BY <2>5 DEF CleanupEntry
    <2>6. CASE CleanupDone
      BY <2>6 DEF CleanupDone
    <2>7. CASE RemoveJournal
      BY <2>7 DEF RemoveJournal
    <2>8. CASE CleanupFails
      BY <2>8 DEF CleanupFails
    <2> QED BY <1>5, <2>1, <2>2, <2>3, <2>4, <2>5, <2>6, <2>7, <2>8 DEF Ending
  <1>6. CASE Environment
    <2>1. CASE Crash
      BY <2>1 DEF Crash
    <2>2. CASE Reboot
      BY <2>2 DEF Reboot
    <2>3. CASE ServiceStarts
      BY <2>3 DEF ServiceStarts
    <2>4. CASE ServiceExits
      BY <2>4 DEF ServiceExits
    <2>8. ASSUME NEW u \in Units, RunQueued(u) PROVE FilesInv'
      BY <2>8 DEF RunQueued
    <2>5. CASE Reinstall
      BY <2>5 DEF Reinstall
    <2>6. ASSUME NEW i \in Units, NEW blob \in Edits, Edit(i, blob) PROVE FilesInv'
      BY <2>6 DEF Edit
    <2>7. ASSUME NEW units \in SUBSET Units, Administer(units) PROVE FilesInv'
      BY <2>7 DEF Administer
    <2> QED BY <1>6, <2>1, <2>2, <2>3, <2>4, <2>5, <2>6, <2>7, <2>8 DEF Environment
  <1>8. CASE StopUnits
    <2>1. CASE SkipUnit
      BY <2>1 DEF SkipUnit
    <2>2. CASE StopUnit
      BY <2>2 DEF StopUnit
    <2>3. CASE SeeInactive
      BY <2>3 DEF SeeInactive
    <2> QED BY <1>8, <2>1, <2>2, <2>3 DEF StopUnits
  <1>7. CASE UNCHANGED vars
    BY <1>7 DEF vars
  <1> QED BY <1>1, <1>2, <1>3, <1>4, <1>5, <1>6, <1>7, <1>8 DEF Next

(* Every step keeps what is known of the enabled units. *)
LEMMA EnabledStep ==
  ASSUME TransactionInv, [Next]_vars
  PROVE  EnabledInv'
  <1> USE UninstallationAssumption DEF TransactionInv, Goto, Enter, Unlock,
      Proceed, RestoredOne, Stopped, disk, services, memory, Open, Removed, RestoreLabels,
      EndLabels, ControlInv, Records, Units, Sockets, Program, Service, NoJournal,
      TypeOK, Journals, Labels, EnabledInv, With
  <1>1. ASSUME NEW k \in Kinds, Acquire(k)
        PROVE  EnabledInv'
    BY <1>1 DEF Acquire
  <1>2. CASE Recovery
    <2>1. CASE RecoverNothing
      BY <2>1 DEF RecoverNothing
    <2>2. CASE RecoverOpen
      BY <2>2 DEF RecoverOpen
    <2>3. CASE RecoverRemoved
      BY <2>3 DEF RecoverRemoved
    <2>4. CASE PrepareFails
      BY <2>4 DEF PrepareFails
    <2> QED BY <1>2, <2>1, <2>2, <2>3, <2>4 DEF Recovery
  <1>3. CASE Restore
    <2>1. CASE RestoreFile
      BY <2>1 DEF RestoreFile
    <2>2. CASE KeepFile
      BY <2>2 DEF KeepFile
    <2>3. CASE RestoreFails
      BY <2>3 DEF RestoreFails
    <2>4. CASE DisableTargets
      BY <2>4 DEF DisableTargets
    <2>5. CASE EnablePrevious
      <3>1. enabled \subseteq journal.enabled
        BY <2>5 DEF EnablePrevious
      <3>2. enabled \union journal.enabled = journal.enabled
        BY <3>1
      <3>3. enabled' = journal.enabled
        BY <2>5, <3>2 DEF EnablePrevious
      <3> QED BY <2>5, <3>3 DEF EnablePrevious
    <2>6. CASE RestartPrevious
      BY <2>6 DEF RestartPrevious
    <2>7. CASE ServicesFail
      BY <2>7 DEF ServicesFail
    <2> QED BY <1>3, <2>1, <2>2, <2>3, <2>4, <2>5, <2>6, <2>7 DEF Restore
  <1>4. CASE Uninstall
    <2>1. CASE Plan
      BY <2>1 DEF Plan
    <2>3. CASE DisableUnits
      BY <2>3 DEF DisableUnits
    <2>4. CASE RemoveFile
      BY <2>4 DEF RemoveFile
    <2>5. CASE RecordRemoval
      BY <2>5 DEF RecordRemoval
    <2>6. CASE UninstallFails
      BY <2>6 DEF UninstallFails
    <2> QED BY <1>4, <2>1, <2>3, <2>4, <2>5, <2>6 DEF Uninstall
  <1>5. CASE Ending
    <2>1. CASE ReloadRemoved
      BY <2>1 DEF ReloadRemoved
    <2>2. CASE ReloadFails
      BY <2>2 DEF ReloadFails
    <2>3. CASE Settle
      BY <2>3 DEF Settle
    <2>4. CASE SettleFails
      BY <2>4 DEF SettleFails
    <2>5. ASSUME NEW i \in Records, CleanupEntry(i) PROVE EnabledInv'
      BY <2>5 DEF CleanupEntry
    <2>6. CASE CleanupDone
      BY <2>6 DEF CleanupDone
    <2>7. CASE RemoveJournal
      BY <2>7 DEF RemoveJournal
    <2>8. CASE CleanupFails
      BY <2>8 DEF CleanupFails
    <2> QED BY <1>5, <2>1, <2>2, <2>3, <2>4, <2>5, <2>6, <2>7, <2>8 DEF Ending
  <1>6. CASE Environment
    <2>1. CASE Crash
      BY <2>1 DEF Crash
    <2>2. CASE Reboot
      BY <2>2 DEF Reboot
    <2>3. CASE ServiceStarts
      BY <2>3 DEF ServiceStarts
    <2>4. CASE ServiceExits
      BY <2>4 DEF ServiceExits
    <2>8. ASSUME NEW u \in Units, RunQueued(u) PROVE EnabledInv'
      BY <2>8 DEF RunQueued
    <2>5. CASE Reinstall
      BY <2>5 DEF Reinstall
    <2>6. ASSUME NEW i \in Units, NEW blob \in Edits, Edit(i, blob) PROVE EnabledInv'
      BY <2>6 DEF Edit
    <2>7. ASSUME NEW units \in SUBSET Units, Administer(units) PROVE EnabledInv'
      BY <2>7 DEF Administer
    <2> QED BY <1>6, <2>1, <2>2, <2>3, <2>4, <2>5, <2>6, <2>7, <2>8 DEF Environment
  <1>8. CASE StopUnits
    <2>1. CASE SkipUnit
      BY <2>1 DEF SkipUnit
    <2>2. CASE StopUnit
      BY <2>2 DEF StopUnit
    <2>3. CASE SeeInactive
      BY <2>3 DEF SeeInactive
    <2> QED BY <1>8, <2>1, <2>2, <2>3 DEF StopUnits
  <1>7. CASE UNCHANGED vars
    BY <1>7 DEF vars
  <1> QED BY <1>1, <1>2, <1>3, <1>4, <1>5, <1>6, <1>7, <1>8 DEF Next
(* The unit at which a holder that stops units goes on. *)
LEMMA NextUnit ==
  ASSUME NEW u \in Units
  PROVE  /\ u + 1 \in Units => u + 1 # Service /\ u + 1 - 1 = u
         /\ u + 1 \notin Units => \A w \in Units : w # u => w < u
         /\ \A w \in Units : w < u + 1 => w = u \/ w < u
         /\ \A w \in Units : w < u => w + 1 \in Units
  BY UninstallationAssumption DEF Units, Records, Program, Service

(* The service is a unit before its sockets. *)
LEMMA ServiceFirst ==
  /\ Service \in Units /\ Service \notin Sockets
  /\ Units = Sockets \union {Service}
  /\ \A u \in Sockets : Service < u /\ u \in Nat
  BY UninstallationAssumption DEF Units, Sockets, Records, Program, Service

(* Every step keeps what is known of the started units. *)
LEMMA ActiveStep ==
  ASSUME TransactionInv, [Next]_vars
  PROVE  ActiveInv'
  <1> USE UninstallationAssumption, ServiceFirst DEF TransactionInv, Goto, Enter, Unlock,
      Proceed, RestoredOne, disk, services, memory, Open, Removed, RestoreLabels,
      EndLabels, ControlInv, ActiveInv, Quiet, NoJournal
  <1>0. active \subseteq Units /\ queued \subseteq Units /\ flow \in Flows /\ late \in BOOLEAN
    BY DEF TypeOK
  <1>1. ASSUME NEW k \in Kinds, Acquire(k)
        PROVE  ActiveInv'
    BY <1>1 DEF Acquire
  <1>2. CASE Recovery
    <2>1. CASE RecoverNothing
      BY <2>1 DEF RecoverNothing
    <2>2. CASE RecoverOpen
      BY <2>2 DEF RecoverOpen
    <2>3. CASE RecoverRemoved
      BY <2>3 DEF RecoverRemoved
    <2>4. CASE PrepareFails
      BY <2>4 DEF PrepareFails
    <2> QED BY <1>2, <2>1, <2>2, <2>3, <2>4 DEF Recovery
  <1>3. CASE Restore
    <2>1. CASE RestoreFile
      BY <2>1 DEF RestoreFile
    <2>2. CASE KeepFile
      BY <2>2 DEF KeepFile
    <2>3. CASE RestoreFails
      BY <2>3 DEF RestoreFails
    <2>4. CASE DisableTargets
      BY <2>4 DEF DisableTargets
    <2>5. CASE EnablePrevious
      BY <2>5 DEF EnablePrevious
    <2>6. CASE RestartPrevious
      BY <2>6 DEF RestartPrevious
    <2>7. CASE ServicesFail
      BY <2>7 DEF ServicesFail
    <2> QED BY <1>3, <2>1, <2>2, <2>3, <2>4, <2>5, <2>6, <2>7 DEF Restore
  <1>4. CASE Uninstall
    <2>1. CASE Plan
      <3>1. pc' = "stop" /\ index' = Service /\ flow' = "uninstall" /\ journal'.state = "open"
        BY <2>1 DEF Plan
      <3>2. \A u \in Sockets : ~(u < index')
        BY <3>1 DEF Service
      <3>3. Service \in active' => active' = Units
        BY <2>1 DEF Plan
      <3> QED BY <3>1, <3>2, <3>3
    <2>3. CASE DisableUnits
      BY <2>3 DEF DisableUnits
    <2>4. CASE RemoveFile
      BY <2>4 DEF RemoveFile
    <2>5. CASE RecordRemoval
      BY <2>5 DEF RecordRemoval
    <2>6. CASE UninstallFails
      BY <2>6 DEF UninstallFails
    <2> QED BY <1>4, <2>1, <2>3, <2>4, <2>5, <2>6 DEF Uninstall
  <1>5. CASE Ending
    <2>1. CASE ReloadRemoved
      BY <2>1 DEF ReloadRemoved
    <2>2. CASE ReloadFails
      BY <2>2 DEF ReloadFails
    <2>3. CASE Settle
      BY <2>3 DEF Settle
    <2>4. CASE SettleFails
      BY <2>4 DEF SettleFails
    <2>5. ASSUME NEW i \in Records, CleanupEntry(i) PROVE ActiveInv'
      BY <2>5 DEF CleanupEntry
    <2>6. CASE CleanupDone
      BY <2>6 DEF CleanupDone
    <2>7. CASE RemoveJournal
      BY <2>7 DEF RemoveJournal
    <2>8. CASE CleanupFails
      BY <2>8 DEF CleanupFails
    <2> QED BY <1>5, <2>1, <2>2, <2>3, <2>4, <2>5, <2>6, <2>7, <2>8 DEF Ending
  <1>6. CASE Environment
    <2>1. CASE Crash
      BY <2>1 DEF Crash
    <2>2. CASE Reboot
      <3>1. pc' = "free" /\ UNCHANGED <<journal, late>> /\ queued' = {}
        BY <2>2 DEF Reboot
      <3>2. Service \in active' => active' = Units
        BY <2>2 DEF Reboot
      <3>3. ASSUME Removed PROVE active' = {}
        BY <2>2, <3>3 DEF Reboot, EnabledInv, Program, Records
      <3> QED BY <3>1, <3>2, <3>3
    <2>3. CASE ServiceStarts
      <3>1. UNCHANGED <<pc, flow, index, journal, queued>> /\ active' = Units
        BY <2>3 DEF ServiceStarts
      <3>2. active # {}
        BY <2>3 DEF ServiceStarts
      <3>3. ASSUME flow = "uninstall", ~late', pc = "stop" \/ (pc = "await" /\ index \notin Units),
                   NEW u \in Sockets, u < index
            PROVE  FALSE
        <4>1. pc = "stop" /\ index \in Units
          BY <3>3
        <4>2. index - 1 \in Sockets
          BY <3>3, <4>1 DEF Sockets, Units, Records, Program, Service
        <4> QED BY <2>3, <3>3, <4>1, <4>2 DEF ServiceStarts
      <3>4. late => late'
        BY <2>3 DEF ServiceStarts
      <3> QED BY <1>0, <3>1, <3>2, <3>3, <3>4
    <2>4. CASE ServiceExits
      <3>1. UNCHANGED <<pc, flow, index, journal, queued, late>> /\ active' = active \ {Service}
        BY <2>4 DEF ServiceExits
      <3>2. active = Units
        BY <2>4 DEF ServiceExits
      <3>3. ASSUME flow = "uninstall", ~late, pc = "stop" \/ (pc = "await" /\ index \notin active'),
                   NEW w \in Sockets, w < index
            PROVE  FALSE
        <4>1. CASE pc = "stop"
          BY <3>2, <3>3, <4>1
        <4>2. CASE pc = "await" /\ index \notin active'
          <5>1. index = Service
            BY <3>1, <3>2, <4>2
          <5> QED BY <3>3, <5>1 DEF Service, Sockets, Units, Records
        <4> QED BY <3>3, <4>1, <4>2
      <3> QED BY <3>1, <3>2, <3>3
    <2>8. ASSUME NEW u \in Units, RunQueued(u) PROVE ActiveInv'
      <3>1. UNCHANGED <<pc, flow, index, journal, late>> /\ u \in queued /\ queued' = queued \ {u}
        BY <2>8 DEF RunQueued
      <3>2. active' \in {active \union {u}, Units, active \ {Service}}
            /\ (u \in Sockets => active' = active \union {u})
        BY <2>8 DEF RunQueued
      <3>3. Service \in active' => active' = Units
        BY <1>0, <2>8, <3>2 DEF RunQueued
      <3>4. ASSUME flow = "uninstall", pc = "await" \/ (pc = "stop" /\ index # Service)
            PROVE  u # Service
        BY <3>1, <3>4
      <3>5. ASSUME flow = "uninstall", ~late, pc = "stop" \/ (pc = "await" /\ index \notin active'),
                   NEW w \in Sockets, w < index
            PROVE  w \notin active' /\ w \notin queued'
        <4>1. index # Service
          BY <3>5 DEF Service, Sockets, Units, Records
        <4>2. u \in Sockets /\ active' = active \union {u}
          BY <3>2, <3>4, <3>5, <4>1
        <4>3. w \notin active /\ w \notin queued
          BY <3>5, <4>2
        <4> QED BY <3>1, <4>2, <4>3
      <3>6. queued # {}
        BY <3>1
      <3> QED BY <3>1, <3>3, <3>5, <3>6
    <2>5. CASE Reinstall
      BY <2>5 DEF Reinstall
    <2>6. ASSUME NEW i \in Units, NEW blob \in Edits, Edit(i, blob) PROVE ActiveInv'
      BY <2>6 DEF Edit
    <2>7. ASSUME NEW units \in SUBSET Units, Administer(units) PROVE ActiveInv'
      BY <2>7 DEF Administer
    <2> QED BY <1>6, <2>1, <2>2, <2>3, <2>4, <2>5, <2>6, <2>7, <2>8 DEF Environment
  <1>8. CASE StopUnits
    <2>1. CASE SkipUnit
      <3>1. flow # "uninstall" /\ UNCHANGED <<active, queued, late, journal, flow>> /\ ~Removed
        BY <2>1 DEF SkipUnit, Stops, Stopped
      <3> QED BY <3>1
    <2>2. CASE StopUnit
      <3>1. /\ pc = "stop" /\ pc' = "await" /\ UNCHANGED <<flow, index, journal, late>>
            /\ active' = active \ With(index) /\ queued' = queued \ With(index) /\ index \in Units
        BY <2>2 DEF StopUnit
      <3>2. Service \notin active'
        BY <3>1 DEF With
      <3>3. flow = "uninstall" => Service \notin queued' /\ index \notin queued'
        BY <3>1 DEF With
      <3>4. ~Removed
        BY <3>1
      <3> QED BY <3>1, <3>2, <3>3, <3>4
    <2>3. CASE SeeInactive
      <3>1. /\ pc = "await" /\ index \notin active /\ index \in Units /\ Open
            /\ UNCHANGED <<flow, journal, active, queued, late>>
        BY <2>3 DEF SeeInactive, Stopped
      <3>2. CASE index + 1 \in Units
        <4>1. pc' = "stop" /\ index' = index + 1
          BY <2>3, <3>2 DEF SeeInactive, Stopped
        <4>2. ASSUME flow = "uninstall", ~late, NEW u \in Sockets, u < index'
              PROVE  u \notin active /\ u \notin queued
          <5>1. u = index \/ u < index
            BY <3>1, <4>1, <4>2, NextUnit
          <5> QED BY <3>1, <4>2, <5>1
        <4>3. flow = "uninstall" => Service \notin queued
          BY <3>1
        <4> QED BY <3>1, <4>1, <4>2, <4>3
      <3>3. CASE index + 1 \notin Units /\ flow # "uninstall"
        <4>1. pc' = "disable"
          BY <2>3, <3>3 DEF SeeInactive, Stopped
        <4> QED BY <3>1, <3>3, <4>1
      <3>4. CASE index + 1 \notin Units /\ flow = "uninstall"
        <4>1. pc' = "unenable"
          BY <2>3, <3>4 DEF SeeInactive, Stopped
        <4>2. ASSUME ~late
              PROVE  Quiet
          <5>1. \A u \in Units : u = index \/ u < index
            BY <3>1, <3>4, NextUnit
          <5>2. \A u \in Sockets : u \notin active /\ u \notin queued
            BY <3>1, <3>4, <4>2, <5>1
          <5>3. Service \notin queued
            BY <3>1, <3>4
          <5>4. Service \notin active
            BY <3>1
          <5> QED BY <1>0, <5>2, <5>3, <5>4
        <4> QED BY <3>1, <4>1, <4>2
      <3> QED BY <3>2, <3>3, <3>4
    <2> QED BY <1>8, <2>1, <2>2, <2>3 DEF StopUnits
  <1>7. CASE UNCHANGED vars
    BY <1>7 DEF vars
  <1> QED BY <1>1, <1>2, <1>3, <1>4, <1>5, <1>6, <1>7, <1>8 DEF Next
--------------------------------------------------------------------------------

(* A whole release, enabled and started in part, is a sound beginning. *)
LEMMA InitSound == Init => TransactionInv
  <1> SUFFICES ASSUME Init PROVE TransactionInv
    OBVIOUS
  <1> USE UninstallationAssumption
      DEF Init, NoJournal, Nothing, Records, Units, Sockets, Service, Program, Slots
  <1>1. journal \in Journals
    BY DEF Journals
  <1>2. TypeOK
    <2>1. late \in BOOLEAN
      OBVIOUS
    <2>2. /\ dest \in [Records -> Slots] /\ backup \in [Records -> Slots]
          /\ enabled \in SUBSET Units /\ active \in SUBSET Units /\ queued \in SUBSET Units
      OBVIOUS
    <2>3. pc \in Labels /\ flow \in Flows /\ index \in Records /\ kind \in Kinds
      BY DEF Kinds, Labels, Flows
    <2> QED BY <1>1, <2>1, <2>2, <2>3 DEF TypeOK
  <1>3. ControlInv
    BY DEF ControlInv, RestoreLabels, EndLabels
  <1>4. FilesInv
    BY DEF FilesInv, RestoreLabels, EndLabels, Open, Removed
  <1>5. ActiveInv /\ EnabledInv
    BY DEF ActiveInv, EnabledInv, EndLabels, Open, Removed
  <1> QED BY <1>2, <1>3, <1>4, <1>5 DEF TransactionInv

(* The inductive invariant holds in every state of every behaviour. *)
THEOREM TransactionSound == Spec => []TransactionInv
  <1>1. TransactionInv /\ [Next]_vars => TransactionInv'
    BY TypeStep, ControlStep, FilesStep, ActiveStep, EnabledStep DEF TransactionInv
  <1> QED BY InitSound, <1>1, PTL DEF Spec

(* Until the removal is committed, every managed file exists at its        *)
(* destination or in its backup, wherever the command failed or was killed *)
THEOREM OriginalsSurvive == Spec => []OriginalsPreserved
  <1>1. TransactionInv => OriginalsPreserved
    BY DEF TransactionInv, FilesInv, InPlace, Taken, OriginalsPreserved
  <1> QED BY TransactionSound, <1>1, PTL

(* Files are taken away only from a product that is disabled, and stopped  *)
(* with no job queued, unless a client came between one socket's end and   *)
(* the stop of the next.                                                   *)
THEOREM OnlyLateClients == Spec => []OnlyLateClientsDisturb
  <1>1. TransactionInv => OnlyLateClientsDisturb
    BY DEF TransactionInv, ControlInv, ActiveInv, EnabledInv, Quiet, OnlyLateClientsDisturb
  <1> QED BY TransactionSound, <1>1, PTL

(* A committed removal left no file in place and no unit enabled, nor, if  *)
(* no client came late, any that is active.                                *)
THEOREM RemovalIsWhole == Spec => []RemovedIsWhole
  <1>1. TransactionInv => RemovedIsWhole
    BY DEF TransactionInv, FilesInv, ActiveInv, EnabledInv, RemovedIsWhole
  <1> QED BY TransactionSound, <1>1, PTL

--------------------------------------------------------------------------------

(* Only the end of a transaction removes the journal, over a whole outcome *)
LEMMA JournalRemoval ==
  ASSUME TransactionInv, [Next]_vars, Open \/ Removed, journal'.state = "none"
  PROVE  /\ UNCHANGED <<dest, backup, enabled>>
         /\ backup = Nothing
         /\ Open => dest = journal.original /\ enabled = journal.enabled
         /\ Removed => dest = Nothing
  <1> USE DEF Open, Removed
  <1>1. RemoveJournal \/ (CleanupFails /\ journal' # journal)
    <2> USE DEF disk, services, memory
    <2>1. CASE \E k \in Kinds : Acquire(k)
      BY <2>1 DEF Acquire
    <2>2. CASE Recovery
      BY <2>2 DEF Recovery, RecoverNothing, RecoverOpen, RecoverRemoved, PrepareFails
    <2>3. CASE Restore
      BY <2>3 DEF Restore, RestoreFile, KeepFile, RestoreFails, DisableTargets,
                  EnablePrevious, RestartPrevious, ServicesFail
    <2>8. CASE StopUnits
      BY <2>8 DEF StopUnits, SkipUnit, StopUnit, SeeInactive
    <2>4. CASE Uninstall
      BY <2>4 DEF Uninstall, Plan, DisableUnits, RemoveFile, RecordRemoval,
                  UninstallFails, TransactionInv, TypeOK, Journals
    <2>5. CASE Ending
      BY <2>5 DEF Ending, ReloadRemoved, ReloadFails, Settle, SettleFails, CleanupEntry,
                  CleanupDone, CleanupFails, TransactionInv, TypeOK, Journals
    <2>6. CASE Environment
      BY <2>6 DEF Environment, Crash, Reboot, ServiceStarts, ServiceExits, RunQueued, Reinstall,
                  Edit, Administer
    <2>7. CASE UNCHANGED vars
      BY <2>7 DEF vars
    <2> QED BY <2>1, <2>2, <2>3, <2>4, <2>5, <2>6, <2>7, <2>8 DEF Next
  <1>2. pc = "forget" /\ UNCHANGED <<dest, backup, enabled>>
    BY <1>1 DEF RemoveJournal, CleanupFails, services
  <1>3. backup = Nothing
    BY <1>2 DEF TransactionInv, FilesInv
  <1>4. ASSUME Open
        PROVE  dest = journal.original /\ enabled = journal.enabled
    <2>1. flow # "damaged"
      BY <1>2, <1>4 DEF TransactionInv, ControlInv, EndLabels
    <2>2. \A i \in Records : InPlace(i)
      BY <1>2, <1>4, <2>1 DEF TransactionInv, FilesInv, EndLabels
    <2>3. dest = journal.original
      BY <2>2 DEF InPlace, TransactionInv, TypeOK, Journals
    <2>4. enabled = journal.enabled
      BY <1>2, <1>4 DEF TransactionInv, EnabledInv, EndLabels
    <2> QED BY <2>3, <2>4
  <1>5. Removed => dest = Nothing
    BY DEF TransactionInv, FilesInv
  <1> QED BY <1>2, <1>3, <1>4, <1>5

(* An uninstallation ends with everything restored or everything gone. *)
THEOREM UninstallationIsAtomic == Spec => EndsAllOrNothing
  <1>1. TransactionInv /\ [Next]_vars =>
          [/\ Open /\ journal'.state = "none" =>
                dest' = journal.original /\ enabled' = journal.enabled
           /\ Removed /\ journal'.state = "none" => dest' = Nothing /\ backup' = Nothing]_vars
    BY JournalRemoval
  <1> QED BY TransactionSound, <1>1, PTL DEF Spec, EndsAllOrNothing

--------------------------------------------------------------------------------

(* The removal of the files is one switch to nothing, when it is recorded; *)
(* every other step of the transaction is invisible.                       *)
LEMMA OutcomeStep ==
  ASSUME TransactionInv, [Next]_vars
  PROVE  [Image!Next]_Outcome
  <1> USE DEF TransactionInv, TypeOK, ControlInv, Outcome, Open, Removed, disk, services,
              memory
  <1>1. CASE \E k \in Kinds : Acquire(k)
    BY <1>1 DEF Acquire
  <1>2. CASE Recovery
    BY <1>2 DEF Recovery, RecoverNothing, RecoverOpen, RecoverRemoved, PrepareFails
  <1>3. CASE Restore
    BY <1>3 DEF Restore, RestoreFile, KeepFile, RestoreFails, DisableTargets,
                EnablePrevious, RestartPrevious, ServicesFail, RestoreLabels
  <1>4. CASE Uninstall
    <2>1. CASE Plan
      BY <2>1 DEF Plan
    <2>2. CASE RecordRemoval
      BY <2>2 DEF RecordRemoval, Journals
    <2>3. CASE DisableUnits \/ RemoveFile \/ UninstallFails
      BY <2>3 DEF DisableUnits, RemoveFile, UninstallFails
    <2> QED BY <1>4, <2>1, <2>2, <2>3 DEF Uninstall
  <1>5. CASE Ending
    <2>1. CASE Settle \/ SettleFails
      <3>1. CASE journal' = journal
        BY <2>1, <3>1 DEF Settle, SettleFails
      <3>2. CASE journal' = [journal EXCEPT !.state = "removed"]
        <4>1. Outcome' = Nothing
          BY <3>2 DEF Journals
        <4>2. Image!Switch(Nothing)
          BY <4>1 DEF Image!Switch
        <4> QED BY <4>2 DEF Image!Next
      <3> QED BY <2>1, <3>1, <3>2 DEF Settle, SettleFails
    <2>2. CASE RemoveJournal \/ CleanupFails
      <3>1. CASE UNCHANGED journal
        BY <2>2, <3>1 DEF RemoveJournal, CleanupFails
      <3>2. CASE journal' = NoJournal
        <4>1. Open \/ Removed
          BY <2>2 DEF RemoveJournal, CleanupFails, EndLabels
        <4> QED BY <3>2, <4>1, JournalRemoval DEF NoJournal
      <3> QED BY <2>2, <3>1, <3>2 DEF RemoveJournal, CleanupFails
    <2>3. CASE ReloadRemoved \/ ReloadFails \/ CleanupDone
      BY <2>3 DEF ReloadRemoved, ReloadFails, CleanupDone
    <2>4. CASE \E i \in Records : CleanupEntry(i)
      BY <2>4 DEF CleanupEntry
    <2> QED BY <1>5, <2>1, <2>2, <2>3, <2>4 DEF Ending
  <1>6. CASE Environment
    <2>1. CASE Crash \/ Reboot \/ ServiceStarts \/ ServiceExits \/ (\E u \in Units : RunQueued(u))
      BY <2>1 DEF Crash, Reboot, ServiceStarts, ServiceExits, RunQueued
    <2>2. CASE Reinstall
      <3>1. Outcome' = Release
        BY <2>2 DEF Reinstall
      <3>2. Image!Switch(Release)
        BY <3>1 DEF Image!Switch
      <3> QED BY <3>2 DEF Image!Next
    <2>3. ASSUME NEW i \in Units, NEW blob \in Edits, Edit(i, blob)
          PROVE  [Image!Next]_Outcome
      <3>1. Outcome = dest /\ Outcome' = dest'
        BY <2>3 DEF Edit
      <3>2. Image!Edit(i, blob)
        BY <2>3, <3>1 DEF Edit, Image!Edit
      <3> QED BY <3>2 DEF Image!Next
    <2>4. ASSUME NEW units \in SUBSET Units, Administer(units)
          PROVE  [Image!Next]_Outcome
      BY <2>4 DEF Administer
    <2> QED BY <1>6, <2>1, <2>2, <2>3, <2>4 DEF Environment
  <1>8. CASE StopUnits
    BY <1>8 DEF StopUnits, SkipUnit, StopUnit, SeeInactive
  <1>7. CASE UNCHANGED vars
    BY <1>7 DEF vars
  <1> QED BY <1>1, <1>2, <1>3, <1>4, <1>5, <1>6, <1>7, <1>8 DEF Next

(* The uninstallation implements SystemImage. *)
THEOREM UninstallationImplementsImage == Spec => ImplementsImage
  <1>1. Init => Image!Init
    BY DEF Init, NoJournal, Outcome, Open, Removed, Image!Init
  <1>2. TransactionInv /\ [Next]_vars => [Image!Next]_Outcome
    BY OutcomeStep
  <1> QED BY TransactionSound, <1>1, <1>2, PTL DEF Spec, ImplementsImage, Image!Spec
================================================================================

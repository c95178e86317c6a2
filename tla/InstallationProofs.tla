-------------------------- MODULE InstallationProofs ---------------------------
(***************************************************************************)
(* Proofs about the installation transaction, for any number of managed    *)
(* files, any set of releases and any edits.  TransactionInv is inductive: *)
(* one lemma per conjunct says that a step preserves it, with a case per   *)
(* action; the safety properties, the action property and the refinement   *)
(* of SystemImage follow from it.                                          *)
(***************************************************************************)
EXTENDS Installation, TLAPS

(* What a release puts in the managed files is a set of files. *)
LEMMA ReleaseTyped ==
  ASSUME NEW v \in Versions
  PROVE  Contents[v] \in [Records -> Slots]
  BY InstallationAssumption DEF Slots

(* The journal that a transaction begins with is a journal. *)
LEMMA FreshJournal ==
  ASSUME NEW files \in [Records -> Slots], NEW v \in Versions, NEW units \in SUBSET Units
  PROVE  [state |-> "open", committed |-> 0, original |-> files,
          replacement |-> Contents[v], enabled |-> units] \in Journals
  BY ReleaseTyped, InstallationAssumption DEF Journals

(* The updates of the journal keep it a journal. *)
LEMMA UpdatedJournal ==
  ASSUME NEW record \in Journals
  PROVE  /\ \A n \in Records : [record EXCEPT !.committed = n] \in Journals
         /\ [record EXCEPT !.state = "accepted"] \in Journals
  <1>1. ASSUME NEW n \in Records PROVE [record EXCEPT !.committed = n] \in Journals
    <2>1. n \in 0..RecordCount
      BY InstallationAssumption DEF Records
    <2> QED BY <2>1 DEF Journals
  <1>2. [record EXCEPT !.state = "accepted"] \in Journals
    BY DEF Journals
  <1> QED BY <1>1, <1>2

(* The absence of a journal is one too. *)
LEMMA NoJournalTyped == NoJournal \in Journals
  BY InstallationAssumption DEF NoJournal, Nothing, Journals, Records, Slots

(* Every step keeps every variable in its type. *)
LEMMA TypeStep ==
  ASSUME TransactionInv, [Next]_vars
  PROVE  TypeOK'
  <1> USE InstallationAssumption DEF TransactionInv, Goto, Enter, Release, Proceed,
      RolledBack, disk, services, memory, StopService, TypeOK, Labels, Flows, Reports, Kinds,
      Records, Units, Binary, Service, Slots, Nothing, Succeeded, Failed,
      EnabledUnits
  <1>1. ASSUME NEW k \in Kinds, NEW v \in Versions, Acquire(k, v)
        PROVE  TypeOK'
    BY <1>1 DEF Acquire
  <1>2. CASE Recovery
    <2>1. CASE RecoverNothing
      BY <2>1 DEF RecoverNothing
    <2>2. CASE RecoverOpen
      BY <2>2 DEF RecoverOpen
    <2>3. CASE RecoverAccepted
      BY <2>3 DEF RecoverAccepted
    <2> QED BY <1>2, <2>1, <2>2, <2>3 DEF Recovery
  <1>3. CASE Rollback
    <2>1. CASE RemoveReplacement
      BY <2>1 DEF RemoveReplacement
    <2>2. CASE ReinstateOriginal
      BY <2>2 DEF ReinstateOriginal
    <2>3. CASE KeepOriginal
      BY <2>3 DEF KeepOriginal
    <2>4. CASE RemoveIntroduced
      BY <2>4 DEF RemoveIntroduced
    <2>5. CASE RollbackFails
      BY <2>5 DEF RollbackFails
    <2> QED BY <1>3, <2>1, <2>2, <2>3, <2>4, <2>5 DEF Rollback
  <1>4. CASE RestoreServices
    <2>1. CASE DisableTargets
      BY <2>1 DEF DisableTargets
    <2>2. CASE EnablePrevious
      BY <2>2 DEF EnablePrevious, Journals
    <2>3. CASE RestartPrevious
      BY <2>3 DEF RestartPrevious
    <2>4. CASE RestoreFails
      BY <2>4 DEF RestoreFails
    <2> QED BY <1>4, <2>1, <2>2, <2>3, <2>4 DEF RestoreServices
  <1>5. CASE Ending
    <2>1. ASSUME NEW i \in Records, CleanupEntry(i) PROVE TypeOK'
      BY <2>1 DEF CleanupEntry
    <2>2. CASE CleanupDone
      BY <2>2 DEF CleanupDone
    <2>3. CASE RemoveJournal
      <3>1. journal' \in Journals
        BY <2>3, NoJournalTyped DEF RemoveJournal
      <3> QED BY <2>3, <3>1 DEF RemoveJournal
    <2>4. CASE CleanupFails
      <3>1. journal' \in Journals
        BY <2>4, NoJournalTyped DEF CleanupFails
      <3> QED BY <2>4, <3>1 DEF CleanupFails
    <2> QED BY <1>5, <2>1, <2>2, <2>3, <2>4 DEF Ending
  <1>6. CASE Install
    <2>1. CASE Plan
      <3>1. EnabledUnits \in SUBSET Units
        OBVIOUS
      <3>2. journal' \in Journals
        BY <2>1, <3>1, FreshJournal DEF Plan
      <3> QED BY <2>1, <3>2 DEF Plan
    <2>2. CASE CreateStaged
      BY <2>2 DEF CreateStaged
    <2>3. CASE StageRecord
      BY <2>3 DEF StageRecord, Journals
    <2>4. CASE StageFails
      BY <2>4 DEF StageFails
    <2>5. CASE PreserveOriginal
      BY <2>5 DEF PreserveOriginal
    <2>6. CASE InstallStaged
      BY <2>6 DEF InstallStaged
    <2>7. CASE RecordProgress
      <3>1. journal' \in Journals
        BY <2>7, UpdatedJournal DEF RecordProgress
      <3> QED BY <2>7, <3>1 DEF RecordProgress
    <2>8. CASE VerifyUnits
      BY <2>8 DEF VerifyUnits
    <2>9. CASE Activate
      BY <2>9 DEF Activate
    <2>10. CASE StartService
      BY <2>10 DEF StartService
    <2>11. CASE BecomeHealthy
      BY <2>11 DEF BecomeHealthy
    <2>12. CASE Accept
      <3>1. journal' \in Journals
        BY <2>12, UpdatedJournal DEF Accept
      <3> QED BY <2>12, <3>1 DEF Accept
    <2>13. CASE AcceptFails
      <3>1. journal' \in Journals
        BY <2>13, UpdatedJournal DEF AcceptFails
      <3> QED BY <2>13, <3>1 DEF AcceptFails
    <2>14. CASE AbandonBeforeCommit
      BY <2>14 DEF AbandonBeforeCommit
    <2>15. CASE InstallFails
      BY <2>15 DEF InstallFails
    <2> QED BY <1>6, <2>1, <2>2, <2>3, <2>4, <2>5, <2>6, <2>7, <2>8, <2>9, <2>10,
        <2>11, <2>12, <2>13, <2>14, <2>15 DEF Install
  <1>7. CASE InspectAndRepair
    <2>1. CASE InspectBinary
      BY <2>1 DEF InspectBinary
    <2>2. CASE RepairText
      BY <2>2 DEF RepairText
    <2>3. CASE Refresh
      BY <2>3 DEF Refresh
    <2> QED BY <1>7, <2>1, <2>2, <2>3 DEF InspectAndRepair
  <1>8. CASE OperationFails
    BY <1>8 DEF OperationFails
  <1>9. CASE Environment
    <2>1. CASE Crash
      BY <2>1 DEF Crash
    <2>6. CASE RunQueued
      <3>1. dest[Binary] \in Slots
        OBVIOUS
      <3>2. running' \in Slots /\ UNCHANGED <<dest, staged, backup, journal, enabled>>
        BY <2>6, <3>1 DEF RunQueued
      <3>3. queued' \in BOOLEAN /\ UNCHANGED <<pc, flow, index, kind, version, report>>
        BY <2>6 DEF RunQueued
      <3> QED BY <3>2, <3>3
    <2>2. CASE AgentStops
      BY <2>2 DEF AgentStops
    <2>3. CASE AgentStarts
      BY <2>3 DEF AgentStarts
    <2>4. ASSUME NEW i \in Units, NEW blob \in Edits, Edit(i, blob) PROVE TypeOK'
      BY <2>4 DEF Edit
    <2>5. ASSUME NEW units \in SUBSET Units, Administer(units) PROVE TypeOK'
      BY <2>5 DEF Administer
    <2> QED BY <1>9, <2>1, <2>2, <2>3, <2>4, <2>5, <2>6 DEF Environment
  <1>10. CASE UNCHANGED vars
    BY <1>10 DEF vars
  <1> QED BY <1>1, <1>2, <1>3, <1>4, <1>5, <1>6, <1>7, <1>8, <1>9, <1>10 DEF Next,
      HolderStep

(* Every step keeps the paths of the holder apart. *)
LEMMA ControlStep ==
  ASSUME TransactionInv, [Next]_vars
  PROVE  ControlInv'
  <1> USE InstallationAssumption DEF TransactionInv, Goto, Enter, Release, Proceed,
      RolledBack, disk, services, memory, StopService, Open, Accepted, CommitLabels, DoneLabels,
      ServiceLabels, NoJournal, ControlInv
  <1>1. ASSUME NEW k \in Kinds, NEW v \in Versions, Acquire(k, v)
        PROVE  ControlInv'
    BY <1>1 DEF Acquire
  <1>2. CASE Recovery
    BY <1>2 DEF Recovery, RecoverNothing, RecoverOpen, RecoverAccepted
  <1>3. CASE Rollback
    BY <1>3 DEF Rollback, RemoveReplacement, ReinstateOriginal, KeepOriginal,
        RemoveIntroduced, RollbackFails
  <1>4. CASE RestoreServices
    BY <1>4 DEF RestoreServices, DisableTargets, EnablePrevious, RestartPrevious,
        RestoreFails
  <1>5. CASE Ending
    BY <1>5 DEF Ending, CleanupEntry, CleanupDone, RemoveJournal, CleanupFails
  <1>6. CASE Install
    <2>1. CASE Plan
      BY <2>1 DEF Plan
    <2>2. CASE CreateStaged
      BY <2>2 DEF CreateStaged
    <2>3. CASE StageRecord
      BY <2>3 DEF StageRecord
    <2>4. CASE StageFails
      BY <2>4 DEF StageFails
    <2>5. CASE PreserveOriginal
      BY <2>5 DEF PreserveOriginal
    <2>6. CASE InstallStaged
      BY <2>6 DEF InstallStaged
    <2>7. CASE RecordProgress
      BY <2>7 DEF RecordProgress
    <2>8. CASE VerifyUnits
      BY <2>8 DEF VerifyUnits
    <2>9. CASE Activate
      BY <2>9 DEF Activate
    <2>10. CASE StartService
      BY <2>10 DEF StartService
    <2>11. CASE BecomeHealthy
      BY <2>11 DEF BecomeHealthy
    <2>12. CASE Accept
      BY <2>12 DEF Accept
    <2>13. CASE AcceptFails
      BY <2>13 DEF AcceptFails
    <2>14. CASE AbandonBeforeCommit
      BY <2>14 DEF AbandonBeforeCommit
    <2>15. CASE InstallFails
      BY <2>15 DEF InstallFails
    <2> QED BY <1>6, <2>1, <2>2, <2>3, <2>4, <2>5, <2>6, <2>7, <2>8, <2>9, <2>10,
        <2>11, <2>12, <2>13, <2>14, <2>15 DEF Install
  <1>7. CASE InspectAndRepair
    BY <1>7 DEF InspectAndRepair, InspectBinary, RepairText, Refresh
  <1>8. CASE OperationFails
    BY <1>8 DEF OperationFails
  <1>9. CASE Environment
    BY <1>9 DEF Environment, Crash, RunQueued, AgentStops, AgentStarts, Edit, Administer
  <1>10. CASE UNCHANGED vars
    BY <1>10 DEF vars
  <1> QED BY <1>1, <1>2, <1>3, <1>4, <1>5, <1>6, <1>7, <1>8, <1>9, <1>10 DEF Next,
      HolderStep

(* Every step keeps the journal and the files in agreement. *)
LEMMA JournalStep ==
  ASSUME TransactionInv, [Next]_vars
  PROVE  JournalInv'
  <1> USE InstallationAssumption DEF TransactionInv, Goto, Enter, Release, Proceed,
      RolledBack, disk, services, memory, StopService, Open, Accepted, CommitLabels, DoneLabels,
      ServiceLabels, NoJournal, Records, Units, Binary, Service, Slots, Nothing,
      TypeOK, Labels, Flows, Reports, Kinds, Journals, ProgressInv, Consistent,
      Restored, Pending, Between, Committed, ControlInv, JournalInv, Moved,
      Unmoved, Introduced, WholeTopology, Declared
  <1>1. ASSUME NEW k \in Kinds, NEW v \in Versions, Acquire(k, v)
        PROVE  JournalInv'
    BY <1>1 DEF Acquire
  <1>2. CASE Recovery
    <2>1. CASE RecoverNothing
      BY <2>1 DEF RecoverNothing
    <2>2. CASE RecoverOpen
      BY <2>2 DEF RecoverOpen
    <2>3. CASE RecoverAccepted
      BY <2>3 DEF RecoverAccepted
    <2> QED BY <1>2, <2>1, <2>2, <2>3 DEF Recovery
  <1>3. CASE Rollback
    <2>1. CASE RemoveReplacement
      BY <2>1 DEF RemoveReplacement
    <2>2. CASE ReinstateOriginal
      BY <2>2 DEF ReinstateOriginal
    <2>3. CASE KeepOriginal
      BY <2>3 DEF KeepOriginal
    <2>4. CASE RemoveIntroduced
      BY <2>4 DEF RemoveIntroduced
    <2>5. CASE RollbackFails
      BY <2>5 DEF RollbackFails
    <2> QED BY <1>3, <2>1, <2>2, <2>3, <2>4, <2>5 DEF Rollback
  <1>4. CASE RestoreServices
    <2>1. CASE DisableTargets
      BY <2>1 DEF DisableTargets
    <2>2. CASE EnablePrevious
      BY <2>2 DEF EnablePrevious
    <2>3. CASE RestartPrevious
      BY <2>3 DEF RestartPrevious
    <2>4. CASE RestoreFails
      BY <2>4 DEF RestoreFails
    <2> QED BY <1>4, <2>1, <2>2, <2>3, <2>4 DEF RestoreServices
  <1>5. CASE Ending
    <2>1. ASSUME NEW i \in Records, CleanupEntry(i) PROVE JournalInv'
      BY <2>1 DEF CleanupEntry
    <2>2. CASE CleanupDone
      BY <2>2 DEF CleanupDone
    <2>3. CASE RemoveJournal
      BY <2>3 DEF RemoveJournal
    <2>4. CASE CleanupFails
      BY <2>4 DEF CleanupFails
    <2> QED BY <1>5, <2>1, <2>2, <2>3, <2>4 DEF Ending
  <1>6. CASE Install
    <2>1. CASE Plan
      BY <2>1 DEF Plan
    <2>2. CASE CreateStaged
      BY <2>2 DEF CreateStaged
    <2>3. CASE StageRecord
      BY <2>3 DEF StageRecord
    <2>4. CASE StageFails
      BY <2>4 DEF StageFails
    <2>5. CASE PreserveOriginal
      BY <2>5 DEF PreserveOriginal
    <2>6. CASE InstallStaged
      BY <2>6 DEF InstallStaged
    <2>7. CASE RecordProgress
      BY <2>7 DEF RecordProgress
    <2>8. CASE VerifyUnits
      BY <2>8 DEF VerifyUnits
    <2>9. CASE Activate
      BY <2>9 DEF Activate
    <2>10. CASE StartService
      BY <2>10 DEF StartService
    <2>11. CASE BecomeHealthy
      BY <2>11 DEF BecomeHealthy
    <2>12. CASE Accept
      BY <2>12 DEF Accept
    <2>13. CASE AcceptFails
      <3>1. CASE journal' = journal
        BY <2>13, <3>1 DEF AcceptFails
      <3>2. CASE journal' = [journal EXCEPT !.state = "accepted"]
        BY <2>13, <3>2 DEF AcceptFails
      <3> QED BY <2>13, <3>1, <3>2 DEF AcceptFails
    <2>14. CASE AbandonBeforeCommit
      BY <2>14 DEF AbandonBeforeCommit
    <2>15. CASE InstallFails
      BY <2>15 DEF InstallFails
    <2> QED BY <1>6, <2>1, <2>2, <2>3, <2>4, <2>5, <2>6, <2>7, <2>8, <2>9, <2>10,
        <2>11, <2>12, <2>13, <2>14, <2>15 DEF Install
  <1>7. CASE InspectAndRepair
    <2>1. CASE InspectBinary
      BY <2>1 DEF InspectBinary
    <2>2. CASE RepairText
      BY <2>2 DEF RepairText
    <2>3. CASE Refresh
      BY <2>3 DEF Refresh
    <2> QED BY <1>7, <2>1, <2>2, <2>3 DEF InspectAndRepair
  <1>8. CASE OperationFails
    BY <1>8 DEF OperationFails
  <1>9. CASE Environment
    <2>1. CASE Crash
      BY <2>1 DEF Crash
    <2>6. CASE RunQueued
      BY <2>6 DEF RunQueued
    <2>2. CASE AgentStops
      BY <2>2 DEF AgentStops
    <2>3. CASE AgentStarts
      BY <2>3 DEF AgentStarts
    <2>4. ASSUME NEW i \in Units, NEW blob \in Edits, Edit(i, blob) PROVE JournalInv'
      BY <2>4 DEF Edit
    <2>5. ASSUME NEW units \in SUBSET Units, Administer(units) PROVE JournalInv'
      BY <2>5 DEF Administer
    <2> QED BY <1>9, <2>1, <2>2, <2>3, <2>4, <2>5, <2>6 DEF Environment
  <1>10. CASE UNCHANGED vars
    BY <1>10 DEF vars
  <1> QED BY <1>1, <1>2, <1>3, <1>4, <1>5, <1>6, <1>7, <1>8, <1>9, <1>10 DEF Next,
      HolderStep

(* Every step keeps the files of an accepted installation in place. *)
LEMMA AcceptedStep ==
  ASSUME TransactionInv, [Next]_vars
  PROVE  AcceptedIsWhole'
  <1> USE InstallationAssumption DEF TransactionInv, Goto, Enter, Release, Proceed,
      RolledBack, disk, services, memory, StopService, Open, Accepted, CommitLabels, DoneLabels,
      ServiceLabels, NoJournal, Records, Units, Binary, Service, Slots, Nothing,
      TypeOK, Labels, Flows, Reports, Kinds, Journals, ProgressInv, Consistent,
      Restored, Pending, Between, Committed, ControlInv, AcceptedIsWhole
  <1>1. ASSUME NEW k \in Kinds, NEW v \in Versions, Acquire(k, v)
        PROVE  AcceptedIsWhole'
    BY <1>1 DEF Acquire
  <1>2. CASE Recovery
    BY <1>2 DEF Recovery, RecoverNothing, RecoverOpen, RecoverAccepted
  <1>3. CASE Rollback
    BY <1>3 DEF Rollback, RemoveReplacement, ReinstateOriginal, KeepOriginal,
        RemoveIntroduced, RollbackFails
  <1>4. CASE RestoreServices
    BY <1>4 DEF RestoreServices, DisableTargets, EnablePrevious, RestartPrevious,
        RestoreFails
  <1>5. CASE Ending
    BY <1>5 DEF Ending, CleanupEntry, CleanupDone, RemoveJournal, CleanupFails
  <1>6. CASE Install
    <2>1. CASE Plan
      BY <2>1 DEF Plan
    <2>2. CASE CreateStaged
      BY <2>2 DEF CreateStaged
    <2>3. CASE StageRecord
      BY <2>3 DEF StageRecord
    <2>4. CASE StageFails
      BY <2>4 DEF StageFails
    <2>5. CASE PreserveOriginal
      BY <2>5 DEF PreserveOriginal
    <2>6. CASE InstallStaged
      BY <2>6 DEF InstallStaged
    <2>7. CASE RecordProgress
      BY <2>7 DEF RecordProgress
    <2>8. CASE VerifyUnits
      BY <2>8 DEF VerifyUnits
    <2>9. CASE Activate
      BY <2>9 DEF Activate
    <2>10. CASE StartService
      BY <2>10 DEF StartService
    <2>11. CASE BecomeHealthy
      BY <2>11 DEF BecomeHealthy
    <2>12. CASE Accept
      BY <2>12 DEF Accept
    <2>13. CASE AcceptFails
      <3>1. CASE journal' = journal
        BY <2>13, <3>1 DEF AcceptFails
      <3>2. CASE journal' = [journal EXCEPT !.state = "accepted"]
        BY <2>13, <3>2 DEF AcceptFails
      <3> QED BY <2>13, <3>1, <3>2 DEF AcceptFails
    <2>14. CASE AbandonBeforeCommit
      BY <2>14 DEF AbandonBeforeCommit
    <2>15. CASE InstallFails
      BY <2>15 DEF InstallFails
    <2> QED BY <1>6, <2>1, <2>2, <2>3, <2>4, <2>5, <2>6, <2>7, <2>8, <2>9, <2>10,
        <2>11, <2>12, <2>13, <2>14, <2>15 DEF Install
  <1>7. CASE InspectAndRepair
    BY <1>7 DEF InspectAndRepair, InspectBinary, RepairText, Refresh
  <1>8. CASE OperationFails
    BY <1>8 DEF OperationFails
  <1>9. CASE Environment
    BY <1>9 DEF Environment, Crash, RunQueued, AgentStops, AgentStarts, Edit, Administer
  <1>10. CASE UNCHANGED vars
    BY <1>10 DEF vars
  <1> QED BY <1>1, <1>2, <1>3, <1>4, <1>5, <1>6, <1>7, <1>8, <1>9, <1>10 DEF Next,
      HolderStep

(* Every step leaves the records where the holder's path says they are. *)
LEMMA ProgressStep ==
  ASSUME TransactionInv, [Next]_vars
  PROVE  ProgressInv'
  <1> USE InstallationAssumption DEF TransactionInv, Goto, Enter, Release, Proceed,
      RolledBack, disk, services, memory, StopService, Open, Accepted, CommitLabels, DoneLabels,
      ServiceLabels, NoJournal, Records, Units, Binary, Service, Slots, Nothing,
      TypeOK, Labels, Flows, Reports, Kinds, Journals, ProgressInv, Consistent,
      Restored, Pending, Between, Committed, ControlInv, JournalInv, Moved,
      Unmoved, Introduced
  <1>1. ASSUME NEW k \in Kinds, NEW v \in Versions, Acquire(k, v)
        PROVE  ProgressInv'
    BY <1>1 DEF Acquire
  <1>2. CASE Recovery
    BY <1>2 DEF Recovery, RecoverNothing, RecoverOpen, RecoverAccepted
  <1>3. CASE Rollback
    <2>1. CASE RemoveReplacement
      BY <2>1 DEF RemoveReplacement
    <2>2. CASE ReinstateOriginal
      BY <2>2 DEF ReinstateOriginal
    <2>3. CASE KeepOriginal
      BY <2>3 DEF KeepOriginal
    <2>4. CASE RemoveIntroduced
      BY <2>4 DEF RemoveIntroduced
    <2>5. CASE RollbackFails
      BY <2>5 DEF RollbackFails
    <2> QED BY <1>3, <2>1, <2>2, <2>3, <2>4, <2>5 DEF Rollback
  <1>4. CASE RestoreServices
    BY <1>4 DEF RestoreServices, DisableTargets, EnablePrevious, RestartPrevious,
        RestoreFails
  <1>5. CASE Ending
    <2>1. ASSUME NEW i \in Records, CleanupEntry(i) PROVE ProgressInv'
      BY <2>1 DEF CleanupEntry
    <2>2. CASE CleanupDone
      BY <2>2 DEF CleanupDone
    <2>3. CASE RemoveJournal
      BY <2>3 DEF RemoveJournal
    <2>4. CASE CleanupFails
      BY <2>4 DEF CleanupFails
    <2> QED BY <1>5, <2>1, <2>2, <2>3, <2>4 DEF Ending
  <1>6. CASE Install
    <2>1. CASE Plan
      BY <2>1 DEF Plan
    <2>2. CASE CreateStaged
      BY <2>2 DEF CreateStaged
    <2>3. CASE StageRecord
      BY <2>3 DEF StageRecord
    <2>4. CASE StageFails
      BY <2>4 DEF StageFails
    <2>5. CASE PreserveOriginal
      BY <2>5 DEF PreserveOriginal
    <2>6. CASE InstallStaged
      BY <2>6 DEF InstallStaged
    <2>7. CASE RecordProgress
      BY <2>7 DEF RecordProgress
    <2>8. CASE VerifyUnits
      BY <2>8 DEF VerifyUnits
    <2>9. CASE Activate
      BY <2>9 DEF Activate
    <2>10. CASE StartService
      BY <2>10 DEF StartService
    <2>11. CASE BecomeHealthy
      BY <2>11 DEF BecomeHealthy
    <2>12. CASE Accept
      BY <2>12 DEF Accept
    <2>13. CASE AcceptFails
      BY <2>13 DEF AcceptFails
    <2>14. CASE AbandonBeforeCommit
      BY <2>14 DEF AbandonBeforeCommit
    <2>15. CASE InstallFails
      BY <2>15 DEF InstallFails
    <2> QED BY <1>6, <2>1, <2>2, <2>3, <2>4, <2>5, <2>6, <2>7, <2>8, <2>9, <2>10,
        <2>11, <2>12, <2>13, <2>14, <2>15 DEF Install
  <1>7. CASE InspectAndRepair
    BY <1>7 DEF InspectAndRepair, InspectBinary, RepairText, Refresh
  <1>8. CASE OperationFails
    BY <1>8 DEF OperationFails
  <1>9. CASE Environment
    BY <1>9 DEF Environment, Crash, RunQueued, AgentStops, AgentStarts, Edit, Administer
  <1>10. CASE UNCHANGED vars
    BY <1>10 DEF vars
  <1> QED BY <1>1, <1>2, <1>3, <1>4, <1>5, <1>6, <1>7, <1>8, <1>9, <1>10 DEF Next,
      HolderStep

(* Every step keeps what is known of the enablement of the units. *)
LEMMA EnablementStep ==
  ASSUME TransactionInv, [Next]_vars
  PROVE  EnablementInv'
  <1> USE InstallationAssumption DEF TransactionInv, Goto, Enter, Release, Proceed,
      RolledBack, disk, services, memory, StopService, Open, Accepted, CommitLabels, DoneLabels,
      ServiceLabels, NoJournal, Records, Units, Binary, Service, Slots, Nothing,
      TypeOK, Labels, Flows, Reports, Kinds, Journals, ProgressInv, Consistent,
      Restored, Pending, Between, Committed, ControlInv, JournalInv, EnablementInv,
      EnabledUnits
  <1>1. ASSUME NEW k \in Kinds, NEW v \in Versions, Acquire(k, v)
        PROVE  EnablementInv'
    BY <1>1 DEF Acquire
  <1>2. CASE Recovery
    BY <1>2 DEF Recovery, RecoverNothing, RecoverOpen, RecoverAccepted
  <1>3. CASE Rollback
    BY <1>3 DEF Rollback, RemoveReplacement, ReinstateOriginal, KeepOriginal,
        RemoveIntroduced, RollbackFails
  <1>4. CASE RestoreServices
    <2>1. CASE DisableTargets
      BY <2>1 DEF DisableTargets
    <2>2. CASE EnablePrevious
      <3>1. enabled \subseteq journal.enabled
        BY <2>2 DEF EnablePrevious
      <3>2. enabled \union journal.enabled = journal.enabled
        BY <3>1
      <3>3. enabled' = journal.enabled
        BY <2>2, <3>2 DEF EnablePrevious
      <3> QED BY <2>2, <3>3 DEF EnablePrevious
    <2>3. CASE RestartPrevious
      BY <2>3 DEF RestartPrevious
    <2>4. CASE RestoreFails
      BY <2>4 DEF RestoreFails
    <2> QED BY <1>4, <2>1, <2>2, <2>3, <2>4 DEF RestoreServices
  <1>5. CASE Ending
    <2>1. ASSUME NEW i \in Records, CleanupEntry(i) PROVE EnablementInv'
      BY <2>1 DEF CleanupEntry
    <2>2. CASE CleanupDone
      BY <2>2 DEF CleanupDone
    <2>3. CASE RemoveJournal
      BY <2>3 DEF RemoveJournal
    <2>4. CASE CleanupFails
      BY <2>4 DEF CleanupFails
    <2> QED BY <1>5, <2>1, <2>2, <2>3, <2>4 DEF Ending
  <1>6. CASE Install
    <2>1. CASE Plan
      BY <2>1 DEF Plan
    <2>2. CASE CreateStaged
      BY <2>2 DEF CreateStaged
    <2>3. CASE StageRecord
      BY <2>3 DEF StageRecord
    <2>4. CASE StageFails
      BY <2>4 DEF StageFails
    <2>5. CASE PreserveOriginal
      BY <2>5 DEF PreserveOriginal
    <2>6. CASE InstallStaged
      BY <2>6 DEF InstallStaged
    <2>7. CASE RecordProgress
      BY <2>7 DEF RecordProgress
    <2>8. CASE VerifyUnits
      BY <2>8 DEF VerifyUnits
    <2>9. CASE Activate
      BY <2>9 DEF Activate
    <2>10. CASE StartService
      BY <2>10 DEF StartService
    <2>11. CASE BecomeHealthy
      BY <2>11 DEF BecomeHealthy
    <2>12. CASE Accept
      BY <2>12 DEF Accept
    <2>13. CASE AcceptFails
      BY <2>13 DEF AcceptFails
    <2>14. CASE AbandonBeforeCommit
      BY <2>14 DEF AbandonBeforeCommit
    <2>15. CASE InstallFails
      BY <2>15 DEF InstallFails
    <2> QED BY <1>6, <2>1, <2>2, <2>3, <2>4, <2>5, <2>6, <2>7, <2>8, <2>9, <2>10,
        <2>11, <2>12, <2>13, <2>14, <2>15 DEF Install
  <1>7. CASE InspectAndRepair
    BY <1>7 DEF InspectAndRepair, InspectBinary, RepairText, Refresh
  <1>8. CASE OperationFails
    BY <1>8 DEF OperationFails
  <1>9. CASE Environment
    <2>1. CASE Crash
      BY <2>1 DEF Crash
    <2>6. CASE RunQueued
      BY <2>6 DEF RunQueued
    <2>2. CASE AgentStops
      BY <2>2 DEF AgentStops
    <2>3. CASE AgentStarts
      BY <2>3 DEF AgentStarts
    <2>4. ASSUME NEW i \in Units, NEW blob \in Edits, Edit(i, blob) PROVE EnablementInv'
      BY <2>4 DEF Edit
    <2>5. ASSUME NEW units \in SUBSET Units, Administer(units) PROVE EnablementInv'
      BY <2>5 DEF Administer
    <2> QED BY <1>9, <2>1, <2>2, <2>3, <2>4, <2>5, <2>6 DEF Environment
  <1>10. CASE UNCHANGED vars
    BY <1>10 DEF vars
  <1> QED BY <1>1, <1>2, <1>3, <1>4, <1>5, <1>6, <1>7, <1>8, <1>9, <1>10 DEF Next,
      HolderStep

(* Every step keeps what is known of the running program. *)
LEMMA RunningStep ==
  ASSUME TransactionInv, [Next]_vars
  PROVE  RunningInv'
  <1> USE InstallationAssumption DEF TransactionInv, Goto, Enter, Release, Proceed,
      RolledBack, disk, services, memory, StopService, Open, Accepted, CommitLabels, DoneLabels,
      ServiceLabels, NoJournal, Records, Units, Binary, Service, Slots, Nothing,
      TypeOK, Labels, Flows, Reports, Kinds, Journals, ProgressInv, Consistent,
      Restored, Pending, Between, Committed, ControlInv, JournalInv, RunningInv,
      Matched, ColdCutover, AcceptedIsWhole
  <1>1. ASSUME NEW k \in Kinds, NEW v \in Versions, Acquire(k, v)
        PROVE  RunningInv'
    BY <1>1 DEF Acquire
  <1>2. CASE Recovery
    BY <1>2 DEF Recovery, RecoverNothing, RecoverOpen, RecoverAccepted
  <1>3. CASE Rollback
    BY <1>3 DEF Rollback, RemoveReplacement, ReinstateOriginal, KeepOriginal,
        RemoveIntroduced, RollbackFails
  <1>4. CASE RestoreServices
    BY <1>4 DEF RestoreServices, DisableTargets, EnablePrevious, RestartPrevious,
        RestoreFails
  <1>5. CASE Ending
    BY <1>5 DEF Ending, CleanupEntry, CleanupDone, RemoveJournal, CleanupFails
  <1>6. CASE Install
    <2>1. CASE Plan
      BY <2>1 DEF Plan
    <2>2. CASE CreateStaged
      BY <2>2 DEF CreateStaged
    <2>3. CASE StageRecord
      BY <2>3 DEF StageRecord
    <2>4. CASE StageFails
      BY <2>4 DEF StageFails
    <2>5. CASE PreserveOriginal
      BY <2>5 DEF PreserveOriginal
    <2>6. CASE InstallStaged
      BY <2>6 DEF InstallStaged
    <2>7. CASE RecordProgress
      BY <2>7 DEF RecordProgress
    <2>8. CASE VerifyUnits
      BY <2>8 DEF VerifyUnits
    <2>9. CASE Activate
      BY <2>9 DEF Activate
    <2>10. CASE StartService
      BY <2>10 DEF StartService
    <2>11. CASE BecomeHealthy
      BY <2>11 DEF BecomeHealthy
    <2>12. CASE Accept
      BY <2>12 DEF Accept
    <2>13. CASE AcceptFails
      BY <2>13 DEF AcceptFails
    <2>14. CASE AbandonBeforeCommit
      BY <2>14 DEF AbandonBeforeCommit
    <2>15. CASE InstallFails
      BY <2>15 DEF InstallFails
    <2> QED BY <1>6, <2>1, <2>2, <2>3, <2>4, <2>5, <2>6, <2>7, <2>8, <2>9, <2>10,
        <2>11, <2>12, <2>13, <2>14, <2>15 DEF Install
  <1>7. CASE InspectAndRepair
    BY <1>7 DEF InspectAndRepair, InspectBinary, RepairText, Refresh
  <1>8. CASE OperationFails
    BY <1>8 DEF OperationFails
  <1>9. CASE Environment
    BY <1>9 DEF Environment, Crash, RunQueued, AgentStops, AgentStarts, Edit, Administer
  <1>10. CASE UNCHANGED vars
    BY <1>10 DEF vars
  <1> QED BY <1>1, <1>2, <1>3, <1>4, <1>5, <1>6, <1>7, <1>8, <1>9, <1>10 DEF Next,
      HolderStep
--------------------------------------------------------------------------------

(* The initial states, a first bootstrap or a whole release, are sound. *)
LEMMA InitSound == Init => TransactionInv
  <1> SUFFICES ASSUME Init PROVE TransactionInv
    OBVIOUS
  <1> USE InstallationAssumption
      DEF Init, Bootstrapped, Declared, NoJournal, Nothing, Records, Units, Binary,
          Service, Slots
  <1>1. TypeOK
    <2>1. queued \in BOOLEAN
      OBVIOUS
    <2>2. enabled \in SUBSET Units /\ running \in Slots /\ dest \in [Records -> Slots]
      <3>1. ASSUME NEW v \in Versions
            PROVE  /\ Contents[v] \in [Records -> Slots]
                   /\ [i \in Records |-> IF i = Binary THEN Contents[v][Binary] ELSE Absent]
                        \in [Records -> Slots]
        <4>1. Contents[v] \in [1..RecordCount -> Blobs \union {Absent}] /\ 1 \in 1..RecordCount
          BY ReleaseTyped
        <4>2. Contents[v][1] \in Blobs \union {Absent}
          BY <4>1
        <4> QED BY <4>1, <4>2
      <3>2. dest \in [Records -> Slots]
        BY <3>1
      <3>3. Binary \in Records
        OBVIOUS
      <3>4. running \in Slots
        BY <3>2, <3>3
      <3>5. enabled \in SUBSET Units
        OBVIOUS
      <3> QED BY <3>2, <3>4, <3>5
    <2>3. journal \in Journals /\ staged \in [Records -> Slots] /\ backup \in [Records -> Slots]
      BY NoJournalTyped
    <2>4. /\ pc \in Labels /\ flow \in Flows /\ index \in Records
          /\ kind \in Kinds /\ version \in Versions /\ report \in Reports
      BY DEF Kinds, Labels, Flows, Reports
    <2> QED BY <2>1, <2>2, <2>3, <2>4 DEF TypeOK
  <1>2. ControlInv
    BY DEF ControlInv, CommitLabels, ServiceLabels, Open, Accepted
  <1>3. JournalInv /\ AcceptedIsWhole
    BY DEF JournalInv, AcceptedIsWhole, Open, Accepted
  <1>4. ProgressInv
    BY DEF ProgressInv, DoneLabels, ServiceLabels, Open
  <1>5. EnablementInv /\ RunningInv
    BY DEF EnablementInv, RunningInv, Matched, Open
  <1> QED BY <1>1, <1>2, <1>3, <1>4, <1>5 DEF TransactionInv

(* The inductive invariant holds in every state of every behaviour. *)
THEOREM TransactionSound == Spec => []TransactionInv
  <1>1. TransactionInv /\ [Next]_vars => TransactionInv'
    <2> SUFFICES ASSUME TransactionInv, [Next]_vars PROVE TransactionInv'
      OBVIOUS
    <2>1. TypeOK' /\ ControlInv' /\ JournalInv'
      BY TypeStep, ControlStep, JournalStep
    <2>2. AcceptedIsWhole' /\ ProgressInv'
      BY AcceptedStep, ProgressStep
    <2>3. EnablementInv' /\ RunningInv'
      BY EnablementStep, RunningStep
    <2> QED BY <2>1, <2>2, <2>3 DEF TransactionInv
  <1> QED BY InitSound, <1>1, PTL DEF Spec

(* Every variable of the installation keeps to its type. *)
THEOREM TypeCorrect == Spec => []TypeOK
  <1>1. TransactionInv => TypeOK
    BY DEF TransactionInv
  <1> QED BY TransactionSound, <1>1, PTL

(* Until acceptance, the original of every managed file is at its          *)
(* destination or in its backup, wherever the holder failed or was killed. *)
THEOREM OriginalsSurvive == Spec => []OriginalsPreserved
  <1>1. TransactionInv => OriginalsPreserved
    BY DEF TransactionInv, JournalInv, Consistent, OriginalsPreserved
  <1> QED BY TransactionSound, <1>1, PTL

(* An accepted installation is complete on disk, so no recovery refuses it *)
THEOREM AcceptanceIsWhole == Spec => []AcceptedIsWhole
  <1>1. TransactionInv => AcceptedIsWhole
    BY DEF TransactionInv
  <1> QED BY TransactionSound, <1>1, PTL

(* Recovery never rejects, as invalid, a journal that was written. *)
THEOREM JournalsAreValid == Spec => []JournalsValidate
  <1>1. TransactionInv => JournalsValidate
    BY DEF TransactionInv, TypeOK, Journals, JournalInv, JournalsValidate, JournalValid
  <1> QED BY TransactionSound, <1>1, PTL

(* No torn file is installed, and no staged file outlives its journal. *)
THEOREM StagingIsContained == Spec => []NothingLeftBehind
  <1>1. TransactionInv => NothingLeftBehind
    BY DEF TransactionInv, JournalInv, NothingLeftBehind
  <1> QED BY TransactionSound, <1>1, PTL

(* The three together: a recovery finds a journal that it accepts. *)
THEOREM JournalsAreSound == Spec => []JournalsAreTrue
  <1>1. TransactionInv => AcceptedIsWhole /\ JournalsValidate /\ NothingLeftBehind
    BY DEF TransactionInv, TypeOK, Journals, JournalInv, JournalsValidate, JournalValid,
      NothingLeftBehind
  <1>2. TransactionInv => JournalsAreTrue
    BY <1>1 DEF JournalsAreTrue
  <1> QED BY TransactionSound, <1>2, PTL

(* Between operations the service runs the installed program or nothing,   *)
(* or a restart that will see to it is still queued.                       *)
THEOREM AgentIsTakenUp == Spec => []AgentMatchesDisk
  <1>1. TransactionInv => AgentMatchesDisk
    BY DEF TransactionInv, RunningInv, Open, AgentMatchesDisk
  <1> QED BY TransactionSound, <1>1, PTL

--------------------------------------------------------------------------------

(* Only the end of a transaction removes an open journal, with every file  *)
(* restored and the enablement as it was.                                  *)
LEMMA OpenJournalRemoval ==
  ASSUME TransactionInv, [Next]_vars, Open, journal'.state = "none"
  PROVE  /\ pc = "forget"
         /\ UNCHANGED <<dest, enabled>>
         /\ dest = journal.original
         /\ EnabledUnits = journal.enabled
  <1> USE DEF Open
  <1>1. RemoveJournal \/ (CleanupFails /\ journal' # journal)
    <2> USE DEF disk, services, memory, StopService
    <2>1. CASE \E k \in Kinds, v \in Versions : Acquire(k, v)
      BY <2>1 DEF Acquire
    <2>2. CASE Recovery \/ OperationFails
      BY <2>2 DEF Recovery, RecoverNothing, RecoverOpen, RecoverAccepted, OperationFails
    <2>3. CASE Rollback
      BY <2>3 DEF Rollback, RemoveReplacement, ReinstateOriginal, KeepOriginal,
                  RemoveIntroduced, RollbackFails
    <2>4. CASE RestoreServices
      BY <2>4 DEF RestoreServices, DisableTargets, EnablePrevious, RestartPrevious,
                  RestoreFails
    <2>5. CASE Ending
      BY <2>5 DEF Ending, CleanupEntry, CleanupDone, CleanupFails
    <2>6. CASE Install
      BY <2>6 DEF Install, Plan, CreateStaged, StageRecord, StageFails, PreserveOriginal,
                  InstallStaged, RecordProgress, VerifyUnits, Activate, StartService,
                  BecomeHealthy, Accept, AcceptFails, AbandonBeforeCommit, InstallFails,
                  TransactionInv, TypeOK, Journals
    <2>7. CASE InspectAndRepair
      BY <2>7 DEF InspectAndRepair, InspectBinary, RepairText, Refresh
    <2>8. CASE Environment
      BY <2>8 DEF Environment, Crash, RunQueued, AgentStops, AgentStarts, Edit, Administer
    <2>9. CASE UNCHANGED vars
      BY <2>9 DEF vars
    <2> QED BY <2>1, <2>2, <2>3, <2>4, <2>5, <2>6, <2>7, <2>8, <2>9 DEF Next, HolderStep
  <1>2. pc = "forget" /\ UNCHANGED <<dest, enabled>>
    BY <1>1 DEF RemoveJournal, CleanupFails, services
  <1>3. flow \in {"abort", "recover", "rollback"}
    BY <1>2 DEF TransactionInv, ControlInv, Accepted
  <1>4. \A i \in Records : Restored(i)
    BY <1>2, <1>3 DEF TransactionInv, ProgressInv
  <1>5. dest = journal.original
    BY <1>4 DEF Restored, TransactionInv, TypeOK, Journals
  <1>6. EnabledUnits = journal.enabled
    BY <1>2 DEF TransactionInv, EnablementInv
  <1> QED BY <1>2, <1>5, <1>6

(* A transaction that ends unaccepted has restored every managed file and  *)
(* the enablement of every unit.                                           *)
THEOREM RollbackIsComplete == Spec => RollbackRestores
  <1>1. TransactionInv /\ [Next]_vars =>
          [Open /\ journal'.state = "none" =>
             /\ dest' = journal.original
             /\ EnabledUnits' = journal.enabled]_vars
    BY OpenJournalRemoval DEF EnabledUnits
  <1> QED BY TransactionSound, <1>1, PTL DEF Spec, RollbackRestores

--------------------------------------------------------------------------------

(* A journal names one release as its replacement: an acceptance is a      *)
(* switch to it, and every other step of the transaction is invisible.     *)
LEMMA OutcomeStep ==
  ASSUME TransactionInv, [Next]_vars
  PROVE  [Image!Next]_Outcome
  <1> USE InstallationAssumption
      DEF TransactionInv, TypeOK, ControlInv, JournalInv, AcceptedIsWhole, CommitLabels,
          DoneLabels, Outcome, Open, Accepted, disk, services, memory, StopService
  <1> DEFINE Silent == UNCHANGED Outcome
  <1>1. CASE \E k \in Kinds, v \in Versions : Acquire(k, v)
    <2>1. Silent BY <1>1 DEF Acquire
    <2> QED BY <2>1
  <1>2. CASE Recovery \/ OperationFails
    <2>1. Silent
      BY <1>2 DEF Recovery, RecoverNothing, RecoverOpen, RecoverAccepted, OperationFails
    <2> QED BY <2>1
  <1>3. CASE Rollback
    <2>1. Silent
      BY <1>3 DEF Rollback, RemoveReplacement, ReinstateOriginal, KeepOriginal,
                  RemoveIntroduced, RollbackFails
    <2> QED BY <2>1
  <1>4. CASE RestoreServices
    <2>1. Silent
      BY <1>4 DEF RestoreServices, DisableTargets, EnablePrevious, RestartPrevious,
                  RestoreFails
    <2> QED BY <2>1
  <1>5. CASE Ending
    <2>1. CASE \E i \in Records : CleanupEntry(i)
      BY <2>1 DEF CleanupEntry
    <2>2. CASE CleanupDone
      BY <2>2 DEF CleanupDone
    <2>3. CASE RemoveJournal \/ CleanupFails
      <3>1. CASE UNCHANGED journal
        BY <2>3, <3>1 DEF RemoveJournal, CleanupFails
      <3>2. CASE Open /\ journal' = NoJournal
        BY <3>2, OpenJournalRemoval DEF NoJournal
      <3>3. CASE Accepted /\ journal' = NoJournal
        <4>1. dest = journal.replacement
          BY <3>3 DEF Journals
        <4>2. UNCHANGED dest
          BY <2>3 DEF RemoveJournal, CleanupFails
        <4> QED BY <3>3, <4>1, <4>2 DEF NoJournal
      <3>4. Open \/ Accepted
        BY <2>3 DEF RemoveJournal, CleanupFails
      <3> QED BY <2>3, <3>1, <3>2, <3>3, <3>4 DEF RemoveJournal, CleanupFails
    <2> QED BY <1>5, <2>1, <2>2, <2>3 DEF Ending
  <1>6. CASE Install
    <2>1. CASE Plan
      <3>1. Outcome = dest
        BY <2>1 DEF Plan
      <3>2. Outcome' = dest
        BY <2>1 DEF Plan
      <3> QED BY <3>1, <3>2
    <2>2. CASE RecordProgress
      BY <2>2 DEF RecordProgress, Journals
    <2>3. CASE Accept \/ AcceptFails
      <3>1. Outcome = journal.original /\ journal.replacement \in Declared
        BY <2>3 DEF Accept, AcceptFails
      <3>2. CASE journal' = journal
        BY <2>3, <3>2 DEF Accept, AcceptFails
      <3>3. CASE journal' = [journal EXCEPT !.state = "accepted"]
        <4>1. Outcome' = journal.replacement
          BY <3>3 DEF Journals
        <4>2. PICK v \in Versions : journal.replacement = Contents[v]
          BY <3>1 DEF Declared
        <4>3. Image!Switch(v)
          BY <4>1, <4>2 DEF Image!Switch
        <4> QED BY <4>3 DEF Image!Next
      <3> QED BY <2>3, <3>2, <3>3 DEF Accept, AcceptFails
    <2>4. CASE CreateStaged \/ StageRecord \/ StageFails
      BY <2>4 DEF CreateStaged, StageRecord, StageFails
    <2>5. CASE PreserveOriginal \/ InstallStaged
      BY <2>5 DEF PreserveOriginal, InstallStaged
    <2>6. CASE VerifyUnits \/ Activate \/ StartService \/ BecomeHealthy
                 \/ AbandonBeforeCommit \/ InstallFails
      BY <2>6 DEF VerifyUnits, Activate, StartService, BecomeHealthy,
                  AbandonBeforeCommit, InstallFails
    <2> QED BY <1>6, <2>1, <2>2, <2>3, <2>4, <2>5, <2>6 DEF Install
  <1>7. CASE InspectAndRepair
    <2>1. CASE InspectBinary \/ Refresh
      BY <2>1 DEF InspectBinary, Refresh
    <2>2. CASE RepairText
      <3>1. Outcome = dest /\ Outcome' = dest'
        BY <2>2 DEF RepairText
      <3>2. Image!Repair(version, index)
        BY <2>2, <3>1 DEF RepairText, Image!Repair
      <3>3. index \in Units
        BY <2>2 DEF RepairText, Units
      <3> QED BY <3>2, <3>3 DEF Image!Next
    <2> QED BY <1>7, <2>1, <2>2 DEF InspectAndRepair
  <1>8. CASE Environment
    <2>1. CASE Crash \/ RunQueued \/ AgentStops \/ AgentStarts
      BY <2>1 DEF Crash, RunQueued, AgentStops, AgentStarts
    <2>2. ASSUME NEW i \in Units, NEW blob \in Edits, Edit(i, blob)
          PROVE  [Image!Next]_Outcome
      <3>1. Outcome = dest /\ Outcome' = dest'
        BY <2>2 DEF Edit
      <3>2. Image!Edit(i, blob)
        BY <2>2, <3>1 DEF Edit, Image!Edit
      <3>3. i \in Units
        BY DEF Units
      <3> QED BY <3>2, <3>3 DEF Image!Next
    <2>3. ASSUME NEW units \in SUBSET Units, Administer(units)
          PROVE  [Image!Next]_Outcome
      BY <2>3 DEF Administer
    <2> QED BY <1>8, <2>1, <2>2, <2>3 DEF Environment
  <1>9. CASE UNCHANGED vars
    BY <1>9 DEF vars
  <1> QED
    BY <1>1, <1>2, <1>3, <1>4, <1>5, <1>6, <1>7, <1>8, <1>9 DEF Next, HolderStep

(* The installation implements SystemImage: crashes, failures, rollbacks   *)
(* and recoveries are invisible in the files the system settles on.        *)
THEOREM InstallationImplementsImage == Spec => ImplementsImage
  <1>1. Init => Image!Init
    BY DEF Init, NoJournal, Outcome, Open, Accepted, Image!Init
  <1>2. TransactionInv /\ [Next]_vars => [Image!Next]_Outcome
    BY OutcomeStep
  <1> QED BY TransactionSound, <1>1, <1>2, PTL DEF Spec, ImplementsImage, Image!Spec
================================================================================

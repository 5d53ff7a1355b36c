---------------------------- MODULE MCMaintenance ----------------------------
(***************************************************************************)
(* The maintenance tools of the volume, and the status reports, for TLC.   *)
(* They are programs of their own that share no state while an operator    *)
(* keeps the rules of docs/operations: whichever of them is started,       *)
(* `tool`, takes its steps, and the others stay in an initial state.  The  *)
(* properties are those of their own modules.                              *)
(***************************************************************************)
EXTENDS TLC, PvcArchive, PvcConsolidation, Backup, JournalMigration, StatusPair

VARIABLE tool

\* Every attempt is on one node; an inventory finds that node, not, or is unavailable.
OneMachine(attempt) == "n1"
FoundNodes == {{}, {"n2"}, {"n1", "n2"}}

vars == <<tool, archiveVars, consolidationVars, backupVars, journalVars, statusVars>>

\* One initial state of a tool that is not the one started.
NoArchive == ArchiveInit /\ live = NoPlan
NoConsolidation == ConsolidationInit /\ old = Nothing /\ new = Nothing /\ ~newParent /\ atomicRename
NoBackup == BackupInit /\ tree = Absent /\ noreplace
NoMigration ==
  /\ JournalInit
  /\ content = [d \in Databases |-> [generation |-> None, state |-> "complete"]]
  /\ mode = [d \in Databases |-> "delete"]

Init ==
  /\ StatusInit
  /\ \/ tool = "archive" /\ ArchiveInit /\ NoConsolidation /\ NoBackup /\ NoMigration
     \/ tool = "consolidation" /\ NoArchive /\ ConsolidationInit /\ NoBackup /\ NoMigration
     \/ tool = "backup" /\ NoArchive /\ NoConsolidation /\ BackupInit /\ NoMigration
     \/ tool = "journal" /\ NoArchive /\ NoConsolidation /\ NoBackup /\ JournalInit
     \/ tool = "status" /\ NoArchive /\ NoConsolidation /\ NoBackup /\ NoMigration

Next ==
  \/ /\ tool = "archive" /\ ArchiveNext
     /\ UNCHANGED <<tool, consolidationVars, backupVars, journalVars, statusVars>>
  \/ /\ tool = "consolidation" /\ ConsolidationNext
     /\ UNCHANGED <<tool, archiveVars, backupVars, journalVars, statusVars>>
  \/ /\ tool = "backup" /\ BackupNext
     /\ UNCHANGED <<tool, archiveVars, consolidationVars, journalVars, statusVars>>
  \/ /\ tool = "journal" /\ JournalNext
     /\ UNCHANGED <<tool, archiveVars, consolidationVars, backupVars, statusVars>>
  \/ /\ tool = "status" /\ StatusNext
     /\ UNCHANGED <<tool, archiveVars, consolidationVars, backupVars, journalVars>>

Spec == Init /\ [][Next]_vars

Symmetry == Permutations(Movers) \cup Permutations(Backups)
=============================================================================

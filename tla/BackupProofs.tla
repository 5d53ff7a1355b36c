---------------------------- MODULE BackupProofs -----------------------------
(***************************************************************************)
(* Proofs about backups: of the whole root (Backup), for any files, runs,  *)
(* names and number of changes, and of the databases that are converted    *)
(* (JournalMigration), for any databases, migrations and ingestions.       *)
(***************************************************************************)
EXTENDS Backup, JournalMigration, TLAPS

RunStates ==
  [phase : BackupPhases, name : Names \cup {None}, at : 1..(LastFile + 1),
   initial : TreeInventories, before : TreeInventories, after : TreeInventories]

LEMMA BackupConstants ==
  /\ None \notin FileVersions /\ None \notin Tuples /\ None \notin Directories
  /\ 0 \in FileVersions /\ 1 \in 1..(LastFile + 1)
  /\ Absent \in Trees /\ Absent \in [Files -> Tuples \cup {None}]
  /\ NoInventory \in TreeInventories /\ NewRun.phase = "idle"
BY BackupBounds, NoneIsNoFile
DEF FileVersions, Trees, Absent, Files, NoInventory, TreeInventories, NewRun

LEMMA OpenedType ==
  ASSUME BackupTypeOK
  PROVE  Opened \in TreeInventories
<1>1. Listing \in SUBSET Files
  BY DEF Listing
<1> QED
  BY <1>1, BackupConstants DEF BackupTypeOK, Opened, TreeInventories

LEMMA NewRunType == NewRun \in RunStates
BY BackupConstants DEF NewRun, RunStates, BackupPhases

LEMMA LocalsType ==
  ASSUME BackupTypeOK, NEW r \in BackupRuns, NEW new \in RunStates, Locals(r, new)
  PROVE  backup' \in [BackupRuns -> RunStates]
BY DEF BackupTypeOK, Locals, RunStates

\* What one stat finds of the entry that is due, and the inventory with it.
EntryRead(r, which) ==
  LET b == backup[r] IN
  IF b.at \in b[which].listed THEN consistency_tuple(tree[b.at]) ELSE None
InventoryRead(r, which) ==
  LET b == backup[r] IN
  [b[which] EXCEPT !.files = [@ EXCEPT ![b.at] = EntryRead(r, which)]]

\* One entry of the inventory `which` is set, and the next one is due.
LEMMA StatEntryFields ==
  ASSUME BackupTypeOK, NEW r \in BackupRuns, NEW which \in {"initial", "before", "after"},
         StatEntry(r, which)
  PROVE  LET b == backup[r]
             entry == EntryRead(r, which)
             stat == InventoryRead(r, which) IN
         /\ b.phase = which /\ b.at <= LastFile /\ b.at \in Files
         /\ b.at \in b[which].listed => tree[b.at] # None
         /\ entry \in Tuples \cup {None} /\ stat \in TreeInventories
         /\ which = "initial" => backup'[r] = [b EXCEPT !.at = b.at + 1, !.initial = stat]
         /\ which = "before" => backup'[r] = [b EXCEPT !.at = b.at + 1, !.before = stat]
         /\ which = "after" => backup'[r] = [b EXCEPT !.at = b.at + 1, !.after = stat]
         /\ backup' = [backup EXCEPT ![r] = backup'[r]]
<1> DEFINE b == backup[r]
           entry == EntryRead(r, which)
           stat == InventoryRead(r, which)
<1>1. b \in RunStates
  BY DEF BackupTypeOK, RunStates
<1>2. b[which] \in TreeInventories
  BY <1>1 DEF RunStates
<1>3. b.phase = which /\ b.at <= LastFile /\ (b.at \in b[which].listed => tree[b.at] # None)
  BY DEF StatEntry
<1>4. b.at \in Files
  BY <1>1, <1>3, BackupBounds DEF RunStates, Files
<1>5. entry \in Tuples \cup {None}
  BY <1>3, <1>4 DEF EntryRead, BackupTypeOK, Trees, consistency_tuple, Tuples
<1>6. stat \in TreeInventories
  BY <1>2, <1>4, <1>5 DEF InventoryRead, TreeInventories
<1>7. backup' = [backup EXCEPT ![r] = [b EXCEPT !.at = b.at + 1, ![which].files[b.at] = entry]]
  BY DEF StatEntry, Locals, EntryRead
<1>8. backup'[r] = [b EXCEPT !.at = b.at + 1, ![which].files[b.at] = entry]
  BY <1>7 DEF BackupTypeOK
<1>9. which = "initial" => backup'[r] = [b EXCEPT !.at = b.at + 1, !.initial = stat]
  BY <1>1, <1>2, <1>8 DEF RunStates, TreeInventories, InventoryRead
<1>10. which = "before" => backup'[r] = [b EXCEPT !.at = b.at + 1, !.before = stat]
  BY <1>1, <1>2, <1>8 DEF RunStates, TreeInventories, InventoryRead
<1>11. which = "after" => backup'[r] = [b EXCEPT !.at = b.at + 1, !.after = stat]
  BY <1>1, <1>2, <1>8 DEF RunStates, TreeInventories, InventoryRead
<1> QED
  BY <1>3, <1>4, <1>5, <1>6, <1>7, <1>8, <1>9, <1>10, <1>11

\* A step of a run leaves the source, and what belongs to the other runs.
LEMMA OnlyItsOwn ==
  ASSUME BackupTypeOK, NEW r \in BackupRuns, BackupStep(r)
  PROVE  /\ UNCHANGED <<tree, root, changes, past, damaged, noreplace>>
         /\ \A q \in BackupRuns \ {r} : backup'[q] = backup[q] /\ staging'[q] = staging[q]
BY DEF BackupStep, Locals, BackupTypeOK, source, StartBackup, StatEntry, OpenBefore, MakeStaging,
       OpenFile, CopyFile, RevalidateFile, SkipAbsent, OpenAfter, Seal, Publish, Reserve,
       RenameOverReservation, MoveIntoPlace, Return, Abort, Die

\* Between mkdir and the rename, a run has its staging directory.
Working == {"copying", "opened", "copied", "after", "sealed", "reserved"}
StagingExists ==
  \A r \in BackupRuns :
    /\ backup[r].phase \in Working => staging[r] # None
    /\ backup[r].phase \in {"opened", "copied"} => backup[r].at \in Files

(***************************************************************************)
(* Type correctness.                                                       *)
(***************************************************************************)
LEMMA InitBackupTypes == BackupInit => BackupTypeOK
<1> SUFFICES ASSUME BackupInit PROVE BackupTypeOK
  OBVIOUS
<1>1. tree \in Trees /\ root \in FileVersions /\ changes \in FileVersions /\ past \subseteq Trees
  BY BackupConstants DEF BackupInit, Trees
<1>2. backup \in [BackupRuns -> RunStates]
  BY NewRunType DEF BackupInit
<1> QED
  BY <1>1, <1>2 DEF BackupInit, BackupTypeOK, RunStates

LEMMA InventoryStepTypes ==
  ASSUME BackupTypeOK, NEW r \in BackupRuns,
         \/ \E n \in Names : StartBackup(r, n)
         \/ \E which \in {"initial", "before", "after"} : StatEntry(r, which)
         \/ OpenBefore(r) \/ OpenFile(r) \/ RevalidateFile(r) \/ SkipAbsent(r) \/ OpenAfter(r)
         \/ Return(r) \/ Die(r)
  PROVE  BackupTypeOK'
<1> DEFINE b == backup[r]
<1>1. b \in RunStates /\ b.at \in 1..(LastFile + 1) /\ 1 \in 1..(LastFile + 1)
  BY BackupConstants DEF BackupTypeOK, RunStates
<1>2. b.at \in Files => b.at + 1 \in 1..(LastFile + 1)
  BY <1>1, BackupBounds DEF Files
<1>3. UNCHANGED <<tree, root, changes, past, staging, final, damaged, noreplace>>
  BY DEF StartBackup, StatEntry, OpenBefore, OpenFile, RevalidateFile, SkipAbsent, OpenAfter,
         Return, Die, source
<1>4. SUFFICES backup' \in [BackupRuns -> RunStates]
  BY <1>3 DEF BackupTypeOK, RunStates
<1>5. Opened \in TreeInventories
  BY OpenedType
<1>6. ASSUME NEW n \in Names, StartBackup(r, n) PROVE backup' \in [BackupRuns -> RunStates]
  <2>1. [NewRun EXCEPT !.phase = "initial", !.name = n, !.initial = Opened] \in RunStates
    BY <1>5, NewRunType DEF RunStates, NewRun, BackupPhases
  <2> QED
    BY <1>6, <2>1, LocalsType DEF StartBackup
<1>7. ASSUME NEW which \in {"initial", "before", "after"}, StatEntry(r, which)
      PROVE  backup' \in [BackupRuns -> RunStates]
  <2> DEFINE entry == EntryRead(r, which)
             stat == InventoryRead(r, which)
  <2>1. /\ stat \in TreeInventories /\ b.at \in Files /\ backup' = [backup EXCEPT ![r] = backup'[r]]
        /\ \/ backup'[r] = [b EXCEPT !.at = b.at + 1, !.initial = stat]
           \/ backup'[r] = [b EXCEPT !.at = b.at + 1, !.before = stat]
           \/ backup'[r] = [b EXCEPT !.at = b.at + 1, !.after = stat]
    BY <1>7, StatEntryFields
  <2> HIDE DEF entry, stat
  <2>2. backup'[r] \in RunStates
    BY <1>1, <1>2, <2>1 DEF RunStates
  <2> QED
    BY <2>1, <2>2 DEF BackupTypeOK, RunStates
<1>8. CASE OpenBefore(r)
  <2>1. [b EXCEPT !.phase = "before", !.at = 1, !.before = Opened] \in RunStates
    BY <1>1, <1>5 DEF RunStates, BackupPhases
  <2> QED
    BY <1>8, <2>1, LocalsType DEF OpenBefore
<1>9. CASE OpenFile(r)
  <2>1. [b EXCEPT !.phase = "opened"] \in RunStates
    BY <1>1 DEF RunStates, BackupPhases
  <2> QED
    BY <1>9, <2>1, LocalsType DEF OpenFile
<1>10. CASE RevalidateFile(r)
  <2>1. b.at \in Files
    BY <1>10 DEF RevalidateFile, assert_entry, BackupTypeOK, TreeInventories
  <2>2. [b EXCEPT !.phase = "copying", !.at = @ + 1] \in RunStates
    BY <1>1, <1>2, <2>1 DEF RunStates, BackupPhases
  <2> QED
    BY <1>10, <2>2, LocalsType DEF RevalidateFile
<1>11. CASE SkipAbsent(r)
  <2>1. [b EXCEPT !.at = @ + 1] \in RunStates
    BY <1>1, <1>2, <1>11 DEF RunStates, SkipAbsent
  <2> QED
    BY <1>11, <2>1, LocalsType DEF SkipAbsent
<1>12. CASE OpenAfter(r)
  <2>1. [b EXCEPT !.phase = "after", !.at = 1, !.after = Opened] \in RunStates
    BY <1>1, <1>5 DEF RunStates, BackupPhases
  <2> QED
    BY <1>12, <2>1, LocalsType DEF OpenAfter
<1>13. CASE Return(r)
  <2>1. [b EXCEPT !.phase = "returned"] \in RunStates
    BY <1>1 DEF RunStates, BackupPhases
  <2> QED
    BY <1>13, <2>1, LocalsType DEF Return
<1>14. CASE Die(r)
  <2>1. [NewRun EXCEPT !.phase = "failed"] \in RunStates
    BY NewRunType DEF RunStates, BackupPhases
  <2> QED
    BY <1>14, <2>1, LocalsType DEF Die
<1> QED
  BY <1>6, <1>7, <1>8, <1>9, <1>10, <1>11, <1>12, <1>13, <1>14

\* A file is copied into the staging directory; the manifest records the copies.
LEMMA StagedFields ==
  ASSUME BackupTypeOK, StagingExists, NEW r \in BackupRuns, CopyFile(r) \/ Seal(r)
  PROVE  /\ staging[r] \in Directories /\ staging'[r] \in Directories
         /\ staging' = [staging EXCEPT ![r] = staging'[r]]
         /\ CopyFile(r) => /\ backup[r].at \in Files
                           /\ staging'[r].copy = [staging[r].copy EXCEPT ![backup[r].at] = tree[backup[r].at]]
                           /\ staging'[r].record = staging[r].record
                           /\ staging'[r].complete = staging[r].complete
         /\ Seal(r) => staging'[r].copy = staging[r].copy /\ staging'[r].record = staging[r].copy
<1> DEFINE b == backup[r]
<1>1. CASE CopyFile(r)
  <2>1. staging[r] \in Directories /\ b.at \in Files
    BY <1>1 DEF CopyFile, StagingExists, Working, BackupTypeOK
  <2>2. staging' = [staging EXCEPT ![r] = [staging[r] EXCEPT !.copy[b.at] = tree[b.at]]]
    BY <1>1 DEF CopyFile
  <2>3. staging'[r] = [staging[r] EXCEPT !.copy[b.at] = tree[b.at]]
    BY <2>2 DEF BackupTypeOK
  <2>4. /\ staging'[r] \in Directories
        /\ staging'[r].copy = [staging[r].copy EXCEPT ![b.at] = tree[b.at]]
        /\ staging'[r].record = staging[r].record /\ staging'[r].complete = staging[r].complete
    BY <2>1, <2>3 DEF BackupTypeOK, Directories, Trees
  <2>5. ~Seal(r)
    BY <1>1 DEF CopyFile, Seal, Listed, Phase
  <2> QED
    BY <2>1, <2>2, <2>3, <2>4, <2>5
<1>2. CASE Seal(r)
  <2>1. staging[r] \in Directories
    BY <1>2 DEF Seal, Listed, Phase, StagingExists, Working, BackupTypeOK
  <2>2. staging' = [staging EXCEPT ![r] =
                      [staging[r] EXCEPT !.complete = TRUE, !.record = staging[r].copy]]
    BY <1>2 DEF Seal
  <2>3. staging'[r] = [staging[r] EXCEPT !.complete = TRUE, !.record = staging[r].copy]
    BY <2>2 DEF BackupTypeOK
  <2>4. /\ staging'[r] \in Directories
        /\ staging'[r].copy = staging[r].copy /\ staging'[r].record = staging[r].copy
    BY <2>1, <2>3 DEF Directories
  <2>5. ~CopyFile(r)
    BY <1>2 DEF CopyFile, Seal, Listed, Phase
  <2> QED
    BY <2>1, <2>2, <2>3, <2>4, <2>5
<1> QED
  BY <1>1, <1>2

LEMMA DirectoryStepTypes ==
  ASSUME BackupTypeOK, StagingExists, NEW r \in BackupRuns,
         \/ MakeStaging(r) \/ CopyFile(r) \/ Seal(r) \/ Publish(r) \/ Reserve(r)
         \/ RenameOverReservation(r) \/ Abort(r)
  PROVE  BackupTypeOK'
<1> DEFINE b == backup[r]
           n == b.name
           Empty == [by |-> r, complete |-> FALSE, copy |-> Absent, record |-> Absent]
<1>1. b \in RunStates /\ 1 \in 1..(LastFile + 1) /\ Empty \in Directories
  BY BackupConstants DEF BackupTypeOK, RunStates, Directories
<1>2. UNCHANGED <<tree, root, changes, past, damaged, noreplace>>
  BY DEF MakeStaging, CopyFile, Seal, Publish, Reserve, RenameOverReservation, Abort, source
<1>3. SUFFICES /\ backup' \in [BackupRuns -> RunStates]
               /\ staging' \in [BackupRuns -> Directories \cup {None}]
               /\ final' \in [Names -> Directories \cup {None}]
  BY <1>2 DEF BackupTypeOK, RunStates
<1>4. ASSUME NEW phase \in BackupPhases PROVE [b EXCEPT !.phase = phase] \in RunStates
  BY <1>1 DEF RunStates
<1>5. {"opened", "copied", "sealed", "reserved", "renamed", "copying", "failed"} \subseteq BackupPhases
  BY DEF BackupPhases
<1>6. CASE MakeStaging(r)
  <2>1. [b EXCEPT !.phase = "copying", !.at = 1] \in RunStates
    BY <1>1, <1>5 DEF RunStates
  <2>2. backup' \in [BackupRuns -> RunStates]
    BY <1>6, <2>1, LocalsType DEF MakeStaging
  <2> QED
    BY <1>1, <1>6, <2>2 DEF MakeStaging, BackupTypeOK
<1>7. CASE CopyFile(r)
  <2>1. backup' \in [BackupRuns -> RunStates]
    BY <1>4, <1>5, <1>7, LocalsType DEF CopyFile
  <2> QED
    BY <1>7, <2>1, StagedFields DEF CopyFile, BackupTypeOK
<1>8. CASE Seal(r)
  <2>1. backup' \in [BackupRuns -> RunStates]
    BY <1>4, <1>5, <1>8, LocalsType DEF Seal
  <2> QED
    BY <1>8, <2>1, StagedFields DEF Seal, BackupTypeOK
<1>9. CASE Publish(r) \/ RenameOverReservation(r)
  <2>1. backup' \in [BackupRuns -> RunStates]
    BY <1>4, <1>5, <1>9, LocalsType DEF Publish, RenameOverReservation
  <2> QED
    BY <1>9, <2>1 DEF Publish, RenameOverReservation, MoveIntoPlace, BackupTypeOK
<1>10. CASE Reserve(r)
  <2>1. backup' \in [BackupRuns -> RunStates]
    BY <1>4, <1>5, <1>10, LocalsType DEF Reserve
  <2> QED
    BY <1>1, <1>10, <2>1 DEF Reserve, BackupTypeOK
<1>11. CASE Abort(r)
  <2>1. [NewRun EXCEPT !.phase = "failed"] \in RunStates
    BY NewRunType, <1>5 DEF RunStates
  <2>2. backup' \in [BackupRuns -> RunStates]
    BY <1>11, <2>1, LocalsType DEF Abort
  <2> QED
    BY <1>11, <2>2 DEF Abort, CleanupFinal, BackupTypeOK
<1> QED
  BY <1>6, <1>7, <1>8, <1>9, <1>10, <1>11

LEMMA FaultTypes ==
  ASSUME BackupTypeOK, NEW f \in Files, ChangeFile(f) \/ \E n \in Names : Damage(n, f)
  PROVE  BackupTypeOK'
<1>1. CASE ChangeFile(f)
  <2>1. changes' \in FileVersions
    BY <1>1, BackupBounds DEF ChangeFile, BackupTypeOK, FileVersions
  <2>2. tree' \in Trees /\ root' \in FileVersions
    BY <1>1, <2>1 DEF ChangeFile, BackupTypeOK, Trees
  <2>3. past' \subseteq Trees
    BY <1>1, <2>2 DEF ChangeFile, BackupTypeOK
  <2> QED
    BY <1>1, <2>1, <2>2, <2>3 DEF ChangeFile, BackupTypeOK
<1>2. ASSUME NEW n \in Names, Damage(n, f) PROVE BackupTypeOK'
  <2>1. [final[n] EXCEPT !.copy[f] = None] \in Directories
    BY <1>2 DEF Damage, BackupTypeOK, Directories, Trees
  <2> QED
    BY <1>2, <2>1 DEF Damage, BackupTypeOK, source
<1> QED
  BY <1>1, <1>2

\* A stat moves nothing but the position and the inventory it belongs to.
LEMMA StatEntryKeeps ==
  ASSUME BackupTypeOK, NEW r \in BackupRuns, NEW which \in {"initial", "before", "after"},
         StatEntry(r, which)
  PROVE  /\ backup[r].phase = which /\ backup'[r].phase = which
         /\ backup'[r].name = backup[r].name /\ staging' = staging
<1> DEFINE b == backup[r]
           entry == EntryRead(r, which)
           stat == InventoryRead(r, which)
<1>1. b \in RunStates
  BY DEF BackupTypeOK, RunStates
<1>2. /\ b.phase = which
      /\ which = "initial" => backup'[r] = [b EXCEPT !.at = b.at + 1, !.initial = stat]
      /\ which = "before" => backup'[r] = [b EXCEPT !.at = b.at + 1, !.before = stat]
      /\ which = "after" => backup'[r] = [b EXCEPT !.at = b.at + 1, !.after = stat]
  BY StatEntryFields
<1> HIDE DEF stat
<1>3. which = "initial" => backup'[r].phase = b.phase /\ backup'[r].name = b.name
  BY <1>1, <1>2 DEF RunStates
<1>4. which = "before" => backup'[r].phase = b.phase /\ backup'[r].name = b.name
  BY <1>1, <1>2 DEF RunStates
<1>5. which = "after" => backup'[r].phase = b.phase /\ backup'[r].name = b.name
  BY <1>1, <1>2 DEF RunStates
<1>6. backup[r].phase = which /\ backup'[r].phase = which /\ backup'[r].name = backup[r].name
  BY <1>2, <1>3, <1>4, <1>5
<1>7. staging' = staging
  BY DEF StatEntry
<1> QED
  BY <1>6, <1>7

LEMMA BackupStepTypes ==
  BackupTypeOK /\ StagingExists /\ [BackupNext]_backupVars => BackupTypeOK'
<1> SUFFICES ASSUME BackupTypeOK, StagingExists, [BackupNext]_backupVars PROVE BackupTypeOK'
  OBVIOUS
<1>1. ASSUME NEW r \in BackupRuns, BackupStep(r) PROVE BackupTypeOK'
  BY <1>1, InventoryStepTypes, DirectoryStepTypes DEF BackupStep
<1>2. ASSUME NEW f \in Files, ChangeFile(f) \/ \E n \in Names : Damage(n, f) PROVE BackupTypeOK'
  BY <1>2, FaultTypes
<1>3. CASE UNCHANGED backupVars
  BY <1>3 DEF backupVars, source, BackupTypeOK
<1> QED
  BY <1>1, <1>2, <1>3 DEF BackupNext

LEMMA StagingStep ==
  BackupTypeOK /\ StagingExists /\ [BackupNext]_backupVars => StagingExists'
<1> SUFFICES ASSUME BackupTypeOK, StagingExists, [BackupNext]_backupVars,
                    NEW q \in BackupRuns
             PROVE  /\ backup'[q].phase \in Working => staging'[q] # None
                    /\ backup'[q].phase \in {"opened", "copied"} => backup'[q].at \in Files
  BY DEF StagingExists
<1> USE DEF StagingExists, Working
<1>1. ASSUME BackupStep(q)
      PROVE  /\ backup'[q].phase \in Working => staging'[q] # None
             /\ backup'[q].phase \in {"opened", "copied"} => backup'[q].at \in Files
  <2> DEFINE b == backup[q]
  <2>1. b \in RunStates
    BY DEF BackupTypeOK, RunStates
  <2>2. CASE \/ \E n \in Names : StartBackup(q, n)
             \/ OpenBefore(q) \/ Return(q) \/ Abort(q) \/ Die(q)
    <3>1. backup'[q].phase \in {"initial", "before", "returned", "failed"}
      <4>1. backup \in [BackupRuns -> RunStates]
        BY DEF BackupTypeOK, RunStates
      <4>2. ASSUME NEW c, Locals(q, c) PROVE backup'[q] = c
        BY <4>1, <4>2 DEF Locals
      <4>3. ASSUME NEW n \in Names, StartBackup(q, n) PROVE backup'[q].phase = "initial"
        BY <4>2, <4>3 DEF StartBackup, NewRun
      <4>4. CASE OpenBefore(q)
        BY <2>1, <4>2, <4>4 DEF OpenBefore, RunStates
      <4>5. CASE Return(q)
        BY <2>1, <4>2, <4>5 DEF Return, RunStates
      <4>6. CASE Abort(q) \/ Die(q)
        BY <4>2, <4>6 DEF Abort, Die, NewRun
      <4> QED
        BY <2>2, <4>3, <4>4, <4>5, <4>6
    <3> QED
      BY <3>1
  <2>3. ASSUME NEW which \in {"initial", "before", "after"}, StatEntry(q, which)
        PROVE  /\ backup'[q].phase \in Working => staging'[q] # None
               /\ backup'[q].phase \in {"opened", "copied"} => backup'[q].at \in Files
    <3>1. backup'[q].phase = b.phase /\ b.phase = which
      BY <2>3, StatEntryKeeps
    <3>2. staging' = staging
      BY <2>3, StatEntryKeeps
    <3> QED
      BY <3>1, <3>2
  <2>4. CASE MakeStaging(q)
    <3>1. staging'[q] = [by |-> q, complete |-> FALSE, copy |-> Absent, record |-> Absent]
      BY <2>4 DEF MakeStaging, BackupTypeOK
    <3>2. staging'[q] \in Directories
      BY <3>1, BackupConstants DEF Directories
    <3>3. backup'[q].phase = "copying"
      BY <2>1, <2>4 DEF MakeStaging, Locals, BackupTypeOK, RunStates
    <3> QED
      BY <3>2, <3>3, BackupConstants
  <2>5. CASE OpenFile(q) \/ RevalidateFile(q) \/ SkipAbsent(q) \/ OpenAfter(q)
    <3>1. b.phase \in Working /\ staging' = staging
      BY <2>5 DEF OpenFile, RevalidateFile, SkipAbsent, OpenAfter, Phase
    <3>5. backup \in [BackupRuns -> RunStates]
      BY DEF BackupTypeOK, RunStates
    <3>6. ASSUME NEW c, Locals(q, c) PROVE backup'[q] = c
      BY <3>5, <3>6 DEF Locals
    <3>7. /\ OpenFile(q) => backup'[q].phase = "opened"
          /\ RevalidateFile(q) \/ SkipAbsent(q) => backup'[q].phase = "copying"
          /\ OpenAfter(q) => backup'[q].phase = "after"
      <4>1. OpenFile(q) => backup'[q].phase = "opened"
        BY <2>1, <3>6 DEF OpenFile, RunStates
      <4>2. RevalidateFile(q) => backup'[q].phase = "copying"
        BY <2>1, <3>6 DEF RevalidateFile, RunStates
      <4>3. SkipAbsent(q) => backup'[q].phase = "copying"
        BY <2>1, <3>6 DEF SkipAbsent, RunStates
      <4>4. OpenAfter(q) => backup'[q].phase = "after"
        BY <2>1, <3>6 DEF OpenAfter, RunStates
      <4> QED
        BY <4>1, <4>2, <4>3, <4>4
    <3>2. backup'[q].phase = "opened" => OpenFile(q)
      BY <2>5, <3>7
    <3>3. backup'[q].phase # "copied"
      BY <2>5, <3>7
    <3>4. OpenFile(q) => b.at \in Files /\ backup'[q].at = b.at
      BY <2>1 DEF OpenFile, assert_entry, Locals, BackupTypeOK, RunStates, TreeInventories
    <3> QED
      BY <3>1, <3>2, <3>3, <3>4
  <2>6. CASE CopyFile(q) \/ Seal(q)
    <3>1. b.phase \in Working /\ (CopyFile(q) => b.phase = "opened")
      BY <2>6 DEF CopyFile, Seal, Listed, Phase
    <3>2. staging[q] \in Directories
      BY <3>1 DEF BackupTypeOK
    <3>3. staging'[q] \in Directories
      BY <2>6, StagedFields DEF BackupTypeOK
    <3>4. backup'[q].at = b.at /\ (Seal(q) => backup'[q].phase = "sealed")
      BY <2>1, <2>6 DEF CopyFile, Seal, Locals, BackupTypeOK, RunStates
    <3> QED
      BY <2>6, <3>1, <3>3, <3>4, BackupConstants
  <2>7. CASE Publish(q) \/ Reserve(q) \/ RenameOverReservation(q)
    BY <2>1, <2>7 DEF Publish, Reserve, RenameOverReservation, MoveIntoPlace, Locals, Phase,
                      BackupTypeOK, RunStates
  <2> QED
    BY <1>1, <2>2, <2>3, <2>4, <2>5, <2>6, <2>7 DEF BackupStep
<1>2. ASSUME NEW r \in BackupRuns \ {q}, BackupStep(r)
      PROVE  backup'[q] = backup[q] /\ staging'[q] = staging[q]
  BY <1>2, OnlyItsOwn
<1>3. CASE (\E f \in Files : ChangeFile(f) \/ \E n \in Names : Damage(n, f)) \/ UNCHANGED backupVars
  BY <1>3 DEF ChangeFile, Damage, backupVars
<1> QED
  BY <1>1, <1>2, <1>3 DEF BackupNext

\* Every variable has its type, whatever the writers and the runs do.
THEOREM BackupTypeCorrect == BackupSpec => []BackupTypeOK
<1>1. BackupInit => StagingExists
  BY DEF BackupInit, StagingExists, Working, NewRun
<1> QED
  BY <1>1, InitBackupTypes, BackupStepTypes, StagingStep, PTL DEF BackupSpec

(***************************************************************************)
(* Every write of the source gets a number above all earlier ones, so what *)
(* is read later of a file is never smaller.  While the root's own entry   *)
(* is the one of the inventory before the copies, no file was created or   *)
(* deleted since, and per file                                             *)
(*   entry before <= version when that inventory ended <= copy <= entry    *)
(*   after,                                                                *)
(* so equal inventories leave only one version.                            *)
(***************************************************************************)
VersionsBelow ==
  /\ tree \in past /\ root <= changes
  /\ \A f \in Files : tree[f] # None => tree[f] <= changes
  /\ \A r \in BackupRuns : backup[r].before.root <= root /\ backup[r].after.root <= root

\* The first b.at - 1 files of the inventory before the copies, and the tree t of now.
Scanned(b, t) ==
  \A f \in Files :
    /\ f \in b.before.listed <=> t[f] # None
    /\ (f < b.at /\ f \in b.before.listed) =>
         b.before.files[f] # None /\ b.before.files[f].ctime <= t[f]
    /\ (f < b.at /\ f \notin b.before.listed) => b.before.files[f] = None

Copying == {"copying", "opened", "copied", "after"}
HasCopy(b, f) == b.phase = "after" \/ f < b.at \/ (f = b.at /\ b.phase = "copied")

\* W is the tree when that inventory ended, t the tree of now.
Chained(b, t, copy, W) ==
  /\ b.phase = "after" => b.after.listed = b.before.listed
  /\ \A f \in Files :
       IF f \in b.before.listed
         THEN /\ b.before.files[f] # None /\ W[f] # None /\ t[f] # None
              /\ b.before.files[f].ctime <= W[f] /\ W[f] <= t[f]
              /\ HasCopy(b, f) => copy[f] # None /\ W[f] <= copy[f] /\ copy[f] <= t[f]
              /\ (b.phase = "after" /\ f < b.at) =>
                   b.after.files[f] # None /\ copy[f] <= b.after.files[f].ctime
         ELSE b.before.files[f] = None /\ W[f] = None /\ t[f] = None /\ copy[f] = None

RunInv(r) ==
  LET b == backup[r] IN
  root = b.before.root =>
    /\ b.phase = "before" => Scanned(b, tree)
    /\ b.phase \in Copying => \E W \in past : Chained(b, tree, staging[r].copy, W)

SealedIsPast ==
  /\ \A r \in BackupRuns : staging[r] # None /\ staging[r].complete => staging[r].record \in past
  /\ \A n \in Names : final[n] # None /\ final[n].complete => final[n].record \in past

BackupSafe == VersionsBelow /\ SealedIsPast /\ (\A r \in BackupRuns : RunInv(r))

LEMMA InitBackupSafe == BackupInit => BackupSafe
<1> SUFFICES ASSUME BackupInit PROVE BackupSafe
  OBVIOUS
<1>1. VersionsBelow
  BY BackupBounds DEF BackupInit, VersionsBelow, NewRun, NoInventory
<1>2. SealedIsPast
  BY DEF BackupInit, SealedIsPast
<1>3. \A r \in BackupRuns : RunInv(r)
  BY DEF BackupInit, RunInv, NewRun, Copying
<1> QED
  BY <1>1, <1>2, <1>3 DEF BackupSafe

\* A write of the source: whatever it changes, what was read before is not above it.
LEMMA ChangeSafe ==
  ASSUME BackupTypeOK, StagingExists, BackupSafe, NEW g \in Files, ChangeFile(g)
  PROVE  BackupSafe'
<1>1. PICK new \in {changes', None} :
        /\ new # tree[g] /\ tree' = [tree EXCEPT ![g] = new]
        /\ root' = IF (new = None) # (tree[g] = None) THEN changes' ELSE root
  BY DEF ChangeFile
<1>2. changes' = changes + 1 /\ changes \in Nat /\ root \in Nat /\ tree \in Trees
      /\ past' = past \cup {tree'} /\ UNCHANGED <<backup, staging, final>>
  BY BackupBounds DEF ChangeFile, BackupTypeOK, FileVersions
<1>3. ASSUME NEW f \in Files PROVE tree[f] # None => tree[f] \in Nat /\ tree[f] <= changes
  BY BackupBounds DEF BackupSafe, VersionsBelow, BackupTypeOK, Trees, FileVersions
<1>4. \A r \in BackupRuns : backup[r].before.root \in Nat /\ backup[r].after.root \in Nat
  BY BackupBounds DEF BackupTypeOK, TreeInventories, FileVersions
<1>5. VersionsBelow'
  <2>1. root' \in Nat /\ root' <= changes' /\ root <= root'
    BY <1>1, <1>2 DEF BackupSafe, VersionsBelow
  <2>2. \A f \in Files : tree'[f] # None => tree'[f] <= changes'
    BY <1>1, <1>2, <1>3 DEF Trees
  <2>3. \A r \in BackupRuns : backup[r].before.root <= root' /\ backup[r].after.root <= root'
    BY <1>2, <1>4, <2>1 DEF BackupSafe, VersionsBelow
  <2> QED
    BY <1>2, <2>1, <2>2, <2>3 DEF VersionsBelow
<1>6. SealedIsPast'
  BY <1>2 DEF BackupSafe, SealedIsPast
<1>7. ASSUME NEW r \in BackupRuns PROVE RunInv(r)'
  <2> DEFINE b == backup[r]
  <2>1. CASE (new = None) # (tree[g] = None)
    <3>1. root' # b.before.root
      BY <1>1, <1>2, <1>4, <2>1 DEF BackupSafe, VersionsBelow
    <3> QED
      BY <1>2, <3>1 DEF RunInv
  <2>2. CASE ~((new = None) # (tree[g] = None))
    <3>1. root' = root /\ tree[g] # None /\ new = changes' /\ new # None
      BY <1>1, <2>2
    <3>2. \A f \in Files : /\ tree'[f] # None <=> tree[f] # None
                           /\ tree[f] # None => /\ tree[f] \in Nat /\ tree'[f] \in Nat
                                                /\ tree[f] <= tree'[f]
      <4> SUFFICES ASSUME NEW f \in Files
                   PROVE  /\ tree'[f] # None <=> tree[f] # None
                          /\ tree[f] # None => /\ tree[f] \in Nat /\ tree'[f] \in Nat
                                               /\ tree[f] <= tree'[f]
        OBVIOUS
      <4>1. tree'[f] = IF f = g THEN new ELSE tree[f]
        BY <1>1, <1>2 DEF Trees
      <4> QED
        BY <1>2, <1>3, <3>1, <4>1
    <3>3. b \in RunStates /\ \A f \in Files : b.before.files[f] # None =>
                                              b.before.files[f].ctime \in Nat
      BY BackupBounds DEF BackupTypeOK, RunStates, TreeInventories, Tuples, FileVersions
    <3>4. ASSUME Scanned(b, tree) PROVE Scanned(b, tree')
      BY <3>2, <3>3, <3>4 DEF Scanned
    <3>5. ASSUME NEW W \in past, Chained(b, tree, staging[r].copy, W), b.phase \in Copying
          PROVE  Chained(b, tree', staging[r].copy, W)
      <4>1. staging[r].copy \in Trees /\ W \in Trees
        BY <3>5 DEF BackupTypeOK, StagingExists, Copying, Working, Directories
      <4>2. \A f \in Files : /\ staging[r].copy[f] # None => staging[r].copy[f] \in Nat
                             /\ W[f] # None => W[f] \in Nat
        BY <4>1, BackupBounds DEF Trees, FileVersions
      <4> HIDE DEF b
      <4> QED
        BY <3>2, <3>5, <4>2 DEF Chained
    <3> QED
      BY <1>2, <3>1, <3>4, <3>5 DEF BackupSafe, RunInv
  <2> QED
    BY <2>1, <2>2
<1> QED
  BY <1>5, <1>6, <1>7 DEF BackupSafe

\* Entries are read of the tree of now.
LEMMA StatEntrySafe ==
  ASSUME BackupTypeOK, StagingExists, BackupSafe, NEW r \in BackupRuns,
         NEW which \in {"initial", "before", "after"}, StatEntry(r, which)
  PROVE  RunInv(r)' /\ backup'[r].before.root = backup[r].before.root
         /\ backup'[r].after.root = backup[r].after.root
<1> DEFINE b == backup[r]
           entry == EntryRead(r, which)
           stat == InventoryRead(r, which)
<1>1. b \in RunStates /\ RunInv(r) /\ tree \in Trees
  BY DEF BackupTypeOK, RunStates, BackupSafe
<1>2. UNCHANGED <<tree, root, past, staging>>
  BY DEF StatEntry, source
<1>3. /\ b.phase = which /\ b.at <= LastFile /\ b.at \in Files
      /\ b.at \in b[which].listed => tree[b.at] # None
      /\ entry \in Tuples \cup {None} /\ stat \in TreeInventories
      /\ which = "initial" => backup'[r] = [b EXCEPT !.at = b.at + 1, !.initial = stat]
      /\ which = "before" => backup'[r] = [b EXCEPT !.at = b.at + 1, !.before = stat]
      /\ which = "after" => backup'[r] = [b EXCEPT !.at = b.at + 1, !.after = stat]
  BY StatEntryFields
<1>4. b[which] \in TreeInventories
  BY <1>1 DEF RunStates
<1>5. stat.root = b[which].root /\ stat.listed = b[which].listed
      /\ stat.files = [b[which].files EXCEPT ![b.at] = entry]
  BY <1>4 DEF TreeInventories, InventoryRead
<1>6. b.at \in b[which].listed => entry # None /\ entry.ctime = tree[b.at]
  <2>1. SUFFICES ASSUME b.at \in b[which].listed PROVE entry # None /\ entry.ctime = tree[b.at]
    OBVIOUS
  <2>2. entry = [ctime |-> tree[b.at]] /\ tree[b.at] \in FileVersions
    BY <1>1, <1>3, <2>1 DEF EntryRead, consistency_tuple, Trees
  <2>3. entry \in Tuples
    BY <2>2 DEF Tuples
  <2> QED
    BY <2>2, <2>3, BackupConstants
<1>7. b.at \notin b[which].listed => entry = None
  BY DEF EntryRead
<1>8. \A f \in Files : tree[f] # None => tree[f] \in Nat
  BY <1>1, BackupBounds DEF Trees, FileVersions
<1> HIDE DEF entry, stat, b
<1>9. CASE which = "initial"
  <2>1. backup'[r].before = b.before /\ backup'[r].after = b.after /\ backup'[r].phase = "initial"
    BY <1>1, <1>3, <1>9 DEF RunStates
  <2> QED
    BY <2>1 DEF RunInv, Copying, b
<1>10. CASE which = "before"
  <2>1. backup'[r].before = stat /\ backup'[r].after = b.after /\ backup'[r].phase = "before"
        /\ backup'[r].at = b.at + 1
    BY <1>1, <1>3, <1>10 DEF RunStates
  <2>2. b.before.files \in [Files -> Tuples \cup {None}]
    BY <1>4, <1>10 DEF TreeInventories
  <2>3. ASSUME Scanned(b, tree) PROVE Scanned(backup'[r], tree)
    <3> SUFFICES ASSUME NEW f \in Files
                 PROVE  /\ f \in stat.listed <=> tree[f] # None
                        /\ (f < b.at + 1 /\ f \in stat.listed) =>
                             stat.files[f] # None /\ stat.files[f].ctime <= tree[f]
                        /\ (f < b.at + 1 /\ f \notin stat.listed) => stat.files[f] = None
      BY <2>1 DEF Scanned
    <3>1. stat.listed = b.before.listed /\ (f \in stat.listed <=> tree[f] # None)
      BY <1>5, <1>10, <2>3 DEF Scanned
    <3>2. CASE f = b.at
      <4>1. stat.files[f] = entry
        BY <1>3, <1>5, <1>10, <2>2, <3>2
      <4> QED
        BY <1>6, <1>7, <1>8, <1>10, <3>1, <3>2, <4>1
    <3>3. CASE f # b.at
      <4>1. stat.files[f] = b.before.files[f] /\ (f < b.at + 1 => f < b.at)
        BY <1>3, <1>5, <1>10, <2>2, <3>3, BackupBounds DEF Files
      <4> QED
        BY <2>3, <3>1, <4>1 DEF Scanned
    <3> QED
      BY <3>2, <3>3
  <2>4. stat.root = b.before.root
    BY <1>5, <1>10
  <2>5. b.phase = "before"
    BY <1>3, <1>10
  <2> QED
    BY <1>1, <1>2, <2>1, <2>3, <2>4, <2>5 DEF RunInv, Copying, b
<1>11. CASE which = "after"
  <2>1. backup'[r].before = b.before /\ backup'[r].after = stat /\ backup'[r].phase = "after"
        /\ backup'[r].at = b.at + 1 /\ b.phase = "after"
    BY <1>1, <1>3, <1>11 DEF RunStates
  <2>2. b.after.files \in [Files -> Tuples \cup {None}] /\ staging[r].copy \in Trees
    BY <1>4, <1>11, <2>1 DEF TreeInventories, BackupTypeOK, StagingExists, Working, Directories, b
  <2>3. ASSUME NEW W \in past, Chained(b, tree, staging[r].copy, W)
        PROVE  Chained(backup'[r], tree, staging[r].copy, W)
    <3>1. stat.listed = b.before.listed
      BY <1>5, <1>11, <2>1, <2>3 DEF Chained
    <3>2. ASSUME NEW f \in Files, f \in b.before.listed, f < b.at + 1
          PROVE  stat.files[f] # None /\ staging[r].copy[f] <= stat.files[f].ctime
      <4>1. CASE f = b.at
        <5>1. stat.files[f] = entry /\ f \in b.after.listed
          BY <1>3, <1>5, <1>11, <2>1, <2>2, <2>3, <3>2, <4>1 DEF Chained
        <5>2. staging[r].copy[f] <= tree[f]
          BY <2>1, <2>3, <3>2 DEF Chained, HasCopy
        <5> QED
          BY <1>6, <1>11, <4>1, <5>1, <5>2
      <4>2. CASE f # b.at
        <5>1. stat.files[f] = b.after.files[f] /\ f < b.at
          BY <1>3, <1>5, <1>11, <2>2, <3>2, <4>2, BackupBounds DEF Files
        <5> QED
          BY <2>1, <2>3, <3>2, <5>1 DEF Chained
      <4> QED
        BY <4>1, <4>2
    <3>3. \A f \in Files : HasCopy(b, f)
      BY <2>1 DEF HasCopy
    <3> QED
      BY <2>1, <2>3, <3>1, <3>2, <3>3 DEF Chained
  <2>4. stat.root = b.after.root
    BY <1>5, <1>11
  <2> QED
    BY <1>1, <1>2, <2>1, <2>3, <2>4 DEF RunInv, Copying, b
<1> QED
  BY <1>9, <1>10, <1>11

\* The steps that open or close an inventory.
LEMMA OpenSafe ==
  ASSUME BackupTypeOK, StagingExists, BackupSafe, NEW r \in BackupRuns,
         \/ \E n \in Names : StartBackup(r, n)
         \/ OpenBefore(r) \/ OpenAfter(r) \/ MakeStaging(r)
  PROVE  /\ RunInv(r)'
         /\ backup'[r].before.root \in {0, root, backup[r].before.root}
         /\ backup'[r].after.root \in {0, root, backup[r].after.root}
<1> DEFINE b == backup[r]
<1>1. b \in RunStates /\ RunInv(r) /\ tree \in Trees /\ tree \in past
  BY DEF BackupTypeOK, RunStates, BackupSafe, VersionsBelow
<1>2. UNCHANGED <<tree, root, past>>
  BY DEF StartBackup, OpenBefore, OpenAfter, MakeStaging, source
<1>3. Opened.root = root /\ Opened.listed = Listing
  BY DEF Opened
<1>4. CASE (\E n \in Names : StartBackup(r, n)) \/ OpenBefore(r)
  <2>1. CASE \E n \in Names : StartBackup(r, n)
    <3>1. PICK n \in Names :
            backup'[r] = [NewRun EXCEPT !.phase = "initial", !.name = n, !.initial = Opened]
      BY <2>1 DEF StartBackup, Locals, BackupTypeOK
    <3>2. backup'[r].phase = "initial" /\ backup'[r].before = NoInventory
          /\ backup'[r].after = NoInventory
      BY <3>1 DEF NewRun
    <3> QED
      BY <3>2 DEF RunInv, Copying, NoInventory
  <2>2. CASE OpenBefore(r)
    <3>1. backup'[r] = [b EXCEPT !.phase = "before", !.at = 1, !.before = Opened]
      BY <2>2 DEF OpenBefore, Locals, BackupTypeOK
    <3>2. backup'[r].phase = "before" /\ backup'[r].before = Opened /\ backup'[r].at = 1
          /\ backup'[r].after = b.after
      BY <1>1, <3>1 DEF RunStates
    <3>3. Scanned(backup'[r], tree)
      BY <1>3, <3>2 DEF Scanned, Listing, Files
    <3> QED
      BY <1>2, <1>3, <3>2, <3>3 DEF RunInv, Copying
  <2> QED
    BY <1>4, <2>1, <2>2
<1>5. CASE MakeStaging(r)
  <2>1. backup'[r] = [b EXCEPT !.phase = "copying", !.at = 1]
        /\ staging'[r] = [by |-> r, complete |-> FALSE, copy |-> Absent, record |-> Absent]
    BY <1>5 DEF MakeStaging, Locals, BackupTypeOK
  <2>2. backup'[r].phase = "copying" /\ backup'[r].before = b.before /\ backup'[r].at = 1
        /\ backup'[r].after = b.after /\ staging'[r].copy = Absent
    BY <1>1, <2>1 DEF RunStates
  <2>3. b.phase = "before" /\ root = b.before.root /\ b.at > LastFile /\ b.at \in Nat
    BY <1>1, <1>5, BackupBounds DEF MakeStaging, Listed, Phase, RunStates
  <2>4. Scanned(b, tree)
    BY <1>1, <2>3 DEF RunInv
  <2>6. \A f \in Files : f < b.at /\ ~(f < 1) /\ Absent[f] = None
    BY <2>3, BackupBounds DEF Files, Absent
  <2>7. \A f \in Files : tree[f] # None => tree[f] \in Nat
    BY <1>1, BackupBounds DEF Trees, FileVersions
  <2>8. Chained(backup'[r], tree, Absent, tree)
    <3> HIDE DEF b
    <3> QED
      BY <2>2, <2>4, <2>6, <2>7 DEF Scanned, Chained, HasCopy
  <2> QED
    BY <1>1, <1>2, <2>2, <2>8 DEF RunInv, Copying
<1>6. CASE OpenAfter(r)
  <2>1. backup'[r] = [b EXCEPT !.phase = "after", !.at = 1, !.after = Opened]
        /\ staging' = staging
    BY <1>6 DEF OpenAfter, Locals, BackupTypeOK
  <2>2. backup'[r].phase = "after" /\ backup'[r].before = b.before /\ backup'[r].at = 1
        /\ backup'[r].after = Opened
    BY <1>1, <2>1 DEF RunStates
  <2>3. b.phase = "copying" /\ b.at > LastFile /\ b.at \in Nat
    BY <1>1, <1>6, BackupBounds DEF OpenAfter, Phase, RunStates
  <2>4. \A f \in Files : f < b.at /\ ~(f < 1)
    BY <2>3, BackupBounds DEF Files
  <2>5. ASSUME NEW W \in past, Chained(b, tree, staging[r].copy, W)
        PROVE  Chained(backup'[r], tree, staging[r].copy, W)
    <3>1. b.before.listed \subseteq Files
      BY <1>1 DEF RunStates, TreeInventories
    <3>2. Listing = b.before.listed
      BY <2>5, <3>1 DEF Chained, Listing
    <3>3. \A f \in Files : HasCopy(b, f) /\ HasCopy(backup'[r], f)
      BY <2>2, <2>4 DEF HasCopy
    <3> HIDE DEF b
    <3> QED
      BY <1>3, <2>2, <2>4, <2>5, <3>2, <3>3 DEF Chained
  <2> QED
    BY <1>1, <1>2, <1>3, <2>1, <2>2, <2>3, <2>5 DEF RunInv, Copying
<1> QED
  BY <1>4, <1>5, <1>6

\* The steps that copy files.
LEMMA CopySafe ==
  ASSUME BackupTypeOK, StagingExists, BackupSafe, NEW r \in BackupRuns,
         OpenFile(r) \/ CopyFile(r) \/ RevalidateFile(r) \/ SkipAbsent(r)
  PROVE  /\ RunInv(r)' /\ backup'[r].before = backup[r].before
         /\ backup'[r].after = backup[r].after
<1> DEFINE b == backup[r]
<1>1. b \in RunStates /\ RunInv(r) /\ tree \in Trees /\ b.at \in Nat
  BY BackupBounds DEF BackupTypeOK, RunStates, BackupSafe
<1>2. UNCHANGED <<tree, root, past>>
  BY DEF OpenFile, CopyFile, RevalidateFile, SkipAbsent, source
<1>3. \A f \in Files : f \in Nat /\ (tree[f] # None => tree[f] \in Nat)
  BY <1>1, BackupBounds DEF Trees, FileVersions, Files
<1>4. b.phase \in Copying
  BY DEF OpenFile, CopyFile, RevalidateFile, SkipAbsent, Copying, Phase
<1>5. ASSUME NEW W \in past, Chained(b, tree, staging[r].copy, W)
      PROVE  /\ backup'[r].before = b.before /\ backup'[r].after = b.after
             /\ Chained(backup'[r], tree, staging'[r].copy, W)
  <2>1. CASE OpenFile(r)
    <3>1. backup'[r] = [b EXCEPT !.phase = "opened"] /\ staging' = staging /\ b.phase = "copying"
      BY <2>1 DEF OpenFile, Locals, BackupTypeOK, Phase
    <3>2. backup'[r].phase = "opened" /\ backup'[r].at = b.at /\ backup'[r].before = b.before
          /\ backup'[r].after = b.after
      BY <1>1, <3>1 DEF RunStates
    <3> HIDE DEF b
    <3> QED
      BY <1>5, <3>1, <3>2 DEF Chained, HasCopy
  <2>2. CASE CopyFile(r)
    <3>1. backup'[r] = [b EXCEPT !.phase = "copied"] /\ b.phase = "opened" /\ tree[b.at] # None
      BY <2>2 DEF CopyFile, Locals, BackupTypeOK
    <3>2. backup'[r].phase = "copied" /\ backup'[r].at = b.at /\ backup'[r].before = b.before
          /\ backup'[r].after = b.after
      BY <1>1, <3>1 DEF RunStates
    <3>3. b.at \in Files /\ staging'[r].copy = [staging[r].copy EXCEPT ![b.at] = tree[b.at]]
          /\ staging[r].copy \in Trees
      BY <2>2, StagedFields DEF Directories
    <3>4. \A f \in Files : staging'[r].copy[f] = IF f = b.at THEN tree[f] ELSE staging[r].copy[f]
      BY <3>3 DEF Trees
    <3>5. W[b.at] # None => W[b.at] <= tree[b.at]
      BY <1>5, <3>3 DEF Chained
    <3> HIDE DEF b
    <3> QED
      BY <1>3, <1>5, <3>1, <3>2, <3>3, <3>4, <3>5 DEF Chained, HasCopy
  <2>3. CASE RevalidateFile(r)
    <3>1. backup'[r] = [b EXCEPT !.phase = "copying", !.at = b.at + 1] /\ staging' = staging
          /\ b.phase = "copied"
      BY <2>3 DEF RevalidateFile, Locals, BackupTypeOK
    <3>2. backup'[r].phase = "copying" /\ backup'[r].at = b.at + 1
          /\ backup'[r].before = b.before /\ backup'[r].after = b.after
      BY <1>1, <3>1 DEF RunStates
    <3>3. \A f \in Files : f < b.at + 1 => f < b.at \/ f = b.at
      BY <1>1, <1>3
    <3> HIDE DEF b
    <3> QED
      BY <1>5, <3>1, <3>2, <3>3 DEF Chained, HasCopy
  <2>4. CASE SkipAbsent(r)
    <3>1. backup'[r] = [b EXCEPT !.at = b.at + 1] /\ staging' = staging
          /\ b.phase = "copying" /\ b.at \notin b.before.listed
      BY <2>4 DEF SkipAbsent, Locals, BackupTypeOK
    <3>2. backup'[r].phase = "copying" /\ backup'[r].at = b.at + 1
          /\ backup'[r].before = b.before /\ backup'[r].after = b.after
      BY <1>1, <3>1 DEF RunStates
    <3>3. \A f \in Files : f < b.at + 1 => f < b.at \/ f = b.at
      BY <1>1, <1>3
    <3> HIDE DEF b
    <3> QED
      BY <1>5, <3>1, <3>2, <3>3 DEF Chained, HasCopy
  <2> QED
    BY <2>1, <2>2, <2>3, <2>4
<1>6. backup'[r].before = b.before /\ backup'[r].after = b.after /\ backup'[r].phase # "before"
  <2>1. \/ backup'[r] = [b EXCEPT !.phase = "opened"]
        \/ backup'[r] = [b EXCEPT !.phase = "copied"]
        \/ backup'[r] = [b EXCEPT !.phase = "copying", !.at = b.at + 1]
        \/ backup'[r] = [b EXCEPT !.at = b.at + 1] /\ b.phase = "copying"
    BY DEF OpenFile, CopyFile, RevalidateFile, SkipAbsent, Locals, BackupTypeOK
  <2> QED
    BY <1>1, <2>1 DEF RunStates
<1> QED
  BY <1>1, <1>2, <1>4, <1>5, <1>6 DEF RunInv, Copying

\* With equal inventories before and after the copies, the copy is the source when the first ended.
LEMMA SealedCopyIsPast ==
  ASSUME BackupTypeOK, StagingExists, BackupSafe, NEW r \in BackupRuns, Seal(r)
  PROVE  staging[r].copy \in past
<1> DEFINE b == backup[r]
<1>1. b \in RunStates /\ RunInv(r) /\ b.at \in Nat
  BY BackupBounds DEF BackupTypeOK, RunStates, BackupSafe
<1>2. b.phase = "after" /\ b.at > LastFile /\ root = b.before.root /\ b.before.files = b.after.files
  BY DEF Seal, Listed, Phase, inventories_equal
<1>3. PICK W \in past : Chained(b, tree, staging[r].copy, W)
  BY <1>1, <1>2 DEF RunInv, Copying
<1>4. staging[r].copy \in Trees /\ W \in Trees
  BY StagedFields DEF Directories, BackupTypeOK
<1>5. ASSUME NEW f \in Files PROVE staging[r].copy[f] = W[f]
  <2>1. f < b.at
    BY <1>1, <1>2, BackupBounds DEF Files
  <2>2. /\ W[f] # None => W[f] \in Nat
        /\ staging[r].copy[f] # None => staging[r].copy[f] \in Nat
    BY <1>4, BackupBounds DEF Trees, FileVersions
  <2>3. b.before.files[f] # None => b.before.files[f].ctime \in Nat
    BY <1>1, BackupBounds DEF RunStates, TreeInventories, Tuples, FileVersions
  <2> HIDE DEF b
  <2> QED
    BY <1>2, <1>3, <2>1, <2>2, <2>3 DEF Chained, HasCopy
<1>6. staging[r].copy = W
  BY <1>4, <1>5 DEF Trees
<1> QED
  BY <1>6

LEMMA LaterSafe ==
  ASSUME BackupTypeOK, StagingExists, BackupSafe, NEW r \in BackupRuns,
         \/ Seal(r) \/ Publish(r) \/ Reserve(r) \/ RenameOverReservation(r) \/ Return(r)
         \/ Abort(r) \/ Die(r)
  PROVE  /\ RunInv(r)'
         /\ backup'[r].before.root \in {0, backup[r].before.root}
         /\ backup'[r].after.root \in {0, backup[r].after.root}
<1> DEFINE Ends == {"sealed", "renamed", "reserved", "returned", "failed"}
<1>1. backup[r] \in RunStates
  BY DEF BackupTypeOK, RunStates
<1>2. \/ \E phase \in Ends : backup'[r] = [backup[r] EXCEPT !.phase = phase]
      \/ backup'[r] = [NewRun EXCEPT !.phase = "failed"]
  BY DEF Seal, Publish, Reserve, RenameOverReservation, Return, Abort, Die, Locals, BackupTypeOK
<1>3. /\ backup'[r].phase \in Ends
      /\ backup'[r].before.root \in {0, backup[r].before.root}
      /\ backup'[r].after.root \in {0, backup[r].after.root}
  BY <1>1, <1>2 DEF RunStates, NewRun, NoInventory
<1> QED
  BY <1>3 DEF RunInv, Copying

\* Whatever is sealed, and lies under a final name, is a copy of a past tree.
LEMMA SealedStep ==
  ASSUME BackupTypeOK, StagingExists, BackupSafe, NEW r \in BackupRuns, BackupStep(r)
  PROVE  SealedIsPast'
<1>1. SealedIsPast /\ past' = past
  BY OnlyItsOwn DEF BackupSafe
<1>2. /\ \A q \in BackupRuns \ {r} : staging'[q] = staging[q]
      /\ staging' \in [BackupRuns -> Directories \cup {None}]
      /\ final' \in [Names -> Directories \cup {None}]
  BY OnlyItsOwn, BackupStepTypes DEF BackupNext, BackupTypeOK
<1> DEFINE Good(d) == d # None /\ d.complete => d.record \in past
<1>3. SUFFICES Good(staging'[r]) /\ \A n \in Names : Good(final'[n])
  BY <1>1, <1>2 DEF SealedIsPast
<1>4. Good(staging[r]) /\ \A n \in Names : Good(final[n])
  BY <1>1 DEF SealedIsPast
<1>5. CASE CopyFile(r) \/ Seal(r)
  <2>1. final' = final
    BY <1>5 DEF CopyFile, Seal
  <2>2. Good(staging'[r])
    BY <1>4, <1>5, StagedFields, SealedCopyIsPast, BackupConstants
  <2> QED
    BY <1>4, <2>1, <2>2
<1>6. CASE MakeStaging(r) \/ Reserve(r)
  <2>1. \A e : e = [by |-> r, complete |-> FALSE, copy |-> Absent, record |-> Absent] => Good(e)
    OBVIOUS
  <2> QED
    BY <1>4, <1>6, <2>1 DEF MakeStaging, Reserve, BackupTypeOK
<1>7. CASE Publish(r) \/ RenameOverReservation(r) \/ Abort(r)
  <2>1. Good(None)
    OBVIOUS
  <2>2. staging'[r] = None
    BY <1>7 DEF Publish, RenameOverReservation, MoveIntoPlace, Abort, BackupTypeOK
  <2>3. \A n \in Names : final'[n] \in {None, staging[r], final[n]}
    BY <1>7 DEF Publish, RenameOverReservation, MoveIntoPlace, Abort, CleanupFinal, BackupTypeOK
  <2> HIDE DEF Good
  <2> QED
    BY <1>4, <2>1, <2>2, <2>3
<1>8. CASE \/ \E n \in Names : StartBackup(r, n)
           \/ \E which \in {"initial", "before", "after"} : StatEntry(r, which)
           \/ OpenBefore(r) \/ OpenFile(r) \/ RevalidateFile(r) \/ SkipAbsent(r) \/ OpenAfter(r)
           \/ Return(r) \/ Die(r)
  <2>1. UNCHANGED <<staging, final>>
    BY <1>8 DEF StartBackup, StatEntry, OpenBefore, OpenFile, RevalidateFile, SkipAbsent, OpenAfter,
                Return, Die
  <2> QED
    BY <1>4, <2>1
<1> QED
  BY <1>5, <1>6, <1>7, <1>8 DEF BackupStep

LEMMA RunStepSafe ==
  ASSUME BackupTypeOK, StagingExists, BackupSafe, NEW r \in BackupRuns, BackupStep(r)
  PROVE  BackupSafe'
<1>1. /\ UNCHANGED <<tree, root, changes, past>>
      /\ \A q \in BackupRuns \ {r} : backup'[q] = backup[q] /\ staging'[q] = staging[q]
  BY OnlyItsOwn
<1>2. /\ RunInv(r)'
      /\ backup'[r].before.root \in {0, root, backup[r].before.root}
      /\ backup'[r].after.root \in {0, root, backup[r].after.root}
  BY StatEntrySafe, OpenSafe, CopySafe, LaterSafe DEF BackupStep
<1>3. \A q \in BackupRuns \ {r} : RunInv(q)'
  BY <1>1 DEF BackupSafe, RunInv
<1>4. root \in Nat
  BY BackupBounds DEF BackupTypeOK, FileVersions
<1>5. VersionsBelow'
  BY <1>1, <1>2, <1>4 DEF BackupSafe, VersionsBelow
<1> QED
  BY <1>2, <1>3, <1>5, SealedStep DEF BackupSafe

LEMMA DamageSafe ==
  ASSUME BackupTypeOK, BackupSafe, NEW n \in Names, NEW f \in Files, Damage(n, f)
  PROVE  BackupSafe'
<1>1. UNCHANGED <<tree, root, changes, past, backup, staging>>
  BY DEF Damage, source
<1>2. final[n] \in Directories
      /\ final' = [final EXCEPT ![n] = [final[n] EXCEPT !.copy[f] = None]]
  BY DEF Damage, BackupTypeOK
<1>3. final'[n].record = final[n].record /\ final'[n].complete = final[n].complete
  BY <1>2 DEF BackupTypeOK, Directories
<1>4. \A m \in Names \ {n} : final'[m] = final[m]
  BY <1>2 DEF BackupTypeOK
<1>5. SealedIsPast'
  BY <1>1, <1>2, <1>3, <1>4, BackupConstants DEF BackupSafe, SealedIsPast
<1> QED
  BY <1>1, <1>5 DEF BackupSafe, VersionsBelow, RunInv

LEMMA BackupSafeStep ==
  BackupTypeOK /\ StagingExists /\ BackupSafe /\ [BackupNext]_backupVars => BackupSafe'
<1> SUFFICES ASSUME BackupTypeOK, StagingExists, BackupSafe, [BackupNext]_backupVars
             PROVE  BackupSafe'
  OBVIOUS
<1>1. CASE UNCHANGED backupVars
  BY <1>1 DEF backupVars, source, BackupSafe, VersionsBelow, SealedIsPast, RunInv
<1> QED
  BY <1>1, RunStepSafe, ChangeSafe, DamageSafe DEF BackupNext

\* A backup that --verify accepts holds the source as it was at one instant, whatever is written to
\* the source while its files are copied, and whatever dies or is damaged (create_backup).
THEOREM VerifiedBackupsAreSnapshots == BackupSpec => []VerifiedIsSnapshot
<1>1. BackupInit => StagingExists
  BY DEF BackupInit, StagingExists, Working, NewRun
<1>2. BackupSafe => VerifiedIsSnapshot
  BY DEF BackupSafe, SealedIsPast, VerifiedIsSnapshot, verify_backup
<1> QED
  BY <1>1, <1>2, InitBackupTypes, InitBackupSafe, BackupStepTypes, StagingStep, BackupSafeStep, PTL
  DEF BackupSpec

(***************************************************************************)
(* A returned backup is complete, of its own run and in its place, where   *)
(* no other run's guard for replacing or removing it holds.                *)
(***************************************************************************)
ReturnedInPlace ==
  \A r \in BackupRuns :
    /\ backup[r].phase \notin {"idle", "failed"} => backup[r].name \in Names
    /\ backup[r].phase = "returned" => Published(final[backup[r].name], r)

LEMMA FinalKeeps ==
  ASSUME BackupTypeOK, NEW r \in BackupRuns, NEW q \in BackupRuns, r # q, BackupStep(r),
         NEW n \in Names, Published(final[n], q)
  PROVE  final'[n] = final[n]
<1>1. final[n] # None /\ final[n].by # r /\ final[n].complete
  BY DEF Published
<1>2. CASE Publish(r) \/ Reserve(r) \/ RenameOverReservation(r) \/ Abort(r)
  BY <1>1, <1>2 DEF Publish, Reserve, RenameOverReservation, MoveIntoPlace, Abort, CleanupFinal,
                    Reserved, Published, BackupTypeOK
<1>3. CASE ~(Publish(r) \/ Reserve(r) \/ RenameOverReservation(r) \/ Abort(r))
  BY <1>3 DEF BackupStep, StartBackup, StatEntry, OpenBefore, MakeStaging, OpenFile, CopyFile,
              RevalidateFile, SkipAbsent, OpenAfter, Seal, Return, Die
<1> QED
  BY <1>2, <1>3

LEMMA ReturnedRunRests ==
  ASSUME BackupTypeOK, NEW r \in BackupRuns, backup[r].phase = "returned", BackupStep(r)
  PROVE  FALSE
BY DEF BackupStep, StartBackup, StatEntry, OpenBefore, MakeStaging, OpenFile, CopyFile,
       RevalidateFile, SkipAbsent, OpenAfter, Seal, Publish, Reserve, RenameOverReservation,
       Return, Abort, Die, Listed, Phase

LEMMA NameKept ==
  ASSUME BackupTypeOK, NEW r \in BackupRuns, BackupStep(r)
  PROVE  \/ \E n \in Names : StartBackup(r, n)
         \/ Abort(r) \/ Die(r)
         \/ /\ backup[r].phase \notin {"idle", "failed"} /\ backup'[r].name = backup[r].name
            /\ backup'[r].phase = "returned" => Return(r)
<1> DEFINE b == backup[r]
           Kept == /\ b.phase \notin {"idle", "failed"} /\ backup'[r].name = b.name
                   /\ backup'[r].phase = "returned" => Return(r)
<1>1. b \in RunStates
  BY DEF BackupTypeOK, RunStates
<1>2. ASSUME NEW which \in {"initial", "before", "after"}, StatEntry(r, which) PROVE Kept
  <2>1. b.phase = which /\ backup'[r].phase = b.phase /\ backup'[r].name = b.name
    BY <1>2, StatEntryKeeps
  <2> QED
    BY <2>1
<1>3. CASE OpenBefore(r) \/ MakeStaging(r) \/ OpenAfter(r)
  <2>1. b.phase \notin {"idle", "failed"}
    BY <1>3 DEF OpenBefore, MakeStaging, OpenAfter, Listed, Phase
  <2>2. \/ backup'[r] = [b EXCEPT !.phase = "before", !.at = 1, !.before = Opened]
        \/ backup'[r] = [b EXCEPT !.phase = "copying", !.at = 1]
        \/ backup'[r] = [b EXCEPT !.phase = "after", !.at = 1, !.after = Opened]
    BY <1>3 DEF OpenBefore, MakeStaging, OpenAfter, Locals, BackupTypeOK
  <2> QED
    BY <1>1, <2>1, <2>2 DEF RunStates
<1>4. CASE RevalidateFile(r) \/ SkipAbsent(r)
  <2>1. b.phase \in {"copied", "copying"}
    BY <1>4 DEF RevalidateFile, SkipAbsent
  <2>2. \/ backup'[r] = [b EXCEPT !.phase = "copying", !.at = b.at + 1]
        \/ backup'[r] = [b EXCEPT !.at = b.at + 1]
    BY <1>4 DEF RevalidateFile, SkipAbsent, Locals, BackupTypeOK
  <2> QED
    BY <1>1, <2>1, <2>2 DEF RunStates
<1>5. CASE \/ OpenFile(r) \/ CopyFile(r) \/ Seal(r) \/ Publish(r) \/ Reserve(r)
           \/ RenameOverReservation(r) \/ Return(r)
  <2>1. b.phase \notin {"idle", "failed"}
    BY <1>5 DEF OpenFile, CopyFile, Seal, Publish, Reserve, RenameOverReservation, Return, Listed,
                Phase
  <2>2. \/ Return(r) /\ backup'[r] = [b EXCEPT !.phase = "returned"]
        \/ \E p \in {"opened", "copied", "sealed", "renamed", "reserved"} :
             backup'[r] = [b EXCEPT !.phase = p]
    BY <1>5 DEF OpenFile, CopyFile, Seal, Publish, Reserve, RenameOverReservation, Return, Locals,
                BackupTypeOK
  <2> QED
    BY <1>1, <2>1, <2>2 DEF RunStates
<1> QED
  BY <1>2, <1>3, <1>4, <1>5 DEF BackupStep

LEMMA RunReturns ==
  ASSUME BackupTypeOK, StagingExists, ReturnedInPlace, NEW r \in BackupRuns, BackupStep(r)
  PROVE  KeepsReturned /\ ReturnedInPlace'
<1>1. ASSUME NEW q \in BackupRuns, backup[q].phase = "returned"
      PROVE  backup'[q] = backup[q] /\ final'[backup[q].name] = final[backup[q].name]
  <2>1. q # r
    BY <1>1, ReturnedRunRests
  <2> QED
    BY <1>1, <2>1, FinalKeeps, OnlyItsOwn DEF ReturnedInPlace
<1>2. \A q \in BackupRuns \ {r} : backup'[q] = backup[q]
  BY OnlyItsOwn
<1>3. CASE (\E n \in Names : StartBackup(r, n)) \/ Abort(r) \/ Die(r)
  <2>1. \/ \E n \in Names : backup'[r] = [NewRun EXCEPT !.phase = "initial", !.name = n,
                                                        !.initial = Opened]
        \/ backup'[r] = [NewRun EXCEPT !.phase = "failed"]
    BY <1>3 DEF StartBackup, Abort, Die, Locals, BackupTypeOK
  <2>2. \/ backup'[r].phase = "initial" /\ backup'[r].name \in Names
        \/ backup'[r].phase = "failed"
    BY <2>1 DEF NewRun
  <2> QED
    BY <1>1, <1>2, <2>2 DEF KeepsReturned, ReturnedInPlace
<1>4. CASE /\ backup[r].phase \notin {"idle", "failed"} /\ backup'[r].name = backup[r].name
           /\ backup'[r].phase = "returned" => Return(r)
  <2>1. Return(r) => final' = final /\ Published(final[backup[r].name], r)
    BY DEF Return
  <2> QED
    BY <1>1, <1>2, <1>4, <2>1 DEF KeepsReturned, ReturnedInPlace
<1> QED
  BY <1>3, <1>4, NameKept

LEMMA FaultsReturn ==
  ASSUME BackupTypeOK, ReturnedInPlace, NEW f \in Files,
         ChangeFile(f) \/ \E n \in Names : Damage(n, f)
  PROVE  KeepsReturned /\ ReturnedInPlace'
<1>1. CASE ChangeFile(f)
  BY <1>1 DEF ChangeFile, KeepsReturned, ReturnedInPlace
<1>2. ASSUME NEW n \in Names, Damage(n, f) PROVE KeepsReturned /\ ReturnedInPlace'
  <2>1. damaged' # damaged /\ backup' = backup
    BY <1>2 DEF Damage
  <2>2. final[n] \in Directories
        /\ final' = [final EXCEPT ![n] = [final[n] EXCEPT !.copy[f] = None]]
    BY <1>2 DEF Damage, BackupTypeOK
  <2>3. [final[n] EXCEPT !.copy[f] = None] \in Directories
    BY <2>2 DEF Directories, Trees
  <2>4. final'[n] # None /\ final'[n].by = final[n].by /\ final'[n].complete = final[n].complete
    BY <2>2, <2>3, BackupConstants DEF BackupTypeOK, Directories
  <2>5. \A m \in Names \ {n} : final'[m] = final[m]
    BY <2>2 DEF BackupTypeOK
  <2>6. ASSUME NEW q \in BackupRuns, backup[q].phase = "returned"
        PROVE  Published(final'[backup[q].name], q)
    BY <2>4, <2>5, <2>6 DEF ReturnedInPlace, Published
  <2> QED
    BY <2>1, <2>6 DEF KeepsReturned, ReturnedInPlace
<1> QED
  BY <1>1, <1>2

LEMMA ReturnedStep ==
  BackupTypeOK /\ StagingExists /\ ReturnedInPlace /\ [BackupNext]_backupVars =>
    ReturnedInPlace' /\ [KeepsReturned]_backupVars
<1> SUFFICES ASSUME BackupTypeOK, StagingExists, ReturnedInPlace, [BackupNext]_backupVars
             PROVE  ReturnedInPlace' /\ [KeepsReturned]_backupVars
  OBVIOUS
<1>1. CASE UNCHANGED backupVars
  BY <1>1 DEF backupVars, ReturnedInPlace
<1> QED
  BY <1>1, RunReturns, FaultsReturn DEF BackupNext

\* Once a run has returned its backup, no step of this tool changes or removes it: neither of a run
\* with the same name, nor of one that fails, nor in the fallback without RENAME_NOREPLACE.
THEOREM ReturnedBackupsStay == BackupSpec => ReturnedBackupStays
<1>1. BackupInit => StagingExists /\ ReturnedInPlace
  BY DEF BackupInit, StagingExists, Working, ReturnedInPlace, NewRun
<1> QED
  BY <1>1, InitBackupTypes, BackupStepTypes, StagingStep, ReturnedStep, PTL
  DEF BackupSpec, ReturnedBackupStays

-----------------------------------------------------------------------------
(***************************************************************************)
(* The journal conversion.                                                 *)
(***************************************************************************)

MigrationStates == [phase : MigrationPhases, at : Databases, read : Evidence \cup {None}]

MigrationStep(m) ==
  \/ Lock(m) \/ CompareGenerations(m) \/ MakeBackupRoot(m) \/ ReadEvidence(m)
  \/ PublishBackup(m) \/ RecordBackup(m) \/ Checkpoint(m) \/ ConvertDatabase(m)
  \/ RecordConversion(m) \/ StopMigration(m)
IngestionStep(i) == StartIngestion(i) \/ WriteDatabase(i) \/ StopIngestion(i)

(***************************************************************************)
(* Whoever reads evidence to convert, or writes it, holds the lock; so the *)
(* evidence a migration has read is that of now, and what its manifest     *)
(* lists has a backup with the evidence of now.                            *)
(***************************************************************************)
Writes == {"writing", "finalizing"}
Agreed == {"compared", "verifying", "staged", "published", "recorded", "checkpointed", "converted"}
Recording == Agreed \ {"compared"}

LockHeld ==
  /\ \A m \in Migrations : migration[m].phase \notin Ended => metricLock = m
  /\ \A i \in Ingestions : ingestion[i].phase \in Writes => metricLock = i

Agreement(m) ==
  LET now == migration[m] IN
  /\ now.phase = "comparing" =>
       \A d \in Databases : d < now.at => content[d] = now.read /\ now.read.state = "complete"
  /\ now.phase \in Agreed =>
       \A d, e \in Databases : content[d] = content[e] /\ content[d].state = "complete"
  /\ now.phase \in Recording =>
       manifests[m] # None /\ \A e \in manifests[m].listed : backups[m][e] = content[e]
  /\ now.phase = "published" => backups[m][now.at] = content[now.at]
  /\ now.phase \in {"recorded", "checkpointed", "converted"} => now.at \in manifests[m].listed

JournalInv == JournalTypeOK /\ LockHeld /\ \A m \in Migrations : Agreement(m)

LEMMA FirstDatabase == 1 \in Databases /\ LastDatabase \in Databases
BY JournalBounds DEF Databases

LEMMA InitJournal == JournalInit => JournalInv
<1> SUFFICES ASSUME JournalInit PROVE JournalInv
  OBVIOUS
<1>1. JournalTypeOK
  <2>1. content \in [Databases -> Evidence]
    BY DEF JournalInit, Evidence
  <2> QED
    BY <2>1, FirstDatabase DEF JournalInit, JournalTypeOK, MigrationPhases
<1>2. LockHeld
  BY DEF JournalInit, LockHeld, Ended, Writes
<1>3. \A m \in Migrations : Agreement(m)
  BY DEF JournalInit, Agreement, Agreed, Recording
<1> QED
  BY <1>1, <1>2, <1>3 DEF JournalInv

LEMMA GoType ==
  ASSUME JournalTypeOK, NEW m \in Migrations, NEW phase \in MigrationPhases, NEW at \in Databases,
         NEW read \in Evidence \cup {None}, Go(m, phase, at, read)
  PROVE  /\ migration' \in [Migrations -> MigrationStates]
         /\ migration'[m] = [phase |-> phase, at |-> at, read |-> read]
         /\ \A n \in Migrations \ {m} : migration'[n] = migration[n]
BY DEF JournalTypeOK, Go, MigrationStates

\* One step of a migration: its new state, and what it wrote.
LEMMA MigrationTypes ==
  ASSUME JournalInv, NEW m \in Migrations, MigrationStep(m)
  PROVE  /\ JournalTypeOK' /\ UNCHANGED <<content, ingestion>>
         /\ \A n \in Migrations \ {m} : /\ migration'[n] = migration[n]
                                        /\ manifests'[n] = manifests[n] /\ backups'[n] = backups[n]
<1> DEFINE now == migration[m]
<1> USE FirstDatabase DEF At, MigrationIn
<1>1. now.phase \in MigrationPhases /\ now.at \in Databases /\ now.read \in Evidence \cup {None}
      /\ \A d \in Databases : content[d] \in Evidence
  BY DEF JournalInv, JournalTypeOK
<1>2. now.at < LastDatabase => now.at + 1 \in Databases
  BY <1>1, JournalBounds DEF Databases
<1>3. {"comparing", "compared", "verifying", "staged", "published", "recorded", "checkpointed",
       "converted", "returned", "failed"} \subseteq MigrationPhases
  BY DEF MigrationPhases
<1>4. \E phase \in MigrationPhases, at \in Databases, read \in Evidence \cup {None} :
        Go(m, phase, at, read)
  <2>1. CASE Lock(m) \/ MakeBackupRoot(m) \/ StopMigration(m)
    BY <1>3, <2>1 DEF Lock, MakeBackupRoot, StopMigration
  <2>2. CASE CompareGenerations(m)
    BY <1>1, <1>2, <1>3, <2>2 DEF CompareGenerations
  <2>3. CASE \/ ReadEvidence(m) \/ PublishBackup(m) \/ RecordBackup(m) \/ Checkpoint(m)
             \/ ConvertDatabase(m)
    BY <1>1, <1>3, <2>3 DEF ReadEvidence, PublishBackup, RecordBackup, Checkpoint, ConvertDatabase
  <2>4. CASE RecordConversion(m)
    <3>1. now.at # LastDatabase => now.at + 1 \in Databases
      BY <1>1, JournalBounds DEF Databases
    <3> QED
      BY <1>3, <2>4, <3>1 DEF RecordConversion
  <2> QED
    BY <2>1, <2>2, <2>3, <2>4 DEF MigrationStep
<1>5. /\ migration' \in [Migrations -> MigrationStates]
      /\ \A n \in Migrations \ {m} : migration'[n] = migration[n]
  BY <1>4, GoType DEF JournalInv
<1>6. UNCHANGED <<content, ingestion>>
  BY DEF MigrationStep, Lock, CompareGenerations, MakeBackupRoot, ReadEvidence, PublishBackup,
         RecordBackup, Checkpoint, ConvertDatabase, RecordConversion, StopMigration, databases
<1>7. mode' \in [Databases -> {"wal", "delete"}]
      /\ metricLock' \in Migrations \cup Ingestions \cup {None}
  BY DEF MigrationStep, Lock, CompareGenerations, MakeBackupRoot, ReadEvidence, PublishBackup,
         RecordBackup, Checkpoint, ConvertDatabase, RecordConversion, StopMigration, databases,
         JournalInv, JournalTypeOK
<1>8. /\ backups' \in [Migrations -> [Databases -> Evidence \cup {None}]]
      /\ \A n \in Migrations \ {m} : backups'[n] = backups[n]
  <2>1. CASE PublishBackup(m)
    <3>1. backups' = [backups EXCEPT ![m] = [@ EXCEPT ![now.at] = content[now.at]]]
      BY <2>1 DEF PublishBackup
    <3>2. [backups[m] EXCEPT ![now.at] = content[now.at]] \in [Databases -> Evidence \cup {None}]
      BY <1>1 DEF JournalInv, JournalTypeOK
    <3> QED
      BY <3>1, <3>2 DEF JournalInv, JournalTypeOK
  <2>2. CASE ~PublishBackup(m)
    BY <2>2 DEF MigrationStep, Lock, CompareGenerations, MakeBackupRoot, ReadEvidence,
                RecordBackup, Checkpoint, ConvertDatabase, RecordConversion, StopMigration,
                JournalInv, JournalTypeOK
  <2> QED
    BY <2>1, <2>2
<1>9. /\ manifests' \in [Migrations -> JournalManifests \cup {None}]
      /\ \A n \in Migrations \ {m} : manifests'[n] = manifests[n]
  <2>1. CASE MakeBackupRoot(m)
    <3>1. [listed |-> {}, converted |-> {}] \in JournalManifests
      BY DEF JournalManifests
    <3> QED
      BY <2>1, <3>1 DEF MakeBackupRoot, JournalInv, JournalTypeOK
  <2>2. CASE RecordBackup(m) \/ RecordConversion(m)
    <3>1. manifests[m] \in JournalManifests
      BY <2>2 DEF RecordBackup, RecordConversion, JournalInv, Agreement, Recording, Agreed,
                  JournalTypeOK
    <3> DEFINE listed == [manifests[m] EXCEPT !.listed = manifests[m].listed \cup {now.at}]
               done == [manifests[m] EXCEPT !.converted = manifests[m].converted \cup {now.at}]
    <3>2. manifests' = [manifests EXCEPT ![m] = listed] \/ manifests' = [manifests EXCEPT ![m] = done]
      BY <2>2 DEF RecordBackup, RecordConversion
    <3>3. listed \in JournalManifests /\ done \in JournalManifests
      BY <1>1, <3>1 DEF JournalManifests
    <3>4. manifests \in [Migrations -> JournalManifests \cup {None}]
      BY DEF JournalInv, JournalTypeOK
    <3> HIDE DEF listed, done
    <3> QED
      BY <3>2, <3>3, <3>4
  <2>3. CASE ~(MakeBackupRoot(m) \/ RecordBackup(m) \/ RecordConversion(m))
    BY <2>3 DEF MigrationStep, Lock, CompareGenerations, ReadEvidence, PublishBackup,
                Checkpoint, ConvertDatabase, StopMigration, JournalInv, JournalTypeOK
  <2> QED
    BY <2>1, <2>2, <2>3
<1> QED
  BY <1>5, <1>6, <1>7, <1>8, <1>9 DEF JournalTypeOK, MigrationStates, JournalInv

LEMMA MigrationAgrees ==
  ASSUME JournalInv, NEW m \in Migrations, MigrationStep(m)
  PROVE  Agreement(m)'
<1> DEFINE now == migration[m]
<1> USE FirstDatabase DEF At, MigrationIn
<1>1. now.at \in Databases /\ now.at \in Nat /\ LastDatabase \in Nat /\ content' = content
      /\ \A d \in Databases : content[d] \in Evidence /\ d \in Nat /\ d >= 1 /\ d <= LastDatabase
  BY JournalBounds, MigrationTypes DEF JournalInv, JournalTypeOK, Databases
<1>2. Agreement(m) /\ JournalTypeOK
  BY DEF JournalInv
<1>3. CASE Lock(m)
  <2>1. migration'[m] = [phase |-> "comparing", at |-> 1, read |-> None]
    BY <1>2, <1>3 DEF Lock, Go, JournalTypeOK
  <2> QED
    BY <1>1, <2>1 DEF Agreement, Agreed, Recording
<1>4. CASE CompareGenerations(m)
  <2>1. now.phase = "comparing" /\ content[now.at].state = "complete"
        /\ (now.at > 1 => content[now.at] = now.read)
    BY <1>4 DEF CompareGenerations
  <2>2. \A d \in Databases : d <= now.at => content[d] = content[now.at]
    BY <1>1, <1>2, <2>1 DEF Agreement
  <2>3. CASE now.at < LastDatabase
    <3>1. migration'[m] = [phase |-> "comparing", at |-> now.at + 1, read |-> content[now.at]]
      BY <1>2, <1>4, <2>3 DEF CompareGenerations, Go, JournalTypeOK
    <3>2. \A d \in Databases : d < now.at + 1 => d <= now.at
      BY <1>1
    <3> QED
      BY <1>1, <2>1, <2>2, <3>1, <3>2 DEF Agreement, Agreed, Recording
  <2>4. CASE ~(now.at < LastDatabase)
    <3>1. migration'[m] = [phase |-> "compared", at |-> 1, read |-> None]
      BY <1>2, <1>4, <2>4 DEF CompareGenerations, Go, JournalTypeOK
    <3>2. \A d \in Databases : d <= now.at
      BY <1>1, <2>4
    <3> QED
      BY <1>1, <2>1, <2>2, <3>1, <3>2 DEF Agreement, Recording
  <2> QED
    BY <2>3, <2>4
<1>5. CASE MakeBackupRoot(m)
  <2>1. migration'[m] = [phase |-> "verifying", at |-> 1, read |-> None]
        /\ manifests'[m] = [listed |-> {}, converted |-> {}] /\ now.phase = "compared"
    BY <1>2, <1>5 DEF MakeBackupRoot, Go, JournalTypeOK
  <2>2. manifests'[m] \in JournalManifests
    BY <2>1 DEF JournalManifests
  <2>3. manifests'[m] # None /\ manifests'[m].listed = {}
    BY <2>1, <2>2, HoldersDiffer
  <2> QED
    BY <1>1, <1>2, <2>1, <2>3 DEF Agreement, Agreed, Recording
<1>6. CASE ReadEvidence(m)
  <2>1. migration'[m] = [phase |-> "staged", at |-> now.at, read |-> content[now.at]]
        /\ now.phase = "verifying" /\ UNCHANGED <<manifests, backups>>
    BY <1>2, <1>6 DEF ReadEvidence, Go, JournalTypeOK
  <2> QED
    BY <1>1, <1>2, <2>1 DEF Agreement, Agreed, Recording
<1>7. CASE PublishBackup(m)
  <2>1. migration'[m] = [phase |-> "published", at |-> now.at, read |-> now.read]
        /\ now.phase = "staged" /\ manifests' = manifests
    BY <1>2, <1>7 DEF PublishBackup, Go, JournalTypeOK
  <2>2. \A d \in Databases : backups'[m][d] = IF d = now.at THEN content[d] ELSE backups[m][d]
    BY <1>1, <1>2, <1>7 DEF PublishBackup, JournalTypeOK
  <2>3. /\ manifests[m] # None /\ manifests[m].listed \subseteq Databases
        /\ \A e \in manifests[m].listed : backups[m][e] = content[e]
        /\ \A d, e \in Databases : content[d] = content[e] /\ content[d].state = "complete"
    BY <1>2, <2>1 DEF Agreement, Agreed, Recording, JournalTypeOK, JournalManifests
  <2>4. /\ migration'[m].phase = "published" /\ migration'[m].at = now.at
        /\ manifests'[m] = manifests[m]
    BY <2>1
  <2>5. \A e \in manifests[m].listed : backups'[m][e] = content[e]
    BY <2>2, <2>3
  <2>6. backups'[m][now.at] = content[now.at]
    BY <1>1, <2>2
  <2> HIDE DEF now
  <2> QED
    BY <1>1, <2>3, <2>4, <2>5, <2>6 DEF Agreement
<1>8. CASE RecordBackup(m)
  <2>1. migration'[m] = [phase |-> "recorded", at |-> now.at, read |-> now.read]
        /\ now.phase = "published" /\ backups' = backups
    BY <1>2, <1>8 DEF RecordBackup, Go, JournalTypeOK
  <2>2. manifests[m] # None /\ manifests[m] \in JournalManifests
    BY <1>2, <2>1 DEF Agreement, Agreed, Recording, JournalTypeOK
  <2>3. manifests'[m] = [manifests[m] EXCEPT !.listed = manifests[m].listed \cup {now.at}]
    BY <1>2, <1>8 DEF RecordBackup, JournalTypeOK
  <2>4. manifests'[m] # None /\ manifests'[m].listed = manifests[m].listed \cup {now.at}
    <3>1. manifests'[m] \in JournalManifests
      BY <1>1, <2>2, <2>3 DEF JournalManifests
    <3> QED
      BY <2>2, <2>3, <3>1, HoldersDiffer DEF JournalManifests
  <2> QED
    BY <1>1, <1>2, <2>1, <2>4 DEF Agreement, Agreed, Recording
<1>9. CASE Checkpoint(m) \/ ConvertDatabase(m)
  <2>1. /\ \E p \in {"checkpointed", "converted"} :
             migration'[m] = [phase |-> p, at |-> now.at, read |-> now.read]
        /\ now.phase \in {"recorded", "checkpointed"} /\ UNCHANGED <<manifests, backups>>
    BY <1>2, <1>9 DEF Checkpoint, ConvertDatabase, Go, JournalTypeOK
  <2> QED
    BY <1>1, <1>2, <2>1 DEF Agreement, Agreed, Recording
<1>10. CASE RecordConversion(m)
  <2>1. /\ now.phase = "converted" /\ backups' = backups
        /\ \/ migration'[m] = [phase |-> "returned", at |-> 1, read |-> None]
           \/ migration'[m] = [phase |-> "verifying", at |-> now.at + 1, read |-> None]
    BY <1>2, <1>10 DEF RecordConversion, Go, JournalTypeOK
  <2>2. manifests[m] # None /\ manifests[m] \in JournalManifests
    BY <1>2, <2>1 DEF Agreement, Agreed, Recording, JournalTypeOK
  <2>3. manifests'[m] = [manifests[m] EXCEPT !.converted = manifests[m].converted \cup {now.at}]
    BY <1>2, <1>10 DEF RecordConversion, JournalTypeOK
  <2>4. manifests'[m] # None /\ manifests'[m].listed = manifests[m].listed
    <3>1. manifests'[m] \in JournalManifests
      BY <1>1, <2>2, <2>3 DEF JournalManifests
    <3> QED
      BY <2>2, <2>3, <3>1, HoldersDiffer DEF JournalManifests
  <2> QED
    BY <1>1, <1>2, <2>1, <2>4 DEF Agreement, Agreed, Recording
<1>11. CASE StopMigration(m)
  <2>1. migration'[m] = [phase |-> "failed", at |-> 1, read |-> None]
    BY <1>2, <1>11 DEF StopMigration, Go, JournalTypeOK
  <2> QED
    BY <2>1 DEF Agreement, Agreed, Recording
<1> QED
  BY <1>3, <1>4, <1>5, <1>6, <1>7, <1>8, <1>9, <1>10, <1>11 DEF MigrationStep

LEMMA MigrationHolds ==
  ASSUME JournalInv, NEW m \in Migrations, MigrationStep(m)
  PROVE  LockHeld'
<1>1. JournalTypeOK /\ LockHeld /\ m # None
  BY HoldersDiffer DEF JournalInv
<1>2. ingestion' = ingestion /\ \A n \in Migrations \ {m} : migration'[n] = migration[n]
  BY MigrationTypes
<1>3. \/ metricLock = m /\ migration[m].phase \notin Ended
      \/ metricLock = None
  BY <1>1 DEF MigrationStep, Lock, CompareGenerations, MakeBackupRoot, ReadEvidence, PublishBackup,
              RecordBackup, Checkpoint, ConvertDatabase, RecordConversion, StopMigration,
              MigrationIn, Ended, LockHeld
<1>4. /\ \A n \in Migrations \ {m} : migration[n].phase \in Ended
      /\ \A i \in Ingestions : ingestion[i].phase \notin Writes
  BY <1>1, <1>3, HoldersDiffer DEF LockHeld
<1>5. migration'[m].phase \notin Ended => metricLock' = m
  <2>1. CASE Lock(m)
    BY <2>1 DEF Lock
  <2>2. CASE \/ CompareGenerations(m) \/ MakeBackupRoot(m) \/ ReadEvidence(m) \/ PublishBackup(m)
             \/ RecordBackup(m) \/ Checkpoint(m) \/ ConvertDatabase(m)
    <3>1. metricLock' = metricLock /\ migration[m].phase \notin Ended
      BY <2>2 DEF CompareGenerations, MakeBackupRoot, ReadEvidence, PublishBackup, RecordBackup,
                  Checkpoint, ConvertDatabase, MigrationIn, Ended
    <3> QED
      BY <1>1, <3>1 DEF LockHeld
  <2>3. CASE RecordConversion(m)
    <3>1. migration[m].phase \notin Ended
      BY <2>3 DEF RecordConversion, MigrationIn, Ended
    <3>2. CASE At(m) = LastDatabase
      <4>1. migration'[m] = [phase |-> "returned", at |-> 1, read |-> None]
        BY <1>1, <2>3, <3>2 DEF RecordConversion, Go, JournalTypeOK
      <4> QED
        BY <4>1 DEF Ended
    <3>3. CASE At(m) # LastDatabase
      BY <1>1, <2>3, <3>1, <3>3 DEF RecordConversion, LockHeld
    <3> QED
      BY <3>2, <3>3
  <2>4. CASE StopMigration(m)
    <3>1. migration'[m] = [phase |-> "failed", at |-> 1, read |-> None]
      BY <1>1, <2>4 DEF StopMigration, Go, JournalTypeOK
    <3> QED
      BY <3>1 DEF Ended
  <2> QED
    BY <2>1, <2>2, <2>3, <2>4 DEF MigrationStep
<1> QED
  BY <1>2, <1>4, <1>5 DEF LockHeld

\* An ingestion writes only while it holds the lock, hence no migration is under way.
LEMMA IngestionSafe ==
  ASSUME JournalInv, NEW i \in Ingestions, IngestionStep(i)
  PROVE  JournalInv' /\ mode' = mode
<1> DEFINE now == ingestion[i]
           States == [phase : {"idle", "writing", "finalizing", "returned", "failed"}, at : Databases]
<1> USE FirstDatabase
<1>1. JournalTypeOK /\ LockHeld /\ i # None /\ i \notin Migrations
      /\ \A m \in Migrations : Agreement(m)
  BY HoldersDiffer DEF JournalInv
<1>2. UNCHANGED <<mode, backups, manifests, migration>>
  BY DEF IngestionStep, StartIngestion, WriteDatabase, StopIngestion, databases
<1>3. metricLock \in {i, None} /\ (content' # content => metricLock = i)
  BY <1>1 DEF IngestionStep, StartIngestion, WriteDatabase, StopIngestion, databases, LockHeld, Writes
<1>4. /\ \A m \in Migrations : migration[m].phase \in Ended
      /\ \A k \in Ingestions \ {i} : ingestion[k].phase \notin Writes
  BY <1>1, <1>3, HoldersDiffer DEF LockHeld
<1>5. \A m \in Migrations : Agreement(m)'
  BY <1>2, <1>4 DEF Agreement, Agreed, Recording, Ended
<1>6. now \in States /\ now.at \in Databases
  BY <1>1 DEF JournalTypeOK
<1>7. \E next \in States : /\ ingestion' = [ingestion EXCEPT ![i] = next]
                           /\ next.phase \in Writes => metricLock' = i
  <2>1. CASE StartIngestion(i)
    <3>1. [phase |-> "writing", at |-> 1] \in States
      OBVIOUS
    <3> QED
      BY <2>1, <3>1 DEF StartIngestion
  <2>2. CASE WriteDatabase(i)
    <3>1. now.phase \in Writes /\ metricLock = i
      BY <1>1, <2>2 DEF WriteDatabase, Writes, LockHeld
    <3>2. CASE now.at # LastDatabase
      <4>1. [phase |-> now.phase, at |-> now.at + 1] \in States
        BY <1>6, <3>2, JournalBounds DEF Databases
      <4>2. ingestion' = [ingestion EXCEPT ![i] = [phase |-> now.phase, at |-> now.at + 1]]
            /\ metricLock' = i
        BY <2>2, <3>1, <3>2 DEF WriteDatabase
      <4> QED
        BY <4>1, <4>2
    <3>3. CASE now.at = LastDatabase /\ now.phase # "finalizing"
      <4>1. [phase |-> "finalizing", at |-> 1] \in States
        OBVIOUS
      <4>2. ingestion' = [ingestion EXCEPT ![i] = [phase |-> "finalizing", at |-> 1]]
            /\ metricLock' = i
        BY <2>2, <3>1, <3>3 DEF WriteDatabase
      <4> QED
        BY <4>1, <4>2
    <3>4. CASE now.at = LastDatabase /\ now.phase = "finalizing"
      <4>1. [phase |-> "returned", at |-> 1] \in States
        OBVIOUS
      <4>2. ingestion' = [ingestion EXCEPT ![i] = [phase |-> "returned", at |-> 1]]
        BY <2>2, <3>4 DEF WriteDatabase
      <4> QED
        BY <4>1, <4>2 DEF Writes
    <3> QED
      BY <3>2, <3>3, <3>4
  <2>3. CASE StopIngestion(i)
    <3>1. [phase |-> "failed", at |-> 1] \in States
      OBVIOUS
    <3>2. ingestion' = [ingestion EXCEPT ![i] = [phase |-> "failed", at |-> 1]]
      BY <2>3 DEF StopIngestion
    <3> QED
      BY <3>1, <3>2 DEF Writes
  <2> QED
    BY <2>1, <2>2, <2>3 DEF IngestionStep
<1>8. LockHeld'
  <2>1. PICK next \in States : /\ ingestion' = [ingestion EXCEPT ![i] = next]
                               /\ next.phase \in Writes => metricLock' = i
    BY <1>7
  <2>2. ingestion'[i] = next /\ \A k \in Ingestions \ {i} : ingestion'[k] = ingestion[k]
    BY <1>1, <2>1 DEF JournalTypeOK
  <2> QED
    BY <1>2, <1>4, <2>1, <2>2 DEF LockHeld
<1>9. JournalTypeOK'
  <2>1. ingestion' \in [Ingestions -> States]
    BY <1>1, <1>7 DEF JournalTypeOK
  <2>2. content' \in [Databases -> Evidence]
    <3>1. CASE WriteDatabase(i)
      <4> DEFINE state == IF now.phase = "finalizing" THEN "complete" ELSE "in_progress"
      <4>1. content' = [content EXCEPT ![now.at] = [generation |-> i, state |-> state]]
        BY <3>1 DEF WriteDatabase
      <4>2. [generation |-> i, state |-> state] \in Evidence
        BY DEF Evidence
      <4> QED
        BY <1>1, <4>1, <4>2 DEF JournalTypeOK
    <3>2. CASE StartIngestion(i) \/ StopIngestion(i)
      BY <1>1, <3>2 DEF StartIngestion, StopIngestion, databases, JournalTypeOK
    <3> QED
      BY <3>1, <3>2 DEF IngestionStep
  <2>3. metricLock' \in Migrations \cup Ingestions \cup {None}
    BY <1>1 DEF IngestionStep, StartIngestion, WriteDatabase, StopIngestion, JournalTypeOK
  <2> QED
    BY <1>1, <1>2, <2>1, <2>2, <2>3 DEF JournalTypeOK
<1> QED
  BY <1>2, <1>5, <1>8, <1>9 DEF JournalInv

\* Only ConvertDatabase changes a mode, and then the manifest lists a backup of every listed
\* database with the evidence they all have now.
LEMMA MigrationSafe ==
  ASSUME JournalInv, NEW m \in Migrations, MigrationStep(m)
  PROVE  JournalInv' /\ ConvertsWhatIsBackedUp
<1>1. \A n \in Migrations \ {m} : Agreement(n)'
  BY MigrationTypes DEF JournalInv, Agreement
<1>2. JournalInv'
  BY <1>1, MigrationTypes, MigrationAgrees, MigrationHolds DEF JournalInv
<1>3. ASSUME NEW d \in Databases, mode'[d] # mode[d]
      PROVE  /\ manifests[m] # None /\ d \in manifests[m].listed /\ backups[m][d] = content[d]
             /\ \A e \in manifests[m].listed :
                  backups[m][e] = content[d] /\ content[d].state = "complete"
  <2>1. migration[m].phase = "checkpointed" /\ d = migration[m].at
    BY <1>3 DEF MigrationStep, Lock, CompareGenerations, MakeBackupRoot, ReadEvidence,
                PublishBackup, RecordBackup, Checkpoint, ConvertDatabase, RecordConversion,
                StopMigration, MigrationIn, At, JournalInv, JournalTypeOK, databases
  <2>2. /\ manifests[m] # None /\ d \in manifests[m].listed
        /\ \A e \in manifests[m].listed : backups[m][e] = content[e]
        /\ \A e, f \in Databases : content[e] = content[f] /\ content[e].state = "complete"
    BY <2>1 DEF JournalInv, Agreement, Agreed, Recording
  <2>3. manifests[m].listed \subseteq Databases
    BY <2>2 DEF JournalInv, JournalTypeOK, JournalManifests
  <2> QED
    BY <2>2, <2>3
<1> QED
  BY <1>2, <1>3 DEF ConvertsWhatIsBackedUp

LEMMA JournalStep ==
  JournalInv /\ [JournalNext]_journalVars => JournalInv' /\ [ConvertsWhatIsBackedUp]_journalVars
<1> SUFFICES ASSUME JournalInv, [JournalNext]_journalVars
             PROVE  JournalInv' /\ [ConvertsWhatIsBackedUp]_journalVars
  OBVIOUS
<1>1. CASE UNCHANGED journalVars
  BY <1>1 DEF journalVars, JournalInv, JournalTypeOK, LockHeld, Agreement
<1>2. ASSUME NEW i \in Ingestions, IngestionStep(i) PROVE JournalInv' /\ ConvertsWhatIsBackedUp
  BY <1>2, IngestionSafe DEF ConvertsWhatIsBackedUp
<1> QED
  BY <1>1, <1>2, MigrationSafe DEF JournalNext, MigrationStep, IngestionStep

\* Every variable has its type; a manifest is there whenever something is recorded in it.
THEOREM JournalTypeCorrect == JournalSpec => []JournalTypeOK
<1>1. JournalInv => JournalTypeOK
  BY DEF JournalInv
<1> QED
  BY <1>1, InitJournal, JournalStep, PTL DEF JournalSpec

\* A database is converted only under a manifest that lists a backup of it with its evidence of that
\* moment, and whose backups are all of the one complete generation (migrate).
THEOREM ConversionsAreBackedUp == JournalSpec => ConversionIsBackedUp
BY InitJournal, JournalStep, PTL DEF JournalSpec, ConversionIsBackedUp

=============================================================================

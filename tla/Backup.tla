------------------------------- MODULE Backup -------------------------------
(***************************************************************************)
(* Whole-root backups (scripts/cval-backup.py): an apply run takes an      *)
(* inventory of the source, copies every file into a staging directory,    *)
(* takes the inventory again, and publishes the staged tree under a name   *)
(* made from the second it started in.  --verify reads a published backup. *)
(*                                                                         *)
(* The version of a file stands for its inventory entry (inode, size,      *)
(* mtime, ctime, ...) and for its content; a write gives it a new one,     *)
(* because ctime never goes back.  The operator only declares that writers *)
(* have stopped.  One level of directories is modelled, the root, whose    *)
(* own entry changes when a file is created or deleted.                    *)
(***************************************************************************)
EXTENDS NoValue, Naturals

CONSTANTS
  LastFile,    \* files of the source, in the order of their paths
  BackupRuns,  \* invocations with --apply
  Names,       \* cval-backup-<timestamp>
  MaxChanges  \* bound on writes to the source

ASSUME BackupBounds == LastFile \in Nat \ {0} /\ MaxChanges \in Nat

Files == 1..LastFile
FileVersions == 0..MaxChanges
Trees == [Files -> FileVersions \cup {None}]
Absent == [f \in Files |-> None]

VARIABLES
  tree,        \* the source: per file its version, or None
  root,        \* version of the root directory's own entry
  changes,     \* writes so far
  past,        \* history: every tree the source has been
  backup,      \* per run: its phase and locals
  staging,     \* per run: its staging directory, or None
  final,       \* per name: the directory of that name, or None
  damaged,     \* history: names whose published files were damaged
  noreplace    \* the filesystem supports RENAME_NOREPLACE

source == <<tree, root, changes, past>>
backupVars == <<source, backup, staging, final, damaged, noreplace>>

BackupPhases == {"idle", "initial", "before", "copying", "opened", "copied", "after", "sealed",
                 "reserved", "renamed", "returned", "failed"}
Tuples == [ctime : FileVersions]
TreeInventories == [root : FileVersions, files : [Files -> Tuples \cup {None}], listed : SUBSET Files]
Directories == [by : BackupRuns, complete : BOOLEAN, copy : Trees, record : Trees]

ASSUME NoneIsNoFile == None \notin FileVersions \cup Tuples \cup Directories

NoInventory == [root |-> 0, files |-> Absent, listed |-> {}]
NewRun == [phase |-> "idle", name |-> None, at |-> 1,
           initial |-> NoInventory, before |-> NoInventory, after |-> NoInventory]

BackupInit ==
  /\ tree \in [Files -> {0, None}] /\ root = 0 /\ changes = 0 /\ past = {tree}
  /\ backup = [r \in BackupRuns |-> NewRun]
  /\ staging = [r \in BackupRuns |-> None]
  /\ final = [n \in Names |-> None] /\ damaged = {}
  /\ noreplace \in BOOLEAN

(***************************************************************************)
(* inventory_tree: stat the directory, list it, stat every name, stat the  *)
(* directory again.                                                        *)
(***************************************************************************)
Listing == {f \in Files : tree[f] # None}
Opened == [root |-> root, files |-> Absent, listed |-> Listing]

Phase(r) == backup[r].phase
Locals(r, new) == backup' = [backup EXCEPT ![r] = new]

\* TreeEntry.consistency_tuple of a file that is there: ctime tells every version from the others.
SizeOnly(v) == [ctime |-> 0]
consistency_tuple(v) == [ctime |-> v]

\* One os.stat; a listed name that has gone raises, which is Abort.
StatEntry(r, which) ==
  LET b == backup[r] IN
  /\ b.phase = which /\ b.at <= LastFile
  /\ b.at \in b[which].listed => tree[b.at] # None
  /\ Locals(r, [b EXCEPT !.at = @ + 1,
                         ![which].files[b.at] = IF b.at \in b[which].listed THEN consistency_tuple(tree[b.at])
                                                    ELSE None])
  /\ UNCHANGED <<source, staging, final, damaged, noreplace>>

Listed(r, which) == Phase(r) = which /\ backup[r].at > LastFile /\ root = backup[r][which].root

inventories_equal(left, right) == left = right

(***************************************************************************)
(* run and create_backup.                                                  *)
(***************************************************************************)
StartBackup(r, n) ==
  /\ Phase(r) = "idle"
  /\ Locals(r, [NewRun EXCEPT !.phase = "initial", !.name = n, !.initial = Opened])
  /\ UNCHANGED <<source, staging, final, damaged, noreplace>>

\* The capacity suffices; the second inventory is the one that is copied.
OpenBefore(r) ==
  /\ Listed(r, "initial")
  /\ Locals(r, [backup[r] EXCEPT !.phase = "before", !.at = 1, !.before = Opened])
  /\ UNCHANGED <<source, staging, final, damaged, noreplace>>

\* Entries other than the root's own must be those of the first inventory; the name must be free.
MakeStaging(r) ==
  LET b == backup[r] IN
  /\ Listed(r, "before") /\ inventories_equal(b.before.files, b.initial.files)
  /\ final[b.name] = None
  /\ staging' = [staging EXCEPT ![r] = [by |-> r, complete |-> FALSE, copy |-> Absent,
                                        record |-> Absent]]
  /\ Locals(r, [b EXCEPT !.phase = "copying", !.at = 1])
  /\ UNCHANGED <<source, final, damaged, noreplace>>

\* The entry is still the one of the inventory; a file created after it is not looked at.
assert_entry(r) ==
  LET b == backup[r] IN
  /\ b.at \in b.before.listed
  /\ tree[b.at] # None /\ consistency_tuple(tree[b.at]) = b.before.files[b.at]

OpenFile(r) ==
  /\ Phase(r) = "copying" /\ assert_entry(r)
  /\ Locals(r, [backup[r] EXCEPT !.phase = "opened"])
  /\ UNCHANGED <<source, staging, final, damaged, noreplace>>

\* The copy is of what is there by now; of a file deleted since, it could only be aborted.
CopyFile(r) ==
  LET b == backup[r] IN
  /\ b.phase = "opened" /\ tree[b.at] # None
  /\ staging' = [staging EXCEPT ![r].copy[b.at] = tree[b.at]]
  /\ Locals(r, [b EXCEPT !.phase = "copied"])
  /\ UNCHANGED <<source, final, damaged, noreplace>>

\* Checks of the descriptor and of the source's checksum after the copy.
RevalidateFile(r) ==
  LET b == backup[r] IN
  /\ b.phase = "copied" /\ assert_entry(r)
  /\ Locals(r, [b EXCEPT !.phase = "copying", !.at = @ + 1])
  /\ UNCHANGED <<source, staging, final, damaged, noreplace>>

SkipAbsent(r) ==
  LET b == backup[r] IN
  /\ b.phase = "copying" /\ b.at \in Files \ b.before.listed
  /\ Locals(r, [b EXCEPT !.at = @ + 1])
  /\ UNCHANGED <<source, staging, final, damaged, noreplace>>

OpenAfter(r) ==
  /\ Phase(r) = "copying" /\ backup[r].at > LastFile
  /\ Locals(r, [backup[r] EXCEPT !.phase = "after", !.at = 1, !.after = Opened])
  /\ UNCHANGED <<source, staging, final, damaged, noreplace>>

\* The inventories agree: manifest.json records the copies' checksums.
Seal(r) ==
  LET b == backup[r] IN
  /\ Listed(r, "after") /\ b.before.root = b.after.root
  /\ inventories_equal(b.before.files, b.after.files)
  /\ staging' = [staging EXCEPT ![r].complete = TRUE, ![r].record = staging[r].copy]
  /\ Locals(r, [b EXCEPT !.phase = "sealed"])
  /\ UNCHANGED <<source, final, damaged, noreplace>>

(***************************************************************************)
(* _publish_staging: one rename that never replaces; without the system    *)
(* call, a reserved empty directory that rename(2) may replace.            *)
(***************************************************************************)
MoveIntoPlace(r) ==
  /\ final' = [final EXCEPT ![backup[r].name] = staging[r]]
  /\ staging' = [staging EXCEPT ![r] = None]

Publish(r) ==
  /\ Phase(r) = "sealed" /\ noreplace /\ final[backup[r].name] = None
  /\ MoveIntoPlace(r)
  /\ Locals(r, [backup[r] EXCEPT !.phase = "renamed"])
  /\ UNCHANGED <<source, damaged, noreplace>>

Reserve(r) ==
  /\ Phase(r) = "sealed" /\ ~noreplace /\ final[backup[r].name] = None
  /\ final' = [final EXCEPT ![backup[r].name] =
                 [by |-> r, complete |-> FALSE, copy |-> Absent, record |-> Absent]]
  /\ Locals(r, [backup[r] EXCEPT !.phase = "reserved"])
  /\ UNCHANGED <<source, staging, damaged, noreplace>>

Reserved(d, r) == d # None /\ d.by = r /\ ~d.complete
Published(d, r) == d # None /\ d.by = r /\ d.complete

RenameOverReservation(r) ==
  /\ Phase(r) = "reserved" /\ Reserved(final[backup[r].name], r)
  /\ MoveIntoPlace(r)
  /\ Locals(r, [backup[r] EXCEPT !.phase = "renamed"])
  /\ UNCHANGED <<source, damaged, noreplace>>

Return(r) ==
  /\ Phase(r) = "renamed" /\ Published(final[backup[r].name], r)
  /\ Locals(r, [backup[r] EXCEPT !.phase = "returned"])
  /\ UNCHANGED <<source, staging, final, damaged, noreplace>>

\* An error or SIGINT or SIGTERM, raised as an exception.  What is under the final name goes only
\* if it is this run's own; a signal just before `renamed` or `reservation_fd` is assigned leaves it.
CleanupAny(r) == \E d \in {final[backup[r].name], None} : final' = [final EXCEPT ![backup[r].name] = d]
CleanupFinal(r) ==
  LET n == backup[r].name IN
  \/ final' = final
  \/ /\ \/ Phase(r) = "reserved" /\ Reserved(final[n], r)
        \/ Phase(r) = "renamed" /\ ~noreplace /\ Published(final[n], r)
     /\ final' = [final EXCEPT ![n] = None]

Abort(r) ==
  /\ Phase(r) \notin {"idle", "returned", "failed"}
  /\ CleanupFinal(r)
  /\ staging' = [staging EXCEPT ![r] = None]
  /\ Locals(r, [NewRun EXCEPT !.phase = "failed"])
  /\ UNCHANGED <<source, damaged, noreplace>>

\* SIGKILL or a reboot: nothing is cleaned up.
Die(r) ==
  /\ Phase(r) \notin {"idle", "returned", "failed"}
  /\ Locals(r, [NewRun EXCEPT !.phase = "failed"])
  /\ UNCHANGED <<source, staging, final, damaged, noreplace>>

(***************************************************************************)
(* Writers that have not stopped, and faults of the destination.           *)
(***************************************************************************)
ChangeFile(f) ==
  /\ changes < MaxChanges /\ changes' = changes + 1
  /\ \E new \in {changes', None} :
       /\ new # tree[f] /\ tree' = [tree EXCEPT ![f] = new]
       /\ root' = IF (new = None) # (tree[f] = None) THEN changes' ELSE root
  /\ past' = past \cup {tree'}
  /\ UNCHANGED <<backup, staging, final, damaged, noreplace>>

Damage(n, f) ==
  /\ final[n] # None /\ final[n].copy[f] # None /\ n \notin damaged
  /\ final' = [final EXCEPT ![n].copy[f] = None] /\ damaged' = damaged \cup {n}
  /\ UNCHANGED <<source, backup, staging, noreplace>>

BackupStep(r) ==
  \/ \E n \in Names : StartBackup(r, n)
  \/ \E which \in {"initial", "before", "after"} : StatEntry(r, which)
  \/ OpenBefore(r) \/ MakeStaging(r) \/ OpenFile(r) \/ CopyFile(r) \/ RevalidateFile(r)
  \/ SkipAbsent(r) \/ OpenAfter(r)
  \/ Seal(r) \/ Publish(r) \/ Reserve(r) \/ RenameOverReservation(r) \/ Return(r)
  \/ Abort(r) \/ Die(r)

BackupNext ==
  \/ \E r \in BackupRuns : BackupStep(r)
  \/ \E f \in Files : ChangeFile(f) \/ \E n \in Names : Damage(n, f)

BackupSpec == BackupInit /\ [][BackupNext]_backupVars

-----------------------------------------------------------------------------
BackupTypeOK ==
  /\ tree \in Trees /\ root \in FileVersions /\ changes \in FileVersions /\ past \subseteq Trees
  /\ backup \in [BackupRuns -> [phase : BackupPhases, name : Names \cup {None},
                                at : 1..(LastFile + 1), initial : TreeInventories,
                                before : TreeInventories, after : TreeInventories]]
  /\ staging \in [BackupRuns -> Directories \cup {None}]
  /\ final \in [Names -> Directories \cup {None}]
  /\ damaged \subseteq Names /\ noreplace \in BOOLEAN

\* verify_backup: a manifest, exactly the files it lists, with the recorded checksums.
verify_backup(n) == final[n] # None /\ final[n].complete /\ final[n].copy = final[n].record

\* A backup that --verify accepts holds the source as it was at one instant, although the files
\* were copied one after the other while writers may not have stopped (create_backup compares the
\* inventories before and after), a run may have died anywhere, and its files may have been damaged.
VerifiedIsSnapshot == \A n \in Names : verify_backup(n) => final[n].copy \in past

\* Once a run has returned its backup, nothing this tool does changes or removes it: not a second
\* run in the same second, nor its failure, nor a signal in the fallback that has no atomic rename.
KeepsReturned ==
  \A r \in BackupRuns :
    (backup[r].phase = "returned" /\ damaged = damaged') =>
      final'[backup[r].name] = final[backup[r].name]
ReturnedBackupStays == [][KeepsReturned]_backupVars
=============================================================================

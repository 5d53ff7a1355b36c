----------------------------- MODULE PvcArchive -----------------------------
(***************************************************************************)
(* Archiving of the allowlisted legacy entries of the volume               *)
(* (scripts/cval-pvc-layout.py --plan-archive, --apply-archive,            *)
(* --rollback-archive): an operator reviews a plan, applies it under its   *)
(* digest, and may later roll it back.  Each archive directory holds the   *)
(* moved entries and manifest.json.                                        *)
(*                                                                         *)
(* A version of an entry stands for its identity (device, inode, mode,     *)
(* owner, size, mtime).  That the sources are idle is only declared, so    *)
(* somebody may still write to them.  The plan's `moved` and `restored`    *)
(* lists are written but never read, and are left out.                     *)
(***************************************************************************)
EXTENDS NoValue, Naturals

CONSTANTS
  LastEntry,  \* ARCHIVE_ENTRIES, in their order
  Archives,   \* archive names, YYYYMMDD_HHMMSS_PDT
  Operators,  \* who may run the tool
  MaxWrites  \* bound on writes by others

ASSUME ArchiveBounds == LastEntry \in Nat /\ MaxWrites \in Nat

Entries == 1..LastEntry
Versions == 0..MaxWrites

VARIABLES
  live,       \* per entry: its version under the root, or None
  stored,     \* per archive and entry: its version in the archive, or None
  made,       \* archive directories that exist
  manifest,   \* per archive: the plan and state last saved, or None
  holder,     \* holder of archives/.pvc-layout.lock, or None
  command,    \* per operator: the command it is running
  writes,     \* writes by others so far
  kept        \* history: per entry, the versions nobody else overwrote or deleted

files == <<live, stored, made, manifest>>
archiveVars == <<live, stored, made, manifest, holder, command, writes, kept>>

Plans == [Entries -> Versions \cup {None}]
Manifests == [state : {"in_progress", "failed", "complete", "rolled_back"}, plan : Plans]
Phases == {"idle", "reviewed", "planned", "locked", "made", "moving", "checked", "moved",
           "finding", "restoring", "restore_checked"}
Holding == {"locked", "made", "moving", "checked", "moved", "finding", "restoring",
            "restore_checked"}
\* Inside the try block whose handler saves a failed manifest.
Guarded == {"made", "moving", "checked", "moved"}

ASSUME NoneIsNoData == None \notin Nat \cup Operators \cup Manifests

NoPlan == [e \in Entries |-> None]
Command(phase, a, plan, todo) == [phase |-> phase, archive |-> a, plan |-> plan, todo |-> todo]
NoCommand == Command("idle", None, NoPlan, {})

ArchiveInit ==
  /\ live \in [Entries -> {0, None}]
  /\ stored = [a \in Archives |-> NoPlan] /\ made = {}
  /\ manifest = [a \in Archives |-> None]
  /\ holder = None
  /\ command = [o \in Operators |-> NoCommand]
  /\ writes = 0
  /\ kept = [e \in Entries |-> IF live[e] = None THEN {} ELSE {live[e]}]

Become(o, new) == command' = [command EXCEPT ![o] = new]
Enter(o, phase) == Become(o, [command[o] EXCEPT !.phase = phase])
Planned(plan) == {e \in Entries : plan[e] # None}

(***************************************************************************)
(* Review and apply.  archive_plan records the entries that are present    *)
(* with their identities, and raises when the name is taken, when nothing  *)
(* is there, or when receipts cannot be shown to leave the sources alone.  *)
(***************************************************************************)
archive_plan(a) == live
CanPlan(a) == a \notin made /\ Planned(live) # {}

ReviewPlan(o, a) ==
  /\ command[o].phase = "idle" /\ CanPlan(a)
  /\ Become(o, Command("reviewed", a, archive_plan(a), {}))
  /\ UNCHANGED <<files, holder, writes, kept>>

\* apply_archive computes the plan again and compares it with the reviewed digest.
StartApply(o) ==
  /\ command[o].phase = "reviewed"
  /\ CanPlan(command[o].archive) /\ archive_plan(command[o].archive) = command[o].plan
  /\ Enter(o, "planned")
  /\ UNCHANGED <<files, holder, writes, kept>>

\* locked_archive never waits; the plan is compared once more under the lock.
LockForApply(o) ==
  /\ command[o].phase = "planned" /\ holder = None
  /\ CanPlan(command[o].archive) /\ archive_plan(command[o].archive) = command[o].plan
  /\ holder' = o /\ Enter(o, "locked")
  /\ UNCHANGED <<files, writes, kept>>

\* A changed plan, a busy lock, unreadable or referencing receipts: nothing was moved.
Refuse(o) ==
  /\ command[o].phase \in {"reviewed", "planned"}
  /\ Become(o, NoCommand)
  /\ UNCHANGED <<files, holder, writes, kept>>

MakeArchive(o) ==
  /\ command[o].phase = "locked"
  /\ made' = made \cup {command[o].archive} /\ Enter(o, "made")
  /\ UNCHANGED <<live, stored, manifest, holder, writes, kept>>

save_manifest(a, state, plan) ==
  manifest' = [manifest EXCEPT ![a] = [state |-> state, plan |-> plan]]

StartUnsaved(o) ==
  LET c == command[o] IN
  /\ c.phase = "made"
  /\ Become(o, Command("moving", c.archive, c.plan, Planned(c.plan)))
  /\ UNCHANGED <<files, holder, writes, kept>>

SaveInProgress(o) ==
  LET c == command[o] IN
  /\ c.phase = "made"
  /\ save_manifest(c.archive, "in_progress", c.plan)
  /\ Become(o, Command("moving", c.archive, c.plan, Planned(c.plan)))
  /\ UNCHANGED <<live, stored, made, holder, writes, kept>>

\* The next entry in the order of the plan.
Turn(o, e) == e \in command[o].todo /\ \A f \in command[o].todo : e <= f

CheckSource(o, e) ==
  /\ command[o].phase = "moving" /\ Turn(o, e)
  /\ live[e] = command[o].plan[e]
  /\ Enter(o, "checked")
  /\ UNCHANGED <<files, holder, writes, kept>>

RenameOver(a, e, inward) ==
  LET from == IF inward THEN live[e] ELSE stored[a][e] IN
  /\ from # None
  /\ live' = [live EXCEPT ![e] = IF inward THEN None ELSE from]
  /\ stored' = [stored EXCEPT ![a][e] = IF inward THEN from ELSE None]

\* renameat2 with RENAME_NOREPLACE: whatever the name denotes now, onto a free name.
rename_noreplace(a, e, inward) ==
  IF inward
    THEN /\ live[e] # None /\ stored[a][e] = None
         /\ stored' = [stored EXCEPT ![a][e] = live[e]]
         /\ live' = [live EXCEPT ![e] = None]
    ELSE /\ stored[a][e] # None /\ live[e] = None
         /\ live' = [live EXCEPT ![e] = stored[a][e]]
         /\ stored' = [stored EXCEPT ![a][e] = None]

MoveEntry(o, e) ==
  /\ command[o].phase = "checked" /\ Turn(o, e)
  /\ rename_noreplace(command[o].archive, e, TRUE)
  /\ Enter(o, "moved")
  /\ UNCHANGED <<made, manifest, holder, writes, kept>>

ConfirmMove(o, e) ==
  LET c == command[o] IN
  /\ c.phase = "moved" /\ Turn(o, e)
  /\ stored[c.archive][e] = c.plan[e]
  /\ Become(o, Command("moving", c.archive, c.plan, c.todo \ {e}))
  /\ UNCHANGED <<files, holder, writes, kept>>

FinishApply(o) ==
  LET c == command[o] IN
  /\ c.phase = "moving" /\ c.todo = {}
  /\ save_manifest(c.archive, "complete", c.plan)
  /\ holder' = None /\ Become(o, NoCommand)
  /\ UNCHANGED <<live, stored, made, writes, kept>>

\* A changed identity, a vanished source or an I/O error: except Exception saves it and raises.
FailApply(o) ==
  LET c == command[o] IN
  /\ c.phase \in Guarded
  /\ save_manifest(c.archive, "failed", c.plan)
  /\ holder' = None /\ Become(o, NoCommand)
  /\ UNCHANGED <<live, stored, made, writes, kept>>

(***************************************************************************)
(* Roll back.  All entries of the saved plan are looked at before any is   *)
(* moved; rollback_archive has no handler, so an error leaves the manifest *)
(* as it was and the entries restored so far in place.                     *)
(***************************************************************************)
AtHome(a, e) == live[e] = manifest[a].plan[e] /\ stored[a][e] = None
Away(a, e) == live[e] = None /\ stored[a][e] = manifest[a].plan[e]

Restorable(a) ==
  manifest[a] # None /\ \A e \in Planned(manifest[a].plan) : AtHome(a, e) \/ Away(a, e)

LockForRollback(o, a) ==
  /\ command[o].phase = "idle" /\ a \in made /\ holder = None
  /\ holder' = o /\ Become(o, Command("finding", a, NoPlan, {}))
  /\ UNCHANGED <<files, writes, kept>>

CheckRollback(o) ==
  LET a == command[o].archive IN
  /\ command[o].phase = "finding" /\ Restorable(a)
  /\ Become(o, Command("restoring", a, manifest[a].plan,
                       {e \in Planned(manifest[a].plan) : Away(a, e)}))
  /\ UNCHANGED <<files, holder, writes, kept>>

\* for entry in reversed(entries)
TurnBack(o, e) == e \in command[o].todo /\ \A f \in command[o].todo : f <= e

CheckArchived(o, e) ==
  LET c == command[o] IN
  /\ c.phase = "restoring" /\ TurnBack(o, e)
  /\ stored[c.archive][e] = c.plan[e]
  /\ Enter(o, "restore_checked")
  /\ UNCHANGED <<files, holder, writes, kept>>

RestoreEntry(o, e) ==
  LET c == command[o] IN
  /\ c.phase = "restore_checked" /\ TurnBack(o, e)
  /\ rename_noreplace(c.archive, e, FALSE)
  /\ Become(o, Command("restoring", c.archive, c.plan, c.todo \ {e}))
  /\ UNCHANGED <<made, manifest, holder, writes, kept>>

FinishRollback(o) ==
  LET c == command[o] IN
  /\ c.phase = "restoring" /\ c.todo = {}
  /\ save_manifest(c.archive, "rolled_back", c.plan)
  /\ holder' = None /\ Become(o, NoCommand)
  /\ UNCHANGED <<live, stored, made, writes, kept>>

\* The process dies anywhere, or a rollback raises: the lock goes with its descriptor.
Crash(o) ==
  /\ command[o].phase # "idle"
  /\ holder' = IF holder = o THEN None ELSE holder
  /\ Become(o, NoCommand)
  /\ UNCHANGED <<files, writes, kept>>

\* Somebody else changes, replaces, creates or deletes an entry.
Write(e) ==
  /\ writes < MaxWrites /\ writes' = writes + 1
  /\ \E new \in {writes', None} :
       /\ new # live[e] /\ live' = [live EXCEPT ![e] = new]
       /\ kept' = [kept EXCEPT ![e] = (@ \ {live[e]}) \cup ({new} \ {None})]
  /\ UNCHANGED <<stored, made, manifest, holder, command>>

Step(o) ==
  \/ \E a \in Archives : ReviewPlan(o, a) \/ LockForRollback(o, a)
  \/ StartApply(o) \/ LockForApply(o) \/ Refuse(o) \/ MakeArchive(o) \/ SaveInProgress(o)
  \/ \E e \in Entries : CheckSource(o, e) \/ MoveEntry(o, e) \/ ConfirmMove(o, e)
                        \/ CheckArchived(o, e) \/ RestoreEntry(o, e)
  \/ FinishApply(o) \/ FailApply(o) \/ CheckRollback(o) \/ FinishRollback(o) \/ Crash(o)

ArchiveNext == (\E o \in Operators : Step(o)) \/ (\E e \in Entries : Write(e))
ArchiveSpec == ArchiveInit /\ [][ArchiveNext]_archiveVars

-----------------------------------------------------------------------------
Commands == [phase : Phases, archive : Archives \cup {None}, plan : Plans,
             todo : SUBSET Entries]

ArchiveTypeOK ==
  /\ live \in Plans /\ stored \in [Archives -> Plans] /\ made \subseteq Archives
  /\ manifest \in [Archives -> Manifests \cup {None}]
  /\ holder \in Operators \cup {None} /\ command \in [Operators -> Commands]
  /\ writes \in Versions /\ kept \in [Entries -> SUBSET Versions]

In(a, e, v) == stored[a][e] = v

\* Whatever the tool is doing, and wherever it died, every version of an entry that nobody else
\* overwrote or deleted exists, in one place only: under its own name, or in one archive whose
\* saved manifest lists the entry, so that a rollback can find it (apply_archive saves the plan
\* before the first move, and rename_noreplace never replaces).
EvidenceIsAccounted ==
  \A e \in Entries : \A v \in kept[e] :
    /\ live[e] = v \/ \E a \in Archives : In(a, e, v)
    /\ \A a \in Archives : In(a, e, v) =>
         /\ live[e] # v
         /\ \A b \in Archives \ {a} : ~In(b, e, v)
         /\ manifest[a] # None /\ manifest[a].plan[e] # None

\* As long as the sources are idle as declared, whatever was interrupted can be taken back: while
\* an archive holds anything, some archive that holds something passes the checks of
\* rollback_archive, whose first refusal refuses the whole archive.  With a second archive planned
\* after an interrupted rollback of the first, the order in which they are taken back matters.
RollbackIsPossible ==
  (writes = 0 /\ \E a \in Archives : Planned(stored[a]) # {}) =>
    \E a \in Archives : Planned(stored[a]) # {} /\ Restorable(a)
=============================================================================

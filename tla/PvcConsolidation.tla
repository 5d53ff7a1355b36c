-------------------------- MODULE PvcConsolidation --------------------------
(***************************************************************************)
(* Consolidation of the evidence directories under their new names         *)
(* (scripts/cval-pvc-layout.py --plan-consolidate, --apply-consolidate,    *)
(* --rollback-consolidate).  An apply needs a verified backup that still   *)
(* has the inventory of the source; beside the backup it makes one         *)
(* transaction directory, <backup>-layout, with the manifest and with the  *)
(* duplicates it took out of the way.                                      *)
(*                                                                         *)
(* An entry stands for one operation of a plan.  A nested entry lies in a  *)
(* source directory whose destination exists already: the directories are  *)
(* merged, and the emptied source directory is removed.  Any other entry   *)
(* moves under a parent directory that may have to be created.  A version  *)
(* stands for a tree_fingerprint; versions 0 and 1 have the same content   *)
(* and metadata and differ in their inode.                                 *)
(***************************************************************************)
EXTENDS NoValue, Naturals

CONSTANTS
  LastOperation,  \* entries, in the order of the plan
  Nested,         \* those in the merged source directory
  Backups,        \* verified backups, all in one directory
  Movers,         \* operators who may run the tool
  MaxEdits       \* bound on writes by others

ASSUME ConsolidationBounds ==
  LastOperation \in Nat /\ Nested \subseteq 1..LastOperation /\ MaxEdits \in Nat

Operations == 1..LastOperation
Tops == Operations \ Nested
Fingerprints == 0..(MaxEdits + 1)
Same(v, w) == v = w \/ {v, w} \subseteq {0, 1}

VARIABLES
  old, new,     \* per entry: its version under the old and the new name, or None
  oldDir,       \* the merged source directory exists
  newParent,    \* the parent of the other destinations exists
  original,     \* history: <<old, new, oldDir, newParent>> at the start
  snapshot,     \* per backup: old and new as it holds them, or None
  fresh,        \* backups whose inventory is that of the source
  transaction,  \* per backup: its transaction directory, or None
  taken,        \* history, per backup and entry: the version moved and not moved back, or None
  consolidationLock,
  mover,        \* per operator: the command it is running
  edits,
  atomicRename  \* the filesystem supports RENAME_NOREPLACE

layout == <<old, new, oldDir, newParent>>
consolidationVars == <<layout, original, snapshot, fresh, transaction, taken, consolidationLock,
                       mover, edits, atomicRename>>

Slots == [Operations -> Fingerprints \cup {None}]
Nothing == [e \in Operations |-> None]
Plan == [move : Slots, duplicate : Slots, twin : Slots, merge : BOOLEAN, create : BOOLEAN]
States == {"none", "in_progress", "failed", "complete", "rolled_back"}
EmptyPlan == [move |-> Nothing, duplicate |-> Nothing, twin |-> Nothing, merge |-> FALSE,
              create |-> FALSE]
Snapshots == [old : Slots, new : Slots]
Transactions == [kept : Slots, state : States, plan : Plan]
ASSUME NoneIsNoEntry == None \notin Nat \cup Movers \cup Backups \cup Snapshots \cup Transactions

PlannedOperations(p) == {e \in Operations : p.move[e] # None \/ p.duplicate[e] # None}
Source(p, e) == IF p.move[e] # None THEN p.move[e] ELSE p.duplicate[e]

MoverPhases == {"idle", "verified", "locked", "made", "creating", "moving", "checked",
                "looked", "moved", "finding", "preparing", "restoring", "back_looked", "restored",
                "removing"}
InApply == {"made", "creating", "moving", "checked", "looked", "moved"}
NoMove == [phase |-> "idle", backup |-> None, plan |-> EmptyPlan, todo |-> {}]

ConsolidationInit ==
  /\ old \in [Operations -> {1, None}] /\ new \in [Operations -> {0, None}]
  /\ oldDir = \E e \in Nested : old[e] # None
  /\ newParent \in {np \in BOOLEAN : (\E e \in Tops : new[e] # None) => np}
  /\ original = layout
  /\ snapshot = [b \in Backups |-> None] /\ fresh = {}
  /\ transaction = [b \in Backups |-> None]
  /\ taken = [b \in Backups |-> Nothing]
  /\ consolidationLock = None
  /\ mover = [o \in Movers |-> NoMove]
  /\ edits = 0 /\ atomicRename \in BOOLEAN

Settled == <<original, snapshot, edits, atomicRename>>
Rest == <<Settled, taken>>
Do(o, next) == mover' = [mover EXCEPT ![o] = next]
MoverAt(o, phase) == Do(o, [mover[o] EXCEPT !.phase = phase])

(***************************************************************************)
(* The plan.  Both names in use: a duplicate if content and metadata are   *)
(* the same, else a conflict, which apply refuses.                         *)
(***************************************************************************)
consolidation_plan ==
  LET present == {e \in Operations : old[e] # None} IN
  [move |-> [e \in Operations |-> IF new[e] = None THEN old[e] ELSE None],
   duplicate |-> [e \in Operations |-> IF new[e] # None THEN old[e] ELSE None],
   twin |-> [e \in Operations |-> IF e \in present THEN new[e] ELSE None],
   merge |-> oldDir,
   create |-> ~newParent /\ present \cap Tops # {}]

Conflicts == {e \in Operations : old[e] # None /\ new[e] # None /\ ~Same(old[e], new[e])}
CanApply(p) ==
  Conflicts = {} /\ (PlannedOperations(p) # {} \/ p.merge)

\* cval-backup.py has made and verified a backup of the whole source, outside of it.
TakeBackup(b) ==
  /\ snapshot[b] = None
  /\ snapshot' = [snapshot EXCEPT ![b] = [old |-> old, new |-> new]]
  /\ fresh' = fresh \cup {b}
  /\ UNCHANGED <<layout, original, transaction, taken, consolidationLock, mover, edits,
                 atomicRename>>

\* require_source_inventory: ctime is part of the inventory, so no earlier layout is accepted again.
MatchesBackup(b) == b \in fresh

\* The reviewed digest only lets apply refuse: it goes on with the plan of this moment or not at all.
VerifyConsolidation(o, b) ==
  /\ mover[o].phase = "idle" /\ CanApply(consolidation_plan)
  /\ snapshot[b] # None /\ MatchesBackup(b)
  /\ Do(o, [NoMove EXCEPT !.phase = "verified", !.backup = b, !.plan = consolidation_plan])
  /\ UNCHANGED <<layout, Rest, fresh, transaction, consolidationLock>>

LockAndRecheck(o) ==
  /\ mover[o].phase = "verified" /\ consolidationLock = None
  /\ MatchesBackup(mover[o].backup) /\ mover[o].plan = consolidation_plan
  /\ consolidationLock' = o /\ MoverAt(o, "locked")
  /\ UNCHANGED <<layout, Rest, fresh, transaction>>

\* A changed plan, a conflict, a stale backup or a busy lock: nothing was changed.
RefuseConsolidation(o) ==
  /\ mover[o].phase = "verified"
  /\ Do(o, NoMove)
  /\ UNCHANGED <<layout, Rest, fresh, transaction, consolidationLock>>

\* transaction.mkdir: one transaction for each backup.
MakeTransaction(o) ==
  LET b == mover[o].backup IN
  /\ mover[o].phase = "locked" /\ transaction[b] = None
  /\ transaction' = [transaction EXCEPT ![b] = [kept |-> Nothing, state |-> "none",
                                                plan |-> EmptyPlan]]
  /\ MoverAt(o, "made")
  /\ UNCHANGED <<layout, Rest, fresh, consolidationLock>>

save_transaction(b, state, p) ==
  transaction' = [transaction EXCEPT ![b].state = state, ![b].plan = p]

RecordPlan(o) ==
  /\ mover[o].phase = "made"
  /\ save_transaction(mover[o].backup, "in_progress", mover[o].plan)
  /\ MoverAt(o, "creating")
  /\ UNCHANGED <<layout, Rest, fresh, consolidationLock>>

\* create_directories; mkdir of one that exists by now raises.
CreateParents(o) ==
  LET c == mover[o] IN
  /\ c.phase = "creating" /\ (c.plan.create => ~newParent)
  /\ newParent' = (newParent \/ c.plan.create)
  /\ fresh' = IF c.plan.create THEN {} ELSE fresh
  /\ Do(o, [c EXCEPT !.phase = "moving", !.todo = PlannedOperations(c.plan)])
  /\ UNCHANGED <<old, new, oldDir, Rest, transaction, consolidationLock>>

TurnOf(o, e) == e \in mover[o].todo /\ \A f \in mover[o].todo : e <= f
TurnBackOf(o, e) == e \in mover[o].todo /\ \A f \in mover[o].todo : f <= e

CheckOperation(o, e) ==
  LET p == mover[o].plan IN
  /\ mover[o].phase = "moving" /\ TurnOf(o, e)
  /\ old[e] = Source(p, e)
  /\ p.duplicate[e] # None => new[e] = p.twin[e]
  /\ MoverAt(o, "checked")
  /\ UNCHANGED <<layout, Rest, fresh, transaction, consolidationLock>>

(***************************************************************************)
(* move_entry: a rename that never replaces, or, without that system call, *)
(* a look at the destination and then a plain rename.                      *)
(***************************************************************************)
Target(o, e) == IF mover[o].plan.move[e] # None THEN new[e] ELSE transaction[mover[o].backup].kept[e]

LookAtTarget(o, e) ==
  /\ mover[o].phase = "checked" /\ ~atomicRename /\ TurnOf(o, e) /\ Target(o, e) = None
  /\ MoverAt(o, "looked")
  /\ UNCHANGED <<layout, Rest, fresh, transaction, consolidationLock>>

MoveOperation(o, e) ==
  LET b == mover[o].backup
      move == mover[o].plan.move[e] # None IN
  /\ \/ mover[o].phase = "checked" /\ atomicRename /\ Target(o, e) = None
     \/ mover[o].phase = "looked"
  /\ TurnOf(o, e) /\ old[e] # None
  /\ new' = IF move THEN [new EXCEPT ![e] = old[e]] ELSE new
  /\ transaction' = IF move THEN transaction ELSE [transaction EXCEPT ![b].kept[e] = old[e]]
  /\ old' = [old EXCEPT ![e] = None] /\ fresh' = {}
  /\ taken' = [taken EXCEPT ![b][e] = old[e]]
  /\ MoverAt(o, "moved")
  /\ UNCHANGED <<oldDir, newParent, Settled, consolidationLock>>

\* Faulty variant: the moved entry is not compared with the plan.
TrustOperation(o, e) ==
  LET c == mover[o] IN
  /\ c.phase = "moved" /\ TurnOf(o, e)
  /\ Do(o, [c EXCEPT !.phase = "moving", !.todo = @ \ {e}])
  /\ UNCHANGED <<layout, Rest, fresh, transaction, consolidationLock>>

ConfirmOperation(o, e) ==
  LET c == mover[o] IN
  /\ c.phase = "moved" /\ TurnOf(o, e) /\ Target(o, e) = Source(c.plan, e)
  /\ Do(o, [c EXCEPT !.phase = "moving", !.todo = @ \ {e}])
  /\ UNCHANGED <<layout, Rest, fresh, transaction, consolidationLock>>

\* rmdir of the merged directory, which fails unless it is empty; then the protected tree is
\* compared and the transaction is complete.
RemoveMerged(o) ==
  LET c == mover[o] IN
  /\ c.phase = "moving" /\ c.todo = {} /\ c.plan.merge /\ oldDir
  /\ \A e \in Nested : old[e] = None
  /\ oldDir' = FALSE /\ fresh' = {}
  /\ UNCHANGED <<old, new, newParent, Rest, transaction, consolidationLock, mover>>

Complete(o) ==
  LET c == mover[o] IN
  /\ c.phase = "moving" /\ c.todo = {} /\ (c.plan.merge => ~oldDir)
  /\ save_transaction(c.backup, "complete", c.plan)
  /\ consolidationLock' = None /\ Do(o, NoMove)
  /\ UNCHANGED <<layout, Rest, fresh>>

\* Anything that raises inside the try block: the manifest says so, nothing is moved back.
FailConsolidation(o) ==
  LET c == mover[o] IN
  /\ c.phase \in InApply
  /\ save_transaction(c.backup, "failed", c.plan)
  /\ consolidationLock' = None /\ Do(o, NoMove)
  /\ UNCHANGED <<layout, Rest, fresh>>

(***************************************************************************)
(* Rollback: every operation is looked at, then directories are made, what *)
(* was moved is moved back in reverse, and created parents are removed.    *)
(***************************************************************************)
Displaced(b, e) ==
  IF transaction[b].plan.move[e] # None THEN new[e] ELSE transaction[b].kept[e]

InPlace(b, e) == old[e] = Source(transaction[b].plan, e) /\ Displaced(b, e) = None
Moved(b, e) == old[e] = None /\ Displaced(b, e) = Source(transaction[b].plan, e)

Reversible(b) == \A e \in PlannedOperations(transaction[b].plan) : InPlace(b, e) \/ Moved(b, e)

LockToRestore(o, b) ==
  /\ mover[o].phase = "idle" /\ transaction[b] # None /\ consolidationLock = None
  /\ consolidationLock' = o /\ Do(o, [NoMove EXCEPT !.phase = "finding", !.backup = b])
  /\ UNCHANGED <<layout, Rest, fresh, transaction>>

CheckRestore(o) ==
  LET b == mover[o].backup
      p == transaction[b].plan IN
  /\ mover[o].phase = "finding" /\ transaction[b].state # "none"
  /\ Reversible(b)
  /\ Do(o, [mover[o] EXCEPT !.phase = "preparing", !.plan = p,
                            !.todo = {e \in PlannedOperations(p) : Moved(b, e)}])
  /\ UNCHANGED <<layout, Rest, fresh, transaction, consolidationLock>>

RecreateMerged(o) ==
  LET create == mover[o].plan.merge /\ ~oldDir IN
  /\ mover[o].phase = "preparing"
  /\ oldDir' = (oldDir \/ create) /\ fresh' = IF create THEN {} ELSE fresh
  /\ MoverAt(o, "restoring")
  /\ UNCHANGED <<old, new, newParent, Rest, transaction, consolidationLock>>

LookAtOriginal(o, e) ==
  /\ mover[o].phase = "restoring" /\ ~atomicRename /\ TurnBackOf(o, e) /\ old[e] = None
  /\ MoverAt(o, "back_looked")
  /\ UNCHANGED <<layout, Rest, fresh, transaction, consolidationLock>>

RestoreOperation(o, e) ==
  LET b == mover[o].backup
      move == mover[o].plan.move[e] # None IN
  /\ \/ mover[o].phase = "restoring" /\ atomicRename /\ old[e] = None
     \/ mover[o].phase = "back_looked"
  /\ TurnBackOf(o, e) /\ Displaced(b, e) # None /\ (e \in Nested => oldDir)
  /\ old' = [old EXCEPT ![e] = Displaced(b, e)]
  /\ new' = IF move THEN [new EXCEPT ![e] = None] ELSE new
  /\ transaction' = IF move THEN transaction ELSE [transaction EXCEPT ![b].kept[e] = None]
  /\ taken' = [taken EXCEPT ![b][e] = None] /\ fresh' = {} /\ MoverAt(o, "restored")
  /\ UNCHANGED <<oldDir, newParent, Settled, consolidationLock>>

ConfirmRestore(o, e) ==
  LET c == mover[o] IN
  /\ c.phase = "restored" /\ TurnBackOf(o, e) /\ old[e] = Source(c.plan, e)
  /\ Do(o, [c EXCEPT !.phase = "restoring", !.todo = @ \ {e}])
  /\ UNCHANGED <<layout, Rest, fresh, transaction, consolidationLock>>

LeaveParents(o) ==
  /\ mover[o].phase = "restoring" /\ mover[o].todo = {}
  /\ MoverAt(o, "removing")
  /\ UNCHANGED <<layout, Rest, fresh, transaction, consolidationLock>>

\* Modes, owners and times of the merged directory; rmdir of a created parent that still exists.
RemoveParents(o) ==
  LET c == mover[o]
      remove == c.plan.create /\ newParent IN
  /\ c.phase = "restoring" /\ c.todo = {}
  /\ remove => \A e \in Tops : new[e] = None
  /\ newParent' = (newParent /\ ~remove)
  /\ fresh' = IF remove \/ c.plan.merge THEN {} ELSE fresh
  /\ MoverAt(o, "removing")
  /\ UNCHANGED <<old, new, oldDir, Rest, transaction, consolidationLock>>

FinishRestore(o) ==
  LET c == mover[o] IN
  /\ c.phase = "removing"
  /\ save_transaction(c.backup, "rolled_back", c.plan)
  /\ consolidationLock' = None /\ Do(o, NoMove)
  /\ UNCHANGED <<layout, Rest, fresh>>

\* A crash anywhere, or a rollback that refuses or raises and leaves the manifest as it was.
StopMover(o) ==
  /\ mover[o].phase # "idle"
  /\ consolidationLock' = IF consolidationLock = o THEN None ELSE consolidationLock
  /\ Do(o, NoMove)
  /\ UNCHANGED <<layout, Rest, fresh, transaction>>

\* A source that is not idle: somebody changes, creates or deletes an entry.
Edit(e) ==
  /\ edits < MaxEdits /\ edits' = edits + 1 /\ fresh' = {}
  /\ \E v \in {edits' + 1, None} :
       \/ /\ v # old[e] /\ (e \in Nested => oldDir)
          /\ old' = [old EXCEPT ![e] = v] /\ UNCHANGED new
       \/ /\ v # new[e] /\ (e \in Tops => newParent)
          /\ new' = [new EXCEPT ![e] = v] /\ UNCHANGED old
  /\ UNCHANGED <<oldDir, newParent, original, snapshot, transaction, taken, consolidationLock,
                 mover, atomicRename>>

MoverStep(o) ==
  \/ \E b \in Backups : VerifyConsolidation(o, b) \/ LockToRestore(o, b)
  \/ LockAndRecheck(o) \/ RefuseConsolidation(o) \/ MakeTransaction(o)
  \/ RecordPlan(o) \/ CreateParents(o) \/ RemoveMerged(o) \/ Complete(o) \/ FailConsolidation(o)
  \/ \E e \in Operations :
       \/ CheckOperation(o, e) \/ LookAtTarget(o, e) \/ MoveOperation(o, e)
       \/ ConfirmOperation(o, e) \/ LookAtOriginal(o, e) \/ RestoreOperation(o, e)
       \/ ConfirmRestore(o, e)
  \/ CheckRestore(o) \/ RecreateMerged(o) \/ RemoveParents(o) \/ FinishRestore(o) \/ StopMover(o)

ConsolidationNext ==
  \/ \E o \in Movers : MoverStep(o)
  \/ \E b \in Backups : TakeBackup(b)
  \/ \E e \in Operations : Edit(e)

ConsolidationSpec == ConsolidationInit /\ [][ConsolidationNext]_consolidationVars

-----------------------------------------------------------------------------
ConsolidationTypeOK ==
  /\ old \in Slots /\ new \in Slots /\ oldDir \in BOOLEAN /\ newParent \in BOOLEAN
  /\ original \in Slots \X Slots \X BOOLEAN \X BOOLEAN
  /\ snapshot \in [Backups -> Snapshots \cup {None}] /\ fresh \subseteq Backups
  /\ transaction \in [Backups -> Transactions \cup {None}] /\ taken \in [Backups -> Slots]
  /\ consolidationLock \in Movers \cup {None} /\ edits \in 0..MaxEdits /\ atomicRename \in BOOLEAN
  /\ mover \in [Movers -> [phase : MoverPhases, backup : Backups \cup {None}, plan : Plan,
                           todo : SUBSET Operations]]

Recorded == {b \in Backups : transaction[b] # None /\ transaction[b].state # "none"}
Pending == {b \in Recorded : transaction[b].state # "rolled_back"}

\* While the sources are idle as declared, some transaction that is not rolled back passes the checks
\* of rollback_consolidation, and when all are rolled back the layout is exactly the original one: all
\* entries under their old names, duplicates beside their twins, merged directories there again and
\* created parents gone.  It holds whatever crashed and was retried, when a second transaction
\* consolidated what an interrupted one had left, and in whatever order they are taken back.
ConsolidationIsReversible ==
  edits = 0 => IF Pending = {} THEN layout = original ELSE \E b \in Pending : Reversible(b)

\* An entry that a consolidation moved is in the verified backup beside which its transaction lies, in
\* the version that was moved, although the source may have changed after the backup, after the
\* review, or in an earlier transaction.  One is excepted: an entry that somebody edits between the
\* last look at it and its rename is moved in a version no backup holds.  Its confirmation fails, so
\* that the command moves nothing after it and its transaction is never complete.
MovesAreBackedUp ==
  \A b \in Backups, e \in Operations :
    \/ taken[b][e] = None
    \/ taken[b][e] = snapshot[b].old[e]
    \/ /\ transaction[b].state # "complete"
       /\ \A f \in Operations : f > e => taken[b][f] = None

=============================================================================

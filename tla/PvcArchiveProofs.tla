-------------------------- MODULE PvcArchiveProofs --------------------------
(***************************************************************************)
(* For any entries, archives, operators and writes by others: PvcArchive   *)
(* keeps its types; every version of an entry that nobody else overwrote   *)
(* is in one place from which it can be found; and while nobody else       *)
(* writes, what archives hold can be taken back.                           *)
(*                                                                         *)
(* EvidenceIsAccounted is not inductive: that a moved entry is listed by   *)
(* the saved manifest of its archive rests on who holds the lock and on    *)
(* what that command saved before (HolderIsBusy, SavedFirst), and that a   *)
(* new version is in no archive rests on FreshVersions.  Nor is            *)
(* RollbackIsPossible: that some archive can be taken back first needs it  *)
(* of every set of the archives that hold something (SomeIsLast).          *)
(***************************************************************************)
EXTENDS PvcArchive, TLAPS

\* The lock is held by the one command that is past locking.
HolderIsBusy == \A o \in Operators : command[o].phase \in Holding <=> holder = o

Saved == {"moving", "checked", "moved", "restoring", "restore_checked"}

\* A command has an archive, which is new until it is made; the plan that it follows was saved.
FollowsSaved(o) ==
  LET c == command[o] IN
    /\ c.phase # "idle" => c.archive \in Archives
    /\ c.phase = "locked" => c.archive \notin made
    /\ c.phase = "made" => c.archive \in made /\ manifest[c.archive] = None
    /\ c.phase \in Saved => /\ manifest[c.archive] # None
                            /\ manifest[c.archive].plan = c.plan
                            /\ c.todo \subseteq Planned(c.plan)
SavedFirst == \A o \in Operators : FollowsSaved(o)

\* What an archive holds is listed by its manifest, and there is none before the directory.
ListedInManifest ==
  \A a \in Archives :
    /\ a \notin made => manifest[a] = None
    /\ \A e \in Entries :
         stored[a][e] # None => manifest[a] # None /\ manifest[a].plan[e] # None

\* No version exists before it is written.
FreshVersions ==
  \A e \in Entries :
    /\ live[e] # None => live[e] <= writes
    /\ \A v \in kept[e] : v <= writes
    /\ \A a \in Archives : stored[a][e] # None => stored[a][e] <= writes

\* A version nobody else overwrote is under its own name or in exactly one archive.
OnePlace ==
  \A e \in Entries : \A v \in kept[e] :
    /\ live[e] = v \/ \E a \in Archives : In(a, e, v)
    /\ \A a \in Archives : In(a, e, v) =>
         live[e] # v /\ \A b \in Archives \ {a} : ~In(b, e, v)

ArchiveInv ==
  /\ ArchiveTypeOK /\ HolderIsBusy /\ SavedFirst /\ ListedInManifest
  /\ FreshVersions /\ OnePlace

-----------------------------------------------------------------------------
LEMMA VersionsHaveNoNone == None \notin Versions /\ 0 \in Versions
  BY ArchiveBounds, NoneIsNoData DEF Versions

LEMMA CommandType ==
  ASSUME NEW p \in Phases, NEW a \in Archives \cup {None}, NEW plan \in Plans,
         NEW todo \in SUBSET Entries
  PROVE  Command(p, a, plan, todo) \in Commands
  BY DEF Command, Commands

LEMMA NoCommandType == NoCommand \in Commands /\ NoPlan \in Plans
  BY DEF NoCommand, NoPlan, Plans, Command, Commands, Phases

\* A command goes on with another command: its operator's type is kept.
LEMMA BecomeType ==
  ASSUME ArchiveTypeOK, NEW o \in Operators, NEW new \in Commands, Become(o, new)
  PROVE  command' \in [Operators -> Commands]
  BY DEF ArchiveTypeOK, Become

LEMMA EnterType ==
  ASSUME ArchiveTypeOK, NEW o \in Operators, NEW p \in Phases, Enter(o, p)
  PROVE  command' \in [Operators -> Commands]
  BY DEF ArchiveTypeOK, Enter, Become, Commands

LEMMA PlannedEntries == ASSUME NEW plan PROVE Planned(plan) \in SUBSET Entries
  BY DEF Planned

LEMMA SaveType ==
  ASSUME ArchiveTypeOK, NEW a \in Archives, NEW plan \in Plans,
         NEW state \in {"in_progress", "failed", "complete", "rolled_back"},
         save_manifest(a, state, plan)
  PROVE  manifest' \in [Archives -> Manifests \cup {None}]
  BY DEF ArchiveTypeOK, save_manifest, Manifests

LEMMA SetOneStored ==
  ASSUME ArchiveTypeOK, NEW a \in Archives, NEW e \in Entries, NEW v \in Versions \cup {None}
  PROVE  /\ [stored EXCEPT ![a][e] = v] \in [Archives -> Plans]
         /\ [live EXCEPT ![e] = v] \in Plans
  <1> DEFINE row == [stored[a] EXCEPT ![e] = v]
  <1>1. stored[a] \in Plans
    BY DEF ArchiveTypeOK
  <1>2. row \in Plans
    BY <1>1 DEF Plans
  <1>3. [stored EXCEPT ![a] = row] \in [Archives -> Plans]
    BY <1>2 DEF ArchiveTypeOK
  <1>4. [live EXCEPT ![e] = v] \in Plans
    BY DEF ArchiveTypeOK, Plans
  <1> QED BY <1>3, <1>4

LEMMA RenameType ==
  ASSUME ArchiveTypeOK, NEW a \in Archives, NEW e \in Entries, NEW inward \in BOOLEAN,
         rename_noreplace(a, e, inward)
  PROVE  live' \in Plans /\ stored' \in [Archives -> Plans]
  <1>1. live[e] \in Versions \cup {None} /\ stored[a][e] \in Versions \cup {None}
    BY DEF ArchiveTypeOK, Plans
  <1>2. None \in Versions \cup {None}
    OBVIOUS
  <1>3. CASE inward
    <2>1. stored' = [stored EXCEPT ![a][e] = live[e]] /\ live' = [live EXCEPT ![e] = None]
      BY <1>3 DEF rename_noreplace
    <2>2. stored' \in [Archives -> Plans]
      BY <2>1, <1>1, SetOneStored
    <2>3. live' \in Plans
      BY <2>1, <1>2, SetOneStored
    <2> QED BY <2>2, <2>3
  <1>4. CASE ~inward
    <2>1. stored' = [stored EXCEPT ![a][e] = None] /\ live' = [live EXCEPT ![e] = stored[a][e]]
      BY <1>4 DEF rename_noreplace
    <2>2. stored' \in [Archives -> Plans]
      BY <2>1, <1>2, SetOneStored
    <2>3. live' \in Plans
      BY <2>1, <1>1, SetOneStored
    <2> QED BY <2>2, <2>3
  <1> QED BY <1>3, <1>4

-----------------------------------------------------------------------------
\* The records that a command goes on with are commands.
LEMMA StepsAreTyped ==
  ASSUME ArchiveTypeOK, SavedFirst, NEW o \in Operators, Step(o)
  PROVE  ArchiveTypeOK'
  <1> DEFINE cmd == command[o]
  <1>1. /\ cmd \in Commands /\ live \in Plans
        /\ NoCommand \in Commands /\ None \in Archives \cup {None} /\ {} \in SUBSET Entries
    BY NoCommandType DEF ArchiveTypeOK
  <1>2. cmd.plan \in Plans /\ cmd.archive \in Archives \cup {None} /\ cmd.todo \in SUBSET Entries
    BY <1>1 DEF Commands
  <1>3. cmd.phase # "idle" => cmd.archive \in Archives
    BY DEF SavedFirst, FollowsSaved
  <1>4. ASSUME NEW a \in Archives, ReviewPlan(o, a)
        PROVE  ArchiveTypeOK'
    <2>1. Command("reviewed", a, live, {}) \in Commands
      BY <1>1, CommandType DEF Phases
    <2> QED BY <1>4, <2>1, BecomeType DEF ReviewPlan, archive_plan, files, ArchiveTypeOK
  <1>5. ASSUME NEW a \in Archives, LockForRollback(o, a)
        PROVE  ArchiveTypeOK'
    <2>1. Command("finding", a, NoPlan, {}) \in Commands
      BY <1>1, CommandType, NoCommandType DEF Phases
    <2> QED BY <1>5, <2>1, BecomeType DEF LockForRollback, files, ArchiveTypeOK
  <1>6. CASE StartApply(o)
    BY <1>6, EnterType DEF StartApply, files, ArchiveTypeOK, Phases
  <1>7. CASE LockForApply(o)
    BY <1>7, EnterType DEF LockForApply, files, ArchiveTypeOK, Phases
  <1>8. CASE Refuse(o)
    BY <1>8, <1>1, BecomeType DEF Refuse, files, ArchiveTypeOK
  <1>9. CASE MakeArchive(o)
    BY <1>9, <1>3, EnterType DEF MakeArchive, ArchiveTypeOK, Phases
  <1>10. CASE SaveInProgress(o)
    <2>1. Command("moving", cmd.archive, cmd.plan, Planned(cmd.plan)) \in Commands
      BY <1>2, CommandType, PlannedEntries DEF Phases
    <2>2. manifest' \in [Archives -> Manifests \cup {None}]
      BY <1>10, <1>2, <1>3, SaveType DEF SaveInProgress
    <2> QED BY <1>10, <2>1, <2>2, BecomeType DEF SaveInProgress, ArchiveTypeOK
  <1>11. ASSUME NEW e \in Entries, CheckSource(o, e)
         PROVE  ArchiveTypeOK'
    BY <1>11, EnterType DEF CheckSource, files, ArchiveTypeOK, Phases
  <1>12. ASSUME NEW e \in Entries, MoveEntry(o, e)
         PROVE  ArchiveTypeOK'
    <2>1. live' \in Plans /\ stored' \in [Archives -> Plans]
      BY <1>12, <1>3, RenameType DEF MoveEntry
    <2> QED BY <1>12, <2>1, EnterType DEF MoveEntry, ArchiveTypeOK, Phases
  <1>13. ASSUME NEW e \in Entries, ConfirmMove(o, e)
         PROVE  ArchiveTypeOK'
    <2>1. Command("moving", cmd.archive, cmd.plan, cmd.todo \ {e}) \in Commands
      BY <1>2, CommandType DEF Phases
    <2> QED BY <1>13, <2>1, BecomeType DEF ConfirmMove, files, ArchiveTypeOK
  <1>14. ASSUME NEW e \in Entries, CheckArchived(o, e)
         PROVE  ArchiveTypeOK'
    BY <1>14, EnterType DEF CheckArchived, files, ArchiveTypeOK, Phases
  <1>15. ASSUME NEW e \in Entries, RestoreEntry(o, e)
         PROVE  ArchiveTypeOK'
    <2>1. Command("restoring", cmd.archive, cmd.plan, cmd.todo \ {e}) \in Commands
      BY <1>2, CommandType DEF Phases
    <2>2. live' \in Plans /\ stored' \in [Archives -> Plans]
      BY <1>15, <1>3, RenameType DEF RestoreEntry
    <2> QED BY <1>15, <2>1, <2>2, BecomeType DEF RestoreEntry, ArchiveTypeOK
  <1>16. CASE FinishApply(o)
    <2>1. manifest' \in [Archives -> Manifests \cup {None}]
      BY <1>16, <1>2, <1>3, SaveType DEF FinishApply
    <2> QED BY <1>16, <2>1, <1>1, BecomeType DEF FinishApply, ArchiveTypeOK
  <1>17. CASE FailApply(o)
    <2>1. manifest' \in [Archives -> Manifests \cup {None}]
      BY <1>17, <1>2, <1>3, SaveType DEF FailApply, Guarded
    <2> QED BY <1>17, <2>1, <1>1, BecomeType DEF FailApply, ArchiveTypeOK
  <1>18. CASE CheckRollback(o)
    <2> DEFINE plan == manifest[cmd.archive].plan
    <2>1. manifest[cmd.archive] \in Manifests
      BY <1>18, <1>3 DEF CheckRollback, Restorable, ArchiveTypeOK
    <2>2. plan \in Plans
      BY <2>1 DEF Manifests
    <2>3. {e \in Planned(plan) : Away(cmd.archive, e)} \in SUBSET Entries
      BY DEF Planned
    <2>4. Command("restoring", cmd.archive, plan,
                  {e \in Planned(plan) : Away(cmd.archive, e)}) \in Commands
      BY <1>2, <2>2, <2>3, CommandType DEF Phases
    <2> QED BY <1>18, <2>4, BecomeType DEF CheckRollback, files, ArchiveTypeOK
  <1>19. CASE FinishRollback(o)
    <2>1. manifest' \in [Archives -> Manifests \cup {None}]
      BY <1>19, <1>2, <1>3, SaveType DEF FinishRollback
    <2> QED BY <1>19, <2>1, <1>1, BecomeType DEF FinishRollback, ArchiveTypeOK
  <1>20. CASE Crash(o)
    BY <1>20, <1>1, BecomeType DEF Crash, files, ArchiveTypeOK
  <1> QED
    BY <1>4, <1>5, <1>6, <1>7, <1>8, <1>9, <1>10, <1>11, <1>12, <1>13, <1>14, <1>15, <1>16,
       <1>17, <1>18, <1>19, <1>20 DEF Step

LEMMA WriteIsTyped ==
  ASSUME ArchiveTypeOK, NEW e \in Entries, Write(e)
  PROVE  ArchiveTypeOK'
  <1>1. writes' \in Versions /\ live[e] \in Versions \cup {None}
    BY ArchiveBounds DEF ArchiveTypeOK, Write, Versions, Plans
  <1>2. PICK new \in {writes', None} :
          /\ live' = [live EXCEPT ![e] = new]
          /\ kept' = [kept EXCEPT ![e] = (@ \ {live[e]}) \cup ({new} \ {None})]
    BY DEF Write
  <1>3. live' \in Plans
    BY <1>1, <1>2 DEF ArchiveTypeOK, Plans
  <1>4. kept' \in [Entries -> SUBSET Versions]
    BY <1>1, <1>2 DEF ArchiveTypeOK
  <1> QED BY <1>1, <1>3, <1>4 DEF Write, ArchiveTypeOK

-----------------------------------------------------------------------------
(***************************************************************************)
(* The lock.                                                               *)
(***************************************************************************)
\* The other commands do not change.
LEMMA OneCommandMoves ==
  ASSUME ArchiveTypeOK, NEW o \in Operators, NEW new, Become(o, new)
  PROVE  /\ command'[o] = new
         /\ \A p \in Operators \ {o} : command'[p] = command[p]
  BY DEF ArchiveTypeOK, Become

LEMMA PhaseOfCommand ==
  ASSUME NEW p, NEW a, NEW plan, NEW todo
  PROVE  Command(p, a, plan, todo).phase = p
  BY DEF Command

LEMMA EnterMoves ==
  ASSUME ArchiveTypeOK, NEW o \in Operators, NEW p, Enter(o, p)
  PROVE  /\ command'[o].phase = p /\ command'[o].archive = command[o].archive
         /\ command'[o].plan = command[o].plan /\ command'[o].todo = command[o].todo
         /\ \A q \in Operators \ {o} : command'[q] = command[q]
  BY DEF ArchiveTypeOK, Enter, Become, Commands

\* A command that keeps its side of the lock, takes a free lock, or leaves with its own.
LEMMA LockFollowsPhase ==
  ASSUME HolderIsBusy, NEW o \in Operators,
         \A q \in Operators \ {o} : command'[q] = command[q],
         \/ holder' = holder /\ (command'[o].phase \in Holding <=> command[o].phase \in Holding)
         \/ holder = None /\ holder' = o /\ command'[o].phase \in Holding
         \/ /\ command'[o].phase \notin Holding
            /\ holder' = IF holder = o THEN None ELSE holder
  PROVE  HolderIsBusy'
  BY NoneIsNoData DEF HolderIsBusy

LEMMA StepsKeepLock ==
  ASSUME ArchiveTypeOK, HolderIsBusy, NEW o \in Operators, Step(o)
  PROVE  HolderIsBusy'
  <1>1. \A p, a, plan, todo : Become(o, Command(p, a, plan, todo)) =>
          /\ command'[o].phase = p
          /\ \A q \in Operators \ {o} : command'[q] = command[q]
    BY OneCommandMoves, PhaseOfCommand
  <1>2. Become(o, NoCommand) =>
          /\ command'[o].phase = "idle"
          /\ \A q \in Operators \ {o} : command'[q] = command[q]
    BY <1>1 DEF NoCommand
  <1>3. \A p : Enter(o, p) =>
          /\ command'[o].phase = p
          /\ \A q \in Operators \ {o} : command'[q] = command[q]
    BY EnterMoves
  <1>4. command[o].phase \in Holding => holder = o
    BY DEF HolderIsBusy
  <1>5. ASSUME NEW a \in Archives, ReviewPlan(o, a) \/ LockForRollback(o, a)
        PROVE  HolderIsBusy'
    BY <1>5, <1>1, LockFollowsPhase DEF ReviewPlan, LockForRollback, Holding
  <1>6. CASE StartApply(o) \/ LockForApply(o)
    BY <1>6, <1>3, LockFollowsPhase DEF StartApply, LockForApply, Holding
  <1>7. CASE Refuse(o)
    BY <1>7, <1>2, LockFollowsPhase DEF Refuse, Holding
  <1>8. CASE MakeArchive(o)
    BY <1>8, <1>3, LockFollowsPhase DEF MakeArchive, Holding
  <1>9. CASE SaveInProgress(o)
    BY <1>9, <1>1, LockFollowsPhase DEF SaveInProgress, Holding
  <1>10. ASSUME NEW e \in Entries, CheckSource(o, e) \/ MoveEntry(o, e) \/ CheckArchived(o, e)
         PROVE  HolderIsBusy'
    BY <1>10, <1>3, LockFollowsPhase DEF CheckSource, MoveEntry, CheckArchived, Holding
  <1>11. ASSUME NEW e \in Entries, ConfirmMove(o, e) \/ RestoreEntry(o, e)
         PROVE  HolderIsBusy'
    BY <1>11, <1>1, LockFollowsPhase DEF ConfirmMove, RestoreEntry, Holding
  <1>12. CASE FinishApply(o) \/ FailApply(o) \/ FinishRollback(o)
    BY <1>12, <1>2, <1>4, LockFollowsPhase
       DEF FinishApply, FailApply, FinishRollback, Holding, Guarded
  <1>13. CASE CheckRollback(o)
    BY <1>13, <1>1, LockFollowsPhase DEF CheckRollback, Holding
  <1>14. CASE Crash(o)
    BY <1>14, <1>2, LockFollowsPhase DEF Crash, Holding
  <1> QED
    BY <1>5, <1>6, <1>7, <1>8, <1>9, <1>10, <1>11, <1>12, <1>13, <1>14 DEF Step

\* Whoever is past locking is alone there.
LEMMA OneHolder ==
  ASSUME HolderIsBusy, NEW o \in Operators, NEW p \in Operators,
         command[o].phase \in Holding, command[p].phase \in Holding
  PROVE  o = p
  BY DEF HolderIsBusy

-----------------------------------------------------------------------------
(***************************************************************************)
(* The manifests.                                                          *)
(***************************************************************************)
\* A step without the lock changes no directory or manifest; with it, no other command is past
\* locking.  So the others follow what they saved as before.
LEMMA OthersFollow ==
  ASSUME HolderIsBusy, SavedFirst, NEW o \in Operators,
         \A q \in Operators \ {o} : command'[q] = command[q],
         UNCHANGED <<made, manifest>> \/ command[o].phase \in Holding,
         FollowsSaved(o)'
  PROVE  SavedFirst'
  <1>1. ASSUME NEW p \in Operators \ {o}
        PROVE  FollowsSaved(p)'
    <2>1. FollowsSaved(p) /\ command'[p] = command[p]
      BY DEF SavedFirst
    <2>2. CASE UNCHANGED <<made, manifest>>
      BY <2>1, <2>2 DEF FollowsSaved
    <2>3. CASE command[o].phase \in Holding
      <3>1. command[p].phase \notin Holding
        BY <2>3, OneHolder
      <3> QED BY <2>1, <3>1 DEF FollowsSaved, Holding, Saved
    <2> QED BY <2>2, <2>3
  <1> QED BY <1>1 DEF SavedFirst

LEMMA SavedManifest ==
  ASSUME ArchiveTypeOK, NEW a \in Archives, NEW plan \in Plans,
         NEW state \in {"in_progress", "failed", "complete", "rolled_back"},
         save_manifest(a, state, plan)
  PROVE  /\ manifest'[a] # None /\ manifest'[a].plan = plan
         /\ \A b \in Archives \ {a} : manifest'[b] = manifest[b]
  <1>1. [state |-> state, plan |-> plan] \in Manifests
    BY DEF Manifests
  <1> QED BY <1>1, NoneIsNoData DEF ArchiveTypeOK, save_manifest

\* The fields of the record that a command goes on with.
LEMMA CommandMoves ==
  ASSUME ArchiveTypeOK, NEW o \in Operators, NEW p, NEW a, NEW plan, NEW todo,
         Become(o, Command(p, a, plan, todo))
  PROVE  /\ command'[o].phase = p /\ command'[o].archive = a
         /\ command'[o].plan = plan /\ command'[o].todo = todo
         /\ \A q \in Operators \ {o} : command'[q] = command[q]
  <1>1. command'[o] = Command(p, a, plan, todo)
    BY OneCommandMoves
  <1> QED BY <1>1, OneCommandMoves DEF Command

LEMMA StopMoves ==
  ASSUME ArchiveTypeOK, NEW o \in Operators, Become(o, NoCommand)
  PROVE  /\ command'[o].phase = "idle"
         /\ \A q \in Operators \ {o} : command'[q] = command[q]
  BY CommandMoves DEF NoCommand

LEMMA StepsFollowSaved ==
  ASSUME ArchiveTypeOK, HolderIsBusy, SavedFirst, ListedInManifest, NEW o \in Operators, Step(o)
  PROVE  SavedFirst'
  <1> DEFINE cmd == command[o]
  <1>1. FollowsSaved(o)
    BY DEF SavedFirst
  <1>2. cmd.plan \in Plans /\ cmd.archive \in Archives \cup {None} /\ cmd.todo \in SUBSET Entries
    BY DEF ArchiveTypeOK, Commands
  <1>3. Become(o, NoCommand) => FollowsSaved(o)'
    BY StopMoves DEF FollowsSaved, Saved
  <1>4. ASSUME NEW a \in Archives, ReviewPlan(o, a)
        PROVE  SavedFirst'
    BY <1>4, CommandMoves, OthersFollow DEF ReviewPlan, files, FollowsSaved, Saved
  <1>5. ASSUME NEW a \in Archives, LockForRollback(o, a)
        PROVE  SavedFirst'
    BY <1>5, CommandMoves, OthersFollow DEF LockForRollback, files, FollowsSaved, Saved
  <1>6. CASE StartApply(o)
    BY <1>6, <1>1, EnterMoves, OthersFollow DEF StartApply, files, FollowsSaved, Saved
  <1>7. CASE LockForApply(o)
    BY <1>7, <1>1, EnterMoves, OthersFollow DEF LockForApply, CanPlan, files, FollowsSaved, Saved
  <1>8. CASE Refuse(o)
    BY <1>8, <1>3, StopMoves, OthersFollow DEF Refuse, files
  <1>9. CASE MakeArchive(o)
    <2>1. cmd.archive \in Archives /\ manifest[cmd.archive] = None
      BY <1>9, <1>1 DEF MakeArchive, FollowsSaved, ListedInManifest
    <2>2. FollowsSaved(o)'
      BY <1>9, <2>1, EnterMoves DEF MakeArchive, FollowsSaved, Saved
    <2> QED BY <1>9, <2>2, EnterMoves, OthersFollow DEF MakeArchive, Holding
  <1>10. CASE SaveInProgress(o)
    <2>1. cmd.archive \in Archives
      BY <1>10, <1>1 DEF SaveInProgress, FollowsSaved
    <2>2. manifest'[cmd.archive] # None /\ manifest'[cmd.archive].plan = cmd.plan
      BY <1>10, <1>2, <2>1, SavedManifest DEF SaveInProgress
    <2>3. Become(o, Command("moving", cmd.archive, cmd.plan, Planned(cmd.plan)))
      BY <1>10 DEF SaveInProgress
    <2>4. FollowsSaved(o)'
      BY <2>1, <2>2, <2>3, CommandMoves DEF FollowsSaved, Saved
    <2> QED BY <1>10, <2>3, <2>4, CommandMoves, OthersFollow DEF SaveInProgress, Holding
  <1>11. ASSUME NEW e \in Entries, CheckSource(o, e)
         PROVE  SavedFirst'
    BY <1>11, <1>1, EnterMoves, OthersFollow DEF CheckSource, files, FollowsSaved, Saved
  <1>12. ASSUME NEW e \in Entries, MoveEntry(o, e)
         PROVE  SavedFirst'
    BY <1>12, <1>1, EnterMoves, OthersFollow DEF MoveEntry, FollowsSaved, Saved
  <1>13. ASSUME NEW e \in Entries, ConfirmMove(o, e)
         PROVE  SavedFirst'
    BY <1>13, <1>1, CommandMoves, OthersFollow DEF ConfirmMove, files, FollowsSaved, Saved
  <1>14. ASSUME NEW e \in Entries, CheckArchived(o, e)
         PROVE  SavedFirst'
    BY <1>14, <1>1, EnterMoves, OthersFollow DEF CheckArchived, files, FollowsSaved, Saved
  <1>15. ASSUME NEW e \in Entries, RestoreEntry(o, e)
         PROVE  SavedFirst'
    BY <1>15, <1>1, CommandMoves, OthersFollow DEF RestoreEntry, FollowsSaved, Saved
  <1>16. CASE FinishApply(o) \/ FailApply(o) \/ FinishRollback(o)
    BY <1>16, <1>3, StopMoves, OthersFollow
       DEF FinishApply, FailApply, FinishRollback, Guarded, Holding
  <1>17. CASE CheckRollback(o)
    BY <1>17, <1>1, CommandMoves, OthersFollow
       DEF CheckRollback, Restorable, files, FollowsSaved, Saved
  <1>18. CASE Crash(o)
    BY <1>18, <1>3, StopMoves, OthersFollow DEF Crash, files
  <1> QED
    BY <1>4, <1>5, <1>6, <1>7, <1>8, <1>9, <1>10, <1>11, <1>12, <1>13, <1>14, <1>15, <1>16,
       <1>17, <1>18 DEF Step

-----------------------------------------------------------------------------
LEMMA OneLiveChanges ==
  ASSUME ArchiveTypeOK, NEW e \in Entries, NEW v, live' = [live EXCEPT ![e] = v]
  PROVE  live'[e] = v /\ \A f \in Entries \ {e} : live'[f] = live[f]
  BY DEF ArchiveTypeOK, Plans

\* A rename moves one version between a name and one archive.
LEMMA RenameMoves ==
  ASSUME ArchiveTypeOK, NEW a \in Archives, NEW e \in Entries, NEW inward \in BOOLEAN,
         rename_noreplace(a, e, inward)
  PROVE  /\ \A f \in Entries \ {e} : live'[f] = live[f]
         /\ \A b \in Archives, f \in Entries :
              (b # a \/ f # e) => stored'[b][f] = stored[b][f]
         /\ IF inward THEN /\ live[e] # None /\ stored[a][e] = None
                           /\ live'[e] = None /\ stored'[a][e] = live[e]
                      ELSE /\ stored[a][e] # None /\ live[e] = None
                           /\ live'[e] = stored[a][e] /\ stored'[a][e] = None
  <1> stored[a] \in Plans
    BY DEF ArchiveTypeOK
  <1>1. CASE inward
    <2>1. /\ live[e] # None /\ stored[a][e] = None
          /\ stored' = [stored EXCEPT ![a][e] = live[e]]
          /\ live' = [live EXCEPT ![e] = None]
      BY <1>1 DEF rename_noreplace
    <2>2. /\ stored'[a][e] = live[e]
          /\ \A b \in Archives, f \in Entries :
               (b # a \/ f # e) => stored'[b][f] = stored[b][f]
      <3>1. /\ stored'[a] = [stored[a] EXCEPT ![e] = live[e]]
            /\ \A b \in Archives \ {a} : stored'[b] = stored[b]
        BY <2>1 DEF ArchiveTypeOK
      <3>2. stored'[a][e] = live[e] /\ \A f \in Entries \ {e} : stored'[a][f] = stored[a][f]
        BY <3>1 DEF Plans
      <3> QED BY <3>1, <3>2
    <2>3. live'[e] = None /\ \A f \in Entries \ {e} : live'[f] = live[f]
      BY <2>1, OneLiveChanges
    <2> QED BY <1>1, <2>1, <2>2, <2>3
  <1>2. CASE ~inward
    <2>1. /\ stored[a][e] # None /\ live[e] = None
          /\ live' = [live EXCEPT ![e] = stored[a][e]]
          /\ stored' = [stored EXCEPT ![a][e] = None]
      BY <1>2 DEF rename_noreplace
    <2>2. /\ stored'[a][e] = None
          /\ \A b \in Archives, f \in Entries :
               (b # a \/ f # e) => stored'[b][f] = stored[b][f]
      <3>1. /\ stored'[a] = [stored[a] EXCEPT ![e] = None]
            /\ \A b \in Archives \ {a} : stored'[b] = stored[b]
        BY <2>1 DEF ArchiveTypeOK
      <3>2. stored'[a][e] = None /\ \A f \in Entries \ {e} : stored'[a][f] = stored[a][f]
        BY <3>1 DEF Plans
      <3> QED BY <3>1, <3>2
    <2>3. live'[e] = stored[a][e] /\ \A f \in Entries \ {e} : live'[f] = live[f]
      BY <2>1, OneLiveChanges
    <2> QED BY <1>2, <2>1, <2>2, <2>3
  <1> QED BY <1>1, <1>2

\* A manifest is saved for what its archive holds: the plan it had, or a first one.
LEMMA SavingLists ==
  ASSUME ArchiveTypeOK, ListedInManifest, NEW o \in Operators, FollowsSaved(o),
         command[o].phase \in Saved \cup {"made"},
         NEW state \in {"in_progress", "failed", "complete", "rolled_back"},
         save_manifest(command[o].archive, state, command[o].plan),
         UNCHANGED <<made, stored>>
  PROVE  ListedInManifest'
  <1> DEFINE a == command[o].archive
             plan == command[o].plan
  <1>1. a \in Archives /\ plan \in Plans
    BY DEF FollowsSaved, Saved, ArchiveTypeOK, Commands
  <1>2. a \in made
    BY <1>1 DEF FollowsSaved, ListedInManifest
  <1>3. manifest'[a] # None /\ manifest'[a].plan = plan
    BY <1>1, SavedManifest
  <1>4. \A b \in Archives \ {a} : manifest'[b] = manifest[b]
    BY <1>1, SavedManifest
  <1>5. \A e \in Entries : stored[a][e] # None => plan[e] # None
    BY <1>1 DEF FollowsSaved, ListedInManifest
  <1> QED BY <1>2, <1>3, <1>4, <1>5 DEF ListedInManifest

LEMMA StepsList ==
  ASSUME ArchiveTypeOK, SavedFirst, ListedInManifest, NEW o \in Operators, Step(o)
  PROVE  ListedInManifest'
  <1> DEFINE cmd == command[o]
  <1>1. FollowsSaved(o)
    BY DEF SavedFirst
  <1>2. UNCHANGED <<stored, made, manifest>> => ListedInManifest'
    BY DEF ListedInManifest
  <1>3. CASE MakeArchive(o)
    BY <1>3 DEF MakeArchive, ListedInManifest
  <1>4. CASE SaveInProgress(o) \/ FinishApply(o) \/ FinishRollback(o)
    BY <1>4, <1>1, SavingLists DEF SaveInProgress, FinishApply, FinishRollback, Saved
  <1>5. CASE FailApply(o)
    BY <1>5, <1>1, SavingLists DEF FailApply, Guarded, Saved
  <1>6. ASSUME NEW e \in Entries, MoveEntry(o, e)
        PROVE  ListedInManifest'
    <2> DEFINE a == cmd.archive
    <2>1. a \in Archives /\ manifest[a] # None /\ manifest[a].plan[e] # None
      BY <1>6, <1>1 DEF MoveEntry, Turn, FollowsSaved, Saved, Planned
    <2>2. \A b \in Archives, f \in Entries : (b # a \/ f # e) => stored'[b][f] = stored[b][f]
      BY <1>6, <2>1, RenameMoves DEF MoveEntry
    <2> QED BY <1>6, <2>1, <2>2 DEF MoveEntry, ListedInManifest
  <1>7. ASSUME NEW e \in Entries, RestoreEntry(o, e)
        PROVE  ListedInManifest'
    <2> DEFINE a == cmd.archive
    <2>1. a \in Archives
      BY <1>7, <1>1 DEF RestoreEntry, FollowsSaved
    <2>2. /\ stored'[a][e] = None
          /\ \A b \in Archives, f \in Entries : (b # a \/ f # e) => stored'[b][f] = stored[b][f]
      BY <1>7, <2>1, RenameMoves DEF RestoreEntry
    <2> QED BY <1>7, <2>1, <2>2 DEF RestoreEntry, ListedInManifest
  <1> QED
    BY <1>2, <1>3, <1>4, <1>5, <1>6, <1>7
       DEF Step, ReviewPlan, LockForRollback, StartApply, LockForApply, Refuse, CheckSource,
           ConfirmMove, CheckArchived, CheckRollback, Crash, files

-----------------------------------------------------------------------------
(***************************************************************************)
(* The versions.                                                           *)
(***************************************************************************)
LEMMA RenameKeepsPlaces ==
  ASSUME ArchiveTypeOK, FreshVersions, OnePlace, NEW a \in Archives, NEW e \in Entries,
         NEW inward \in BOOLEAN, rename_noreplace(a, e, inward), UNCHANGED <<writes, kept>>
  PROVE  FreshVersions' /\ OnePlace'
  <1>1. /\ \A f \in Entries \ {e} : live'[f] = live[f]
        /\ \A b \in Archives, f \in Entries :
             (b # a \/ f # e) => stored'[b][f] = stored[b][f]
        /\ IF inward THEN /\ live[e] # None /\ stored[a][e] = None
                          /\ live'[e] = None /\ stored'[a][e] = live[e]
                     ELSE /\ stored[a][e] # None /\ live[e] = None
                          /\ live'[e] = stored[a][e] /\ stored'[a][e] = None
    BY RenameMoves
  <1>2. FreshVersions'
    BY <1>1 DEF FreshVersions
  <1>3. None \notin kept[e]
    BY VersionsHaveNoNone DEF ArchiveTypeOK
  <1>4. ASSUME NEW f \in Entries \ {e}, NEW v \in kept[f]
        PROVE  /\ live'[f] = v \/ \E b \in Archives : In(b, f, v)'
               /\ \A b \in Archives : In(b, f, v)' =>
                    live'[f] # v /\ \A d \in Archives \ {b} : ~In(d, f, v)'
    BY <1>1, <1>4 DEF OnePlace, In
  <1>5. ASSUME NEW v \in kept[e]
        PROVE  /\ live'[e] = v \/ \E b \in Archives : In(b, e, v)'
               /\ \A b \in Archives : In(b, e, v)' =>
                    live'[e] # v /\ \A d \in Archives \ {b} : ~In(d, e, v)'
    BY <1>1, <1>3, <1>5 DEF OnePlace, In
  <1>6. OnePlace'
    BY <1>4, <1>5 DEF OnePlace
  <1> QED BY <1>2, <1>6

LEMMA WriteKeepsPlaces ==
  ASSUME ArchiveTypeOK, FreshVersions, OnePlace, NEW e \in Entries, Write(e)
  PROVE  FreshVersions' /\ OnePlace'
  <1>1. PICK new \in {writes + 1, None} :
          /\ new # live[e] /\ live' = [live EXCEPT ![e] = new]
          /\ kept' = [kept EXCEPT ![e] = (@ \ {live[e]}) \cup ({new} \ {None})]
    BY DEF Write
  <1>2. /\ writes' = writes + 1 /\ writes \in Nat /\ UNCHANGED stored
    BY ArchiveBounds DEF Write, ArchiveTypeOK, Versions
  <1>3. /\ live'[e] = new /\ kept'[e] = (kept[e] \ {live[e]}) \cup ({new} \ {None})
        /\ \A f \in Entries \ {e} : live'[f] = live[f] /\ kept'[f] = kept[f]
    BY <1>1 DEF ArchiveTypeOK, Plans
  <1>4. /\ \A f \in Entries : live[f] \in Nat \cup {None} /\ kept[f] \in SUBSET Nat
        /\ \A b \in Archives, f \in Entries : stored[b][f] \in Nat \cup {None}
    BY ArchiveBounds DEF ArchiveTypeOK, Plans, Versions
  <1>5. FreshVersions'
    BY <1>2, <1>3, <1>4 DEF FreshVersions
  <1>6. ASSUME NEW f \in Entries, NEW v \in kept'[f]
        PROVE  /\ live'[f] = v \/ \E b \in Archives : In(b, f, v)'
               /\ \A b \in Archives : In(b, f, v)' =>
                    live'[f] # v /\ \A d \in Archives \ {b} : ~In(d, f, v)'
    <2>1. CASE f # e
      BY <1>2, <1>3, <1>6, <2>1 DEF OnePlace, In
    <2>2. CASE f = e /\ v = new
      <3>1. v = writes + 1
        BY <1>3, <1>6, <2>2, <1>4, VersionsHaveNoNone, NoneIsNoData
      <3>2. \A b \in Archives : ~In(b, f, v)'
        BY <3>1, <1>2, <1>4, NoneIsNoData DEF FreshVersions, In
      <3> QED BY <1>3, <2>2, <3>2
    <2>3. CASE f = e /\ v # new
      BY <1>2, <1>3, <1>6, <2>3 DEF OnePlace, In
    <2> QED BY <2>1, <2>2, <2>3
  <1>7. OnePlace'
    BY <1>6 DEF OnePlace
  <1> QED BY <1>5, <1>7

LEMMA StepsKeepPlaces ==
  ASSUME ArchiveTypeOK, SavedFirst, FreshVersions, OnePlace, NEW o \in Operators, Step(o)
  PROVE  FreshVersions' /\ OnePlace'
  <1>1. UNCHANGED <<live, stored, writes, kept>> => FreshVersions' /\ OnePlace'
    BY DEF FreshVersions, OnePlace, In
  <1>2. command[o].phase # "idle" => command[o].archive \in Archives
    BY DEF SavedFirst, FollowsSaved
  <1>3. ASSUME NEW e \in Entries, MoveEntry(o, e)
        PROVE  FreshVersions' /\ OnePlace'
    BY <1>2, <1>3, RenameKeepsPlaces DEF MoveEntry
  <1>4. ASSUME NEW e \in Entries, RestoreEntry(o, e)
        PROVE  FreshVersions' /\ OnePlace'
    BY <1>2, <1>4, RenameKeepsPlaces DEF RestoreEntry
  <1> QED
    BY <1>1, <1>3, <1>4
       DEF Step, ReviewPlan, LockForRollback, StartApply, LockForApply, Refuse, MakeArchive,
           SaveInProgress, CheckSource, ConfirmMove, CheckArchived, FinishApply, FailApply,
           CheckRollback, FinishRollback, Crash, files

-----------------------------------------------------------------------------
LEMMA InvInit == ArchiveInit => ArchiveInv
  <1> SUFFICES ASSUME ArchiveInit PROVE ArchiveInv
    OBVIOUS
  <1>1. ArchiveTypeOK
    BY NoCommandType, VersionsHaveNoNone DEF ArchiveInit, ArchiveTypeOK, Plans, Versions
  <1>2. HolderIsBusy /\ SavedFirst
    BY NoneIsNoData DEF ArchiveInit, HolderIsBusy, SavedFirst, FollowsSaved, Saved, Holding,
       NoCommand, Command
  <1>3. ListedInManifest
    BY DEF ArchiveInit, ListedInManifest, NoPlan
  <1>4. FreshVersions
    BY DEF ArchiveInit, FreshVersions, NoPlan
  <1>5. OnePlace
    BY NoneIsNoData DEF ArchiveInit, OnePlace, In, NoPlan
  <1> QED BY <1>1, <1>2, <1>3, <1>4, <1>5 DEF ArchiveInv

LEMMA InvNext == ArchiveInv /\ [ArchiveNext]_archiveVars => ArchiveInv'
  <1> SUFFICES ASSUME ArchiveInv, [ArchiveNext]_archiveVars PROVE ArchiveInv'
    OBVIOUS
  <1>1. ASSUME NEW o \in Operators, Step(o)
        PROVE  ArchiveInv'
    BY <1>1, StepsAreTyped, StepsKeepLock, StepsFollowSaved, StepsList, StepsKeepPlaces
       DEF ArchiveInv
  <1>2. ASSUME NEW e \in Entries, Write(e)
        PROVE  ArchiveInv'
    <2>1. HolderIsBusy' /\ SavedFirst' /\ ListedInManifest'
      BY <1>2 DEF ArchiveInv, Write, HolderIsBusy, SavedFirst, FollowsSaved, ListedInManifest
    <2> QED BY <1>2, <2>1, WriteIsTyped, WriteKeepsPlaces DEF ArchiveInv
  <1>3. CASE UNCHANGED archiveVars
    BY <1>3 DEF ArchiveInv, archiveVars, ArchiveTypeOK, HolderIsBusy, SavedFirst, FollowsSaved,
       ListedInManifest, FreshVersions, OnePlace, In
  <1> QED BY <1>1, <1>2, <1>3 DEF ArchiveNext

\* The inductive invariant of the archive tool: types, lock, manifests and places of versions.
THEOREM ArchiveInvariant == ArchiveSpec => []ArchiveInv
  BY InvInit, InvNext, PTL DEF ArchiveSpec

\* Every variable of the archive tool keeps its type.
THEOREM ArchiveTypes == ArchiveSpec => []ArchiveTypeOK
  <1>1. ArchiveInv => ArchiveTypeOK
    BY DEF ArchiveInv
  <1> QED BY <1>1, ArchiveInvariant, PTL

\* Wherever commands of apply_archive and rollback_archive were killed and whatever others write,
\* no version of an entry is lost, doubled or missing from the manifest of its archive.
THEOREM ArchiveAccounts == ArchiveSpec => []EvidenceIsAccounted
  <1>1. ArchiveInv => EvidenceIsAccounted
    <2> SUFFICES ASSUME ArchiveInv, NEW e \in Entries, NEW v \in kept[e]
                 PROVE  /\ live[e] = v \/ \E a \in Archives : In(a, e, v)
                        /\ \A a \in Archives : In(a, e, v) =>
                             /\ live[e] # v
                             /\ \A b \in Archives \ {a} : ~In(b, e, v)
                             /\ manifest[a] # None /\ manifest[a].plan[e] # None
      BY DEF EvidenceIsAccounted
    <2>1. v # None
      BY VersionsHaveNoNone DEF ArchiveInv, ArchiveTypeOK
    <2> QED BY <2>1 DEF ArchiveInv, OnePlace, ListedInManifest, In
  <1> QED BY <1>1, ArchiveInvariant, PTL

-----------------------------------------------------------------------------
(***************************************************************************)
(* As long as nobody else writes.                                          *)
(*                                                                         *)
(* What a plan lists is then an entry as it was in the beginning, so it is *)
(* under its name or in exactly one archive (OnePlace), and the rollback   *)
(* of an archive is refused only for an entry of its plan that another     *)
(* archive holds.  An apply starts when everything it plans is under its   *)
(* name, in no other archive: of the archives that hold something, the one *)
(* applied last plans nothing that another holds.                          *)
(***************************************************************************)
Original(plan) == \A e \in Entries : plan[e] \in kept[e] \cup {None}

PlansAreOriginal ==
  writes = 0 =>
    /\ Original(live)
    /\ \A o \in Operators : Original(command[o].plan)
    /\ \A a \in Archives : manifest[a] # None => Original(manifest[a].plan)

Applying == {"locked"} \cup Guarded

\* No other archive holds an entry of a plan.
HeldByNoOther(plan, a, others) ==
  \A e \in Planned(plan) : \A b \in others \ {a} : stored[b][e] = None

AppliesAlone ==
  writes = 0 =>
    \A o \in Operators : command[o].phase \in Applying =>
      HeldByNoOther(command[o].plan, command[o].archive, Archives)

Holders == {a \in Archives : Planned(stored[a]) # {}}

SomeIsLast ==
  writes = 0 =>
    \A S \in (SUBSET Holders) \ {{}} :
      \E a \in S : HeldByNoOther(manifest[a].plan, a, S)

IdleSourcesInv == PlansAreOriginal /\ AppliesAlone /\ SomeIsLast

-----------------------------------------------------------------------------
\* Without writes there is one version of an entry, in one place.
LEMMA OriginalPlace ==
  ASSUME ArchiveTypeOK, FreshVersions, OnePlace, writes = 0, NEW e \in Entries, kept[e] # {}
  PROVE  /\ kept[e] = {0}
         /\ live[e] \in {0, None} /\ \A a \in Archives : stored[a][e] \in {0, None}
         /\ live[e] = 0 \/ \E a \in Archives : stored[a][e] = 0
         /\ \A a \in Archives : stored[a][e] = 0 =>
              live[e] = None /\ \A b \in Archives \ {a} : stored[b][e] = None
  <1>1. /\ kept[e] \in SUBSET Nat /\ live[e] \in Nat \cup {None}
        /\ \A a \in Archives : stored[a][e] \in Nat \cup {None}
    BY ArchiveBounds DEF ArchiveTypeOK, Plans, Versions
  <1>2. kept[e] = {0}
    BY <1>1 DEF FreshVersions
  <1>3. live[e] \in {0, None} /\ \A a \in Archives : stored[a][e] \in {0, None}
    BY <1>1 DEF FreshVersions
  <1>4. 0 \in kept[e] /\ None # 0
    BY <1>2, NoneIsNoData
  <1>5. live[e] = 0 \/ \E a \in Archives : stored[a][e] = 0
    BY <1>4 DEF OnePlace, In
  <1>6. ASSUME NEW a \in Archives, stored[a][e] = 0
        PROVE  live[e] = None /\ \A b \in Archives \ {a} : stored[b][e] = None
    <2>1. live[e] # 0 /\ \A b \in Archives \ {a} : stored[b][e] # 0
      BY <1>4, <1>6 DEF OnePlace, In
    <2> QED BY <2>1, <1>3
  <1> QED BY <1>2, <1>3, <1>5, <1>6

\* What is planned as it was in the beginning has been kept.
LEMMA PlannedIsKept ==
  ASSUME NEW plan, Original(plan), NEW e \in Planned(plan)
  PROVE  e \in Entries /\ kept[e] # {}
  BY DEF Original, Planned

LEMMA IdleInit == ArchiveInit => IdleSourcesInv
  <1> SUFFICES ASSUME ArchiveInit PROVE IdleSourcesInv
    OBVIOUS
  <1>1. PlansAreOriginal
    BY DEF ArchiveInit, PlansAreOriginal, Original, NoCommand, NoPlan, Command
  <1>2. AppliesAlone
    BY DEF ArchiveInit, AppliesAlone, Applying, Guarded, NoCommand, Command
  <1>3. Holders = {}
    BY DEF ArchiveInit, Holders, NoPlan, Planned
  <1> QED BY <1>1, <1>2, <1>3 DEF IdleSourcesInv, SomeIsLast

-----------------------------------------------------------------------------
\* A rename moves an entry as it is, to a place where it is as original as before.
LEMMA RenameIsOriginal ==
  ASSUME ArchiveTypeOK, ListedInManifest, FreshVersions, OnePlace, PlansAreOriginal, writes = 0,
         NEW a \in Archives, NEW e \in Entries, NEW inward \in BOOLEAN,
         rename_noreplace(a, e, inward), UNCHANGED kept
  PROVE  Original(live)'
  <1>1. /\ \A f \in Entries \ {e} : live'[f] = live[f]
        /\ live'[e] = IF inward THEN None ELSE stored[a][e]
    BY RenameMoves
  <1>2. stored[a][e] \in kept[e] \cup {None}
    <2>1. CASE stored[a][e] = None
      BY <2>1
    <2>2. CASE stored[a][e] # None
      <3>1. manifest[a] # None /\ e \in Planned(manifest[a].plan)
        BY <2>2 DEF ListedInManifest, Planned
      <3>2. kept[e] # {}
        BY <3>1, PlannedIsKept DEF PlansAreOriginal
      <3> QED BY <2>2, <3>2, OriginalPlace
    <2> QED BY <2>1, <2>2
  <1> QED BY <1>1, <1>2 DEF PlansAreOriginal, Original

\* A plan is what is there, what the command had, or what the manifest has.
LEMMA OriginalAfter ==
  ASSUME ArchiveTypeOK, PlansAreOriginal, writes = 0, NEW o \in Operators,
         \A q \in Operators \ {o} : command'[q] = command[q],
         Original(command'[o].plan), Original(live)', UNCHANGED <<manifest, kept>>
  PROVE  PlansAreOriginal'
  <1>1. \A q \in Operators : Original(command'[q].plan)
    BY DEF PlansAreOriginal
  <1> QED BY <1>1 DEF PlansAreOriginal, Original

LEMMA OriginalAfterSave ==
  ASSUME ArchiveTypeOK, PlansAreOriginal, writes = 0, NEW o \in Operators,
         command[o].archive \in Archives,
         NEW state \in {"in_progress", "failed", "complete", "rolled_back"},
         save_manifest(command[o].archive, state, command[o].plan),
         \A q \in Operators \ {o} : command'[q] = command[q],
         command'[o].plan \in {command[o].plan, NoPlan}, UNCHANGED <<live, kept>>
  PROVE  PlansAreOriginal'
  <1> DEFINE a == command[o].archive
             plan == command[o].plan
  <1>1. plan \in Plans /\ Original(plan) /\ Original(NoPlan)
    BY DEF ArchiveTypeOK, Commands, PlansAreOriginal, Original, NoPlan
  <1>2. \A q \in Operators : Original(command'[q].plan)
    BY <1>1 DEF PlansAreOriginal
  <1>3. manifest'[a].plan = plan /\ \A b \in Archives \ {a} : manifest'[b] = manifest[b]
    BY <1>1, SavedManifest
  <1>4. \A b \in Archives : manifest'[b] # None => Original(manifest'[b].plan)
    BY <1>1, <1>3 DEF PlansAreOriginal
  <1> QED BY <1>2, <1>4 DEF PlansAreOriginal, Original

LEMMA StepsAreOriginal ==
  ASSUME ArchiveInv, PlansAreOriginal, writes = 0, NEW o \in Operators, Step(o)
  PROVE  PlansAreOriginal'
  <1> DEFINE cmd == command[o]
  <1> USE DEF ArchiveInv
  <1>1. FollowsSaved(o)
    BY DEF SavedFirst
  <1>2. Original(cmd.plan) /\ Original(live) /\ Original(NoPlan)
    BY DEF PlansAreOriginal, Original, NoPlan
  <1>3. UNCHANGED <<live, kept>> => Original(live)'
    BY <1>2 DEF Original
  <1>4. NoCommand.plan = NoPlan
    BY DEF NoCommand, Command
  <1>5. Become(o, NoCommand) =>
          /\ command'[o].plan = NoPlan
          /\ \A q \in Operators \ {o} : command'[q] = command[q]
    BY <1>4, OneCommandMoves
  <1>6. ASSUME NEW a \in Archives, ReviewPlan(o, a) \/ LockForRollback(o, a)
        PROVE  PlansAreOriginal'
    BY <1>6, <1>2, <1>3, CommandMoves, OriginalAfter
       DEF ReviewPlan, LockForRollback, archive_plan, files
  <1>7. CASE StartApply(o) \/ LockForApply(o) \/ MakeArchive(o)
    BY <1>7, <1>2, <1>3, EnterMoves, OriginalAfter DEF StartApply, LockForApply, MakeArchive, files
  <1>8. CASE Refuse(o) \/ Crash(o)
    BY <1>8, <1>2, <1>3, <1>5, OriginalAfter DEF Refuse, Crash, files
  <1>9. CASE SaveInProgress(o)
    <2>1. cmd.archive \in Archives
      BY <1>9, <1>1 DEF SaveInProgress, FollowsSaved
    <2>2. /\ command'[o].plan = cmd.plan
          /\ \A q \in Operators \ {o} : command'[q] = command[q]
      BY <1>9, CommandMoves DEF SaveInProgress
    <2>3. save_manifest(cmd.archive, "in_progress", cmd.plan) /\ UNCHANGED <<live, kept>>
      BY <1>9 DEF SaveInProgress
    <2> QED BY <2>1, <2>2, <2>3, OriginalAfterSave
  <1>10. ASSUME NEW e \in Entries, CheckSource(o, e) \/ CheckArchived(o, e)
         PROVE  PlansAreOriginal'
    BY <1>10, <1>2, <1>3, EnterMoves, OriginalAfter DEF CheckSource, CheckArchived, files
  <1>11. ASSUME NEW e \in Entries, ConfirmMove(o, e)
         PROVE  PlansAreOriginal'
    BY <1>11, <1>2, <1>3, CommandMoves, OriginalAfter DEF ConfirmMove, files
  <1>12. ASSUME NEW e \in Entries, MoveEntry(o, e)
         PROVE  PlansAreOriginal'
    <2>1. cmd.archive \in Archives
      BY <1>12, <1>1 DEF MoveEntry, FollowsSaved
    <2>2. Original(live)'
      BY <1>12, <2>1, RenameIsOriginal DEF MoveEntry
    <2> QED BY <1>12, <1>2, <2>2, EnterMoves, OriginalAfter DEF MoveEntry
  <1>13. ASSUME NEW e \in Entries, RestoreEntry(o, e)
         PROVE  PlansAreOriginal'
    <2>1. cmd.archive \in Archives
      BY <1>13, <1>1 DEF RestoreEntry, FollowsSaved
    <2>2. Original(live)'
      BY <1>13, <2>1, RenameIsOriginal DEF RestoreEntry
    <2> QED BY <1>13, <1>2, <2>2, CommandMoves, OriginalAfter DEF RestoreEntry
  <1>14. CASE FinishApply(o) \/ FailApply(o) \/ FinishRollback(o)
    <2>1. cmd.archive \in Archives
      BY <1>14, <1>1 DEF FinishApply, FailApply, FinishRollback, Guarded, FollowsSaved
    <2>2. PICK state \in {"failed", "complete", "rolled_back"} :
            save_manifest(cmd.archive, state, cmd.plan)
      BY <1>14 DEF FinishApply, FailApply, FinishRollback
    <2>3. Become(o, NoCommand) /\ UNCHANGED <<live, kept>>
      BY <1>14 DEF FinishApply, FailApply, FinishRollback
    <2> QED BY <2>1, <2>2, <2>3, <1>5, OriginalAfterSave
  <1>15. CASE CheckRollback(o)
    <2> DEFINE plan == manifest[cmd.archive].plan
    <2>1. cmd.archive \in Archives /\ manifest[cmd.archive] # None
      BY <1>15, <1>1 DEF CheckRollback, Restorable, FollowsSaved
    <2>2. Original(plan)
      BY <2>1 DEF PlansAreOriginal
    <2> QED BY <1>15, <2>2, <1>3, CommandMoves, OriginalAfter DEF CheckRollback, files
  <1> QED
    BY <1>6, <1>7, <1>8, <1>9, <1>10, <1>11, <1>12, <1>13, <1>14, <1>15 DEF Step

-----------------------------------------------------------------------------
\* A plan made under the lock is of entries under their names, which no archive holds.
LEMMA PlannedHere ==
  ASSUME ArchiveTypeOK, FreshVersions, OnePlace, PlansAreOriginal, writes = 0, NEW a
  PROVE  HeldByNoOther(live, a, Archives)
  <1> SUFFICES ASSUME NEW e \in Planned(live), NEW b \in Archives \ {a}
               PROVE  stored[b][e] = None
    BY DEF HeldByNoOther
  <1>1. e \in Entries /\ kept[e] # {}
    BY PlannedIsKept DEF PlansAreOriginal
  <1>2. live[e] # None
    BY DEF Planned
  <1> QED BY <1>1, <1>2, OriginalPlace

\* Only the command past locking renames, so the others apply as alone as before.
LEMMA OthersApplyAlone ==
  ASSUME HolderIsBusy, AppliesAlone, writes = 0, NEW o \in Operators,
         \A q \in Operators \ {o} : command'[q] = command[q],
         UNCHANGED stored \/ command[o].phase \in Holding,
         command'[o].phase \in Applying =>
           \A e \in Planned(command'[o].plan) :
             \A b \in Archives \ {command'[o].archive} : stored'[b][e] = None
  PROVE  AppliesAlone'
  <1>1. ASSUME NEW q \in Operators \ {o}, command'[q].phase \in Applying,
               NEW e \in Planned(command'[q].plan), NEW b \in Archives \ {command'[q].archive}
        PROVE  stored'[b][e] = None
    <2>1. command'[q] = command[q] /\ stored[b][e] = None
      BY <1>1 DEF AppliesAlone, HeldByNoOther
    <2>2. command[q].phase \in Holding
      BY <1>1, <2>1 DEF Applying, Guarded, Holding
    <2>3. command[o].phase \notin Holding
      BY <2>2, OneHolder
    <2> QED BY <2>1, <2>3
  <1> QED BY <1>1 DEF AppliesAlone, HeldByNoOther, Planned

\* A command that goes on applying keeps its plan and touches no archive but its own.
LEMMA GoesOnApplying ==
  ASSUME HolderIsBusy, AppliesAlone, writes = 0, NEW o \in Operators,
         command[o].phase \in Applying,
         command'[o].plan = command[o].plan, command'[o].archive = command[o].archive,
         \A q \in Operators \ {o} : command'[q] = command[q],
         \A b \in Archives \ {command[o].archive}, e \in Entries : stored'[b][e] = stored[b][e]
  PROVE  AppliesAlone'
  <1>1. command[o].phase \in Holding
    BY DEF Applying, Guarded, Holding
  <1>2. \A e \in Planned(command'[o].plan) :
          \A b \in Archives \ {command'[o].archive} : stored'[b][e] = None
    BY DEF AppliesAlone, HeldByNoOther, Planned
  <1> QED BY <1>1, <1>2, OthersApplyAlone

LEMMA StepsApplyAlone ==
  ASSUME ArchiveInv, PlansAreOriginal, AppliesAlone, writes = 0, NEW o \in Operators, Step(o)
  PROVE  AppliesAlone'
  <1> DEFINE cmd == command[o]
  <1> USE DEF ArchiveInv
  <1>1. FollowsSaved(o)
    BY DEF SavedFirst
  <1>2. ASSUME NEW a \in Archives, ReviewPlan(o, a) \/ LockForRollback(o, a)
        PROVE  AppliesAlone'
    BY <1>2, CommandMoves, OthersApplyAlone
       DEF ReviewPlan, LockForRollback, files, Applying, Guarded
  <1>3. CASE StartApply(o)
    BY <1>3, EnterMoves, OthersApplyAlone DEF StartApply, files, Applying, Guarded
  <1>4. CASE LockForApply(o)
    <2>1. cmd.plan = live
      BY <1>4 DEF LockForApply, archive_plan
    <2>2. /\ command'[o].plan = live /\ command'[o].archive = cmd.archive
          /\ \A q \in Operators \ {o} : command'[q] = command[q]
      BY <1>4, <2>1, EnterMoves DEF LockForApply
    <2>3. UNCHANGED stored
      BY <1>4 DEF LockForApply, files
    <2>4. \A e \in Planned(live) : \A b \in Archives \ {cmd.archive} : stored[b][e] = None
      BY PlannedHere DEF HeldByNoOther
    <2> QED BY <2>2, <2>3, <2>4, OthersApplyAlone
  <1>5. CASE Refuse(o) \/ Crash(o)
    BY <1>5, StopMoves, OthersApplyAlone DEF Refuse, Crash, files, Applying, Guarded
  <1>6. CASE MakeArchive(o)
    BY <1>6, EnterMoves, GoesOnApplying DEF MakeArchive, Applying, Guarded
  <1>7. CASE SaveInProgress(o)
    BY <1>7, CommandMoves, GoesOnApplying DEF SaveInProgress, Applying, Guarded
  <1>8. ASSUME NEW e \in Entries, CheckSource(o, e)
        PROVE  AppliesAlone'
    BY <1>8, EnterMoves, GoesOnApplying DEF CheckSource, files, Applying, Guarded
  <1>9. ASSUME NEW e \in Entries, CheckArchived(o, e)
        PROVE  AppliesAlone'
    BY <1>9, EnterMoves, OthersApplyAlone DEF CheckArchived, files, Applying, Guarded
  <1>10. ASSUME NEW e \in Entries, ConfirmMove(o, e)
         PROVE  AppliesAlone'
    BY <1>10, CommandMoves, GoesOnApplying DEF ConfirmMove, files, Applying, Guarded
  <1>11. ASSUME NEW e \in Entries, MoveEntry(o, e)
         PROVE  AppliesAlone'
    <2>1. cmd.archive \in Archives
      BY <1>11, <1>1 DEF MoveEntry, FollowsSaved
    <2> DEFINE a == cmd.archive
    <2>2. \A b \in Archives, f \in Entries : (b # a \/ f # e) => stored'[b][f] = stored[b][f]
      BY <1>11, <2>1, RenameMoves DEF MoveEntry
    <2>3. \A b \in Archives \ {cmd.archive}, f \in Entries : stored'[b][f] = stored[b][f]
      BY <2>2
    <2>4. /\ command'[o].plan = cmd.plan /\ command'[o].archive = cmd.archive
          /\ \A q \in Operators \ {o} : command'[q] = command[q]
      BY <1>11, EnterMoves DEF MoveEntry
    <2>5. cmd.phase \in Applying
      BY <1>11 DEF MoveEntry, Applying, Guarded
    <2> QED BY <2>3, <2>4, <2>5, GoesOnApplying
  <1>12. ASSUME NEW e \in Entries, RestoreEntry(o, e)
         PROVE  AppliesAlone'
    BY <1>12, CommandMoves, OthersApplyAlone DEF RestoreEntry, Applying, Guarded, Holding
  <1>13. CASE FinishApply(o) \/ FailApply(o) \/ FinishRollback(o)
    BY <1>13, StopMoves, OthersApplyAlone
       DEF FinishApply, FailApply, FinishRollback, Applying, Guarded
  <1>14. CASE CheckRollback(o)
    BY <1>14, CommandMoves, OthersApplyAlone DEF CheckRollback, files, Applying, Guarded
  <1> QED
    BY <1>2, <1>3, <1>4, <1>5, <1>6, <1>7, <1>8, <1>9, <1>10, <1>11, <1>12, <1>13, <1>14
       DEF Step

-----------------------------------------------------------------------------
\* What holds something keeps its plan, and no archive takes anything in.
LEMMA NothingTakenIn ==
  ASSUME SomeIsLast, writes = 0,
         \A a \in Holders : manifest'[a].plan = manifest[a].plan,
         \A a \in Archives, e \in Entries : stored'[a][e] # None => stored[a][e] # None
  PROVE  SomeIsLast'
  <1> SUFFICES ASSUME NEW S \in (SUBSET Holders') \ {{}}
               PROVE  \E a \in S : HeldByNoOther(manifest[a].plan, a, S)'
    BY DEF SomeIsLast
  <1>1. S \in (SUBSET Holders) \ {{}}
    BY DEF Holders, Planned
  <1>2. PICK a \in S : HeldByNoOther(manifest[a].plan, a, S)
    BY <1>1 DEF SomeIsLast
  <1>3. manifest'[a].plan = manifest[a].plan /\ S \subseteq Archives
    BY <1>1 DEF Holders
  <1>4. \A e \in Planned(manifest'[a].plan) : \A b \in S \ {a} : stored'[b][e] = None
    BY <1>2, <1>3 DEF HeldByNoOther, Planned
  <1> QED BY <1>4 DEF HeldByNoOther, Planned

\* The archive that is applied takes an entry in: no other holds anything of its plan.
LEMMA AppliedIsLast ==
  ASSUME SomeIsLast, writes = 0, UNCHANGED manifest, NEW a \in Archives,
         HeldByNoOther(manifest[a].plan, a, Archives),
         \A b \in Archives \ {a}, e \in Entries : stored'[b][e] = stored[b][e]
  PROVE  SomeIsLast'
  <1> SUFFICES ASSUME NEW S \in (SUBSET Holders') \ {{}}
               PROVE  \E b \in S : HeldByNoOther(manifest[b].plan, b, S)'
    BY DEF SomeIsLast
  <1>1. S \subseteq Archives
    BY DEF Holders
  <1>2. CASE a \in S
    <2>1. \A e \in Planned(manifest'[a].plan) : \A b \in S \ {a} : stored'[b][e] = None
      BY <1>1 DEF HeldByNoOther, Planned
    <2> QED BY <1>2, <2>1 DEF HeldByNoOther, Planned
  <1>3. CASE a \notin S
    <2>1. S \in (SUBSET Holders) \ {{}}
      BY <1>1, <1>3 DEF Holders, Planned
    <2>2. PICK b \in S : HeldByNoOther(manifest[b].plan, b, S)
      BY <2>1 DEF SomeIsLast
    <2>3. \A e \in Planned(manifest'[b].plan) : \A d \in S \ {b} : stored'[d][e] = None
      BY <1>1, <1>3, <2>2 DEF HeldByNoOther, Planned
    <2> QED BY <2>3 DEF HeldByNoOther, Planned
  <1> QED BY <1>2, <1>3

\* An archive that holds something has a manifest, and saves its plan again.
LEMMA SavesSamePlan ==
  ASSUME ArchiveInv, NEW o \in Operators, command[o].phase \in Saved \cup {"made"},
         NEW state \in {"in_progress", "failed", "complete", "rolled_back"},
         save_manifest(command[o].archive, state, command[o].plan)
  PROVE  \A a \in Holders : manifest'[a].plan = manifest[a].plan
  <1> DEFINE a == command[o].archive
             plan == command[o].plan
  <1> USE DEF ArchiveInv
  <1>1. FollowsSaved(o) /\ plan \in Plans
    BY DEF SavedFirst, ArchiveTypeOK, Commands
  <1>2. a \in Archives
    BY <1>1 DEF FollowsSaved, Saved
  <1>3. manifest'[a].plan = plan /\ \A b \in Archives \ {a} : manifest'[b] = manifest[b]
    BY <1>1, <1>2, SavedManifest
  <1>4. a \in Holders => manifest[a] # None
    BY DEF Holders, Planned, ListedInManifest
  <1>5. a \in Holders => manifest[a].plan = plan
    BY <1>1, <1>4 DEF FollowsSaved
  <1> QED BY <1>3, <1>5 DEF Holders

LEMMA StepsKeepLast ==
  ASSUME ArchiveInv, AppliesAlone, SomeIsLast, writes = 0, NEW o \in Operators, Step(o)
  PROVE  SomeIsLast'
  <1> DEFINE cmd == command[o]
  <1>1. FollowsSaved(o)
    BY DEF ArchiveInv, SavedFirst
  <1>2. UNCHANGED <<stored, manifest>> => SomeIsLast'
    BY NothingTakenIn
  <1>3. CASE SaveInProgress(o) \/ FinishApply(o) \/ FailApply(o) \/ FinishRollback(o)
    <2>1. PICK state \in {"in_progress", "failed", "complete", "rolled_back"} :
            save_manifest(cmd.archive, state, cmd.plan)
      BY <1>3 DEF SaveInProgress, FinishApply, FailApply, FinishRollback
    <2>2. cmd.phase \in Saved \cup {"made"} /\ UNCHANGED stored
      BY <1>3 DEF SaveInProgress, FinishApply, FailApply, FinishRollback, Guarded, Saved
    <2>3. \A a \in Holders : manifest'[a].plan = manifest[a].plan
      BY <2>1, <2>2, SavesSamePlan
    <2> QED BY <2>2, <2>3, NothingTakenIn
  <1>4. ASSUME NEW e \in Entries, MoveEntry(o, e)
        PROVE  SomeIsLast'
    <2>1. cmd.archive \in Archives /\ manifest[cmd.archive].plan = cmd.plan
      BY <1>4, <1>1 DEF MoveEntry, FollowsSaved, Saved
    <2>2. HeldByNoOther(cmd.plan, cmd.archive, Archives)
      BY <1>4 DEF MoveEntry, AppliesAlone, Applying, Guarded
    <2> DEFINE a == cmd.archive
    <2>3. \A b \in Archives, f \in Entries : (b # a \/ f # e) => stored'[b][f] = stored[b][f]
      BY <1>4, <2>1, RenameMoves DEF MoveEntry, ArchiveInv
    <2>4. \A b \in Archives \ {cmd.archive}, f \in Entries : stored'[b][f] = stored[b][f]
      BY <2>3
    <2>5. UNCHANGED manifest
      BY <1>4 DEF MoveEntry
    <2> QED BY <2>1, <2>2, <2>4, <2>5, AppliedIsLast
  <1>5. ASSUME NEW e \in Entries, RestoreEntry(o, e)
        PROVE  SomeIsLast'
    <2>1. cmd.archive \in Archives
      BY <1>5, <1>1 DEF RestoreEntry, FollowsSaved
    <2> DEFINE a == cmd.archive
    <2>2. /\ stored'[a][e] = None
          /\ \A b \in Archives, f \in Entries : (b # a \/ f # e) => stored'[b][f] = stored[b][f]
      BY <1>5, <2>1, RenameMoves DEF RestoreEntry, ArchiveInv
    <2>3. \A b \in Archives, f \in Entries : stored'[b][f] # None => stored[b][f] # None
      BY <2>2
    <2>4. UNCHANGED manifest
      BY <1>5 DEF RestoreEntry
    <2> QED BY <2>3, <2>4, NothingTakenIn
  <1> QED
    BY <1>2, <1>3, <1>4, <1>5
       DEF Step, ReviewPlan, LockForRollback, StartApply, LockForApply, Refuse, MakeArchive,
           CheckSource, ConfirmMove, CheckArchived, CheckRollback, Crash, files

-----------------------------------------------------------------------------
LEMMA IdleNext ==
  ASSUME ArchiveInv, IdleSourcesInv, [ArchiveNext]_archiveVars
  PROVE  IdleSourcesInv'
  <1>1. ASSUME NEW o \in Operators, Step(o)
        PROVE  IdleSourcesInv'
    <2>1. UNCHANGED writes
      BY <1>1 DEF Step, ReviewPlan, LockForRollback, StartApply, LockForApply, Refuse, MakeArchive,
           SaveInProgress, CheckSource, MoveEntry, ConfirmMove, CheckArchived, RestoreEntry,
           FinishApply, FailApply, CheckRollback, FinishRollback, Crash
    <2>2. CASE writes = 0
      BY <1>1, <2>2, StepsAreOriginal, StepsApplyAlone, StepsKeepLast DEF IdleSourcesInv
    <2>3. CASE writes # 0
      BY <2>1, <2>3 DEF IdleSourcesInv, PlansAreOriginal, AppliesAlone, SomeIsLast
    <2> QED BY <2>2, <2>3
  <1>2. ASSUME NEW e \in Entries, Write(e)
        PROVE  IdleSourcesInv'
    <2>1. writes' # 0
      BY <1>2, ArchiveBounds DEF Write, ArchiveInv, ArchiveTypeOK, Versions
    <2> QED BY <2>1 DEF IdleSourcesInv, PlansAreOriginal, AppliesAlone, SomeIsLast
  <1>3. CASE UNCHANGED archiveVars
    <2>1. PlansAreOriginal'
      BY <1>3 DEF archiveVars, IdleSourcesInv, PlansAreOriginal, Original
    <2>2. AppliesAlone'
      BY <1>3 DEF archiveVars, IdleSourcesInv, AppliesAlone, HeldByNoOther, Planned
    <2>3. SomeIsLast'
      <3>1. Holders' = Holders /\ UNCHANGED <<stored, manifest, writes>>
        BY <1>3 DEF archiveVars, Holders, Planned
      <3>2. \A a \in Holders : \A S \in SUBSET Holders :
              HeldByNoOther(manifest[a].plan, a, S)' <=> HeldByNoOther(manifest[a].plan, a, S)
        BY <3>1 DEF HeldByNoOther, Planned
      <3> QED BY <3>1, <3>2 DEF IdleSourcesInv, SomeIsLast
    <2> QED BY <2>1, <2>2, <2>3 DEF IdleSourcesInv
  <1> QED BY <1>1, <1>2, <1>3 DEF ArchiveNext

LEMMA LastIsRestorable ==
  ASSUME ArchiveInv, IdleSourcesInv, writes = 0,
         NEW a \in Holders, HeldByNoOther(manifest[a].plan, a, Holders)
  PROVE  Restorable(a)
  <1> USE DEF ArchiveInv, IdleSourcesInv
  <1>1. a \in Archives /\ manifest[a] # None
    BY DEF Holders, Planned, ListedInManifest
  <1>2. ASSUME NEW e \in Planned(manifest[a].plan)
        PROVE  AtHome(a, e) \/ Away(a, e)
    <2>1. e \in Entries /\ kept[e] # {} /\ Original(manifest[a].plan)
      BY <1>1, <1>2, PlannedIsKept DEF PlansAreOriginal
    <2>2. kept[e] = {0}
      BY <2>1, OriginalPlace
    <2>3. manifest[a].plan[e] = 0 /\ None # 0
      BY <1>2, <2>1, <2>2, NoneIsNoData DEF Original, Planned
    <2>4. CASE live[e] = 0
      BY <1>1, <2>1, <2>3, <2>4, OriginalPlace DEF AtHome
    <2>5. CASE live[e] # 0
      <3>1. PICK b \in Archives : stored[b][e] = 0
        BY <2>1, <2>5, OriginalPlace
      <3>2. b \in Holders
        BY <2>1, <2>3, <3>1 DEF Holders, Planned
      <3>3. b = a
        BY <1>2, <2>3, <3>1, <3>2 DEF HeldByNoOther
      <3>4. live[e] = None
        BY <2>1, <3>1, OriginalPlace
      <3> QED BY <2>3, <3>1, <3>3, <3>4 DEF Away
    <2> QED BY <2>4, <2>5
  <1> QED BY <1>1, <1>2 DEF Restorable

\* As long as the sources are idle as declared, whatever was interrupted can be taken back: while
\* archives hold anything, one that does passes the checks of rollback_archive.
THEOREM RollbacksArePossible == ArchiveSpec => []RollbackIsPossible
  <1>1. ArchiveInv /\ IdleSourcesInv => RollbackIsPossible
    <2> SUFFICES ASSUME ArchiveInv, IdleSourcesInv, writes = 0, Holders # {}
                 PROVE  \E a \in Holders : Restorable(a)
      BY DEF RollbackIsPossible, Holders
    <2>1. PICK a \in Holders : HeldByNoOther(manifest[a].plan, a, Holders)
      BY DEF IdleSourcesInv, SomeIsLast
    <2> QED BY <2>1, LastIsRestorable
  <1>2. ArchiveSpec => []IdleSourcesInv
    <2>1. ArchiveInv /\ IdleSourcesInv /\ [ArchiveNext]_archiveVars => IdleSourcesInv'
      BY IdleNext
    <2> QED BY <2>1, IdleInit, ArchiveInvariant, PTL DEF ArchiveSpec
  <1> QED BY <1>1, <1>2, ArchiveInvariant, PTL

=============================================================================

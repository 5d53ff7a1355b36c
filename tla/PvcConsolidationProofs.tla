----------------------- MODULE PvcConsolidationProofs -----------------------
(***************************************************************************)
(* Proofs about the consolidation, for any plan, backups and operators.    *)
(***************************************************************************)
EXTENDS PvcConsolidation, TLAPS

Commands == [phase : MoverPhases, backup : Backups \cup {None}, plan : Plan, todo : SUBSET Operations]

(***************************************************************************)
(* What an operator at work knows: it has the lock, the transaction is     *)
(* there, and the plan it follows is the recorded one.                     *)
(***************************************************************************)
Unlocked == {"idle", "verified"}
Untouched == {"idle", "verified", "locked"}
Applying == {"creating", "moving", "checked", "looked", "moved"}
Restoring == {"preparing", "restoring", "back_looked", "restored", "removing"}

Follows(c, t) == t.plan = c.plan /\ c.todo \subseteq PlannedOperations(c.plan)

Working(o) ==
  LET c == mover[o]
      t == transaction[c.backup] IN
  /\ c.phase # "idle" => c.backup \in Backups
  /\ c.phase \notin Unlocked => consolidationLock = o
  /\ c.phase \notin Untouched => t # None
  /\ c.phase \in {"verified", "locked", "made"} => c.todo = {}
  /\ c.phase = "made" => t.state = "none"
  /\ c.phase \in Applying => t.state = "in_progress" /\ Follows(c, t)
  /\ c.phase \in Restoring => t.state # "none" /\ Follows(c, t)

TypeInv == ConsolidationTypeOK /\ \A o \in Movers : Working(o)

\* The command an operator runs after a step, part by part.
Becomes(o, phase, backup, plan, todo) ==
  /\ mover' \in [Movers -> Commands]
  /\ \A r \in Movers : r # o => mover'[r] = mover[r]
  /\ mover'[o].phase = phase /\ mover'[o].backup = backup
  /\ mover'[o].plan = plan /\ mover'[o].todo = todo

LEMMA EmptyTypes ==
  /\ Nothing \in Slots /\ EmptyPlan \in Plan
  /\ NoMove \in Commands /\ NoMove.phase = "idle"
BY DEF Nothing, Slots, EmptyPlan, Plan, NoMove, Commands, MoverPhases

LEMMA PlanType == ConsolidationTypeOK => consolidation_plan \in Plan
BY DEF ConsolidationTypeOK, consolidation_plan, Plan, Slots

LEMMA MoverIs ==
  ASSUME ConsolidationTypeOK, NEW o \in Movers
  PROVE  mover[o] \in Commands
BY DEF ConsolidationTypeOK, Commands

LEMMA DoIs ==
  ASSUME ConsolidationTypeOK, NEW o \in Movers, NEW next \in Commands, Do(o, next)
  PROVE  Becomes(o, next.phase, next.backup, next.plan, next.todo)
BY DEF ConsolidationTypeOK, Commands, Do, Becomes

LEMMA IdleIs ==
  ASSUME ConsolidationTypeOK, NEW o \in Movers, Do(o, NoMove)
  PROVE  Becomes(o, "idle", None, EmptyPlan, {})
<1>1. Becomes(o, NoMove.phase, NoMove.backup, NoMove.plan, NoMove.todo)
  BY EmptyTypes, DoIs
<1> QED
  BY <1>1 DEF NoMove

LEMMA MoverAtIs ==
  ASSUME ConsolidationTypeOK, NEW o \in Movers, NEW phase \in MoverPhases, MoverAt(o, phase)
  PROVE  Becomes(o, phase, mover[o].backup, mover[o].plan, mover[o].todo)
<1> DEFINE next == [mover[o] EXCEPT !.phase = phase]
<1>1. /\ next \in Commands /\ next.phase = phase /\ next.backup = mover[o].backup
      /\ next.plan = mover[o].plan /\ next.todo = mover[o].todo
  BY MoverIs DEF Commands
<1>2. Do(o, next)
  BY DEF MoverAt
<1> HIDE DEF next
<1>3. Becomes(o, next.phase, next.backup, next.plan, next.todo)
  BY <1>1, <1>2, DoIs
<1> QED
  BY <1>1, <1>3

LEMMA TodoIs ==
  ASSUME ConsolidationTypeOK, NEW o \in Movers, NEW phase \in MoverPhases,
         NEW todo \in SUBSET Operations, Do(o, [mover[o] EXCEPT !.phase = phase, !.todo = todo])
  PROVE  Becomes(o, phase, mover[o].backup, mover[o].plan, todo)
<1> DEFINE next == [mover[o] EXCEPT !.phase = phase, !.todo = todo]
<1>1. /\ next \in Commands /\ next.phase = phase /\ next.backup = mover[o].backup
      /\ next.plan = mover[o].plan /\ next.todo = todo
  BY MoverIs DEF Commands
<1> HIDE DEF next
<1>3. Becomes(o, next.phase, next.backup, next.plan, next.todo)
  BY <1>1, DoIs DEF next
<1> QED
  BY <1>1, <1>3

(***************************************************************************)
(* What happens to a transaction.                                          *)
(***************************************************************************)
LEMMA SavedTransaction ==
  ASSUME ConsolidationTypeOK, NEW b \in Backups, NEW state \in States, NEW p \in Plan,
         transaction[b] # None, save_transaction(b, state, p)
  PROVE  /\ transaction' \in [Backups -> Transactions \cup {None}]
         /\ \A c \in Backups : transaction[c] # None => transaction'[c] # None
         /\ \A c \in Backups : c # b => transaction'[c] = transaction[c]
         /\ transaction'[b] # None
         /\ transaction'[b].state = state /\ transaction'[b].plan = p
         /\ transaction'[b].kept = transaction[b].kept
<1>1. transaction \in [Backups -> Transactions \cup {None}] /\ transaction[b] \in Transactions
  BY DEF ConsolidationTypeOK
<1> DEFINE t == [transaction[b] EXCEPT !.state = state, !.plan = p]
<1>2. t \in Transactions
  BY <1>1 DEF Transactions
<1>3. t.state = state /\ t.plan = p /\ t.kept = transaction[b].kept
  BY <1>1 DEF Transactions
<1>4. transaction' = [transaction EXCEPT ![b] = t]
  BY <1>1 DEF save_transaction, Transactions
<1>5. t # None
  BY <1>2, NoneIsNoEntry
<1> HIDE DEF t
<1> QED
  BY <1>1, <1>2, <1>3, <1>4, <1>5

\* What a transaction keeps out of the way changes, its plan does not.
SetsAside(b, e, v) == transaction' = [transaction EXCEPT ![b].kept[e] = v]

LEMMA KeptTransaction ==
  ASSUME ConsolidationTypeOK, NEW b \in Backups, NEW e \in Operations,
         NEW v \in Fingerprints \cup {None}, transaction[b] # None, SetsAside(b, e, v)
  PROVE  /\ transaction' \in [Backups -> Transactions \cup {None}]
         /\ \A c \in Backups : transaction[c] # None => transaction'[c] # None
         /\ \A c \in Backups : c # b => transaction'[c] = transaction[c]
         /\ transaction'[b] # None
         /\ transaction'[b].state = transaction[b].state /\ transaction'[b].plan = transaction[b].plan
         /\ transaction'[b].kept = [transaction[b].kept EXCEPT ![e] = v]
<1>1. transaction \in [Backups -> Transactions \cup {None}] /\ transaction[b] \in Transactions
  BY DEF ConsolidationTypeOK
<1> DEFINE t == [transaction[b] EXCEPT !.kept = [transaction[b].kept EXCEPT ![e] = v]]
<1>2. [transaction[b].kept EXCEPT ![e] = v] \in Slots
  BY <1>1 DEF Transactions, Slots
<1>3. t \in Transactions
  BY <1>1, <1>2 DEF Transactions
<1>4. /\ t.state = transaction[b].state /\ t.plan = transaction[b].plan
      /\ t.kept = [transaction[b].kept EXCEPT ![e] = v]
  BY <1>1 DEF Transactions
<1>5. transaction' = [transaction EXCEPT ![b] = t]
  BY <1>1 DEF SetsAside, Transactions
<1>6. t # None
  BY <1>3, NoneIsNoEntry
<1> HIDE DEF t
<1> QED
  BY <1>1, <1>3, <1>4, <1>5, <1>6

(***************************************************************************)
(* Steps of an operator: the others keep their lock and their transaction. *)
(***************************************************************************)
LEMMA OperatorStep ==
  ASSUME TypeInv, NEW o \in Movers, NEW phase, NEW backup, NEW plan, NEW todo,
         Becomes(o, phase, backup, plan, todo),
         old' \in Slots, new' \in Slots, oldDir' \in BOOLEAN, newParent' \in BOOLEAN,
         fresh' \subseteq Backups, consolidationLock' \in Movers \cup {None}, UNCHANGED Settled,
         taken' \in [Backups -> Slots],
         transaction' \in [Backups -> Transactions \cup {None}],
         \A r \in Movers : (r # o /\ consolidationLock = r) => consolidationLock' = r,
         transaction' = transaction \/ consolidationLock = o,
         Working(o)'
  PROVE  TypeInv'
<1>1. ConsolidationTypeOK'
  BY DEF TypeInv, ConsolidationTypeOK, Becomes, Commands, Settled
<1>2. ASSUME NEW r \in Movers, r # o PROVE Working(r)'
  <2>1. mover'[r] = mover[r] /\ Working(r)
    BY <1>2 DEF TypeInv, Becomes
  <2>2. CASE mover[r].phase \in Unlocked
    BY <2>1, <2>2 DEF Working, Unlocked, Untouched, Applying, Restoring
  <2>3. CASE mover[r].phase \notin Unlocked
    <3>1. consolidationLock = r /\ consolidationLock' = r
      BY <1>2, <2>1, <2>3 DEF Working
    <3>2. transaction' = transaction
      BY <1>2, <3>1
    <3> QED
      BY <2>1, <3>1, <3>2 DEF Working
  <2> QED
    BY <2>2, <2>3
<1> QED
  BY <1>1, <1>2 DEF TypeInv

\* One that leaves layout and transactions alone, and the lock with whoever has it.
LEMMA ThinkingStep ==
  ASSUME TypeInv, NEW o \in Movers, NEW phase, NEW backup, NEW plan, NEW todo,
         Becomes(o, phase, backup, plan, todo),
         UNCHANGED <<layout, Rest, fresh, transaction, consolidationLock>>, Working(o)'
  PROVE  TypeInv'
BY OperatorStep DEF TypeInv, ConsolidationTypeOK, layout, Rest, Settled

-----------------------------------------------------------------------------
Takes(b, e, v) == taken' = [taken EXCEPT ![b][e] = v]

LEMMA TakenType ==
  ASSUME ConsolidationTypeOK, NEW b, NEW e \in Operations, NEW v \in Fingerprints \cup {None},
         Takes(b, e, v)
  PROVE  /\ taken' \in [Backups -> Slots]
         /\ \A c \in Backups, f \in Operations :
              taken'[c][f] = IF c = b /\ f = e THEN v ELSE taken[c][f]
BY DEF Takes, ConsolidationTypeOK, Slots

LEMMA TypeStart == ConsolidationInit => TypeInv
<1> SUFFICES ASSUME ConsolidationInit PROVE TypeInv
  OBVIOUS
<1>1. old \in Slots /\ new \in Slots
  BY ConsolidationBounds DEF ConsolidationInit, Slots, Fingerprints
<1>2. mover \in [Movers -> Commands] /\ \A o \in Movers : mover[o].phase = "idle"
  BY EmptyTypes DEF ConsolidationInit
<1>3. /\ oldDir \in BOOLEAN /\ newParent \in BOOLEAN
      /\ original \in Slots \X Slots \X BOOLEAN \X BOOLEAN
  BY <1>1 DEF ConsolidationInit, layout
<1>4. taken \in [Backups -> Slots]
  BY EmptyTypes DEF ConsolidationInit
<1>5. ConsolidationTypeOK
  BY <1>1, <1>2, <1>3, <1>4, ConsolidationBounds DEF ConsolidationInit, ConsolidationTypeOK, Commands
<1> QED
  BY <1>2, <1>5 DEF TypeInv, Working, Unlocked, Untouched, Applying, Restoring

\* The command after a step, and what the operator knows then.
LEMMA VerifyType ==
  ASSUME TypeInv, NEW o \in Movers, NEW b \in Backups, VerifyConsolidation(o, b)
  PROVE  TypeInv' /\ Becomes(o, "verified", b, consolidation_plan, {})
<1> DEFINE next == [NoMove EXCEPT !.phase = "verified", !.backup = b, !.plan = consolidation_plan]
<1>1. consolidation_plan \in Plan /\ NoMove \in Commands
  BY EmptyTypes, PlanType DEF TypeInv
<1>2. /\ next \in Commands /\ next.phase = "verified" /\ next.backup = b
      /\ next.plan = consolidation_plan /\ next.todo = {}
  BY <1>1 DEF Commands, NoMove, MoverPhases
<1>3. Do(o, next) /\ UNCHANGED <<layout, Rest, fresh, transaction, consolidationLock>>
  BY DEF VerifyConsolidation
<1> HIDE DEF next
<1>4. Becomes(o, "verified", b, consolidation_plan, {})
  BY <1>2, <1>3, DoIs DEF TypeInv
<1>5. Working(o)'
  BY <1>4 DEF Becomes, Working, Unlocked, Untouched, Applying, Restoring
<1> QED
  BY <1>3, <1>4, <1>5, ThinkingStep

LEMMA LockType ==
  ASSUME TypeInv, NEW o \in Movers, LockAndRecheck(o)
  PROVE  TypeInv' /\ Becomes(o, "locked", mover[o].backup, mover[o].plan, mover[o].todo)
<1>1. Becomes(o, "locked", mover[o].backup, mover[o].plan, mover[o].todo)
  BY MoverAtIs DEF LockAndRecheck, TypeInv, MoverPhases
<1>2. /\ mover[o].phase = "verified" /\ UNCHANGED <<layout, Rest, fresh, transaction>>
      /\ consolidationLock = None /\ consolidationLock' = o
  BY DEF LockAndRecheck
<1>3. Working(o)'
  BY <1>1, <1>2 DEF Becomes, TypeInv, Working, Unlocked, Untouched, Applying, Restoring
<1> QED
  BY <1>1, <1>2, <1>3, OperatorStep, NoneIsNoEntry DEF TypeInv, ConsolidationTypeOK, layout, Rest, Settled

LEMMA IdleType ==
  ASSUME TypeInv, NEW o \in Movers, RefuseConsolidation(o) \/ StopMover(o)
  PROVE  TypeInv' /\ Becomes(o, "idle", None, EmptyPlan, {})
<1>1. Becomes(o, "idle", None, EmptyPlan, {})
  BY IdleIs DEF RefuseConsolidation, StopMover, TypeInv
<1>2. /\ UNCHANGED <<layout, Rest, fresh, transaction>>
      /\ consolidationLock' = consolidationLock \/ (consolidationLock = o /\ consolidationLock' = None)
  BY DEF RefuseConsolidation, StopMover
<1>3. Working(o)'
  BY <1>1, <1>2 DEF Becomes, Working, Unlocked, Untouched, Applying, Restoring
<1>4. consolidationLock' \in Movers \cup {None}
  BY <1>2 DEF TypeInv, ConsolidationTypeOK
<1> QED
  BY <1>1, <1>2, <1>3, <1>4, OperatorStep DEF TypeInv, ConsolidationTypeOK, layout, Rest, Settled

LEMMA LockToRestoreType ==
  ASSUME TypeInv, NEW o \in Movers, NEW b \in Backups, LockToRestore(o, b)
  PROVE  TypeInv' /\ Becomes(o, "finding", b, EmptyPlan, {})
<1> DEFINE next == [NoMove EXCEPT !.phase = "finding", !.backup = b]
<1>1. /\ next \in Commands /\ next.phase = "finding" /\ next.backup = b
      /\ next.plan = EmptyPlan /\ next.todo = {}
  BY EmptyTypes DEF Commands, NoMove, MoverPhases
<1>2. /\ Do(o, next) /\ UNCHANGED <<layout, Rest, fresh, transaction>>
      /\ consolidationLock = None /\ consolidationLock' = o /\ transaction[b] # None
  BY DEF LockToRestore
<1> HIDE DEF next
<1>3. Becomes(o, "finding", b, EmptyPlan, {})
  BY <1>1, <1>2, DoIs DEF TypeInv
<1>4. Working(o)'
  BY <1>2, <1>3 DEF Becomes, Working, Unlocked, Untouched, Applying, Restoring
<1> QED
  BY <1>2, <1>3, <1>4, OperatorStep, NoneIsNoEntry DEF TypeInv, ConsolidationTypeOK, layout, Rest, Settled

LEMMA MakeTransactionType ==
  ASSUME TypeInv, NEW o \in Movers, MakeTransaction(o)
  PROVE  /\ TypeInv' /\ Becomes(o, "made", mover[o].backup, mover[o].plan, mover[o].todo)
         /\ mover[o].backup \in Backups /\ transaction[mover[o].backup] = None
         /\ \A c \in Backups : c # mover[o].backup => transaction'[c] = transaction[c]
         /\ transaction'[mover[o].backup] = [kept |-> Nothing, state |-> "none", plan |-> EmptyPlan]
<1> DEFINE b == mover[o].backup
           t == [kept |-> Nothing, state |-> "none", plan |-> EmptyPlan]
<1>1. Becomes(o, "made", mover[o].backup, mover[o].plan, mover[o].todo)
  BY MoverAtIs DEF MakeTransaction, TypeInv, MoverPhases
<1>2. /\ mover[o].phase = "locked" /\ UNCHANGED <<layout, Rest, fresh, consolidationLock>>
      /\ transaction' = [transaction EXCEPT ![b] = t] /\ transaction[b] = None
  BY DEF MakeTransaction
<1>3. b \in Backups /\ consolidationLock = o /\ mover[o].todo = {}
  BY <1>2 DEF TypeInv, Working, Unlocked
<1>4. t \in Transactions /\ t.state = "none"
  BY EmptyTypes DEF Transactions, States
<1>5. t # None
  BY <1>4, NoneIsNoEntry
<1> HIDE DEF t
<1>6. /\ transaction' \in [Backups -> Transactions \cup {None}]
      /\ transaction'[b] = t /\ \A c \in Backups : c # b => transaction'[c] = transaction[c]
  BY <1>2, <1>3, <1>4 DEF TypeInv, ConsolidationTypeOK
<1>7. Working(o)'
  BY <1>1, <1>2, <1>3, <1>4, <1>5, <1>6
     DEF Becomes, Working, Unlocked, Untouched, Applying, Restoring
<1>8. TypeInv'
  BY <1>1, <1>2, <1>3, <1>6, <1>7, OperatorStep DEF TypeInv, ConsolidationTypeOK, layout, Rest, Settled
<1> QED
  BY <1>1, <1>2, <1>3, <1>6, <1>8 DEF t

\* A manifest saved by the operator that holds the lock.
LEMMA SaveType ==
  ASSUME TypeInv, NEW o \in Movers, NEW state \in States,
         mover[o].phase \notin Untouched,
         save_transaction(mover[o].backup, state, mover[o].plan),
         UNCHANGED <<layout, Rest, fresh>>,
         \/ /\ MoverAt(o, "creating") /\ mover[o].phase = "made" /\ state = "in_progress"
            /\ UNCHANGED consolidationLock /\ mover[o].todo = {}
         \/ Do(o, NoMove) /\ consolidationLock' = None
  PROVE  /\ TypeInv'
         /\ mover[o].backup \in Backups /\ transaction[mover[o].backup] # None
         /\ consolidationLock = o
<1> DEFINE b == mover[o].backup
           p == mover[o].plan
<1>1. p \in Plan /\ b \in Backups /\ transaction[b] # None /\ consolidationLock = o
  BY MoverIs DEF TypeInv, Commands, Working, Untouched, Unlocked
<1>2. /\ transaction' \in [Backups -> Transactions \cup {None}] /\ transaction'[b] # None
      /\ transaction'[b].state = state /\ transaction'[b].plan = p
  BY <1>1, SavedTransaction DEF TypeInv
<1>3. CASE /\ MoverAt(o, "creating") /\ mover[o].phase = "made" /\ state = "in_progress"
           /\ UNCHANGED consolidationLock /\ mover[o].todo = {}
  <2>1. Becomes(o, "creating", b, p, {})
    BY <1>3, MoverAtIs DEF TypeInv, MoverPhases
  <2>2. Working(o)'
    BY <1>1, <1>2, <1>3, <2>1 DEF Becomes, Working, Follows, Unlocked, Untouched, Applying, Restoring
  <2> QED
    BY <1>1, <1>2, <1>3, <2>1, <2>2, OperatorStep DEF TypeInv, ConsolidationTypeOK, layout, Rest, Settled
<1>4. CASE Do(o, NoMove) /\ consolidationLock' = None
  <2>1. Becomes(o, "idle", None, EmptyPlan, {})
    BY <1>4, IdleIs DEF TypeInv
  <2>2. Working(o)'
    BY <2>1 DEF Becomes, Working, Unlocked, Untouched, Applying, Restoring
  <2> QED
    BY <1>1, <1>2, <1>4, <2>1, <2>2, OperatorStep DEF TypeInv, ConsolidationTypeOK, layout, Rest, Settled
<1> QED
  BY <1>1, <1>3, <1>4

LEMMA CreateParentsType ==
  ASSUME TypeInv, NEW o \in Movers, CreateParents(o)
  PROVE  /\ TypeInv'
         /\ Becomes(o, "moving", mover[o].backup, mover[o].plan, PlannedOperations(mover[o].plan))
<1> DEFINE p == mover[o].plan
<1>1. /\ mover[o].phase = "creating" /\ UNCHANGED <<old, new, oldDir, Rest, transaction, consolidationLock>>
      /\ newParent' = (newParent \/ p.create)
      /\ fresh' = IF p.create THEN {} ELSE fresh
      /\ Do(o, [mover[o] EXCEPT !.phase = "moving", !.todo = PlannedOperations(p)])
  BY DEF CreateParents
<1>2. p \in Plan /\ p.create \in BOOLEAN
  BY MoverIs DEF TypeInv, Commands, Plan
<1>3. Becomes(o, "moving", mover[o].backup, p, PlannedOperations(p))
  BY <1>1, TodoIs DEF TypeInv, MoverPhases, PlannedOperations
<1>4. Working(o)'
  BY <1>1, <1>3 DEF Becomes, TypeInv, Working, Follows, Unlocked, Untouched, Applying, Restoring
<1>5. newParent' \in BOOLEAN /\ fresh' \subseteq Backups
  BY <1>1, <1>2 DEF TypeInv, ConsolidationTypeOK
<1> QED
  BY <1>1, <1>3, <1>4, <1>5, OperatorStep DEF TypeInv, ConsolidationTypeOK, Rest, Settled

LEMMA LookType ==
  ASSUME TypeInv, NEW o \in Movers, NEW e \in Operations, NEW phase \in MoverPhases,
         MoverAt(o, phase), UNCHANGED <<layout, Rest, fresh, transaction, consolidationLock>>,
         \/ mover[o].phase \in Applying /\ phase \in Applying
         \/ mover[o].phase \in Restoring /\ phase \in Restoring
  PROVE  TypeInv' /\ Becomes(o, phase, mover[o].backup, mover[o].plan, mover[o].todo)
<1>1. Becomes(o, phase, mover[o].backup, mover[o].plan, mover[o].todo)
  BY MoverAtIs DEF TypeInv
<1>2. Working(o)'
  BY <1>1 DEF Becomes, TypeInv, Working, Follows, Unlocked, Untouched, Applying, Restoring
<1> QED
  BY <1>1, <1>2, ThinkingStep

LEMMA ConfirmType ==
  ASSUME TypeInv, NEW o \in Movers, NEW e \in Operations, ConfirmOperation(o, e) \/ ConfirmRestore(o, e)
  PROVE  /\ TypeInv'
         /\ Becomes(o, IF mover[o].phase = "moved" THEN "moving" ELSE "restoring",
                    mover[o].backup, mover[o].plan, mover[o].todo \ {e})
<1> DEFINE todo == mover[o].todo \ {e}
           phase == IF mover[o].phase = "moved" THEN "moving" ELSE "restoring"
<1>1. todo \in SUBSET Operations /\ todo \subseteq mover[o].todo
  BY MoverIs DEF TypeInv, Commands
<1>2. /\ Do(o, [mover[o] EXCEPT !.phase = phase, !.todo = todo])
      /\ mover[o].phase \in {"moved", "restored"}
      /\ UNCHANGED <<layout, Rest, fresh, transaction, consolidationLock>>
  BY DEF ConfirmOperation, ConfirmRestore
<1>3. phase \in MoverPhases
  BY DEF MoverPhases
<1> HIDE DEF todo
<1>4. Becomes(o, phase, mover[o].backup, mover[o].plan, todo)
  BY <1>1, <1>2, <1>3, TodoIs DEF TypeInv
<1>5. Working(o)'
  BY <1>1, <1>2, <1>4
     DEF Becomes, TypeInv, Working, Follows, Unlocked, Untouched, Applying, Restoring
<1> QED
  BY <1>2, <1>4, <1>5, ThinkingStep DEF todo

\* An entry moved: under its new name, or out of the way.
LEMMA MoveType ==
  ASSUME TypeInv, NEW o \in Movers, NEW e \in Operations, MoveOperation(o, e)
  PROVE  /\ TypeInv' /\ Becomes(o, "moved", mover[o].backup, mover[o].plan, mover[o].todo)
         /\ \A b \in Backups : transaction[b] # None =>
              /\ transaction'[b] # None
              /\ transaction'[b].state = transaction[b].state
              /\ transaction'[b].plan = transaction[b].plan
<1> DEFINE b == mover[o].backup
           move == mover[o].plan.move[e] # None
<1>1. /\ mover[o].phase \in Applying /\ UNCHANGED <<oldDir, newParent, Settled, consolidationLock>>
      /\ MoverAt(o, "moved") /\ fresh' = {}
      /\ new' = (IF move THEN [new EXCEPT ![e] = old[e]] ELSE new)
      /\ old' = [old EXCEPT ![e] = None]
      /\ transaction' = IF move THEN transaction ELSE [transaction EXCEPT ![b].kept[e] = old[e]]
  BY DEF MoveOperation, Applying
<1>2. Becomes(o, "moved", b, mover[o].plan, mover[o].todo)
  BY <1>1, MoverAtIs DEF TypeInv, MoverPhases
<1>3. b \in Backups /\ transaction[b] # None /\ consolidationLock = o
  BY <1>1 DEF TypeInv, Working, Unlocked, Untouched, Applying
<1>4. old \in Slots /\ new \in Slots /\ old' \in Slots /\ new' \in Slots
      /\ old[e] \in Fingerprints \cup {None}
  BY <1>1 DEF TypeInv, ConsolidationTypeOK, Slots
<1>5. /\ transaction' \in [Backups -> Transactions \cup {None}]
      /\ \A c \in Backups : transaction[c] # None =>
           /\ transaction'[c] # None
           /\ transaction'[c].state = transaction[c].state
           /\ transaction'[c].plan = transaction[c].plan
  <2>1. CASE move
    BY <1>1, <2>1 DEF TypeInv, ConsolidationTypeOK
  <2>2. CASE ~move
    <3>1. SetsAside(b, e, old[e])
      BY <1>1, <2>2 DEF SetsAside
    <3> QED
      BY <1>3, <1>4, <3>1, KeptTransaction DEF TypeInv
  <2> QED
    BY <2>1, <2>2
<1>6. Working(o)'
  <2>1. Follows(mover[o], transaction[b]) /\ transaction[b].state = "in_progress"
    BY <1>1 DEF TypeInv, Working
  <2>2. /\ mover'[o].phase = "moved" /\ mover'[o].backup = b /\ consolidationLock' = o
        /\ mover'[o].plan = mover[o].plan /\ mover'[o].todo = mover[o].todo
    BY <1>1, <1>2, <1>3 DEF Becomes
  <2>3. /\ transaction'[b] # None /\ transaction'[b].state = "in_progress"
        /\ transaction'[b].plan = transaction[b].plan
    BY <1>3, <1>5, <2>1
  <2>4. Follows(mover[o], transaction[b])'
    BY <2>1, <2>2, <2>3 DEF Follows
  <2>5. "moved" \in Applying /\ "moved" \notin Restoring
    BY DEF Applying, Restoring
  <2> QED
    BY <1>3, <2>2, <2>3, <2>4, <2>5 DEF Working
<1>7. taken' \in [Backups -> Slots]
  <2>1. Takes(b, e, old[e])
    BY DEF MoveOperation, Takes
  <2> QED
    BY <1>4, <2>1, TakenType DEF TypeInv
<1> QED
  BY <1>1, <1>2, <1>3, <1>4, <1>5, <1>6, <1>7, OperatorStep DEF TypeInv, ConsolidationTypeOK

\* An entry moved back.
LEMMA RestoreType ==
  ASSUME TypeInv, NEW o \in Movers, NEW e \in Operations, RestoreOperation(o, e)
  PROVE  /\ TypeInv' /\ Becomes(o, "restored", mover[o].backup, mover[o].plan, mover[o].todo)
         /\ \A b \in Backups : transaction[b] # None =>
              /\ transaction'[b] # None
              /\ transaction'[b].state = transaction[b].state
              /\ transaction'[b].plan = transaction[b].plan
<1> DEFINE b == mover[o].backup
           move == mover[o].plan.move[e] # None
<1>1. /\ mover[o].phase \in Restoring /\ UNCHANGED <<oldDir, newParent, Settled, consolidationLock>>
      /\ MoverAt(o, "restored") /\ fresh' = {}
      /\ new' = (IF move THEN [new EXCEPT ![e] = None] ELSE new)
      /\ old' = [old EXCEPT ![e] = Displaced(b, e)]
      /\ transaction' = IF move THEN transaction ELSE [transaction EXCEPT ![b].kept[e] = None]
  BY DEF RestoreOperation, Restoring
<1>2. Becomes(o, "restored", b, mover[o].plan, mover[o].todo)
  BY <1>1, MoverAtIs DEF TypeInv, MoverPhases
<1>3. b \in Backups /\ transaction[b] # None /\ consolidationLock = o
  BY <1>1 DEF TypeInv, Working, Unlocked, Untouched, Restoring
<1>4. transaction[b] \in Transactions
  BY <1>3 DEF TypeInv, ConsolidationTypeOK
<1>5. Displaced(b, e) \in Fingerprints \cup {None}
  BY <1>4 DEF Displaced, TypeInv, ConsolidationTypeOK, Slots, Transactions
<1>6. old' \in Slots /\ new' \in Slots
  BY <1>1, <1>5 DEF TypeInv, ConsolidationTypeOK, Slots
<1>7. /\ transaction' \in [Backups -> Transactions \cup {None}]
      /\ \A c \in Backups : transaction[c] # None =>
           /\ transaction'[c] # None
           /\ transaction'[c].state = transaction[c].state
           /\ transaction'[c].plan = transaction[c].plan
  <2>1. CASE move
    BY <1>1, <2>1 DEF TypeInv, ConsolidationTypeOK
  <2>2. CASE ~move
    <3>1. SetsAside(b, e, None)
      BY <1>1, <2>2 DEF SetsAside
    <3> QED
      BY <1>3, <3>1, KeptTransaction DEF TypeInv
  <2> QED
    BY <2>1, <2>2
<1>8. Working(o)'
  <2>1. Follows(mover[o], transaction[b]) /\ transaction[b].state # "none"
    BY <1>1 DEF TypeInv, Working
  <2>2. /\ mover'[o].phase = "restored" /\ mover'[o].backup = b /\ consolidationLock' = o
        /\ mover'[o].plan = mover[o].plan /\ mover'[o].todo = mover[o].todo
    BY <1>1, <1>2, <1>3 DEF Becomes
  <2>3. /\ transaction'[b] # None /\ transaction'[b].state # "none"
        /\ transaction'[b].plan = transaction[b].plan
    BY <1>3, <1>7, <2>1
  <2>4. Follows(mover[o], transaction[b])'
    BY <2>1, <2>2, <2>3 DEF Follows
  <2>5. "restored" \in Restoring /\ "restored" \notin Applying
    BY DEF Applying, Restoring
  <2> QED
    BY <1>3, <2>2, <2>3, <2>4, <2>5 DEF Working
<1>9. taken' \in [Backups -> Slots]
  <2>1. Takes(b, e, None)
    BY DEF RestoreOperation, Takes
  <2> QED
    BY <2>1, TakenType DEF TypeInv
<1> QED
  BY <1>1, <1>2, <1>3, <1>6, <1>7, <1>8, <1>9, OperatorStep DEF TypeInv, ConsolidationTypeOK

LEMMA RemoveMergedType ==
  ASSUME TypeInv, NEW o \in Movers, RemoveMerged(o)
  PROVE  TypeInv'
<1>1. UNCHANGED <<old, new, newParent, Rest, transaction, consolidationLock, mover>>
      /\ oldDir' = FALSE /\ fresh' = {}
  BY DEF RemoveMerged
<1>2. ConsolidationTypeOK'
  BY <1>1 DEF TypeInv, ConsolidationTypeOK, Rest, Settled
<1> QED
  BY <1>1, <1>2 DEF TypeInv, Working

LEMMA CheckRestoreType ==
  ASSUME TypeInv, NEW o \in Movers, CheckRestore(o)
  PROVE  LET p == transaction[mover[o].backup].plan IN
         /\ TypeInv'
         /\ Becomes(o, "preparing", mover[o].backup, p,
                    {e \in PlannedOperations(p) : Moved(mover[o].backup, e)})
<1> DEFINE b == mover[o].backup
           p == transaction[b].plan
           todo == {e \in PlannedOperations(p) : Moved(b, e)}
           next == [mover[o] EXCEPT !.phase = "preparing", !.plan = p, !.todo = todo]
<1>1. /\ mover[o].phase = "finding" /\ transaction[b].state # "none" /\ Do(o, next)
      /\ UNCHANGED <<layout, Rest, fresh, transaction, consolidationLock>>
  BY DEF CheckRestore
<1>2. b \in Backups /\ transaction[b] # None /\ consolidationLock = o
  BY <1>1 DEF TypeInv, Working, Unlocked, Untouched
<1>3. p \in Plan
  BY <1>2 DEF TypeInv, ConsolidationTypeOK, Transactions
<1>4. todo \subseteq PlannedOperations(p) /\ todo \in SUBSET Operations
  BY DEF PlannedOperations
<1> HIDE DEF todo, p
<1>5. /\ next \in Commands /\ next.phase = "preparing" /\ next.backup = b
      /\ next.plan = p /\ next.todo = todo
  BY <1>3, <1>4, MoverIs DEF TypeInv, Commands, MoverPhases
<1> HIDE DEF next
<1>6. Becomes(o, "preparing", b, p, todo)
  BY <1>1, <1>5, DoIs DEF TypeInv
<1>7. Working(o)'
  BY <1>1, <1>2, <1>4, <1>6
     DEF p, Becomes, Working, Follows, Unlocked, Untouched, Applying, Restoring
<1>8. TypeInv'
  BY <1>1, <1>6, <1>7, ThinkingStep
<1> QED
  BY <1>6, <1>8 DEF p, todo

\* Directories made and removed by a rollback.
LEMMA ParentsType ==
  ASSUME TypeInv, NEW o \in Movers, RecreateMerged(o) \/ RemoveParents(o)
  PROVE  /\ TypeInv'
         /\ Becomes(o, IF mover[o].phase = "preparing" THEN "restoring" ELSE "removing",
                    mover[o].backup, mover[o].plan, mover[o].todo)
<1> DEFINE phase == IF mover[o].phase = "preparing" THEN "restoring" ELSE "removing"
<1>1. /\ MoverAt(o, phase) /\ UNCHANGED <<old, new, Rest, transaction, consolidationLock>>
      /\ mover[o].phase \in {"preparing", "restoring"} /\ fresh' \in {fresh, {}}
  BY DEF RecreateMerged, RemoveParents
<1>2. mover[o].plan.merge \in BOOLEAN /\ mover[o].plan.create \in BOOLEAN
  BY MoverIs DEF TypeInv, Commands, Plan
<1>3. oldDir' \in BOOLEAN /\ newParent' \in BOOLEAN
  BY <1>2 DEF RecreateMerged, RemoveParents, TypeInv, ConsolidationTypeOK
<1>4. Becomes(o, phase, mover[o].backup, mover[o].plan, mover[o].todo)
  BY <1>1, MoverAtIs DEF TypeInv, MoverPhases
<1>5. Working(o)'
  BY <1>1, <1>4 DEF Becomes, TypeInv, Working, Follows, Unlocked, Untouched, Applying, Restoring
<1> QED
  BY <1>1, <1>3, <1>4, <1>5, OperatorStep DEF TypeInv, ConsolidationTypeOK, Rest, Settled

LEMMA BackupType ==
  ASSUME TypeInv, NEW b \in Backups, TakeBackup(b)
  PROVE  /\ TypeInv' /\ snapshot'[b] = [old |-> old, new |-> new] /\ snapshot'[b] # None
         /\ \A c \in Backups : c # b => snapshot'[c] = snapshot[c]
<1> DEFINE s == [old |-> old, new |-> new]
<1>1. /\ snapshot' = [snapshot EXCEPT ![b] = s] /\ fresh' = fresh \cup {b}
      /\ UNCHANGED <<layout, original, transaction, taken, consolidationLock, mover, edits,
                     atomicRename>>
  BY DEF TakeBackup
<1>2. s \in Snapshots
  BY DEF TypeInv, ConsolidationTypeOK, Snapshots
<1>3. s # None
  BY <1>2, NoneIsNoEntry
<1> HIDE DEF s
<1>4. ConsolidationTypeOK'
  BY <1>1, <1>2 DEF TypeInv, ConsolidationTypeOK, layout
<1>5. TypeInv'
  BY <1>1, <1>4 DEF TypeInv, Working
<1> QED
  BY <1>1, <1>3, <1>5 DEF TypeInv, ConsolidationTypeOK, s

LEMMA EditType ==
  ASSUME TypeInv, NEW e \in Operations, Edit(e)
  PROVE  TypeInv'
<1>1. edits' \in 0..MaxEdits /\ edits' + 1 \in Fingerprints
  <2>1. edits \in 0..MaxEdits /\ edits < MaxEdits /\ edits' = edits + 1 /\ MaxEdits \in Nat
    BY ConsolidationBounds DEF Edit, TypeInv, ConsolidationTypeOK
  <2>2. edits + 1 \in 0..MaxEdits /\ edits + 1 + 1 \in 0..(MaxEdits + 1)
    BY <2>1
  <2> QED
    BY <2>1, <2>2 DEF Fingerprints
<1>2. old' \in Slots /\ new' \in Slots
  <2>1. PICK v \in {edits' + 1, None} :
          \/ /\ v # old[e] /\ (e \in Nested => oldDir)
             /\ old' = [old EXCEPT ![e] = v] /\ UNCHANGED new
          \/ /\ v # new[e] /\ (e \in Tops => newParent)
             /\ new' = [new EXCEPT ![e] = v] /\ UNCHANGED old
    BY Zenon DEF Edit
  <2>2. v \in Fingerprints \cup {None}
    BY <1>1
  <2>3. old \in Slots /\ new \in Slots
    BY DEF TypeInv, ConsolidationTypeOK
  <2>4. CASE old' = [old EXCEPT ![e] = v] /\ new' = new
    BY <2>2, <2>3, <2>4 DEF Slots
  <2>5. CASE new' = [new EXCEPT ![e] = v] /\ old' = old
    BY <2>2, <2>3, <2>5 DEF Slots
  <2> QED
    BY <2>1, <2>4, <2>5
<1>3. /\ UNCHANGED <<oldDir, newParent, original, snapshot, transaction, taken, consolidationLock,
                     mover, atomicRename>>
      /\ fresh' = {}
  BY DEF Edit
<1>4. ConsolidationTypeOK'
  BY <1>1, <1>2, <1>3 DEF TypeInv, ConsolidationTypeOK
<1> QED
  BY <1>3, <1>4 DEF TypeInv, Working

\* The steps of an operator by what they do.
LEMMA OperatorType ==
  ASSUME TypeInv, NEW o \in Movers, MoverStep(o)
  PROVE  TypeInv'
<1>1. ASSUME NEW b \in Backups, VerifyConsolidation(o, b) \/ LockToRestore(o, b) PROVE TypeInv'
  BY <1>1, VerifyType, LockToRestoreType
<1>2. CASE LockAndRecheck(o)
  BY <1>2, LockType
<1>3. CASE RefuseConsolidation(o) \/ StopMover(o)
  BY <1>3, IdleType
<1>4. CASE MakeTransaction(o)
  BY <1>4, MakeTransactionType
<1>5. CASE RecordPlan(o)
  <2>1. mover[o].phase \notin Untouched /\ mover[o].todo = {}
    BY <1>5 DEF RecordPlan, Untouched, TypeInv, Working
  <2> QED
    BY <1>5, <2>1, SaveType DEF RecordPlan, States
<1>6. CASE CreateParents(o)
  BY <1>6, CreateParentsType
<1>7. CASE RemoveMerged(o)
  BY <1>7, RemoveMergedType
<1>8. CASE Complete(o) \/ FailConsolidation(o) \/ FinishRestore(o)
  <2>1. mover[o].phase \notin Untouched
    BY <1>8 DEF Complete, FailConsolidation, FinishRestore, Untouched, InApply
  <2> QED
    BY <1>8, <2>1, SaveType DEF Complete, FailConsolidation, FinishRestore, States
<1>9. ASSUME NEW e \in Operations,
             CheckOperation(o, e) \/ LookAtTarget(o, e) \/ LookAtOriginal(o, e)
      PROVE  TypeInv'
  <2>1. PICK phase \in {"checked", "looked", "back_looked"} :
          /\ MoverAt(o, phase) /\ UNCHANGED <<layout, Rest, fresh, transaction, consolidationLock>>
          /\ \/ mover[o].phase \in Applying /\ phase \in Applying
             \/ mover[o].phase \in Restoring /\ phase \in Restoring
    BY <1>9 DEF CheckOperation, LookAtTarget, LookAtOriginal, Applying, Restoring
  <2> QED
    BY <2>1, LookType DEF MoverPhases
<1>10. ASSUME NEW e \in Operations, MoveOperation(o, e) \/ RestoreOperation(o, e) PROVE TypeInv'
  BY <1>10, MoveType, RestoreType
<1>11. ASSUME NEW e \in Operations, ConfirmOperation(o, e) \/ ConfirmRestore(o, e) PROVE TypeInv'
  BY <1>11, ConfirmType
<1>12. CASE CheckRestore(o)
  BY <1>12, CheckRestoreType
<1>13. CASE RecreateMerged(o) \/ RemoveParents(o)
  BY <1>13, ParentsType
<1> QED
  BY <1>1, <1>2, <1>3, <1>4, <1>5, <1>6, <1>7, <1>8, <1>9, <1>10, <1>11, <1>12, <1>13 DEF MoverStep

LEMMA TypeStep == TypeInv /\ [ConsolidationNext]_consolidationVars => TypeInv'
<1> SUFFICES ASSUME TypeInv, [ConsolidationNext]_consolidationVars PROVE TypeInv'
  OBVIOUS
<1>1. ASSUME NEW o \in Movers, MoverStep(o) PROVE TypeInv'
  BY <1>1, OperatorType
<1>2. ASSUME NEW b \in Backups, TakeBackup(b) PROVE TypeInv'
  BY <1>2, BackupType
<1>3. ASSUME NEW e \in Operations, Edit(e) PROVE TypeInv'
  BY <1>3, EditType
<1>4. CASE UNCHANGED consolidationVars
  BY <1>4 DEF consolidationVars, layout, TypeInv, ConsolidationTypeOK, Working
<1> QED
  BY <1>1, <1>2, <1>3, <1>4 DEF ConsolidationNext

\* Type correctness of the consolidation: layout, backups, transactions and commands keep their shape.
THEOREM ConsolidationTypeCorrect == ConsolidationSpec => []ConsolidationTypeOK
<1>1. TypeInv => ConsolidationTypeOK
  BY DEF TypeInv
<1> QED
  BY <1>1, TypeStart, TypeStep, PTL DEF ConsolidationSpec

-----------------------------------------------------------------------------
(***************************************************************************)
(* A backup that an operator may rely on holds the source as it is, so the *)
(* plan of this moment is a plan of what it holds; a snapshot never        *)
(* changes, and a manifest has no other plan than the operator's.          *)
(***************************************************************************)
BackedUp(b, p) ==
  \A e \in PlannedOperations(p) :
    snapshot[b].old[e] = Source(p, e) /\ snapshot[b].new[e] = p.twin[e]

FreshIsNow == \A b \in fresh : snapshot[b] = [old |-> old, new |-> new] /\ snapshot[b] # None

PlansAreBackedUp ==
  /\ FreshIsNow
  /\ \A o \in Movers : mover[o].phase \notin {"idle", "finding"} =>
       snapshot[mover[o].backup] # None /\ BackedUp(mover[o].backup, mover[o].plan)
  /\ \A b \in Recorded : snapshot[b] # None /\ BackedUp(b, transaction[b].plan)

LEMMA PlanOfNow ==
  ASSUME NEW b, snapshot[b] = [old |-> old, new |-> new]
  PROVE  BackedUp(b, consolidation_plan)
<1> DEFINE p == consolidation_plan
<1>1. ASSUME NEW e \in Operations, e \in PlannedOperations(p)
      PROVE  old[e] # None /\ Source(p, e) = old[e] /\ p.twin[e] = new[e]
  BY <1>1 DEF consolidation_plan, PlannedOperations, Source
<1>2. snapshot[b].old = old /\ snapshot[b].new = new
  OBVIOUS
<1> QED
  BY <1>1, <1>2 DEF BackedUp, PlannedOperations

\* Steps that keep the source's inventory as it was or declare all backups stale.
LEMMA FreshStep ==
  ASSUME FreshIsNow, UNCHANGED snapshot,
         fresh' = {} \/ (fresh' \subseteq fresh /\ UNCHANGED <<old, new>>)
  PROVE  FreshIsNow'
BY DEF FreshIsNow

\* An operator goes on with a plan that is backed up, and may save it.
LEMMA BackedUpStep ==
  ASSUME TypeInv, PlansAreBackedUp, NEW o \in Movers, NEW phase, NEW backup, NEW plan, NEW todo,
         Becomes(o, phase, backup, plan, todo), UNCHANGED snapshot,
         fresh' = {} \/ (fresh' \subseteq fresh /\ UNCHANGED <<old, new>>),
         phase \notin {"idle", "finding"} => snapshot[backup] # None /\ BackedUp(backup, plan),
         \A b \in Recorded' :
           \/ b \in Recorded /\ transaction'[b].plan = transaction[b].plan
           \/ snapshot[b] # None /\ BackedUp(b, transaction'[b].plan)
  PROVE  PlansAreBackedUp'
<1>2. FreshIsNow'
  BY FreshStep DEF PlansAreBackedUp
<1>3. ASSUME NEW r \in Movers, mover'[r].phase \notin {"idle", "finding"}
      PROVE  snapshot'[mover'[r].backup] # None /\ BackedUp(mover[r].backup, mover[r].plan)'
  <2>1. CASE r = o
    BY <1>3, <2>1 DEF Becomes, BackedUp
  <2>2. CASE r # o
    BY <1>3, <2>2 DEF Becomes, BackedUp, PlansAreBackedUp
  <2> QED
    BY <2>1, <2>2
<1>4. ASSUME NEW b \in Recorded' PROVE snapshot'[b] # None /\ BackedUp(b, transaction[b].plan)'
  BY <1>4 DEF PlansAreBackedUp, BackedUp
<1> QED
  BY <1>2, <1>3, <1>4 DEF PlansAreBackedUp

\* An operator whose plan stays, and transactions whose plans stay.
LEMMA SamePlanStep ==
  ASSUME TypeInv, PlansAreBackedUp, NEW o \in Movers, NEW phase, NEW todo,
         Becomes(o, phase, mover[o].backup, mover[o].plan, todo),
         mover[o].phase \notin {"idle", "finding"}, UNCHANGED snapshot,
         fresh' = {} \/ (fresh' \subseteq fresh /\ UNCHANGED <<old, new>>),
         \A b \in Recorded' : b \in Recorded /\ transaction'[b].plan = transaction[b].plan
  PROVE  PlansAreBackedUp'
BY BackedUpStep DEF PlansAreBackedUp

LEMMA UnsavedPlans ==
  ASSUME UNCHANGED transaction
  PROVE  \A b \in Recorded' : b \in Recorded /\ transaction'[b].plan = transaction[b].plan
BY DEF Recorded

\* The manifest of the operator's own transaction.
LEMMA SavePlanStep ==
  ASSUME TypeInv, PlansAreBackedUp, NEW o \in Movers, NEW state \in States,
         NEW phase, NEW backup, NEW plan, NEW todo,
         Becomes(o, phase, backup, plan, todo),
         phase = "idle" \/ (backup = mover[o].backup /\ plan = mover[o].plan),
         mover[o].phase \notin Untouched \cup {"finding"},
         save_transaction(mover[o].backup, state, mover[o].plan),
         UNCHANGED <<layout, Rest, fresh>>
  PROVE  PlansAreBackedUp'
<1> DEFINE b == mover[o].backup
<1>1. /\ mover[o].plan \in Plan /\ b \in Backups /\ transaction[b] # None
      /\ mover[o].phase \notin {"idle", "finding"}
  BY MoverIs DEF TypeInv, Commands, Working, Untouched
<1>2. /\ transaction'[b].plan = mover[o].plan
      /\ \A c \in Backups : c # b => transaction'[c] = transaction[c]
  BY <1>1, SavedTransaction DEF TypeInv
<1>3. snapshot[b] # None /\ BackedUp(b, mover[o].plan)
  BY <1>1 DEF PlansAreBackedUp
<1>4. \A c \in Recorded' : \/ c \in Recorded /\ transaction'[c].plan = transaction[c].plan
                           \/ snapshot[c] # None /\ BackedUp(c, transaction'[c].plan)
  BY <1>2, <1>3 DEF Recorded
<1> QED
  BY <1>1, <1>3, <1>4, BackedUpStep DEF Rest, Settled, layout

LEMMA OperatorBackedUp ==
  ASSUME TypeInv, PlansAreBackedUp, NEW o \in Movers, MoverStep(o)
  PROVE  PlansAreBackedUp'
<1>1. ASSUME NEW b \in Backups, VerifyConsolidation(o, b) PROVE PlansAreBackedUp'
  <2>1. Becomes(o, "verified", b, consolidation_plan, {})
    BY <1>1, VerifyType
  <2>2. b \in fresh /\ UNCHANGED <<layout, Rest, fresh, transaction>>
    BY <1>1 DEF VerifyConsolidation, MatchesBackup
  <2>3. snapshot[b] # None /\ BackedUp(b, consolidation_plan)
    BY <2>2, PlanOfNow DEF PlansAreBackedUp, FreshIsNow
  <2>4. UNCHANGED <<snapshot, old, new, fresh>>
    BY <2>2 DEF Rest, Settled, layout
  <2> QED
    BY <2>1, <2>2, <2>3, <2>4, UnsavedPlans, BackedUpStep
<1>2. ASSUME NEW b \in Backups, LockToRestore(o, b) PROVE PlansAreBackedUp'
  <2>1. Becomes(o, "finding", b, EmptyPlan, {})
    BY <1>2, LockToRestoreType
  <2>2. UNCHANGED <<snapshot, old, new, fresh, transaction>>
    BY <1>2 DEF LockToRestore, Rest, Settled, layout
  <2> QED
    BY <2>1, <2>2, UnsavedPlans, BackedUpStep
<1>3. CASE LockAndRecheck(o)
  <2>1. Becomes(o, "locked", mover[o].backup, mover[o].plan, mover[o].todo)
    BY <1>3, LockType
  <2>2. UNCHANGED <<snapshot, old, new, fresh, transaction>> /\ mover[o].phase = "verified"
    BY <1>3 DEF LockAndRecheck, Rest, Settled, layout
  <2> QED
    BY <2>1, <2>2, UnsavedPlans, SamePlanStep
<1>4. CASE RefuseConsolidation(o) \/ StopMover(o)
  <2>1. Becomes(o, "idle", None, EmptyPlan, {})
    BY <1>4, IdleType
  <2>2. UNCHANGED <<snapshot, old, new, fresh, transaction>>
    BY <1>4 DEF RefuseConsolidation, StopMover, Rest, Settled, layout
  <2> QED
    BY <2>1, <2>2, UnsavedPlans, BackedUpStep
<1>5. CASE MakeTransaction(o)
  <2> DEFINE b == mover[o].backup
  <2>1. /\ Becomes(o, "made", b, mover[o].plan, mover[o].todo)
        /\ transaction'[b] = [kept |-> Nothing, state |-> "none", plan |-> EmptyPlan]
        /\ \A c \in Backups : c # b => transaction'[c] = transaction[c]
    BY <1>5, MakeTransactionType
  <2>2. UNCHANGED <<snapshot, old, new, fresh>> /\ mover[o].phase = "locked"
    BY <1>5 DEF MakeTransaction, Rest, Settled, layout
  <2>3. \A c \in Recorded' : c \in Recorded /\ transaction'[c].plan = transaction[c].plan
    BY <2>1 DEF Recorded
  <2> QED
    BY <2>1, <2>2, <2>3, SamePlanStep
<1>6. CASE RecordPlan(o)
  <2>1. Becomes(o, "creating", mover[o].backup, mover[o].plan, mover[o].todo)
    BY <1>6, MoverAtIs DEF RecordPlan, TypeInv, MoverPhases
  <2> QED
    BY <1>6, <2>1, SavePlanStep DEF RecordPlan, States, Untouched
<1>7. CASE Complete(o) \/ FailConsolidation(o) \/ FinishRestore(o)
  <2>1. Becomes(o, "idle", None, EmptyPlan, {})
    BY <1>7, IdleIs DEF Complete, FailConsolidation, FinishRestore, TypeInv
  <2>2. mover[o].phase \notin Untouched \cup {"finding"}
    BY <1>7 DEF Complete, FailConsolidation, FinishRestore, Untouched, InApply
  <2> QED
    BY <1>7, <2>1, <2>2, SavePlanStep DEF Complete, FailConsolidation, FinishRestore, States
<1>8. CASE CreateParents(o)
  <2>1. Becomes(o, "moving", mover[o].backup, mover[o].plan, PlannedOperations(mover[o].plan))
    BY <1>8, CreateParentsType
  <2>2. /\ UNCHANGED <<snapshot, old, new, transaction>> /\ mover[o].phase = "creating"
        /\ fresh' \in {{}, fresh}
    BY <1>8 DEF CreateParents, Rest, Settled
  <2> QED
    BY <2>1, <2>2, UnsavedPlans, SamePlanStep
<1>9. CASE RemoveMerged(o)
  <2>1. UNCHANGED <<snapshot, transaction, mover>> /\ fresh' = {}
    BY <1>9 DEF RemoveMerged, Rest, Settled
  <2> QED
    BY <2>1, FreshStep DEF PlansAreBackedUp, BackedUp, Recorded
<1>10. ASSUME NEW e \in Operations,
              CheckOperation(o, e) \/ LookAtTarget(o, e) \/ LookAtOriginal(o, e)
       PROVE  PlansAreBackedUp'
  <2>1. PICK phase \in {"checked", "looked", "back_looked"} :
          /\ MoverAt(o, phase) /\ UNCHANGED <<layout, Rest, fresh, transaction>>
          /\ mover[o].phase \notin {"idle", "finding"}
    BY <1>10 DEF CheckOperation, LookAtTarget, LookAtOriginal
  <2>2. Becomes(o, phase, mover[o].backup, mover[o].plan, mover[o].todo)
    BY <2>1, MoverAtIs DEF TypeInv, MoverPhases
  <2>3. UNCHANGED <<snapshot, old, new, fresh>>
    BY <2>1 DEF Rest, Settled, layout
  <2> QED
    BY <2>1, <2>2, <2>3, UnsavedPlans, SamePlanStep
<1>11. ASSUME NEW e \in Operations, MoveOperation(o, e) \/ RestoreOperation(o, e)
       PROVE  PlansAreBackedUp'
  <2>1. PICK phase \in {"moved", "restored"} :
          Becomes(o, phase, mover[o].backup, mover[o].plan, mover[o].todo)
    BY <1>11, MoveType, RestoreType
  <2>2. \A b \in Backups : transaction[b] # None =>
          /\ transaction'[b].state = transaction[b].state
          /\ transaction'[b].plan = transaction[b].plan
    BY <1>11, MoveType, RestoreType
  <2>3. \A b \in Backups : transaction[b] = None => transaction'[b] = None
    <3>1. transaction[mover[o].backup] # None /\ mover[o].backup \in Backups
      BY <1>11 DEF MoveOperation, RestoreOperation, TypeInv, Working, Untouched
    <3>2. \/ transaction' = transaction
          \/ \E v : transaction' = [transaction EXCEPT ![mover[o].backup].kept[e] = v]
      BY <1>11 DEF MoveOperation, RestoreOperation
    <3> QED
      BY <3>1, <3>2 DEF TypeInv, ConsolidationTypeOK
  <2>4. fresh' = {} /\ UNCHANGED snapshot /\ mover[o].phase \notin {"idle", "finding"}
    BY <1>11 DEF MoveOperation, RestoreOperation, Rest, Settled
  <2>5. \A b \in Recorded' : b \in Recorded /\ transaction'[b].plan = transaction[b].plan
    BY <2>2, <2>3 DEF Recorded
  <2> QED
    BY <2>1, <2>4, <2>5, SamePlanStep
<1>12. ASSUME NEW e \in Operations, ConfirmOperation(o, e) \/ ConfirmRestore(o, e)
       PROVE  PlansAreBackedUp'
  <2>1. PICK phase \in {"moving", "restoring"} :
          Becomes(o, phase, mover[o].backup, mover[o].plan, mover[o].todo \ {e})
    BY <1>12, ConfirmType
  <2>2. UNCHANGED <<snapshot, old, new, fresh, transaction>> /\ mover[o].phase \notin {"idle", "finding"}
    BY <1>12 DEF ConfirmOperation, ConfirmRestore, Rest, Settled, layout
  <2> QED
    BY <2>1, <2>2, UnsavedPlans, SamePlanStep
<1>13. CASE CheckRestore(o)
  <2> DEFINE b == mover[o].backup
             p == transaction[b].plan
             todo == {e \in PlannedOperations(p) : Moved(b, e)}
  <2>1. Becomes(o, "preparing", b, p, todo)
    BY <1>13, CheckRestoreType
  <2>2. UNCHANGED <<snapshot, old, new, fresh, transaction>>
    BY <1>13 DEF CheckRestore, Rest, Settled, layout
  <2>3. b \in Recorded
    BY <1>13 DEF CheckRestore, Recorded, TypeInv, Working, Untouched
  <2>4. snapshot[b] # None /\ BackedUp(b, p)
    BY <2>3 DEF PlansAreBackedUp
  <2> HIDE DEF p, todo
  <2> QED
    BY <2>1, <2>2, <2>4, UnsavedPlans, BackedUpStep
<1>14. CASE RecreateMerged(o) \/ RemoveParents(o)
  <2>1. PICK phase \in {"restoring", "removing"} :
          Becomes(o, phase, mover[o].backup, mover[o].plan, mover[o].todo)
    BY <1>14, ParentsType
  <2>2. /\ UNCHANGED <<snapshot, old, new, transaction>> /\ fresh' \in {{}, fresh}
        /\ mover[o].phase \notin {"idle", "finding"}
    BY <1>14 DEF RecreateMerged, RemoveParents, Rest, Settled
  <2> QED
    BY <2>1, <2>2, UnsavedPlans, SamePlanStep
<1> QED
  BY <1>1, <1>2, <1>3, <1>4, <1>5, <1>6, <1>7, <1>8, <1>9, <1>10, <1>11, <1>12, <1>13, <1>14
     DEF MoverStep

LEMMA BackedUpNext ==
  TypeInv /\ PlansAreBackedUp /\ [ConsolidationNext]_consolidationVars => PlansAreBackedUp'
<1> SUFFICES ASSUME TypeInv, PlansAreBackedUp, [ConsolidationNext]_consolidationVars
             PROVE  PlansAreBackedUp'
  OBVIOUS
<1>1. ASSUME NEW o \in Movers, MoverStep(o) PROVE PlansAreBackedUp'
  BY <1>1, OperatorBackedUp
<1>2. ASSUME NEW b \in Backups, TakeBackup(b) PROVE PlansAreBackedUp'
  <2>1. /\ snapshot'[b] = [old |-> old, new |-> new] /\ snapshot'[b] # None
        /\ \A c \in Backups : c # b => snapshot'[c] = snapshot[c]
    BY <1>2, BackupType
  <2>2. /\ snapshot[b] = None /\ fresh' = fresh \cup {b}
        /\ UNCHANGED <<old, new, transaction, mover>>
    BY <1>2 DEF TakeBackup, layout
  <2>3. fresh \subseteq Backups
    BY DEF TypeInv, ConsolidationTypeOK
  <2>4. FreshIsNow'
    BY <2>1, <2>2, <2>3 DEF PlansAreBackedUp, FreshIsNow
  <2>5. \A c \in Backups : snapshot[c] # None => snapshot'[c] = snapshot[c]
    BY <2>1, <2>2
  <2>6. \A o \in Movers : mover[o].phase # "idle" => mover[o].backup \in Backups
    BY DEF TypeInv, Working
  <2> QED
    BY <2>2, <2>4, <2>5, <2>6 DEF PlansAreBackedUp, BackedUp, Recorded
<1>3. ASSUME NEW e \in Operations, Edit(e) PROVE PlansAreBackedUp'
  <2>1. UNCHANGED <<snapshot, transaction, mover>> /\ fresh' = {}
    BY <1>3 DEF Edit
  <2> QED
    BY <2>1, FreshStep DEF PlansAreBackedUp, BackedUp, Recorded
<1>4. CASE UNCHANGED consolidationVars
  BY <1>4 DEF consolidationVars, layout, PlansAreBackedUp, FreshIsNow, BackedUp, Recorded
<1> QED
  BY <1>1, <1>2, <1>3, <1>4 DEF ConsolidationNext

(***************************************************************************)
(* What was moved.  While a command applies its plan, every entry it is    *)
(* done with was moved in the planned version, and none it still has to    *)
(* do.  Only the entry it has just moved may have had another version, and *)
(* then that version lies at the target: nobody can put the planned one    *)
(* there, since an edit makes a new version.                               *)
(***************************************************************************)
Bounded(v) == v = None \/ v \in 0..(edits + 1)

VersionsBounded ==
  /\ \A e \in Operations : Bounded(old[e]) /\ Bounded(new[e])
  /\ \A b \in Backups, e \in Operations : transaction[b] # None => Bounded(transaction[b].kept[e])
  /\ \A b \in Backups, e \in Operations : snapshot[b] # None => Bounded(snapshot[b].old[e])

AsPlanned(b, e) == taken[b][e] = None \/ taken[b][e] = Source(transaction[b].plan, e)
StopsAfter(b, e) ==
  transaction[b].state # "complete" /\ \A f \in Operations : f > e => taken[b][f] = None

TakenFits(b) ==
  /\ transaction[b] = None \/ transaction[b].state = "none" => \A e \in Operations : taken[b][e] = None
  /\ \A e \in Operations : taken[b][e] # None => e \in PlannedOperations(transaction[b].plan)
  /\ \A e \in Operations : AsPlanned(b, e) \/ StopsAfter(b, e)

\* Of a command: the entries it is done with, those it has to do, and the one it has just moved.
Done(c, b) ==
  \A e \in PlannedOperations(c.plan) \ c.todo : taken[b][e] = None \/ taken[b][e] = Source(c.plan, e)
Upwards(c) == \A e \in c.todo, f \in PlannedOperations(c.plan) : f > e => f \in c.todo
JustMoved(o, b, e) ==
  /\ mover[o].phase = "moved" /\ TurnOf(o, e)
  /\ Target(o, e) = Source(mover[o].plan, e) => taken[b][e] = Source(mover[o].plan, e)
ToDo(o, b) == \A e \in mover[o].todo : taken[b][e] = None \/ JustMoved(o, b, e)

Knows(o) ==
  mover[o].phase \in Applying =>
    IF mover[o].phase = "creating"
      THEN \A e \in Operations : taken[mover[o].backup][e] = None
      ELSE /\ Done(mover[o], mover[o].backup) /\ Upwards(mover[o])
           /\ ToDo(o, mover[o].backup)

MovesInv == /\ VersionsBounded
            /\ \A b \in Backups : TakenFits(b)
            /\ \A o \in Movers : Knows(o)

\* A command that applies a plan has the lock, so that no other does.
LEMMA OneApplies ==
  ASSUME TypeInv, NEW o \in Movers, consolidationLock = o
  PROVE  \A r \in Movers : r # o => mover[r].phase \notin Applying
BY DEF TypeInv, Working, Applying, Unlocked

\* A step that leaves entries and transactions alone.
LEMMA MovesThink ==
  ASSUME TypeInv, MovesInv, NEW o \in Movers, NEW phase, NEW backup, NEW plan, NEW todo,
         Becomes(o, phase, backup, plan, todo),
         UNCHANGED <<old, new, snapshot, edits, taken, transaction>>, Knows(o)'
  PROVE  MovesInv'
<1>1. VersionsBounded'
  BY DEF MovesInv, VersionsBounded, Bounded
<1>2. ASSUME NEW b \in Backups PROVE TakenFits(b)'
  BY DEF MovesInv, TakenFits, AsPlanned, StopsAfter
<1>3. ASSUME NEW r \in Movers, r # o PROVE Knows(r)'
  <2>1. mover'[r] = mover[r] /\ Knows(r)
    BY <1>3 DEF Becomes, MovesInv
  <2> QED
    BY <2>1 DEF Knows, Done, Upwards, ToDo, JustMoved, TurnOf, Target
<1> QED
  BY <1>1, <1>2, <1>3 DEF MovesInv

LEMMA MovesFrame ==
  ASSUME MovesInv, UNCHANGED <<old, new, snapshot, edits, taken, transaction, mover>>
  PROVE  MovesInv'
BY DEF MovesInv, VersionsBounded, Bounded, TakenFits, AsPlanned, StopsAfter, Knows, Done, Upwards,
       ToDo, JustMoved, TurnOf, Target

\* A command that looks on, or one that is not applying a plan.
LEMMA MovesLook ==
  ASSUME TypeInv, MovesInv, NEW o \in Movers, MoverStep(o),
         UNCHANGED <<old, new, snapshot, edits, taken, transaction>>,
         mover'[o].phase \in Applying =>
           /\ mover[o].phase \in {"moving", "checked"} /\ mover'[o].phase # "creating"
           /\ mover'[o].todo = mover[o].todo /\ mover'[o].plan = mover[o].plan
           /\ mover'[o].backup = mover[o].backup,
         \A r \in Movers : r # o => mover'[r] = mover[r]
  PROVE  MovesInv'
<1>1. Becomes(o, mover'[o].phase, mover'[o].backup, mover'[o].plan, mover'[o].todo)
  <2>1. TypeInv'
    BY OperatorType
  <2> QED
    BY <2>1 DEF Becomes, TypeInv, ConsolidationTypeOK, Commands
<1>2. Knows(o)'
  <2> SUFFICES ASSUME mover'[o].phase \in Applying PROVE Knows(o)'
    BY DEF Knows
  <2>1. /\ Done(mover[o], mover[o].backup) /\ Upwards(mover[o])
        /\ \A e \in mover[o].todo : taken[mover[o].backup][e] = None
    BY DEF MovesInv, Knows, Applying, ToDo, JustMoved
  <2> QED
    BY <2>1 DEF Knows, Done, Upwards, ToDo
<1> QED
  BY <1>1, <1>2, MovesThink

LEMMA MovesCreateParents ==
  ASSUME TypeInv, MovesInv, NEW o \in Movers, CreateParents(o)
  PROVE  MovesInv'
<1>1. Becomes(o, "moving", mover[o].backup, mover[o].plan, PlannedOperations(mover[o].plan))
  BY CreateParentsType
<1>2. UNCHANGED <<old, new, snapshot, edits, taken, transaction>> /\ mover[o].phase = "creating"
  BY DEF CreateParents, Rest, Settled
<1>3. \A e \in Operations : taken[mover[o].backup][e] = None
  BY <1>2 DEF MovesInv, Knows, Applying
<1>4. Knows(o)'
  BY <1>1, <1>2, <1>3 DEF Becomes, Knows, Done, Upwards, ToDo, PlannedOperations
<1> QED
  BY <1>1, <1>2, <1>4, MovesThink

\* A confirmed entry was moved in the planned version.
LEMMA MovesConfirm ==
  ASSUME TypeInv, MovesInv, NEW o \in Movers, NEW e \in Operations, ConfirmOperation(o, e)
  PROVE  MovesInv'
<1> DEFINE c == mover[o]
           b == c.backup
<1>1. /\ c.phase = "moved" /\ TurnOf(o, e) /\ Target(o, e) = Source(c.plan, e)
      /\ UNCHANGED <<old, new, snapshot, edits, taken, transaction>>
  BY DEF ConfirmOperation, Rest, Settled, layout
<1>2. Becomes(o, "moving", b, c.plan, c.todo \ {e})
  BY <1>1, ConfirmType
<1>3. Done(c, b) /\ Upwards(c) /\ ToDo(o, b)
  BY <1>1 DEF MovesInv, Knows, Applying
<1>4. e \in c.todo /\ \A f \in c.todo : e <= f
  BY <1>1 DEF TurnOf
<1>5. c.todo \subseteq Operations
  BY MoverIs DEF TypeInv, Commands
<1>6. taken[b][e] = None \/ taken[b][e] = Source(c.plan, e)
  BY <1>1, <1>3, <1>4 DEF ToDo, JustMoved
<1>7. ASSUME NEW f \in c.todo \ {e} PROVE taken[b][f] = None
  <2>1. ~TurnOf(o, f)
    BY <1>4, <1>5, <1>7 DEF TurnOf, Operations
  <2> QED
    BY <1>3, <1>7, <2>1 DEF ToDo, JustMoved
<1>8. mover'[o].phase = "moving" /\ mover'[o].plan = c.plan /\ mover'[o].todo = c.todo \ {e}
      /\ mover'[o].backup = b
  BY <1>2 DEF Becomes
<1>9. Done(mover[o], b)'
  BY <1>1, <1>3, <1>6, <1>8 DEF Done
<1>10. Upwards(mover[o])'
  <2> SUFFICES ASSUME NEW g \in c.todo \ {e}, NEW f \in PlannedOperations(c.plan), f > g
               PROVE  f \in c.todo \ {e}
    BY <1>8 DEF Upwards
  <2>1. f \in c.todo
    BY <1>3 DEF Upwards
  <2>2. f # e
    BY <1>4, <1>5 DEF Operations
  <2> QED
    BY <2>1, <2>2
<1>11. ToDo(o, b)'
  BY <1>1, <1>7, <1>8 DEF ToDo
<1>12. Knows(o)'
  BY <1>1, <1>8, <1>9, <1>10, <1>11 DEF Knows, Done, ToDo, JustMoved, TurnOf, Target
<1> QED
  BY <1>1, <1>2, <1>12, MovesThink

LEMMA MovesMakeTransaction ==
  ASSUME TypeInv, MovesInv, NEW o \in Movers, MakeTransaction(o)
  PROVE  MovesInv'
<1> DEFINE b == mover[o].backup
<1>1. /\ Becomes(o, "made", b, mover[o].plan, mover[o].todo)
      /\ b \in Backups /\ transaction[b] = None
      /\ \A c \in Backups : c # b => transaction'[c] = transaction[c]
      /\ transaction'[b] = [kept |-> Nothing, state |-> "none", plan |-> EmptyPlan]
  BY MakeTransactionType
<1>2. UNCHANGED <<old, new, snapshot, edits, taken>> /\ consolidationLock = o
  BY DEF MakeTransaction, Rest, Settled, layout, TypeInv, Working, Unlocked
<1>3. VersionsBounded'
  <2>1. \A c \in Backups, e \in Operations : transaction'[c] # None => Bounded(transaction'[c].kept[e])
    BY <1>1 DEF MovesInv, VersionsBounded, Bounded, Nothing
  <2> QED
    BY <1>2, <2>1 DEF MovesInv, VersionsBounded, Bounded
<1>4. ASSUME NEW c \in Backups PROVE TakenFits(c)'
  <2>1. CASE c = b
    <3>1. \A e \in Operations : taken'[b][e] = None
      BY <1>1, <1>2 DEF MovesInv, TakenFits
    <3> QED
      BY <2>1, <3>1 DEF TakenFits, AsPlanned
  <2>2. CASE c # b
    BY <1>1, <1>2, <2>2 DEF MovesInv, TakenFits, AsPlanned, StopsAfter
  <2> QED
    BY <2>1, <2>2
<1>5. ASSUME NEW r \in Movers PROVE Knows(r)'
  <2>1. mover'[r].phase \notin Applying
    BY <1>1, <1>2, OneApplies DEF Becomes, Applying
  <2> QED
    BY <2>1 DEF Knows
<1> QED
  BY <1>3, <1>4, <1>5 DEF MovesInv

\* A manifest is saved: the first with nothing moved, a complete one with all done.
LEMMA MovesSave ==
  ASSUME TypeInv, MovesInv, NEW o \in Movers,
         RecordPlan(o) \/ Complete(o) \/ FailConsolidation(o) \/ FinishRestore(o)
  PROVE  MovesInv'
<1> DEFINE p == mover[o].plan
<1>0. PICK b \in Backups : b = mover[o].backup
  BY DEF RecordPlan, Complete, FailConsolidation, FinishRestore, TypeInv, Working, InApply
<1>1. PICK state \in States :
        /\ save_transaction(b, state, p)
        /\ state = "complete" => Complete(o)
        /\ state # "none"
  BY <1>0 DEF RecordPlan, Complete, FailConsolidation, FinishRestore, States
<1>2. /\ UNCHANGED <<old, new, snapshot, edits, taken>> /\ mover[o].phase \notin Untouched
      /\ mover[o].phase # "finding"
  BY DEF RecordPlan, Complete, FailConsolidation, FinishRestore, Rest, Settled, layout, Untouched, InApply
<1>3. transaction[b] # None /\ consolidationLock = o /\ p \in Plan
  BY <1>0, <1>2, MoverIs DEF TypeInv, Working, Untouched, Unlocked, Commands
<1>4. /\ \A c \in Backups : c # b => transaction'[c] = transaction[c]
      /\ transaction'[b] # None /\ transaction'[b].state = state /\ transaction'[b].plan = p
      /\ transaction'[b].kept = transaction[b].kept
  BY <1>1, <1>3, SavedTransaction DEF TypeInv
<1>5. \/ RecordPlan(o) /\ Becomes(o, "creating", b, p, mover[o].todo)
      \/ Becomes(o, "idle", None, EmptyPlan, {})
  <2>1. CASE RecordPlan(o)
    BY <1>0, <2>1, MoverAtIs DEF RecordPlan, TypeInv, MoverPhases
  <2>2. CASE ~RecordPlan(o)
    BY <2>2, IdleIs DEF Complete, FailConsolidation, FinishRestore, TypeInv
  <2> QED
    BY <2>1, <2>2
<1>6. VersionsBounded'
  <2>1. \A c \in Backups, e \in Operations : transaction'[c] # None => Bounded(transaction'[c].kept[e])
    BY <1>3, <1>4 DEF MovesInv, VersionsBounded
  <2> QED
    BY <1>2, <2>1 DEF MovesInv, VersionsBounded, Bounded
<1>7. mover[o].phase = "made" => \A e \in Operations : taken[b][e] = None
  <2>1. mover[o].phase = "made" => transaction[b].state = "none"
    BY <1>0 DEF TypeInv, Working
  <2> QED
    BY <1>3, <2>1 DEF MovesInv, TakenFits
<1>8. TakenFits(b)'
  <2>1. CASE mover[o].phase = "made"
    BY <1>2, <1>7, <2>1 DEF TakenFits, AsPlanned
  <2>2. CASE mover[o].phase # "made"
    <3>1. transaction[b].plan = p /\ transaction[b].state # "none"
      <4>1. mover[o].phase \in Applying \cup Restoring
        BY <2>2 DEF RecordPlan, Complete, FailConsolidation, FinishRestore, InApply, Applying, Restoring
      <4> QED
        BY <1>0, <4>1 DEF TypeInv, Working, Follows
    <3>2. TakenFits(b)
      BY <1>3 DEF MovesInv
    <3>3. ASSUME NEW e \in Operations PROVE AsPlanned(b, e)' \/ StopsAfter(b, e)'
      <4>1. CASE AsPlanned(b, e)
        BY <1>2, <1>4, <3>1, <4>1 DEF AsPlanned
      <4>2. CASE state # "complete" /\ ~AsPlanned(b, e)
        BY <1>2, <1>4, <3>2, <4>2 DEF TakenFits, StopsAfter
      <4>3. CASE state = "complete"
        <5>1. mover[o].phase = "moving" /\ mover[o].todo = {}
          BY <1>1, <4>3 DEF Complete
        <5>2. Done(mover[o], b)
          BY <1>0, <5>1 DEF MovesInv, Knows, Applying
        <5>3. AsPlanned(b, e)
          BY <3>1, <3>2, <5>1, <5>2 DEF Done, AsPlanned, TakenFits
        <5> QED
          BY <1>2, <1>4, <3>1, <5>3 DEF AsPlanned
      <4> QED
        BY <4>1, <4>2, <4>3
    <3> QED
      BY <1>1, <1>2, <1>4, <3>1, <3>2, <3>3 DEF TakenFits
  <2> QED
    BY <2>1, <2>2
<1>9. ASSUME NEW c \in Backups, c # b PROVE TakenFits(c)'
  BY <1>2, <1>4, <1>9 DEF MovesInv, TakenFits, AsPlanned, StopsAfter
<1>10. ASSUME NEW r \in Movers PROVE Knows(r)'
  <2>1. CASE r # o
    <3>1. mover'[r].phase \notin Applying
      BY <1>3, <1>5, <2>1, OneApplies DEF Becomes
    <3> QED
      BY <3>1 DEF Knows
  <2>2. CASE r = o /\ RecordPlan(o) /\ Becomes(o, "creating", b, p, mover[o].todo)
    BY <1>2, <1>7, <2>2 DEF Becomes, Knows, RecordPlan
  <2>3. CASE r = o /\ Becomes(o, "idle", None, EmptyPlan, {})
    BY <2>3 DEF Becomes, Knows, Applying
  <2> QED
    BY <1>5, <2>1, <2>2, <2>3
<1> QED
  BY <1>6, <1>8, <1>9, <1>10 DEF MovesInv

\* The versions after an entry was moved, or moved back.
LEMMA MovedVersions ==
  ASSUME TypeInv, VersionsBounded, NEW o \in Movers, NEW e \in Operations,
         MoveOperation(o, e) \/ RestoreOperation(o, e)
  PROVE  LET b == mover[o].backup
             v == IF MoveOperation(o, e) THEN old[e] ELSE None IN
         /\ VersionsBounded'
         /\ b \in Backups /\ consolidationLock = o
         /\ \A c \in Backups : /\ transaction'[c] = None <=> transaction[c] = None
                               /\ transaction'[c].state = transaction[c].state
                               /\ transaction'[c].plan = transaction[c].plan
         /\ \A c \in Backups, f \in Operations :
              taken'[c][f] = IF c = b /\ f = e THEN v ELSE taken[c][f]
<1> DEFINE b == mover[o].backup
           move == mover[o].plan.move[e] # None
           back == Displaced(b, e)
           isMove == MoveOperation(o, e)
           v == IF isMove THEN old[e] ELSE None
<1>0. ConsolidationTypeOK
  BY DEF TypeInv
<1>1. b \in Backups /\ transaction[b] # None /\ consolidationLock = o
  BY DEF MoveOperation, RestoreOperation, TypeInv, Working, Untouched, Unlocked
<1>2. Bounded(old[e]) /\ Bounded(new[e]) /\ Bounded(transaction[b].kept[e]) /\ Bounded(back)
  BY <1>1 DEF VersionsBounded, Displaced
<1>3. /\ old \in Slots /\ new \in Slots /\ old[e] \in Fingerprints \cup {None}
      /\ v \in Fingerprints \cup {None}
  BY DEF TypeInv, ConsolidationTypeOK, Slots
<1>4. isMove /\ RestoreOperation(o, e) => FALSE
  BY DEF MoveOperation, RestoreOperation
<1>5. /\ UNCHANGED <<snapshot, edits>>
      /\ taken' = [taken EXCEPT ![b][e] = v]
      /\ transaction' = IF move THEN transaction ELSE [transaction EXCEPT ![b].kept[e] = v]
      /\ \/ old' = [old EXCEPT ![e] = None] /\ new' \in {new, [new EXCEPT ![e] = old[e]]}
         \/ old' = [old EXCEPT ![e] = back] /\ new' \in {new, [new EXCEPT ![e] = None]}
  <2>1. CASE isMove
    BY <2>1 DEF MoveOperation, Settled
  <2>2. CASE RestoreOperation(o, e)
    BY <1>4, <2>2 DEF RestoreOperation, Settled
  <2> QED
    BY <2>1, <2>2
<1> HIDE DEF isMove
<1>6. \A c \in Backups, f \in Operations :
        taken'[c][f] = IF c = b /\ f = e THEN v ELSE taken[c][f]
  <2>1. v \in Fingerprints \cup {None} /\ Takes(b, e, v)
    BY <1>3, <1>5 DEF Takes
  <2> HIDE DEF v, b
  <2> QED
    BY <1>0, <2>1, TakenType
<1>7. Bounded(v)
  BY <1>2 DEF Bounded
<1> HIDE DEF v, back
<1>8. \A f \in Operations : Bounded(old[f])' /\ Bounded(new[f])'
  <2>1. Bounded(None)
    BY DEF Bounded
  <2>2. \A f \in Operations : Bounded(old'[f]) /\ Bounded(new'[f])
    BY <1>2, <1>3, <1>5, <2>1 DEF Slots, VersionsBounded
  <2> QED
    BY <1>5, <2>2 DEF Bounded
<1>9. /\ \A c \in Backups : /\ transaction'[c] = None <=> transaction[c] = None
                            /\ transaction'[c].state = transaction[c].state
                            /\ transaction'[c].plan = transaction[c].plan
      /\ \A c \in Backups, f \in Operations : transaction'[c] # None => Bounded(transaction'[c].kept[f])
  <2>1. CASE move
    BY <1>5, <2>1 DEF VersionsBounded
  <2>2. CASE ~move
    <3>1. SetsAside(b, e, v)
      BY <1>5, <2>2 DEF SetsAside
    <3>2. /\ \A c \in Backups : c # b => transaction'[c] = transaction[c]
          /\ transaction'[b] # None
          /\ transaction'[b].state = transaction[b].state /\ transaction'[b].plan = transaction[b].plan
          /\ transaction'[b].kept = [transaction[b].kept EXCEPT ![e] = v]
      <4>1. transaction[b] # None /\ b \in Backups /\ v \in Fingerprints \cup {None}
        BY <1>1, <1>3
      <4> HIDE DEF v, b
      <4> QED
        BY <1>0, <3>1, <4>1, KeptTransaction
    <3>3. transaction[b].kept \in Slots
      BY <1>1 DEF TypeInv, ConsolidationTypeOK, Transactions
    <3>4. \A f \in Operations : Bounded(transaction'[b].kept[f])
      BY <1>1, <1>7, <3>2, <3>3 DEF Slots, VersionsBounded
    <3> QED
      BY <1>1, <3>2, <3>4 DEF VersionsBounded
  <2> QED
    BY <2>1, <2>2
<1>10. VersionsBounded'
  BY <1>5, <1>8, <1>9 DEF VersionsBounded, Bounded
<1> QED
  BY <1>1, <1>6, <1>9, <1>10 DEF v, isMove

LEMMA MovesMove ==
  ASSUME TypeInv, MovesInv, NEW o \in Movers, NEW e \in Operations, MoveOperation(o, e)
  PROVE  MovesInv'
<1> DEFINE c == mover[o]
           p == c.plan
<1>0. PICK b \in Backups : b = c.backup
  BY DEF MoveOperation, TypeInv, Working
<1>1. /\ VersionsBounded' /\ consolidationLock = o
      /\ \A d \in Backups : /\ transaction'[d] = None <=> transaction[d] = None
                            /\ transaction'[d].state = transaction[d].state
                            /\ transaction'[d].plan = transaction[d].plan
      /\ \A d \in Backups, f \in Operations :
           taken'[d][f] = IF d = b /\ f = e THEN old[e] ELSE taken[d][f]
  BY <1>0, MovedVersions DEF MovesInv
<1>2. /\ c.phase \in {"checked", "looked"} /\ TurnOf(o, e)
      /\ new' = (IF p.move[e] # None THEN [new EXCEPT ![e] = old[e]] ELSE new)
      /\ transaction' = IF p.move[e] # None THEN transaction ELSE [transaction EXCEPT ![b].kept[e] = old[e]]
  BY <1>0 DEF MoveOperation
<1>3. /\ transaction[b].plan = p /\ transaction[b].state = "in_progress" /\ transaction[b] # None
      /\ c.todo \subseteq PlannedOperations(p)
  BY <1>0, <1>2 DEF TypeInv, Working, Follows, Applying, Untouched
<1>4. /\ Done(c, b) /\ Upwards(c) /\ \A f \in c.todo : taken[b][f] = None
  BY <1>0, <1>2 DEF MovesInv, Knows, Applying, ToDo, JustMoved
<1>5. e \in c.todo /\ e \in PlannedOperations(p) /\ \A f \in c.todo : e <= f
  BY <1>2, <1>3 DEF TurnOf
<1>6. c.todo \subseteq Operations
  BY MoverIs DEF TypeInv, Commands
<1>7. Becomes(o, "moved", b, p, c.todo)
  BY <1>0, MoveType
<1>8. mover'[o].phase = "moved" /\ mover'[o].plan = p /\ mover'[o].todo = c.todo /\ mover'[o].backup = b
  BY <1>7 DEF Becomes
<1>9. Target(o, e)' = old[e]
  <2>1. CASE p.move[e] # None
    <3>1. new'[e] = old[e]
      BY <1>2, <2>1 DEF TypeInv, ConsolidationTypeOK, Slots
    <3> QED
      BY <1>8, <2>1, <3>1 DEF Target
  <2>2. CASE p.move[e] = None
    <3>1. SetsAside(b, e, old[e])
      BY <1>2, <2>2 DEF SetsAside
    <3>2. transaction'[b].kept = [transaction[b].kept EXCEPT ![e] = old[e]]
      <4>1. ConsolidationTypeOK /\ old[e] \in Fingerprints \cup {None}
        BY DEF TypeInv, ConsolidationTypeOK, Slots
      <4>2. transaction[b] # None
        BY <1>3
      <4> QED
        BY <3>1, <4>1, <4>2, KeptTransaction
    <3>3. transaction[b].kept \in Slots
      BY <1>1, <1>3 DEF TypeInv, ConsolidationTypeOK, Transactions
    <3>4. transaction'[b].kept[e] = old[e]
      BY <3>2, <3>3 DEF Slots
    <3> QED
      BY <1>8, <2>2, <3>4 DEF Target
  <2> QED
    BY <2>1, <2>2
<1>10. \A f \in Operations : f > e => taken'[b][f] = None
  <2> SUFFICES ASSUME NEW f \in Operations, f > e, taken[b][f] # None PROVE FALSE
    <3>1. \A f \in Operations : f > e => taken'[b][f] = taken[b][f]
      BY <1>1 DEF Operations
    <3> QED
      BY <3>1
  <2>1. f \in PlannedOperations(p)
    BY <1>1, <1>3 DEF MovesInv, TakenFits
  <2>2. f \in c.todo
    BY <1>4, <1>5, <2>1 DEF Upwards
  <2> QED
    BY <1>4, <2>2
<1>11. TakenFits(b)'
  <2>1. TakenFits(b)
    BY <1>1 DEF MovesInv
  <2>2. ASSUME NEW f \in Operations PROVE AsPlanned(b, f)' \/ StopsAfter(b, f)'
    <3>1. CASE f = e
      <4>1. transaction'[b].state # "complete"
        BY <1>1, <1>3
      <4> QED
        BY <1>10, <3>1, <4>1 DEF StopsAfter
    <3>2. CASE f # e
      <4>1. AsPlanned(b, f)
        <5>1. CASE f \in c.todo \/ f \notin PlannedOperations(p)
          BY <1>3, <1>4, <2>1, <5>1 DEF AsPlanned, TakenFits
        <5>2. CASE f \in PlannedOperations(p) \ c.todo
          BY <1>3, <1>4, <5>2 DEF AsPlanned, Done
        <5> QED
          BY <5>1, <5>2
      <4> QED
        BY <1>1, <3>2, <4>1 DEF AsPlanned
    <3> QED
      BY <3>1, <3>2
  <2>3. /\ \A f \in Operations : taken'[b][f] # None => f \in PlannedOperations(transaction'[b].plan)
        /\ transaction'[b] # None /\ transaction'[b].state # "none"
    BY <1>1, <1>3, <1>5, <2>1 DEF TakenFits
  <2> QED
    BY <2>2, <2>3 DEF TakenFits
<1>12. ASSUME NEW d \in Backups, d # b PROVE TakenFits(d)'
  BY <1>1, <1>12 DEF MovesInv, TakenFits, AsPlanned, StopsAfter
<1>13. Knows(o)'
  <2>1. Done(mover[o], b)'
    BY <1>1, <1>4, <1>5, <1>8 DEF Done, PlannedOperations
  <2>2. Upwards(mover[o])'
    BY <1>4, <1>8 DEF Upwards
  <2>3. JustMoved(o, b, e)'
    <3>1. TurnOf(o, e)' /\ taken'[b][e] = old[e]
      BY <1>1, <1>2, <1>8 DEF TurnOf
    <3> QED
      BY <1>8, <1>9, <3>1 DEF JustMoved
  <2>4. ToDo(o, b)'
    BY <1>1, <1>4, <1>6, <1>8, <2>3 DEF ToDo
  <2> QED
    BY <1>8, <2>1, <2>2, <2>4 DEF Knows, Done, ToDo, JustMoved, TurnOf, Target
<1>14. ASSUME NEW r \in Movers, r # o PROVE Knows(r)'
  <2>1. mover'[r].phase \notin Applying
    BY <1>1, <1>7, <1>14, OneApplies DEF Becomes
  <2> QED
    BY <2>1 DEF Knows
<1> QED
  BY <1>1, <1>11, <1>12, <1>13, <1>14 DEF MovesInv

LEMMA MovesRestore ==
  ASSUME TypeInv, MovesInv, NEW o \in Movers, NEW e \in Operations, RestoreOperation(o, e)
  PROVE  MovesInv'
<1> DEFINE b == mover[o].backup
<1>1. ~MoveOperation(o, e) /\ mover[o].phase \in {"restoring", "back_looked"}
  BY DEF MoveOperation, RestoreOperation
<1>2. /\ VersionsBounded' /\ consolidationLock = o
      /\ \A d \in Backups : /\ transaction'[d] = None <=> transaction[d] = None
                            /\ transaction'[d].state = transaction[d].state
                            /\ transaction'[d].plan = transaction[d].plan
      /\ \A d \in Backups, f \in Operations :
           taken'[d][f] = IF d = b /\ f = e THEN None ELSE taken[d][f]
  BY <1>1, MovedVersions DEF MovesInv
<1>3. ASSUME NEW d \in Backups PROVE TakenFits(d)'
  <2>1. TakenFits(d)
    BY DEF MovesInv
  <2>2. \A f \in Operations : taken'[d][f] = None \/ taken'[d][f] = taken[d][f]
    BY <1>2
  <2>3. \A f \in Operations : taken[d][f] = None => taken'[d][f] = None
    BY <2>2
  <2>4. ASSUME NEW f \in Operations PROVE AsPlanned(d, f)' \/ StopsAfter(d, f)'
    <3>1. CASE AsPlanned(d, f)
      BY <1>2, <2>2, <3>1 DEF AsPlanned
    <3>2. CASE StopsAfter(d, f)
      BY <1>2, <2>3, <3>2 DEF StopsAfter
    <3> QED
      BY <2>1, <3>1, <3>2 DEF TakenFits
  <2> QED
    BY <1>2, <2>1, <2>2, <2>3, <2>4 DEF TakenFits
<1>4. ASSUME NEW r \in Movers PROVE Knows(r)'
  <2>1. Becomes(o, "restored", b, mover[o].plan, mover[o].todo)
    BY RestoreType
  <2>2. mover'[r].phase \notin Applying
    BY <1>2, <2>1, OneApplies DEF Becomes, Applying
  <2> QED
    BY <2>2 DEF Knows
<1> QED
  BY <1>2, <1>3, <1>4 DEF MovesInv

LEMMA MovesBackup ==
  ASSUME TypeInv, MovesInv, NEW b \in Backups, TakeBackup(b)
  PROVE  MovesInv'
<1>1. /\ snapshot'[b] = [old |-> old, new |-> new] /\ \A c \in Backups : c # b => snapshot'[c] = snapshot[c]
      /\ UNCHANGED <<old, new, transaction, taken, mover, edits>>
  BY BackupType DEF TakeBackup, layout
<1>2. VersionsBounded'
  <2>1. \A c \in Backups, e \in Operations : snapshot'[c] # None => Bounded(snapshot'[c].old[e])
    BY <1>1 DEF MovesInv, VersionsBounded
  <2> QED
    BY <1>1, <2>1 DEF MovesInv, VersionsBounded, Bounded
<1>3. \A c \in Backups : TakenFits(c)'
  BY <1>1 DEF MovesInv, TakenFits, AsPlanned, StopsAfter
<1>4. \A o \in Movers : Knows(o)'
  BY <1>1 DEF MovesInv, Knows, Done, Upwards, ToDo, JustMoved, TurnOf, Target
<1> QED
  BY <1>2, <1>3, <1>4 DEF MovesInv

\* An edit makes a version that no backup holds: the entry just moved is never made to look planned.
LEMMA MovesEdit ==
  ASSUME TypeInv, PlansAreBackedUp, MovesInv, NEW e \in Operations, Edit(e)
  PROVE  MovesInv'
<1>1. /\ UNCHANGED <<snapshot, transaction, taken, mover>> /\ edits' = edits + 1
      /\ edits \in Nat
  BY DEF Edit, TypeInv, ConsolidationTypeOK
<1>2. PICK v \in {edits + 2, None} :
        \/ old' = [old EXCEPT ![e] = v] /\ new' = new
        \/ new' = [new EXCEPT ![e] = v] /\ old' = old
  BY <1>1 DEF Edit
<1>3. \A w : Bounded(w) => Bounded(w)'
  BY <1>1 DEF Bounded
<1>4. VersionsBounded'
  <2>1. Bounded(v)'
    BY <1>1 DEF Bounded
  <2>2. \A f \in Operations : (old'[f] = old[f] \/ old'[f] = v) /\ (new'[f] = new[f] \/ new'[f] = v)
    BY <1>2 DEF TypeInv, ConsolidationTypeOK, Slots
  <2>3. \A f \in Operations : Bounded(old[f])' /\ Bounded(new[f])'
    BY <1>1, <2>1, <2>2 DEF MovesInv, VersionsBounded, Bounded
  <2>4. /\ \A b \in Backups, f \in Operations : transaction[b] # None => Bounded(transaction[b].kept[f])'
        /\ \A b \in Backups, f \in Operations : snapshot[b] # None => Bounded(snapshot[b].old[f])'
    BY <1>1 DEF MovesInv, VersionsBounded, Bounded
  <2> QED
    BY <1>1, <2>3, <2>4 DEF VersionsBounded
<1>5. \A b \in Backups : TakenFits(b)'
  BY <1>1 DEF MovesInv, TakenFits, AsPlanned, StopsAfter
<1>6. ASSUME NEW o \in Movers PROVE Knows(o)'
  <2> DEFINE c == mover[o]
             b == c.backup
  <2>1. mover'[o] = c /\ taken' = taken /\ Knows(o)
    BY <1>1 DEF MovesInv
  <2>2. ASSUME c.phase \in Applying, NEW f \in c.todo, JustMoved(o, b, f) PROVE JustMoved(o, b, f)'
    <3>1. /\ f \in Operations /\ b \in Backups /\ f \in PlannedOperations(c.plan)
          /\ transaction[b] # None /\ transaction[b].state = "in_progress" /\ transaction[b].plan = c.plan
      BY <2>2, MoverIs DEF TypeInv, Commands, Working, Follows, Applying, Untouched
    <3>2. snapshot[b] # None /\ snapshot[b].old[f] = Source(c.plan, f)
      BY <3>1 DEF PlansAreBackedUp, BackedUp, Recorded
    <3>3. Bounded(Source(c.plan, f)) /\ Source(c.plan, f) # None
      <4>1. Bounded(snapshot[b].old[f])
        BY <3>1, <3>2 DEF MovesInv, VersionsBounded
      <4> QED
        BY <3>1, <3>2, <4>1 DEF PlannedOperations, Source
    <3>4. Source(c.plan, f) # v
      BY <1>1, <3>3 DEF Bounded
    <3>5. new'[f] = new[f] \/ new'[f] = v
      BY <1>2, <3>1 DEF TypeInv, ConsolidationTypeOK, Slots
    <3>6. Target(o, f)' = Target(o, f) \/ Target(o, f)' = v
      BY <1>1, <3>5 DEF Target
    <3> QED
      BY <1>1, <2>2, <3>4, <3>6 DEF JustMoved, TurnOf
  <2>3. c.phase \in Applying => (c.phase = "creating" \/ (Done(c, b) /\ Upwards(c) /\ ToDo(o, b)))
    BY <2>1 DEF Knows
  <2>4. ASSUME c.phase \in Applying, c.phase # "creating" PROVE Done(c, b)' /\ Upwards(c)' /\ ToDo(o, b)'
    BY <1>1, <2>2, <2>3, <2>4 DEF Done, Upwards, ToDo
  <2>5. CASE c.phase \in Applying /\ c.phase # "creating"
    BY <2>1, <2>4, <2>5 DEF Knows
  <2>6. CASE c.phase \notin Applying \/ c.phase = "creating"
    BY <2>1, <2>6 DEF Knows
  <2> QED
    BY <2>5, <2>6
<1> QED
  BY <1>4, <1>5, <1>6 DEF MovesInv

LEMMA MovesStart == ConsolidationInit => MovesInv
<1> SUFFICES ASSUME ConsolidationInit PROVE MovesInv
  OBVIOUS
<1>1. /\ \A b \in Backups : transaction[b] = None /\ snapshot[b] = None
      /\ \A b \in Backups, e \in Operations : taken[b][e] = None
      /\ \A o \in Movers : mover[o].phase = "idle"
      /\ edits = 0 /\ \A e \in Operations : old[e] \in {1, None} /\ new[e] \in {0, None}
  BY DEF ConsolidationInit, Nothing, NoMove
<1> QED
  BY <1>1 DEF MovesInv, VersionsBounded, Bounded, TakenFits, AsPlanned, Knows, Applying

LEMMA MovesNext ==
  TypeInv /\ PlansAreBackedUp /\ MovesInv /\ [ConsolidationNext]_consolidationVars => MovesInv'
<1> SUFFICES ASSUME TypeInv, PlansAreBackedUp, MovesInv, [ConsolidationNext]_consolidationVars
             PROVE  MovesInv'
  OBVIOUS
<1>1. ASSUME NEW o \in Movers, MoverStep(o) PROVE MovesInv'
  <2>1. ASSUME NEW b \in Backups, VerifyConsolidation(o, b) PROVE MovesInv'
    <3>1. Becomes(o, "verified", b, consolidation_plan, {})
      BY <2>1, VerifyType
    <3>2. UNCHANGED <<old, new, snapshot, edits, taken, transaction>>
      BY <2>1 DEF VerifyConsolidation, layout, Rest, Settled
    <3> QED
      BY <3>1, <3>2, MovesThink DEF Becomes, Knows, Applying
  <2>2. ASSUME NEW b \in Backups, LockToRestore(o, b) PROVE MovesInv'
    <3>1. Becomes(o, "finding", b, EmptyPlan, {})
      BY <2>2, LockToRestoreType
    <3>2. UNCHANGED <<old, new, snapshot, edits, taken, transaction>>
      BY <2>2 DEF LockToRestore, layout, Rest, Settled
    <3> QED
      BY <3>1, <3>2, MovesThink DEF Becomes, Knows, Applying
  <2>3. CASE LockAndRecheck(o)
    <3>1. Becomes(o, "locked", mover[o].backup, mover[o].plan, mover[o].todo)
      BY <2>3, LockType
    <3>2. UNCHANGED <<old, new, snapshot, edits, taken, transaction>>
      BY <2>3 DEF LockAndRecheck, layout, Rest, Settled
    <3> QED
      BY <3>1, <3>2, MovesThink DEF Becomes, Knows, Applying
  <2>4. CASE RefuseConsolidation(o) \/ StopMover(o)
    <3>1. Becomes(o, "idle", None, EmptyPlan, {})
      BY <2>4, IdleType
    <3>2. UNCHANGED <<old, new, snapshot, edits, taken, transaction>>
      BY <2>4 DEF RefuseConsolidation, StopMover, layout, Rest, Settled
    <3> QED
      BY <3>1, <3>2, MovesThink DEF Becomes, Knows, Applying
  <2>5. CASE MakeTransaction(o)
    BY <2>5, MovesMakeTransaction
  <2>6. CASE RecordPlan(o) \/ Complete(o) \/ FailConsolidation(o) \/ FinishRestore(o)
    BY <2>6, MovesSave
  <2>7. CASE CreateParents(o)
    BY <2>7, MovesCreateParents
  <2>8. CASE RemoveMerged(o)
    <3>1. UNCHANGED <<old, new, snapshot, edits, taken, transaction, mover>>
      BY <2>8 DEF RemoveMerged, Rest, Settled
    <3> QED
      BY <3>1, MovesFrame
  <2>9. ASSUME NEW e \in Operations, CheckOperation(o, e) \/ LookAtTarget(o, e) \/ LookAtOriginal(o, e)
        PROVE  MovesInv'
    <3>1. PICK phase \in {"checked", "looked", "back_looked"} :
            /\ MoverAt(o, phase) /\ UNCHANGED <<layout, Rest, transaction>>
            /\ phase # "back_looked" => mover[o].phase \in {"moving", "checked"}
      BY <2>9 DEF CheckOperation, LookAtTarget, LookAtOriginal
    <3>2. Becomes(o, phase, mover[o].backup, mover[o].plan, mover[o].todo)
      BY <3>1, MoverAtIs DEF TypeInv, MoverPhases
    <3>3. UNCHANGED <<old, new, snapshot, edits, taken, transaction>>
      BY <3>1 DEF layout, Rest, Settled
    <3> QED
      BY <1>1, <3>1, <3>2, <3>3, MovesLook DEF Becomes, Applying
  <2>10. ASSUME NEW e \in Operations, MoveOperation(o, e) PROVE MovesInv'
    BY <2>10, MovesMove
  <2>11. ASSUME NEW e \in Operations, RestoreOperation(o, e) PROVE MovesInv'
    BY <2>11, MovesRestore
  <2>12. ASSUME NEW e \in Operations, ConfirmOperation(o, e) PROVE MovesInv'
    BY <2>12, MovesConfirm
  <2>13. ASSUME NEW e \in Operations, ConfirmRestore(o, e) PROVE MovesInv'
    <3>1. Becomes(o, "restoring", mover[o].backup, mover[o].plan, mover[o].todo \ {e})
      <4>1. mover[o].phase = "restored"
        BY <2>13 DEF ConfirmRestore
      <4> QED
        BY <2>13, <4>1, ConfirmType
    <3>2. UNCHANGED <<old, new, snapshot, edits, taken, transaction>>
      BY <2>13 DEF ConfirmRestore, layout, Rest, Settled
    <3> QED
      BY <3>1, <3>2, MovesThink DEF Becomes, Knows, Applying
  <2>14. CASE CheckRestore(o) \/ RecreateMerged(o) \/ RemoveParents(o)
    <3>1. /\ mover'[o].phase \in {"preparing", "restoring", "removing"}
          /\ \A r \in Movers : r # o => mover'[r] = mover[r]
      BY <2>14, CheckRestoreType, ParentsType DEF Becomes
    <3>2. UNCHANGED <<old, new, snapshot, edits, taken, transaction>>
      BY <2>14 DEF CheckRestore, RecreateMerged, RemoveParents, layout, Rest, Settled
    <3> QED
      BY <1>1, <3>1, <3>2, MovesLook DEF Applying
  <2> QED
    BY <1>1, <2>1, <2>2, <2>3, <2>4, <2>5, <2>6, <2>7, <2>8, <2>9, <2>10, <2>11, <2>12, <2>13, <2>14
       DEF MoverStep
<1>2. ASSUME NEW b \in Backups, TakeBackup(b) PROVE MovesInv'
  BY <1>2, MovesBackup
<1>3. ASSUME NEW e \in Operations, Edit(e) PROVE MovesInv'
  BY <1>3, MovesEdit
<1>4. CASE UNCHANGED consolidationVars
  BY <1>4, MovesFrame DEF consolidationVars, layout
<1> QED
  BY <1>1, <1>2, <1>3, <1>4 DEF ConsolidationNext

\* An entry that a consolidation moved is in the verified backup of its transaction in the version
\* that was moved, or was edited in the moment before its rename; then nothing is moved after it and
\* the transaction is never complete.
THEOREM MovesAreInBackup == ConsolidationSpec => []MovesAreBackedUp
<1>1. ConsolidationInit => PlansAreBackedUp
  BY DEF ConsolidationInit, PlansAreBackedUp, FreshIsNow, Recorded, NoMove
<1>2. ASSUME TypeInv, PlansAreBackedUp, MovesInv PROVE MovesAreBackedUp
  <2> SUFFICES ASSUME NEW b \in Backups, NEW e \in Operations, taken[b][e] # None
               PROVE  taken[b][e] = snapshot[b].old[e] \/ StopsAfter(b, e)
    BY DEF MovesAreBackedUp, StopsAfter
  <2>1. TakenFits(b)
    BY <1>2 DEF MovesInv
  <2>2. b \in Recorded /\ e \in PlannedOperations(transaction[b].plan)
    BY <2>1 DEF TakenFits, Recorded
  <2>3. snapshot[b].old[e] = Source(transaction[b].plan, e)
    BY <1>2, <2>2 DEF PlansAreBackedUp, BackedUp
  <2> QED
    BY <2>1, <2>3 DEF TakenFits, AsPlanned
<1> QED
  BY <1>1, <1>2, TypeStart, TypeStep, BackedUpNext, MovesStart, MovesNext, PTL DEF ConsolidationSpec

-----------------------------------------------------------------------------
(***************************************************************************)
(* Taking a consolidation back.  While nobody edits the source, every      *)
(* entry is in one of three places: under its old name, under the new one, *)
(* or, a duplicate, beside the backup of one transaction.  Whatever is not *)
(* where it was has a transaction that is not rolled back and would put it *)
(* there again; and of these transactions there is always one that no      *)
(* other stands in the way of.                                             *)
(***************************************************************************)
was == original[1]
twinWas == original[2]

Keeps(b, e) == transaction[b] # None /\ transaction[b].kept[e] # None
Planned(b) == PlannedOperations(transaction[b].plan)

Home(e) ==
  old[e] = was[e] /\ new[e] = twinWas[e] /\ \A b \in Backups : ~Keeps(b, e)
Renamed(e) ==
  /\ was[e] # None /\ twinWas[e] = None /\ old[e] = None /\ new[e] = was[e]
  /\ \A b \in Backups : ~Keeps(b, e)
SetAside(e) ==
  /\ was[e] # None /\ twinWas[e] # None /\ old[e] = None /\ new[e] = twinWas[e]
  /\ \E b \in Backups : Keeps(b, e)
  /\ \A b \in Backups : Keeps(b, e) => transaction[b].kept[e] = was[e]
  /\ \A b, c \in Backups : Keeps(b, e) /\ Keeps(c, e) => b = c

\* A plan made at any time since says of an entry what the first one would have said.
PlanFits(p) ==
  /\ \A e \in PlannedOperations(p) :
       /\ was[e] # None /\ Source(p, e) = was[e]
       /\ p.move[e] # None <=> twinWas[e] = None
  /\ p.merge => original[3]
  /\ p.create => ~original[4]

\* Of any transactions, one keeps nothing back that another of them planned: the last.
SomeIsLast ==
  \A S \in SUBSET Pending :
    S # {} => \E b \in S : \A c \in S \ {b} : \A e \in Planned(b) : ~Keeps(c, e)

Undisturbed ==
  /\ \A e \in Operations : Home(e) \/ Renamed(e) \/ SetAside(e)
  /\ \A b \in Backups, e \in Operations : Keeps(b, e) => b \in Pending /\ e \in Planned(b)
  /\ \A b \in Recorded : PlanFits(transaction[b].plan)
  /\ \A e \in Operations : old[e] # was[e] => \E b \in Pending : e \in Planned(b)
  /\ oldDir => original[3]
  /\ oldDir # original[3] => \E b \in Pending : transaction[b].plan.merge
  /\ original[4] => newParent
  /\ newParent # original[4] => \E b \in Pending : transaction[b].plan.create
  /\ SomeIsLast

\* What the operator at work knows of the layout.
Sees(o) ==
  LET c == mover[o]
      p == c.plan IN
  /\ c.phase \in {"locked", "made"} => p = consolidation_plan
  /\ c.phase \in Applying =>
       \A d \in Backups \ {c.backup} : \A e \in PlannedOperations(p) : ~Keeps(d, e)
  /\ c.phase \in Restoring => \A e \in PlannedOperations(p) \ c.todo : old[e] = was[e]
  /\ (c.phase \in Restoring \ {"preparing"} /\ p.merge) => oldDir
  /\ c.phase = "removing" => c.todo = {} /\ (p.create => ~newParent)

LayoutInv == edits = 0 => Undisturbed /\ \A o \in Movers : Sees(o)

LEMMA UndisturbedFrame ==
  ASSUME Undisturbed, UNCHANGED <<old, new, oldDir, newParent, original, transaction>>
  PROVE  Undisturbed'
<1>1. UNCHANGED <<Recorded, Pending>>
  BY DEF Recorded, Pending
<1>2. \A b, e : Keeps(b, e)' <=> Keeps(b, e)
  BY DEF Keeps
<1>3. \A b : Planned(b)' = Planned(b)
  BY DEF Planned
<1>4. \A e : (Home(e)' <=> Home(e)) /\ (Renamed(e)' <=> Renamed(e)) /\ (SetAside(e)' <=> SetAside(e))
  BY <1>2 DEF Home, Renamed, SetAside, was, twinWas
<1>5. SomeIsLast'
  BY <1>1, <1>2, <1>3 DEF Undisturbed, SomeIsLast
<1>6. \A p : PlanFits(p)' <=> PlanFits(p)
  BY DEF PlanFits, was, twinWas
<1> QED
  BY <1>1, <1>2, <1>3, <1>4, <1>5, <1>6 DEF Undisturbed, was

\* While one operator changes something the others have nothing to look at.
LEMMA OthersSee ==
  ASSUME TypeInv, \A r \in Movers : Sees(r), NEW o \in Movers, NEW phase, NEW backup, NEW plan, NEW todo,
         Becomes(o, phase, backup, plan, todo),
         \/ consolidationLock = o
         \/ UNCHANGED <<old, new, oldDir, newParent, original, transaction>>,
         Sees(o)'
  PROVE  \A r \in Movers : Sees(r)'
<1> SUFFICES ASSUME NEW r \in Movers, r # o PROVE Sees(r)'
  OBVIOUS
<1>1. mover'[r] = mover[r]
  BY DEF Becomes
<1>2. CASE mover[r].phase \in Unlocked
  BY <1>1, <1>2 DEF Sees, Unlocked, Applying, Restoring
<1>3. CASE mover[r].phase \notin Unlocked
  <2>1. UNCHANGED <<old, new, oldDir, newParent, original, transaction>>
    BY <1>3 DEF TypeInv, Working
  <2>2. consolidation_plan' = consolidation_plan
    BY <2>1 DEF consolidation_plan
  <2>3. \A b, e : Keeps(b, e)' <=> Keeps(b, e)
    BY <2>1 DEF Keeps
  <2> QED
    BY <1>1, <2>1, <2>2, <2>3 DEF Sees, was
<1> QED
  BY <1>2, <1>3

LEMMA ThoughtStep ==
  ASSUME TypeInv, Undisturbed, \A r \in Movers : Sees(r), NEW o \in Movers,
         NEW phase, NEW backup, NEW plan, NEW todo,
         Becomes(o, phase, backup, plan, todo),
         UNCHANGED <<old, new, oldDir, newParent, original, transaction>>, Sees(o)'
  PROVE  Undisturbed' /\ \A r \in Movers : Sees(r)'
BY UndisturbedFrame, OthersSee

\* The plan of this moment fits what the source was.
LEMMA PlanFitsNow ==
  ASSUME ConsolidationTypeOK, Undisturbed
  PROVE  /\ PlanFits(consolidation_plan)
         /\ \A e \in PlannedOperations(consolidation_plan) : Home(e) /\ \A b \in Backups : ~Keeps(b, e)
<1> DEFINE p == consolidation_plan
<1>1. \A e \in PlannedOperations(p) : old[e] # None
  BY DEF PlannedOperations, consolidation_plan
<1>2. \A e \in PlannedOperations(p) : Home(e) /\ e \in Operations
  BY <1>1 DEF Undisturbed, Renamed, SetAside, PlannedOperations
<1>3. ASSUME NEW e \in PlannedOperations(p)
      PROVE  was[e] # None /\ Source(p, e) = was[e] /\ (p.move[e] # None <=> twinWas[e] = None)
  <2>1. old[e] = was[e] /\ new[e] = twinWas[e] /\ e \in Operations /\ old[e] # None
    BY <1>1, <1>2, <1>3 DEF Home
  <2> QED
    BY <2>1 DEF consolidation_plan, Source
<1>4. (p.merge => original[3]) /\ (p.create => ~original[4])
  BY DEF consolidation_plan, Undisturbed
<1> QED
  BY <1>2, <1>3, <1>4 DEF PlanFits, Home

LEMMA ThinkingSees ==
  ASSUME TypeInv, Undisturbed, \A r \in Movers : Sees(r), NEW o \in Movers,
         \/ \E b \in Backups : VerifyConsolidation(o, b) \/ LockToRestore(o, b)
         \/ RefuseConsolidation(o) \/ StopMover(o) \/ LockAndRecheck(o)
         \/ \E e \in Operations : \/ CheckOperation(o, e) \/ LookAtTarget(o, e)
                                  \/ LookAtOriginal(o, e) \/ ConfirmOperation(o, e)
                                  \/ ConfirmRestore(o, e)
         \/ CheckRestore(o)
  PROVE  Undisturbed' /\ \A r \in Movers : Sees(r)'
<1> DEFINE Goal == Undisturbed' /\ \A r \in Movers : Sees(r)'
           Still == UNCHANGED <<old, new, oldDir, newParent, original, transaction>>
<1>0. Still
  BY DEF VerifyConsolidation, LockToRestore, RefuseConsolidation, StopMover, LockAndRecheck,
         CheckOperation, LookAtTarget, LookAtOriginal, ConfirmOperation, ConfirmRestore, CheckRestore,
         layout, Rest, Settled
<1>1. ASSUME NEW b \in Backups, VerifyConsolidation(o, b) PROVE Goal
  <2>1. Becomes(o, "verified", b, consolidation_plan, {})
    BY <1>1, VerifyType
  <2>2. Sees(o)'
    BY <2>1 DEF Becomes, Sees, Applying, Restoring
  <2> QED
    BY <1>0, <2>1, <2>2, ThoughtStep
<1>2. ASSUME NEW b \in Backups, LockToRestore(o, b) PROVE Goal
  <2>1. Becomes(o, "finding", b, EmptyPlan, {})
    BY <1>2, LockToRestoreType
  <2>2. Sees(o)'
    BY <2>1 DEF Becomes, Sees, Applying, Restoring
  <2> QED
    BY <1>0, <2>1, <2>2, ThoughtStep
<1>3. CASE RefuseConsolidation(o) \/ StopMover(o)
  <2>1. Becomes(o, "idle", None, EmptyPlan, {})
    BY <1>3, IdleType
  <2>2. Sees(o)'
    BY <2>1 DEF Becomes, Sees, Applying, Restoring
  <2> QED
    BY <1>0, <2>1, <2>2, ThoughtStep
<1>4. CASE LockAndRecheck(o)
  <2>1. Becomes(o, "locked", mover[o].backup, mover[o].plan, mover[o].todo)
    BY <1>4, LockType
  <2>2. mover[o].plan = consolidation_plan
    BY <1>4 DEF LockAndRecheck
  <2>3. consolidation_plan' = consolidation_plan
    BY <1>0 DEF consolidation_plan
  <2>4. Sees(o)'
    BY <2>1, <2>2, <2>3 DEF Becomes, Sees, Applying, Restoring
  <2> QED
    BY <1>0, <2>1, <2>4, ThoughtStep
<1>5. \A b, e : Keeps(b, e)' <=> Keeps(b, e)
  BY <1>0 DEF Keeps
<1>6. ASSUME NEW e \in Operations,
             CheckOperation(o, e) \/ LookAtTarget(o, e) \/ LookAtOriginal(o, e)
      PROVE  Goal
  <2>1. PICK phase \in {"checked", "looked", "back_looked"} :
          /\ MoverAt(o, phase)
          /\ \/ mover[o].phase \in Applying /\ phase \in Applying
             \/ mover[o].phase = "restoring" /\ phase = "back_looked"
    BY <1>6 DEF CheckOperation, LookAtTarget, LookAtOriginal, Applying
  <2>2. Becomes(o, phase, mover[o].backup, mover[o].plan, mover[o].todo)
    BY <2>1, MoverAtIs DEF TypeInv, MoverPhases
  <2>3. Sees(o)'
    BY <1>0, <1>5, <2>1, <2>2 DEF Becomes, Sees, Applying, Restoring, was
  <2> QED
    BY <1>0, <2>2, <2>3, ThoughtStep
<1>7. ASSUME NEW e \in Operations, ConfirmOperation(o, e) PROVE Goal
  <2>1. mover[o].phase = "moved"
    BY <1>7 DEF ConfirmOperation
  <2>2. Becomes(o, "moving", mover[o].backup, mover[o].plan, mover[o].todo \ {e})
    BY <1>7, <2>1, ConfirmType
  <2>3. Sees(o)'
    BY <1>0, <1>5, <2>1, <2>2 DEF Becomes, Sees, Applying, Restoring
  <2> QED
    BY <1>0, <2>2, <2>3, ThoughtStep
<1>8. ASSUME NEW e \in Operations, ConfirmRestore(o, e) PROVE Goal
  <2>1. mover[o].phase = "restored" /\ old[e] = Source(mover[o].plan, e)
    BY <1>8 DEF ConfirmRestore
  <2>2. Becomes(o, "restoring", mover[o].backup, mover[o].plan, mover[o].todo \ {e})
    BY <1>8, <2>1, ConfirmType
  <2>3. PlanFits(mover[o].plan)
    BY <2>1 DEF TypeInv, Working, Follows, Untouched, Restoring, Undisturbed, Recorded
  <2>4. e \in PlannedOperations(mover[o].plan) => old[e] = was[e]
    BY <2>1, <2>3 DEF PlanFits
  <2>5. Sees(o)
    OBVIOUS
  <2>6. Sees(o)'
    BY <1>0, <2>1, <2>2, <2>4, <2>5 DEF Becomes, Sees, Applying, Restoring, was
  <2> QED
    BY <1>0, <2>2, <2>6, ThoughtStep
<1>9. CASE CheckRestore(o)
  <2> DEFINE b == mover[o].backup
             p == transaction[b].plan
             todo == {e \in PlannedOperations(p) : Moved(b, e)}
  <2>1. Becomes(o, "preparing", b, p, todo)
    BY <1>9, CheckRestoreType
  <2>2. b \in Recorded /\ Reversible(b)
    BY <1>9 DEF CheckRestore, Recorded, TypeInv, Working, Untouched
  <2>3. PlanFits(p)
    BY <2>2 DEF Undisturbed
  <2>4. \A e \in PlannedOperations(p) \ todo : old[e] = was[e]
    BY <2>2, <2>3 DEF Reversible, InPlace, PlanFits
  <2> HIDE DEF p, todo
  <2>5. Sees(o)'
    BY <1>0, <2>1, <2>4 DEF Becomes, Sees, Applying, Restoring, was
  <2> QED
    BY <1>0, <2>1, <2>5, ThoughtStep
<1> QED
  BY <1>1, <1>2, <1>3, <1>4, <1>6, <1>7, <1>8, <1>9

(***************************************************************************)
(* Directories made and removed.                                           *)
(***************************************************************************)
LEMMA DirectoryStep ==
  ASSUME Undisturbed, UNCHANGED <<old, new, original, transaction>>,
         oldDir' => original[3],
         oldDir' # original[3] => \E b \in Pending : transaction[b].plan.merge,
         original[4] => newParent',
         newParent' # original[4] => \E b \in Pending : transaction[b].plan.create
  PROVE  Undisturbed'
<1>1. UNCHANGED <<Recorded, Pending>>
  BY DEF Recorded, Pending
<1>2. \A b, e : Keeps(b, e)' <=> Keeps(b, e)
  BY DEF Keeps
<1>3. \A b : Planned(b)' = Planned(b)
  BY DEF Planned
<1>4. \A e : (Home(e)' <=> Home(e)) /\ (Renamed(e)' <=> Renamed(e)) /\ (SetAside(e)' <=> SetAside(e))
  BY <1>2 DEF Home, Renamed, SetAside, was, twinWas
<1>5. SomeIsLast'
  BY <1>1, <1>2, <1>3 DEF Undisturbed, SomeIsLast
<1>6. \A p : PlanFits(p)' <=> PlanFits(p)
  BY DEF PlanFits, was, twinWas
<1> QED
  BY <1>1, <1>2, <1>3, <1>4, <1>5, <1>6 DEF Undisturbed, was

\* Whoever applies or restores follows a recorded plan that fits.
LEMMA FollowedPlan ==
  ASSUME TypeInv, Undisturbed, NEW o \in Movers, mover[o].phase \in Applying \cup Restoring
  PROVE  LET b == mover[o].backup
             p == mover[o].plan IN
         /\ b \in Recorded /\ transaction[b].plan = p /\ PlanFits(p) /\ consolidationLock = o
         /\ mover[o].todo \subseteq PlannedOperations(p)
         /\ mover[o].phase \in Applying => b \in Pending
         /\ p \in Plan
<1>1. mover[o] \in Commands
  BY MoverIs DEF TypeInv
<1> QED
  BY <1>1 DEF TypeInv, Working, Follows, Unlocked, Untouched, Applying, Restoring, Undisturbed,
              Recorded, Pending, Commands

LEMMA DirectoriesSee ==
  ASSUME TypeInv, Undisturbed, \A r \in Movers : Sees(r), NEW o \in Movers,
         CreateParents(o) \/ RemoveMerged(o) \/ RecreateMerged(o) \/ RemoveParents(o)
  PROVE  Undisturbed' /\ \A r \in Movers : Sees(r)'
<1> DEFINE b == mover[o].backup
           p == mover[o].plan
           Goal == Undisturbed' /\ \A r \in Movers : Sees(r)'
<1>0. mover[o].phase \in Applying \cup Restoring
  BY DEF CreateParents, RemoveMerged, RecreateMerged, RemoveParents, Applying, Restoring
<1>1. /\ b \in Recorded /\ transaction[b].plan = p /\ PlanFits(p) /\ consolidationLock = o
      /\ mover[o].phase \in Applying => b \in Pending
      /\ p.merge \in BOOLEAN /\ p.create \in BOOLEAN
  BY <1>0, FollowedPlan DEF Plan
<1>2. UNCHANGED <<old, new, original, transaction>>
  BY DEF CreateParents, RemoveMerged, RecreateMerged, RemoveParents, Rest, Settled
<1>3. \A d, e : Keeps(d, e)' <=> Keeps(d, e)
  BY <1>2 DEF Keeps
<1>4. oldDir \in BOOLEAN /\ newParent \in BOOLEAN /\ original[3] \in BOOLEAN /\ original[4] \in BOOLEAN
  BY DEF TypeInv, ConsolidationTypeOK
<1>5. CASE CreateParents(o)
  <2>1. Becomes(o, "moving", b, p, PlannedOperations(p)) /\ mover[o].phase = "creating"
    BY <1>5, CreateParentsType DEF CreateParents
  <2>2. oldDir' = oldDir /\ newParent' = (newParent \/ p.create)
    BY <1>5 DEF CreateParents
  <2>3. b \in Pending
    BY <1>1, <2>1 DEF Applying
  <2>4. newParent' # original[4] => \E d \in Pending : transaction[d].plan.create
    BY <1>1, <1>4, <2>2, <2>3 DEF Undisturbed
  <2>5. Undisturbed'
    BY <1>2, <2>2, <2>4, DirectoryStep DEF Undisturbed
  <2>6. Sees(o)'
    BY <1>3, <2>1 DEF Becomes, Sees, Applying, Restoring
  <2> QED
    BY <1>1, <2>1, <2>5, <2>6, OthersSee
<1>6. CASE RemoveMerged(o)
  <2>1. mover' = mover /\ mover[o].phase = "moving" /\ p.merge /\ oldDir' = FALSE /\ newParent' = newParent
    BY <1>6 DEF RemoveMerged
  <2>2. Becomes(o, "moving", b, p, mover[o].todo)
    BY <2>1 DEF Becomes, TypeInv, ConsolidationTypeOK, Commands
  <2>3. b \in Pending
    BY <1>1, <2>1 DEF Applying
  <2>4. Undisturbed'
    BY <1>1, <1>2, <2>1, <2>3, DirectoryStep DEF Undisturbed
  <2>5. Sees(o)'
    BY <1>3, <2>1, <2>2 DEF Becomes, Sees, Applying, Restoring
  <2> QED
    BY <1>1, <2>2, <2>4, <2>5, OthersSee
<1>7. CASE RecreateMerged(o)
  <2>1. mover[o].phase = "preparing" /\ newParent' = newParent /\ oldDir' = (oldDir \/ (p.merge /\ ~oldDir))
    BY <1>7 DEF RecreateMerged
  <2>2. Becomes(o, "restoring", b, p, mover[o].todo)
    BY <1>7, <2>1, ParentsType
  <2>3. /\ oldDir' => original[3]
        /\ oldDir' # original[3] => oldDir # original[3]
        /\ p.merge => oldDir'
    BY <1>1, <1>4, <2>1 DEF PlanFits, Undisturbed
  <2>4. Undisturbed'
    BY <1>2, <2>1, <2>3, DirectoryStep DEF Undisturbed
  <2>5. Sees(o)
    OBVIOUS
  <2>6. Sees(o)'
    BY <1>2, <2>1, <2>2, <2>3, <2>5 DEF Becomes, Sees, Applying, Restoring, was
  <2> QED
    BY <1>1, <2>2, <2>4, <2>6, OthersSee
<1>8. CASE RemoveParents(o)
  <2>1. /\ mover[o].phase = "restoring" /\ mover[o].todo = {} /\ oldDir' = oldDir
        /\ newParent' = (newParent /\ ~(p.create /\ newParent))
    BY <1>8 DEF RemoveParents
  <2>2. Becomes(o, "removing", b, p, mover[o].todo)
    BY <1>8, <2>1, ParentsType
  <2>3. /\ original[4] => newParent'
        /\ newParent' # original[4] => newParent # original[4]
        /\ p.create => ~newParent'
    BY <1>1, <1>4, <2>1 DEF PlanFits, Undisturbed
  <2>4. Undisturbed'
    BY <1>2, <2>1, <2>3, DirectoryStep DEF Undisturbed
  <2>5. Sees(o)
    OBVIOUS
  <2>6. Sees(o)'
    BY <1>2, <2>1, <2>2, <2>3, <2>5 DEF Becomes, Sees, Applying, Restoring, was
  <2> QED
    BY <1>1, <2>2, <2>4, <2>6, OthersSee
<1> QED
  BY <1>5, <1>6, <1>7, <1>8

(***************************************************************************)
(* A transaction made, recorded, ended and taken back.                     *)
(***************************************************************************)
LEMMA SamePlaces ==
  ASSUME Undisturbed, UNCHANGED <<old, new, original>>, NEW b \in Backups,
         \A c \in Backups : c # b => transaction'[c] = transaction[c],
         \A e \in Operations : Keeps(b, e)' <=> Keeps(b, e),
         \A e \in Operations : Keeps(b, e) => transaction'[b].kept[e] = transaction[b].kept[e]
  PROVE  /\ \A e \in Operations : Home(e)' \/ Renamed(e)' \/ SetAside(e)'
         /\ \A c \in Backups, e \in Operations : Keeps(c, e)' <=> Keeps(c, e)
<1>1. \A c \in Backups, e \in Operations : Keeps(c, e)' <=> Keeps(c, e)
  BY DEF Keeps
<1>2. \A c \in Backups, e \in Operations : Keeps(c, e) => transaction'[c].kept[e] = transaction[c].kept[e]
  OBVIOUS
<1>3. ASSUME NEW e \in Operations PROVE Home(e)' \/ Renamed(e)' \/ SetAside(e)'
  <2>1. CASE Home(e)
    BY <1>1, <2>1 DEF Home, was, twinWas
  <2>2. CASE Renamed(e)
    BY <1>1, <2>2 DEF Renamed, was, twinWas
  <2>3. CASE SetAside(e)
    BY <1>1, <1>2, <2>3 DEF SetAside, was, twinWas
  <2> QED
    BY <2>1, <2>2, <2>3 DEF Undisturbed
<1> QED
  BY <1>1, <1>3

\* Every plan stays, and what is pending.
LEMMA SamePending ==
  ASSUME Undisturbed, UNCHANGED <<old, new, oldDir, newParent, original, Recorded, Pending>>,
         \A e \in Operations : Home(e)' \/ Renamed(e)' \/ SetAside(e)',
         \A c \in Backups, e \in Operations : Keeps(c, e)' <=> Keeps(c, e),
         \A c \in Recorded : transaction'[c].plan = transaction[c].plan
  PROVE  Undisturbed'
<1>1. \A c \in Recorded : Planned(c)' = Planned(c)
  BY DEF Planned
<1>2. Pending \subseteq Recorded /\ Recorded \subseteq Backups /\ \A c : Planned(c) \subseteq Operations
  BY DEF Pending, Recorded, Planned, PlannedOperations
<1>3. SomeIsLast'
  <2> SUFFICES ASSUME NEW S \in SUBSET Pending, S # {}
               PROVE  \E d \in S : \A c \in S \ {d} : \A e \in Planned(d)' : ~Keeps(c, e)'
    BY DEF SomeIsLast
  <2>1. PICK d \in S : \A c \in S \ {d} : \A e \in Planned(d) : ~Keeps(c, e)
    BY DEF Undisturbed, SomeIsLast
  <2> QED
    BY <1>1, <1>2, <2>1
<1>4. \A p : PlanFits(p)' <=> PlanFits(p)
  BY DEF PlanFits, was, twinWas
<1> QED
  BY <1>1, <1>2, <1>3, <1>4 DEF Undisturbed, was

LEMMA MakeTransactionSees ==
  ASSUME TypeInv, Undisturbed, \A r \in Movers : Sees(r), NEW o \in Movers, MakeTransaction(o)
  PROVE  Undisturbed' /\ \A r \in Movers : Sees(r)'
<1>0. PICK b \in Backups : b = mover[o].backup
  BY DEF MakeTransaction, TypeInv, Working
<1>1. /\ Becomes(o, "made", b, mover[o].plan, mover[o].todo) /\ TypeInv'
      /\ b \in Backups /\ transaction[b] = None
      /\ \A c \in Backups : c # b => transaction'[c] = transaction[c]
      /\ transaction'[b] = [kept |-> Nothing, state |-> "none", plan |-> EmptyPlan]
  BY <1>0, MakeTransactionType
<1>2. UNCHANGED <<old, new, oldDir, newParent, original>> /\ mover[o].phase = "locked" /\ consolidationLock = o
  BY DEF MakeTransaction, layout, Rest, Settled, TypeInv, Working, Unlocked
<1>9. /\ transaction'[b].kept = Nothing /\ transaction'[b].state = "none"
      /\ \A e \in Operations : Nothing[e] = None
  BY <1>1 DEF Nothing
<1>3. \A e \in Operations : ~Keeps(b, e) /\ ~Keeps(b, e)'
  BY <1>1, <1>9 DEF Keeps
<1>10. Recorded' = Recorded /\ b \notin Recorded
  BY <1>1, <1>9 DEF Recorded
<1>4. UNCHANGED <<Recorded, Pending>> /\ b \notin Recorded
  <2>1. Pending' = {c \in Recorded : transaction'[c].state # "rolled_back"}
    BY <1>10 DEF Pending
  <2>2. \A c \in Recorded : transaction'[c] = transaction[c]
    BY <1>1, <1>10 DEF Recorded
  <2> QED
    BY <1>10, <2>1, <2>2 DEF Pending
<1>5. \A c \in Recorded : transaction'[c].plan = transaction[c].plan
  BY <1>1, <1>4 DEF Recorded
<1>6. Undisturbed'
  BY <1>1, <1>2, <1>3, <1>4, <1>5, SamePlaces, SamePending
<1>7. consolidation_plan' = consolidation_plan
  BY <1>2 DEF consolidation_plan
<1>8. Sees(o)'
  BY <1>1, <1>2, <1>7 DEF Becomes, Sees, Applying, Restoring
<1> QED
  BY <1>1, <1>2, <1>6, <1>8, OthersSee

LEMMA SaveSees ==
  ASSUME TypeInv, Undisturbed, \A r \in Movers : Sees(r), NEW o \in Movers,
         RecordPlan(o) \/ Complete(o) \/ FailConsolidation(o) \/ FinishRestore(o)
  PROVE  Undisturbed' /\ \A r \in Movers : Sees(r)'
<1>a. mover[o].phase \notin Untouched
  BY DEF RecordPlan, Complete, FailConsolidation, FinishRestore, InApply, Untouched
<1>b. PICK b \in Backups : b = mover[o].backup
  BY <1>a DEF TypeInv, Working, Untouched
<1>p. PICK p \in Plan : p = mover[o].plan
  BY MoverIs DEF TypeInv, Commands
<1>1. PICK state \in {"in_progress", "failed", "complete", "rolled_back"} :
        /\ save_transaction(b, state, p)
        /\ state = "rolled_back" <=> FinishRestore(o)
  BY <1>b, <1>p DEF RecordPlan, Complete, FailConsolidation, FinishRestore, InApply
<1>2. /\ UNCHANGED <<old, new, oldDir, newParent, original>>
      /\ mover[o].phase \notin Untouched /\ mover[o].phase # "idle"
  BY DEF RecordPlan, Complete, FailConsolidation, FinishRestore, InApply, layout, Rest, Settled, Untouched
<1>3. /\ b \in Backups /\ transaction[b] # None /\ consolidationLock = o
      /\ p \in Plan /\ state \in States
  BY <1>2, <1>b DEF TypeInv, Working, Untouched, Unlocked, Commands, States
<1>4. /\ \A c \in Backups : c # b => transaction'[c] = transaction[c]
      /\ transaction'[b] # None
      /\ transaction'[b].state = state /\ transaction'[b].plan = p
      /\ transaction'[b].kept = transaction[b].kept
  BY <1>1, <1>3, SavedTransaction DEF TypeInv
<1>5. \A e \in Operations : /\ Keeps(b, e)' <=> Keeps(b, e)
                            /\ Keeps(b, e) => transaction'[b].kept[e] = transaction[b].kept[e]
  BY <1>3, <1>4 DEF Keeps
<1>6. /\ \A e \in Operations : Home(e)' \/ Renamed(e)' \/ SetAside(e)'
      /\ \A c \in Backups, e \in Operations : Keeps(c, e)' <=> Keeps(c, e)
  BY <1>2, <1>3, <1>4, <1>5, SamePlaces
<1>7. Recorded' = Recorded \cup {b}
  BY <1>1, <1>3, <1>4 DEF Recorded
<1>8. Pending' = IF state = "rolled_back" THEN Pending \ {b} ELSE Pending \cup {b}
  BY <1>4, <1>7 DEF Pending, Recorded
<1>9. /\ \A c \in Recorded \ {b} : Planned(c)' = Planned(c) /\ transaction'[c].plan = transaction[c].plan
      /\ Planned(b)' = PlannedOperations(p) /\ transaction'[b].plan = p
  BY <1>4 DEF Planned, Recorded
<1>10. Pending \subseteq Recorded /\ Recorded \subseteq Backups /\ PlannedOperations(p) \subseteq Operations
       /\ \A c : Planned(c) \subseteq Operations
  BY DEF Pending, Recorded, Planned, PlannedOperations
<1>11. \A q : PlanFits(q)' <=> PlanFits(q)
  BY <1>2 DEF PlanFits, was, twinWas
<1>12. CASE mover[o].phase = "made"
  <2>1. transaction[b].state = "none" /\ state # "rolled_back"
    BY <1>1, <1>12, <1>b DEF TypeInv, Working, FinishRestore
  <2>2. b \notin Recorded /\ Pending' = Pending \cup {b}
    BY <1>8, <2>1 DEF Recorded
  <2>3. p = consolidation_plan
    BY <1>12, <1>p DEF Sees
  <2>4. PlanFits(p) /\ \A e \in PlannedOperations(p) : \A c \in Backups : ~Keeps(c, e)
    BY <2>3, PlanFitsNow DEF TypeInv
  <2>5. \A e \in Operations : ~Keeps(b, e)
    BY <1>3, <1>10, <2>2 DEF Undisturbed
  <2>6. SomeIsLast'
    <3> SUFFICES ASSUME NEW S \in SUBSET (Pending \cup {b}), S # {}
                 PROVE  \E d \in S : \A c \in S \ {d} : \A e \in Planned(d)' : ~Keeps(c, e)'
      BY <2>2 DEF SomeIsLast
    <3>1. CASE S \subseteq {b}
      BY <3>1
    <3>2. CASE ~(S \subseteq {b})
      <4>1. S \ {b} \in SUBSET Pending /\ S \ {b} # {}
        BY <3>2
      <4>2. PICK d \in S \ {b} : \A c \in (S \ {b}) \ {d} : \A e \in Planned(d) : ~Keeps(c, e)
        BY <4>1 DEF Undisturbed, SomeIsLast
      <4>3. \A c \in S \ {d} : \A e \in Planned(d) : ~Keeps(c, e)
        BY <1>10, <2>5, <4>2
      <4>4. Planned(d)' = Planned(d)
        BY <1>9, <1>10, <4>1
      <4> QED
        BY <1>3, <1>6, <1>10, <4>3, <4>4
    <3> QED
      BY <3>1, <3>2
  <2>7. \A c \in Pending : Planned(c)' = Planned(c) /\ transaction'[c].plan = transaction[c].plan
    BY <1>9, <1>10, <2>2
  <2>8. /\ \A e \in Operations : old[e] # was[e] => \E c \in Pending' : e \in Planned(c)'
        /\ oldDir # original[3] => \E c \in Pending' : transaction'[c].plan.merge
        /\ newParent # original[4] => \E c \in Pending' : transaction'[c].plan.create
    BY <2>2, <2>7 DEF Undisturbed
  <2>9. \A c \in Backups, e \in Operations : Keeps(c, e)' => c \in Pending' /\ e \in Planned(c)'
    BY <1>6, <2>2, <2>7 DEF Undisturbed
  <2>10. \A c \in Recorded' : PlanFits(transaction[c].plan)'
    BY <1>7, <1>9, <1>11, <2>4 DEF Undisturbed
  <2>11. Undisturbed'
    BY <1>2, <1>6, <2>6, <2>8, <2>9, <2>10 DEF Undisturbed, was
  <2>12. CASE RecordPlan(o)
    <3>1. Becomes(o, "creating", b, p, mover[o].todo)
      BY <2>12, <1>b, <1>p, MoverAtIs DEF RecordPlan, TypeInv, MoverPhases
    <3>2. Sees(o)'
      BY <1>3, <1>6, <1>10, <2>4, <3>1 DEF Becomes, Sees, Applying, Restoring
    <3> QED
      BY <1>3, <2>11, <3>1, <3>2, OthersSee
  <2>13. CASE FailConsolidation(o)
    <3>1. Becomes(o, "idle", None, EmptyPlan, {})
      BY <2>13, IdleIs DEF FailConsolidation, TypeInv
    <3>2. Sees(o)'
      BY <3>1 DEF Becomes, Sees, Applying, Restoring
    <3> QED
      BY <1>3, <2>11, <3>1, <3>2, OthersSee
  <2> QED
    BY <1>12, <2>12, <2>13 DEF Complete, FinishRestore
<1>13. CASE mover[o].phase # "made"
  <2>1. Becomes(o, "idle", None, EmptyPlan, {})
    BY <1>13, IdleIs DEF RecordPlan, Complete, FailConsolidation, FinishRestore, TypeInv
  <2>2. Sees(o)'
    BY <2>1 DEF Becomes, Sees, Applying, Restoring
  <2>3. mover[o].phase \in Applying \cup Restoring /\ (mover[o].phase \in Applying \/ FinishRestore(o))
    BY <1>13 DEF RecordPlan, Complete, FailConsolidation, FinishRestore, InApply, Applying, Restoring
  <2>4. /\ b \in Recorded /\ transaction[b].plan = p
        /\ mover[o].phase \in Applying => b \in Pending
    BY <2>3, <1>b, <1>p, FollowedPlan
  <2>5. /\ \A c \in Recorded : transaction'[c].plan = transaction[c].plan
        /\ \A c \in Recorded : Planned(c)' = Planned(c)
        /\ Recorded' = Recorded
    BY <1>7, <1>9, <2>4 DEF Planned
  <2>6. CASE ~FinishRestore(o)
    <3>1. Pending' = Pending
      BY <1>1, <1>8, <2>3, <2>4, <2>6
    <3>2. Undisturbed'
      BY <1>2, <1>6, <2>5, <3>1, SamePending
    <3> QED
      BY <1>3, <2>1, <2>2, <3>2, OthersSee
  <2>7. CASE FinishRestore(o)
    <3>1. Pending' = Pending \ {b} /\ mover[o].phase = "removing"
      BY <1>1, <1>8, <2>7 DEF FinishRestore
    <3>2. /\ \A e \in PlannedOperations(p) : old[e] = was[e]
          /\ p.merge => oldDir
          /\ p.create => ~newParent
      <4>1. Sees(o)
        OBVIOUS
      <4> QED
        BY <3>1, <4>1, <1>p DEF Sees, Restoring
    <3>3. PlanFits(p)
      BY <2>4 DEF Undisturbed
    <3>4. Planned(b) = PlannedOperations(p)
      BY <2>4 DEF Planned
    <3>5. \A e \in Operations : ~Keeps(b, e)
      <4> SUFFICES ASSUME NEW e \in Operations, Keeps(b, e) PROVE FALSE
        OBVIOUS
      <4>1. e \in PlannedOperations(p)
        BY <1>3, <3>4 DEF Undisturbed
      <4>2. old[e] # None
        BY <3>2, <3>3, <4>1 DEF PlanFits
      <4> QED
        BY <1>3, <4>2 DEF Undisturbed, Home, Renamed, SetAside
    <3>6. SomeIsLast'
      <4> SUFFICES ASSUME NEW S \in SUBSET (Pending \ {b}), S # {}
                   PROVE  \E d \in S : \A c \in S \ {d} : \A e \in Planned(d)' : ~Keeps(c, e)'
        BY <3>1 DEF SomeIsLast
      <4>1. PICK d \in S : \A c \in S \ {d} : \A e \in Planned(d) : ~Keeps(c, e)
        BY DEF Undisturbed, SomeIsLast
      <4> QED
        BY <1>6, <1>10, <2>5, <4>1
    <3>7. \A e \in Operations : old[e] # was[e] => \E c \in Pending' : e \in Planned(c)'
      BY <1>10, <2>5, <3>1, <3>2, <3>4 DEF Undisturbed
    <3>8. /\ oldDir \in BOOLEAN /\ newParent \in BOOLEAN /\ original[3] \in BOOLEAN
          /\ original[4] \in BOOLEAN
      BY DEF TypeInv, ConsolidationTypeOK
    <3>9. oldDir # original[3] => \E c \in Pending' : transaction'[c].plan.merge
      <4>1. oldDir # original[3] => ~p.merge
        BY <3>2, <3>3, <3>8 DEF PlanFits
      <4> QED
        BY <1>10, <2>4, <2>5, <3>1, <4>1 DEF Undisturbed
    <3>10. newParent # original[4] => \E c \in Pending' : transaction'[c].plan.create
      <4>1. newParent # original[4] => ~p.create
        BY <3>2, <3>3, <3>8 DEF PlanFits
      <4> QED
        BY <1>10, <2>4, <2>5, <3>1, <4>1 DEF Undisturbed
    <3>11. \A c \in Backups, e \in Operations : Keeps(c, e)' => c \in Pending' /\ e \in Planned(c)'
      BY <1>6, <1>10, <2>5, <3>1, <3>5 DEF Undisturbed
    <3>12. \A c \in Recorded' : PlanFits(transaction[c].plan)'
      BY <1>11, <2>5 DEF Undisturbed
    <3>13. Undisturbed'
      BY <1>2, <1>6, <3>6, <3>7, <3>9, <3>10, <3>11, <3>12 DEF Undisturbed, was
    <3> QED
      BY <1>3, <2>1, <2>2, <3>13, OthersSee
  <2> QED
    BY <2>6, <2>7
<1> QED
  BY <1>12, <1>13

(***************************************************************************)
(* Entries moved and moved back.                                           *)
(***************************************************************************)
LEMMA PlansStay ==
  ASSUME TypeInv, NEW o \in Movers, NEW e \in Operations, MoveOperation(o, e) \/ RestoreOperation(o, e),
         NEW b \in Backups, b = mover[o].backup, NEW p \in Plan, p = mover[o].plan
  PROVE  LET v == IF MoveOperation(o, e) THEN old[e] ELSE None IN
         /\ UNCHANGED <<Recorded, Pending, oldDir, newParent, original>>
         /\ \A c \in Recorded : transaction'[c].plan = transaction[c].plan
         /\ \A c \in Backups : c # b => transaction'[c] = transaction[c]
         /\ transaction[b] # None /\ transaction'[b] # None
         /\ IF p.move[e] # None
              THEN transaction' = transaction
              ELSE transaction'[b].kept = [transaction[b].kept EXCEPT ![e] = v]
<1> DEFINE v == IF MoveOperation(o, e) THEN old[e] ELSE None
<1>1. /\ mover[o].phase \in Applying \cup Restoring
      /\ UNCHANGED <<oldDir, newParent, original>>
      /\ MoveOperation(o, e) <=> mover[o].phase \in Applying
  BY DEF MoveOperation, RestoreOperation, Rest, Settled, Applying, Restoring
<1>2. transaction[b] # None
  BY <1>1 DEF TypeInv, Working, Untouched, Applying, Restoring
<1>3. IF p.move[e] # None THEN transaction' = transaction
                          ELSE transaction' = [transaction EXCEPT ![b].kept[e] = v]
  BY <1>1 DEF MoveOperation, RestoreOperation, Applying, Restoring
<1>4. v \in Fingerprints \cup {None}
  BY DEF TypeInv, ConsolidationTypeOK, Slots
<1> HIDE DEF v
<1>5. CASE p.move[e] # None
  BY <1>1, <1>2, <1>3, <1>5 DEF Recorded, Pending, v
<1>6. CASE ~(p.move[e] # None)
  <2>1. /\ \A c \in Backups : c # b => transaction'[c] = transaction[c]
        /\ transaction'[b] # None
        /\ transaction'[b].state = transaction[b].state /\ transaction'[b].plan = transaction[b].plan
        /\ transaction'[b].kept = [transaction[b].kept EXCEPT ![e] = v]
    <3>1. transaction' = [transaction EXCEPT ![b].kept[e] = v]
      BY <1>3, <1>6
    <3>2. SetsAside(b, e, v)
      BY <3>1 DEF SetsAside
    <3> QED
      BY <1>2, <1>4, <3>2, KeptTransaction DEF TypeInv
  <2>2. Recorded' = Recorded
    BY <1>2, <2>1 DEF Recorded
  <2>3. Pending' = Pending
    BY <2>1, <2>2 DEF Pending, Recorded
  <2>4. \A c \in Recorded : transaction'[c].plan = transaction[c].plan
    BY <2>1 DEF Recorded
  <2> QED
    BY <1>1, <1>2, <1>6, <2>1, <2>2, <2>3, <2>4 DEF v
<1> QED
  BY <1>5, <1>6

\* The places of the other entries.
LEMMA OtherPlaces ==
  ASSUME Undisturbed, UNCHANGED original, NEW f \in Operations,
         old'[f] = old[f], new'[f] = new[f],
         \A c \in Backups : Keeps(c, f)' <=> Keeps(c, f),
         \A c \in Backups : Keeps(c, f) => transaction'[c].kept[f] = transaction[c].kept[f]
  PROVE  Home(f)' \/ Renamed(f)' \/ SetAside(f)'
<1>1. CASE Home(f)
  BY <1>1 DEF Home, was, twinWas
<1>2. CASE Renamed(f)
  BY <1>2 DEF Renamed, was, twinWas
<1>3. CASE SetAside(f)
  BY <1>3 DEF SetAside, was, twinWas
<1> QED
  BY <1>1, <1>2, <1>3 DEF Undisturbed

\* What one transaction keeps of one entry is all that changes.
LEMMA KeepsAfter ==
  ASSUME TypeInv, NEW o \in Movers, NEW e \in Operations, MoveOperation(o, e) \/ RestoreOperation(o, e),
         NEW b \in Backups, b = mover[o].backup, NEW p \in Plan, p = mover[o].plan
  PROVE  /\ \A c \in Backups, f \in Operations :
              (c # b \/ f # e \/ p.move[e] # None) =>
                /\ Keeps(c, f)' <=> Keeps(c, f)
                /\ Keeps(c, f) => transaction'[c].kept[f] = transaction[c].kept[f]
         /\ p.move[e] = None =>
              transaction'[b].kept[e] = IF MoveOperation(o, e) THEN old[e] ELSE None
         /\ transaction[b] # None /\ transaction'[b] # None
<1> DEFINE v == IF MoveOperation(o, e) THEN old[e] ELSE None
<1>1. /\ \A c \in Backups : c # b => transaction'[c] = transaction[c]
      /\ transaction[b] # None /\ transaction'[b] # None
      /\ IF p.move[e] # None THEN transaction' = transaction
                             ELSE transaction'[b].kept = [transaction[b].kept EXCEPT ![e] = v]
  BY PlansStay
<1>2. transaction[b].kept \in Slots
  BY <1>1 DEF TypeInv, ConsolidationTypeOK, Transactions
<1> HIDE DEF v
<1>3. CASE p.move[e] # None
  BY <1>1, <1>3 DEF Keeps
<1>4. CASE p.move[e] = None
  <2>1. transaction'[b].kept = [transaction[b].kept EXCEPT ![e] = v]
    BY <1>1, <1>4
  <2>2. /\ \A f \in Operations : f # e => transaction'[b].kept[f] = transaction[b].kept[f]
        /\ transaction'[b].kept[e] = v
    BY <1>2, <2>1 DEF Slots
  <2> QED
    BY <1>1, <1>4, <2>2 DEF Keeps, v
<1> QED
  BY <1>3, <1>4

LEMMA MoveSees ==
  ASSUME TypeInv, Undisturbed, \A r \in Movers : Sees(r), NEW o \in Movers, NEW e \in Operations,
         MoveOperation(o, e)
  PROVE  Undisturbed' /\ \A r \in Movers : Sees(r)'
<1>1. mover[o].phase \in Applying /\ e \in mover[o].todo /\ old[e] # None
  BY DEF MoveOperation, TurnOf, Applying
<1>2. PICK b \in Backups : b = mover[o].backup
  BY <1>1 DEF TypeInv, Working, Applying
<1>3. PICK p \in Plan : p = mover[o].plan
  BY MoverIs DEF TypeInv, Commands
<1>4. /\ b \in Pending /\ transaction[b].plan = p /\ PlanFits(p) /\ consolidationLock = o
      /\ e \in PlannedOperations(p) /\ Planned(b) = PlannedOperations(p)
  BY <1>1, <1>2, <1>3, FollowedPlan DEF Planned
<1>5. /\ UNCHANGED <<Recorded, Pending, oldDir, newParent, original>>
      /\ \A c \in Recorded : transaction'[c].plan = transaction[c].plan
  BY <1>2, <1>3, PlansStay
<1>6. /\ \A c \in Backups, f \in Operations :
           (c # b \/ f # e \/ p.move[e] # None) =>
             /\ Keeps(c, f)' <=> Keeps(c, f)
             /\ Keeps(c, f) => transaction'[c].kept[f] = transaction[c].kept[f]
      /\ p.move[e] = None => transaction'[b].kept[e] = old[e]
      /\ transaction'[b] # None
  BY <1>2, <1>3, KeepsAfter
<1>7. Home(e)
  BY <1>1 DEF Undisturbed, Renamed, SetAside
<1>8. /\ old' = [old EXCEPT ![e] = None]
      /\ new' = IF p.move[e] # None THEN [new EXCEPT ![e] = old[e]] ELSE new
  BY <1>3 DEF MoveOperation
<1>9. /\ old'[e] = None /\ \A f \in Operations : f # e => old'[f] = old[f]
      /\ new'[e] = (IF p.move[e] # None THEN old[e] ELSE new[e])
      /\ \A f \in Operations : f # e => new'[f] = new[f]
  BY <1>8 DEF TypeInv, ConsolidationTypeOK, Slots
<1>10. \A d \in Backups \ {b} : \A f \in PlannedOperations(p) : ~Keeps(d, f)
  BY <1>1, <1>2, <1>3 DEF Sees
<1>11. Renamed(e)' \/ SetAside(e)'
  <2>1. /\ old[e] = was[e] /\ new[e] = twinWas[e] /\ \A c \in Backups : ~Keeps(c, e)
        /\ was[e] # None /\ (p.move[e] # None <=> twinWas[e] = None)
    BY <1>1, <1>4, <1>7 DEF Home, PlanFits
  <2>2. was' = was /\ twinWas' = twinWas
    BY <1>5 DEF was, twinWas
  <2>3. CASE p.move[e] # None
    BY <1>6, <1>9, <2>1, <2>2, <2>3 DEF Renamed
  <2>4. CASE p.move[e] = None
    <3>1. Keeps(b, e)' /\ transaction'[b].kept[e] = was[e]
      BY <1>6, <2>1, <2>4 DEF Keeps
    <3>2. \A c \in Backups : Keeps(c, e)' => c = b
      BY <1>6, <2>1
    <3> QED
      BY <1>9, <2>1, <2>2, <2>4, <3>1, <3>2 DEF SetAside
  <2> QED
    BY <2>3, <2>4
<1>12. ASSUME NEW f \in Operations PROVE Home(f)' \/ Renamed(f)' \/ SetAside(f)'
  BY <1>5, <1>6, <1>9, <1>11, OtherPlaces
<1>13. /\ \A c \in Recorded : Planned(c)' = Planned(c)
       /\ Pending \subseteq Recorded /\ Recorded \subseteq Backups
       /\ \A c : Planned(c) \subseteq Operations
  BY <1>5 DEF Planned, Pending, Recorded, PlannedOperations
<1>14. SomeIsLast'
  <2> SUFFICES ASSUME NEW S \in SUBSET Pending, S # {}
               PROVE  \E d \in S : \A c \in S \ {d} : \A f \in Planned(d)' : ~Keeps(c, f)'
    BY <1>5 DEF SomeIsLast
  <2>1. CASE b \in S
    <3>1. \A c \in S \ {b} : \A f \in Planned(b)' : ~Keeps(c, f)'
      BY <1>4, <1>6, <1>10, <1>13
    <3> QED
      BY <2>1, <3>1
  <2>2. CASE b \notin S
    <3>1. PICK d \in S : \A c \in S \ {d} : \A f \in Planned(d) : ~Keeps(c, f)
      BY DEF Undisturbed, SomeIsLast
    <3>2. \A c \in S \ {d} : \A f \in Planned(d)' : ~Keeps(c, f)'
      BY <1>6, <1>13, <2>2, <3>1
    <3> QED
      BY <3>2
  <2> QED
    BY <2>1, <2>2
<1>15. \A c \in Backups, f \in Operations : Keeps(c, f)' => c \in Pending' /\ f \in Planned(c)'
  BY <1>4, <1>5, <1>6, <1>13 DEF Undisturbed
<1>16. \A f \in Operations : old'[f] # was'[f] => \E c \in Pending' : f \in Planned(c)'
  <2>1. was' = was
    BY <1>5 DEF was
  <2>2. e \in Planned(b)' /\ b \in Pending'
    BY <1>4, <1>5, <1>13
  <2>3. ASSUME NEW f \in Operations, f # e, old'[f] # was[f] PROVE \E c \in Pending' : f \in Planned(c)'
    <3>1. PICK c \in Pending : f \in Planned(c)
      BY <1>9, <2>3 DEF Undisturbed
    <3> QED
      BY <1>5, <1>13, <3>1
  <2> QED
    BY <2>1, <2>2, <2>3
<1>17. \A q : PlanFits(q)' <=> PlanFits(q)
  BY <1>5 DEF PlanFits, was, twinWas
<1>18. \A c \in Recorded' : PlanFits(transaction[c].plan)'
  BY <1>5, <1>17 DEF Undisturbed
<1>19. /\ oldDir # original[3] => \E c \in Pending' : transaction'[c].plan.merge
       /\ newParent # original[4] => \E c \in Pending' : transaction'[c].plan.create
  BY <1>5, <1>13 DEF Undisturbed
<1>20. Undisturbed'
  BY <1>5, <1>12, <1>14, <1>15, <1>16, <1>18, <1>19 DEF Undisturbed
<1>21. Becomes(o, "moved", b, p, mover[o].todo)
  BY <1>2, <1>3, MoveType
<1>22. Sees(o)'
  BY <1>6, <1>10, <1>21 DEF Becomes, Sees, Applying, Restoring, PlannedOperations
<1> QED
  BY <1>4, <1>20, <1>21, <1>22, OthersSee

LEMMA RestoreSees ==
  ASSUME TypeInv, Undisturbed, \A r \in Movers : Sees(r), NEW o \in Movers, NEW e \in Operations,
         RestoreOperation(o, e)
  PROVE  Undisturbed' /\ \A r \in Movers : Sees(r)'
<1>1. mover[o].phase \in {"restoring", "back_looked"} /\ e \in mover[o].todo
  BY DEF RestoreOperation, TurnBackOf
<1>2. PICK b \in Backups : b = mover[o].backup
  BY <1>1 DEF TypeInv, Working
<1>3. PICK p \in Plan : p = mover[o].plan
  BY MoverIs DEF TypeInv, Commands
<1>4. /\ b \in Recorded /\ transaction[b].plan = p /\ PlanFits(p) /\ consolidationLock = o
      /\ e \in PlannedOperations(p)
  BY <1>1, <1>2, <1>3, FollowedPlan DEF Restoring
<1>5. /\ UNCHANGED <<Recorded, Pending, oldDir, newParent, original>>
      /\ \A c \in Recorded : transaction'[c].plan = transaction[c].plan
  BY <1>2, <1>3, PlansStay
<1>6. ~MoveOperation(o, e)
  BY <1>1 DEF MoveOperation
<1>7. /\ \A c \in Backups, f \in Operations :
           (c # b \/ f # e \/ p.move[e] # None) =>
             /\ Keeps(c, f)' <=> Keeps(c, f)
             /\ Keeps(c, f) => transaction'[c].kept[f] = transaction[c].kept[f]
      /\ p.move[e] = None => transaction'[b].kept[e] = None
      /\ transaction[b] # None
  BY <1>2, <1>3, <1>6, KeepsAfter
<1>8. /\ old' = [old EXCEPT ![e] = Displaced(b, e)] /\ Displaced(b, e) # None
      /\ new' = IF p.move[e] # None THEN [new EXCEPT ![e] = None] ELSE new
  BY <1>2, <1>3 DEF RestoreOperation
<1>9. /\ old'[e] = Displaced(b, e) /\ \A f \in Operations : f # e => old'[f] = old[f]
      /\ new'[e] = (IF p.move[e] # None THEN None ELSE new[e])
      /\ \A f \in Operations : f # e => new'[f] = new[f]
  BY <1>8 DEF TypeInv, ConsolidationTypeOK, Slots
<1>10. was' = was /\ twinWas' = twinWas
  BY <1>5 DEF was, twinWas
<1>11. Home(e)' /\ old'[e] = was[e]
  <2>1. p.move[e] # None <=> twinWas[e] = None
    BY <1>4 DEF PlanFits
  <2>2. CASE p.move[e] # None
    <3>1. Displaced(b, e) = new[e] /\ new[e] # None
      BY <1>4, <1>8, <2>2 DEF Displaced
    <3>2. Renamed(e)
      BY <2>1, <2>2, <3>1 DEF Undisturbed, Home, SetAside
    <3> QED
      BY <1>7, <1>9, <1>10, <2>1, <2>2, <3>1, <3>2 DEF Renamed, Home
  <2>3. CASE p.move[e] = None
    <3>1. Displaced(b, e) = transaction[b].kept[e] /\ Keeps(b, e)
      BY <1>4, <1>7, <1>8, <2>3 DEF Displaced, Keeps
    <3>2. SetAside(e)
      BY <3>1 DEF Undisturbed, Home, Renamed
    <3>3. \A c \in Backups : ~Keeps(c, e)'
      <4>1. ~Keeps(b, e)'
        BY <1>7, <2>3 DEF Keeps
      <4>2. \A c \in Backups : c # b => ~Keeps(c, e)
        BY <3>1, <3>2 DEF SetAside
      <4> QED
        BY <1>7, <4>1, <4>2
    <3>4. old'[e] = was[e] /\ new'[e] = twinWas[e]
      BY <1>9, <2>3, <3>1, <3>2 DEF SetAside
    <3> QED
      BY <1>10, <3>3, <3>4 DEF Home
  <2> QED
    BY <2>2, <2>3
<1>12. ASSUME NEW f \in Operations PROVE Home(f)' \/ Renamed(f)' \/ SetAside(f)'
  BY <1>5, <1>7, <1>9, <1>11, OtherPlaces
<1>13. /\ \A c \in Recorded : Planned(c)' = Planned(c)
       /\ Pending \subseteq Recorded /\ Recorded \subseteq Backups
       /\ \A c : Planned(c) \subseteq Operations
  BY <1>5 DEF Planned, Pending, Recorded, PlannedOperations
<1>14. \A c \in Backups, f \in Operations : Keeps(c, f)' => Keeps(c, f)
  <2>1. p.move[e] = None => ~Keeps(b, e)'
    BY <1>7 DEF Keeps
  <2> QED
    BY <1>7, <2>1
<1>15. SomeIsLast'
  <2> SUFFICES ASSUME NEW S \in SUBSET Pending, S # {}
               PROVE  \E d \in S : \A c \in S \ {d} : \A f \in Planned(d)' : ~Keeps(c, f)'
    BY <1>5 DEF SomeIsLast
  <2>1. PICK d \in S : \A c \in S \ {d} : \A f \in Planned(d) : ~Keeps(c, f)
    BY DEF Undisturbed, SomeIsLast
  <2>2. \A c \in S \ {d} : \A f \in Planned(d)' : ~Keeps(c, f)'
    BY <1>13, <1>14, <2>1
  <2> QED
    BY <2>2
<1>16. \A c \in Backups, f \in Operations : Keeps(c, f)' => c \in Pending' /\ f \in Planned(c)'
  BY <1>5, <1>13, <1>14 DEF Undisturbed
<1>17. \A f \in Operations : old'[f] # was'[f] => \E c \in Pending' : f \in Planned(c)'
  <2>1. ASSUME NEW f \in Operations, f # e, old'[f] # was[f] PROVE \E c \in Pending' : f \in Planned(c)'
    <3>1. PICK c \in Pending : f \in Planned(c)
      BY <1>9, <2>1 DEF Undisturbed
    <3> QED
      BY <1>5, <1>13, <3>1
  <2> QED
    BY <1>10, <1>11, <2>1
<1>18. \A q : PlanFits(q)' <=> PlanFits(q)
  BY <1>5 DEF PlanFits, was, twinWas
<1>19. \A c \in Recorded' : PlanFits(transaction[c].plan)'
  BY <1>5, <1>18 DEF Undisturbed
<1>20. /\ oldDir # original[3] => \E c \in Pending' : transaction'[c].plan.merge
       /\ newParent # original[4] => \E c \in Pending' : transaction'[c].plan.create
  BY <1>5, <1>13 DEF Undisturbed
<1>21. Undisturbed'
  BY <1>5, <1>12, <1>15, <1>16, <1>17, <1>19, <1>20 DEF Undisturbed
<1>22. Becomes(o, "restored", b, p, mover[o].todo)
  BY <1>2, <1>3, RestoreType
<1>23. Sees(o)'
  <2>1. \A f \in PlannedOperations(p) \ mover[o].todo : old'[f] = was[f]
    <3>1. Sees(o)
      OBVIOUS
    <3> QED
      BY <1>1, <1>3, <1>9, <3>1 DEF Sees, Restoring, PlannedOperations
  <2>2. p.merge => oldDir
    <3>1. Sees(o)
      OBVIOUS
    <3> QED
      BY <1>1, <1>3, <3>1 DEF Sees, Restoring
  <2> QED
    BY <1>5, <1>10, <1>22, <2>1, <2>2 DEF Becomes, Sees, Applying, Restoring
<1> QED
  BY <1>4, <1>21, <1>22, <1>23, OthersSee

LEMMA LayoutStart == ConsolidationInit => LayoutInv
<1> SUFFICES ASSUME ConsolidationInit PROVE Undisturbed /\ \A o \in Movers : Sees(o)
  BY DEF LayoutInv
<1>1. \A b \in Backups : transaction[b] = None
  BY DEF ConsolidationInit
<1>2. Recorded = {} /\ Pending = {}
  BY <1>1 DEF Recorded, Pending
<1>3. \A e \in Operations : Home(e)
  BY <1>1 DEF ConsolidationInit, layout, Home, Keeps, was, twinWas
<1>4. oldDir = original[3] /\ newParent = original[4] /\ old = original[1]
  BY DEF ConsolidationInit, layout
<1>5. SomeIsLast
  BY <1>2 DEF SomeIsLast
<1>6. Undisturbed
  BY <1>1, <1>2, <1>3, <1>4, <1>5 DEF Undisturbed, Keeps, was
<1>7. \A o \in Movers : Sees(o)
  BY DEF ConsolidationInit, NoMove, Sees, Applying, Restoring
<1> QED
  BY <1>6, <1>7

\* No operator takes a backup, edits an entry or changes what the layout was.
LEMMA OperatorRests ==
  ASSUME NEW o, MoverStep(o)
  PROVE  UNCHANGED Settled
<1>1. ASSUME NEW b \in Backups, VerifyConsolidation(o, b) \/ LockToRestore(o, b) PROVE UNCHANGED Settled
  BY <1>1 DEF Rest, VerifyConsolidation, LockToRestore
<1>2. ASSUME NEW e \in Operations,
             \/ CheckOperation(o, e) \/ LookAtTarget(o, e) \/ MoveOperation(o, e)
             \/ ConfirmOperation(o, e) \/ LookAtOriginal(o, e) \/ RestoreOperation(o, e)
             \/ ConfirmRestore(o, e)
      PROVE  UNCHANGED Settled
  BY <1>2 DEF Rest, CheckOperation, LookAtTarget, MoveOperation, ConfirmOperation, LookAtOriginal,
              RestoreOperation, ConfirmRestore
<1>3. CASE LockAndRecheck(o) \/ RefuseConsolidation(o) \/ MakeTransaction(o) \/ RecordPlan(o)
           \/ CreateParents(o) \/ RemoveMerged(o) \/ Complete(o) \/ FailConsolidation(o)
           \/ CheckRestore(o) \/ RecreateMerged(o) \/ RemoveParents(o) \/ FinishRestore(o)
           \/ StopMover(o)
  BY <1>3 DEF Rest, LockAndRecheck, RefuseConsolidation, MakeTransaction, RecordPlan, CreateParents,
              RemoveMerged, Complete, FailConsolidation, CheckRestore, RecreateMerged,
              RemoveParents, FinishRestore, StopMover
<1> QED
  BY <1>1, <1>2, <1>3 DEF MoverStep

LEMMA LayoutNext == TypeInv /\ LayoutInv /\ [ConsolidationNext]_consolidationVars => LayoutInv'
<1> SUFFICES ASSUME TypeInv, LayoutInv, [ConsolidationNext]_consolidationVars, edits' = 0
             PROVE  Undisturbed' /\ \A o \in Movers : Sees(o)'
  BY DEF LayoutInv
<1>1. \A e \in Operations : ~Edit(e)
  BY DEF Edit, TypeInv, ConsolidationTypeOK
<1>2. edits' = edits
  <2>1. ASSUME NEW o \in Movers, MoverStep(o) PROVE edits' = edits
    BY <2>1, OperatorRests DEF Rest, Settled
  <2>2. ASSUME NEW b \in Backups, TakeBackup(b) PROVE edits' = edits
    BY <2>2 DEF TakeBackup
  <2>3. CASE UNCHANGED consolidationVars
    BY <2>3 DEF consolidationVars
  <2> QED
    BY <1>1, <2>1, <2>2, <2>3 DEF ConsolidationNext
<1>3. Undisturbed /\ \A o \in Movers : Sees(o)
  BY <1>2 DEF LayoutInv
<1>4. ASSUME NEW o \in Movers, MoverStep(o) PROVE Undisturbed' /\ \A r \in Movers : Sees(r)'
  <2>1. \/ \/ \E b \in Backups : VerifyConsolidation(o, b) \/ LockToRestore(o, b)
           \/ RefuseConsolidation(o) \/ StopMover(o) \/ LockAndRecheck(o)
           \/ \E e \in Operations : \/ CheckOperation(o, e) \/ LookAtTarget(o, e)
                                    \/ LookAtOriginal(o, e) \/ ConfirmOperation(o, e)
                                    \/ ConfirmRestore(o, e)
           \/ CheckRestore(o)
        \/ MakeTransaction(o)
        \/ RecordPlan(o) \/ Complete(o) \/ FailConsolidation(o) \/ FinishRestore(o)
        \/ CreateParents(o) \/ RemoveMerged(o) \/ RecreateMerged(o) \/ RemoveParents(o)
        \/ \E e \in Operations : MoveOperation(o, e) \/ RestoreOperation(o, e)
    BY <1>4 DEF MoverStep
  <2> QED
    BY <1>3, <2>1, ThinkingSees, MakeTransactionSees, SaveSees, DirectoriesSee, MoveSees, RestoreSees
<1>5. CASE (\E b \in Backups : TakeBackup(b)) \/ UNCHANGED consolidationVars
  <2>1. UNCHANGED <<old, new, oldDir, newParent, original, transaction, mover>>
    BY <1>5 DEF TakeBackup, consolidationVars, layout
  <2>2. consolidation_plan' = consolidation_plan
    BY <2>1 DEF consolidation_plan
  <2>3. \A b, e : Keeps(b, e)' <=> Keeps(b, e)
    BY <2>1 DEF Keeps
  <2>4. \A o \in Movers : Sees(o)'
    BY <1>3, <2>1, <2>2, <2>3 DEF Sees, was
  <2> QED
    BY <1>3, <2>1, <2>4, UndisturbedFrame
<1> QED
  BY <1>1, <1>4, <1>5 DEF ConsolidationNext

\* In an undisturbed layout the last of the pending transactions can be taken back.
LEMMA UndisturbedIsReversible ==
  ASSUME TypeInv, Undisturbed
  PROVE  IF Pending = {} THEN layout = original ELSE \E b \in Pending : Reversible(b)
<1>1. CASE Pending = {}
  <2>1. \A e \in Operations : old[e] = was[e]
    BY <1>1 DEF Undisturbed
  <2>2. \A e \in Operations : new[e] = twinWas[e]
    BY <2>1 DEF Undisturbed, Home, Renamed, SetAside
  <2>3. oldDir = original[3] /\ newParent = original[4]
    BY <1>1 DEF Undisturbed
  <2>4. old = original[1] /\ new = original[2]
    BY <2>1, <2>2 DEF TypeInv, ConsolidationTypeOK, Slots, was, twinWas
  <2>5. original = <<original[1], original[2], original[3], original[4]>>
    BY DEF TypeInv, ConsolidationTypeOK
  <2> QED
    BY <1>1, <2>3, <2>4, <2>5 DEF layout
<1>2. CASE Pending # {}
  <2>1. PICK b \in Pending : \A c \in Pending \ {b} : \A e \in Planned(b) : ~Keeps(c, e)
    BY <1>2 DEF Undisturbed, SomeIsLast
  <2>2. b \in Backups /\ b \in Recorded /\ transaction[b] # None
    BY DEF Pending, Recorded
  <2>3. PlanFits(transaction[b].plan)
    BY <2>2 DEF Undisturbed
  <2>4. \A c \in Backups : \A e \in Planned(b) : Keeps(c, e) => c = b
    BY <2>1 DEF Undisturbed, Planned, PlannedOperations
  <2>5. ASSUME NEW e \in PlannedOperations(transaction[b].plan) PROVE InPlace(b, e) \/ Moved(b, e)
    <3>1. /\ e \in Operations /\ e \in Planned(b)
          /\ was[e] # None /\ Source(transaction[b].plan, e) = was[e]
          /\ transaction[b].plan.move[e] # None <=> twinWas[e] = None
      BY <2>3 DEF PlanFits, Planned, PlannedOperations
    <3>2. CASE Home(e)
      BY <2>2, <3>1, <3>2 DEF Home, Keeps, InPlace, Displaced
    <3>3. CASE Renamed(e)
      BY <3>1, <3>3 DEF Renamed, Moved, Displaced
    <3>4. CASE SetAside(e)
      <4>1. Keeps(b, e)
        BY <2>4, <3>1, <3>4 DEF SetAside
      <4> QED
        BY <2>2, <3>1, <3>4, <4>1 DEF SetAside, Moved, Displaced
    <3> QED
      BY <3>1, <3>2, <3>3, <3>4 DEF Undisturbed
  <2> QED
    BY <1>2, <2>5 DEF Reversible
<1> QED
  BY <1>1, <1>2

\* An idle source can be put back into its original layout, whatever crashed, was retried or was
\* taken back in another order.
THEOREM ConsolidationsAreReversible == ConsolidationSpec => []ConsolidationIsReversible
<1>1. TypeInv /\ LayoutInv => ConsolidationIsReversible
  BY UndisturbedIsReversible DEF LayoutInv, ConsolidationIsReversible
<1> QED
  BY <1>1, TypeStart, TypeStep, LayoutStart, LayoutNext, PTL DEF ConsolidationSpec
=============================================================================

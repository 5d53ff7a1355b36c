---------------------------- MODULE LiveLoopProofs ----------------------------
(***************************************************************************)
(* For any nodes, slots, page length, cooldown, pruning and faults: while  *)
(* a cycle of the controller runs, it tracks every Job that is open, the   *)
(* slots it counts are slots of the journal, and every variable keeps its  *)
(* type.                                                                   *)
(*                                                                         *)
(* CycleTracksEveryJob says nothing of the way into a cycle; what is       *)
(* needed there is that a controller that has resumed and found nothing to *)
(* watch starts its cycle with nothing open (ResumedIsClear).              *)
(***************************************************************************)
EXTENDS LiveLoop, FiniteSetTheorems, WellFoundedInduction, TLAPS

Fields == {"active", "submitted", "skipped", "idle", "slots", "plan", "checked", "queued", "page",
           "selected"}

\* As much of the types as the argument needs.
Shapes ==
  /\ job \in [Nodes -> JobStates] /\ phase \in Phases
  /\ cycle = [f \in Fields |-> cycle[f]]

ResumedIsClear == phase = "preflight" => Unfinished = {}

TrackInv == Shapes /\ ResumedIsClear /\ CycleTracksEveryJob

USE DEF Phases, InCycle, JobStates, Fields

LEMMA NewCycleIsACycle ==
  /\ NewCycle = [f \in Fields |-> NewCycle[f]] /\ NewCycle.active = {}
  BY DEF NewCycle

LEMMA InitTracks == LiveInit => TrackInv
  BY NewCycleIsACycle DEF LiveInit, TrackInv, Shapes, ResumedIsClear, CycleTracksEveryJob

-----------------------------------------------------------------------------
\* Whoever leaves the journal and the tracked nodes alone only has to mind where he goes.
LEMMA JournalUntouched ==
  ASSUME TrackInv, UNCHANGED job, phase' \in Phases, phase' # "preflight",
         cycle' = [f \in Fields |-> cycle'[f]],
         \/ phase' \notin InCycle /\ cycle'.active = {}
         \/ phase \in InCycle /\ cycle'.active = cycle.active
  PROVE  TrackInv'
<1> USE DEF TrackInv, Shapes
<1>1. Shapes' /\ ResumedIsClear'
  BY DEF ResumedIsClear
<1>2. CycleTracksEveryJob'
  BY DEF CycleTracksEveryJob, Unfinished
<1> QED
  BY <1>1, <1>2

\* An observation finishes the intents of ended Jobs, and stops tracking what has ended or is pruned.
LEMMA ObservationTracks ==
  ASSUME TrackInv, NEW then \in Phases \ {"preflight"}, Observed(then),
         then \in InCycle => phase = "observe"
  PROVE  TrackInv'
<1> USE DEF TrackInv, Shapes
<1>1. PICK S \in SUBSET Prunable :
        /\ job' = Delete(S) /\ phase' = then
        /\ cycle' = [cycle EXCEPT !.active = Tracked \ S, !.skipped = @ \cup S,
                                  !.slots = BATCH_SIZE - Cardinality(Tracked \ S)]
  BY DEF Observed, Pruned, Go
<1>2. cycle' = [f \in Fields |-> cycle'[f]] /\ cycle'.active = Tracked \ S
  BY <1>1
<1>4. job' \in [Nodes -> JobStates]
  BY <1>1 DEF Delete
<1>5. ASSUME phase = "observe", NEW n \in Nodes, job'[n] \notin {"none", "gone"}
      PROVE  n \in cycle'.active
  <2>1. n \notin S /\ n \notin Ended /\ job'[n] = job[n]
    BY <1>1, <1>5 DEF Delete
  <2>2. n \in cycle.active
    BY <1>5, <2>1 DEF CycleTracksEveryJob, Unfinished
  <2> QED
    BY <1>2, <1>5, <2>1, <2>2 DEF Tracked, Ended
<1>6. CycleTracksEveryJob'
  BY <1>1, <1>5 DEF CycleTracksEveryJob, Unfinished
<1> QED
  BY <1>1, <1>2, <1>4, <1>6 DEF ResumedIsClear

LEMMA IndeterminateTracks == ASSUME TrackInv, Indeterminate PROVE TrackInv'
<1>1. PICK S \in SUBSET Prunable : job' = Delete(S) /\ phase' = "idle" /\ cycle' = NewCycle
  BY DEF Indeterminate, Pruned, Go
<1>2. job' \in [Nodes -> JobStates]
  BY <1>1 DEF Delete, TrackInv, Shapes
<1> QED
  BY <1>1, <1>2, NewCycleIsACycle DEF TrackInv, Shapes, ResumedIsClear, CycleTracksEveryJob

\* What has left a cycle needs no tracking.
LEMMA IdleTracks ==
  ASSUME TrackInv, job' \in [Nodes -> JobStates], phase' = "idle", cycle' = NewCycle
  PROVE  TrackInv'
  BY NewCycleIsACycle DEF TrackInv, Shapes, ResumedIsClear, CycleTracksEveryJob

-----------------------------------------------------------------------------
LEMMA ControllerTracks == ASSUME TrackInv, Controller PROVE TrackInv'
<1> USE DEF TrackInv, Shapes, Go
<1>1. CASE WakeUp
  BY <1>1 DEF WakeUp, ResumedIsClear, CycleTracksEveryJob
<1>2. CASE resume_latest_cycle_if_needed
  <2>1. /\ cycle' = [f \in Fields |-> cycle'[f]] /\ cycle'.active = Unfinished \ Ended
        /\ job' = Keep(Ended) /\ phase' = IF Unfinished \subseteq Ended THEN "preflight" ELSE "watch"
    BY <1>2 DEF resume_latest_cycle_if_needed, NewCycle
  <2>2. job' \in [Nodes -> JobStates]
    BY <2>1 DEF Unfinished, Keep
  <2>3. ResumedIsClear'
    BY <2>1 DEF ResumedIsClear, Unfinished, Keep
  <2>4. CycleTracksEveryJob'
    BY <2>1 DEF CycleTracksEveryJob
  <2>5. Shapes'
    BY <2>1, <2>2
  <2> QED
    BY <2>3, <2>4, <2>5
<1>3. CASE WatchRetained
  <2>1. CASE Observed("watch")
    BY <2>1, ObservationTracks
  <2>2. CASE Indeterminate
    BY <2>2, IndeterminateTracks
  <2>3. CASE cycle.active = {} /\ cycle' = NewCycle /\ phase' = "idle" /\ UNCHANGED job
    BY <2>3, IdleTracks
  <2> QED
    BY <1>3, <2>1, <2>2, <2>3 DEF WatchRetained
<1>4. CASE Preflight
  <2>1. /\ phase = "preflight" /\ cycle' = NewCycle /\ UNCHANGED job
        /\ phase' \in {"idle", "observe"}
    BY <1>4 DEF Preflight
  <2>2. Unfinished' = {}
    BY <2>1 DEF ResumedIsClear, Unfinished
  <2> QED
    BY <2>1, <2>2, NewCycleIsACycle DEF ResumedIsClear, CycleTracksEveryJob, Unfinished
<1>5. CASE ObserveCycle
  <2>1. CASE Observed("planning")
    BY <1>5, <2>1, ObservationTracks DEF ObserveCycle
  <2> QED
    BY <1>5, <2>1, IndeterminateTracks DEF ObserveCycle
<1>6. CASE NothingToObserve
  BY <1>6, JournalUntouched DEF NothingToObserve
<1>7. CASE BuildPlan
  BY <1>7, JournalUntouched DEF BuildPlan
<1>8. CASE CheckNode
  BY <1>8, JournalUntouched DEF CheckNode
<1>9. CASE SubmitNode
  <2> DEFINE n == cycle.selected
  <2>1. /\ phase = "submitting" /\ phase' = "planning" /\ Admissible(n)
        /\ job' = [job EXCEPT ![n] = "pending"]
        /\ cycle' = [f \in Fields |-> cycle'[f]] /\ cycle'.active = cycle.active \cup {n}
    BY <1>9 DEF SubmitNode
  <2> QED
    BY <2>1 DEF ResumedIsClear, CycleTracksEveryJob, Unfinished, Admissible
<1>10. CASE SubmissionEndsCycle
  BY <1>10, IdleTracks DEF SubmissionEndsCycle
<1>11. CASE NoneSelected
  BY <1>11, JournalUntouched, NewCycleIsACycle DEF NoneSelected, EndOrPoll
<1>12. CASE SlotsAreFull
  BY <1>12, JournalUntouched, NewCycleIsACycle DEF SlotsAreFull, EndOrPoll
<1> QED
  BY <1>1, <1>2, <1>3, <1>4, <1>5, <1>6, <1>7, <1>8, <1>9, <1>10, <1>11, <1>12 DEF Controller

\* The rest of the world changes the state of open Jobs and opens none.
LEMMA WorldTracks ==
  ASSUME TrackInv, UNCHANGED <<phase, cycle>>, job' \in [Nodes -> JobStates],
         \A n \in Nodes : job[n] = "none" => job'[n] = "none",
         \A n \in Nodes : job[n] = "gone" => job'[n] = "none" \/ job'[n] = "gone"
  PROVE  TrackInv'
<1>1. Shapes'
  BY DEF TrackInv, Shapes
<1>2. ResumedIsClear'
  BY DEF TrackInv, ResumedIsClear, Unfinished
<1>3. job \in [Nodes -> JobStates] /\ CycleTracksEveryJob
  BY DEF TrackInv, Shapes
<1>4. CycleTracksEveryJob'
  <2> SUFFICES ASSUME phase \in InCycle, NEW n \in Nodes, job'[n] \notin {"none", "gone"}
               PROVE  n \in cycle.active
    BY <1>1 DEF CycleTracksEveryJob, Unfinished, Shapes
  <2>1. job[n] \notin {"none", "gone"}
    OBVIOUS
  <2> QED
    BY <1>3, <2>1 DEF CycleTracksEveryJob, Unfinished
<1> QED
  BY <1>1, <1>2, <1>4 DEF TrackInv

LEMMA StepTracks == ASSUME TrackInv, [LiveNext]_liveVars PROVE TrackInv'
<1> USE DEF TrackInv, Shapes
<1>1. CASE Controller
  BY <1>1, ControllerTracks
<1>2. CASE CycleDies
  BY <1>2, IdleTracks DEF CycleDies, Go
<1>3. CASE Expire
  BY <1>3, WorldTracks DEF Expire
<1>4. ASSUME NEW n \in Nodes, JobStarts(n) PROVE TrackInv'
  BY <1>4, WorldTracks DEF JobStarts
<1>5. ASSUME NEW n \in Nodes, NEW pass \in BOOLEAN, JobEnds(n, pass) PROVE TrackInv'
  BY <1>5, WorldTracks DEF JobEnds
<1>6. ASSUME NEW n \in Nodes, JobIsDeleted(n) PROVE TrackInv'
  BY <1>6, WorldTracks DEF JobIsDeleted
<1>7. ASSUME NEW n \in Nodes, Settle(n) PROVE TrackInv'
  BY <1>7, WorldTracks DEF Settle
<1>8. ASSUME NEW n \in Nodes, Occupy(n) \/ Vacate(n) \/ CooldownEnds(n) PROVE TrackInv'
  BY <1>8, WorldTracks DEF Occupy, Vacate, CooldownEnds
<1>9. CASE UNCHANGED liveVars
  BY <1>9, WorldTracks DEF liveVars
<1> QED
  BY <1>1, <1>2, <1>3, <1>4, <1>5, <1>6, <1>7, <1>8, <1>9 DEF LiveNext

\* The controller's invariant: shapes, a clear start of each cycle, and the property below.
THEOREM TrackInvariant == LiveSpec => []TrackInv
<1>1. LiveInit => TrackInv
  BY InitTracks
<1>2. TrackInv /\ [LiveNext]_liveVars => TrackInv'
  BY StepTracks
<1> QED
  BY <1>1, <1>2, PTL DEF LiveSpec

\* While a cycle of run_submit_cycle runs, it tracks every open Job of the journal except those
\* that are gone, whatever an earlier life of the controller has left and however it ended.
THEOREM CyclesTrack == LiveSpec => []CycleTracksEveryJob
<1>1. TrackInv => CycleTracksEveryJob
  BY DEF TrackInv
<1> QED
  BY <1>1, TrackInvariant, PTL

-----------------------------------------------------------------------------
(***************************************************************************)
(* The slots of a cycle.  What is tracked and what is still open never     *)
(* exceed the batch together; that every open Job is tracked makes the     *)
(* count of the cycle one of the journal.                                  *)
(***************************************************************************)
Filling == {"planning", "checking", "submitting"}

SlotInv ==
  /\ IsFiniteSet(cycle.active)
  /\ phase \in Filling => cycle.slots \in Int /\ Cardinality(cycle.active) + cycle.slots <= BATCH_SIZE
  /\ phase \in {"checking", "submitting"} => cycle.slots > 0

LEMMA ObservationCounts ==
  ASSUME TrackInv, SlotInv, NEW then \in Phases \ {"checking", "submitting"}, Observed(then)
  PROVE  SlotInv'
<1>1. PICK S \in SUBSET Prunable :
        /\ phase' = then
        /\ cycle' = [cycle EXCEPT !.active = Tracked \ S, !.skipped = @ \cup S,
                                  !.slots = BATCH_SIZE - Cardinality(Tracked \ S)]
  BY DEF Observed, Go
<1>2. cycle'.active = Tracked \ S /\ cycle'.slots = BATCH_SIZE - Cardinality(Tracked \ S)
  BY <1>1 DEF TrackInv, Shapes
<1>3. IsFiniteSet(Tracked \ S)
  BY FS_Subset DEF SlotInv, Tracked
<1>4. Cardinality(Tracked \ S) \in Nat
  BY <1>3, FS_CardinalityType
<1> QED
  BY <1>1, <1>2, <1>3, <1>4, LiveBounds DEF SlotInv

\* Whoever submits nothing keeps the count or begins anew.
LEMMA CountKept ==
  ASSUME SlotInv,
         \/ phase' \notin Filling /\ cycle'.active \in {{}, cycle.active}
         \/ /\ phase \in Filling /\ cycle'.active = cycle.active /\ cycle'.slots = cycle.slots
            /\ phase' = "planning" \/ cycle.slots > 0
  PROVE  SlotInv'
<1>1. IsFiniteSet({})
  BY FS_EmptySet
<1> QED
  BY <1>1 DEF SlotInv, Filling

LEMMA StepCounts == ASSUME TrackInv, SlotInv, [LiveNext]_liveVars PROVE SlotInv'
<1> USE DEF Go
<1>0. cycle = [f \in Fields |-> cycle[f]] /\ phase \in Phases
  BY DEF TrackInv, Shapes
<1>1. CASE Controller
  <2>1. CASE WakeUp
    BY <2>1, CountKept DEF WakeUp, Filling
  <2>2. CASE resume_latest_cycle_if_needed
    <3>1. Unfinished \ Ended \subseteq Nodes /\ IsFiniteSet(Nodes)
      BY FS_Interval, LiveBounds DEF Unfinished, Nodes
    <3>2. cycle'.active = Unfinished \ Ended /\ phase' \in {"preflight", "watch"}
      BY <2>2 DEF resume_latest_cycle_if_needed, NewCycle
    <3> QED
      BY <3>1, <3>2, FS_Subset DEF SlotInv, Filling
  <2>3. CASE WatchRetained
    BY <2>3, CountKept, ObservationCounts, NewCycleIsACycle DEF WatchRetained, Indeterminate, Filling
  <2>4. CASE Preflight
    BY <2>4, CountKept, NewCycleIsACycle DEF Preflight, Filling
  <2>5. CASE ObserveCycle
    BY <2>5, CountKept, ObservationCounts, NewCycleIsACycle DEF ObserveCycle, Indeterminate, Filling
  <2>6. CASE NothingToObserve
    <3>1. cycle'.active = {} /\ cycle'.slots = BATCH_SIZE /\ phase' = "planning"
      BY <2>6, <1>0 DEF NothingToObserve
    <3> QED
      BY <3>1, FS_EmptySet, LiveBounds DEF SlotInv
  <2>7. CASE BuildPlan
    BY <2>7, <1>0, CountKept DEF BuildPlan, Filling
  <2>8. CASE CheckNode
    <3>1. /\ phase = "checking" /\ phase' \in Filling
          /\ cycle'.active = cycle.active /\ cycle'.slots = cycle.slots
      BY <2>8, <1>0 DEF CheckNode, Filling
    <3> QED
      BY <3>1, CountKept DEF SlotInv, Filling
  <2>9. CASE SubmitNode
    <3> DEFINE n == cycle.selected
    <3>1. /\ phase = "submitting" /\ phase' = "planning"
          /\ cycle'.active = cycle.active \cup {n} /\ cycle'.slots = cycle.slots - 1
      BY <2>9, <1>0 DEF SubmitNode
    <3>2. /\ IsFiniteSet(cycle.active \cup {n}) /\ Cardinality(cycle.active) \in Nat
          /\ Cardinality(cycle.active \cup {n}) \in Nat
          /\ Cardinality(cycle.active \cup {n}) <= Cardinality(cycle.active) + 1
      <4>1. IsFiniteSet(cycle.active)
        BY DEF SlotInv
      <4>2. /\ IsFiniteSet(cycle.active \cup {n})
            /\ \/ Cardinality(cycle.active \cup {n}) = Cardinality(cycle.active)
               \/ Cardinality(cycle.active \cup {n}) = Cardinality(cycle.active) + 1
        BY <4>1, FS_AddElement
      <4> QED
        BY <4>1, <4>2, FS_CardinalityType
    <3>3. cycle.slots \in Int /\ Cardinality(cycle.active) + cycle.slots <= BATCH_SIZE
      BY <3>1 DEF SlotInv, Filling
    <3> QED
      BY <3>1, <3>2, <3>3, LiveBounds DEF SlotInv
  <2>10. CASE SubmissionEndsCycle
    BY <2>10, CountKept, NewCycleIsACycle DEF SubmissionEndsCycle, Filling
  <2>11. CASE NoneSelected
    <3>1. phase = "checking"
      BY <2>11 DEF NoneSelected
    <3>2. \/ phase' = "planning" /\ cycle'.active = cycle.active /\ cycle'.slots = cycle.slots
          \/ phase' = "idle" /\ cycle'.active = {}
          \/ phase' = "observe" /\ cycle'.active = cycle.active
      BY <2>11, <1>0, NewCycleIsACycle DEF NoneSelected, EndOrPoll
    <3> QED
      BY <3>1, <3>2, CountKept DEF Filling
  <2>12. CASE SlotsAreFull
    <3>1. \/ phase' = "idle" /\ cycle'.active = {}
          \/ phase' = "observe" /\ cycle'.active = cycle.active
      BY <2>12, <1>0, NewCycleIsACycle DEF SlotsAreFull, EndOrPoll
    <3> QED
      BY <3>1, CountKept DEF Filling
  <2> QED
    BY <1>1, <2>1, <2>2, <2>3, <2>4, <2>5, <2>6, <2>7, <2>8, <2>9, <2>10, <2>11, <2>12 DEF Controller
<1>2. CASE CycleDies
  BY <1>2, CountKept, NewCycleIsACycle DEF CycleDies, Filling
<1>3. CASE UNCHANGED <<phase, cycle>>
  BY <1>3 DEF SlotInv
<1>4. Controller \/ CycleDies \/ UNCHANGED <<phase, cycle>>
  BY DEF LiveNext, liveVars, Expire, JobStarts, JobEnds, JobIsDeleted, Settle, Occupy, Vacate, CooldownEnds
<1> QED
  BY <1>1, <1>2, <1>3, <1>4

\* Whenever the loop calls cval run for a slot it counted, the journal has room in the batch,
\* unless a Job is gone without its intent being settled.
THEOREM SlotsAreInJournal == LiveSpec => []SlotsAreReal
<1>1. LiveInit => SlotInv
  BY NewCycleIsACycle, FS_EmptySet DEF LiveInit, SlotInv, Filling
<1>2. TrackInv /\ SlotInv => SlotsAreReal
  <2> SUFFICES ASSUME TrackInv, SlotInv, phase = "submitting", \A n \in Nodes : job[n] # "gone"
               PROVE  Cardinality(Unfinished) < BATCH_SIZE
    BY DEF SlotsAreReal
  <2>1. Unfinished \subseteq cycle.active
    BY DEF TrackInv, CycleTracksEveryJob, Unfinished
  <2>2. IsFiniteSet(cycle.active) /\ cycle.slots \in Int /\ cycle.slots > 0
        /\ Cardinality(cycle.active) + cycle.slots <= BATCH_SIZE
    BY DEF SlotInv, Filling
  <2>3. /\ Cardinality(Unfinished) <= Cardinality(cycle.active)
        /\ Cardinality(Unfinished) \in Nat /\ Cardinality(cycle.active) \in Nat
    BY <2>1, <2>2, FS_Subset, FS_CardinalityType
  <2> QED
    BY <2>2, <2>3, LiveBounds
<1>3. TrackInv /\ SlotInv /\ [LiveNext]_liveVars => SlotInv'
  BY StepCounts
<1> QED
  BY <1>1, <1>2, <1>3, TrackInvariant, PTL DEF LiveSpec
-----------------------------------------------------------------------------
(***************************************************************************)
(* Types.  That the slots of a cycle are a number from 0 to BATCH_SIZE     *)
(* needs the counts of above: neither the journal nor what is tracked is   *)
(* ever larger than the batch, and slots are open wherever one is taken.   *)
(***************************************************************************)
Cycles == [active : SUBSET Nodes, submitted : SUBSET Nodes, skipped : SUBSET Nodes,
           idle : BOOLEAN, slots : 0..BATCH_SIZE, plan : SUBSET Nodes, checked : SUBSET Nodes,
           queued : 0..LastNode, page : 0..LastNode, selected : Nodes \cup {None}]

WorldTypes ==
  /\ order \in [Nodes -> Nodes] /\ expired \in 0..LastNode /\ busy \subseteq Nodes
  /\ cooling \subseteq Nodes /\ faults \in 0..MaxFaults

ControllerTypes ==
  /\ phase \in Phases /\ cycle \in Cycles /\ Cardinality(cycle.active) <= BATCH_SIZE
  /\ phase = "submitting" => cycle.selected \in Nodes

JournalTypes == job \in [Nodes -> JobStates] /\ Cardinality(Unfinished) <= BATCH_SIZE

TypeInv == WorldTypes /\ ControllerTypes /\ JournalTypes

LEMMA NodesAreCounted ==
  ASSUME NEW S \in SUBSET Nodes
  PROVE  IsFiniteSet(S) /\ Cardinality(S) \in 0..LastNode
<1>1. IsFiniteSet(Nodes) /\ Cardinality(Nodes) = LastNode
  BY FS_Interval, LiveBounds DEF Nodes
<1>2. IsFiniteSet(S) /\ Cardinality(S) <= LastNode
  BY <1>1, FS_Subset
<1>3. Cardinality(S) \in Nat
  BY <1>2, FS_CardinalityType
<1> QED
  BY <1>2, <1>3, LiveBounds

\* What is first of some nodes is one of them, whatever their order.
LEMMA FirstIsAMember ==
  ASSUME order \in [Nodes -> Nodes], NEW S \in SUBSET Nodes, S # {}
  PROVE  First(S) \in S
<1> DEFINE Places == {order[n] : n \in S}
<1>1. Places \subseteq Nat /\ Places # {}
  <2>1. \A n \in S : order[n] \in Nat
    BY LiveBounds DEF Nodes
  <2> QED
    BY <2>1
<1>2. PICK p \in Places : \A q \in Places : ~(<<q, p>> \in OpToRel(<, Nat))
  BY <1>1, WFMin, NatLessThanWellFounded
<1>3. \A q \in Places : ~(q < p)
  BY <1>1, <1>2 DEF OpToRel
<1>4. PICK n \in S : order[n] = p
  OBVIOUS
<1>5. \A m \in S : order[n] <= order[m]
  BY <1>1, <1>3, <1>4
<1> QED
  BY <1>5 DEF First

\* A journal whose closed intents stay closed does not grow.
LEMMA JournalKept ==
  ASSUME JournalTypes, job' \in [Nodes -> JobStates],
         \A n \in Nodes : job[n] = "none" => job'[n] = "none"
  PROVE  JournalTypes'
<1>1. Unfinished' \subseteq Unfinished
  BY DEF Unfinished
<1>2. IsFiniteSet(Unfinished) /\ Cardinality(Unfinished) \in Nat
  BY NodesAreCounted DEF Unfinished
<1>3. IsFiniteSet(Unfinished') /\ Cardinality(Unfinished') \in Nat
  BY NodesAreCounted DEF Unfinished
<1>4. Cardinality(Unfinished') <= Cardinality(Unfinished)
  BY <1>1, <1>2, FS_Subset
<1>5. Cardinality(Unfinished') <= BATCH_SIZE
  BY <1>2, <1>3, <1>4, LiveBounds DEF JournalTypes
<1> QED
  BY <1>5 DEF JournalTypes

\* cval run opens one intent, and only where the batch has room.
LEMMA JournalAdmits ==
  ASSUME JournalTypes, NEW n \in Nodes, Admissible(n), NEW state \in JobStates,
         job' = [job EXCEPT ![n] = state]
  PROVE  JournalTypes'
<1>1. job' \in [Nodes -> JobStates] /\ Unfinished' \subseteq Unfinished \cup {n}
  BY DEF JournalTypes, Unfinished
<1>2. IsFiniteSet(Unfinished) /\ Cardinality(Unfinished) \in Nat
  BY NodesAreCounted DEF Unfinished
<1>3. IsFiniteSet(Unfinished') /\ Cardinality(Unfinished') \in Nat
  BY NodesAreCounted DEF Unfinished
<1>4. /\ IsFiniteSet(Unfinished \cup {n})
      /\ Cardinality(Unfinished \cup {n}) \in {Cardinality(Unfinished), Cardinality(Unfinished) + 1}
  BY <1>2, FS_AddElement
<1>5. Cardinality(Unfinished') <= Cardinality(Unfinished \cup {n})
  BY <1>1, <1>4, FS_Subset
<1>6. Cardinality(Unfinished) < BATCH_SIZE
  BY DEF Admissible
<1>7. Cardinality(Unfinished') <= BATCH_SIZE
  BY <1>2, <1>3, <1>4, <1>5, <1>6, LiveBounds
<1> QED
  BY <1>1, <1>7 DEF JournalTypes

LEMMA IdleSet ==
  ASSUME NEW c \in Cycles, NEW d, NEW i \in BOOLEAN, d = [c EXCEPT !.idle = i]
  PROVE  d \in Cycles
  BY DEF Cycles

LEMMA SearchReset ==
  ASSUME NEW c \in Cycles, NEW d, d = [c EXCEPT !.checked = {}, !.queued = 0, !.page = 0]
  PROVE  d \in Cycles /\ d.active = c.active
<1>1. 0 \in 0..LastNode /\ {} \in SUBSET Nodes
  BY LiveBounds
<1> QED
  BY <1>1 DEF Cycles

LEMMA NewCycleTyped == NewCycle \in Cycles /\ Cardinality(NewCycle.active) <= BATCH_SIZE
<1>1. NewCycle.active = {} /\ Cardinality({}) = 0
  BY FS_EmptySet DEF NewCycle
<1>2. NewCycle \in Cycles
  BY LiveBounds DEF NewCycle, Cycles
<1> QED
  BY <1>1, <1>2, LiveBounds

LEMMA IdleTyped ==
  ASSUME ControllerTypes, phase' \in Phases \ {"submitting"}, cycle' = NewCycle
  PROVE  ControllerTypes'
  BY NewCycleTyped DEF ControllerTypes

\* Observations count the slots anew from what they still track.
LEMMA ObservationTyped ==
  ASSUME ControllerTypes, NEW then \in Phases \ {"submitting"}, Observed(then)
  PROVE  ControllerTypes'
<1>1. PICK S \in SUBSET Prunable :
        /\ phase' = then
        /\ cycle' = [cycle EXCEPT !.active = Tracked \ S, !.skipped = @ \cup S,
                                  !.slots = BATCH_SIZE - Cardinality(Tracked \ S)]
  BY DEF Observed, Go
<1>2. cycle \in Cycles /\ cycle.active \subseteq Nodes
  BY DEF ControllerTypes, Cycles
<1>3. S \subseteq Nodes
  BY <1>2 DEF Prunable
<1>4. Tracked \ S \subseteq cycle.active
  BY DEF Tracked
<1>5. Cardinality(cycle.active) \in Nat /\ Cardinality(Tracked \ S) \in Nat
      /\ Cardinality(Tracked \ S) <= Cardinality(cycle.active)
  BY <1>2, <1>4, NodesAreCounted, FS_Subset
<1>6. Cardinality(Tracked \ S) <= BATCH_SIZE /\ BATCH_SIZE - Cardinality(Tracked \ S) \in 0..BATCH_SIZE
  BY <1>5, LiveBounds DEF ControllerTypes
<1>7. cycle' \in Cycles /\ cycle'.active = Tracked \ S
  BY <1>1, <1>2, <1>3, <1>4, <1>6 DEF Cycles
<1> QED
  BY <1>1, <1>6, <1>7 DEF ControllerTypes

LEMMA PlanTyped == ASSUME ControllerTypes, BuildPlan PROVE ControllerTypes'
<1> DEFINE queue == build_priority_queue(filter_nodes \ cycle.skipped)
           page  == PageOf(queue)
           plan  == page \ (cycle.submitted \cup cycle.skipped)
<1>1. queue \subseteq Nodes /\ page \subseteq Nodes
  BY DEF build_priority_queue, filter_nodes, PageOf
<1>2. Cardinality(queue) \in 0..LastNode /\ Cardinality(page) \in 0..LastNode
  BY <1>1, NodesAreCounted
<1>3. plan \subseteq Nodes
  BY <1>1
<1>4. cycle' = [cycle EXCEPT !.checked = {}, !.queued = Cardinality(queue), !.page = Cardinality(page),
                             !.plan = plan]
      /\ phase' = "checking"
  BY DEF BuildPlan, Go
<1> HIDE DEF queue, page, plan
<1>5. cycle' \in Cycles /\ cycle'.active = cycle.active
  BY <1>2, <1>3, <1>4 DEF ControllerTypes, Cycles
<1> QED
  BY <1>4, <1>5 DEF ControllerTypes

LEMMA CheckTyped ==
  ASSUME order \in [Nodes -> Nodes], ControllerTypes, CheckNode
  PROVE  ControllerTypes'
<1> DEFINE n == First(cycle.plan)
<1>1. cycle \in Cycles /\ cycle.plan \subseteq Nodes /\ cycle.checked \subseteq Nodes
  BY DEF ControllerTypes, Cycles
<1>2. n \in Nodes
  BY <1>1, FirstIsAMember DEF CheckNode
<1> HIDE DEF n
<1>3. CASE cycle' = [cycle EXCEPT !.selected = n, !.plan = {}] /\ phase' = "submitting"
  <2>1. cycle' \in Cycles /\ cycle'.active = cycle.active /\ cycle'.selected = n
    BY <1>1, <1>2, <1>3 DEF Cycles
  <2> QED
    BY <1>2, <1>3, <2>1 DEF ControllerTypes
<1>4. CASE cycle' = [cycle EXCEPT !.checked = @ \cup {n}, !.plan = @ \ {n}] /\ phase' = "checking"
  <2>1. cycle' \in Cycles /\ cycle'.active = cycle.active
    BY <1>1, <1>2, <1>4 DEF Cycles
  <2> QED
    BY <1>4, <2>1 DEF ControllerTypes
<1> QED
  BY <1>3, <1>4 DEF CheckNode, Go, n

\* A submission takes one of the open slots.
LEMMA SubmissionTyped == ASSUME ControllerTypes, SlotInv, SubmitNode PROVE ControllerTypes'
<1> DEFINE n == cycle.selected
<1>1. /\ n \in Nodes /\ phase' = "planning"
      /\ cycle' = [cycle EXCEPT !.active = @ \cup {n}, !.submitted = @ \cup {n}, !.idle = FALSE,
                                !.slots = @ - 1, !.selected = None,
                                !.checked = {}, !.queued = 0, !.page = 0]
  BY DEF SubmitNode, ControllerTypes, Go
<1>2. /\ cycle \in Cycles /\ cycle.active \subseteq Nodes /\ cycle.submitted \subseteq Nodes
      /\ cycle.slots \in 0..BATCH_SIZE
  BY DEF ControllerTypes, Cycles
<1>3. cycle.slots > 0 /\ Cardinality(cycle.active) + cycle.slots <= BATCH_SIZE
  BY DEF SubmitNode, SlotInv, Filling
<1>4. IsFiniteSet(cycle.active) /\ Cardinality(cycle.active) \in Nat
  BY <1>2, NodesAreCounted
<1>5. Cardinality(cycle.active \cup {n}) \in {Cardinality(cycle.active), Cardinality(cycle.active) + 1}
  BY <1>4, FS_AddElement
<1>6. Cardinality(cycle.active \cup {n}) <= BATCH_SIZE /\ cycle.slots - 1 \in 0..BATCH_SIZE
  BY <1>2, <1>3, <1>4, <1>5, LiveBounds
<1>7. cycle' \in Cycles /\ cycle'.active = cycle.active \cup {n}
  <2> HIDE DEF n
  <2> DEFINE rested == [cycle EXCEPT !.idle = FALSE]
             taken  == [rested EXCEPT !.active = @ \cup {n}, !.submitted = @ \cup {n},
                                      !.slots = @ - 1, !.selected = None]
  <2>1. rested \in Cycles
    BY <1>2, IdleSet
  <2>2. /\ rested.active = cycle.active /\ rested.submitted = cycle.submitted
        /\ rested.slots = cycle.slots
    BY <1>2 DEF Cycles
  <2>3. cycle' = [taken EXCEPT !.checked = {}, !.queued = 0, !.page = 0]
    BY <1>1
  <2> HIDE DEF rested
  <2>4. taken \in Cycles /\ taken.active = cycle.active \cup {n}
    BY <1>1, <1>2, <1>6, <2>1, <2>2 DEF Cycles
  <2> HIDE DEF taken
  <2> QED
    BY <2>3, <2>4, SearchReset
<1> QED
  BY <1>1, <1>6, <1>7 DEF ControllerTypes

\* The end of the inner loop changes no set of nodes but the skipped one.
LEMMA SearchEndTyped ==
  ASSUME ControllerTypes, NEW now \in Cycles, now.active = cycle.active, EndOrPoll(now)
  PROVE  ControllerTypes'
<1>1. CASE cycle' = NewCycle /\ phase' = "idle"
  BY <1>1, IdleTyped
<1>2. CASE cycle' = [now EXCEPT !.slots = 0] /\ phase' = "observe"
  <2>1. cycle' \in Cycles /\ cycle'.active = cycle.active
    BY <1>2, LiveBounds DEF Cycles
  <2> QED
    BY <1>2, <2>1 DEF ControllerTypes
<1> QED
  BY <1>1, <1>2 DEF EndOrPoll, Go

LEMMA NoneSelectedTyped == ASSUME ControllerTypes, NoneSelected PROVE ControllerTypes'
<1> DEFINE searched == [cycle EXCEPT !.skipped = @ \cup cycle.checked, !.idle = TRUE,
                                     !.checked = {}, !.queued = 0, !.page = 0]
<1>1. cycle \in Cycles
  BY DEF ControllerTypes
<1>2. searched \in Cycles /\ searched.active = cycle.active
  <2> DEFINE waiting == [cycle EXCEPT !.idle = TRUE]
  <2>1. waiting \in Cycles
    BY <1>1, IdleSet
  <2>2. /\ waiting.skipped = cycle.skipped /\ waiting.checked = cycle.checked
        /\ waiting.active = cycle.active
    BY <1>1 DEF Cycles
  <2> DEFINE skipping == [waiting EXCEPT !.skipped = @ \cup cycle.checked]
  <2>3. searched = [skipping EXCEPT !.checked = {}, !.queued = 0, !.page = 0]
    OBVIOUS
  <2> HIDE DEF waiting, searched
  <2>4. skipping \in Cycles /\ skipping.active = cycle.active
    BY <1>1, <2>1, <2>2 DEF Cycles
  <2> HIDE DEF skipping
  <2> QED
    BY <2>3, <2>4, SearchReset
<1>3. \/ cycle' = searched /\ phase' = "planning"
      \/ EndOrPoll(searched)
  BY DEF NoneSelected, Go
<1> HIDE DEF searched
<1>4. CASE cycle' = searched /\ phase' = "planning"
  BY <1>2, <1>4 DEF ControllerTypes
<1> QED
  BY <1>2, <1>3, <1>4, SearchEndTyped

LEMMA ControllerTyped ==
  ASSUME TypeInv, TrackInv, SlotInv, Controller
  PROVE  ControllerTypes'
<1> USE DEF Go
<1>0. /\ ControllerTypes /\ JournalTypes /\ order \in [Nodes -> Nodes] /\ cycle \in Cycles
      /\ Cardinality(cycle.active) <= BATCH_SIZE
  BY DEF TypeInv, WorldTypes, ControllerTypes
<1>1. CASE WakeUp
  BY <1>0, <1>1 DEF WakeUp, ControllerTypes
<1>2. CASE resume_latest_cycle_if_needed
  <2> DEFINE open == Unfinished \ Ended
  <2>1. cycle' = [NewCycle EXCEPT !.active = open] /\ phase' \in {"preflight", "watch"}
    BY <1>2 DEF resume_latest_cycle_if_needed
  <2>2. open \subseteq Unfinished /\ Unfinished \subseteq Nodes
    BY DEF Unfinished
  <2>3. /\ IsFiniteSet(Unfinished) /\ Cardinality(open) \in Nat /\ Cardinality(Unfinished) \in Nat
        /\ Cardinality(open) <= Cardinality(Unfinished)
    BY <2>2, NodesAreCounted, FS_Subset
  <2>4. Cardinality(open) <= BATCH_SIZE
    BY <1>0, <2>3, LiveBounds DEF JournalTypes
  <2> HIDE DEF open
  <2>5. cycle' \in Cycles /\ cycle'.active = open
    BY <2>1, <2>2, NewCycleTyped DEF Cycles
  <2> QED
    BY <2>1, <2>4, <2>5 DEF ControllerTypes
<1>3. CASE WatchRetained
  <2>1. CASE Observed("watch")
    BY <1>0, <2>1, ObservationTyped
  <2>2. CASE cycle' = NewCycle /\ phase' = "idle"
    BY <1>0, <2>2, IdleTyped
  <2> QED
    BY <1>3, <2>1, <2>2 DEF WatchRetained, Indeterminate
<1>4. CASE Preflight
  <2>1. cycle' = NewCycle /\ phase' \in {"idle", "observe"}
    BY <1>4 DEF Preflight
  <2> QED
    BY <1>0, <2>1, IdleTyped
<1>5. CASE ObserveCycle
  <2>1. CASE Observed("planning")
    BY <1>0, <2>1, ObservationTyped
  <2>2. CASE cycle' = NewCycle /\ phase' = "idle"
    BY <1>0, <2>2, IdleTyped
  <2> QED
    BY <1>5, <2>1, <2>2 DEF ObserveCycle, Indeterminate
<1>6. CASE NothingToObserve
  <2>1. cycle' = [cycle EXCEPT !.slots = BATCH_SIZE] /\ phase' = "planning"
    BY <1>6 DEF NothingToObserve
  <2>2. cycle' \in Cycles /\ cycle'.active = cycle.active
    BY <1>0, <2>1, LiveBounds DEF Cycles
  <2> QED
    BY <1>0, <2>1, <2>2 DEF ControllerTypes
<1>7. CASE BuildPlan
  BY <1>0, <1>7, PlanTyped
<1>8. CASE CheckNode
  BY <1>0, <1>8, CheckTyped
<1>9. CASE SubmitNode
  BY <1>0, <1>9, SubmissionTyped
<1>10. CASE SubmissionEndsCycle
  BY <1>0, <1>10, IdleTyped DEF SubmissionEndsCycle
<1>11. CASE NoneSelected
  BY <1>0, <1>11, NoneSelectedTyped
<1>12. CASE SlotsAreFull
  BY <1>0, <1>12, SearchEndTyped DEF SlotsAreFull
<1> QED
  BY <1>1, <1>2, <1>3, <1>4, <1>5, <1>6, <1>7, <1>8, <1>9, <1>10, <1>11, <1>12 DEF Controller

LEMMA ObservedJournal ==
  ASSUME JournalTypes, NEW S, job' = Delete(S), S \subseteq Nodes,
         \A n \in S : job[n] = "pending"
  PROVE  JournalTypes'
<1>1. job' \in [Nodes -> JobStates] /\ \A n \in Nodes : job[n] = "none" => job'[n] = "none"
  BY DEF Delete, JournalTypes
<1> QED
  BY <1>1, JournalKept

LEMMA ControllerJournal ==
  ASSUME TypeInv, Controller
  PROVE  JournalTypes'
<1>0. /\ JournalTypes /\ job \in [Nodes -> JobStates] /\ cycle.active \subseteq Nodes
      /\ phase = "submitting" => cycle.selected \in Nodes
  BY DEF TypeInv, ControllerTypes, JournalTypes, Cycles
<1>1. CASE UNCHANGED job
  BY <1>0, <1>1, JournalKept
<1>2. CASE job' = Keep(Ended)
  BY <1>0, <1>2, JournalKept DEF Keep
<1>3. ASSUME NEW S \in SUBSET Prunable, Pruned(S) PROVE JournalTypes'
  <2>1. S \subseteq Nodes /\ \A n \in S : job[n] = "pending"
    BY <1>0 DEF Prunable
  <2> QED
    BY <1>0, <1>3, <2>1, ObservedJournal DEF Pruned
<1>4. CASE SubmitNode
  BY <1>0, <1>4, JournalAdmits DEF SubmitNode
<1>5. CASE SubmissionEndsCycle
  <2>1. CASE ~Admissible(cycle.selected)
    BY <1>1, <1>5, <2>1 DEF SubmissionEndsCycle
  <2>2. CASE Admissible(cycle.selected)
    <3>1. PICK state \in {"none", "pending", "gone"} : job' = [job EXCEPT ![cycle.selected] = state]
      BY <1>5, <2>2 DEF SubmissionEndsCycle
    <3>2. cycle.selected \in Nodes
      BY <1>0, <1>5 DEF SubmissionEndsCycle
    <3> QED
      BY <1>0, <2>2, <3>1, <3>2, JournalAdmits
  <2> QED
    BY <2>1, <2>2
<1>6. CASE Observed("watch") \/ Observed("planning") \/ Indeterminate
  BY <1>3, <1>6 DEF Observed, Indeterminate
<1>7. CASE \/ WakeUp \/ resume_latest_cycle_if_needed \/ WatchRetained \/ Preflight \/ ObserveCycle
           \/ NothingToObserve \/ BuildPlan \/ CheckNode \/ NoneSelected \/ SlotsAreFull
  BY <1>1, <1>2, <1>6, <1>7 DEF WakeUp, resume_latest_cycle_if_needed, WatchRetained, Preflight,
     ObserveCycle, NothingToObserve, BuildPlan, CheckNode, NoneSelected, SlotsAreFull
<1> QED
  BY <1>4, <1>5, <1>7 DEF Controller

LEMMA FaultTyped == ASSUME faults \in 0..MaxFaults, Fault PROVE faults' \in 0..MaxFaults
  BY LiveBounds DEF Fault

LEMMA ControllerWorld == ASSUME TypeInv, Controller PROVE WorldTypes'
<1>0. WorldTypes /\ faults \in 0..MaxFaults /\ (phase = "submitting" => cycle.selected \in Nodes)
  BY DEF TypeInv, WorldTypes, ControllerTypes
<1>1. UNCHANGED <<order, expired, busy>>
  BY DEF Controller, WakeUp, resume_latest_cycle_if_needed, WatchRetained, Preflight, ObserveCycle,
     NothingToObserve, BuildPlan, CheckNode, SubmitNode, SubmissionEndsCycle, NoneSelected,
     SlotsAreFull, Observed, Indeterminate, world
<1>2. UNCHANGED faults \/ Fault
  BY DEF Controller, WakeUp, resume_latest_cycle_if_needed, WatchRetained, Preflight, ObserveCycle,
     NothingToObserve, BuildPlan, CheckNode, SubmitNode, SubmissionEndsCycle, NoneSelected,
     SlotsAreFull, Observed, Indeterminate, Pruned
<1>3. UNCHANGED cooling \/ (SubmitNode /\ cooling' \subseteq cooling \cup {cycle.selected})
  BY DEF Controller, WakeUp, resume_latest_cycle_if_needed, WatchRetained, Preflight, ObserveCycle,
     NothingToObserve, BuildPlan, CheckNode, SubmitNode, SubmissionEndsCycle, NoneSelected,
     SlotsAreFull, Observed, Indeterminate, record_node_submission
<1>4. faults' \in 0..MaxFaults
  BY <1>0, <1>2, FaultTyped
<1>5. cooling' \subseteq Nodes
  BY <1>0, <1>3 DEF SubmitNode, WorldTypes
<1> QED
  BY <1>0, <1>1, <1>4, <1>5 DEF WorldTypes

\* A node that passes goes last, and those behind it move up by one place.
LEMMA EndTyped ==
  ASSUME TypeInv, NEW n \in Nodes, NEW pass \in BOOLEAN, JobEnds(n, pass)
  PROVE  TypeInv'
<1>0. WorldTypes /\ ControllerTypes /\ JournalTypes
  BY DEF TypeInv
<1>1. order \in [Nodes -> Nodes] /\ expired \in 0..LastNode
  BY <1>0 DEF WorldTypes
<1>2. order' \in [Nodes -> Nodes] /\ expired' \in 0..LastNode
  <2>1. CASE pass
    <3>1. /\ order' = [m \in Nodes |-> IF m = n THEN LastNode
                                       ELSE IF order[m] > order[n] THEN order[m] - 1 ELSE order[m]]
          /\ expired' = IF Due(n) THEN expired - 1 ELSE expired
      BY <2>1 DEF JobEnds
    <3>2. LastNode \in Nodes /\ order[n] \in Nodes
      BY <1>1, LiveBounds DEF Nodes
    <3>3. \A m \in Nodes : order[m] \in Nodes /\ (order[m] > order[n] => order[m] - 1 \in Nodes)
      <4>1. \A i, k \in Nodes : i > k => i - 1 \in Nodes
        BY LiveBounds DEF Nodes
      <4> QED
        BY <1>1, <4>1
    <3>4. Due(n) => expired - 1 \in 0..LastNode
      BY <1>1, <3>2, LiveBounds DEF Due, Nodes
    <3> QED
      BY <1>1, <3>1, <3>2, <3>3, <3>4
  <2>2. CASE ~pass
    BY <1>1, <2>2 DEF JobEnds
  <2> QED
    BY <2>1, <2>2
<1>3. WorldTypes'
  BY <1>0, <1>2 DEF WorldTypes, JobEnds
<1>4. ControllerTypes'
  BY <1>0 DEF ControllerTypes, JobEnds
<1>5. JournalTypes'
  <2>1. job' \in [Nodes -> JobStates] /\ \A m \in Nodes : job[m] = "none" => job'[m] = "none"
    BY <1>0 DEF JobEnds, JournalTypes
  <2> QED
    BY <1>0, <2>1, JournalKept
<1> QED
  BY <1>3, <1>4, <1>5 DEF TypeInv

LEMMA OthersTyped ==
  ASSUME TypeInv, UNCHANGED <<order, phase, cycle>>, expired' \in 0..LastNode, busy' \subseteq Nodes,
         cooling' \subseteq Nodes, faults' \in 0..MaxFaults, job' \in [Nodes -> JobStates],
         \A n \in Nodes : job[n] = "none" => job'[n] = "none"
  PROVE  TypeInv'
<1>1. WorldTypes' /\ ControllerTypes'
  BY DEF TypeInv, WorldTypes, ControllerTypes
<1>2. JournalTypes'
  BY JournalKept DEF TypeInv
<1> QED
  BY <1>1, <1>2 DEF TypeInv

LEMMA StepTyped == ASSUME TypeInv, TrackInv, SlotInv, [LiveNext]_liveVars PROVE TypeInv'
<1>0. /\ WorldTypes /\ ControllerTypes /\ JournalTypes
      /\ expired \in 0..LastNode /\ busy \subseteq Nodes /\ cooling \subseteq Nodes
      /\ faults \in 0..MaxFaults /\ job \in [Nodes -> JobStates]
  BY DEF TypeInv, WorldTypes, JournalTypes
<1>1. CASE Controller
  BY <1>1, ControllerTyped, ControllerJournal, ControllerWorld DEF TypeInv
<1>2. CASE CycleDies
  <2>1. /\ UNCHANGED <<order, expired, busy, job, cooling>> /\ Fault
        /\ phase' = "idle" /\ cycle' = NewCycle
    BY <1>2 DEF CycleDies, world, Go
  <2>2. ControllerTypes'
    BY <1>0, <2>1, IdleTyped
  <2>3. WorldTypes'
    BY <1>0, <2>1, FaultTyped DEF WorldTypes
  <2>4. JournalTypes'
    BY <1>0, <2>1, JournalKept
  <2> QED
    BY <2>2, <2>3, <2>4 DEF TypeInv
<1>3. CASE Expire
  <2>1. expired' \in 0..LastNode
    BY <1>0, <1>3, LiveBounds DEF Expire
  <2> QED
    BY <1>0, <1>3, <2>1, OthersTyped DEF Expire
<1>4. ASSUME NEW n \in Nodes, JobStarts(n) PROVE TypeInv'
  BY <1>0, <1>4, OthersTyped DEF JobStarts, world
<1>5. ASSUME NEW n \in Nodes, NEW pass \in BOOLEAN, JobEnds(n, pass) PROVE TypeInv'
  BY <1>5, EndTyped
<1>6. ASSUME NEW n \in Nodes, JobIsDeleted(n) PROVE TypeInv'
  BY <1>0, <1>6, OthersTyped, FaultTyped DEF JobIsDeleted, world
<1>7. ASSUME NEW n \in Nodes, Settle(n) PROVE TypeInv'
  BY <1>0, <1>7, OthersTyped DEF Settle, world
<1>8. ASSUME NEW n \in Nodes, Occupy(n) \/ Vacate(n) \/ CooldownEnds(n) PROVE TypeInv'
  <2>1. CASE Occupy(n)
    <3>1. faults' \in 0..MaxFaults
      BY <1>0, <2>1, FaultTyped DEF Occupy
    <3> QED
      BY <1>0, <2>1, <3>1, OthersTyped DEF Occupy
  <2> QED
    BY <1>0, <1>8, <2>1, OthersTyped DEF Vacate, CooldownEnds, world
<1>9. CASE UNCHANGED liveVars
  BY <1>0, <1>9, OthersTyped DEF liveVars
<1> QED
  BY <1>1, <1>2, <1>3, <1>4, <1>5, <1>6, <1>7, <1>8, <1>9 DEF LiveNext

LEMMA InitTyped == LiveInit => TypeInv
<1> SUFFICES ASSUME LiveInit PROVE TypeInv
  OBVIOUS
<1>1. WorldTypes
  BY LiveBounds, ContendedAreNodes DEF LiveInit, WorldTypes, Nodes
<1>2. ControllerTypes
  BY NewCycleTyped DEF LiveInit, ControllerTypes
<1>3. Unfinished = {} /\ Cardinality({}) = 0
  BY FS_EmptySet DEF LiveInit, Unfinished
<1>4. JournalTypes
  BY <1>3, LiveBounds DEF LiveInit, JournalTypes
<1> QED
  BY <1>1, <1>2, <1>4 DEF TypeInv

\* Every variable of the live loop keeps its type, among them the slots of a cycle, which the shell
\* counts down between two observations.
THEOREM LiveTypes == LiveSpec => []LiveTypeOK
<1>1. LiveInit => TypeInv /\ SlotInv
  BY InitTyped, NewCycleIsACycle, FS_EmptySet DEF LiveInit, SlotInv, Filling
<1>2. TrackInv /\ SlotInv /\ TypeInv /\ [LiveNext]_liveVars => SlotInv' /\ TypeInv'
  BY StepCounts, StepTyped
<1>3. TypeInv => LiveTypeOK
  BY DEF TypeInv, WorldTypes, ControllerTypes, JournalTypes, Cycles, LiveTypeOK
<1> QED
  BY <1>1, <1>2, <1>3, TrackInvariant, PTL DEF LiveSpec
=============================================================================

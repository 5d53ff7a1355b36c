------------------------------- MODULE LiveLoop -------------------------------
(***************************************************************************)
(* The controller of scripts/cval-live.sh: it resumes what an earlier life *)
(* left unfinished, and runs cycles that fill up to BATCH_SIZE slots with  *)
(* validation Jobs in the order of the priority queue.                     *)
(*                                                                         *)
(* What it decides from is spread over the session's journal (the intents, *)
(* which survive it), the coverage of the nodes, the cooldown file, the    *)
(* cluster, and the variables of the cycle, which die with it.  `cval run` *)
(* is one step here and is the subject of Admission; nobody else submits.  *)
(***************************************************************************)
EXTENDS Naturals, FiniteSets

CONSTANTS
  LastNode,   \* GPU nodes, numbered in the order of their names
  Contended,  \* those of them that other workloads ever occupy
  BATCH_SIZE,
  PlanLimit,  \* live.plan_limit; 0 is "all"
  Cooldown,   \* scheduling.node_cooldown_seconds is not 0
  Pruning,    \* pruning of pending Jobs is enabled
  MaxFaults,  \* bound on crashes, failed commands, lost races and deleted Jobs
  None

ASSUME LiveBounds == LastNode \in Nat /\ BATCH_SIZE \in Nat \ {0} /\ MaxFaults \in Nat
ASSUME ContendedAreNodes == Contended \subseteq 1..LastNode
ASSUME PlanLimitIsANumber == PlanLimit \in Nat
ASSUME SwitchesAreBoolean == {Cooldown, Pruning} \subseteq BOOLEAN

Nodes == 1..LastNode

VARIABLES
  order,      \* each node's place by its last successful complete run, never tested ones first
  expired,    \* how many of them, from the first, were never tested or too long ago
  busy,       \* nodes that other workloads occupy
  job,        \* per node: the state of its unfinished intent and Job
  cooling,    \* nodes whose recorded submission is less than the cooldown ago
  phase,      \* where the controller is
  cycle,      \* the variables of run_submit_cycle and of the watch before it
  faults

liveVars == <<order, expired, busy, job, cooling, phase, cycle, faults>>
world == <<order, expired, busy>>

JobStates == {"none", "pending", "running", "ended", "gone"}
Unfinished == {n \in Nodes : job[n] # "none"}
\* "idle": dead until it is started again, or asleep until the next cycle.
InCycle == {"observe", "planning", "checking", "submitting"}
Phases == {"idle", "resume", "watch", "preflight"} \cup InCycle

\* plan: the page of the last plan still to be checked; queued and page: how long queue and page were.
NewCycle == [active |-> {}, submitted |-> {}, skipped |-> {}, idle |-> FALSE, slots |-> 0,
             plan |-> {}, checked |-> {}, queued |-> 0, page |-> 0, selected |-> None]

LiveInit ==
  /\ order = [n \in Nodes |-> n] /\ expired \in 0..LastNode
  /\ busy \in SUBSET Contended /\ cooling = {} /\ faults = 0
  /\ job = [n \in Nodes |-> "none"]
  /\ phase = "idle" /\ cycle = NewCycle

Go(next) == phase' = next
Fault == faults < MaxFaults /\ faults' = faults + 1
Keep(S) == [n \in Nodes |-> IF n \in S THEN "none" ELSE job[n]]

(***************************************************************************)
(* build_priority_queue, the cooldown filter and the page of the plan: the *)
(* nodes of a queue or a plan, which are always served in their order.     *)
(* That order is the one of when they were queued, for what moves a node   *)
(* is the end of its Job, and no node of a plan has one.                   *)
(***************************************************************************)
Due(n) == order[n] <= expired
First(S) == CHOOSE n \in S : \A m \in S : order[n] <= order[m]

build_priority_queue(nodes) == {n \in nodes : Due(n)}
filter_nodes == Nodes \ cooling
PageOf(queue) == IF PlanLimit = 0 THEN queue
                 ELSE {n \in queue : Cardinality({m \in queue : order[m] <= order[n]}) <= PlanLimit}

Free(n) == n \notin busy /\ job[n] \in {"none", "ended", "gone"}

(***************************************************************************)
(* observe_tracked_jobs: all intents of the session are reconciled, so     *)
(* that those of ended Jobs are finished; of the tracked ones, an          *)
(* indeterminate phase stops the caller, and a Job that has been Pending   *)
(* for too long is deleted.  The intent of a deleted Job stays, for its    *)
(* absence proves nothing; if the report after the delete still showed the *)
(* Job, its node is skipped, else the caller stops.                        *)
(***************************************************************************)
Ended == {n \in Nodes : job[n] = "ended"}
Tracked == {n \in cycle.active : job[n] \notin {"ended", "none"}}
Delete(S) == [n \in Nodes |-> IF n \in S THEN "gone" ELSE IF n \in Ended THEN "none" ELSE job[n]]
Prunable == IF Pruning THEN {n \in cycle.active : job[n] = "pending"} ELSE {}

Pruned(S) ==
  /\ job' = Delete(S)
  /\ IF S = {} THEN UNCHANGED faults ELSE Fault

Observed(then) ==
  \E S \in SUBSET Prunable :
    /\ \A n \in cycle.active : job[n] # "gone"
    /\ Pruned(S)
    /\ cycle' = [cycle EXCEPT !.active = Tracked \ S, !.skipped = @ \cup S,
                              !.slots = BATCH_SIZE - Cardinality(Tracked \ S)]
    /\ Go(then)
    /\ UNCHANGED <<world, cooling>>

Indeterminate ==
  \E S \in SUBSET Prunable :
    /\ S # {} \/ \E n \in cycle.active : job[n] = "gone"
    /\ Pruned(S) /\ Go("idle") /\ cycle' = NewCycle
    /\ UNCHANGED <<world, cooling>>

(***************************************************************************)
(* run_loop: resume, then a cycle, then sleep.                             *)
(***************************************************************************)
WakeUp ==
  /\ phase = "idle" /\ Go("resume")
  /\ UNCHANGED <<world, job, cooling, cycle, faults>>

\* Without looking at what the journal still has open.
ForgetRetained ==
  /\ phase = "resume"
  /\ job' = Keep(Ended) /\ cycle' = NewCycle /\ Go("preflight")
  /\ UNCHANGED <<world, cooling, faults>>

resume_latest_cycle_if_needed ==
  /\ phase = "resume"
  /\ job' = Keep(Ended)
  /\ cycle' = [NewCycle EXCEPT !.active = Unfinished \ Ended]
  /\ Go(IF Unfinished \subseteq Ended THEN "preflight" ELSE "watch")
  /\ UNCHANGED <<world, cooling, faults>>

\* watch_existing_jobs_until_clear
WatchRetained ==
  /\ phase = "watch"
  /\ \/ cycle.active # {} /\ (Observed("watch") \/ Indeterminate)
     \/ /\ cycle.active = {}
        /\ cycle' = NewCycle /\ Go("idle")
        /\ UNCHANGED <<world, job, cooling, faults>>

(***************************************************************************)
(* run_submit_cycle.                                                       *)
(***************************************************************************)
Preflight ==
  /\ phase = "preflight"
  /\ cycle' = NewCycle
  /\ Go(IF build_priority_queue(filter_nodes) = {} THEN "idle" ELSE "observe")
  /\ UNCHANGED <<world, job, cooling, faults>>

ObserveCycle ==
  /\ phase = "observe" /\ cycle.active # {}
  /\ Observed("planning") \/ Indeterminate

NothingToObserve ==
  /\ phase = "observe" /\ cycle.active = {}
  /\ cycle' = [cycle EXCEPT !.slots = BATCH_SIZE] /\ Go("planning")
  /\ UNCHANGED <<world, job, cooling, faults>>

\* A search with no regard to whether a slot is open.
PlanAnyway ==
  LET queue == build_priority_queue(filter_nodes \ cycle.skipped)
      page == PageOf(queue) IN
  /\ phase = "planning"
  /\ cycle' = [cycle EXCEPT !.checked = {}, !.queued = Cardinality(queue), !.page = Cardinality(page),
                 !.plan = page \ (cycle.submitted \cup cycle.skipped)]
  /\ Go("checking")
  /\ UNCHANGED <<world, job, cooling, faults>>

\* A cycle that offers the nodes it has submitted before as well.
OfferAgain ==
  LET queue == build_priority_queue(filter_nodes \ cycle.skipped)
      page == PageOf(queue) IN
  /\ phase = "planning" /\ cycle.slots > 0
  /\ cycle' = [cycle EXCEPT !.checked = {}, !.queued = Cardinality(queue), !.page = Cardinality(page),
                 !.plan = page \ cycle.skipped]
  /\ Go("checking")
  /\ UNCHANGED <<world, job, cooling, faults>>

\* A plan for one open slot: skipped nodes are left out of the plan, submitted ones of its page only.
BuildPlan ==
  LET queue == build_priority_queue(filter_nodes \ cycle.skipped)
      page == PageOf(queue) IN
  /\ phase = "planning" /\ cycle.slots > 0
  /\ cycle' = [cycle EXCEPT !.checked = {}, !.queued = Cardinality(queue), !.page = Cardinality(page),
                 !.plan = page \ (cycle.submitted \cup cycle.skipped)]
  /\ Go("checking")
  /\ UNCHANGED <<world, job, cooling, faults>>

\* select_available_nodes asks the cluster about one candidate after the other.
CheckNode ==
  LET n == First(cycle.plan) IN
  /\ phase = "checking" /\ cycle.plan # {}
  /\ IF Free(n) THEN cycle' = [cycle EXCEPT !.selected = n, !.plan = {}] /\ Go("submitting")
                ELSE cycle' = [cycle EXCEPT !.checked = @ \cup {n}, !.plan = @ \ {n}] /\ Go("checking")
  /\ UNCHANGED <<world, job, cooling, faults>>

record_node_submission(n) == cooling' = IF Cooldown THEN cooling \cup {n} ELSE cooling

Admissible(n) == job[n] = "none" /\ n \notin busy /\ Cardinality(Unfinished) < BATCH_SIZE

\* cval run succeeds: the Job exists, and receipt and cooldown are recorded.
SubmitNode ==
  LET n == cycle.selected IN
  /\ phase = "submitting" /\ Admissible(n)
  /\ job' = [job EXCEPT ![n] = "pending"]
  /\ record_node_submission(n)
  /\ cycle' = [cycle EXCEPT !.active = @ \cup {n}, !.submitted = @ \cup {n}, !.idle = FALSE,
                            !.slots = @ - 1, !.selected = None,
                            !.checked = {}, !.queued = 0, !.page = 0]
  /\ Go("planning")
  /\ UNCHANGED <<world, faults>>

\* cval run refuses, fails with an unknown outcome, or its receipt or the cooldown is not recorded:
\* the cycle ends, whatever exists by now.
SubmissionEndsCycle ==
  LET n == cycle.selected IN
  /\ phase = "submitting"
  /\ IF Admissible(n) THEN Fault /\ \E state \in {"none", "pending", "gone"} : job' = [job EXCEPT ![n] = state]
                      ELSE UNCHANGED <<job, faults>>
  /\ cycle' = NewCycle /\ Go("idle")
  /\ UNCHANGED <<world, cooling>>

\* The end of the inner loop: the cycle is over, or sleeps and observes again.
EndOrPoll(now) ==
  IF now.active = {} /\ now.idle THEN cycle' = NewCycle /\ Go("idle")
                                 ELSE cycle' = [now EXCEPT !.slots = 0] /\ Go("observe")

\* No candidate was free.  With more in the queue than on the page, the plan is built again.
NoneSelected ==
  LET searched == [cycle EXCEPT !.skipped = @ \cup cycle.checked, !.idle = TRUE,
                                !.checked = {}, !.queued = 0, !.page = 0] IN
  /\ phase = "checking" /\ cycle.plan = {}
  /\ IF cycle.page < cycle.queued /\ cycle.page > 0 THEN cycle' = searched /\ Go("planning")
                                                    ELSE EndOrPoll(searched)
  /\ UNCHANGED <<world, job, cooling, faults>>

SlotsAreFull ==
  /\ phase = "planning" /\ cycle.slots = 0 /\ EndOrPoll(cycle)
  /\ UNCHANGED <<world, job, cooling, faults>>

\* The controller dies and its flock goes with it; or discovery, status, the plan, a node check or an
\* observation fails, and the cycle ends.
CycleDies ==
  /\ phase # "idle" /\ Fault
  /\ cycle' = NewCycle /\ Go("idle")
  /\ UNCHANGED <<world, job, cooling>>

(***************************************************************************)
(* The cluster and the operators.                                          *)
(***************************************************************************)
JobStarts(n) ==
  /\ job[n] = "pending" /\ n \notin busy /\ job' = [job EXCEPT ![n] = "running"]
  /\ UNCHANGED <<world, cooling, phase, cycle, faults>>

\* A passing run is recorded and makes its node the one tested last; another leaves coverage alone.
JobEnds(n, pass) ==
  /\ job[n] = "running" /\ job' = [job EXCEPT ![n] = "ended"]
  /\ IF pass THEN /\ order' = [m \in Nodes |-> IF m = n THEN LastNode
                                 ELSE IF order[m] > order[n] THEN order[m] - 1 ELSE order[m]]
                  /\ expired' = IF Due(n) THEN expired - 1 ELSE expired
             ELSE UNCHANGED <<order, expired>>
  /\ UNCHANGED <<busy, cooling, phase, cycle, faults>>

JobIsDeleted(n) ==
  /\ job[n] \in {"pending", "running"} /\ Fault /\ job' = [job EXCEPT ![n] = "gone"]
  /\ UNCHANGED <<world, cooling, phase, cycle>>

\* An operator settles the intent of a Job that is gone.
Settle(n) ==
  /\ job[n] = "gone" /\ job' = [job EXCEPT ![n] = "none"]
  /\ UNCHANGED <<world, cooling, phase, cycle, faults>>

\* To take a node between its check and its submission is a lost race.
Occupy(n) ==
  /\ n \in Contended \ busy /\ job[n] # "running" /\ busy' = busy \cup {n}
  /\ IF cycle.selected = n THEN Fault ELSE UNCHANGED faults
  /\ UNCHANGED <<order, expired, job, cooling, phase, cycle>>

Vacate(n) ==
  /\ n \in busy /\ busy' = busy \ {n}
  /\ UNCHANGED <<order, expired, job, cooling, phase, cycle, faults>>

Expire ==
  /\ expired < LastNode /\ expired' = expired + 1
  /\ UNCHANGED <<order, busy, job, cooling, phase, cycle, faults>>

CooldownEnds(n) ==
  /\ n \in cooling /\ cooling' = cooling \ {n}
  /\ UNCHANGED <<world, job, phase, cycle, faults>>

Controller ==
  \/ WakeUp \/ resume_latest_cycle_if_needed \/ WatchRetained
  \/ Preflight \/ ObserveCycle \/ NothingToObserve \/ BuildPlan \/ CheckNode
  \/ SubmitNode \/ SubmissionEndsCycle \/ NoneSelected \/ SlotsAreFull

LiveNext ==
  \/ Controller \/ CycleDies \/ Expire
  \/ \E n \in Nodes :
       \/ JobStarts(n) \/ (\E pass \in BOOLEAN : JobEnds(n, pass)) \/ JobIsDeleted(n) \/ Settle(n)
       \/ Occupy(n) \/ Vacate(n) \/ CooldownEnds(n)

LiveSpec == LiveInit /\ [][LiveNext]_liveVars

\* The controller runs and is started again; other workloads make room for a Job again and again,
\* Jobs end, and operators settle intents of Jobs that are gone.
FairLiveSpec ==
  /\ LiveSpec /\ WF_liveVars(Controller)
  /\ \A n \in Nodes :
       /\ SF_liveVars(JobStarts(n)) /\ WF_liveVars(\E pass \in BOOLEAN : JobEnds(n, pass))
       /\ WF_liveVars(Settle(n)) /\ WF_liveVars(Vacate(n)) /\ WF_liveVars(CooldownEnds(n))

-----------------------------------------------------------------------------
\* Type correctness of every variable.
LiveTypeOK ==
  /\ order \in [Nodes -> Nodes] /\ expired \in 0..LastNode /\ busy \subseteq Nodes
  /\ job \in [Nodes -> JobStates] /\ cooling \subseteq Nodes /\ phase \in Phases
  /\ cycle \in [active : SUBSET Nodes, submitted : SUBSET Nodes, skipped : SUBSET Nodes,
                idle : BOOLEAN, slots : 0..BATCH_SIZE, plan : SUBSET Nodes, checked : SUBSET Nodes,
                queued : 0..LastNode, page : 0..LastNode, selected : Nodes \cup {None}]
  /\ faults \in 0..MaxFaults

\* While a cycle runs, the journal has nothing open that the cycle does not track, apart from Jobs
\* that are gone: after any crash, failed command or submission with an unknown outcome, what it left
\* is watched to its end before another cycle counts its slots.
CycleTracksEveryJob ==
  phase \in InCycle => \A n \in Unfinished : n \in cycle.active \/ job[n] = "gone"

\* A slot the loop counts is one the journal has: when it calls cval run, fewer than BATCH_SIZE
\* intents are unfinished, apart from Jobs that are gone, so that no submission is refused for the
\* batch and ends the cycle, although slots are counted down between two observations only.
SlotsAreReal ==
  phase = "submitting" /\ (\A n \in Nodes : job[n] # "gone") => Cardinality(Unfinished) < BATCH_SIZE

\* With live.plan_limit "all", a node that is due, free and neither cooling down nor in use by an
\* unfinished attempt does not stay so for ever: neither nodes of higher priority that fail again and
\* again, nor busy ones, nor interrupted cycles keep it from being submitted.
Waits(n) == Due(n) /\ n \notin busy /\ n \notin cooling /\ job[n] = "none"
NoDueNodeStarves == \A n \in Nodes : []<>~Waits(n)

\* Every search for a node for an open slot comes to an end: "rebuilding without N checked node(s) to
\* continue the queue".
SlotSearchEnds == phase = "planning" ~> phase \notin {"planning", "checking"}
=============================================================================

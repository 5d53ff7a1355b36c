------------------------------ MODULE Admission ------------------------------
(***************************************************************************)
(* Admission of validation Jobs (cval/jobs/manager.py), with the observer  *)
(* it relies on (cval/jobs/monitor.py) and every command that appends to   *)
(* the session's durable intents:                                          *)
(*                                                                         *)
(*   Runners     `cval run`: submit a plan under the admission lock;       *)
(*   Validators  `cval validate`: submit one Job, watch it WITHOUT the     *)
(*               lock, then append what was seen;                          *)
(*   Helpers     scripts/cval-live-state.py `update --reconcile` and `job`,*)
(*               run by the live loop, with the loop's gated prune.        *)
(*                                                                         *)
(* A Job identity is one (node, timestamp) pair.  state.json and jobs.csv  *)
(* survive a crash; what a process holds in memory does not.  The event    *)
(* list of an intent is abstracted to what its readers compute from it     *)
(* (record fields below).  The Kubernetes side is external and adversarial *)
(* within Faults: requests that land late or never, deleted, replaced or   *)
(* mutated Jobs, unreadable inventories, failing writes, crashes.          *)
(***************************************************************************)
EXTENDS Naturals, FiniteSets

CONSTANTS
  Jobs,        \* run identities that may ever be planned
  Nodes,       \* cluster nodes
  NodeOf,      \* the node an identity is pinned to
  Runners,     \* `cval run` invocations
  Validators,  \* `cval validate` invocations
  Helpers,     \* state-helper invocations (update --reconcile, job)
  Budget,      \* min(scheduling.batch_size, policy.max_batch_size)
  Cooldown,    \* scheduling.node_cooldown_seconds, in clock ticks
  MaxNow,      \* bound on the clock
  Faults       \* which environment faults may happen

Submitters == Runners \cup Validators
Procs == Submitters \cup Helpers

FaultKinds == {"crash", "write", "lost", "late", "unavailable", "tamper",
               "delete", "replace", "prune"}

NoJob == "no job"
NoProc == "no process"
Own == "own uid"            \* the Job object made by the package's request
Foreign == "foreign uid"    \* a Job object of the same name made by others
NoUid == "no uid"
Uids == {Own, Foreign}

Terminal == {"Completed"}   \* stands for every phase of _TERMINAL_PHASES
Phases == {"Unknown", "Missing", "Pending", "Running"} \cup Terminal
EventStates == {"prepared", "submitting", "not_created", "submitted",
                "observed", "uncertain", "conflict", "tracking_finished"}

ASSUME NodeOfType == NodeOf \in [Jobs -> Nodes]
ASSUME BudgetPositive == Budget \in Nat \ {0}
ASSUME ClockBounds == Cooldown \in Nat /\ MaxNow \in Nat \ {0}
ASSUME FaultsKnown == Faults \subseteq FaultKinds
ASSUME ProcsDistinct ==
  /\ Runners \cap Validators = {} /\ Submitters \cap Helpers = {}
  /\ NoProc \notin Procs /\ NoJob \notin Jobs

VARIABLES
  intents,   \* state.json: what the event list of each intent says
  csv,       \* jobs.csv: projected phase of each Job, or "no row"
  lock,      \* holder of .cval-admission.lock
  pc,        \* what each process does next
  job,       \* the planned or tracked Job of each process
  batch,     \* observations a process has made and not yet retained
  known,     \* validator's copy of the uids in the intent it tracks
  reply,     \* create response a submitter holds in memory
  cluster,   \* the Volcano Job object of each name
  flight,    \* create requests still on their way after the client gave up
  creates,   \* history: create requests sent per identity
  born,      \* history: when the package's own Job object was created
  now        \* clock, from 1

durable == <<intents, csv>>
local == <<pc, job, batch, known, reply>>
world == <<cluster, flight, creates, born>>
vars == <<durable, lock, local, world, now>>

(***************************************************************************)
(* Events and intents.  An intent's fields: last = state of the last       *)
(* event; submitting = some event is `submitting`; uids = uids carried by  *)
(* events; replies = uids in the stdout of successful create responses;    *)
(* phase, uid = those of the last event; created = latest created_at.      *)
(***************************************************************************)
NoIntent == [last |-> "none", submitting |-> FALSE, uids |-> {}, replies |-> {},
             phase |-> "Unknown", uid |-> NoUid, created |-> 0]
Intents == [last : EventStates \cup {"none"}, submitting : BOOLEAN, uids : SUBSET Uids,
            replies : SUBSET Uids, phase : Phases, uid : Uids \cup {NoUid}, created : Nat]

Event == [state : EventStates \cup {"none"}, phase : Phases, uid : Uids \cup {NoUid},
          reply : Uids \cup {NoUid}, created : Nat]
Plain(s) == [state |-> s, phase |-> "Unknown", uid |-> NoUid,
             reply |-> NoUid, created |-> 0]
Identified(e, u) == [e EXCEPT !.uid = u]
NoEvent == Plain("none")    \* no observation is waiting

Logged(i, e) ==
  [last |-> e.state,
   submitting |-> i.submitting \/ e.state = "submitting",
   uids |-> i.uids \cup ({e.uid} \ {NoUid}),
   replies |-> i.replies \cup ({e.reply} \ {NoUid}),
   phase |-> e.phase,
   uid |-> e.uid,
   created |-> IF e.created > i.created THEN e.created ELSE i.created]

KnownUids(i) == i.uids \cup i.replies

\* Faulty variant: a terminal Job phase is enough, whatever its pod does.
tracking_releases_by_phase(i) ==
  i.last \in {"observed", "tracking_finished"} /\ i.uid # NoUid /\ i.uids = {i.uid}
  /\ i.phase \in Terminal

\* Only `not_created` and a terminal, identity-bound observation release an intent.
tracking_releases(i) ==
  i.last = "tracking_finished" /\ i.uid # NoUid /\ i.uids = {i.uid} /\ i.phase \in Terminal
intent_finished(i) == i.last = "not_created" \/ tracking_releases(i)

Exists(j) == intents[j].last # "none"
Unfinished(j) == Exists(j) /\ ~intent_finished(intents[j])

\* Faulty variant: a conflict does not block.
Blocking_but_not_conflicts(j) == Unfinished(j) /\ ~intents[j].submitting

\* An intent that stops every reconciliation before anything is observed.
Blocking(j) == Unfinished(j) /\ (intents[j].last = "conflict" \/ ~intents[j].submitting)

Row(i) == IF i.last \in {"none", "not_created"} \/ ~i.submitting THEN "no row" ELSE i.phase
project_submission_jobs(ledger) == [j \in Jobs |-> Row(ledger[j])]

(***************************************************************************)
(* The cluster: a Volcano Job object and its single pod.                   *)
(***************************************************************************)
NoObject == [uid |-> NoUid, phase |-> "Absent", pod |-> "none",
             deleting |-> FALSE, intact |-> TRUE, at |-> 0]
NewObject(u, ok) == [uid |-> u, phase |-> "Pending", pod |-> "none",
                     deleting |-> FALSE, intact |-> ok, at |-> now]
Objects == [uid : Uids \cup {NoUid}, phase : Phases \cup {"Absent"},
            pod : {"none", "live", "done"}, deleting : BOOLEAN,
            intact : BOOLEAN, at : Nat]

Ended(o) == o.phase \in Terminal /\ o.pod # "live"

\* Faulty variant: the workload is compared but the uid is not.
verify_submission_identity_by_workload(o, uids) == o.uid # NoUid /\ ~o.deleting /\ o.intact

verify_submission_identity(o, uids) ==
  o.uid # NoUid /\ ~o.deleting /\ o.intact /\ uids \subseteq {o.uid}

\* The event _observe_validation_job builds.  Mode "slow" is a log or pod read
\* that fails after the identity was established, "strange" an owned pod that is
\* not the submitted one; both keep the uid and phase already read.
Observation(o, uids, mode) ==
  IF o.phase = "Absent" THEN [Plain("uncertain") EXCEPT !.phase = "Missing"]
  ELSE IF ~verify_submission_identity(o, uids) THEN Plain("conflict")
  ELSE [state |-> CASE mode = "slow" -> "uncertain"
                    [] mode = "strange" -> "conflict"
                    [] OTHER -> IF Ended(o) THEN "tracking_finished" ELSE "observed",
        phase |-> o.phase, uid |-> o.uid, reply |-> NoUid, created |-> o.at]

Modes == {"full"} \cup (IF "unavailable" \in Faults THEN {"slow"} ELSE {})
                  \cup (IF "tamper" \in Faults THEN {"strange"} ELSE {})

\* One inventory of Jobs and pods serves the whole batch, so its failure makes
\* every intent uncertain; log reads fail Job by Job.
Observations(pending, uidsOf) ==
  LET seen(m) == [j \in Jobs |-> IF j \in pending
                                 THEN Observation(cluster[j], uidsOf[j], m[j])
                                 ELSE NoEvent]
      blind == [j \in Jobs |-> IF j \in pending THEN Plain("uncertain") ELSE NoEvent]
  IN {seen(m) : m \in [Jobs -> Modes]}
       \cup (IF "unavailable" \in Faults THEN {blind} ELSE {})

LedgerUids == [j \in Jobs |-> KnownUids(intents[j])]
NoBatch == [j \in Jobs |-> NoEvent]

(***************************************************************************)
(* Durable writes.  retain_submission_event re-reads state.json, appends,  *)
(* replaces it atomically, then rebuilds jobs.csv and the status files.    *)
(* It can fail before the first replacement, between the two or after both *)
(* (a process dying there leaves the same disk).                           *)
(***************************************************************************)
AppendEvent(j, e) == intents' = [intents EXCEPT ![j] = Logged(@, e)]
Retain(j, e) == AppendEvent(j, e) /\ csv' = project_submission_jobs(intents')
RetainFails(j, e) ==
  /\ "write" \in Faults
  /\ \/ UNCHANGED durable
     \/ AppendEvent(j, e) /\ UNCHANGED csv
     \/ Retain(j, e)

Goto(p, l) == pc' = [pc EXCEPT ![p] = l]

\* The command ends, normally or by an exception; closing the descriptor unlocks.
Exit(p) ==
  /\ lock' = IF lock = p THEN NoProc ELSE lock
  /\ Goto(p, "idle")
  /\ job' = [job EXCEPT ![p] = NoJob]
  /\ batch' = [batch EXCEPT ![p] = NoBatch]
  /\ known' = [known EXCEPT ![p] = {}]
  /\ reply' = [reply EXCEPT ![p] = NoObject]

Init ==
  /\ intents = [j \in Jobs |-> NoIntent]
  /\ csv = [j \in Jobs |-> "no row"]
  /\ lock = NoProc
  /\ pc = [p \in Procs |-> "idle"]
  /\ job = [p \in Procs |-> NoJob]
  /\ batch = [p \in Procs |-> NoBatch]
  /\ known = [p \in Procs |-> {}]
  /\ reply = [p \in Procs |-> NoObject]
  /\ cluster = [j \in Jobs |-> NoObject]
  /\ flight = {}
  /\ creates = [j \in Jobs |-> 0]
  /\ born = [j \in Jobs |-> 0]
  /\ now = 1

(***************************************************************************)
(* Reconciliation, under the lock: reconcile_submission_intents.           *)
(***************************************************************************)

\* The lock is taken without waiting; a busy lock rejects the command.
AcquireLock(p) ==
  /\ pc[p] = "idle" /\ lock = NoProc
  /\ lock' = p
  /\ Goto(p, "observe")
  /\ UNCHANGED <<durable, job, batch, known, reply, world, now>>

\* A conflict or a prepared-only record raises before anything is observed.
RefuseBlocked(p) ==
  /\ pc[p] = "observe"
  /\ \E j \in Jobs : Blocking(j)
  /\ Exit(p)
  /\ UNCHANGED <<durable, world, now>>

\* Faulty variants: intents that were already released are observed again, and
\* intents without a receipt are not observed at all.
ObserveBatch_of_everything(p) ==
  /\ pc[p] = "observe"
  /\ \A j \in Jobs : ~Blocking(j)
  /\ \E b \in Observations({j \in Jobs : Exists(j)}, LedgerUids) :
       batch' = [batch EXCEPT ![p] = b]
  /\ Goto(p, "retain")
  /\ UNCHANGED <<durable, lock, job, known, reply, world, now>>
ObserveBatch_of_receipts(p) ==
  /\ pc[p] = "observe"
  /\ \A j \in Jobs : ~Blocking(j)
  /\ \E b \in Observations({j \in Jobs : Unfinished(j) /\ intents[j].uids # {}}, LedgerUids) :
       batch' = [batch EXCEPT ![p] = b]
  /\ Goto(p, "retain")
  /\ UNCHANGED <<durable, lock, job, known, reply, world, now>>

ObserveBatch(p) ==
  /\ pc[p] = "observe"
  /\ \A j \in Jobs : ~Blocking(j)
  /\ \E b \in Observations({j \in Jobs : Unfinished(j)}, LedgerUids) :
       batch' = [batch EXCEPT ![p] = b]
  /\ Goto(p, "retain")
  /\ UNCHANGED <<durable, lock, job, known, reply, world, now>>

RetainObservation(p, j) ==
  /\ pc[p] = "retain" /\ batch[p][j] # NoEvent
  /\ \/ /\ Retain(j, batch[p][j])
        /\ batch' = [batch EXCEPT ![p][j] = NoEvent]
        /\ UNCHANGED <<lock, pc, job, known, reply>>
     \/ RetainFails(j, batch[p][j]) /\ Exit(p)
  /\ UNCHANGED <<world, now>>

\* Faulty variant: reconciliation waits under the lock for what it could not resolve.
RefuseUnresolved_by_waiting(p) ==
  /\ pc[p] = "retain" /\ batch[p] = NoBatch
  /\ \E j \in Jobs : Unfinished(j) /\ intents[j].last # "observed"
  /\ Goto(p, "observe")
  /\ UNCHANGED <<durable, lock, job, batch, known, reply, world, now>>

\* Every pending intent has been appended to; any that is neither observed nor
\* finished keeps its node and slot and ends the command.
RefuseUnresolved(p) ==
  /\ pc[p] = "retain" /\ batch[p] = NoBatch
  /\ \E j \in Jobs : Unfinished(j) /\ intents[j].last # "observed"
  /\ Exit(p)
  /\ UNCHANGED <<durable, world, now>>

\* Faulty variants: unresolved intents are passed over; jobs.csv is not rebuilt.
Reconciled_despite_uncertainty(p) ==
  pc[p] = "retain" /\ batch[p] = NoBatch /\ csv' = project_submission_jobs(intents)
Reconciled_with_old_rows(p) ==
  /\ pc[p] = "retain" /\ batch[p] = NoBatch
  /\ \A j \in Jobs : Unfinished(j) => intents[j].last = "observed"
  /\ UNCHANGED csv

Reconciled(p) ==
  /\ pc[p] = "retain" /\ batch[p] = NoBatch
  /\ \A j \in Jobs : Unfinished(j) => intents[j].last = "observed"
  /\ csv' = project_submission_jobs(intents)

ProjectionFails(p) ==
  /\ "write" \in Faults
  /\ Reconciled(p) \/ (pc[p] = "retain" /\ batch[p] = NoBatch /\ UNCHANGED csv)
  /\ Exit(p)
  /\ UNCHANGED <<intents, world, now>>

SubmitterReconciled(p) ==
  /\ p \in Submitters
  /\ Reconciled(p)
  /\ Goto(p, "select")
  /\ UNCHANGED <<intents, lock, job, batch, known, reply, world, now>>

(***************************************************************************)
(* Submission, still under the lock: submit_workflow_plan, one planned Job *)
(* after another.                                                          *)
(***************************************************************************)
ActiveJobs ==
  {j \in Jobs : \/ Unfinished(j)
                \/ csv[j] \notin Terminal \cup {"no row"}
                \/ cluster[j].phase \notin Terminal \cup {"Absent"}}

\* Faulty variant: the cooldown ends one tick early.
InCooldown_short(n) ==
  Cooldown > 0 /\ \E k \in Jobs : /\ NodeOf[k] = n
                                  /\ intents[k].created > 0
                                  /\ intents[k].created + Cooldown > now + 1

\* The cooldown file only repeats created_at of the session's own intents.
InCooldown(n) ==
  Cooldown > 0 /\ \E k \in Jobs : /\ NodeOf[k] = n
                                  /\ intents[k].created > 0
                                  /\ intents[k].created + Cooldown > now

\* Faulty variants: occupied nodes are not excluded; one Job too many is admitted;
\* an identity is known only by its live Job.
check_active_jobs_any_node(j) ==
  /\ ~Exists(j) /\ csv[j] = "no row" /\ cluster[j].phase = "Absent"
  /\ Cardinality(ActiveJobs) < Budget
check_active_jobs_one_more(j) ==
  /\ ~InCooldown(NodeOf[j])
  /\ ~Exists(j) /\ csv[j] = "no row" /\ cluster[j].phase = "Absent"
  /\ \A k \in ActiveJobs : NodeOf[k] # NodeOf[j]
  /\ Cardinality(ActiveJobs) <= Budget
check_active_jobs_live(j) ==
  /\ cluster[j].phase = "Absent"
  /\ \A k \in ActiveJobs : NodeOf[k] # NodeOf[j]
  /\ Cardinality(ActiveJobs) < Budget

check_active_jobs(j) ==
  /\ ~InCooldown(NodeOf[j])
  /\ ~Exists(j) /\ csv[j] = "no row" /\ cluster[j].phase = "Absent"
  /\ \A k \in ActiveJobs : NodeOf[k] # NodeOf[j]
  /\ Cardinality(ActiveJobs) < Budget

Select(p, j) ==
  /\ pc[p] = "select" /\ check_active_jobs(j)
  /\ job' = [job EXCEPT ![p] = j]
  /\ Goto(p, "prepare")
  /\ UNCHANGED <<durable, lock, batch, known, reply, world, now>>

\* The plan is exhausted, or a check rejected the next Job and stopped the batch.
StopPlan(p) ==
  /\ pc[p] = "select" /\ Exit(p)
  /\ UNCHANGED <<durable, world, now>>

\* Until this write has returned the exception path retains nothing.
Prepare(p) ==
  /\ pc[p] = "prepare"
  /\ \/ /\ Retain(job[p], Plain("prepared"))
        /\ Goto(p, "mark")
        /\ UNCHANGED <<lock, job, batch, known, reply>>
     \/ RetainFails(job[p], Plain("prepared")) /\ Exit(p)
  /\ UNCHANGED <<world, now>>

MarkSubmitting(p) ==
  /\ pc[p] = "mark"
  /\ \/ Retain(job[p], Plain("submitting")) /\ Goto(p, "recheck")
     \/ RetainFails(job[p], Plain("submitting")) /\ Goto(p, "abandon")
  /\ UNCHANGED <<lock, job, batch, known, reply, world, now>>

\* check_node_for_submission: an unreadable or ineligible node stops the create.
RecheckNode(p) ==
  /\ pc[p] = "recheck"
  /\ Goto(p, "create") \/ Goto(p, "abandon")
  /\ UNCHANGED <<durable, lock, job, batch, known, reply, world, now>>

Abandon(p) ==
  /\ pc[p] = "abandon"
  /\ \/ Retain(job[p], Plain("not_created"))
     \/ RetainFails(job[p], Plain("not_created"))
  /\ Exit(p)
  /\ UNCHANGED <<world, now>>

\* kubectl create: answered, refused, created but the answer lost, or given up
\* on while the request is still travelling.
Create(p) ==
  LET j == job[p] IN
  /\ pc[p] = "create"
  /\ creates' = [creates EXCEPT ![j] = @ + 1]
  /\ Goto(p, "replied")
  /\ \/ /\ cluster[j].phase = "Absent"
        /\ \E ok \in {TRUE} \cup (IF "tamper" \in Faults THEN {FALSE} ELSE {}) :
             /\ cluster' = [cluster EXCEPT ![j] = NewObject(Own, ok)]
             /\ reply' = [reply EXCEPT ![p] = NewObject(Own, ok)]
        /\ born' = [born EXCEPT ![j] = now]
        /\ UNCHANGED flight
     \/ UNCHANGED <<cluster, born, flight, reply>>
     \/ /\ "lost" \in Faults /\ cluster[j].phase = "Absent"
        /\ cluster' = [cluster EXCEPT ![j] = NewObject(Own, TRUE)]
        /\ born' = [born EXCEPT ![j] = now]
        /\ UNCHANGED <<flight, reply>>
     \/ /\ "late" \in Faults
        /\ flight' = flight \cup {j}
        /\ UNCHANGED <<cluster, born, reply>>
  /\ UNCHANGED <<durable, lock, job, batch, known, now>>

\* The response is retained as `uncertain` before it is looked at; then a failed
\* response or one that is not the requested workload leaves by the exception path.
RetainResponse(p) ==
  LET j == job[p]
      e == [Plain("uncertain") EXCEPT !.reply = reply[p].uid]
  IN
  /\ pc[p] = "replied"
  /\ \/ /\ Retain(j, e)
        /\ Goto(p, IF reply[p].uid = NoUid THEN "failed"
                   ELSE IF verify_submission_identity(reply[p], KnownUids(intents'[j]))
                        THEN "receipt" ELSE "clash")
     \/ RetainFails(j, e) /\ Goto(p, "failed")
  /\ UNCHANGED <<lock, job, batch, known, reply, world, now>>

RetainReceipt(p) ==
  LET j == job[p]
      e == [state |-> "submitted", phase |-> reply[p].phase, uid |-> reply[p].uid,
            reply |-> NoUid, created |-> reply[p].at]
  IN
  /\ pc[p] = "receipt"
  /\ \/ /\ Retain(j, e)
        /\ reply' = [reply EXCEPT ![p] = NoObject]
        /\ IF p \in Validators
           THEN lock' = NoProc /\ Goto(p, "attach") /\ UNCHANGED job
           ELSE UNCHANGED lock /\ Goto(p, "select") /\ job' = [job EXCEPT ![p] = NoJob]
     \/ RetainFails(j, e) /\ Goto(p, "unsaved") /\ UNCHANGED <<lock, job, reply>>
  /\ UNCHANGED <<batch, known, world, now>>

\* Faulty variant: a create that failed is taken for a create that did not happen.
RetainFailure_as_not_created(p) ==
  /\ pc[p] \in {"failed", "clash", "unsaved"}
  /\ Retain(job[p], Plain("not_created"))
  /\ Exit(p)
  /\ UNCHANGED <<world, now>>

\* The exception path after an attempt: one more event with the response kept,
\* the verified uid when there is one, and the batch stops.
RetainFailure(p) ==
  LET j == job[p]
      e == [Plain(IF pc[p] = "clash" THEN "conflict" ELSE "uncertain") EXCEPT
              !.reply = reply[p].uid,
              !.uid = IF pc[p] = "unsaved" THEN reply[p].uid ELSE NoUid]
  IN
  /\ pc[p] \in {"failed", "clash", "unsaved"}
  /\ Retain(j, e) \/ RetainFails(j, e)
  /\ Exit(p)
  /\ UNCHANGED <<world, now>>

(***************************************************************************)
(* Targeted validation: run_node_validation after its submission.  It      *)
(* copies the intent under the lock, polls without it, and appends its     *)
(* last observation under the lock, whatever was appended meanwhile.       *)
(***************************************************************************)
Attach(p) ==
  /\ pc[p] = "attach"
  /\ IF lock = NoProc
     THEN /\ known' = [known EXCEPT ![p] = KnownUids(intents[job[p]])]
          /\ Goto(p, "poll")
          /\ UNCHANGED <<lock, job, batch, reply>>
     ELSE Exit(p)
  /\ UNCHANGED <<durable, world, now>>

Poll(p) ==
  /\ pc[p] = "poll"
  /\ \E b \in Observations({job[p]}, [j \in Jobs |-> known[p]]) :
       /\ batch' = [batch EXCEPT ![p] = b]
       /\ Goto(p, IF b[job[p]].state = "observed" THEN "poll" ELSE "report")
  /\ UNCHANGED <<durable, lock, job, known, reply, world, now>>

\* The overall timeout or an interrupt: what was seen last is still appended,
\* but no budget is left for verification.
StopPolling(p) ==
  /\ pc[p] = "poll"
  /\ IF batch[p][job[p]] = NoEvent
     THEN Exit(p)
     ELSE Goto(p, "last words") /\ UNCHANGED <<lock, job, batch, known, reply>>
  /\ UNCHANGED <<durable, world, now>>

AppendObservation(p) ==
  LET e == batch[p][job[p]] IN
  /\ pc[p] \in {"report", "last words"}
  /\ \/ /\ lock = NoProc /\ pc[p] = "report"
        /\ Retain(job[p], e)
        /\ Goto(p, "verify")
        /\ UNCHANGED <<lock, job, batch, known, reply>>
     \/ /\ lock = NoProc
        /\ Retain(job[p], e) \/ RetainFails(job[p], e)
        /\ Exit(p)
     \/ lock # NoProc /\ UNCHANGED durable /\ Exit(p)
  /\ UNCHANGED <<world, now>>

\* verify_run_evidence reads the Job again, now against the ledger's uids; a
\* verified identity joins the OLD observation's state and phase.
VerifyEvidence(p) ==
  LET o == cluster[job[p]]
      verified == Ended(o) /\ o.pod = "done"
                  /\ verify_submission_identity(o, KnownUids(intents[job[p]]))
  IN
  /\ pc[p] = "verify"
  /\ \/ lock # NoProc /\ Exit(p)
     \/ /\ lock = NoProc /\ verified /\ batch[p][job[p]].uid \notin {NoUid, o.uid}
        /\ Exit(p)
     \/ /\ lock = NoProc /\ verified /\ batch[p][job[p]].uid \in {NoUid, o.uid}
        /\ batch' = [batch EXCEPT ![p][job[p]] = Identified(@, o.uid)]
        /\ Goto(p, "append")
        /\ UNCHANGED <<lock, job, known, reply>>
     \/ /\ lock = NoProc /\ (~verified \/ "unavailable" \in Faults)
        /\ Goto(p, "append")
        /\ UNCHANGED <<lock, job, batch, known, reply>>
  /\ UNCHANGED <<durable, world, now>>

AppendVerification(p) ==
  LET e == batch[p][job[p]] IN
  /\ pc[p] = "append"
  /\ \/ lock = NoProc /\ (Retain(job[p], e) \/ RetainFails(job[p], e))
     \/ lock # NoProc /\ UNCHANGED durable
  /\ Exit(p)
  /\ UNCHANGED <<world, now>>

(***************************************************************************)
(* The live loop's helper commands: `update --reconcile`, the gated prune  *)
(* of a Job its report shows Pending, and `job`, which retains one exact   *)
(* observation after the delete.                                           *)
(***************************************************************************)
HelperReconciled(p) ==
  /\ p \in Helpers
  /\ Reconciled(p)
  /\ \/ Exit(p)
     \/ \E j \in Jobs :
          /\ "prune" \in Faults
          /\ Unfinished(j) /\ intents[j].phase = "Pending" /\ intents[j].created > 0
          /\ lock' = NoProc
          /\ job' = [job EXCEPT ![p] = j]
          /\ Goto(p, "prune")
          /\ UNCHANGED <<batch, known, reply>>
  /\ UNCHANGED <<intents, world, now>>

\* The delete is by name: the Job may have started since it was reported.
Prune(p) ==
  LET j == job[p] IN
  /\ pc[p] = "prune"
  /\ cluster' = [cluster EXCEPT ![j].deleting = (@ \/ cluster[j].phase # "Absent")]
  /\ \/ Goto(p, "note") /\ UNCHANGED <<lock, job, batch, known, reply>>
     \/ Exit(p)
  /\ UNCHANGED <<durable, flight, creates, born, now>>

ObserveForJob(p) ==
  LET j == job[p] IN
  /\ pc[p] = "note"
  /\ IF lock = NoProc /\ intents[j].last # "conflict"
     THEN /\ lock' = p
          /\ \E b \in Observations({j}, LedgerUids) : batch' = [batch EXCEPT ![p] = b]
          /\ Goto(p, "noting")
          /\ UNCHANGED <<job, known, reply>>
     ELSE Exit(p)
  /\ UNCHANGED <<durable, world, now>>

RetainJob(p) ==
  /\ pc[p] = "noting"
  /\ Retain(job[p], batch[p][job[p]]) \/ RetainFails(job[p], batch[p][job[p]])
  /\ Exit(p)
  /\ UNCHANGED <<world, now>>

(***************************************************************************)
(* The environment: Volcano, other operators, and the clock.               *)
(***************************************************************************)
SetObject(j, o) == cluster' = [cluster EXCEPT ![j] = o]

StartJob(j) ==
  /\ cluster[j].phase = "Pending" /\ ~cluster[j].deleting
  /\ SetObject(j, [cluster[j] EXCEPT !.phase = "Running", !.pod = "live"])
  /\ UNCHANGED <<flight, creates, born>>

\* The Job's phase and its pod's phase are reported independently.
EndJob(j) ==
  /\ cluster[j].phase = "Running"
  /\ SetObject(j, [cluster[j] EXCEPT !.phase = "Completed"])
  /\ UNCHANGED <<flight, creates, born>>

EndPod(j) ==
  /\ cluster[j].pod = "live"
  /\ SetObject(j, [cluster[j] EXCEPT !.pod = "done"])
  /\ UNCHANGED <<flight, creates, born>>

\* An operator deletes the Job; the object goes once its pod has stopped.
DeleteJob(j) ==
  /\ "delete" \in Faults /\ cluster[j].phase # "Absent" /\ ~cluster[j].deleting
  /\ SetObject(j, [cluster[j] EXCEPT !.deleting = TRUE])
  /\ UNCHANGED <<flight, creates, born>>

VanishJob(j) ==
  /\ cluster[j].deleting /\ cluster[j].pod # "live"
  /\ SetObject(j, NoObject)
  /\ UNCHANGED <<flight, creates, born>>

\* Somebody creates a Job under the name of one that is gone.
ReplaceJob(j) ==
  /\ "replace" \in Faults /\ cluster[j].phase = "Absent"
  /\ born[j] > 0 /\ j \notin flight
  /\ SetObject(j, NewObject(Foreign, TRUE))
  /\ UNCHANGED <<flight, creates, born>>

\* A create request the client gave up on reaches the server, or never does.
LandCreate(j) ==
  /\ j \in flight
  /\ flight' = flight \ {j}
  /\ IF cluster[j].phase = "Absent"
     THEN /\ SetObject(j, NewObject(Own, TRUE)) /\ born' = [born EXCEPT ![j] = now]
     ELSE UNCHANGED <<cluster, born>>
  /\ UNCHANGED creates

DropCreate(j) ==
  /\ j \in flight
  /\ flight' = flight \ {j}
  /\ UNCHANGED <<cluster, creates, born>>

Environment(j) ==
  /\ \/ StartJob(j) \/ EndJob(j) \/ EndPod(j)
     \/ DeleteJob(j) \/ VanishJob(j) \/ ReplaceJob(j)
     \/ LandCreate(j) \/ DropCreate(j)
  /\ UNCHANGED <<durable, lock, local, now>>

Tick ==
  /\ now < MaxNow
  /\ now' = now + 1
  /\ UNCHANGED <<durable, lock, local, world>>

\* A crash or kill: the kernel releases the lock, memory is lost.
Crash(p) ==
  /\ "crash" \in Faults /\ pc[p] # "idle"
  /\ Exit(p)
  /\ UNCHANGED <<durable, world, now>>

Reconciling(p) ==
  \/ AcquireLock(p) \/ RefuseBlocked(p) \/ ObserveBatch(p)
  \/ \E j \in Jobs : RetainObservation(p, j)
  \/ RefuseUnresolved(p) \/ ProjectionFails(p)

Submitting(p) ==
  \/ SubmitterReconciled(p)
  \/ \E j \in Jobs : Select(p, j)
  \/ StopPlan(p) \/ Prepare(p) \/ MarkSubmitting(p) \/ RecheckNode(p)
  \/ Abandon(p) \/ Create(p) \/ RetainResponse(p) \/ RetainReceipt(p)
  \/ RetainFailure(p)

Tracking(p) ==
  \/ Attach(p) \/ Poll(p) \/ StopPolling(p) \/ AppendObservation(p)
  \/ VerifyEvidence(p) \/ AppendVerification(p)

Helping(p) == HelperReconciled(p) \/ Prune(p) \/ ObserveForJob(p) \/ RetainJob(p)

Step(p) == Reconciling(p) \/ Submitting(p) \/ Tracking(p) \/ Helping(p)

Next ==
  \/ \E p \in Procs : Step(p) \/ Crash(p)
  \/ \E j \in Jobs : Environment(j)
  \/ Tick

Spec == Init /\ [][Next]_vars

PCs == {"idle", "observe", "retain", "select", "prepare", "mark", "recheck",
        "abandon", "create", "replied", "receipt", "failed", "clash", "unsaved",
        "attach", "poll", "report", "last words", "verify", "append",
        "prune", "note", "noting"}
Locked == {"observe", "retain", "select", "prepare", "mark", "recheck", "abandon",
           "create", "replied", "receipt", "failed", "clash", "unsaved", "noting"}

TypeOK ==
  /\ intents \in [Jobs -> Intents]
  /\ csv \in [Jobs -> Phases \cup {"no row"}]
  /\ lock \in Procs \cup {NoProc}
  /\ pc \in [Procs -> PCs]
  /\ job \in [Procs -> Jobs \cup {NoJob}]
  /\ batch \in [Procs -> [Jobs -> Event]]
  /\ known \in [Procs -> SUBSET Uids]
  /\ reply \in [Procs -> Objects]
  /\ cluster \in [Jobs -> Objects]
  /\ flight \subseteq Jobs
  /\ creates \in [Jobs -> Nat]
  /\ born \in [Jobs -> Nat]
  /\ now \in Nat

(***************************************************************************)
(* Safety.                                                                 *)
(***************************************************************************)

\* Work the package has caused or may still cause for an identity: a create about
\* to be sent, a request on its way, or its own Job not yet ended.
Outstanding(j) ==
  \/ \E p \in Procs : pc[p] = "create" /\ job[p] = j
  \/ j \in flight
  \/ cluster[j].uid = Own /\ ~Ended(cluster[j])

\* Whatever is lost, retried, raced or crashed, no identity is ever sent to the
\* cluster twice (manager.py: "never recreate it").
CreatedAtMostOnce == \A j \in Jobs : creates[j] <= 1

\* A node and slot are released only when nothing the package started for them can
\* run any more: outstanding work always has an unfinished durable intent.
ReservationCoversWork == \A j \in Jobs : Outstanding(j) => Unfinished(j)

\* Two identities never have outstanding work on the same node, even when the
\* receipts of one of them were lost.
NodeExclusive ==
  \A j, k \in Jobs : Outstanding(j) /\ Outstanding(k) /\ j # k => NodeOf[j] # NodeOf[k]

\* The shared inflight budget bounds the work that may really exist, not only the
\* work that was confirmed.
BudgetRespected == Cardinality({j \in Jobs : Outstanding(j)}) <= Budget

\* `not_created` releases a node without any observation, so it must be the truth.
NotCreatedIsTrue ==
  \A j \in Jobs : intents[j].last = "not_created" => creates[j] = 0 /\ born[j] = 0

\* An intent never mixes two Job objects: receipts, responses and observations of
\* every process agree on one uid, also when the Job was replaced under its name.
OneIdentity == \A j \in Jobs : Cardinality(KnownUids(intents[j])) <= 1

\* Two of the package's Jobs on one node start at least a cooldown apart, measured
\* at the server, also when the first one's receipt was lost.
CooldownHonoured ==
  \A j, k \in Jobs :
    j # k /\ NodeOf[j] = NodeOf[k] /\ born[j] > 0 /\ born[k] >= born[j]
      => born[k] >= born[j] + Cooldown

\* jobs.csv may lag behind state.json after a failed write, but admission decides
\* only after it has been rebuilt.
AdmissionSeesFreshRows ==
  \A p \in Procs : pc[p] = "select" => csv = project_submission_jobs(intents)

\* A create is sent only when every other intent is finished or was confirmed by
\* an exact read or receipt: uncertainty anywhere stops admission everywhere.
CreateNeedsSettledLedger ==
  [][\A j \in Jobs : creates'[j] # creates[j] =>
       \A k \in Jobs \ {j} : Unfinished(k) => intents[k].last \in {"observed", "submitted"}]_vars

\* A conflict stays until somebody reconciles it explicitly: no command of the
\* package appends over it.
ConflictIsRetained ==
  [][\A j \in Jobs : intents[j].last = "conflict" => intents'[j].last = "conflict"]_vars

\* A released reservation is never taken back: the slot may already be another's.
ReleaseIsFinal ==
  [][\A j \in Jobs : Exists(j) /\ ~Unfinished(j) => intent_finished(intents'[j])]_vars
(***************************************************************************)
(* Liveness.  A command that holds the lock runs on; commands keep coming  *)
(* (the live loop polls), whoever they are, since submitters and helpers   *)
(* reconcile alike; a readable inventory comes again and again; a pod that *)
(* was started ends, which its own timeouts see to.                        *)
(***************************************************************************)
ReadInventory(p) ==
  /\ ObserveBatch(p)
  /\ batch'[p] = [j \in Jobs |-> IF Unfinished(j)
                                 THEN Observation(cluster[j], LedgerUids[j], "full")
                                 ELSE NoEvent]

Workload(j) ==
  /\ StartJob(j) \/ EndJob(j) \/ EndPod(j)
  /\ UNCHANGED <<durable, lock, local, now>>

Fairness ==
  /\ \A p \in Procs : WF_vars(pc[p] # "idle" /\ Step(p))
  /\ WF_vars(\E p \in Procs : AcquireLock(p))
  /\ SF_vars(\E p \in Procs : ReadInventory(p))
  /\ \A j \in Jobs : WF_vars(Workload(j))

FairSpec == Spec /\ Fairness

\* The admission lock is held for short transitions only, never through a Job.
LockIsReleased == \A p \in Procs : lock = p ~> lock # p

\* A Job that was created, with or without a receipt, gives its node and slot back
\* after it ends, however uncertain the other intents are.  (Where a Job may be deleted
\* this is false by design: its conflict blocks reconciliation until an operator acts.)
JobIsEventuallyReleased == \A j \in Jobs : born[j] > 0 ~> ~Unfinished(j)

==============================================================================

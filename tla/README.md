# TLA+ model of c-val

c-val validates GPU nodes of a Kubernetes cluster: it picks nodes, submits one
Volcano Job per node, watches the Job, runs the tests inside it under a
supervisor, ingests the results into SQLite stores and reports. This directory
holds TLA+ modules for the parts of it where the order of steps matters, TLC
configurations that check them on small instances, and TLAPS proofs of the most
important properties for every value of the constants.

`PROJECT.json` lists, for every definition that models code, the lines it stands
for; the hazards each property is aimed at; the runs; and for every property of
a passing run one deliberately faulty variant of a definition (such as
`check_active_jobs_live` or `ScanRun_forgetful`, written before the definition
it stands in for) with which the same run fails.

## 1. Inventory

| Component | State it keeps | Operations | Interacts with | What is hard |
| --- | --- | --- | --- | --- |
| Admission (`cval/jobs/manager.py`) | `state.json` (durable intents with event lists), `jobs.csv`, `.cval-admission.lock` | reconcile, check active Jobs and cooldown, prepare, create, retain the outcome | kubectl; the helper and `cval validate` write the same intents | lost or late creates, crash between any two steps, failing writes, other writers |
| Observer (`cval/jobs/monitor.py`) | none | one inventory of Jobs and pods, log reads | admission, validate, helper | unreadable inventories, replaced or mutated Jobs, two reads at different times |
| Targeted validation (`cval/orchestrator/validate.py`) | an in-memory copy of one intent | submit, poll without the lock, append, verify, append | admission, verification | appends stale observations |
| State helper (`scripts/cval-live-state.py`) | session directory | init, update, reconcile, job, receipt, status | live loop, admission | writes back a copy of the state |
| Live loop (`scripts/cval-live.sh`, `cval/scheduler`, `cval-node-cooldown.py`) | loop lock, worktree, cycle directories, `node_cool_down.csv` | resume, watch, plan, check nodes, submit, prune, sleep | all of the above | restart in the middle of a cycle, nodes that fail again and again, a queue longer than its page |
| Verification (`cval/storage/verification.py`) | none | exact-run evidence, identity | validate | evidence changes while it is read |
| Supervisor (`cval/validation/supervisor.py`) | run layout, sealed result, `job.log`, `result.json`, release marker | reserve, run children, seal, ingest, publish | runner, run ingestion, plugins | signals, timeouts, descendants, publication exactly once |
| Runner (`cval/validation/runner.py`, `execution.py`, `results.py`) | the result document in memory, the buffer it is rewritten to | run each test's setup and entrypoint, record every transition | supervisor, tests | signals and exceptions between any two statements, torn writes, a document that its own parser refuses |
| Run ingestion, provenance (`cval/storage/run_ingest.py`, `write_provenance.py`) | six SQLite stores and `validation.db` | authorize, write per store, acknowledge | supervisor | one store of several failing, retry of what was done |
| DL metric stores (`validation-tests/dltest/ingest.py`, `scripts/dl-metric-lock.py`) | four SQLite stores with rows, receipts and a generation stamp; one lock file | ingest a run under the lock; rebuild from the evidence; sample the generation | run ingestion, `cval db-rebuild-dltest-metrics`, verification | four transactions per publication, a rebuild without the lock, readers without it |
| Status projection (`cval/storage/status.py`, `status --watch`) | `node-status.csv`, `cluster-status.yaml`, an observation cache | collect without the lock, project, replace one file and then the other, read | admission, helper | pairs of different generations, observations older than an attempt, session turnover |
| Backup (`scripts/cval-backup.py`) | staging and final backup directories | inventory, copy, revalidate, publish, clean up, verify | operator, whoever writes | writers that have not stopped, death at any step, two runs of one second |
| PVC layout (`scripts/cval-pvc-layout.py`) | archives and their manifests; transactions beside a backup; a lock in each directory | plan, apply, roll back an archive or a consolidation | operator, backups | interrupted moves and interrupted rollbacks, retries over them, two operators |
| SQLite journal (`scripts/cval-sqlite-journal.py`) | backup roots and manifests | compare generations, back up, convert | operator, DL ingestion | conversions and publications in turn, death between backup and conversion |
| Kubernetes access (`cval/k8s`) | none | kubectl calls, node discovery | everything | a failed call may have had its effect |
| Rendering, config, policy, registry, plugins, CLI, exports | none | pure functions | everything | nothing that a state machine shows better than a unit test |

What makes each correct: admission must never send an identity twice, never
give a node or slot away while work for it may run, never exceed budget or
cooldown, and still give everything back eventually; the observer must not bind
one intent to two Jobs; the run pipeline must publish one result that claims only
what was committed; the runner must never record more than its tests did, nor say it
succeeded with a buffer that is not final; the DL stores must never look complete
while they differ, keep what was ingested, and be repairable; the live loop must
track every Job it left and starve no node; the status reports must be readable as
one generation and list every attempt that may still run; a backup must be a
snapshot or be refused; maintenance must lose nothing and be reversible wherever it died.

## 2. Plan

In the order of importance; (done) marks what this directory holds.

1. `Admission` (done): everything that touches the durable intents.
   `Reservation` (done): what admission promises; `AdmissionReservation` (done):
   the refinement mapping; `AdmissionInvariant` and `AdmissionProofs` (done): the
   inductive invariant and the proofs, the refinement included.
2. `RunPipeline` (done): supervisor, runner and ingestion of one run, with signals,
   timeouts, failing stores, torn buffers and the end of the pod. `RunEvidence`
   (done): what a run promises about its evidence, and the refinement;
   `RunPipelineInvariant`, `RunPipelineProofs` (done): the inductive invariant and the
   proofs. `TestRunner` (done): the runner child as a program, statement by statement, with
   the parser of its document; `TestRunnerInvariant` (done): its inductive invariant. Its proofs
   are the second half of `RunPipelineProofs`, the last of them that this program is a
   child `RunPipeline` may have.
3. `DlGeneration` (done): the DL metric stores with locked ingestion, the rebuild
   and the reads of verification; `DlGenerationProofs` (done): all its properties but
   liveness.
4. `LiveLoop` (done): the controller with its queue, slots, cooldown, faults and
   restarts; `LiveLoopProofs` (done): all its properties but liveness.
5. The tools around the volume, each a module, checked together by `MCMaintenance`
   (done): `PvcArchive`, `PvcConsolidation`, `Backup`, `JournalMigration`, and the
   status reports, `StatusPair`; with `PvcArchiveProofs`, `PvcConsolidationProofs`,
   `BackupProofs` (backup and journal) and `StatusPairProofs` (done): all their properties.
6. Left: `LogTracking`, the observer's incremental log reads against the fold of the
   whole event log.
7. Proofs left: none that the prover reaches; section 10 says what stays with TLC and why.

## 3. Admission

### State

| Variable | Code |
| --- | --- |
| `intents` | `state.json`: per Job name, what the event list says: last event's state, phase, uid; whether some event is `submitting`; uids of events; uids in the stdout of successful creates; latest `created_at` |
| `csv` | `jobs.csv`, a projection of the intents that can lag behind after a failed write |
| `lock` | `flock` on `.cval-admission.lock`; the kernel releases it when its process ends |
| `pc`, `job`, `batch`, `known`, `reply` | memory of each command: program point, its Job, observations not yet retained, the uids validate copied, the create response |
| `cluster`, `flight` | the Volcano Job of each name with its pod; create requests still travelling (external) |
| `creates`, `born` | history variables, read by properties only, except that `ReplaceJob` uses `born` to occur only after a creation |
| `now` | the clock of the cooldown |

A Job identity is a (node, timestamp) pair and names intent, run and Volcano Job.
The processes are command invocations and start again and again: `Runners`
(`cval run`), `Validators` (`cval validate`) and `Helpers` (`cval-live-state.py update --reconcile`,
the loop's prune and `job`).

### Actions

`AcquireLock`, `RefuseBlocked`, `ObserveBatch`, `RetainObservation`,
`RefuseUnresolved`, `Reconciled` and `ProjectionFails` are
`reconcile_submission_intents`, shared by submitters and helpers; `Select` to
`RetainFailure` are the body of `submit_workflow_plan`, one action per durable
write or kubectl call, because each is a point where a crash, a failure or
another process can come in between; `Attach` to `AppendVerification` are
`run_node_validation` after its submission; `HelperReconciled`, `Prune`,
`ObserveForJob` and `RetainJob` are the live loop's use of the helper. `RetainFails`
is a write that fails before the first replacement, between `state.json` and
`jobs.csv`, or after both. `Crash` drops memory and the lock.

Abstractions: one terminal phase stands for all of them; the two inventory
calls of an observation are one step; the status CSVs written after
`jobs.csv` are not distinguished from it; policy checks, rendering and approval
records are constants of the session; a successful create whose stdout is not
JSON counts as a failed answer; the cooldown file, which only repeats
`created_at`, is not a variable; the events `verification_finished` that the schema
allows are never written by the code (an observation always has a state) and do
not occur.

### Properties and what they rest on

* `CreatedAtMostOnce`, `ReservationCoversWork`, `NodeExclusive`,
  `NotCreatedIsTrue`, `AdmissionSeesFreshRows`, `CreateNeedsSettledLedger`,
  `BudgetRespected`, `CooldownHonoured`, `OneIdentity`: checked, and proved for all
  constants (section 10; the budget for finite sets of Jobs).
* `ConflictIsRetained` and `ReleaseIsFinal` hold for submitters and helpers
  without pruning (`admission_submit`). They do not hold once `cval validate` runs, because it
  appends an old observation; `admission_conflict` is that counterexample for
  conflicts and is recorded as a finding, since the architecture document says
  that a conflict is retained and blocks further admission. The stale append
  never frees a node (`ReservationCoversWork` in `admission_validate`), and it can
  take a release back, which is why the refinement is claimed without validators.
* `ImplementsReservation`: every step of submitters, helper, cluster and faults is a
  step of `Reservation` or invisible to it.
* `LockIsReleased`, `JobIsEventuallyReleased`: liveness.

### Runs

| Run | Instance | Why these bounds |
| --- | --- | --- |
| `admission_submit` | two identities of one node, one submitter, one helper, budget 2, cooldown 2, clock to 3; crash, write, lost, late, unavailable, delete | two identities on one node are what node exclusion and the cooldown are about, and two ticks tell "too early" from "in time"; the lock admits one writer at a time, so two processes give every order of two commands; budget 2 leaves the node check to decide |
| `admission_validate` | one identity, one validator, one helper; all faults | stale appends, prunes and replacements concern one intent |
| `admission_tracking` | three identities on three nodes, one submitter, budget 2; lost, late | the third identity meets a full budget with a free node; uncertainty of one intent refuses the command of the others |
| `admission_conflict` | one identity, a validator and a helper, deletion | the shortest instance with a conflict and a stale observation |

`MaxNow` bounds the clock and nothing else is capped: `creates` is bounded by
the property that is checked, event lists are folded into sets.

### Fairness

`FairSpec` assumes weak fairness of every step of a command that has started
(kubectl calls have timeouts), that some command takes a free lock again and again
(the live loop polls), that readable inventories recur (strong fairness of
`ReadInventory`: an outage ends), and that a Job that started ends (its own
timeouts). No fairness is assumed of crashes, failed reads, late requests or the clock.
In `admission_tracking` inventories are always readable (`admission_submit` has the outages; with
three identities and liveness they are too many states for TLC), so the promise it checks is about
lost answers and late requests. Nothing is deleted: after a delete an intent remains uncertain or
in conflict until an operator acts, which is documented behaviour. Failing
writes are left out as well: when the write of `prepared` reaches the disk and still
reports an error (`manager.py:591`), `submit_workflow_plan` does not know that it has an
intent and appends nothing to it. The record blocks every later admission until an
operator reconciles it. That is safe, and it is why nothing is promised to be
released there.

## 4. RunPipeline

### State

| Variable | Code |
| --- | --- |
| `sup` | where `run_validation` is: from the reservation of the run directory over the two child stages and the release of the marker to its `finally` block and the publication of `result.json` |
| `child`, `childExit` | the supervised process of the stage (`active`): the runner or the ingestion, in a phase of its work, ended, or started and never registered |
| `workload` | a setup or entrypoint process, which has a session of its own |
| `buffer` | the anonymous result file: whether it is whole JSON, and the state of each test |
| `current`, `claims` | the stores of the writer at work and the `stores` dictionary of `ingest_run` |
| `stored` | which databases hold this run's rows |
| `log` | `job.log`: the last `ingestion_completed` and the last `run_completed` event |
| `result`, `ack`, `ingestion`, `captured`, `exitCode` | locals of `run_validation` |
| `marker`, `receipt`, `podExit` | `.run-active`, `result.json`, the container's exit code |

### Actions

The runner (`RunnerStarts` to `RunnerCrashes`) rewrites the buffer at each
transition of a test. The ingestion child (`IngestionStarts` to `IngestionEnds`)
runs one writer per passing test in the order of the tests, each store being a
transaction, and the status rows last; `GiveUp` is its error path. The
supervisor launches a child, judges what it returned, and goes on only on
success (`Reserve` to `Finish`); `Timeout`, `Interrupt` and `Abort` all lead to
the `finally` block (`Summarize`, `Publish`, `ClosingFails`). `Terminate` is
`terminate_process_group`: an interrupted runner may leave the buffer as it was, torn, or one
transition of one test ahead (`Ahead`; `TestRunner` shows that these are all), an
interrupted ingestion may leave a failed acknowledgement or none. Writes are authorized
against the sealed result before the first store and again before every commit
(`authorize_result_write`, `validate_current_write`, from `write_provenance.py`).
`completion_confirmed` is the monitor's verdict over the event log and the pod,
`recording_complete` that of the readers of `result.json`.

`InterruptLaunch` is a signal between the creation of a child and the assignment that
makes it known to the handler. That child is not terminated. It dies at
its first event, because nobody reads its output any more (`StrayEnds`), but a
stray runner may have initialized the buffer before (`StrayWrites`);
`PublishedIsFinal` says what remains true then.

Abstractions: every nonzero exit code is 1; a failed check of a descriptor, digest or
layout is `Abort`; the transaction of one store is one step; a process group that
survives SIGKILL, plugins that end the runner with code 0, and the content
of metrics are left out, as are the databases' locks between runs.

### Properties

* `ClaimsAreTrue`: what acknowledgement and receipt say of the databases is so,
  including "not required" and "not started".
* `StatusLast` (the status database holds a run only after everything else it needs, wherever
  a child or the pod is killed), `OnlyFinalResults` (the databases hold final results only) and
  `MarkerMeansRecorded` (a released marker means complete databases) are proved and have no
  run of their own; the first and the last are parts of what the properties below say.
* `PublishedIsFinal`: what `result.json` says of the tests is the last the runner recorded, and no
  child is left that could still change the buffer or a database.
* `SuccessIsPublished`, `ConfirmedIsTrue`: what the exit code, a receipt that its readers take
  for complete, and the monitor's confirmation imply.
* `ImplementsRunEvidence`: each step concludes the outcome, commits one store in order,
  publishes one true receipt, or is invisible to `RunEvidence`.
* `RunEnds`: liveness.
* `NoBenchmarkOutlivesItsStage` (`run_orphan`) is what the architecture document
  says of process cleanup; a runner that is killed rather than terminated leaves its
  benchmark behind, and the run is the counterexample.

### Runs, bounds, fairness

`run_pipeline` and `run_orphan` use three tests and five stores: one test with two
stores, so that a writer can fail between its stores; one store whose owner is
not selected, so that "not required" differs from "failed"; three tests, so that
outcomes mix before and after the test with two stores. Nothing is capped: a run is
finite. Deadlock is not checked because the pod ends.

`Spec` assumes weak fairness of the supervisor's steps only. Both stages wait with
a deadline, the grace period of a termination is bounded, and everything else in
`run_validation` is sequential, so the supervisor always moves on. No fairness is
assumed of the children: `RunEnds` holds when they hang.

## 5. TestRunner

`RunPipeline` has one action for each transition of the runner. `TestRunner` is the program
behind them: what happens between two transitions, where exceptions go, and what is in the
buffer then.

### State

| Variable | Code |
| --- | --- |
| `point`, `at` | the statement of `run_validation_tests`, `_execute_registry` or `_run_one_test` that is next; the test it is about |
| `tests`, `completed` | `result["tests"]` (phase, status, times, exit code) and `result["completed_at"]`, in memory |
| `opened`, `file` | the buffer: whether a rewrite has truncated it, whether it is whole, the last document in it |
| `process` | the setup or entrypoint process: none, started but unknown to `terminate_active`, active |
| `now` | the wall clock of `utc_now`, which may step back |
| `exit` | the exit code of `main` |
| `faults` | how many faults have occurred (a bound) |
| `launched`, `returned`, `seen` | history: a process was started for the test whose end is not recorded; the tests whose entrypoint returned 0 in time and clean; what was in the buffer when the first signal arrived |

### Actions

`OpenBuffer` and `DumpBuffer` are `_write_state`: complete the document, parse it
(`parse_validation_result_v2`, the rules of `results.py` for phases, statuses, exit codes
and times), open and truncate, dump. `NextTest`, `SetupReturns`, `WorkloadReturns` and
`FinishInHandler` change the document, each before the write that records it; `Spawn` and
`Register` are the two halves of starting a process, between which a signal does not know it.
`Raise` says where an exception goes from each statement: to the `except` clauses of the test,
of the run, or of `main`. `handle_signal` and `Error` raise one at any statement, `Kill` ends
the program there, `ClockStepsBack` is an adjusted clock.

Abstractions: a deadline that is exceeded and a descendant left behind are one outcome (`clean`
is FALSE), and end in `timed_out`; a write fails as a whole; disabled tests only cause
an event; the environment of a test, its paths and the threads that read its output are errors at
most; exit codes of a test other than 0 are 1.

### Properties

* `PassIsEarned`: a pass in the buffer belongs to an entrypoint that returned zero in time and
  left nothing running, whatever failed or was interrupted since.
* `ExitZeroIsFinal`: a runner that exits zero leaves a whole buffer with its last document, all
  tests finished, none interrupted, in the order of their times. This needs the parser:
  with `parse_anything` a clock that steps back breaks it.
* `RunsAsChild`: under a refinement mapping of the variables (`Supervisor`, `Child`,
  `Workload`, `Buffer`) every step is one of `RunPipeline`'s runner, or its `Interrupt`, or
  invisible. What an interrupted runner does until it ends is one step there, because the supervisor
  only waits for it; so the mapped buffer stays what it was at the first signal (`seen`).

Two consequences of the code that the invariant allows and the properties do not exclude. When the
last test has finished, `completed_at` of the run is set by the write that records it, and kept
(`runner.py:654`): if that write's event then fails, the failure the handler records is later
than the end of the run, the parser refuses the document, and the runner exits 1. And the `try`
block of a test begins after its first write (`runner.py:302`): an interruption between the two leaves
the test in `setup` in the buffer of an interrupted run.

### Runs and bounds

`test_runner` has two tests, so that there is one before and one after each; two faults, so that one meets
the handling of another; and a clock of four values, which suffices for every order
of the times of one test and the run's end.
Deadlock is not checked because the program ends, and no fairness is assumed: that
the runner ends is the business of its supervisor's deadline (`RunEnds`).

## 6. DlGeneration

### State

| Variable | Code |
| --- | --- |
| `evidence` | rank files and `summary.json` of a run on the volume (external): absent, without a passing summary, passing, or removed |
| `rows` | per store, the runs whose rows and receipt (`cval_ingested_runs`) it holds; both change in one transaction |
| `stamp` | per store, the row of `cval_ingest_metadata`: who wrote last, in which attempt, `in_progress` or `complete` |
| `lock` | the POSIX lock on `.dl-metric-ingest.lock` |
| `pc`, `at`, `tries`, `seenSets`, `job` | locals of each writer: its phase, the store it comes to, the retries used, the receipts it has read, and for a rebuild what `ingest_dltest_results` has found so far |
| `confirmed` | history: ingestions that returned their receipts |
| `reader` | the locals of one attempt of `_dl` in verification |

### Actions

Ingestion (`StartIngest` to `ReturnReceipts`) takes the lock, writes one store
after the other under a generation `in_progress`, compares the receipts of all
stores, stamps them `complete` and leaves. `Busy` is `retry_sqlite`, which repeats
all of it under a new generation. The rebuild (`StartRebuild` to `ReturnSummary`)
writes what the scan of the evidence finds in batches; without `--only-missing` it
then removes what the scan did not find valid. `Fail` is an error without retry, a
kill or a crash of either at any step. Verification reads all generations, the rows
of each store, and all generations again (`ReadBefore`, `ReadRows`, `ReadAfter`).

`Overlap` says whether maintenance may run while ingestions do. Nothing in the code
prevents it, because the rebuild takes no lock; FALSE is maintenance on its own, which
the overview's "separate maintenance approval" suggests and nothing enforces.

Abstractions: the rows and receipt of a run are one member of a set; a store's file
appears with its first transaction; what a schema check, WAL journal, duplicated run key
or conflicting evidence does is `Fail`; the results root covers all runs; retries of a
verification are further verifications; the lock helper as a command of its own is left out.

### Properties

* `CompleteMeansEqual`: one complete generation in all stores implies equal stores. It
  holds while maintenance does not overlap; `dl_overlap` is the counterexample otherwise,
  recorded as a finding since the documents say that the generation detects concurrent
  writes.
* `ConclusiveIsUniform`: a verification that found one generation before and after its reads
  saw the run in all stores or in none.
* `ConfirmedIsStored`: an ingested run stays in every store while its evidence exists.
* `RebuildRestores`: a rebuild that returns has repaired what others left.
* `IngestionEnds`: liveness.

A remark on the rebuild: the operations runbook (`operations-runbook.md:680-681`) says it
does not delete rows. That is so with `--only-missing`; without, it removes the rows
of runs its scan did not find valid.

### Runs, bounds, fairness

`dl_stores` has two runs, one of which is verified, two rebuilds, three stores and two
attempts. Two ingestions give every order at the lock, and a reader between two
publications; two attempts give one retry and one exhausted policy; the second rebuild
repairs what the first one left; a batch of one run makes two batches. The code has four
stores, which are treated alike except that they come in order: a first, a last, and one
between them show every difference a partial pass can leave. The constraint
`SecondRebuildOrReader` leaves out behaviours in which both a second rebuild and a
verification take place; each of them meets everything else. It does not make the
liveness property vacuous, because no step of an ingestion leads out of the bound.
`dl_overlap` needs one rebuild and two stores. Nothing else is bounded: each run is
ingested once. Deadlock is not checked because everybody ends.

`FairSpec` assumes weak fairness of the steps of each ingestion. `lockf` blocks without
a timeout, the retries are bounded, and a dead holder loses the lock to the kernel. Each
run asks for the lock once, so weak fairness suffices.

## 7. LiveLoop

### State

| Variable | Code |
| --- | --- |
| `order`, `expired` | each node's place in the coverage as `build_priority_queue` sorts it: never tested first, then by last complete run; the first `expired` of them are due. A queue, page or plan is a set of nodes, served in this order |
| `busy` | nodes whose GPUs other workloads occupy (external) |
| `job` | per node, its intent that is not finished in the session's journal, with its Job: pending, running, ended (the next reconciliation finishes it), or gone (deleted: the intent stays uncertain) |
| `cooling` | nodes recorded in `node_cool_down.csv` less than the cooldown ago |
| `phase` | the program point of `run_loop`, from resume over the watch and the preflight to a cycle |
| `cycle` | the shell variables of a cycle, which die with it: tracked, submitted and skipped nodes, the open slots, the rest of the page to be checked |
| `faults` | faults so far |

### Actions

`resume_latest_cycle_if_needed` and `WatchRetained` take up what an earlier life left;
`Preflight` asks whether anything is due; `ObserveCycle` reconciles and may prune;
`BuildPlan`, `CheckNode`, `NoneSelected` and `SlotsAreFull` are the search for a node for each open
slot; `SubmitNode` and `SubmissionEndsCycle` are `cval run`, which `Admission` has in
detail. `CycleDies` is the death of the controller or any failed command at any point.
Jobs start when their node is free, pass or fail, and are deleted; operators settle what is
gone. `Delete` leaves an intent whose Job is gone in the journal, because absence
proves nothing.

### Properties

* `CycleTracksEveryJob`: while a cycle counts its slots, every open intent is one it tracks, or
  its Job is gone. Forgetting the resume step breaks it after one fault.
* `SlotsAreReal`: while the controller submits and no Job is gone, the open intents of the
  journal leave room for one more within the batch size, although the slots are counted once per
  observation and then counted down in a shell variable.
* `NoDueNodeStarves`: with `live.plan_limit` "all" no node that is due, free, not cooling down
  and without an open intent stays so for ever.
* `SlotSearchEnds` (`live_page`): the script says that an exhausted page is rebuilt "to continue
  the queue". With a numeric limit, the page is cut before the nodes of this cycle are taken
  out of it. When they fill the page nothing is skipped, and the same plan is built
  for ever. Recorded as a finding.

### Runs, bounds, fairness

`live` has three nodes and two slots, so that one due node always waits for a slot; one node
that other workloads take and leave; cooldown and pruning on; one fault. `MaxFaults` bounds
crashes, failed commands, lost races, prunes and deletions together: one at every
point shows what a restart finds, and without a bound a controller that fails in every cycle
would make every liveness property false. Deadlock is checked. `live_page` needs two
nodes and a page of one, without faults.

`FairLiveSpec` assumes weak fairness of the controller (it is restarted, and every command
it calls has a timeout), and for each node strong fairness of the start of a pending Job (other
workloads make room again and again), weak fairness of the end of a Job with any
outcome (the supervisor's stages have deadlines, see `RunEnds`), of an operator settling an intent whose Job is gone, of
other workloads leaving a node, and of the end of a cooldown. A Job need not
ever pass.

## 8. Maintenance of the volume, and the status reports

Four tools for operators and the publication of the status reports, each a module. They
share no state while an operator keeps to the runbook, so one run checks their union:
`MCMaintenance` extends the five modules, starts one of them (`tool`) and takes its steps
only. The journal migration and the DL ingestion it shares a lock with are in one module. The
constant that stands for "nothing" is declared once, in `NoValue`.

### PvcArchive

`live` and `stored` say where each entry is, `manifest` what was last saved, `command` the program
an operator runs; `kept` is history. The actions are one filesystem effect each: lock,
make the archive, save the manifest, check, rename, save the state; the same for a
rollback, with a death between any two. `EvidenceIsAccounted`: every version that nobody
else overwrote is in one place, and listed where a rollback looks for it. `RollbackIsPossible`: while
sources are idle, some archive that holds anything can be rolled back, whatever was
interrupted. Bounds: two entries, so that a move can fail between them; two archives, because
an archive planned after an interrupted rollback of another one is what the order of
rollbacks is about; two operators at one lock; one write by somebody else.

### PvcConsolidation

`old` and `new` are the entries under either name, `transaction` what lies beside each backup (manifest,
duplicates), `snapshot` the backups. An apply checks backup, inventory and plan under the
lock, saves, moves entry by entry, merges directories and removes what is empty; a rollback
undoes it in reverse. `ConsolidationIsReversible`: while nobody else writes, some open
transaction passes the rollback's checks, and when all are rolled back the layout is
the original one, created parents and merged directories included. `MovesAreBackedUp`: the
version that was moved (`taken`, a history variable) is in the backup of the transaction, although
sources may change after backup, review or an earlier transaction. One entry is excepted, and
the run reaches it: an edit between the last fingerprint of an entry
(`cval-pvc-layout.py:395`) and its rename (`:405`) moves a version no backup holds. What the
property says of it is that the fingerprint after the move (`:407`) stops the command: it moves
nothing after that entry and its transaction is never complete. Bounds: one nested and one other operation, two backups, hence two
transactions, two operators, one edit; rename with and without RENAME_NOREPLACE.

### Backup

`tree` and `root` are the source, `backup` the locals of each run, `staging` and `final`
directories. The inventories stat entry by entry while files change, files are copied one by one,
the second inventory decides, the manifest is sealed last, publication renames or, without
an atomic rename, reserves the name; cleanup after an error or a signal removes what is the
run's own. `VerifiedIsSnapshot`: what `--verify` accepts is the source at one instant.
`ReturnedBackupStays`: no later run, failure or signal changes a backup that was returned. Bounds:
two files, so that a copy is not an instant; two changes, so that one can undo
another's appearance; two runs with one name. Hard links, SQLite copies and the
arithmetic of capacity are left out.

### JournalMigration

`content` and `mode` are the databases, `backups` and `manifests` what a migration wrote,
`metricLock` the lock of the DL ingestion. `ConversionIsBackedUp`: a database changes its journal
mode only while a recorded backup has its evidence, and all recorded backups are of one
complete generation. Bounds: the four databases of the code, two migrations (the second one meets
what the first converted), two ingestions.

### StatusPair

`journal` is the state of each attempt in the active session, `nodeCsv` and `clusterYaml` the
two reports with their `snapshot_id`, `cache` the last inventory, `publisher` the locals of whoever
publishes: a recorder of a submission event or the refresher, which collects without the
lock. `Agree` compares the `snapshot_id` of each row, as `read_status_csvs` does, so that a node
report without rows agrees with any cluster report. `PublishedPairIsWhole`: reports that agree
count the same nodes, also then, and unless a publisher died between its two replacements (`torn`),
they agree whenever nobody is publishing. `UnresolvedAttemptStaysListed`: no stale observation,
incomplete inventory or session turnover drops an attempt that may still run. Bounds: two
attempts on one of two nodes, so that a new attempt can hide an old one; inventories
that find the node, do not, or fail; one recorder, one refresher; two sessions.

Two consequences of the code that the model shows and no document denies: what blocks a
turnover or a projection is the `job_phase` of the row; and a crash between the two replacements
leaves different ids, after which projection and refresh refuse until operators
reconcile the pair.

### Run

`maintenance` checks all of this, with symmetry over consolidation's operators and
backups, which no definition distinguishes; the run has no liveness property. Deadlock is
not checked because programs end. No fairness is assumed: all its properties are safety
properties and hold wherever a program is killed.

## 9. Faulty variants

The definitions that `PROJECT.json` names under `mutants` (`check_active_jobs_live`,
`Failed_untouched`, `RenameOver`, ...) are not part of any specification. Each is a plausible
mistake in the code, and replacing a definition by it makes the property named
there fail, which shows that the property depends on that piece of code.

## 10. Proofs

`AdmissionProofs` proves, without bounds on Jobs, nodes, processes, clock or
faults and from the assumptions in `Admission` alone (constants have their types,
the three kinds of processes are disjoint), that `Spec` implies `[]TypeOK`,
`[]CreatedAtMostOnce`, `[]ReservationCoversWork`, `[]NodeExclusive` and
`[]NotCreatedIsTrue`. The type invariant is proved here rather than checked by a run; the
same holds for all other modules.

None of these is inductive. The inductive invariant `IndInv`
(`AdmissionInvariant`, which TLC also found to hold on the instances of `admission_submit`, `admission_validate` and `admission_tracking`) says

* where processes are (`ControlInv`): a locked program point means holding the lock;
  what is carried in memory is a real observation or response;
* what requests were made (`RequestInv`), and what a ledger entry says about them
  (`LedgerInv`): no intent or `not_created` means untouched, `tracking_finished` means
  the one request was answered and its Job has ended;
* that an identity about to be created is still untouched (`SubmissionInv`) and its
  node still free of other outstanding work (`NodeInv`);
* that a terminal observation in some process's memory stays true however
  long it waits to be appended (`ObservationInv`); this is what makes the stale
  append of `cval validate` harmless for reservations.

The argument: steps of the environment change the world and leave the ledger
(`EnvironmentIsWorldStep`); steps of commands change the ledger by one event each
(`LedgerEffect`); both are reduced to a few effects (`EveryStep`), and each part of the
invariant is preserved by each effect. `ReservationCoversWork` follows from
`LedgerInv` and `SubmissionInv`; `NodeExclusive` needs `NodeInv`, the lock
(`OneUnderLock`) and the check `check_active_jobs` made at selection.

The second part of the module proves the other invariants and action properties, each with
`IndInv` and an invariant of its own. They rest on one lemma about who writes
what (`EveryWrite`: a command appends what it observed or an event of its own
submission, under the lock or while nobody has it) and on the lock
(`Undisturbed`).

* `FreshRows`: only a finished reconciliation and a retained receipt lead to a
  selection, and both rebuild `jobs.csv` (`StageEffect`).
* `LedgerStaysPut`: while a command is at a locked point, a write of intents or rows is a
  step of its own. It is the reason why what was reconciled is still so at the create.
* `CreatesNeedSettlement`: `SettledInv` holds the other intents confirmed from the
  reconciliation to the receipt, because a submission writes no intent but its own.
* `BudgetSafety`: `BudgetInv` says that without the Job being submitted there is less work
  than the budget. At the selection it follows from `ReservationCoversWork`: all work
  is among the active Jobs that were counted. Its hypothesis is that the Jobs are finitely
  many, without which their number means nothing.
* `CooldownSafety`: a released intent is dated no earlier than the Job it speaks of was created
  (`DatedInv`: its terminal observation saw that Job or a later one under its name), so a
  selection that finds no cooldown on a node comes late enough for every Job created
  there before, receipts or not. `ComingInv` carries that to the create, and to a request
  still travelling; meanwhile `NodeInv` keeps everybody else away from the node.
* `IdentitySafety`: an observation made under the lock names the only uid the ledger knows
  (`MemoryInv`). Validators append without that protection, but what they copied when
  they attached contains the package's own uid, which their receipt put there, so that any
  object they accept, then or at verification, is that one.

Three theorems are about sessions without `cval validate`, and say so: a
validator appends without the lock to whatever its intent has become, so with one of them they
are false, as the run `admission_conflict` shows.

* `ConflictSafety` (`Validators = {}`): what is about to be appended to is open
  (`OpenInv`), because who appends holds the lock since it read the ledger.
* `ReleaseSafety` (and no `"prune"` in `Faults`): the note after a prune is the one
  append that may meet a released intent.
* `ReservationRefinement` (as before, with finitely many Jobs): `AloneInv` says that a
  Job about to be created has its node to itself, `RoomInv` that there is room for it in the
  budget when it is prepared. Then each step is a `Reserve`, `Begin`, `End` or `Release` of
  `Reservation`, or changes nothing it can see.

`RunPipelineProofs` proves `[]TypeOK`, every other invariant of
`run_pipeline` and the refinement of `RunEvidence`, for any tests, stores and owners. The
only assumptions are that tests are named by their natural order, that the status
database is none of the raw stores, and that `None` is no other value. The invariant
`SafeInv` (`RunPipelineInvariant`) is needed because a property like
`ConfirmedIsTrue` speaks of the end of a chain that each part carries one link of:

* `ChildInStage` and `Undecided`: which child can exist in which stage, and what the
  supervisor has not decided yet, so that no step of one child disturbs the other's part;
* `ResultIsBuffer`: the buffer is whole and finished when it is bound, and does
  not change afterwards, so `result` and `buffer` are interchangeable;
* `ClaimsFollowStores` and `StoredInOrder`: a commit that is not yet claimed belongs to the writer
  at work, which is why marking those stores "unconfirmed" makes the claims of
  a failed ingestion true;
* `AcknowledgementHolds`: what the log and the supervisor carry remains true,
  because nothing is written after an acknowledgement;
* `SuccessInOrder`: the order marker, exit code, summary, receipt, pod.

`OrphansAreContained` bounds what the run `run_orphan` finds. A killed runner leaves its
benchmark behind, but `WorkloadInv` says that a benchmark belongs to a test without an outcome, so
its runner has not returned 0: the supervisor closes the run, and while the benchmark lives
(until the container ends) nothing is ingested, the marker is not released and the exit code is 1. TLC
found both predicates to hold on the instance of `run_pipeline` before they were proved.

Its second half is about `TestRunner`, for any number of tests, bound of the clock and
faults. `RunnerInvariance` proves the type invariant and `RunnerInv` (`TestRunnerInvariant`, which
TLC found to hold on the instance of `test_runner`). It is needed because an exception may
come at any statement, so that what the handlers find is what the invariant says of that
statement:

* `PointInv`: where the program can be with which test, process and buffer; an opened buffer
  belongs to a document that was parsed;
* `OthersInv` and `CurrentInv`: buffer and document agree on every test but the current one; on that,
  the document is as many transitions ahead as `StatesAt` says for each statement, never more than one;
* `SignalInv`: since the first signal nothing but the current test has changed, by one
  transition at most, and that only through the handlers;
* `EarnedInv`: passes are earned in the document too.

`PassesAreEarned` is a part of it. `ZeroIsFinal` adds that exit code zero comes only from the last
write, of a parsed document (`ParsedIsOrdered`). `RunnerIsChild` proves `RunsAsChild`: each write that
records a transition is that transition of `RunPipeline` (`DumpStep`, `RecordStep`), starting a process is
`LaunchSetup` (`SpawnStep`), an end without a signal is `RunnerFails` or `RunnerCrashes` (`EndStep`), an end
after one is `Interrupt` with a buffer that `StopRunner` allows (`InterruptStep`, by
`SignalInv`), and every other statement changes nothing the supervisor sees (`LiveStep`). The
assumptions are that there is a test and that `None` is neither a number nor a record.

`DlGenerationProofs` proves `[]TypeOK`, and `[]CompleteMeansEqual` from the assumption that
maintenance does not overlap (`~Overlap`), for any numbers of runs, rebuilds, stores and
attempts. The invariant `SafeInv` there adds that whoever works on the stores works
alone (`Exclusive`: an ingestion holds the lock, a rebuild is the only one running), that what
was compared is still there (`Compared`) and that a process about to stamp the stores found
them equal (`FinalIsEqual`). The argument: a write makes its store `in_progress`
(`PutUnpublishes`), so it cannot violate the property; stamping happens on equal stores
(`FinalizePublishes`); everything else leaves the stores alone.

It proves `[]ConfirmedIsStored` from `~Overlap`. Only a purge removes rows,
so the invariant `KeepInv` follows a confirmed run through a rebuild: it is still to be
scanned or was found valid (`ScanFinds`), and what is about to be removed was not found
valid (`StaleIsInvalid`). That nobody confirms a run in between is `Exclusive`.

It also proves `[]ConclusiveIsUniform` from `~Overlap`. The key is that the last
store is stamped last: who has seen a generation complete in every store knows that its
writer is through with it (`Sealed`, `LastIsSealed`). From then on a store that still has the
generation has not been written, so what was read of it is still there (`ReadInv`).

And it proves the action property `RebuildRestores` from `~Overlap`: `RestoreInv` follows a
rebuild that works alone through its loops. The valid runs it has loaded are in every store, what it
found no valid run for is gone from the stores it has purged, and the stores it has
stamped have its generation; so at its end the stores hold what it found valid, and without
`only_missing` nothing else.

`PvcArchiveProofs` proves `[]ArchiveTypeOK` and `[]EvidenceIsAccounted` for any entries,
archives, operators and writes, from the assumption that `None` is no version, operator
or manifest. The invariant adds who holds the lock (`HolderIsBusy`), that a
command follows the plan it saved (`SavedFirst`), that an archive holds nothing its manifest
does not list (`ListedInManifest`), that versions are new when they are written
(`FreshVersions`) and that each is in one place (`OnePlace`).

It also proves `[]RollbackIsPossible` (`RollbacksArePossible`). The invariant
`IdleSourcesInv` says what holds while nobody else writes: every plan, saved or in
some command's memory, is of versions the entries had from the beginning (`PlansAreOriginal`), a command
that moves something finds its entries in no other archive (`AppliesAlone`), and of any archives that
hold something one plans nothing that another of them holds (`SomeIsLast`). That one
finds every place free it would restore to (`LastIsRestorable`).

`PvcConsolidationProofs` proves type correctness, `[]MovesAreBackedUp` and
`[]ConsolidationIsReversible`, for any operations, backups, operators and edits. For the first
property, two invariants. `PlansAreBackedUp`: a backup made since the last change holds the source
as it is, so the plan of that moment is a plan of what it holds. `MovesInv`: a command is
done only with entries that were moved in the planned version, in the order of the plan, and an
entry it has just moved that does not look planned now cannot look so at its confirmation, because an
edit makes a new version. For the second, `LayoutInv`: while
nobody edits, each entry is under its old name, its new one, or beside the backup of one transaction;
whatever is not where it was has an open transaction that would put it there again
(`Undisturbed`); and of any open transactions one is in nobody's way (`SomeIsLast`).

`BackupProofs` has two parts. For `Backup` it proves type correctness,
`[]VerifiedIsSnapshot` and `ReturnedBackupStays`. The versions of a file only grow, so for a run
whose source directory has not changed `RunInv` holds the chain: entry of the
first inventory, version when that inventory ended, copy, entry of the second inventory, each at most
the next; equal inventories leave one version. For `JournalMigration` it proves
type correctness and `ConversionIsBackedUp`: what a migration has compared stays as it was until its
lock is released (`Agreement`), because ingestions write under the same lock (`LockHeld`).

`StatusPairProofs` proves type correctness, `[]PublishedPairIsWhole` and
`UnresolvedAttemptStaysListed`. `PairInv`: the cluster report is of one projection, whose rows
are those of the node report when the ids are equal, and which had no rows if the node report
has none: a projection has rows if the old report had some, because the old nodes are listed
again when no inventory is available (`ProjectedNodes`). While a publisher holds the lock, what it
projected is what the journal says now (`ProjectionOfNow` in `ReportInv`), and the attempt a row
shows exists because any set of attempts has a newest one (`NewestAttempt`, by `WFMin` of
`WellFoundedInduction`).

The assumptions on constants in these modules are that they have their types and that
the value for "nothing" is none of the values it is compared with.

`LiveLoopProofs` proves `[]CycleTracksEveryJob`, `[]SlotsAreReal` and `[]LiveTypeOK` for any nodes,
slots, page length, cooldown, pruning and faults. For the first, what is added is that a controller
which has resumed and found nothing to watch has nothing open (`ResumedIsClear`), for
that is where a cycle begins with nothing tracked. For the second, tracked nodes and open slots
together never exceed the batch, and a slot is open wherever a node is looked for (`SlotInv`). The
types need both counts: that `slots` never falls below zero rests on
`SlotInv` and on the journal never holding more intents than the batch (`JournalTypes`), since the
watch of a resumed session tracks them all; that the node to be submitted is one of the nodes
rests on any set of places having a first one (`FirstIsAMember`, by `WFMin`).

Only model-checked: liveness (`LockIsReleased`, `JobIsEventuallyReleased`, `RunEnds`,
`IngestionEnds`, `NoDueNodeStarves`), which is beyond the prover. Every invariant, action property
and refinement that a passing run checks is also a theorem.

## 11. Not modelled

See `components` in `PROJECT.json` for each part and its reason. Of the modelled
parts, the following is left out.

* Observer: log cursors and runtime progress (planned). Verification: the evidence
  collectors other than the DL one, which read files that nothing changes any more.
* State helper: node snapshots and the receipt command, which copy what others decided.
* Live loop: the checks of the worktree are one failure; start and stop of the tmux session
  are the death and the start of the controller. The report that shows a Job Pending and its
  deletion (`cval-live.sh:990`) are one step here; in `Admission` they are two, between
  which the Job may start (`Prune`). That its work is lost then is what the code does;
  its node stays reserved (`ReservationCoversWork`).
* Runner: the stand-alone runner without a supervisor. Ingestion: databases' own
  locks between runs.
* Status: which coverage a row shows and how a run's recording is confirmed are read-only
  queries; operators' repair of disagreeing reports, without which a pair that a death has torn
  refuses every later projection. Readers without the lock: nothing under `src/` reads the reports
  so (both calls of `read_status_csvs`, `status.py:106` and `:194`, hold it), but
  `docs/configuration.md:253` and `docs/architecture.md:406` ask readers to reject pairs whose
  ids differ. A reader that compares row by row like `status.py:151` would take a node report
  without rows, from a first refresh with no inventory and no intents, together with the cluster
  report of a later publication; no run shows this.
* Consolidations whose backups lie in different directories use different locks, so nothing
  keeps them from running together; the model has one directory.
* Rendering, configuration, policy, registry, plugins, command line and exports are pure
  functions without state, and the validation tests measure hardware.

----------------------------- MODULE RunPipeline -----------------------------
(***************************************************************************)
(* One validation run inside its pod: the supervisor                       *)
(* (cval/validation/supervisor.py, PID 1 of the container), the runner     *)
(* child that executes the tests (runner.py, execution.py) and the         *)
(* ingestion child that writes the databases (storage/run_ingest.py), with *)
(* the monitor's verdict on what the run left behind (jobs/monitor.py).    *)
(*                                                                         *)
(* Tests are named by their order.  A raw store belongs to one test.       *)
(* Every exit code other than 0 is 1.  Not modelled: the content of the    *)
(* metrics, descriptor identity checks (any of them failing is Abort), the *)
(* state of each file in the receipt, and which bytes of a log survive.    *)
(***************************************************************************)
EXTENDS Naturals, FiniteSets, NoValue

CONSTANTS
  Enabled,     \* selected tests, named by their unique order
  Stores,      \* raw metric databases
  Owner,       \* the test whose plugin writes a raw store
  Validation   \* the status database, written last

ASSUME EnabledOrders == Enabled \in SUBSET Nat /\ Enabled # {}
ASSUME OwnerType == Owner \in [Stores -> Nat]
ASSUME ValidationIsNoRawStore == Validation \notin Stores

Destinations == Stores \cup {Validation}

TestStates == {"pending", "setup", "running", "pass", "fail", "incomplete"}
Results == [Enabled -> TestStates]
Claims == [Destinations -> {"pending", "not_required", "committed", "unconfirmed"}]
Acknowledgements == [status : {"pass", "fail"}, stores : Claims]
Ingestions == {"not_started", "unconfirmed", "pass", "fail"}
Receipts == [tests : Results, exit : 0..1, logs : {"retained", "unconfirmed"},
             ingestion : Ingestions, stores : Claims \cup {None}]
Summaries == [tests : Results \cup {None}, exit : 0..1, logs : {"retained", "unconfirmed"},
              ingestion : Ingestions, stores : Claims \cup {None}]

ASSUME NoneIsNoValue ==
  /\ None \notin Results \cup Claims /\ None \notin Acknowledgements
  /\ None \notin Summaries /\ None \notin 0..1

(* Handlers for SIGTERM are installed from "starting" to "closing". *)
Supervised == {"starting", "runner", "binding", "sealed", "ingestion",
               "checking", "releasing", "released"}
SupervisorStates == Supervised \cup {"reserving", "closing", "publishing", "exited"}
RunnerPhases == {"preparing", "testing"}
IngestionPhases == {"authorizing", "writing", "acknowledged"}
Alive == RunnerPhases \cup IngestionPhases
Stray == {"stray_runner", "stray_ingestion"}

VARIABLES
  sup,        \* where the supervisor is
  child,      \* the child: none, alive in some phase, astray, or ended
  childExit,  \* its return code
  workload,   \* a setup or entrypoint process (a session of its own) is alive
  buffer,     \* the anonymous result buffer: is it whole, and its tests
  current,    \* current_stores of the ingestion child
  claims,     \* its `stores` dictionary
  stored,     \* databases that hold this run's rows
  log,        \* what the event log says: last acknowledgement, last summary
  result,     \* result loaded by the supervisor
  ack,        \* acknowledgement accepted by the supervisor
  ingestion,  \* the supervisor's ingestion outcome
  captured,   \* log_capture_complete
  exitCode,   \* exit_code the supervisor means to return
  marker,     \* .run-active
  receipt,    \* result.json
  podExit     \* exit code of the container

childVars == <<child, childExit, workload>>
writer == <<current, claims, stored>>
verdict == <<result, ack, ingestion, captured, exitCode>>
evidence == <<marker, receipt, podExit>>
vars == <<sup, childVars, buffer, writer, log, verdict, evidence>>

Passing(f) == {t \in Enabled : f[t] = "pass"}
RawRequired(f) == {s \in Stores : Owner[s] \in Passing(f)}

Required(f) == RawRequired(f) \cup {Validation}
AllPending == [t \in Enabled |-> "pending"]

\* `stores` of a complete ingestion of result f.
Expected(f) == [s \in Destinations |-> IF s \in Required(f) THEN "committed" ELSE "not_required"]

Init ==
  /\ sup = "reserving" /\ child = "none" /\ childExit = 0 /\ workload = FALSE
  /\ buffer = [whole |-> FALSE, tests |-> AllPending]
  /\ current = {} /\ claims = [s \in Destinations |-> "pending"] /\ stored = {}
  /\ log = [ack |-> None, summary |-> None]
  /\ result = None /\ ack = None /\ ingestion = "not_started"
  /\ captured = TRUE /\ exitCode = 1
  /\ marker = "absent" /\ receipt = None /\ podExit = None

(***************************************************************************)
(* The runner child: tests one after the other; every transition truncates *)
(* and rewrites the buffer before anything else happens.                   *)
(***************************************************************************)
Testing == child = "testing"
Active == {t \in Enabled : buffer.tests[t] \in {"setup", "running"}}

\* The test the runner is at, or goes to next.
At(t) ==
  /\ Active \subseteq {t}
  /\ \A u \in Enabled : /\ u < t => buffer.tests[u] # "pending"
                        /\ u > t => buffer.tests[u] = "pending"
Record(t, state) == buffer' = [buffer EXCEPT !.tests[t] = state]

RunnerStarts ==
  /\ child = "preparing"
  /\ child' = "testing"
  /\ buffer' = [whole |-> TRUE, tests |-> AllPending]
  /\ UNCHANGED <<sup, childExit, workload, writer, log, verdict, evidence>>

StartTest(t) ==
  /\ Testing /\ At(t) /\ buffer.tests[t] = "pending"
  /\ Record(t, "setup")
  /\ UNCHANGED <<sup, childVars, writer, log, verdict, evidence>>

LaunchSetup(t) ==
  /\ Testing /\ buffer.tests[t] = "setup" /\ ~workload
  /\ workload' = TRUE
  /\ UNCHANGED <<sup, child, childExit, buffer, writer, log, verdict, evidence>>

StartWorkload(t) ==
  /\ Testing /\ buffer.tests[t] = "setup" /\ workload
  /\ Record(t, "running")
  /\ UNCHANGED <<sup, childVars, writer, log, verdict, evidence>>

\* A setup failure, a timeout, a nonzero exit and a framework error are all
\* "fail"; an event that cannot be written makes one of a recorded outcome.
FinishTest(t, status) ==
  /\ Testing /\ At(t) /\ buffer.tests[t] # "pending"
  /\ status = "pass" => buffer.tests[t] = "running"
  /\ Record(t, status)
  /\ workload' = FALSE
  /\ UNCHANGED <<sup, child, childExit, writer, log, verdict, evidence>>

RunnerFinishes ==
  /\ Testing /\ \A t \in Enabled : buffer.tests[t] \in {"pass", "fail"}
  /\ child' = "ended" /\ childExit' = 0
  /\ UNCHANGED <<sup, workload, buffer, writer, log, verdict, evidence>>

\* An error outside a test's own isolation: the program exits 1, and a failed
\* rewrite leaves the buffer torn.
RunnerFails ==
  /\ child \in RunnerPhases
  /\ child' = "ended" /\ childExit' = 1 /\ workload' = FALSE
  /\ \E whole \in {FALSE, buffer.whole} : buffer' = [buffer EXCEPT !.whole = whole]
  /\ UNCHANGED <<sup, writer, log, verdict, evidence>>

\* Killed from outside (memory, a signal of its own): the workload is in another session.
RunnerCrashes ==
  /\ Testing /\ workload
  /\ child' = "ended" /\ childExit' = 1
  /\ \E whole \in {FALSE, buffer.whole} : buffer' = [buffer EXCEPT !.whole = whole]
  /\ UNCHANGED <<sup, workload, writer, log, verdict, evidence>>

(* A stray child dies of its first event, which nobody reads: a runner      *)
(* after it has initialized the buffer, an ingestion before any writer.    *)
StrayWrites ==
  /\ child = "stray_runner"
  /\ child' = "none"
  /\ buffer' = [whole |-> TRUE, tests |-> AllPending]
  /\ UNCHANGED <<sup, childExit, workload, writer, log, verdict, evidence>>

StrayEnds ==
  /\ child \in Stray
  /\ child' = "none"
  /\ UNCHANGED <<sup, childExit, workload, buffer, writer, log, verdict, evidence>>

(***************************************************************************)
(* The ingestion child: one writer per passing test in order, each store   *)
(* its own transaction, the status rows last.                              *)
(***************************************************************************)
Writing == child = "writing"
PendingRaw == {s \in Stores : claims[s] = "pending"}
OwnedBy(t) == {s \in Stores : Owner[s] = t}
CurrentDone == \A s \in current : claims[s] = "committed"

\* The digest that the supervisor bound is that of r.
_secure_result_binding(r) == r = result
authorize_result_write == buffer.whole /\ _secure_result_binding(buffer.tests)

\* Every writer has the buffer read and compared again.
_revalidate_authorized_result == buffer.whole /\ _secure_result_binding(buffer.tests)
validate_current_write(s) ==
  /\ _revalidate_authorized_result
  /\ s # Validation => Owner[s] \in Passing(result)

IngestionStarts ==
  /\ child = "authorizing" /\ authorize_result_write
  /\ child' = "writing" /\ current' = {}
  /\ claims' = [s \in Destinations |->
                  IF s \in Required(buffer.tests) THEN "pending" ELSE "not_required"]
  /\ log' = [ack |-> None, summary |-> None]
  /\ UNCHANGED <<sup, childExit, workload, buffer, stored, verdict, evidence>>

BeginWriter(t) ==
  /\ Writing /\ CurrentDone
  /\ OwnedBy(t) \cap PendingRaw # {}
  /\ \A s \in PendingRaw : t <= Owner[s]
  /\ current' = OwnedBy(t)
  /\ UNCHANGED <<sup, childVars, buffer, claims, stored, log, verdict, evidence>>

\* Faulty variant: the status rows do not wait for the writers.
BeginValidation_first ==
  /\ Writing /\ CurrentDone /\ current # {Validation}
  /\ current' = {Validation}
  /\ UNCHANGED <<sup, childVars, buffer, claims, stored, log, verdict, evidence>>

BeginValidation ==
  /\ Writing /\ CurrentDone /\ PendingRaw = {} /\ claims[Validation] = "pending"
  /\ current # {Validation}
  /\ current' = {Validation}
  /\ UNCHANGED <<sup, childVars, buffer, claims, stored, log, verdict, evidence>>

CommitStore(s) ==
  /\ Writing /\ s \in current \ stored /\ validate_current_write(s)
  /\ stored' = stored \cup {s}
  /\ UNCHANGED <<sup, childVars, buffer, current, claims, log, verdict, evidence>>

\* The writer has returned a receipt for each of its stores.
ConfirmStore(s) ==
  /\ Writing /\ s \in current /\ current \subseteq stored /\ claims[s] = "pending"
  /\ claims' = [claims EXCEPT ![s] = "committed"]
  /\ UNCHANGED <<sup, childVars, buffer, current, stored, log, verdict, evidence>>

IngestionAcknowledges ==
  /\ Writing /\ claims[Validation] = "committed"
  /\ child' = "acknowledged"
  /\ log' = [log EXCEPT !.ack = [status |-> "pass", stores |-> claims]]
  /\ UNCHANGED <<sup, childExit, workload, buffer, writer, verdict, evidence>>

\* Faulty variant: the stores being written are left as they were.
Failed_untouched(c) == c

\* What a failed writer had in hand may or may not have been committed.
Failed(c) == [s \in Destinations |->
                IF s \in current /\ c[s] = "pending" THEN "unconfirmed" ELSE c[s]]

\* The error path of ingest_run: it tries to leave a failed acknowledgement.
\* It takes every exception, a plugin's SystemExit(0) included: what the child
\* returns tells nothing.
GiveUp ==
  /\ claims' = Failed(claims)
  /\ \/ log' = [log EXCEPT !.ack = [status |-> "fail", stores |-> claims']]
     \/ log' = log
  /\ UNCHANGED <<current, stored>>

IngestionFails ==
  /\ Writing /\ GiveUp
  /\ child' = "ended" /\ childExit' \in 0..1
  /\ UNCHANGED <<sup, workload, buffer, verdict, evidence>>

\* It returns after its acknowledgement, or without one: authorization was
\* refused, it was killed, or the last line could not be written.
IngestionEnds ==
  /\ child \in IngestionPhases
  /\ child' = "ended" /\ childExit' \in 0..1
  /\ UNCHANGED <<sup, workload, buffer, writer, log, verdict, evidence>>

(***************************************************************************)
(* The supervisor.                                                         *)
(***************************************************************************)
Reserve ==
  /\ sup = "reserving"
  /\ sup' = "starting" /\ marker' = "held"
  /\ UNCHANGED <<childVars, buffer, writer, log, verdict, receipt, podExit>>

\* The run directory exists, or part of the layout cannot be made.
ReservationRefused ==
  /\ sup = "reserving"
  /\ sup' = "exited" /\ podExit' = 1 /\ marker' \in {"absent", "held"}
  /\ UNCHANGED <<childVars, buffer, writer, log, verdict, receipt>>

LaunchRunner ==
  /\ sup = "starting"
  /\ sup' = "runner" /\ child' = "preparing" /\ captured' = FALSE
  /\ UNCHANGED <<childExit, workload, buffer, writer, log, result, ack, ingestion, exitCode, evidence>>

RunnerReturns ==
  /\ sup = "runner" /\ child = "ended"
  /\ child' = "none" /\ captured' = TRUE
  /\ sup' = IF childExit = 0 THEN "binding" ELSE "closing"
  /\ UNCHANGED <<childExit, workload, buffer, writer, log, result, ack, ingestion, exitCode, evidence>>

\* Seal the buffer and load it; a torn one makes this an Abort.
BindResult ==
  /\ sup = "binding" /\ buffer.whole
  /\ result' = buffer.tests /\ sup' = "sealed"
  /\ UNCHANGED <<childVars, buffer, writer, log, ack, ingestion, captured, exitCode, evidence>>

LaunchIngestion ==
  /\ sup = "sealed"
  /\ sup' = "ingestion" /\ child' = "authorizing"
  /\ ingestion' = "unconfirmed" /\ captured' = FALSE
  /\ UNCHANGED <<childExit, workload, buffer, writer, log, result, ack, exitCode, evidence>>

\* A passing acknowledgement has to name every store the result requires.
Acceptable(a) == a # None /\ (a.status = "pass" => a.stores = Expected(result))

IngestionReturns ==
  /\ sup = "ingestion" /\ child = "ended"
  /\ ack' = IF Acceptable(log.ack) THEN log.ack ELSE None
  /\ ingestion' = IF Acceptable(log.ack) THEN log.ack.status ELSE "unconfirmed"
  /\ child' = "none" /\ captured' = TRUE
  /\ sup' = IF childExit = 0 /\ ingestion' = "pass" THEN "checking" ELSE "closing"
  /\ UNCHANGED <<childExit, workload, buffer, writer, log, result, exitCode, evidence>>

\* Every test log and passing summary is there: "Completed." ends the log.
FinalizeLogs ==
  /\ sup = "checking" /\ sup' = "releasing"
  /\ UNCHANGED <<childVars, buffer, writer, log, verdict, evidence>>

ReleaseMarker ==
  /\ sup = "releasing"
  /\ sup' = "released" /\ marker' = "released"
  /\ UNCHANGED <<childVars, buffer, writer, log, verdict, receipt, podExit>>

Finish ==
  /\ sup = "released"
  /\ sup' = "closing" /\ exitCode' = 0
  /\ UNCHANGED <<childVars, buffer, writer, log, result, ack, ingestion, captured, evidence>>

(* Terminating the supervised child: SIGTERM to its process group, SIGKILL *)
(* after the grace period.  What an interrupted runner writes is at most    *)
(* one transition of one test ahead of the buffer.                         *)
Transitions ==
  {<<"pending", "setup">>, <<"setup", "running">>, <<"running", "pass">>}
    \cup ({"setup", "running", "pass", "fail"} \X {"fail", "incomplete"})
Ahead ==
  {f \in Results : \E t \in Enabled, state \in TestStates :
     At(t) /\ <<buffer.tests[t], state>> \in Transitions /\ f = [buffer.tests EXCEPT ![t] = state]}

StopRunner ==
  /\ \E whole \in {FALSE, buffer.whole},
        f \in {buffer.tests} \cup (IF child = "testing" THEN Ahead ELSE {}) :
       buffer' = [whole |-> whole, tests |-> f]
  /\ workload' \in {FALSE, workload}

StopIngestion ==
  \/ child = "writing" /\ GiveUp
  \/ UNCHANGED <<writer, log>>

\* Faulty variant: the supervisor stops waiting and leaves the child behind.
Terminate_nobody == UNCHANGED <<child, workload, buffer, writer, log>>

Terminate ==
  /\ child' = "none"
  /\ \/ /\ child \in RunnerPhases
        /\ StopRunner
        /\ UNCHANGED <<writer, log>>
     \/ /\ child \in IngestionPhases
        /\ StopIngestion
        /\ UNCHANGED <<workload, buffer>>
     \/ /\ child \notin Alive
        /\ UNCHANGED <<workload, buffer, writer, log>>

\* Faulty variant: only the runner has a deadline.
Timeout_of_runner ==
  /\ sup = "runner" /\ child \in Alive
  /\ Terminate /\ sup' = "closing"
  /\ UNCHANGED <<childExit, verdict, evidence>>

Timeout ==
  /\ sup \in {"runner", "ingestion"} /\ child \in Alive
  /\ Terminate /\ sup' = "closing"
  /\ UNCHANGED <<childExit, verdict, evidence>>

\* SIGTERM while the handlers are installed; exit_code is not 0 yet.
Interrupt ==
  /\ sup \in Supervised
  /\ Terminate /\ sup' = "closing"
  /\ UNCHANGED <<childExit, verdict, evidence>>

\* SIGTERM inside Popen, before the handler can know the child: nobody
\* terminates it, and nobody reads its output any more.
InterruptLaunch ==
  /\ sup \in {"starting", "sealed"}
  /\ sup' = "closing" /\ captured' = FALSE
  /\ child' = IF sup = "starting" THEN "stray_runner" ELSE "stray_ingestion"
  /\ ingestion' = IF sup = "starting" THEN ingestion ELSE "unconfirmed"
  /\ UNCHANGED <<childExit, workload, buffer, writer, log, result, ack, exitCode, evidence>>

\* Any other exception: identity checks, disk errors, a log that was not
\* captured, descendants left behind, an unreadable acknowledgement.
Abort ==
  /\ sup \in Supervised /\ child \notin Alive
  /\ sup' = "closing" /\ child' = "none"
  /\ captured' \in (IF child = "ended" THEN BOOLEAN ELSE {captured})
  /\ UNCHANGED <<childExit, workload, buffer, writer, log, result, ack, ingestion, exitCode, evidence>>

(* The finally block: handlers restored, last event, then result.json. *)
Completion(r) ==
  [tests |-> r, exit |-> exitCode, logs |-> IF captured THEN "retained" ELSE "unconfirmed",
   ingestion |-> ingestion, stores |-> IF ack = None THEN None ELSE ack.stores]
Loaded == IF result = None /\ buffer.whole THEN buffer.tests ELSE result
Summarized == [log EXCEPT !.summary = Completion(Loaded)]

Summarize ==
  /\ sup = "closing"
  /\ sup' = "publishing" /\ result' = Loaded /\ log' = Summarized
  /\ UNCHANGED <<childVars, buffer, writer, ack, ingestion, captured, exitCode, evidence>>

Exit(code) ==
  /\ sup' = "exited" /\ podExit' = code /\ child' = "none" /\ workload' = FALSE
  /\ UNCHANGED <<childExit, buffer, writer, marker, ack, ingestion, captured, exitCode, result>>

Publish ==
  /\ sup = "publishing"
  /\ receipt' = IF result = None THEN None ELSE Completion(result)
  /\ Exit(exitCode)
  /\ UNCHANGED log

\* Faulty variant: an error while closing is logged, and the exit code kept.
ClosingFails_quietly ==
  /\ sup \in {"closing", "publishing"} /\ UNCHANGED <<log, receipt>>
  /\ Exit(exitCode)

\* An error, or a signal before the handlers are restored.
ClosingFails ==
  /\ \/ sup = "closing" /\ log' \in {log, Summarized} /\ UNCHANGED receipt
     \/ /\ sup = "publishing" /\ UNCHANGED log
        /\ receipt' \in {None, IF result = None THEN None ELSE Completion(result)}
  /\ Exit(1)

\* The container or its machine is gone.
Crash ==
  /\ sup # "exited"
  /\ Exit(1)
  /\ UNCHANGED <<log, receipt>>

RunnerStep ==
  \/ RunnerStarts \/ RunnerFinishes \/ RunnerFails \/ RunnerCrashes
  \/ \E t \in Enabled : \/ StartTest(t) \/ LaunchSetup(t) \/ StartWorkload(t)
                        \/ \E status \in {"pass", "fail"} : FinishTest(t, status)
IngestionStep ==
  \/ IngestionStarts \/ BeginValidation \/ IngestionAcknowledges \/ IngestionFails \/ IngestionEnds
  \/ \E t \in Enabled : BeginWriter(t)
  \/ \E s \in Destinations : CommitStore(s) \/ ConfirmStore(s)
SupervisorStep ==
  \/ Reserve \/ ReservationRefused \/ LaunchRunner \/ RunnerReturns \/ BindResult
  \/ LaunchIngestion \/ IngestionReturns \/ FinalizeLogs \/ ReleaseMarker \/ Finish
  \/ Timeout \/ Abort \/ Summarize \/ Publish \/ ClosingFails

Signal == Interrupt \/ InterruptLaunch

Next == RunnerStep \/ IngestionStep \/ StrayWrites \/ StrayEnds \/ SupervisorStep \/ Signal \/ Crash

Spec == Init /\ [][Next]_vars /\ WF_vars(SupervisorStep)

(***************************************************************************)
(* The monitor: completion_confirmed, from the event log and the pod.      *)
(***************************************************************************)
\* Faulty variant: the events alone decide.
completion_confirmed_by_events ==
  /\ log.ack # None /\ log.summary # None
  /\ log.ack.status = "pass" /\ log.summary.ingestion = "pass"
  /\ log.summary.tests # None
  /\ Passing(log.summary.tests) = Enabled
  /\ log.summary.logs = "retained"

completion_confirmed ==
  /\ podExit = 0
  /\ log.ack # None /\ log.summary # None
  /\ log.ack.status = "pass" /\ log.summary.ingestion = "pass"
  /\ log.summary.tests # None
  /\ Passing(log.summary.tests) = Enabled
  /\ log.summary.stores = log.ack.stores
  /\ log.ack.stores = [s \in Destinations |->
                         IF s = Validation \/ Owner[s] \in Enabled THEN "committed" ELSE "not_required"]
  /\ log.summary.exit = 0 /\ log.summary.logs = "retained"

(***************************************************************************)
(* The readers of result.json: recording_complete.                         *)
(***************************************************************************)
recording_complete(r) ==
  /\ r.exit = 0 /\ r.logs = "retained" /\ r.ingestion = "pass"
  /\ r.stores = Expected(r.tests)

(***************************************************************************)
(* Properties.                                                             *)
(***************************************************************************)
\* Type correctness of every variable.
TypeOK ==
  /\ sup \in SupervisorStates
  /\ child \in Alive \cup Stray \cup {"none", "ended"} /\ childExit \in 0..1 /\ workload \in BOOLEAN
  /\ buffer \in [whole : BOOLEAN, tests : Results]
  /\ current \subseteq Destinations /\ claims \in Claims /\ stored \subseteq Destinations
  /\ log \in [ack : Acknowledgements \cup {None}, summary : Summaries \cup {None}]
  /\ result \in Results \cup {None} /\ ack \in Acknowledgements \cup {None}
  /\ ingestion \in Ingestions /\ captured \in BOOLEAN /\ exitCode \in 0..1
  /\ marker \in {"absent", "held", "released"}
  /\ receipt \in Receipts \cup {None} /\ podExit \in {0, 1, None}

\* What a `stores` dictionary says of the databases is so.
TrueOf(stores) ==
  \A s \in Destinations : /\ stores[s] = "committed" => s \in stored
                          /\ stores[s] \in {"pending", "not_required"} => s \notin stored

\* An acknowledgement in the event log and the completion record of
\* result.json never claim a commit that did not happen nor deny one that
\* did; without an acknowledgement the record says so (run_ingest.py:188-197,
\* supervisor.py:573-575 and 624-630).
ClaimsAreTrue ==
  /\ log.ack # None => TrueOf(log.ack.stores)
  /\ receipt # None =>
       /\ receipt.stores # None => TrueOf(receipt.stores)
       /\ receipt.ingestion = "pass" => stored = Required(receipt.tests)
       /\ receipt.ingestion = "not_started" => stored = {}

\* The status rows of a run appear only when every raw store its passing
\* tests require has been committed, wherever the pod is killed.
StatusLast == Validation \in stored => RawRequired(buffer.tests) \subseteq stored

\* Rows are written only from a sealed, finished result of a runner that
\* returned zero, and only for tests that passed.
OnlyFinalResults ==
  stored # {} => /\ result = buffer.tests
                 /\ \A t \in Enabled : result[t] \in {"pass", "fail"}
                 /\ stored \subseteq Required(result)

\* A pod that exits zero has published a receipt that its readers take for a
\* complete recording; and one they take for it, whatever the pod's exit code,
\* has a released marker and everything its result requires in the databases.
SuccessIsPublished ==
  /\ podExit = 0 => receipt # None /\ recording_complete(receipt)
  /\ receipt # None /\ recording_complete(receipt) =>
       marker = "released" /\ stored = Required(receipt.tests)

\* The monitor confirms a completion only when the receipt is published and
\* every selected test passed and is recorded in its databases.
ConfirmedIsTrue ==
  completion_confirmed => /\ receipt # None /\ receipt.exit = 0
                          /\ Passing(receipt.tests) = Enabled
                          /\ stored = Required(receipt.tests)

\* The published tests are the last the runner recorded: no child can still
\* be changing the buffer or a database when result.json appears, although an
\* interrupted launch may leave one astray.
PublishedIsFinal ==
  receipt # None => /\ receipt.tests = buffer.tests /\ buffer.whole
                    /\ child \notin Alive \cup {"stray_runner"}

\* The run marker disappears only after an accepted, complete ingestion.
MarkerMeansRecorded ==
  marker = "released" => ingestion = "pass" /\ stored = Required(result)

\* What architecture.md says of interruption: no benchmark process outlives
\* its stage.
NoBenchmarkOutlivesItsStage == workload => sup = "runner" /\ child = "testing"

(* The run's evidence as an abstract specification. *)
Evidence == INSTANCE RunEvidence WITH outcome <- result

\* One outcome, concluded once; only finished outcomes recorded, status rows
\* last; one receipt, true of the databases, and nothing recorded after it.
ImplementsRunEvidence == Evidence!Spec

\* Whatever the children do, the pod ends: both stages have a deadline.
RunEnds == <>(sup = "exited")
=============================================================================

------------------------ MODULE RunPipelineInvariant ------------------------
(* The inductive strengthening of the safety properties of RunPipeline. *)
EXTENDS RunPipeline

Finished(f) == \A t \in Enabled : f[t] \in {"pass", "fail"}
RawCommitted == \A s \in RawRequired(buffer.tests) : claims[s] = "committed"

\* A child exists only in its own stage.
ChildInStage ==
  /\ child \in RunnerPhases => sup = "runner"
  /\ child \in IngestionPhases => sup = "ingestion"
  /\ child = "ended" => sup \in {"runner", "ingestion"}
  /\ child \in Stray => sup \in {"closing", "publishing"}

\* What the supervisor has not decided yet.
Undecided ==
  /\ sup \in Supervised \cup {"reserving"} => exitCode = 1
  /\ sup \in {"reserving", "starting", "runner", "binding"} => result = None
  /\ sup \in {"reserving", "starting", "runner", "binding", "sealed"} => ingestion = "not_started"
  /\ ingestion = "not_started" => stored = {} /\ ack = None
  /\ sup = "ingestion" => ack = None /\ ingestion = "unconfirmed"
  /\ child = "authorizing" => stored = {}

\* The buffer is whole while the runner rewrites it, and final once bound.
ResultIsBuffer ==
  /\ sup \in {"reserving", "starting"} => ~buffer.whole
  /\ child = "stray_runner" => ~buffer.whole /\ result = None /\ ingestion = "not_started"
  /\ child = "testing" => buffer.whole
  /\ sup = "runner" /\ child = "ended" /\ childExit = 0 => buffer.whole /\ Finished(buffer.tests)
  /\ sup = "binding" => buffer.whole /\ Finished(buffer.tests)
  /\ sup \in {"sealed", "ingestion", "checking", "releasing", "released"} =>
       result # None /\ Finished(buffer.tests)
  /\ result # None => result = buffer.tests /\ buffer.whole
  /\ ingestion # "not_started" => result # None /\ Finished(buffer.tests)

\* The `stores` dictionary of a living writer against the databases.
ClaimsFollowStores ==
  child \in {"writing", "acknowledged"} =>
    /\ \A s \in Destinations : /\ claims[s] = "not_required" <=> s \notin Required(buffer.tests)
                               /\ claims[s] # "unconfirmed"
                               /\ claims[s] = "committed" => s \in stored
                               /\ s \in stored /\ claims[s] = "pending" => s \in current
    /\ current \subseteq Required(buffer.tests)
    /\ Validation \in current => RawCommitted
    /\ claims[Validation] = "committed" => RawCommitted
    /\ child = "acknowledged" => claims[Validation] = "committed"

StoredInOrder ==
  /\ stored \subseteq Required(buffer.tests)
  /\ StatusLast

\* The last acknowledgement in the event log, and the one accepted.
AcknowledgementHolds ==
  /\ child = "writing" => log.ack = None
  /\ log.ack # None => /\ TrueOf(log.ack.stores)
                       /\ log.ack.status = "pass" => stored = Required(buffer.tests)
  /\ ack # None => ack = log.ack
  /\ ack # None /\ ack.status = "pass" => ack.stores = Expected(result)
  /\ ingestion = "pass" => ack # None /\ ack.status = "pass"

\* What has to be true before the marker, the exit code and the receipt.
SuccessInOrder ==
  /\ sup \in {"checking", "releasing", "released"} => ingestion = "pass" /\ captured
  /\ sup = "released" => marker = "released"
  /\ marker = "released" => ingestion = "pass"
  /\ exitCode = 0 => ingestion = "pass" /\ marker = "released" /\ captured
  /\ sup # "exited" => receipt = None /\ podExit = None
  /\ sup = "publishing" => log.summary = Completion(result)
  /\ receipt # None => result # None /\ receipt = Completion(result) /\ log.summary = receipt
  /\ podExit = 0 => exitCode = 0 /\ receipt # None

SafeInv ==
  /\ ChildInStage /\ Undecided /\ ResultIsBuffer /\ ClaimsFollowStores
  /\ StoredInOrder /\ AcknowledgementHolds /\ SuccessInOrder

(***************************************************************************)
(* How far a benchmark that outlives its stage can reach.                  *)
(***************************************************************************)
\* A benchmark belongs to a test that is being run, unless its runner was ended.
WorkloadInv ==
  workload => /\ sup \in {"runner", "closing", "publishing"} /\ child # "preparing"
              /\ ingestion = "not_started"
              /\ child = "testing" => Active # {}
              /\ sup = "runner" /\ child = "ended" => childExit = 1

\* While a benchmark is alive, also one its stage has left behind, the databases hold
\* nothing of the run, its marker is not released and no success is meant or told.
BenchmarkIsContained ==
  workload => /\ child \notin IngestionPhases /\ sup # "exited" /\ podExit = None
              /\ ingestion = "not_started" /\ stored = {}
              /\ marker # "released" /\ exitCode = 1
=============================================================================

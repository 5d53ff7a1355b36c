------------------------------ MODULE TestRunner ------------------------------
(***************************************************************************)
(* The runner child of one run (cval/validation/runner.py) as a program:   *)
(* the result document it holds in memory, the buffer it rewrites after    *)
(* every transition, the parser (results.py) that each document has to     *)
(* pass before the buffer is opened, and the exceptions and signals that   *)
(* may be raised between any two of these steps.  RunPipeline has one      *)
(* action for each of its transitions; RunsAsChild is that they agree.     *)
(*                                                                         *)
(* Not modelled: tests that are not selected (only an event), the fields   *)
(* of the document that do not change, and errors of starting the threads  *)
(* that read a process.                                                    *)
(***************************************************************************)
EXTENDS Naturals, NoValue

CONSTANTS
  LastTest,   \* the enabled tests, numbered in their order
  MaxTime,    \* bound on the wall clock
  Faults,     \* kinds of faults: "signal", "error", "clock", "kill"
  MaxFaults   \* bound on their number

ASSUME RunnerBounds == LastTest \in Nat \ {0} /\ MaxTime \in Nat /\ MaxFaults \in Nat

Tests == 1..LastTest
Times == 0..MaxTime

VARIABLES
  point,      \* the statement that is next
  at,         \* registered_test
  tests,      \* result["tests"]: phase, status, started_at, completed_at, exit_code
  completed,  \* result["completed_at"]
  opened,     \* the buffer was opened for writing, and with that truncated
  file,       \* the buffer: is it whole, and the document it holds or held last
  process,    \* the running setup or entrypoint: none, spawned but unknown to terminate_active, active
  now,        \* the wall clock
  exit,       \* exit code
  faults,
  launched,   \* history: a process was started for the test whose end is not recorded yet
  returned,   \* history: tests whose entrypoint returned 0 in time, left nothing running, and was logged
  seen        \* history: file, launched, and whether the buffer was initialized, when the first signal arrived

control == <<point, at, opened, exit>>
document == <<tests, completed>>
history == <<launched, returned, seen>>
runnerVars == <<control, document, file, process, now, faults, history>>

TerminalPhases == {"finished", "setup_failed", "timed_out", "interrupted", "framework_error"}
TestPhases == TerminalPhases \cup {"pending", "setup", "running"}
TestRecords == [phase : TestPhases, status : {"pass", "fail", "incomplete"},
                started : Times \cup {None}, completed : Times \cup {None}, code : {0, 1, None}]
Documents == [whole : BOOLEAN, tests : [Tests -> TestRecords], completed : Times \cup {None}]
Observations == [file : Documents, launched : BOOLEAN, initialized : BOOLEAN]
ASSUME NoneIsNoCode == None \notin Nat \cup Observations

NotStarted == [phase |-> "pending", status |-> "incomplete",
               started |-> None, completed |-> None, code |-> None]

(***************************************************************************)
(* Where an exception goes.  Handlers of SIGTERM and SIGINT raise one.     *)
(***************************************************************************)
Guarded == {"setup", "running_write", "running_emit", "workload", "finish_write", "finish_emit"}
Finishing == {"error_finish", "error_write", "error_emit", "stop_finish", "stop_write", "stop_emit"}
InRegistry == {"next", "setup_write", "setup_emit"} \cup Finishing
Stopping == {"stopping", "stopping_write"}
Handled == Guarded \cup InRegistry \cup Stopping
Unhandled == {"initial", "started", "final_write", "final_emit", "last_write"}
Points == Handled \cup Unhandled \cup {"exited"}

Writes == {"initial", "setup_write", "running_write", "finish_write", "error_write", "stop_write",
           "stopping_write", "final_write", "last_write"}
Running == {"setup", "workload"}

Killed == 128  \* any exit code of a process that a signal ended

Go(p) == point' = p /\ UNCHANGED exit
Leave(code) == point' = "exited" /\ exit' = code

Raise(interrupt) ==
  \/ point \in Guarded /\ Go(IF interrupt THEN "stop_finish" ELSE "error_finish")
  \/ point \in InRegistry /\ IF interrupt THEN Go("stopping") ELSE Leave(1)
  \/ point \in Stopping /\ Leave(IF interrupt THEN 130 ELSE 1)
  \/ point \in Unhandled /\ Leave(IF interrupt THEN Killed ELSE 1)

Fault(kind) == kind \in Faults /\ faults < MaxFaults /\ faults' = faults + 1
Reads(t) == t \in {now, now + 1} \cap Times /\ now' = t
Seen == seen' = IF seen = None THEN [file |-> file, launched |-> launched,
                                      initialized |-> point # "initial"] ELSE seen

(***************************************************************************)
(* parse_validation_result_v2: what the document may say.                  *)
(***************************************************************************)
parse_test(s) ==
  /\ s.phase = "pending" => s = NotStarted
  /\ s.phase \in {"setup", "running"} =>
       s.started # None /\ s.completed = None /\ s.status = "incomplete" /\ s.code = None
  /\ s.phase \in TerminalPhases =>
       /\ s.completed # None /\ s.started # None /\ s.started <= s.completed
       /\ CASE s.phase = "finished" -> <<s.status, s.code>> \in {<<"pass", 0>>, <<"fail", 1>>}
            [] s.phase = "setup_failed" -> s.status = "fail" /\ s.code = 1
            [] s.phase = "interrupted" -> s.status = "incomplete"
            [] OTHER -> s.status = "fail" /\ s.code # 0

AllTerminal(f) == \A t \in Tests : f[t].phase \in TerminalPhases

\* Faulty variant: the document is written as it is.
parse_anything(f, end) == TRUE

parse_validation_result_v2(f, end) ==
  /\ \A t \in Tests : parse_test(f[t])
  /\ AllTerminal(f) <=> end # None
  /\ end # None => \A t \in Tests : f[t].completed # None => f[t].completed <= end

(***************************************************************************)
(* _write_state: complete the document, parse it, open, dump.              *)
(***************************************************************************)
After(p) ==
  CASE p = "initial" -> "started"
    [] p = "setup_write" -> "setup_emit"
    [] p = "running_write" -> "running_emit"
    [] p = "finish_write" -> "finish_emit"
    [] p = "error_write" -> "error_emit"
    [] p = "stop_write" -> "stop_emit"
    [] p = "final_write" -> "final_emit"

OpenBuffer ==
  /\ point \in Writes /\ ~opened
  /\ \E t \in Times :
       /\ Reads(t)
       /\ completed' = IF ~AllTerminal(tests) THEN None ELSE IF completed = None THEN t ELSE completed
  /\ IF parse_validation_result_v2(tests, completed')
       THEN opened' = TRUE /\ file' = [file EXCEPT !.whole = FALSE] /\ UNCHANGED <<point, exit>>
       ELSE Raise(FALSE) /\ UNCHANGED <<opened, file>>
  /\ UNCHANGED <<at, tests, process, faults, history>>

DumpBuffer ==
  /\ opened /\ opened' = FALSE
  /\ file' = [whole |-> TRUE, tests |-> tests, completed |-> completed]
  /\ launched' = (launched /\ at \in Tests /\ tests[at].phase \notin TerminalPhases)
  /\ CASE point = "stopping_write" -> Leave(130)
       [] point = "last_write" -> Leave(0)
       [] OTHER -> Go(After(point))
  /\ UNCHANGED <<at, document, process, now, faults, returned, seen>>

(***************************************************************************)
(* _execute_registry and _run_one_test.                                    *)
(***************************************************************************)
Emit ==
  /\ \/ point = "started" /\ Go("next")
     \/ point = "setup_emit" /\ Go("setup")
     \/ point = "running_emit" /\ Go("workload")
     \/ point \in {"finish_emit", "error_emit"} /\ Go("next")
     \/ point = "stop_emit" /\ Go("stopping")
     \/ point = "stopping" /\ Go("stopping_write")
     \/ point = "final_emit" /\ Go("last_write")
  /\ UNCHANGED <<at, opened, document, file, process, now, faults, history>>

NextTest ==
  /\ point = "next" /\ at < LastTest
  /\ at' = at + 1 /\ Go("setup_write")
  /\ \E t \in Times :
       /\ Reads(t)
       /\ tests' = [tests EXCEPT ![at + 1].phase = "setup", ![at + 1].started = t]
  /\ UNCHANGED <<opened, completed, file, process, faults, history>>

\* The handlers are restored before result["completed_at"] is looked at.
RegistryDone ==
  /\ point = "next" /\ at = LastTest /\ Go("final_write")
  /\ \E t \in Times : Reads(t) /\ completed' = IF completed = None THEN t ELSE completed
  /\ UNCHANGED <<at, opened, tests, file, process, faults, history>>

\* Popen, and the assignment that makes the process known to terminate_active.
Spawn ==
  /\ point \in Running /\ process = "none"
  /\ process' = "spawned" /\ launched' = TRUE
  /\ UNCHANGED <<control, document, file, now, faults, returned, seen>>

Register ==
  /\ point \in Running /\ process = "spawned" /\ process' = "active"
  /\ UNCHANGED <<control, document, file, now, faults, history>>

_finish_test(phase, status, code) ==
  \E t \in Times :
    /\ Reads(t)
    /\ tests' = [tests EXCEPT ![at] = [@ EXCEPT !.phase = phase, !.status = status,
                                                !.completed = t, !.code = code]]

\* The process returns; one that exceeds the deadline or leaves descendants is killed.
SetupReturns(code, clean) ==
  /\ point = "setup" /\ process = "active" /\ process' = "none"
  /\ IF code = 0 /\ clean
       THEN tests' = [tests EXCEPT ![at].phase = "running"] /\ Go("running_write") /\ UNCHANGED now
       ELSE /\ IF clean THEN _finish_test("setup_failed", "fail", 1) ELSE _finish_test("timed_out", "fail", 1)
            /\ Go("finish_write")
  /\ UNCHANGED <<at, opened, completed, file, faults, history>>

\* Faulty variant: the exit code decides, whatever is still running.
WorkloadReturns_by_code(code, clean) ==
  /\ point = "workload" /\ process = "active" /\ process' = "none"
  /\ _finish_test("finished", IF code = 0 THEN "pass" ELSE "fail", code)
  /\ returned' = IF code = 0 /\ clean THEN returned \cup {at} ELSE returned
  /\ Go("finish_write")
  /\ UNCHANGED <<at, opened, completed, file, faults, launched, seen>>

WorkloadReturns(code, clean) ==
  /\ point = "workload" /\ process = "active" /\ process' = "none"
  /\ IF clean THEN _finish_test("finished", IF code = 0 THEN "pass" ELSE "fail", code)
              ELSE _finish_test("timed_out", "fail", 1)
  /\ returned' = IF code = 0 /\ clean THEN returned \cup {at} ELSE returned
  /\ Go("finish_write")
  /\ UNCHANGED <<at, opened, completed, file, faults, launched, seen>>

\* The except clauses: a framework error is isolated, an interruption is raised again.
FinishInHandler ==
  /\ \/ point = "error_finish" /\ _finish_test("framework_error", "fail", None) /\ Go("error_write")
     \/ point = "stop_finish" /\ _finish_test("interrupted", "incomplete", None) /\ Go("stop_write")
  /\ UNCHANGED <<at, opened, completed, file, process, faults, history>>

(***************************************************************************)
(* Faults.                                                                 *)
(***************************************************************************)
\* Faulty variant: an interruption is isolated like an error.
handle_signal_isolated ==
  /\ point # "exited" /\ Fault("signal") /\ Seen
  /\ Raise(point \notin Guarded) /\ opened' = FALSE
  /\ process' = IF process = "active" /\ point \in Handled THEN "none" ELSE process
  /\ UNCHANGED <<at, document, file, now, launched, returned>>

\* SIGTERM from the supervisor: terminate_active and KeyboardInterrupt, or the default disposition.
handle_signal ==
  /\ point # "exited" /\ Fault("signal") /\ Seen
  /\ Raise(TRUE) /\ opened' = FALSE
  /\ process' = IF process = "active" /\ point \in Handled THEN "none" ELSE process
  /\ UNCHANGED <<at, document, file, now, launched, returned>>

\* An event that cannot be written, a log or buffer that fails, a Popen that fails: an exception.
Error ==
  /\ point \notin {"exited", "error_finish", "stop_finish"} /\ process # "spawned" /\ Fault("error")
  /\ Raise(FALSE) /\ opened' = FALSE /\ process' = "none"
  /\ UNCHANGED <<at, document, file, now, history>>

\* Killed from outside, or by the supervisor after its grace period.
Kill ==
  /\ point # "exited" /\ Fault("kill") /\ Leave(Killed) /\ opened' = FALSE
  /\ UNCHANGED <<at, document, file, process, now, history>>

ClockStepsBack ==
  /\ Fault("clock") /\ now' \in 0..(now - 1) /\ now > 0
  /\ UNCHANGED <<control, document, file, process, history>>

RunnerInit ==
  /\ point = "initial" /\ at = 0 /\ opened = FALSE /\ exit = None
  /\ tests = [t \in Tests |-> NotStarted] /\ completed = None
  /\ file = [whole |-> FALSE, tests |-> tests, completed |-> None]
  /\ process = "none" /\ now = 0 /\ faults = 0
  /\ launched = FALSE /\ returned = {} /\ seen = None

RunnerNext ==
  \/ OpenBuffer \/ DumpBuffer \/ Emit \/ NextTest \/ RegistryDone \/ Spawn \/ Register
  \/ \E code \in 0..1, clean \in BOOLEAN : SetupReturns(code, clean) \/ WorkloadReturns(code, clean)
  \/ FinishInHandler \/ handle_signal \/ Error \/ Kill \/ ClockStepsBack

RunnerSpec == RunnerInit /\ [][RunnerNext]_runnerVars

(***************************************************************************)
(* Properties.                                                             *)
(***************************************************************************)
\* Type correctness of every variable.
RunnerTypeOK ==
  /\ point \in Points /\ at \in 0..LastTest /\ opened \in BOOLEAN
  /\ exit \in {0, 1, 130, Killed, None}
  /\ tests \in [Tests -> TestRecords] /\ completed \in Times \cup {None}
  /\ file \in Documents
  /\ process \in {"none", "spawned", "active"} /\ now \in Times /\ faults \in 0..MaxFaults
  /\ launched \in BOOLEAN /\ returned \subseteq Tests
  /\ seen \in Observations \cup {None}

\* A test that the buffer ever says passed is one whose entrypoint returned
\* zero in time, left no process behind and had its output recorded, whatever
\* failed and whoever interrupted it since (runner.py, _run_one_test).
PassIsEarned == \A t \in Tests : file.tests[t].status = "pass" => t \in returned

\* A runner that returns zero leaves a whole buffer that holds its last
\* document, with every test finished and none after the run's own end
\* (runner.py, run_validation_tests; results.py, parse_validation_result_v2).
ExitZeroIsFinal ==
  exit = 0 =>
    /\ file = [whole |-> TRUE, tests |-> tests, completed |-> completed]
    /\ \A t \in Tests : /\ tests[t].phase \in TerminalPhases \ {"interrupted"}
                        /\ tests[t].started <= tests[t].completed /\ tests[t].completed <= completed

(***************************************************************************)
(* The child of RunPipeline.  What the runner does between the signal and  *)
(* its end is one step there, of the supervisor that waits for it; until   *)
(* then the buffer stays as it was when the signal arrived.                *)
(***************************************************************************)
Ended == point = "exited"
Signalled == seen # None
Outcome(s) == IF s.phase \in {"pending", "setup", "running"} THEN s.phase ELSE s.status
View(f) == [t \in Tests |-> Outcome(f[t])]
Initialized == IF Signalled THEN seen.initialized ELSE point # "initial"

Supervisor == IF Ended /\ Signalled THEN "closing" ELSE "runner"
Child == IF Ended THEN IF Signalled THEN "none" ELSE "ended"
                  ELSE IF Initialized THEN "testing" ELSE "preparing"
ChildExit == IF Ended /\ ~Signalled /\ exit # 0 THEN 1 ELSE 0
Workload == IF Ended THEN process # "none" ELSE IF Signalled THEN seen.launched ELSE launched
Buffer == IF Ended THEN [whole |-> file.whole, tests |-> View(file.tests)]
                   ELSE [whole |-> Initialized,
                         tests |-> View(IF Signalled THEN seen.file.tests ELSE file.tests)]

Pipeline == INSTANCE RunPipeline WITH
  Enabled <- Tests, Stores <- {}, Owner <- [s \in {} |-> 0], Validation <- "validation",
  sup <- Supervisor, child <- Child, childExit <- ChildExit, workload <- Workload, buffer <- Buffer,
  current <- {}, claims <- [s \in {"validation"} |-> "pending"], stored <- {},
  log <- [ack |-> None, summary |-> None],
  result <- None, ack <- None, ingestion <- "not_started", captured <- FALSE, exitCode <- 1,
  marker <- "held", receipt <- None, podExit <- None

\* Every step of the program is one that RunPipeline's runner, or the end of an
\* interrupted one, may take, or changes nothing that its supervisor can see.
RunsAsChild == [][Pipeline!RunnerStep \/ Pipeline!Interrupt]_Pipeline!vars

=============================================================================

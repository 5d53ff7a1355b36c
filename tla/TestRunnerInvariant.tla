------------------------- MODULE TestRunnerInvariant -------------------------
(* The inductive strengthening of the properties of TestRunner: how far the  *)
(* document in memory may be ahead of the buffer at each statement, and of   *)
(* what the buffer was when a signal arrived.                                *)
EXTENDS TestRunner

\* RunPipeline's Transitions of one test.
Recorded == {"setup", "running", "pass", "fail"}
Steps == {<<"pending", "setup">>, <<"setup", "running">>, <<"running", "pass">>}
           \cup (Recorded \X {"fail", "incomplete"})
AtMostAStep(a, b) == a = b \/ <<a, b>> \in Steps

Interrupting == {"stop_finish", "stop_write", "stop_emit", "stopping", "stopping_write"}
Between == {"next", "finish_emit", "error_emit", "final_write", "final_emit", "last_write"}
Last == {"final_write", "final_emit", "last_write"}

\* Which statements there are, and what runs at them.
PointInv ==
  /\ opened => point \in Writes /\ ~file.whole /\ parse_validation_result_v2(tests, completed)
  /\ exit # None <=> Ended
  /\ point \in {"initial", "started"} => at = 0
  /\ at = 0 => point \in {"initial", "started", "next", "stopping", "stopping_write", "exited"}
  /\ point = "initial" => ~file.whole
  /\ point \in Last => at = LastTest
  /\ process # "none" => Ended \/ (point \in Running /\ launched) \/ (Signalled /\ seen.launched)
  /\ point \in {"running_write", "running_emit", "workload"} => launched
  /\ launched => at \in Tests /\ Outcome(file.tests[at]) \in {"setup", "running"}

\* The tests before and after the current one, in both documents.
OthersInv ==
  /\ \A t \in Tests : tests[t].phase = "interrupted" => tests[t].status = "incomplete"
  /\ \A t \in Tests : t # at \/ point \in Between => file.tests[t] = tests[t]
  /\ \A t \in Tests : t < at => Outcome(tests[t]) \in {"pass", "fail"}
  /\ \A t \in Tests : t > at => Outcome(tests[t]) = "pending"

\* The current test: b in the buffer, d in the document.
StatesAt(b, d) ==
  CASE point \in Between -> b = d /\ d \in {"pass", "fail"}
    [] point = "setup_write" -> b = "pending" /\ d = "setup"
    [] point \in {"setup_emit", "setup"} -> b = "setup" /\ d = "setup"
    [] point = "running_write" -> b = "setup" /\ d = "running"
    [] point \in {"running_emit", "workload"} -> b = "running" /\ d = "running"
    [] point = "finish_write" -> <<b, d>> \in Steps /\ d \in {"pass", "fail"}
    [] point = "error_finish" -> b \in Recorded /\ AtMostAStep(b, d)
    [] point = "error_write" -> b \in Recorded /\ d = "fail"
    [] point = "stop_finish" -> b \in Recorded /\ AtMostAStep(b, d)
    [] point = "stop_write" -> b \in Recorded /\ d = "incomplete"
    [] point = "stop_emit" -> b = "incomplete" /\ d = "incomplete"
    [] point \in Stopping -> AtMostAStep(b, d)
    [] OTHER -> TRUE
CurrentInv == at \in Tests => StatesAt(Outcome(file.tests[at]), Outcome(tests[at]))

\* What has been changed since a signal.
SignalInv ==
  /\ point \in Interrupting => Signalled
  /\ Signalled /\ ~Ended =>
       /\ point \in Interrupting /\ seen.initialized
       /\ \A t \in Tests : t # at => seen.file.tests[t] = file.tests[t]
       /\ at \in Tests =>
            /\ AtMostAStep(Outcome(seen.file.tests[at]), Outcome(file.tests[at]))
            /\ AtMostAStep(Outcome(seen.file.tests[at]), Outcome(tests[at]))
            /\ point = "stop_finish" => Outcome(seen.file.tests[at]) \in Recorded

EarnedInv == \A t \in Tests : tests[t].status = "pass" \/ file.tests[t].status = "pass" => t \in returned

RunnerInv == PointInv /\ OthersInv /\ CurrentInv /\ SignalInv /\ EarnedInv
=============================================================================

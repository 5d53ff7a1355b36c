-------------------------- MODULE RunPipelineProofs --------------------------
(***************************************************************************)
(* Proofs that a run's evidence is true, for every set of selected tests,  *)
(* raw stores and ownership: types, the inductive invariant SafeInv, and   *)
(* the safety properties of RunPipeline that follow from it.  The second   *)
(* half is about the runner as a program, TestRunner: types, the inductive *)
(* invariant RunnerInv, and that it is a runner RunPipeline may have.      *)
(***************************************************************************)
EXTENDS RunPipelineInvariant, TestRunnerInvariant, TLAPS

(***************************************************************************)
(* Type correctness.                                                       *)
(***************************************************************************)
LEMMA InitTypeOK == Init => TypeOK
<1> SUFFICES ASSUME Init PROVE TypeOK
  OBVIOUS
<1>1. buffer \in [whole : BOOLEAN, tests : Results]
  BY DEF Init, Results, TestStates, AllPending
<1>2. claims \in Claims /\ current \subseteq Destinations /\ stored \subseteq Destinations
  BY DEF Init, Claims
<1>3. log \in [ack : Acknowledgements \cup {None}, summary : Summaries \cup {None}]
  BY DEF Init
<1>4. workload \in BOOLEAN /\ captured \in BOOLEAN
  BY Zenon DEF Init
<1> QED
  BY <1>1, <1>2, <1>3, <1>4
  DEF Init, TypeOK, SupervisorStates, Supervised, Alive, RunnerPhases, IngestionPhases, Ingestions

USE DEF Results, TestStates

LEMMA TornType ==
  ASSUME TypeOK, \E whole \in {FALSE, buffer.whole} : buffer' = [buffer EXCEPT !.whole = whole]
  PROVE  buffer' \in [whole : BOOLEAN, tests : Results]
<1>1. PICK whole \in {FALSE, buffer.whole} : buffer' = [buffer EXCEPT !.whole = whole]
  OBVIOUS
<1>2. buffer.whole \in BOOLEAN /\ whole \in BOOLEAN
  BY <1>1 DEF TypeOK
<1> QED
  BY <1>1, <1>2 DEF TypeOK

LEMMA RunnerStepTypeOK ==
  ASSUME TypeOK, RunnerStep
  PROVE  TypeOK'
<1>0. RunnerFails \/ RunnerCrashes => buffer' \in [whole : BOOLEAN, tests : Results]
  BY TornType DEF RunnerFails, RunnerCrashes
<1> USE DEF TypeOK, Alive, Stray, RunnerPhases, IngestionPhases, childVars, writer, verdict, evidence
<1>1. CASE RunnerStarts
  BY <1>1 DEF RunnerStarts, AllPending
<1>2. CASE RunnerFinishes
  BY <1>2 DEF RunnerFinishes
<1>3. CASE RunnerFails
  <2>1. buffer' \in [whole : BOOLEAN, tests : Results]
    BY <1>3, <1>0
  <2>2. child' = "ended" /\ childExit' \in 0..1
    BY <1>3 DEF RunnerFails
  <2>3. workload' = FALSE
    BY <1>3, Zenon DEF RunnerFails
  <2>4. workload' \in BOOLEAN
    BY <2>3, Zenon
  <2>5. UNCHANGED <<sup, writer, log, verdict, evidence>>
    BY <1>3 DEF RunnerFails
  <2> QED
    BY <2>1, <2>2, <2>4, <2>5
<1>4. CASE RunnerCrashes
  <2>1. buffer' \in [whole : BOOLEAN, tests : Results]
    BY <1>4, <1>0
  <2>2. child' = "ended" /\ childExit' \in 0..1
    BY <1>4 DEF RunnerCrashes
  <2>3. UNCHANGED <<sup, workload, writer, log, verdict, evidence>>
    BY <1>4 DEF RunnerCrashes
  <2> QED
    BY <2>1, <2>2, <2>3
<1>5. ASSUME NEW t \in Enabled, StartTest(t) PROVE TypeOK'
  BY <1>5 DEF StartTest, Record
<1>6. ASSUME NEW t \in Enabled, LaunchSetup(t) PROVE TypeOK'
  BY <1>6 DEF LaunchSetup
<1>7. ASSUME NEW t \in Enabled, StartWorkload(t) PROVE TypeOK'
  BY <1>7 DEF StartWorkload, Record
<1>8. ASSUME NEW t \in Enabled, NEW status \in {"pass", "fail"}, FinishTest(t, status)
      PROVE TypeOK'
  <2>1. buffer' \in [whole : BOOLEAN, tests : Results]
    BY <1>8 DEF FinishTest, Record
  <2>2. workload' \in BOOLEAN
    BY <1>8, Zenon DEF FinishTest
  <2> QED
    BY <1>8, <2>1, <2>2 DEF FinishTest
<1> QED
  BY <1>1, <1>2, <1>3, <1>4, <1>5, <1>6, <1>7, <1>8 DEF RunnerStep

LEMMA StrayTypeOK ==
  ASSUME TypeOK, StrayWrites \/ StrayEnds
  PROVE  TypeOK'
<1>1. buffer' \in [whole : BOOLEAN, tests : Results]
  <2>1. CASE StrayWrites
    BY <2>1 DEF StrayWrites, AllPending
  <2>2. CASE StrayEnds
    BY <2>2 DEF StrayEnds, TypeOK
  <2> QED
    BY <2>1, <2>2
<1>2. child' = "none" /\ UNCHANGED <<sup, childExit, workload, writer, log, verdict, evidence>>
  BY DEF StrayWrites, StrayEnds
<1> QED
  BY <1>1, <1>2 DEF TypeOK, writer, verdict, evidence

LEMMA FailedType == ASSUME NEW c \in Claims PROVE Failed(c) \in Claims
  BY DEF Failed, Claims

LEMMA GiveUpTypeOK ==
  ASSUME TypeOK, GiveUp
  PROVE  /\ current' \subseteq Destinations /\ claims' \in Claims /\ stored' \subseteq Destinations
         /\ log' \in [ack : Acknowledgements \cup {None}, summary : Summaries \cup {None}]
<1>1. claims' \in Claims
  BY FailedType DEF GiveUp, TypeOK
<1>2. [status |-> "fail", stores |-> claims'] \in Acknowledgements
  BY <1>1 DEF Acknowledgements
<1> QED
  BY <1>1, <1>2 DEF GiveUp, TypeOK

LEMMA IngestionTypeOK ==
  ASSUME TypeOK, IngestionStep
  PROVE  TypeOK'
<1> USE DEF TypeOK, Alive, Stray, RunnerPhases, IngestionPhases, childVars, writer, verdict, evidence
<1>1. CASE IngestionStarts
  BY <1>1 DEF IngestionStarts, Claims
<1>2. CASE BeginValidation
  BY <1>2 DEF BeginValidation, Writing, Destinations
<1>3. CASE IngestionAcknowledges
  <2>1. [status |-> "pass", stores |-> claims] \in Acknowledgements
    BY DEF Acknowledgements
  <2> QED BY <1>3, <2>1 DEF IngestionAcknowledges, Writing
<1>4. CASE IngestionFails
  BY <1>4, GiveUpTypeOK DEF IngestionFails, Writing
<1>5. CASE IngestionEnds
  BY <1>5 DEF IngestionEnds
<1>6. ASSUME NEW t \in Enabled, BeginWriter(t) PROVE TypeOK'
  BY <1>6 DEF BeginWriter, OwnedBy, Destinations, Writing
<1>7. ASSUME NEW s \in Destinations, CommitStore(s) PROVE TypeOK'
  BY <1>7 DEF CommitStore, Writing
<1>8. ASSUME NEW s \in Destinations, ConfirmStore(s) PROVE TypeOK'
  BY <1>8 DEF ConfirmStore, Claims, Writing
<1> QED
  BY <1>1, <1>2, <1>3, <1>4, <1>5, <1>6, <1>7, <1>8 DEF IngestionStep

LEMMA TerminateTypeOK ==
  ASSUME TypeOK, Terminate
  PROVE  /\ child' = "none" /\ workload' \in BOOLEAN /\ buffer' \in [whole : BOOLEAN, tests : Results]
         /\ current' \subseteq Destinations /\ claims' \in Claims /\ stored' \subseteq Destinations
         /\ log' \in [ack : Acknowledgements \cup {None}, summary : Summaries \cup {None}]
<1>1. CASE child \in RunnerPhases /\ StopRunner /\ UNCHANGED <<writer, log>>
  <2>1. PICK whole \in {FALSE, buffer.whole},
             f \in {buffer.tests} \cup (IF child = "testing" THEN Ahead ELSE {}) :
               buffer' = [whole |-> whole, tests |-> f]
    BY <1>1 DEF StopRunner
  <2>4. f \in Results /\ whole \in BOOLEAN
    BY DEF Ahead, TypeOK
  <2>5. buffer' \in [whole : BOOLEAN, tests : Results]
    BY <2>1, <2>4
  <2>2. workload' \in {FALSE, workload}
    BY <1>1, Zenon DEF StopRunner
  <2>3. workload' \in BOOLEAN
    BY <2>2 DEF TypeOK
  <2> QED
    BY <1>1, <2>5, <2>3 DEF TypeOK, Terminate, writer
<1>2. CASE child \in IngestionPhases /\ StopIngestion /\ UNCHANGED <<workload, buffer>>
  BY <1>2, GiveUpTypeOK DEF TypeOK, Terminate, StopIngestion, writer
<1>3. CASE child \notin Alive /\ UNCHANGED <<workload, buffer, writer, log>>
  BY <1>3 DEF TypeOK, Terminate, writer
<1> QED
  BY <1>1, <1>2, <1>3 DEF Terminate

LEMMA CompletionType ==
  ASSUME TypeOK, NEW r \in Results \cup {None}
  PROVE  /\ Completion(r) \in Summaries
         /\ r # None => Completion(r) \in Receipts
<1>1. (IF ack = None THEN None ELSE ack.stores) \in Claims \cup {None}
  BY DEF TypeOK, Acknowledgements
<1> QED
  BY <1>1 DEF Completion, Summaries, Receipts, TypeOK

LEMMA SummarizedType ==
  ASSUME TypeOK
  PROVE  /\ Loaded \in Results \cup {None}
         /\ Summarized \in [ack : Acknowledgements \cup {None}, summary : Summaries \cup {None}]
<1>1. Loaded \in Results \cup {None}
  BY DEF TypeOK, Loaded
<1> QED
  BY <1>1, CompletionType DEF Summarized, TypeOK

LEMMA SupervisorTypeOK ==
  ASSUME TypeOK, SupervisorStep \/ Signal \/ Crash
  PROVE  TypeOK'
<1> USE DEF TypeOK, Alive, Stray, RunnerPhases, IngestionPhases, Supervised, SupervisorStates,
            childVars, writer, verdict, evidence
<1>1. CASE Reserve
  BY <1>1 DEF Reserve
<1>2. CASE ReservationRefused
  BY <1>2 DEF ReservationRefused
<1>3. CASE LaunchRunner
  <2>1. UNCHANGED <<childExit, workload, buffer, writer, log, result, ack, ingestion, exitCode, evidence>>
    BY <1>3 DEF LaunchRunner
  <2>2. child' \in Alive /\ sup' \in SupervisorStates /\ captured' \in BOOLEAN
    BY <1>3 DEF LaunchRunner
  <2> HIDE DEF Alive, Stray, SupervisorStates
  <2> QED
    BY <2>1, <2>2
<1>4. CASE RunnerReturns
  BY <1>4 DEF RunnerReturns
<1>5. CASE BindResult
  BY <1>5 DEF BindResult
<1>6. CASE LaunchIngestion
  <2>1. UNCHANGED <<childExit, workload, buffer, writer, log, result, ack, exitCode, evidence>>
    BY <1>6 DEF LaunchIngestion
  <2>2. child' \in Alive /\ sup' \in SupervisorStates /\ captured' \in BOOLEAN
    BY <1>6 DEF LaunchIngestion
  <2>3. ingestion' \in Ingestions
    BY <1>6 DEF LaunchIngestion, Ingestions
  <2> HIDE DEF Alive, Stray, SupervisorStates
  <2> QED
    BY <2>1, <2>2, <2>3
<1>7. CASE IngestionReturns
  <2>1. ack' \in Acknowledgements \cup {None} /\ ingestion' \in Ingestions
    BY <1>7 DEF IngestionReturns, Acceptable, Acknowledgements, Ingestions
  <2>2. UNCHANGED <<childExit, workload, buffer, writer, log, result, exitCode, evidence>>
    BY <1>7 DEF IngestionReturns
  <2>3. child' = "none" /\ sup' \in SupervisorStates /\ captured' \in BOOLEAN
    BY <1>7 DEF IngestionReturns
  <2> HIDE DEF Alive, Stray, SupervisorStates
  <2> QED
    BY <2>1, <2>2, <2>3
<1>8. CASE FinalizeLogs
  BY <1>8 DEF FinalizeLogs
<1>9. CASE ReleaseMarker
  BY <1>9 DEF ReleaseMarker
<1>10. CASE Finish
  BY <1>10 DEF Finish
<1>11. CASE Timeout
  BY <1>11, TerminateTypeOK DEF Timeout
<1>12. CASE Abort
  BY <1>12 DEF Abort
<1>13. CASE Summarize
  BY <1>13, SummarizedType DEF Summarize
<1>14. CASE Publish
  <2>1. receipt' \in Receipts \cup {None}
    BY <1>14, CompletionType DEF Publish
  <2>2. Exit(exitCode) /\ UNCHANGED log
    BY <1>14 DEF Publish
  <2>3. exitCode = 0 \/ exitCode = 1
    OBVIOUS
  <2>4. podExit' \in {0, 1, None} /\ sup' = "exited" /\ child' = "none" /\ workload' \in BOOLEAN
    BY <2>2, <2>3, Zenon DEF Exit
  <2> QED
    BY <2>1, <2>2, <2>4 DEF Exit
<1>15. CASE ClosingFails
  <2>1. log' \in {log, Summarized}
    BY <1>15 DEF ClosingFails
  <2>2. log' \in [ack : Acknowledgements \cup {None}, summary : Summaries \cup {None}]
    BY <2>1, SummarizedType
  <2>3. receipt' = receipt \/ receipt' \in {None, IF result = None THEN None ELSE Completion(result)}
    BY <1>15 DEF ClosingFails
  <2>4. receipt' \in Receipts \cup {None}
    BY <2>3, CompletionType
  <2>5. /\ sup' = "exited" /\ podExit' = 1 /\ child' = "none" /\ workload' = FALSE
        /\ UNCHANGED <<childExit, buffer, writer, marker, ack, ingestion, captured, exitCode, result>>
    BY <1>15 DEF ClosingFails, Exit
  <2> QED
    BY <2>2, <2>4, <2>5
<1>16. CASE Interrupt
  BY <1>16, TerminateTypeOK DEF Interrupt
<1>17. CASE Crash
  BY <1>17 DEF Crash, Exit
<1>18. CASE InterruptLaunch
  <2>1. /\ sup' = "closing" /\ captured' = FALSE
        /\ UNCHANGED <<childExit, workload, buffer, writer, log, result, ack, exitCode, evidence>>
    BY <1>18 DEF InterruptLaunch
  <2>2. child' \in {"stray_runner", "stray_ingestion"} /\ ingestion' \in {ingestion, "unconfirmed"}
    BY <1>18 DEF InterruptLaunch
  <2>3. ingestion' \in Ingestions
    BY <2>2 DEF Ingestions
  <2>4. child' \in Alive \cup Stray \cup {"none", "ended"} /\ sup' \in SupervisorStates
        /\ captured' \in BOOLEAN
    BY <2>1, <2>2
  <2> HIDE DEF Alive, Stray, SupervisorStates
  <2> QED
    BY <2>1, <2>3, <2>4
<1> QED
  BY <1>1, <1>2, <1>3, <1>4, <1>5, <1>6, <1>7, <1>8, <1>9, <1>10, <1>11, <1>12, <1>13,
     <1>14, <1>15, <1>16, <1>17, <1>18 DEF SupervisorStep, Signal

LEMMA StutterTypeOK == TypeOK /\ UNCHANGED vars => TypeOK'
  BY DEF TypeOK, vars, childVars, writer, verdict, evidence

\* Every variable of a run keeps its type.
THEOREM TypeCorrect == Spec => []TypeOK
<1>1. TypeOK /\ [Next]_vars => TypeOK'
  BY RunnerStepTypeOK, IngestionTypeOK, StrayTypeOK, SupervisorTypeOK, StutterTypeOK DEF Next
<1> QED
  BY InitTypeOK, <1>1, PTL DEF Spec

-----------------------------------------------------------------------------
(***************************************************************************)
(* SafeInv is inductive, and what follows from it: the safety properties   *)
(* of RunPipeline, for every set of selected tests, stores and ownership.  *)
(***************************************************************************)

LEMMA InitSafe == Init => SafeInv
<1> SUFFICES ASSUME Init PROVE SafeInv
  OBVIOUS
<1>1. sup = "reserving" /\ child = "none" /\ stored = {} /\ result = None /\ ack = None
      /\ ingestion = "not_started" /\ exitCode = 1 /\ marker = "absent" /\ receipt = None
      /\ podExit = None /\ log.ack = None /\ ~buffer.whole
  BY DEF Init
<1>2. podExit # 0
  BY <1>1, NoneIsNoValue
<1> QED
  BY <1>1, <1>2
  DEF SafeInv, ChildInStage, Undecided, ResultIsBuffer, ClaimsFollowStores, StoredInOrder,
      StatusLast, AcknowledgementHolds, SuccessInOrder, RunnerPhases, IngestionPhases, Stray, Supervised

(***************************************************************************)
(* The runner writes the buffer only before anything was decided on it.    *)
(***************************************************************************)
LEMMA RunnerSafe ==
  ASSUME TypeOK, SafeInv, RunnerStep
  PROVE  SafeInv'
<1> USE DEF TypeOK, SafeInv, ChildInStage, Undecided, ResultIsBuffer, ClaimsFollowStores,
            StoredInOrder, StatusLast, AcknowledgementHolds, SuccessInOrder,
            RunnerPhases, IngestionPhases, Alive, Stray, Supervised, Finished, Testing,
            TrueOf, Required, RawRequired, Passing, Completion,
            childVars, writer, verdict, evidence
<1>1. CASE RunnerStarts
  BY <1>1 DEF RunnerStarts
<1>2. CASE RunnerFinishes
  BY <1>2 DEF RunnerFinishes
<1>3. CASE RunnerFails
  BY <1>3 DEF RunnerFails
<1>4. CASE RunnerCrashes
  BY <1>4 DEF RunnerCrashes
<1>5. ASSUME NEW t \in Enabled, StartTest(t) PROVE SafeInv'
  BY <1>5 DEF StartTest, Record
<1>6. ASSUME NEW t \in Enabled, LaunchSetup(t) PROVE SafeInv'
  BY <1>6 DEF LaunchSetup
<1>7. ASSUME NEW t \in Enabled, StartWorkload(t) PROVE SafeInv'
  BY <1>7 DEF StartWorkload, Record
<1>8. ASSUME NEW t \in Enabled, NEW status \in {"pass", "fail"}, FinishTest(t, status)
      PROVE SafeInv'
  BY <1>8 DEF FinishTest, Record
<1> HIDE DEF TypeOK, SafeInv, ChildInStage, Undecided, ResultIsBuffer, ClaimsFollowStores,
             StoredInOrder, StatusLast, AcknowledgementHolds, SuccessInOrder,
             RunnerPhases, IngestionPhases, Alive, Stray, Supervised, Finished, Testing,
             TrueOf, Required, RawRequired, Passing, Completion,
             childVars, writer, verdict, evidence
<1> QED
  BY <1>1, <1>2, <1>3, <1>4, <1>5, <1>6, <1>7, <1>8 DEF RunnerStep

(***************************************************************************)
(* The ingestion child.                                                    *)
(***************************************************************************)
\* What a writer that gives up says of its stores is so.
LEMMA FailedIsTrue ==
  ASSUME TypeOK, SafeInv, child = "writing"
  PROVE  TrueOf(Failed(claims))
<1> SUFFICES ASSUME NEW s \in Destinations
             PROVE  /\ Failed(claims)[s] = "committed" => s \in stored
                    /\ Failed(claims)[s] \in {"pending", "not_required"} => s \notin stored
  BY DEF TrueOf
<1>1. Failed(claims)[s] = IF s \in current /\ claims[s] = "pending" THEN "unconfirmed" ELSE claims[s]
  BY DEF Failed
<1>2. /\ claims[s] = "not_required" <=> s \notin Required(buffer.tests)
      /\ claims[s] = "committed" => s \in stored
      /\ s \in stored /\ claims[s] = "pending" => s \in current
      /\ stored \subseteq Required(buffer.tests)
  BY DEF SafeInv, ClaimsFollowStores, StoredInOrder
<1> QED
  BY <1>1, <1>2

LEMMA GiveUpHolds ==
  ASSUME TypeOK, SafeInv, child = "writing", GiveUp
  PROVE  /\ stored' = stored
         /\ log' = log \/ log' = [log EXCEPT !.ack = [status |-> "fail", stores |-> Failed(claims)]]
         /\ TrueOf(Failed(claims))
  BY FailedIsTrue DEF GiveUp

\* Once every required store is claimed, the databases hold exactly those.
LEMMA AllCommitted ==
  ASSUME TypeOK, SafeInv, child = "writing", claims[Validation] = "committed"
  PROVE  stored = Required(buffer.tests) /\ TrueOf(claims)
<1>1. \A s \in Destinations : /\ claims[s] = "not_required" <=> s \notin Required(buffer.tests)
                              /\ claims[s] = "committed" => s \in stored
  BY DEF SafeInv, ClaimsFollowStores
<1>2. RawCommitted /\ stored \subseteq Required(buffer.tests)
  BY DEF SafeInv, ClaimsFollowStores, StoredInOrder
<1>3. \A s \in Required(buffer.tests) : s \in Destinations /\ claims[s] = "committed"
  BY <1>2 DEF Required, RawRequired, RawCommitted, Destinations
<1> QED
  BY <1>1, <1>2, <1>3 DEF TrueOf

\* Between two writers no commit is unclaimed.
LEMMA NothingInHand ==
  ASSUME TypeOK, SafeInv, child = "writing", CurrentDone
  PROVE  \A s \in Destinations : s \in stored => claims[s] = "committed"
  BY DEF TypeOK, SafeInv, ClaimsFollowStores, StoredInOrder, CurrentDone, Claims

LEMMA IngestionSafe ==
  ASSUME TypeOK, SafeInv, IngestionStep
  PROVE  SafeInv'
<1> DEFINE
  Quiet == ChildInStage' /\ Undecided' /\ ResultIsBuffer' /\ SuccessInOrder'
<1>1. CASE IngestionStarts
  <2>1. Quiet /\ StoredInOrder' /\ AcknowledgementHolds'
    BY <1>1 DEF IngestionStarts, TypeOK, SafeInv, ChildInStage, Undecided, ResultIsBuffer,
       SuccessInOrder, StoredInOrder, StatusLast, AcknowledgementHolds, RunnerPhases,
       IngestionPhases, Stray, Supervised, Finished, Completion, verdict, evidence
  <2>2. \A s \in Destinations :
          claims'[s] = IF s \in Required(buffer.tests) THEN "pending" ELSE "not_required"
    BY <1>1 DEF IngestionStarts
  <2>3. Validation \in Destinations /\ Validation \in Required(buffer.tests)
    BY DEF Destinations, Required
  <2>4. current' = {} /\ stored' = {} /\ buffer' = buffer
    BY <1>1 DEF IngestionStarts, SafeInv, Undecided
  <2>5. ClaimsFollowStores'
    BY <1>1, <2>2, <2>3, <2>4 DEF IngestionStarts, ClaimsFollowStores, Required
  <2> QED
    BY <2>1, <2>5 DEF SafeInv
<1>2. CASE BeginValidation
  <2>1. Quiet /\ StoredInOrder' /\ AcknowledgementHolds'
    BY <1>2 DEF BeginValidation, TypeOK, SafeInv, ChildInStage, Undecided, ResultIsBuffer,
       SuccessInOrder, StoredInOrder, StatusLast, AcknowledgementHolds, RunnerPhases,
       IngestionPhases, Stray, Supervised, Finished, Completion, TrueOf, Required, RawRequired, Passing,
       Writing, childVars, verdict, evidence
  <2>2. RawCommitted
    BY <1>2 DEF BeginValidation, Writing, PendingRaw, RawCommitted, RawRequired, Required,
       Destinations, SafeInv, ClaimsFollowStores, TypeOK, Claims
  <2>3. ClaimsFollowStores'
    <3>1. \A s \in Destinations : s \in stored => claims[s] = "committed"
      BY <1>2, NothingInHand DEF BeginValidation, Writing
    <3> QED
      BY <1>2, <2>2, <3>1 DEF BeginValidation, Writing, SafeInv, ClaimsFollowStores, RawCommitted,
         RawRequired, Required, Passing, childVars
  <2> QED
    BY <2>1, <2>3 DEF SafeInv
<1>3. CASE IngestionAcknowledges
  <2>1. Quiet /\ StoredInOrder' /\ ClaimsFollowStores'
    BY <1>3 DEF IngestionAcknowledges, TypeOK, SafeInv, ChildInStage, Undecided, ResultIsBuffer,
       SuccessInOrder, StoredInOrder, StatusLast, ClaimsFollowStores, RawCommitted, RunnerPhases,
       IngestionPhases, Stray, Supervised, Finished, Completion, Required, RawRequired, Passing,
       Writing, writer, verdict, evidence
  <2>2. stored = Required(buffer.tests) /\ TrueOf(claims)
    BY <1>3, AllCommitted DEF IngestionAcknowledges, Writing
  <2>3. sup = "ingestion" /\ ack = None /\ ingestion = "unconfirmed"
    BY <1>3 DEF IngestionAcknowledges, Writing, SafeInv, ChildInStage, Undecided, IngestionPhases
  <2>4. log'.ack = [status |-> "pass", stores |-> claims]
    BY <1>3 DEF IngestionAcknowledges, TypeOK
  <2>5. AcknowledgementHolds'
    BY <1>3, <2>2, <2>3, <2>4
    DEF IngestionAcknowledges, AcknowledgementHolds, TrueOf, Required, RawRequired, Passing,
        writer, verdict
  <2> QED
    BY <2>1, <2>5 DEF SafeInv
<1>4. CASE IngestionFails
  <2>1. child = "writing" /\ child' = "ended" /\ buffer' = buffer /\ sup = "ingestion"
        /\ UNCHANGED <<sup, verdict, evidence>>
    BY <1>4 DEF IngestionFails, Writing, SafeInv, ChildInStage, IngestionPhases
  <2>2. /\ stored' = stored /\ TrueOf(Failed(claims))
        /\ log' = log \/ log' = [log EXCEPT !.ack = [status |-> "fail", stores |-> Failed(claims)]]
    BY <1>4, <2>1, GiveUpHolds DEF IngestionFails
  <2>3. Quiet /\ StoredInOrder' /\ ClaimsFollowStores'
    BY <2>1, <2>2 DEF TypeOK, SafeInv, ChildInStage, Undecided, ResultIsBuffer,
       SuccessInOrder, StoredInOrder, StatusLast, ClaimsFollowStores, RunnerPhases,
       IngestionPhases, Stray, Supervised, Finished, Completion, Required, RawRequired, Passing,
       verdict, evidence
  <2>4. ack = None /\ ingestion = "unconfirmed" /\ log.ack = None
    BY <2>1 DEF SafeInv, Undecided, AcknowledgementHolds
  <2>5. \/ log'.ack = None
        \/ log'.ack = [status |-> "fail", stores |-> Failed(claims)]
    BY <2>2, <2>4 DEF TypeOK
  <2>6. AcknowledgementHolds'
    BY <2>1, <2>2, <2>4, <2>5 DEF AcknowledgementHolds, TrueOf, verdict
  <2> QED
    BY <2>3, <2>6 DEF SafeInv
<1>5. CASE IngestionEnds
  BY <1>5 DEF IngestionEnds, TypeOK, SafeInv, ChildInStage, Undecided, ResultIsBuffer,
     ClaimsFollowStores, StoredInOrder, StatusLast, AcknowledgementHolds, SuccessInOrder,
     RunnerPhases, IngestionPhases, Stray, Supervised, Finished, TrueOf, Required, RawRequired, Passing,
     Completion, writer, verdict, evidence
<1>6. ASSUME NEW t \in Enabled, BeginWriter(t) PROVE SafeInv'
  <2>1. Quiet /\ StoredInOrder' /\ AcknowledgementHolds'
    BY <1>6 DEF BeginWriter, TypeOK, SafeInv, ChildInStage, Undecided, ResultIsBuffer,
       SuccessInOrder, StoredInOrder, StatusLast, AcknowledgementHolds, RunnerPhases,
       IngestionPhases, Stray, Supervised, Finished, Completion, TrueOf, Required, RawRequired, Passing,
       Writing, childVars, verdict, evidence
  <2>2. PICK s \in Stores : Owner[s] = t /\ claims[s] = "pending"
    BY <1>6 DEF BeginWriter, OwnedBy, PendingRaw
  <2>3. s \in Required(buffer.tests) /\ s # Validation
    BY <1>6, <2>2, ValidationIsNoRawStore
    DEF BeginWriter, Writing, SafeInv, ClaimsFollowStores, Destinations
  <2>4. OwnedBy(t) \subseteq Required(buffer.tests) /\ Validation \notin OwnedBy(t)
    BY <2>2, <2>3, ValidationIsNoRawStore DEF OwnedBy, Required, RawRequired
  <2>5. ClaimsFollowStores'
    <3>1. \A r \in Destinations : r \in stored => claims[r] = "committed"
      BY <1>6, NothingInHand DEF BeginWriter, Writing
    <3> QED
      BY <1>6, <2>4, <3>1 DEF BeginWriter, Writing, SafeInv, ClaimsFollowStores, RawCommitted,
         RawRequired, Required, Passing, childVars
  <2> QED
    BY <2>1, <2>5 DEF SafeInv
<1>7. ASSUME NEW s \in Destinations, CommitStore(s) PROVE SafeInv'
  <2>1. Quiet /\ ClaimsFollowStores' /\ AcknowledgementHolds'
    BY <1>7 DEF CommitStore, TypeOK, SafeInv, ChildInStage, Undecided, ResultIsBuffer,
       SuccessInOrder, ClaimsFollowStores, AcknowledgementHolds, RawCommitted, RunnerPhases,
       IngestionPhases, Stray, Supervised, Finished, Completion, Required, RawRequired, Passing,
       Writing, childVars, verdict, evidence
  <2>2. s \in Required(buffer.tests) /\ stored' = stored \cup {s} /\ buffer' = buffer
    BY <1>7 DEF CommitStore, Writing, SafeInv, ClaimsFollowStores
  <2>3. s = Validation => RawRequired(buffer.tests) \subseteq stored
    BY <1>7 DEF CommitStore, Writing, SafeInv, ClaimsFollowStores, RawCommitted, RawRequired,
       Destinations
  <2>4. StoredInOrder'
    BY <2>2, <2>3 DEF SafeInv, StoredInOrder, StatusLast, RawRequired, Required, Passing
  <2> QED
    BY <2>1, <2>4 DEF SafeInv
<1>8. ASSUME NEW s \in Destinations, ConfirmStore(s) PROVE SafeInv'
  BY <1>8 DEF ConfirmStore, TypeOK, Claims, SafeInv, ChildInStage, Undecided, ResultIsBuffer,
     ClaimsFollowStores, StoredInOrder, StatusLast, AcknowledgementHolds, SuccessInOrder,
     RawCommitted, RunnerPhases, IngestionPhases, Stray, Supervised, Finished, TrueOf, Required,
     RawRequired, Passing, Completion, Writing, childVars, verdict, evidence
<1> QED
  BY <1>1, <1>2, <1>3, <1>4, <1>5, <1>6, <1>7, <1>8 DEF IngestionStep

(***************************************************************************)
(* The supervisor.                                                         *)
(***************************************************************************)
\* Terminating a child changes no database.  It changes the buffer only when
\* nothing was decided on it, and it adds at most a true failed acknowledgement.
LEMMA TerminateHolds ==
  ASSUME TypeOK, SafeInv, Terminate
  PROVE  /\ child' = "none" /\ stored' = stored
         /\ buffer' = buffer \/ (result = None /\ ingestion = "not_started" /\ stored = {})
         /\ \/ log' = log
            \/ /\ TrueOf(Failed(claims)) /\ child = "writing"
               /\ log' = [log EXCEPT !.ack = [status |-> "fail", stores |-> Failed(claims)]]
<1>1. CASE child \in RunnerPhases /\ UNCHANGED <<writer, log>>
  BY <1>1 DEF Terminate, SafeInv, ChildInStage, Undecided, writer
<1>2. CASE child \in IngestionPhases /\ StopIngestion /\ UNCHANGED <<workload, buffer>>
  <2>1. CASE child = "writing" /\ GiveUp
    BY <1>2, <2>1, GiveUpHolds DEF Terminate
  <2>2. CASE UNCHANGED <<writer, log>>
    BY <1>2, <2>2 DEF Terminate, writer
  <2> QED
    BY <1>2, <2>1, <2>2 DEF StopIngestion
<1>3. CASE child \notin Alive /\ UNCHANGED <<workload, buffer, writer, log>>
  BY <1>3 DEF Terminate, writer
<1> QED
  BY <1>1, <1>2, <1>3 DEF Terminate

\* A stage is given up: the supervisor closes with an exit code of 1.
LEMMA GivenUpSafe ==
  ASSUME TypeOK, SafeInv, sup \in Supervised, Terminate, sup' = "closing",
         UNCHANGED <<childExit, verdict, evidence>>
  PROVE  SafeInv'
<1>1. /\ child' = "none" /\ stored' = stored
      /\ buffer' = buffer \/ (result = None /\ ingestion = "not_started" /\ stored = {})
  BY TerminateHolds
<1>2. exitCode = 1 /\ receipt = None /\ podExit = None /\ podExit # 0
  BY NoneIsNoValue DEF SafeInv, Undecided, SuccessInOrder, Supervised
<1>3. ChildInStage' /\ Undecided' /\ ResultIsBuffer' /\ ClaimsFollowStores'
  BY <1>1, <1>2 DEF SafeInv, ChildInStage, Undecided, ResultIsBuffer, ClaimsFollowStores,
     RunnerPhases, IngestionPhases, Stray, Supervised, Finished, verdict
<1>4. SuccessInOrder'
  BY <1>2 DEF SafeInv, SuccessInOrder, Supervised, verdict, evidence
<1>5. StoredInOrder'
  BY <1>1 DEF SafeInv, StoredInOrder, StatusLast
<1>6. AcknowledgementHolds'
  <2>1. ack' = ack /\ ingestion' = ingestion /\ result' = result
    BY DEF verdict
  <2>2. CASE log' = log
    <3>1. log.ack # None /\ log.ack.status = "pass" => stored = Required(buffer.tests)
      BY DEF SafeInv, AcknowledgementHolds
    <3>2. stored # {} => buffer' = buffer
      BY <1>1
    <3>3. Required(buffer.tests) # {}
      BY DEF Required
    <3> QED
      BY <1>1, <2>1, <2>2, <3>1, <3>2, <3>3 DEF SafeInv, AcknowledgementHolds, TrueOf
  <2>3. CASE /\ TrueOf(Failed(claims)) /\ child = "writing"
             /\ log' = [log EXCEPT !.ack = [status |-> "fail", stores |-> Failed(claims)]]
    <3>1. log'.ack = [status |-> "fail", stores |-> Failed(claims)]
      BY <2>3 DEF TypeOK
    <3>2. ack = None /\ ingestion = "unconfirmed"
      BY <2>3 DEF SafeInv, ChildInStage, Undecided, IngestionPhases
    <3> QED
      BY <1>1, <2>1, <2>3, <3>1, <3>2 DEF AcknowledgementHolds, TrueOf
  <2> QED
    BY <2>2, <2>3, TerminateHolds
<1> QED
  BY <1>3, <1>4, <1>5, <1>6 DEF SafeInv

LEMMA BindSafe ==
  ASSUME TypeOK, SafeInv, BindResult
  PROVE  SafeInv'
<1>1. result' = buffer.tests /\ buffer' = buffer /\ buffer.whole /\ Finished(buffer.tests)
      /\ buffer.tests # None
  BY NoneIsNoValue DEF BindResult, SafeInv, ResultIsBuffer, TypeOK
<1>2. sup = "binding" /\ sup' = "sealed" /\ UNCHANGED <<childVars, writer, log, ack, ingestion,
                                                       captured, exitCode, evidence>>
  BY DEF BindResult
<1> QED
  BY <1>1, <1>2
  DEF SafeInv, ChildInStage, Undecided, ResultIsBuffer, ClaimsFollowStores, StoredInOrder, StatusLast,
      AcknowledgementHolds, SuccessInOrder, RawCommitted, RunnerPhases, IngestionPhases,
      Stray, Supervised,
      Finished, TrueOf, Required, RawRequired, Passing, childVars, writer, evidence

LEMMA IngestionReturnsSafe ==
  ASSUME TypeOK, SafeInv, IngestionReturns
  PROVE  SafeInv'
<1>1. /\ ingestion' # "not_started"
      /\ ack' # None => ack' = log.ack
      /\ ingestion' = "pass" => ack' # None /\ ack'.status = "pass"
      /\ sup' = "checking" => ingestion' = "pass"
      /\ ack' # None /\ ack'.status = "pass" => ack'.stores = Expected(result)
  BY NoneIsNoValue DEF IngestionReturns, Acceptable, TypeOK, Acknowledgements
<1>2. /\ sup = "ingestion" /\ sup' \in {"checking", "closing"} /\ child' = "none" /\ captured' = TRUE
      /\ UNCHANGED <<buffer, writer, log, result, exitCode, evidence>>
  BY DEF IngestionReturns
<1> QED
  BY <1>1, <1>2
  DEF SafeInv, ChildInStage, Undecided, ResultIsBuffer, ClaimsFollowStores, StoredInOrder, StatusLast,
      AcknowledgementHolds, SuccessInOrder, RunnerPhases, IngestionPhases, Stray, Supervised,
      Finished, TrueOf, Required, RawRequired, Passing, writer, evidence

LEMMA PublishSafe ==
  ASSUME TypeOK, SafeInv, Publish
  PROVE  SafeInv'
<1>1. /\ sup = "publishing" /\ sup' = "exited" /\ child' = "none" /\ podExit' = exitCode
      /\ UNCHANGED <<buffer, writer, log, marker, verdict>>
      /\ receipt' = IF result = None THEN None ELSE Completion(result)
  BY DEF Publish, Exit, verdict
<1>2. Completion(result)' = Completion(result) /\ Completion(result) # None
  BY <1>1, CompletionType, NoneIsNoValue DEF Completion, verdict, TypeOK
<1>3. log.summary = Completion(result)
  BY <1>1 DEF SafeInv, SuccessInOrder
<1>4. exitCode = 0 => result # None
  BY DEF SafeInv, SuccessInOrder, ResultIsBuffer
<1>5. SuccessInOrder'
  BY <1>1, <1>2, <1>3, <1>4 DEF SafeInv, SuccessInOrder, verdict
<1>6. /\ ChildInStage' /\ Undecided' /\ ResultIsBuffer' /\ ClaimsFollowStores'
      /\ StoredInOrder' /\ AcknowledgementHolds'
  BY <1>1
  DEF SafeInv, ChildInStage, Undecided, ResultIsBuffer, ClaimsFollowStores, StoredInOrder, StatusLast,
      AcknowledgementHolds, RunnerPhases, IngestionPhases, Stray, Supervised,
      Finished, TrueOf, Required, RawRequired, Passing, writer, verdict
<1> QED
  BY <1>5, <1>6 DEF SafeInv

LEMMA SupervisorSafe ==
  ASSUME TypeOK, SafeInv, SupervisorStep \/ Signal \/ Crash
  PROVE  SafeInv'
<1>1. CASE BindResult
  BY <1>1, BindSafe
<1>2. CASE IngestionReturns
  BY <1>2, IngestionReturnsSafe
<1>3. CASE Timeout
  BY <1>3, GivenUpSafe DEF Timeout, Supervised
<1>4. CASE Interrupt
  BY <1>4, GivenUpSafe DEF Interrupt
<1>5. CASE Publish
  BY <1>5, PublishSafe
<1> USE DEF TypeOK, SafeInv, ChildInStage, Undecided, ResultIsBuffer, ClaimsFollowStores,
            StoredInOrder, StatusLast, AcknowledgementHolds, SuccessInOrder,
            RunnerPhases, IngestionPhases, Alive, Stray, Supervised, Finished, RawCommitted,
            TrueOf, Required, RawRequired, Passing, Completion,
            childVars, writer, verdict, evidence
<1>6. CASE Reserve
  BY <1>6 DEF Reserve
<1>7. CASE ReservationRefused
  BY <1>7, NoneIsNoValue DEF ReservationRefused
<1>8. CASE LaunchRunner
  BY <1>8 DEF LaunchRunner
<1>9. CASE RunnerReturns
  BY <1>9 DEF RunnerReturns
<1>10. CASE LaunchIngestion
  BY <1>10 DEF LaunchIngestion
<1>11. CASE FinalizeLogs
  BY <1>11 DEF FinalizeLogs
<1>12. CASE ReleaseMarker
  BY <1>12 DEF ReleaseMarker
<1>13. CASE Finish
  BY <1>13 DEF Finish
<1>14. CASE Abort
  BY <1>14 DEF Abort
<1>15. CASE Summarize
  BY <1>15 DEF Summarize, Summarized, Loaded
<1>16. CASE ClosingFails
  BY <1>16 DEF ClosingFails, Exit, Summarized, Loaded
<1>17. CASE Crash
  BY <1>17 DEF Crash, Exit
<1>18. CASE InterruptLaunch
  BY <1>18 DEF InterruptLaunch
<1> QED
  BY <1>1, <1>2, <1>3, <1>4, <1>5, <1>6, <1>7, <1>8, <1>9, <1>10, <1>11, <1>12, <1>13,
     <1>14, <1>15, <1>16, <1>17, <1>18 DEF SupervisorStep, Signal

LEMMA StraySafe ==
  ASSUME TypeOK, SafeInv, StrayWrites \/ StrayEnds
  PROVE  SafeInv'
  BY DEF StrayWrites, StrayEnds, TypeOK, SafeInv, ChildInStage, Undecided, ResultIsBuffer,
     ClaimsFollowStores, StoredInOrder, StatusLast, AcknowledgementHolds, SuccessInOrder,
     RunnerPhases, IngestionPhases, Alive, Stray, Supervised, Finished, RawCommitted,
     TrueOf, Required, RawRequired, Passing, Completion, writer, verdict, evidence

LEMMA StutterSafe == SafeInv /\ UNCHANGED vars => SafeInv'
  BY DEF SafeInv, ChildInStage, Undecided, ResultIsBuffer, ClaimsFollowStores, StoredInOrder,
         StatusLast, AcknowledgementHolds, SuccessInOrder, Finished, RawCommitted, TrueOf, Required,
         RawRequired, Passing, Completion, vars, childVars, writer, verdict, evidence

\* The inductive invariant of a run.
THEOREM SafeInvariant == Spec => [](TypeOK /\ SafeInv)
<1>1. Init => TypeOK /\ SafeInv
  BY InitTypeOK, InitSafe
<1>2. TypeOK /\ SafeInv /\ [Next]_vars => TypeOK' /\ SafeInv'
  BY RunnerStepTypeOK, IngestionTypeOK, StrayTypeOK, SupervisorTypeOK, StutterTypeOK,
     RunnerSafe, IngestionSafe, StraySafe, SupervisorSafe, StutterSafe DEF Next
<1> QED
  BY <1>1, <1>2, PTL DEF Spec

(***************************************************************************)
(* What follows.                                                           *)
(***************************************************************************)
\* The status rows appear only after every raw store they speak of
\* (storage/ingest.py, add_validation_run_results).
THEOREM StatusRowsComeLast == Spec => []StatusLast
<1>1. SafeInv => StatusLast
  BY DEF SafeInv, StoredInOrder
<1> QED
  BY <1>1, SafeInvariant, PTL

\* Only finished results are recorded (supervisor.py, bind_result).
THEOREM OnlyFinalResultsRecorded == Spec => []OnlyFinalResults
<1>1. SafeInv => OnlyFinalResults
  BY DEF SafeInv, Undecided, ResultIsBuffer, StoredInOrder, Finished, OnlyFinalResults
<1> QED
  BY <1>1, SafeInvariant, PTL

LEMMA RecordedWhenPassed ==
  ASSUME SafeInv, ingestion = "pass"
  PROVE  result # None /\ result = buffer.tests /\ stored = Required(result)
  BY DEF SafeInv, Undecided, ResultIsBuffer, AcknowledgementHolds

\* The marker is released after an accepted ingestion that is complete
\* (supervisor.py, release_marker).
THEOREM MarkerReleasedWhenRecorded == Spec => []MarkerMeansRecorded
<1>1. SafeInv => MarkerMeansRecorded
  BY RecordedWhenPassed DEF SafeInv, SuccessInOrder, MarkerMeansRecorded
<1> QED
  BY <1>1, SafeInvariant, PTL

\* The receipt shows the last buffer of a run without a living child
\* (supervisor.py, _publish_final_result).
THEOREM PublishedIsTheLast == Spec => []PublishedIsFinal
<1>1. TypeOK /\ SafeInv => PublishedIsFinal
  BY DEF SafeInv, ChildInStage, ResultIsBuffer, SuccessInOrder, PublishedIsFinal, Completion,
         Alive, Stray
<1> QED
  BY <1>1, SafeInvariant, PTL

\* An exit code of zero comes with a receipt, a released marker and complete
\* databases (supervisor.py, main).
THEOREM ExitZeroIsPublished == Spec => []SuccessIsPublished
<1>1. SafeInv => SuccessIsPublished
  <2> SUFFICES ASSUME SafeInv PROVE SuccessIsPublished
    OBVIOUS
  <2>1. /\ podExit = 0 => exitCode = 0 /\ receipt # None
        /\ receipt # None => receipt = Completion(result)
        /\ exitCode = 0 => ingestion = "pass" /\ marker = "released" /\ captured
    BY DEF SafeInv, SuccessInOrder
  <2>2. ingestion = "pass" => ack # None /\ ack.stores = Expected(result)
    BY DEF SafeInv, AcknowledgementHolds
  <2>3. /\ Completion(result).exit = exitCode /\ Completion(result).tests = result
        /\ Completion(result).ingestion = ingestion
        /\ Completion(result).logs = IF captured THEN "retained" ELSE "unconfirmed"
        /\ Completion(result).stores = IF ack = None THEN None ELSE ack.stores
    BY DEF Completion
  <2> QED
    BY <2>1, <2>2, <2>3, RecordedWhenPassed DEF SuccessIsPublished, recording_complete
<1> QED
  BY <1>1, SafeInvariant, PTL

\* Acknowledgements and receipts claim what the databases hold
\* (run_ingest.py and supervisor.py, stores).
THEOREM ClaimsHold == Spec => []ClaimsAreTrue
<1>1. SafeInv => ClaimsAreTrue
  <2> SUFFICES ASSUME SafeInv PROVE ClaimsAreTrue
    OBVIOUS
  <2>1. log.ack # None => TrueOf(log.ack.stores)
    BY DEF SafeInv, AcknowledgementHolds
  <2>2. ASSUME receipt # None
        PROVE  /\ receipt.tests = result /\ receipt.ingestion = ingestion
               /\ receipt.stores = IF ack = None THEN None ELSE ack.stores
    BY <2>2 DEF SafeInv, SuccessInOrder, Completion
  <2>3. ack # None => ack = log.ack
    BY DEF SafeInv, AcknowledgementHolds
  <2>4. ingestion = "not_started" => stored = {}
    BY DEF SafeInv, Undecided
  <2> QED
    BY <2>1, <2>2, <2>3, <2>4, RecordedWhenPassed DEF ClaimsAreTrue
<1> QED
  BY <1>1, SafeInvariant, PTL

\* The monitor confirms what is published and recorded
\* (jobs/monitor.py, completion_confirmed).
THEOREM ConfirmationIsTrue == Spec => []ConfirmedIsTrue
<1>1. SafeInv => ConfirmedIsTrue
  <2> SUFFICES ASSUME SafeInv, completion_confirmed PROVE ConfirmedIsTrue
    BY DEF ConfirmedIsTrue
  <2>1. podExit = 0 /\ Passing(log.summary.tests) = Enabled
    BY DEF completion_confirmed
  <2>2. exitCode = 0 /\ ingestion = "pass" /\ receipt # None
        /\ receipt = Completion(result) /\ log.summary = receipt
    BY <2>1 DEF SafeInv, SuccessInOrder
  <2>3. receipt.exit = 0 /\ receipt.tests = result
    BY <2>2 DEF Completion
  <2> QED
    BY <2>1, <2>2, <2>3, RecordedWhenPassed DEF ConfirmedIsTrue
<1> QED
  BY <1>1, SafeInvariant, PTL

(***************************************************************************)
(* How far a benchmark that outlives its stage can reach.                  *)
(***************************************************************************)
\* The test a benchmark belongs to is open until its runner records an outcome.
LEMMA RunnerWorkload ==
  ASSUME TypeOK, SafeInv, WorkloadInv, RunnerStep
  PROVE  WorkloadInv'
<1>1. child \in RunnerPhases => sup = "runner" /\ ingestion = "not_started"
  BY DEF SafeInv, ChildInStage, Undecided
<1>2. CASE RunnerStarts
  <2>1. child = "preparing" /\ workload' = workload
    BY <1>2 DEF RunnerStarts
  <2> QED BY <2>1 DEF WorkloadInv
<1>3. CASE RunnerFinishes
  <2>1. Testing /\ Active = {} /\ workload' = workload
    BY <1>3 DEF RunnerFinishes, Active
  <2> QED BY <2>1 DEF WorkloadInv, Testing
<1>4. CASE RunnerFails
  BY <1>4 DEF RunnerFails, WorkloadInv
<1>5. CASE RunnerCrashes
  <2>1. child \in RunnerPhases /\ child' = "ended" /\ childExit' = 1 /\ UNCHANGED <<sup, ingestion>>
    BY <1>5 DEF RunnerCrashes, Testing, RunnerPhases, verdict
  <2> QED BY <1>1, <2>1 DEF WorkloadInv
<1>6. ASSUME NEW t \in Enabled, StartTest(t) \/ StartWorkload(t) PROVE WorkloadInv'
  <2>1. UNCHANGED <<sup, child, workload, ingestion>> /\ child = "testing"
    BY <1>6 DEF StartTest, StartWorkload, Testing, childVars, verdict
  <2>2. buffer'.tests[t] \in {"setup", "running"}
    BY <1>6 DEF StartTest, StartWorkload, Record, TypeOK
  <2>3. t \in Active'
    BY <2>2 DEF Active
  <2> QED BY <2>1, <2>3 DEF WorkloadInv
<1>7. ASSUME NEW t \in Enabled, LaunchSetup(t) PROVE WorkloadInv'
  <2>1. UNCHANGED <<sup, child, buffer, ingestion>> /\ child = "testing"
    BY <1>7 DEF LaunchSetup, Testing, verdict
  <2>2. buffer'.tests[t] \in {"setup", "running"}
    BY <1>7, <2>1 DEF LaunchSetup
  <2>3. t \in Active'
    BY <2>2 DEF Active
  <2> QED BY <1>1, <2>1, <2>3 DEF WorkloadInv, RunnerPhases
<1>8. ASSUME NEW t \in Enabled, NEW status \in {"pass", "fail"}, FinishTest(t, status)
      PROVE  WorkloadInv'
  BY <1>8 DEF FinishTest, WorkloadInv
<1> QED BY <1>2, <1>3, <1>4, <1>5, <1>6, <1>7, <1>8 DEF RunnerStep

\* Ingestion and stray children start no benchmark, and no benchmark is alive beside the
\* ingestion.
LEMMA OtherWorkload ==
  ASSUME SafeInv, WorkloadInv, IngestionStep \/ StrayWrites \/ StrayEnds
  PROVE  WorkloadInv'
<1>1. child \in IngestionPhases => ~workload
  BY DEF SafeInv, ChildInStage, WorkloadInv
<1>2. CASE IngestionStep
  <2>1. child \in IngestionPhases /\ workload' = workload
    BY <1>2 DEF IngestionStep, IngestionStarts, BeginWriter, BeginValidation, CommitStore,
       ConfirmStore, IngestionAcknowledges, IngestionFails, IngestionEnds, Writing,
       IngestionPhases, childVars
  <2> QED BY <1>1, <2>1 DEF WorkloadInv
<1>3. CASE StrayWrites \/ StrayEnds
  <2>1. /\ child \in Stray /\ child' = "none"
        /\ UNCHANGED <<sup, childExit, workload, ingestion>>
    BY <1>3 DEF StrayWrites, StrayEnds, Stray, verdict
  <2> QED BY <2>1 DEF WorkloadInv
<1> QED BY <1>2, <1>3

\* The supervisor leaves the runner's stage for a next one only when the runner returned 0.
LEMMA SupervisorWorkload ==
  ASSUME TypeOK, SafeInv, WorkloadInv, SupervisorStep \/ Signal \/ Crash
  PROVE  WorkloadInv'
<1>1. CASE Publish \/ ClosingFails \/ Crash
  BY <1>1 DEF Publish, ClosingFails, Crash, Exit, WorkloadInv
<1>2. CASE Timeout \/ Interrupt
  <2>1. /\ child' = "none" /\ sup' = "closing" /\ ingestion' = ingestion
        /\ workload' \in {FALSE, workload}
    BY <1>2 DEF Timeout, Interrupt, Terminate, StopRunner, verdict
  <2> QED BY <2>1 DEF WorkloadInv
<1>3. CASE RunnerReturns
  <2>1. /\ sup = "runner" /\ child = "ended" /\ child' = "none"
        /\ sup' = IF childExit = 0 THEN "binding" ELSE "closing"
        /\ UNCHANGED <<workload, ingestion>>
    BY <1>3 DEF RunnerReturns
  <2>2. workload => childExit = 1
    BY <2>1 DEF WorkloadInv
  <2>3. workload => sup' = "closing"
    BY <2>1, <2>2
  <2> QED BY <2>1, <2>3 DEF WorkloadInv
<1>4. CASE Abort
  <2>1. child' = "none" /\ sup' = "closing" /\ UNCHANGED <<workload, ingestion>>
    BY <1>4 DEF Abort
  <2> QED BY <2>1 DEF WorkloadInv
<1>5. CASE Summarize
  <2>1. sup' = "publishing" /\ UNCHANGED <<child, workload, ingestion, buffer>>
    BY <1>5 DEF Summarize, childVars
  <2>2. child \notin RunnerPhases
    BY <1>5 DEF Summarize, SafeInv, ChildInStage
  <2> QED BY <2>1, <2>2 DEF WorkloadInv, RunnerPhases
<1>6. CASE \/ Reserve \/ ReservationRefused \/ LaunchRunner \/ BindResult \/ LaunchIngestion
           \/ IngestionReturns \/ FinalizeLogs \/ ReleaseMarker \/ Finish \/ InterruptLaunch
  <2>1. sup \notin {"runner", "closing", "publishing"} /\ workload' = workload
    BY <1>6 DEF Reserve, ReservationRefused, LaunchRunner, BindResult, LaunchIngestion,
       IngestionReturns, FinalizeLogs, ReleaseMarker, Finish, InterruptLaunch, childVars
  <2> QED BY <2>1 DEF WorkloadInv
<1> QED BY <1>1, <1>2, <1>3, <1>4, <1>5, <1>6 DEF SupervisorStep, Signal

\* A benchmark that outlives its stage belongs to a run that is given up: while it lives
\* nothing is ingested and no success is meant or told (supervisor.py, supervise_validation_run).
THEOREM OrphansAreContained == Spec => []BenchmarkIsContained
<1>1. Init => WorkloadInv
  BY DEF Init, WorkloadInv
<1>2. TypeOK /\ SafeInv /\ WorkloadInv /\ [Next]_vars => WorkloadInv'
  <2> SUFFICES ASSUME TypeOK, SafeInv, WorkloadInv, [Next]_vars PROVE WorkloadInv'
    OBVIOUS
  <2>1. CASE UNCHANGED vars
    BY <2>1 DEF vars, childVars, verdict, WorkloadInv, Active
  <2> QED BY <2>1, RunnerWorkload, OtherWorkload, SupervisorWorkload DEF Next
<1>3. TypeOK /\ SafeInv /\ WorkloadInv => BenchmarkIsContained
  <2> SUFFICES ASSUME TypeOK, SafeInv, WorkloadInv, workload PROVE BenchmarkIsContained
    BY DEF BenchmarkIsContained
  <2>1. sup \in {"runner", "closing", "publishing"} /\ ingestion = "not_started"
    BY DEF WorkloadInv
  <2>2. child \notin IngestionPhases /\ podExit = None
    BY <2>1 DEF SafeInv, ChildInStage, SuccessInOrder
  <2>3. stored = {} /\ marker # "released" /\ exitCode # 0
    BY <2>1 DEF SafeInv, Undecided, SuccessInOrder
  <2>4. exitCode = 1
    BY <2>3 DEF TypeOK
  <2> QED BY <2>1, <2>2, <2>3, <2>4 DEF BenchmarkIsContained
<1> QED
  BY <1>1, <1>2, <1>3, SafeInvariant, PTL DEF Spec

(***************************************************************************)
(* The run implements RunEvidence: binding and a late load conclude,       *)
(* commits commit, the finally block publishes, all else stutters.         *)
(***************************************************************************)
LEMMA LoadedConcludes ==
  ASSUME TypeOK, SafeInv, result' = Loaded, UNCHANGED <<stored, receipt>>, receipt = None
  PROVE  [Evidence!Next]_Evidence!vars
<1>1. CASE result' = result
  BY <1>1 DEF Evidence!vars
<1>2. CASE result = None /\ result' = buffer.tests
  <2>1. Evidence!Conclude(buffer.tests)
    BY <1>2 DEF Evidence!Conclude
  <2>2. buffer.tests \in [Enabled -> Evidence!TestStates]
    BY DEF TypeOK, Results, TestStates, Evidence!TestStates
  <2> QED
    BY <2>1, <2>2 DEF Evidence!Next
<1> QED
  BY <1>1, <1>2 DEF Loaded

LEMMA CommitImplements ==
  ASSUME TypeOK, SafeInv, NEW s \in Destinations, CommitStore(s)
  PROVE  [Evidence!Next]_Evidence!vars
<1>1. child = "writing" /\ s \in current \ stored /\ stored' = stored \cup {s}
      /\ UNCHANGED <<result, receipt>>
  BY DEF CommitStore, Writing, verdict, evidence
<1>2. sup = "ingestion" /\ ingestion = "unconfirmed"
  BY <1>1 DEF SafeInv, ChildInStage, Undecided, IngestionPhases
<1>3. result # None /\ result = buffer.tests /\ Finished(result) /\ receipt = None
  BY <1>2 DEF SafeInv, ResultIsBuffer, SuccessInOrder
<1>4. s \in Required(result)
  BY <1>1, <1>3 DEF SafeInv, ClaimsFollowStores
<1>5. s = Validation => RawRequired(result) \subseteq stored
  BY <1>1, <1>3 DEF SafeInv, ClaimsFollowStores, RawCommitted, RawRequired, Destinations
<1>6. Evidence!RawRequired(result) = RawRequired(result) /\ Evidence!Required(result) = Required(result)
  BY DEF Evidence!RawRequired, Evidence!Required, RawRequired, Required, Passing
<1>7. Evidence!Commit(s)
  BY <1>1, <1>3, <1>4, <1>5, <1>6 DEF Evidence!Commit, Finished
<1> QED
  BY <1>7 DEF Evidence!Next, Destinations

LEMMA PublishImplements ==
  ASSUME TypeOK, SafeInv, sup = "publishing", UNCHANGED <<result, stored>>,
         receipt' \in {None, IF result = None THEN None ELSE Completion(result)}
  PROVE  [Evidence!Next]_Evidence!vars
<1>1. receipt = None
  BY DEF SafeInv, SuccessInOrder
<1>2. CASE receipt' = None
  BY <1>1, <1>2 DEF Evidence!vars
<1>3. CASE result # None /\ receipt' = Completion(result)
  <2>1. Completion(result) \in Receipts
    BY <1>3, CompletionType DEF TypeOK
  <2>2. Evidence!Receipts = Receipts
    BY DEF Evidence!Receipts, Evidence!TestStates, Receipts, Results, TestStates, Claims,
           Ingestions, Destinations
  <2>3. /\ Completion(result).tests = result
        /\ Completion(result).ingestion = ingestion
        /\ Completion(result).exit = exitCode
        /\ Completion(result).logs = IF captured THEN "retained" ELSE "unconfirmed"
        /\ Completion(result).stores = IF ack = None THEN None ELSE ack.stores
    BY DEF Completion
  <2>4. Evidence!Required(result) = Required(result)
    BY DEF Evidence!RawRequired, Evidence!Required, RawRequired, Required, Passing
  <2>5. ingestion = "pass" => stored = Required(result)
    BY RecordedWhenPassed
  <2>6. /\ ingestion = "not_started" => stored = {}
        /\ exitCode = 0 => ingestion = "pass" /\ captured
        /\ ack # None => TrueOf(ack.stores)
    BY DEF SafeInv, Undecided, SuccessInOrder, AcknowledgementHolds
  <2>7. Evidence!Truthful(Completion(result))
    BY <2>3, <2>4, <2>5, <2>6 DEF Evidence!Truthful, TrueOf, Destinations
  <2>8. Evidence!Publish
    BY <1>1, <1>3, <2>1, <2>2, <2>7 DEF Evidence!Publish, Evidence!Truthful
  <2> QED
    BY <2>8 DEF Evidence!Next
<1> QED
  BY <1>2, <1>3

LEMMA SupervisorImplements ==
  ASSUME TypeOK, SafeInv, SupervisorStep \/ Signal \/ Crash
  PROVE  [Evidence!Next]_Evidence!vars
<1>1. CASE BindResult
  <2>1. result' = Loaded /\ UNCHANGED <<stored, receipt>> /\ receipt = None
    BY <1>1 DEF BindResult, SafeInv, Undecided, SuccessInOrder, Loaded, writer, evidence
  <2> QED
    BY <2>1, LoadedConcludes
<1>2. CASE Summarize
  <2>1. result' = Loaded /\ UNCHANGED <<stored, receipt>> /\ receipt = None
    BY <1>2 DEF Summarize, SafeInv, SuccessInOrder, writer, evidence
  <2> QED
    BY <2>1, LoadedConcludes
<1>3. CASE Publish
  BY <1>3, PublishImplements DEF Publish, Exit, writer
<1>4. CASE ClosingFails
  <2>1. UNCHANGED <<result, stored>>
    BY <1>4 DEF ClosingFails, Exit, writer
  <2>2. CASE sup = "closing"
    BY <1>4, <2>1, <2>2 DEF ClosingFails, Evidence!vars
  <2>3. CASE sup = "publishing"
    BY <1>4, <2>1, <2>3, PublishImplements DEF ClosingFails
  <2> QED
    BY <1>4, <2>2, <2>3 DEF ClosingFails
<1>5. CASE Timeout \/ Interrupt
  BY <1>5, TerminateHolds DEF Timeout, Interrupt, verdict, evidence, Evidence!vars
<1>6. CASE Reserve \/ ReservationRefused \/ LaunchRunner \/ RunnerReturns \/ LaunchIngestion
  BY <1>6 DEF Reserve, ReservationRefused, LaunchRunner, RunnerReturns, LaunchIngestion,
     writer, verdict, evidence, Evidence!vars
<1>7. CASE IngestionReturns \/ FinalizeLogs \/ ReleaseMarker \/ Finish \/ Abort \/ InterruptLaunch
           \/ Crash
  BY <1>7 DEF IngestionReturns, FinalizeLogs, ReleaseMarker, Finish, Abort, InterruptLaunch,
     Crash, Exit,
     writer, verdict, evidence, Evidence!vars
<1> QED
  BY <1>1, <1>2, <1>3, <1>4, <1>5, <1>6, <1>7 DEF SupervisorStep, Signal

LEMMA ChildrenImplement ==
  ASSUME TypeOK, SafeInv, RunnerStep \/ IngestionStep \/ StrayWrites \/ StrayEnds
  PROVE  [Evidence!Next]_Evidence!vars
<1>1. ASSUME NEW s \in Destinations, CommitStore(s)
      PROVE  [Evidence!Next]_Evidence!vars
  BY <1>1, CommitImplements
<1>2. ASSUME NEW s \in Destinations, ConfirmStore(s)
      PROVE  UNCHANGED <<result, stored, receipt>>
  BY <1>2 DEF ConfirmStore, verdict, evidence
<1>3. CASE IngestionStarts \/ BeginValidation \/ IngestionAcknowledges \/ IngestionFails
           \/ IngestionEnds \/ \E t \in Enabled : BeginWriter(t)
  BY <1>3 DEF IngestionStarts, BeginValidation, IngestionAcknowledges, IngestionFails, GiveUp,
     IngestionEnds, BeginWriter, writer, verdict, evidence, Evidence!vars
<1>4. CASE RunnerStep
  BY <1>4 DEF RunnerStep, RunnerStarts, RunnerFinishes, RunnerFails, RunnerCrashes, StartTest,
     LaunchSetup, StartWorkload, FinishTest, writer, verdict, evidence, Evidence!vars
<1>5. CASE StrayWrites \/ StrayEnds
  BY <1>5 DEF StrayWrites, StrayEnds, writer, verdict, evidence, Evidence!vars
<1> QED
  BY <1>1, <1>2, <1>3, <1>4, <1>5 DEF IngestionStep, Evidence!vars

\* One outcome, recorded in order, and one receipt that is true of what is
\* recorded (supervisor.py, run_ingest.py).
THEOREM RunImplementsEvidence == Spec => ImplementsRunEvidence
<1>1. Init => Evidence!Init
  BY DEF Init, Evidence!Init
<1>2. TypeOK /\ SafeInv /\ [Next]_vars => [Evidence!Next]_Evidence!vars
  <2>1. UNCHANGED vars => UNCHANGED Evidence!vars
    BY DEF vars, writer, verdict, evidence, Evidence!vars
  <2> QED
    BY <2>1, SupervisorImplements, ChildrenImplement DEF Next
<1>3. Spec => Evidence!Spec
  BY <1>1, <1>2, SafeInvariant, PTL DEF Spec, Evidence!Spec
<1> QED
  BY <1>3 DEF ImplementsRunEvidence

(***************************************************************************)
(* The runner as a program: type correctness.                              *)
(***************************************************************************)
LEMMA Codes == None \notin Nat /\ None \notin Observations
  BY NoneIsNoCode

LEMMA RunnerInitTypeOK == RunnerInit => RunnerTypeOK
<1> SUFFICES ASSUME RunnerInit PROVE RunnerTypeOK
  OBVIOUS
<1>1. NotStarted \in TestRecords
  BY DEF NotStarted, TestRecords, TestPhases, TerminalPhases
<1>2. tests \in [Tests -> TestRecords] /\ file \in Documents
  BY <1>1 DEF RunnerInit, Documents
<1>3. opened \in BOOLEAN /\ launched \in BOOLEAN
  BY Zenon DEF RunnerInit
<1> QED
  BY <1>2, <1>3, RunnerBounds
  DEF RunnerInit, RunnerTypeOK, Points, Unhandled, Times

LEMMA RaiseType ==
  ASSUME RunnerTypeOK, NEW interrupt \in BOOLEAN, Raise(interrupt)
  PROVE  point' \in Points /\ exit' \in {0, 1, 130, Killed, None}
<1>1. exit \in {0, 1, 130, Killed, None}
  BY DEF RunnerTypeOK
<1>2. CASE point \in Guarded /\ Go(IF interrupt THEN "stop_finish" ELSE "error_finish")
  BY <1>1, <1>2 DEF Go, Points, Handled, InRegistry, Finishing
<1>3. CASE point \in InRegistry /\ IF interrupt THEN Go("stopping") ELSE Leave(1)
  BY <1>1, <1>3 DEF Go, Leave, Points, Handled, Stopping
<1>4. CASE point \in Stopping /\ Leave(IF interrupt THEN 130 ELSE 1)
  BY <1>4 DEF Leave, Points
<1>5. CASE point \in Unhandled /\ Leave(IF interrupt THEN Killed ELSE 1)
  BY <1>5 DEF Leave, Points
<1> QED
  BY <1>2, <1>3, <1>4, <1>5 DEF Raise

LEMMA FinishType ==
  ASSUME RunnerTypeOK, NEW phase \in TerminalPhases, NEW status \in {"pass", "fail", "incomplete"},
         NEW code \in {0, 1, None}, _finish_test(phase, status, code)
  PROVE  tests' \in [Tests -> TestRecords] /\ now' \in Times
<1>1. PICK t \in Times : /\ Reads(t)
                         /\ tests' = [tests EXCEPT ![at] = [@ EXCEPT !.phase = phase, !.status = status,
                                                !.completed = t, !.code = code]]
  BY DEF _finish_test
<1>2. now' \in Times
  BY <1>1 DEF Reads
<1>3. tests \in [Tests -> TestRecords]
  BY DEF RunnerTypeOK
<1>4. ASSUME at \in Tests
      PROVE  [tests[at] EXCEPT !.phase = phase, !.status = status, !.completed = t, !.code = code] \in TestRecords
  <2>1. tests[at] \in TestRecords
    BY <1>3, <1>4
  <2> QED
    BY <2>1, <1>1 DEF TestRecords, TestPhases
<1>5. tests' \in [Tests -> TestRecords]
  BY <1>1, <1>3, <1>4
<1> QED
  BY <1>2, <1>5

LEMMA SeenType ==
  ASSUME RunnerTypeOK, Seen
  PROVE  seen' \in Observations \cup {None}
<1>1. (point # "initial") \in BOOLEAN
  OBVIOUS
<1>2. file \in Documents /\ launched \in BOOLEAN /\ seen \in Observations \cup {None}
  BY DEF RunnerTypeOK
<1>3. [file |-> file, launched |-> launched, initialized |-> point # "initial"] \in Observations
  BY <1>1, <1>2, Zenon DEF Observations
<1> QED
  BY <1>2, <1>3, Zenon DEF Seen

LEMMA BufferTypeOK ==
  ASSUME RunnerTypeOK, PointInv, OpenBuffer \/ DumpBuffer
  PROVE  RunnerTypeOK'
<1>1. CASE OpenBuffer
  <2>1. PICK t \in Times : /\ Reads(t)
                           /\ completed' = IF ~AllTerminal(tests) THEN None ELSE IF completed = None THEN t ELSE completed
    BY <1>1 DEF OpenBuffer
  <2>2. now' \in Times /\ completed' \in Times \cup {None}
    BY <2>1 DEF Reads, RunnerTypeOK
  <2>3. /\ point' \in Points /\ exit' \in {0, 1, 130, Killed, None}
        /\ opened' \in BOOLEAN /\ file' \in Documents
    <3>1. CASE parse_validation_result_v2(tests, completed')
      <4>1. opened' = TRUE /\ file' = [file EXCEPT !.whole = FALSE] /\ UNCHANGED <<point, exit>>
        BY <1>1, <3>1 DEF OpenBuffer
      <4>2. opened' \in BOOLEAN
        BY <4>1, Zenon
      <4>3. file' \in Documents
        BY <4>1 DEF RunnerTypeOK, Documents
      <4> QED
        BY <4>1, <4>2, <4>3 DEF RunnerTypeOK
    <3>2. CASE ~parse_validation_result_v2(tests, completed')
      <4>1. Raise(FALSE) /\ UNCHANGED <<opened, file>>
        BY <1>1, <3>2 DEF OpenBuffer
      <4>2. opened' \in BOOLEAN /\ file' \in Documents
        BY <4>1 DEF RunnerTypeOK
      <4> QED
        BY <4>1, <4>2, RaiseType
    <3> QED
      BY <3>1, <3>2
  <2>4. UNCHANGED <<at, tests, process, faults, launched, returned, seen>>
    BY <1>1 DEF OpenBuffer, history
  <2> QED
    BY <2>2, <2>3, <2>4 DEF RunnerTypeOK
<1>2. CASE DumpBuffer
  <2>1. opened' \in BOOLEAN /\ launched' \in BOOLEAN
    BY <1>2, Zenon DEF DumpBuffer
  <2>2. file' \in Documents
    <3>1. file' = [whole |-> TRUE, tests |-> tests, completed |-> completed]
      BY <1>2, Zenon DEF DumpBuffer
    <3>2. TRUE \in BOOLEAN /\ tests \in [Tests -> TestRecords] /\ completed \in Times \cup {None}
      BY DEF RunnerTypeOK
    <3> QED
      BY <3>1, <3>2, Zenon DEF Documents
  <2>3. UNCHANGED <<at, tests, completed, process, now, faults, returned, seen>>
    BY <1>2 DEF DumpBuffer, document
  <2>4. point' \in Points /\ exit' \in {0, 1, 130, Killed, None}
    <3>1. point \in Writes
      BY <1>2 DEF DumpBuffer, PointInv
    <3>2. CASE point \in {"stopping_write", "last_write"}
      BY <1>2, <3>2 DEF DumpBuffer, Leave, Points
    <3>3. CASE point \notin {"stopping_write", "last_write"}
      <4>1. Go(After(point))
        BY <1>2, <3>3 DEF DumpBuffer
      <4> QED
        BY <3>1, <3>3, <4>1
        DEF Go, After, Points, Handled, Guarded, InRegistry, Finishing, Unhandled, Writes, RunnerTypeOK
    <3> QED
      BY <3>2, <3>3
  <2> QED
    BY <2>1, <2>2, <2>3, <2>4 DEF RunnerTypeOK
<1> QED
  BY <1>1, <1>2

LEMMA TestTypeOK ==
  ASSUME RunnerTypeOK, Emit \/ NextTest \/ RegistryDone \/ Spawn \/ Register \/ FinishInHandler
  PROVE  RunnerTypeOK'
<1>1. CASE Emit
  <2>1. point' \in Points /\ UNCHANGED exit
    BY <1>1 DEF Emit, Go, Points, Handled, Guarded, InRegistry, Stopping, Unhandled
  <2> QED
    BY <1>1, <2>1 DEF Emit, RunnerTypeOK, document, history
<1>2. CASE NextTest
  <2>1. PICK t \in Times : /\ Reads(t)
                           /\ tests' = [tests EXCEPT ![at + 1].phase = "setup", ![at + 1].started = t]
    BY <1>2 DEF NextTest
  <2>2. tests \in [Tests -> TestRecords] /\ now' \in Times
    BY <2>1 DEF RunnerTypeOK, Reads
  <2>3. ASSUME at + 1 \in Tests PROVE [tests[at + 1] EXCEPT !.phase = "setup", !.started = t] \in TestRecords
    <3>1. tests[at + 1] \in TestRecords
      BY <2>2, <2>3
    <3> QED
      BY <3>1, <2>1 DEF TestRecords, TestPhases
  <2>4. tests' \in [Tests -> TestRecords]
    BY <2>1, <2>2, <2>3
  <2>5. at' \in 0..LastTest
    BY <1>2, RunnerBounds DEF NextTest, RunnerTypeOK
  <2>6. point' \in Points /\ UNCHANGED <<exit, opened, completed, file, process, faults, launched, returned, seen>>
    BY <1>2 DEF NextTest, Go, Points, Handled, InRegistry, history
  <2> QED
    BY <2>2, <2>4, <2>5, <2>6 DEF RunnerTypeOK
<1>3. CASE RegistryDone
  <2>1. completed' \in Times \cup {None} /\ now' \in Times
    BY <1>3 DEF RegistryDone, Reads, RunnerTypeOK
  <2>2. point' \in Points /\ UNCHANGED <<exit, at, opened, tests, file, process, faults, launched, returned, seen>>
    BY <1>3 DEF RegistryDone, Go, Points, Unhandled, history
  <2> QED
    BY <2>1, <2>2 DEF RunnerTypeOK
<1>4. CASE Spawn
  <2>1. launched' \in BOOLEAN
    BY <1>4, Zenon DEF Spawn
  <2>2. process' = "spawned" /\ UNCHANGED <<control, document, file, now, faults, returned, seen>>
    BY <1>4 DEF Spawn
  <2> QED
    BY <2>1, <2>2 DEF RunnerTypeOK, control, document
<1>5. CASE Register
  BY <1>5 DEF Register, RunnerTypeOK, control, document, history
<1>6. CASE FinishInHandler
  <2>1. tests' \in [Tests -> TestRecords] /\ now' \in Times
    BY <1>6, FinishType DEF FinishInHandler, TerminalPhases
  <2>2. point' \in Points /\ UNCHANGED <<exit, at, opened, completed, file, process, faults, launched, returned, seen>>
    BY <1>6 DEF FinishInHandler, Go, Points, Handled, InRegistry, Finishing, history
  <2> QED
    BY <2>1, <2>2 DEF RunnerTypeOK
<1> QED
  BY <1>1, <1>2, <1>3, <1>4, <1>5, <1>6

LEMMA ReturnTypeOK ==
  ASSUME RunnerTypeOK, PointInv, NEW code \in 0..1, NEW clean \in BOOLEAN,
         SetupReturns(code, clean) \/ WorkloadReturns(code, clean)
  PROVE  RunnerTypeOK'
<1>0. code \in {0, 1, None} /\ 1 \in {0, 1, None}
  OBVIOUS
<1>1. CASE SetupReturns(code, clean)
  <2>1. process' = "none" /\ UNCHANGED <<at, opened, completed, file, faults, launched, returned, seen>>
    BY <1>1 DEF SetupReturns, history
  <2>2. tests' \in [Tests -> TestRecords] /\ now' \in Times /\ point' \in Points /\ UNCHANGED exit
    <3>1. CASE code = 0 /\ clean
      <4>1. tests' = [tests EXCEPT ![at].phase = "running"] /\ Go("running_write") /\ UNCHANGED now
        BY <1>1, <3>1 DEF SetupReturns
      <4>2. tests' \in [Tests -> TestRecords]
        <5>1. tests \in [Tests -> TestRecords]
          BY DEF RunnerTypeOK
        <5>2. tests' = [tests EXCEPT ![at] = [tests[at] EXCEPT !.phase = "running"]]
          BY <4>1
        <5>3. at \in Tests => [tests[at] EXCEPT !.phase = "running"] \in TestRecords
          BY <5>1 DEF TestRecords, TestPhases
        <5> QED
          BY <5>1, <5>2, <5>3
      <4> QED
        BY <4>1, <4>2 DEF Go, Points, Handled, Guarded, RunnerTypeOK
    <3>2. CASE ~(code = 0 /\ clean)
      <4>1. /\ _finish_test("setup_failed", "fail", 1) \/ _finish_test("timed_out", "fail", 1)
            /\ Go("finish_write")
        BY <1>1, <3>2 DEF SetupReturns
      <4>2. tests' \in [Tests -> TestRecords] /\ now' \in Times
        BY <4>1, <1>0, FinishType DEF TerminalPhases
      <4> QED
        BY <4>1, <4>2 DEF Go, Points, Handled, Guarded
    <3> QED
      BY <3>1, <3>2
  <2> QED
    BY <2>1, <2>2 DEF RunnerTypeOK
<1>2. CASE WorkloadReturns(code, clean)
  <2>1. process' = "none" /\ UNCHANGED <<at, opened, completed, file, faults, launched, seen>>
    BY <1>2 DEF WorkloadReturns
  <2>2. tests' \in [Tests -> TestRecords] /\ now' \in Times
    <3>1. \/ _finish_test("finished", IF code = 0 THEN "pass" ELSE "fail", code)
          \/ _finish_test("timed_out", "fail", 1)
      BY <1>2 DEF WorkloadReturns
    <3>2. (IF code = 0 THEN "pass" ELSE "fail") \in {"pass", "fail", "incomplete"}
      OBVIOUS
    <3> QED
      BY <3>1, <3>2, <1>0, FinishType DEF TerminalPhases
  <2>3. point' \in Points /\ UNCHANGED exit
    BY <1>2 DEF WorkloadReturns, Go, Points, Handled, Guarded
  <2>4. returned' \subseteq Tests
    BY <1>2 DEF WorkloadReturns, RunnerTypeOK, PointInv
  <2> QED
    BY <2>1, <2>2, <2>3, <2>4 DEF RunnerTypeOK
<1> QED
  BY <1>1, <1>2

LEMMA FaultTypeOK ==
  ASSUME RunnerTypeOK, handle_signal \/ Error \/ Kill \/ ClockStepsBack \/ UNCHANGED runnerVars
  PROVE  RunnerTypeOK'
<1>0. \A kind : Fault(kind) => faults' \in 0..MaxFaults
  BY RunnerBounds DEF Fault, RunnerTypeOK
<1>1. CASE handle_signal
  <2>1. seen' \in Observations \cup {None}
    BY <1>1, SeenType DEF handle_signal
  <2>2. point' \in Points /\ exit' \in {0, 1, 130, Killed, None}
    BY <1>1, RaiseType DEF handle_signal
  <2>3. opened' \in BOOLEAN
    BY <1>1, Zenon DEF handle_signal
  <2>4. process' \in {"none", "spawned", "active"} /\ faults' \in 0..MaxFaults
    BY <1>0, <1>1 DEF handle_signal, RunnerTypeOK
  <2>5. UNCHANGED <<at, document, file, now, launched, returned>>
    BY <1>1 DEF handle_signal
  <2> QED
    BY <2>1, <2>2, <2>3, <2>4, <2>5 DEF RunnerTypeOK, document
<1>2. CASE Error
  <2>1. point' \in Points /\ exit' \in {0, 1, 130, Killed, None}
    BY <1>2, RaiseType DEF Error
  <2>2. opened' \in BOOLEAN
    BY <1>2, Zenon DEF Error
  <2>3. process' = "none" /\ faults' \in 0..MaxFaults
    BY <1>0, <1>2 DEF Error
  <2>4. UNCHANGED <<at, document, file, now, history>>
    BY <1>2 DEF Error
  <2> QED
    BY <2>1, <2>2, <2>3, <2>4 DEF RunnerTypeOK, document, history
<1>3. CASE Kill
  <2>1. point' \in Points /\ exit' = Killed
    BY <1>3 DEF Kill, Leave, Points
  <2>2. opened' \in BOOLEAN
    BY <1>3, Zenon DEF Kill
  <2>3. faults' \in 0..MaxFaults
    BY <1>0, <1>3 DEF Kill
  <2>4. UNCHANGED <<at, document, file, process, now, history>>
    BY <1>3 DEF Kill
  <2> QED
    BY <2>1, <2>2, <2>3, <2>4 DEF RunnerTypeOK, document, history
<1>4. CASE ClockStepsBack
  <2>1. faults' \in 0..MaxFaults
    BY <1>0, <1>4 DEF ClockStepsBack
  <2>2. now' \in Times
    BY <1>4, RunnerBounds DEF ClockStepsBack, RunnerTypeOK, Times
  <2>3. UNCHANGED <<control, document, file, process, history>>
    BY <1>4 DEF ClockStepsBack
  <2> QED
    BY <2>1, <2>2, <2>3 DEF RunnerTypeOK, control, document, history
<1>5. CASE UNCHANGED runnerVars
  BY <1>5 DEF RunnerTypeOK, runnerVars, control, document, history
<1> QED
  BY <1>1, <1>2, <1>3, <1>4, <1>5

(***************************************************************************)
(* The invariant.                                                          *)
(***************************************************************************)
LEMMA AtIsTest == RunnerTypeOK => at \in Nat /\ (at \in Tests <=> at # 0) /\ LastTest \in Nat \ {0}
  BY RunnerBounds DEF RunnerTypeOK, Tests

LEMMA OutcomeType == ASSUME NEW s \in TestRecords PROVE Outcome(s) \in {"pending", "setup", "running", "pass", "fail", "incomplete"}
  BY DEF Outcome, TestRecords

LEMMA OutcomeIsTerminal ==
  ASSUME NEW s \in TestRecords
  PROVE  /\ Outcome(s) \in {"pass", "fail"} => s.phase \in TerminalPhases
         /\ Outcome(s) \in {"pending", "setup", "running"} => s.phase \notin TerminalPhases /\ s.phase = Outcome(s)
         /\ s.phase \notin TerminalPhases => Outcome(s) = s.phase
         /\ s.phase \in TerminalPhases => Outcome(s) = s.status
  BY DEF Outcome, TestRecords, TestPhases, TerminalPhases

LEMMA FinishFacts ==
  ASSUME RunnerTypeOK, at \in Tests, NEW phase \in TerminalPhases, NEW status, NEW code,
         _finish_test(phase, status, code)
  PROVE  /\ tests'[at].phase = phase /\ tests'[at].status = status /\ Outcome(tests'[at]) = status
         /\ \A t \in Tests \ {at} : tests'[t] = tests[t]
<1>1. PICK c \in Times : tests' = [tests EXCEPT ![at] = [@ EXCEPT !.phase = phase, !.status = status,
                                                            !.completed = c, !.code = code]]
  BY DEF _finish_test
<1>2. tests \in [Tests -> TestRecords] /\ tests[at] \in TestRecords
  BY DEF RunnerTypeOK
<1>3. tests'[at] = [tests[at] EXCEPT !.phase = phase, !.status = status, !.completed = c, !.code = code]
  BY <1>1, <1>2
<1>4. tests'[at].phase = phase /\ tests'[at].status = status
  BY <1>2, <1>3 DEF TestRecords
<1>5. Outcome(tests'[at]) = status
  BY <1>4 DEF Outcome, TerminalPhases
<1> QED
  BY <1>1, <1>2, <1>4, <1>5

LEMMA PhaseFacts ==
  ASSUME RunnerTypeOK, NEW t \in Tests, NEW phase \in {"setup", "running"}, NEW u, 
         tests' = [tests EXCEPT ![t].phase = phase] \/ tests' = [tests EXCEPT ![t].phase = phase, ![t].started = u]
  PROVE  /\ tests'[t].phase = phase /\ tests'[t].status = tests[t].status /\ Outcome(tests'[t]) = phase
         /\ \A v \in Tests \ {t} : tests'[v] = tests[v]
<1>1. tests \in [Tests -> TestRecords] /\ tests[t] \in TestRecords
  BY DEF RunnerTypeOK
<1>2. tests'[t] = [tests[t] EXCEPT !.phase = phase] \/ tests'[t] = [tests[t] EXCEPT !.phase = phase, !.started = u]
  BY <1>1
<1>3. tests'[t].phase = phase /\ tests'[t].status = tests[t].status
  BY <1>1, <1>2 DEF TestRecords
<1>4. Outcome(tests'[t]) = phase
  BY <1>3 DEF Outcome
<1> QED
  BY <1>1, <1>3, <1>4

\* What stays when the documents, the buffer and what was seen do, and the
\* program stays at its statement or ends.
LEMMA SameDocuments ==
  ASSUME RunnerTypeOK, RunnerInv, UNCHANGED <<at, document, file, history>>,
         point' = point \/ point' = "exited"
  PROVE  OthersInv' /\ CurrentInv' /\ SignalInv' /\ EarnedInv'
<1>0. /\ at' = at /\ tests' = tests /\ file' = file
      /\ launched' = launched /\ returned' = returned /\ seen' = seen
  BY DEF document, history
<1>1. OthersInv'
  BY <1>0 DEF RunnerInv, OthersInv, Between
<1>2. CurrentInv'
  <2>1. CASE point' = point
    BY <1>0, <2>1 DEF RunnerInv, CurrentInv, StatesAt
  <2>2. CASE point' = "exited"
    BY <2>2 DEF CurrentInv, StatesAt, Between, Stopping
  <2> QED
    BY <2>1, <2>2
<1>3. SignalInv'
  BY <1>0 DEF RunnerInv, SignalInv, Signalled, Ended, Interrupting
<1>4. EarnedInv'
  BY <1>0 DEF RunnerInv, EarnedInv
<1> QED
  BY <1>1, <1>2, <1>3, <1>4

LEMMA StillInv ==
  ASSUME RunnerTypeOK, RunnerInv, Kill \/ ClockStepsBack \/ UNCHANGED runnerVars
  PROVE  RunnerInv'
<1>1. /\ UNCHANGED <<at, document, file, history>> /\ process' = process
      /\ \/ point' = "exited" /\ exit' = Killed /\ opened' = FALSE
         \/ UNCHANGED <<point, exit, opened>>
  BY DEF Kill, ClockStepsBack, runnerVars, Leave, control
<1>2. OthersInv' /\ CurrentInv' /\ SignalInv' /\ EarnedInv'
  BY <1>1, SameDocuments
<1>3. /\ at' = at /\ tests' = tests /\ completed' = completed /\ file' = file
      /\ launched' = launched /\ seen' = seen
  BY <1>1 DEF document, history
<1>4. PointInv'
  <2>1. CASE UNCHANGED <<point, exit, opened>>
    BY <1>1, <1>3, <2>1 DEF RunnerInv, PointInv, Ended, Signalled
  <2>2. CASE point' = "exited" /\ exit' = Killed /\ opened' = FALSE
    <3>1. Killed # None
      BY Codes DEF Killed
    <3>2. ~opened'
      BY <2>2, Zenon
    <3> QED
      BY <1>1, <1>3, <2>2, <3>1, <3>2 DEF RunnerInv, PointInv, Ended, Signalled, Last, Running
  <2> QED
    BY <1>1, <2>1, <2>2
<1> QED
  BY <1>2, <1>4 DEF RunnerInv

LEMMA Raised ==
  ASSUME NEW interrupt \in BOOLEAN, Raise(interrupt)
  PROVE  \/ point \in Guarded /\ ~interrupt /\ point' = "error_finish" /\ exit' = exit
         \/ point \in Guarded /\ interrupt /\ point' = "stop_finish" /\ exit' = exit
         \/ point \in InRegistry /\ interrupt /\ point' = "stopping" /\ exit' = exit
         \/ point \in Stopping \cup Unhandled \cup InRegistry /\ point' = "exited" /\ exit' \in {1, 130, Killed}
            /\ (point \in InRegistry => ~interrupt)
<1>1. CASE interrupt
  BY <1>1 DEF Raise, Go, Leave, InRegistry, Finishing, Stopping, Unhandled
<1>2. CASE ~interrupt
  BY <1>2 DEF Raise, Go, Leave
<1> QED
  BY <1>1, <1>2

\* What a signal or an exception finds: the buffer is at most one transition behind.
LEMMA RaisedAtMostAStep ==
  ASSUME RunnerTypeOK, RunnerInv, point \in Guarded \cup InRegistry
  PROVE  /\ point \in Guarded => at \in Tests
         /\ at \in Tests => /\ AtMostAStep(Outcome(file.tests[at]), Outcome(tests[at]))
                            /\ point \in Guarded => Outcome(file.tests[at]) \in Recorded
<1>1. point \in Guarded => at \in Tests
  BY AtIsTest DEF RunnerInv, PointInv, Guarded
<1>2. ASSUME at \in Tests
      PROVE  /\ AtMostAStep(Outcome(file.tests[at]), Outcome(tests[at]))
             /\ point \in Guarded => Outcome(file.tests[at]) \in Recorded
  <2> DEFINE b == Outcome(file.tests[at])
             d == Outcome(tests[at])
  <2>1. StatesAt(b, d)
    BY <1>2 DEF RunnerInv, CurrentInv
  <2> HIDE DEF b, d
  <2>2. AtMostAStep(b, d) /\ (point \in Guarded => b \in Recorded)
    BY <2>1 DEF StatesAt, Guarded, InRegistry, Finishing, Between, Stopping, AtMostAStep, Steps, Recorded
  <2> QED
    BY <2>2 DEF b, d
<1> QED
  BY <1>1, <1>2

LEMMA RaiseInv ==
  ASSUME RunnerTypeOK, RunnerInv, NEW interrupt \in BOOLEAN, Raise(interrupt),
         UNCHANGED <<at, tests, file, launched, returned>>, opened' = FALSE,
         IF interrupt THEN Seen ELSE UNCHANGED seen,
         process' = "none" \/ (process' = process /\ (interrupt \/ point \in Writes))
  PROVE  RunnerInv'
<1>1. OthersInv'
  <2>1. point' \notin Between
    BY Raised DEF Between
  <2> QED
    BY <2>1 DEF RunnerInv, OthersInv
<1>2. CurrentInv'
  <2> SUFFICES ASSUME at' \in Tests PROVE StatesAt(Outcome(file.tests[at]), Outcome(tests[at]))'
    BY DEF CurrentInv
  <2> DEFINE b == Outcome(file.tests[at])
             d == Outcome(tests[at])
  <2>1. /\ point \in Guarded \cup InRegistry => AtMostAStep(b, d)
        /\ point \in Guarded => b \in Recorded
    BY RaisedAtMostAStep
  <2>2. b' = b /\ d' = d
    BY DEF Outcome
  <2> HIDE DEF b, d
  <2>3. StatesAt(b, d)'
    BY <2>1, <2>2, Raised DEF StatesAt, Between, Stopping
  <2> QED
    BY <2>3 DEF b, d
<1>3. Signalled \/ seen = None
  BY DEF Signalled
<1>4. CASE ~interrupt
  <2>1. seen' = seen
    BY <1>4
  <2>2. point \in Interrupting => point' = "exited"
    BY <1>4, Raised DEF Interrupting, Guarded
  <2>3. SignalInv'
    <3>1. point' \in {"error_finish", "exited"}
      BY <1>4, Raised
    <3>2. Signalled => point \in Interrupting \/ point = "exited"
      BY DEF RunnerInv, SignalInv, Ended
    <3>3. point # "exited"
      BY Raised DEF Guarded, InRegistry, Finishing, Stopping, Unhandled
    <3> QED
      BY <2>1, <2>2, <3>1, <3>2, <3>3 DEF SignalInv, Interrupting, Signalled, Ended
  <2>4. PointInv'
    <3>1. exit' # None <=> Ended'
      BY Raised, Codes DEF Ended, Killed, RunnerInv, PointInv, Guarded, InRegistry, Finishing, Stopping, Unhandled
    <3>2. ~opened'
      BY Zenon
    <3>3. at = 0 => point' = "exited"
      BY <1>4, Raised, AtIsTest, RaisedAtMostAStep
    <3>4. process' # "none" => Signalled /\ seen.launched
      BY <1>4 DEF RunnerInv, PointInv, Ended, Writes, Running
    <3> QED
      BY <1>4, <2>1, <3>1, <3>2, <3>3, <3>4, Raised DEF RunnerInv, PointInv, Last, Ended, Signalled, Running
  <2> QED
    BY <1>1, <1>2, <2>3, <2>4 DEF RunnerInv, EarnedInv
<1>5. CASE interrupt
  <2> DEFINE first == [file |-> file, launched |-> launched, initialized |-> point # "initial"]
  <2>1. seen' = IF seen = None THEN first ELSE seen
    BY <1>5, Zenon DEF Seen
  <2>2. first \in Observations
    BY SeenType, Zenon DEF RunnerTypeOK, Observations
  <2>3. first # None
    BY <2>2, Codes
  <2>4. first.file = file /\ first.launched = launched /\ (first.initialized <=> point # "initial")
    BY Zenon
  <2> HIDE DEF first
  <2>5. Signalled'
    BY <2>1, <2>3 DEF Signalled
  <2>6. point # "exited" /\ (seen # None => point \in Interrupting)
    BY Raised DEF RunnerInv, SignalInv, Signalled, Ended, Guarded, InRegistry, Finishing, Stopping, Unhandled
  <2>7. SignalInv'
    <3> SUFFICES ASSUME ~Ended' PROVE SignalInv'
      BY <2>5 DEF SignalInv
    <3>1. point \in Guarded \cup InRegistry /\ point' \in {"stop_finish", "stopping"}
          /\ (point' = "stop_finish" => point \in Guarded)
      BY <1>5, Raised DEF Ended
    <3>2. CASE seen = None
      <4>1. seen'.file = file /\ seen'.initialized
        BY <2>1, <2>4, <3>1, <3>2 DEF Guarded, InRegistry, Finishing
      <4>2. at \in Tests =>
              /\ AtMostAStep(Outcome(file.tests[at]), Outcome(file.tests[at]))
              /\ AtMostAStep(Outcome(file.tests[at]), Outcome(tests[at]))
              /\ point' = "stop_finish" => Outcome(file.tests[at]) \in Recorded
        BY <3>1, RaisedAtMostAStep DEF AtMostAStep
      <4> QED
        BY <2>5, <3>1, <4>1, <4>2 DEF SignalInv, Interrupting
    <3>3. CASE seen # None
      <4>1. seen' = seen /\ point' = "stopping"
        BY <2>1, <2>6, <3>1, <3>3 DEF Interrupting, Guarded
      <4> QED
        BY <2>5, <2>6, <3>3, <4>1 DEF RunnerInv, SignalInv, Interrupting, Signalled, Ended
    <3> QED
      BY <3>2, <3>3
  <2>8. PointInv'
    <3>1. exit' # None <=> Ended'
      BY Raised, Codes DEF Ended, Killed, RunnerInv, PointInv, Guarded, InRegistry, Finishing, Stopping, Unhandled
    <3>2. ~opened'
      BY Zenon
    <3>3. at = 0 => point' \in {"exited", "stopping"}
      BY <1>5, Raised, AtIsTest, RaisedAtMostAStep
    <3>4. process' # "none" => seen'.launched
      <4> SUFFICES ASSUME process' # "none" PROVE seen'.launched
        OBVIOUS
      <4>1. process # "none"
        OBVIOUS
      <4>2. CASE seen = None
        BY <2>1, <2>4, <2>6, <4>1, <4>2 DEF RunnerInv, PointInv, Ended, Signalled
      <4>3. CASE seen # None
        BY <2>1, <2>6, <4>1, <4>3 DEF RunnerInv, PointInv, Ended, Signalled, Running, Interrupting
      <4> QED
        BY <4>2, <4>3
    <3> QED
      BY <1>5, <2>5, <3>1, <3>2, <3>3, <3>4, Raised DEF RunnerInv, PointInv, Last, Ended, Running
  <2> QED
    BY <1>1, <1>2, <2>7, <2>8 DEF RunnerInv, EarnedInv
<1> QED
  BY <1>4, <1>5

LEMMA OpenInv ==
  ASSUME RunnerTypeOK, RunnerInv, OpenBuffer
  PROVE  RunnerInv'
<1>1. point \in Writes /\ ~opened /\ UNCHANGED <<at, tests, process, launched, returned, seen>>
  BY DEF OpenBuffer, history
<1>2. CASE parse_validation_result_v2(tests, completed')
  <2>1. opened' = TRUE /\ file' = [file EXCEPT !.whole = FALSE] /\ UNCHANGED <<point, exit>>
    BY <1>2 DEF OpenBuffer
  <2>2. file'.tests = file.tests /\ file'.whole = FALSE
    BY <2>1 DEF RunnerTypeOK, Documents
  <2>3. parse_validation_result_v2(tests, completed)'
    BY <1>1, <1>2
  <2>4. PointInv'
    <3>1. ~file'.whole
      BY <2>2, Zenon
    <3> QED
      BY <1>1, <2>1, <2>2, <2>3, <3>1 DEF RunnerInv, PointInv, Ended, Signalled
  <2>5. OthersInv' /\ EarnedInv' /\ SignalInv'
    BY <1>1, <2>1, <2>2 DEF RunnerInv, OthersInv, EarnedInv, SignalInv, Signalled, Ended
  <2>6. CurrentInv'
    BY <1>1, <2>1, <2>2 DEF RunnerInv, CurrentInv, StatesAt
  <2> QED
    BY <2>4, <2>5, <2>6 DEF RunnerInv
<1>3. CASE ~parse_validation_result_v2(tests, completed')
  <2>1. Raise(FALSE) /\ UNCHANGED <<opened, file>>
    BY <1>3 DEF OpenBuffer
  <2>2. opened' = FALSE
    BY <1>1, <2>1, Zenon DEF RunnerTypeOK
  <2> QED
    BY <1>1, <2>1, <2>2, RaiseInv
<1> QED
  BY <1>2, <1>3

LEMMA DumpInv ==
  ASSUME RunnerTypeOK, RunnerInv, DumpBuffer
  PROVE  RunnerInv'
<1>1. /\ point \in Writes /\ UNCHANGED <<at, tests, completed, process, returned, seen>>
  BY DEF DumpBuffer, document, RunnerInv, PointInv
<1>2. file'.tests = tests /\ ~opened'
  <2>1. opened' = FALSE /\ file' = [whole |-> TRUE, tests |-> tests, completed |-> completed]
    BY Zenon DEF DumpBuffer
  <2>2. ~opened'
    BY <2>1, Zenon
  <2> QED
    BY <2>1, <2>2
<1>3. launched' <=> launched /\ at \in Tests /\ tests[at].phase \notin TerminalPhases
  BY Zenon DEF DumpBuffer
<1>4. \/ point \in {"stopping_write", "last_write"} /\ point' = "exited" /\ exit' \in {0, 130}
      \/ point \in Writes \ {"stopping_write", "last_write"} /\ point' = After(point) /\ exit' = exit
  BY <1>1 DEF DumpBuffer, Leave, Go
<1>5. exit' # None <=> Ended'
  BY <1>4, Codes DEF RunnerInv, PointInv, Ended, Writes, After
<1>6. at \in Tests => tests[at] \in TestRecords /\ StatesAt(Outcome(file.tests[at]), Outcome(tests[at]))
  BY DEF RunnerInv, CurrentInv, RunnerTypeOK
<1>7. at \notin Tests => point \in {"initial", "stopping_write"}
  BY <1>1, AtIsTest DEF RunnerInv, PointInv, Writes
<1>8. ASSUME launched'
      PROVE  at \in Tests /\ point \in {"setup_write", "running_write", "stopping_write"}
             /\ Outcome(tests[at]) \in {"setup", "running"}
  <2> DEFINE b == Outcome(file.tests[at])
             d == Outcome(tests[at])
  <2>1. at \in Tests /\ b \in {"setup", "running"}
    BY <1>3, <1>8 DEF RunnerInv, PointInv
  <2>2. d = tests[at].phase /\ d \in {"pending", "setup", "running"}
    <3>1. tests[at].phase \in {"pending", "setup", "running"}
      BY <1>3, <1>6, <1>8, <2>1 DEF TestRecords, TestPhases
    <3> QED
      BY <3>1 DEF Outcome
  <2>3. StatesAt(b, d) /\ point # "initial"
    BY <1>6, <2>1, AtIsTest DEF RunnerInv, PointInv
  <2> HIDE DEF b, d
  <2>4. point \in {"setup_write", "running_write", "stopping_write"} /\ d \in {"setup", "running"}
    BY <1>1, <2>1, <2>2, <2>3 DEF StatesAt, Writes, Between, Stopping, AtMostAStep, Steps, Recorded
  <2> QED
    BY <2>1, <2>4 DEF b, d
<1>9. point = "running_write" => launched'
  <2> SUFFICES ASSUME point = "running_write" PROVE launched'
    OBVIOUS
  <2>1. at \in Tests /\ launched
    BY AtIsTest DEF RunnerInv, PointInv
  <2>2. Outcome(tests[at]) = "running"
    BY <1>6, <2>1 DEF StatesAt, Between, Stopping
  <2> QED
    BY <1>3, <1>6, <2>1, <2>2, OutcomeIsTerminal
<1>10. process' # "none" => Ended' \/ (Signalled' /\ seen'.launched)
  BY <1>1 DEF RunnerInv, PointInv, Ended, Signalled, Writes, Running
<1>11. PointInv'
  <2>1. launched' => at' \in Tests /\ Outcome(file.tests[at])' \in {"setup", "running"}
    BY <1>1, <1>2, <1>8 DEF Outcome
  <2>2. point' \in {"running_write", "running_emit", "workload"} => launched'
    BY <1>4, <1>9 DEF Writes, After
  <2>3. /\ point' \in {"initial", "started"} => at' = 0
        /\ at' = 0 => point' \in {"initial", "started", "next", "stopping", "stopping_write", "exited"}
        /\ point' # "initial" /\ (point' \in Last => at' = LastTest)
    BY <1>1, <1>4, <1>7, AtIsTest DEF RunnerInv, PointInv, Writes, After, Last
  <2> QED
    BY <1>2, <1>5, <1>10, <2>1, <2>2, <2>3 DEF PointInv
<1>12. OthersInv'
  BY <1>1, <1>2 DEF RunnerInv, OthersInv
<1>13. CurrentInv'
  <2> SUFFICES ASSUME at' \in Tests PROVE StatesAt(Outcome(file.tests[at]), Outcome(tests[at]))'
    BY DEF CurrentInv
  <2> DEFINE b == Outcome(file.tests[at])
             d == Outcome(tests[at])
  <2>1. StatesAt(b, d) /\ b' = d /\ d' = d
    BY <1>1, <1>2, <1>6 DEF Outcome
  <2> HIDE DEF b, d
  <2>2. StatesAt(b, d)'
    BY <1>4, <2>1 DEF StatesAt, Writes, After, Between, Stopping, AtMostAStep, Steps
  <2> QED
    BY <2>2 DEF b, d
<1>14. SignalInv'
  <2>1. point' \in Interrupting => point \in Interrupting
    BY <1>4 DEF Interrupting, Writes, After
  <2>2. ASSUME Signalled, ~Ended'
        PROVE  point \in Interrupting /\ point' = "stop_emit"
    BY <1>1, <1>4, <2>2 DEF RunnerInv, SignalInv, Ended, Interrupting, Writes, After
  <2>3. point' # "stop_finish"
    BY <1>4 DEF Writes, After
  <2> QED
    BY <1>1, <1>2, <2>1, <2>2, <2>3 DEF RunnerInv, SignalInv, OthersInv, Signalled, Ended, Interrupting
<1>15. EarnedInv'
  BY <1>1, <1>2 DEF RunnerInv, EarnedInv
<1> QED
  BY <1>11, <1>12, <1>13, <1>14, <1>15 DEF RunnerInv

LEMMA EmitInv ==
  ASSUME RunnerTypeOK, RunnerInv, Emit
  PROVE  RunnerInv'
<1>1. UNCHANGED <<at, opened, tests, completed, file, process, launched, returned, seen, exit>>
  BY DEF Emit, Go, document, history
<1>2. <<point, point'>> \in {<<"started", "next">>, <<"setup_emit", "setup">>, <<"running_emit", "workload">>,
                             <<"finish_emit", "next">>, <<"error_emit", "next">>, <<"stop_emit", "stopping">>,
                             <<"stopping", "stopping_write">>, <<"final_emit", "last_write">>}
  BY DEF Emit, Go
<1>3. PointInv'
  <2>1. ~opened /\ ~opened'
    BY <1>1, <1>2 DEF RunnerInv, PointInv, Writes
  <2> QED
    BY <1>1, <1>2, <2>1 DEF RunnerInv, PointInv, Ended, Signalled, Last, Running
<1>4. OthersInv'
  <2>1. point' \in Between => point \in Between \/ at \notin Tests
    BY <1>2, AtIsTest DEF RunnerInv, PointInv, Between
  <2>2. \A t \in Tests : t # at' \/ point' \in Between => file'.tests[t] = tests'[t]
    BY <1>1, <2>1 DEF RunnerInv, OthersInv
  <2> QED
    BY <1>1, <2>2 DEF RunnerInv, OthersInv
<1>5. CurrentInv'
  <2> SUFFICES ASSUME at' \in Tests PROVE StatesAt(Outcome(file.tests[at]), Outcome(tests[at]))'
    BY DEF CurrentInv
  <2> DEFINE b == Outcome(file.tests[at])
             d == Outcome(tests[at])
  <2>1. StatesAt(b, d) /\ b' = b /\ d' = d /\ point # "started"
    BY <1>1, AtIsTest DEF Outcome, RunnerInv, CurrentInv, PointInv
  <2> HIDE DEF b, d
  <2>2. StatesAt(b, d)'
    BY <1>2, <2>1 DEF StatesAt, Between, Stopping, AtMostAStep, Steps
  <2> QED
    BY <2>2 DEF b, d
<1>6. SignalInv'
  BY <1>1, <1>2 DEF RunnerInv, SignalInv, Signalled, Ended, Interrupting
<1>7. EarnedInv'
  BY <1>1 DEF RunnerInv, EarnedInv
<1> QED
  BY <1>3, <1>4, <1>5, <1>6, <1>7 DEF RunnerInv

LEMMA NotSignalled ==
  ASSUME RunnerTypeOK, RunnerInv, point \notin Interrupting, ~Ended
  PROVE  ~Signalled
  BY DEF RunnerInv, SignalInv

LEMMA NextTestInv ==
  ASSUME RunnerTypeOK, RunnerInv, NextTest
  PROVE  RunnerInv'
<1>1. /\ point = "next" /\ point' = "setup_write" /\ exit' = exit /\ at' = at + 1 /\ at < LastTest
      /\ UNCHANGED <<opened, completed, file, process, launched, returned, seen>>
  BY DEF NextTest, Go, history
<1>2. at + 1 \in Tests /\ at \in Nat
  BY <1>1, AtIsTest DEF Tests
<1>3. /\ tests'[at + 1].phase = "setup" /\ tests'[at + 1].status = tests[at + 1].status
      /\ Outcome(tests'[at + 1]) = "setup" /\ \A v \in Tests \ {at + 1} : tests'[v] = tests[v]
  <2>1. PICK u \in Times : tests' = [tests EXCEPT ![at + 1].phase = "setup", ![at + 1].started = u]
    BY DEF NextTest
  <2> QED
    BY <1>2, <2>1, PhaseFacts
<1>4. \A t \in Tests : file.tests[t] = tests[t]
  BY <1>1 DEF RunnerInv, OthersInv, Between
<1>5. \A t \in Tests : t > at => Outcome(tests[t]) = "pending"
  BY DEF RunnerInv, OthersInv
<1>6. at \in Tests => Outcome(tests[at]) \in {"pass", "fail"}
  <2> SUFFICES ASSUME at \in Tests PROVE Outcome(tests[at]) \in {"pass", "fail"}
    OBVIOUS
  <2> DEFINE b == Outcome(file.tests[at])
             d == Outcome(tests[at])
  <2>1. StatesAt(b, d)
    BY DEF RunnerInv, CurrentInv
  <2> HIDE DEF b, d
  <2>2. d \in {"pass", "fail"}
    BY <1>1, <2>1 DEF StatesAt, Between, Stopping
  <2> QED
    BY <2>2 DEF d
<1>7. ~launched /\ ~Signalled /\ ~opened
  <2>1. launched => at \in Tests /\ Outcome(tests[at]) \in {"setup", "running"}
    BY <1>4 DEF RunnerInv, PointInv
  <2>2. ~opened
    BY <1>1 DEF RunnerInv, PointInv, Writes
  <2> QED
    BY <1>1, <1>6, <2>1, <2>2, NotSignalled DEF Ended, Interrupting
<1>8. PointInv'
  <2>1. ~opened' /\ ~launched'
    BY <1>1, <1>7
  <2>2. at' # 0
    BY <1>1, <1>2
  <2>3. process = "none"
    BY <1>1, <1>7 DEF RunnerInv, PointInv, Ended, Running
  <2> QED
    BY <1>1, <2>1, <2>2, <2>3 DEF RunnerInv, PointInv, Ended, Last
<1>9. OthersInv'
  <2>1. \A t \in Tests : tests'[t].phase = "interrupted" => tests'[t].status = "incomplete"
    BY <1>2, <1>3 DEF RunnerInv, OthersInv
  <2>2. \A t \in Tests : t # at' => file'.tests[t] = tests'[t]
    BY <1>1, <1>3, <1>4
  <2>3. \A t \in Tests : t < at' => Outcome(tests[t]) \in {"pass", "fail"}
    BY <1>1, <1>2, <1>6 DEF RunnerInv, OthersInv, Tests
  <2>4. \A t \in Tests : t < at' => Outcome(tests'[t]) \in {"pass", "fail"}
    BY <1>1, <1>2, <1>3, <2>3 DEF Tests
  <2>5. \A t \in Tests : t > at' => Outcome(tests'[t]) = "pending"
    BY <1>1, <1>2, <1>3, <1>5 DEF Tests
  <2>6. point' \notin Between
    BY <1>1 DEF Between
  <2> QED
    BY <2>1, <2>2, <2>4, <2>5, <2>6 DEF OthersInv, Outcome
<1>10. CurrentInv'
  <2>1. Outcome(file'.tests[at']) = "pending" /\ Outcome(tests'[at']) = "setup"
    BY <1>1, <1>2, <1>3, <1>4, <1>5
  <2> DEFINE b == Outcome(file.tests[at])
             d == Outcome(tests[at])
  <2>2. b' = "pending" /\ d' = "setup"
    BY <2>1 DEF Outcome
  <2> HIDE DEF b, d
  <2>3. StatesAt(b, d)'
    BY <1>1, <2>2 DEF StatesAt, Between, Stopping
  <2> QED
    BY <2>3 DEF b, d, CurrentInv
<1>11. SignalInv'
  BY <1>1, <1>7 DEF SignalInv, Signalled, Interrupting
<1>12. EarnedInv'
  BY <1>1, <1>2, <1>3 DEF RunnerInv, EarnedInv
<1> QED
  BY <1>8, <1>9, <1>10, <1>11, <1>12 DEF RunnerInv

\* Steps that change no document and leave the program where it is.
LEMMA ProcessInv ==
  ASSUME RunnerTypeOK, RunnerInv, Spawn \/ Register
  PROVE  RunnerInv'
<1>1. /\ UNCHANGED <<point, at, opened, exit, tests, completed, file, returned, seen>> /\ point \in Running
      /\ \/ launched' = TRUE /\ process = "none"
         \/ UNCHANGED launched /\ process = "spawned"
  <2>1. CASE Spawn
    <3>1. UNCHANGED <<point, at, opened, exit, tests, completed, file, returned, seen>> /\ point \in Running
      BY <2>1 DEF Spawn, control, document
    <3>2. launched' = TRUE /\ process = "none"
      BY <2>1, Zenon DEF Spawn
    <3> QED
      BY <3>1, <3>2, Zenon
  <2>2. CASE Register
    BY <2>2, Zenon DEF Register, control, document, history
  <2> QED
    BY <2>1, <2>2
<1>2. at \in Tests /\ ~Signalled
  BY <1>1, AtIsTest, NotSignalled DEF RunnerInv, PointInv, Running, Interrupting, Ended
<1>3. Outcome(file.tests[at]) \in {"setup", "running"}
  <2> DEFINE b == Outcome(file.tests[at])
             d == Outcome(tests[at])
  <2>1. StatesAt(b, d)
    BY <1>2 DEF RunnerInv, CurrentInv
  <2> HIDE DEF b, d
  <2>2. b \in {"setup", "running"}
    BY <1>1, <2>1 DEF StatesAt, Between, Running, Stopping
  <2> QED
    BY <2>2 DEF b
<1>4. launched'
  <2>1. CASE launched' = TRUE
    BY <2>1, Zenon
  <2>2. CASE UNCHANGED launched /\ process = "spawned"
    <3>1. launched
      BY <1>1, <1>2, <2>2 DEF RunnerInv, PointInv, Ended, Running
    <3> QED
      BY <2>2, <3>1
  <2> QED
    BY <1>1, <2>1, <2>2
<1>5. PointInv'
  <2>1. ~opened /\ ~opened'
    BY <1>1 DEF RunnerInv, PointInv, Writes, Running
  <2>2. Outcome(file'.tests[at']) \in {"setup", "running"}
    BY <1>1, <1>3
  <2> QED
    BY <1>1, <1>2, <1>4, <2>1, <2>2 DEF RunnerInv, PointInv, Ended, Signalled, Outcome
<1>6. OthersInv' /\ EarnedInv' /\ SignalInv'
  BY <1>1 DEF RunnerInv, OthersInv, EarnedInv, SignalInv, Signalled, Ended
<1>7. CurrentInv'
  BY <1>1 DEF RunnerInv, CurrentInv, StatesAt
<1> QED
  BY <1>5, <1>6, <1>7 DEF RunnerInv

LEMMA DoneInv ==
  ASSUME RunnerTypeOK, RunnerInv, RegistryDone
  PROVE  RunnerInv'
<1>1. /\ point = "next" /\ at = LastTest /\ point' = "final_write" /\ exit' = exit
      /\ UNCHANGED <<at, opened, tests, file, process, launched, returned, seen>>
  BY DEF RegistryDone, Go, history
<1>2. ~Signalled /\ at # 0
  BY <1>1, AtIsTest, NotSignalled DEF Ended, Interrupting
<1>3. PointInv'
  <2>1. ~opened /\ ~opened'
    BY <1>1 DEF RunnerInv, PointInv, Writes
  <2> QED
    BY <1>1, <1>2, <2>1 DEF RunnerInv, PointInv, Ended, Signalled, Last, Running
<1>4. OthersInv' /\ EarnedInv'
  BY <1>1 DEF RunnerInv, OthersInv, EarnedInv, Between
<1>5. CurrentInv'
  <2> DEFINE b == Outcome(file.tests[at])
             d == Outcome(tests[at])
  <2>1. at' = at /\ b' = b /\ d' = d /\ (at \in Tests => StatesAt(b, d))
    BY <1>1 DEF RunnerInv, CurrentInv, Outcome
  <2> HIDE DEF b, d
  <2>2. at' \in Tests => StatesAt(b, d)'
    BY <1>1, <2>1 DEF StatesAt, Between, Stopping
  <2> QED
    BY <2>2 DEF b, d, CurrentInv
<1>6. SignalInv'
  BY <1>1, <1>2 DEF SignalInv, Signalled, Interrupting
<1> QED
  BY <1>3, <1>4, <1>5, <1>6 DEF RunnerInv

\* The current test gets its next state, or its last, in the document.
LEMMA RecordInv ==
  ASSUME RunnerTypeOK, RunnerInv, at \in Tests, ~Ended, ~Ended', UNCHANGED <<at, exit, opened, file, launched, seen>>,
         point \notin Writes, point' \in {"running_write", "finish_write", "error_write", "stop_write"},
         process' = "none" \/ (process' = process /\ Signalled),
         \A t \in Tests \ {at} : tests'[t] = tests[t],
         tests'[at].phase = "interrupted" => tests'[at].status = "incomplete",
         returned \subseteq returned', tests'[at].status = "pass" => at \in returned',
         StatesAt(Outcome(file.tests[at]), Outcome(tests[at]))',
         point' = "running_write" => launched,
         point' = "stop_write" <=> point \in Interrupting,
         Signalled => AtMostAStep(Outcome(seen.file.tests[at]), Outcome(tests'[at]))
  PROVE  RunnerInv'
<1>1. PointInv'
  <2>1. ~opened /\ ~opened'
    BY DEF RunnerInv, PointInv
  <2>2. launched' => at' \in Tests /\ Outcome(file'.tests[at']) \in {"setup", "running"}
    BY DEF RunnerInv, PointInv
  <2>3. at # 0 /\ process' # "none" => Signalled' /\ seen'.launched
    <3> SUFFICES ASSUME process' # "none" PROVE Signalled' /\ seen'.launched
      OBVIOUS
    <3>1. process # "none" /\ Signalled /\ point \in Interrupting
      BY DEF RunnerInv, SignalInv
    <3>2. point \notin Running
      BY <3>1 DEF Running, Interrupting
    <3> QED
      BY <3>1, <3>2 DEF RunnerInv, PointInv, Signalled
  <2>4. at # 0
    BY AtIsTest
  <2>5. exit' # None <=> Ended'
    BY DEF RunnerInv, PointInv
  <2> QED
    BY <2>1, <2>2, <2>3, <2>4, <2>5 DEF PointInv, Outcome, Last
<1>2. OthersInv'
  <2>1. point' \notin Between
    BY DEF Between
  <2>2. \A t \in Tests : tests'[t].phase = "interrupted" => tests'[t].status = "incomplete"
    BY DEF RunnerInv, OthersInv
  <2>3. \A t \in Tests : t # at' => file'.tests[t] = tests'[t]
    BY DEF RunnerInv, OthersInv
  <2>4. \A t \in Tests : /\ t < at' => Outcome(tests'[t]) \in {"pass", "fail"}
                         /\ t > at' => Outcome(tests'[t]) = "pending"
    <3> TAKE t \in Tests
    <3>1. CASE t = at
      BY <3>1, AtIsTest
    <3>2. CASE t # at
      BY <3>2 DEF RunnerInv, OthersInv
    <3> QED
      BY <3>1, <3>2
  <2> QED
    BY <2>1, <2>2, <2>3, <2>4 DEF OthersInv, Outcome
<1>3. CurrentInv'
  BY DEF CurrentInv
<1>4. SignalInv'
  <2>1. point' \in Interrupting <=> point \in Interrupting
    BY DEF Interrupting
  <2>2. point' # "stop_finish"
    OBVIOUS
  <2>3. Signalled' => AtMostAStep(Outcome(seen'.file.tests[at']), Outcome(tests'[at']))
    BY DEF Signalled
  <2> QED
    BY <2>1, <2>2, <2>3 DEF RunnerInv, SignalInv, Signalled, Outcome, AtMostAStep
<1>5. EarnedInv'
  BY DEF RunnerInv, EarnedInv
<1> QED
  BY <1>1, <1>2, <1>3, <1>4, <1>5 DEF RunnerInv

LEMMA FinishInHandlerInv ==
  ASSUME RunnerTypeOK, RunnerInv, FinishInHandler
  PROVE  RunnerInv'
<1>1. UNCHANGED <<at, exit, opened, completed, file, process, launched, returned, seen>>
  BY DEF FinishInHandler, Go, history
<1>2. /\ point \in {"error_finish", "stop_finish"} /\ at \in Tests /\ ~Ended /\ point \notin Writes
      /\ point' \in {"error_write", "stop_write"} /\ ~Ended'
      /\ point' = "stop_write" <=> point = "stop_finish"
  BY AtIsTest DEF FinishInHandler, Go, RunnerInv, PointInv, Ended, Writes
<1> DEFINE s == IF point = "error_finish" THEN "fail" ELSE "incomplete"
<1>3. /\ tests'[at].status = s /\ Outcome(tests'[at]) = s
      /\ (tests'[at].phase = "interrupted" => s = "incomplete")
      /\ \A t \in Tests \ {at} : tests'[t] = tests[t]
  <2>1. CASE point = "error_finish"
    BY <1>2, <2>1, FinishFacts DEF FinishInHandler, TerminalPhases
  <2>2. CASE point = "stop_finish"
    BY <1>2, <2>2, FinishFacts DEF FinishInHandler, TerminalPhases
  <2> QED
    BY <1>2, <2>1, <2>2
<1> DEFINE b == Outcome(file.tests[at])
           d == Outcome(tests[at])
<1>4. StatesAt(b, d) /\ b' = b /\ d' = s
  BY <1>1, <1>2, <1>3 DEF RunnerInv, CurrentInv, Outcome
<1>5. Signalled => point = "stop_finish" /\ Outcome(seen.file.tests[at]) \in Recorded
  BY <1>2 DEF RunnerInv, SignalInv, Interrupting
<1>6. point = "stop_finish" => Signalled
  BY DEF RunnerInv, SignalInv, Interrupting
<1> HIDE DEF b, d
<1>7. StatesAt(b, d)'
  BY <1>2, <1>4 DEF StatesAt, Between, Stopping, Recorded
<1>8. Signalled => AtMostAStep(Outcome(seen.file.tests[at]), Outcome(tests'[at]))
  BY <1>2, <1>3, <1>5 DEF AtMostAStep, Steps
<1>9. process' = "none" \/ (process' = process /\ Signalled)
  BY <1>1, <1>2 DEF RunnerInv, PointInv, Running
<1>10. StatesAt(Outcome(file.tests[at]), Outcome(tests[at]))'
  BY <1>7 DEF b, d
<1>11. point' = "stop_write" <=> point \in Interrupting
  BY <1>2 DEF Interrupting
<1>12. returned \subseteq returned' /\ tests'[at].status # "pass"
  BY <1>1, <1>3
<1>13. /\ tests'[at].phase = "interrupted" => tests'[at].status = "incomplete"
       /\ tests'[at].status = "pass" => at \in returned'
       /\ point' = "running_write" => launched
       /\ point' \in {"running_write", "finish_write", "error_write", "stop_write"}
  BY <1>2, <1>3, <1>12
<1> QED
  BY <1>1, <1>2, <1>3, <1>8, <1>9, <1>10, <1>11, <1>12, <1>13, RecordInv

LEMMA ReturnInv ==
  ASSUME RunnerTypeOK, RunnerInv, NEW code \in 0..1, NEW clean \in BOOLEAN,
         SetupReturns(code, clean) \/ WorkloadReturns(code, clean)
  PROVE  RunnerInv'
<1>1. /\ process = "active" /\ process' = "none" /\ point \in Running /\ returned \subseteq returned'
      /\ UNCHANGED <<at, opened, completed, file, launched, seen>>
  BY DEF SetupReturns, WorkloadReturns, Running, history
<1>2. /\ ~Ended /\ ~Signalled /\ launched /\ at \in Tests /\ point \notin Writes /\ point \notin Interrupting
  <2>1. ~Ended /\ ~Signalled /\ point \notin Writes /\ point \notin Interrupting
    BY <1>1, NotSignalled DEF Ended, Interrupting, Running, Writes
  <2> QED
    BY <1>1, <2>1 DEF RunnerInv, PointInv
<1> DEFINE b == Outcome(file.tests[at])
           d == Outcome(tests[at])
<1>3. StatesAt(b, d)
  BY <1>2 DEF RunnerInv, CurrentInv
<1>4. \/ b = "setup" /\ point = "setup"
      \/ b = "running" /\ point = "workload"
  <2> HIDE DEF b, d
  <2> QED
    BY <1>1, <1>3 DEF StatesAt, Between, Stopping, Running
<1>5. ASSUME point = "setup", SetupReturns(code, clean)
      PROVE  /\ exit' = exit /\ \A t \in Tests \ {at} : tests'[t] = tests[t]
             /\ \/ /\ point' = "running_write" /\ tests'[at].phase = "running" /\ Outcome(tests'[at]) = "running"
                   /\ tests'[at].status = tests[at].status
                \/ /\ point' = "finish_write" /\ tests'[at].phase # "interrupted"
                   /\ tests'[at].status = "fail" /\ Outcome(tests'[at]) = "fail"
  <2>1. CASE code = 0 /\ clean
    <3>1. tests' = [tests EXCEPT ![at].phase = "running"] /\ Go("running_write")
      BY <1>5, <2>1 DEF SetupReturns
    <3> QED
      BY <1>2, <3>1, PhaseFacts DEF Go
  <2>2. CASE ~(code = 0 /\ clean)
    <3>1. Go("finish_write")
      BY <1>5, <2>2 DEF SetupReturns
    <3>2. _finish_test("setup_failed", "fail", 1) \/ _finish_test("timed_out", "fail", 1)
      BY <1>5, <2>2 DEF SetupReturns
    <3>3. CASE _finish_test("setup_failed", "fail", 1)
      BY <1>2, <3>1, <3>3, FinishFacts DEF Go, TerminalPhases
    <3>4. CASE _finish_test("timed_out", "fail", 1)
      BY <1>2, <3>1, <3>4, FinishFacts DEF Go, TerminalPhases
    <3> QED
      BY <3>2, <3>3, <3>4
  <2> QED
    BY <2>1, <2>2
<1>6. ASSUME point = "workload", WorkloadReturns(code, clean)
      PROVE  /\ exit' = exit /\ \A t \in Tests \ {at} : tests'[t] = tests[t]
             /\ point' = "finish_write" /\ tests'[at].phase # "interrupted"
             /\ tests'[at].status \in {"pass", "fail"} /\ Outcome(tests'[at]) = tests'[at].status
             /\ tests'[at].status = "pass" => at \in returned'
  <2>1. Go("finish_write")
    BY <1>6 DEF WorkloadReturns
  <2> DEFINE s == IF code = 0 THEN "pass" ELSE "fail"
  <2>2. CASE clean
    <3>1. _finish_test("finished", s, code)
      BY <1>6, <2>2 DEF WorkloadReturns
    <3>2. /\ tests'[at].phase = "finished" /\ tests'[at].status = s /\ Outcome(tests'[at]) = s
          /\ \A t \in Tests \ {at} : tests'[t] = tests[t]
      BY <1>2, <3>1, FinishFacts DEF TerminalPhases
    <3>3. s = "pass" => at \in returned'
      BY <1>6, <2>2 DEF WorkloadReturns
    <3> QED
      BY <2>1, <3>2, <3>3 DEF Go
  <2>3. CASE ~clean
    <3>1. _finish_test("timed_out", "fail", 1)
      BY <1>6, <2>3 DEF WorkloadReturns
    <3> QED
      BY <1>2, <2>1, <3>1, FinishFacts DEF Go, TerminalPhases
  <2> QED
    BY <2>2, <2>3
<1>7. SetupReturns(code, clean) => point = "setup"
  BY DEF SetupReturns
<1>8. WorkloadReturns(code, clean) => point = "workload"
  BY DEF WorkloadReturns
<1>9. /\ exit' = exit /\ \A t \in Tests \ {at} : tests'[t] = tests[t]
      /\ point' \in {"running_write", "finish_write"} /\ tests'[at].phase # "interrupted"
      /\ StatesAt(b, d)'
  <2>1. b' = b /\ d' = Outcome(tests'[at])
    BY <1>1 DEF Outcome
  <2>2. CASE point = "setup" /\ SetupReturns(code, clean)
    <3>1. d' \in {"running", "fail"} /\ (d' = "running" <=> point' = "running_write")
          /\ point' \in {"running_write", "finish_write"}
      BY <1>5, <2>1, <2>2
    <3>2. b = "setup"
      BY <1>4, <2>2
    <3>3. StatesAt(b, d)'
      <4> HIDE DEF b, d
      <4> QED
        BY <2>1, <3>1, <3>2 DEF StatesAt, Between, Stopping, Steps, Recorded
    <3> QED
      BY <1>5, <2>2, <3>3
  <2>3. CASE point = "workload" /\ WorkloadReturns(code, clean)
    <3>1. d' \in {"pass", "fail"} /\ point' = "finish_write"
      BY <1>6, <2>1, <2>3
    <3>2. b = "running"
      BY <1>4, <2>3
    <3>3. StatesAt(b, d)'
      <4> HIDE DEF b, d
      <4> QED
        BY <2>1, <3>1, <3>2 DEF StatesAt, Between, Stopping, Steps, Recorded
    <3> QED
      BY <1>6, <2>3, <3>3
  <2> QED
    BY <1>7, <1>8, <2>2, <2>3
<1>10. tests'[at].status = "pass" => at \in returned'
  <2>1. CASE SetupReturns(code, clean)
    BY <1>1, <1>2, <1>5, <1>7, <2>1 DEF RunnerInv, EarnedInv
  <2>2. CASE WorkloadReturns(code, clean)
    BY <1>6, <1>8, <2>2
  <2> QED
    BY <2>1, <2>2
<1>11. StatesAt(Outcome(file.tests[at]), Outcome(tests[at]))'
  BY <1>9
<1>12. ~Ended' /\ point' # "stop_write"
  BY <1>9 DEF Ended
<1> QED
  BY <1>1, <1>2, <1>9, <1>10, <1>11, <1>12, RecordInv

LEMMA HandledInv ==
  ASSUME RunnerTypeOK, RunnerInv, handle_signal \/ Error
  PROVE  RunnerInv'
<1>1. CASE handle_signal
  <2>1. Raise(TRUE) /\ Seen /\ opened' = FALSE /\ UNCHANGED <<at, tests, file, launched, returned>>
    BY <1>1 DEF handle_signal, document
  <2>2. process' = "none" \/ process' = process
    BY <1>1 DEF handle_signal
  <2> QED
    BY <2>1, <2>2, RaiseInv
<1>2. CASE Error
  <2>1. Raise(FALSE) /\ opened' = FALSE /\ process' = "none" /\ UNCHANGED <<at, tests, file, launched, returned, seen>>
    BY <1>2 DEF Error, document, history
  <2> QED
    BY <2>1, RaiseInv
<1> QED
  BY <1>1, <1>2

LEMMA RunnerInitInv == RunnerInit => RunnerInv
<1> SUFFICES ASSUME RunnerInit PROVE RunnerInv
  OBVIOUS
<1>1. /\ point = "initial" /\ at = 0 /\ exit = None /\ process = "none" /\ seen = None
      /\ \A t \in Tests : tests[t] = NotStarted /\ file.tests[t] = NotStarted
  BY DEF RunnerInit
<1>2. ~opened /\ ~launched /\ ~file.whole
  BY Zenon DEF RunnerInit
<1>3. 0 \notin Tests /\ \A t \in Tests : t > 0 /\ ~(t < 0)
  BY RunnerBounds DEF Tests
<1>4. /\ NotStarted.phase = "pending" /\ NotStarted.status = "incomplete" /\ Outcome(NotStarted) = "pending"
  BY DEF NotStarted, Outcome
<1>5. PointInv
  BY <1>1, <1>2 DEF PointInv, Ended, Last
<1>6. OthersInv
  BY <1>1, <1>3, <1>4 DEF OthersInv, Between
<1>7. CurrentInv
  BY <1>1, <1>3 DEF CurrentInv
<1>8. SignalInv
  BY <1>1 DEF SignalInv, Signalled, Interrupting
<1>9. EarnedInv
  BY <1>1, <1>4 DEF EarnedInv
<1> QED
  BY <1>5, <1>6, <1>7, <1>8, <1>9 DEF RunnerInv

\* However far a test has come, whatever fails and whenever a signal arrives: the
\* document is at most one transition of one test ahead of the buffer (runner.py,
\* _execute_registry and _write_state).
THEOREM RunnerInvariance == RunnerSpec => [](RunnerTypeOK /\ RunnerInv)
<1>1. RunnerInit => RunnerTypeOK /\ RunnerInv
  BY RunnerInitTypeOK, RunnerInitInv
<1>2. RunnerTypeOK /\ RunnerInv /\ [RunnerNext]_runnerVars => (RunnerTypeOK /\ RunnerInv)'
  <2> SUFFICES ASSUME RunnerTypeOK, RunnerInv, [RunnerNext]_runnerVars PROVE RunnerTypeOK' /\ RunnerInv'
    OBVIOUS
  <2>1. PointInv
    BY DEF RunnerInv
  <2>2. CASE OpenBuffer \/ DumpBuffer
    BY <2>1, <2>2, BufferTypeOK, OpenInv, DumpInv
  <2>3. CASE Emit \/ NextTest \/ RegistryDone \/ Spawn \/ Register \/ FinishInHandler
    BY <2>3, TestTypeOK, EmitInv, NextTestInv, DoneInv, ProcessInv, FinishInHandlerInv
  <2>4. ASSUME NEW code \in 0..1, NEW clean \in BOOLEAN, SetupReturns(code, clean) \/ WorkloadReturns(code, clean)
        PROVE  RunnerTypeOK' /\ RunnerInv'
    BY <2>1, <2>4, ReturnTypeOK, ReturnInv
  <2>5. CASE handle_signal \/ Error \/ Kill \/ ClockStepsBack \/ UNCHANGED runnerVars
    BY <2>5, FaultTypeOK, HandledInv, StillInv
  <2> QED
    BY <2>2, <2>3, <2>4, <2>5 DEF RunnerNext
<1> QED
  BY <1>1, <1>2, PTL DEF RunnerSpec

\* The runner, its document and its buffer keep their types (runner.py, results.py).
THEOREM RunnerTypes == RunnerSpec => []RunnerTypeOK
  BY RunnerInvariance, PTL

\* A pass in the buffer is a test whose entrypoint returned zero in time and left
\* nothing behind, whatever failed since (runner.py, _run_one_test).
THEOREM PassesAreEarned == RunnerSpec => []PassIsEarned
<1>1. RunnerInv => PassIsEarned
  BY DEF RunnerInv, EarnedInv, PassIsEarned
<1> QED
  BY <1>1, RunnerInvariance, PTL

LEMMA ParsedIsOrdered ==
  ASSUME RunnerTypeOK, parse_validation_result_v2(tests, completed), AllTerminal(tests)
  PROVE  \A t \in Tests : tests[t].started <= tests[t].completed /\ tests[t].completed <= completed
<1>1. \A t \in Tests : tests[t].phase \in TerminalPhases
  BY DEF AllTerminal
<1>2. \A t \in Tests : tests[t].completed # None /\ tests[t].started <= tests[t].completed
  BY <1>1 DEF parse_validation_result_v2, parse_test
<1>3. \A t \in Tests : tests[t].completed <= completed
  BY <1>2 DEF parse_validation_result_v2
<1> QED
  BY <1>2, <1>3

\* Exit code zero needs the last write, and that a document whose tests are all
\* finished and in order (runner.py, run_validation_tests; results.py).
THEOREM ZeroIsFinal == RunnerSpec => []ExitZeroIsFinal
<1>1. RunnerInit => ExitZeroIsFinal
  BY Codes DEF RunnerInit, ExitZeroIsFinal
<1>2. ASSUME RunnerTypeOK, RunnerInv, ExitZeroIsFinal, [RunnerNext]_runnerVars
      PROVE  ExitZeroIsFinal'
  <2> SUFFICES ASSUME exit' = 0 PROVE ExitZeroIsFinal'
    BY DEF ExitZeroIsFinal
  <2>1. CASE exit = 0
    <3>1. Ended
      BY <1>2, <2>1, Codes DEF RunnerInv, PointInv
    <3>2. ClockStepsBack \/ UNCHANGED runnerVars
      BY <1>2, <3>1 DEF RunnerNext, OpenBuffer, DumpBuffer, Emit, NextTest, RegistryDone, Spawn, Register, SetupReturns,
        WorkloadReturns, FinishInHandler, handle_signal, Error, Kill, Ended, Writes, Running, RunnerInv, PointInv
    <3>3. UNCHANGED <<file, tests, completed, exit>>
      BY <3>2 DEF ClockStepsBack, runnerVars, control, document
    <3> QED
      BY <1>2, <3>3 DEF ExitZeroIsFinal
  <2>2. CASE exit # 0
    <3>1. DumpBuffer /\ point = "last_write" 
      <4>1. \A interrupt \in BOOLEAN : Raise(interrupt) => exit' \in {exit, 1, 130, Killed}
        BY DEF Raise, Go, Leave
      <4>2. OpenBuffer \/ Emit \/ NextTest \/ RegistryDone \/ Spawn \/ Register \/ FinishInHandler => exit' \in {exit, 1, 130, Killed}
        BY <4>1 DEF OpenBuffer, Emit, NextTest, RegistryDone, Spawn, Register, FinishInHandler, Go, control
      <4>3. ASSUME NEW code \in 0..1, NEW clean \in BOOLEAN, SetupReturns(code, clean) \/ WorkloadReturns(code, clean)
            PROVE  exit' = exit
        BY <4>3 DEF SetupReturns, WorkloadReturns, Go
      <4>4. handle_signal \/ Error \/ Kill \/ ClockStepsBack \/ UNCHANGED runnerVars => exit' \in {exit, 1, 130, Killed}
        BY <4>1 DEF handle_signal, Error, Kill, ClockStepsBack, runnerVars, control, Leave
      <4>5. DumpBuffer /\ point # "last_write" => exit' \in {exit, 130}
        BY DEF DumpBuffer, Leave, Go
      <4> QED
        BY <1>2, <2>2, <4>2, <4>3, <4>4, <4>5 DEF RunnerNext, Killed
    <3>2. /\ file' = [whole |-> TRUE, tests |-> tests, completed |-> completed]
          /\ tests' = tests /\ completed' = completed /\ opened
      BY <3>1, Zenon DEF DumpBuffer, document
    <3>3. parse_validation_result_v2(tests, completed)
      BY <1>2, <3>2 DEF RunnerInv, PointInv
    <3>4. \A t \in Tests : Outcome(tests[t]) \in {"pass", "fail"}
      <4>1. at \in Tests /\ at = LastTest
        BY <1>2, <3>1, AtIsTest DEF RunnerInv, PointInv, Last
      <4> DEFINE b == Outcome(file.tests[at])
                 d == Outcome(tests[at])
      <4>2. StatesAt(b, d)
        BY <1>2, <4>1 DEF RunnerInv, CurrentInv
      <4>3. d \in {"pass", "fail"}
        <5> HIDE DEF b, d
        <5> QED
          BY <3>1, <4>2 DEF StatesAt, Between, Stopping
      <4>4. \A t \in Tests : t < at => Outcome(tests[t]) \in {"pass", "fail"}
        BY <1>2 DEF RunnerInv, OthersInv
      <4>5. \A t \in Tests : t < at \/ t = at
        BY <4>1, RunnerBounds DEF Tests
      <4> QED
        BY <4>3, <4>4, <4>5
    <3>5. \A t \in Tests : tests[t].phase \in TerminalPhases \ {"interrupted"}
      <4> TAKE t \in Tests
      <4>1. tests[t] \in TestRecords
        BY <1>2 DEF RunnerTypeOK
      <4>2. tests[t].phase \in TerminalPhases /\ Outcome(tests[t]) = tests[t].status
        BY <3>4, <4>1, OutcomeIsTerminal
      <4> QED
        BY <1>2, <3>4, <4>2 DEF RunnerInv, OthersInv
    <3>6. \A t \in Tests : tests[t].started <= tests[t].completed /\ tests[t].completed <= completed
      BY <1>2, <3>3, <3>5, ParsedIsOrdered DEF AllTerminal
    <3> QED
      BY <3>2, <3>5, <3>6 DEF ExitZeroIsFinal
  <2> QED
    BY <2>1, <2>2
<1> QED
  BY <1>1, <1>2, RunnerInvariance, PTL DEF RunnerSpec

(***************************************************************************)
(* The child of RunPipeline.                                               *)
(***************************************************************************)
LEMMA LiveViews ==
  ASSUME ~Ended
  PROVE  /\ Supervisor = "runner" /\ ChildExit = 0
         /\ Child = IF Initialized THEN "testing" ELSE "preparing"
  BY DEF Supervisor, ChildExit, Child

LEMMA NextLiveViews ==
  ASSUME ~Ended'
  PROVE  /\ Supervisor' = "runner" /\ ChildExit' = 0
         /\ Child' = IF Initialized' THEN "testing" ELSE "preparing"
  BY DEF Supervisor, ChildExit, Child

LEMMA EndedViews ==
  ASSUME Ended'
  PROVE  /\ Supervisor' = IF Signalled' THEN "closing" ELSE "runner"
         /\ Child' = IF Signalled' THEN "none" ELSE "ended"
         /\ ChildExit' = IF ~Signalled' /\ exit' # 0 THEN 1 ELSE 0
         /\ Workload' = (process' # "none")
         /\ Buffer' = [whole |-> file'.whole, tests |-> View(file'.tests)]
<1>1. /\ Supervisor' = IF Signalled' THEN "closing" ELSE "runner"
      /\ Child' = IF Signalled' THEN "none" ELSE "ended"
      /\ ChildExit' = IF ~Signalled' /\ exit' # 0 THEN 1 ELSE 0
  BY DEF Supervisor, Child, ChildExit
<1>2. Workload' = (process' # "none")
  BY Zenon DEF Workload
<1>3. Buffer' = [whole |-> file'.whole, tests |-> View(file'.tests)]
  BY DEF Buffer, View, Outcome
<1> QED
  BY <1>1, <1>2, <1>3

\* Nothing that the supervisor sees changes.
LEMMA SameView ==
  ASSUME UNCHANGED <<Supervisor, Child, ChildExit, Workload, Buffer>>
  PROVE  UNCHANGED Pipeline!vars
  BY DEF Pipeline!vars, Pipeline!childVars, Pipeline!writer, Pipeline!verdict, Pipeline!evidence

LEMMA QuietStep ==
  ASSUME ~Ended, ~Ended', Initialized' = Initialized, Workload' = Workload, Buffer' = Buffer
  PROVE  UNCHANGED Pipeline!vars
<1>1. UNCHANGED <<Supervisor, Child, ChildExit>>
  BY LiveViews, NextLiveViews
<1> QED
  BY <1>1, SameView

LEMMA BufferOf ==
  ASSUME ~Ended
  PROVE  /\ Signalled => Initialized = seen.initialized /\ Workload = seen.launched
                         /\ Buffer = [whole |-> Initialized, tests |-> View(seen.file.tests)]
         /\ ~Signalled => Initialized = (point # "initial") /\ Workload = launched
                          /\ Buffer = [whole |-> Initialized, tests |-> View(file.tests)]
<1>1. ASSUME Signalled
      PROVE  /\ Initialized = seen.initialized /\ Workload = seen.launched
             /\ Buffer = [whole |-> Initialized, tests |-> View(seen.file.tests)]
  BY <1>1, Zenon DEF Initialized, Workload, Buffer
<1>2. ASSUME ~Signalled
      PROVE  /\ Initialized = (point # "initial") /\ Workload = launched
             /\ Buffer = [whole |-> Initialized, tests |-> View(file.tests)]
  BY <1>2, Zenon DEF Initialized, Workload, Buffer
<1> QED
  BY <1>1, <1>2

LEMMA NextBufferOf ==
  ASSUME ~Ended'
  PROVE  /\ Signalled' => Initialized' = seen'.initialized /\ Workload' = seen'.launched
                         /\ Buffer' = [whole |-> Initialized', tests |-> View(seen'.file.tests)]
         /\ ~Signalled' => Initialized' = (point' # "initial") /\ Workload' = launched'
                          /\ Buffer' = [whole |-> Initialized', tests |-> View(file'.tests)]
<1>0. View(seen.file.tests)' = View(seen'.file.tests) /\ View(file.tests)' = View(file'.tests)
  BY DEF View, Outcome
<1>1. ASSUME Signalled'
      PROVE  /\ Initialized' = seen'.initialized /\ Workload' = seen'.launched
             /\ Buffer' = [whole |-> Initialized', tests |-> View(seen'.file.tests)]
  BY <1>0, <1>1, Zenon DEF Initialized, Workload, Buffer
<1>2. ASSUME ~Signalled'
      PROVE  /\ Initialized' = (point' # "initial") /\ Workload' = launched'
             /\ Buffer' = [whole |-> Initialized', tests |-> View(file'.tests)]
  BY <1>0, <1>2, Zenon DEF Initialized, Workload, Buffer
<1> QED
  BY <1>1, <1>2

LEMMA SameOutcomes ==
  ASSUME NEW f, NEW g, \A t \in Tests : Outcome(f[t]) = Outcome(g[t])
  PROVE  View(f) = View(g)
  BY DEF View

LEMMA QuietUnsignalled ==
  ASSUME ~Ended, ~Ended', seen = None, seen' = None, launched' = launched,
         \A t \in Tests : Outcome(file'.tests[t]) = Outcome(file.tests[t]),
         point' = "initial" <=> point = "initial"
  PROVE  UNCHANGED Pipeline!vars
<1>1. ~Signalled /\ ~Signalled'
  BY DEF Signalled
<1>2. View(file'.tests) = View(file.tests)
  BY SameOutcomes
<1>3. (point' # "initial") = (point # "initial")
  OBVIOUS
<1>4. Initialized' = Initialized /\ Workload' = Workload
  BY <1>1, <1>3, BufferOf, NextBufferOf
<1>5. Buffer' = Buffer
  BY <1>1, <1>2, <1>4, BufferOf, NextBufferOf
<1> QED
  BY <1>4, <1>5, QuietStep

LEMMA QuietSignalled ==
  ASSUME ~Ended, ~Ended', seen # None, seen' = seen
  PROVE  UNCHANGED Pipeline!vars
<1>1. Signalled /\ Signalled'
  BY DEF Signalled
<1>2. Initialized' = Initialized /\ Workload' = Workload
  BY <1>1, BufferOf, NextBufferOf
<1>3. Buffer' = Buffer
  BY <1>1, <1>2, BufferOf, NextBufferOf
<1> QED
  BY <1>2, <1>3, QuietStep

LEMMA FirstSight ==
  ASSUME RunnerTypeOK, seen = None, Seen
  PROVE  /\ Signalled' /\ seen'.file = file /\ seen'.launched = launched
         /\ seen'.initialized = (point # "initial")
<1> DEFINE first == [file |-> file, launched |-> launched, initialized |-> point # "initial"]
<1>1. seen' = first
  BY Zenon DEF Seen
<1>2. first \in Observations
  BY SeenType, <1>1, Codes, Zenon DEF RunnerTypeOK, Observations
<1>3. first.file = file /\ first.launched = launched /\ first.initialized = (point # "initial")
  BY Zenon
<1> HIDE DEF first
<1>4. Signalled'
  BY <1>1, <1>2, Codes DEF Signalled
<1> QED
  BY <1>1, <1>3, <1>4

LEMMA QuietFirstSignal ==
  ASSUME RunnerTypeOK, ~Ended, ~Ended', seen = None, Seen
  PROVE  UNCHANGED Pipeline!vars
<1>1. ~Signalled /\ Signalled'
  BY FirstSight DEF Signalled
<1>2. Initialized' = Initialized /\ Workload' = Workload
  BY <1>1, FirstSight, BufferOf, NextBufferOf
<1>3. Buffer' = Buffer
  BY <1>1, <1>2, FirstSight, BufferOf, NextBufferOf
<1> QED
  BY <1>2, <1>3, QuietStep

\* The program ends without a signal: an error, or a kill while nothing runs.
LEMMA FailStep ==
  ASSUME RunnerTypeOK, ~Ended, Ended', seen = None, seen' = None, exit' # 0, process' = "none",
         file' = file, point = "initial" => ~file.whole
  PROVE  Pipeline!RunnerFails
<1>1. ~Signalled /\ ~Signalled'
  BY DEF Signalled
<1>2. /\ Supervisor' = Supervisor /\ Child \in {"preparing", "testing"} /\ Child' = "ended" /\ ChildExit' = 1
  BY <1>1, LiveViews, EndedViews
<1>3. Workload' = FALSE
  <2>1. (process' # "none") = FALSE
    OBVIOUS
  <2> QED
    BY <2>1, EndedViews
<1>4. \E whole \in {FALSE, Buffer.whole} : Buffer' = [Buffer EXCEPT !.whole = whole]
  <2>1. Buffer' = [whole |-> file.whole, tests |-> View(file.tests)]
    BY EndedViews
  <2>2. Buffer = [whole |-> Initialized, tests |-> View(file.tests)] /\ Initialized = (point # "initial")
    BY <1>1, BufferOf
  <2>3. Buffer' = [Buffer EXCEPT !.whole = file.whole]
    BY <2>1, <2>2
  <2>4. file.whole \in {FALSE, Initialized}
    <3>1. file.whole \in BOOLEAN
      BY DEF RunnerTypeOK, Documents
    <3>2. CASE point = "initial"
      <4>1. file.whole = FALSE
        BY <3>1, <3>2, Zenon
      <4> QED
        BY <4>1
    <3>3. CASE point # "initial"
      <4>1. Initialized = TRUE
        BY <2>2, <3>3
      <4> QED
        BY <3>1, <4>1, Zenon
    <3> QED
      BY <3>2, <3>3
  <2>5. Buffer.whole = Initialized
    BY <2>2
  <2> QED
    BY <2>3, <2>4, <2>5
<1> QED
  BY <1>2, <1>3, <1>4 DEF Pipeline!RunnerFails, Pipeline!RunnerPhases, Pipeline!writer, Pipeline!verdict, Pipeline!evidence

\* The program is killed while a setup or an entrypoint runs.
LEMMA CrashStep ==
  ASSUME RunnerTypeOK, ~Ended, Ended', seen = None, seen' = None, exit' # 0, process' # "none",
         file' = file, point # "initial", launched
  PROVE  Pipeline!RunnerCrashes
<1>1. ~Signalled /\ ~Signalled' /\ launched = TRUE
  BY DEF Signalled, RunnerTypeOK
<1>2. Initialized = TRUE
  <2>1. Initialized = (point # "initial")
    BY <1>1, BufferOf
  <2> QED
    BY <2>1
<1>3. Supervisor' = Supervisor /\ Child = "testing" /\ Child' = "ended" /\ ChildExit' = 1
  BY <1>1, <1>2, LiveViews, EndedViews
<1>4. Workload = TRUE /\ Workload' = TRUE
  <2>1. (process' # "none") = TRUE
    OBVIOUS
  <2>2. Workload' = TRUE
    BY <2>1, EndedViews
  <2>3. Workload = launched
    BY <1>1, BufferOf
  <2> QED
    BY <1>1, <2>2, <2>3
<1>5. \E whole \in {FALSE, Buffer.whole} : Buffer' = [Buffer EXCEPT !.whole = whole]
  <2>1. Buffer' = [whole |-> file.whole, tests |-> View(file.tests)]
    BY EndedViews
  <2>2. Buffer = [whole |-> Initialized, tests |-> View(file.tests)]
    BY <1>1, BufferOf
  <2>3. Buffer' = [Buffer EXCEPT !.whole = file.whole] /\ Buffer.whole = TRUE
    BY <1>2, <2>1, <2>2
  <2>4. file.whole \in {FALSE, TRUE}
    BY DEF RunnerTypeOK, Documents
  <2> QED
    BY <2>3, <2>4
<1> QED
  BY <1>3, <1>4, <1>5
  DEF Pipeline!RunnerCrashes, Pipeline!Testing, Pipeline!writer, Pipeline!verdict, Pipeline!evidence

LEMMA ViewType ==
  ASSUME NEW f \in [Tests -> TestRecords]
  PROVE  /\ View(f) \in [Tests -> {"pending", "setup", "running", "pass", "fail", "incomplete"}]
         /\ \A t \in Tests : View(f)[t] = Outcome(f[t])
<1>1. \A t \in Tests : Outcome(f[t]) \in {"pending", "setup", "running", "pass", "fail", "incomplete"}
  BY OutcomeType
<1> QED
  BY <1>1 DEF View

LEMMA ViewExcept ==
  ASSUME NEW f \in [Tests -> TestRecords], NEW g \in [Tests -> TestRecords], NEW t \in Tests,
         \A u \in Tests \ {t} : f[u] = g[u]
  PROVE  View(g) = [View(f) EXCEPT ![t] = Outcome(g[t])]
<1>1. \A u \in Tests : View(g)[u] = [View(f) EXCEPT ![t] = Outcome(g[t])][u]
  BY ViewType
<1> QED
  BY <1>1, ViewType

\* The current test of the runner is the one that RunPipeline is at.
LEMMA AtStep ==
  ASSUME RunnerTypeOK, RunnerInv, at \in Tests, NEW f \in [Tests -> TestRecords],
         \A t \in Tests \ {at} : f[t] = tests[t], Buffer.tests = View(f)
  PROVE  Pipeline!At(at)
<1>1. \A t \in Tests : Buffer.tests[t] = Outcome(f[t])
  BY ViewType
<1>2. \A t \in Tests : /\ t < at => Buffer.tests[t] \in {"pass", "fail"}
                       /\ t > at => Buffer.tests[t] = "pending"
  <2> TAKE t \in Tests
  <2>1. CASE t = at
    BY <2>1, AtIsTest
  <2>2. CASE t # at
    BY <1>1, <2>2 DEF RunnerInv, OthersInv
  <2> QED
    BY <2>1, <2>2
<1>3. ASSUME NEW t \in Tests, Buffer.tests[t] \in {"setup", "running"}
      PROVE  t = at
  <2>1. t \in Nat /\ at \in Nat
    BY DEF Tests
  <2>2. ~(t < at) /\ ~(t > at)
    BY <1>2, <1>3
  <2> QED
    BY <2>1, <2>2
<1>4. Pipeline!Active \subseteq {at}
  BY <1>3 DEF Pipeline!Active
<1> QED
  BY <1>2, <1>4 DEF Pipeline!At

\* An interrupted program ends: the supervisor stops waiting, with a buffer that
\* is at most one transition ahead of the one it knew.
LEMMA InterruptStep ==
  ASSUME RunnerTypeOK, RunnerInv, ~Ended, Ended', Signalled',
         NEW base \in [Tests -> TestRecords], Buffer = [whole |-> Initialized, tests |-> View(base)],
         NEW f \in [Tests -> TestRecords], file'.tests = f,
         \A t \in Tests : t # at => base[t] = tests[t] /\ f[t] = tests[t],
         at \in Tests => AtMostAStep(Outcome(base[at]), Outcome(f[at])),
         at \in Tests => Initialized = TRUE,
         file'.whole \in {FALSE, Initialized}, Workload' \in {FALSE, Workload}
  PROVE  Pipeline!Interrupt
<1>1. /\ Supervisor = "runner" /\ Supervisor' = "closing" /\ Child \in {"preparing", "testing"} /\ Child' = "none"
      /\ ChildExit' = ChildExit
  BY LiveViews, EndedViews
<1>2. /\ Buffer.tests = View(base) /\ Buffer.whole = Initialized
      /\ Buffer' = [whole |-> file'.whole, tests |-> View(f)]
  BY EndedViews
<1>3. View(f) \in {Buffer.tests} \cup (IF Child = "testing" THEN Pipeline!Ahead ELSE {})
  <2>1. CASE \A t \in Tests : Outcome(f[t]) = Outcome(base[t])
    BY <1>2, <2>1, SameOutcomes
  <2>2. CASE ~ \A t \in Tests : Outcome(f[t]) = Outcome(base[t])
    <3>1. at \in Tests /\ Outcome(f[at]) # Outcome(base[at])
      BY <2>2
    <3>2. <<Outcome(base[at]), Outcome(f[at])>> \in Steps
      BY <3>1 DEF AtMostAStep
    <3>3. Child = "testing"
      BY <3>1, LiveViews
    <3>4. Buffer.tests[at] = Outcome(base[at])
      BY <1>2, <3>1, ViewType
    <3>5. <<Buffer.tests[at], Outcome(f[at])>> \in Pipeline!Transitions
      BY <3>2, <3>4 DEF Steps, Recorded, Pipeline!Transitions
    <3>6. View(f) = [Buffer.tests EXCEPT ![at] = Outcome(f[at])]
      BY <1>2, <3>1, ViewExcept
    <3>7. Pipeline!At(at)
      BY <1>2, <3>1, AtStep
    <3>8. View(f) \in Pipeline!Results /\ Outcome(f[at]) \in Pipeline!TestStates
      BY <3>1, ViewType, OutcomeType DEF Pipeline!Results, Pipeline!TestStates
    <3>9. View(f) \in Pipeline!Ahead
      BY <3>1, <3>5, <3>6, <3>7, <3>8 DEF Pipeline!Ahead
    <3> QED
      BY <3>3, <3>9
  <2> QED
    BY <2>1, <2>2
<1>4. Pipeline!StopRunner
  BY <1>2, <1>3 DEF Pipeline!StopRunner
<1>5. Pipeline!Terminate
  BY <1>1, <1>4 DEF Pipeline!Terminate, Pipeline!RunnerPhases, Pipeline!writer
<1> QED
  BY <1>1, <1>5 DEF Pipeline!Interrupt, Pipeline!Supervised, Pipeline!verdict, Pipeline!evidence

LEMMA RecordedBuffer ==
  ASSUME NEW w, NEW f, NEW t, NEW outcome, NEW b, b = [whole |-> w, tests |-> f]
  PROVE  [b EXCEPT !.tests[t] = outcome] = [whole |-> w, tests |-> [f EXCEPT ![t] = outcome]]
  OBVIOUS

\* The document reaches the buffer.
LEMMA RecordStep ==
  ASSUME RunnerTypeOK, RunnerInv, DumpBuffer, ~Ended', seen = None, seen' = None, at \in Tests
  PROVE  /\ Child = "testing" /\ UNCHANGED <<Supervisor, Child, ChildExit>>
         /\ Pipeline!At(at) /\ Buffer.tests[at] = Outcome(file.tests[at])
         /\ Buffer' = [Buffer EXCEPT !.tests[at] = Outcome(tests[at])]
         /\ Workload = launched /\ Workload' = launched'
<1>1. point # "initial" /\ point' # "initial" /\ ~Ended /\ ~Signalled /\ ~Signalled'
  BY AtIsTest DEF RunnerInv, PointInv, DumpBuffer, Signalled, Ended, Writes, Go, Leave, After
<1>2. Initialized = TRUE /\ Initialized' = TRUE
  <2>1. Initialized = (point # "initial") /\ Initialized' = (point' # "initial")
    BY <1>1, BufferOf, NextBufferOf
  <2> QED
    BY <1>1, <2>1
<1>3. file'.tests = tests
  BY Zenon DEF DumpBuffer
<1> DEFINE w == Initialized
<1>4. /\ Buffer = [whole |-> w, tests |-> View(file.tests)] /\ Buffer' = [whole |-> w, tests |-> View(tests)]
      /\ Workload = launched /\ Workload' = launched'
  BY <1>1, <1>2, <1>3, BufferOf, NextBufferOf
<1> HIDE DEF w
<1>5. file.tests \in [Tests -> TestRecords] /\ tests \in [Tests -> TestRecords]
  BY DEF RunnerTypeOK, Documents
<1>6. \A t \in Tests \ {at} : file.tests[t] = tests[t]
  BY DEF RunnerInv, OthersInv
<1>7. View(tests) = [View(file.tests) EXCEPT ![at] = Outcome(tests[at])]
  BY <1>5, <1>6, ViewExcept
<1>8. Buffer' = [Buffer EXCEPT !.tests[at] = Outcome(tests[at])]
  <2>1. [Buffer EXCEPT !.tests[at] = Outcome(tests[at])]
          = [whole |-> w, tests |-> [View(file.tests) EXCEPT ![at] = Outcome(tests[at])]]
    BY <1>4, RecordedBuffer
  <2> QED
    BY <1>4, <1>7, <2>1
<1>9. Buffer.tests[at] = Outcome(file.tests[at])
  BY <1>4, <1>5, ViewType
<1>10. Pipeline!At(at)
  BY <1>4, <1>5, <1>6, AtStep
<1> QED
  BY <1>1, <1>2, <1>4, <1>8, <1>9, <1>10, LiveViews, NextLiveViews

LEMMA DumpFacts ==
  ASSUME RunnerTypeOK, RunnerInv, DumpBuffer
  PROVE  /\ point \in Writes /\ ~Ended /\ UNCHANGED <<at, tests, process, seen>>
         /\ file'.tests = tests /\ file'.whole = TRUE
         /\ launched' <=> launched /\ at \in Tests /\ tests[at].phase \notin TerminalPhases
         /\ point = "last_write" => Ended' /\ exit' = 0
         /\ point = "stopping_write" => Ended' /\ exit' = 130
         /\ point \notin {"last_write", "stopping_write"} => ~Ended' /\ point' = After(point)
<1>1. point \in Writes /\ UNCHANGED <<at, tests, process, seen>>
  BY DEF DumpBuffer, document, RunnerInv, PointInv
<1>2. file'.tests = tests /\ file'.whole = TRUE
  <2>1. file' = [whole |-> TRUE, tests |-> tests, completed |-> completed]
    BY Zenon DEF DumpBuffer
  <2> QED
    BY <2>1, Zenon
<1>3. launched' <=> launched /\ at \in Tests /\ tests[at].phase \notin TerminalPhases
  BY Zenon DEF DumpBuffer
<1>4. /\ point = "last_write" => Leave(0)
      /\ point = "stopping_write" => Leave(130)
      /\ point \notin {"last_write", "stopping_write"} => Go(After(point))
  BY DEF DumpBuffer
<1>5. point \notin {"last_write", "stopping_write"} => After(point) # "exited"
  BY <1>1 DEF Writes, After
<1> QED
  BY <1>1, <1>2, <1>3, <1>4, <1>5 DEF Ended, Leave, Go, Writes

LEMMA DumpStep ==
  ASSUME RunnerTypeOK, RunnerInv, DumpBuffer
  PROVE  Pipeline!RunnerStep \/ Pipeline!Interrupt \/ UNCHANGED Pipeline!vars
<1> DEFINE b == Outcome(file.tests[at])
           d == Outcome(tests[at])
<1>0. /\ file \in Documents /\ tests \in [Tests -> TestRecords] /\ file.tests \in [Tests -> TestRecords]
      /\ launched \in BOOLEAN
  BY DEF RunnerTypeOK, Documents
<1>1. at \in Tests => StatesAt(b, d) /\ tests[at] \in TestRecords
  BY <1>0 DEF RunnerInv, CurrentInv
<1>2. launched => at \in Tests /\ b \in {"setup", "running"}
  BY DEF RunnerInv, PointInv
<1>3. at \in Tests => (tests[at].phase \notin TerminalPhases <=> d \in {"pending", "setup", "running"})
  <2> SUFFICES ASSUME at \in Tests
               PROVE  tests[at].phase \notin TerminalPhases <=> d \in {"pending", "setup", "running"}
    OBVIOUS
  <2>1. tests[at] \in TestRecords
    BY <1>1
  <2>2. d \in {"pending", "setup", "running"} => tests[at].phase \notin TerminalPhases
    BY <2>1, OutcomeIsTerminal
  <2>3. tests[at].phase \notin TerminalPhases => tests[at].phase \in {"pending", "setup", "running"} /\ d = tests[at].phase
    BY <2>1, OutcomeIsTerminal DEF TestRecords, TestPhases
  <2> QED
    BY <2>2, <2>3
<1>4. CASE Signalled
  <2>1. point \in {"stop_write", "stopping_write"} /\ seen.initialized
    BY <1>4, DumpFacts DEF RunnerInv, SignalInv, Interrupting, Writes
  <2>2. CASE point = "stop_write"
    <3>1. ~Ended /\ ~Ended' /\ seen # None /\ seen' = seen
      BY <1>4, <2>2, DumpFacts DEF Signalled
    <3> QED
      BY <3>1, QuietSignalled
  <2>3. CASE point = "stopping_write"
    <3>1. /\ ~Ended /\ Ended' /\ Signalled' /\ file'.tests = tests /\ file'.whole = TRUE /\ process' = process
      BY <1>4, <2>3, DumpFacts DEF Signalled
    <3> DEFINE base == seen.file.tests
    <3>2. base \in [Tests -> TestRecords] /\ seen.initialized \in BOOLEAN /\ seen.launched \in BOOLEAN
      BY <1>4 DEF RunnerTypeOK, Signalled, Observations, Documents
    <3>3. Buffer = [whole |-> Initialized, tests |-> View(base)] /\ Initialized = seen.initialized /\ Workload = seen.launched
      BY <1>4, <3>1, BufferOf
    <3>4. Initialized = TRUE
      BY <2>1, <3>2, <3>3
    <3>5. \A t \in Tests : t # at => base[t] = tests[t] /\ tests[t] = tests[t]
      BY <1>4, <3>1 DEF RunnerInv, SignalInv, OthersInv
    <3>6. at \in Tests => AtMostAStep(Outcome(base[at]), Outcome(tests[at]))
      BY <1>4, <3>1 DEF RunnerInv, SignalInv
    <3>7. Workload' \in {FALSE, Workload}
      <4>1. CASE process = "none"
        <5>1. (process' # "none") = FALSE
          BY <3>1, <4>1
        <5> QED
          BY <3>1, <5>1, EndedViews
      <4>2. CASE process # "none"
        <5>1. seen.launched
          BY <2>3, <4>2, <3>1 DEF RunnerInv, PointInv, Running
        <5>2. seen.launched = TRUE /\ (process' # "none") = TRUE
          BY <3>1, <3>2, <4>2, <5>1
        <5> QED
          BY <3>1, <3>3, <5>2, EndedViews
      <4> QED
        BY <4>1, <4>2
    <3> HIDE DEF base
    <3>8. file'.whole \in {FALSE, Initialized}
      BY <3>1, <3>4
    <3> QED
      BY <1>0, <3>1, <3>2, <3>3, <3>4, <3>5, <3>6, <3>7, <3>8, InterruptStep
  <2> QED
    BY <2>1, <2>2, <2>3
<1>5. CASE ~Signalled
  <2>1. /\ seen = None /\ seen' = None /\ ~Ended /\ ~Signalled'
        /\ point \in {"initial", "setup_write", "running_write", "finish_write", "error_write", "final_write", "last_write"}
    BY <1>5, DumpFacts DEF RunnerInv, SignalInv, Signalled, Interrupting, Writes
  <2>2. CASE point = "initial"
    <3>1. at = 0 /\ at \notin Tests /\ ~launched /\ ~launched' /\ point' = "started" /\ ~Ended'
      BY <1>2, <2>2, DumpFacts, AtIsTest DEF RunnerInv, PointInv, After
    <3>2. \A t \in Tests : Outcome(tests[t]) = "pending"
      BY <3>1, AtIsTest DEF RunnerInv, OthersInv, Tests
    <3>3. View(tests) = Pipeline!AllPending
      BY <3>2 DEF View, Pipeline!AllPending
    <3>4. Initialized = FALSE /\ Initialized' = TRUE
      <4>1. Initialized = (point # "initial") /\ Initialized' = (point' # "initial")
        BY <1>5, <2>1, <3>1, BufferOf, NextBufferOf
      <4> QED
        BY <2>2, <3>1, <4>1
    <3>5. Child = "preparing" /\ Child' = "testing" /\ UNCHANGED <<Supervisor, ChildExit>>
      BY <2>1, <3>1, <3>4, LiveViews, NextLiveViews
    <3>6. Buffer' = [whole |-> TRUE, tests |-> Pipeline!AllPending]
      BY <2>1, <3>1, <3>3, <3>4, NextBufferOf, DumpFacts
    <3>7. Workload' = Workload
      <4>1. launched' = launched
        BY <3>1, <1>0, Zenon DEF DumpBuffer
      <4> QED
        BY <1>5, <2>1, <3>1, <4>1, BufferOf, NextBufferOf
    <3> QED
      BY <3>5, <3>6, <3>7 DEF Pipeline!RunnerStep, Pipeline!RunnerStarts, Pipeline!writer, Pipeline!verdict, Pipeline!evidence
  <2>3. CASE point \in {"setup_write", "running_write", "finish_write", "error_write"}
    <3>1. at \in Tests /\ ~Ended'
      BY <2>3, AtIsTest, DumpFacts DEF RunnerInv, PointInv
    <3>2. /\ Child = "testing" /\ UNCHANGED <<Supervisor, Child, ChildExit>>
          /\ Pipeline!At(at) /\ Buffer.tests[at] = b /\ Buffer' = [Buffer EXCEPT !.tests[at] = d]
          /\ Workload = launched /\ Workload' = launched'
      BY <2>1, <3>1, RecordStep
    <3>3. Pipeline!Record(at, d)
      BY <3>2 DEF Pipeline!Record
    <3>4. StatesAt(b, d)
      BY <1>1, <3>1
    <3>5. launched' <=> launched /\ d \in {"pending", "setup", "running"}
      BY <1>3, <3>1, DumpFacts
    <3>6. point = "running_write" => launched
      BY DEF RunnerInv, PointInv
    <3> HIDE DEF b, d
    <3>7. launched' = launched \/ launched' = FALSE
      BY <1>0, <3>5, Zenon DEF DumpBuffer
    <3>8. CASE point = "setup_write"
      <4>1. b = "pending" /\ d = "setup"
        BY <3>4, <3>8 DEF StatesAt, Between, Stopping
      <4>2. ~launched
        BY <1>2, <4>1
      <4>3. launched' = launched
        BY <1>0, <3>7, <4>2, Zenon
      <4>4. Pipeline!StartTest(at)
        BY <3>2, <3>3, <4>1, <4>3
        DEF Pipeline!StartTest, Pipeline!Testing, Pipeline!childVars, Pipeline!writer, Pipeline!verdict, Pipeline!evidence
      <4> QED
        BY <3>1, <4>4 DEF Pipeline!RunnerStep
    <3>9. CASE point = "running_write"
      <4>1. b = "setup" /\ d = "running"
        BY <3>4, <3>9 DEF StatesAt, Between, Stopping
      <4>2. launched /\ launched'
        BY <3>5, <3>6, <3>9, <4>1
      <4>3. launched' = launched
        BY <3>7, <4>2, Zenon
      <4>4. Workload
        BY <3>2, <4>2, Zenon
      <4>5. Pipeline!StartWorkload(at)
        BY <3>2, <3>3, <4>1, <4>3, <4>4
        DEF Pipeline!StartWorkload, Pipeline!Testing, Pipeline!childVars, Pipeline!writer, Pipeline!verdict, Pipeline!evidence
      <4> QED
        BY <3>1, <4>5 DEF Pipeline!RunnerStep
    <3>10. CASE point \in {"finish_write", "error_write"}
      <4>1. b # "pending" /\ d \in {"pass", "fail"} /\ (d = "pass" => b = "running")
        BY <3>4, <3>10 DEF StatesAt, Between, Stopping, Steps, Recorded
      <4>2. ~launched'
        BY <3>5, <4>1
      <4>3. launched' = FALSE
        BY <1>0, <3>7, <4>2, Zenon
      <4>4. Pipeline!FinishTest(at, d)
        BY <3>2, <3>3, <4>1, <4>3
        DEF Pipeline!FinishTest, Pipeline!Testing, Pipeline!writer, Pipeline!verdict, Pipeline!evidence
      <4> QED
        BY <3>1, <4>1, <4>4 DEF Pipeline!RunnerStep
    <3> QED
      BY <2>3, <3>8, <3>9, <3>10
  <2>4. CASE point \in {"final_write", "last_write"}
    <3>1. at \in Tests /\ at = LastTest /\ point # "initial"
      BY <2>4, AtIsTest DEF RunnerInv, PointInv, Last
    <3>2. StatesAt(b, d)
      BY <1>1, <3>1
    <3>3. \A t \in Tests : file.tests[t] = tests[t]
      BY <2>4 DEF RunnerInv, OthersInv, Between
    <3>4. b = d /\ d \in {"pass", "fail"}
      <4> HIDE DEF b, d
      <4> QED
        BY <2>4, <3>2 DEF StatesAt, Between, Stopping
    <3>5. ~launched /\ ~launched'
      BY <1>2, <3>4, DumpFacts
    <3>6. launched = FALSE /\ launched' = FALSE
      <4>1. launched' \in BOOLEAN
        BY Zenon DEF DumpBuffer
      <4> QED
        BY <1>0, <3>5, <4>1, Zenon
    <3>7. CASE point = "final_write"
      <4>1. point' = "final_emit" /\ ~Ended'
        BY <3>7, DumpFacts DEF After
      <4>2. launched' = launched
        BY <3>6, Zenon
      <4>3. \A t \in Tests : Outcome(file'.tests[t]) = Outcome(file.tests[t])
        BY <3>3, DumpFacts
      <4> QED
        BY <2>1, <3>1, <4>1, <4>2, <4>3, QuietUnsignalled
    <3>8. CASE point = "last_write"
      <4>1. Ended' /\ exit' = 0 /\ process = "none" /\ process' = "none"
        BY <1>5, <2>1, <3>8, DumpFacts DEF RunnerInv, PointInv, Running
      <4>2. Initialized = TRUE /\ Workload = FALSE /\ Buffer = [whole |-> TRUE, tests |-> View(file.tests)]
        <5>1. /\ Initialized = (point # "initial") /\ Workload = launched
              /\ Buffer = [whole |-> Initialized, tests |-> View(file.tests)]
          BY <1>5, <2>1, BufferOf
        <5>2. Initialized = TRUE
          BY <3>1, <5>1
        <5> QED
          BY <3>6, <5>1, <5>2
      <4>3. Workload' = FALSE /\ Buffer' = [whole |-> TRUE, tests |-> View(tests)]
        <5>1. (process' # "none") = FALSE
          BY <4>1
        <5> QED
          BY <4>1, <5>1, EndedViews, DumpFacts
      <4>4. View(tests) = View(file.tests)
        BY <3>3, SameOutcomes
      <4>5. \A t \in Tests : Buffer.tests[t] \in {"pass", "fail"}
        <5>1. \A t \in Tests : t < at \/ t = at
          BY <3>1, RunnerBounds DEF Tests
        <5>2. \A t \in Tests : Outcome(tests[t]) \in {"pass", "fail"}
          BY <3>4, <5>1 DEF RunnerInv, OthersInv
        <5>3. \A t \in Tests : Buffer.tests[t] = Outcome(file.tests[t])
          BY <1>0, <4>2, ViewType
        <5> QED
          BY <3>3, <5>2, <5>3
      <4>6. Child = "testing" /\ Child' = "ended" /\ ChildExit' = 0 /\ Supervisor' = Supervisor
        BY <2>1, <4>1, <4>2, LiveViews, EndedViews
      <4>7. Workload' = Workload /\ Buffer' = Buffer
        BY <4>2, <4>3, <4>4
      <4> QED
        BY <4>5, <4>6, <4>7
        DEF Pipeline!RunnerStep, Pipeline!RunnerFinishes, Pipeline!Testing, Pipeline!writer, Pipeline!verdict, Pipeline!evidence
    <3> QED
      BY <2>4, <3>7, <3>8
  <2> QED
    BY <2>1, <2>2, <2>3, <2>4
<1> QED
  BY <1>4, <1>5

\* A statement that touches neither the buffer nor a process.
LEMMA LiveStep ==
  ASSUME ~Ended, ~Ended', seen' = seen, launched' = launched, file'.tests = file.tests,
         point' = "initial" <=> point = "initial"
  PROVE  UNCHANGED Pipeline!vars
<1>1. CASE seen = None
  BY <1>1, QuietUnsignalled
<1>2. CASE seen # None
  BY <1>2, QuietSignalled
<1> QED
  BY <1>1, <1>2

LEMMA SignalledEnd ==
  ASSUME RunnerTypeOK, RunnerInv, ~Ended, Ended', seen # None, seen' = seen,
         process' \in {"none", process}, file' = file
  PROVE  Pipeline!Interrupt
<1>1. Signalled /\ Signalled'
  BY DEF Signalled
<1> DEFINE base == seen.file.tests
           f == file.tests
<1>2. /\ base \in [Tests -> TestRecords] /\ f \in [Tests -> TestRecords]
      /\ seen.initialized \in BOOLEAN /\ seen.launched \in BOOLEAN /\ file.whole \in BOOLEAN
  BY DEF RunnerTypeOK, Observations, Documents
<1>3. /\ Buffer = [whole |-> Initialized, tests |-> View(base)]
      /\ Initialized = seen.initialized /\ Workload = seen.launched
  BY <1>1, BufferOf
<1>4. Initialized = TRUE
  <2>1. seen.initialized
    BY <1>1 DEF RunnerInv, SignalInv
  <2> QED
    BY <1>2, <1>3, <2>1
<1>5. \A t \in Tests : t # at => base[t] = tests[t] /\ f[t] = tests[t]
  BY <1>1 DEF RunnerInv, SignalInv, OthersInv
<1>6. at \in Tests => AtMostAStep(Outcome(base[at]), Outcome(f[at]))
  BY <1>1 DEF RunnerInv, SignalInv
<1>7. Workload' \in {FALSE, Workload}
  <2>1. CASE process' = "none"
    <3>1. (process' # "none") = FALSE
      BY <2>1
    <3> QED
      BY <3>1, EndedViews
  <2>2. CASE process' # "none"
    <3>1. seen.launched
      BY <1>1, <2>2 DEF RunnerInv, PointInv, SignalInv, Running, Interrupting
    <3>2. seen.launched = TRUE /\ (process' # "none") = TRUE
      BY <1>2, <2>2, <3>1
    <3> QED
      BY <1>3, <3>2, EndedViews
  <2> QED
    BY <2>1, <2>2
<1>8. file'.tests = f /\ file'.whole \in {FALSE, Initialized}
  BY <1>2, <1>4
<1> HIDE DEF base, f
<1> QED
  BY <1>1, <1>2, <1>3, <1>4, <1>5, <1>6, <1>7, <1>8, InterruptStep

\* An error, or a kill, ends the program where the buffer is.
LEMMA EndStep ==
  ASSUME RunnerTypeOK, RunnerInv, ~Ended, Ended', seen' = seen, exit' # 0,
         process' \in {"none", process}, file' = file
  PROVE  Pipeline!RunnerStep \/ Pipeline!Interrupt
<1>1. CASE seen # None
  BY <1>1, SignalledEnd
<1>2. CASE seen = None /\ process' = "none"
  <2>1. point = "initial" => ~file.whole
    BY DEF RunnerInv, PointInv
  <2> QED
    BY <1>2, <2>1, FailStep DEF Pipeline!RunnerStep
<1>3. CASE seen = None /\ process' # "none"
  <2>1. point # "initial" /\ launched
    BY <1>3 DEF RunnerInv, PointInv, Running, Signalled
  <2> QED
    BY <1>3, <2>1, CrashStep DEF Pipeline!RunnerStep
<1> QED
  BY <1>1, <1>2, <1>3

LEMMA OpenStep ==
  ASSUME RunnerTypeOK, RunnerInv, OpenBuffer
  PROVE  Pipeline!RunnerStep \/ Pipeline!Interrupt \/ UNCHANGED Pipeline!vars
<1>1. /\ point \in Writes /\ process' = process /\ seen' = seen /\ launched' = launched
      /\ \/ file' = [file EXCEPT !.whole = FALSE] /\ UNCHANGED point
         \/ file' = file /\ Raise(FALSE)
  BY DEF OpenBuffer, history
<1>2. ~Ended
  BY <1>1 DEF Ended, Writes
<1>3. CASE file' = [file EXCEPT !.whole = FALSE] /\ UNCHANGED point
  <2>1. file'.tests = file.tests
    BY <1>3 DEF RunnerTypeOK, Documents
  <2> QED
    BY <1>1, <1>2, <1>3, <2>1, LiveStep DEF Ended
<1>4. CASE file' = file /\ Raise(FALSE)
  <2>1. \/ point \in Guarded /\ point' = "error_finish"
        \/ point' = "exited" /\ exit' \in {1, 130, Killed}
    BY <1>4, Raised
  <2>2. CASE point \in Guarded /\ point' = "error_finish"
    BY <1>1, <1>2, <1>4, <2>2, LiveStep DEF Ended, Guarded
  <2>3. CASE point' = "exited" /\ exit' \in {1, 130, Killed}
    BY <1>1, <1>2, <1>4, <2>3, EndStep DEF Ended, Killed
  <2> QED
    BY <2>1, <2>2, <2>3
<1> QED
  BY <1>1, <1>3, <1>4

LEMMA StatementStep ==
  ASSUME RunnerInv, Emit \/ NextTest \/ RegistryDone \/ Register \/ FinishInHandler
  PROVE  UNCHANGED Pipeline!vars
<1>1. /\ seen' = seen /\ launched' = launched /\ file' = file
      /\ point \in {"started", "setup_emit", "running_emit", "finish_emit", "error_emit", "stop_emit",
                    "stopping", "final_emit", "next", "setup", "workload", "error_finish", "stop_finish"}
      /\ point' \in {"next", "setup", "workload", "stopping", "stopping_write", "last_write", "setup_write",
                     "final_write", "error_write", "stop_write"}
  BY DEF Emit, NextTest, RegistryDone, Register, FinishInHandler, Go, Running, history, control
<1> QED
  BY <1>1, LiveStep DEF Ended

LEMMA ReturnStep ==
  ASSUME NEW code, NEW clean, SetupReturns(code, clean) \/ WorkloadReturns(code, clean)
  PROVE  UNCHANGED Pipeline!vars
<1>1. /\ seen' = seen /\ launched' = launched /\ file' = file
      /\ point \in {"setup", "workload"} /\ point' \in {"running_write", "finish_write"}
  BY DEF SetupReturns, WorkloadReturns, Go, history
<1> QED
  BY <1>1, LiveStep DEF Ended

LEMMA SpawnStep ==
  ASSUME RunnerTypeOK, RunnerInv, Spawn
  PROVE  Pipeline!RunnerStep \/ UNCHANGED Pipeline!vars
<1>1. /\ point \in Running /\ launched' = TRUE /\ UNCHANGED <<point, at, tests, file, seen>>
  BY DEF Spawn, control, document
<1>2. ~Ended /\ ~Ended' /\ launched \in BOOLEAN
  BY <1>1 DEF Ended, Running, RunnerTypeOK
<1>3. CASE seen # None
  BY <1>1, <1>2, <1>3, QuietSignalled
<1>4. CASE seen = None /\ launched
  <2>1. launched' = launched
    BY <1>1, <1>2, <1>4, Zenon
  <2> QED
    BY <1>1, <1>2, <1>4, <2>1, LiveStep
<1>5. CASE seen = None /\ ~launched
  <2>1. point = "setup" /\ at \in Tests /\ ~Signalled /\ ~Signalled'
    BY <1>1, <1>5, AtIsTest DEF RunnerInv, PointInv, Running, Signalled
  <2> DEFINE b == Outcome(file.tests[at])
             d == Outcome(tests[at])
  <2>2. b = "setup"
    <3>1. StatesAt(b, d)
      BY <2>1 DEF RunnerInv, CurrentInv
    <3> HIDE DEF b, d
    <3> QED
      BY <2>1, <3>1 DEF StatesAt, Between, Stopping
  <2>3. /\ Initialized = (point # "initial") /\ Initialized' = (point' # "initial")
        /\ Workload = launched /\ Workload' = launched'
        /\ Buffer = [whole |-> Initialized, tests |-> View(file.tests)]
        /\ Buffer' = [whole |-> Initialized', tests |-> View(file'.tests)]
    BY <1>2, <2>1, BufferOf, NextBufferOf
  <2>4. Initialized = TRUE /\ Initialized' = TRUE
    BY <1>1, <2>1, <2>3
  <2>5. Buffer' = Buffer
    BY <1>1, <2>3, <2>4
  <2>6. file.tests \in [Tests -> TestRecords]
    BY DEF RunnerTypeOK, Documents
  <2>7. Buffer.tests[at] = "setup"
    BY <2>1, <2>2, <2>3, <2>6, ViewType
  <2>8. ~Workload /\ Workload' = TRUE
    BY <1>1, <1>5, <2>3, Zenon
  <2>9. Child = "testing" /\ UNCHANGED <<Supervisor, Child, ChildExit>>
    BY <1>2, <2>4, LiveViews, NextLiveViews
  <2>10. Pipeline!LaunchSetup(at)
    BY <2>5, <2>7, <2>8, <2>9
    DEF Pipeline!LaunchSetup, Pipeline!Testing, Pipeline!writer, Pipeline!verdict, Pipeline!evidence
  <2> QED
    BY <2>1, <2>10 DEF Pipeline!RunnerStep
<1> QED
  BY <1>3, <1>4, <1>5

LEMMA SignalStep ==
  ASSUME RunnerTypeOK, RunnerInv, handle_signal
  PROVE  Pipeline!Interrupt \/ UNCHANGED Pipeline!vars
<1>1. /\ point # "exited" /\ Seen /\ Raise(TRUE) /\ UNCHANGED <<at, tests, file, launched>>
      /\ process' = IF process = "active" /\ point \in Handled THEN "none" ELSE process
  BY DEF handle_signal, document
<1>2. ~Ended /\ process' \in {"none", process}
  BY <1>1 DEF Ended
<1>3. CASE ~Ended' /\ seen = None
  BY <1>1, <1>2, <1>3, QuietFirstSignal
<1>4. CASE ~Ended' /\ seen # None
  <2>1. seen' = seen
    BY <1>1, <1>4 DEF Seen
  <2> QED
    BY <1>2, <1>4, <2>1, QuietSignalled
<1>5. CASE Ended' /\ seen # None
  <2>1. seen' = seen
    BY <1>1, <1>5 DEF Seen
  <2> QED
    BY <1>1, <1>2, <1>5, <2>1, SignalledEnd
<1>6. CASE Ended' /\ seen = None
  <2>1. ~Signalled /\ Signalled'
    BY <1>1, <1>6, FirstSight DEF Signalled
  <2>2. point \in Unhandled
    <3>1. point \in Stopping \cup Unhandled
      BY <1>1, <1>6, Raised DEF Ended
    <3>2. point \notin Stopping
      BY <1>2, <2>1 DEF RunnerInv, SignalInv, Stopping, Interrupting
    <3> QED
      BY <3>1, <3>2
  <2>3. process = "none" /\ process' = "none"
    BY <1>2, <2>1, <2>2 DEF RunnerInv, PointInv, Unhandled, Running
  <2> DEFINE f == file.tests
  <2>4. f \in [Tests -> TestRecords] /\ file.whole \in BOOLEAN
    BY DEF RunnerTypeOK, Documents
  <2>5. Initialized = (point # "initial") /\ Buffer = [whole |-> Initialized, tests |-> View(f)]
    BY <1>2, <2>1, BufferOf
  <2>6. \A t \in Tests : t # at => f[t] = tests[t] /\ f[t] = tests[t]
    BY DEF RunnerInv, OthersInv
  <2>7. at \in Tests => AtMostAStep(Outcome(f[at]), Outcome(f[at])) /\ Initialized = TRUE
    BY <2>5, AtIsTest DEF RunnerInv, PointInv, AtMostAStep
  <2>8. file'.tests = f /\ file'.whole \in {FALSE, Initialized}
    <3>1. file' = file
      BY <1>1
    <3>2. CASE point = "initial"
      <4>1. ~file.whole
        BY <3>2 DEF RunnerInv, PointInv
      <4>2. file.whole = FALSE
        BY <2>4, <4>1, Zenon
      <4> QED
        BY <3>1, <4>2
    <3>3. CASE point # "initial"
      <4>1. Initialized = TRUE
        BY <2>5, <3>3
      <4> QED
        BY <2>4, <3>1, <4>1
    <3> QED
      BY <3>2, <3>3
  <2>9. Workload' \in {FALSE, Workload}
    <3>1. (process' # "none") = FALSE
      BY <2>3
    <3> QED
      BY <1>6, <3>1, EndedViews
  <2> HIDE DEF f
  <2> QED
    BY <1>2, <1>6, <2>1, <2>4, <2>5, <2>6, <2>7, <2>8, <2>9, InterruptStep
<1> QED
  BY <1>3, <1>4, <1>5, <1>6

LEMMA FaultStep ==
  ASSUME RunnerTypeOK, RunnerInv, Error \/ Kill
  PROVE  Pipeline!RunnerStep \/ Pipeline!Interrupt \/ UNCHANGED Pipeline!vars
<1>1. /\ point # "exited" /\ UNCHANGED <<file, launched, seen>> /\ process' \in {"none", process}
      /\ (Leave(Killed) \/ Raise(FALSE))
  BY DEF Error, Kill, history
<1>2. ~Ended
  BY <1>1 DEF Ended
<1>3. \/ point \in Guarded /\ point' = "error_finish"
      \/ point' = "exited" /\ exit' \in {1, 130, Killed}
  BY <1>1, Raised DEF Leave
<1>4. CASE point \in Guarded /\ point' = "error_finish"
  BY <1>1, <1>2, <1>4, LiveStep DEF Ended, Guarded
<1>5. CASE point' = "exited" /\ exit' \in {1, 130, Killed}
  BY <1>1, <1>2, <1>5, EndStep DEF Ended, Killed
<1> QED
  BY <1>3, <1>4, <1>5

LEMMA IdleStep ==
  ASSUME UNCHANGED <<point, exit, file, process, launched, seen>>
  PROVE  UNCHANGED Pipeline!vars
<1>1. UNCHANGED <<Ended, Signalled>>
  BY DEF Ended, Signalled
<1>2. UNCHANGED <<Supervisor, ChildExit, Initialized>>
  BY <1>1 DEF Supervisor, ChildExit, Initialized
<1>3. UNCHANGED Child
  BY <1>1, <1>2 DEF Child
<1>4. UNCHANGED <<View(file.tests), View(seen.file.tests)>>
  BY DEF View, Outcome
<1>5. UNCHANGED Workload
  BY <1>1, Zenon DEF Workload
<1>6. UNCHANGED Buffer
  BY <1>1, <1>2, <1>4 DEF Buffer
<1> QED
  BY <1>2, <1>3, <1>5, <1>6, SameView

\* Every step of the program, and its end by an error, a kill or a signal, is one
\* that RunPipeline gives the supervisor's child (runner.py, supervisor.py).
THEOREM RunnerIsChild == RunnerSpec => RunsAsChild
<1>1. ASSUME RunnerTypeOK, RunnerInv, [RunnerNext]_runnerVars
      PROVE  [Pipeline!RunnerStep \/ Pipeline!Interrupt]_Pipeline!vars
  <2>1. CASE OpenBuffer
    BY <1>1, <2>1, OpenStep
  <2>2. CASE DumpBuffer
    BY <1>1, <2>2, DumpStep
  <2>3. CASE Emit \/ NextTest \/ RegistryDone \/ Register \/ FinishInHandler
    BY <1>1, <2>3, StatementStep
  <2>4. CASE Spawn
    BY <1>1, <2>4, SpawnStep
  <2>5. ASSUME NEW code \in 0..1, NEW clean \in BOOLEAN, SetupReturns(code, clean) \/ WorkloadReturns(code, clean)
        PROVE  UNCHANGED Pipeline!vars
    BY <2>5, ReturnStep
  <2>6. CASE handle_signal
    BY <1>1, <2>6, SignalStep
  <2>7. CASE Error \/ Kill
    BY <1>1, <2>7, FaultStep
  <2>8. CASE ClockStepsBack \/ UNCHANGED runnerVars
    <3>1. UNCHANGED <<point, exit, file, process, launched, seen>>
      BY <2>8 DEF ClockStepsBack, runnerVars, control, history
    <3> QED
      BY <3>1, IdleStep
  <2> QED
    BY <1>1, <2>1, <2>2, <2>3, <2>4, <2>5, <2>6, <2>7, <2>8 DEF RunnerNext
<1> QED
  BY <1>1, RunnerInvariance, PTL DEF RunnerSpec, RunsAsChild

=============================================================================

--------------------------- MODULE AdmissionProofs ---------------------------
(***************************************************************************)
(* Machine-checked proofs about Admission, for any sets of jobs, nodes and *)
(* processes, any budget and cooldown and any combination of faults.       *)
(***************************************************************************)
EXTENDS AdmissionReservation, FiniteSetTheorems, TLAPS

(***************************************************************************)
(* What the helpers return.                                                *)
(***************************************************************************)

\* Appending an event keeps an intent well-formed and makes its state the last one.
LEMMA LoggedType ==
  ASSUME NEW i \in Intents, NEW e \in Event
  PROVE  Logged(i, e) \in Intents /\ Logged(i, e).last = e.state
BY DEF Logged, Intents, Event

\* The projection of jobs.csv yields a phase or no row.
LEMMA ProjectionType ==
  ASSUME NEW ledger \in [Jobs -> Intents]
  PROVE  project_submission_jobs(ledger) \in [Jobs -> Phases \cup {"no row"}]
BY DEF project_submission_jobs, Row, Intents

\* A write, complete or failing half-way, touches one intent only, and either leaves
\* it or appends the event to it.
LEMMA RetainEffect ==
  ASSUME TypeOK, NEW j \in Jobs, NEW e \in Event, Retain(j, e) \/ RetainFails(j, e)
  PROVE  /\ intents' \in [Jobs -> Intents]
         /\ csv' \in [Jobs -> Phases \cup {"no row"}]
         /\ \A k \in Jobs \ {j} : intents'[k] = intents[k]
         /\ intents'[j].last \in {intents[j].last, e.state}
<1>1. Logged(intents[j], e) \in Intents /\ Logged(intents[j], e).last = e.state
  BY LoggedType DEF TypeOK
<1>2. \/ intents' = intents
      \/ intents' = [intents EXCEPT ![j] = Logged(intents[j], e)]
  BY DEF Retain, RetainFails, AppendEvent, durable
<1>3. intents' \in [Jobs -> Intents]
  BY <1>1, <1>2 DEF TypeOK
<1>4. csv' \in [Jobs -> Phases \cup {"no row"}]
  BY <1>3, ProjectionType DEF TypeOK, Retain, RetainFails, durable
<1>5. \A k \in Jobs \ {j} : intents'[k] = intents[k]
  BY <1>2 DEF TypeOK
<1>6. intents'[j].last \in {intents[j].last, e.state}
  BY <1>1, <1>2 DEF TypeOK
<1> QED BY <1>3, <1>4, <1>5, <1>6

\* What the observer reports is an observation, and it reports a terminal one only
\* of a Job object it saw ended.
LEMMA ObservationEffect ==
  ASSUME NEW o \in Objects, NEW uids \in SUBSET Uids, NEW mode
  PROVE  /\ Observation(o, uids, mode) \in Event
         /\ Observation(o, uids, mode).state \in Sightings
         /\ Observation(o, uids, mode).state = "tracking_finished"
              => /\ o.phase # "Absent" /\ Ended(o)
                 /\ Observation(o, uids, mode).created = o.at
<1>1. CASE o.phase = "Absent"
  BY <1>1 DEF Observation, Plain, Event, Sightings, EventStates, Phases
<1>2. CASE o.phase # "Absent" /\ ~verify_submission_identity(o, uids)
  BY <1>2 DEF Observation, Plain, Event, Sightings, EventStates, Phases
<1>3. CASE o.phase # "Absent" /\ verify_submission_identity(o, uids)
  BY <1>3 DEF Observation, Plain, Event, Sightings, EventStates, Phases, Objects,
              verify_submission_identity, Ended
<1> QED BY <1>1, <1>2, <1>3

\* An observation that saw the Job object of j ended.
SawEnd(j, e) == cluster[j].phase # "Absent" /\ Ended(cluster[j]) /\ e.created = cluster[j].at

\* The same for a batch of observations; unasked identities stay without one.
LEMMA ObservationsEffect ==
  ASSUME TypeOK, NEW pending \in SUBSET Jobs, NEW uidsOf \in [Jobs -> SUBSET Uids],
         NEW b \in Observations(pending, uidsOf)
  PROVE  /\ b \in [Jobs -> Event]
         /\ \A j \in Jobs \ pending : b[j] = NoEvent
         /\ \A j \in pending : b[j].state \in Sightings
         /\ \A j \in pending : b[j].state = "tracking_finished"
              => SawEnd(j, b[j])
<1>1. NoEvent \in Event /\ Plain("uncertain") \in Event
  BY DEF NoEvent, Plain, Event, EventStates, Phases
<1>2. Plain("uncertain").state = "uncertain" 
  BY DEF Plain
<1>3. CASE b = [j \in Jobs |-> IF j \in pending THEN Plain("uncertain") ELSE NoEvent]
  BY <1>1, <1>2, <1>3 DEF Sightings
<1>4. ASSUME NEW m \in [Jobs -> Modes],
             b = [j \in Jobs |-> IF j \in pending
                                 THEN Observation(cluster[j], uidsOf[j], m[j])
                                 ELSE NoEvent]
      PROVE  /\ b \in [Jobs -> Event]
             /\ \A j \in Jobs \ pending : b[j] = NoEvent
             /\ \A j \in pending : b[j].state \in Sightings
             /\ \A j \in pending : b[j].state = "tracking_finished" => SawEnd(j, b[j])
  <2>1. \A j \in pending : cluster[j] \in Objects /\ uidsOf[j] \in SUBSET Uids
    BY DEF TypeOK
  <2>2. \A j \in pending :
          /\ Observation(cluster[j], uidsOf[j], m[j]) \in Event
          /\ Observation(cluster[j], uidsOf[j], m[j]).state \in Sightings
          /\ Observation(cluster[j], uidsOf[j], m[j]).state = "tracking_finished"
               => SawEnd(j, Observation(cluster[j], uidsOf[j], m[j]))
    BY <2>1, ObservationEffect DEF SawEnd
  <2> QED BY <1>1, <1>4, <2>2
<1> QED BY <1>3, <1>4 DEF Observations

\* Ending a command puts its process back to the start, frees the lock if it was the
\* holder, and leaves every other process alone.
LEMMA ExitEffect ==
  ASSUME TypeOK, NEW p \in Procs, Exit(p)
  PROVE  /\ lock' \in Procs \cup {NoProc} /\ pc' \in [Procs -> PCs]
         /\ job' \in [Procs -> Jobs \cup {NoJob}] /\ batch' \in [Procs -> [Jobs -> Event]]
         /\ known' \in [Procs -> SUBSET Uids] /\ reply' \in [Procs -> Objects]
         /\ lock' # lock => lock = p
         /\ pc'[p] = "idle" /\ batch'[p] = NoBatch /\ reply'[p] = NoObject
         /\ \A q \in Procs \ {p} : /\ pc'[q] = pc[q] /\ job'[q] = job[q] /\ known'[q] = known[q]
                                   /\ batch'[q] = batch[q] /\ reply'[q] = reply[q]
<1>1. NoBatch \in [Jobs -> Event]
  BY DEF NoBatch, NoEvent, Plain, Event, EventStates, Phases
<1>2. NoObject \in Objects
  BY DEF NoObject, Objects, Phases
<1>3. "idle" \in PCs
  BY DEF PCs
<1> QED BY <1>1, <1>2, <1>3 DEF TypeOK, Exit, Goto

(***************************************************************************)
(* What one step of a command does to the ledger.                          *)
(***************************************************************************)

\* The states an event may give an intent without releasing it.
Holding == {"prepared", "submitting", "submitted", "observed", "uncertain", "conflict"}

\* Who changes the ledger, and how it may release an intent: by `not_created` from
\* the path before the attempt, or by a terminal observation somebody made.
LedgerStep(p) ==
  /\ intents' \in [Jobs -> Intents]
  /\ csv' \in [Jobs -> Phases \cup {"no row"}]
  /\ durable' # durable => lock \in {p, NoProc}
  /\ \A j \in Jobs : \/ intents'[j].last = intents[j].last
                     \/ intents'[j].last \in Holding
                     \/ intents'[j].last = "not_created" /\ pc[p] = "abandon" /\ job[p] = j
                     \/ intents'[j].last = "tracking_finished"
                        /\ batch[p][j].state = "tracking_finished"

\* A write of one event is a ledger step when its state may be given by that process.
LEMMA RetainIsLedgerStep ==
  ASSUME TypeOK, NEW p \in Procs, NEW j \in Jobs, NEW e \in Event,
         Retain(j, e) \/ RetainFails(j, e), lock \in {p, NoProc},
         \/ e.state \in Holding
         \/ e.state = "not_created" /\ pc[p] = "abandon" /\ job[p] = j
         \/ e.state = "tracking_finished" /\ batch[p][j].state = "tracking_finished"
  PROVE  LedgerStep(p)
BY RetainEffect DEF LedgerStep

\* A step that leaves state.json alone is one too, whether it rebuilds jobs.csv or not.
LEMMA ReadingIsLedgerStep ==
  ASSUME TypeOK, NEW p \in Procs, UNCHANGED durable
  PROVE  LedgerStep(p)
BY DEF LedgerStep, TypeOK, durable

LEMMA RebuildingIsLedgerStep ==
  ASSUME TypeOK, NEW p \in Procs, lock = p, intents' = intents,
         csv' \in {csv, project_submission_jobs(intents)}
  PROVE  LedgerStep(p)
BY ProjectionType DEF LedgerStep, TypeOK

LEMMA LedgerEffect ==
  ASSUME ControlInv, NEW p \in Procs, Step(p) \/ Crash(p)
  PROVE  LedgerStep(p)
<1> USE DEF ControlInv
<1>1. ASSUME NEW s \in {"prepared", "submitting", "not_created", "uncertain", "conflict"}
      PROVE  Plain(s) \in Event /\ Plain(s).state = s
  BY DEF Plain, Event, EventStates, Phases
<1>2. \A j \in Jobs : batch[p][j] \in Event
  BY DEF TypeOK
<1>3. pc[p] \in Locked => lock = p
  BY DEF LockInv
<1>4. pc[p] \in WithJob => job[p] \in Jobs
  BY DEF JobInv
<1>5. Sightings \subseteq Holding \cup {"tracking_finished"}
  BY DEF Sightings, Holding
<1>6. ASSUME NEW j \in Jobs, RetainObservation(p, j) PROVE LedgerStep(p)
  <2>1. lock = p
    BY <1>3, <1>6 DEF RetainObservation, Locked
  <2>2. batch[p][j].state \in Sightings
    BY <1>6 DEF RetainObservation, BatchInv
  <2> QED BY <1>2, <1>5, <1>6, <2>1, <2>2, RetainIsLedgerStep DEF RetainObservation
<1>7. CASE Prepare(p)
  BY <1>1, <1>3, <1>4, <1>7, RetainIsLedgerStep DEF Prepare, Locked, WithJob, Holding
<1>8. CASE MarkSubmitting(p)
  BY <1>1, <1>3, <1>4, <1>8, RetainIsLedgerStep DEF MarkSubmitting, Locked, WithJob, Holding
<1>9. CASE Abandon(p)
  BY <1>1, <1>3, <1>4, <1>9, RetainIsLedgerStep DEF Abandon, Locked, WithJob
<1>10. CASE RetainResponse(p)
  <2> DEFINE e == [Plain("uncertain") EXCEPT !.reply = reply[p].uid]
  <2>1. e \in Event /\ e.state = "uncertain"
    BY DEF TypeOK, Plain, Event, EventStates, Phases, Objects
  <2>2. Retain(job[p], e) \/ RetainFails(job[p], e)
    BY <1>10 DEF RetainResponse
  <2> QED BY <1>3, <1>4, <1>10, <2>1, <2>2, RetainIsLedgerStep
          DEF RetainResponse, Locked, WithJob, Holding
<1>11. CASE RetainReceipt(p)
  <2> DEFINE e == [state |-> "submitted", phase |-> reply[p].phase, uid |-> reply[p].uid,
                   reply |-> NoUid, created |-> reply[p].at]
  <2>1. e \in Event /\ e.state = "submitted"
    BY <1>11 DEF RetainReceipt, TypeOK, ReplyInv, Event, EventStates, Phases, Objects
  <2>2. Retain(job[p], e) \/ RetainFails(job[p], e)
    BY <1>11 DEF RetainReceipt
  <2> QED BY <1>3, <1>4, <1>11, <2>1, <2>2, RetainIsLedgerStep
          DEF RetainReceipt, Locked, WithJob, Holding
<1>12. CASE RetainFailure(p)
  <2> DEFINE s == IF pc[p] = "clash" THEN "conflict" ELSE "uncertain"
             e == [Plain(s) EXCEPT !.reply = reply[p].uid,
                                   !.uid = IF pc[p] = "unsaved" THEN reply[p].uid ELSE NoUid]
  <2>1. e \in Event /\ e.state \in {"uncertain", "conflict"}
    BY DEF TypeOK, Plain, Event, EventStates, Phases, Objects
  <2>2. Retain(job[p], e) \/ RetainFails(job[p], e)
    BY <1>12 DEF RetainFailure
  <2> QED BY <1>3, <1>4, <1>12, <2>1, <2>2, RetainIsLedgerStep
          DEF RetainFailure, Locked, WithJob, Holding
<1>13. CASE pc[p] \in Carrying /\ lock \in {p, NoProc}
            /\ (Retain(job[p], batch[p][job[p]]) \/ RetainFails(job[p], batch[p][job[p]]))
  <2>1. job[p] \in Jobs
    BY <1>4, <1>13 DEF Carrying, WithJob
  <2>2. batch[p][job[p]].state \in Sightings
    BY <1>13 DEF BatchInv
  <2> QED BY <1>2, <1>5, <1>13, <2>1, <2>2, RetainIsLedgerStep
<1>14. CASE AppendObservation(p)
  BY <1>13, <1>14, ReadingIsLedgerStep DEF AppendObservation, Carrying
<1>15. CASE AppendVerification(p)
  BY <1>13, <1>15, ReadingIsLedgerStep DEF AppendVerification, Carrying
<1>16. CASE RetainJob(p)
  BY <1>3, <1>13, <1>16 DEF RetainJob, Carrying, Locked
<1>17. CASE SubmitterReconciled(p) \/ HelperReconciled(p) \/ ProjectionFails(p)
  BY <1>3, <1>17, RebuildingIsLedgerStep
     DEF SubmitterReconciled, HelperReconciled, ProjectionFails, Reconciled, Locked
<1>18. CASE UNCHANGED durable
  BY <1>18, ReadingIsLedgerStep
<1> QED
  BY <1>6, <1>7, <1>8, <1>9, <1>10, <1>11, <1>12, <1>14, <1>15, <1>16, <1>17, <1>18
     DEF Step, Crash, Reconciling, Submitting, Tracking, Helping, AcquireLock, RefuseBlocked,
         ObserveBatch, RefuseUnresolved, Select, StopPlan, RecheckNode, Create, Attach, Poll,
         StopPolling, VerifyEvidence, Prune, ObserveForJob

(***************************************************************************)
(* What one step of a command does to the memory of the processes.         *)
(***************************************************************************)

\* A step of p moves p and nobody else, keeps the lock discipline, and keeps in memory
\* what its next program point needs.  A terminal observation is either an old one or
\* was just made of a Job object that has ended.
ControlStep(p) ==
  /\ lock' \in Procs \cup {NoProc} /\ pc' \in [Procs -> PCs]
  /\ job' \in [Procs -> Jobs \cup {NoJob}] /\ batch' \in [Procs -> [Jobs -> Event]]
  /\ known' \in [Procs -> SUBSET Uids] /\ reply' \in [Procs -> Objects]
  /\ lock' # lock => lock \in {p, NoProc}
  /\ \A q \in Procs \ {p} : /\ pc'[q] = pc[q] /\ job'[q] = job[q] /\ known'[q] = known[q]
                            /\ batch'[q] = batch[q] /\ reply'[q] = reply[q]
  /\ pc'[p] \in Locked => lock' = p
  /\ pc'[p] \in WithJob => job'[p] \in Jobs
  /\ \A j \in Jobs : batch'[p][j] = NoEvent \/ batch'[p][j].state \in Sightings
  /\ pc'[p] \in Carrying => batch'[p][job'[p]].state \in Sightings
  /\ reply'[p].uid # NoUid => reply'[p].phase # "Absent"
  /\ pc'[p] \in {"receipt", "unsaved"} => reply'[p].uid # NoUid
  /\ \A j \in Jobs : batch'[p][j].state = "tracking_finished"
       => \/ /\ batch[p][j].state = "tracking_finished"
             /\ batch'[p][j].created = batch[p][j].created
          \/ SawEnd(j, batch'[p][j])

LEMMA ExitIsControlStep ==
  ASSUME ControlInv, NEW p \in Procs, Exit(p)
  PROVE  ControlStep(p)
<1>1. \A j \in Jobs : NoBatch[j] = NoEvent
  BY DEF NoBatch
<1>2. NoEvent.state # "tracking_finished"
  BY DEF NoEvent, Plain
<1>3. NoObject.uid = NoUid
  BY DEF NoObject
<1> QED BY <1>1, <1>2, <1>3, ExitEffect
        DEF ControlInv, ControlStep, Locked, WithJob, Carrying

\* A step that keeps batch and reply, and moves p between program points.
LEMMA MoveIsControlStep ==
  ASSUME ControlInv, NEW p \in Procs, NEW l \in PCs, Goto(p, l),
         UNCHANGED <<batch, known, reply>>,
         lock' \in {lock, p, NoProc}, lock' # lock => lock \in {p, NoProc},
         l \in Locked => lock' = p,
         job' = job \/ \E j \in Jobs \cup {NoJob} : job' = [job EXCEPT ![p] = j],
         l \in WithJob => job'[p] \in Jobs,
         l \in Carrying => batch[p][job'[p]].state \in Sightings,
         l \in {"receipt", "unsaved"} => reply[p].uid # NoUid
  PROVE  ControlStep(p)
<1>1. pc' \in [Procs -> PCs] /\ pc'[p] = l /\ \A q \in Procs \ {p} : pc'[q] = pc[q]
  BY DEF Goto, ControlInv, TypeOK
<1>2. job' \in [Procs -> Jobs \cup {NoJob}] /\ \A q \in Procs \ {p} : job'[q] = job[q]
  <2>1. job \in [Procs -> Jobs \cup {NoJob}]
    BY DEF ControlInv, TypeOK
  <2>2. CASE job' = job
    BY <2>1, <2>2
  <2>3. ASSUME NEW j \in Jobs \cup {NoJob}, job' = [job EXCEPT ![p] = j]
        PROVE  job' \in [Procs -> Jobs \cup {NoJob}] /\ \A q \in Procs \ {p} : job'[q] = job[q]
    BY <2>1, <2>3
  <2> QED BY <2>2, <2>3
<1>3. batch' \in [Procs -> [Jobs -> Event]] /\ known' \in [Procs -> SUBSET Uids]
      /\ reply' \in [Procs -> Objects] /\ lock' \in Procs \cup {NoProc}
  BY DEF ControlInv, TypeOK
<1>4. \A j \in Jobs : batch'[p][j] = NoEvent \/ batch'[p][j].state \in Sightings
  BY DEF ControlInv, BatchInv
<1>5. reply'[p].uid # NoUid => reply'[p].phase # "Absent"
  BY DEF ControlInv, ReplyInv
<1>6. batch' = batch /\ known' = known /\ reply' = reply
  OBVIOUS
<1>7. pc'[p] \in Carrying => batch'[p][job'[p]].state \in Sightings
  BY <1>1
<1> QED BY <1>1, <1>2, <1>3, <1>4, <1>5, <1>6, <1>7 DEF ControlStep

\* A step that stores a batch of observations made just now.
LEMMA SightingIsControlStep ==
  ASSUME ControlInv, NEW p \in Procs, NEW l \in PCs, Goto(p, l),
         NEW pending \in SUBSET Jobs, NEW uidsOf \in [Jobs -> SUBSET Uids],
         NEW b \in Observations(pending, uidsOf), batch' = [batch EXCEPT ![p] = b],
         UNCHANGED <<job, known, reply>>,
         lock' = lock \/ (lock = NoProc /\ lock' = p), l \in Locked => lock' = p,
         l \in WithJob => job[p] \in pending,
         l \notin {"receipt", "unsaved"}
  PROVE  ControlStep(p)
<1>1. pc' \in [Procs -> PCs] /\ pc'[p] = l /\ \A q \in Procs \ {p} : pc'[q] = pc[q]
  BY DEF Goto, ControlInv, TypeOK
<1>2. /\ b \in [Jobs -> Event]
      /\ \A j \in Jobs \ pending : b[j] = NoEvent
      /\ \A j \in pending : b[j].state \in Sightings
      /\ \A j \in pending : b[j].state = "tracking_finished" => SawEnd(j, b[j])
  BY ObservationsEffect DEF ControlInv
<1>3. NoEvent.state # "tracking_finished"
  BY DEF NoEvent, Plain
<1>4. batch' \in [Procs -> [Jobs -> Event]] /\ batch'[p] = b
      /\ \A q \in Procs \ {p} : batch'[q] = batch[q]
  BY <1>2 DEF ControlInv, TypeOK
<1>5. \A j \in Jobs : b[j] = NoEvent \/ b[j].state \in Sightings
  BY <1>2
<1>6. \A j \in Jobs : b[j].state = "tracking_finished" => SawEnd(j, b[j])
  BY <1>2, <1>3
<1>7. l \in Carrying => l \in WithJob
  BY DEF Carrying, WithJob
<1>8. l \in WithJob => job[p] \in Jobs /\ b[job[p]].state \in Sightings
  BY <1>2
<1> QED BY <1>1, <1>4, <1>5, <1>6, <1>7, <1>8 DEF ControlStep, ControlInv, TypeOK, ReplyInv

\* What the ledger knows of an identity's Job objects.
LEMMA LedgerUidsType ==
  ASSUME TypeOK
  PROVE  LedgerUids \in [Jobs -> SUBSET Uids]
BY DEF LedgerUids, KnownUids, TypeOK, Intents

\* Adding a verified uid to an observation changes nothing else about it.
LEMMA IdentifiedType ==
  ASSUME NEW e \in Event, NEW u \in Uids \cup {NoUid}
  PROVE  /\ Identified(e, u) \in Event /\ Identified(e, u).state = e.state
         /\ Identified(e, u).created = e.created
BY DEF Identified, Event

LEMMA ControlEffect ==
  ASSUME ControlInv, NEW p \in Procs, Step(p) \/ Crash(p)
  PROVE  ControlStep(p)
<1>1. TypeOK
  BY DEF ControlInv
<1>2. pc[p] \in Locked => lock = p
  BY DEF ControlInv, LockInv
<1>3. pc[p] \in WithJob => job[p] \in Jobs
  BY DEF ControlInv, JobInv
<1>5. CASE Exit(p)
  BY <1>5, ExitIsControlStep
<1>6. CASE AcquireLock(p)
  BY <1>1, <1>6, MoveIsControlStep DEF AcquireLock, PCs, WithJob, Carrying
<1>7. CASE ObserveBatch(p)
  BY <1>1, <1>2, <1>7, LedgerUidsType, SightingIsControlStep
     DEF ObserveBatch, PCs, Locked, WithJob
<1>8. ASSUME NEW j \in Jobs, RetainObservation(p, j), ~Exit(p) PROVE ControlStep(p)
  <2>1. pc[p] = "retain" /\ UNCHANGED <<lock, pc, job, known, reply>>
        /\ batch' = [batch EXCEPT ![p][j] = NoEvent]
    BY <1>8 DEF RetainObservation
  <2>2. NoEvent \in Event /\ NoEvent.state # "tracking_finished"
    BY DEF NoEvent, Plain, Event, EventStates, Phases
  <2>3. batch' \in [Procs -> [Jobs -> Event]]
        /\ \A q \in Procs \ {p} : batch'[q] = batch[q]
    BY <1>1, <2>1, <2>2 DEF TypeOK
  <2>4. \A k \in Jobs : batch'[p][k] \in {batch[p][k], NoEvent}
    BY <1>1, <2>1 DEF TypeOK
  <2> QED BY <1>1, <1>2, <1>3, <2>1, <2>2, <2>3, <2>4
          DEF ControlStep, ControlInv, TypeOK, BatchInv, ReplyInv, Locked, WithJob, Carrying
<1>9. CASE SubmitterReconciled(p)
  BY <1>1, <1>2, <1>9, MoveIsControlStep
     DEF SubmitterReconciled, Reconciled, PCs, Locked, WithJob, Carrying
<1>10. ASSUME NEW j \in Jobs, Select(p, j) PROVE ControlStep(p)
  BY <1>1, <1>2, <1>10, MoveIsControlStep
     DEF Select, TypeOK, PCs, Locked, WithJob, Carrying
<1>11. CASE Prepare(p) /\ ~Exit(p)
  BY <1>1, <1>2, <1>3, <1>11, MoveIsControlStep DEF Prepare, PCs, Locked, WithJob, Carrying
<1>12. CASE MarkSubmitting(p)
  BY <1>1, <1>2, <1>3, <1>12, MoveIsControlStep
     DEF MarkSubmitting, PCs, Locked, WithJob, Carrying
<1>13. CASE RecheckNode(p)
  BY <1>1, <1>2, <1>3, <1>13, MoveIsControlStep
     DEF RecheckNode, PCs, Locked, WithJob, Carrying
<1>14. CASE Create(p)
  <2>1. reply' = reply \/ \E r \in Objects : reply' = [reply EXCEPT ![p] = r]
                           /\ (r.uid # NoUid => r.phase # "Absent")
    <3>1. NewObject(Own, TRUE) \in Objects /\ NewObject(Own, FALSE) \in Objects
      BY <1>1 DEF NewObject, Objects, Phases, Uids, TypeOK
    <3>2. NewObject(Own, TRUE).phase # "Absent" /\ NewObject(Own, FALSE).phase # "Absent"
      BY DEF NewObject
    <3> QED BY <1>14, <3>1, <3>2 DEF Create
  <2>2. reply' \in [Procs -> Objects] /\ \A q \in Procs \ {p} : reply'[q] = reply[q]
    BY <1>1, <2>1 DEF TypeOK
  <2>3. reply'[p].uid # NoUid => reply'[p].phase # "Absent"
    BY <1>1, <2>1 DEF TypeOK, ControlInv, ReplyInv
  <2>4. pc'[p] = "replied" /\ pc' \in [Procs -> PCs] /\ \A q \in Procs \ {p} : pc'[q] = pc[q]
    BY <1>1, <1>14 DEF Create, Goto, TypeOK, PCs
  <2> QED BY <1>1, <1>2, <1>3, <1>14, <2>2, <2>3, <2>4
          DEF Create, ControlStep, ControlInv, TypeOK, BatchInv, Locked, WithJob, Carrying
<1>15. CASE RetainResponse(p)
  BY <1>1, <1>2, <1>3, <1>15, MoveIsControlStep
     DEF RetainResponse, PCs, Locked, WithJob, Carrying
<1>16. CASE RetainReceipt(p)
  <2>1. CASE reply' = reply
    <3>1. pc[p] = "receipt" /\ UNCHANGED <<batch, known>>
      BY <1>16 DEF RetainReceipt
    <3>2. \/ lock' = NoProc /\ Goto(p, "attach") /\ job' = job
          \/ lock' = lock /\ Goto(p, "select") /\ job' = [job EXCEPT ![p] = NoJob]
          \/ lock' = lock /\ Goto(p, "unsaved") /\ job' = job
      BY <1>16 DEF RetainReceipt
    <3>3. lock = p /\ job[p] \in Jobs /\ reply[p].uid # NoUid
      BY <1>2, <1>3, <3>1 DEF Locked, WithJob, ControlInv, ReplyInv
    <3> QED BY <2>1, <3>1, <3>2, <3>3, MoveIsControlStep DEF PCs, Locked, WithJob, Carrying
  <2>2. CASE reply' = [reply EXCEPT ![p] = NoObject]
    <3>1. NoObject \in Objects /\ NoObject.uid = NoUid
      BY DEF NoObject, Objects, Phases
    <3>2. reply' \in [Procs -> Objects] /\ reply'[p] = NoObject
          /\ \A q \in Procs \ {p} : reply'[q] = reply[q]
      BY <1>1, <2>2, <3>1 DEF TypeOK
    <3>3. pc'[p] \in {"attach", "select", "unsaved"} /\ pc' \in [Procs -> PCs]
          /\ \A q \in Procs \ {p} : pc'[q] = pc[q]
      <4>1. PICK l \in {"attach", "select", "unsaved"} : Goto(p, l)
        BY <1>16 DEF RetainReceipt
      <4>2. l \in PCs /\ pc \in [Procs -> PCs]
        BY <1>1 DEF PCs, TypeOK
      <4> QED BY <4>1, <4>2 DEF Goto
    <3>4. UNCHANGED <<batch, known>> /\ pc[p] = "receipt"
      BY <1>16 DEF RetainReceipt
    <3>5. job[p] \in Jobs /\ lock = p
      BY <1>2, <1>3, <3>4 DEF Locked, WithJob
    <3>6. CASE lock' = NoProc /\ Goto(p, "attach") /\ job' = job
      <4>1. pc'[p] = "attach"
        BY <1>1, <3>6 DEF Goto, TypeOK
      <4>2. job' \in [Procs -> Jobs \cup {NoJob}]
        BY <1>1, <3>6 DEF TypeOK
      <4> QED BY <1>1, <3>1, <3>2, <3>3, <3>4, <3>5, <3>6, <4>1, <4>2
              DEF ControlStep, ControlInv, TypeOK, BatchInv, Locked, WithJob, Carrying
    <3>7. CASE lock' = lock /\ Goto(p, "select") /\ job' = [job EXCEPT ![p] = NoJob]
      <4>1. pc'[p] = "select"
        BY <1>1, <3>7 DEF Goto, TypeOK
      <4>2. job' \in [Procs -> Jobs \cup {NoJob}] /\ \A q \in Procs \ {p} : job'[q] = job[q]
        BY <1>1, <3>7 DEF TypeOK
      <4> QED BY <1>1, <3>1, <3>2, <3>3, <3>4, <3>5, <3>7, <4>1, <4>2
              DEF ControlStep, ControlInv, TypeOK, BatchInv, Locked, WithJob, Carrying
    <3>8. CASE Goto(p, "unsaved") /\ UNCHANGED <<lock, job, reply>>
      BY <1>1, <1>16, <3>8, MoveIsControlStep, <1>2, <1>3
         DEF RetainReceipt, ControlInv, ReplyInv, PCs, Locked, WithJob, Carrying
    <3> QED BY <1>16, <3>6, <3>7, <3>8 DEF RetainReceipt
  <2> QED BY <1>16, <2>1, <2>2 DEF RetainReceipt
<1>17. CASE Attach(p) /\ ~Exit(p)
  <2>1. known' \in [Procs -> SUBSET Uids]
    <3>1. known \in [Procs -> SUBSET Uids] /\ intents \in [Jobs -> Intents]
      BY <1>1 DEF TypeOK
    <3>2. pc[p] = "attach" /\ known' = [known EXCEPT ![p] = KnownUids(intents[job[p]])]
      BY <1>17 DEF Attach
    <3>3. job[p] \in Jobs
      BY <1>3, <3>2 DEF WithJob
    <3>4. intents[job[p]] \in Intents
      BY <3>1, <3>3
    <3>5. KnownUids(intents[job[p]]) \in SUBSET Uids
      BY <3>4 DEF Intents, KnownUids
    <3> QED BY <3>1, <3>2, <3>5
  <2>2. pc'[p] = "poll" /\ pc' \in [Procs -> PCs] /\ \A q \in Procs \ {p} : pc'[q] = pc[q]
    BY <1>1, <1>17 DEF Attach, Goto, TypeOK, PCs
  <2>3. pc[p] = "attach" /\ UNCHANGED <<lock, job, batch, reply>>
        /\ \A q \in Procs \ {p} : known'[q] = known[q]
    BY <1>1, <1>17 DEF Attach, TypeOK
  <2>4. job[p] \in Jobs
    BY <1>3, <2>3 DEF WithJob
  <2>5. pc'[p] \notin Locked \cup Carrying \cup {"receipt", "unsaved"}
    BY <2>2 DEF Locked, Carrying
  <2> QED BY <1>1, <2>1, <2>2, <2>3, <2>4, <2>5
          DEF ControlStep, ControlInv, TypeOK, BatchInv, ReplyInv
<1>18. CASE Poll(p)
  <2>1. [j \in Jobs |-> known[p]] \in [Jobs -> SUBSET Uids]
    BY <1>1 DEF TypeOK
  <2>2. PICK b \in Observations({job[p]}, [j \in Jobs |-> known[p]]) :
          /\ batch' = [batch EXCEPT ![p] = b]
          /\ Goto(p, IF b[job[p]].state = "observed" THEN "poll" ELSE "report")
    BY <1>18 DEF Poll
  <2>3. {job[p]} \in SUBSET Jobs
    BY <1>3, <1>18 DEF Poll, WithJob
  <2> QED BY <1>1, <1>18, <2>1, <2>2, <2>3, SightingIsControlStep
          DEF Poll, PCs, Locked, WithJob
<1>19. CASE StopPolling(p) /\ ~Exit(p)
  BY <1>1, <1>3, <1>19, MoveIsControlStep
     DEF StopPolling, ControlInv, BatchInv, PCs, Locked, WithJob, Carrying
<1>20. CASE AppendObservation(p) /\ ~Exit(p)
  BY <1>1, <1>3, <1>20, MoveIsControlStep
     DEF AppendObservation, ControlInv, BatchInv, PCs, Locked, WithJob, Carrying
<1>21. CASE VerifyEvidence(p) /\ ~Exit(p)
  <2>1. job[p] \in Jobs /\ pc[p] = "verify"
    BY <1>3, <1>21 DEF VerifyEvidence, WithJob
  <2> DEFINE e == Identified(batch[p][job[p]], cluster[job[p]].uid)
  <2>2. /\ e \in Event /\ e.state = batch[p][job[p]].state
        /\ e.created = batch[p][job[p]].created
    <3>1. batch[p][job[p]] \in Event /\ cluster[job[p]].uid \in Uids \cup {NoUid}
      <4>1. batch \in [Procs -> [Jobs -> Event]] /\ cluster \in [Jobs -> Objects]
        BY <1>1 DEF TypeOK
      <4>2. batch[p][job[p]] \in Event /\ cluster[job[p]] \in Objects
        BY <2>1, <4>1
      <4> QED BY <4>2 DEF Objects
    <3> QED BY <3>1, IdentifiedType
  <2> HIDE DEF e
  <2>3. batch' \in [Procs -> [Jobs -> Event]] /\ \A q \in Procs \ {p} : batch'[q] = batch[q]
    <3>1. batch' = batch \/ batch' = [batch EXCEPT ![p][job[p]] = e]
      BY <1>21 DEF VerifyEvidence, e
    <3>2. batch[p] \in [Jobs -> Event]
      BY <1>1 DEF TypeOK
    <3>3. [batch[p] EXCEPT ![job[p]] = e] \in [Jobs -> Event]
      BY <2>1, <2>2, <3>2
    <3>4. batch' = batch \/ batch' = [batch EXCEPT ![p] = [batch[p] EXCEPT ![job[p]] = e]]
      BY <3>1
    <3> QED BY <1>1, <3>3, <3>4 DEF TypeOK
  <2>4. \A j \in Jobs : /\ batch'[p][j].state = batch[p][j].state
                       /\ batch'[p][j].created = batch[p][j].created
                       /\ (j # job[p] => batch'[p][j] = batch[p][j])
    <3>1. CASE batch' = batch
      BY <3>1
    <3>2. CASE batch' = [batch EXCEPT ![p][job[p]] = e]
      <4>1. batch[p] \in [Jobs -> Event] /\ batch'[p] = [batch[p] EXCEPT ![job[p]] = e]
        BY <1>1, <3>2 DEF TypeOK
      <4>2. batch'[p][job[p]] = e
        BY <2>1, <4>1
      <4>3. \A j \in Jobs : j # job[p] => batch'[p][j] = batch[p][j]
        BY <4>1
      <4> QED BY <2>2, <4>2, <4>3
    <3> QED BY <1>21, <3>1, <3>2 DEF VerifyEvidence, e
  <2>5. batch[p][job[p]].state \in Sightings
    BY <2>1 DEF ControlInv, BatchInv, Carrying
  <2>6. pc'[p] = "append" /\ pc' \in [Procs -> PCs] /\ \A q \in Procs \ {p} : pc'[q] = pc[q]
    BY <1>1, <1>21 DEF VerifyEvidence, Goto, TypeOK, PCs
  <2>7. UNCHANGED <<lock, job, known, reply>>
    BY <1>21 DEF VerifyEvidence
  <2>8. /\ lock' \in Procs \cup {NoProc} /\ job' \in [Procs -> Jobs \cup {NoJob}]
        /\ known' \in [Procs -> SUBSET Uids] /\ reply' \in [Procs -> Objects]
    BY <1>1, <2>7 DEF TypeOK
  <2>9. pc'[p] \notin Locked \cup {"receipt", "unsaved"} /\ job'[p] \in Jobs
    BY <2>1, <2>6, <2>7 DEF Locked
  <2>10. \A j \in Jobs : batch'[p][j] = NoEvent \/ batch'[p][j].state \in Sightings
    <3>1. \A j \in Jobs : batch[p][j] = NoEvent \/ batch[p][j].state \in Sightings
      BY DEF ControlInv, BatchInv
    <3> QED BY <2>1, <2>4, <2>5, <3>1
  <2>11. batch'[p][job'[p]].state \in Sightings
    BY <2>1, <2>4, <2>5, <2>7
  <2>12. reply'[p].uid # NoUid => reply'[p].phase # "Absent"
    BY <2>7 DEF ControlInv, ReplyInv
  <2>13. \A j \in Jobs : batch'[p][j].state = "tracking_finished"
           => /\ batch[p][j].state = "tracking_finished"
              /\ batch'[p][j].created = batch[p][j].created
    BY <2>4
  <2> QED BY <2>3, <2>6, <2>7, <2>8, <2>9, <2>10, <2>11, <2>12, <2>13 DEF ControlStep
<1>22. CASE HelperReconciled(p) /\ ~Exit(p)
  BY <1>1, <1>2, <1>22, MoveIsControlStep
     DEF HelperReconciled, Reconciled, TypeOK, PCs, Locked, WithJob, Carrying
<1>23. CASE Prune(p) /\ ~Exit(p)
  BY <1>1, <1>3, <1>23, MoveIsControlStep DEF Prune, PCs, Locked, WithJob, Carrying
<1>24. CASE ObserveForJob(p) /\ ~Exit(p)
  <2>1. {job[p]} \in SUBSET Jobs
    BY <1>3, <1>24 DEF ObserveForJob, WithJob
  <2> QED BY <1>1, <1>24, <2>1, LedgerUidsType, SightingIsControlStep
          DEF ObserveForJob, PCs, Locked, WithJob
<1> QED
  BY <1>5, <1>6, <1>7, <1>8, <1>9, <1>10, <1>11, <1>12, <1>13, <1>14, <1>15, <1>16, <1>17,
     <1>18, <1>19, <1>20, <1>21, <1>22, <1>23, <1>24
     DEF Step, Crash, Reconciling, Submitting, Tracking, Helping, RefuseBlocked,
         RefuseUnresolved, ProjectionFails, StopPlan, Abandon, RetainFailure, AppendVerification, RetainJob

(***************************************************************************)
(* What one step of anybody does to the cluster.                           *)
(***************************************************************************)

\* Work for k that no longer needs the process that requested it.
Underway(k) == k \in flight \/ (cluster[k].uid = Own /\ ~Ended(cluster[k]))

\* The request for k is sent in this step.
Sent(k) == \E p \in Procs : pc[p] = "create" /\ job[p] = k /\ pc'[p] = "replied"

\* An untouched identity stays untouched unless its create is sent, one whose request
\* is answered and whose Job has ended stays so, and no work appears of itself.
WorldStep ==
  /\ cluster' \in [Jobs -> Objects] /\ flight' \subseteq Jobs
  /\ creates' \in [Jobs -> Nat] /\ born' \in [Jobs -> Nat]
  /\ RequestInv'
  /\ \A k \in Jobs :
       /\ Fresh(k) => Fresh(k)' \/ Sent(k)
       /\ Spent(k) => Spent(k)'
       /\ Underway(k)' => Outstanding(k)

\* Nobody touches the cluster.
LEMMA StillWorld ==
  ASSUME TypeOK, RequestInv, UNCHANGED world, now' \in {now, now + 1}
  PROVE  WorldStep
<1>1. cluster' = cluster /\ flight' = flight /\ creates' = creates /\ born' = born
  BY DEF world
<1>2. RequestInv'
  <2>1. now \in Nat /\ now > 0
    BY DEF TypeOK, RequestInv
  <2>2. now' > 0
    BY <2>1
  <2> QED BY <1>1, <2>2 DEF RequestInv, Fresh
<1>3. ASSUME NEW k \in Jobs
      PROVE  /\ Fresh(k) => Fresh(k)'
             /\ Spent(k) => Spent(k)'
             /\ Underway(k)' => Outstanding(k)
  BY <1>1 DEF Fresh, Spent, Underway, Outstanding
<1> QED BY <1>1, <1>2, <1>3 DEF WorldStep, TypeOK

\* One Job object is replaced by another and the rest of the world stands still.
LEMMA ObjectStep ==
  ASSUME TypeOK, RequestInv, now' = now, UNCHANGED <<flight, creates, born>>,
         NEW j \in Jobs, NEW o \in Objects, cluster' = [cluster EXCEPT ![j] = o],
         o.phase = "Absent" <=> o.uid = NoUid,
         o.phase # "Absent" => born[j] > 0,
         o.uid = Own /\ ~Ended(o) => cluster[j].uid = Own /\ ~Ended(cluster[j])
  PROVE  WorldStep
<1>1. cluster' \in [Jobs -> Objects] /\ cluster'[j] = o
      /\ \A k \in Jobs \ {j} : cluster'[k] = cluster[k]
  BY DEF TypeOK
<1>2. RequestInv'
  BY <1>1 DEF RequestInv, Fresh
<1>3. ASSUME NEW k \in Jobs, Fresh(k) PROVE Fresh(k)'
  BY <1>1, <1>3 DEF Fresh
<1>4. ASSUME NEW k \in Jobs, Spent(k) PROVE Spent(k)'
  BY <1>1, <1>4 DEF Spent
<1>5. ASSUME NEW k \in Jobs, Underway(k)' PROVE Outstanding(k)
  BY <1>1, <1>5 DEF Underway, Outstanding
<1> QED BY <1>1, <1>2, <1>3, <1>4, <1>5 DEF WorldStep, TypeOK

\* The request for an untouched identity is sent, with whatever outcome.
LEMMA CreateIsWorldStep ==
  ASSUME ControlInv, RequestInv, SubmissionInv, NEW p \in Procs, Create(p)
  PROVE  WorldStep
<1> DEFINE j == job[p]
<1>1. j \in Jobs /\ pc[p] = "create" /\ Fresh(j) /\ TypeOK /\ now' = now
  BY DEF ControlInv, JobInv, SubmissionInv, Create, WithJob, BeforeCreate
<1>2. \A ok \in BOOLEAN : /\ NewObject(Own, ok) \in Objects
                          /\ NewObject(Own, ok).phase # "Absent"
                          /\ NewObject(Own, ok).uid # NoUid
  BY <1>1 DEF NewObject, Objects, Uids, Phases, TypeOK, Own, NoUid
<1>3. creates' = [creates EXCEPT ![j] = 1]
  <2>1. creates' = [creates EXCEPT ![j] = creates[j] + 1] /\ creates[j] = 0
    BY <1>1 DEF Create, Fresh
  <2> QED BY <2>1
<1>4. \/ cluster' = cluster
      \/ \E ok \in BOOLEAN : cluster' = [cluster EXCEPT ![j] = NewObject(Own, ok)]
  <2>1. {TRUE} \cup (IF "tamper" \in Faults THEN {FALSE} ELSE {}) \subseteq BOOLEAN
    OBVIOUS
  <2> QED BY <2>1 DEF Create, world
<1>5. cluster' \in [Jobs -> Objects] /\ (cluster'[j].phase = "Absent" <=> cluster'[j].uid = NoUid)
      /\ \A k \in Jobs \ {j} : cluster'[k] = cluster[k]
  <2>1. cluster \in [Jobs -> Objects] /\ (cluster[j].phase = "Absent" <=> cluster[j].uid = NoUid)
    BY <1>1 DEF TypeOK, RequestInv
  <2>2. CASE cluster' = cluster
    BY <2>1, <2>2
  <2>3. ASSUME NEW ok \in BOOLEAN, cluster' = [cluster EXCEPT ![j] = NewObject(Own, ok)]
        PROVE  /\ cluster' \in [Jobs -> Objects] /\ cluster'[j] = NewObject(Own, ok)
               /\ \A k \in Jobs \ {j} : cluster'[k] = cluster[k]
    BY <1>1, <1>2, <2>1, <2>3
  <2> QED BY <1>2, <1>4, <2>1, <2>2, <2>3
<1>6. /\ flight' \subseteq Jobs /\ flight' \subseteq flight \cup {j} /\ flight \subseteq flight'
      /\ born' \in [Jobs -> Nat] /\ (\A k \in Jobs \ {j} : born'[k] = born[k])
      /\ j \in flight' => born'[j] = 0
      /\ cluster'[j].phase # "Absent" => born'[j] > 0
  <2>1. cluster[j].phase = "Absent" /\ j \notin flight /\ born[j] = 0
    BY <1>1 DEF Fresh
  <2>2. born \in [Jobs -> Nat] /\ flight \subseteq Jobs /\ now \in Nat /\ now > 0
    BY <1>1 DEF TypeOK, RequestInv
  <2>3. \/ born' = [born EXCEPT ![j] = now] /\ flight' = flight
        \/ born' = born /\ cluster' = cluster /\ flight' = flight
        \/ born' = born /\ cluster' = cluster /\ flight' = flight \cup {j}
    BY DEF Create
  <2>4. CASE born' = [born EXCEPT ![j] = now] /\ flight' = flight
    BY <1>1, <2>1, <2>2, <2>4
  <2>5. CASE born' = born /\ cluster' = cluster /\ flight' \in {flight, flight \cup {j}}
    BY <1>1, <2>1, <2>2, <2>5
  <2> QED BY <2>3, <2>4, <2>5
<1>7. creates' \in [Jobs -> Nat] /\ creates'[j] = 1 /\ \A k \in Jobs \ {j} : creates'[k] = creates[k]
  BY <1>1, <1>3 DEF TypeOK
<1>8. RequestInv'
  BY <1>1, <1>5, <1>6, <1>7 DEF RequestInv, Fresh
<1>9. ASSUME NEW k \in Jobs
      PROVE  /\ Fresh(k) => Fresh(k)' \/ Sent(k)
             /\ Spent(k) => Spent(k)'
             /\ Underway(k)' => Outstanding(k)
  <2>1. CASE k = j
    <3>1. pc'[p] = "replied"
      BY <1>1 DEF Create, Goto, TypeOK
    <3> QED BY <1>1, <2>1, <3>1 DEF Fresh, Spent, Outstanding, Sent
  <2>2. CASE k # j
    BY <1>5, <1>6, <1>7, <2>2 DEF Fresh, Spent, Underway, Outstanding
  <2> QED BY <2>1, <2>2
<1> QED BY <1>5, <1>6, <1>7, <1>8, <1>9 DEF WorldStep

LEMMA PruneIsWorldStep ==
  ASSUME ControlInv, RequestInv, NEW p \in Procs, Prune(p)
  PROVE  WorldStep
<1> DEFINE j == job[p]
           d == cluster[j].deleting \/ cluster[j].phase # "Absent"
           o == [cluster[j] EXCEPT !.deleting = d]
<1>1. j \in Jobs /\ TypeOK /\ cluster[j] \in Objects
  BY DEF ControlInv, JobInv, Prune, WithJob, TypeOK
<1>2. d \in BOOLEAN
  BY <1>1 DEF Objects
<1>3. cluster' = [cluster EXCEPT ![j] = o] /\ now' = now /\ UNCHANGED <<flight, creates, born>>
  BY DEF Prune
<1>4. o \in Objects /\ o.phase = cluster[j].phase /\ o.uid = cluster[j].uid
      /\ o.pod = cluster[j].pod
  <2> HIDE DEF d
  <2> QED BY <1>1, <1>2 DEF Objects
<1> HIDE DEF o
<1> QED BY <1>1, <1>3, <1>4, ObjectStep DEF RequestInv, Ended

LEMMA EnvironmentIsWorldStep ==
  ASSUME TypeOK, RequestInv, NEW j \in Jobs, Environment(j)
  PROVE  WorldStep
<1>1. cluster[j] \in Objects /\ now' = now
  BY DEF TypeOK, Environment
<1>2. CASE StartJob(j)
  <2> DEFINE o == [cluster[j] EXCEPT !.phase = "Running", !.pod = "live"]
  <2>1. o \in Objects /\ o.phase = "Running" /\ o.uid = cluster[j].uid
    BY <1>1 DEF Objects, Phases
  <2> HIDE DEF o
  <2>2. cluster' = [cluster EXCEPT ![j] = o] /\ cluster[j].phase = "Pending"
        /\ UNCHANGED <<flight, creates, born>>
    BY <1>2 DEF StartJob, SetObject, o
  <2> QED BY <1>1, <2>1, <2>2, ObjectStep DEF RequestInv, Ended, Terminal
<1>3. CASE EndJob(j)
  <2> DEFINE o == [cluster[j] EXCEPT !.phase = "Completed"]
  <2>1. o \in Objects /\ o.phase = "Completed" /\ o.uid = cluster[j].uid
    BY <1>1 DEF Objects, Phases, Terminal
  <2> HIDE DEF o
  <2>2. cluster' = [cluster EXCEPT ![j] = o] /\ cluster[j].phase = "Running"
        /\ UNCHANGED <<flight, creates, born>>
    BY <1>3 DEF EndJob, SetObject, o
  <2> QED BY <1>1, <2>1, <2>2, ObjectStep DEF RequestInv, Ended, Terminal
<1>4. CASE EndPod(j)
  <2> DEFINE o == [cluster[j] EXCEPT !.pod = "done"]
  <2>1. o \in Objects /\ o.phase = cluster[j].phase /\ o.uid = cluster[j].uid /\ o.pod = "done"
    BY <1>1 DEF Objects
  <2> HIDE DEF o
  <2>2. cluster' = [cluster EXCEPT ![j] = o] /\ UNCHANGED <<flight, creates, born>>
    BY <1>4 DEF EndPod, SetObject, o
  <2> QED BY <1>1, <2>1, <2>2, ObjectStep DEF RequestInv, Ended
<1>5. CASE DeleteJob(j)
  <2> DEFINE o == [cluster[j] EXCEPT !.deleting = TRUE]
  <2>1. o \in Objects /\ o.phase = cluster[j].phase /\ o.uid = cluster[j].uid
        /\ o.pod = cluster[j].pod
    BY <1>1 DEF Objects
  <2> HIDE DEF o
  <2>2. cluster' = [cluster EXCEPT ![j] = o] /\ UNCHANGED <<flight, creates, born>>
    BY <1>5 DEF DeleteJob, SetObject, o
  <2> QED BY <1>1, <2>1, <2>2, ObjectStep DEF RequestInv, Ended
<1>6. CASE VanishJob(j)
  <2>1. NoObject \in Objects /\ NoObject.phase = "Absent" /\ NoObject.uid = NoUid
    BY DEF NoObject, Objects
  <2> QED BY <1>1, <1>6, <2>1, ObjectStep DEF VanishJob, SetObject, NoUid, Own
<1>7. CASE ReplaceJob(j)
  <2>1. NewObject(Foreign, TRUE) \in Objects /\ NewObject(Foreign, TRUE).phase # "Absent"
        /\ NewObject(Foreign, TRUE).uid = Foreign
    BY DEF NewObject, Objects, Phases, Uids, TypeOK
  <2> QED BY <1>1, <1>7, <2>1, ObjectStep DEF ReplaceJob, SetObject, NoUid, Own, Foreign
<1>8. CASE LandCreate(j)
  <2>1. NewObject(Own, TRUE) \in Objects /\ NewObject(Own, TRUE).phase # "Absent"
        /\ NewObject(Own, TRUE).uid = Own
    BY DEF NewObject, Objects, Phases, Uids, TypeOK
  <2>2. /\ cluster' \in [Jobs -> Objects] /\ (cluster'[j].phase = "Absent" <=> cluster'[j].uid = NoUid)
        /\ \A k \in Jobs \ {j} : cluster'[k] = cluster[k]
    BY <1>8, <2>1 DEF LandCreate, SetObject, TypeOK, RequestInv, Own, NoUid
  <2>3. /\ flight' = flight \ {j} /\ j \in flight /\ creates' = creates
        /\ born' \in [Jobs -> Nat] /\ (\A k \in Jobs \ {j} : born'[k] = born[k])
        /\ cluster'[j].phase # "Absent" => born'[j] > 0
    BY <1>8, <2>1 DEF LandCreate, SetObject, TypeOK, RequestInv
  <2>4. creates[j] # 0 /\ ~Fresh(j) /\ ~Spent(j) /\ Outstanding(j)
    BY <2>3 DEF RequestInv, Fresh, Spent, Outstanding
  <2>5. RequestInv'
    BY <1>1, <2>2, <2>3, <2>4 DEF RequestInv, Fresh
  <2>6. ASSUME NEW k \in Jobs
        PROVE  /\ Fresh(k) => Fresh(k)'
               /\ Spent(k) => Spent(k)'
               /\ Underway(k)' => Outstanding(k)
    <3>1. CASE k = j
      BY <2>4, <3>1
    <3>2. CASE k # j
      BY <2>2, <2>3, <3>2 DEF Fresh, Spent, Underway, Outstanding
    <3> QED BY <3>1, <3>2
  <2> QED BY <2>2, <2>3, <2>5, <2>6 DEF WorldStep, TypeOK
<1>9. CASE DropCreate(j)
  <2>1. flight' = flight \ {j} /\ j \in flight /\ UNCHANGED <<cluster, creates, born>>
    BY <1>9 DEF DropCreate
  <2>2. creates[j] # 0
    BY <2>1 DEF RequestInv, Fresh
  <2>3. RequestInv'
    BY <1>1, <2>1, <2>2 DEF RequestInv, Fresh
  <2>4. ASSUME NEW k \in Jobs
        PROVE  /\ Fresh(k) => Fresh(k)'
               /\ Spent(k) => Spent(k)'
               /\ Underway(k)' => Outstanding(k)
    BY <2>1, <2>2 DEF Fresh, Spent, Underway, Outstanding
  <2> QED BY <2>1, <2>3, <2>4 DEF WorldStep, TypeOK
<1> QED BY <1>2, <1>3, <1>4, <1>5, <1>6, <1>7, <1>8, <1>9 DEF Environment

\* A command touches the cluster only by its create and by the gated prune.
LEMMA WorldEffect ==
  ASSUME ControlInv, RequestInv, SubmissionInv, NEW p \in Procs, Step(p) \/ Crash(p)
  PROVE  WorldStep /\ now' = now
<1>1. now' = now
  BY DEF Step, Crash, Reconciling, Submitting, Tracking, Helping, AcquireLock, RefuseBlocked,
         ObserveBatch, RetainObservation, RefuseUnresolved, ProjectionFails, SubmitterReconciled, Select,
         StopPlan, Prepare, MarkSubmitting, RecheckNode, Abandon, Create, RetainResponse,
         RetainReceipt, RetainFailure, Attach, Poll, StopPolling, AppendObservation,
         VerifyEvidence, AppendVerification, HelperReconciled, Prune, ObserveForJob, RetainJob
<1>2. CASE UNCHANGED world
  BY <1>1, <1>2, StillWorld DEF ControlInv
<1>3. CASE Create(p)
  BY <1>1, <1>3, CreateIsWorldStep
<1>4. CASE Prune(p)
  BY <1>1, <1>4, PruneIsWorldStep
<1> QED
  BY <1>1, <1>2, <1>3, <1>4
  DEF Step, Crash, Reconciling, Submitting, Tracking, Helping, AcquireLock, RefuseBlocked,
         ObserveBatch, RetainObservation, RefuseUnresolved, ProjectionFails, SubmitterReconciled, Select,
         StopPlan, Prepare, MarkSubmitting, RecheckNode, Abandon, RetainResponse,
         RetainReceipt, RetainFailure, Attach, Poll, StopPolling, AppendObservation,
         VerifyEvidence, AppendVerification, HelperReconciled, ObserveForJob, RetainJob

(***************************************************************************)
(* How a process gets near its create.                                     *)
(***************************************************************************)

\* The points before a create are reached one after the other, for one identity, with
\* the intent written on the way.
Approach(p) ==
  pc'[p] \in BeforeCreate =>
    \/ \E j \in Jobs : Select(p, j) /\ job'[p] = j /\ pc'[p] = "prepare"
    \/ /\ pc[p] = "prepare" /\ pc'[p] = "mark" /\ job'[p] = job[p]
       /\ intents'[job[p]].last = "prepared"
    \/ /\ pc[p] \in {"mark", "recheck"} /\ pc'[p] \in {"recheck", "abandon", "create"}
       /\ pc'[p] = "create" => pc[p] = "recheck"
       /\ job'[p] = job[p]
       /\ intents'[job[p]].last \in {intents[job[p]].last, "submitting"}

LEMMA ApproachEffect ==
  ASSUME ControlInv, NEW p \in Procs, Step(p) \/ Crash(p)
  PROVE  Approach(p)
<1>1. pc \in [Procs -> PCs] /\ job \in [Procs -> Jobs \cup {NoJob}]
  BY DEF ControlInv, TypeOK
<1>2. CASE pc'[p] \notin BeforeCreate
  BY <1>2 DEF Approach
<1>3. CASE Exit(p)
  BY <1>1, <1>2, <1>3 DEF Exit, Goto, BeforeCreate
<1>4. ASSUME NEW s \in {"prepared", "submitting"}
      PROVE  Plain(s) \in Event /\ Plain(s).state = s
  BY DEF Plain, Event, EventStates, Phases
<1>5. ASSUME NEW j \in Jobs, Select(p, j) PROVE Approach(p)
  BY <1>1, <1>5 DEF Select, Goto, Approach
<1>6. CASE Prepare(p) /\ ~Exit(p)
  <2>1. job[p] \in Jobs /\ TypeOK
    BY <1>6 DEF Prepare, ControlInv, JobInv, WithJob
  <2>2. intents' = [intents EXCEPT ![job[p]] = Logged(intents[job[p]], Plain("prepared"))]
    BY <1>6 DEF Prepare, Retain, AppendEvent
  <2>3. intents'[job[p]].last = "prepared"
    BY <1>4, <2>1, <2>2, LoggedType DEF TypeOK
  <2> QED BY <1>1, <1>6, <2>3 DEF Prepare, Goto, Approach
<1>7. CASE MarkSubmitting(p)
  <2>1. job[p] \in Jobs /\ TypeOK
    BY <1>7 DEF MarkSubmitting, ControlInv, JobInv, WithJob
  <2>2. intents'[job[p]].last \in {intents[job[p]].last, "submitting"}
    BY <1>4, <1>7, <2>1, RetainEffect DEF MarkSubmitting
  <2> QED BY <1>1, <1>7, <2>2 DEF MarkSubmitting, Goto, Approach
<1>8. CASE RecheckNode(p)
  BY <1>1, <1>8 DEF RecheckNode, Goto, Approach, durable
<1>9. CASE Create(p) \/ RetainResponse(p) \/ RetainReceipt(p)
  BY <1>1, <1>2, <1>9 DEF Create, RetainResponse, RetainReceipt, Goto, BeforeCreate
<1>10. CASE (Attach(p) \/ Poll(p) \/ StopPolling(p) \/ AppendObservation(p)
             \/ VerifyEvidence(p)) /\ ~Exit(p)
  BY <1>1, <1>2, <1>10
     DEF Attach, Poll, StopPolling, AppendObservation, VerifyEvidence, Goto, BeforeCreate
<1>11. CASE (HelperReconciled(p) \/ Prune(p) \/ ObserveForJob(p)) /\ ~Exit(p)
  BY <1>1, <1>2, <1>11 DEF HelperReconciled, Prune, ObserveForJob, Goto, BeforeCreate
<1>12. CASE (AcquireLock(p) \/ ObserveBatch(p) \/ SubmitterReconciled(p))
  BY <1>1, <1>2, <1>12 DEF AcquireLock, ObserveBatch, SubmitterReconciled, Goto, BeforeCreate
<1>13. ASSUME NEW j \in Jobs, RetainObservation(p, j) PROVE Approach(p)
  BY <1>1, <1>2, <1>3, <1>13 DEF RetainObservation, BeforeCreate
<1> QED
  BY <1>3, <1>5, <1>6, <1>7, <1>8, <1>9, <1>10, <1>11, <1>12, <1>13
     DEF Step, Crash, Reconciling, Submitting, Tracking, Helping, RefuseBlocked,
         RefuseUnresolved, ProjectionFails, StopPlan, Abandon, RetainFailure, AppendVerification, RetainJob

\* Every step is a step of one process, or leaves files and memory alone.
ProcessStep(p) == /\ LedgerStep(p) /\ ControlStep(p) /\ Approach(p)
                  /\ WorldStep /\ now' = now
QuietStep == UNCHANGED <<durable, lock, local>> /\ WorldStep /\ now' \in Nat

LEMMA EveryStep ==
  ASSUME ControlInv, RequestInv, SubmissionInv, [Next]_vars
  PROVE  QuietStep \/ \E p \in Procs : ProcessStep(p)
<1>1. ASSUME NEW p \in Procs, Step(p) \/ Crash(p) PROVE ProcessStep(p)
  BY <1>1, LedgerEffect, ControlEffect, ApproachEffect, WorldEffect DEF ProcessStep
<1>2. ASSUME NEW j \in Jobs, Environment(j) PROVE QuietStep
  BY <1>2, EnvironmentIsWorldStep DEF QuietStep, ControlInv, TypeOK, Environment
<1>3. CASE Tick \/ UNCHANGED vars
  <2>1. TypeOK /\ now \in Nat
    BY DEF ControlInv, TypeOK
  <2>2. UNCHANGED <<durable, lock, local>> /\ UNCHANGED world /\ now' \in {now, now + 1}
    BY <1>3 DEF Tick, vars
  <2>3. now' \in Nat
    BY <2>1, <2>2
  <2> QED BY <2>1, <2>2, <2>3, StillWorld DEF QuietStep
<1> QED BY <1>1, <1>2, <1>3 DEF Next

(***************************************************************************)
(* The invariant, conjunct by conjunct.                                    *)
(***************************************************************************)

THEOREM InitEstablishesIndInv == Init => IndInv
<1> SUFFICES ASSUME Init PROVE IndInv
  OBVIOUS
<1>1. NoIntent \in Intents /\ NoIntent.last = "none"
  BY DEF NoIntent, Intents, EventStates, Phases
<1>2. NoEvent \in Event /\ NoEvent.state = "none"
  BY DEF NoEvent, Plain, Event, EventStates, Phases
<1>3. NoObject \in Objects /\ NoObject.phase = "Absent" /\ NoObject.uid = NoUid
  BY DEF NoObject, Objects, Phases
<1>4. NoBatch \in [Jobs -> Event] /\ \A j \in Jobs : NoBatch[j] = NoEvent
  BY <1>2 DEF NoBatch
<1>5. TypeOK
  BY <1>1, <1>3, <1>4 DEF Init, TypeOK, PCs
<1>6. \A p \in Procs : pc[p] = "idle" /\ batch[p] = NoBatch /\ reply[p] = NoObject
  BY DEF Init
<1>7. LockInv /\ JobInv /\ BatchInv /\ ReplyInv
  BY <1>3, <1>4, <1>6 DEF LockInv, JobInv, BatchInv, ReplyInv, Locked, WithJob, Carrying
<1>8. \A j \in Jobs : Fresh(j)
  BY <1>3 DEF Init, Fresh
<1>9. RequestInv
  <2>1. \A j \in Jobs : creates[j] = 0 /\ cluster[j] = NoObject /\ j \notin flight
    BY DEF Init
  <2>2. now > 0
    <3>1. now = 1
      BY DEF Init
    <3> QED BY <3>1
  <2> QED BY <1>3, <1>8, <2>1, <2>2 DEF RequestInv
<1>10. LedgerInv
  BY <1>1, <1>8 DEF Init, LedgerInv
<1>11. SubmissionInv /\ NodeInv
  BY <1>6 DEF SubmissionInv, NodeInv, BeforeCreate
<1>12. ObservationInv
  BY <1>2, <1>4, <1>6 DEF ObservationInv
<1>13. \A j \in Jobs : ~Outstanding(j)
  BY <1>3, <1>6 DEF Init, Outstanding, Own, NoUid
<1>14. NodeExclusive
  BY <1>13 DEF NodeExclusive
<1> QED BY <1>5, <1>7, <1>9, <1>10, <1>11, <1>12, <1>14 DEF IndInv, ControlInv

LEMMA ControlInvStep ==
  ASSUME ControlInv, QuietStep \/ \E p \in Procs : ProcessStep(p)
  PROVE  ControlInv'
<1>1. CASE QuietStep
  <2>1. UNCHANGED <<intents, csv, lock, pc, job, batch, known, reply>>
    BY <1>1 DEF QuietStep, durable, local
  <2>2. TypeOK'
    BY <1>1, <2>1 DEF QuietStep, WorldStep, ControlInv, TypeOK
  <2>3. (LockInv /\ JobInv /\ BatchInv /\ ReplyInv)'
    BY <2>1 DEF ControlInv, LockInv, JobInv, BatchInv, ReplyInv
  <2> QED BY <2>2, <2>3 DEF ControlInv
<1>2. ASSUME NEW p \in Procs, ProcessStep(p) PROVE ControlInv'
  <2>1. LedgerStep(p) /\ ControlStep(p) /\ WorldStep /\ now' = now
    BY <1>2 DEF ProcessStep
  <2>2. TypeOK'
    BY <2>1 DEF LedgerStep, ControlStep, WorldStep, ControlInv, TypeOK
  <2>3. LockInv'
    <3> SUFFICES ASSUME NEW q \in Procs, pc'[q] \in Locked, q # p PROVE lock' = q
      BY <2>1 DEF LockInv, ControlStep
    <3>1. lock = q
      BY <2>1 DEF ControlStep, ControlInv, LockInv
    <3>2. lock \notin {p, NoProc}
      BY <3>1, ProcsDistinct
    <3> QED BY <2>1, <3>1, <3>2 DEF ControlStep
  <2>4. \A q \in Procs \ {p} : /\ pc'[q] = pc[q] /\ job'[q] = job[q]
                                /\ batch'[q] = batch[q] /\ reply'[q] = reply[q]
    BY <2>1 DEF ControlStep
  <2>5. JobInv'
    <3>1. pc'[p] \in WithJob => job'[p] \in Jobs
      BY <2>1 DEF ControlStep
    <3> QED BY <2>4, <3>1 DEF ControlInv, JobInv
  <2>6. BatchInv'
    <3>1. /\ \A j \in Jobs : batch'[p][j] = NoEvent \/ batch'[p][j].state \in Sightings
          /\ pc'[p] \in Carrying => batch'[p][job'[p]].state \in Sightings
      BY <2>1 DEF ControlStep
    <3> QED BY <2>4, <3>1 DEF ControlInv, BatchInv
  <2>7. ReplyInv'
    <3>1. /\ reply'[p].uid # NoUid => reply'[p].phase # "Absent"
          /\ pc'[p] \in {"receipt", "unsaved"} => reply'[p].uid # NoUid
      BY <2>1 DEF ControlStep
    <3> QED BY <2>4, <3>1 DEF ControlInv, ReplyInv
  <2> QED BY <2>2, <2>3, <2>5, <2>6, <2>7 DEF ControlInv
<1> QED BY <1>1, <1>2

\* While a command is under the lock nobody else moves it or writes the ledger.
LEMMA LockProtects ==
  ASSUME ControlInv, NEW p \in Procs, ProcessStep(p),
         NEW q \in Procs \ {p}, pc[q] \in Locked
  PROVE  durable' = durable /\ pc'[q] = pc[q] /\ job'[q] = job[q]
<1>1. lock = q /\ q \notin {p, NoProc}
  BY ProcsDistinct DEF ControlInv, LockInv
<1> QED BY <1>1 DEF ProcessStep, LedgerStep, ControlStep

\* Two processes are never under the lock together.
LEMMA OneUnderLock ==
  ASSUME ControlInv, NEW p \in Procs, NEW q \in Procs, pc[p] \in Locked, pc[q] \in Locked
  PROVE  p = q
BY DEF ControlInv, LockInv

LEMMA BeforeCreateIsLocked == BeforeCreate \subseteq Locked
BY DEF BeforeCreate, Locked

\* Outstanding work is old, or its process just passed the node check under the lock.
LEMMA OutstandingStep ==
  ASSUME ControlInv, QuietStep \/ \E p \in Procs : ProcessStep(p),
         NEW k \in Jobs, Outstanding(k)'
  PROVE  \/ Outstanding(k)
         \/ \E q \in Procs : pc[q] = "recheck" /\ job[q] = k
<1>1. CASE Underway(k)'
  BY <1>1 DEF QuietStep, ProcessStep, WorldStep
<1>2. ASSUME NEW q \in Procs, pc'[q] = "create", job'[q] = k
      PROVE  Outstanding(k) \/ (pc[q] = "recheck" /\ job[q] = k)
  <2>1. CASE QuietStep
    BY <1>2, <2>1 DEF QuietStep, local, Outstanding
  <2>2. ASSUME NEW p \in Procs, ProcessStep(p), p # q
        PROVE  Outstanding(k)
    BY <1>2, <2>2 DEF ProcessStep, ControlStep, Outstanding
  <2>3. ASSUME ProcessStep(q) PROVE pc[q] = "recheck" /\ job[q] = k
    BY <1>2, <2>3 DEF ProcessStep, Approach, BeforeCreate
  <2> QED BY <2>1, <2>2, <2>3
<1> QED BY <1>1, <1>2 DEF Outstanding, Underway

\* Outstanding work has an unfinished intent: what a released intent says of its Job
\* rules out that anything is left of it.
LEMMA ReservationIsInvariant ==
  ASSUME IndInv
  PROVE  ReservationCoversWork
<1> SUFFICES ASSUME NEW j \in Jobs, Outstanding(j) PROVE Unfinished(j)
  BY DEF ReservationCoversWork
<1>1. RequestInv /\ LedgerInv /\ SubmissionInv
  BY DEF IndInv
<1>2. CASE \E p \in Procs : pc[p] = "create" /\ job[p] = j
  <2>1. intents[j].last \in {"prepared", "submitting"}
    BY <1>1, <1>2 DEF SubmissionInv, BeforeCreate
  <2> QED BY <2>1 DEF Unfinished, Exists, intent_finished, tracking_releases
<1>3. CASE Underway(j)
  <2>1. ~Fresh(j) /\ ~Spent(j)
    BY <1>1, <1>3 DEF Underway, RequestInv, Fresh, Spent, Own, NoUid
  <2>2. intents[j].last \notin {"none", "not_created", "tracking_finished"}
    BY <1>1, <2>1 DEF LedgerInv
  <2> QED BY <2>2 DEF Unfinished, Exists, intent_finished, tracking_releases
<1> QED BY <1>2, <1>3 DEF Outstanding, Underway

\* An identity about to be requested stays untouched until it is.
LEMMA FreshStep ==
  ASSUME IndInv, QuietStep \/ \E p \in Procs : ProcessStep(p),
         NEW j \in Jobs, Fresh(j), ~Sent(j)
  PROVE  Fresh(j)'
BY DEF QuietStep, ProcessStep, WorldStep

LEMMA SubmissionInvStep ==
  ASSUME IndInv, QuietStep \/ \E p \in Procs : ProcessStep(p)
  PROVE  SubmissionInv'
<1>1. ControlInv /\ LedgerInv /\ SubmissionInv
  BY DEF IndInv
<1>2. CASE QuietStep
  <2> SUFFICES ASSUME NEW q \in Procs, pc'[q] \in BeforeCreate
               PROVE  Fresh(job[q])'
    BY <1>1, <1>2 DEF QuietStep, durable, local, SubmissionInv
  <2>1. pc' = pc /\ job' = job /\ job[q] \in Jobs /\ Fresh(job[q]) /\ ~Sent(job[q])
    BY <1>1, <1>2 DEF QuietStep, local, SubmissionInv, ControlInv, JobInv, BeforeCreate,
                      WithJob, Sent
  <2> QED BY <1>2, <2>1 DEF QuietStep, WorldStep
<1>3. ASSUME NEW p \in Procs, ProcessStep(p), NEW q \in Procs, pc'[q] \in BeforeCreate
      PROVE  /\ Fresh(job[q])'
             /\ pc'[q] = "prepare" => intents'[job'[q]].last = "none"
             /\ pc'[q] # "prepare" => intents'[job'[q]].last \in {"prepared", "submitting"}
  <2>1. CASE q # p
    <3>1. pc'[q] = pc[q] /\ job'[q] = job[q]
      BY <1>3, <2>1 DEF ProcessStep, ControlStep
    <3>2. intents' = intents
      BY <1>1, <1>3, <2>1, <3>1, LockProtects, BeforeCreateIsLocked DEF durable
    <3>3. job[q] \in Jobs /\ Fresh(job[q])
      BY <1>1, <1>3, <3>1 DEF SubmissionInv, ControlInv, JobInv, BeforeCreate, WithJob
    <3>4. ~Sent(job[q])
      <4> SUFFICES ASSUME NEW r \in Procs, pc[r] = "create", pc'[r] = "replied" PROVE FALSE
        BY DEF Sent
      <4>1. r = q
        BY <1>1, <1>3, <3>1, OneUnderLock, BeforeCreateIsLocked DEF Locked
      <4> QED BY <3>1, <4>1
    <3>5. Fresh(job[q])'
      BY <1>3, <3>1, <3>3, <3>4 DEF ProcessStep, WorldStep, Fresh
    <3> QED BY <1>1, <1>3, <3>1, <3>2, <3>5 DEF SubmissionInv
  <2>2. CASE q = p
    <3>1. \A r \in Procs : pc[r] = "create" /\ pc'[r] = "replied" => pc[p] \notin Locked
      BY <1>1, <1>3, <2>2, OneUnderLock DEF Locked, BeforeCreate
    <3>2. ASSUME NEW j \in Jobs, Select(p, j), job'[p] = j, pc'[p] = "prepare" PROVE
             Fresh(j)' /\ intents'[j].last = "none"
      <4>1. intents' = intents /\ intents[j].last = "none" /\ pc[p] = "select"
        BY <3>2 DEF Select, check_active_jobs, Exists, durable
      <4>2. Fresh(j) /\ ~Sent(j)
        BY <1>1, <3>1, <4>1 DEF LedgerInv, Sent, Locked
      <4>3. Fresh(j)'
        BY <1>3, <4>2 DEF ProcessStep, WorldStep
      <4> QED BY <4>1, <4>3
    <3>3. ASSUME pc[p] \in BeforeCreate, job'[p] = job[p] PROVE Fresh(job[p])'
      <4>1. job[p] \in Jobs /\ Fresh(job[p]) /\ ~Sent(job[p])
        BY <1>1, <3>1, <3>3, BeforeCreateIsLocked
           DEF SubmissionInv, ControlInv, JobInv, BeforeCreate, WithJob, Sent
      <4> QED BY <1>3, <3>3, <4>1 DEF ProcessStep, WorldStep, Fresh
    <3>4. Approach(p)
      BY <1>3 DEF ProcessStep
    <3> QED BY <1>1, <1>3, <2>2, <3>2, <3>3, <3>4
            DEF Approach, SubmissionInv, BeforeCreate, Fresh
  <2> QED BY <2>1, <2>2
<1> QED BY <1>2, <1>3 DEF SubmissionInv

LEMMA LedgerInvStep ==
  ASSUME IndInv, QuietStep \/ \E p \in Procs : ProcessStep(p)
  PROVE  LedgerInv'
<1>1. ControlInv /\ RequestInv /\ LedgerInv /\ SubmissionInv /\ ObservationInv /\ WorldStep
  BY DEF IndInv, QuietStep, ProcessStep
<1>2. ASSUME NEW j \in Jobs, intents[j].last \in {"none", "not_created"}
      PROVE  Fresh(j)'
  <2>1. Fresh(j)
    BY <1>1, <1>2 DEF LedgerInv
  <2>2. ~Sent(j)
    BY <1>1, <1>2 DEF SubmissionInv, Sent, BeforeCreate
  <2> QED BY <1>1, <2>1, <2>2 DEF WorldStep
<1>3. ASSUME NEW j \in Jobs, Spent(j) PROVE Spent(j)'
  BY <1>1, <1>3 DEF WorldStep
<1>4. ASSUME NEW j \in Jobs, intents[j].last = "tracking_finished" PROVE Spent(j)'
  BY <1>1, <1>3, <1>4 DEF LedgerInv
<1>5. CASE QuietStep
  <2>1. intents' = intents
    BY <1>5 DEF QuietStep, durable
  <2> QED BY <1>2, <1>4, <2>1 DEF LedgerInv
<1>6. ASSUME NEW p \in Procs, ProcessStep(p), NEW j \in Jobs
      PROVE  /\ intents'[j].last \in {"none", "not_created"} => Fresh(j)'
             /\ intents'[j].last = "tracking_finished" => Spent(j)'
  <2>1. CASE intents'[j].last = intents[j].last
    BY <1>2, <1>4, <2>1
  <2>2. CASE intents'[j].last \in Holding
    BY <2>2 DEF Holding
  <2>3. CASE intents'[j].last = "not_created" /\ pc[p] = "abandon" /\ job[p] = j
    <3>1. Fresh(j)
      BY <1>1, <2>3 DEF SubmissionInv, BeforeCreate
    <3>2. ~Sent(j)
      <4> SUFFICES ASSUME NEW r \in Procs, pc[r] = "create" PROVE FALSE
        BY DEF Sent
      <4>1. r = p
        BY <1>1, <2>3, OneUnderLock DEF Locked
      <4> QED BY <2>3, <4>1
    <3> QED BY <1>1, <2>3, <3>1, <3>2 DEF WorldStep
  <2>4. CASE intents'[j].last = "tracking_finished" /\ batch[p][j].state = "tracking_finished"
    BY <1>1, <1>3, <2>4 DEF ObservationInv
  <2> QED BY <1>6, <2>1, <2>2, <2>3, <2>4 DEF ProcessStep, LedgerStep
<1> QED BY <1>5, <1>6 DEF LedgerInv

LEMMA ObservationInvStep ==
  ASSUME IndInv, QuietStep \/ \E p \in Procs : ProcessStep(p)
  PROVE  ObservationInv'
<1>1. RequestInv /\ ObservationInv /\ WorldStep
  BY DEF IndInv, QuietStep, ProcessStep
<1>2. ASSUME NEW j \in Jobs, Spent(j) PROVE Spent(j)'
  BY <1>1, <1>2 DEF WorldStep
<1>3. ASSUME NEW j \in Jobs, cluster[j].phase # "Absent", Ended(cluster[j]) PROVE Spent(j)
  <2>1. creates[j] \in Nat /\ born[j] \in Nat
    BY DEF IndInv, ControlInv, TypeOK
  <2>2. creates[j] # 0 /\ born[j] > 0
    BY <1>1, <1>3 DEF RequestInv, Fresh
  <2>3. j \notin flight
    BY <1>1, <2>2 DEF RequestInv
  <2> QED BY <1>3, <2>1, <2>2, <2>3 DEF Spent
<1>4. CASE QuietStep
  <2>1. batch' = batch
    BY <1>4 DEF QuietStep, local
  <2> QED BY <1>1, <1>2, <2>1 DEF ObservationInv
<1>5. ASSUME NEW p \in Procs, ProcessStep(p), NEW q \in Procs, NEW j \in Jobs,
             batch'[q][j].state = "tracking_finished"
      PROVE  Spent(j)
  <2>1. CASE q = p
    BY <1>1, <1>3, <1>5, <2>1 DEF ProcessStep, ControlStep, ObservationInv, SawEnd
  <2>2. CASE q # p
    BY <1>1, <1>5, <2>2 DEF ProcessStep, ControlStep, ObservationInv
  <2> QED BY <2>1, <2>2
<1> QED BY <1>2, <1>4, <1>5 DEF ObservationInv

LEMMA NodeInvStep ==
  ASSUME IndInv, QuietStep \/ \E p \in Procs : ProcessStep(p)
  PROVE  NodeInv'
<1>1. ControlInv /\ NodeInv
  BY DEF IndInv
<1> SUFFICES ASSUME NEW q \in Procs, pc'[q] \in BeforeCreate,
                    NEW k \in Jobs, k # job'[q], Outstanding(k)'
             PROVE  NodeOf[k] # NodeOf[job'[q]]
  BY DEF NodeInv
<1>2. Outstanding(k) \/ \E r \in Procs : pc[r] = "recheck" /\ job[r] = k
  BY <1>1, OutstandingStep
<1>3. CASE pc[q] \in BeforeCreate /\ job'[q] = job[q]
  <2>1. ~ \E r \in Procs : pc[r] = "recheck" /\ job[r] = k
    BY <1>1, <1>3, OneUnderLock, BeforeCreateIsLocked DEF Locked
  <2> QED BY <1>1, <1>2, <1>3, <2>1 DEF NodeInv
<1>4. CASE QuietStep
  BY <1>3, <1>4 DEF QuietStep, local
<1>5. ASSUME NEW p \in Procs, ProcessStep(p), q # p
      PROVE  NodeOf[k] # NodeOf[job'[q]]
  BY <1>3, <1>5 DEF ProcessStep, ControlStep
<1>6. ASSUME NEW j \in Jobs, Select(q, j), job'[q] = j PROVE NodeOf[k] # NodeOf[job'[q]]
  <2>1. pc[q] = "select" /\ \A i \in ActiveJobs : NodeOf[i] # NodeOf[j]
    BY <1>6 DEF Select, check_active_jobs
  <2>2. ~ \E r \in Procs : pc[r] = "recheck" /\ job[r] = k
    BY <1>1, <2>1, OneUnderLock DEF Locked
  <2>3. Unfinished(k)
    BY <1>2, <2>2, ReservationIsInvariant DEF ReservationCoversWork
  <2> QED BY <1>6, <2>1, <2>3 DEF ActiveJobs
<1>7. CASE ProcessStep(q)
  BY <1>3, <1>6, <1>7 DEF ProcessStep, Approach, BeforeCreate
<1> QED BY <1>4, <1>5, <1>7

LEMMA NodeExclusiveStep ==
  ASSUME IndInv, QuietStep \/ \E p \in Procs : ProcessStep(p)
  PROVE  NodeExclusive'
<1>1. ControlInv /\ NodeInv /\ NodeExclusive
  BY DEF IndInv
<1> SUFFICES ASSUME NEW j \in Jobs, NEW k \in Jobs, j # k, Outstanding(j)', Outstanding(k)'
             PROVE  NodeOf[j] # NodeOf[k]
  BY DEF NodeExclusive
<1> DEFINE Next2(i) == \E q \in Procs : pc[q] = "recheck" /\ job[q] = i
<1>2. (Outstanding(j) \/ Next2(j)) /\ (Outstanding(k) \/ Next2(k))
  BY <1>1, OutstandingStep
<1>3. CASE Outstanding(j) /\ Outstanding(k)
  BY <1>1, <1>3 DEF NodeExclusive
<1>4. ASSUME NEW i \in Jobs, NEW l \in Jobs, i # l, Next2(i), Outstanding(l) \/ Next2(l)
      PROVE  NodeOf[l] # NodeOf[i]
  <2>1. PICK q \in Procs : pc[q] = "recheck" /\ job[q] = i
    BY <1>4
  <2>2. ~Next2(l)
    BY <1>1, <1>4, <2>1, OneUnderLock DEF Locked
  <2> QED BY <1>1, <1>4, <2>1, <2>2 DEF NodeInv, BeforeCreate
<1> HIDE DEF Next2
<1> QED BY <1>2, <1>3, <1>4

(***************************************************************************)
(* The results.                                                            *)
(***************************************************************************)

\* The strengthened invariant is inductive: no step of any process, of the cluster or
\* of the faults breaks it.
THEOREM IndInvIsInductive == IndInv /\ [Next]_vars => IndInv'
<1> SUFFICES ASSUME IndInv, [Next]_vars PROVE IndInv'
  OBVIOUS
<1>1. QuietStep \/ \E p \in Procs : ProcessStep(p)
  BY EveryStep DEF IndInv
<1>2. ControlInv'
  BY <1>1, ControlInvStep DEF IndInv
<1>3. RequestInv'
  BY <1>1 DEF QuietStep, ProcessStep, WorldStep
<1>4. LedgerInv' /\ SubmissionInv' /\ ObservationInv'
  BY <1>1, LedgerInvStep, SubmissionInvStep, ObservationInvStep
<1>5. NodeInv' /\ NodeExclusive'
  BY <1>1, NodeInvStep, NodeExclusiveStep
<1> QED BY <1>2, <1>3, <1>4, <1>5 DEF IndInv

\* The strengthened invariant holds in every reachable state.
THEOREM Invariance == Spec => []IndInv
BY InitEstablishesIndInv, IndInvIsInductive, PTL DEF Spec

\* Files, memory, cluster and history keep their types.
THEOREM TypeCorrect == Spec => []TypeOK
<1>1. IndInv => TypeOK
  BY DEF IndInv, ControlInv
<1> QED BY <1>1, Invariance, PTL

\* Whatever is lost, retried, raced or crashed, no identity is sent to the cluster
\* twice (submit_workflow_plan never recreates an identity with an intent).
THEOREM NeverRecreated == Spec => []CreatedAtMostOnce
<1>1. IndInv => CreatedAtMostOnce
  BY DEF IndInv, RequestInv, CreatedAtMostOnce
<1> QED BY <1>1, Invariance, PTL

\* Work that runs or may still start always has an unfinished durable intent.
THEOREM ReservationSafety == Spec => []ReservationCoversWork
<1>1. IndInv => ReservationCoversWork
  BY ReservationIsInvariant
<1> QED BY <1>1, Invariance, PTL

\* Two identities never have outstanding work on one node.
THEOREM NodeSafety == Spec => []NodeExclusive
<1>1. IndInv => NodeExclusive
  BY DEF IndInv
<1> QED BY <1>1, Invariance, PTL

\* `not_created`, which releases a node without an observation, is only ever retained
\* for an identity no request was made for.
THEOREM NotCreatedSafety == Spec => []NotCreatedIsTrue
<1>1. IndInv => NotCreatedIsTrue
  BY DEF IndInv, LedgerInv, Fresh, NotCreatedIsTrue
<1> QED BY <1>1, Invariance, PTL

-----------------------------------------------------------------------------
(***************************************************************************)
(* What admission decides from, and what it bounds, for any jobs, nodes    *)
(* and processes, any budget and cooldown and any combination of faults:   *)
(* projected rows are fresh, the ledger is settled, budget and cooldown    *)
(* are kept, and an intent never mixes two Job objects.  Each rests on the *)
(* invariant above and on one of its own.                                  *)
(***************************************************************************)

(***************************************************************************)
(* What is written, by whom.                                               *)
(***************************************************************************)
Answered == {"receipt", "failed", "clash", "unsaved"}

\* A command appends a waiting observation, or an event of its own submission.
Write(p, j, e) ==
  /\ lock \in {p, NoProc} /\ e.state # "none"
  /\ intents' = [intents EXCEPT ![j] = Logged(intents[j], e)]
  /\ \/ pc[p] = "retain" /\ e = batch[p][j]
     \/ pc[p] \in Carrying /\ j = job[p] /\ e = batch[p][j]
     \/ /\ pc[p] \in {"prepare", "mark", "abandon"} /\ j = job[p]
        /\ e.uid = NoUid /\ e.reply = NoUid /\ e.state # "tracking_finished"
     \/ /\ pc[p] \in Answered \cup {"replied"} /\ j = job[p]
        /\ e.uid \in {NoUid, reply[p].uid} /\ e.reply \in {NoUid, reply[p].uid}
        /\ e.state # "tracking_finished"

Written(p) == intents' = intents \/ \E j \in Jobs, e \in Event : Write(p, j, e)

\* A write, complete or failing half-way, leaves state.json or appends to it.
LEMMA RetainWrites ==
  ASSUME NEW j, NEW e, Retain(j, e) \/ RetainFails(j, e)
  PROVE  intents' = intents \/ intents' = [intents EXCEPT ![j] = Logged(intents[j], e)]
BY DEF Retain, RetainFails, AppendEvent, durable

\* What a step appends is what its program point says.
LEMMA EveryWrite ==
  ASSUME ControlInv, NEW p \in Procs, Step(p) \/ Crash(p)
  PROVE  Written(p)
<1>1. TypeOK /\ (pc[p] \in Locked => lock = p) /\ (pc[p] \in WithJob => job[p] \in Jobs)
  BY DEF ControlInv, LockInv, JobInv
<1>2. ASSUME NEW s \in {"prepared", "submitting", "not_created", "uncertain", "conflict"}
      PROVE  Plain(s) \in Event /\ Plain(s).state = s /\ Plain(s).uid = NoUid
             /\ Plain(s).reply = NoUid
  BY DEF Plain, Event, EventStates, Phases
<1>3. \A j \in Jobs : batch[p][j] \in Event
  BY <1>1 DEF TypeOK
<1>4. "none" \notin Sightings
  BY DEF Sightings
<1>5. ASSUME NEW j \in Jobs, RetainObservation(p, j) PROVE Written(p)
  <2>1. pc[p] = "retain" /\ lock = p
    BY <1>1, <1>5 DEF RetainObservation, Locked
  <2>2. batch[p][j].state # "none"
    BY <1>4, <1>5 DEF RetainObservation, ControlInv, BatchInv
  <2>3. intents' = intents \/ intents' = [intents EXCEPT ![j] = Logged(intents[j], batch[p][j])]
    BY <1>5, RetainWrites DEF RetainObservation
  <2>4. CASE intents' = intents
    BY <2>4 DEF Written
  <2>5. CASE intents' = [intents EXCEPT ![j] = Logged(intents[j], batch[p][j])]
    <3>1. Write(p, j, batch[p][j])
      BY <2>1, <2>2, <2>5 DEF Write
    <3> QED BY <1>3, <3>1 DEF Written
  <2> QED BY <2>3, <2>4, <2>5
<1>6. ASSUME pc[p] \in Carrying, lock \in {p, NoProc},
             Retain(job[p], batch[p][job[p]]) \/ RetainFails(job[p], batch[p][job[p]])
      PROVE  Written(p)
  <2>1. job[p] \in Jobs
    BY <1>1, <1>6 DEF Carrying, WithJob
  <2>2. batch[p][job[p]].state # "none"
    BY <1>4, <1>6 DEF ControlInv, BatchInv
  <2> QED BY <1>3, <1>6, <2>1, <2>2, RetainWrites DEF Written, Write
<1>7. ASSUME NEW s \in {"prepared", "submitting", "not_created"},
             pc[p] \in {"prepare", "mark", "abandon"},
             Retain(job[p], Plain(s)) \/ RetainFails(job[p], Plain(s))
      PROVE  Written(p)
  <2>1. job[p] \in Jobs /\ lock = p
    BY <1>1, <1>7 DEF Locked, WithJob
  <2> QED BY <1>2, <1>7, <2>1, RetainWrites DEF Written, Write
<1>8. ASSUME NEW e \in Event, pc[p] \in Answered \cup {"replied"},
             e.uid \in {NoUid, reply[p].uid}, e.reply \in {NoUid, reply[p].uid},
             e.state \in {"uncertain", "conflict", "submitted"},
             Retain(job[p], e) \/ RetainFails(job[p], e)
      PROVE  Written(p)
  <2>1. job[p] \in Jobs /\ lock = p
    BY <1>1, <1>8 DEF Answered, Locked, WithJob
  <2> QED BY <1>8, <2>1, RetainWrites DEF Written, Write
<1>9. CASE RetainResponse(p)
  <2> DEFINE e == [Plain("uncertain") EXCEPT !.reply = reply[p].uid]
  <2>1. e \in Event /\ e.state = "uncertain" /\ e.uid = NoUid /\ e.reply = reply[p].uid
    BY <1>1 DEF TypeOK, Plain, Event, EventStates, Phases, Objects
  <2>2. pc[p] = "replied" /\ (Retain(job[p], e) \/ RetainFails(job[p], e))
    BY <1>9 DEF RetainResponse
  <2> QED BY <1>8, <2>1, <2>2
<1>10. CASE RetainReceipt(p)
  <2> DEFINE e == [state |-> "submitted", phase |-> reply[p].phase, uid |-> reply[p].uid,
                   reply |-> NoUid, created |-> reply[p].at]
  <2>1. e \in Event /\ e.state = "submitted" /\ e.uid = reply[p].uid /\ e.reply = NoUid
    BY <1>1, <1>10 DEF RetainReceipt, ControlInv, TypeOK, ReplyInv, Event, EventStates, Phases,
                       Objects
  <2>2. pc[p] = "receipt" /\ (Retain(job[p], e) \/ RetainFails(job[p], e))
    BY <1>10 DEF RetainReceipt
  <2> QED BY <1>8, <2>1, <2>2 DEF Answered
<1>11. CASE RetainFailure(p)
  <2> DEFINE s == IF pc[p] = "clash" THEN "conflict" ELSE "uncertain"
             e == [Plain(s) EXCEPT !.reply = reply[p].uid,
                                   !.uid = IF pc[p] = "unsaved" THEN reply[p].uid ELSE NoUid]
  <2>1. /\ e \in Event /\ e.state \in {"uncertain", "conflict"}
        /\ e.uid \in {NoUid, reply[p].uid} /\ e.reply = reply[p].uid
    BY <1>1 DEF TypeOK, Plain, Event, EventStates, Phases, Objects
  <2>2. pc[p] \in Answered /\ (Retain(job[p], e) \/ RetainFails(job[p], e))
    BY <1>11 DEF RetainFailure, Answered
  <2> QED BY <1>8, <2>1, <2>2
<1>12. CASE Prepare(p) \/ MarkSubmitting(p) \/ Abandon(p)
  BY <1>7, <1>12 DEF Prepare, MarkSubmitting, Abandon
<1>13. CASE AppendObservation(p) \/ AppendVerification(p)
  BY <1>6, <1>13 DEF AppendObservation, AppendVerification, Carrying, Written, durable
<1>14. CASE RetainJob(p)
  BY <1>1, <1>6, <1>14 DEF RetainJob, Carrying, Locked
<1>15. CASE intents' = intents
  BY <1>15 DEF Written
<1> QED
  BY <1>5, <1>9, <1>10, <1>11, <1>12, <1>13, <1>14, <1>15
     DEF Step, Crash, Reconciling, Submitting, Tracking, Helping, AcquireLock, RefuseBlocked,
         ObserveBatch, RefuseUnresolved, ProjectionFails, SubmitterReconciled, Select, StopPlan,
         RecheckNode, Create, Attach, Poll, StopPolling, VerifyEvidence, HelperReconciled, Prune,
         ObserveForJob, durable

(***************************************************************************)
(* What admission decides from.                                            *)
(***************************************************************************)
\* Submission is entered, or resumed after a receipt, with all rows rebuilt.
Resumed(p) ==
  /\ csv' = project_submission_jobs(intents')
  /\ \/ pc[p] = "retain" /\ intents' = intents
        /\ \A j \in Jobs : Unfinished(j) => intents[j].last = "observed"
     \/ pc[p] = "receipt" /\ intents'[job[p]].last = "submitted"

\* How a process comes to select, to wait for its response, and to record a receipt.
LEMMA StageEffect ==
  ASSUME ControlInv, NEW p \in Procs, Step(p) \/ Crash(p)
  PROVE  /\ pc'[p] = "select" => Resumed(p)
         /\ pc'[p] = "replied" => Create(p)
         /\ pc'[p] = "receipt" => RetainResponse(p)
<1>1. TypeOK /\ (pc[p] \in WithJob => job[p] \in Jobs)
  BY DEF ControlInv, JobInv
<1>2. CASE Exit(p)
  BY <1>1, <1>2 DEF Exit, Goto, TypeOK
<1>3. CASE SubmitterReconciled(p)
  BY <1>1, <1>3 DEF SubmitterReconciled, Reconciled, Goto, TypeOK, Resumed
<1>4. CASE RetainReceipt(p)
  <2> DEFINE e == [state |-> "submitted", phase |-> reply[p].phase, uid |-> reply[p].uid,
                   reply |-> NoUid, created |-> reply[p].at]
  <2>1. pc[p] = "receipt" /\ job[p] \in Jobs /\ pc'[p] \in {"select", "attach", "unsaved"}
    BY <1>1, <1>4 DEF RetainReceipt, Goto, TypeOK, WithJob
  <2>2. pc'[p] = "select" => Retain(job[p], e)
    BY <1>1, <1>4 DEF RetainReceipt, Goto, TypeOK
  <2>3. Retain(job[p], e) => intents'[job[p]].last = "submitted"
    <3>1. e.state = "submitted"
      OBVIOUS
    <3> HIDE DEF e
    <3>2. Logged(intents[job[p]], e).last = "submitted"
      BY <3>1 DEF Logged
    <3> QED BY <1>1, <2>1, <3>2 DEF Retain, AppendEvent, TypeOK
  <2> QED BY <2>1, <2>2, <2>3 DEF Resumed, Retain
<1>5. CASE Create(p) \/ RetainResponse(p)
  BY <1>1, <1>5 DEF Create, RetainResponse, Goto, TypeOK
<1>6. ASSUME NEW j \in Jobs, RetainObservation(p, j) \/ Select(p, j)
      PROVE  pc'[p] \in {"idle", "retain", "prepare"}
  BY <1>1, <1>6 DEF RetainObservation, Select, Exit, Goto, TypeOK
<1>7. CASE pc'[p] \notin {"select", "replied", "receipt"}
  BY <1>7
<1>8. CASE Prepare(p) \/ MarkSubmitting(p) \/ RecheckNode(p)
  BY <1>1, <1>7, <1>8 DEF Prepare, MarkSubmitting, RecheckNode, Exit, Goto, TypeOK
<1>9. CASE Attach(p) \/ Poll(p) \/ StopPolling(p) \/ AppendObservation(p) \/ VerifyEvidence(p)
  BY <1>1, <1>2, <1>7, <1>9
     DEF Attach, Poll, StopPolling, AppendObservation, VerifyEvidence, Goto, TypeOK
<1>10. CASE HelperReconciled(p) \/ Prune(p) \/ ObserveForJob(p)
  BY <1>1, <1>2, <1>7, <1>10 DEF HelperReconciled, Prune, ObserveForJob, Goto, TypeOK
<1>11. CASE AcquireLock(p) \/ ObserveBatch(p)
  BY <1>1, <1>7, <1>11 DEF AcquireLock, ObserveBatch, Goto, TypeOK
<1> QED
  BY <1>2, <1>3, <1>4, <1>5, <1>6, <1>7, <1>8, <1>9, <1>10, <1>11
     DEF Step, Crash, Reconciling, Submitting, Tracking, Helping, RefuseBlocked,
         RefuseUnresolved, ProjectionFails, StopPlan, Abandon, RetainFailure,
         AppendVerification, RetainJob

\* Who is not the one at work keeps what it decides from.
LEMMA Undisturbed ==
  ASSUME ControlInv, NEW p \in Procs, ProcessStep(p),
         NEW q \in Procs \ {p}, pc'[q] \in Locked
  PROVE  UNCHANGED <<intents, csv>> /\ pc'[q] = pc[q] /\ job'[q] = job[q]
<1>1. pc'[q] = pc[q]
  BY DEF ProcessStep, ControlStep
<1> QED BY <1>1, LockProtects DEF durable

\* Rows stay fresh while a submitter decides: nobody else writes under its lock.
LEMMA FreshRowsStep ==
  ASSUME ControlInv, AdmissionSeesFreshRows,
         QuietStep \/ \E p \in Procs : ProcessStep(p) /\ (Step(p) \/ Crash(p))
  PROVE  AdmissionSeesFreshRows'
<1> SUFFICES ASSUME NEW q \in Procs, pc'[q] = "select"
             PROVE  csv' = project_submission_jobs(intents')
  BY DEF AdmissionSeesFreshRows, project_submission_jobs
<1>1. CASE QuietStep
  BY <1>1 DEF QuietStep, durable, local, AdmissionSeesFreshRows
<1>2. ASSUME NEW p \in Procs, ProcessStep(p), p # q
      PROVE  csv' = project_submission_jobs(intents')
  BY <1>2, Undisturbed DEF AdmissionSeesFreshRows, Locked
<1>3. CASE Step(q) \/ Crash(q)
  BY <1>3, StageEffect DEF Resumed
<1> QED BY <1>1, <1>2, <1>3

(***************************************************************************)
(* What a create needs of the other intents.                               *)
(***************************************************************************)
Confirmed(k) == Unfinished(k) => intents[k].last \in {"observed", "submitted"}

SettledInv ==
  \A p \in Procs, k \in Jobs :
    \/ pc[p] = "select"
    \/ pc[p] \in BeforeCreate \cup {"replied", "receipt"} /\ k # job[p]
    => Confirmed(k)

\* A submission disturbs its own intent only, so the others stay confirmed.
LEMMA SettledStep ==
  ASSUME ControlInv, SettledInv,
         QuietStep \/ \E p \in Procs : ProcessStep(p) /\ (Step(p) \/ Crash(p))
  PROVE  SettledInv'
<1>1. ASSUME NEW k \in Jobs, Confirmed(k), intents'[k] = intents[k] PROVE Confirmed(k)'
  BY <1>1 DEF Confirmed, Unfinished, Exists
<1>2. CASE QuietStep
  BY <1>1, <1>2 DEF QuietStep, durable, local, SettledInv
<1>3. ASSUME NEW p \in Procs, ProcessStep(p), Step(p) \/ Crash(p),
             NEW q \in Procs, NEW k \in Jobs,
             \/ pc'[q] = "select"
             \/ pc'[q] \in BeforeCreate \cup {"replied", "receipt"} /\ k # job'[q]
      PROVE  Confirmed(k)'
  <2>1. CASE q # p
    <3>1. UNCHANGED <<intents, csv>> /\ pc'[q] = pc[q] /\ job'[q] = job[q]
      BY <1>3, <2>1, Undisturbed DEF BeforeCreate, Locked
    <3> QED BY <1>1, <1>3, <3>1 DEF SettledInv
  <2>2. ASSUME q = p, pc[p] \in BeforeCreate \cup {"replied", "receipt"}, k # job[p]
        PROVE  Confirmed(k)'
    <3>1. intents'[k] = intents[k]
      <4>1. Written(p) /\ TypeOK
        BY <1>3, EveryWrite DEF ControlInv
      <4>2. pc[p] # "retain" /\ pc[p] \notin Carrying
        BY <2>2 DEF BeforeCreate, Carrying
      <4> QED BY <2>2, <4>1, <4>2 DEF Written, Write, TypeOK
    <3> QED BY <1>1, <2>2, <3>1 DEF SettledInv
  <2>3. CASE q = p /\ pc'[p] = "select"
    <3>1. Resumed(p)
      BY <1>3, <2>3, StageEffect
    <3>2. CASE intents' = intents /\ \A j \in Jobs : Unfinished(j) => intents[j].last = "observed"
      BY <1>1, <3>2 DEF Confirmed
    <3>3. CASE pc[p] = "receipt" /\ intents'[job[p]].last = "submitted"
      BY <2>2, <2>3, <3>3 DEF Confirmed
    <3> QED BY <3>1, <3>2, <3>3 DEF Resumed
  <2>4. CASE q = p /\ pc'[p] \in {"replied", "receipt"}
    <3>1. Create(p) \/ RetainResponse(p)
      BY <1>3, <2>4, StageEffect
    <3>2. pc[p] \in BeforeCreate \cup {"replied"} /\ job'[p] = job[p]
      BY <3>1 DEF Create, RetainResponse, BeforeCreate
    <3> QED BY <1>3, <2>2, <2>4, <3>2
  <2>5. CASE q = p /\ pc'[p] \in BeforeCreate
    <3>1. Approach(p)
      BY <1>3 DEF ProcessStep
    <3>2. CASE job'[p] = job[p] /\ pc[p] \in BeforeCreate
      BY <1>3, <2>2, <2>5, <3>2 DEF BeforeCreate
    <3>3. ASSUME NEW j \in Jobs, Select(p, j) PROVE Confirmed(k)'
      BY <1>1, <3>3 DEF Select, SettledInv, durable
    <3> QED BY <2>5, <3>1, <3>2, <3>3 DEF Approach, BeforeCreate
  <2> QED BY <1>3, <2>1, <2>3, <2>4, <2>5
<1> QED BY <1>2, <1>3 DEF SettledInv

(***************************************************************************)
(* The budget.                                                             *)
(***************************************************************************)
Work == {k \in Jobs : Outstanding(k)}

\* Between the admission check and the create a slot stays free for it.
BudgetInv ==
  \A p \in Procs : pc[p] \in BeforeCreate => Cardinality(Work \ {job[p]}) < Budget

\* Only the process under the lock adds work, into the slot its check left free.
LEMMA BudgetStep ==
  ASSUME IsFiniteSet(Jobs), IndInv, BudgetInv, BudgetRespected,
         QuietStep \/ \E p \in Procs : ProcessStep(p)
  PROVE  BudgetInv' /\ BudgetRespected'
<1>1. ControlInv
  BY DEF IndInv
<1>2. Work \subseteq Jobs /\ Work' \subseteq Jobs /\ ActiveJobs \subseteq Jobs
  BY DEF Work, ActiveJobs
<1>3. IsFiniteSet(Work) /\ IsFiniteSet(Work') /\ IsFiniteSet(ActiveJobs)
  BY <1>2, FS_Subset
<1>4. ASSUME NEW S \in SUBSET Jobs, NEW T \in SUBSET S
      PROVE  Cardinality(S) \in Nat /\ Cardinality(T) \in Nat /\ Cardinality(T) <= Cardinality(S)
  <2>1. IsFiniteSet(S) /\ IsFiniteSet(T)
    BY <1>4, FS_Subset
  <2> QED BY <2>1, <1>4, FS_Subset, FS_CardinalityType
<1>5. Budget \in Nat
  BY BudgetPositive
<1>6. \A k \in Work' : k \in Work \/ \E q \in Procs : pc[q] = "recheck" /\ job[q] = k
  BY <1>1, OutstandingStep DEF Work
<1>7. ASSUME NEW q \in Procs, pc[q] \in BeforeCreate
      PROVE  Work' \ {job[q]} \subseteq Work \ {job[q]}
  BY <1>1, <1>6, <1>7, OneUnderLock, BeforeCreateIsLocked DEF Locked
<1>8. ASSUME NEW q \in Procs, pc[q] \in Locked \ {"recheck"}
      PROVE  Work' \subseteq Work
  BY <1>1, <1>6, <1>8, OneUnderLock DEF Locked
<1>9. BudgetRespected'
  <2>1. BudgetRespected' <=> Cardinality(Work') <= Budget
    BY DEF BudgetRespected, Work
  <2>2. Cardinality(Work) <= Budget
    BY DEF BudgetRespected, Work
  <2>3. CASE Work' \subseteq Work
    BY <1>2, <1>4, <1>5, <2>1, <2>2, <2>3
  <2>4. ASSUME NEW q \in Procs, pc[q] = "recheck" PROVE Cardinality(Work') <= Budget
    <3>1. Cardinality(Work \ {job[q]}) < Budget /\ Work' \ {job[q]} \subseteq Work \ {job[q]}
      BY <1>7, <2>4 DEF BudgetInv, BeforeCreate
    <3>2. /\ Cardinality(Work' \ {job[q]}) \in Nat
          /\ Cardinality(Work' \ {job[q]}) <= Cardinality(Work \ {job[q]})
          /\ Cardinality(Work \ {job[q]}) \in Nat
      BY <1>2, <1>4, <3>1
    <3>3. CASE job[q] \in Work'
      <4>1. Cardinality(Work' \ {job[q]}) = Cardinality(Work') - 1
        BY <1>3, <3>3, FS_RemoveElement
      <4>2. Cardinality(Work') \in Nat
        BY <1>3, FS_CardinalityType
      <4> QED BY <1>5, <3>1, <3>2, <4>1, <4>2
    <3>4. CASE job[q] \notin Work'
      <4>1. Work' \ {job[q]} = Work'
        BY <3>4
      <4> QED BY <1>5, <3>1, <3>2, <4>1
    <3> QED BY <3>3, <3>4
  <2> QED BY <1>6, <2>1, <2>3, <2>4
<1>10. ASSUME NEW q \in Procs, pc'[q] \in BeforeCreate
       PROVE  Cardinality(Work' \ {job'[q]}) < Budget
  <2>1. CASE pc[q] \in BeforeCreate /\ job'[q] = job[q]
    <3>1. Work' \ {job'[q]} \subseteq Work \ {job[q]} /\ Work \ {job[q]} \subseteq Jobs
      BY <1>2, <1>7, <2>1
    <3>2. Cardinality(Work \ {job[q]}) < Budget
      BY <2>1 DEF BudgetInv
    <3> QED BY <1>4, <1>5, <3>1, <3>2
  <2>2. CASE QuietStep
    BY <1>10, <2>1, <2>2 DEF QuietStep, local
  <2>3. ASSUME NEW p \in Procs, ProcessStep(p), p # q
        PROVE  Cardinality(Work' \ {job'[q]}) < Budget
    BY <1>10, <2>1, <2>3 DEF ProcessStep, ControlStep
  <2>4. ASSUME NEW j \in Jobs, Select(q, j) PROVE Cardinality(Work' \ {job'[q]}) < Budget
    <3>1. pc[q] = "select" /\ Cardinality(ActiveJobs) < Budget
      BY <2>4 DEF Select, check_active_jobs
    <3>2. Work' \subseteq Work
      BY <1>8, <3>1 DEF Locked
    <3>3. Work \subseteq ActiveJobs
      BY ReservationIsInvariant DEF ReservationCoversWork, Work, ActiveJobs
    <3> QED BY <1>2, <1>4, <1>5, <3>1, <3>2, <3>3
  <2>5. CASE ProcessStep(q)
    BY <1>10, <2>1, <2>4, <2>5 DEF ProcessStep, Approach, BeforeCreate
  <2> QED BY <2>2, <2>3, <2>5
<1> QED BY <1>9, <1>10 DEF BudgetInv

(***************************************************************************)
(* The cooldown.                                                           *)
(***************************************************************************)
Requesting(k) == k \in flight \/ \E p \in Procs : pc[p] = "create" /\ job[p] = k
Coming(k) == k \in flight \/ \E p \in Procs : pc[p] \in BeforeCreate /\ job[p] = k

ClockInv ==
  \A j \in Jobs :
    /\ born[j] <= now
    /\ cluster[j].phase # "Absent" => cluster[j].at >= born[j]

\* A terminal observation, waiting or retained, dates from the Job the package made or later.
DatedInv ==
  \A j \in Jobs :
    /\ intents[j].last = "tracking_finished" => intents[j].created >= born[j]
    /\ \A p \in Procs : batch[p][j].state = "tracking_finished" => batch[p][j].created >= born[j]

\* Who may still be created on a node has waited for everybody before it.
ComingInv ==
  \A j, k \in Jobs : Coming(k) /\ j # k /\ NodeOf[j] = NodeOf[k] /\ born[j] > 0
                      => born[j] + Cooldown <= now

CoolInv == ClockInv /\ DatedInv /\ ComingInv /\ CooldownHonoured

\* Jobs are born now, of a request, under a free name; Job objects keep their date.
BirthStep ==
  /\ now' \in {now, now + 1}
  /\ \A k \in Jobs :
       /\ k \in flight' => Requesting(k)
       /\ \/ born'[k] = born[k]
          \/ born'[k] = now /\ now' = now /\ cluster[k].phase = "Absent" /\ Requesting(k)
       /\ cluster'[k].phase # "Absent" =>
            \/ cluster'[k].at = now
            \/ cluster'[k].at = cluster[k].at /\ cluster[k].phase # "Absent"

\* Every step of anybody dates Jobs as described.
LEMMA EveryBirthStep ==
  ASSUME ControlInv, [Next]_vars
  PROVE  BirthStep
<1>1. TypeOK /\ \A p \in Procs : pc[p] \in WithJob => job[p] \in Jobs
  BY DEF ControlInv, JobInv
<1>2. CASE UNCHANGED world /\ now' \in {now, now + 1}
  BY <1>2 DEF world, BirthStep, Requesting
<1>3. ASSUME NEW j \in Jobs, UNCHANGED <<born, now>>, flight' \subseteq flight,
             NEW o, cluster' = [cluster EXCEPT ![j] = o],
             o.phase # "Absent" =>
               (o.at = now \/ (o.at = cluster[j].at /\ cluster[j].phase # "Absent"))
      PROVE  BirthStep
  <2>1. cluster'[j] = o /\ \A k \in Jobs \ {j} : cluster'[k] = cluster[k]
    BY <1>1, <1>3 DEF TypeOK
  <2> QED BY <1>3, <2>1 DEF BirthStep, Requesting
<1>4. ASSUME NEW j \in Jobs, now' = now, Requesting(j), cluster[j].phase = "Absent",
             flight' \subseteq flight, born' = [born EXCEPT ![j] = now],
             NEW ok, cluster' = [cluster EXCEPT ![j] = NewObject(Own, ok)]
      PROVE  BirthStep
  <2>1. cluster'[j].at = now /\ \A k \in Jobs \ {j} : cluster'[k] = cluster[k]
    BY <1>1, <1>4 DEF TypeOK, NewObject
  <2>2. born'[j] = now /\ \A k \in Jobs \ {j} : born'[k] = born[k]
    BY <1>1, <1>4 DEF TypeOK
  <2>3. flight' \subseteq flight
    BY <1>4
  <2> QED BY <1>4, <2>1, <2>2, <2>3 DEF BirthStep, Requesting
<1>5. ASSUME NEW p \in Procs, Create(p) PROVE BirthStep
  <2>1. job[p] \in Jobs /\ Requesting(job[p]) /\ now' = now /\ pc[p] = "create"
    BY <1>1, <1>5 DEF Create, WithJob, Requesting
  <2>2. CASE /\ cluster[job[p]].phase = "Absent" /\ born' = [born EXCEPT ![job[p]] = now]
             /\ flight' = flight
             /\ \E ok \in BOOLEAN : cluster' = [cluster EXCEPT ![job[p]] = NewObject(Own, ok)]
    BY <1>4, <2>1, <2>2
  <2>3. CASE /\ UNCHANGED <<cluster, born>> /\ flight' \in {flight, flight \cup {job[p]}}
    BY <2>1, <2>3 DEF BirthStep, Requesting
  <2> QED BY <1>5, <2>2, <2>3 DEF Create
<1>6. ASSUME NEW p \in Procs, Prune(p) PROVE BirthStep
  <2>1. job[p] \in Jobs
    BY <1>1, <1>6 DEF Prune, WithJob
  <2> DEFINE o == [cluster[job[p]] EXCEPT !.deleting = (@ \/ cluster[job[p]].phase # "Absent")]
  <2>2. o.phase = cluster[job[p]].phase /\ o.at = cluster[job[p]].at
    <3>1. cluster[job[p]] \in Objects
      BY <1>1, <2>1 DEF TypeOK
    <3> QED BY <3>1 DEF Objects
  <2>3. cluster' = [cluster EXCEPT ![job[p]] = o] /\ UNCHANGED <<born, now, flight>>
    BY <1>1, <1>6, <2>1 DEF Prune, TypeOK
  <2> HIDE DEF o
  <2> QED BY <1>3, <2>1, <2>2, <2>3
<1>7. ASSUME NEW p \in Procs, Step(p) \/ Crash(p) PROVE BirthStep
  BY <1>2, <1>5, <1>6, <1>7
     DEF Step, Crash, Reconciling, Submitting, Tracking, Helping, AcquireLock, RefuseBlocked,
         ObserveBatch, RetainObservation, RefuseUnresolved, ProjectionFails,
         SubmitterReconciled, Select, StopPlan, Prepare, MarkSubmitting, RecheckNode, Abandon,
         RetainResponse, RetainReceipt, RetainFailure, Attach, Poll, StopPolling,
         AppendObservation, VerifyEvidence, AppendVerification, HelperReconciled,
         ObserveForJob, RetainJob
<1>8. ASSUME NEW j \in Jobs, Environment(j) PROVE BirthStep
  <2>1. now' = now /\ cluster[j] \in Objects
    BY <1>1, <1>8 DEF Environment, TypeOK
  <2>2. CASE StartJob(j) \/ EndJob(j) \/ EndPod(j) \/ DeleteJob(j)
    <3>1. UNCHANGED <<born, now, flight>>
      BY <2>1, <2>2 DEF StartJob, EndJob, EndPod, DeleteJob
    <3>2. \E o \in Objects :
            /\ cluster' = [cluster EXCEPT ![j] = o]
            /\ o.at = cluster[j].at
            /\ o.phase # "Absent" => cluster[j].phase # "Absent"
      <4>1. CASE StartJob(j)
        BY <2>1, <4>1 DEF StartJob, SetObject, Objects, Phases
      <4>2. CASE EndJob(j)
        BY <2>1, <4>2 DEF EndJob, SetObject, Objects, Phases, Terminal
      <4>3. CASE EndPod(j)
        <5> DEFINE o == [cluster[j] EXCEPT !.pod = "done"]
        <5>1. o \in Objects /\ o.at = cluster[j].at /\ o.phase = cluster[j].phase
          BY <2>1 DEF Objects
        <5>2. cluster' = [cluster EXCEPT ![j] = o]
          BY <4>3 DEF EndPod, SetObject
        <5> QED BY <5>1, <5>2
      <4>4. CASE DeleteJob(j)
        BY <2>1, <4>4 DEF DeleteJob, SetObject, Objects, Phases
      <4> QED BY <2>2, <4>1, <4>2, <4>3, <4>4
    <3> QED BY <1>3, <3>1, <3>2
  <2>3. CASE VanishJob(j)
    <3>1. NoObject.phase = "Absent"
      BY DEF NoObject
    <3> QED BY <1>3, <2>1, <2>3, <3>1 DEF VanishJob, SetObject
  <2>4. CASE ReplaceJob(j)
    <3>1. cluster' = [cluster EXCEPT ![j] = NewObject(Foreign, TRUE)]
          /\ born' = born /\ flight' = flight
      BY <2>4 DEF ReplaceJob, SetObject
    <3>2. cluster'[j].at = now /\ \A k \in Jobs \ {j} : cluster'[k] = cluster[k]
      BY <1>1, <3>1 DEF TypeOK, NewObject
    <3> QED BY <2>1, <3>1, <3>2 DEF BirthStep, Requesting
  <2>5. CASE LandCreate(j)
    <3>1. flight' \subseteq flight /\ Requesting(j)
      BY <2>5 DEF LandCreate, Requesting
    <3>2. CASE cluster[j].phase = "Absent"
      BY <1>4, <2>1, <2>5, <3>1, <3>2 DEF LandCreate, SetObject
    <3>3. CASE UNCHANGED <<cluster, born>>
      BY <2>1, <3>1, <3>3 DEF BirthStep, Requesting
    <3> QED BY <2>5, <3>2, <3>3 DEF LandCreate
  <2>6. CASE DropCreate(j)
    BY <2>1, <2>6 DEF DropCreate, BirthStep, Requesting
  <2> QED BY <1>8, <2>2, <2>3, <2>4, <2>5, <2>6 DEF Environment
<1>9. CASE Tick
  BY <1>2, <1>9 DEF Tick
<1>10. CASE UNCHANGED vars
  BY <1>2, <1>10 DEF vars
<1> QED BY <1>7, <1>8, <1>9, <1>10 DEF Next

\* The intent of a released Job is dated late enough to keep its node cooling.
LEMMA CoolStep ==
  ASSUME IndInv, CoolInv, BirthStep,
         QuietStep \/ \E p \in Procs : ProcessStep(p) /\ (Step(p) \/ Crash(p))
  PROVE  CoolInv'
<1>1. ControlInv /\ RequestInv /\ LedgerInv /\ SubmissionInv /\ ObservationInv /\ NodeInv
      /\ NodeExclusive /\ ReservationCoversWork
  BY ReservationIsInvariant DEF IndInv
<1>2. ClockInv /\ DatedInv /\ ComingInv /\ CooldownHonoured
  BY DEF CoolInv
<1>3. Cooldown \in Nat /\ now \in Nat /\ now > 0 /\ now' \in Nat /\ now' >= now
  <2>1. Cooldown \in Nat /\ now \in Nat /\ now > 0 /\ now' \in {now, now + 1}
    BY <1>1, ClockBounds DEF ControlInv, TypeOK, RequestInv, BirthStep
  <2> QED BY <2>1
<1>4. ASSUME NEW k \in Jobs
      PROVE  /\ born[k] \in Nat /\ born'[k] \in Nat
             /\ cluster[k].at \in Nat /\ cluster'[k].at \in Nat
             /\ intents[k].created \in Nat
  <2>1. TypeOK /\ WorldStep
    BY <1>1 DEF ControlInv, QuietStep, ProcessStep
  <2>2. cluster[k] \in Objects /\ cluster'[k] \in Objects /\ intents[k] \in Intents
    BY <2>1 DEF TypeOK, WorldStep
  <2>3. born[k] \in Nat /\ born'[k] \in Nat
    BY <2>1 DEF TypeOK, WorldStep
  <2> QED BY <2>2, <2>3 DEF Objects, Intents
<1>5. ASSUME NEW k \in Jobs, Requesting(k)
      PROVE  Coming(k) /\ Outstanding(k) /\ ~Spent(k) /\ born[k] = 0
  <2>1. Coming(k) /\ Outstanding(k)
    BY <1>5 DEF Requesting, Coming, Outstanding, BeforeCreate
  <2>2. CASE k \in flight
    BY <1>1, <2>1, <2>2 DEF RequestInv, Spent
  <2>3. ASSUME NEW p \in Procs, pc[p] = "create", job[p] = k PROVE ~Spent(k) /\ born[k] = 0
    BY <1>1, <2>3 DEF SubmissionInv, BeforeCreate, Fresh, Spent
  <2> QED BY <1>5, <2>1, <2>2, <2>3 DEF Requesting
<1>6. ASSUME NEW k \in Jobs, Spent(k) \/ born[k] > 0 PROVE born'[k] = born[k]
  BY <1>4, <1>5, <1>6 DEF BirthStep
<1>7. ClockInv'
  <2> SUFFICES ASSUME NEW k \in Jobs
               PROVE  /\ born'[k] <= now'
                      /\ cluster'[k].phase # "Absent" => cluster'[k].at >= born'[k]
    BY DEF ClockInv
  <2>1. born[k] <= now /\ (cluster[k].phase # "Absent" => cluster[k].at >= born[k])
    BY <1>2 DEF ClockInv
  <2>2. \/ born'[k] = born[k]
        \/ born'[k] = now /\ cluster[k].phase = "Absent"
    BY DEF BirthStep
  <2>3. cluster'[k].phase # "Absent" =>
          \/ cluster'[k].at = now
          \/ cluster'[k].at = cluster[k].at /\ cluster[k].phase # "Absent"
    BY DEF BirthStep
  <2> QED BY <1>3, <1>4, <2>1, <2>2, <2>3
<1>8. DatedInv'
  <2>1. ASSUME NEW j \in Jobs, intents[j].last = "tracking_finished"
        PROVE  intents[j].created >= born'[j]
    <3>1. Spent(j) /\ intents[j].created >= born[j]
      BY <1>1, <1>2, <2>1 DEF LedgerInv, DatedInv
    <3> QED BY <1>6, <3>1
  <2>2. ASSUME NEW p \in Procs, NEW j \in Jobs, batch[p][j].state = "tracking_finished"
        PROVE  batch[p][j].created >= born'[j]
    <3>1. Spent(j) /\ batch[p][j].created >= born[j]
      BY <1>1, <1>2, <2>2 DEF ObservationInv, DatedInv
    <3> QED BY <1>6, <3>1
  <2>3. ASSUME NEW j \in Jobs, NEW e, SawEnd(j, e) PROVE e.created >= born'[j]
    <3>1. cluster[j].phase # "Absent" /\ e.created = cluster[j].at
      BY <2>3 DEF SawEnd
    <3>2. born[j] > 0 /\ cluster[j].at >= born[j]
      BY <1>1, <1>2, <3>1 DEF RequestInv, ClockInv
    <3> QED BY <1>6, <3>1, <3>2
  <2>4. CASE QuietStep
    <3>1. intents' = intents /\ batch' = batch
      BY <2>4 DEF QuietStep, durable, local
    <3> QED BY <2>1, <2>2, <3>1 DEF DatedInv
  <2>5. ASSUME NEW p \in Procs, ProcessStep(p), Step(p) \/ Crash(p),
               NEW j \in Jobs, intents'[j].last = "tracking_finished"
        PROVE  intents'[j].created >= born'[j]
    <3>1. TypeOK /\ Written(p)
      BY <1>1, <2>5, EveryWrite DEF ControlInv
    <3>2. CASE intents'[j] = intents[j]
      BY <2>1, <2>5, <3>2
    <3>3. ASSUME NEW e \in Event, Write(p, j, e) PROVE intents'[j].created >= born'[j]
      <4>1. intents'[j] = Logged(intents[j], e)
        BY <3>1, <3>3 DEF Write, TypeOK
      <4>2. e.state = "tracking_finished"
        BY <2>5, <4>1 DEF Logged
      <4>3. e = batch[p][j]
        BY <3>3, <4>2 DEF Write
      <4>4. e.created >= born'[j] /\ e.created \in Nat
        BY <2>2, <4>2, <4>3 DEF Event
      <4>5. intents'[j].created = IF e.created > intents[j].created THEN e.created
                                  ELSE intents[j].created
        BY <4>1 DEF Logged
      <4> QED BY <1>4, <4>4, <4>5
    <3>4. ASSUME NEW k \in Jobs \ {j}, NEW e \in Event, Write(p, k, e)
          PROVE  intents'[j] = intents[j]
      BY <3>1, <3>4 DEF Write, TypeOK
    <3> QED BY <3>1, <3>2, <3>3, <3>4 DEF Written
  <2>6. ASSUME NEW p \in Procs, ProcessStep(p), NEW q \in Procs, NEW j \in Jobs,
               batch'[q][j].state = "tracking_finished"
        PROVE  batch'[q][j].created >= born'[j]
    <3>1. CASE q # p
      <4>1. batch'[q] = batch[q]
        BY <2>6, <3>1 DEF ProcessStep, ControlStep
      <4> QED BY <2>2, <2>6, <4>1
    <3>2. CASE q = p
      <4>1. \/ batch[p][j].state = "tracking_finished" /\ batch'[p][j].created = batch[p][j].created
            \/ SawEnd(j, batch'[p][j])
        BY <2>6, <3>2 DEF ProcessStep, ControlStep
      <4> QED BY <2>2, <2>3, <3>2, <4>1
    <3> QED BY <3>1, <3>2
  <2> QED BY <2>4, <2>5, <2>6 DEF DatedInv
<1>9. ASSUME NEW j \in Jobs, NEW k \in Jobs, j # k, NodeOf[j] = NodeOf[k], Coming(k),
             Requesting(j)
      PROVE  FALSE
  <2>1. Outstanding(j)
    BY <1>5, <1>9
  <2>2. CASE k \in flight
    BY <1>1, <1>9, <2>1, <2>2 DEF NodeExclusive, Outstanding
  <2>3. ASSUME NEW p \in Procs, pc[p] \in BeforeCreate, job[p] = k PROVE FALSE
    BY <1>1, <1>9, <2>1, <2>3 DEF NodeInv
  <2> QED BY <1>9, <2>2, <2>3 DEF Coming
<1>10. ComingInv'
  <2> SUFFICES ASSUME NEW j \in Jobs, NEW k \in Jobs, Coming(k)', j # k,
                      NodeOf[j] = NodeOf[k], born'[j] > 0
               PROVE  born'[j] + Cooldown <= now'
    BY DEF ComingInv
  <2>1. CASE Coming(k)
    <3>1. born'[j] = born[j]
      BY <1>9, <2>1 DEF BirthStep
    <3>2. born[j] + Cooldown <= now
      BY <1>2, <2>1, <3>1 DEF ComingInv
    <3> QED BY <1>3, <1>4, <3>1, <3>2
  <2>2. ASSUME NEW p \in Procs, Select(p, k) PROVE born'[j] + Cooldown <= now'
    <3>1. /\ j \notin ActiveJobs /\ ~InCooldown(NodeOf[k])
          /\ UNCHANGED <<born, now>>
      BY <2>2 DEF Select, check_active_jobs, world
    <3>2. ~Exists(j) \/ intents[j].last = "not_created" \/ intents[j].last = "tracking_finished"
      BY <3>1 DEF ActiveJobs, Unfinished, intent_finished, tracking_releases
    <3>3. intents[j].last = "tracking_finished"
      <4>1. born[j] > 0
        BY <3>1
      <4>2. ~Fresh(j)
        BY <1>4, <4>1 DEF Fresh
      <4> QED BY <1>1, <3>2, <4>2 DEF LedgerInv, Exists
    <3>4. intents[j].created >= born[j] /\ born[j] <= now
      BY <1>2, <3>3 DEF DatedInv, ClockInv
    <3>5. intents[j].created > 0
      BY <1>4, <3>1, <3>4
    <3>6. Cooldown = 0 \/ intents[j].created + Cooldown <= now
      BY <1>3, <1>4, <3>1, <3>5 DEF InCooldown
    <3> QED BY <1>3, <1>4, <3>1, <3>4, <3>6
  <2>3. CASE k \in flight'
    BY <1>5, <2>1, <2>3 DEF BirthStep
  <2>4. ASSUME NEW q \in Procs, pc'[q] \in BeforeCreate, job'[q] = k
        PROVE  born'[j] + Cooldown <= now'
    <3>1. CASE pc[q] \in BeforeCreate /\ job[q] = k
      BY <2>1, <3>1 DEF Coming
    <3>2. CASE QuietStep
      BY <2>4, <3>1, <3>2 DEF QuietStep, local
    <3>3. ASSUME NEW p \in Procs, ProcessStep(p), p # q PROVE born'[j] + Cooldown <= now'
      BY <2>4, <3>1, <3>3 DEF ProcessStep, ControlStep
    <3>4. CASE ProcessStep(q)
      BY <2>2, <2>4, <3>1, <3>4 DEF ProcessStep, Approach, BeforeCreate
    <3> QED BY <3>2, <3>3, <3>4
  <2> QED BY <2>3, <2>4 DEF Coming
<1>11. CooldownHonoured'
  <2> SUFFICES ASSUME NEW j \in Jobs, NEW k \in Jobs, j # k, NodeOf[j] = NodeOf[k],
                      born'[j] > 0, born'[k] >= born'[j]
               PROVE  born'[k] >= born'[j] + Cooldown
    BY DEF CooldownHonoured
  <2>1. CASE born'[j] = born[j] /\ born'[k] = born[k]
    BY <1>2, <2>1 DEF CooldownHonoured
  <2>2. CASE Requesting(k) /\ born'[k] = now /\ born'[j] = born[j]
    <3>1. born[j] + Cooldown <= now
      BY <1>2, <1>5, <2>2 DEF ComingInv
    <3> QED BY <1>3, <1>4, <2>2, <3>1
  <2>3. CASE Requesting(j) /\ born'[j] = now /\ born'[k] = born[k]
    <3>1. born[k] > 0 /\ born[k] >= now
      BY <1>3, <1>4, <2>3
    <3>2. born[k] + Cooldown <= now
      BY <1>2, <1>5, <2>3, <3>1 DEF ComingInv
    <3> QED BY <1>3, <1>4, <2>3, <3>1, <3>2
  <2>4. CASE Requesting(j) /\ Requesting(k)
    BY <1>5, <1>9, <2>4
  <2> QED BY <2>1, <2>2, <2>3, <2>4 DEF BirthStep
<1> QED BY <1>7, <1>8, <1>10, <1>11 DEF CoolInv

(***************************************************************************)
(* The identity of a Job.                                                  *)
(***************************************************************************)
Submission == BeforeCreate \cup Answered \cup {"select", "replied", "attach"}
Polling == {"poll", "report", "last words", "verify", "append"}

\* What a ledger line knows is one uid at most, and nothing before its first event.
UidInv ==
  \A j \in Jobs : /\ \A u, v \in KnownUids(intents[j]) : u = v
                  /\ intents[j].last = "none" => KnownUids(intents[j]) = {}

\* What p may still append fits what the ledger knows.
MemoryInv(p) ==
  /\ reply[p].uid \in {NoUid, Own}
  /\ \A j \in Jobs : batch[p][j].reply = NoUid
  /\ pc[p] \in Submission => batch[p] = NoBatch
  /\ pc[p] \in BeforeCreate \cup {"replied"} => KnownUids(intents[job[p]]) = {}
  /\ pc[p] \in Answered => KnownUids(intents[job[p]]) \subseteq {Own}
  /\ pc[p] \in Polling \cup {"attach"} => Own \in KnownUids(intents[job[p]])
  /\ pc[p] \in Polling => Own \in known[p] /\ batch[p][job[p]].uid \in {NoUid, Own}
  /\ pc[p] \in {"retain", "noting"} =>
       \A j \in Jobs : batch[p][j].uid # NoUid => KnownUids(intents[j]) \subseteq {batch[p][j].uid}

IdentityInv == UidInv /\ \A p \in Procs : MemoryInv(p)

\* An event adds the uids it carries.
LEMMA KnownUidsLogged ==
  ASSUME NEW i, NEW e
  PROVE  KnownUids(Logged(i, e)) = KnownUids(i) \cup ({e.uid, e.reply} \ {NoUid})
BY DEF KnownUids, Logged

\* An observation names the uid it was checked against.
LEMMA ObservationUid ==
  ASSUME NEW o, NEW uids, NEW mode
  PROVE  /\ Observation(o, uids, mode).reply = NoUid
         /\ Observation(o, uids, mode).uid # NoUid => uids \subseteq {Observation(o, uids, mode).uid}
<1>1. CASE o.phase = "Absent"
  BY <1>1 DEF Observation, Plain
<1>2. CASE o.phase # "Absent" /\ ~verify_submission_identity(o, uids)
  BY <1>2 DEF Observation, Plain
<1>3. CASE o.phase # "Absent" /\ verify_submission_identity(o, uids)
  <2>1. Observation(o, uids, mode).uid = o.uid /\ Observation(o, uids, mode).reply = NoUid
    BY <1>3 DEF Observation
  <2> QED BY <1>3, <2>1 DEF verify_submission_identity
<1> QED BY <1>1, <1>2, <1>3

\* The same for a batch.
LEMMA ObservationsUid ==
  ASSUME NEW pending \in SUBSET Jobs, NEW uidsOf, NEW b \in Observations(pending, uidsOf),
         NEW j \in Jobs
  PROVE  b[j].reply = NoUid /\ (b[j].uid # NoUid => uidsOf[j] \subseteq {b[j].uid})
<1>1. NoEvent.reply = NoUid /\ NoEvent.uid = NoUid
  BY DEF NoEvent, Plain
<1>2. Plain("uncertain").reply = NoUid /\ Plain("uncertain").uid = NoUid
  BY DEF Plain
<1>3. b[j] = NoEvent \/ b[j] = Plain("uncertain")
      \/ \E m : b[j] = Observation(cluster[j], uidsOf[j], m)
  BY DEF Observations
<1> QED BY <1>1, <1>2, <1>3, ObservationUid

\* No write adds a second uid to what the ledger knows, and none takes one away.
LEMMA UidStep ==
  ASSUME ControlInv, IdentityInv, NEW p \in Procs, Written(p), NEW j \in Jobs
  PROVE  /\ KnownUids(intents[j]) \subseteq KnownUids(intents'[j])
         /\ \A u, v \in KnownUids(intents'[j]) : u = v
         /\ intents'[j].last = "none" => KnownUids(intents'[j]) = {}
<1>1. TypeOK /\ MemoryInv(p) /\ UidInv
  BY DEF ControlInv, IdentityInv
<1>2. CASE intents'[j] = intents[j]
  BY <1>1, <1>2 DEF UidInv
<1>3. ASSUME NEW e \in Event, Write(p, j, e)
      PROVE  /\ KnownUids(intents[j]) \subseteq KnownUids(intents'[j])
             /\ \A u, v \in KnownUids(intents'[j]) : u = v
             /\ intents'[j].last # "none"
  <2>1. intents'[j] = Logged(intents[j], e)
    BY <1>1, <1>3 DEF Write, TypeOK
  <2>2. KnownUids(intents'[j]) = KnownUids(intents[j]) \cup ({e.uid, e.reply} \ {NoUid})
    BY <2>1, KnownUidsLogged
  <2>3. intents'[j].last # "none"
    BY <1>3, <2>1 DEF Logged, Write
  <2>4. \A u, v \in KnownUids(intents[j]) : u = v
    BY <1>1 DEF UidInv
  <2>5. CASE pc[p] \in {"retain", "noting"} /\ e = batch[p][j]
    <3>1. e.reply = NoUid /\ (e.uid # NoUid => KnownUids(intents[j]) \subseteq {e.uid})
      BY <1>1, <2>5 DEF MemoryInv
    <3> QED BY <2>2, <2>3, <2>4, <3>1
  <2>6. CASE pc[p] \in Polling /\ j = job[p] /\ e = batch[p][j]
    <3>1. e.reply = NoUid /\ e.uid \in {NoUid, Own} /\ Own \in KnownUids(intents[j])
      BY <1>1, <2>6 DEF MemoryInv
    <3> QED BY <2>2, <2>3, <2>4, <3>1
  <2>7. CASE e.uid = NoUid /\ e.reply = NoUid
    BY <2>2, <2>3, <2>4, <2>7
  <2>8. CASE /\ pc[p] \in Answered \cup {"replied"} /\ j = job[p]
             /\ e.uid \in {NoUid, reply[p].uid} /\ e.reply \in {NoUid, reply[p].uid}
    <3>1. reply[p].uid \in {NoUid, Own} /\ KnownUids(intents[j]) \subseteq {Own}
      BY <1>1, <2>8 DEF MemoryInv
    <3> QED BY <2>2, <2>3, <2>8, <3>1
  <2> QED BY <1>3, <2>5, <2>6, <2>7, <2>8 DEF Write, Carrying, Polling
<1>4. ASSUME NEW k \in Jobs \ {j}, NEW e \in Event, Write(p, k, e) PROVE intents'[j] = intents[j]
  BY <1>1, <1>4 DEF Write, TypeOK
<1> QED BY <1>2, <1>3, <1>4 DEF Written

\* The points where memory owes nothing to the ledger.
Resting == {"idle", "observe", "prune", "note"}

\* A submission's own writes, before and after the response.
LEMMA SubmissionUids ==
  ASSUME ControlInv, NEW p \in Procs, MemoryInv(p), Written(p),
         pc[p] \in BeforeCreate \cup {"replied", "receipt"}
  PROVE  /\ pc[p] \in BeforeCreate => KnownUids(intents'[job[p]]) = KnownUids(intents[job[p]])
         /\ KnownUids(intents'[job[p]]) \subseteq {Own}
<1>1. TypeOK /\ job[p] \in Jobs /\ reply[p].uid \in {NoUid, Own}
      /\ KnownUids(intents[job[p]]) \subseteq {Own}
  BY DEF ControlInv, JobInv, MemoryInv, BeforeCreate, WithJob, Answered
<1>2. CASE intents' = intents
  BY <1>1, <1>2
<1>3. ASSUME NEW j \in Jobs, NEW e \in Event, Write(p, j, e)
      PROVE  /\ pc[p] \in BeforeCreate => KnownUids(intents'[job[p]]) = KnownUids(intents[job[p]])
             /\ KnownUids(intents'[job[p]]) \subseteq {Own}
  <2>1. j = job[p] /\ intents'[j] = Logged(intents[j], e)
    BY <1>1, <1>3 DEF Write, TypeOK, BeforeCreate, Carrying
  <2>2. KnownUids(intents'[j]) = KnownUids(intents[j]) \cup ({e.uid, e.reply} \ {NoUid})
    BY <2>1, KnownUidsLogged
  <2>3. {e.uid, e.reply} \subseteq {NoUid, reply[p].uid}
    BY <1>3 DEF Write, BeforeCreate, Carrying
  <2>4. pc[p] \in BeforeCreate => {e.uid, e.reply} \subseteq {NoUid}
    BY <1>3 DEF Write, BeforeCreate, Carrying, Answered
  <2> QED BY <1>1, <2>1, <2>2, <2>3, <2>4
<1> QED BY <1>2, <1>3 DEF Written

\* A step of p keeps what p carries fit to append, action by action.
LEMMA MemoryStep ==
  ASSUME IndInv, IdentityInv, NEW p \in Procs, Step(p) \/ Crash(p)
  PROVE  MemoryInv(p)'
<1>1. /\ ControlInv /\ TypeOK /\ MemoryInv(p) /\ Written(p) /\ UidInv
      /\ pc[p] \in WithJob => job[p] \in Jobs
  BY EveryWrite DEF IndInv, ControlInv, JobInv, IdentityInv
<1>2. NoObject.uid = NoUid /\ \A j \in Jobs : NoBatch[j].reply = NoUid /\ NoBatch[j].uid = NoUid
  BY DEF NoObject, NoBatch, NoEvent, Plain
<1>3. reply[p].uid \in {NoUid, Own} /\ \A j \in Jobs : batch[p][j].reply = NoUid
  BY <1>1 DEF MemoryInv
<1>4. pc[p] \in WithJob => KnownUids(intents[job[p]]) \subseteq KnownUids(intents'[job[p]])
  BY <1>1, UidStep
<1>5. ASSUME reply'[p] \in {reply[p], NoObject}, batch'[p] \in {batch[p], NoBatch},
             pc'[p] \in Resting
      PROVE  MemoryInv(p)'
  BY <1>2, <1>3, <1>5
     DEF MemoryInv, Resting, Submission, BeforeCreate, Answered, Polling
<1>6. CASE Exit(p)
  <2>1. pc'[p] = "idle" /\ batch'[p] = NoBatch /\ reply'[p] = NoObject
    BY <1>1, <1>6, ExitEffect
  <2> QED BY <1>5, <2>1 DEF Resting
<1>7. CASE (AcquireLock(p) \/ Prune(p) \/ HelperReconciled(p)) /\ ~Exit(p)
  BY <1>1, <1>5, <1>7
     DEF AcquireLock, Prune, HelperReconciled, Goto, TypeOK, Resting
<1>8. CASE ObserveBatch(p) \/ (ObserveForJob(p) /\ ~Exit(p))
  <2>1. \E pending \in SUBSET Jobs : \E b \in Observations(pending, LedgerUids) :
          batch' = [batch EXCEPT ![p] = b]
    <3>1. CASE ObserveBatch(p)
      BY <3>1 DEF ObserveBatch
    <3>2. CASE ObserveForJob(p) /\ ~Exit(p)
      <4>1. {job[p]} \in SUBSET Jobs
        BY <1>1, <3>2 DEF ObserveForJob, WithJob
      <4> QED BY <3>2, <4>1 DEF ObserveForJob
    <3> QED BY <1>8, <3>1, <3>2
  <2>2. ASSUME NEW j \in Jobs
        PROVE  /\ batch'[p][j].reply = NoUid
               /\ batch'[p][j].uid # NoUid =>
                    KnownUids(intents[j]) \subseteq {batch'[p][j].uid}
    <3>1. PICK pending \in SUBSET Jobs : \E b \in Observations(pending, LedgerUids) :
            batch' = [batch EXCEPT ![p] = b]
      BY <2>1
    <3>2. PICK b \in Observations(pending, LedgerUids) : batch' = [batch EXCEPT ![p] = b]
      BY <3>1
    <3>3. batch'[p] = b /\ LedgerUids[j] = KnownUids(intents[j])
      BY <1>1, <3>2 DEF TypeOK, LedgerUids
    <3>4. b[j].reply = NoUid /\ (b[j].uid # NoUid => LedgerUids[j] \subseteq {b[j].uid})
      BY ObservationsUid
    <3> QED BY <3>3, <3>4
  <2>3. pc'[p] \in {"retain", "noting"} /\ reply' = reply /\ intents' = intents
    BY <1>1, <1>8 DEF ObserveBatch, ObserveForJob, Goto, TypeOK, durable
  <2>4. \A j \in Jobs : KnownUids(intents'[j]) = KnownUids(intents[j])
    BY <2>3
  <2> QED BY <1>3, <2>2, <2>3, <2>4
          DEF MemoryInv, Submission, BeforeCreate, Answered, Polling
<1>9. ASSUME NEW j \in Jobs, RetainObservation(p, j), ~Exit(p) PROVE MemoryInv(p)'
  <2>1. pc[p] = "retain" /\ pc' = pc /\ reply' = reply /\ Retain(j, batch[p][j])
        /\ batch' = [batch EXCEPT ![p][j] = NoEvent]
    BY <1>9 DEF RetainObservation
  <2>2. \A k \in Jobs \ {j} : intents'[k] = intents[k] /\ batch'[p][k] = batch[p][k]
    BY <1>1, <2>1 DEF Retain, AppendEvent, TypeOK
  <2>3. batch'[p][j] = NoEvent
    BY <1>1, <2>1 DEF TypeOK
  <2>4. NoEvent.reply = NoUid /\ NoEvent.uid = NoUid
    BY DEF NoEvent, Plain
  <2>5. \A k \in Jobs : batch[p][k].uid # NoUid => KnownUids(intents[k]) \subseteq {batch[p][k].uid}
    BY <1>1, <2>1 DEF MemoryInv
  <2>6. \A k \in Jobs :
          /\ batch'[p][k].reply = NoUid
          /\ batch'[p][k].uid # NoUid => KnownUids(intents'[k]) \subseteq {batch'[p][k].uid}
    BY <1>3, <2>2, <2>3, <2>4, <2>5
  <2> QED BY <1>3, <2>1, <2>6 DEF MemoryInv, Submission, BeforeCreate, Answered, Polling
<1>10. ASSUME pc'[p] \in Submission, batch' = batch, batch[p] = NoBatch,
              reply'[p].uid \in {NoUid, Own},
              pc'[p] \in BeforeCreate \cup {"replied"} => KnownUids(intents'[job'[p]]) = {},
              pc'[p] \in Answered => KnownUids(intents'[job'[p]]) \subseteq {Own},
              pc'[p] = "attach" => Own \in KnownUids(intents'[job'[p]])
       PROVE  MemoryInv(p)'
  BY <1>3, <1>10 DEF MemoryInv, Submission, BeforeCreate, Answered, Polling
<1>11. CASE SubmitterReconciled(p)
  BY <1>1, <1>3, <1>10, <1>11
     DEF SubmitterReconciled, Reconciled, Goto, TypeOK, Submission, BeforeCreate, Answered
<1>12. ASSUME NEW j \in Jobs, Select(p, j) PROVE MemoryInv(p)'
  <2>1. pc[p] = "select" /\ pc'[p] = "prepare" /\ job'[p] = j /\ intents' = intents
        /\ batch' = batch /\ reply' = reply /\ intents[j].last = "none"
    BY <1>1, <1>12 DEF Select, Goto, TypeOK, durable, check_active_jobs, Exists
  <2>2. KnownUids(intents'[j]) = {}
    BY <1>1, <2>1 DEF UidInv
  <2>3. batch[p] = NoBatch
    BY <1>1, <2>1 DEF MemoryInv, Submission
  <2> QED BY <1>3, <1>10, <2>1, <2>2, <2>3 DEF Submission, BeforeCreate, Answered
<1>13. CASE (Prepare(p) \/ MarkSubmitting(p) \/ RecheckNode(p) \/ Create(p)) /\ ~Exit(p)
  <2>1. pc[p] \in BeforeCreate /\ job' = job /\ batch' = batch
        /\ pc'[p] \in BeforeCreate \cup {"replied"}
    BY <1>1, <1>13
       DEF Prepare, MarkSubmitting, RecheckNode, Create, Goto, TypeOK, BeforeCreate
  <2>2. reply'[p].uid \in {NoUid, Own}
    <3>1. reply' = reply \/ \E ok : reply' = [reply EXCEPT ![p] = NewObject(Own, ok)]
      BY <1>13 DEF Prepare, MarkSubmitting, RecheckNode, Create
    <3>2. CASE reply' = reply
      BY <1>3, <3>2
    <3>3. ASSUME NEW ok, reply' = [reply EXCEPT ![p] = NewObject(Own, ok)]
          PROVE  reply'[p].uid = Own
      <4>1. reply'[p] = NewObject(Own, ok)
        BY <1>1, <3>3 DEF TypeOK
      <4> QED BY <4>1 DEF NewObject
    <3> QED BY <3>1, <3>2, <3>3
  <2>3. batch[p] = NoBatch /\ KnownUids(intents[job[p]]) = {}
    BY <1>1, <2>1 DEF MemoryInv, Submission
  <2>4. KnownUids(intents'[job[p]]) = {}
    BY <1>1, <2>1, <2>3, SubmissionUids
  <2> QED BY <1>10, <2>1, <2>2, <2>3, <2>4
          DEF Submission, BeforeCreate, Answered
<1>14. CASE RetainResponse(p)
  <2>1. pc[p] = "replied" /\ pc'[p] \in Answered /\ job' = job /\ batch' = batch /\ reply' = reply
    BY <1>1, <1>14 DEF RetainResponse, Goto, TypeOK, Answered
  <2>2. batch[p] = NoBatch /\ KnownUids(intents'[job[p]]) \subseteq {Own}
    BY <1>1, <2>1, SubmissionUids DEF MemoryInv, Submission
  <2> QED BY <1>3, <1>10, <2>1, <2>2 DEF Submission, BeforeCreate, Answered
<1>15. CASE RetainReceipt(p)
  <2> DEFINE e == [state |-> "submitted", phase |-> reply[p].phase, uid |-> reply[p].uid,
                   reply |-> NoUid, created |-> reply[p].at]
  <2>1. pc[p] = "receipt" /\ pc'[p] \in {"attach", "select", "unsaved"} /\ batch' = batch
        /\ reply'[p] \in {reply[p], NoObject}
    BY <1>1, <1>15 DEF RetainReceipt, Goto, TypeOK
  <2>2. batch[p] = NoBatch /\ KnownUids(intents'[job[p]]) \subseteq {Own}
    BY <1>1, <2>1, SubmissionUids DEF MemoryInv, Submission, Answered
  <2>3. reply'[p].uid \in {NoUid, Own}
    BY <1>2, <1>3, <2>1
  <2>4. pc'[p] # "select" => job'[p] = job[p]
    BY <1>1, <1>15 DEF RetainReceipt, Goto, TypeOK
  <2>5. ASSUME pc'[p] = "attach" PROVE Own \in KnownUids(intents'[job[p]])
    <3>1. Retain(job[p], e) /\ job[p] \in Jobs
      BY <1>1, <1>15, <2>5 DEF RetainReceipt, Goto, TypeOK, WithJob
    <3>2. e.uid = Own
      BY <1>1, <1>3, <2>1 DEF ControlInv, ReplyInv
    <3> HIDE DEF e
    <3>3. intents'[job[p]] = Logged(intents[job[p]], e)
      BY <1>1, <3>1 DEF Retain, AppendEvent, TypeOK
    <3>4. Own # NoUid
      BY DEF Own, NoUid
    <3> QED BY <3>2, <3>3, <3>4, KnownUidsLogged
  <2> QED BY <1>10, <2>1, <2>2, <2>3, <2>4, <2>5
          DEF Submission, BeforeCreate, Answered
<1>16. ASSUME pc'[p] \in Polling, reply' = reply, Own \in KnownUids(intents'[job'[p]]),
              Own \in known'[p],
              batch'[p][job'[p]].uid \in {NoUid, Own}, \A j \in Jobs : batch'[p][j].reply = NoUid
       PROVE  MemoryInv(p)'
  BY <1>3, <1>16 DEF MemoryInv, Submission, BeforeCreate, Answered, Polling
<1>17. CASE Attach(p) /\ ~Exit(p)
  <2>1. pc[p] = "attach" /\ pc'[p] = "poll" /\ job' = job /\ batch' = batch /\ reply' = reply
        /\ known'[p] = KnownUids(intents[job[p]]) /\ intents' = intents
    BY <1>1, <1>17 DEF Attach, Goto, TypeOK, durable
  <2>2. batch[p] = NoBatch /\ Own \in KnownUids(intents[job[p]]) /\ job[p] \in Jobs
    BY <1>1, <2>1 DEF MemoryInv, Submission, WithJob
  <2> QED BY <1>2, <1>3, <1>16, <2>1, <2>2 DEF Polling
<1>18. CASE Poll(p)
  <2>1. pc[p] = "poll" /\ pc'[p] \in {"poll", "report"} /\ job' = job /\ known' = known
        /\ reply' = reply /\ intents' = intents
    BY <1>1, <1>18 DEF Poll, Goto, TypeOK, durable
  <2>2. job[p] \in Jobs /\ Own \in KnownUids(intents[job[p]]) /\ Own \in known[p]
    BY <1>1, <2>1 DEF MemoryInv, Polling, WithJob
  <2>3. PICK b \in Observations({job[p]}, [j \in Jobs |-> known[p]]) :
          batch' = [batch EXCEPT ![p] = b]
    BY <1>18 DEF Poll
  <2>4. ASSUME NEW j \in Jobs
        PROVE  /\ batch'[p][j].reply = NoUid
               /\ batch'[p][j].uid # NoUid => known[p] \subseteq {batch'[p][j].uid}
    <3> DEFINE uidsOf == [k \in Jobs |-> known[p]]
               pending == {job[p]}
    <3>1. pending \in SUBSET Jobs /\ batch'[p] = b /\ uidsOf[j] = known[p]
      BY <1>1, <2>2, <2>3 DEF TypeOK
    <3>2. b \in Observations(pending, uidsOf)
      OBVIOUS
    <3> HIDE DEF uidsOf, pending
    <3>3. b[j].reply = NoUid /\ (b[j].uid # NoUid => uidsOf[j] \subseteq {b[j].uid})
      BY <3>1, <3>2, ObservationsUid
    <3> QED BY <3>1, <3>3
  <2> QED BY <1>16, <2>1, <2>2, <2>4 DEF Polling
<1>19. CASE (StopPolling(p) \/ AppendObservation(p)) /\ ~Exit(p)
  <2>1. pc[p] \in Polling /\ pc'[p] \in Polling /\ UNCHANGED <<job, batch, known, reply>>
    BY <1>1, <1>19 DEF StopPolling, AppendObservation, Goto, TypeOK, Polling
  <2>2. Own \in KnownUids(intents'[job[p]]) /\ Own \in known[p] /\ batch[p][job[p]].uid \in {NoUid, Own}
    BY <1>1, <1>4, <2>1 DEF MemoryInv, Polling, WithJob
  <2> QED BY <1>3, <1>16, <2>1, <2>2
<1>20. CASE VerifyEvidence(p) /\ ~Exit(p)
  <2>1. pc[p] = "verify" /\ pc'[p] = "append" /\ UNCHANGED <<job, known, reply, intents>>
    BY <1>1, <1>20 DEF VerifyEvidence, Goto, TypeOK, durable
  <2>2. /\ job[p] \in Jobs /\ Own \in KnownUids(intents[job[p]]) /\ Own \in known[p]
        /\ batch[p][job[p]].uid \in {NoUid, Own}
    BY <1>1, <2>1 DEF MemoryInv, Polling, WithJob
  <2>3. batch[p] \in [Jobs -> Event]
    BY <1>1 DEF TypeOK
  <2>4. CASE batch' = batch
    BY <1>3, <1>16, <2>1, <2>2, <2>4 DEF Polling
  <2>5. CASE /\ KnownUids(intents[job[p]]) \subseteq {cluster[job[p]].uid}
             /\ batch' = [batch EXCEPT ![p][job[p]] = Identified(@, cluster[job[p]].uid)]
    <3>1. cluster[job[p]].uid = Own
      BY <2>2, <2>5
    <3>2. batch'[p] = [batch[p] EXCEPT ![job[p]] = Identified(batch[p][job[p]], Own)]
      BY <1>1, <2>5, <3>1 DEF TypeOK
    <3>3. batch[p][job[p]] \in Event
      BY <2>2, <2>3
    <3>4. Identified(batch[p][job[p]], Own).uid = Own
          /\ Identified(batch[p][job[p]], Own).reply = batch[p][job[p]].reply
      BY <3>3 DEF Identified, Event
    <3>5. batch'[p][job[p]] = Identified(batch[p][job[p]], Own)
          /\ \A j \in Jobs \ {job[p]} : batch'[p][j] = batch[p][j]
      BY <2>2, <2>3, <3>2
    <3> QED BY <1>3, <1>16, <2>1, <2>2, <3>4, <3>5 DEF Polling
  <2> QED BY <1>20, <2>4, <2>5 DEF VerifyEvidence, verify_submission_identity
<1> QED
  BY <1>6, <1>7, <1>8, <1>9, <1>11, <1>12, <1>13, <1>14, <1>15, <1>17, <1>18, <1>19, <1>20
     DEF Step, Crash, Reconciling, Submitting, Tracking, Helping, RefuseBlocked,
         RefuseUnresolved, ProjectionFails, StopPlan, Abandon, RetainFailure,
         AppendVerification, RetainJob

\* The others are under the lock alone, or carry the package's own uid.
LEMMA IdentityStep ==
  ASSUME IndInv, IdentityInv,
         QuietStep \/ \E p \in Procs : ProcessStep(p) /\ (Step(p) \/ Crash(p))
  PROVE  IdentityInv'
<1>1. ControlInv
  BY DEF IndInv
<1>2. CASE QuietStep
  <2>1. UNCHANGED <<intents, pc, job, batch, known, reply>>
    BY <1>2 DEF QuietStep, durable, local
  <2>2. UidInv'
    BY <2>1 DEF IdentityInv, UidInv
  <2>3. ASSUME NEW q \in Procs PROVE MemoryInv(q)'
    <3>1. MemoryInv(q)
      BY DEF IdentityInv
    <3> QED BY <2>1, <3>1 DEF MemoryInv
  <2> QED BY <2>2, <2>3 DEF IdentityInv
<1>3. ASSUME NEW p \in Procs, ProcessStep(p), Step(p) \/ Crash(p) PROVE IdentityInv'
  <2>1. Written(p)
    BY <1>1, <1>3, EveryWrite
  <2>2. UidInv'
    BY <1>1, <2>1, UidStep DEF UidInv
  <2>3. ASSUME NEW q \in Procs \ {p} PROVE MemoryInv(q)'
    <3>1. /\ pc'[q] = pc[q] /\ job'[q] = job[q] /\ known'[q] = known[q]
          /\ batch'[q] = batch[q] /\ reply'[q] = reply[q]
      BY <1>3 DEF ProcessStep, ControlStep
    <3>2. MemoryInv(q) /\ (pc[q] \in WithJob => job[q] \in Jobs)
      BY <1>1 DEF IdentityInv, ControlInv, JobInv
    <3>3. CASE pc[q] \in Locked
      <4>1. intents' = intents
        BY <1>1, <1>3, <3>1, <3>3, Undisturbed
      <4> QED BY <3>1, <3>2, <4>1 DEF MemoryInv
    <3>4. CASE pc[q] \notin Locked
      <4>1. pc[q] \in Polling \cup {"attach"} => Own \in KnownUids(intents'[job[q]])
        BY <1>1, <2>1, <3>2, UidStep DEF MemoryInv, Polling, WithJob
      <4>2. pc[q] \notin BeforeCreate \cup Answered \cup {"replied", "retain", "noting"}
        BY <3>4 DEF Locked, BeforeCreate, Answered
      <4> QED BY <3>1, <3>2, <4>1, <4>2 DEF MemoryInv
    <3> QED BY <3>3, <3>4
  <2>4. MemoryInv(p)'
    BY <1>3, MemoryStep
  <2> QED BY <2>2, <2>3, <2>4 DEF IdentityInv
<1> QED BY <1>2, <1>3

(***************************************************************************)
(* The results.                                                            *)
(***************************************************************************)
\* Every step is a step of one process, of which the effects above hold, or a quiet one.
LEMMA EveryStepIsKnown ==
  ASSUME IndInv, [Next]_vars
  PROVE  QuietStep \/ \E p \in Procs : ProcessStep(p) /\ (Step(p) \/ Crash(p))
<1>1. ControlInv /\ RequestInv /\ SubmissionInv
  BY DEF IndInv
<1>2. ASSUME NEW p \in Procs, Step(p) \/ Crash(p) PROVE ProcessStep(p)
  BY <1>1, <1>2, LedgerEffect, ControlEffect, ApproachEffect, WorldEffect DEF ProcessStep
<1>3. ASSUME NEW j \in Jobs, Environment(j) PROVE QuietStep
  BY <1>1, <1>3, EnvironmentIsWorldStep DEF QuietStep, ControlInv, TypeOK, Environment
<1>4. CASE Tick \/ UNCHANGED vars
  <2>1. TypeOK /\ now \in Nat
    BY <1>1 DEF ControlInv, TypeOK
  <2>2. UNCHANGED <<durable, lock, local>> /\ UNCHANGED world /\ now' \in {now, now + 1}
    BY <1>4 DEF Tick, vars
  <2>3. now' \in Nat
    BY <2>1, <2>2
  <2> QED BY <1>1, <2>1, <2>2, <2>3, StillWorld DEF QuietStep
<1> QED BY <1>2, <1>3, <1>4 DEF Next

\* Admission decides only after jobs.csv has been rebuilt from state.json, whatever an
\* earlier failed write left on disk (reconcile_submission_intents).
THEOREM FreshRows == Spec => []AdmissionSeesFreshRows
<1>1. Init => AdmissionSeesFreshRows
  <2>1. Init => \A p \in Procs : pc[p] = "idle"
    BY DEF Init
  <2> QED BY <2>1 DEF AdmissionSeesFreshRows
<1>2. IndInv /\ AdmissionSeesFreshRows /\ [Next]_vars => AdmissionSeesFreshRows'
  <2> SUFFICES ASSUME IndInv, AdmissionSeesFreshRows, [Next]_vars
               PROVE  AdmissionSeesFreshRows'
    OBVIOUS
  <2> QED BY EveryStepIsKnown, FreshRowsStep DEF IndInv
<1> QED BY <1>1, <1>2, Invariance, PTL DEF Spec

\* Before and during a submission every other intent is finished or confirmed.
THEOREM LedgerIsSettled == Spec => []SettledInv
<1>1. Init => SettledInv
  <2>1. Init => \A p \in Procs : pc[p] = "idle"
    BY DEF Init
  <2> QED BY <2>1 DEF SettledInv, BeforeCreate
<1>2. IndInv /\ SettledInv /\ [Next]_vars => SettledInv'
  <2> SUFFICES ASSUME IndInv, SettledInv, [Next]_vars PROVE SettledInv'
    OBVIOUS
  <2> QED BY EveryStepIsKnown, SettledStep DEF IndInv
<1> QED BY <1>1, <1>2, Invariance, PTL DEF Spec

\* A request is sent by a create alone.
LEMMA RequestIsCreate ==
  ASSUME TypeOK, Next, NEW j \in Jobs, creates'[j] # creates[j]
  PROVE  \E p \in Procs : pc[p] = "create" /\ job[p] = j
<1>1. ASSUME NEW p \in Procs, Create(p) PROVE pc[p] = "create" /\ job[p] = j
  <2>1. pc[p] = "create" /\ creates' = [creates EXCEPT ![job[p]] = @ + 1]
    BY <1>1 DEF Create
  <2> QED BY <2>1 DEF TypeOK
<1>2. ASSUME NEW p \in Procs, Step(p) \/ Crash(p) PROVE Create(p)
  BY <1>2
     DEF Step, Crash, Reconciling, Submitting, Tracking, Helping, AcquireLock, RefuseBlocked,
         ObserveBatch, RetainObservation, RefuseUnresolved, ProjectionFails,
         SubmitterReconciled, Select, StopPlan, Prepare, MarkSubmitting, RecheckNode, Abandon,
         RetainResponse, RetainReceipt, RetainFailure, Attach, Poll, StopPolling,
         AppendObservation, VerifyEvidence, AppendVerification, HelperReconciled, Prune,
         ObserveForJob, RetainJob, world
<1>3. ASSUME NEW k \in Jobs, Environment(k) PROVE creates' = creates
  BY <1>3 DEF Environment, StartJob, EndJob, EndPod, DeleteJob, VanishJob, ReplaceJob,
              LandCreate, DropCreate
<1>4. Tick => creates' = creates
  BY DEF Tick, world
<1> QED BY <1>1, <1>2, <1>3, <1>4 DEF Next

\* A create is sent only when every other intent is finished or was confirmed by an
\* exact read or receipt (reconcile_submission_intents, submit_workflow_plan).
THEOREM CreatesNeedSettlement == Spec => CreateNeedsSettledLedger
<1>1. IndInv /\ SettledInv /\ [Next]_vars =>
        [\A j \in Jobs : creates'[j] # creates[j] =>
           \A k \in Jobs \ {j} : Unfinished(k) => intents[k].last \in {"observed", "submitted"}]_vars
  <2> SUFFICES ASSUME IndInv, SettledInv, Next,
                      NEW j \in Jobs, creates'[j] # creates[j],
                      NEW k \in Jobs \ {j}, Unfinished(k)
               PROVE  intents[k].last \in {"observed", "submitted"}
    OBVIOUS
  <2>1. PICK p \in Procs : pc[p] = "create" /\ job[p] = j
    BY RequestIsCreate DEF IndInv, ControlInv
  <2> QED BY <2>1 DEF SettledInv, BeforeCreate, Confirmed
<1> QED BY <1>1, Invariance, LedgerIsSettled, PTL DEF Spec, CreateNeedsSettledLedger

\* A submission decides and submits from one ledger: until it leaves its critical section
\* nobody else writes state.json or jobs.csv (manager.py, admission_lock).
THEOREM LedgerStaysPut == Spec => LedgerIsProtected
<1>1. IndInv /\ [Next]_vars =>
        [\A q \in Procs : pc[q] \in Locked /\ durable' # durable
           => \A p \in Procs \ {q} : /\ pc'[p] = pc[p] /\ job'[p] = job[p]
                                     /\ batch'[p] = batch[p] /\ reply'[p] = reply[p]]_vars
  <2> SUFFICES ASSUME IndInv, Next, NEW q \in Procs, pc[q] \in Locked, durable' # durable,
                      NEW p \in Procs \ {q}
               PROVE  /\ pc'[p] = pc[p] /\ job'[p] = job[p]
                      /\ batch'[p] = batch[p] /\ reply'[p] = reply[p]
    OBVIOUS
  <2>1. ControlInv
    BY DEF IndInv
  <2>2. PICK r \in Procs : ProcessStep(r)
    BY EveryStepIsKnown DEF QuietStep
  <2>3. r = q
    BY <2>1, <2>2, LockProtects
  <2> QED BY <2>2, <2>3 DEF ProcessStep, ControlStep
<1> QED BY <1>1, Invariance, PTL DEF Spec, LedgerIsProtected

\* The shared inflight budget bounds the work that may really exist, for any finite plan
\* (check_active_jobs counts every unfinished intent).
THEOREM BudgetSafety == IsFiniteSet(Jobs) => (Spec => []BudgetRespected)
<1>1. ASSUME IsFiniteSet(Jobs), Init PROVE BudgetInv /\ BudgetRespected
  <2>1. \A p \in Procs : pc[p] = "idle"
    BY <1>1 DEF Init
  <2>2. \A k \in Jobs : flight = {} /\ cluster[k].uid # Own
    BY <1>1 DEF Init, NoObject, Own, NoUid
  <2>3. {j \in Jobs : Outstanding(j)} = {}
    BY <2>1, <2>2 DEF Outstanding
  <2>4. Cardinality({j \in Jobs : Outstanding(j)}) = 0
    BY <2>3, FS_EmptySet
  <2> QED BY <2>1, <2>4, BudgetPositive DEF BudgetInv, BudgetRespected, BeforeCreate
<1>2. ASSUME IsFiniteSet(Jobs), IndInv, BudgetInv, BudgetRespected, [Next]_vars
      PROVE  BudgetInv' /\ BudgetRespected'
  BY <1>2, EveryStepIsKnown, BudgetStep
<1> SUFFICES ASSUME IsFiniteSet(Jobs) PROVE Spec => []BudgetRespected
  OBVIOUS
<1> QED BY <1>1, <1>2, Invariance, PTL DEF Spec

\* Two of the package's Jobs on one node are created at least a cooldown apart, also when
\* the first one's receipt was lost (check_node_cooldown).
THEOREM CooldownSafety == Spec => []CooldownHonoured
<1>1. Init => CoolInv
  <2> SUFFICES ASSUME Init PROVE CoolInv
    OBVIOUS
  <2>1. \A j \in Jobs : born[j] = 0 /\ cluster[j] = NoObject /\ intents[j] = NoIntent
    BY DEF Init
  <2>2. \A p \in Procs : pc[p] = "idle" /\ batch[p] = NoBatch
    BY DEF Init
  <2>3. \A j \in Jobs : NoBatch[j].state = "none"
    BY DEF NoBatch, NoEvent, Plain
  <2>4. now = 1 /\ NoObject.phase = "Absent" /\ NoIntent.last = "none"
    BY DEF Init, NoObject, NoIntent
  <2>5. ClockInv
    BY <2>1, <2>4 DEF ClockInv
  <2>6. DatedInv
    BY <2>1, <2>2, <2>3, <2>4 DEF DatedInv
  <2>7. ComingInv /\ CooldownHonoured
    BY <2>1 DEF ComingInv, CooldownHonoured
  <2> QED BY <2>5, <2>6, <2>7 DEF CoolInv
<1>2. IndInv /\ CoolInv /\ [Next]_vars => CoolInv'
  <2> SUFFICES ASSUME IndInv, CoolInv, [Next]_vars PROVE CoolInv'
    OBVIOUS
  <2> QED BY EveryStepIsKnown, EveryBirthStep, CoolStep DEF IndInv
<1>3. CoolInv => CooldownHonoured
  BY DEF CoolInv
<1> QED BY <1>1, <1>2, <1>3, Invariance, PTL DEF Spec

\* An intent never mixes two Job objects: receipts, responses and observations of every
\* process agree on one uid, also when the Job was replaced under its name
\* (verify_submission_identity against every uid the ledger knows).
THEOREM IdentitySafety == Spec => []OneIdentity
<1>1. Init => IdentityInv
  <2> SUFFICES ASSUME Init PROVE IdentityInv
    OBVIOUS
  <2>1. \A j \in Jobs : intents[j] = NoIntent
    BY DEF Init
  <2>2. \A p \in Procs : pc[p] = "idle" /\ batch[p] = NoBatch /\ reply[p] = NoObject
    BY DEF Init
  <2>3. \A j \in Jobs : KnownUids(intents[j]) = {}
    BY <2>1 DEF KnownUids, NoIntent
  <2>4. NoObject.uid = NoUid /\ \A j \in Jobs : NoBatch[j].reply = NoUid
    BY DEF NoObject, NoBatch, NoEvent, Plain
  <2>5. UidInv
    BY <2>3 DEF UidInv
  <2>6. ASSUME NEW p \in Procs PROVE MemoryInv(p)
    <3>1. pc[p] \notin Submission \cup BeforeCreate \cup Answered \cup Polling
                      \cup {"replied", "attach", "retain", "noting"}
      BY <2>2 DEF Submission, BeforeCreate, Answered, Polling
    <3>2. reply[p].uid \in {NoUid, Own} /\ \A j \in Jobs : batch[p][j].reply = NoUid
      BY <2>2, <2>4
    <3> QED BY <3>1, <3>2 DEF MemoryInv
  <2> QED BY <2>5, <2>6 DEF IdentityInv
<1>2. IndInv /\ IdentityInv /\ [Next]_vars => IdentityInv'
  <2> SUFFICES ASSUME IndInv, IdentityInv, [Next]_vars PROVE IdentityInv'
    OBVIOUS
  <2> QED BY EveryStepIsKnown, IdentityStep
<1>3. IdentityInv => OneIdentity
  <2> SUFFICES ASSUME IdentityInv, NEW j \in Jobs PROVE Cardinality(KnownUids(intents[j])) <= 1
    BY DEF OneIdentity
  <2>1. KnownUids(intents[j]) = {} \/ \E u : KnownUids(intents[j]) = {u}
    BY DEF IdentityInv, UidInv
  <2>2. CASE KnownUids(intents[j]) = {}
    <3>1. Cardinality(KnownUids(intents[j])) = 0
      BY <2>2, FS_EmptySet
    <3> QED BY <3>1
  <2>3. ASSUME NEW u, KnownUids(intents[j]) = {u} PROVE Cardinality(KnownUids(intents[j])) <= 1
    <3>1. Cardinality({u}) = 1
      BY FS_Singleton
    <3> QED BY <2>3, <3>1
  <2> QED BY <2>1, <2>2, <2>3
<1> QED BY <1>1, <1>2, <1>3, Invariance, PTL DEF Spec

-----------------------------------------------------------------------------
(***************************************************************************)
(* Which intents may be written, and the reservations they stand for.      *)
(* Three results are about the submitters, the state helper and every      *)
(* fault but the prune: a validator appends what it saw without the lock   *)
(* to whatever the intent has become, and the note after a prune may meet  *)
(* an intent that was released meanwhile.                                  *)
(***************************************************************************)
Attempted == {"prepared", "submitting", "uncertain", "submitted"}
Pruning == {"prune", "note", "noting"}

\* What p is about to append to is still open.
OpenAt(p) ==
  /\ pc[p] = "retain" =>
       \A j \in Jobs : batch[p][j] = NoEvent \/ (Unfinished(j) /\ ~Blocking(j))
  /\ pc[p] \in Answered \cup {"replied"} => intents[job[p]].last \in Attempted
  /\ pc[p] = "noting" => intents[job[p]].last # "conflict"

OpenInv == \A p \in Procs : OpenAt(p)

\* Without validators nobody polls, without the prune nobody notes one.
AloneInv ==
  \A p \in Procs :
    /\ pc[p] \in Polling \cup {"attach"} => Validators # {}
    /\ pc[p] \in Pruning => "prune" \in Faults

\* How the points are reached at which something waits to be appended.
LEMMA OpenStages ==
  ASSUME ControlInv, NEW p \in Procs, Step(p) \/ Crash(p)
  PROVE  /\ pc'[p] = "retain" => ObserveBatch(p) \/ \E j \in Jobs : RetainObservation(p, j)
         /\ pc'[p] \in {"failed", "clash"} => RetainResponse(p)
         /\ pc'[p] = "unsaved" => RetainReceipt(p)
         /\ pc'[p] = "noting" => ObserveForJob(p)
         /\ pc'[p] \in Polling \cup {"attach"} => p \in Validators \/ pc[p] \in Polling \cup {"attach"}
         /\ pc'[p] \in Pruning => "prune" \in Faults \/ pc[p] \in Pruning
<1> DEFINE Claim ==
         /\ pc'[p] = "retain" => ObserveBatch(p) \/ \E j \in Jobs : RetainObservation(p, j)
         /\ pc'[p] \in {"failed", "clash"} => RetainResponse(p)
         /\ pc'[p] = "unsaved" => RetainReceipt(p)
         /\ pc'[p] = "noting" => ObserveForJob(p)
         /\ pc'[p] \in Polling \cup {"attach"} => p \in Validators \/ pc[p] \in Polling \cup {"attach"}
         /\ pc'[p] \in Pruning => "prune" \in Faults \/ pc[p] \in Pruning
<1>1. pc \in [Procs -> PCs]
  BY DEF ControlInv, TypeOK
<1>2. pc'[p] \in {"idle", "observe", "select", "prepare", "mark", "recheck", "abandon",
                  "create", "replied", "receipt"} => Claim
  BY DEF Polling, Pruning
<1>3. CASE Exit(p)
  BY <1>1, <1>2, <1>3 DEF Exit, Goto
<1>4. CASE AcquireLock(p) \/ SubmitterReconciled(p) \/ Create(p)
  BY <1>1, <1>2, <1>4 DEF AcquireLock, SubmitterReconciled, Create, Goto
<1>5. CASE Prepare(p) \/ MarkSubmitting(p) \/ RecheckNode(p)
  BY <1>1, <1>2, <1>3, <1>5 DEF Prepare, MarkSubmitting, RecheckNode, Goto
<1>6. ASSUME NEW j \in Jobs, Select(p, j) PROVE Claim
  BY <1>1, <1>2, <1>6 DEF Select, Goto
<1>7. ASSUME NEW j \in Jobs, RetainObservation(p, j) PROVE Claim
  BY <1>1, <1>3, <1>7 DEF RetainObservation, Polling, Pruning
<1>8. CASE ObserveBatch(p)
  BY <1>1, <1>8 DEF ObserveBatch, Goto, Polling, Pruning
<1>9. CASE RetainResponse(p)
  BY <1>1, <1>9 DEF RetainResponse, Goto, Polling, Pruning
<1>10. CASE RetainReceipt(p)
  BY <1>1, <1>10 DEF RetainReceipt, Goto, Polling, Pruning
<1>11. CASE Attach(p) \/ Poll(p) \/ StopPolling(p) \/ AppendObservation(p) \/ VerifyEvidence(p)
  <2>1. pc[p] \in Polling \cup {"attach"}
    BY <1>11 DEF Attach, Poll, StopPolling, AppendObservation, VerifyEvidence, Polling
  <2>2. CASE pc'[p] \in Polling
    BY <2>1, <2>2 DEF Polling, Pruning
  <2> QED
    BY <1>1, <1>3, <1>11, <2>2
       DEF Attach, Poll, StopPolling, AppendObservation, VerifyEvidence, Goto, Polling
<1>12. CASE HelperReconciled(p) \/ Prune(p) \/ ObserveForJob(p)
  BY <1>1, <1>3, <1>12 DEF HelperReconciled, Prune, ObserveForJob, Goto, Polling, Pruning
<1> QED
  BY <1>3, <1>4, <1>5, <1>6, <1>7, <1>8, <1>9, <1>10, <1>11, <1>12
     DEF Step, Crash, Reconciling, Submitting, Tracking, Helping, RefuseBlocked,
         RefuseUnresolved, ProjectionFails, StopPlan, Abandon, RetainFailure,
         AppendVerification, RetainJob

LEMMA AloneStep ==
  ASSUME ControlInv, AloneInv,
         QuietStep \/ \E p \in Procs : ProcessStep(p) /\ (Step(p) \/ Crash(p))
  PROVE  AloneInv'
<1>1. CASE QuietStep
  BY <1>1 DEF QuietStep, local, AloneInv
<1>2. ASSUME NEW p \in Procs, ProcessStep(p), Step(p) \/ Crash(p), NEW q \in Procs
      PROVE  /\ pc'[q] \in Polling \cup {"attach"} => Validators # {}
             /\ pc'[q] \in Pruning => "prune" \in Faults
  <2>1. CASE q # p
    BY <1>2, <2>1 DEF ProcessStep, ControlStep, AloneInv
  <2>2. CASE q = p
    BY <1>2, <2>2, OpenStages DEF AloneInv
  <2> QED BY <2>1, <2>2
<1> QED BY <1>1, <1>2 DEF AloneInv

\* An append leaves the intent at its last state or at the event's.
LEMMA OpenStep ==
  ASSUME IndInv, OpenInv,
         QuietStep \/ \E p \in Procs : ProcessStep(p) /\ (Step(p) \/ Crash(p))
  PROVE  OpenInv'
<1>1. ControlInv /\ TypeOK /\ SubmissionInv
  BY DEF IndInv, ControlInv
<1>2. ASSUME NEW j \in Jobs, intents'[j] = intents[j], Unfinished(j), ~Blocking(j)
      PROVE  Unfinished(j)' /\ ~Blocking(j)'
  BY <1>2 DEF Unfinished, Exists, Blocking
<1>3. CASE QuietStep
  <2>1. intents' = intents /\ pc' = pc /\ batch' = batch /\ job' = job
    BY <1>3 DEF QuietStep, durable, local
  <2> QED BY <1>2, <2>1 DEF OpenInv, OpenAt
<1>4. ASSUME NEW p \in Procs, ProcessStep(p), Step(p) \/ Crash(p), NEW q \in Procs
      PROVE  OpenAt(q)'
  <2>1. CASE q # p
    <3>1. pc'[q] \in Locked => intents' = intents /\ pc'[q] = pc[q] /\ job'[q] = job[q]
      BY <1>1, <1>4, <2>1, Undisturbed
    <3>2. batch'[q] = batch[q]
      BY <1>4, <2>1 DEF ProcessStep, ControlStep
    <3>3. OpenAt(q)
      BY DEF OpenInv
    <3> QED BY <1>2, <3>1, <3>2, <3>3 DEF OpenAt, Locked, Answered
  <2>2. OpenAt(p) /\ (pc[p] \in WithJob => job[p] \in Jobs)
    BY <1>1 DEF OpenInv, ControlInv, JobInv
  <2>3. pc'[p] = "retain" =>
          \A j \in Jobs : batch'[p][j] = NoEvent \/ (Unfinished(j)' /\ ~Blocking(j)')
    <3>1. CASE ObserveBatch(p)
      <4>1. intents' = intents /\ \A j \in Jobs : ~Blocking(j)
        BY <3>1 DEF ObserveBatch, durable
      <4>2. PICK b \in Observations({j \in Jobs : Unfinished(j)}, LedgerUids) :
                   batch' = [batch EXCEPT ![p] = b]
        BY <3>1 DEF ObserveBatch
      <4>3. LedgerUids \in [Jobs -> SUBSET Uids]
        BY <1>1, LedgerUidsType
      <4>4. \A j \in Jobs \ {k \in Jobs : Unfinished(k)} : b[j] = NoEvent
        BY <1>1, <4>3, ObservationsEffect
      <4>5. batch'[p] = b
        BY <1>1, <4>2 DEF TypeOK
      <4> QED BY <1>2, <4>1, <4>4, <4>5
    <3>2. ASSUME NEW j \in Jobs, RetainObservation(p, j), pc'[p] = "retain",
                 NEW k \in Jobs
          PROVE  batch'[p][k] = NoEvent \/ (Unfinished(k)' /\ ~Blocking(k)')
      <4>1. ~Exit(p)
        BY <1>1, <3>2, ExitEffect
      <4>2. /\ batch' = [batch EXCEPT ![p][j] = NoEvent]
            /\ intents' = [intents EXCEPT ![j] = Logged(@, batch[p][j])] /\ pc[p] = "retain"
        BY <3>2, <4>1 DEF RetainObservation, Retain, AppendEvent
      <4>3. k = j => batch'[p][k] = NoEvent
        BY <1>1, <4>2 DEF TypeOK
      <4>4. k # j => batch'[p][k] = batch[p][k] /\ intents'[k] = intents[k]
        BY <1>1, <4>2 DEF TypeOK
      <4>5. batch[p][k] = NoEvent \/ (Unfinished(k) /\ ~Blocking(k))
        BY <2>2, <4>2 DEF OpenAt
      <4> QED BY <1>2, <4>3, <4>4, <4>5
    <3> QED BY <1>1, <1>4, <3>1, <3>2, OpenStages
  <2>4. pc'[p] \in Answered \cup {"replied"} => intents'[job'[p]].last \in Attempted
    <3>1. CASE Create(p)
      BY <1>1, <3>1 DEF Create, SubmissionInv, BeforeCreate, Attempted, durable
    <3>2. CASE RetainResponse(p)
      <4> DEFINE e == [Plain("uncertain") EXCEPT !.reply = reply[p].uid]
      <4>1. e \in Event /\ e.state = "uncertain"
        BY <1>1 DEF TypeOK, Plain, Event, EventStates, Phases, Objects
      <4>2. pc[p] = "replied" /\ (Retain(job[p], e) \/ RetainFails(job[p], e)) /\ job' = job
        BY <3>2 DEF RetainResponse
      <4>3. job[p] \in Jobs /\ intents[job[p]].last \in Attempted
        BY <2>2, <4>2 DEF OpenAt, WithJob
      <4> HIDE DEF e
      <4>4. intents'[job[p]].last \in {intents[job[p]].last, "uncertain"}
        BY <1>1, <4>1, <4>2, <4>3, RetainEffect
      <4> QED BY <4>2, <4>3, <4>4 DEF Attempted
    <3>3. CASE RetainReceipt(p) /\ pc'[p] = "unsaved"
      <4> DEFINE e == [state |-> "submitted", phase |-> reply[p].phase, uid |-> reply[p].uid,
                       reply |-> NoUid, created |-> reply[p].at]
      <4>1. e \in Event /\ e.state = "submitted"
        BY <1>1, <3>3 DEF RetainReceipt, ControlInv, TypeOK, ReplyInv, Event, EventStates, Phases,
                          Objects
      <4>2. pc[p] = "receipt" /\ RetainFails(job[p], e) /\ job' = job
        BY <1>1, <3>3 DEF RetainReceipt, Goto, TypeOK
      <4>3. job[p] \in Jobs /\ intents[job[p]].last \in Attempted
        BY <2>2, <4>2 DEF OpenAt, WithJob, Answered
      <4> HIDE DEF e
      <4>4. intents'[job[p]].last \in {intents[job[p]].last, "submitted"}
        BY <1>1, <4>1, <4>2, <4>3, RetainEffect
      <4> QED BY <4>2, <4>3, <4>4 DEF Attempted
    <3> QED BY <1>1, <1>4, <3>1, <3>2, <3>3, StageEffect, OpenStages DEF Answered
  <2>5. pc'[p] = "noting" => intents'[job'[p]].last # "conflict"
    <3>1. ASSUME ObserveForJob(p), pc'[p] = "noting" PROVE intents'[job'[p]].last # "conflict"
      <4>1. ~Exit(p)
        BY <1>1, <3>1, ExitEffect
      <4> QED BY <3>1, <4>1 DEF ObserveForJob, durable
    <3> QED BY <1>1, <1>4, <3>1, OpenStages
  <2> QED BY <2>1, <2>3, <2>4, <2>5 DEF OpenAt
<1> QED BY <1>3, <1>4 DEF OpenInv

\* A write goes to an intent its process has just prepared for, or to one still open;
\* only validators and the note after a prune know less.
LEMMA WriteIsOpen ==
  ASSUME IndInv, OpenInv, NEW p \in Procs, NEW j \in Jobs, NEW e \in Event, Write(p, j, e)
  PROVE  \/ pc[p] = "prepare" /\ j = job[p] /\ intents[j].last = "none"
         \/ Unfinished(j) /\ intents[j].last # "conflict"
         \/ pc[p] = "noting" /\ intents[j].last # "conflict"
         \/ pc[p] \in Polling
<1>1. OpenAt(p) /\ SubmissionInv /\ BatchInv
  BY DEF IndInv, ControlInv, OpenInv
<1>2. ASSUME intents[j].last \in Attempted \cup {"prepared", "submitting"}
      PROVE  Unfinished(j) /\ intents[j].last # "conflict"
  BY <1>2 DEF Attempted, Unfinished, Exists, intent_finished, tracking_releases
<1>3. CASE pc[p] = "retain" /\ e = batch[p][j]
  <2>1. e.state # "none"
    BY DEF Write
  <2>2. batch[p][j] # NoEvent
    BY <1>3, <2>1 DEF NoEvent, Plain
  <2> QED BY <1>1, <1>3, <2>2 DEF OpenAt, Blocking
<1>4. CASE pc[p] \in Carrying /\ j = job[p]
  BY <1>1, <1>4 DEF OpenAt, Carrying, Polling
<1>5. CASE pc[p] \in {"prepare", "mark", "abandon"} /\ j = job[p]
  BY <1>1, <1>2, <1>5 DEF SubmissionInv, BeforeCreate
<1>6. CASE pc[p] \in Answered \cup {"replied"} /\ j = job[p]
  BY <1>1, <1>2, <1>6 DEF OpenAt
<1> QED BY <1>3, <1>4, <1>5, <1>6 DEF Write

\* Nobody but a process appends, and only as it may.
LEMMA EveryAppend ==
  ASSUME IndInv, [Next]_vars
  PROVE  \/ intents' = intents
         \/ \E p \in Procs : /\ Step(p) \/ Crash(p)
                             /\ ProcessStep(p)
                             /\ \E j \in Jobs, e \in Event : Write(p, j, e)
BY EveryStepIsKnown, EveryWrite DEF IndInv, QuietStep, durable, Written

LEMMA AloneAndOpen == Spec => [](IndInv /\ OpenInv /\ AloneInv)
<1>1. Init => OpenInv /\ AloneInv
  <2>1. Init => \A p \in Procs : pc[p] = "idle"
    BY DEF Init
  <2>2. "idle" \notin Polling \cup {"attach"} /\ "idle" \notin Pruning
    BY DEF Polling, Pruning
  <2>3. "idle" \notin Answered \cup {"replied"}
    BY DEF Answered
  <2> QED BY <2>1, <2>2, <2>3 DEF OpenInv, OpenAt, AloneInv
<1>2. IndInv /\ OpenInv /\ AloneInv /\ [Next]_vars => OpenInv' /\ AloneInv'
  <2> SUFFICES ASSUME IndInv, OpenInv, AloneInv, [Next]_vars PROVE OpenInv' /\ AloneInv'
    OBVIOUS
  <2> QED BY EveryStepIsKnown, OpenStep, AloneStep DEF IndInv
<1> QED BY <1>1, <1>2, Invariance, PTL DEF Spec

\* Without validators a conflict stays until an operator reconciles it: no reconciliation,
\* submission, prune or failing write appends over it (reconcile_submission_intents).
THEOREM ConflictSafety == Validators = {} => (Spec => ConflictIsRetained)
<1>1. ASSUME Validators = {}, IndInv, OpenInv, AloneInv, [Next]_vars
      PROVE  [\A j \in Jobs : intents[j].last = "conflict" => intents'[j].last = "conflict"]_vars
  <2> SUFFICES ASSUME NEW k \in Jobs, intents[k].last = "conflict"
               PROVE  intents'[k].last = "conflict"
    OBVIOUS
  <2>1. ASSUME NEW p \in Procs, NEW j \in Jobs, NEW e \in Event, Write(p, j, e)
        PROVE  intents'[k] = intents[k]
    <3>1. pc[p] \notin Polling
      BY <1>1 DEF AloneInv
    <3>2. intents[j].last # "conflict"
      BY <1>1, <2>1, <3>1, WriteIsOpen
    <3> QED BY <2>1, <3>2 DEF Write
  <2> QED BY <1>1, <2>1, EveryAppend
<1> SUFFICES ASSUME Validators = {} PROVE Spec => ConflictIsRetained
  OBVIOUS
<1> QED BY <1>1, AloneAndOpen, PTL DEF Spec, ConflictIsRetained

\* Without validators and prune a released reservation is never taken back
\* (reconcile_submission_intents observes unfinished intents only).
THEOREM ReleaseSafety ==
  Validators = {} /\ "prune" \notin Faults => (Spec => ReleaseIsFinal)
<1>1. ASSUME Validators = {}, "prune" \notin Faults, IndInv, OpenInv, AloneInv, [Next]_vars
      PROVE  [\A j \in Jobs : Exists(j) /\ ~Unfinished(j) => intent_finished(intents'[j])]_vars
  <2> SUFFICES ASSUME NEW k \in Jobs, Exists(k), ~Unfinished(k)
               PROVE  intent_finished(intents'[k])
    OBVIOUS
  <2>1. intent_finished(intents[k])
    BY DEF Unfinished
  <2>2. ASSUME NEW p \in Procs, NEW j \in Jobs, NEW e \in Event, Write(p, j, e)
        PROVE  intents'[k] = intents[k]
    <3>1. pc[p] \notin Polling /\ pc[p] # "noting"
      BY <1>1 DEF AloneInv, Pruning
    <3>2. intents[j].last = "none" \/ Unfinished(j)
      BY <1>1, <2>2, <3>1, WriteIsOpen
    <3>3. j # k
      BY <3>2 DEF Exists
    <3> QED BY <2>2, <3>3 DEF Write
  <2> QED BY <1>1, <2>1, <2>2, EveryAppend
<1> SUFFICES ASSUME Validators = {}, "prune" \notin Faults PROVE Spec => ReleaseIsFinal
  OBVIOUS
<1> QED BY <1>1, AloneAndOpen, PTL DEF Spec, ReleaseIsFinal

(***************************************************************************)
(* The refinement of Reservation.                                          *)
(***************************************************************************)
\* Between its check and its first write a submission finds node and slot free.
RoomInv ==
  \A p \in Procs : pc[p] = "prepare" =>
    /\ \A k \in Jobs : Unfinished(k) => NodeOf[k] # NodeOf[job[p]]
    /\ Cardinality({k \in Jobs : Unfinished(k)}) < Budget

LEMMA RoomStep ==
  ASSUME IsFiniteSet(Jobs), IndInv, RoomInv,
         QuietStep \/ \E p \in Procs : ProcessStep(p) /\ (Step(p) \/ Crash(p))
  PROVE  RoomInv'
<1>1. ControlInv /\ TypeOK
  BY DEF IndInv, ControlInv
<1>2. ASSUME intents' = intents PROVE \A k \in Jobs : Unfinished(k)' <=> Unfinished(k)
  BY <1>2 DEF Unfinished, Exists
<1>3. ASSUME NEW q \in Procs, pc'[q] = "prepare", pc[q] = "prepare", job'[q] = job[q],
             intents' = intents
      PROVE  /\ \A k \in Jobs : Unfinished(k)' => NodeOf[k] # NodeOf[job'[q]]
             /\ Cardinality({k \in Jobs : Unfinished(k)'}) < Budget
  <2>1. {k \in Jobs : Unfinished(k)'} = {k \in Jobs : Unfinished(k)}
    BY <1>2, <1>3
  <2> QED BY <1>2, <1>3, <2>1 DEF RoomInv
<1>4. CASE QuietStep
  BY <1>3, <1>4 DEF QuietStep, durable, local, RoomInv
<1>5. ASSUME NEW p \in Procs, ProcessStep(p), Step(p) \/ Crash(p),
             NEW q \in Procs, pc'[q] = "prepare"
      PROVE  /\ \A k \in Jobs : Unfinished(k)' => NodeOf[k] # NodeOf[job'[q]]
             /\ Cardinality({k \in Jobs : Unfinished(k)'}) < Budget
  <2>1. CASE q # p
    BY <1>1, <1>3, <1>5, <2>1, Undisturbed DEF Locked
  <2>2. CASE q = p
    <3>1. PICK j \in Jobs : Select(p, j) /\ job'[p] = j
      BY <1>5, <2>2 DEF ProcessStep, Approach, BeforeCreate
    <3>2. /\ intents' = intents
          /\ \A k \in ActiveJobs : NodeOf[k] # NodeOf[j]
          /\ Cardinality(ActiveJobs) < Budget
      BY <3>1 DEF Select, check_active_jobs, durable
    <3> DEFINE U == {k \in Jobs : Unfinished(k)}
    <3>3. {k \in Jobs : Unfinished(k)'} = U
      BY <1>2, <3>2
    <3>4. U \subseteq ActiveJobs /\ ActiveJobs \subseteq Jobs
      BY DEF ActiveJobs
    <3>5. Cardinality(U) \in Nat /\ Cardinality(ActiveJobs) \in Nat
          /\ Cardinality(U) <= Cardinality(ActiveJobs)
      <4>1. IsFiniteSet(ActiveJobs) /\ IsFiniteSet(U)
        BY <3>4, FS_Subset
      <4> QED BY <3>4, <4>1, FS_Subset, FS_CardinalityType
    <3>6. Cardinality(U) < Budget
      BY <3>2, <3>5, BudgetPositive
    <3>7. \A k \in Jobs : Unfinished(k)' => NodeOf[k] # NodeOf[job'[p]]
      BY <1>2, <3>1, <3>2, <3>4
    <3> QED BY <2>2, <3>3, <3>6, <3>7
  <2> QED BY <2>1, <2>2
<1> QED BY <1>4, <1>5 DEF RoomInv

\* A command touches nothing outside but by its create and by the prune.
LEMMA StillOutside ==
  ASSUME NEW p \in Procs, Step(p) \/ Crash(p)
  PROVE  UNCHANGED world \/ Create(p) \/ Prune(p)
BY DEF Step, Crash, Reconciling, Submitting, Tracking, Helping, AcquireLock, RefuseBlocked,
       ObserveBatch, RetainObservation, RefuseUnresolved, ProjectionFails, SubmitterReconciled, Select,
       StopPlan, Prepare, MarkSubmitting, RecheckNode, Abandon, RetainResponse,
       RetainReceipt, RetainFailure, Attach, Poll, StopPolling, AppendObservation,
       VerifyEvidence, AppendVerification, HelperReconciled, ObserveForJob, RetainJob

SameWork(k) == Outstanding(k)' <=> Outstanding(k)

\* A command makes or ends work of the one identity it is at.
LEMMA CommandWorks ==
  ASSUME ControlInv, NEW p \in Procs, ProcessStep(p), Step(p) \/ Crash(p),
         NEW k \in Jobs, k # job[p]
  PROVE  SameWork(k)
<1>1. TypeOK
  BY DEF ControlInv
<1>2. /\ k \in flight' <=> k \in flight
      /\ cluster'[k] = cluster[k]
  <2>1. CASE UNCHANGED world
    BY <2>1 DEF world
  <2>2. CASE Prune(p)
    <3>1. flight' = flight /\ cluster' = [cluster EXCEPT ![job[p]].deleting = @ \/ cluster[job[p]].phase # "Absent"]
      BY <2>2 DEF Prune
    <3> QED BY <1>1, <3>1 DEF TypeOK
  <2>3. CASE Create(p)
    <3>1. /\ flight' \in {flight, flight \cup {job[p]}}
          /\ cluster' = cluster \/ \E o : cluster' = [cluster EXCEPT ![job[p]] = o]
      BY <2>3 DEF Create
    <3> QED BY <1>1, <3>1 DEF TypeOK
  <2> QED BY <2>1, <2>2, <2>3, StillOutside
<1>3. \A q \in Procs : (pc'[q] = "create" /\ job'[q] = k) <=> (pc[q] = "create" /\ job[q] = k)
  <2>1. \A q \in Procs \ {p} : pc'[q] = pc[q] /\ job'[q] = job[q]
    BY DEF ProcessStep, ControlStep
  <2>2. pc'[p] = "create" => job'[p] = job[p]
    BY DEF ProcessStep, Approach, BeforeCreate
  <2> QED BY <2>1, <2>2
<1> QED BY <1>2, <1>3 DEF SameWork, Outstanding, Ended

\* So does the cluster.
LEMMA ClusterWorks ==
  ASSUME TypeOK, NEW j \in Jobs, Environment(j), NEW k \in Jobs, k # j
  PROVE  SameWork(k)
<1>1. pc' = pc /\ job' = job
  BY DEF Environment, local
<1>2. flight' \in {flight, flight \ {j}}
  BY DEF Environment, StartJob, EndJob, EndPod, DeleteJob, VanishJob, ReplaceJob, LandCreate,
         DropCreate
<1>3. cluster' = cluster \/ \E o : cluster' = [cluster EXCEPT ![j] = o]
  BY DEF Environment, StartJob, EndJob, EndPod, DeleteJob, VanishJob, ReplaceJob, LandCreate,
         DropCreate, SetObject
<1>4. cluster'[k] = cluster[k]
  BY <1>3 DEF TypeOK
<1> QED BY <1>1, <1>2, <1>4 DEF SameWork, Outstanding, Ended

\* One step makes or ends work of one identity at most.
LEMMA OneWorks ==
  ASSUME ControlInv, [Next]_vars, QuietStep \/ \E p \in Procs : ProcessStep(p) /\ (Step(p) \/ Crash(p))
  PROVE  \E j : \A k \in Jobs : k # j => SameWork(k)
<1>1. ASSUME NEW p \in Procs, ProcessStep(p) /\ (Step(p) \/ Crash(p))
      PROVE  \E j : \A k \in Jobs : k # j => SameWork(k)
  BY <1>1, CommandWorks
<1>2. CASE QuietStep
  <2>1. ASSUME NEW j \in Jobs, Environment(j)
        PROVE  \E i : \A k \in Jobs : k # i => SameWork(k)
    BY <2>1, ClusterWorks DEF ControlInv
  <2>2. ASSUME UNCHANGED world PROVE \A k \in Jobs : SameWork(k)
    BY <1>2, <2>2 DEF QuietStep, local, world, SameWork, Outstanding, Ended
  <2>3. ASSUME NEW p \in Procs, Step(p) \/ Crash(p), Create(p) \/ Prune(p)
        PROVE  FALSE
    <3>1. pc'[p] # pc[p]
      BY <2>3 DEF Create, Prune, Exit, Goto, ControlInv, TypeOK
    <3> QED BY <1>2, <3>1 DEF QuietStep, local
  <2>4. Tick \/ UNCHANGED vars => UNCHANGED world
    BY DEF Tick, vars
  <2> QED BY <2>1, <2>2, <2>3, <2>4, StillOutside DEF Next
<1> QED BY <1>1, <1>2

\* A step that writes no intent begins or ends work, or shows nothing.
LEMMA WorkImplements ==
  ASSUME IndInv, [Next]_vars, intents' = intents
  PROVE  [R!Next]_(R!rvars)
<1>1. ControlInv /\ SubmissionInv
  BY DEF IndInv
<1>2. QuietStep \/ \E p \in Procs : ProcessStep(p) /\ (Step(p) \/ Crash(p))
  BY EveryStepIsKnown
<1>3. stage' = stage
  BY DEF stage, Exists, Unfinished
<1>4. PICK j : \A k \in Jobs : k # j => SameWork(k)
  BY <1>1, <1>2, OneWorks
<1>5. CASE j \in Jobs /\ Outstanding(j)' /\ ~Outstanding(j)
  <2>1. PICK q \in Procs : pc[q] = "recheck" /\ job[q] = j
    BY <1>1, <1>2, <1>5, OutstandingStep
  <2>2. intents[j].last \in {"prepared", "submitting"}
    BY <1>1, <2>1 DEF SubmissionInv, BeforeCreate
  <2>3. stage[j] = "held"
    BY <1>5, <2>2 DEF stage, Exists, Unfinished, intent_finished, tracking_releases
  <2>4. {k \in Jobs : Outstanding(k)'} = {k \in Jobs : Outstanding(k)} \cup {j}
    BY <1>4, <1>5 DEF SameWork
  <2> QED BY <1>3, <1>5, <2>3, <2>4 DEF R!Next, R!Begin
<1>6. CASE j \in Jobs /\ Outstanding(j) /\ ~Outstanding(j)'
  <2>1. {k \in Jobs : Outstanding(k)'} = {k \in Jobs : Outstanding(k)} \ {j}
    BY <1>4, <1>6 DEF SameWork
  <2> QED BY <1>3, <1>6, <2>1 DEF R!Next, R!End
<1>7. CASE j \in Jobs => SameWork(j)
  <2>1. {k \in Jobs : Outstanding(k)'} = {k \in Jobs : Outstanding(k)}
    BY <1>4, <1>7 DEF SameWork
  <2> QED BY <1>3, <2>1 DEF R!rvars
<1> QED BY <1>5, <1>6, <1>7 DEF SameWork

\* A step that writes an intent begins and ends no work.
LEMMA WritesDoNotWork ==
  ASSUME ControlInv, NEW p \in Procs, ProcessStep(p), Step(p) \/ Crash(p),
         NEW j \in Jobs, NEW e \in Event, Write(p, j, e)
  PROVE  \A k \in Jobs : SameWork(k)
<1>1. pc[p] \notin {"create", "recheck", "prune"}
  BY DEF Write, Carrying, Answered
<1>2. UNCHANGED world
  BY <1>1, StillOutside DEF Create, Prune
<1>3. pc'[p] # "create"
  BY <1>1 DEF ProcessStep, Approach, BeforeCreate
<1>4. \A q \in Procs \ {p} : pc'[q] = pc[q] /\ job'[q] = job[q]
  BY DEF ProcessStep, ControlStep
<1> QED BY <1>1, <1>2, <1>3, <1>4 DEF SameWork, Outstanding, Ended, world

\* The first write of an identity reserves its node, a releasing one gives it back when
\* its work has ended, and the others show nothing.
LEMMA WriteImplements ==
  ASSUME IndInv, OpenInv, RoomInv, NEW p \in Procs, ProcessStep(p), Step(p) \/ Crash(p),
         pc[p] \notin Polling \cup {"noting"},
         NEW j \in Jobs, NEW e \in Event, Write(p, j, e)
  PROVE  [R!Next]_(R!rvars)
<1>1. ControlInv /\ TypeOK /\ SubmissionInv /\ LedgerInv /\ ObservationInv
  BY DEF IndInv, ControlInv
<1>2. {k \in Jobs : Outstanding(k)'} = {k \in Jobs : Outstanding(k)}
  BY <1>1, WritesDoNotWork DEF SameWork
<1>3. /\ \A k \in Jobs \ {j} : intents'[k] = intents[k]
      /\ intents'[j].last = e.state /\ e.state # "none"
  BY <1>1, LoggedType DEF Write, TypeOK
<1>4. \A k \in Jobs \ {j} : stage'[k] = stage[k]
  BY <1>3 DEF stage, Exists, Unfinished
<1>5. stage'[j] = IF Unfinished(j)' THEN "held" ELSE "released"
  BY <1>3 DEF stage, Exists
<1>6. stage \in [Jobs -> {"free", "held", "released"}] /\ stage' \in [Jobs -> {"free", "held", "released"}]
  BY DEF stage
<1>7. ASSUME NEW s, stage'[j] = s PROVE stage' = [stage EXCEPT ![j] = s]
  BY <1>4, <1>6, <1>7
<1>8. CASE pc[p] = "prepare" /\ j = job[p] /\ intents[j].last = "none"
  <2>1. e.state \in Holding
    BY <1>3, <1>8 DEF ProcessStep, LedgerStep, Write, Carrying, Answered
  <2>2. stage'[j] = "held"
    BY <1>3, <1>5, <2>1 DEF Holding, Unfinished, Exists, intent_finished, tracking_releases
  <2>3. stage[j] = "free"
    BY <1>8 DEF stage, Exists
  <2>4. {k \in Jobs : stage[k] = "held"} = {k \in Jobs : Unfinished(k)}
    BY DEF stage, Unfinished
  <2>5. R!Held = {k \in Jobs : stage[k] = "held"}
    BY DEF R!Held
  <2>6. Cardinality(R!Held) < Budget /\ \A k \in R!Held : NodeOf[k] # NodeOf[j]
    BY <1>8, <2>4, <2>5 DEF RoomInv
  <2>7. R!Cardinality(R!Held) = Cardinality(R!Held)
    BY DEF R!Cardinality, Cardinality
  <2>8. R!Reserve(j)
    BY <1>2, <1>7, <2>2, <2>3, <2>6, <2>7 DEF R!Reserve
  <2> QED BY <2>8 DEF R!Next
<1>9. CASE Unfinished(j) /\ intents[j].last # "conflict"
  <2>1. stage[j] = "held"
    BY <1>9 DEF stage, Unfinished
  <2>2. CASE Unfinished(j)'
    <3>1. stage' = stage
      BY <1>4, <1>5, <1>6, <2>1, <2>2
    <3> QED BY <1>2, <3>1 DEF R!rvars
  <2>3. CASE ~Unfinished(j)'
    <3>1. intents'[j].last \in {"not_created", "tracking_finished"}
      BY <1>3, <2>3 DEF Unfinished, Exists, intent_finished, tracking_releases
    <3>2. \/ intents'[j].last = intents[j].last
          \/ intents'[j].last = "not_created" /\ pc[p] = "abandon" /\ job[p] = j
          \/ intents'[j].last = "tracking_finished" /\ batch[p][j].state = "tracking_finished"
      BY <3>1 DEF ProcessStep, LedgerStep, Holding
    <3>3. ASSUME Spent(j) PROVE ~Outstanding(j)
      <4>1. creates[j] > 0 /\ j \notin flight /\ (cluster[j].uid = Own => Ended(cluster[j]))
        BY <3>3 DEF Spent
      <4>3. creates[j] # 0
        BY <4>1
      <4>2. \A q \in Procs : ~(pc[q] = "create" /\ job[q] = j)
        BY <1>1, <4>3 DEF SubmissionInv, BeforeCreate, Fresh
      <4> QED BY <4>1, <4>2 DEF Outstanding
    <3>4. ASSUME pc[p] = "abandon", job[p] = j PROVE ~Outstanding(j)
      <4>1. Fresh(j)
        BY <1>1, <3>4 DEF SubmissionInv, BeforeCreate
      <4>2. j \notin flight /\ cluster[j].uid # Own
        BY <4>1 DEF IndInv, RequestInv, Fresh, Own, NoUid
      <4>3. \A q \in Procs : pc[q] # "create"
        BY <1>1, <3>4, OneUnderLock DEF Locked
      <4> QED BY <4>2, <4>3 DEF Outstanding
    <3>5. intents[j].last # "not_created"
      BY <1>9 DEF Unfinished, intent_finished
    <3>6. ~Outstanding(j)
      <4>1. CASE intents[j].last = "tracking_finished"
        BY <1>1, <3>3, <4>1 DEF LedgerInv
      <4>2. CASE batch[p][j].state = "tracking_finished"
        BY <1>1, <3>3, <4>2 DEF ObservationInv
      <4> QED BY <3>1, <3>2, <3>4, <3>5, <4>1, <4>2
    <3>7. stage'[j] = "released"
      BY <1>5, <2>3
    <3>8. R!Release(j)
      BY <1>2, <1>7, <2>1, <3>6, <3>7 DEF R!Release
    <3> QED BY <3>8 DEF R!Next
  <2> QED BY <2>2, <2>3
<1> QED BY <1>8, <1>9, WriteIsOpen

\* Submitters and helper implement the abstract protocol: a node and slot are reserved once,
\* before any work, and given back once, after it, for any finite plan (manager.py).
THEOREM ReservationRefinement ==
  IsFiniteSet(Jobs) /\ Validators = {} /\ "prune" \notin Faults
    => (Spec => ImplementsReservation)
<1>1. ASSUME Init PROVE R!Init /\ RoomInv
  <2>1. \A p \in Procs : pc[p] = "idle"
    BY <1>1 DEF Init
  <2>2. \A k \in Jobs : flight = {} /\ cluster[k].uid # Own
    BY <1>1 DEF Init, NoObject, Own, NoUid
  <2>3. {j \in Jobs : Outstanding(j)} = {}
    BY <2>1, <2>2 DEF Outstanding
  <2>4. stage = [j \in Jobs |-> "free"]
    BY <1>1 DEF Init, stage, Exists, NoIntent
  <2> QED BY <2>1, <2>3, <2>4 DEF R!Init, RoomInv
<1>2. ASSUME IsFiniteSet(Jobs), IndInv, RoomInv, [Next]_vars PROVE RoomInv'
  BY <1>2, EveryStepIsKnown, RoomStep
<1>3. ASSUME Validators = {}, "prune" \notin Faults, IndInv, OpenInv, AloneInv, RoomInv, [Next]_vars
      PROVE  [R!Next]_(R!rvars)
  <2>1. \A p \in Procs : pc[p] \notin Polling \cup {"noting"}
    BY <1>3 DEF AloneInv, Pruning
  <2> QED BY <1>3, <2>1, EveryAppend, WorkImplements, WriteImplements
<1> SUFFICES ASSUME IsFiniteSet(Jobs), Validators = {}, "prune" \notin Faults
             PROVE  Spec => ImplementsReservation
  OBVIOUS
<1>4. Spec => R!Spec
  BY <1>1, <1>2, <1>3, AloneAndOpen, PTL DEF Spec, R!Spec
<1> QED BY <1>4 DEF ImplementsReservation
=============================================================================

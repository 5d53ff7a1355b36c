-------------------------- MODULE AdmissionInvariant --------------------------
(***************************************************************************)
(* The inductive invariant behind the safety properties of Admission.      *)
(* NodeExclusive and ReservationCoversWork do not survive a step by        *)
(* themselves: they need to know who may write while a submission is       *)
(* between its check and its create, that a create can only be ahead of a  *)
(* process whose identity is still untouched, and that a terminal          *)
(* observation still waiting in some process's memory cannot have become   *)
(* wrong.                                                                  *)
(***************************************************************************)
EXTENDS Admission

\* Program points at which a process works on one Job.
WithJob == {"prepare", "mark", "recheck", "abandon", "create", "replied", "receipt",
            "failed", "clash", "unsaved", "attach", "poll", "report", "last words",
            "verify", "append", "prune", "note", "noting"}
BeforeCreate == {"prepare", "mark", "recheck", "abandon", "create"}
Carrying == {"report", "last words", "verify", "append", "noting"}
Sightings == {"observed", "uncertain", "conflict", "tracking_finished"}

\* The steps of a command that its lock protects.
LockInv == \A p \in Procs : pc[p] \in Locked => lock = p

JobInv == \A p \in Procs : pc[p] \in WithJob => job[p] \in Jobs

\* Observations in memory are real observations.
BatchInv ==
  /\ \A p \in Procs, j \in Jobs : batch[p][j] = NoEvent \/ batch[p][j].state \in Sightings
  /\ \A p \in Procs : pc[p] \in Carrying => batch[p][job[p]].state \in Sightings

\* A response in memory either names a Job object or is no receipt.
ReplyInv ==
  \A p \in Procs :
    /\ reply[p].uid # NoUid => reply[p].phase # "Absent"
    /\ pc[p] \in {"receipt", "unsaved"} => reply[p].uid # NoUid

\* Where the processes are, and that what they carry fits; needs nothing else.
ControlInv == TypeOK /\ LockInv /\ JobInv /\ BatchInv /\ ReplyInv

\* No request was ever made for j.
Fresh(j) == creates[j] = 0 /\ born[j] = 0 /\ j \notin flight /\ cluster[j].phase = "Absent"

\* The one request for j is answered, and the Job it made has ended or is gone.
Spent(j) ==
  /\ creates[j] > 0 /\ j \notin flight
  /\ cluster[j].uid = Own => Ended(cluster[j])

RequestInv ==
  /\ now > 0
  /\ \A j \in Jobs :
       /\ creates[j] <= 1
       /\ creates[j] = 0 => Fresh(j)
       /\ cluster[j].phase # "Absent" => born[j] > 0
       /\ cluster[j].phase = "Absent" <=> cluster[j].uid = NoUid
       /\ j \in flight => born[j] = 0

\* What an intent says about the requests made for it.
LedgerInv ==
  \A j \in Jobs :
    /\ intents[j].last \in {"none", "not_created"} => Fresh(j)
    /\ intents[j].last = "tracking_finished" => Spent(j)

SubmissionInv ==
  \A p \in Procs :
    pc[p] \in BeforeCreate =>
      /\ Fresh(job[p])
      /\ pc[p] = "prepare" => intents[job[p]].last = "none"
      /\ pc[p] # "prepare" => intents[job[p]].last \in {"prepared", "submitting"}

\* A terminal observation stays true however long it waits to be appended.
ObservationInv ==
  \A p \in Procs, j \in Jobs : batch[p][j].state = "tracking_finished" => Spent(j)

\* Between the admission check and the create the node stays free of others' work.
NodeInv ==
  \A p \in Procs :
    pc[p] \in BeforeCreate =>
      \A k \in Jobs \ {job[p]} : Outstanding(k) => NodeOf[k] # NodeOf[job[p]]

IndInv ==
  /\ ControlInv /\ RequestInv /\ LedgerInv /\ SubmissionInv /\ ObservationInv
  /\ NodeInv /\ NodeExclusive

(***************************************************************************)
(* What the lock is for.                                                   *)
(***************************************************************************)
\* While a command is between taking the lock and leaving, from the reconciliation to the
\* receipt, the ledger it decided from changes by no step but its own.
LedgerIsProtected ==
  [][\A q \in Procs : pc[q] \in Locked /\ durable' # durable
       => \A p \in Procs \ {q} : /\ pc'[p] = pc[p] /\ job'[p] = job[p]
                                 /\ batch'[p] = batch[p] /\ reply'[p] = reply[p]]_vars
==============================================================================

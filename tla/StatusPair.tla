------------------------------ MODULE StatusPair ------------------------------
(***************************************************************************)
(* The status reports of a live session (cval/storage/status.py and        *)
(* `status --watch` of scripts/cval-live-state.py): node-status.csv and    *)
(* cluster-status.yaml are replaced one after the other, by a refresher    *)
(* that collects without the admission lock and by everybody who records a *)
(* submission event.  read_status_csvs compares the snapshot_id of each row *)
(* with that of the cluster report, so a node report without rows carries  *)
(* none and agrees with any cluster report.                                *)
(*                                                                         *)
(* A node's row is the attempt it lists and whether its phase is not a     *)
(* terminal one.  An intent whose Job has ended is not finished before its *)
(* recording is confirmed.  Coverage and resources of a node do not decide *)
(* which attempt is listed; of an inventory, the nodes it found do.        *)
(***************************************************************************)
EXTENDS NoValue, Naturals, FiniteSetsExt

CONSTANTS
  LastAttempt,   \* attempts, numbered by their timestamps
  Machines,      \* GPU nodes
  MachineOf(_),  \* node of an attempt
  Inventories,   \* sets of nodes an inventory may find; {} when it is unavailable
  Recorders,     \* processes that record submission events
  Refreshers,    \* processes that refresh the reports
  LastSession    \* sessions, one after another by approved turnover

ASSUME StatusBounds == LastAttempt \in Nat /\ LastSession \in Nat \ {0}

Attempts == 1..LastAttempt
Publishers == Recorders \cup Refreshers

VARIABLES
  journal,     \* per attempt: its state in the active session's journal
  session,     \* the active session
  job,         \* history: per attempt whether it was made, and whether its Job is known to be over
  statusLock,  \* holder of the admission lock, or None
  cache,       \* status-observation.json of the session: nodes found, or None
  nodeCsv,     \* node-status.csv: its rows and the snapshot_id of each of them, or None
  clusterYaml, \* cluster-status.yaml: nodes in total, nodes observed, snapshot_id; or None
  publisher,   \* per process: its phase and locals
  torn         \* history: the last publisher died after the first of its two replacements

statusVars == <<journal, session, job, statusLock, cache, nodeCsv, clusterYaml, publisher, torn>>
reports == <<nodeCsv, clusterYaml, torn>>

Row == [attempt : Attempts \cup {None}, unresolved : BOOLEAN]
Rows == [Machines -> Row \cup {None}]
Clusters == SUBSET Machines
Projections == Rows \X Clusters
NodeReports == [rows : Rows, id : Projections]
ClusterReports == [total : Nat, cluster : Clusters, id : Projections]
NodesOf(rows) == {m \in Machines : rows[m] # None}
NoRow == [attempt |-> None, unresolved |-> FALSE]
NoRows == [m \in Machines |-> None]

\* A node's attempts are its own; an inventory finds nodes of the cluster.
ASSUME NodesAndAttempts ==
  /\ IsFiniteSet(Machines)
  /\ \A a \in Attempts : MachineOf(a) \in Machines
  /\ Inventories \subseteq SUBSET Machines
ASSUME NoneIsNoReport ==
  None \notin Nat \cup Publishers \cup Row \cup NodeReports \cup ClusterReports

Resting == [phase |-> "idle", session |-> 0, found |-> {}, rows |-> NoRows, cluster |-> {}]

StatusInit ==
  /\ journal = [a \in Attempts |-> "none"] /\ session = 1
  /\ job = [a \in Attempts |-> "unused"]
  /\ statusLock = None /\ cache = None /\ nodeCsv = None /\ clusterYaml = None
  /\ publisher = [p \in Publishers |-> Resting] /\ torn = FALSE

Continue(p, next) == publisher' = [publisher EXCEPT ![p] = next]

(***************************************************************************)
(* read_status_csvs and check_status_reconciliation.                       *)
(***************************************************************************)
NoReports == nodeCsv = None /\ clusterYaml = None
Agree ==
  /\ nodeCsv # None /\ clusterYaml # None
  /\ \A m \in NodesOf(nodeCsv.rows) : nodeCsv.id = clusterYaml.id
previous == IF nodeCsv = None THEN NoRows ELSE nodeCsv.rows

Open(row) == row # None /\ row.attempt # None /\ row.unresolved

\* An unresolved attempt of the report must be in the journal.
AnyRows(rows, intents) == TRUE
check_status_reconciliation(rows, intents) ==
  \A m \in Machines : Open(rows[m]) => intents[rows[m].attempt] # "none"

Readable == (NoReports \/ Agree) /\ check_status_reconciliation(previous, journal)

(***************************************************************************)
(* build_status_snapshot.  Of a node's attempts the unresolved come first, *)
(* the newest before the others; without one, the old row's stays listed.  *)
(***************************************************************************)
Of(m, states) == {a \in Attempts : MachineOf(a) = m /\ journal[a] \in states}

StatusRow(m) ==
  LET unfinished == Of(m, {"live", "ended"})
      finished == Of(m, {"finished"})
      shown == Max(IF unfinished # {} THEN unfinished ELSE finished) IN
  IF unfinished \cup finished # {}
    THEN [attempt |-> shown, unresolved |-> journal[shown] = "live"]
    ELSE IF previous[m] = None THEN NoRow ELSE previous[m]

\* Observed nodes, or those of the old report, and every node with an intent.
StatusNodes(found) ==
  (IF found # {} THEN found ELSE {m \in Machines : previous[m] # None})
    \cup {m \in Machines : Of(m, {"live", "ended", "finished"}) # {}}

build_status_snapshot(found) ==
  [m \in Machines |-> IF m \in StatusNodes(found) THEN StatusRow(m) ELSE None]

\* sha256 over the rows and the cluster's counts.
snapshot_id(rows, cluster) == <<rows, cluster>>

(***************************************************************************)
(* Who publishes: `cval run`, the observer and the live state helper after *)
(* they appended an event to the journal, and the refresher.               *)
(***************************************************************************)
AppendEvent(p) ==
  /\ publisher[p].phase = "idle" /\ statusLock = None
  /\ statusLock' = p /\ Continue(p, [Resting EXCEPT !.phase = "projecting"])
  /\ UNCHANGED <<session, cache, reports>>

\* Admission lets a node have one unfinished intent, and the newest has the latest timestamp.
Prepare(p, a) ==
  /\ job[a] = "unused" /\ Of(MachineOf(a), {"live", "ended"}) = {}
  /\ \A b \in Attempts : job[b] # "unused" => b < a
  /\ journal' = [journal EXCEPT ![a] = "live"] /\ job' = [job EXCEPT ![a] = "live"]
  /\ AppendEvent(p)

Settle(p, a) ==
  /\ \/ journal[a] = "live" /\ \E state \in {"ended", "finished"} : journal' = [journal EXCEPT ![a] = state]
     \/ journal[a] = "ended" /\ journal' = [journal EXCEPT ![a] = "finished"]
  /\ job' = [job EXCEPT ![a] = "over"] /\ AppendEvent(p)

\* refresh_status_csvs: under the lock the report must be readable and reconciled.
StartRefresh(p) ==
  /\ publisher[p].phase = "idle" /\ statusLock = None /\ Readable
  /\ Continue(p, [Resting EXCEPT !.phase = "collecting", !.session = session])
  /\ UNCHANGED <<journal, session, job, statusLock, cache, reports>>

\* collect_status_observation, without the lock; nothing is found when the inventory is unavailable.
Collect(p, found) ==
  /\ publisher[p].phase = "collecting"
  /\ Continue(p, [publisher[p] EXCEPT !.phase = "collected", !.found = found])
  /\ UNCHANGED <<journal, session, job, statusLock, cache, reports>>

\* Faulty variant: the reports are published without the lock.
PublishWithoutLock(p) ==
  /\ publisher[p].phase = "collected" /\ publisher[p].session = session
  /\ statusLock' = p /\ cache' = [found |-> publisher[p].found]
  /\ Continue(p, [publisher[p] EXCEPT !.phase = "projecting"])
  /\ UNCHANGED <<journal, session, job, reports>>

\* The lock again, and the journal again: the session must still be the same.
LockToPublish(p) ==
  /\ publisher[p].phase = "collected" /\ statusLock = None /\ publisher[p].session = session
  /\ statusLock' = p /\ cache' = [found |-> publisher[p].found]
  /\ Continue(p, [publisher[p] EXCEPT !.phase = "projecting"])
  /\ UNCHANGED <<journal, session, job, reports>>

\* project_status_csvs computes both reports from the journal and the cached observation.
ProjectStatus(p) ==
  LET found == IF cache = None THEN {} ELSE cache.found
      rows == build_status_snapshot(found)
      cluster == found IN
  /\ publisher[p].phase = "projecting" /\ Readable
  /\ Continue(p, [publisher[p] EXCEPT !.phase = "projected", !.rows = rows, !.cluster = cluster])
  /\ UNCHANGED <<journal, session, job, statusLock, cache, reports>>

ReplaceNodes(p) ==
  LET w == publisher[p] IN
  /\ w.phase = "projected"
  /\ nodeCsv' = [rows |-> w.rows, id |-> snapshot_id(w.rows, w.cluster)]
  /\ Continue(p, [w EXCEPT !.phase = "replaced"])
  /\ UNCHANGED <<journal, session, job, statusLock, cache, clusterYaml, torn>>

ReplaceCluster(p) ==
  LET w == publisher[p] IN
  /\ w.phase = "replaced"
  /\ clusterYaml' = [total |-> Cardinality(NodesOf(w.rows)), cluster |-> w.cluster,
                     id |-> snapshot_id(w.rows, w.cluster)]
  /\ torn' = FALSE /\ statusLock' = None /\ Continue(p, Resting)
  /\ UNCHANGED <<journal, session, job, cache, nodeCsv>>

\* A process dies, or gives up because the lock is busy, the session has changed, the reports
\* disagree or they cannot be reconciled.
GiveUp(p) ==
  /\ publisher[p].phase # "idle"
  /\ statusLock' = IF statusLock = p THEN None ELSE statusLock
  /\ torn' = (torn \/ publisher[p].phase = "replaced")
  /\ Continue(p, Resting)
  /\ UNCHANGED <<journal, session, job, cache, nodeCsv, clusterYaml>>

\* Operators move the session pointer away and initialize a session; _init only asks that the
\* pointer is gone.  The reports stay where they are.
Turnover ==
  /\ session < LastSession /\ statusLock = None
  /\ session' = session + 1 /\ cache' = None
  /\ journal' = [a \in Attempts |-> "none"]
  /\ UNCHANGED <<job, statusLock, reports, publisher>>

StatusNext ==
  \/ \E p \in Recorders, a \in Attempts : Prepare(p, a) \/ Settle(p, a)
  \/ \E p \in Refreshers :
       StartRefresh(p) \/ (\E found \in Inventories : Collect(p, found)) \/ LockToPublish(p)
  \/ \E p \in Publishers : ProjectStatus(p) \/ ReplaceNodes(p) \/ ReplaceCluster(p) \/ GiveUp(p)
  \/ Turnover

StatusSpec == StatusInit /\ [][StatusNext]_statusVars

-----------------------------------------------------------------------------
StatusTypeOK ==
  /\ journal \in [Attempts -> {"none", "live", "ended", "finished"}] /\ session \in 1..LastSession
  /\ job \in [Attempts -> {"unused", "live", "over"}]
  /\ statusLock \in Publishers \cup {None}
  /\ cache = None \/ cache.found \subseteq Machines
  /\ nodeCsv \in NodeReports \cup {None} /\ clusterYaml \in ClusterReports \cup {None}
  /\ publisher \in [Publishers ->
       [phase : {"idle", "collecting", "collected", "projecting", "projected", "replaced"},
        session : 0..LastSession, found : SUBSET Machines, rows : Rows, cluster : Clusters]]
  /\ torn \in BOOLEAN

\* Whoever publishes and whenever: two reports that agree are of one cluster, the cluster report
\* counts the rows of the node report and observed none but nodes listed there, also when the node
\* report has no row to carry an id.  Between two publications the reports agree, or there are none
\* yet; only a publisher that dies between its two replacements leaves a pair that the next
\* projection has to reject.
PublishedPairIsWhole ==
  /\ Agree => /\ clusterYaml.total = Cardinality(NodesOf(nodeCsv.rows))
              /\ clusterYaml.cluster \subseteq NodesOf(nodeCsv.rows)
  /\ torn \/ (\E p \in Publishers : publisher[p].phase = "replaced") \/ NoReports \/ Agree

\* A report never drops an attempt whose Job may still run: a node that was listed with such an
\* attempt, or has one in the journal now, is listed with one.  Neither an
\* observation collected before the attempt was made, nor an inventory without the node, nor a
\* session turned over while work was open makes it disappear.
KeepsUnresolved ==
  nodeCsv' # nodeCsv =>
    \A m \in Machines :
      (\/ Of(m, {"live"}) # {}
       \/ Open(previous[m]) /\ job[previous[m].attempt] # "over") => Open(nodeCsv'.rows[m])
UnresolvedAttemptStaysListed == [][KeepsUnresolved]_statusVars

=============================================================================

-------------------------- MODULE StatusPairProofs --------------------------
(***************************************************************************)
(* Proofs about the status reports, for any attempts, nodes, inventories   *)
(* and processes.                                                          *)
(***************************************************************************)
EXTENDS StatusPair, FiniteSetTheorems, WellFoundedInduction, TLAPS

(***************************************************************************)
(* A nonempty set of attempts has a newest: the distances from the last    *)
(* attempt have a least.                                                   *)
(***************************************************************************)
LEMMA NewestAttempt ==
  ASSUME NEW S \in SUBSET Attempts, S # {}
  PROVE  Max(S) \in S /\ \A a \in S : a <= Max(S)
<1> DEFINE T == {LastAttempt - a : a \in S}
<1>1. \A a \in S : a \in Nat /\ LastAttempt - a \in Nat
  BY StatusBounds DEF Attempts
<1>2. T \subseteq Nat /\ T # {}
  BY <1>1
<1>3. \E x \in T : \A y \in T : ~(<<y, x>> \in OpToRel(<, Nat))
  BY <1>2, WFMin, NatLessThanWellFounded
<1>4. \E x \in T : \A y \in T : ~(y < x)
  BY <1>2, <1>3 DEF OpToRel
<1>5. PICK s \in S : \A y \in T : ~(y < LastAttempt - s)
  BY <1>4
<1>6. \A a \in S : ~(LastAttempt - a < LastAttempt - s)
  BY <1>5
<1>7. \A a \in S : s >= a
  BY <1>1, <1>6, StatusBounds
<1> QED
  BY <1>1, <1>7 DEF Max

(***************************************************************************)
(* The invariant.  Reports and journal change only under the lock, so the  *)
(* rows a process is about to publish are still those of the journal and   *)
(* of the report of now, which have been reconciled.                       *)
(***************************************************************************)
PublisherStates ==
  [phase : {"idle", "collecting", "collected", "projecting", "projected", "replaced"},
   session : 0..LastSession, found : SUBSET Machines, rows : Rows, cluster : Clusters]

JobsFollowJournal ==
  \A a \in Attempts : /\ journal[a] = "live" => job[a] = "live"
                      /\ journal[a] \in {"ended", "finished"} => job[a] = "over"

OneUnfinished ==
  \A a, b \in Attempts :
    (MachineOf(a) = MachineOf(b) /\ {journal[a], journal[b]} \subseteq {"live", "ended"}) => a = b

Locking == {"projecting", "projected", "replaced"}
LockHolds == \A p \in Publishers : publisher[p].phase \in Locking => statusLock = p

OnTheirNodes(rows) ==
  \A m \in Machines : (rows[m] # None /\ rows[m].attempt # None) => MachineOf(rows[m].attempt) = m

ProjectionOfNow(p) ==
  publisher[p].phase = "projected" =>
    /\ publisher[p].rows = build_status_snapshot(publisher[p].cluster)
    /\ check_status_reconciliation(previous, journal)

ReportInv ==
  /\ StatusTypeOK /\ JobsFollowJournal /\ OneUnfinished /\ LockHolds
  /\ OnTheirNodes(previous)
  /\ \A p \in Publishers : ProjectionOfNow(p)

LEMMA RestingType == Resting \in PublisherStates /\ NoRows \in Rows /\ NoRow \in Row
BY StatusBounds DEF Resting, PublisherStates, NoRows, Rows, Clusters, NoRow, Row

LEMMA NodesAreCounted == \A rows : Cardinality(NodesOf(rows)) \in Nat
<1>1. \A rows : NodesOf(rows) \subseteq Machines
  BY DEF NodesOf
<1> QED
  BY <1>1, NodesAndAttempts, FS_Subset, FS_CardinalityType

LEMMA PreviousType == StatusTypeOK => previous \in Rows
BY RestingType DEF StatusTypeOK, previous, NodeReports

\* The row of a node, from the journal and the report of now.
LEMMA RowOfNode ==
  ASSUME StatusTypeOK, JobsFollowJournal, OneUnfinished, OnTheirNodes(previous), NEW m \in Machines
  PROVE  /\ StatusRow(m) \in Row
         /\ StatusRow(m).attempt # None => MachineOf(StatusRow(m).attempt) = m
         /\ Of(m, {"live"}) # {} => Open(StatusRow(m))
<1> DEFINE unfinished == Of(m, {"live", "ended"})
           finished == Of(m, {"finished"})
           S == IF unfinished # {} THEN unfinished ELSE finished
           shown == Max(S)
<1>1. /\ unfinished \subseteq Attempts /\ finished \subseteq Attempts
      /\ Of(m, {"live"}) \subseteq unfinished
      /\ \A a \in unfinished \cup finished : a \in Attempts /\ MachineOf(a) = m
      /\ \A a \in Of(m, {"live"}) : journal[a] = "live" /\ a \in Attempts
  BY DEF Of
<1>2. CASE unfinished \cup finished # {}
  <2>1. S # {} /\ S \in SUBSET Attempts /\ \A a \in S : MachineOf(a) = m
    BY <1>1, <1>2
  <2> HIDE DEF S, unfinished, finished
  <2>2. shown \in S
    BY <2>1, NewestAttempt
  <2>3. shown \in Attempts /\ MachineOf(shown) = m
    BY <2>1, <2>2
  <2> HIDE DEF shown
  <2>4. StatusRow(m) = [attempt |-> shown, unresolved |-> journal[shown] = "live"]
    BY <1>2 DEF StatusRow, unfinished, finished, S, shown
  <2>5. StatusRow(m) \in Row
    BY <2>3, <2>4 DEF Row
  <2>6. shown # None
    BY <2>3, NoneIsNoReport, StatusBounds DEF Attempts
  <2>7. ASSUME NEW a \in Of(m, {"live"}) PROVE a = shown
    <3>1. shown \in unfinished /\ a \in unfinished
      BY <1>1, <2>2, <2>7 DEF S
    <3>2. {journal[a], journal[shown]} \subseteq {"live", "ended"}
      BY <3>1 DEF unfinished, Of
    <3> QED
      BY <1>1, <2>3, <2>7, <3>2 DEF OneUnfinished
  <2>8. Of(m, {"live"}) # {} => journal[shown] = "live"
    BY <1>1, <2>7
  <2>9. StatusRow(m) # None
    BY <2>5, NoneIsNoReport
  <2>10. StatusRow(m).attempt = shown /\ StatusRow(m).unresolved = (journal[shown] = "live")
    BY <2>4
  <2>11. Of(m, {"live"}) # {} => Open(StatusRow(m))
    BY <2>6, <2>8, <2>9, <2>10 DEF Open
  <2> QED
    BY <2>3, <2>5, <2>10, <2>11
<1>3. CASE unfinished \cup finished = {}
  <2>1. StatusRow(m) = IF previous[m] = None THEN NoRow ELSE previous[m]
    BY <1>3 DEF StatusRow
  <2>2. previous[m] \in Row \cup {None}
    BY PreviousType DEF Rows
  <2>3. Of(m, {"live"}) = {}
    BY <1>1, <1>3
  <2> QED
    BY <2>1, <2>2, <2>3, RestingType DEF OnTheirNodes, NoRow
<1> QED
  BY <1>2, <1>3

LEMMA SnapshotRows ==
  ASSUME StatusTypeOK, JobsFollowJournal, OneUnfinished, OnTheirNodes(previous),
         NEW found \in SUBSET Machines
  PROVE  build_status_snapshot(found) \in Rows /\ OnTheirNodes(build_status_snapshot(found))
BY RowOfNode DEF build_status_snapshot, Rows, OnTheirNodes

\* Published rows list every attempt whose Job may still run.
LEMMA SnapshotKeeps ==
  ASSUME StatusTypeOK, JobsFollowJournal, OneUnfinished, OnTheirNodes(previous),
         check_status_reconciliation(previous, journal), NEW found \in SUBSET Machines,
         NEW m \in Machines,
         \/ Of(m, {"live"}) # {}
         \/ Open(previous[m]) /\ job[previous[m].attempt] # "over"
  PROVE  Open(build_status_snapshot(found)[m])
<1>1. Of(m, {"live"}) # {}
  <2>1. CASE Open(previous[m]) /\ job[previous[m].attempt] # "over"
    <3> DEFINE a == previous[m].attempt
    <3>1. a \in Attempts /\ MachineOf(a) = m
      BY <2>1, PreviousType DEF Open, OnTheirNodes, Rows, Row
    <3>2. journal[a] # "none"
      BY <2>1 DEF check_status_reconciliation
    <3>3. journal[a] = "live"
      BY <2>1, <3>1, <3>2 DEF JobsFollowJournal, StatusTypeOK
    <3> QED
      BY <3>1, <3>3 DEF Of
  <2> QED
    BY <2>1
<1>2. Of(m, {"live", "ended", "finished"}) # {}
  BY <1>1 DEF Of
<1>3. m \in StatusNodes(found)
  BY <1>2 DEF StatusNodes
<1>4. build_status_snapshot(found)[m] = StatusRow(m)
  BY <1>3 DEF build_status_snapshot
<1> QED
  BY <1>1, <1>4, RowOfNode

-----------------------------------------------------------------------------
\* One process goes on, and takes the lock from nobody.
LEMMA OneGoesOn ==
  ASSUME StatusTypeOK, LockHolds, NEW p \in Publishers, NEW next \in PublisherStates,
         Continue(p, next), next.phase \in Locking => statusLock' = p,
         \A q \in Publishers : (q # p /\ statusLock = q) => statusLock' = q
  PROVE  /\ publisher' \in [Publishers -> PublisherStates]
         /\ \A q \in Publishers : publisher'[q] = IF q = p THEN next ELSE publisher[q]
         /\ LockHolds'
<1>1. publisher' = [publisher EXCEPT ![p] = next] /\ publisher \in [Publishers -> PublisherStates]
  BY DEF Continue, StatusTypeOK, PublisherStates
<1>2. publisher' \in [Publishers -> PublisherStates]
  BY <1>1
<1>3. \A q \in Publishers : publisher'[q] = IF q = p THEN next ELSE publisher[q]
  BY <1>1
<1> QED
  BY <1>2, <1>3 DEF LockHolds

\* What a report lists, and what a projection would, depends on journal and report only.
LEMMA SameProjections ==
  ASSUME UNCHANGED <<journal, nodeCsv>>
  PROVE  /\ previous' = previous
         /\ OnTheirNodes(previous) => OnTheirNodes(previous)'
         /\ check_status_reconciliation(previous, journal)
              => check_status_reconciliation(previous, journal)'
         /\ \A found : build_status_snapshot(found)' = build_status_snapshot(found)
<1>1. previous' = previous
  BY DEF previous
<1>2. \A m, states : Of(m, states)' = Of(m, states)
  BY DEF Of
<1>3. \A m : StatusRow(m)' = StatusRow(m)
  BY <1>1, <1>2 DEF StatusRow
<1>4. \A found : StatusNodes(found)' = StatusNodes(found)
  BY <1>1, <1>2 DEF StatusNodes
<1>5. \A found : build_status_snapshot(found)' = build_status_snapshot(found)
  BY <1>3, <1>4 DEF build_status_snapshot
<1> QED
  BY <1>1, <1>5 DEF OnTheirNodes, check_status_reconciliation

\* A step of one process that leaves journal and node report alone.
LEMMA QuietStep ==
  ASSUME ReportInv, NEW p \in Publishers, NEW next \in PublisherStates,
         Continue(p, next), next.phase \in Locking => statusLock' = p,
         \A q \in Publishers : (q # p /\ statusLock = q) => statusLock' = q,
         statusLock' \in Publishers \cup {None},
         cache' = None \/ cache'.found \subseteq Machines,
         clusterYaml' \in ClusterReports \cup {None},
         torn' \in BOOLEAN, UNCHANGED <<journal, session, job, nodeCsv>>,
         next.phase = "projected" =>
           /\ next.rows = build_status_snapshot(next.cluster)
           /\ check_status_reconciliation(previous, journal)
  PROVE  ReportInv'
<1>1. /\ publisher' \in [Publishers -> PublisherStates] /\ LockHolds'
      /\ \A q \in Publishers : publisher'[q] = IF q = p THEN next ELSE publisher[q]
  BY OneGoesOn DEF ReportInv
<1>2. StatusTypeOK'
  BY <1>1 DEF ReportInv, StatusTypeOK, PublisherStates
<1>3. JobsFollowJournal' /\ OneUnfinished'
  BY DEF ReportInv, JobsFollowJournal, OneUnfinished
<1>4. OnTheirNodes(previous)'
  BY SameProjections DEF ReportInv
<1>5. ASSUME NEW q \in Publishers PROVE ProjectionOfNow(q)'
  <2>1. CASE q = p
    BY <1>1, <2>1, SameProjections DEF ProjectionOfNow
  <2>2. CASE q # p
    <3>1. publisher'[q] = publisher[q] /\ ProjectionOfNow(q)
      BY <1>1, <2>2 DEF ReportInv
    <3> QED
      BY <3>1, SameProjections DEF ProjectionOfNow
  <2> QED
    BY <2>1, <2>2
<1> QED
  BY <1>1, <1>2, <1>3, <1>4, <1>5 DEF ReportInv

\* Whoever may take the lock meets nobody who is projecting.
LEMMA NobodyProjects ==
  ASSUME ReportInv, statusLock = None
  PROVE  \A q \in Publishers : publisher[q].phase \notin Locking
BY NoneIsNoReport DEF ReportInv, LockHolds

\* A step that changes the journal takes the lock, or needs it free.
LEMMA JournalStep ==
  ASSUME ReportInv, statusLock = None, UNCHANGED nodeCsv,
         StatusTypeOK', LockHolds', JobsFollowJournal', OneUnfinished',
         \A q \in Publishers : publisher'[q].phase # "projected" \/ publisher'[q] = publisher[q]
  PROVE  ReportInv'
<1>1. previous' = previous /\ OnTheirNodes(previous)'
  BY DEF ReportInv, previous, OnTheirNodes
<1>2. \A q \in Publishers : publisher'[q].phase # "projected"
  BY NobodyProjects DEF Locking
<1> QED
  BY <1>1, <1>2 DEF ReportInv, ProjectionOfNow

-----------------------------------------------------------------------------
LEMMA PublisherIs ==
  ASSUME StatusTypeOK, NEW p \in Publishers
  PROVE  publisher[p] \in PublisherStates
BY DEF StatusTypeOK, PublisherStates

LEMMA ReportStart == StatusInit => ReportInv
<1> SUFFICES ASSUME StatusInit PROVE ReportInv
  OBVIOUS
<1>1. \A p \in Publishers : publisher[p] = Resting
  BY DEF StatusInit
<1>2. StatusTypeOK
  <2>1. torn \in BOOLEAN
    BY Zenon DEF StatusInit
  <2>2. /\ journal = [a \in Attempts |-> "none"] /\ session = 1
        /\ job = [a \in Attempts |-> "unused"]
        /\ statusLock = None /\ cache = None /\ nodeCsv = None /\ clusterYaml = None
        /\ publisher = [p \in Publishers |-> Resting]
    BY Zenon DEF StatusInit
  <2> QED
    BY <2>1, <2>2, StatusBounds, RestingType DEF StatusTypeOK, PublisherStates
<1>3. JobsFollowJournal /\ OneUnfinished
  BY DEF StatusInit, JobsFollowJournal, OneUnfinished
<1>4. LockHolds /\ \A p \in Publishers : ProjectionOfNow(p)
  BY <1>1 DEF LockHolds, ProjectionOfNow, Resting, Locking
<1>5. OnTheirNodes(previous)
  BY DEF StatusInit, previous, OnTheirNodes, NoRows
<1> QED
  BY <1>2, <1>3, <1>4, <1>5 DEF ReportInv

\* An event appended to the journal.
LEMMA Appended ==
  ASSUME ReportInv, NEW p \in Publishers, AppendEvent(p)
  PROVE  /\ statusLock = None /\ UNCHANGED nodeCsv /\ LockHolds'
         /\ publisher' \in [Publishers -> PublisherStates]
         /\ \A q \in Publishers : publisher'[q].phase # "projected" \/ publisher'[q] = publisher[q]
<1> DEFINE next == [Resting EXCEPT !.phase = "projecting"]
<1>1. next \in PublisherStates /\ next.phase = "projecting"
  BY RestingType DEF PublisherStates, Resting
<1>2. Continue(p, next) /\ statusLock = None /\ statusLock' = p /\ UNCHANGED nodeCsv
  BY DEF AppendEvent, reports
<1> HIDE DEF next
<1>3. \A q \in Publishers : (q # p /\ statusLock = q) => statusLock' = q
  BY <1>2, NoneIsNoReport
<1>4. /\ publisher' \in [Publishers -> PublisherStates] /\ LockHolds'
      /\ \A q \in Publishers : publisher'[q] = IF q = p THEN next ELSE publisher[q]
  BY <1>1, <1>2, <1>3, OneGoesOn DEF ReportInv
<1> QED
  BY <1>1, <1>2, <1>4

LEMMA PrepareStep ==
  ASSUME ReportInv, NEW p \in Recorders, NEW a \in Attempts, Prepare(p, a)
  PROVE  ReportInv'
<1>1. p \in Publishers
  BY DEF Publishers
<1>2. /\ statusLock = None /\ UNCHANGED nodeCsv /\ LockHolds'
      /\ publisher' \in [Publishers -> PublisherStates]
      /\ \A q \in Publishers : publisher'[q].phase # "projected" \/ publisher'[q] = publisher[q]
  BY <1>1, Appended DEF Prepare
<1>3. journal' = [journal EXCEPT ![a] = "live"] /\ job' = [job EXCEPT ![a] = "live"]
  BY DEF Prepare
<1>4. StatusTypeOK'
  BY <1>1, <1>2, <1>3 DEF ReportInv, StatusTypeOK, PublisherStates, Prepare, AppendEvent, reports
<1>5. JobsFollowJournal'
  BY <1>3 DEF ReportInv, StatusTypeOK, JobsFollowJournal
<1>6. \A b \in Attempts : MachineOf(b) = MachineOf(a) => journal[b] \notin {"live", "ended"}
  BY DEF Prepare, Of
<1>7. OneUnfinished'
  BY <1>3, <1>6 DEF ReportInv, StatusTypeOK, OneUnfinished
<1> QED
  BY <1>2, <1>4, <1>5, <1>7, JournalStep

LEMMA SettleStep ==
  ASSUME ReportInv, NEW p \in Recorders, NEW a \in Attempts, Settle(p, a)
  PROVE  ReportInv'
<1>1. p \in Publishers
  BY DEF Publishers
<1>2. /\ statusLock = None /\ UNCHANGED nodeCsv /\ LockHolds'
      /\ publisher' \in [Publishers -> PublisherStates]
      /\ \A q \in Publishers : publisher'[q].phase # "projected" \/ publisher'[q] = publisher[q]
  BY <1>1, Appended DEF Settle
<1>3. PICK state \in {"ended", "finished"} : journal' = [journal EXCEPT ![a] = state]
  BY DEF Settle
<1>4. journal[a] \in {"live", "ended"} /\ job' = [job EXCEPT ![a] = "over"]
  BY DEF Settle
<1>5. StatusTypeOK'
  BY <1>1, <1>2, <1>3, <1>4 DEF ReportInv, StatusTypeOK, PublisherStates, Settle, AppendEvent, reports
<1>6. JobsFollowJournal'
  BY <1>3, <1>4 DEF ReportInv, StatusTypeOK, JobsFollowJournal
<1>7. \A b \in Attempts : journal'[b] \in {"live", "ended"} => journal[b] \in {"live", "ended"}
  BY <1>3, <1>4 DEF ReportInv, StatusTypeOK
<1>8. OneUnfinished'
  BY <1>7 DEF ReportInv, OneUnfinished
<1> QED
  BY <1>2, <1>5, <1>6, <1>8, JournalStep

LEMMA TurnoverStep ==
  ASSUME ReportInv, Turnover
  PROVE  ReportInv'
<1>1. statusLock = None /\ UNCHANGED <<nodeCsv, publisher, statusLock, job, clusterYaml, torn>>
      /\ journal' = [a \in Attempts |-> "none"] /\ cache' = None /\ session' = session + 1
      /\ session < LastSession
  BY DEF Turnover, reports
<1>2. StatusTypeOK'
  BY <1>1, StatusBounds DEF ReportInv, StatusTypeOK, PublisherStates
<1>3. JobsFollowJournal' /\ OneUnfinished' /\ LockHolds'
  BY <1>1 DEF JobsFollowJournal, OneUnfinished, LockHolds, ReportInv
<1> QED
  BY <1>1, <1>2, <1>3, JournalStep

LEMMA StartRefreshStep ==
  ASSUME ReportInv, NEW p \in Publishers, StartRefresh(p)
  PROVE  ReportInv'
<1> DEFINE next == [Resting EXCEPT !.phase = "collecting", !.session = session]
<1>0. session \in 0..LastSession
  BY StatusBounds DEF ReportInv, StatusTypeOK
<1>1. next \in PublisherStates /\ next.phase = "collecting"
  BY <1>0, RestingType DEF PublisherStates, Resting
<1>2. /\ Continue(p, next) /\ UNCHANGED <<journal, session, job, statusLock, cache, nodeCsv, clusterYaml>>
      /\ UNCHANGED torn
  BY DEF StartRefresh, reports
<1> HIDE DEF next
<1> QED
  BY <1>1, <1>2, QuietStep DEF Locking, ReportInv, StatusTypeOK

LEMMA CollectStep ==
  ASSUME ReportInv, NEW p \in Publishers, NEW found \in Inventories, Collect(p, found)
  PROVE  ReportInv'
<1> DEFINE next == [publisher[p] EXCEPT !.phase = "collected", !.found = found]
<1>1. next \in PublisherStates /\ next.phase = "collected"
  BY PublisherIs, NodesAndAttempts DEF PublisherStates, ReportInv
<1>2. /\ Continue(p, next) /\ UNCHANGED <<journal, session, job, statusLock, cache, nodeCsv, clusterYaml>>
      /\ UNCHANGED torn
  BY DEF Collect, reports
<1> HIDE DEF next
<1> QED
  BY <1>1, <1>2, QuietStep DEF Locking, ReportInv, StatusTypeOK

LEMMA LockToPublishStep ==
  ASSUME ReportInv, NEW p \in Publishers, LockToPublish(p)
  PROVE  ReportInv'
<1> DEFINE next == [publisher[p] EXCEPT !.phase = "projecting"]
<1>1. next \in PublisherStates /\ next.phase = "projecting"
  BY PublisherIs DEF PublisherStates, ReportInv
<1>2. /\ Continue(p, next) /\ UNCHANGED <<journal, session, job, nodeCsv, clusterYaml, torn>>
      /\ statusLock = None /\ statusLock' = p /\ cache' = [found |-> publisher[p].found]
  BY DEF LockToPublish, reports
<1> HIDE DEF next
<1>3. cache'.found \subseteq Machines
  BY <1>2, PublisherIs DEF PublisherStates, ReportInv
<1>4. \A q \in Publishers : (q # p /\ statusLock = q) => statusLock' = q
  BY <1>2, NoneIsNoReport
<1> QED
  BY <1>1, <1>2, <1>3, <1>4, QuietStep DEF Locking, ReportInv, StatusTypeOK

LEMMA ProjectStatusStep ==
  ASSUME ReportInv, NEW p \in Publishers, ProjectStatus(p)
  PROVE  ReportInv'
<1> DEFINE found == IF cache = None THEN {} ELSE cache.found
           projected == build_status_snapshot(found)
           next == [publisher[p] EXCEPT !.phase = "projected", !.rows = projected, !.cluster = found]
<1>1. found \in SUBSET Machines
  BY DEF ReportInv, StatusTypeOK
<1>2. projected \in Rows
  BY <1>1, SnapshotRows DEF ReportInv
<1>3. publisher[p].phase = "projecting" /\ check_status_reconciliation(previous, journal)
  BY DEF ProjectStatus, Readable
<1>4. /\ Continue(p, next) /\ UNCHANGED <<journal, session, job, statusLock, cache, nodeCsv, clusterYaml>>
      /\ UNCHANGED torn
  BY DEF ProjectStatus, reports
<1>5. statusLock = p
  BY <1>3 DEF ReportInv, LockHolds, Locking
<1> HIDE DEF found, projected
<1>6. next \in PublisherStates /\ next.phase = "projected" /\ next.rows = projected /\ next.cluster = found
  BY <1>1, <1>2, PublisherIs DEF PublisherStates, ReportInv, Clusters
<1> HIDE DEF next
<1>7. next.rows = build_status_snapshot(next.cluster)
  BY <1>1, <1>6 DEF projected
<1> QED
  BY <1>3, <1>4, <1>5, <1>6, <1>7, QuietStep DEF ReportInv, StatusTypeOK

LEMMA ReplaceClusterStep ==
  ASSUME ReportInv, NEW p \in Publishers, ReplaceCluster(p)
  PROVE  ReportInv'
<1> DEFINE w == publisher[p]
<1>1. w \in PublisherStates /\ w.rows \in Rows /\ w.cluster \in Clusters
  BY PublisherIs DEF PublisherStates, ReportInv
<1>2. statusLock = p
  BY DEF ReplaceCluster, ReportInv, LockHolds, Locking
<1>3. Continue(p, Resting) /\ UNCHANGED <<journal, session, job, cache, nodeCsv>> /\ statusLock' = None
  BY DEF ReplaceCluster
<1>4. clusterYaml' \in ClusterReports /\ torn' \in BOOLEAN
  BY <1>1, NodesAreCounted DEF ReplaceCluster, snapshot_id, ClusterReports, Projections
<1>5. Resting \in PublisherStates /\ Resting.phase = "idle"
  BY RestingType DEF Resting
<1> QED
  BY <1>2, <1>3, <1>4, <1>5, QuietStep DEF ReportInv, StatusTypeOK, Locking

LEMMA GiveUpStep ==
  ASSUME ReportInv, NEW p \in Publishers, GiveUp(p)
  PROVE  ReportInv'
<1>1. /\ Continue(p, Resting) /\ UNCHANGED <<journal, session, job, cache, nodeCsv, clusterYaml>>
      /\ torn' = (torn \/ publisher[p].phase = "replaced")
      /\ statusLock' = IF statusLock = p THEN None ELSE statusLock
  BY DEF GiveUp, reports
<1>2. Resting \in PublisherStates /\ Resting.phase = "idle"
  BY RestingType DEF Resting
<1> QED
  BY <1>1, <1>2, QuietStep DEF ReportInv, StatusTypeOK, Locking

\* The published rows are those of the journal and the report of now.
LEMMA Replacement ==
  ASSUME ReportInv, NEW p \in Publishers, ReplaceNodes(p)
  PROVE  /\ statusLock = p /\ nodeCsv' # None
         /\ nodeCsv'.rows = publisher[p].rows /\ nodeCsv' \in NodeReports
         /\ publisher[p].rows = build_status_snapshot(publisher[p].cluster)
         /\ nodeCsv'.id = snapshot_id(publisher[p].rows, publisher[p].cluster)
         /\ publisher[p].rows \in Rows /\ publisher[p].cluster \in SUBSET Machines
         /\ check_status_reconciliation(previous, journal)
<1> DEFINE w == publisher[p]
           report == [rows |-> w.rows, id |-> snapshot_id(w.rows, w.cluster)]
<1>1. w.phase = "projected" /\ nodeCsv' = report
  BY DEF ReplaceNodes
<1>2. w.rows \in Rows /\ w.cluster \in Clusters
  BY PublisherIs DEF PublisherStates, ReportInv
<1>3. report \in NodeReports
  BY <1>2 DEF NodeReports, Projections, snapshot_id
<1>4. report # None
  BY <1>3, NoneIsNoReport
<1> QED
  BY <1>1, <1>2, <1>3, <1>4 DEF ReportInv, LockHolds, Locking, ProjectionOfNow, Clusters

LEMMA ReplaceNodesStep ==
  ASSUME ReportInv, NEW p \in Publishers, ReplaceNodes(p)
  PROVE  ReportInv'
<1> DEFINE next == [publisher[p] EXCEPT !.phase = "replaced"]
<1>1. next \in PublisherStates /\ next.phase = "replaced"
  BY PublisherIs DEF PublisherStates, ReportInv
<1>2. /\ Continue(p, next) /\ UNCHANGED <<journal, session, job, statusLock, cache, clusterYaml>>
      /\ UNCHANGED torn
  BY DEF ReplaceNodes
<1>3. /\ statusLock = p /\ nodeCsv' \in NodeReports /\ previous' = publisher[p].rows
      /\ publisher[p].rows = build_status_snapshot(publisher[p].cluster)
      /\ publisher[p].cluster \in SUBSET Machines
  BY Replacement DEF previous
<1> HIDE DEF next
<1>4. /\ publisher' \in [Publishers -> PublisherStates] /\ LockHolds'
      /\ \A q \in Publishers : publisher'[q] = IF q = p THEN next ELSE publisher[q]
  BY <1>1, <1>2, <1>3, OneGoesOn DEF ReportInv
<1>5. StatusTypeOK'
  BY <1>2, <1>3, <1>4 DEF ReportInv, StatusTypeOK, PublisherStates
<1>6. JobsFollowJournal' /\ OneUnfinished'
  BY <1>2 DEF ReportInv, JobsFollowJournal, OneUnfinished
<1>7. OnTheirNodes(previous)'
  <2>1. OnTheirNodes(publisher[p].rows)
    BY <1>3, SnapshotRows DEF ReportInv
  <2> QED
    BY <1>3, <2>1 DEF OnTheirNodes
<1>8. \A q \in Publishers : publisher'[q].phase # "projected"
  <2>1. \A q \in Publishers : q # p => publisher[q].phase # "projected"
    BY <1>3 DEF ReportInv, LockHolds, Locking
  <2> QED
    BY <1>1, <1>4, <2>1
<1> QED
  BY <1>4, <1>5, <1>6, <1>7, <1>8 DEF ReportInv, ProjectionOfNow

LEMMA StutterStep ==
  ASSUME ReportInv, UNCHANGED statusVars
  PROVE  ReportInv'
<1>1. UNCHANGED <<journal, session, job, statusLock, cache, nodeCsv, clusterYaml, publisher, torn>>
  BY DEF statusVars
<1>2. StatusTypeOK'
  BY <1>1 DEF ReportInv, StatusTypeOK
<1>3. JobsFollowJournal' /\ OneUnfinished' /\ LockHolds'
  BY <1>1 DEF ReportInv, JobsFollowJournal, OneUnfinished, LockHolds
<1> QED
  BY <1>1, <1>2, <1>3, SameProjections DEF ReportInv, ProjectionOfNow

LEMMA ReportStep == ReportInv /\ [StatusNext]_statusVars => ReportInv'
<1> SUFFICES ASSUME ReportInv, [StatusNext]_statusVars PROVE ReportInv'
  OBVIOUS
<1> USE DEF Publishers
<1>1. ASSUME NEW p \in Recorders, NEW a \in Attempts, Prepare(p, a) PROVE ReportInv'
  BY <1>1, PrepareStep
<1>2. ASSUME NEW p \in Recorders, NEW a \in Attempts, Settle(p, a) PROVE ReportInv'
  BY <1>2, SettleStep
<1>3. ASSUME NEW p \in Refreshers, StartRefresh(p) PROVE ReportInv'
  BY <1>3, StartRefreshStep
<1>4. ASSUME NEW p \in Refreshers, NEW found \in Inventories, Collect(p, found) PROVE ReportInv'
  BY <1>4, CollectStep
<1>5. ASSUME NEW p \in Refreshers, LockToPublish(p) PROVE ReportInv'
  BY <1>5, LockToPublishStep
<1>6. ASSUME NEW p \in Publishers, ProjectStatus(p) PROVE ReportInv'
  BY <1>6, ProjectStatusStep
<1>7. ASSUME NEW p \in Publishers, ReplaceNodes(p) PROVE ReportInv'
  BY <1>7, ReplaceNodesStep
<1>8. ASSUME NEW p \in Publishers, ReplaceCluster(p) PROVE ReportInv'
  BY <1>8, ReplaceClusterStep
<1>9. ASSUME NEW p \in Publishers, GiveUp(p) PROVE ReportInv'
  BY <1>9, GiveUpStep
<1>10. CASE Turnover
  BY <1>10, TurnoverStep
<1>11. CASE UNCHANGED statusVars
  BY <1>11, StutterStep
<1> QED
  BY <1>1, <1>2, <1>3, <1>4, <1>5, <1>6, <1>7, <1>8, <1>9, <1>10, <1>11 DEF StatusNext

\* Type correctness: journal, reports and processes keep their shape.
THEOREM StatusTypeCorrect == StatusSpec => []StatusTypeOK
<1>1. ReportInv => StatusTypeOK
  BY DEF ReportInv
<1> QED
  BY <1>1, ReportStart, ReportStep, PTL DEF StatusSpec

-----------------------------------------------------------------------------
(***************************************************************************)
(* The two reports.  A projection lists the nodes it observed, and the     *)
(* nodes of the old report when it observed none: once a report has rows,  *)
(* so has every later one, and its rows carry the id.  So a report without *)
(* rows can only stand beside a cluster report that counts none.           *)
(***************************************************************************)
SameProjection(report, cluster) ==
  \E rows \in Rows :
    /\ cluster.id = snapshot_id(rows, cluster.cluster)
    /\ cluster.total = Cardinality(NodesOf(rows)) /\ cluster.cluster \subseteq NodesOf(rows)
    /\ NodesOf(report.rows) = {} => NodesOf(rows) = {}

Observed(p) ==
  publisher[p].phase \in {"projected", "replaced"} =>
    publisher[p].cluster \subseteq NodesOf(publisher[p].rows)
HalfPublished(p) ==
  publisher[p].phase = "replaced" =>
    nodeCsv = [rows |-> publisher[p].rows, id |-> snapshot_id(publisher[p].rows, publisher[p].cluster)]
Between == \E p \in Publishers : publisher[p].phase = "replaced"

PairInv ==
  /\ \A p \in Publishers : Observed(p) /\ HalfPublished(p)
  /\ nodeCsv # None => \E c \in Clusters : nodeCsv.id = snapshot_id(nodeCsv.rows, c)
  /\ clusterYaml # None => nodeCsv # None /\ SameProjection(nodeCsv, clusterYaml)
  /\ torn \/ Between \/ NoReports \/ Agree

LEMMA ProjectedNodes ==
  ASSUME StatusTypeOK, JobsFollowJournal, OneUnfinished, OnTheirNodes(previous),
         NEW found \in SUBSET Machines
  PROVE  /\ found \subseteq NodesOf(build_status_snapshot(found))
         /\ NodesOf(build_status_snapshot(found)) = {} => NodesOf(previous) = {}
<1>1. StatusNodes(found) \subseteq Machines
  BY DEF StatusNodes
<1>2. \A m \in Machines : StatusRow(m) # None
  BY RowOfNode, NoneIsNoReport
<1>3. NodesOf(build_status_snapshot(found)) = StatusNodes(found)
  BY <1>1, <1>2 DEF NodesOf, build_status_snapshot
<1>4. found \subseteq StatusNodes(found)
  BY DEF StatusNodes
<1>5. found = {} => NodesOf(previous) \subseteq StatusNodes(found)
  BY DEF StatusNodes, NodesOf
<1> QED
  BY <1>3, <1>4, <1>5

\* A step of one process that leaves the reports alone.
LEMMA PairRests ==
  ASSUME StatusTypeOK, PairInv, NEW p \in Publishers, NEW next, Continue(p, next),
         publisher[p].phase # "replaced", next.phase # "replaced",
         next.phase = "projected" => next.cluster \subseteq NodesOf(next.rows),
         UNCHANGED <<nodeCsv, clusterYaml>>, torn' = torn
  PROVE  PairInv'
<1>1. \A q \in Publishers : publisher'[q] = IF q = p THEN next ELSE publisher[q]
  BY DEF Continue, StatusTypeOK
<1>2. Between' <=> Between
  BY <1>1 DEF Between
<1>3. \A q \in Publishers : Observed(q)' /\ HalfPublished(q)'
  BY <1>1 DEF PairInv, Observed, HalfPublished
<1>4. (NoReports' <=> NoReports) /\ (Agree' <=> Agree)
  BY DEF NoReports, Agree
<1>5. torn' \/ Between' \/ NoReports' \/ Agree'
  BY Zenon, <1>2, <1>4 DEF PairInv
<1>6. nodeCsv' # None => \E c \in Clusters : nodeCsv'.id = snapshot_id(nodeCsv'.rows, c)
  BY DEF PairInv
<1>7. clusterYaml' # None => nodeCsv' # None /\ SameProjection(nodeCsv', clusterYaml')
  BY DEF PairInv
<1> QED
  BY <1>3, <1>5, <1>6, <1>7 DEF PairInv, SameProjection

LEMMA PairReplaceNodes ==
  ASSUME ReportInv, PairInv, NEW p \in Publishers, ReplaceNodes(p)
  PROVE  PairInv'
<1> DEFINE w == publisher[p]
           next == [w EXCEPT !.phase = "replaced"]
<1>1. /\ statusLock = p /\ nodeCsv' # None /\ w.rows \in Rows /\ w.cluster \in Clusters
      /\ nodeCsv'.rows = w.rows /\ nodeCsv'.id = snapshot_id(w.rows, w.cluster)
      /\ w.rows = build_status_snapshot(w.cluster)
  BY Replacement DEF Clusters
<1>2. /\ w.phase = "projected" /\ UNCHANGED <<clusterYaml>>
      /\ nodeCsv' = [rows |-> w.rows, id |-> snapshot_id(w.rows, w.cluster)]
      /\ publisher' = [publisher EXCEPT ![p] = next]
  BY DEF ReplaceNodes, Continue
<1>3. /\ next.phase = "replaced" /\ next.rows = w.rows /\ next.cluster = w.cluster
      /\ \A q \in Publishers : publisher'[q] = IF q = p THEN next ELSE publisher[q]
  BY <1>2 DEF ReportInv, StatusTypeOK
<1> HIDE DEF next
<1>4. \A q \in Publishers : q # p => publisher[q].phase \notin Locking
  BY <1>1 DEF ReportInv, LockHolds
<1>5. ASSUME NEW q \in Publishers PROVE Observed(q)' /\ HalfPublished(q)'
  <2>1. CASE q = p
    BY <1>2, <1>3, <2>1 DEF Observed, HalfPublished, PairInv
  <2>2. CASE q # p
    BY <1>3, <1>4, <2>2 DEF Observed, HalfPublished, Locking
  <2> QED
    BY <2>1, <2>2
<1>6. Between'
  BY <1>3 DEF Between
<1>7. NodesOf(w.rows) = {} => NodesOf(previous) = {}
  BY <1>1, ProjectedNodes DEF ReportInv, Clusters
<1>8. ASSUME clusterYaml' # None PROVE SameProjection(nodeCsv', clusterYaml')
  <2>1. nodeCsv # None /\ SameProjection(nodeCsv, clusterYaml)
    BY <1>2, <1>8 DEF PairInv
  <2>2. previous = nodeCsv.rows
    BY <2>1 DEF previous
  <2> QED
    BY <1>1, <1>2, <1>7, <2>1, <2>2 DEF SameProjection
<1>9. \E c \in Clusters : nodeCsv'.id = snapshot_id(nodeCsv'.rows, c)
  BY <1>1
<1> QED
  BY <1>1, <1>5, <1>6, <1>8, <1>9 DEF PairInv, SameProjection

LEMMA PairReplaceCluster ==
  ASSUME ReportInv, PairInv, NEW p \in Publishers, ReplaceCluster(p)
  PROVE  PairInv'
<1> DEFINE w == publisher[p]
<1>1. /\ w.phase = "replaced" /\ UNCHANGED nodeCsv /\ Continue(p, Resting)
      /\ clusterYaml' = [total |-> Cardinality(NodesOf(w.rows)), cluster |-> w.cluster,
                         id |-> snapshot_id(w.rows, w.cluster)]
  BY DEF ReplaceCluster
<1>2. /\ w.rows \in Rows /\ w.cluster \in Clusters
  BY PublisherIs DEF PublisherStates, ReportInv
<1>3. /\ nodeCsv = [rows |-> w.rows, id |-> snapshot_id(w.rows, w.cluster)]
      /\ w.cluster \subseteq NodesOf(w.rows)
  BY <1>1 DEF PairInv, HalfPublished, Observed
<1>4. nodeCsv # None /\ clusterYaml' # None
  <2>1. nodeCsv \in NodeReports
    BY <1>2, <1>3 DEF NodeReports, Projections, snapshot_id
  <2>2. clusterYaml' \in ClusterReports
    BY <1>1, <1>2, NodesAreCounted DEF ClusterReports, Projections, snapshot_id
  <2> QED
    BY <2>1, <2>2, NoneIsNoReport
<1>5. SameProjection(nodeCsv', clusterYaml')
  BY <1>1, <1>2, <1>3 DEF SameProjection
<1>6. nodeCsv'.id = clusterYaml'.id
  BY <1>1, <1>3
<1>7. Agree'
  BY <1>1, <1>4, <1>6 DEF Agree
<1>8. \A q \in Publishers : publisher'[q] = IF q = p THEN Resting ELSE publisher[q]
  BY <1>1 DEF Continue, ReportInv, StatusTypeOK
<1>9. \A q \in Publishers : Observed(q)' /\ HalfPublished(q)'
  BY <1>1, <1>8 DEF PairInv, Observed, HalfPublished, Resting
<1>10. nodeCsv' # None => \E c \in Clusters : nodeCsv'.id = snapshot_id(nodeCsv'.rows, c)
  BY <1>1, <1>2, <1>3
<1>11. nodeCsv' # None
  BY <1>1, <1>4
<1> QED
  BY <1>5, <1>7, <1>9, <1>10, <1>11 DEF PairInv, SameProjection

\* Only who dies between the two replacements leaves a torn pair.
LEMMA PairGiveUp ==
  ASSUME ReportInv, PairInv, NEW p \in Publishers, GiveUp(p)
  PROVE  PairInv'
<1>1. /\ Continue(p, Resting) /\ UNCHANGED <<nodeCsv, clusterYaml>> /\ Resting.phase = "idle"
  BY DEF GiveUp, Resting
<1>2. torn' = (torn \/ publisher[p].phase = "replaced")
  BY DEF GiveUp
<1>3. CASE publisher[p].phase # "replaced"
  <2>1. torn' = torn
    BY <1>2, <1>3 DEF ReportInv, StatusTypeOK
  <2> QED
    BY <1>1, <1>3, <2>1, PairRests DEF ReportInv
<1>4. CASE publisher[p].phase = "replaced"
  <2>1. torn'
    BY <1>2, <1>4
  <2>2. \A q \in Publishers : publisher'[q] = IF q = p THEN Resting ELSE publisher[q]
    BY <1>1 DEF Continue, ReportInv, StatusTypeOK
  <2>3. \A q \in Publishers : Observed(q)' /\ HalfPublished(q)'
    BY <1>1, <2>2 DEF PairInv, Observed, HalfPublished
  <2>4. /\ nodeCsv' # None => \E c \in Clusters : nodeCsv'.id = snapshot_id(nodeCsv'.rows, c)
        /\ clusterYaml' # None => nodeCsv' # None /\ SameProjection(nodeCsv', clusterYaml')
    BY <1>1 DEF PairInv
  <2> QED
    BY <2>1, <2>3, <2>4 DEF PairInv, SameProjection
<1> QED
  BY <1>3, <1>4

LEMMA PairProjectStatus ==
  ASSUME ReportInv, PairInv, NEW p \in Publishers, ProjectStatus(p)
  PROVE  PairInv'
<1> DEFINE found == IF cache = None THEN {} ELSE cache.found
           projected == build_status_snapshot(found)
           next == [publisher[p] EXCEPT !.phase = "projected", !.rows = projected, !.cluster = found]
<1>1. found \in SUBSET Machines
  BY DEF ReportInv, StatusTypeOK
<1>2. found \subseteq NodesOf(projected)
  BY <1>1, ProjectedNodes DEF ReportInv
<1>3. Continue(p, next) /\ UNCHANGED <<nodeCsv, clusterYaml, torn>> /\ publisher[p].phase = "projecting"
  BY DEF ProjectStatus, reports
<1> HIDE DEF found, projected
<1>4. next.phase = "projected" /\ next.rows = projected /\ next.cluster = found
  BY PublisherIs DEF PublisherStates, ReportInv
<1> HIDE DEF next
<1> QED
  BY <1>2, <1>3, <1>4, PairRests DEF ReportInv

LEMMA PairBegins ==
  ASSUME ReportInv, PairInv, NEW p \in Publishers,
         AppendEvent(p) \/ StartRefresh(p) \/ (\E found \in Inventories : Collect(p, found))
           \/ LockToPublish(p)
  PROVE  PairInv'
<1>1. publisher[p] \in PublisherStates /\ Resting \in PublisherStates
  BY PublisherIs, RestingType DEF ReportInv
<1>2. UNCHANGED <<nodeCsv, clusterYaml, torn>>
  BY DEF AppendEvent, StartRefresh, Collect, LockToPublish, reports
<1>3. PICK next : /\ Continue(p, next) /\ next.phase \in {"projecting", "collecting", "collected"}
                  /\ publisher[p].phase # "replaced"
  BY <1>1 DEF AppendEvent, StartRefresh, Collect, LockToPublish, PublisherStates
<1> QED
  BY <1>2, <1>3, PairRests DEF ReportInv

LEMMA PairStep == ReportInv /\ PairInv /\ [StatusNext]_statusVars => PairInv'
<1> SUFFICES ASSUME ReportInv, PairInv, [StatusNext]_statusVars PROVE PairInv'
  OBVIOUS
<1>1. ASSUME NEW p \in Publishers, ReplaceNodes(p) PROVE PairInv'
  BY <1>1, PairReplaceNodes
<1>2. ASSUME NEW p \in Publishers, ReplaceCluster(p) PROVE PairInv'
  BY <1>2, PairReplaceCluster
<1>3. ASSUME NEW p \in Publishers, GiveUp(p) PROVE PairInv'
  BY <1>3, PairGiveUp
<1>4. ASSUME NEW p \in Publishers, ProjectStatus(p) PROVE PairInv'
  BY <1>4, PairProjectStatus
<1>5. ASSUME NEW p \in Recorders, NEW a \in Attempts, Prepare(p, a) \/ Settle(p, a) PROVE PairInv'
  <2>1. AppendEvent(p) /\ p \in Publishers
    BY <1>5 DEF Prepare, Settle, Publishers
  <2> QED
    BY <2>1, PairBegins
<1>6. ASSUME NEW p \in Refreshers,
             \/ StartRefresh(p) \/ (\E found \in Inventories : Collect(p, found))
             \/ LockToPublish(p)
      PROVE  PairInv'
  BY <1>6, PairBegins DEF Publishers
<1>7. CASE Turnover \/ UNCHANGED statusVars
  <2>1. UNCHANGED <<nodeCsv, clusterYaml, publisher, torn>>
    BY <1>7 DEF Turnover, statusVars, reports
  <2>2. /\ \A q \in Publishers : Observed(q)' /\ HalfPublished(q)'
        /\ Between' <=> Between
        /\ NoReports' <=> NoReports
        /\ Agree' <=> Agree
    BY <2>1 DEF PairInv, Observed, HalfPublished, Between, NoReports, Agree
  <2>3. torn' \/ Between' \/ NoReports' \/ Agree'
    BY Zenon, <2>1, <2>2 DEF PairInv
  <2>4. /\ nodeCsv' # None => \E c \in Clusters : nodeCsv'.id = snapshot_id(nodeCsv'.rows, c)
        /\ clusterYaml' # None => nodeCsv' # None /\ SameProjection(nodeCsv', clusterYaml')
    BY <2>1 DEF PairInv
  <2> QED
    BY <2>2, <2>3, <2>4 DEF PairInv, SameProjection
<1> QED
  BY <1>1, <1>2, <1>3, <1>4, <1>5, <1>6, <1>7 DEF StatusNext

LEMMA PairsAgree == PairInv => PublishedPairIsWhole
<1> SUFFICES ASSUME PairInv PROVE PublishedPairIsWhole
  OBVIOUS
<1>1. ASSUME Agree
      PROVE  /\ clusterYaml.total = Cardinality(NodesOf(nodeCsv.rows))
             /\ clusterYaml.cluster \subseteq NodesOf(nodeCsv.rows)
  <2>1. clusterYaml # None /\ nodeCsv # None
    BY <1>1 DEF Agree
  <2>2. PICK c \in Clusters : nodeCsv.id = snapshot_id(nodeCsv.rows, c)
    BY <2>1 DEF PairInv
  <2>3. PICK rows \in Rows :
          /\ clusterYaml.id = snapshot_id(rows, clusterYaml.cluster)
          /\ clusterYaml.total = Cardinality(NodesOf(rows))
          /\ clusterYaml.cluster \subseteq NodesOf(rows)
          /\ NodesOf(nodeCsv.rows) = {} => NodesOf(rows) = {}
    BY <2>1 DEF PairInv, SameProjection
  <2>4. CASE NodesOf(nodeCsv.rows) = {}
    BY <2>3, <2>4
  <2>5. CASE NodesOf(nodeCsv.rows) # {}
    <3>1. nodeCsv.id = clusterYaml.id
      BY <1>1, <2>5 DEF Agree
    <3>2. nodeCsv.rows = rows
      BY <2>2, <2>3, <3>1 DEF snapshot_id
    <3> QED
      BY <2>3, <3>2
  <2> QED
    BY <2>4, <2>5
<1>2. torn \/ Between \/ NoReports \/ Agree
  BY DEF PairInv
<1> QED
  BY <1>1, <1>2 DEF PublishedPairIsWhole, Between

\* Reports that agree are of one cluster, and only a publisher that died between its two
\* replacements leaves reports that do not agree.
THEOREM PublishedPairsAreWhole == StatusSpec => []PublishedPairIsWhole
<1>1. StatusInit => PairInv
  <2> SUFFICES ASSUME StatusInit PROVE PairInv
    OBVIOUS
  <2>1. /\ \A p \in Publishers : publisher[p] = Resting
        /\ nodeCsv = None /\ clusterYaml = None
    BY DEF StatusInit
  <2> QED
    BY <2>1 DEF PairInv, Observed, HalfPublished, Resting, NoReports
<1> QED
  BY <1>1, PairStep, PairsAgree, ReportStart, ReportStep, PTL DEF StatusSpec

-----------------------------------------------------------------------------
LEMMA OnlyReplacement ==
  ASSUME [StatusNext]_statusVars, nodeCsv' # nodeCsv
  PROVE  \E p \in Publishers : ReplaceNodes(p)
BY DEF StatusNext, statusVars, reports, Prepare, Settle, AppendEvent, StartRefresh, Collect,
       LockToPublish, ProjectStatus, ReplaceCluster, GiveUp, Turnover

LEMMA KeepsUnresolvedStep ==
  ASSUME ReportInv, [StatusNext]_statusVars
  PROVE  KeepsUnresolved
<1> SUFFICES ASSUME nodeCsv' # nodeCsv, NEW m \in Machines,
                    \/ Of(m, {"live"}) # {}
                    \/ Open(previous[m]) /\ job[previous[m].attempt] # "over"
             PROVE  Open(nodeCsv'.rows[m])
  BY DEF KeepsUnresolved
<1>1. PICK p \in Publishers : ReplaceNodes(p)
  BY OnlyReplacement
<1>2. PICK found \in SUBSET Machines : nodeCsv'.rows = build_status_snapshot(found)
  BY <1>1, Replacement
<1>3. check_status_reconciliation(previous, journal)
  BY <1>1, Replacement
<1>4. Open(build_status_snapshot(found)[m])
  BY <1>3, SnapshotKeeps DEF ReportInv
<1> QED
  BY <1>2, <1>4

\* No replacement of the node report loses an attempt whose Job may still run, whatever was
\* observed, whoever died and however often the session was turned over.
THEOREM UnresolvedAttemptsStayListed == StatusSpec => UnresolvedAttemptStaysListed
<1>1. ReportInv /\ [StatusNext]_statusVars => KeepsUnresolved
  BY KeepsUnresolvedStep
<1>2. ReportInv /\ [StatusNext]_statusVars => [KeepsUnresolved]_statusVars
  BY <1>1
<1> QED
  BY <1>2, ReportStart, ReportStep, PTL DEF StatusSpec, UnresolvedAttemptStaysListed
=============================================================================

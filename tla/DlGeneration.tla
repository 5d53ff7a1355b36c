---------------------------- MODULE DlGeneration ----------------------------
(***************************************************************************)
(* The raw metric stores of the DL test: one database per component, each  *)
(* with the rows and receipts of runs and one generation stamp             *)
(* (validation-tests/dltest/ingest.py).  A run's ingestion writes all of   *)
(* them under the metric lock (scripts/dl-metric-lock.py); the maintenance *)
(* command db-rebuild-dltest-metrics reconciles them with the evidence on  *)
(* the volume and takes no lock; targeted verification reads them without  *)
(* any (storage/verification.py).                                          *)
(*                                                                         *)
(* Each store is its own transaction, so every write and read of one store *)
(* is a step.  The rows and the receipt of a run are one member of `rows`. *)
(***************************************************************************)
EXTENDS Naturals, FiniteSets

CONSTANTS
  Runs,       \* passing DL runs, named as their ingestion
  Rebuilds,   \* invocations of db-rebuild-dltest-metrics
  Verified,   \* runs that verification is asked about
  LastStore,  \* the stores are written in order, 1 to LastStore
  DL_INGEST_BATCH_RUNS,
  Attempts,   \* sqlite_retry.attempts
  Overlap,    \* maintenance may overlap with ingestion
  None

ASSUME StoresType == LastStore \in Nat \ {0}
ASSUME BoundsType == DL_INGEST_BATCH_RUNS \in Nat \ {0} /\ Attempts \in Nat \ {0}
ASSUME OverlapType == Overlap \in BOOLEAN /\ Verified \subseteq Runs
ASSUME ProcessesDiffer == Runs \cap Rebuilds = {}

Stores == 1..LastStore
Processes == Runs \cup Rebuilds

VARIABLES
  evidence,   \* rank files and summary of a run on the volume
  rows,       \* per store: runs whose rows and receipt it holds
  stamp,      \* per store: cval_ingest_metadata, or None
  lock,       \* holder of .dl-metric-ingest.lock
  pc, at,     \* per process: its phase, the store it comes to next
  tries,      \* SQLite retries an ingestion has used
  seenSets,   \* per process: receipt sets it has compared so far
  job,        \* per rebuild: the locals of ingest_dltest_results
  confirmed,  \* ingestions that have returned their store receipts
  reader      \* the verification of one run

store == <<rows, stamp>>
process == <<pc, at, tries, seenSets>>
vars == <<evidence, store, lock, process, job, confirmed, reader>>

Phases == {"idle", "waiting", "locked", "writing", "comparing", "finalizing", "leaving",
           "returned", "failed", "initializing", "keys", "scanning", "staling", "purging"}
Stopped == {"idle", "returned", "failed"}
Generations == [by : Processes, attempt : 0..(Attempts - 1)]
Stamps == [generation : Generations, state : {"in_progress", "complete"}]

ASSUME NoneIsNobody == None \notin Runs \cup Stamps

NewJob == [missing |-> FALSE, existed |-> FALSE, complete |-> {}, todo |-> {}, valid |-> {},
           batch |-> {}, stale |-> [s \in Stores |-> {}]]
NoRead == [phase |-> "idle", run |-> None, at |-> 1, generation |-> None,
           seen |-> [s \in Stores |-> FALSE]]

Init ==
  /\ evidence = [r \in Runs |-> "none"]
  /\ rows = [s \in Stores |-> {}] /\ stamp = [s \in Stores |-> None]
  /\ lock = None
  /\ pc = [p \in Processes |-> "idle"] /\ at = [p \in Processes |-> 1]
  /\ tries = [r \in Runs |-> 0] /\ seenSets = [p \in Processes |-> {}]
  /\ job = [b \in Rebuilds |-> NewJob]
  /\ confirmed = {}
  /\ reader = NoRead

(***************************************************************************)
(* Evidence on the volume: a test leaves rank files, then a passing        *)
(* summary; an operator may remove a run's artifacts.                      *)
(***************************************************************************)
Running(P) == \E p \in P : pc[p] \notin Stopped

Produce(r) ==
  /\ \/ evidence[r] = "none" /\ evidence' = [evidence EXCEPT ![r] = "partial"]
     \/ evidence[r] = "partial" /\ evidence' = [evidence EXCEPT ![r] = "passing"]
  /\ UNCHANGED <<store, lock, process, job, confirmed, reader>>

Remove(r) ==
  /\ evidence[r] = "passing" /\ pc[r] \in {"returned", "failed"}
  /\ evidence' = [evidence EXCEPT ![r] = "removed"]
  /\ UNCHANGED <<store, lock, process, job, confirmed, reader>>

(***************************************************************************)
(* Steps of one store that ingestion and rebuild share.                    *)
(***************************************************************************)
Enter(p, phase) == pc' = [pc EXCEPT ![p] = phase] /\ at' = [at EXCEPT ![p] = 1]

Advance(p, next) ==
  IF at[p] < LastStore THEN at' = [at EXCEPT ![p] = @ + 1] /\ UNCHANGED pc ELSE Enter(p, next)

GenerationOf(p) == [by |-> p, attempt |-> IF p \in Runs THEN tries[p] ELSE 0]

\* One transaction: replaced rows and receipts, and the unfinished generation.
Put(p, content) ==
  /\ rows' = [rows EXCEPT ![at[p]] = content]
  /\ stamp' = [stamp EXCEPT ![at[p]] = [generation |-> GenerationOf(p), state |-> "in_progress"]]

\* len(unique) != 1
Differ(sets) == \E x, y \in sets : x # y

\* _assert_equal_dl_receipts reads the stores one after the other.
ReadReceipts(p) ==
  /\ pc[p] = "comparing" /\ at[p] < LastStore
  /\ seenSets' = [seenSets EXCEPT ![p] = @ \cup {rows[at[p]]}]
  /\ at' = [at EXCEPT ![p] = @ + 1]
  /\ UNCHANGED <<evidence, store, lock, pc, tries, job, confirmed, reader>>

AcceptReceipts(p) ==
  /\ pc[p] = "comparing" /\ at[p] = LastStore
  /\ ~Differ(seenSets[p] \cup {rows[LastStore]})
  /\ seenSets' = [seenSets EXCEPT ![p] = {}]
  /\ Enter(p, "finalizing")
  /\ UNCHANGED <<evidence, store, lock, tries, job, confirmed, reader>>

FinalizeStore(p) ==
  /\ pc[p] = "finalizing"
  /\ stamp' = [stamp EXCEPT ![at[p]] = [generation |-> GenerationOf(p), state |-> "complete"]]
  /\ Advance(p, "leaving")
  /\ UNCHANGED <<evidence, rows, lock, tries, seenSets, job, confirmed, reader>>

Forget(p) == [b \in Rebuilds |-> IF b = p THEN NewJob ELSE job[b]]

\* The process ends without success, and the kernel drops its lock.
Abandon(p) ==
  /\ Enter(p, "failed") /\ seenSets' = [seenSets EXCEPT ![p] = {}]
  /\ lock' = IF lock = p THEN None ELSE lock
  /\ job' = Forget(p)
  /\ UNCHANGED <<evidence, store, tries, confirmed, reader>>

RejectReceipts(p) ==
  /\ pc[p] = "comparing" /\ at[p] = LastStore
  /\ Differ(seenSets[p] \cup {rows[LastStore]})
  /\ Abandon(p)

\* An error without a retry, a kill or a crash.
Fail(p) == pc[p] \notin Stopped /\ Abandon(p)

(***************************************************************************)
(* The ingestion of one run.                                               *)
(***************************************************************************)
StartIngest(r) ==
  /\ pc[r] = "idle" /\ evidence[r] = "passing"
  /\ Overlap \/ ~Running(Rebuilds)
  /\ Enter(r, "waiting")
  /\ UNCHANGED <<evidence, store, lock, tries, seenSets, job, confirmed, reader>>

\* Faulty variant: each writer opens a lock file of its own.
AcquireLock_shared(r) ==
  /\ pc[r] = "waiting"
  /\ lock' = r /\ Enter(r, "locked")
  /\ UNCHANGED <<evidence, store, tries, seenSets, job, confirmed, reader>>

AcquireLock(r) ==
  /\ pc[r] = "waiting" /\ lock = None
  /\ lock' = r /\ Enter(r, "locked")
  /\ UNCHANGED <<evidence, store, tries, seenSets, job, confirmed, reader>>

\* An attempt of write_dl: the evidence is loaded, a generation is named.
BeginWrite(r) ==
  /\ pc[r] = "locked" /\ evidence[r] = "passing"
  /\ Enter(r, "writing")
  /\ UNCHANGED <<evidence, store, lock, tries, seenSets, job, confirmed, reader>>

WriteRun(r) ==
  /\ pc[r] = "writing"
  /\ Put(r, rows[at[r]] \cup {r})
  /\ Advance(r, "comparing")
  /\ UNCHANGED <<evidence, lock, tries, seenSets, job, confirmed, reader>>

\* Faulty variant: every busy database is tried again.
Busy_unbounded(r) ==
  /\ pc[r] \in {"writing", "comparing", "finalizing"}
  /\ Enter(r, "locked") /\ seenSets' = [seenSets EXCEPT ![r] = {}]
  /\ UNCHANGED <<evidence, store, lock, tries, job, confirmed, reader>>

\* SQLITE_BUSY: retry_sqlite repeats the whole operation under the same lock.
Busy(r) ==
  /\ pc[r] \in {"writing", "comparing", "finalizing"} /\ tries[r] + 1 < Attempts
  /\ tries' = [tries EXCEPT ![r] = @ + 1]
  /\ Enter(r, "locked") /\ seenSets' = [seenSets EXCEPT ![r] = {}]
  /\ UNCHANGED <<evidence, store, lock, job, confirmed, reader>>

ReturnReceipts(r) ==
  /\ pc[r] = "leaving"
  /\ Enter(r, "returned") /\ lock' = None /\ confirmed' = confirmed \cup {r}
  /\ UNCHANGED <<evidence, store, tries, seenSets, job, reader>>

(***************************************************************************)
(* db-rebuild-dltest-metrics.                                              *)
(***************************************************************************)
\* A database file appears with its first transaction.
Existing == {s \in Stores : stamp[s] # None}

StartRebuild(b, missing) ==
  /\ pc[b] = "idle"
  /\ Overlap \/ ~Running(Processes)
  /\ missing => Existing \in {{}, Stores}
  /\ job' = [job EXCEPT ![b] = [NewJob EXCEPT
               !.missing = missing, !.existed = (Existing = Stores),
               !.complete = IF missing THEN Runs ELSE {},
               !.todo = {r \in Runs : evidence[r] \in {"partial", "passing"}}]]
  /\ Enter(b, IF ~missing THEN "scanning" ELSE IF Existing = {} THEN "keys" ELSE "initializing")
  /\ UNCHANGED <<evidence, store, lock, tries, seenSets, confirmed, reader>>

InitializeStore(b) ==
  /\ pc[b] = "initializing"
  /\ Put(b, rows[at[b]])
  /\ Advance(b, "keys")
  /\ UNCHANGED <<evidence, lock, tries, seenSets, job, confirmed, reader>>

\* The runs every store has a receipt for.  The directories are listed after it.
ReadKeys(b) ==
  /\ pc[b] = "keys"
  /\ job' = [job EXCEPT ![b].complete = @ \cap rows[at[b]],
                        ![b].todo = {r \in Runs : evidence[r] \in {"partial", "passing"}}]
  /\ Advance(b, "scanning")
  /\ UNCHANGED <<evidence, store, lock, tries, seenSets, confirmed, reader>>

\* Faulty variant: only the last directory is remembered as valid.
ScanRun_forgetful(b, r) ==
  /\ pc[b] = "scanning" /\ r \in job[b].todo /\ Cardinality(job[b].batch) < DL_INGEST_BATCH_RUNS
  /\ LET passing == IF evidence[r] = "passing" THEN {r} ELSE {} IN
       job' = [job EXCEPT ![b].todo = @ \ {r}, ![b].valid = passing,
                          ![b].batch = @ \cup (passing \ job[b].complete)]
  /\ UNCHANGED <<evidence, store, lock, process, confirmed, reader>>

\* A directory is loaded when its turn comes, not when it was listed.
ScanRun(b, r) ==
  /\ pc[b] = "scanning" /\ r \in job[b].todo /\ Cardinality(job[b].batch) < DL_INGEST_BATCH_RUNS
  /\ LET passing == IF evidence[r] = "passing" THEN {r} ELSE {} IN
       job' = [job EXCEPT ![b].todo = @ \ {r}, ![b].valid = @ \cup passing,
                          ![b].batch = @ \cup (passing \ job[b].complete)]
  /\ UNCHANGED <<evidence, store, lock, process, confirmed, reader>>

FlushBatch(b) ==
  /\ pc[b] = "scanning" /\ job[b].batch # {}
  /\ job[b].todo = {} \/ Cardinality(job[b].batch) = DL_INGEST_BATCH_RUNS
  /\ Enter(b, "writing")
  /\ UNCHANGED <<evidence, store, lock, tries, seenSets, job, confirmed, reader>>

WriteBatch(b) ==
  /\ pc[b] = "writing"
  /\ Put(b, rows[at[b]] \cup job[b].batch)
  /\ job' = IF at[b] < LastStore THEN job ELSE [job EXCEPT ![b].batch = {}]
  /\ Advance(b, "scanning")
  /\ UNCHANGED <<evidence, lock, tries, seenSets, confirmed, reader>>

ScanEnds(b) ==
  /\ pc[b] = "scanning" /\ job[b].todo = {} /\ job[b].batch = {}
  /\ Enter(b, IF job[b].valid = {} /\ ~job[b].existed THEN "failed"
              ELSE IF job[b].missing THEN "comparing" ELSE "staling")
  /\ UNCHANGED <<evidence, store, lock, tries, seenSets, job, confirmed, reader>>

\* Faulty variant: stale is what the last batch did not contain.
ReadStale_of_batch(b) ==
  /\ pc[b] = "staling"
  /\ job' = [job EXCEPT ![b].stale[at[b]] = rows[at[b]] \ job[b].batch]
  /\ Advance(b, "purging")
  /\ UNCHANGED <<evidence, store, lock, tries, seenSets, confirmed, reader>>

\* _finish_dl_reconciliation: what the scan did not find valid is removed.
ReadStale(b) ==
  /\ pc[b] = "staling"
  /\ job' = [job EXCEPT ![b].stale[at[b]] = rows[at[b]] \ job[b].valid]
  /\ Advance(b, "purging")
  /\ UNCHANGED <<evidence, store, lock, tries, seenSets, confirmed, reader>>

Purge(b) ==
  /\ pc[b] = "purging"
  /\ Put(b, rows[at[b]] \ job[b].stale[at[b]])
  /\ Advance(b, "comparing")
  /\ UNCHANGED <<evidence, lock, tries, seenSets, job, confirmed, reader>>

ReturnSummary(b) ==
  /\ pc[b] = "leaving"
  /\ Enter(b, "returned") /\ job' = Forget(b)
  /\ UNCHANGED <<evidence, store, lock, tries, seenSets, confirmed, reader>>

(***************************************************************************)
(* Verification of one run: the generations of all stores, the run's rows  *)
(* in each, the generations again.                                         *)
(***************************************************************************)
Proceed(next) ==
  IF reader.at < LastStore THEN [reader EXCEPT !.at = @ + 1]
  ELSE [reader EXCEPT !.at = 1, !.phase = next]

StartRead(r) ==
  /\ reader.phase \in {"idle", "concluded"} /\ evidence[r] = "passing"
  /\ reader' = [NoRead EXCEPT !.phase = "before", !.run = r]
  /\ UNCHANGED <<evidence, store, lock, process, job, confirmed>>

Readable(s) == stamp[s] # None /\ stamp[s].state = "complete"

ReadBefore ==
  /\ reader.phase = "before"
  /\ LET s == reader.at IN
       reader' = IF Readable(s) /\ (s > 1 => stamp[s].generation = reader.generation)
                 THEN [Proceed("rows") EXCEPT !.generation = stamp[s].generation]
                 ELSE NoRead
  /\ UNCHANGED <<evidence, store, lock, process, job, confirmed>>

ReadRows ==
  /\ reader.phase = "rows"
  /\ reader' = [Proceed("after") EXCEPT !.seen[reader.at] = reader.run \in rows[reader.at]]
  /\ UNCHANGED <<evidence, store, lock, process, job, confirmed>>

\* Faulty variant: the second sample need only be readable.
ReadAfter_unmatched ==
  /\ reader.phase = "after"
  /\ reader' = IF Readable(reader.at) THEN Proceed("concluded") ELSE NoRead
  /\ UNCHANGED <<evidence, store, lock, process, job, confirmed>>

ReadAfter ==
  /\ reader.phase = "after"
  /\ reader' = IF Readable(reader.at) /\ stamp[reader.at].generation = reader.generation
               THEN Proceed("concluded") ELSE NoRead
  /\ UNCHANGED <<evidence, store, lock, process, job, confirmed>>

IngestStep(r) ==
  \/ AcquireLock(r) \/ BeginWrite(r) \/ WriteRun(r) \/ ReadReceipts(r) \/ AcceptReceipts(r)
  \/ RejectReceipts(r) \/ FinalizeStore(r) \/ Busy(r) \/ ReturnReceipts(r)
RebuildStep(b) ==
  \/ InitializeStore(b) \/ ReadKeys(b) \/ FlushBatch(b) \/ WriteBatch(b) \/ ScanEnds(b)
  \/ ReadStale(b) \/ Purge(b) \/ ReadReceipts(b) \/ AcceptReceipts(b)
  \/ RejectReceipts(b) \/ FinalizeStore(b) \/ ReturnSummary(b)
  \/ \E r \in Runs : ScanRun(b, r)

Next ==
  \/ \E r \in Runs : Produce(r) \/ Remove(r) \/ StartIngest(r) \/ IngestStep(r)
  \/ \E b \in Rebuilds : RebuildStep(b) \/ \E missing \in BOOLEAN : StartRebuild(b, missing)
  \/ \E p \in Processes : Fail(p)
  \/ ReadBefore \/ ReadRows \/ ReadAfter \/ \E r \in Verified : StartRead(r)

Spec == Init /\ [][Next]_vars

(* A process that is scheduled goes on; nothing needs to fail or to start. *)
FairSpec == Spec /\ \A r \in Runs : WF_vars(IngestStep(r))

(***************************************************************************)
(* Properties.                                                             *)
(***************************************************************************)
\* Type correctness of every variable.
TypeOK ==
  /\ evidence \in [Runs -> {"none", "partial", "passing", "removed"}]
  /\ rows \in [Stores -> SUBSET Runs] /\ stamp \in [Stores -> Stamps \cup {None}]
  /\ lock \in Runs \cup {None}
  /\ pc \in [Processes -> Phases] /\ at \in [Processes -> Stores]
  /\ tries \in [Runs -> 0..(Attempts - 1)] /\ seenSets \in [Processes -> SUBSET SUBSET Runs]
  /\ job \in [Rebuilds -> [missing : BOOLEAN, existed : BOOLEAN, complete : SUBSET Runs,
                           todo : SUBSET Runs, valid : SUBSET Runs, batch : SUBSET Runs,
                           stale : [Stores -> SUBSET Runs]]]
  /\ confirmed \subseteq Runs
  /\ reader \in [phase : {"idle", "before", "rows", "after", "concluded"}, run : Runs \cup {None},
                 at : Stores, generation : Generations \cup {None}, seen : [Stores -> BOOLEAN]]

Published == \E g \in Generations : \A s \in Stores :
               stamp[s] = [generation |-> g, state |-> "complete"]

\* One complete generation in all stores means that they hold the same runs:
\* receipts and generation expose every partial or interleaved write
\* (architecture.md:317-318, ingest.py:1569-1587).
CompleteMeansEqual == Published => \A s, t \in Stores : rows[s] = rows[t]

\* A verification that ends with the generation it began with has read one
\* publication: the run is in all stores or in none (verification.py:301-333).
ConclusiveIsUniform ==
  reader.phase = "concluded" => \A s, t \in Stores : reader.seen[s] = reader.seen[t]

\* A run whose ingestion has returned its receipts stays in every store as
\* long as its evidence exists, whatever later writers and rebuilds do.
ConfirmedIsStored ==
  \A r \in confirmed, s \in Stores : evidence[r] = "passing" => r \in rows[s]

\* A rebuild that returns has repaired what failed writers left: its own
\* generation is complete everywhere and no store lacks a run it found valid,
\* nor, without only_missing, holds another.
RebuildRestores ==
  [][\A b \in Rebuilds : pc[b] # "returned" /\ pc'[b] = "returned" =>
       \A s \in Stores : /\ stamp[s] = [generation |-> GenerationOf(b), state |-> "complete"]
                         /\ job[b].valid \subseteq rows[s]
                         /\ ~job[b].missing => rows[s] = job[b].valid]_vars

\* Every ingestion that waits for the lock gets it and ends, although writers
\* block on it without a timeout, are killed and retry busy databases.
IngestionEnds == \A r \in Runs : pc[r] = "waiting" ~> pc[r] \in {"returned", "failed"}
=============================================================================

------------------------- MODULE DlGenerationProofs --------------------------
(***************************************************************************)
(* Proofs about the DL metric stores, for any runs, stores and attempts:   *)
(* types, what the stores keep, and what verification reads of them, while *)
(* maintenance does not overlap.                                           *)
(***************************************************************************)
EXTENDS DlGeneration, TLAPS

LEMMA StoreOrder == 1 \in Stores /\ LastStore \in Stores
BY StoresType DEF Stores

(***************************************************************************)
(* Type correctness.                                                       *)
(***************************************************************************)
ProcessType ==
  /\ pc \in [Processes -> Phases] /\ at \in [Processes -> Stores]
  /\ tries \in [Runs -> 0..(Attempts - 1)] /\ seenSets \in [Processes -> SUBSET SUBSET Runs]

Job == [missing : BOOLEAN, existed : BOOLEAN, complete : SUBSET Runs, todo : SUBSET Runs,
        valid : SUBSET Runs, batch : SUBSET Runs, stale : [Stores -> SUBSET Runs]]
Reader == [phase : {"idle", "before", "rows", "after", "concluded"}, run : Runs \cup {None},
           at : Stores, generation : Generations \cup {None}, seen : [Stores -> BOOLEAN]]

LEMMA InitTypes == Init => TypeOK
<1> SUFFICES ASSUME Init PROVE TypeOK
  OBVIOUS
<1>1. NewJob \in Job
  BY DEF NewJob, Job
<1>2. NoRead \in Reader
  BY StoreOrder DEF NoRead, Reader
<1> QED
  BY <1>1, <1>2, StoreOrder, BoundsType DEF Init, TypeOK, Job, Reader, Phases

LEMMA EnterTypes ==
  ASSUME TypeOK, NEW p \in Processes, NEW phase \in Phases, Enter(p, phase)
  PROVE  pc' \in [Processes -> Phases] /\ at' \in [Processes -> Stores]
BY StoreOrder DEF TypeOK, Enter

LEMMA AdvanceTypes ==
  ASSUME TypeOK, NEW p \in Processes, NEW phase \in Phases, Advance(p, phase)
  PROVE  pc' \in [Processes -> Phases] /\ at' \in [Processes -> Stores]
<1>1. CASE at[p] < LastStore
  <2>1. at[p] + 1 \in Stores
    BY <1>1, StoresType DEF TypeOK, Stores
  <2> QED
    BY <1>1, <2>1 DEF TypeOK, Advance
<1>2. CASE ~(at[p] < LastStore)
  BY <1>2, EnterTypes DEF Advance
<1> QED
  BY <1>1, <1>2

LEMMA GenerationTypes ==
  ASSUME TypeOK, NEW p \in Processes
  PROVE  GenerationOf(p) \in Generations
BY BoundsType DEF TypeOK, GenerationOf, Generations

LEMMA PutTypes ==
  ASSUME TypeOK, NEW p \in Processes, NEW content \in SUBSET Runs, Put(p, content)
  PROVE  rows' \in [Stores -> SUBSET Runs] /\ stamp' \in [Stores -> Stamps \cup {None}]
BY GenerationTypes DEF TypeOK, Put, Stamps

LEMMA AbandonTypes ==
  ASSUME TypeOK, NEW p \in Processes, Abandon(p)
  PROVE  TypeOK'
<1>1. "failed" \in Phases
  BY DEF Phases
<1>2. pc' \in [Processes -> Phases] /\ at' \in [Processes -> Stores]
  BY <1>1, EnterTypes DEF Abandon
<1>3. NewJob \in Job
  BY DEF NewJob, Job
<1>4. job' \in [Rebuilds -> Job]
  BY <1>3 DEF Abandon, Forget, TypeOK, Job
<1> QED
  BY <1>2, <1>4 DEF TypeOK, Abandon, Job, store

\* The steps of ingestion, and those it shares with a rebuild.
LEMMA SharedTypes ==
  ASSUME TypeOK, NEW p \in Processes,
         ReadReceipts(p) \/ AcceptReceipts(p) \/ RejectReceipts(p) \/ FinalizeStore(p) \/ Fail(p)
  PROVE  TypeOK'
<1> USE DEF store
<1>1. CASE ReadReceipts(p)
  <2>1. at' \in [Processes -> Stores]
    BY <1>1, StoresType DEF TypeOK, ReadReceipts, Stores
  <2> QED
    BY <1>1, <2>1 DEF TypeOK, ReadReceipts
<1>2. CASE AcceptReceipts(p)
  <2>1. "finalizing" \in Phases
    BY DEF Phases
  <2>2. pc' \in [Processes -> Phases] /\ at' \in [Processes -> Stores]
    BY <1>2, <2>1, EnterTypes DEF AcceptReceipts
  <2> QED
    BY <1>2, <2>2 DEF TypeOK, AcceptReceipts
<1>3. CASE RejectReceipts(p)
  BY <1>3, AbandonTypes DEF RejectReceipts
<1>4. CASE FinalizeStore(p)
  <2>1. "leaving" \in Phases
    BY DEF Phases
  <2>2. pc' \in [Processes -> Phases] /\ at' \in [Processes -> Stores]
    BY <1>4, <2>1, AdvanceTypes DEF FinalizeStore
  <2>3. stamp' \in [Stores -> Stamps \cup {None}]
    BY <1>4, GenerationTypes DEF FinalizeStore, TypeOK, Stamps
  <2> QED
    BY <1>4, <2>2, <2>3 DEF TypeOK, FinalizeStore
<1>5. CASE Fail(p)
  BY <1>5, AbandonTypes DEF Fail
<1> QED
  BY <1>1, <1>2, <1>3, <1>4, <1>5

LEMMA IngestTypes ==
  ASSUME TypeOK, NEW r \in Runs,
         \/ Produce(r) \/ Remove(r) \/ StartIngest(r) \/ AcquireLock(r) \/ BeginWrite(r)
         \/ WriteRun(r) \/ Busy(r) \/ ReturnReceipts(r)
  PROVE  TypeOK'
<1> USE DEF store, process
<1>0. r \in Processes /\ {"waiting", "locked", "writing", "comparing", "returned"} \subseteq Phases
  BY DEF Processes, Phases
<1>1. CASE Produce(r) \/ Remove(r)
  BY <1>1 DEF TypeOK, Produce, Remove
<1>2. CASE StartIngest(r)
  <2>1. pc' \in [Processes -> Phases] /\ at' \in [Processes -> Stores]
    BY <1>0, <1>2, EnterTypes DEF StartIngest
  <2> QED
    BY <1>2, <2>1 DEF TypeOK, StartIngest
<1>3. CASE AcquireLock(r)
  <2>1. pc' \in [Processes -> Phases] /\ at' \in [Processes -> Stores]
    BY <1>0, <1>3, EnterTypes DEF AcquireLock
  <2> QED
    BY <1>3, <2>1 DEF TypeOK, AcquireLock
<1>4. CASE BeginWrite(r)
  <2>1. pc' \in [Processes -> Phases] /\ at' \in [Processes -> Stores]
    BY <1>0, <1>4, EnterTypes DEF BeginWrite
  <2> QED
    BY <1>4, <2>1 DEF TypeOK, BeginWrite
<1>5. CASE WriteRun(r)
  <2>1. pc' \in [Processes -> Phases] /\ at' \in [Processes -> Stores]
    BY <1>0, <1>5, AdvanceTypes DEF WriteRun
  <2>2. rows[at[r]] \cup {r} \in SUBSET Runs
    BY <1>0 DEF TypeOK
  <2>3. rows' \in [Stores -> SUBSET Runs] /\ stamp' \in [Stores -> Stamps \cup {None}]
    BY <1>0, <1>5, <2>2, PutTypes DEF WriteRun
  <2> QED
    BY <1>5, <2>1, <2>3 DEF TypeOK, WriteRun
<1>6. CASE Busy(r)
  <2>1. pc' \in [Processes -> Phases] /\ at' \in [Processes -> Stores]
    BY <1>0, <1>6, EnterTypes DEF Busy
  <2>2. tries' \in [Runs -> 0..(Attempts - 1)]
    BY <1>6, BoundsType DEF TypeOK, Busy
  <2> QED
    BY <1>6, <2>1, <2>2 DEF TypeOK, Busy
<1>7. CASE ReturnReceipts(r)
  <2>1. pc' \in [Processes -> Phases] /\ at' \in [Processes -> Stores]
    BY <1>0, <1>7, EnterTypes DEF ReturnReceipts
  <2> QED
    BY <1>7, <2>1 DEF TypeOK, ReturnReceipts
<1> QED
  BY <1>1, <1>2, <1>3, <1>4, <1>5, <1>6, <1>7

LEMMA ScanTypes ==
  ASSUME TypeOK, NEW b \in Rebuilds,
         \/ \E missing \in BOOLEAN : StartRebuild(b, missing)
         \/ InitializeStore(b) \/ ReadKeys(b) \/ FlushBatch(b) \/ WriteBatch(b)
         \/ \E r \in Runs : ScanRun(b, r)
  PROVE  TypeOK'
<1> USE DEF store, process, Job
<1>0. /\ b \in Processes
      /\ {"scanning", "keys", "initializing", "writing"} \subseteq Phases
  BY DEF Processes, Phases
<1>jobs. job \in [Rebuilds -> Job]
  BY DEF TypeOK
<1>1. ASSUME NEW missing \in BOOLEAN, StartRebuild(b, missing) PROVE TypeOK'
  <2>1. NewJob \in Job
    BY DEF NewJob
  <2>2. pc' \in [Processes -> Phases] /\ at' \in [Processes -> Stores]
    BY <1>0, <1>1, EnterTypes DEF StartRebuild
  <2>3. job' \in [Rebuilds -> Job]
    BY <1>1, <2>1 DEF TypeOK, StartRebuild
  <2> QED
    BY <1>1, <2>2, <2>3 DEF TypeOK, StartRebuild
<1>2. CASE InitializeStore(b)
  <2>1. pc' \in [Processes -> Phases] /\ at' \in [Processes -> Stores]
    BY <1>0, <1>2, AdvanceTypes DEF InitializeStore
  <2>2. rows[at[b]] \in SUBSET Runs
    BY <1>0 DEF TypeOK
  <2>3. rows' \in [Stores -> SUBSET Runs] /\ stamp' \in [Stores -> Stamps \cup {None}]
    BY <1>0, <1>2, <2>2, PutTypes DEF InitializeStore
  <2> QED
    BY <1>2, <2>1, <2>3 DEF TypeOK, InitializeStore
<1>3. CASE ReadKeys(b)
  <2>1. pc' \in [Processes -> Phases] /\ at' \in [Processes -> Stores]
    BY <1>0, <1>3, AdvanceTypes DEF ReadKeys
  <2>2. /\ job[b].complete \cap rows[at[b]] \in SUBSET Runs
        /\ {r \in Runs : evidence[r] \in {"partial", "passing"}} \in SUBSET Runs
    BY <1>0 DEF TypeOK
  <2> DEFINE keyed == [job[b] EXCEPT !.complete = @ \cap rows[at[b]],
                       !.todo = {r \in Runs : evidence[r] \in {"partial", "passing"}}]
  <2>3. keyed \in Job
    BY <2>2, <1>jobs
  <2>4. job' = [job EXCEPT ![b] = keyed]
    BY <1>3, <1>jobs DEF ReadKeys
  <2> HIDE DEF keyed
  <2>5. job' \in [Rebuilds -> Job]
    BY <1>jobs, <2>3, <2>4
  <2> QED
    BY <1>3, <2>1, <2>5 DEF TypeOK, ReadKeys
<1>4. CASE FlushBatch(b)
  <2>1. pc' \in [Processes -> Phases] /\ at' \in [Processes -> Stores]
    BY <1>0, <1>4, EnterTypes DEF FlushBatch
  <2> QED
    BY <1>4, <2>1 DEF TypeOK, FlushBatch
<1>5. CASE WriteBatch(b)
  <2>1. pc' \in [Processes -> Phases] /\ at' \in [Processes -> Stores]
    BY <1>0, <1>5, AdvanceTypes DEF WriteBatch
  <2>2. rows[at[b]] \cup job[b].batch \in SUBSET Runs
    BY <1>0 DEF TypeOK
  <2>3. rows' \in [Stores -> SUBSET Runs] /\ stamp' \in [Stores -> Stamps \cup {None}]
    BY <1>0, <1>5, <2>2, PutTypes DEF WriteBatch
  <2>4. [job[b] EXCEPT !.batch = {}] \in Job
    BY <1>jobs
  <2>5. job' = job \/ job' = [job EXCEPT ![b] = [job[b] EXCEPT !.batch = {}]]
    BY <1>5, <1>jobs DEF WriteBatch
  <2>6. job' \in [Rebuilds -> Job]
    BY <1>jobs, <2>4, <2>5
  <2> QED
    BY <1>5, <2>1, <2>3, <2>6 DEF TypeOK, WriteBatch
<1>6. ASSUME NEW r \in Runs, ScanRun(b, r) PROVE TypeOK'
  <2> DEFINE passing == IF evidence[r] = "passing" THEN {r} ELSE {}
             scanned == [job[b] EXCEPT !.todo = @ \ {r}, !.valid = @ \cup passing,
                                       !.batch = @ \cup (passing \ job[b].complete)]
  <2>1. job \in [Rebuilds -> Job] /\ passing \in SUBSET Runs
    BY DEF TypeOK
  <2>2. scanned \in Job
    BY <2>1
  <2>3. job' = [job EXCEPT ![b] = scanned]
    BY <1>6, <2>1 DEF ScanRun
  <2> HIDE DEF scanned
  <2>4. job' \in [Rebuilds -> Job]
    BY <2>1, <2>2, <2>3
  <2> QED
    BY <1>6, <2>4 DEF TypeOK, ScanRun
<1> QED
  BY <1>1, <1>2, <1>3, <1>4, <1>5, <1>6

LEMMA ReconcileTypes ==
  ASSUME TypeOK, NEW b \in Rebuilds,
         ScanEnds(b) \/ ReadStale(b) \/ Purge(b) \/ ReturnSummary(b)
  PROVE  TypeOK'
<1> USE DEF store, process, Job
<1>0. /\ b \in Processes
      /\ {"failed", "staling", "purging", "comparing", "returned"} \subseteq Phases
  BY DEF Processes, Phases
<1>1. CASE ScanEnds(b)
  <2>1. pc' \in [Processes -> Phases] /\ at' \in [Processes -> Stores]
    BY <1>0, <1>1, EnterTypes DEF ScanEnds
  <2> QED
    BY <1>1, <2>1 DEF TypeOK, ScanEnds
<1>2. CASE ReadStale(b)
  <2>1. pc' \in [Processes -> Phases] /\ at' \in [Processes -> Stores]
    BY <1>0, <1>2, AdvanceTypes DEF ReadStale
  <2> DEFINE marked == [job[b] EXCEPT !.stale[at[b]] = rows[at[b]] \ job[b].valid]
  <2>2. job \in [Rebuilds -> Job] /\ rows[at[b]] \ job[b].valid \in SUBSET Runs
    BY <1>0 DEF TypeOK
  <2>3. marked \in Job
    BY <2>2
  <2>4. job' = [job EXCEPT ![b] = marked]
    BY <1>2, <2>2 DEF ReadStale
  <2> HIDE DEF marked
  <2>5. job' \in [Rebuilds -> Job]
    BY <2>2, <2>3, <2>4
  <2> QED
    BY <1>2, <2>1, <2>5 DEF TypeOK, ReadStale
<1>3. CASE Purge(b)
  <2>1. pc' \in [Processes -> Phases] /\ at' \in [Processes -> Stores]
    BY <1>0, <1>3, AdvanceTypes DEF Purge
  <2>2. rows[at[b]] \ job[b].stale[at[b]] \in SUBSET Runs
    BY <1>0 DEF TypeOK
  <2>3. rows' \in [Stores -> SUBSET Runs] /\ stamp' \in [Stores -> Stamps \cup {None}]
    BY <1>0, <1>3, <2>2, PutTypes DEF Purge
  <2> QED
    BY <1>3, <2>1, <2>3 DEF TypeOK, Purge
<1>4. CASE ReturnSummary(b)
  <2>1. pc' \in [Processes -> Phases] /\ at' \in [Processes -> Stores]
    BY <1>0, <1>4, EnterTypes DEF ReturnSummary
  <2>2. NewJob \in Job
    BY DEF NewJob
  <2>3. job' \in [Rebuilds -> Job]
    BY <1>4, <2>2 DEF TypeOK, ReturnSummary, Forget
  <2> QED
    BY <1>4, <2>1, <2>3 DEF TypeOK, ReturnSummary
<1> QED
  BY <1>1, <1>2, <1>3, <1>4

LEMMA ProceedTypes ==
  ASSUME TypeOK, NEW next \in {"rows", "after", "concluded"}
  PROVE  Proceed(next) \in Reader
<1>1. reader \in Reader
  BY DEF TypeOK, Reader
<1>2. reader.at < LastStore => reader.at + 1 \in Stores
  BY <1>1, StoresType DEF Reader, Stores
<1> QED
  BY <1>1, <1>2, StoreOrder DEF Proceed, Reader

LEMMA ReaderTypes ==
  ASSUME TypeOK, ReadBefore \/ ReadRows \/ ReadAfter \/ \E r \in Verified : StartRead(r)
  PROVE  TypeOK'
<1>0. SUFFICES reader' \in Reader
  <2>1. UNCHANGED <<evidence, store, lock, process, job, confirmed>>
    BY DEF ReadBefore, ReadRows, ReadAfter, StartRead
  <2> QED
    BY <2>1 DEF TypeOK, Reader, store, process
<1>1. NoRead \in Reader /\ reader \in Reader
  BY StoreOrder DEF NoRead, Reader, TypeOK
<1>2. ASSUME NEW r \in Verified, StartRead(r) PROVE reader' \in Reader
  BY <1>1, <1>2, OverlapType DEF StartRead, Reader
<1>3. CASE ReadBefore
  <2>1. Readable(reader.at) => stamp[reader.at].generation \in Generations
    BY <1>1 DEF Readable, TypeOK, Stamps, Reader
  <2>2. Proceed("rows") \in Reader
    BY ProceedTypes
  <2>3. Readable(reader.at) =>
          [Proceed("rows") EXCEPT !.generation = stamp[reader.at].generation] \in Reader
    BY <2>1, <2>2 DEF Reader
  <2> QED
    BY <1>1, <1>3, <2>3 DEF ReadBefore
<1>4. CASE ReadRows
  <2>1. Proceed("after") \in Reader
    BY ProceedTypes
  <2>2. (reader.run \in rows[reader.at]) \in BOOLEAN
    OBVIOUS
  <2>3. [Proceed("after").seen EXCEPT ![reader.at] = reader.run \in rows[reader.at]]
          \in [Stores -> BOOLEAN]
    BY <2>1, <2>2 DEF Reader
  <2>4. [Proceed("after") EXCEPT !.seen[reader.at] = reader.run \in rows[reader.at]] \in Reader
    BY <2>1, <2>3 DEF Reader
  <2> QED
    BY <1>4, <2>4 DEF ReadRows
<1>5. CASE ReadAfter
  <2>1. Proceed("concluded") \in Reader
    BY ProceedTypes
  <2> QED
    BY <1>1, <1>5, <2>1 DEF ReadAfter
<1> QED
  BY <1>2, <1>3, <1>4, <1>5

LEMMA NextTypes == TypeOK /\ [Next]_vars => TypeOK'
<1> SUFFICES ASSUME TypeOK, [Next]_vars PROVE TypeOK'
  OBVIOUS
<1>1. ASSUME NEW r \in Runs, Produce(r) \/ Remove(r) \/ StartIngest(r) \/ IngestStep(r)
      PROVE TypeOK'
  BY <1>1, IngestTypes, SharedTypes DEF IngestStep, Processes
<1>2. ASSUME NEW b \in Rebuilds,
             RebuildStep(b) \/ \E missing \in BOOLEAN : StartRebuild(b, missing)
      PROVE TypeOK'
  BY <1>2, ScanTypes, ReconcileTypes, SharedTypes DEF RebuildStep, Processes
<1>3. CASE UNCHANGED vars
  BY <1>3 DEF TypeOK, vars, store, process
<1> QED
  BY <1>1, <1>2, <1>3, SharedTypes, ReaderTypes DEF Next

(* Every variable keeps its type, whatever the number of runs, rebuilds,   *)
(* stores and attempts, and whether or not maintenance overlaps: the lock  *)
(* of dl-metric-lock.py names an ingestion or nobody, a store cursor stays *)
(* among the stores and no ingestion exceeds sqlite_retry.attempts.        *)
THEOREM TypeCorrect == Spec => []TypeOK
BY InitTypes, NextTypes, PTL DEF Spec

(***************************************************************************)
(* One complete generation means equal stores.  Who works on the stores    *)
(* works alone, because of the lock and because maintenance does not       *)
(* overlap; so what it compared is still there when it finalizes.          *)
(***************************************************************************)
Holding == {"locked", "writing", "comparing", "finalizing", "leaving"}
Working == Phases \ (Stopped \cup {"waiting"})
Equal == \A s, t \in Stores : rows[s] = rows[t]

Exclusive ==
  /\ \A r \in Runs : pc[r] \in Stopped \cup {"waiting"} \/ (pc[r] \in Holding /\ lock = r)
  /\ \A b \in Rebuilds, p \in Processes : pc[b] \notin Stopped /\ pc[p] \notin Stopped => p = b
Compared ==
  \A p \in Processes : pc[p] = "comparing" =>
    \A s \in Stores : s < at[p] => rows[s] \in seenSets[p]
FinalIsEqual == \A p \in Processes : pc[p] = "finalizing" => Equal
SafeInv == Exclusive /\ Compared /\ FinalIsEqual /\ CompleteMeansEqual

LEMMA WorksAlone ==
  ASSUME Exclusive, NEW p \in Processes, NEW q \in Processes, pc[p] \in Working, pc[q] \in Working
  PROVE  p = q
BY DEF Exclusive, Working, Processes, Phases, Stopped

\* A step of the process that works need only care for itself.
LEMMA StepAlone ==
  ASSUME TypeOK, SafeInv, NEW p \in Processes, pc[p] \in Working, UNCHANGED lock,
         \A q \in Processes \ {p} : pc'[q] = pc[q],
         pc'[p] \in Working \cup Stopped,
         p \in Runs => pc'[p] \in Holding \cup Stopped,
         pc'[p] = "comparing" => \A s \in Stores : s < at'[p] => rows'[s] \in seenSets'[p],
         pc'[p] = "finalizing" => Equal'
  PROVE  Exclusive' /\ Compared' /\ FinalIsEqual'
<1>1. Exclusive'
  BY DEF Exclusive, SafeInv, Working, Holding, Processes, Stopped, Phases
<1>2. \A q \in Processes \ {p} : pc[q] \notin Working
  BY WorksAlone DEF SafeInv
<1>3. \A q \in Processes \ {p} : pc'[q] \notin {"comparing", "finalizing"}
  BY <1>2 DEF Working, Phases, Stopped
<1> QED
  BY <1>1, <1>3 DEF Compared, FinalIsEqual

\* A store that was written is unfinished, so there is no publication.
LEMMA PutUnpublishes ==
  ASSUME TypeOK, NEW p \in Processes, NEW content \in SUBSET Runs, Put(p, content)
  PROVE  CompleteMeansEqual'
<1>1. at[p] \in Stores /\ stamp'[at[p]].state = "in_progress"
  BY DEF TypeOK, Put
<1>2. \A g : [generation |-> g, state |-> "complete"].state # "in_progress"
  OBVIOUS
<1>3. ~Published'
  BY <1>1, <1>2 DEF Published
<1> QED
  BY <1>3 DEF CompleteMeansEqual

LEMMA FinalizePublishes ==
  ASSUME TypeOK, SafeInv, NEW p \in Processes, FinalizeStore(p)
  PROVE  CompleteMeansEqual'
BY DEF SafeInv, FinalizeStore, FinalIsEqual, Equal, CompleteMeansEqual

LEMMA QuietPublishes ==
  ASSUME SafeInv, UNCHANGED <<rows, stamp>>
  PROVE  CompleteMeansEqual'
BY DEF SafeInv, CompleteMeansEqual, Published

LEMMA InitSafe == Init => SafeInv
<1> SUFFICES ASSUME Init PROVE SafeInv
  OBVIOUS
<1>1. \A p \in Processes : pc[p] = "idle"
  BY DEF Init
<1>2. Equal
  BY DEF Init, Equal
<1> QED
  BY <1>1, <1>2 DEF SafeInv, Exclusive, Compared, FinalIsEqual, CompleteMeansEqual, Equal,
                    Stopped, Processes

\* The kernel drops the lock of a process that ends; nobody else held it.
LEMMA AbandonSafe ==
  ASSUME TypeOK, SafeInv, NEW p \in Processes, Abandon(p)
  PROVE  SafeInv'
<1>1. /\ pc'[p] = "failed" /\ \A q \in Processes \ {p} : pc'[q] = pc[q] /\ at'[q] = at[q]
      /\ \A q \in Processes \ {p} : seenSets'[q] = seenSets[q]
      /\ rows' = rows /\ stamp' = stamp /\ lock' = IF lock = p THEN None ELSE lock
  BY DEF Abandon, Enter, TypeOK, store
<1>2. Exclusive'
  BY <1>1 DEF SafeInv, Exclusive, Stopped, Holding, Processes
<1>3. Compared' /\ FinalIsEqual'
  BY <1>1 DEF SafeInv, Compared, FinalIsEqual, Equal
<1> QED
  BY <1>1, <1>2, <1>3, QuietPublishes DEF SafeInv

LEMMA SharedSafe ==
  ASSUME TypeOK, SafeInv, NEW p \in Processes,
         ReadReceipts(p) \/ AcceptReceipts(p) \/ RejectReceipts(p) \/ FinalizeStore(p) \/ Fail(p)
  PROVE  SafeInv'
<1> USE DEF store
<1>0. {"comparing", "finalizing", "leaving"} \subseteq Working \cap Holding
  BY DEF Working, Phases, Stopped, Holding
<1>1. CASE ReadReceipts(p)
  <2>1. \A s \in Stores : s < at'[p] => rows'[s] \in seenSets'[p]
    BY <1>1, StoresType DEF ReadReceipts, SafeInv, Compared, TypeOK, Stores
  <2>2. pc' = pc /\ pc[p] = "comparing" /\ UNCHANGED <<lock, rows, stamp>>
    BY <1>1 DEF ReadReceipts
  <2> QED
    BY <1>0, <2>1, <2>2, StepAlone, QuietPublishes DEF SafeInv
<1>2. CASE AcceptReceipts(p)
  <2>1. \A s \in Stores : s # LastStore => rows[s] \in seenSets[p]
    BY <1>2, StoresType DEF AcceptReceipts, SafeInv, Compared, TypeOK, Stores
  <2>2. Equal
    BY <1>2, <2>1 DEF AcceptReceipts, Differ, Equal
  <2>3. /\ pc[p] = "comparing" /\ pc'[p] = "finalizing" /\ UNCHANGED <<lock, rows, stamp>>
        /\ \A q \in Processes \ {p} : pc'[q] = pc[q]
    BY <1>2 DEF AcceptReceipts, Enter, TypeOK
  <2>4. Equal'
    BY <2>2, <2>3 DEF Equal
  <2> QED
    BY <1>0, <2>3, <2>4, StepAlone, QuietPublishes DEF SafeInv
<1>3. CASE RejectReceipts(p)
  BY <1>3, AbandonSafe DEF RejectReceipts
<1>4. CASE FinalizeStore(p)
  <2>1. /\ pc[p] = "finalizing" /\ pc'[p] \in {"finalizing", "leaving"} /\ UNCHANGED <<lock, rows>>
        /\ \A q \in Processes \ {p} : pc'[q] = pc[q]
    BY <1>4 DEF FinalizeStore, Advance, Enter, TypeOK
  <2>2. Equal'
    BY <2>1 DEF SafeInv, FinalIsEqual, Equal
  <2> QED
    BY <1>0, <1>4, <2>1, <2>2, StepAlone, FinalizePublishes DEF SafeInv
<1>5. CASE Fail(p)
  BY <1>5, AbandonSafe DEF Fail
<1> QED
  BY <1>1, <1>2, <1>3, <1>4, <1>5

\* A step on the stores after which its process goes on from the first one.
LEMMA WriteSafe ==
  ASSUME TypeOK, SafeInv, NEW p \in Processes, NEW phase \in Working, NEW content \in SUBSET Runs,
         pc[p] \in Working \ {"comparing", "finalizing"},
         phase # "finalizing", p \in Runs => phase \in Holding /\ pc[p] \in Holding,
         Put(p, content), Advance(p, phase), UNCHANGED lock
  PROVE  SafeInv'
<1>1. /\ pc'[p] = pc[p] \/ (pc'[p] = phase /\ at'[p] = 1)
      /\ \A q \in Processes \ {p} : pc'[q] = pc[q]
  BY DEF Advance, Enter, TypeOK
<1>2. pc'[p] = "comparing" => \A s \in Stores : s < at'[p] => rows'[s] \in seenSets'[p]
  BY <1>1 DEF Stores
<1>3. Exclusive' /\ Compared' /\ FinalIsEqual'
  BY <1>1, <1>2, StepAlone
<1> QED
  BY <1>3, PutUnpublishes DEF SafeInv

\* A step that goes on, or to another phase, without touching the stores.
LEMMA QuietSafe ==
  ASSUME TypeOK, SafeInv, NEW p \in Processes, pc[p] \in Working,
         UNCHANGED <<rows, stamp, lock>>, pc'[p] \in Working \cup Stopped,
         \A q \in Processes \ {p} : pc'[q] = pc[q],
         p \in Runs => pc'[p] \in Holding \cup Stopped,
         pc'[p] = "comparing" => at'[p] = 1, pc'[p] # "finalizing"
  PROVE  SafeInv'
<1>1. pc'[p] = "comparing" => \A s \in Stores : s < at'[p] => rows'[s] \in seenSets'[p]
  BY DEF Stores
<1>2. Exclusive' /\ Compared' /\ FinalIsEqual'
  BY <1>1, StepAlone
<1> QED
  BY <1>2, QuietPublishes DEF SafeInv

LEMMA IngestSafe ==
  ASSUME TypeOK, SafeInv, ~Overlap, NEW r \in Runs,
         \/ Produce(r) \/ Remove(r) \/ StartIngest(r) \/ AcquireLock(r) \/ BeginWrite(r)
         \/ WriteRun(r) \/ Busy(r) \/ ReturnReceipts(r)
  PROVE  SafeInv'
<1> USE DEF store, process
<1>0. r \in Processes /\ Holding \subseteq Working
  BY DEF Processes, Holding, Working, Phases, Stopped
<1>1. CASE Produce(r) \/ Remove(r)
  BY <1>1 DEF Produce, Remove, SafeInv, Exclusive, Compared, FinalIsEqual, Equal,
              CompleteMeansEqual, Published
<1>2. CASE StartIngest(r)
  <2>1. /\ pc'[r] = "waiting" /\ \A q \in Processes \ {r} : pc'[q] = pc[q] /\ at'[q] = at[q]
        /\ UNCHANGED <<rows, stamp, lock, seenSets>>
        /\ \A b \in Rebuilds : pc[b] \in Stopped
    BY <1>0, <1>2 DEF StartIngest, Enter, TypeOK, Running
  <2>2. Exclusive'
    BY <2>1, ProcessesDiffer DEF SafeInv, Exclusive, Processes, Stopped
  <2>3. Compared' /\ FinalIsEqual'
    BY <2>1 DEF SafeInv, Compared, FinalIsEqual, Equal
  <2> QED
    BY <2>1, <2>2, <2>3, QuietPublishes DEF SafeInv
<1>3. CASE AcquireLock(r)
  <2>1. /\ pc[r] = "waiting" /\ pc'[r] = "locked" /\ lock = None /\ lock' = r
        /\ \A q \in Processes \ {r} : pc'[q] = pc[q] /\ at'[q] = at[q]
        /\ UNCHANGED <<rows, stamp, seenSets>>
    BY <1>0, <1>3 DEF AcquireLock, Enter, TypeOK
  <2>2. \A q \in Runs : pc[q] \notin Holding
    BY <2>1, NoneIsNobody DEF SafeInv, Exclusive, Holding, Stopped
  <2>3. Exclusive'
    BY <2>1, <2>2, ProcessesDiffer DEF SafeInv, Exclusive, Processes, Stopped, Holding
  <2>4. Compared' /\ FinalIsEqual'
    BY <2>1 DEF SafeInv, Compared, FinalIsEqual, Equal
  <2> QED
    BY <2>1, <2>3, <2>4, QuietPublishes DEF SafeInv
<1>4. CASE BeginWrite(r) \/ Busy(r)
  <2>1. /\ pc[r] \in Holding /\ pc'[r] \in {"locked", "writing"}
        /\ \A q \in Processes \ {r} : pc'[q] = pc[q]
        /\ UNCHANGED <<rows, stamp, lock>>
    BY <1>0, <1>4 DEF BeginWrite, Busy, Enter, TypeOK, Holding
  <2>2. {"locked", "writing"} \subseteq Holding
    BY DEF Holding
  <2> QED
    BY <1>0, <2>1, <2>2, QuietSafe
<1>5. CASE WriteRun(r)
  <2>1. /\ pc[r] = "writing" /\ UNCHANGED lock /\ Put(r, rows[at[r]] \cup {r})
        /\ Advance(r, "comparing")
    BY <1>5 DEF WriteRun
  <2>2. rows[at[r]] \cup {r} \in SUBSET Runs
    BY <1>0 DEF TypeOK
  <2>3. {"writing", "comparing"} \subseteq Holding
    BY DEF Holding
  <2> QED
    BY <1>0, <2>1, <2>2, <2>3, WriteSafe
<1>6. CASE ReturnReceipts(r)
  <2>1. /\ pc[r] = "leaving" /\ pc'[r] = "returned"
        /\ \A q \in Processes \ {r} : pc'[q] = pc[q] /\ at'[q] = at[q]
        /\ UNCHANGED <<rows, stamp, seenSets>> /\ lock' = None
    BY <1>0, <1>6 DEF ReturnReceipts, Enter, TypeOK
  <2>2. \A q \in Runs \ {r} : pc[q] \notin Holding
    BY <2>1 DEF SafeInv, Exclusive, Holding, Stopped
  <2>3. Exclusive'
    BY <2>1, <2>2 DEF SafeInv, Exclusive, Processes, Stopped, Holding
  <2>4. Compared' /\ FinalIsEqual'
    BY <2>1 DEF SafeInv, Compared, FinalIsEqual, Equal
  <2> QED
    BY <2>1, <2>3, <2>4, QuietPublishes DEF SafeInv
<1> QED
  BY <1>1, <1>2, <1>3, <1>4, <1>5, <1>6

LEMMA RebuildSafe ==
  ASSUME TypeOK, SafeInv, ~Overlap, NEW b \in Rebuilds,
         \/ \E missing \in BOOLEAN : StartRebuild(b, missing)
         \/ InitializeStore(b) \/ ReadKeys(b) \/ FlushBatch(b) \/ WriteBatch(b)
         \/ \E r \in Runs : ScanRun(b, r)
         \/ ScanEnds(b) \/ ReadStale(b) \/ Purge(b) \/ ReturnSummary(b)
  PROVE  SafeInv'
<1> USE DEF store, process
<1>0. /\ b \in Processes /\ b \notin Runs
      /\ {"initializing", "keys", "scanning", "writing", "staling", "purging", "comparing", "leaving"}
           \subseteq Working
  BY ProcessesDiffer DEF Processes, Working, Phases, Stopped
<1>1. ASSUME NEW missing \in BOOLEAN, StartRebuild(b, missing) PROVE SafeInv'
  <2>1. /\ pc'[b] \in {"scanning", "keys", "initializing"}
        /\ \A q \in Processes \ {b} : pc'[q] = pc[q] /\ at'[q] = at[q]
        /\ UNCHANGED <<rows, stamp, lock, seenSets>>
        /\ \A p \in Processes : pc[p] \in Stopped
    <3>1. pc \in [Processes -> Phases] /\ at \in [Processes -> Stores]
      BY DEF TypeOK
    <3>2. /\ \E phase \in {"scanning", "keys", "initializing"} : Enter(b, phase)
          /\ UNCHANGED <<rows, stamp, lock, seenSets>>
      BY <1>1 DEF StartRebuild
    <3>3. \A p \in Processes : pc[p] \in Stopped
      BY <1>1 DEF StartRebuild, Running
    <3> QED
      BY <1>0, <3>1, <3>2, <3>3 DEF Enter
  <2>2. Exclusive'
    BY <1>0, <2>1 DEF Exclusive, Processes
  <2>3. Compared' /\ FinalIsEqual'
    BY <2>1 DEF SafeInv, Compared, FinalIsEqual, Equal
  <2> QED
    BY <2>1, <2>2, <2>3, QuietPublishes DEF SafeInv
<1>2. CASE InitializeStore(b)
  <2>1. pc[b] = "initializing" /\ UNCHANGED lock /\ Put(b, rows[at[b]]) /\ Advance(b, "keys")
    BY <1>2 DEF InitializeStore
  <2>2. rows[at[b]] \in SUBSET Runs
    BY <1>0 DEF TypeOK
  <2> QED
    BY <1>0, <2>1, <2>2, WriteSafe
<1>3. CASE WriteBatch(b)
  <2>1. /\ pc[b] = "writing" /\ UNCHANGED lock /\ Put(b, rows[at[b]] \cup job[b].batch)
        /\ Advance(b, "scanning")
    BY <1>3 DEF WriteBatch
  <2>2. rows[at[b]] \cup job[b].batch \in SUBSET Runs
    BY <1>0 DEF TypeOK
  <2> QED
    BY <1>0, <2>1, <2>2, WriteSafe
<1>4. CASE Purge(b)
  <2>1. /\ pc[b] = "purging" /\ UNCHANGED lock /\ Put(b, rows[at[b]] \ job[b].stale[at[b]])
        /\ Advance(b, "comparing")
    BY <1>4 DEF Purge
  <2>2. rows[at[b]] \ job[b].stale[at[b]] \in SUBSET Runs
    BY <1>0 DEF TypeOK
  <2> QED
    BY <1>0, <2>1, <2>2, WriteSafe
<1>5. CASE ReadKeys(b) \/ FlushBatch(b) \/ ScanEnds(b) \/ ReadStale(b) \/ ReturnSummary(b)
  <2>1. /\ pc[b] \in {"keys", "scanning", "staling", "leaving"}
        /\ pc'[b] \in {"keys", "scanning", "writing", "failed", "comparing", "staling", "purging",
                        "returned"}
        /\ pc'[b] = "comparing" => at'[b] = 1
        /\ \A q \in Processes \ {b} : pc'[q] = pc[q]
        /\ UNCHANGED <<rows, stamp, lock>>
    BY <1>0, <1>5 DEF ReadKeys, FlushBatch, ScanEnds, ReadStale, ReturnSummary, Enter, Advance, TypeOK
  <2>2. {"failed", "returned"} \subseteq Stopped
    BY DEF Stopped
  <2> QED
    BY <1>0, <2>1, <2>2, QuietSafe
<1>6. ASSUME NEW r \in Runs, ScanRun(b, r) PROVE SafeInv'
  <2>1. pc[b] = "scanning" /\ UNCHANGED <<rows, stamp, lock, pc>>
    BY <1>6 DEF ScanRun
  <2> QED
    BY <1>0, <2>1, QuietSafe
<1> QED
  BY <1>1, <1>2, <1>3, <1>4, <1>5, <1>6

LEMMA NextSafe ==
  ASSUME ~Overlap
  PROVE  TypeOK /\ SafeInv /\ [Next]_vars => SafeInv'
<1> SUFFICES ASSUME TypeOK, SafeInv, [Next]_vars PROVE SafeInv'
  OBVIOUS
<1>1. ASSUME NEW r \in Runs, Produce(r) \/ Remove(r) \/ StartIngest(r) \/ IngestStep(r)
      PROVE SafeInv'
  BY <1>1, IngestSafe, SharedSafe DEF IngestStep, Processes
<1>2. ASSUME NEW b \in Rebuilds,
             RebuildStep(b) \/ \E missing \in BOOLEAN : StartRebuild(b, missing)
      PROVE SafeInv'
  BY <1>2, RebuildSafe, SharedSafe DEF RebuildStep, Processes
<1>3. ASSUME UNCHANGED <<rows, stamp, lock, pc, at, seenSets>> PROVE SafeInv'
  BY <1>3 DEF SafeInv, Exclusive, Compared, FinalIsEqual, Equal, CompleteMeansEqual, Published
<1>4. CASE ReadBefore \/ ReadRows \/ ReadAfter \/ \E r \in Verified : StartRead(r)
  BY <1>3, <1>4 DEF ReadBefore, ReadRows, ReadAfter, StartRead, store, process
<1>5. CASE UNCHANGED vars
  BY <1>3, <1>5 DEF vars, store, process
<1>6. ASSUME NEW p \in Processes, Fail(p) PROVE SafeInv'
  BY <1>6, SharedSafe
<1> QED
  BY <1>1, <1>2, <1>4, <1>5, <1>6 DEF Next

(* Whatever fails, crashes or retries, stores that carry one complete      *)
(* generation hold the same runs, for every number of stores, runs,        *)
(* rebuilds and attempts, as long as maintenance does not overlap          *)
(* (_assert_equal_dl_receipts before _finalize_dl_generation, ingest.py).  *)
THEOREM CompleteIsEqual ==
  ASSUME ~Overlap
  PROVE  Spec => []CompleteMeansEqual
<1>1. TypeOK /\ SafeInv /\ [Next]_vars => SafeInv'
  BY NextSafe
<1>2. SafeInv => CompleteMeansEqual
  BY DEF SafeInv
<1> QED
  BY InitTypes, NextTypes, InitSafe, <1>1, <1>2, PTL DEF Spec

-----------------------------------------------------------------------------
(***************************************************************************)
(* What the DL metric stores keep, and what verification reads of them,    *)
(* for any runs, stores and attempts, while maintenance does not overlap.  *)
(***************************************************************************)

-----------------------------------------------------------------------------
(***************************************************************************)
(* A confirmed run stays.  Only a purge removes rows, and it removes what  *)
(* the scan did not find valid; no ingestion confirms a run during a scan, *)
(* so every run confirmed by then is still to be scanned or found valid.   *)
(***************************************************************************)
\* A run is not forgotten by the volume before its ingestion has ended, and never comes back.
EvidenceStays ==
  /\ \A r \in Runs : pc[r] \notin Stopped => evidence[r] = "passing"
  /\ \A r \in confirmed : evidence[r] \in {"passing", "removed"}

\* An ingestion that has passed a store has its run there.
IngestedBy(r) ==
  /\ pc[r] = "writing" => \A s \in Stores : s < at[r] => r \in rows[s]
  /\ pc[r] \in {"comparing", "finalizing", "leaving"} => \A s \in Stores : r \in rows[s]

Scanning == {"scanning", "writing", "staling", "purging"}

ScanFinds(b) ==
  /\ pc[b] \in Scanning =>
       \A r \in confirmed : evidence[r] = "passing" => r \in job[b].todo \cup job[b].valid
  /\ pc[b] \in {"staling", "purging"} => job[b].todo = {}

\* What will be removed was not found valid.
StaleIsInvalid(b) ==
  /\ pc[b] \in {"initializing", "keys", "scanning", "writing"} =>
       \A s \in Stores : job[b].stale[s] = {}
  /\ pc[b] \in {"staling", "purging"} => \A s \in Stores : job[b].stale[s] \cap job[b].valid = {}

KeepInv ==
  /\ EvidenceStays /\ ConfirmedIsStored
  /\ \A r \in Runs : IngestedBy(r)
  /\ \A b \in Rebuilds : ScanFinds(b) /\ StaleIsInvalid(b)

LEMMA InitKeeps == Init => KeepInv
<1> SUFFICES ASSUME Init PROVE KeepInv
  OBVIOUS
<1>1. confirmed = {} /\ \A p \in Processes : pc[p] = "idle"
  BY DEF Init
<1> QED
  BY <1>1 DEF KeepInv, EvidenceStays, ConfirmedIsStored, IngestedBy, ScanFinds, StaleIsInvalid,
              Scanning, Stopped, Processes

\* A step of one process that removes no rows need only care for itself.
LEMMA StepKeeps ==
  ASSUME KeepInv, NEW p \in Processes, UNCHANGED <<evidence, confirmed>>,
         \A q \in Processes \ {p} : pc'[q] = pc[q] /\ at'[q] = at[q],
         \A b \in Rebuilds \ {p} : job'[b] = job[b],
         \A s \in Stores : rows[s] \subseteq rows'[s],
         p \in Runs => IngestedBy(p)' /\ (pc'[p] \notin Stopped => evidence[p] = "passing"),
         p \in Rebuilds => ScanFinds(p)' /\ StaleIsInvalid(p)'
  PROVE  KeepInv'
<1>1. EvidenceStays' /\ ConfirmedIsStored'
  BY DEF KeepInv, EvidenceStays, ConfirmedIsStored, Processes
<1>2. ASSUME NEW r \in Runs PROVE IngestedBy(r)'
  BY DEF KeepInv, IngestedBy, Processes
<1>3. ASSUME NEW b \in Rebuilds PROVE ScanFinds(b)' /\ StaleIsInvalid(b)'
  BY DEF KeepInv, ScanFinds, StaleIsInvalid, Processes
<1> QED
  BY <1>1, <1>2, <1>3 DEF KeepInv

\* A process that ends or fails claims nothing.
LEMMA StoppedKeeps ==
  ASSUME KeepInv, NEW p \in Processes, pc'[p] \in Stopped, UNCHANGED <<evidence, confirmed, rows>>,
         \A q \in Processes \ {p} : pc'[q] = pc[q] /\ at'[q] = at[q],
         \A b \in Rebuilds \ {p} : job'[b] = job[b]
  PROVE  KeepInv'
<1>1. p \in Runs => IngestedBy(p)'
  BY DEF IngestedBy, Stopped
<1>2. p \in Rebuilds => ScanFinds(p)' /\ StaleIsInvalid(p)'
  BY DEF ScanFinds, StaleIsInvalid, Stopped, Scanning
<1> QED
  BY <1>1, <1>2, StepKeeps

LEMMA AbandonKeeps ==
  ASSUME TypeOK, KeepInv, NEW p \in Processes, Abandon(p)
  PROVE  KeepInv'
<1>1. /\ pc'[p] \in Stopped /\ UNCHANGED <<evidence, confirmed, rows>>
      /\ \A q \in Processes \ {p} : pc'[q] = pc[q] /\ at'[q] = at[q]
      /\ \A b \in Rebuilds \ {p} : job'[b] = job[b]
  BY DEF Abandon, Enter, Forget, Stopped, store, TypeOK
<1> QED
  BY <1>1, StoppedKeeps

LEMMA SharedKeeps ==
  ASSUME TypeOK, KeepInv, NEW p \in Processes,
         ReadReceipts(p) \/ AcceptReceipts(p) \/ RejectReceipts(p) \/ FinalizeStore(p) \/ Fail(p)
  PROVE  KeepInv'
<1> USE DEF store
<1>1. CASE RejectReceipts(p) \/ Fail(p)
  BY <1>1, AbandonKeeps DEF RejectReceipts, Fail
<1>2. CASE ReadReceipts(p) \/ AcceptReceipts(p) \/ FinalizeStore(p)
  <2>1. /\ pc[p] \in {"comparing", "finalizing"} /\ pc'[p] \in {"comparing", "finalizing", "leaving"}
        /\ UNCHANGED <<evidence, confirmed, rows, job>>
        /\ \A q \in Processes \ {p} : pc'[q] = pc[q] /\ at'[q] = at[q]
    BY <1>2 DEF ReadReceipts, AcceptReceipts, FinalizeStore, Enter, Advance, TypeOK
  <2>2. p \in Runs => IngestedBy(p)' /\ (pc'[p] \notin Stopped => evidence[p] = "passing")
    BY <2>1 DEF KeepInv, IngestedBy, EvidenceStays, Stopped
  <2>3. p \in Rebuilds => ScanFinds(p)' /\ StaleIsInvalid(p)'
    BY <2>1 DEF ScanFinds, StaleIsInvalid, Scanning
  <2> QED
    BY <2>1, <2>2, <2>3, StepKeeps
<1> QED
  BY <1>1, <1>2

LEMMA EvidenceKeeps ==
  ASSUME TypeOK, KeepInv, NEW r \in Runs, Produce(r) \/ Remove(r)
  PROVE  KeepInv'
<1>1. /\ UNCHANGED <<rows, pc, at, job, confirmed>>
      /\ \A q \in Runs : evidence'[q] = "passing" /\ q # r => evidence[q] = "passing"
      /\ \A q \in Runs \ {r} : evidence'[q] = evidence[q]
      /\ \/ evidence[r] = "none" /\ evidence'[r] = "partial"
         \/ evidence[r] = "partial" /\ evidence'[r] = "passing"
         \/ evidence[r] = "passing" /\ evidence'[r] = "removed" /\ pc[r] \in Stopped
  BY DEF Produce, Remove, store, process, TypeOK, Stopped
<1>2. EvidenceStays' /\ ConfirmedIsStored'
  BY <1>1 DEF KeepInv, EvidenceStays, ConfirmedIsStored, TypeOK
<1>3. \A q \in confirmed : evidence'[q] = "passing" => evidence[q] = "passing"
  BY <1>1 DEF KeepInv, EvidenceStays, TypeOK
<1> QED
  BY <1>1, <1>2, <1>3 DEF KeepInv, IngestedBy, ScanFinds, StaleIsInvalid

LEMMA IngestKeeps ==
  ASSUME TypeOK, KeepInv, SafeInv, NEW r \in Runs,
         \/ StartIngest(r) \/ AcquireLock(r) \/ BeginWrite(r) \/ WriteRun(r) \/ Busy(r)
         \/ ReturnReceipts(r)
  PROVE  KeepInv'
<1> USE DEF store
<1>0. r \in Processes /\ r \notin Rebuilds
  BY ProcessesDiffer DEF Processes
<1>1. pc[r] \notin Stopped => evidence[r] = "passing"
  BY DEF KeepInv, EvidenceStays
<1>2. CASE StartIngest(r) \/ AcquireLock(r) \/ BeginWrite(r) \/ Busy(r)
  <2>1. /\ pc'[r] \in {"waiting", "locked", "writing"} /\ at'[r] = 1
        /\ UNCHANGED <<evidence, confirmed, rows, job>> /\ evidence[r] = "passing"
        /\ \A q \in Processes \ {r} : pc'[q] = pc[q] /\ at'[q] = at[q]
    BY <1>0, <1>1, <1>2
       DEF StartIngest, AcquireLock, BeginWrite, Busy, Enter, TypeOK, Stopped
  <2>2. IngestedBy(r)'
    BY <2>1 DEF IngestedBy, Stores
  <2> QED
    BY <1>0, <2>1, <2>2, StepKeeps
<1>3. CASE WriteRun(r)
  <2>1. /\ pc[r] = "writing" /\ UNCHANGED <<evidence, confirmed, job>>
        /\ \A q \in Processes \ {r} : pc'[q] = pc[q] /\ at'[q] = at[q]
        /\ rows' = [rows EXCEPT ![at[r]] = rows[at[r]] \cup {r}] /\ at[r] \in Stores
        /\ Advance(r, "comparing")
    BY <1>0, <1>3 DEF WriteRun, Put, Advance, Enter, TypeOK
  <2>2. /\ r \in rows'[at[r]] /\ \A s \in Stores : rows[s] \subseteq rows'[s]
    BY <2>1 DEF TypeOK
  <2>3. \A s \in Stores : s < at[r] => r \in rows[s]
    BY <2>1 DEF KeepInv, IngestedBy
  <2>4. CASE at[r] < LastStore
    <3>1. pc'[r] = "writing" /\ at'[r] = at[r] + 1
      BY <1>0, <2>1, <2>4 DEF Advance, TypeOK
    <3>2. \A s \in Stores : s < at'[r] => s < at[r] \/ s = at[r]
      BY <2>1, <3>1, StoresType DEF Stores
    <3>3. IngestedBy(r)'
      BY <2>2, <2>3, <3>1, <3>2 DEF IngestedBy
    <3> QED
      BY <1>0, <1>1, <2>1, <2>2, <3>3, StepKeeps DEF Stopped
  <2>5. CASE ~(at[r] < LastStore)
    <3>1. pc'[r] = "comparing"
      BY <1>0, <2>1, <2>5 DEF Advance, Enter, TypeOK
    <3>2. \A s \in Stores : s < at[r] \/ s = at[r]
      BY <2>1, <2>5, StoresType DEF Stores
    <3>3. IngestedBy(r)'
      BY <2>2, <2>3, <3>1, <3>2 DEF IngestedBy
    <3> QED
      BY <1>0, <1>1, <2>1, <2>2, <3>3, StepKeeps DEF Stopped
  <2> QED
    BY <2>4, <2>5
<1>4. CASE ReturnReceipts(r)
  <2>1. /\ pc[r] = "leaving" /\ pc'[r] = "returned" /\ confirmed' = confirmed \cup {r}
        /\ UNCHANGED <<evidence, rows, job>>
        /\ \A q \in Processes \ {r} : pc'[q] = pc[q] /\ at'[q] = at[q]
    BY <1>0, <1>4 DEF ReturnReceipts, Enter, TypeOK
  <2>2. (\A s \in Stores : r \in rows[s]) /\ evidence[r] = "passing"
    BY <1>1, <2>1 DEF KeepInv, IngestedBy, Stopped
  <2>3. EvidenceStays' /\ ConfirmedIsStored'
    BY <2>1, <2>2 DEF KeepInv, EvidenceStays, ConfirmedIsStored, Processes, Stopped
  <2>4. ASSUME NEW b \in Rebuilds PROVE pc[b] \notin Scanning
    BY <1>0, <2>1, WorksAlone DEF SafeInv, Working, Phases, Stopped, Scanning, Processes
  <2>5. \A b \in Rebuilds : ScanFinds(b)' /\ StaleIsInvalid(b)'
    BY <1>0, <2>1, <2>4 DEF KeepInv, ScanFinds, StaleIsInvalid, Processes, Scanning
  <2>6. \A q \in Runs : IngestedBy(q)'
    BY <2>1 DEF KeepInv, IngestedBy, Processes
  <2> QED
    BY <2>3, <2>5, <2>6 DEF KeepInv
<1> QED
  BY <1>2, <1>3, <1>4

\* The steps of a rebuild that remove nothing.
LEMMA ScanKeeps ==
  ASSUME TypeOK, KeepInv, NEW b \in Rebuilds,
         \/ \E missing \in BOOLEAN : StartRebuild(b, missing)
         \/ InitializeStore(b) \/ ReadKeys(b) \/ FlushBatch(b) \/ WriteBatch(b)
         \/ \E r \in Runs : ScanRun(b, r)
         \/ ScanEnds(b) \/ ReadStale(b) \/ ReturnSummary(b)
  PROVE  KeepInv'
<1> USE DEF store, process
<1>0. b \in Processes /\ b \notin Runs /\ job[b] \in Job /\ job \in [Rebuilds -> Job]
  BY ProcessesDiffer DEF Processes, TypeOK, Job
<1> DEFINE present == {r \in Runs : evidence[r] \in {"partial", "passing"}}
<1>1. ScanFinds(b) /\ StaleIsInvalid(b)
  BY DEF KeepInv
<1>2. confirmed \subseteq Runs
  BY DEF TypeOK
<1>3. ASSUME NEW missing \in BOOLEAN, StartRebuild(b, missing) PROVE KeepInv'
  <2>1. /\ pc'[b] \in {"scanning", "keys", "initializing"} /\ UNCHANGED <<evidence, confirmed, rows>>
        /\ \A q \in Processes \ {b} : pc'[q] = pc[q] /\ at'[q] = at[q]
        /\ \A c \in Rebuilds \ {b} : job'[c] = job[c]
        /\ job'[b].todo = present /\ \A s \in Stores : job'[b].stale[s] = {}
    <3>1. pc \in [Processes -> Phases] /\ at \in [Processes -> Stores]
      BY DEF TypeOK
    <3>2. /\ \E phase \in {"scanning", "keys", "initializing"} : Enter(b, phase)
          /\ UNCHANGED <<evidence, confirmed, rows>>
      BY <1>3 DEF StartRebuild
    <3>3. job' = [job EXCEPT ![b] = [NewJob EXCEPT
                   !.missing = missing, !.existed = (Existing = Stores),
                   !.complete = IF missing THEN Runs ELSE {}, !.todo = present]]
      BY <1>3 DEF StartRebuild
    <3>4. job'[b].todo = present /\ \A s \in Stores : job'[b].stale[s] = {}
      BY <1>0, <3>3 DEF NewJob
    <3>5. \A c \in Rebuilds \ {b} : job'[c] = job[c]
      BY <1>0, <3>3
    <3> QED
      BY <1>0, <3>1, <3>2, <3>4, <3>5 DEF Enter
  <2>2. ScanFinds(b)' /\ StaleIsInvalid(b)'
    BY <1>2, <2>1 DEF ScanFinds, StaleIsInvalid
  <2> QED
    BY <1>0, <2>1, <2>2, StepKeeps
<1>4. CASE InitializeStore(b)
  <2>1. /\ pc[b] = "initializing" /\ pc'[b] \in {"initializing", "keys"}
        /\ UNCHANGED <<evidence, confirmed, job>>
        /\ \A q \in Processes \ {b} : pc'[q] = pc[q] /\ at'[q] = at[q]
        /\ \A s \in Stores : rows[s] \subseteq rows'[s]
    BY <1>0, <1>4 DEF InitializeStore, Put, Advance, Enter, TypeOK
  <2>2. ScanFinds(b)' /\ StaleIsInvalid(b)'
    BY <1>1, <2>1 DEF ScanFinds, StaleIsInvalid, Scanning
  <2> QED
    BY <1>0, <2>1, <2>2, StepKeeps
<1>5. CASE ReadKeys(b)
  <2> DEFINE keyed == [job[b] EXCEPT !.complete = @ \cap rows[at[b]], !.todo = present]
  <2>1. /\ pc[b] = "keys" /\ pc'[b] \in {"keys", "scanning"}
        /\ UNCHANGED <<evidence, confirmed, rows>>
        /\ \A q \in Processes \ {b} : pc'[q] = pc[q] /\ at'[q] = at[q]
    BY <1>0, <1>5 DEF ReadKeys, Advance, Enter, TypeOK
  <2>key. job' = [job EXCEPT ![b] = keyed]
    BY <1>0, <1>5 DEF ReadKeys, Job
  <2>2. /\ job'[b].todo = present /\ job'[b].stale = job[b].stale
        /\ \A c \in Rebuilds \ {b} : job'[c] = job[c]
    BY <1>0, <2>key DEF Job
  <2>3. ScanFinds(b)' /\ StaleIsInvalid(b)'
    BY <1>1, <1>2, <2>1, <2>2 DEF ScanFinds, StaleIsInvalid
  <2> QED
    BY <1>0, <2>1, <2>2, <2>3, StepKeeps
<1>6. CASE FlushBatch(b)
  <2>1. /\ pc[b] = "scanning" /\ pc'[b] = "writing" /\ UNCHANGED <<evidence, confirmed, rows, job>>
        /\ \A q \in Processes \ {b} : pc'[q] = pc[q] /\ at'[q] = at[q]
    BY <1>0, <1>6 DEF FlushBatch, Enter, TypeOK
  <2>2. ScanFinds(b)' /\ StaleIsInvalid(b)'
    BY <1>1, <2>1 DEF ScanFinds, StaleIsInvalid, Scanning
  <2> QED
    BY <1>0, <2>1, <2>2, StepKeeps
<1>7. CASE WriteBatch(b)
  <2>1. /\ pc[b] = "writing" /\ pc'[b] \in {"writing", "scanning"}
        /\ UNCHANGED <<evidence, confirmed>>
        /\ \A q \in Processes \ {b} : pc'[q] = pc[q] /\ at'[q] = at[q]
        /\ \A s \in Stores : rows[s] \subseteq rows'[s]
    BY <1>0, <1>7 DEF WriteBatch, Put, Advance, Enter, TypeOK
  <2>2. job' = job \/ job' = [job EXCEPT ![b] = [job[b] EXCEPT !.batch = {}]]
    BY <1>0, <1>7 DEF WriteBatch
  <2>3. /\ job'[b].todo = job[b].todo /\ job'[b].valid = job[b].valid
        /\ job'[b].stale = job[b].stale /\ \A c \in Rebuilds \ {b} : job'[c] = job[c]
    BY <1>0, <2>2 DEF Job
  <2>4. ScanFinds(b)' /\ StaleIsInvalid(b)'
    BY <1>1, <2>1, <2>3 DEF ScanFinds, StaleIsInvalid, Scanning
  <2> QED
    BY <1>0, <2>1, <2>3, <2>4, StepKeeps
<1>8. ASSUME NEW r \in Runs, ScanRun(b, r) PROVE KeepInv'
  <2> DEFINE passing == IF evidence[r] = "passing" THEN {r} ELSE {}
             scanned == [job[b] EXCEPT !.todo = @ \ {r}, !.valid = @ \cup passing,
                                       !.batch = @ \cup (passing \ job[b].complete)]
  <2>1. /\ pc[b] = "scanning" /\ UNCHANGED <<evidence, confirmed, rows, pc, at>>
        /\ job' = [job EXCEPT ![b] = scanned]
    BY <1>0, <1>8 DEF ScanRun
  <2>2. /\ job'[b].todo = job[b].todo \ {r} /\ job'[b].valid = job[b].valid \cup passing
        /\ job'[b].stale = job[b].stale
    BY <1>0, <2>1 DEF Job
  <2>3. ScanFinds(b)' /\ StaleIsInvalid(b)'
    BY <1>1, <2>1, <2>2 DEF ScanFinds, StaleIsInvalid, Scanning
  <2>4. \A c \in Rebuilds \ {b} : job'[c] = job[c]
    BY <1>0, <2>1
  <2> QED
    BY <1>0, <2>1, <2>3, <2>4, StepKeeps
<1>9. CASE ScanEnds(b)
  <2>1. /\ pc[b] = "scanning" /\ job[b].todo = {} /\ pc'[b] \in {"failed", "comparing", "staling"}
        /\ UNCHANGED <<evidence, confirmed, rows, job>>
        /\ \A q \in Processes \ {b} : pc'[q] = pc[q] /\ at'[q] = at[q]
    BY <1>0, <1>9 DEF ScanEnds, Enter, TypeOK
  <2>2. ScanFinds(b)' /\ StaleIsInvalid(b)'
    BY <1>1, <2>1 DEF ScanFinds, StaleIsInvalid, Scanning
  <2> QED
    BY <1>0, <2>1, <2>2, StepKeeps
<1>10. CASE ReadStale(b)
  <2> DEFINE marked == [job[b] EXCEPT !.stale[at[b]] = rows[at[b]] \ job[b].valid]
  <2>1. /\ pc[b] = "staling" /\ pc'[b] \in {"staling", "purging"}
        /\ UNCHANGED <<evidence, confirmed, rows>> /\ at[b] \in Stores
        /\ \A q \in Processes \ {b} : pc'[q] = pc[q] /\ at'[q] = at[q]
        /\ job' = [job EXCEPT ![b] = marked]
    BY <1>0, <1>10 DEF ReadStale, Advance, Enter, TypeOK
  <2>2. /\ job'[b].todo = job[b].todo /\ job'[b].valid = job[b].valid
        /\ job'[b].stale[at[b]] = rows[at[b]] \ job[b].valid
        /\ \A s \in Stores \ {at[b]} : job'[b].stale[s] = job[b].stale[s]
    BY <1>0, <2>1 DEF Job
  <2>3. ScanFinds(b)' /\ StaleIsInvalid(b)'
    BY <1>1, <2>1, <2>2 DEF ScanFinds, StaleIsInvalid, Scanning
  <2>4. \A c \in Rebuilds \ {b} : job'[c] = job[c]
    BY <1>0, <2>1
  <2> QED
    BY <1>0, <2>1, <2>3, <2>4, StepKeeps
<1>11. CASE ReturnSummary(b)
  <2>1. /\ pc'[b] \in Stopped /\ UNCHANGED <<evidence, confirmed, rows>>
        /\ \A q \in Processes \ {b} : pc'[q] = pc[q] /\ at'[q] = at[q]
        /\ \A c \in Rebuilds \ {b} : job'[c] = job[c]
    BY <1>0, <1>11 DEF ReturnSummary, Enter, Forget, TypeOK, Stopped
  <2> QED
    BY <1>0, <2>1, StoppedKeeps
<1> QED
  BY <1>3, <1>4, <1>5, <1>6, <1>7, <1>8, <1>9, <1>10, <1>11

\* A purge works alone, and removes no run that was confirmed.
LEMMA PurgeKeeps ==
  ASSUME TypeOK, KeepInv, SafeInv, NEW b \in Rebuilds, Purge(b)
  PROVE  KeepInv'
<1>0. b \in Processes /\ b \notin Runs
  BY ProcessesDiffer DEF Processes
<1>1. /\ pc[b] = "purging" /\ pc'[b] \in {"purging", "comparing"}
      /\ UNCHANGED <<evidence, confirmed, job>> /\ at[b] \in Stores
      /\ \A q \in Processes \ {b} : pc'[q] = pc[q] /\ at'[q] = at[q]
      /\ rows' = [rows EXCEPT ![at[b]] = rows[at[b]] \ job[b].stale[at[b]]]
  BY <1>0 DEF Purge, Put, Advance, Enter, TypeOK
<1>2. \A r \in confirmed : evidence[r] = "passing" => r \in job[b].valid
  BY <1>1 DEF KeepInv, ScanFinds, Scanning
<1>3. \A r \in confirmed : evidence[r] = "passing" => r \notin job[b].stale[at[b]]
  BY <1>1, <1>2 DEF KeepInv, StaleIsInvalid
<1>4. EvidenceStays' /\ ConfirmedIsStored'
  <2>1. EvidenceStays'
    BY <1>0, <1>1 DEF KeepInv, EvidenceStays, Processes
  <2>2. rows \in [Stores -> SUBSET Runs]
    BY DEF TypeOK
  <2>3. \A r \in confirmed, s \in Stores : evidence[r] = "passing" => r \in rows[s]
    BY DEF KeepInv, ConfirmedIsStored
  <2>4. \A r \in confirmed, s \in Stores : evidence[r] = "passing" => r \in rows'[s]
    BY <1>1, <1>3, <2>2, <2>3
  <2> QED
    BY <1>1, <2>1, <2>4 DEF ConfirmedIsStored
<1>5. \A r \in Runs : pc[r] \notin {"writing", "comparing", "finalizing", "leaving"}
  BY <1>0, <1>1, WorksAlone DEF SafeInv, Working, Phases, Stopped, Processes
<1>6. \A r \in Runs : IngestedBy(r)'
  BY <1>0, <1>1, <1>5 DEF IngestedBy, Processes
<1>7. \A c \in Rebuilds : ScanFinds(c)' /\ StaleIsInvalid(c)'
  BY <1>1 DEF KeepInv, ScanFinds, StaleIsInvalid, Scanning, Processes
<1> QED
  BY <1>4, <1>6, <1>7 DEF KeepInv

LEMMA NextKeeps == TypeOK /\ SafeInv /\ KeepInv /\ [Next]_vars => KeepInv'
<1> SUFFICES ASSUME TypeOK, SafeInv, KeepInv, [Next]_vars PROVE KeepInv'
  OBVIOUS
<1>1. ASSUME NEW r \in Runs, Produce(r) \/ Remove(r) \/ StartIngest(r) \/ IngestStep(r)
      PROVE KeepInv'
  BY <1>1, EvidenceKeeps, IngestKeeps, SharedKeeps DEF IngestStep, Processes
<1>2. ASSUME NEW b \in Rebuilds,
             RebuildStep(b) \/ \E missing \in BOOLEAN : StartRebuild(b, missing)
      PROVE KeepInv'
  BY <1>2, ScanKeeps, PurgeKeeps, SharedKeeps DEF RebuildStep, Processes
<1>3. ASSUME UNCHANGED <<evidence, rows, pc, at, job, confirmed>> PROVE KeepInv'
  BY <1>3 DEF KeepInv, EvidenceStays, ConfirmedIsStored, IngestedBy, ScanFinds, StaleIsInvalid
<1>4. CASE ReadBefore \/ ReadRows \/ ReadAfter \/ \E r \in Verified : StartRead(r)
  BY <1>3, <1>4 DEF ReadBefore, ReadRows, ReadAfter, StartRead, store, process
<1>5. CASE UNCHANGED vars
  BY <1>3, <1>5 DEF vars, store, process
<1>6. ASSUME NEW p \in Processes, Fail(p) PROVE KeepInv'
  BY <1>6, SharedKeeps
<1> QED
  BY <1>1, <1>2, <1>4, <1>5, <1>6 DEF Next

(* A run whose ingestion returned its receipts is in every store as long   *)
(* as its evidence exists, for any number of stores, runs, rebuilds and    *)
(* batches, whatever fails, as long as maintenance does not overlap.       *)
THEOREM ConfirmedStays ==
  ASSUME ~Overlap
  PROVE  Spec => []ConfirmedIsStored
<1>1. TypeOK /\ SafeInv /\ [Next]_vars => SafeInv'
  BY NextSafe
<1>2. KeepInv => ConfirmedIsStored
  BY DEF KeepInv
<1> QED
  BY InitTypes, NextTypes, InitSafe, InitKeeps, NextKeeps, <1>1, <1>2, PTL DEF Spec

-----------------------------------------------------------------------------
(***************************************************************************)
(* What verification reads is one publication.  A verification that has    *)
(* seen a generation complete in every store knows that its writer is      *)
(* through with it (Sealed): the last store is stamped last.  From then on *)
(* a store that still has the generation has not been written, and one     *)
(* that lost it never shows it again.                                      *)
(***************************************************************************)
Complete(s, g) == stamp[s] = [generation |-> g, state |-> "complete"]

\* The writer of a generation will not write or stamp under it again.
Sealed(g) ==
  \/ pc[g.by] \in {"leaving", "returned", "failed"}
  \/ g.by \in Runs /\ tries[g.by] > g.attempt

LastIsSealed == \A g \in Generations : Complete(LastStore, g) => Sealed(g)

PublicationsAgree ==
  \A s, t \in Stores, g \in Generations : Complete(s, g) /\ Complete(t, g) => rows[s] = rows[t]

\* What the reader saw of a store, if that store has not been written since.
SawNow(s, t) == reader.seen[s] <=> reader.run \in rows[t]

ReadInv ==
  LET g == reader.generation IN
  /\ reader.phase \in {"rows", "after"} => g \in Generations /\ Sealed(g)
  /\ reader.phase = "rows" =>
       \A s \in Stores : s < reader.at /\ Complete(s, g) => SawNow(s, s)
  /\ reader.phase = "after" =>
       /\ \A s \in Stores : Complete(s, g) => SawNow(s, s)
       /\ \A s, t \in Stores : s < reader.at /\ Complete(t, g) => SawNow(s, t)
       /\ \A s, t \in Stores : s < reader.at /\ t < reader.at => reader.seen[s] = reader.seen[t]
  /\ ConclusiveIsUniform

-----------------------------------------------------------------------------
(***************************************************************************)
(* What a step does to the stores and to the writers of generations.       *)
(***************************************************************************)
Writes(p) ==
  /\ pc[p] \in {"writing", "initializing", "purging"}
  /\ \E content \in SUBSET Runs : Put(p, content)

LEMMA StoreEffect ==
  ASSUME TypeOK, [Next]_vars
  PROVE  \/ UNCHANGED <<rows, stamp>>
         \/ \E p \in Processes : Writes(p)
         \/ \E p \in Processes : FinalizeStore(p)
<1> USE DEF store, process
<1>1. ASSUME NEW r \in Runs, WriteRun(r) PROVE Writes(r) /\ r \in Processes
  <2>1. r \in Processes /\ rows[at[r]] \cup {r} \in SUBSET Runs
    BY DEF TypeOK, Processes
  <2> QED
    BY <1>1, <2>1 DEF Writes, WriteRun
<1>2. ASSUME NEW b \in Rebuilds, InitializeStore(b) \/ WriteBatch(b) \/ Purge(b)
      PROVE  Writes(b) /\ b \in Processes
  <2>1. /\ b \in Processes /\ rows[at[b]] \in SUBSET Runs
        /\ rows[at[b]] \cup job[b].batch \in SUBSET Runs
        /\ rows[at[b]] \ job[b].stale[at[b]] \in SUBSET Runs
    BY DEF TypeOK, Processes
  <2> QED
    BY <1>2, <2>1 DEF Writes, InitializeStore, WriteBatch, Purge
<1>3. ASSUME NEW r \in Runs, Produce(r) \/ Remove(r) \/ StartIngest(r) \/ IngestStep(r)
      PROVE  UNCHANGED <<rows, stamp>> \/ WriteRun(r) \/ FinalizeStore(r)
  BY <1>3 DEF Produce, Remove, StartIngest, IngestStep, AcquireLock, BeginWrite, ReadReceipts,
              AcceptReceipts, RejectReceipts, Abandon, Busy, ReturnReceipts
<1>4. ASSUME NEW b \in Rebuilds,
             RebuildStep(b) \/ \E missing \in BOOLEAN : StartRebuild(b, missing)
      PROVE  \/ UNCHANGED <<rows, stamp>> \/ InitializeStore(b) \/ WriteBatch(b) \/ Purge(b)
             \/ FinalizeStore(b)
  BY <1>4 DEF StartRebuild, RebuildStep, ReadKeys, FlushBatch, ScanEnds, ReadStale, ReadReceipts,
              AcceptReceipts, RejectReceipts, Abandon, ReturnSummary, ScanRun
<1>5. CASE \/ ReadBefore \/ ReadRows \/ ReadAfter \/ \E r \in Verified : StartRead(r)
           \/ UNCHANGED vars \/ \E p \in Processes : Fail(p)
  BY <1>5 DEF ReadBefore, ReadRows, ReadAfter, StartRead, vars, Fail, Abandon
<1> QED
  BY <1>1, <1>2, <1>3, <1>4, <1>5 DEF Next, Processes

Through == {"leaving", "returned", "failed"}

LEMMA TriesEffect ==
  ASSUME TypeOK, [Next]_vars
  PROVE  \/ UNCHANGED tries
         \/ \E r \in Runs : Busy(r)
<1> USE DEF store, process
<1>1. ASSUME NEW r \in Runs, Produce(r) \/ Remove(r) \/ StartIngest(r) \/ IngestStep(r)
      PROVE  UNCHANGED tries \/ Busy(r)
  BY <1>1 DEF Produce, Remove, StartIngest, IngestStep, AcquireLock, BeginWrite, WriteRun,
              ReadReceipts, AcceptReceipts, RejectReceipts, Abandon, FinalizeStore, ReturnReceipts
<1>2. ASSUME NEW b \in Rebuilds,
             RebuildStep(b) \/ \E missing \in BOOLEAN : StartRebuild(b, missing)
      PROVE  UNCHANGED tries
  BY <1>2 DEF StartRebuild, RebuildStep, InitializeStore, ReadKeys, FlushBatch, WriteBatch,
              ScanEnds, ReadStale, Purge, ReadReceipts, AcceptReceipts, RejectReceipts, Abandon,
              FinalizeStore, ReturnSummary, ScanRun
<1>3. CASE \/ ReadBefore \/ ReadRows \/ ReadAfter \/ \E r \in Verified : StartRead(r)
           \/ UNCHANGED vars \/ \E p \in Processes : Fail(p)
  BY <1>3 DEF ReadBefore, ReadRows, ReadAfter, StartRead, vars, Fail, Abandon
<1> QED
  BY <1>1, <1>2, <1>3 DEF Next

LEMMA PhaseEffect ==
  ASSUME TypeOK, [Next]_vars
  PROVE  \/ UNCHANGED pc
         \/ \E p \in Processes, phase \in Phases :
              /\ pc' = [pc EXCEPT ![p] = phase]
              /\ pc[p] \in Through => phase \in Through
<1> USE DEF store, process
<1>0. Through \subseteq Phases
  BY DEF Through, Phases
<1>1. ASSUME NEW p \in Processes, NEW phase \in Phases, Advance(p, phase) \/ Enter(p, phase),
             pc[p] \notin Through \/ phase \in Through
      PROVE  \/ UNCHANGED pc
             \/ /\ pc' = [pc EXCEPT ![p] = phase]
                /\ pc[p] \in Through => phase \in Through
  BY <1>1 DEF Advance, Enter
<1>2. ASSUME NEW p \in Processes,
             \/ ReadReceipts(p) \/ AcceptReceipts(p) \/ RejectReceipts(p) \/ FinalizeStore(p)
             \/ Fail(p)
      PROVE  \/ UNCHANGED pc
             \/ \E phase \in Phases : /\ pc' = [pc EXCEPT ![p] = phase]
                                      /\ pc[p] \in Through => phase \in Through
  BY <1>2, <1>1 DEF ReadReceipts, AcceptReceipts, RejectReceipts, FinalizeStore, Fail, Abandon,
     Through, Phases
<1>3. ASSUME NEW r \in Runs,
             \/ Produce(r) \/ Remove(r) \/ StartIngest(r) \/ AcquireLock(r) \/ BeginWrite(r)
             \/ WriteRun(r) \/ Busy(r) \/ ReturnReceipts(r)
      PROVE  \/ UNCHANGED pc
             \/ \E phase \in Phases : /\ pc' = [pc EXCEPT ![r] = phase]
                                      /\ pc[r] \in Through => phase \in Through
  <2> r \in Processes
    BY DEF Processes
  <2> QED
    BY <1>3, <1>1 DEF Produce, Remove, StartIngest, AcquireLock, BeginWrite, WriteRun, Busy,
       ReturnReceipts, Through, Phases
<1>4. ASSUME NEW b \in Rebuilds,
             \/ \E missing \in BOOLEAN : StartRebuild(b, missing)
             \/ InitializeStore(b) \/ ReadKeys(b) \/ FlushBatch(b) \/ WriteBatch(b)
             \/ \E r \in Runs : ScanRun(b, r)
             \/ ScanEnds(b) \/ ReadStale(b) \/ Purge(b) \/ ReturnSummary(b)
      PROVE  \/ UNCHANGED pc
             \/ \E phase \in Phases : /\ pc' = [pc EXCEPT ![b] = phase]
                                      /\ pc[b] \in Through => phase \in Through
  <2> b \in Processes
    BY DEF Processes
  <2> QED
    BY <1>4, <1>1 DEF StartRebuild, InitializeStore, ReadKeys, FlushBatch, WriteBatch, ScanRun,
       ScanEnds, ReadStale, Purge, ReturnSummary, Through, Phases
<1>5. CASE \/ ReadBefore \/ ReadRows \/ ReadAfter \/ \E r \in Verified : StartRead(r)
           \/ UNCHANGED vars
  BY <1>5 DEF ReadBefore, ReadRows, ReadAfter, StartRead, vars
<1>6. ASSUME NEW r \in Runs, Produce(r) \/ Remove(r) \/ StartIngest(r) \/ IngestStep(r)
      PROVE  \/ UNCHANGED pc
             \/ \E phase \in Phases : /\ pc' = [pc EXCEPT ![r] = phase]
                                      /\ pc[r] \in Through => phase \in Through
  BY <1>6, <1>2, <1>3 DEF IngestStep, Processes
<1>7. ASSUME NEW b \in Rebuilds,
             RebuildStep(b) \/ \E missing \in BOOLEAN : StartRebuild(b, missing)
      PROVE  \/ UNCHANGED pc
             \/ \E phase \in Phases : /\ pc' = [pc EXCEPT ![b] = phase]
                                      /\ pc[b] \in Through => phase \in Through
  BY <1>7, <1>2, <1>4 DEF RebuildStep, Processes
<1> QED
  BY <1>2, <1>5, <1>6, <1>7 DEF Next, Processes

LEMMA SealedStays ==
  ASSUME TypeOK, [Next]_vars, NEW g \in Generations, Sealed(g)
  PROVE  Sealed(g)'
<1>1. g.by \in Processes /\ g.attempt \in Nat
  BY BoundsType DEF Generations
<1>2. pc[g.by] \in Through => pc'[g.by] \in Through
  BY <1>1, PhaseEffect DEF TypeOK
<1>3. g.by \in Runs => tries'[g.by] >= tries[g.by] /\ tries[g.by] \in Nat /\ tries'[g.by] \in Nat
  <2>1. \A r \in Runs : tries[r] \in Nat
    BY BoundsType DEF TypeOK
  <2>2. CASE UNCHANGED tries
    BY <2>1, <2>2
  <2>3. ASSUME NEW r \in Runs, Busy(r)
        PROVE  \A q \in Runs : tries'[q] = tries[q] \/ tries'[q] = tries[q] + 1
    BY <2>3 DEF Busy, TypeOK
  <2> QED
    BY <2>1, <2>2, <2>3, TriesEffect
<1> QED
  BY <1>1, <1>2, <1>3 DEF Sealed, Through

\* Under a sealed generation nothing is written or stamped.
LEMMA SealedIsFixed ==
  ASSUME TypeOK, [Next]_vars, NEW g \in Generations, Sealed(g), NEW s \in Stores, Complete(s, g)'
  PROVE  Complete(s, g) /\ rows'[s] = rows[s]
<1>1. CASE UNCHANGED <<rows, stamp>>
  BY <1>1 DEF Complete
<1>2. ASSUME NEW p \in Processes, Writes(p)
      PROVE  Complete(s, g) /\ rows'[s] = rows[s]
  <2>1. at[p] \in Stores /\ stamp'[at[p]].state = "in_progress"
    BY <1>2 DEF Writes, Put, TypeOK
  <2>2. s # at[p]
    BY <2>1 DEF Complete
  <2> QED
    BY <1>2, <2>1, <2>2 DEF Writes, Put, TypeOK, Complete
<1>3. ASSUME NEW p \in Processes, FinalizeStore(p)
      PROVE  Complete(s, g) /\ rows'[s] = rows[s]
  <2>1. g # GenerationOf(p)
    BY <1>3, BoundsType DEF FinalizeStore, GenerationOf, Sealed, TypeOK
  <2>2. /\ at[p] \in Stores /\ UNCHANGED rows
        /\ stamp' = [stamp EXCEPT ![at[p]] = [generation |-> GenerationOf(p), state |-> "complete"]]
    BY <1>3 DEF FinalizeStore, TypeOK
  <2>3. s # at[p]
    BY <2>1, <2>2 DEF Complete, TypeOK
  <2> QED
    BY <2>2, <2>3 DEF Complete, TypeOK
<1> QED
  BY <1>1, <1>2, <1>3, StoreEffect

-----------------------------------------------------------------------------
(***************************************************************************)
(* Publications.                                                           *)
(***************************************************************************)
LEMMA PublicationsNext ==
  ASSUME TypeOK, SafeInv, LastIsSealed, PublicationsAgree, [Next]_vars
  PROVE  LastIsSealed' /\ PublicationsAgree'
<1>1. CASE UNCHANGED <<rows, stamp>>
  BY <1>1, SealedStays DEF LastIsSealed, PublicationsAgree, Complete
<1>2. ASSUME NEW p \in Processes, Writes(p)
      PROVE  LastIsSealed' /\ PublicationsAgree'
  <2>1. at[p] \in Stores /\ stamp'[at[p]].state = "in_progress"
    BY <1>2 DEF Writes, Put, TypeOK
  <2>2. \A s \in Stores, g \in Generations : Complete(s, g)' =>
          Complete(s, g) /\ rows'[s] = rows[s]
    <3> SUFFICES ASSUME NEW s \in Stores, NEW g \in Generations, Complete(s, g)'
                 PROVE  Complete(s, g) /\ rows'[s] = rows[s]
      OBVIOUS
    <3>1. s # at[p]
      BY <2>1 DEF Complete
    <3> QED
      BY <1>2, <2>1, <3>1 DEF Writes, Put, TypeOK, Complete
  <2> QED
    BY <2>2, StoreOrder, SealedStays DEF LastIsSealed, PublicationsAgree
<1>3. ASSUME NEW p \in Processes, FinalizeStore(p)
      PROVE  LastIsSealed' /\ PublicationsAgree'
  <2>1. /\ at[p] \in Stores /\ UNCHANGED rows /\ pc[p] = "finalizing"
        /\ stamp' = [stamp EXCEPT ![at[p]] = [generation |-> GenerationOf(p), state |-> "complete"]]
    BY <1>3 DEF FinalizeStore, TypeOK
  <2>2. Equal
    BY <2>1 DEF SafeInv, FinalIsEqual
  <2>3. PublicationsAgree'
    BY <2>1, <2>2 DEF PublicationsAgree, Equal
  <2>4. ASSUME NEW g \in Generations, Complete(LastStore, g)'
        PROVE  Sealed(g)'
    <3>1. CASE at[p] = LastStore
      <4>1. pc'[p] = "leaving"
        BY <1>3, <3>1, StoresType DEF FinalizeStore, Advance, Enter, TypeOK
      <4>2. g = GenerationOf(p)
        BY <2>1, <2>4, <3>1, StoreOrder DEF Complete, TypeOK
      <4>3. g.by = p
        BY <4>2 DEF GenerationOf
      <4> QED
        BY <4>1, <4>3 DEF Sealed
    <3>2. CASE at[p] # LastStore
      <4>1. Complete(LastStore, g)
        BY <2>1, <2>4, <3>2, StoreOrder DEF Complete, TypeOK
      <4> QED
        BY <4>1, SealedStays DEF LastIsSealed
    <3> QED
      BY <3>1, <3>2
  <2> QED
    BY <2>3, <2>4 DEF LastIsSealed
<1> QED
  BY <1>1, <1>2, <1>3, StoreEffect

-----------------------------------------------------------------------------
(***************************************************************************)
(* The reader.                                                             *)
(***************************************************************************)
\* What happens to the stores while the reader does nothing leaves what it saw true of the stores
\* that still have its generation.
LEMMA StoresMoveOn ==
  ASSUME TypeOK, ReadInv, [Next]_vars, UNCHANGED reader
  PROVE  ReadInv'
<1> DEFINE g == reader.generation
<1>1. reader.phase \in {"rows", "after"} => g \in Generations /\ Sealed(g) /\ Sealed(g)'
  BY SealedStays DEF ReadInv
<1>2. reader.phase \in {"rows", "after"} =>
        \A s \in Stores : Complete(s, g)' => Complete(s, g) /\ rows'[s] = rows[s]
  BY <1>1, SealedIsFixed
<1>3. ConclusiveIsUniform'
  BY DEF ReadInv, ConclusiveIsUniform
<1>4. reader.phase \in {"rows", "after"} =>
        \A s, t \in Stores : Complete(t, g)' => (SawNow(s, t)' <=> SawNow(s, t))
  BY <1>2 DEF SawNow
<1>5. g' = g /\ reader' = reader
  OBVIOUS
<1> QED
  BY <1>1, <1>2, <1>3, <1>4, <1>5 DEF ReadInv

LEMMA ReaderMoves ==
  ASSUME TypeOK, LastIsSealed, PublicationsAgree, ReadInv,
         ReadBefore \/ ReadRows \/ ReadAfter \/ \E r \in Verified : StartRead(r)
  PROVE  ReadInv'
<1> USE DEF store, process
<1>0. reader \in Reader
  BY DEF TypeOK, Reader
<1>1. UNCHANGED <<rows, stamp, pc, tries>>
  BY DEF ReadBefore, ReadRows, ReadAfter, StartRead
<1>2. ASSUME reader'.phase \in {"idle", "before"} PROVE ReadInv'
  BY <1>2 DEF ReadInv, ConclusiveIsUniform
<1>3. CASE \E r \in Verified : StartRead(r)
  <2>1. reader'.phase = "before"
    BY <1>3 DEF StartRead, NoRead
  <2> QED
    BY <1>2, <2>1
<1>4. CASE ReadBefore
  <2> DEFINE s == reader.at
  <2>g. PICK g : g = stamp[s].generation
    OBVIOUS
  <2>1. CASE reader'.phase \in {"idle", "before"}
    BY <1>2, <2>1
  <2>2. CASE reader'.phase \notin {"idle", "before"}
    <3>1. /\ Readable(s) /\ ~(s < LastStore)
          /\ reader' = [Proceed("rows") EXCEPT !.generation = g]
      BY <1>0, <1>4, <2>2, <2>g DEF ReadBefore, Proceed, NoRead, Reader
    <3>2. s = LastStore
      BY <1>0, <3>1, StoresType DEF Reader, Stores
    <3>3. reader'.phase = "rows" /\ reader'.at = 1 /\ reader'.generation = g
      BY <1>0, <3>1 DEF Proceed, Reader
    <3>4. stamp[LastStore] \in Stamps /\ stamp[LastStore].state = "complete"
      BY <3>1, <3>2, StoreOrder DEF Readable, TypeOK
    <3>5. g \in Generations /\ Complete(LastStore, g)
      BY <2>g, <3>2, <3>4 DEF Stamps, Complete
    <3>6. Sealed(g)
      BY <3>5 DEF LastIsSealed
    <3>7. Sealed(g)'
      BY <1>1, <3>6 DEF Sealed
    <3>8. Sealed(reader.generation)'
      BY <3>3, <3>7
    <3> QED
      BY <3>3, <3>5, <3>8 DEF ReadInv, ConclusiveIsUniform, Stores
  <2> QED
    BY <2>1, <2>2
<1>5. CASE ReadRows
  <2> DEFINE s == reader.at
  <2>g. PICK g : g = reader.generation
    OBVIOUS
  <2>1. /\ reader.phase = "rows" /\ s \in Stores /\ g \in Generations /\ Sealed(g)
        /\ reader' = [Proceed("after") EXCEPT !.seen[s] = reader.run \in rows[s]]
    <3>1. reader.phase = "rows" /\ reader' = [Proceed("after") EXCEPT !.seen[s] = reader.run \in rows[s]]
      BY <1>5 DEF ReadRows
    <3>2. s \in Stores
      BY <1>0 DEF Reader
    <3> QED
      BY <2>g, <3>1, <3>2 DEF ReadInv
  <2>2. /\ reader'.run = reader.run /\ reader'.generation = g
        /\ reader'.seen = [reader.seen EXCEPT ![s] = reader.run \in rows[s]]
    BY <1>0, <2>1, <2>g DEF Proceed, Reader
  <2>3. /\ reader'.seen[s] <=> reader.run \in rows[s]
        /\ \A t \in Stores \ {s} : reader'.seen[t] = reader.seen[t]
    <3>1. reader.seen \in [Stores -> BOOLEAN]
      BY <1>0 DEF Reader
    <3>2. reader'.seen[s] = (reader.run \in rows[s])
      BY <2>1, <2>2, <3>1, Zenon
    <3>3. \A t \in Stores \ {s} : reader'.seen[t] = reader.seen[t]
      BY <2>1, <2>2, <3>1
    <3> QED
      BY <3>2, <3>3, Zenon
  <2>4. \A t \in Stores : t <= s /\ Complete(t, g)' => SawNow(t, t)'
    <3> SUFFICES ASSUME NEW t \in Stores, t <= s, Complete(t, g)' PROVE SawNow(t, t)'
      OBVIOUS
    <3>1. CASE t = s
      BY <1>1, <2>2, <2>3, <3>1 DEF SawNow
    <3>2. CASE t # s
      <4>1. t < s
        BY <2>1, <3>2 DEF Stores
      <4>2. Complete(t, g)
        BY <1>1 DEF Complete
      <4>3. SawNow(t, t)
        BY <2>1, <2>g, <4>1, <4>2 DEF ReadInv
      <4> QED
        BY <1>1, <2>2, <2>3, <3>2, <4>3 DEF SawNow
    <3> QED
      BY <3>1, <3>2
  <2>5. g \in Generations /\ Sealed(g)'
    BY <1>1, <2>1 DEF Sealed
  <2>gen. Sealed(reader.generation)' /\ reader'.generation \in Generations
    BY <2>2, <2>5
  <2>saw. \A t \in Stores : t <= s /\ Complete(t, reader.generation)' => SawNow(t, t)'
    BY <2>2, <2>4
  <2>6. CASE s < LastStore
    <3>1. reader'.phase = "rows" /\ reader'.at = s + 1
      BY <1>0, <2>1, <2>6 DEF Proceed, Reader
    <3>2. \A t \in Stores : t < reader'.at => t <= s
      BY <2>1, <3>1 DEF Stores
    <3> QED
      BY <2>gen, <2>saw, <3>1, <3>2 DEF ReadInv, ConclusiveIsUniform
  <2>7. CASE ~(s < LastStore)
    <3>1. reader'.phase = "after" /\ reader'.at = 1
      BY <1>0, <2>1, <2>7 DEF Proceed, Reader
    <3>2. \A t \in Stores : t <= s /\ ~(t < 1)
      BY <2>1, <2>7, StoresType DEF Stores
    <3> QED
      BY <2>gen, <2>saw, <3>1, <3>2 DEF ReadInv, ConclusiveIsUniform
  <2> QED
    BY <2>6, <2>7
<1>6. CASE ReadAfter
  <2> DEFINE s == reader.at
  <2>g. PICK g : g = reader.generation
    OBVIOUS
  <2>1. CASE reader' = NoRead
    BY <1>2, <2>1 DEF NoRead
  <2>2. CASE reader' # NoRead
    <3>1. /\ reader.phase = "after" /\ s \in Stores /\ g \in Generations /\ Sealed(g)
          /\ Readable(s) /\ stamp[s].generation = g /\ reader' = Proceed("concluded")
      BY <1>0, <1>6, <2>2, <2>g DEF ReadAfter, ReadInv, Reader
    <3>2. stamp[s] \in Stamps /\ stamp[s].state = "complete"
      BY <3>1 DEF Readable, TypeOK
    <3>3. Complete(s, g)
      BY <3>1, <3>2 DEF Stamps, Complete
    <3>4. \A t \in Stores : Complete(t, g) => rows[t] = rows[s]
      BY <3>1, <3>3 DEF PublicationsAgree
    <3>5. SawNow(s, s) /\ \A t \in Stores : t < s => SawNow(t, s)
      BY <2>g, <3>1, <3>3 DEF ReadInv
    <3>6. /\ reader'.run = reader.run /\ reader'.generation = g /\ reader'.seen = reader.seen
          /\ reader.seen \in [Stores -> BOOLEAN]
      BY <1>0, <2>g, <3>1 DEF Proceed, Reader
    <3>7. \A t \in Stores : t <= s => SawNow(t, s)
      BY <3>1, <3>5 DEF Stores
    <3>8. \A t, u \in Stores : t <= s /\ Complete(u, g) => SawNow(t, u)
      BY <3>4, <3>7 DEF SawNow
    <3>9. \A t, u \in Stores : t <= s /\ u <= s => reader.seen[t] = reader.seen[u]
      BY <3>6, <3>7 DEF SawNow
    <3>10. \A t, u \in Stores : (SawNow(t, u)' <=> SawNow(t, u)) /\ (Complete(t, g)' <=> Complete(t, g))
      BY <1>1, <3>6 DEF SawNow, Complete
    <3>11. Sealed(g)'
      BY <1>1, <3>1 DEF Sealed
    <3>12. CASE s < LastStore
      <4>1. reader'.phase = "after" /\ reader'.at = s + 1
        BY <1>0, <3>1, <3>12 DEF Proceed, Reader
      <4>2. \A t \in Stores : t < reader'.at => t <= s
        BY <3>1, <4>1 DEF Stores
      <4>3. \A t \in Stores : Complete(t, g) => SawNow(t, t)
        BY <2>g, <3>1 DEF ReadInv
      <4>4. Sealed(reader.generation)' /\ reader'.generation \in Generations
        BY <3>1, <3>6, <3>11
      <4>5. \A t \in Stores : Complete(t, reader.generation)' => SawNow(t, t)'
        BY <3>6, <3>10, <4>3
      <4>6. \A t, u \in Stores : t < reader'.at /\ Complete(u, reader.generation)' => SawNow(t, u)'
        BY <3>6, <3>8, <3>10, <4>2
      <4> QED
        BY <3>6, <3>9, <4>1, <4>2, <4>4, <4>5, <4>6 DEF ReadInv, ConclusiveIsUniform
    <3>13. CASE ~(s < LastStore)
      <4>1. reader'.phase = "concluded"
        BY <1>0, <3>1, <3>13 DEF Proceed, Reader
      <4>2. \A t \in Stores : t <= s
        BY <3>1, <3>13, StoresType DEF Stores
      <4> QED
        BY <3>6, <3>9, <4>1, <4>2 DEF ReadInv, ConclusiveIsUniform
    <3> QED
      BY <3>12, <3>13
  <2> QED
    BY <2>1, <2>2
<1> QED
  BY <1>3, <1>4, <1>5, <1>6

LEMMA ReadsNext ==
  ASSUME TypeOK, SafeInv, LastIsSealed, PublicationsAgree, ReadInv, [Next]_vars
  PROVE  ReadInv'
<1>1. \/ UNCHANGED reader
      \/ ReadBefore \/ ReadRows \/ ReadAfter \/ \E r \in Verified : StartRead(r)
  <2>1. ASSUME NEW p \in Processes, ReadReceipts(p) \/ AcceptReceipts(p) \/ RejectReceipts(p)
                                    \/ FinalizeStore(p) \/ Fail(p)
        PROVE  UNCHANGED reader
    BY <2>1 DEF ReadReceipts, AcceptReceipts, RejectReceipts, FinalizeStore, Fail, Abandon
  <2>2. ASSUME NEW r \in Runs, Produce(r) \/ Remove(r) \/ StartIngest(r) \/ IngestStep(r)
        PROVE  UNCHANGED reader
    BY <2>1, <2>2 DEF Produce, Remove, StartIngest, IngestStep, AcquireLock, BeginWrite, WriteRun,
       Busy, ReturnReceipts, Processes
  <2>3. ASSUME NEW b \in Rebuilds,
               RebuildStep(b) \/ \E missing \in BOOLEAN : StartRebuild(b, missing)
        PROVE  UNCHANGED reader
    BY <2>1, <2>3 DEF StartRebuild, RebuildStep, InitializeStore, ReadKeys, FlushBatch, WriteBatch,
       ScanRun, ScanEnds, ReadStale, Purge, ReturnSummary, Processes
  <2> QED
    BY <2>1, <2>2, <2>3 DEF Next, vars
<1> QED
  BY <1>1, StoresMoveOn, ReaderMoves

LEMMA ReadsInit == Init => LastIsSealed /\ PublicationsAgree /\ ReadInv
<1> SUFFICES ASSUME Init PROVE LastIsSealed /\ PublicationsAgree /\ ReadInv
  OBVIOUS
<1>1. \A s, t \in Stores : rows[s] = rows[t]
  BY DEF Init
<1>2. reader.phase = "idle"
  BY DEF Init, NoRead
<1>3. \A g \in Generations : ~Complete(LastStore, g)
  <2>1. \A g \in Generations : [generation |-> g, state |-> "complete"] \in Stamps
    BY DEF Stamps
  <2> QED
    BY <2>1, StoreOrder, NoneIsNobody DEF Init, Complete
<1> QED
  BY <1>1, <1>2, <1>3 DEF LastIsSealed, PublicationsAgree, ReadInv, ConclusiveIsUniform

(* A verification that finds one complete generation in every store before *)
(* and after its reads has seen the run in all stores or in none, whoever  *)
(* wrote in between and however often, for any number of stores, runs,     *)
(* rebuilds and attempts, as long as maintenance does not overlap.         *)
THEOREM ConclusiveReads ==
  ASSUME ~Overlap
  PROVE  Spec => []ConclusiveIsUniform
<1> DEFINE I == TypeOK /\ SafeInv /\ LastIsSealed /\ PublicationsAgree /\ ReadInv
<1>1. Init => I
  BY InitTypes, InitSafe, ReadsInit
<1>2. I /\ [Next]_vars => I'
  BY NextTypes, NextSafe, PublicationsNext, ReadsNext
<1>3. I => ConclusiveIsUniform
  BY DEF ReadInv
<1> QED
  BY <1>1, <1>2, <1>3, PTL DEF Spec


-----------------------------------------------------------------------------
(***************************************************************************)
(* A rebuild that returns has repaired the stores.  It works alone, so the *)
(* invariant follows its own loops: what was keyed, what the scan found    *)
(* valid, what is still in the batch, what a purge has left.               *)
(***************************************************************************)
Own(b) == [generation |-> GenerationOf(b), state |-> "complete"]
Holds(b) == \A s \in Stores : job[b].valid \subseteq rows[s]
HoldsOnly(b) == \A s \in Stores : rows[s] = job[b].valid

Loading(b) ==
  /\ pc[b] \in {"initializing", "keys"} => job[b].valid = {} /\ job[b].batch = {}
  /\ pc[b] = "keys" => \A s \in Stores : s < at[b] => job[b].complete \subseteq rows[s]
  /\ pc[b] \in {"scanning", "writing"} => \A s \in Stores :
       job[b].complete \subseteq rows[s] /\ job[b].valid \ job[b].batch \subseteq rows[s]
  /\ pc[b] = "writing" => \A s \in Stores : s < at[b] => job[b].batch \subseteq rows[s]

Purging(b) ==
  /\ pc[b] = "staling" => \A s \in Stores : s < at[b] => job[b].stale[s] = rows[s] \ job[b].valid
  /\ pc[b] = "purging" => \A s \in Stores : IF s < at[b] THEN rows[s] = job[b].valid
                                            ELSE job[b].stale[s] = rows[s] \ job[b].valid

Publishing(b) ==
  /\ pc[b] \in {"staling", "purging", "comparing", "finalizing", "leaving"} => Holds(b)
  /\ pc[b] \in {"comparing", "finalizing", "leaving"} /\ ~job[b].missing => HoldsOnly(b)
  /\ pc[b] = "finalizing" => \A s \in Stores : s < at[b] => stamp[s] = Own(b)
  /\ pc[b] = "leaving" => \A s \in Stores : stamp[s] = Own(b)

Restoring(b) == Loading(b) /\ Purging(b) /\ Publishing(b)
RestoreInv == \A b \in Rebuilds : Restoring(b)

LEMMA OwnIsFixed ==
  ASSUME NEW b \in Rebuilds
  PROVE  Own(b)' = Own(b)
BY ProcessesDiffer DEF Own, GenerationOf

\* Who does not work claims nothing.
LEMMA IdleRestores ==
  ASSUME NEW b \in Rebuilds, pc[b] \in Stopped
  PROVE  Restoring(b)
BY DEF Restoring, Loading, Purging, Publishing, Stopped

\* Steps of others leave a rebuild's stores alone while it works.
LEMMA OthersRestore ==
  ASSUME NEW b \in Rebuilds, Restoring(b), pc'[b] = pc[b], at'[b] = at[b], job'[b] = job[b],
         UNCHANGED <<rows, stamp>> \/ pc[b] \in Stopped
  PROVE  Restoring(b)'
<1>1. CASE pc[b] \in Stopped
  BY <1>1 DEF Restoring, Loading, Purging, Publishing, Stopped
<1>2. CASE UNCHANGED <<rows, stamp>>
  <2>1. Loading(b)' /\ Purging(b)'
    BY <1>2 DEF Restoring, Loading, Purging
  <2>2. Publishing(b)'
    BY <1>2, OwnIsFixed DEF Restoring, Publishing, Holds, HoldsOnly
  <2> QED
    BY <2>1, <2>2 DEF Restoring
<1> QED
  BY <1>1, <1>2

\* The loops over the stores.
LEMMA LoopEffect ==
  ASSUME TypeOK, NEW p \in Processes, NEW phase \in Phases, Advance(p, phase)
  PROVE  \/ /\ at[p] < LastStore /\ at'[p] = at[p] + 1 /\ pc'[p] = pc[p]
            /\ \A s \in Stores : s < at'[p] => s < at[p] \/ s = at[p]
            /\ \A s \in Stores : ~(s < at'[p]) => ~(s < at[p]) /\ s # at[p]
         \/ /\ at[p] = LastStore /\ at'[p] = 1 /\ pc'[p] = phase
            /\ \A s \in Stores : s < at[p] \/ s = at[p]
            /\ \A s \in Stores : ~(s < at'[p])
<1>1. at[p] \in 1..LastStore /\ LastStore \in Nat
  BY StoresType DEF TypeOK, Stores
<1>2. CASE at[p] < LastStore
  BY <1>1, <1>2 DEF Advance, TypeOK, Stores
<1>3. CASE ~(at[p] < LastStore)
  BY <1>1, <1>3 DEF Advance, Enter, TypeOK, Stores
<1> QED
  BY <1>2, <1>3

LEMMA LoadRestores ==
  ASSUME TypeOK, NEW b \in Rebuilds, Restoring(b),
         \/ \E missing \in BOOLEAN : StartRebuild(b, missing)
         \/ InitializeStore(b) \/ ReadKeys(b) \/ FlushBatch(b) \/ WriteBatch(b)
         \/ \E r \in Runs : ScanRun(b, r)
         \/ ScanEnds(b)
  PROVE  Restoring(b)'
<1> USE DEF store, process
<1>0. b \in Processes /\ job[b] \in Job /\ job \in [Rebuilds -> Job]
      /\ {"initializing", "keys", "scanning", "writing"} \subseteq Phases
  BY DEF Processes, TypeOK, Job, Phases
<1>1. Loading(b)
  BY DEF Restoring
<1>2. ASSUME pc'[b] \in {"initializing", "keys", "scanning", "writing"}, Loading(b)'
      PROVE  Restoring(b)'
  BY <1>2 DEF Restoring, Purging, Publishing
<1>3. ASSUME NEW missing \in BOOLEAN, StartRebuild(b, missing) PROVE Restoring(b)'
  <2>1. /\ pc'[b] \in {"scanning", "keys", "initializing"} /\ at'[b] = 1 /\ UNCHANGED rows
        /\ pc'[b] = "scanning" => ~missing
        /\ job'[b].valid = {} /\ job'[b].batch = {} /\ (~missing => job'[b].complete = {})
    BY <1>0, <1>3 DEF StartRebuild, Enter, TypeOK, NewJob
  <2>2. \A s \in Stores : ~(s < 1)
    BY DEF Stores
  <2>3. Loading(b)'
    BY <2>1, <2>2 DEF Loading
  <2> QED
    BY <1>2, <2>1, <2>3
<1>4. CASE InitializeStore(b)
  <2>1. pc[b] = "initializing" /\ UNCHANGED job /\ Put(b, rows[at[b]]) /\ Advance(b, "keys")
    BY <1>4 DEF InitializeStore
  <2>2. UNCHANGED rows
    BY <1>0, <2>1 DEF Put, TypeOK
  <2>3. pc'[b] = "initializing" \/ (pc'[b] = "keys" /\ \A s \in Stores : ~(s < at'[b]))
    BY <1>0, <2>1, LoopEffect
  <2>4. Loading(b)'
    BY <1>1, <2>1, <2>2, <2>3 DEF Loading
  <2> QED
    BY <1>2, <2>3, <2>4
<1>5. CASE ReadKeys(b)
  <2> DEFINE present == {r \in Runs : evidence[r] \in {"partial", "passing"}}
             keyed == [job[b] EXCEPT !.complete = @ \cap rows[at[b]], !.todo = present]
  <2>1. pc[b] = "keys" /\ UNCHANGED rows /\ Advance(b, "scanning")
    BY <1>5 DEF ReadKeys
  <2>2. job' = [job EXCEPT ![b] = keyed]
    BY <1>0, <1>5 DEF ReadKeys, Job
  <2>3. /\ job'[b].complete = job[b].complete \cap rows[at[b]]
        /\ job'[b].valid = job[b].valid /\ job'[b].batch = job[b].batch
    BY <1>0, <2>2 DEF Job
  <2>4. \/ pc'[b] = "keys" /\ \A s \in Stores : s < at'[b] => s < at[b] \/ s = at[b]
        \/ pc'[b] = "scanning" /\ \A s \in Stores : s < at[b] \/ s = at[b]
    BY <1>0, <2>1, LoopEffect
  <2>5. Loading(b)'
    BY <1>1, <2>1, <2>3, <2>4 DEF Loading
  <2> QED
    BY <1>2, <2>4, <2>5
<1>6. CASE FlushBatch(b)
  <2>1. pc[b] = "scanning" /\ pc'[b] = "writing" /\ at'[b] = 1 /\ UNCHANGED <<rows, job>>
    BY <1>0, <1>6 DEF FlushBatch, Enter, TypeOK
  <2>2. \A s \in Stores : ~(s < 1)
    BY DEF Stores
  <2>3. Loading(b)'
    BY <1>1, <2>1, <2>2 DEF Loading
  <2> QED
    BY <1>2, <2>1, <2>3
<1>7. CASE WriteBatch(b)
  <2>1. pc[b] = "writing" /\ Put(b, rows[at[b]] \cup job[b].batch) /\ Advance(b, "scanning")
    BY <1>7 DEF WriteBatch
  <2>2. /\ at[b] \in Stores /\ rows'[at[b]] = rows[at[b]] \cup job[b].batch
        /\ \A s \in Stores \ {at[b]} : rows'[s] = rows[s]
    BY <1>0, <2>1 DEF Put, TypeOK
  <2>3. CASE at[b] < LastStore
    <3>1. UNCHANGED job
      BY <1>7, <2>3 DEF WriteBatch
    <3>i. at[b] \in Nat /\ LastStore \in Nat
      BY <2>2, StoresType DEF Stores
    <3>e. at[b] < LastStore /\ ~(at[b] = LastStore)
      BY <2>3, <3>i
    <3>2. pc'[b] = "writing" /\ \A s \in Stores : s < at'[b] => s < at[b] \/ s = at[b]
      BY <1>0, <2>1, <3>e, LoopEffect
    <3>3. Loading(b)'
      BY <1>1, <2>1, <2>2, <3>1, <3>2 DEF Loading
    <3> QED
      BY <1>2, <3>2, <3>3
  <2>4. CASE ~(at[b] < LastStore)
    <3>1. job' = [job EXCEPT ![b] = [job[b] EXCEPT !.batch = {}]]
      BY <1>0, <1>7, <2>4 DEF WriteBatch
    <3>2. /\ job'[b].batch = {} /\ job'[b].valid = job[b].valid
          /\ job'[b].complete = job[b].complete
      BY <1>0, <3>1 DEF Job
    <3>3. pc'[b] = "scanning" /\ \A s \in Stores : s < at[b] \/ s = at[b]
      BY <1>0, <2>1, <2>4, LoopEffect
    <3>4. ASSUME NEW s \in Stores
          PROVE  job[b].valid \subseteq rows'[s] /\ job[b].complete \subseteq rows'[s]
      BY <1>1, <2>1, <2>2, <3>3 DEF Loading
    <3>5. Loading(b)'
      BY <3>2, <3>3, <3>4 DEF Loading
    <3> QED
      BY <1>2, <3>3, <3>5
  <2> QED
    BY <2>3, <2>4
<1>8. ASSUME NEW r \in Runs, ScanRun(b, r) PROVE Restoring(b)'
  <2> DEFINE passing == IF evidence[r] = "passing" THEN {r} ELSE {}
             scanned == [job[b] EXCEPT !.todo = @ \ {r}, !.valid = @ \cup passing,
                                       !.batch = @ \cup (passing \ job[b].complete)]
  <2>1. pc[b] = "scanning" /\ UNCHANGED <<rows, pc, at>> /\ job' = [job EXCEPT ![b] = scanned]
    BY <1>0, <1>8 DEF ScanRun
  <2>2. /\ job'[b].valid = job[b].valid \cup passing
        /\ job'[b].batch = job[b].batch \cup (passing \ job[b].complete)
        /\ job'[b].complete = job[b].complete
    BY <1>0, <2>1 DEF Job
  <2> HIDE DEF passing
  <2>3. Loading(b)'
    BY <1>1, <2>1, <2>2 DEF Loading
  <2> QED
    BY <1>2, <2>1, <2>3
<1>9. CASE ScanEnds(b)
  <2>1. /\ pc[b] = "scanning" /\ job[b].batch = {} /\ UNCHANGED <<rows, stamp, job>>
        /\ at'[b] = 1
        /\ \/ pc'[b] = "failed"
           \/ pc'[b] = "comparing" /\ job[b].missing
           \/ pc'[b] = "staling"
    BY <1>0, <1>9 DEF ScanEnds, Enter, TypeOK
  <2>2. Holds(b)'
    BY <1>1, <2>1 DEF Loading, Holds
  <2>3. \A s \in Stores : ~(s < 1)
    BY DEF Stores
  <2> QED
    BY <2>1, <2>2, <2>3 DEF Restoring, Loading, Purging, Publishing
<1> QED
  BY <1>3, <1>4, <1>5, <1>6, <1>7, <1>8, <1>9

LEMMA FinishRestores ==
  ASSUME TypeOK, NEW b \in Rebuilds, Restoring(b),
         \/ ReadStale(b) \/ Purge(b) \/ ReadReceipts(b) \/ AcceptReceipts(b) \/ RejectReceipts(b)
         \/ FinalizeStore(b) \/ Fail(b) \/ ReturnSummary(b)
  PROVE  Restoring(b)'
<1> USE DEF store, process
<1>0. /\ b \in Processes /\ job[b] \in Job /\ job \in [Rebuilds -> Job]
      /\ {"purging", "comparing", "leaving"} \subseteq Phases
  BY DEF Processes, TypeOK, Job, Phases
<1>1. Purging(b) /\ Publishing(b)
  BY DEF Restoring
<1>2. ASSUME pc'[b] \in Stopped PROVE Restoring(b)'
  BY <1>2 DEF Restoring, Loading, Purging, Publishing, Stopped
<1>3. \A s \in Stores : ~(s < 1)
  BY DEF Stores
<1>4. CASE ReadStale(b)
  <2> DEFINE gone == rows[at[b]] \ job[b].valid
  <2>1. /\ pc[b] = "staling" /\ UNCHANGED <<rows, stamp>> /\ Advance(b, "purging")
        /\ job' = [job EXCEPT ![b] = [job[b] EXCEPT !.stale = [@ EXCEPT ![at[b]] = gone]]]
    BY <1>0, <1>4 DEF ReadStale
  <2>2. /\ at[b] \in Stores /\ job'[b].valid = job[b].valid
        /\ job'[b].stale = [job[b].stale EXCEPT ![at[b]] = gone]
    BY <1>0, <2>1 DEF Job, TypeOK
  <2>3. job'[b].stale[at[b]] = gone /\ \A s \in Stores \ {at[b]} : job'[b].stale[s] = job[b].stale[s]
    BY <1>0, <2>2 DEF Job
  <2>4. Holds(b)'
    BY <1>1, <2>1, <2>2 DEF Publishing, Holds
  <2>5. \/ pc'[b] = "staling" /\ \A s \in Stores : s < at'[b] => s < at[b] \/ s = at[b]
        \/ pc'[b] = "purging" /\ \A s \in Stores : (s < at[b] \/ s = at[b]) /\ ~(s < at'[b])
    BY <1>0, <2>1, LoopEffect
  <2>6. Purging(b)'
    <3>1. CASE pc'[b] = "staling" /\ \A s \in Stores : s < at'[b] => s < at[b] \/ s = at[b]
      <4>1. ASSUME NEW s \in Stores, s < at'[b]
            PROVE  job'[b].stale[s] = rows'[s] \ job'[b].valid
        <5>1. CASE s = at[b]
          BY <2>1, <2>2, <2>3, <5>1
        <5>2. CASE s # at[b]
          <6>1. s < at[b]
            BY <3>1, <4>1, <5>2
          <6>2. job[b].stale[s] = rows[s] \ job[b].valid
            BY <1>1, <2>1, <6>1 DEF Purging
          <6> QED
            BY <2>1, <2>2, <2>3, <5>2, <6>2
        <5> QED
          BY <5>1, <5>2
      <4> QED
        BY <3>1, <4>1 DEF Purging
    <3>2. CASE pc'[b] = "purging" /\ \A s \in Stores : (s < at[b] \/ s = at[b]) /\ ~(s < at'[b])
      <4>1. ASSUME NEW s \in Stores PROVE job'[b].stale[s] = rows'[s] \ job'[b].valid
        <5>1. CASE s = at[b]
          BY <2>1, <2>2, <2>3, <5>1
        <5>2. CASE s # at[b]
          <6>1. s < at[b]
            BY <3>2, <5>2
          <6>2. job[b].stale[s] = rows[s] \ job[b].valid
            BY <1>1, <2>1, <6>1 DEF Purging
          <6> QED
            BY <2>1, <2>2, <2>3, <5>2, <6>2
        <5> QED
          BY <5>1, <5>2
      <4> QED
        BY <3>2, <4>1 DEF Purging
    <3> QED
      BY <2>5, <3>1, <3>2
  <2> QED
    BY <2>4, <2>5, <2>6 DEF Restoring, Loading, Publishing
<1>5. CASE Purge(b)
  <2>1. /\ pc[b] = "purging" /\ UNCHANGED job /\ Advance(b, "comparing")
        /\ Put(b, rows[at[b]] \ job[b].stale[at[b]])
    BY <1>5 DEF Purge
  <2>2. /\ at[b] \in Stores /\ rows'[at[b]] = rows[at[b]] \ job[b].stale[at[b]]
        /\ \A s \in Stores \ {at[b]} : rows'[s] = rows[s]
    BY <1>0, <2>1 DEF Put, TypeOK
  <2>i. at[b] \in Nat /\ ~(at[b] < at[b])
    BY <2>2 DEF Stores
  <2>3. \A s \in Stores : job[b].valid \subseteq rows[s]
    BY <1>1, <2>1 DEF Publishing, Holds
  <2>4. job[b].stale[at[b]] = rows[at[b]] \ job[b].valid
    BY <1>1, <2>1, <2>2, <2>i DEF Purging
  <2>5. rows'[at[b]] = job[b].valid
    BY <2>2, <2>3, <2>4
  <2>6. \A s \in Stores : s < at[b] \/ s = at[b] => rows'[s] = job[b].valid
    BY <1>1, <2>1, <2>2, <2>5 DEF Purging
  <2>7. Holds(b)'
    BY <2>1, <2>2, <2>3, <2>5 DEF Holds
  <2>8. \/ /\ pc'[b] = "purging"
           /\ \A s \in Stores : s < at'[b] => s < at[b] \/ s = at[b]
           /\ \A s \in Stores : ~(s < at'[b]) => ~(s < at[b]) /\ s # at[b]
        \/ pc'[b] = "comparing" /\ \A s \in Stores : s < at[b] \/ s = at[b]
    BY <1>0, <2>1, LoopEffect
  <2>9. CASE /\ pc'[b] = "purging"
             /\ \A s \in Stores : s < at'[b] => s < at[b] \/ s = at[b]
             /\ \A s \in Stores : ~(s < at'[b]) => ~(s < at[b]) /\ s # at[b]
    <3>1. \A s \in Stores : ~(s < at'[b]) => job[b].stale[s] = rows[s] \ job[b].valid /\ rows'[s] = rows[s]
      BY <1>1, <2>1, <2>2, <2>9 DEF Purging
    <3>2. Purging(b)'
      BY <2>1, <2>6, <2>9, <3>1 DEF Purging
    <3> QED
      BY <2>7, <2>9, <3>2 DEF Restoring, Loading, Publishing
  <2>10. CASE pc'[b] = "comparing" /\ \A s \in Stores : s < at[b] \/ s = at[b]
    <3>1. HoldsOnly(b)'
      BY <2>1, <2>6, <2>10 DEF HoldsOnly
    <3> QED
      BY <2>7, <2>10, <3>1 DEF Restoring, Loading, Purging, Publishing
  <2> QED
    BY <2>8, <2>9, <2>10
<1>6. CASE ReadReceipts(b)
  <2>1. pc[b] = "comparing" /\ UNCHANGED <<rows, stamp, job, pc>>
    BY <1>6 DEF ReadReceipts
  <2> QED
    BY <1>1, <2>1 DEF Restoring, Loading, Purging, Publishing, Holds, HoldsOnly
<1>7. CASE AcceptReceipts(b)
  <2>1. pc[b] = "comparing" /\ UNCHANGED <<rows, stamp, job>> /\ pc'[b] = "finalizing" /\ at'[b] = 1
    BY <1>0, <1>7 DEF AcceptReceipts, Enter, TypeOK
  <2> QED
    BY <1>1, <1>3, <2>1 DEF Restoring, Loading, Purging, Publishing, Holds, HoldsOnly
<1>8. CASE RejectReceipts(b) \/ Fail(b) \/ ReturnSummary(b)
  <2>1. pc'[b] \in Stopped
    BY <1>0, <1>8 DEF RejectReceipts, Fail, ReturnSummary, Abandon, Enter, Stopped, TypeOK
  <2> QED
    BY <1>2, <2>1
<1>9. CASE FinalizeStore(b)
  <2>1. /\ pc[b] = "finalizing" /\ UNCHANGED <<rows, job>> /\ Advance(b, "leaving")
        /\ stamp' = [stamp EXCEPT ![at[b]] = Own(b)]
    BY <1>9 DEF FinalizeStore, Own
  <2>2. at[b] \in Stores /\ stamp'[at[b]] = Own(b) /\ \A s \in Stores \ {at[b]} : stamp'[s] = stamp[s]
    BY <1>0, <2>1 DEF TypeOK
  <2>3. Own(b)' = Own(b)
    BY OwnIsFixed
  <2>4. Holds(b)' /\ (~job'[b].missing => HoldsOnly(b)')
    BY <1>1, <2>1 DEF Publishing, Holds, HoldsOnly
  <2>5. \A s \in Stores : s < at[b] \/ s = at[b] => stamp'[s] = Own(b)
    BY <1>1, <2>1, <2>2 DEF Publishing
  <2>6. \/ pc'[b] = "finalizing" /\ \A s \in Stores : s < at'[b] => s < at[b] \/ s = at[b]
        \/ pc'[b] = "leaving" /\ \A s \in Stores : s < at[b] \/ s = at[b]
    BY <1>0, <2>1, LoopEffect
  <2>7. Publishing(b)'
    BY <2>3, <2>4, <2>5, <2>6 DEF Publishing
  <2> QED
    BY <2>6, <2>7 DEF Restoring, Loading, Purging
<1> QED
  BY <1>4, <1>5, <1>6, <1>7, <1>8, <1>9

\* A process that goes on or enters a phase moves itself only.
LEMMA EnterAlone ==
  ASSUME TypeOK, NEW p \in Processes, NEW q \in Processes \ {p}, NEW phase, Enter(q, phase)
  PROVE  pc'[p] = pc[p] /\ at'[p] = at[p]
BY DEF Enter, TypeOK

LEMMA AdvanceAlone ==
  ASSUME TypeOK, NEW p \in Processes, NEW q \in Processes \ {p}, NEW phase, Advance(q, phase)
  PROVE  pc'[p] = pc[p] /\ at'[p] = at[p]
<1>1. CASE at[q] < LastStore
  BY <1>1 DEF Advance, TypeOK
<1>2. CASE ~(at[q] < LastStore)
  BY <1>2, EnterAlone DEF Advance
<1> QED
  BY <1>1, <1>2

LEMMA RebuildMovesAlone ==
  ASSUME TypeOK, NEW p \in Processes, NEW q \in Processes \ {p},
         RebuildStep(q) \/ \E missing \in BOOLEAN : StartRebuild(q, missing)
  PROVE  pc'[p] = pc[p] /\ at'[p] = at[p]
<1> USE DEF process
<1>1. CASE \E missing \in BOOLEAN : StartRebuild(q, missing)
  BY <1>1, EnterAlone DEF StartRebuild
<1>2. CASE InitializeStore(q) \/ ReadKeys(q) \/ WriteBatch(q)
  BY <1>2, AdvanceAlone DEF InitializeStore, ReadKeys, WriteBatch
<1>3. CASE ReadStale(q) \/ Purge(q) \/ FinalizeStore(q)
  BY <1>3, AdvanceAlone DEF ReadStale, Purge, FinalizeStore
<1>4. CASE FlushBatch(q) \/ ScanEnds(q) \/ ReturnSummary(q)
  BY <1>4, EnterAlone DEF FlushBatch, ScanEnds, ReturnSummary
<1>5. CASE AcceptReceipts(q) \/ RejectReceipts(q)
  BY <1>5, EnterAlone DEF AcceptReceipts, RejectReceipts, Abandon
<1>6. CASE ReadReceipts(q)
  BY <1>6 DEF ReadReceipts, TypeOK
<1>7. CASE \E r \in Runs : ScanRun(q, r)
  BY <1>7 DEF ScanRun
<1> QED
  BY <1>1, <1>2, <1>3, <1>4, <1>5, <1>6, <1>7 DEF RebuildStep

LEMMA RestoresNext ==
  ASSUME ~Overlap, TypeOK, SafeInv, RestoreInv, [Next]_vars
  PROVE  RestoreInv'
<1> USE DEF store, process
<1> SUFFICES ASSUME NEW b \in Rebuilds PROVE Restoring(b)'
  BY DEF RestoreInv
<1>0. Restoring(b) /\ b \in Processes
  BY DEF RestoreInv, Processes
<1>1. ASSUME pc'[b] = pc[b], at'[b] = at[b], job'[b] = job[b], UNCHANGED <<rows, stamp>>
      PROVE  Restoring(b)'
  BY <1>0, <1>1, OthersRestore
\* While another process is at work, b is not.
<1>2. ASSUME NEW p \in Processes \ {b}, pc[p] \notin Stopped,
             pc'[b] = pc[b], at'[b] = at[b], job'[b] = job[b]
      PROVE  Restoring(b)'
  <2>1. pc[b] \in Stopped
    BY <1>0, <1>2 DEF SafeInv, Exclusive
  <2> QED
    BY <1>0, <1>2, <2>1, OthersRestore
<1>3. ASSUME NEW r \in Runs, Produce(r) \/ Remove(r) PROVE Restoring(b)'
  BY <1>1, <1>3 DEF Produce, Remove
<1>4. ASSUME NEW r \in Runs, StartIngest(r) \/ IngestStep(r) PROVE Restoring(b)'
  <2>0. r \in Processes \ {b}
    BY ProcessesDiffer DEF Processes
  <2>1. pc'[b] = pc[b] /\ at'[b] = at[b]
    BY <1>0, <1>4, <2>0 DEF StartIngest, IngestStep, AcquireLock, BeginWrite, WriteRun, ReadReceipts,
       AcceptReceipts, RejectReceipts, Abandon, FinalizeStore, Busy, ReturnReceipts, Enter, Advance, TypeOK
  <2>2. job'[b] = job[b]
    BY <1>4, <2>0 DEF StartIngest, IngestStep, AcquireLock, BeginWrite, WriteRun, ReadReceipts,
       AcceptReceipts, RejectReceipts, Abandon, Forget, FinalizeStore, Busy, ReturnReceipts
  <2>3. UNCHANGED <<rows, stamp>> \/ pc[r] \notin Stopped
    BY <1>4 DEF StartIngest, IngestStep, AcquireLock, BeginWrite, WriteRun, ReadReceipts,
       AcceptReceipts, RejectReceipts, Abandon, FinalizeStore, Busy, ReturnReceipts, Stopped
  <2> QED
    BY <1>1, <1>2, <2>0, <2>1, <2>2, <2>3
<1>5. ASSUME NEW q \in Rebuilds, q # b,
             RebuildStep(q) \/ \E missing \in BOOLEAN : StartRebuild(q, missing)
      PROVE  Restoring(b)'
  <2>0. q \in Processes \ {b}
    BY <1>5 DEF Processes
  <2>1. pc'[b] = pc[b] /\ at'[b] = at[b]
    BY <1>0, <1>5, <2>0, RebuildMovesAlone
  <2>2. job'[b] = job[b]
    BY <1>5, <2>0 DEF StartRebuild, RebuildStep, InitializeStore, ReadKeys, FlushBatch, WriteBatch,
       ScanEnds, ReadStale, Purge, ReadReceipts, AcceptReceipts, RejectReceipts, Abandon, Forget,
       FinalizeStore, ReturnSummary, ScanRun, TypeOK
  <2>3. UNCHANGED <<rows, stamp>> \/ pc[q] \notin Stopped
    BY <1>5 DEF StartRebuild, RebuildStep, InitializeStore, ReadKeys, FlushBatch, WriteBatch,
       ScanEnds, ReadStale, Purge, ReadReceipts, AcceptReceipts, RejectReceipts, Abandon,
       FinalizeStore, ReturnSummary, ScanRun, Stopped
  <2> QED
    BY <1>1, <1>2, <2>0, <2>1, <2>2, <2>3
<1>6. ASSUME RebuildStep(b) \/ \E missing \in BOOLEAN : StartRebuild(b, missing)
      PROVE  Restoring(b)'
  BY <1>0, <1>6, LoadRestores, FinishRestores DEF RebuildStep
<1>7. ASSUME NEW p \in Processes, Fail(p) PROVE Restoring(b)'
  <2>1. CASE p = b
    BY <1>0, <1>7, <2>1, FinishRestores
  <2>2. CASE p # b
    <3>1. pc'[b] = pc[b] /\ at'[b] = at[b] /\ job'[b] = job[b] /\ UNCHANGED <<rows, stamp>>
      BY <1>0, <1>7, <2>2 DEF Fail, Abandon, Enter, Forget, TypeOK
    <3> QED
      BY <1>1, <3>1
  <2> QED
    BY <2>1, <2>2
<1>8. CASE \/ ReadBefore \/ ReadRows \/ ReadAfter \/ \E r \in Verified : StartRead(r)
           \/ UNCHANGED vars
  BY <1>1, <1>8 DEF ReadBefore, ReadRows, ReadAfter, StartRead, vars
<1> QED
  BY <1>3, <1>4, <1>5, <1>6, <1>7, <1>8 DEF Next

LEMMA RestoresInit == Init => RestoreInv
<1> SUFFICES ASSUME Init, NEW b \in Rebuilds PROVE Restoring(b)
  BY DEF RestoreInv
<1>1. pc[b] \in Stopped
  BY DEF Init, Stopped, Processes
<1> QED
  BY <1>1, IdleRestores

LEMMA ReturnIsSummary ==
  ASSUME TypeOK, [Next]_vars, NEW b \in Rebuilds, pc[b] # "returned", pc'[b] = "returned"
  PROVE  pc[b] = "leaving"
<1> USE DEF store, process
<1>0. b \in Processes /\ b \notin Runs
  BY ProcessesDiffer DEF Processes
<1>1. ASSUME NEW r \in Runs, Produce(r) \/ Remove(r) \/ StartIngest(r) \/ IngestStep(r) PROVE FALSE
  BY <1>0, <1>1 DEF Produce, Remove, StartIngest, IngestStep, AcquireLock, BeginWrite, WriteRun,
     ReadReceipts, AcceptReceipts, RejectReceipts, Abandon, FinalizeStore, Busy, ReturnReceipts,
     Enter, Advance, TypeOK
<1>2. ASSUME NEW q \in Rebuilds,
             RebuildStep(q) \/ \E missing \in BOOLEAN : StartRebuild(q, missing)
      PROVE  pc[b] = "leaving"
  <2>0. q \in Processes /\ pc \in [Processes -> Phases]
    BY DEF Processes, TypeOK
  <2>1. ASSUME NEW phase, phase # "returned", Advance(q, phase) \/ Enter(q, phase) PROVE FALSE
    BY <1>0, <2>0, <2>1 DEF Advance, Enter
  <2>2. CASE \E missing \in BOOLEAN : StartRebuild(q, missing)
    BY <2>1, <2>2 DEF StartRebuild
  <2>3. CASE InitializeStore(q) \/ ReadKeys(q) \/ FlushBatch(q) \/ WriteBatch(q) \/ ScanEnds(q)
    BY <2>1, <2>3 DEF InitializeStore, ReadKeys, FlushBatch, WriteBatch, ScanEnds
  <2>4. CASE ReadStale(q) \/ Purge(q) \/ AcceptReceipts(q) \/ RejectReceipts(q) \/ FinalizeStore(q)
    BY <2>1, <2>4 DEF ReadStale, Purge, AcceptReceipts, RejectReceipts, Abandon, FinalizeStore
  <2>5. CASE ReadReceipts(q) \/ \E r \in Runs : ScanRun(q, r)
    BY <2>5 DEF ReadReceipts, ScanRun
  <2>6. CASE ReturnSummary(q)
    BY <1>0, <2>0, <2>6 DEF ReturnSummary, Enter
  <2> QED
    BY <1>2, <2>2, <2>3, <2>4, <2>5, <2>6 DEF RebuildStep
<1>3. ASSUME NEW p \in Processes, Fail(p) PROVE FALSE
  BY <1>0, <1>3 DEF Fail, Abandon, Enter, TypeOK
<1>4. CASE \/ ReadBefore \/ ReadRows \/ ReadAfter \/ \E r \in Verified : StartRead(r)
           \/ UNCHANGED vars
  BY <1>4 DEF ReadBefore, ReadRows, ReadAfter, StartRead, vars
<1> QED
  BY <1>1, <1>2, <1>3, <1>4 DEF Next

(* A rebuild that returns has repaired what failed writers left: its own   *)
(* generation is complete in every store, no store lacks a run its scan    *)
(* found valid and, unless it only adds what is missing, none holds        *)
(* another, for any batch size, stores, runs and earlier failures, as long *)
(* as maintenance does not overlap (_finish_dl_reconciliation, ingest.py). *)
THEOREM RebuildsRestore ==
  ASSUME ~Overlap
  PROVE  Spec => RebuildRestores
<1> DEFINE I == TypeOK /\ SafeInv /\ RestoreInv
           Repaired == \A b \in Rebuilds : pc[b] # "returned" /\ pc'[b] = "returned" =>
             \A s \in Stores : /\ stamp[s] = [generation |-> GenerationOf(b), state |-> "complete"]
                               /\ job[b].valid \subseteq rows[s]
                               /\ ~job[b].missing => rows[s] = job[b].valid
<1>1. Init => I
  BY InitTypes, InitSafe, RestoresInit
<1>2. I /\ [Next]_vars => I'
  BY NextTypes, NextSafe, RestoresNext
<1>3. I /\ [Next]_vars => [Repaired]_vars
  <2> SUFFICES ASSUME I, [Next]_vars, NEW b \in Rebuilds, pc[b] # "returned", pc'[b] = "returned"
               PROVE  Publishing(b) /\ pc[b] = "leaving"
    BY DEF Publishing, Holds, HoldsOnly, Own
  <2> QED
    BY ReturnIsSummary DEF RestoreInv, Restoring
<1>4. RebuildRestores <=> [][Repaired]_vars
  BY DEF RebuildRestores
<1> HIDE DEF Repaired, I
<1> QED
  BY <1>1, <1>2, <1>3, <1>4, PTL DEF Spec
=============================================================================

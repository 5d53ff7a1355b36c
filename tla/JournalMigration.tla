-------------------------- MODULE JournalMigration --------------------------
(***************************************************************************)
(* Conversion of the raw DL databases from WAL to DELETE journaling        *)
(* (scripts/cval-sqlite-journal.py --apply): under the metric lock each    *)
(* database is backed up, the backup verified and recorded in the          *)
(* manifest, and only then converted.  An ingestion that takes the same    *)
(* lock may run before, after or into it; a rebuild takes no lock, and     *)
(* that none runs is what --confirm-quiesced writers-stopped promises.     *)
(*                                                                         *)
(* The evidence of a database (schema, receipts, generation, last rows) is *)
(* its generation and state; every publication writes a new generation.    *)
(***************************************************************************)
EXTENDS NoValue, Naturals

CONSTANTS
  LastDatabase,  \* the databases, in the order of COMPONENTS
  Migrations,    \* invocations with --apply, each with a --backup-root of its own
  Ingestions    \* runs that publish their metrics

Databases == 1..LastDatabase
Evidence == [generation : Ingestions \cup {None}, state : {"in_progress", "complete"}]
JournalManifests == [listed : SUBSET Databases, converted : SUBSET Databases]

ASSUME JournalBounds == LastDatabase \in Nat \ {0}
ASSUME HoldersDiffer ==
  None \notin Migrations \cup Ingestions \cup JournalManifests /\ Migrations \cap Ingestions = {}

VARIABLES
  content,    \* per database: its evidence
  mode,       \* per database: its journal mode
  metricLock, \* holder of .dl-metric-ingest.lock
  backups,    \* per migration and database: the evidence in the backup file, or None
  manifests,  \* per migration: databases recorded and recorded as converted, or None
  migration,  \* per migration: its phase, database, and evidence read
  ingestion   \* per ingestion: its phase and database

journalVars == <<content, mode, metricLock, backups, manifests, migration, ingestion>>
databases == <<content, mode>>

MigrationPhases == {"idle", "comparing", "compared", "verifying", "staged", "published",
                    "recorded", "checkpointed", "converted", "returned", "failed"}
Ended == {"idle", "returned", "failed"}

JournalInit ==
  /\ content \in [Databases -> [generation : {None}, state : {"in_progress", "complete"}]]
  /\ mode \in [Databases -> {"wal", "delete"}]
  /\ metricLock = None
  /\ backups = [m \in Migrations |-> [d \in Databases |-> None]]
  /\ manifests = [m \in Migrations |-> None]
  /\ migration = [m \in Migrations |-> [phase |-> "idle", at |-> 1, read |-> None]]
  /\ ingestion = [i \in Ingestions |-> [phase |-> "idle", at |-> 1]]

Go(m, phase, at, read) ==
  migration' = [migration EXCEPT ![m] = [phase |-> phase, at |-> at, read |-> read]]
At(m) == migration[m].at
MigrationIn(m, phase) == migration[m].phase = phase

LockAnyway(m) ==
  /\ MigrationIn(m, "idle")
  /\ metricLock' = m /\ Go(m, "comparing", 1, None)
  /\ UNCHANGED <<databases, backups, manifests, ingestion>>

\* LOCK_NB: a held lock is an error, never a wait.
Lock(m) ==
  /\ MigrationIn(m, "idle") /\ metricLock = None
  /\ metricLock' = m /\ Go(m, "comparing", 1, None)
  /\ UNCHANGED <<databases, backups, manifests, ingestion>>

\* All generations are read, one database after the other; they must agree and be complete.
CompareGenerations(m) ==
  /\ MigrationIn(m, "comparing")
  /\ content[At(m)].state = "complete"
  /\ At(m) > 1 => content[At(m)] = migration[m].read
  /\ IF At(m) < LastDatabase THEN Go(m, "comparing", At(m) + 1, content[At(m)])
                             ELSE Go(m, "compared", 1, None)
  /\ UNCHANGED <<databases, metricLock, backups, manifests, ingestion>>

\* mkdir(exist_ok=False) and an empty manifest.
MakeBackupRoot(m) ==
  /\ MigrationIn(m, "compared") /\ manifests[m] = None
  /\ manifests' = [manifests EXCEPT ![m] = [listed |-> {}, converted |-> {}]]
  /\ Go(m, "verifying", 1, None)
  /\ UNCHANGED <<databases, metricLock, backups, ingestion>>

ReadEvidence(m) ==
  /\ MigrationIn(m, "verifying") /\ content[At(m)].state = "complete"
  /\ Go(m, "staged", At(m), content[At(m)])
  /\ UNCHANGED <<databases, metricLock, backups, manifests, ingestion>>

\* The staged copy has the evidence read before, and is published by an exclusive create.
PublishBackup(m) ==
  /\ MigrationIn(m, "staged") /\ backups[m][At(m)] = None
  /\ content[At(m)] = migration[m].read
  /\ backups' = [backups EXCEPT ![m][At(m)] = content[At(m)]]
  /\ Go(m, "published", At(m), migration[m].read)
  /\ UNCHANGED <<databases, metricLock, manifests, ingestion>>

RecordBackup(m) ==
  /\ MigrationIn(m, "published")
  /\ manifests' = [manifests EXCEPT ![m].listed = @ \cup {At(m)}]
  /\ Go(m, "recorded", At(m), migration[m].read)
  /\ UNCHANGED <<databases, metricLock, backups, ingestion>>

\* wal_checkpoint(TRUNCATE) reports a busy database, and the migration stops.
Writing(d) == \E i \in Ingestions : ingestion[i] = [phase |-> "writing", at |-> d]

Checkpoint(m) ==
  /\ MigrationIn(m, "recorded") /\ ~Writing(At(m))
  /\ Go(m, "checkpointed", At(m), migration[m].read)
  /\ UNCHANGED <<databases, metricLock, backups, manifests, ingestion>>

\* PRAGMA journal_mode=DELETE: from here the file is another format.
ConvertDatabase(m) ==
  /\ MigrationIn(m, "checkpointed")
  /\ mode' = [mode EXCEPT ![At(m)] = "delete"]
  /\ Go(m, "converted", At(m), migration[m].read)
  /\ UNCHANGED <<content, metricLock, backups, manifests, ingestion>>

\* The evidence and the inode are still the same; `converted` is saved.
RecordConversion(m) ==
  LET last == At(m) = LastDatabase IN
  /\ MigrationIn(m, "converted") /\ content[At(m)] = migration[m].read
  /\ manifests' = [manifests EXCEPT ![m].converted = @ \cup {At(m)}]
  /\ IF last THEN Go(m, "returned", 1, None) ELSE Go(m, "verifying", At(m) + 1, None)
  /\ metricLock' = IF last THEN None ELSE metricLock
  /\ UNCHANGED <<databases, backups, ingestion>>

\* A refusal, a deadline, an error or a crash: nothing is undone, and the lock goes with its
\* descriptor.  Another migration needs another backup root.
StopMigration(m) ==
  /\ migration[m].phase \notin Ended
  /\ metricLock' = None /\ Go(m, "failed", 1, None)
  /\ UNCHANGED <<databases, backups, manifests, ingestion>>

(***************************************************************************)
(* An ingestion: every database gets the unfinished generation, then every *)
(* database is stamped complete, all under the lock.                       *)
(***************************************************************************)
StartIngestion(i) ==
  /\ ingestion[i].phase = "idle" /\ metricLock = None
  /\ metricLock' = i
  /\ ingestion' = [ingestion EXCEPT ![i] = [phase |-> "writing", at |-> 1]]
  /\ UNCHANGED <<databases, backups, manifests, migration>>

WriteDatabase(i) ==
  LET d == ingestion[i].at
      finalizing == ingestion[i].phase = "finalizing"
      last == d = LastDatabase IN
  /\ ingestion[i].phase \in {"writing", "finalizing"}
  /\ content' = [content EXCEPT ![d] = [generation |-> i,
                   state |-> IF finalizing THEN "complete" ELSE "in_progress"]]
  /\ ingestion' = [ingestion EXCEPT ![i] =
       CASE ~last -> [phase |-> @.phase, at |-> d + 1]
         [] last /\ ~finalizing -> [phase |-> "finalizing", at |-> 1]
         [] OTHER -> [phase |-> "returned", at |-> 1]]
  /\ metricLock' = IF last /\ finalizing THEN None ELSE metricLock
  /\ UNCHANGED <<mode, backups, manifests, migration>>

StopIngestion(i) ==
  /\ ingestion[i].phase \in {"writing", "finalizing"}
  /\ ingestion' = [ingestion EXCEPT ![i] = [phase |-> "failed", at |-> 1]]
  /\ metricLock' = None
  /\ UNCHANGED <<databases, backups, manifests, migration>>

JournalNext ==
  \/ \E m \in Migrations :
       \/ Lock(m) \/ CompareGenerations(m) \/ MakeBackupRoot(m) \/ ReadEvidence(m)
       \/ PublishBackup(m) \/ RecordBackup(m) \/ Checkpoint(m) \/ ConvertDatabase(m)
       \/ RecordConversion(m) \/ StopMigration(m)
  \/ \E i \in Ingestions : StartIngestion(i) \/ WriteDatabase(i) \/ StopIngestion(i)

JournalSpec == JournalInit /\ [][JournalNext]_journalVars

-----------------------------------------------------------------------------
JournalTypeOK ==
  /\ content \in [Databases -> Evidence] /\ mode \in [Databases -> {"wal", "delete"}]
  /\ metricLock \in Migrations \cup Ingestions \cup {None}
  /\ backups \in [Migrations -> [Databases -> Evidence \cup {None}]]
  /\ manifests \in [Migrations -> JournalManifests \cup {None}]
  /\ migration \in [Migrations -> [phase : MigrationPhases, at : Databases,
                                   read : Evidence \cup {None}]]
  /\ ingestion \in [Ingestions ->
       [phase : {"idle", "writing", "finalizing", "returned", "failed"}, at : Databases]]

\* A database changes its journal mode only while a manifest on disk lists a backup with exactly the
\* evidence the database has at that moment, and all backups that manifest lists are of one complete
\* generation: whenever the migration dies, what was converted can be put back as one set, although
\* the databases are read and converted one after the other and ingestions come in between runs.
ConvertsWhatIsBackedUp ==
  \A d \in Databases : mode'[d] # mode[d] =>
    \E m \in Migrations :
      /\ manifests[m] # None /\ d \in manifests[m].listed
      /\ backups[m][d] = content[d]
      /\ \A e \in manifests[m].listed :
           backups[m][e] = content[d] /\ content[d].state = "complete"
ConversionIsBackedUp == [][ConvertsWhatIsBackedUp]_journalVars
=============================================================================

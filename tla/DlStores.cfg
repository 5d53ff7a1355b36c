SPECIFICATION FairSpec
CONSTANTS
  Runs = {"a", "b"}
  Rebuilds = {"m1", "m2"}
  Verified = {"a"}
  LastStore = 3
  DL_INGEST_BATCH_RUNS = 1
  Attempts = 2
  Overlap = FALSE
  None = None
CONSTRAINT SecondRebuildOrReader
INVARIANTS ConclusiveIsUniform CompleteMeansEqual ConfirmedIsStored
PROPERTIES IngestionEnds RebuildRestores
CHECK_DEADLOCK FALSE

SPECIFICATION Spec
CONSTANTS
  Runs = {"a", "b"}
  Rebuilds = {"m1"}
  Verified = {}
  LastStore = 2
  DL_INGEST_BATCH_RUNS = 1
  Attempts = 2
  Overlap = TRUE
  None = None
INVARIANT CompleteMeansEqual
CHECK_DEADLOCK FALSE

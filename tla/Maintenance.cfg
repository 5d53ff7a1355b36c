SPECIFICATION Spec
CONSTANTS
  None = None
  LastEntry = 2
  Archives = {"a1", "a2"}
  Operators = {"o1", "o2"}
  MaxWrites = 1
  LastOperation = 2
  Nested = {1}
  Backups = {c1, c2}
  Movers = {m1, m2}
  MaxEdits = 1
  LastFile = 2
  BackupRuns = {"r1", "r2"}
  Names = {"n1"}
  MaxChanges = 2
  LastDatabase = 4
  Migrations = {"g1", "g2"}
  Ingestions = {"i1", "i2"}
  LastAttempt = 2
  Machines = {"n1", "n2"}
  Recorders = {"run"}
  Refreshers = {"watch"}
  LastSession = 2
  MachineOf <- OneMachine
  Inventories <- FoundNodes
  c1 = c1
  c2 = c2
  m1 = m1
  m2 = m2
SYMMETRY Symmetry
INVARIANTS EvidenceIsAccounted RollbackIsPossible
  ConsolidationIsReversible MovesAreBackedUp VerifiedIsSnapshot PublishedPairIsWhole
PROPERTIES ReturnedBackupStays ConversionIsBackedUp UnresolvedAttemptStaysListed
CHECK_DEADLOCK FALSE

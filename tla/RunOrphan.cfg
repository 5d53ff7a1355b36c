SPECIFICATION Spec
CONSTANTS
  Enabled = {1, 2, 3}
  Stores = {"storage", "nccl", "numerical", "compute", "absent"}
  Owner <- MCOwner
  Validation = "validation"
  None = None
INVARIANT NoBenchmarkOutlivesItsStage
CHECK_DEADLOCK FALSE

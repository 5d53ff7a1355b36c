SPECIFICATION Spec
CONSTANTS
  Enabled = {1, 2, 3}
  Stores = {"storage", "nccl", "numerical", "compute", "absent"}
  Owner <- MCOwner
  Validation = "validation"
  None = None
INVARIANTS ClaimsAreTrue SuccessIsPublished ConfirmedIsTrue PublishedIsFinal
PROPERTIES ImplementsRunEvidence RunEnds
CHECK_DEADLOCK FALSE

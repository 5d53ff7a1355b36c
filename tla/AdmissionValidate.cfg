SPECIFICATION Spec
CONSTANTS
  Jobs = {"j1"}
  Nodes = {"n1", "n2", "n3"}
  NodeOf <- MCNodeOf
  Runners = {}
  Validators = {"v1"}
  Helpers = {"h1"}
  Budget = 2
  Cooldown = 0
  MaxNow = 1
  Faults = {"crash", "lost", "late", "tamper", "delete", "replace", "prune", "unavailable", "write"}
INVARIANTS ReservationCoversWork OneIdentity

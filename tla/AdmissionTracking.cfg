SPECIFICATION FairSpec
CONSTANTS
  Jobs = {"j1","j3","j4"}
  Nodes = {"n1", "n2", "n3"}
  NodeOf <- MCNodeOf
  Runners = {"r1"}
  Validators = {}
  Helpers = {}
  Budget = 2
  Cooldown = 0
  MaxNow = 1
  Faults = {"lost","late"}
INVARIANTS BudgetRespected
PROPERTIES CreateNeedsSettledLedger LockIsReleased JobIsEventuallyReleased

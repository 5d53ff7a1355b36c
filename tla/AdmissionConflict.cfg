SPECIFICATION FairSpec
CONSTANTS
  Jobs = {"j1"}
  Nodes = {"n1", "n2", "n3"}
  NodeOf <- MCNodeOf
  Runners = {}
  Validators = {"v1"}
  Helpers = {"h1"}
  Budget = 1
  Cooldown = 0
  MaxNow = 1
  Faults = {"delete"}
PROPERTIES ConflictIsRetained

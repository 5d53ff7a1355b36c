SPECIFICATION Spec
CONSTANTS
  Jobs = {"j1", "j2"}
  Nodes = {"n1", "n2", "n3"}
  NodeOf <- MCNodeOf
  Runners = {"r1"}
  Validators = {}
  Helpers = {"h1"}
  Budget = 2
  Cooldown = 2
  MaxNow = 3
  Faults = {"crash", "write", "lost", "late", "unavailable", "delete"}
INVARIANTS CreatedAtMostOnce NodeExclusive NotCreatedIsTrue CooldownHonoured AdmissionSeesFreshRows
PROPERTIES ConflictIsRetained ReleaseIsFinal ImplementsReservation

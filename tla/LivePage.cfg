SPECIFICATION FairLiveSpec
CONSTANTS
  LastNode = 2
  Contended = {}
  BATCH_SIZE = 2
  PlanLimit = 1
  Cooldown = FALSE
  Pruning = TRUE
  MaxFaults = 0
  None = None
PROPERTIES SlotSearchEnds

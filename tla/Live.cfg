SPECIFICATION FairLiveSpec
CONSTANTS
  LastNode = 3
  Contended = {1}
  BATCH_SIZE = 2
  PlanLimit = 0
  Cooldown = TRUE
  Pruning = TRUE
  MaxFaults = 1
  None = None
INVARIANTS CycleTracksEveryJob SlotsAreReal
PROPERTIES NoDueNodeStarves

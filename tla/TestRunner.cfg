SPECIFICATION RunnerSpec
CONSTANTS
  LastTest = 2
  MaxTime = 3
  Faults = {"signal", "error", "clock", "kill"}
  MaxFaults = 2
  None = None
INVARIANTS PassIsEarned ExitZeroIsFinal
PROPERTIES RunsAsChild
CHECK_DEADLOCK FALSE

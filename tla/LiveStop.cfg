\* Only a stop may come before the engine has settled.
CONSTANTS
  MaxRuns = 2
  MaxClears = 0
  Interrupts = {"stop"}
SPECIFICATION FairSpec
CHECK_DEADLOCK FALSE
INVARIANT StoppedMeansReleased

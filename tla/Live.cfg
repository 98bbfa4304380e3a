\* Four runs of the effect; every event may come before the engine has settled. It ends
\* when the bounds are used up.
CONSTANTS
  MaxRuns = 4
  MaxClears = 1
  Interrupts = {"start", "stop", "file", "device", "format", "failure", "clear"}
SPECIFICATION FairSpec
CHECK_DEADLOCK FALSE
INVARIANTS
  TypeOK
  RunningIsCapturing
  OneSessionPerGeneration
PROPERTY TransitionsEnd

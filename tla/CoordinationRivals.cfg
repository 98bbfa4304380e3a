\* Two rivals; the first may crash, and a third workbench, launched when it has ended,
\* finds the preparation it left behind. The second may fail to acknowledge, and a tray
\* action may fill a slot.
SPECIFICATION Spec
CONSTANTS
  a = a  b = b  c = c  o1 = o1  o2 = o2
  Workbench = {a, b, c}
  Operation = {o1, o2}
  Initially = {a, b}
  Attempt <- AOrBThenC
  Crashable = {a}
  Operated = {}
  Faulty = {b}
  TrayAction = {"applyPreset"}
  Prompt = TRUE
  NoTask = NoTask  NoOperation = NoOperation
CONSTRAINT Succession
INVARIANT OneOperation
INVARIANT LockHeldByLeader
INVARIANT OnePreparation
INVARIANT UnanimousReady
INVARIANT CaptureResumedWithoutCommit
CHECK_DEADLOCK FALSE

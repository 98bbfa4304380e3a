\* One operation among two workbenches; one user acts, both may crash, the tray quits one.
SPECIFICATION FairSpec
CONSTANTS
  a = a  b = b  c = c  o1 = o1  o2 = o2
  Workbench = {a, b}
  Operation = {o1}
  Initially = {a, b}
  Attempt <- OnlyA
  Crashable = {a, b}
  Operated = {b}
  Faulty = {}
  TrayAction = {"quitInstance"}
  Prompt = TRUE
  NoTask = NoTask  NoOperation = NoOperation
INVARIANT CaptureResumedWithoutCommit
PROPERTY CommitFindsPreparation
PROPERTY OperationsEnd
PROPERTY PreparationsEnd
PROPERTY MailboxDrains
CHECK_DEADLOCK FALSE

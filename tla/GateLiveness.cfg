\* Three processes, one helper; nothing is killed.
SPECIFICATION FairSpec
CONSTANTS
  a = a  b = b  c = c  x = x  y = y
  Workbench = {a, b, c}
  Helper = {x}
  CrashSteps = {}
PROPERTY EntryFreed
PROPERTY Reopens

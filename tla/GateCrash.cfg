\* Three processes, two helpers; anything may be killed anywhere.
SPECIFICATION Spec
CONSTANTS
  a = a  b = b  c = c  x = x  y = y
  Workbench = {a, b, c}
  Helper = {x, y}
  CrashSteps <- Anywhere
SYMMETRY Symmetry
INVARIANT AbortSparesInstaller
PROPERTY FenceSpec

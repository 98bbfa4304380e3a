\* The second save never overwrites the first silently.
CONSTANTS
  a = a
  b = b
  i = i
  j = j
  k = k
  None = None
  Workbenches = {a, b}
  Items <- ThreeItems
  Initially = 2
  MaxEdits = 2
  MaxFaults = 0
SPECIFICATION Spec
SYMMETRY Interchangeable
PROPERTY NoSilentOverwrite

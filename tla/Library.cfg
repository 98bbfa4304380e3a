\* Two workbenches change a Library of one item, or two, while they hydrate, and
\* one call fails. The answers arrive whatever the workbenches are doing.
CONSTANTS
  a = a
  b = b
  i = i
  j = j
  k = k
  None = None
  Workbenches = {a, b}
  Items <- TwoItems
  Initially = 1
  MaxEdits = 2
  MaxFaults = 1
SPECIFICATION Spec
SYMMETRY Interchangeable
INVARIANTS
  TypeOK
  BelievedIsStored
PROPERTY OnlyOvertakenOverwrite

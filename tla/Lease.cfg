\* Four launches, five generations, three failing file operations.
SPECIFICATION FairSpec
CONSTANTS
  a = a  b = b  c = c  d = d
  Workbench = {a, b, c, d}
  MaxGeneration = 5
  MaxFaults = 3
INVARIANT TypeOK
INVARIANT DescriptorIsCoordinators
PROPERTY Fenced
PROPERTY SomebodyCoordinates
CHECK_DEADLOCK FALSE

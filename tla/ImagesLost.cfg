SPECIFICATION Spec
CONSTANTS
  Images = {i1, i2}
  ReadMin = 3
  BatchInDb = 3
  MaxScripts = 3
  MaxFaults = 0
  MaxQueued = 3
SYMMETRY ImageSymmetry
CONSTRAINT QueueBound
CHECK_DEADLOCK FALSE
INVARIANTS
  AllPlotsReported


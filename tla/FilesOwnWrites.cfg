SPECIFICATION Spec
CONSTANTS
  a = a
  b = b
  Names <- MCNames
  LongNames = {}
  FirstId = 20
  BufUnits = 100
  MaxWrites = 1
  MaxRemovals = 0
  MaxForeign = 2
  MaxScripts = 1
  MaxFaults = 0
SYMMETRY Renaming
INVARIANT OwnWritesIgnored
CHECK_DEADLOCK FALSE

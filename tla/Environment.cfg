SPECIFICATION MCSpec
CONSTANTS
  x = x
  y = y
  Names <- MCNames
  MaxChanges = 5
  MaxCommands = 4
  kMaxLen = 2
  MaxDepth = 6
SYMMETRY Renaming
INVARIANTS
  TypeOK
  ClientAgrees
  DeltaExact
  OverflowNeedsCycle
  WritesEverything
CHECK_DEADLOCK FALSE

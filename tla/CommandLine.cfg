SPECIFICATION Spec
CONSTANTS
  Programs <- MCPrograms
  Numbers = {"0", "7"}
  IllFormed = {"xy"}
  MaxWords = 3
  MaxParses = 2
INVARIANTS
  TypeOK
  AcceptedIsComplete
  TakenOnce
CHECK_DEADLOCK FALSE

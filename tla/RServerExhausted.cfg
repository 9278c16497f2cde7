SPECIFICATION Spec
CONSTANTS
  Clients = {c1, c2, c3}
  MaxFds = 2
CHECK_DEADLOCK FALSE
INVARIANTS
  CanServeAgain

SPECIFICATION Spec
CONSTANTS
  Clients = {c1, c2, c3, c4}
  MaxFds = 3
CHECK_DEADLOCK FALSE
INVARIANTS
  TypeOK
  OneReaderPerClient
  OpenIsRead

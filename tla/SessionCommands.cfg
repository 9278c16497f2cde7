SPECIFICATION Spec
CONSTANTS
  Images = {}
  ReadMin = 2
  BatchInDb = 1
  MaxScripts = 2
  MaxFaults = 1
  ClientOps <- SessionOps
  UnknownAs <- CloseOrHelp
  MaxCommands = 4
  MaxROps = 2
  Notified = FALSE
  MaxMishaps = 1
CHECK_DEADLOCK FALSE
INVARIANTS
  TypeOK
  RepliesInOrder
  OutputTagged
  OutputBeforeAck
  DeltaSpansEvaluation
  ConsoleRestored
  CloseSaves
  AckScheduled

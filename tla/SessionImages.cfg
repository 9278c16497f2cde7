SPECIFICATION FairSpec
CONSTANTS
  Images = {i1}
  ReadMin = 1
  BatchInDb = 1
  MaxScripts = 2
  MaxFaults = 1
  ClientOps <- LoopOps
  UnknownAs <- CloseOrHelp
  MaxCommands = 3
  MaxROps = 3
  Notified = TRUE
  MaxMishaps = 1
CHECK_DEADLOCK FALSE
PROPERTIES
  AckSent
  LoopKeepsImageContract

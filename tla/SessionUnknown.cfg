SPECIFICATION Spec
CONSTANTS
  Images = {}
  ReadMin = 1
  BatchInDb = 1
  MaxScripts = 1
  MaxFaults = 0
  ClientOps <- UnknownOps
  UnknownAs <- CloseOrHelp
  MaxCommands = 2
  MaxROps = 0
  Notified = TRUE
  MaxMishaps = 0
CHECK_DEADLOCK FALSE
PROPERTIES
  UnknownIgnored

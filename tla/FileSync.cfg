SPECIFICATION Spec
CONSTANTS
  a = a
  b = b
  Names <- MCNames
  LongNames <- MCLong
  FirstId = 2
  BufUnits = 2
  MaxWrites = 1
  MaxRemovals = 1
  MaxForeign = 2
  MaxScripts = 2
  MaxFaults = 1
INVARIANTS
  TypeOK
  CacheCoherent
  DiskCoherent
  WatchLeadsBack
  CrashHasCause
PROPERTIES
  VersionGrows
  InotifyFirst
  NotificationsProcessed
CHECK_DEADLOCK FALSE

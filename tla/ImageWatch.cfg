SPECIFICATION Spec
CONSTANTS
  Images = {i1, i2}
  ReadMin = 2
  BatchInDb = 3
  MaxScripts = 2
  MaxFaults = 1
  MaxQueued = 3
SYMMETRY ImageSymmetry
CONSTRAINT QueueBound
CHECK_DEADLOCK FALSE
INVARIANTS
  TypeOK
  ReportedBatch
  ReportsDisjoint
  BatchAboveHistory
  ImageOfItsScript
  SurvivesAckedScripts
  LostOnlyIfUnseen

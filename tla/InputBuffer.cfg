SPECIFICATION Spec
CONSTANTS
  TextSizes = {1, 33}
  MaxFrames = 3
CHECK_DEADLOCK FALSE
INVARIANTS
  TypeOK
  MessagesWhole
  Aligned
PROPERTIES
  ImplementsChannel

\* A worker's readN() and sendN(): requests and responses in pieces.
SPECIFICATION FairSpec
CONSTANTS
  SizeBytes = 2
  Size = {0, 1, 3}
  ResponseSize = 3
  MaxFrames = 3
INVARIANTS
  TypeOK
  ResponseWhole
PROPERTIES
  ImplementsChannel
  WrittenIsServed
  BrokenIsLeft
CHECK_DEADLOCK FALSE

\* The client's MessageStream: pieces of every size.
CONSTANTS
  SizeBytes = 4
  MaxRead = 2
  Size <- MCSize
  MaxFrames = 3
  NULL = NULL
SPECIFICATION FairSpec
INVARIANTS TypeOK NothingLingers
PROPERTIES ImplementsChannel ReturnsUnlessEmpty

SPECIFICATION FairSpec
CONSTANTS
  Window = {w1, w2}
  Object = {o1, o2, o3}
  w1 = w1
  w2 = w2
  o1 = o1
  o2 = o2
  o3 = o3
  NONE = NONE
  INVALID_REQUEST = 2
  MaxRequests = 2
  MaxInFlight = 2
  MaxEarly = 1
INVARIANTS
  TypeOK
  RowsAreApps
  StoppedIsEmpty
  ViewFollows
PROPERTIES
  ImplementsRequests
  

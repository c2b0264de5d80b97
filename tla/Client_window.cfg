SPECIFICATION FairSpec
CONSTANTS
  Conn = {c1, c2}
  App = {a1, a2}
  c1 = c1
  c2 = c2
  a1 = a1
  a2 = a2
  NONE = NONE
INVARIANTS
  TypeOK
  NoDanglingRows
  OneOwner
  RowsFollow
PROPERTIES
  LabelCatchesUp
  RemovedLeaves

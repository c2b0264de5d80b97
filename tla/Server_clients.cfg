SPECIFICATION Spec
CONSTANTS
  Conn = {c1, c2}
  Worker = {w1, w2}
  Handle = {s1, s2}
  Window = {h1}
  Monitor = Monitor
  NULL = NULL
  INVALID_SOCKET = INVALID_SOCKET
  DESKTOP = DESKTOP
  Recycle = FALSE
SYMMETRY Symmetry
INVARIANTS
  ServedIsListed
  NotifiedIsListed
  OpenIsTended
  OrphansNeverOpen
PROPERTIES
  OnlyResponsesMix
  EventFirstOnlyUngreeted
  DeadlockIsFinal

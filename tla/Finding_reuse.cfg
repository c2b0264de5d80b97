SPECIFICATION Spec
CONSTANTS
  Conn = {c1, c2}
  Worker = {w1}
  Handle = {s1}
  Window = {h1}
  Monitor = Monitor
  NULL = NULL
  INVALID_SOCKET = INVALID_SOCKET
  DESKTOP = DESKTOP
  Recycle = TRUE
PROPERTIES
  ReachesAddressee

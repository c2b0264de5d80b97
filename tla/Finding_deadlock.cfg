SPECIFICATION FairSpec
CONSTANTS
  Conn = {c1}
  Worker = {w1}
  Handle = {s1}
  Window = {h1}
  Monitor = Monitor
  NULL = NULL
  INVALID_SOCKET = INVALID_SOCKET
  DESKTOP = DESKTOP
  Recycle = FALSE
PROPERTIES
  UpdateCompletes

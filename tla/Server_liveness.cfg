\* The lock cycle of two workers and the monitor may stop the server for good.
SPECIFICATION QuietSpec
CONSTANTS
  Conn = {c1, c2}
  Worker = {w1, w2}
  Handle = {s1}
  Window = {h1}
  Monitor = Monitor
  NULL = NULL
  INVALID_SOCKET = INVALID_SOCKET
  DESKTOP = DESKTOP
  Recycle = FALSE
PROPERTIES
  UpdateEndsUnlessStopped
  GoneIsForgotten
  AcceptedIsGreeted
CHECK_DEADLOCK FALSE

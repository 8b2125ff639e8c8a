SPECIFICATION Spec
CONSTANTS
  Request <- Infinite
  Asks = 2
  SOCKET_TIMEOUT = TRUE
  TOOLS_OK = TRUE
INVARIANT BlameIsRight
CHECK_DEADLOCK FALSE

SPECIFICATION FairSpec
CONSTANTS
  Request <- Shapes
  Asks = 2
  SOCKET_TIMEOUT = TRUE
  TOOLS_OK = TRUE
INVARIANTS AnsweredInStep BlameIsRight NothingSpent
PROPERTY ConnectionEnds
CHECK_DEADLOCK FALSE

SPECIFICATION Spec
CONSTANTS
  Passes = 2
  Depths = 2
  MaxCtrlC = 1
  MaxVisits = 1
INVARIANTS ArmsStopped ZeroIsAnAB
CHECK_DEADLOCK FALSE

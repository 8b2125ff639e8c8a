SPECIFICATION Spec
CONSTANTS
  c1 = c1  c2 = c2
  Turn = {c1, c2}
  Request <- Wishes
  MaxInflight = 1
  Cap = 2
  ProbeEvery = 2
  Counter = Counter
  Other = {Counter}
  Nobody = Nobody
SYMMETRY Exchange
INVARIANTS NoPileUp NoAbandonedTurn OneAnswer FinishesAreWhole DepartureNoticed

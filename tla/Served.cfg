SPECIFICATION FairSpec
CONSTANTS
  c1 = c1  c2 = c2
  Turn = {c1, c2}
  Request <- Few
  MaxInflight = 1
  Cap = 1
  ProbeEvery = 2
  Counter = Counter
  Other = {Counter}
  Nobody = Nobody
\* Requests are finitely many; that nobody is left stuck is what is asked.
CHECK_DEADLOCK FALSE
PROPERTIES EveryRequestServed

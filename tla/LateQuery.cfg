SPECIFICATION Spec
CONSTANTS
  t1 = t1  t2 = t2
  Turn = {t1, t2}
  Request <- Plain
  Word = {"a", "b", "x", "ufffd"}
  Token = {"x"}
  Piece = {}
  Replacement = "ufffd"
  Junk = "junk"
  Nobody = Nobody  Main = Main  Counter = Counter  Watchdog = Watchdog
  NoText = NoText
  NoStop = NoStop
  BundleSampler = BundleSampler
  SignalSticks = FALSE
  CanStop = TRUE
  FirstTokenTimeout = 0  StallTimeout = 0  WedgeGrace = 0
  FailThreshold = 1
  MaxAge = 0
SYMMETRY Exchange
PROPERTY NoQueryAfterShutdown

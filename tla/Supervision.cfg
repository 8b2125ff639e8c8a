SPECIFICATION SupervisedFairly
CONSTANTS
  t1 = t1
  Turn = {t1}
  Request <- Plain
  Word = {"a", "x", "ufffd"}
  Token = {"x"}
  Piece = {}
  Replacement = "ufffd"
  Junk = "junk"
  Nobody = Nobody  Main = Main  Counter = Counter  Watchdog = Watchdog
  NoText = NoText
  NoStop = NoStop
  BundleSampler = BundleSampler
  SignalSticks = FALSE
  CanStop = FALSE
  FirstTokenTimeout = 1  StallTimeout = 1  WedgeGrace = 1
  FailThreshold = 1
  MaxAge = 2
  WEDGE_EXIT = TRUE
PROPERTIES Spec NoHolderForEver

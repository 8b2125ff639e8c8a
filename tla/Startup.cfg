SPECIFICATION FairSpec
CONSTANTS
  i1 = i1  i2 = i2
  Instance = {i1, i2}
  MaxRestarts = 1
  Horizon = 1
INVARIANTS OneModel PortMeansItsModel
PROPERTIES GivesUpOverTheCap StuckIsReplaced

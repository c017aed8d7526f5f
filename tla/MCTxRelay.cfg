SPECIFICATION Spec
CONSTANTS
  Failed = Failed
  Unset = Unset
  UpgradePrefix = 1000000
  LosesUnit <- MCLosesUnit
  MaxHops = 2
  Seeds = 3
  Objects <- MCObjects
INVARIANTS SignaturesHold OrderDoesNotMatter BurnIsWhatLeaves
PROPERTIES NothingIsLost UsedIsAsNew JsonKeepsAll
CHECK_DEADLOCK FALSE

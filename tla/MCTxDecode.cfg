SPECIFICATION Spec
CONSTANTS
  Failed = Failed
  Unset = Unset
  UpgradePrefix = 1000000
  LosesUnit <- MCLosesUnit
  MaxHops = 2
  Seeds = 2
  Objects <- MCObjects
PROPERTIES SignedCanBeRead
CHECK_DEADLOCK FALSE

SPECIFICATION Spec
CONSTANTS
  isTestnet = TRUE
  MaxDeaths = 3
INVARIANTS
  LaunchTypeOK
  WiredWhenDone
  AdminIsNeverLost
PROPERTY LaunchFinishes

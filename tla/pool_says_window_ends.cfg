SPECIFICATION GraceSpec
CONSTANTS
  Suppliers = {s1}
  Borrowers = {b1}
  Amounts = {20}
  Collaterals = {30}
  Prices = {8, 10}
  Scores = {0, 900}
  TimeSteps = {2}
  SECONDS_PER_YEAR = 1
  MAX_PRICE_AGE = 1
  GRACE_PERIOD = 2
  ACC_PRECISION = 20
  PRICE_UNIT = 10
  MaxTime = 7
  MaxSupplied = 60
  MaxCollateral = 60
CHECK_DEADLOCK FALSE
INVARIANT WindowEndsInLiquidation

SPECIFICATION Spec
CONSTANTS
  s1 = s1
  s2 = s2
  b1 = b1
  b2 = b2
  Suppliers = {s1}
  Borrowers = {b1, b2}
  Amounts = {20}
  Collaterals = {30}
  Prices = {8, 10}
  Scores = {0, 900}
  TimeSteps = {2}
  SECONDS_PER_YEAR = 1
  MAX_PRICE_AGE = 1
  ACC_PRECISION = 10
  PRICE_UNIT = 10
  MaxTime = 3
  MaxSupplied = 60
  MaxCollateral = 60
CHECK_DEADLOCK FALSE
INVARIANTS TypeOK TotalsMatchPositions NoInterestWithoutPrincipal
PROPERTY OnlyTheWorldSinksPositions
SYMMETRY Interchangeable

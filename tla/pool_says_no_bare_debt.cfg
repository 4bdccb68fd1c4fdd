SPECIFICATION Spec
CONSTANTS
  s1 = s1
  s2 = s2
  b1 = b1
  b2 = b2
  Suppliers = {s1}
  Borrowers = {b1, b2}
  Amounts = {30}
  Collaterals = {25, 50}
  Prices = {8, 10}
  Scores = {0, 900}
  TimeSteps = {2}
  SECONDS_PER_YEAR = 1
  MAX_PRICE_AGE = 1
  ACC_PRECISION = 100
  PRICE_UNIT = 10
  MaxTime = 3
  MaxSupplied = 60
  MaxCollateral = 75
CHECK_DEADLOCK FALSE
INVARIANT DebtKeepsCollateral

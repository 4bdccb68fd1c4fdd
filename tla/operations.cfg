SPECIFICATION OpsSpec
CONSTANTS
  s1 = s1
  b1 = b1
  b2 = b2
  c1 = c1
  c2 = c2
  Suppliers = {s1}
  Borrowers = {b1, b2}
  Cycles = {c1, c2}
  Amounts = {20}
  Collaterals = {35}
  Prices = {8, 10}
  Scores = {0}
  TimeSteps = {1}
  SECONDS_PER_YEAR = 1
  MAX_PRICE_AGE = 1
  ACC_PRECISION = 10
  PRICE_UNIT = 10
  MAX_STALENESS_SEC = 1
  FALLBACK_PRICE = 10
  MaxTodo = 2
  SCAN_BLOCKS = 1
  Purses = {50}
  FEE_THRESHOLD = 1
  InitialDeposit = 60
  EarlierInterest = 5
  StartPrice = 10
  Indebted <- MCIndebted
  MaxTime = 3
  MaxSupplied = 60
  MaxCollateral = 70
  MaxEvents = 1
CHECK_DEADLOCK FALSE
INVARIANTS OpsTypeOK
PROPERTY StalePriceIsReplaced

SPECIFICATION BackingSpec
CONSTANTS
  s1 = s1
  s2 = s2
  b1 = b1
  b2 = b2
  Suppliers = {s1, s2}
  Borrowers = {b1}
  Amounts = {3, 8}
  Collaterals = {8}
  Prices = {10}
  Scores = {0}
  TimeSteps = {72}
  SECONDS_PER_YEAR = 1
  MAX_PRICE_AGE = 100
  ACC_PRECISION = 1000
  PRICE_UNIT = 10
  MaxTime = 73
  MaxSupplied = 11
  MaxCollateral = 8
  MaxResizes = 3
CHECK_DEADLOCK FALSE
SYMMETRY Interchangeable
INVARIANTS SettlingNeverReverts YieldBacked
PROPERTIES YieldMovesOnlyWithInterest DebtFallsOnlyByPayment ImplementsLedger

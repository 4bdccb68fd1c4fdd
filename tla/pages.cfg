SPECIFICATION PagesSpec
INVARIANTS PagesTypeOK FirstLoanCovered GaugeTellsLiquidation NeverMoreThanAnnounced RateIsOfTheCountedScore
CONSTANTS
  Suppliers = {s1, me}
  Borrowers = {me}
  Me = me
  InitialDeposit = 3000
  MySupply = 334
  EarlierInterest = 62
  InitialPrice = 100
  InitialScore = 201
  Amounts = {3000}
  Collaterals = {}
  Prices = {88}
  MarketPrices = {110}
  Scores = {0, 201}
  TimeSteps = {179}
  SECONDS_PER_YEAR = 365
  MAX_PRICE_AGE = 0
  ACC_PRECISION = 1000
  PRICE_UNIT = 1
  STATIC_FALLBACK = 110
  CACHE_TTL = 1
  Shown2 = 10
  Shown4 = 1
  MaxTime = 180
  MaxSupplied = 6400
  MaxCollateral = 200
  VAULT_PRECISION = 10000
  StakeAmounts = {1000}
  TiersTried = {"FLEXIBLE", "DIAMOND"}
  Harvests = {2}
  GAS_HEADROOM_QIE = 1200
  ExitCosts = {5}
  KycAnswers = {TRUE, FALSE}
  Purses = {2500}
  Moves <- CrossMoves
  MaxClicks = 2
  MaxVisits = 2
  MaxEvents = 1
  MaxReads = 1
CHECK_DEADLOCK FALSE

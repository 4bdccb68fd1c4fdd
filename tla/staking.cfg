SPECIFICATION Spec
CONSTANTS
  a1 = a1
  a2 = a2
  Stakers = {a1, a2}
  ACC_PRECISION = 1000
  FEE_KEPT = 149
  FEE_BASE = 150
  DUST = 4
  Amounts = {1000}
  TierChoices = {"GOLD"}
  Disbursals = {10}
  Gifts = {101}
  CapChoices <- Capped
  Ratios = {5000}
  Slippages = {500}
  Scores = {900}
  KycAtStart = {TRUE}
  TimeSteps = {100}
  Openings <- AtFirst
  Markets <- Later
  MaxTime = 100
  MaxEvents = 3
  MaxDistributions = 2
CHECK_DEADLOCK FALSE
INVARIANTS StakingTypeOK SharesAddUp SharesWithinBoost StakesSettle YieldPoolBacked HeadroomPaysInFull HarvestWithinGain
PROPERTIES YieldMovesOnlyWithHarvest YieldSplitByShares
SYMMETRY Interchangeable

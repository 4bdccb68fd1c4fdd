SPECIFICATION Spec
CONSTANTS
  a1 = a1
  a2 = a2
  Stakers = {a1}
  ACC_PRECISION = 1000
  FEE_KEPT = 149
  FEE_BASE = 150
  DUST = 4
  Amounts = {1000}
  TierChoices = {"FLEXIBLE", "GOLD"}
  Disbursals = {10}
  Gifts = {101}
  CapChoices <- Capped
  Ratios = {0, 2000}
  Slippages = {500}
  Scores = {0}
  KycAtStart = {FALSE}
  TimeSteps = {100}
  Openings <- AtFirst
  Markets <- AtFirst
  MaxTime = 100
  MaxEvents = 4
  MaxDistributions = 2
CHECK_DEADLOCK FALSE
PROPERTY HarvestTakesOnlyGains

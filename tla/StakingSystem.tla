---------------------------- MODULE StakingSystem ----------------------------
(***************************************************************************)
(* The staking side: YieldVault and YieldStrategy in one transaction each  *)
(* call, with the insurance fund, the registry the vault reads, the pair   *)
(* the strategy trades with, and the harvest keeper (keeper.ts), whose     *)
(* simulated harvest is a transfer and an injection that can be apart.     *)
(***************************************************************************)
EXTENDS YieldVault, YieldStrategy, FiniteSetsExt

CONSTANTS
  Amounts,           \* WQIE amounts a call may pass
  TierChoices,       \* lock tiers a stake may choose
  Disbursals,        \* amounts the fund may pay out
  Gifts,             \* yield the funder sends
  CapChoices,        \* settings of the boosted caps, the first ones among them
  Ratios, Slippages, Scores, TimeSteps,
  KycAtStart,        \* whether a staker may be verified at the start
  Openings,          \* the states the pair may be in at the start
  Markets,           \* the states the market may move it to
  MaxTime, MaxEvents, MaxDistributions   \* bounds of the model

ASSUME StakingAssumption ==
  /\ Amounts \subseteq Nat /\ Gifts \subseteq Nat \ {0} /\ Disbursals \subseteq Nat
  /\ TierChoices \subseteq Tiers
  /\ CapChoices \subseteq [standard : Nat, whale : Nat, threshold : Nat]
  /\ Ratios \subseteq Nat /\ Slippages \subseteq Nat
  /\ Scores \subseteq 0..1000 /\ KycAtStart \subseteq BOOLEAN
  /\ TimeSteps \subseteq Nat /\ Openings \cup Markets \subseteq PairState
  /\ MaxTime \in Nat /\ MaxEvents \in Nat /\ MaxDistributions \in Nat

\* an address has 20 bytes, so there are finitely many stakers
ASSUME FiniteStakers == IsFiniteSet(Stakers)

VARIABLES
  sent,              \* yield the keeper's run has transferred and not yet injected
  events,            \* history: what came from outside so far, bounds the model
  distributions      \* history: how often yield came in, bounds the model

outside == <<registryVars, now>>
worldVars == <<outside, sent, events, distributions>>
vars == <<vaultVars, strategyVars, fundVars, worldVars>>

(***************************************************************************)
(* Stakers.                                                                *)
(***************************************************************************)

\* stakes, transfers, and what the admin, the registry and the market do
Event == events < MaxEvents /\ events' = events + 1

Stake(u, tier, amount) ==
  /\ VaultStake(u, tier, amount)
  /\ DeployFunds(amount)
  /\ Event
  /\ UNCHANGED <<fundVars, outside, sent, distributions>>

\* the penalty on what the strategy really sent
ExitFee(u, amount) == (Withdrawn(amount) * PenaltyRate(u)) \div BPS

Unstake(u, amount) ==
  /\ VaultUnstake(u, amount)
  /\ WithdrawFunds(amount)
  /\ insurance' = insurance + ExitFee(u, amount)
  /\ UNCHANGED <<treasury, worldVars>>

ClaimYield(u) ==
  /\ VaultClaim(u)
  /\ UNCHANGED <<strategyVars, fundVars, worldVars>>

OptInToReputation(u) ==
  /\ VaultOptIn(u)
  /\ UNCHANGED <<strategyVars, fundVars, worldVars>>

RefreshBoost(u) ==
  /\ VaultRefresh(u)
  /\ UNCHANGED <<strategyVars, fundVars, worldVars>>

(***************************************************************************)
(* Keeper.                                                                 *)
(***************************************************************************)

Distributed(amount) ==
  /\ ReceiveYield(amount)
  /\ distributions < MaxDistributions
  /\ distributions' = distributions + 1

\* harvestAndDistribute; without a gain it returns
Harvest ==
  /\ HarvestLPFees
  /\ Distributed(ToStakers(Realised))
  /\ UNCHANGED <<outside, sent, events>>

\* runSimulate: the funder's transfer to the strategy is mined
KeeperTransfers(amount) ==
  /\ sent = 0
  /\ reserve' = reserve + amount
  /\ sent' = amount
  /\ Event
  /\ UNCHANGED <<vaultVars, lpVars, ratioVars, fundVars,
                 outside, distributions>>

\* runSimulate: injectYield of the same amount
KeeperInjects ==
  /\ sent # 0
  /\ Inject(sent)
  /\ Distributed(ToStakers(sent))
  /\ sent' = 0
  /\ UNCHANGED <<outside, events>>

\* the process dies or the injection reverts; the next run starts afresh
KeeperFails ==
  /\ sent # 0
  /\ sent' = 0
  /\ UNCHANGED <<vaultVars, strategyVars, fundVars, outside, events, distributions>>

(***************************************************************************)
(* Admin, and what others do.                                              *)
(***************************************************************************)

SetBoostedCaps(new) ==
  /\ VaultSetCaps(new)
  /\ Event
  /\ UNCHANGED <<strategyVars, fundVars, outside, sent, distributions>>

SetDeployRatio(bps) ==
  /\ SetRatio(bps)
  /\ Event
  /\ UNCHANGED <<vaultVars, fundVars, outside, sent, distributions>>

SetSlippage(bps) ==
  /\ SetSlip(bps)
  /\ Event
  /\ UNCHANGED <<vaultVars, fundVars, outside, sent, distributions>>

EmergencyExit ==
  /\ VaultReceivesExit(ExitAmount)
  /\ EmergencyExitStrategy
  /\ Event
  /\ UNCHANGED <<fundVars, outside, sent, distributions>>

\* InsuranceFund.disburse, to the strategy or to somebody outside
Disburse(amount, toStrategy) ==
  /\ amount # 0 /\ amount <= insurance
  /\ insurance' = insurance - amount
  /\ reserve' = reserve + (IF toStrategy THEN amount ELSE 0)
  /\ Event
  /\ UNCHANGED <<vaultVars, lpVars, ratioVars, treasury, outside, sent, distributions>>

SetScore(u, score) ==
  /\ scores' = [scores EXCEPT ![u] = score]
  /\ Event
  /\ UNCHANGED <<vaultVars, strategyVars, fundVars, kycVerified, now, sent, distributions>>

SetKyc(u, verified) ==
  /\ kycVerified' = [kycVerified EXCEPT ![u] = verified]
  /\ Event
  /\ UNCHANGED <<vaultVars, strategyVars, fundVars, scores, now, sent, distributions>>

Trade(new) ==
  /\ MarketMove(new)
  /\ Event
  /\ UNCHANGED <<vaultVars, fundVars, outside, sent, distributions>>

NextBlock(days) ==
  /\ now + days <= MaxTime
  /\ now' = now + days
  /\ UNCHANGED <<vaultVars, strategyVars, fundVars, registryVars, sent,
                 events, distributions>>

Init ==
  /\ VaultInit /\ StrategyInit
  /\ caps \in CapChoices /\ pair \in Openings
  /\ kycVerified \in [Stakers -> KycAtStart] /\ scores \in [Stakers -> Scores]
  /\ now = 0 /\ sent = 0 /\ events = 0 /\ distributions = 0

StakerNext ==
  \E u \in Stakers :
    \/ \E tier \in TierChoices, amount \in Amounts : Stake(u, tier, amount)
    \/ \E amount \in Amounts : Unstake(u, amount)
    \/ ClaimYield(u) \/ OptInToReputation(u) \/ RefreshBoost(u)

KeeperNext ==
  \/ Harvest \/ KeeperInjects \/ KeeperFails
  \/ \E amount \in Gifts : KeeperTransfers(amount)

AdminNext ==
  \/ \E new \in CapChoices : SetBoostedCaps(new)
  \/ \E bps \in Ratios : SetDeployRatio(bps)
  \/ \E bps \in Slippages : SetSlippage(bps)
  \/ EmergencyExit
  \/ \E amount \in Disbursals, toStrategy \in BOOLEAN : Disburse(amount, toStrategy)

WorldNext ==
  \/ \E u \in Stakers, score \in Scores : SetScore(u, score)
  \/ \E u \in Stakers, verified \in BOOLEAN : SetKyc(u, verified)
  \/ \E new \in Markets : Trade(new)
  \/ \E days \in TimeSteps : NextBlock(days)

Next == StakerNext \/ KeeperNext \/ AdminNext \/ WorldNext

Spec == Init /\ [][Next]_vars

(***************************************************************************)
(* Properties.                                                             *)
(***************************************************************************)

\* Type correctness: no unsigned amount goes below zero, every position keeps
\* its shape, and a lock belongs to a tier.
StakingTypeOK ==
  /\ positions \in [Stakers -> StakePosition]
  /\ effectiveShares \in [Stakers -> Nat] /\ rewardDebt \in [Stakers -> Nat]
  /\ accYieldPerShare \in Nat /\ totalEffectiveShares \in Nat /\ undistributed \in Nat
  /\ totalStaked \in Nat /\ totalYieldPool \in Nat /\ vaultWqie \in Nat
  /\ caps \in [standard : Nat, whale : Nat, threshold : Nat]
  /\ reserve \in Nat /\ pairToken \in Nat /\ tokenInLp \in Nat
  /\ pair \in PairState /\ lpBalance \in Nat /\ lpBalance < pair.supply
  /\ deployRatioBps \in 0..MAX_DEPLOY_RATIO_BPS /\ slippageBps \in 0..MAX_SLIPPAGE_BPS
  /\ treasury \in Nat /\ insurance \in Nat
  /\ kycVerified \in [Stakers -> BOOLEAN] /\ scores \in [Stakers -> Scores]
  /\ now \in Nat /\ sent \in Nat /\ events \in Nat /\ distributions \in Nat
  /\ \A u \in Stakers : positions[u].lockExpiry > 0 => positions[u].lockTier # "FLEXIBLE"

\* The totals the vault divides yield by are the sums of what its positions
\* hold: a share counted twice, or left behind by an exit, would starve or
\* overpay everybody else.
SharesAddUp ==
  /\ totalStaked = SumFunction([u \in Stakers |-> positions[u].principal])
  /\ totalEffectiveShares = SumFunction([u \in Stakers |-> effectiveShares[u]])

\* Weight follows stake: a staker's shares are never below the principal and
\* never above what lock and (once opted in) the top score band allow, so
\* without lock and opt-in they are exactly the principal, whatever happened
\* to scores, KYC and caps since they were computed.
Boosted(pos) ==
  ((((pos.principal * (IF pos.reputationOptIn THEN 15000 ELSE BPS)) \div BPS)
     * (BPS + LockShareBonus[pos.lockTier])) \div BPS)

SharesWithinBoost ==
  \A u \in Stakers : /\ positions[u].principal <= effectiveShares[u]
                     /\ effectiveShares[u] <= Boosted(positions[u])

\* Nobody's position can be stuck: settling it never reverts, because the
\* accumulator has reached every baseline, and the totals it is taken out of
\* are large enough.
BaselinesReached == \A u \in Stakers : Settleable(u)

StakesSettle ==
  /\ BaselinesReached
  /\ \A u \in Stakers : /\ effectiveShares[u] <= totalEffectiveShares
                        /\ positions[u].principal <= totalStaked

\* Yield that was promised is there: what all stakers can claim, and what is
\* parked for the first one, is covered by the yield pool, and the pool by the
\* vault's balance.  Each distribution can round up by a unit per staker.
YieldPoolBacked ==
  /\ SumFunction([u \in Stakers |-> PendingYieldOf(u)]) + undistributed
       <= totalYieldPool + distributions * Cardinality(Stakers)
  /\ totalYieldPool <= vaultWqie

\* "You only ever get yield that flowed in after you joined": while the
\* accumulator stands still nobody's claim changes, except that a claim takes
\* it to zero.  Staking much just before a harvest, unlocking, opting in or
\* losing a score moves no yield that came in earlier.
YieldMovesOnlyWithHarvest ==
  [][accYieldPerShare' = accYieldPerShare =>
       \A u \in Stakers : \/ PendingYieldOf(u)' = PendingYieldOf(u)
                          \/ /\ PendingYieldOf(u)' = 0
                             /\ vaultWqie' = vaultWqie - Paid(PendingYieldOf(u))]_vars

\* A distribution is split by shares: nobody gains more than the share of what
\* came in and was parked, rounded up.
YieldSplitByShares ==
  [][\A u \in Stakers :
       LET gain == PendingYieldOf(u)' - PendingYieldOf(u)
           came == totalYieldPool' - totalYieldPool + undistributed
       IN  gain > 0 =>
             gain * totalEffectiveShares
               <= effectiveShares[u] * came + totalEffectiveShares]_vars

\* Over-removing pays for the swap back, its fee and its own price impact: as
\* long as the LP is worth what withdrawFunds asks for, an exit that burns at
\* most a 50th of the pair's liquidity, for a shortfall worth 150 units of
\* QUSDC or more, is paid in full.  A larger burn moves the price by more than
\* the 2 %; a smaller shortfall is lost in the rounding of the pair.
WorthUnits(amount, units) == amount * pair.qusdc >= units * pair.wqie

HeadroomPaysInFull ==
  \A amount \in Amounts :
    /\ amount > reserve /\ WorthUnits(amount - reserve, 150)
    /\ LPValue >= Needed(amount - reserve)
    /\ 50 * ExitBurns(amount) <= pair.supply
    => Withdrawn(amount) = amount

\* A harvest hands out no more than the gain it measured: what it burns is
\* sized by a valuation of both sides that rounds down, and the side it swaps
\* back pays a fee.
HarvestWithinGain == Unrealised > 0 => Realised <= Unrealised

(***************************************************************************)
(* What a comment or a page says, and the code does not do.                *)
(***************************************************************************)

\* Harvests realise fees ("how much the LP position is worth now vs what we
\* put in").  So a harvest never takes the stakers' principal: if what is
\* managed covers it before, it covers it after.
HarvestTakesOnlyGains ==
  [][distributions' > distributions /\ sent' = sent /\ totalStaked <= ManagedAssets
       => totalStaked <= ManagedAssets']_vars

=============================================================================

--------------------------- MODULE StakingProofs ---------------------------
(***************************************************************************)
(* Theorems about the staking system, for every set of stakers and every   *)
(* value of the constants that the assumptions admit.  First its types;    *)
(* then safety: shares follow stake, every position can be settled, yield  *)
(* moves only when it comes in and is split by shares, the totals are the  *)
(* sums of the positions, and promised yield is in the pool.               *)
(***************************************************************************)
EXTENDS StakingSystem, SumTheorems, TLAPS

(***************************************************************************)
(* Arithmetic of the contracts.                                            *)
(***************************************************************************)

LEMMA ProductNat == ASSUME NEW a \in Nat, NEW b \in Nat PROVE a * b \in Nat
  OBVIOUS

LEMMA QuotientNat == ASSUME NEW a \in Nat, NEW n \in Nat \ {0} PROVE a \div n \in Nat
  OBVIOUS

LEMMA ProductMonotone ==
  ASSUME NEW a \in Nat, NEW x \in Nat, NEW y \in Nat, x <= y
  PROVE  a * x <= a * y
  OBVIOUS

LEMMA QuotientMonotone ==
  ASSUME NEW x \in Nat, NEW y \in Nat, NEW n \in Nat \ {0}, x <= y
  PROVE  x \div n <= y \div n
  OBVIOUS

\* A share of at most 100 % is a natural number and no more than the whole.
LEMMA ShareOfWhole ==
  ASSUME NEW amount \in Nat, NEW bps \in Nat, bps <= 10000
  PROVE  Share(amount, bps) \in Nat /\ Share(amount, bps) <= amount
<1> DEFINE part == amount * bps
<1>1. part \in Nat /\ part <= amount * 10000
  BY ProductNat, ProductMonotone
<1>2. Share(amount, bps) = part \div 10000
  BY DEF Share
<1> HIDE DEF part
<1>. QED
  BY <1>1, <1>2

(***************************************************************************)
(* Shares.                                                                 *)
(***************************************************************************)

\* Whatever the score, the cap and the lock, shares lie between the principal
\* and its largest boost.
LEMMA ComputedSharesBounded ==
  ASSUME StakingTypeOK, NEW u \in Stakers, NEW pos \in StakePosition
  PROVE  /\ ComputedShares(u, pos) \in Nat
         /\ pos.principal <= ComputedShares(u, pos)
         /\ ComputedShares(u, pos) <= Boosted(pos)
<1> DEFINE p == pos.principal
           b == IF p < BoostedCap(p) THEN p ELSE BoostedCap(p)
           mult == ScoreMultBps(u, pos)
           top == IF pos.reputationOptIn THEN 15000 ELSE 10000
           weighted == (b * mult) \div 10000 + (p - b)
           most == (p * top) \div 10000
           lock == LockShareBonus[pos.lockTier]
<1>1. p \in Nat /\ BoostedCap(p) \in Nat
  BY DEF StakePosition, BoostedCap, StakingTypeOK
<1>2. b \in Nat /\ b <= p
  BY <1>1
<1>3. mult \in {10000, 11000, 12000, 13500, 15000} /\ mult <= top
  <2>a. \A score \in Scores : score \in 0..1000
    BY StakingAssumption
  <2>b. scores[u] \in Scores
    BY DEF StakingTypeOK
  <2>1. scores[u] \in 0..1000
    BY ONLY <2>a, <2>b
  <2>2. MultiplierBps(scores[u]) \in {10000, 11000, 12000, 13500, 15000}
    BY <2>1 DEF MultiplierBps
  <2>. QED
    BY <2>2 DEF ScoreMultBps, BPS
<1>4. lock \in {0, 500, 1000, 1500}
  <2>1. pos.lockTier \in Tiers
    BY DEF StakePosition
  <2>. QED
    BY <2>1 DEF LockShareBonus, Tiers
<1> HIDE DEF b, mult, lock
<1>5. top \in {10000, 15000}
  OBVIOUS
<1> HIDE DEF top, p
<1>6. weighted \in Nat /\ p <= weighted /\ most \in Nat /\ weighted <= most
  BY <1>1, <1>2, <1>3, <1>5
<1> HIDE DEF weighted, most
<1>7. /\ (weighted * (10000 + lock)) \div 10000 \in Nat
      /\ p <= (weighted * (10000 + lock)) \div 10000
      /\ (weighted * (10000 + lock)) \div 10000 <= (most * (10000 + lock)) \div 10000
  BY <1>1, <1>4, <1>6
<1>8. ComputedShares(u, pos) = (weighted * (10000 + lock)) \div 10000
  BY DEF ComputedShares, BPS, p, b, mult, lock, weighted
<1>9. Boosted(pos) = (most * (10000 + lock)) \div 10000
  BY DEF Boosted, BPS, p, top, lock, most
<1>. QED
  BY <1>7, <1>8, <1>9 DEF p

(***************************************************************************)
(* Settling.                                                               *)
(***************************************************************************)

LEMMA EntitlementNat ==
  ASSUME accYieldPerShare \in Nat, NEW shares \in Nat
  PROVE  Entitlement(shares) \in Nat
BY ProductNat, QuotientNat, VaultAssumption DEF Entitlement

LEMMA PendingNat ==
  ASSUME StakingTypeOK, NEW u \in Stakers, Settleable(u)
  PROVE  PendingYieldOf(u) \in Nat
<1>1. effectiveShares[u] \in Nat /\ rewardDebt[u] \in Nat /\ positions[u].pendingYield \in Nat
  BY DEF StakingTypeOK, StakePosition
<1>2. Entitlement(effectiveShares[u]) \in Nat
  BY <1>1, EntitlementNat DEF StakingTypeOK
<1>. QED
  BY <1>1, <1>2 DEF PendingYieldOf, Settleable

\* The part of the type invariant a settle and update writes.
SharesTyped ==
  /\ positions \in [Stakers -> StakePosition]
  /\ effectiveShares \in [Stakers -> Nat] /\ rewardDebt \in [Stakers -> Nat]
  /\ totalEffectiveShares \in Nat
  /\ \A u \in Stakers : positions[u].lockExpiry > 0 => positions[u].lockTier # "FLEXIBLE"

LEMMA SettledTyped ==
  ASSUME StakingTypeOK, NEW u \in Stakers, NEW pos \in StakePosition,
         pos.lockExpiry > 0 => pos.lockTier # "FLEXIBLE",
         SettleAndUpdate(u, pos)
  PROVE  SharesTyped'
<1> DEFINE shares == ComputedShares(u, pos)
           new == [pos EXCEPT !.pendingYield = Banked(u)]
<1>1. Banked(u) \in Nat
  BY PendingNat DEF SettleAndUpdate, Banked
<1>2. new \in StakePosition /\ new.lockExpiry = pos.lockExpiry /\ new.lockTier = pos.lockTier
  BY <1>1 DEF StakePosition
<1>3. shares \in Nat /\ Baseline(u, shares) \in Nat
  BY ComputedSharesBounded, EntitlementNat DEF Baseline, StakingTypeOK
<1>4. TotalWith(u, shares) \in Nat
  BY <1>3 DEF TotalWith, SettleAndUpdate, StakingTypeOK
<1>5. positions' = [positions EXCEPT ![u] = new]
  BY DEF SettleAndUpdate
<1>6. \A w \in Stakers : positions'[w].lockExpiry > 0 => positions'[w].lockTier # "FLEXIBLE"
  BY <1>2, <1>5 DEF StakingTypeOK
<1>. QED
  BY <1>2, <1>3, <1>4, <1>5, <1>6 DEF SharesTyped, SettleAndUpdate, StakingTypeOK

\* Staking, unstaking and opting in ask for positions that keep their shape.
LEMMA StakedPosition ==
  ASSUME StakingTypeOK, NEW u \in Stakers, NEW tier \in Tiers, NEW amount \in Nat
  PROVE  /\ Staked(u, tier, amount) \in StakePosition
         /\ Staked(u, tier, amount).lockExpiry > 0
              => Staked(u, tier, amount).lockTier # "FLEXIBLE"
<1>1. positions[u] \in StakePosition /\ now \in Nat
  BY DEF StakingTypeOK
<1>2. LockDuration[tier] \in Nat
  BY DEF LockDuration, Tiers
<1> DEFINE pos == positions[u]
           expiry == IF tier = "FLEXIBLE" THEN 0 ELSE now + LockDuration[tier]
<1>3. Staked(u, tier, amount) =
        [pos EXCEPT !.principal = @ + amount, !.lockTier = tier, !.lockExpiry = expiry]
  BY DEF Staked
<1>4. expiry \in Nat /\ (expiry > 0 => tier # "FLEXIBLE")
  BY <1>1, <1>2
<1>5. pos \in StakePosition
  BY <1>1
<1> HIDE DEF pos, expiry
<1>6. Staked(u, tier, amount) =
        [principal |-> pos.principal + amount, lockTier |-> tier, lockExpiry |-> expiry,
         pendingYield |-> pos.pendingYield, reputationOptIn |-> pos.reputationOptIn]
  BY <1>3, <1>5 DEF StakePosition
<1>. QED
  BY <1>4, <1>5, <1>6 DEF StakePosition

LEMMA UnstakedPosition ==
  ASSUME StakingTypeOK, NEW u \in Stakers, NEW amount \in Nat,
         amount <= positions[u].principal
  PROVE  /\ Unstaked(u, amount) \in StakePosition
         /\ Unstaked(u, amount).lockExpiry > 0
              => Unstaked(u, amount).lockTier # "FLEXIBLE"
<1> DEFINE left == [positions[u] EXCEPT !.principal = @ - amount]
<1>1. positions[u] \in StakePosition
  BY DEF StakingTypeOK
<1>2. left \in StakePosition
  BY <1>1 DEF StakePosition
<1>3. left.lockExpiry > 0 => left.lockTier # "FLEXIBLE"
  BY <1>1 DEF StakingTypeOK, StakePosition
<1>4. CASE left.principal = 0
  <2>1. Unstaked(u, amount) = [left EXCEPT !.lockExpiry = 0, !.lockTier = "FLEXIBLE"]
    BY <1>4 DEF Unstaked
  <2> HIDE DEF left
  <2>2. Unstaked(u, amount) =
          [principal |-> left.principal, lockTier |-> "FLEXIBLE", lockExpiry |-> 0,
           pendingYield |-> left.pendingYield, reputationOptIn |-> left.reputationOptIn]
    BY <1>2, <2>1 DEF StakePosition
  <2>. QED
    BY <1>2, <2>2 DEF StakePosition, Tiers
<1>5. CASE left.principal # 0
  BY <1>2, <1>3, <1>5 DEF Unstaked
<1>. QED
  BY <1>4, <1>5

LEMMA OptedInPosition ==
  ASSUME StakingTypeOK, NEW u \in Stakers
  PROVE  LET pos == [positions[u] EXCEPT !.reputationOptIn = TRUE]
         IN  /\ pos \in StakePosition
             /\ pos.lockExpiry > 0 => pos.lockTier # "FLEXIBLE"
<1>1. positions[u] \in StakePosition
  BY DEF StakingTypeOK
<1>. QED
  BY <1>1 DEF StakingTypeOK, StakePosition

(***************************************************************************)
(* What comes in is credited or parked; what is claimed leaves.            *)
(***************************************************************************)

YieldTyped ==
  /\ accYieldPerShare \in Nat /\ undistributed \in Nat
  /\ totalYieldPool \in Nat /\ vaultWqie \in Nat

LEMMA ReceivedTyped ==
  ASSUME StakingTypeOK, NEW amount \in Nat, ReceiveYield(amount)
  PROVE  YieldTyped' /\ accYieldPerShare <= accYieldPerShare'
<1> DEFINE all == amount + undistributed
<1>1. all \in Nat
  BY DEF StakingTypeOK
<1>2. all * ACC_PRECISION \in Nat
  BY <1>1, ProductNat, VaultAssumption
<1>3. totalEffectiveShares > 0 => PerShare(all) \in Nat
  BY <1>2, QuotientNat DEF PerShare, StakingTypeOK
<1>4. Parked(amount) \in Nat
  BY DEF Parked, StakingTypeOK
<1>. QED
  BY <1>3, <1>4 DEF ReceiveYield, YieldTyped, StakingTypeOK

LEMMA PaidNat ==
  ASSUME StakingTypeOK, NEW claimable \in Nat
  PROVE  Paid(claimable) \in Nat /\ Paid(claimable) <= totalYieldPool
BY DEF Paid, StakingTypeOK

LEMMA ClaimedTyped ==
  ASSUME StakingTypeOK, NEW u \in Stakers, VaultClaim(u)
  PROVE  SharesTyped' /\ YieldTyped'
<1> DEFINE new == [positions[u] EXCEPT !.pendingYield = 0]
<1>1. PendingYieldOf(u) \in Nat
  BY PendingNat DEF VaultClaim
<1>2. YieldTyped'
  BY <1>1, PaidNat DEF YieldTyped, VaultClaim, StakingTypeOK
<1>3. positions[u] \in StakePosition
  BY DEF StakingTypeOK
<1>4. new \in StakePosition /\ new.lockExpiry = positions[u].lockExpiry
        /\ new.lockTier = positions[u].lockTier
  BY <1>3 DEF StakePosition
<1>5. positions' = [positions EXCEPT ![u] = new]
  BY DEF VaultClaim
<1>6. \A w \in Stakers : positions'[w].lockExpiry > 0 => positions'[w].lockTier # "FLEXIBLE"
  BY <1>4, <1>5 DEF StakingTypeOK
<1>7. effectiveShares[u] \in Nat /\ Entitlement(effectiveShares[u]) \in Nat
  BY EntitlementNat DEF StakingTypeOK
<1>. QED
  BY <1>2, <1>4, <1>5, <1>6, <1>7 DEF SharesTyped, VaultClaim, StakingTypeOK

(***************************************************************************)
(* The strategy.                                                           *)
(***************************************************************************)

StrategyTyped ==
  /\ reserve \in Nat /\ pairToken \in Nat /\ tokenInLp \in Nat
  /\ pair \in PairState /\ lpBalance \in Nat /\ lpBalance < pair.supply
  /\ deployRatioBps \in 0..MAX_DEPLOY_RATIO_BPS /\ slippageBps \in 0..MAX_SLIPPAGE_BPS

\* A swap's output is a natural number: the side it goes into is not empty, or
\* the input is not.
LEMMA AmountOutNat ==
  ASSUME NEW in \in Nat, NEW reserveIn \in Nat, NEW reserveOut \in Nat,
         reserveIn > 0 \/ in > 0
  PROVE  AmountOut(in, reserveIn, reserveOut) \in Nat
<1>1. in * FEE_KEPT \in Nat /\ reserveIn * FEE_BASE \in Nat
  BY ProductNat, PairAssumption
<1>2. in * FEE_KEPT * reserveOut \in Nat
  BY <1>1, ProductNat
<1>3. reserveIn * FEE_BASE > 0 \/ in * FEE_KEPT > 0
  <2>1. CASE reserveIn > 0
    BY <2>1, PairAssumption
  <2>2. CASE in > 0
    BY <2>2, PairAssumption
  <2>. QED
    BY <2>1, <2>2
<1>4. reserveIn * FEE_BASE + in * FEE_KEPT \in Nat \ {0}
  BY <1>1, <1>3
<1>. QED
  BY <1>2, <1>4, QuotientNat DEF AmountOut

\* A share of a reserve by LP is a natural number and no more than the reserve.
LEMMA ShareOfReserve ==
  ASSUME NEW lp \in Nat, NEW amount \in Nat, NEW supply \in Nat \ {0}, lp <= supply
  PROVE  /\ (lp * amount) \div supply \in Nat
         /\ (lp * amount) \div supply <= amount
<1>1. lp * amount \in Nat /\ supply * amount \in Nat
  BY ProductNat
<1>2. lp * amount <= supply * amount
  <2>1. amount * lp <= amount * supply
    BY ProductMonotone
  <2>. QED
    BY <2>1
<1>3. (supply * amount) \div supply = amount
  OBVIOUS
<1>. QED
  BY <1>1, <1>2, <1>3, QuotientNat, QuotientMonotone

LEMMA LPValueNat == ASSUME StakingTypeOK PROVE LPValue \in Nat
<1>1. /\ pair.wqie \in Nat /\ pair.supply \in Nat \ {0} /\ lpBalance \in Nat
  BY DEF StakingTypeOK, PairState
<1>2. 2 * pair.wqie * lpBalance \in Nat
  BY <1>1, ProductNat
<1>. QED
  BY <1>1, <1>2, QuotientNat DEF LPValue

LEMMA LpToBurnBounded ==
  ASSUME StakingTypeOK, NEW needed \in Nat
  PROVE  LpToBurn(needed) \in Nat /\ LpToBurn(needed) <= lpBalance
<1>1. lpBalance \in Nat /\ LPValue \in Nat
  BY LPValueNat DEF StakingTypeOK
<1>2. lpBalance * needed \in Nat
  BY <1>1, ProductNat
<1>3. LPValue # 0 => (lpBalance * needed) \div LPValue \in Nat
  BY <1>1, <1>2, QuotientNat
<1>. QED
  BY <1>1, <1>3 DEF LpToBurn

\* What is burned comes out of the position, and both sides of the pair stay
\* above nothing.
LEMMA BurnTyped ==
  ASSUME StakingTypeOK, NEW lp \in Nat, lp <= lpBalance, BurnLp(lp)
  PROVE  /\ pairToken' \in Nat /\ pair' \in PairState
         /\ lpBalance' \in Nat /\ lpBalance' < pair'.supply
         /\ Removed(lp) \in Nat /\ TokenOut(lp) \in Nat /\ CostAfter(lp) \in Nat
<1> DEFINE w == pair.wqie - WqieOf(pair, lp)
           q == pair.qusdc - QusdcOf(pair, lp)
           in == QusdcOf(pair, lp)
           back == AmountOut(in, q, w)
<1>1. /\ pair.wqie \in Nat /\ pair.qusdc \in Nat \ {0} /\ pair.supply \in Nat \ {0}
      /\ lpBalance \in Nat /\ lpBalance < pair.supply /\ tokenInLp \in Nat
      /\ pairToken \in Nat /\ pair \in PairState
  BY DEF StakingTypeOK, PairState
<1>2. /\ WqieOf(pair, lp) \in Nat /\ WqieOf(pair, lp) <= pair.wqie
      /\ in \in Nat /\ in <= pair.qusdc
  <2>1. lp <= pair.supply
    BY <1>1
  <2>2. /\ (lp * pair.wqie) \div pair.supply \in Nat
        /\ (lp * pair.wqie) \div pair.supply <= pair.wqie
    BY <1>1, <2>1, ShareOfReserve
  <2>3. /\ (lp * pair.qusdc) \div pair.supply \in Nat
        /\ (lp * pair.qusdc) \div pair.supply <= pair.qusdc
    BY <1>1, <2>1, ShareOfReserve
  <2>. QED
    BY <2>2, <2>3 DEF WqieOf, QusdcOf
<1>3. TokenOut(lp) \in Nat /\ CostAfter(lp) \in Nat
  BY <1>1, <1>2 DEF TokenOut, CostAfter
<1>4. pairToken' \in Nat
  BY <1>1 DEF BurnLp
<1>5. CASE lpBalance = 0
  BY <1>1, <1>3, <1>4, <1>5 DEF BurnLp, Removed
<1>6. CASE lpBalance > 0
  <2>1. w \in Nat /\ q \in Nat
    BY <1>1, <1>2
  <2>2. SwappedBack(lp) = back /\ PairAfterBurn(lp).wqie = w
    BY DEF SwappedBack, PairAfterBurn
  <2>3. in > 0 /\ back < w
    BY <1>6, <2>2 DEF BurnLp, Removable, Burnable, Swappable
  <2>4. back \in Nat
    BY <1>2, <2>1, <2>3, AmountOutNat
  <2>5. /\ lpBalance' = lpBalance - lp
        /\ pair' = [wqie |-> w - back, qusdc |-> pair.qusdc, supply |-> pair.supply - lp]
    BY <1>6, <2>2 DEF BurnLp
  <2> HIDE DEF w, q, in, back
  <2>6. w - back \in Nat \ {0}
    BY <2>1, <2>3, <2>4
  <2>7. Removed(lp) \in Nat
    BY <1>3, <1>6, <2>2, <2>4 DEF Removed
  <2>8. pair.supply - lp \in Nat \ {0} /\ lpBalance - lp \in Nat
    BY <1>1
  <2>. QED
    BY <1>1, <1>3, <1>4, <2>5, <2>6, <2>7, <2>8 DEF PairState
<1>. QED
  BY <1>1, <1>5, <1>6

LEMMA MintedNat ==
  ASSUME NEW p \in PairState, NEW wqieIn \in Nat, NEW qusdcIn \in Nat
  PROVE  Minted(p, wqieIn, qusdcIn) \in Nat
<1>1. p.wqie \in Nat \ {0} /\ p.qusdc \in Nat \ {0} /\ p.supply \in Nat
  BY DEF PairState
<1>2. wqieIn * p.supply \in Nat /\ qusdcIn * p.supply \in Nat
  BY <1>1, ProductNat
<1>3. (wqieIn * p.supply) \div p.wqie \in Nat /\ (qusdcIn * p.supply) \div p.qusdc \in Nat
  BY <1>1, <1>2, QuotientNat
<1>. QED
  BY <1>3 DEF Minted

\* What is added stays in the pair or in the contract.
LEMMA AddedTyped ==
  ASSUME StakingTypeOK, NEW amount \in Nat, NEW toLiquidity \in Nat,
         toLiquidity <= amount, AddLiquidity(amount, toLiquidity)
  PROVE  /\ reserve' \in Nat /\ pairToken' \in Nat /\ tokenInLp' \in Nat
         /\ pair' \in PairState /\ lpBalance' \in Nat /\ lpBalance' < pair'.supply
<1> DEFINE half == toLiquidity \div 2
           received == PairReceived(toLiquidity)
           kept == TokenForLp(toLiquidity)
           p == PairAfterSwap(toLiquidity)
           taken == Taken(toLiquidity)
           minted == Minted(p, taken.wqie, taken.qusdc)
<1>1. /\ pair.wqie \in Nat \ {0} /\ pair.qusdc \in Nat \ {0} /\ pair.supply \in Nat \ {0}
      /\ pair = [wqie |-> pair.wqie, qusdc |-> pair.qusdc, supply |-> pair.supply]
      /\ lpBalance \in Nat /\ lpBalance < pair.supply /\ tokenInLp \in Nat
      /\ pairToken \in Nat /\ reserve \in Nat
  BY DEF StakingTypeOK, PairState
<1>2. half \in Nat /\ kept \in Nat
  BY DEF TokenForLp
<1>3. received \in Nat /\ received < pair.qusdc
  BY <1>1, <1>2, AmountOutNat DEF PairReceived, AddLiquidity, Swappable
<1>4. /\ p = [wqie |-> pair.wqie + half, qusdc |-> pair.qusdc - received,
              supply |-> pair.supply]
      /\ p \in PairState
  <2>1. p = [pair EXCEPT !.wqie = @ + half, !.qusdc = @ - received]
    BY DEF PairAfterSwap
  <2> HIDE DEF p, half, received
  <2>2. p = [wqie |-> pair.wqie + half, qusdc |-> pair.qusdc - received,
             supply |-> pair.supply]
    BY <1>1, <2>1
  <2>3. pair.wqie + half \in Nat \ {0} /\ pair.qusdc - received \in Nat \ {0}
    BY <1>1, <1>2, <1>3
  <2>. QED
    BY <1>1, <2>2, <2>3 DEF PairState
<1>5. taken.wqie \in Nat /\ taken.qusdc \in Nat
  <2>1. Quote(kept, p.wqie, p.qusdc) \in Nat /\ Quote(received, p.qusdc, p.wqie) \in Nat
    <3> HIDE DEF kept, received, p
    <3>1. p.wqie \in Nat \ {0} /\ p.qusdc \in Nat \ {0}
      BY <1>4 DEF PairState
    <3>2. kept * p.qusdc \in Nat /\ received * p.wqie \in Nat
      BY <1>2, <1>3, <3>1, ProductNat
    <3>. QED
      BY <3>1, <3>2, QuotientNat DEF Quote
  <2>. QED
    BY <1>2, <1>3, <2>1 DEF Taken
<1>6. taken.wqie <= kept /\ taken.qusdc <= received
  BY DEF AddLiquidity, Acceptable
<1>7. minted \in Nat
  <2> HIDE DEF p, taken
  <2>. QED
    BY <1>4, <1>5, MintedNat
<1>8. /\ reserve' = reserve + (amount - toLiquidity) + (kept - taken.wqie)
      /\ pairToken' = pairToken + (received - taken.qusdc)
      /\ lpBalance' = lpBalance + minted
      /\ pair' = [wqie |-> p.wqie + taken.wqie, qusdc |-> p.qusdc + taken.qusdc,
                  supply |-> p.supply + minted]
      /\ tokenInLp' = tokenInLp + kept
  BY DEF AddLiquidity, BasisOf
<1> HIDE DEF half, received, kept, p, taken, minted
<1>9. /\ p.wqie + taken.wqie \in Nat \ {0} /\ p.qusdc + taken.qusdc \in Nat \ {0}
      /\ p.supply = pair.supply /\ p.supply + minted \in Nat \ {0}
  BY <1>1, <1>4, <1>5, <1>7 DEF PairState
<1>. QED
  BY <1>1, <1>2, <1>3, <1>5, <1>6, <1>7, <1>8, <1>9 DEF PairState

LEMMA DeployedTyped ==
  ASSUME StakingTypeOK, NEW amount \in Nat, DeployFunds(amount)
  PROVE  StrategyTyped'
<1> DEFINE toLiquidity == Share(amount, deployRatioBps)
<1>1. deployRatioBps \in Nat /\ deployRatioBps <= 10000
  BY DEF StakingTypeOK, MAX_DEPLOY_RATIO_BPS
<1>2. toLiquidity \in Nat /\ toLiquidity <= amount
  BY <1>1, ShareOfWhole
<1>3. UNCHANGED ratioVars
  BY DEF DeployFunds
<1>4. \/ AddLiquidity(amount, toLiquidity)
      \/ reserve' = reserve + amount /\ UNCHANGED lpVars
  BY DEF DeployFunds
<1> HIDE DEF toLiquidity
<1>5. CASE AddLiquidity(amount, toLiquidity)
  BY <1>2, <1>3, <1>5, AddedTyped DEF StrategyTyped, StakingTypeOK, ratioVars
<1>6. CASE reserve' = reserve + amount /\ UNCHANGED lpVars
  BY <1>3, <1>6 DEF StrategyTyped, StakingTypeOK, ratioVars, lpVars
<1>. QED
  BY <1>4, <1>5, <1>6

LEMMA NeededNat == ASSUME NEW shortfall \in Nat PROVE Needed(shortfall) \in Nat
BY StrategyAssumption DEF Needed

\* A withdrawal sends no more than was asked for, and no more than there is.
LEMMA WithdrawnTyped ==
  ASSUME StakingTypeOK, NEW amount \in Nat, WithdrawFunds(amount)
  PROVE  StrategyTyped' /\ Withdrawn(amount) \in Nat /\ Withdrawn(amount) <= amount
<1>1. CASE amount <= reserve
  BY <1>1 DEF WithdrawFunds, Withdrawn, StrategyTyped, StakingTypeOK, lpVars, ratioVars
<1>2. CASE amount > reserve
  <2> DEFINE lp == ExitBurns(amount)
  <2>1. amount - reserve \in Nat
    BY <1>2 DEF StakingTypeOK
  <2>2. lp \in Nat /\ lp <= lpBalance
    BY <2>1, NeededNat, LpToBurnBounded DEF ExitBurns
  <2>3. BurnLp(lp)
    BY <1>2 DEF WithdrawFunds, StakingTypeOK
  <2> HIDE DEF lp
  <2>4. /\ pairToken' \in Nat /\ pair' \in PairState
        /\ lpBalance' \in Nat /\ lpBalance' < pair'.supply
        /\ Removed(lp) \in Nat /\ CostAfter(lp) \in Nat
    BY <2>2, <2>3, BurnTyped
  <2>5. Withdrawn(amount) = IF reserve + Removed(lp) < amount
                            THEN reserve + Removed(lp) ELSE amount
    BY <1>2 DEF Withdrawn, lp, StakingTypeOK
  <2>6. /\ reserve' = reserve + Removed(lp) - Withdrawn(amount)
        /\ tokenInLp' = IF lpBalance = 0 THEN tokenInLp ELSE CostAfter(lp)
        /\ UNCHANGED ratioVars
    BY <1>2 DEF WithdrawFunds, lp, StakingTypeOK
  <2>. QED
    BY <2>4, <2>5, <2>6 DEF StrategyTyped, StakingTypeOK, ratioVars
<1>. QED
  BY <1>1, <1>2 DEF StakingTypeOK

\* The cuts of the treasury and the fund leave something for the stakers.
LEMMA CutsNat ==
  ASSUME NEW rawYield \in Nat
  PROVE  /\ ToProtocol(rawYield) \in Nat /\ ToInsurance(rawYield) \in Nat
         /\ ToStakers(rawYield) \in Nat
BY DEF ToProtocol, ToInsurance, ToStakers, Share, PROTOCOL_FEE_BPS, INSURANCE_FEE_BPS

FundsTyped == treasury \in Nat /\ insurance \in Nat

LEMMA PaidFundsTyped ==
  ASSUME StakingTypeOK, NEW rawYield \in Nat, PayFunds(rawYield) PROVE FundsTyped'
BY CutsNat DEF PayFunds, FundsTyped, StakingTypeOK

LEMMA HarvestedTyped ==
  ASSUME StakingTypeOK, HarvestLPFees
  PROVE  StrategyTyped' /\ FundsTyped' /\ ToStakers(Realised) \in Nat
<1> DEFINE lp == LpToBurn(Unrealised)
<1>1. Unrealised \in Nat
  BY LPValueNat DEF HarvestLPFees, Unrealised, StakingTypeOK
<1>2. lp \in Nat /\ lp <= lpBalance /\ BurnLp(lp)
  BY <1>1, LpToBurnBounded DEF HarvestLPFees
<1> HIDE DEF lp
<1>3. /\ pairToken' \in Nat /\ pair' \in PairState
      /\ lpBalance' \in Nat /\ lpBalance' < pair'.supply /\ Removed(lp) \in Nat
  BY <1>2, BurnTyped
<1>4. Realised \in Nat
  BY <1>3 DEF Realised, lp
<1>5. FundsTyped' /\ ToStakers(Realised) \in Nat
  BY <1>4, PaidFundsTyped, CutsNat DEF HarvestLPFees
<1>6. tokenInLp' \in Nat
  <2>1. /\ pair'.wqie \in Nat /\ pair'.supply \in Nat \ {0}
    BY <1>3 DEF PairState
  <2>2. 2 * pair'.wqie * lpBalance' \in Nat
    BY <1>3, <2>1, ProductNat
  <2>3. tokenInLp' = (2 * pair'.wqie * lpBalance') \div pair'.supply
    BY DEF HarvestLPFees, LPValue
  <2>. QED
    BY <2>1, <2>2, <2>3, QuotientNat
<1>. QED
  BY <1>3, <1>5, <1>6 DEF HarvestLPFees, StrategyTyped, StakingTypeOK, ratioVars

LEMMA ExitedTyped ==
  ASSUME StakingTypeOK, EmergencyExitStrategy
  PROVE  StrategyTyped' /\ ExitAmount \in Nat
<1>1. lpBalance \in Nat /\ BurnLp(lpBalance)
  BY DEF EmergencyExitStrategy, StakingTypeOK
<1>2. /\ pairToken' \in Nat /\ pair' \in PairState
      /\ lpBalance' \in Nat /\ lpBalance' < pair'.supply
      /\ Removed(lpBalance) \in Nat /\ CostAfter(lpBalance) \in Nat
  BY <1>1, BurnTyped
<1>. QED
  BY <1>2 DEF EmergencyExitStrategy, StrategyTyped, ExitAmount, StakingTypeOK, ratioVars

(***************************************************************************)
(* Type correctness: no subtraction of either contract goes below zero.    *)
(***************************************************************************)

RestTyped ==
  /\ kycVerified \in [Stakers -> BOOLEAN] /\ scores \in [Stakers -> Scores]
  /\ now \in Nat /\ sent \in Nat /\ events \in Nat /\ distributions \in Nat

VaultRestTyped ==
  totalStaked \in Nat /\ caps \in [standard : Nat, whale : Nat, threshold : Nat]

LEMMA TypeParts ==
  StakingTypeOK <=> /\ SharesTyped /\ YieldTyped /\ VaultRestTyped
                    /\ StrategyTyped /\ FundsTyped /\ RestTyped
BY DEF StakingTypeOK, SharesTyped, YieldTyped, VaultRestTyped, StrategyTyped,
       FundsTyped, RestTyped

LEMMA TypeInit == Init => StakingTypeOK
<1> SUFFICES ASSUME Init PROVE StakingTypeOK
  OBVIOUS
<1> USE DEF Init, VaultInit, StrategyInit
<1>1. SharesTyped
  <2>1. NoStake \in StakePosition
    BY DEF NoStake, StakePosition, Tiers
  <2>2. \A u \in Stakers : positions[u].lockExpiry = 0
    BY DEF NoStake
  <2>. QED
    BY <2>1, <2>2 DEF SharesTyped
<1>2. YieldTyped /\ VaultRestTyped
  BY StakingAssumption DEF YieldTyped, VaultRestTyped
<1>3. StrategyTyped /\ FundsTyped
  BY StakingAssumption DEF PairState, StrategyTyped, FundsTyped, MAX_DEPLOY_RATIO_BPS, MAX_SLIPPAGE_BPS
<1>4. RestTyped
  BY StakingAssumption DEF RestTyped
<1>. QED
  BY <1>1, <1>2, <1>3, <1>4, TypeParts

\* What a part of the state keeps its type by: nothing of it changes.
LEMMA Unchanged ==
  ASSUME StakingTypeOK
  PROVE  /\ UNCHANGED <<positions, shareVars>> => SharesTyped'
         /\ UNCHANGED yieldVars => YieldTyped'
         /\ UNCHANGED <<totalStaked, caps>> => VaultRestTyped'
         /\ UNCHANGED strategyVars => StrategyTyped'
         /\ UNCHANGED fundVars => FundsTyped'
         /\ UNCHANGED worldVars => RestTyped'
BY DEF StakingTypeOK, SharesTyped, YieldTyped, VaultRestTyped, StrategyTyped,
       FundsTyped, RestTyped, shareVars, yieldVars, strategyVars, lpVars, ratioVars, fundVars,
       worldVars, outside, registryVars

LEMMA EventTyped ==
  ASSUME StakingTypeOK, Event, UNCHANGED <<outside, sent, distributions>>
  PROVE  RestTyped'
BY DEF StakingTypeOK, Event, RestTyped, outside, registryVars

\* One step per action.
LEMMA TypeStep == StakingTypeOK /\ [Next]_vars => StakingTypeOK'
<1> SUFFICES ASSUME StakingTypeOK, [Next]_vars PROVE StakingTypeOK'
  OBVIOUS
<1> DEFINE Parts == /\ SharesTyped' /\ YieldTyped' /\ VaultRestTyped'
                    /\ StrategyTyped' /\ FundsTyped' /\ RestTyped'
<1>0. Parts => StakingTypeOK'
  BY TypeParts DEF StakingTypeOK, SharesTyped, YieldTyped, VaultRestTyped, StrategyTyped,
       FundsTyped, RestTyped
<1>1. ASSUME NEW u \in Stakers, NEW tier \in TierChoices, NEW amount \in Amounts,
             Stake(u, tier, amount)
      PROVE  Parts
  <2>1. amount \in Nat /\ tier \in Tiers
    BY StakingAssumption
  <2>2. SharesTyped'
    BY <1>1, <2>1, StakedPosition, SettledTyped DEF Stake, VaultStake
  <2>3. YieldTyped' /\ VaultRestTyped'
    BY <1>1, <2>1, Unchanged DEF Stake, VaultStake, VaultRestTyped, StakingTypeOK
  <2>4. StrategyTyped' /\ FundsTyped'
    BY <1>1, <2>1, DeployedTyped, Unchanged DEF Stake
  <2>5. RestTyped'
    BY <1>1, EventTyped DEF Stake
  <2>. QED
    BY <2>2, <2>3, <2>4, <2>5
<1>2. ASSUME NEW u \in Stakers, NEW amount \in Amounts, Unstake(u, amount)
      PROVE  Parts
  <2>1. amount \in Nat
    BY StakingAssumption
  <2>2. SharesTyped'
    BY <1>2, <2>1, UnstakedPosition, SettledTyped DEF Unstake, VaultUnstake
  <2>3. YieldTyped' /\ VaultRestTyped'
    BY <1>2, <2>1, Unchanged DEF Unstake, VaultUnstake, VaultRestTyped, StakingTypeOK
  <2>4. StrategyTyped' /\ Withdrawn(amount) \in Nat
    BY <1>2, <2>1, WithdrawnTyped DEF Unstake
  <2>5. ExitFee(u, amount) \in Nat
    <3>1. PenaltyRate(u) \in Nat
      BY DEF PenaltyRate, PenaltyBps, StakingTypeOK, StakePosition, Tiers
    <3>2. Withdrawn(amount) * PenaltyRate(u) \in Nat
      BY <2>4, <3>1, ProductNat
    <3>. QED
      BY <3>2, QuotientNat DEF ExitFee, BPS
  <2>6. FundsTyped'
    BY <1>2, <2>5 DEF Unstake, FundsTyped, StakingTypeOK
  <2>7. RestTyped'
    BY <1>2, Unchanged DEF Unstake
  <2>. QED
    BY <2>2, <2>3, <2>4, <2>6, <2>7
<1>3. ASSUME NEW u \in Stakers, ClaimYield(u) PROVE Parts
  <2>1. SharesTyped' /\ YieldTyped'
    BY <1>3, ClaimedTyped DEF ClaimYield
  <2>. QED
    BY <1>3, <2>1, Unchanged DEF ClaimYield, VaultClaim
<1>4. ASSUME NEW u \in Stakers, OptInToReputation(u) PROVE Parts
  <2>1. SharesTyped'
    BY <1>4, OptedInPosition, SettledTyped DEF OptInToReputation, VaultOptIn
  <2>. QED
    BY <1>4, <2>1, Unchanged DEF OptInToReputation, VaultOptIn
<1>5. ASSUME NEW u \in Stakers, RefreshBoost(u) PROVE Parts
  <2>1. SharesTyped'
    <3>1. positions[u] \in StakePosition
            /\ (positions[u].lockExpiry > 0 => positions[u].lockTier # "FLEXIBLE")
      BY DEF StakingTypeOK
    <3>. QED
      BY <1>5, <3>1, SettledTyped DEF RefreshBoost, VaultRefresh
  <2>. QED
    BY <1>5, <2>1, Unchanged DEF RefreshBoost, VaultRefresh
<1>6. ASSUME Harvest PROVE Parts
  <2>1. StrategyTyped' /\ FundsTyped' /\ ToStakers(Realised) \in Nat
    BY <1>6, HarvestedTyped DEF Harvest
  <2>2. YieldTyped'
    BY <1>6, <2>1, ReceivedTyped DEF Harvest, Distributed
  <2>3. SharesTyped' /\ VaultRestTyped'
    BY <1>6, Unchanged DEF Harvest, Distributed, ReceiveYield
  <2>4. RestTyped'
    BY <1>6 DEF Harvest, Distributed, RestTyped, StakingTypeOK, outside, registryVars
  <2>. QED
    BY <2>1, <2>2, <2>3, <2>4
<1>7. ASSUME NEW amount \in Gifts, KeeperTransfers(amount) PROVE Parts
  <2>1. amount \in Nat
    BY StakingAssumption
  <2>2. StrategyTyped'
    BY <1>7, <2>1 DEF KeeperTransfers, StrategyTyped, StakingTypeOK, lpVars, ratioVars
  <2>3. RestTyped'
    BY <1>7, <2>1 DEF KeeperTransfers, RestTyped, Event, StakingTypeOK, outside, registryVars
  <2>. QED
    BY <1>7, <2>2, <2>3, Unchanged DEF KeeperTransfers, vaultVars
<1>8. ASSUME KeeperInjects PROVE Parts
  <2>1. sent \in Nat /\ ToStakers(sent) \in Nat
    BY CutsNat DEF StakingTypeOK
  <2>2. StrategyTyped'
    BY <1>8, <2>1 DEF KeeperInjects, Inject, StrategyTyped, StakingTypeOK, lpVars, ratioVars
  <2>3. FundsTyped'
    BY <1>8, <2>1, PaidFundsTyped DEF KeeperInjects, Inject
  <2>4. YieldTyped'
    BY <1>8, <2>1, ReceivedTyped DEF KeeperInjects, Distributed
  <2>5. SharesTyped' /\ VaultRestTyped'
    BY <1>8, Unchanged DEF KeeperInjects, Distributed, ReceiveYield
  <2>6. RestTyped'
    BY <1>8 DEF KeeperInjects, Distributed, RestTyped, StakingTypeOK, outside, registryVars
  <2>. QED
    BY <2>2, <2>3, <2>4, <2>5, <2>6
<1>9. ASSUME KeeperFails PROVE Parts
  <2>1. RestTyped'
    BY <1>9 DEF KeeperFails, RestTyped, StakingTypeOK, outside, registryVars
  <2>. QED
    BY <1>9, <2>1, Unchanged DEF KeeperFails, vaultVars
<1>10. ASSUME NEW new \in CapChoices, SetBoostedCaps(new) PROVE Parts
  <2>1. VaultRestTyped'
    BY <1>10, StakingAssumption DEF SetBoostedCaps, VaultSetCaps, VaultRestTyped, StakingTypeOK
  <2>. QED
    BY <1>10, <2>1, Unchanged, EventTyped DEF SetBoostedCaps, VaultSetCaps
<1>11. ASSUME NEW bps \in Ratios, SetDeployRatio(bps) PROVE Parts
  <2>1. StrategyTyped'
    BY <1>11, StakingAssumption DEF SetDeployRatio, SetRatio, StrategyTyped, StakingTypeOK, lpVars, ratioVars
  <2>. QED
    BY <1>11, <2>1, Unchanged, EventTyped DEF SetDeployRatio, vaultVars
<1>12. ASSUME NEW bps \in Slippages, SetSlippage(bps) PROVE Parts
  <2>1. StrategyTyped'
    BY <1>12, StakingAssumption DEF SetSlippage, SetSlip, StrategyTyped, StakingTypeOK, lpVars, ratioVars
  <2>. QED
    BY <1>12, <2>1, Unchanged, EventTyped DEF SetSlippage, vaultVars
<1>13. ASSUME EmergencyExit PROVE Parts
  <2>1. StrategyTyped' /\ ExitAmount \in Nat
    BY <1>13, ExitedTyped DEF EmergencyExit
  <2>2. YieldTyped'
    BY <1>13, <2>1 DEF EmergencyExit, VaultReceivesExit, YieldTyped, StakingTypeOK
  <2>. QED
    BY <1>13, <2>1, <2>2, Unchanged, EventTyped DEF EmergencyExit, VaultReceivesExit
<1>14. ASSUME NEW amount \in Disbursals, NEW toStrategy \in BOOLEAN,
              Disburse(amount, toStrategy)
       PROVE  Parts
  <2>1. amount \in Nat /\ amount <= insurance
    BY <1>14, StakingAssumption DEF Disburse
  <2>2. FundsTyped' /\ StrategyTyped'
    BY <1>14, <2>1 DEF Disburse, FundsTyped, StrategyTyped, StakingTypeOK, lpVars, ratioVars
  <2>. QED
    BY <1>14, <2>2, Unchanged, EventTyped DEF Disburse, vaultVars
<1>15. ASSUME NEW u \in Stakers, NEW score \in Scores, SetScore(u, score) PROVE Parts
  <2>1. RestTyped'
    BY <1>15 DEF SetScore, Event, RestTyped, StakingTypeOK
  <2>. QED
    BY <1>15, <2>1, Unchanged DEF SetScore, vaultVars
<1>16. ASSUME NEW u \in Stakers, NEW verified \in BOOLEAN, SetKyc(u, verified) PROVE Parts
  <2>1. RestTyped'
    BY <1>16 DEF SetKyc, Event, RestTyped, StakingTypeOK
  <2>. QED
    BY <1>16, <2>1, Unchanged DEF SetKyc, vaultVars
<1>17. ASSUME NEW new \in Markets, Trade(new) PROVE Parts
  <2>1. StrategyTyped'
    BY <1>17, StakingAssumption DEF Trade, MarketMove, StrategyTyped, StakingTypeOK, ratioVars
  <2>. QED
    BY <1>17, <2>1, Unchanged, EventTyped DEF Trade, vaultVars
<1>18. ASSUME NEW days \in TimeSteps, NextBlock(days) PROVE Parts
  <2>1. RestTyped'
    BY <1>18, StakingAssumption DEF NextBlock, RestTyped, StakingTypeOK, registryVars
  <2>. QED
    BY <1>18, <2>1, Unchanged DEF NextBlock, vaultVars
<1>19. ASSUME UNCHANGED vars PROVE Parts
  BY <1>19, Unchanged DEF vars, vaultVars
<1> HIDE DEF Parts
<1>20. Parts
  <2>1. CASE StakerNext
    BY <2>1, <1>1, <1>2, <1>3, <1>4, <1>5 DEF StakerNext
  <2>2. CASE KeeperNext
    BY <2>2, <1>6, <1>7, <1>8, <1>9 DEF KeeperNext
  <2>3. CASE AdminNext
    BY <2>3, <1>10, <1>11, <1>12, <1>13, <1>14 DEF AdminNext
  <2>4. CASE WorldNext
    BY <2>4, <1>15, <1>16, <1>17, <1>18 DEF WorldNext
  <2>. QED
    BY <2>1, <2>2, <2>3, <2>4, <1>19 DEF Next
<1>. QED
  BY <1>0, <1>20

\* No amount, share, total or balance of vault, strategy and funds goes below
\* zero, positions keep their shape, the two ratios their limits, and a
\* running lock its tier.
THEOREM StakingTypeCorrect == Spec => []StakingTypeOK
BY TypeInit, TypeStep, PTL DEF Spec


(***************************************************************************)
(* Four kinds of step, by what they do to positions and the accumulator.   *)
(***************************************************************************)

Settles(u, pos) ==
  /\ SettleAndUpdate(u, pos)
  /\ totalStaked' = totalStaked - positions[u].principal + pos.principal
  /\ UNCHANGED <<yieldVars, distributions>>

Pays(u) == VaultClaim(u) /\ UNCHANGED distributions

Comes(amount) == ReceiveYield(amount) /\ distributions' = distributions + 1

\* what the strategy recovers may reach the vault, unbooked
Elsewhere ==
  /\ UNCHANGED <<positions, shareVars, accYieldPerShare, undistributed,
                 totalYieldPool, totalStaked, distributions>>
  /\ vaultWqie <= vaultWqie'

LEMMA StepKinds ==
  ASSUME StakingTypeOK, [Next]_vars
  PROVE  \/ \E u \in Stakers, pos \in StakePosition : Settles(u, pos)
         \/ \E u \in Stakers : Pays(u)
         \/ \E amount \in Nat : Comes(amount)
         \/ Elsewhere
<1> DEFINE Kinds == \/ \E u \in Stakers, pos \in StakePosition : Settles(u, pos)
                    \/ \E u \in Stakers : Pays(u)
                    \/ \E amount \in Nat : Comes(amount)
                    \/ Elsewhere
<1>0. /\ vaultWqie \in Nat /\ totalStaked \in Nat
      /\ \A u \in Stakers : positions[u] \in StakePosition
  BY DEF StakingTypeOK
<1>1. ASSUME StakerNext PROVE Kinds
  <2>1. ASSUME NEW u \in Stakers, NEW tier \in TierChoices, NEW amount \in Amounts,
               Stake(u, tier, amount)
        PROVE  Kinds
    <3>1. Staked(u, tier, amount) \in StakePosition
      BY StakingAssumption, StakedPosition
    <3>2. Staked(u, tier, amount).principal = positions[u].principal + amount
      BY <1>0 DEF Staked, StakePosition
    <3>3. amount \in Nat /\ positions[u].principal \in Nat
      BY <1>0, StakingAssumption DEF StakePosition
    <3>4. Settles(u, Staked(u, tier, amount))
      BY <1>0, <2>1, <3>2, <3>3 DEF Stake, VaultStake, Settles, worldVars
    <3>. QED
      BY <3>1, <3>4
  <2>2. ASSUME NEW u \in Stakers, NEW amount \in Amounts, Unstake(u, amount)
        PROVE  Kinds
    <3>1. amount \in Nat /\ amount <= positions[u].principal
      BY <2>2, StakingAssumption DEF Unstake, VaultUnstake
    <3>2. Unstaked(u, amount) \in StakePosition
      BY <3>1, UnstakedPosition
    <3>3. Unstaked(u, amount).principal = positions[u].principal - amount
      BY <1>0 DEF Unstaked, StakePosition
    <3>4. positions[u].principal \in Nat
      BY <1>0 DEF StakePosition
    <3>5. Settles(u, Unstaked(u, amount))
      BY <1>0, <2>2, <3>1, <3>3, <3>4 DEF Unstake, VaultUnstake, Settles, worldVars
    <3>. QED
      BY <3>2, <3>5
  <2>3. ASSUME NEW u \in Stakers, ClaimYield(u) PROVE Kinds
    BY <2>3 DEF ClaimYield, Pays, worldVars
  <2>4. ASSUME NEW u \in Stakers, OptInToReputation(u) PROVE Kinds
    <3> DEFINE pos == [positions[u] EXCEPT !.reputationOptIn = TRUE]
    <3>1. pos \in StakePosition
      BY OptedInPosition
    <3>2. pos.principal = positions[u].principal /\ positions[u].principal \in Nat
      BY <1>0 DEF StakePosition
    <3>3. SettleAndUpdate(u, pos) /\ UNCHANGED <<yieldVars, totalStaked, distributions>>
      BY <2>4 DEF OptInToReputation, VaultOptIn, worldVars
    <3> HIDE DEF pos
    <3>4. Settles(u, pos)
      BY <1>0, <3>2, <3>3 DEF Settles
    <3>. QED
      BY <3>1, <3>4
  <2>5. ASSUME NEW u \in Stakers, RefreshBoost(u) PROVE Kinds
    <3>1. positions[u] \in StakePosition /\ positions[u].principal \in Nat
      BY <1>0 DEF StakePosition
    <3>2. Settles(u, positions[u])
      BY <1>0, <2>5, <3>1 DEF RefreshBoost, VaultRefresh, Settles, worldVars
    <3>. QED
      BY <3>1, <3>2
  <2> HIDE DEF Kinds
  <2>. QED
    BY <1>1, <2>1, <2>2, <2>3, <2>4, <2>5 DEF StakerNext
<1>2. ASSUME KeeperNext PROVE Kinds
  <2>1. ASSUME Harvest PROVE Kinds
    <3>1. ToStakers(Realised) \in Nat
      BY <2>1, HarvestedTyped DEF Harvest
    <3>. QED
      BY <2>1, <3>1 DEF Harvest, Distributed, Comes
  <2>2. ASSUME KeeperInjects PROVE Kinds
    <3>1. ToStakers(sent) \in Nat
      BY CutsNat DEF StakingTypeOK
    <3>. QED
      BY <2>2, <3>1 DEF KeeperInjects, Distributed, Comes
  <2>3. ASSUME KeeperFails PROVE Kinds
    BY <1>0, <2>3 DEF KeeperFails, vaultVars, yieldVars, Elsewhere
  <2>4. ASSUME NEW amount \in Gifts, KeeperTransfers(amount) PROVE Kinds
    BY <1>0, <2>4 DEF KeeperTransfers, vaultVars, yieldVars, Elsewhere
  <2> HIDE DEF Kinds
  <2>. QED
    BY <1>2, <2>1, <2>2, <2>3, <2>4 DEF KeeperNext
<1>3. ASSUME AdminNext PROVE Kinds
  <2>1. ASSUME EmergencyExit PROVE Kinds
    <3>1. ExitAmount \in Nat
      BY <2>1, ExitedTyped DEF EmergencyExit
    <3>. QED
      BY <1>0, <2>1, <3>1 DEF EmergencyExit, VaultReceivesExit, Elsewhere
  <2>2. ASSUME NEW new \in CapChoices, SetBoostedCaps(new) PROVE Kinds
    BY <1>0, <2>2 DEF SetBoostedCaps, VaultSetCaps, yieldVars, Elsewhere
  <2>3. CASE \/ \E bps \in Ratios : SetDeployRatio(bps)
             \/ \E bps \in Slippages : SetSlippage(bps)
             \/ \E amount \in Disbursals, toStrategy \in BOOLEAN :
                  Disburse(amount, toStrategy)
    BY <1>0, <2>3 DEF SetDeployRatio, SetSlippage, Disburse, vaultVars, yieldVars, Elsewhere
  <2> HIDE DEF Kinds
  <2>. QED
    BY <1>3, <2>1, <2>2, <2>3 DEF AdminNext
<1>4. ASSUME WorldNext PROVE Kinds
  BY <1>0, <1>4 DEF WorldNext, SetScore, SetKyc, Trade, NextBlock, vaultVars, yieldVars,
     Elsewhere
<1>5. ASSUME UNCHANGED vars PROVE Kinds
  BY <1>0, <1>5 DEF vars, vaultVars, yieldVars, worldVars, Elsewhere
<1> HIDE DEF Kinds
<1>6. Kinds
  BY <1>1, <1>2, <1>3, <1>4, <1>5 DEF Next
<1>. QED
  BY <1>6 DEF Kinds

(***************************************************************************)
(* Shares follow stake.                                                    *)
(***************************************************************************)

LEMMA BoostedIgnoresYield ==
  ASSUME NEW pos \in StakePosition, NEW yield \in Nat
  PROVE  Boosted([pos EXCEPT !.pendingYield = yield]) = Boosted(pos)
<1> DEFINE new == [pos EXCEPT !.pendingYield = yield]
<1>1. /\ new.principal = pos.principal /\ new.lockTier = pos.lockTier
      /\ new.reputationOptIn = pos.reputationOptIn
  BY DEF StakePosition
<1> HIDE DEF new
<1>2. Boosted(new) = Boosted(pos)
  BY <1>1 DEF Boosted
<1>. QED
  BY <1>2 DEF new

LEMMA BoostStep ==
  ASSUME StakingTypeOK, SharesWithinBoost, [Next]_vars PROVE SharesWithinBoost'
<1>1. ASSUME NEW u \in Stakers, NEW pos \in StakePosition, Settles(u, pos)
      PROVE  SharesWithinBoost'
  <2> DEFINE new == [pos EXCEPT !.pendingYield = Banked(u)]
  <2>1. Banked(u) \in Nat
    BY <1>1, PendingNat DEF Settles, SettleAndUpdate, Banked
  <2>2. new.principal = pos.principal /\ Boosted(new) = Boosted(pos)
    BY <2>1, BoostedIgnoresYield DEF StakePosition
  <2> HIDE DEF new
  <2>3. /\ positions' = [positions EXCEPT ![u] = new]
        /\ effectiveShares' = [effectiveShares EXCEPT ![u] = ComputedShares(u, pos)]
    BY <1>1 DEF Settles, SettleAndUpdate, new
  <2>4. positions'[u] = new /\ effectiveShares'[u] = ComputedShares(u, pos)
    BY <2>3 DEF StakingTypeOK
  <2>5. \A w \in Stakers \ {u} : /\ positions'[w] = positions[w]
                                 /\ effectiveShares'[w] = effectiveShares[w]
    BY <2>3 DEF StakingTypeOK
  <2>6. /\ new.principal <= ComputedShares(u, pos)
        /\ ComputedShares(u, pos) <= Boosted(new)
    BY <2>2, ComputedSharesBounded
  <2>7. \A w \in Stakers : /\ positions'[w].principal <= effectiveShares'[w]
                           /\ effectiveShares'[w] <= Boosted(positions'[w])
    BY <2>4, <2>5, <2>6 DEF SharesWithinBoost
  <2>. QED
    BY <2>7 DEF SharesWithinBoost, Boosted
<1>2. ASSUME NEW u \in Stakers, VaultClaim(u) PROVE SharesWithinBoost'
  <2> DEFINE new == [positions[u] EXCEPT !.pendingYield = 0]
  <2>1. positions[u] \in StakePosition
    BY DEF StakingTypeOK
  <2>2. new.principal = positions[u].principal /\ Boosted(new) = Boosted(positions[u])
    BY <2>1, BoostedIgnoresYield DEF StakePosition
  <2> HIDE DEF new
  <2>3. positions' = [positions EXCEPT ![u] = new] /\ effectiveShares' = effectiveShares
    BY <1>2 DEF VaultClaim, new
  <2>4. \A w \in Stakers : positions'[w] = IF w = u THEN new ELSE positions[w]
    BY <2>3 DEF StakingTypeOK
  <2>5. \A w \in Stakers : /\ positions'[w].principal <= effectiveShares'[w]
                           /\ effectiveShares'[w] <= Boosted(positions'[w])
    BY <2>2, <2>3, <2>4 DEF SharesWithinBoost
  <2>. QED
    BY <2>5 DEF SharesWithinBoost, Boosted
<1>3. ASSUME UNCHANGED <<positions, effectiveShares>> PROVE SharesWithinBoost'
  BY <1>3 DEF SharesWithinBoost, Boosted
<1>. QED
  BY <1>1, <1>2, <1>3, StepKinds DEF Pays, Comes, Elsewhere, ReceiveYield, shareVars

\* Weight follows stake: nobody's shares fall below the principal or exceed
\* its largest boost, through any sequence of stakes, exits, opt-ins, scores
\* and cap settings.
THEOREM SharesStayWithinBoost == Spec => []SharesWithinBoost
<1>1. Init => SharesWithinBoost
  <2> SUFFICES ASSUME Init, NEW u \in Stakers
               PROVE  /\ positions[u].principal <= effectiveShares[u]
                      /\ effectiveShares[u] <= Boosted(positions[u])
    BY DEF SharesWithinBoost
  <2>1. positions[u] = NoStake /\ effectiveShares[u] = 0
    BY DEF Init, VaultInit
  <2>2. Boosted(NoStake) = 0
    BY DEF Boosted, NoStake, BPS, LockShareBonus
  <2>. QED
    BY <2>1, <2>2 DEF NoStake
<1>2. StakingTypeOK /\ SharesWithinBoost /\ [Next]_vars => SharesWithinBoost'
  BY BoostStep
<1>. QED
  BY <1>1, <1>2, StakingTypeCorrect, PTL DEF Spec

(***************************************************************************)
(* Every position can be settled, and claims move only with the            *)
(* accumulator.                                                            *)
(***************************************************************************)

\* A later accumulator never entitles shares to less.
LEMMA EntitlementMonotone ==
  ASSUME NEW shares \in Nat, accYieldPerShare \in Nat, accYieldPerShare' \in Nat,
         accYieldPerShare <= accYieldPerShare'
  PROVE  Entitlement(shares) <= Entitlement(shares)'
<1>1. shares * accYieldPerShare <= shares * accYieldPerShare'
  BY ProductMonotone
<1>2. shares * accYieldPerShare \in Nat /\ shares * accYieldPerShare' \in Nat
  BY ProductNat
<1>. QED
  BY <1>1, <1>2, QuotientMonotone, VaultAssumption DEF Entitlement

LEMMA BaselineStep ==
  ASSUME StakingTypeOK, BaselinesReached, [Next]_vars PROVE BaselinesReached'
<1>1. ASSUME NEW u \in Stakers, NEW pos \in StakePosition, Settles(u, pos)
      PROVE  BaselinesReached'
  <2> DEFINE shares == ComputedShares(u, pos)
  <2>1. shares \in Nat /\ Entitlement(shares) \in Nat
    BY ComputedSharesBounded, EntitlementNat DEF StakingTypeOK
  <2> HIDE DEF shares
  <2>2. /\ effectiveShares' = [effectiveShares EXCEPT ![u] = shares]
        /\ rewardDebt' = [rewardDebt EXCEPT ![u] = Entitlement(shares)]
        /\ accYieldPerShare' = accYieldPerShare
    BY <1>1 DEF Settles, SettleAndUpdate, Baseline, shares, yieldVars
  <2>3. Settleable(u)'
    BY <2>1, <2>2 DEF Settleable, Entitlement, StakingTypeOK
  <2>4. ASSUME NEW w \in Stakers \ {u} PROVE Settleable(w)'
    <3>1. Settleable(w)
      BY DEF BaselinesReached
    <3>. QED
      BY <2>2, <3>1 DEF Settleable, Entitlement, StakingTypeOK
  <2>. QED
    BY <2>3, <2>4 DEF BaselinesReached
<1>2. ASSUME NEW u \in Stakers, VaultClaim(u) PROVE BaselinesReached'
  <2>1. /\ effectiveShares' = effectiveShares /\ accYieldPerShare' = accYieldPerShare
        /\ rewardDebt' = [rewardDebt EXCEPT ![u] = Entitlement(effectiveShares[u])]
    BY <1>2 DEF VaultClaim
  <2>2. effectiveShares[u] \in Nat /\ Entitlement(effectiveShares[u]) \in Nat
    BY EntitlementNat DEF StakingTypeOK
  <2>3. Settleable(u)'
    BY <2>1, <2>2 DEF Settleable, Entitlement, StakingTypeOK
  <2>4. ASSUME NEW w \in Stakers \ {u} PROVE Settleable(w)'
    <3>1. Settleable(w)
      BY DEF BaselinesReached
    <3>. QED
      BY <2>1, <3>1 DEF Settleable, Entitlement, StakingTypeOK
  <2>. QED
    BY <2>3, <2>4 DEF BaselinesReached
<1>3. ASSUME NEW amount \in Nat, ReceiveYield(amount) PROVE BaselinesReached'
  <2>1. accYieldPerShare' \in Nat /\ accYieldPerShare <= accYieldPerShare'
    BY <1>3, ReceivedTyped DEF YieldTyped
  <2>2. effectiveShares' = effectiveShares /\ rewardDebt' = rewardDebt
    BY <1>3 DEF ReceiveYield, shareVars
  <2>3. ASSUME NEW w \in Stakers PROVE Settleable(w)'
    <3> DEFINE shares == effectiveShares[w]
    <3>1. shares \in Nat /\ rewardDebt[w] \in Nat /\ accYieldPerShare \in Nat
      BY DEF StakingTypeOK
    <3>2. Settleable(w)
      BY DEF BaselinesReached
    <3>3. Entitlement(shares) <= (shares * accYieldPerShare') \div ACC_PRECISION
      <4> HIDE DEF shares
      <4>. QED
        BY <2>1, <3>1, EntitlementMonotone DEF Entitlement
    <3>4. Entitlement(shares) \in Nat
      BY <3>1, EntitlementNat
    <3>5. (shares * accYieldPerShare') \div ACC_PRECISION \in Nat
      BY <2>1, <3>1, ProductNat, QuotientNat, VaultAssumption
    <3>6. shares = 0 \/ rewardDebt[w] <= (shares * accYieldPerShare') \div ACC_PRECISION
      BY <3>1, <3>2, <3>3, <3>4, <3>5 DEF Settleable
    <3>. QED
      BY <2>2, <3>6 DEF Settleable, Entitlement
  <2>. QED
    BY <2>3 DEF BaselinesReached
<1>4. ASSUME UNCHANGED <<positions, shareVars, accYieldPerShare>> PROVE BaselinesReached'
  BY <1>4 DEF BaselinesReached, Settleable, Entitlement, shareVars
<1>. QED
  BY <1>1, <1>2, <1>3, <1>4, StepKinds DEF Pays, Comes, Elsewhere

\* The accumulator has always reached every staker's baseline, so the
\* subtraction every call settles with never reverts.
THEOREM BaselinesStayReached == Spec => []BaselinesReached
<1>1. Init => BaselinesReached
  BY DEF Init, VaultInit, BaselinesReached, Settleable
<1>2. StakingTypeOK /\ BaselinesReached /\ [Next]_vars => BaselinesReached'
  BY BaselineStep
<1>. QED
  BY <1>1, <1>2, StakingTypeCorrect, PTL DEF Spec

\* Settling a position, for whatever reason, moves nobody's claim.
LEMMA SettlingMovesNoClaim ==
  ASSUME StakingTypeOK, BaselinesReached, NEW u \in Stakers, NEW pos \in StakePosition,
         Settles(u, pos), NEW w \in Stakers
  PROVE  PendingYieldOf(w)' = PendingYieldOf(w)
<1> DEFINE shares == ComputedShares(u, pos)
           new == [pos EXCEPT !.pendingYield = PendingYieldOf(u)]
<1>1. shares \in Nat /\ Entitlement(shares) \in Nat /\ PendingYieldOf(u) \in Nat
  BY ComputedSharesBounded, EntitlementNat, PendingNat DEF StakingTypeOK, BaselinesReached
<1>2. new.pendingYield = PendingYieldOf(u)
  BY DEF StakePosition
<1> HIDE DEF shares, new
<1>3. /\ positions' = [positions EXCEPT ![u] = new]
      /\ effectiveShares' = [effectiveShares EXCEPT ![u] = shares]
      /\ rewardDebt' = [rewardDebt EXCEPT ![u] = Entitlement(shares)]
      /\ accYieldPerShare' = accYieldPerShare
  BY DEF Settles, SettleAndUpdate, Baseline, Banked, shares, new, yieldVars
<1>4. CASE w = u
  <2>1. /\ positions'[w].pendingYield = PendingYieldOf(w)
        /\ effectiveShares'[w] = shares /\ rewardDebt'[w] = Entitlement(shares)
    BY <1>2, <1>3, <1>4 DEF StakingTypeOK
  <2>2. Entitlement(effectiveShares[w])' = rewardDebt'[w]
    BY <1>3, <2>1 DEF Entitlement
  <2>3. PendingYieldOf(w)' = PendingYieldOf(w) + 0
    BY <1>1, <2>1, <2>2 DEF PendingYieldOf
  <2>. QED
    BY <1>1, <1>4, <2>3
<1>5. CASE w # u
  <2>1. /\ positions'[w] = positions[w] /\ effectiveShares'[w] = effectiveShares[w]
        /\ rewardDebt'[w] = rewardDebt[w]
    BY <1>3, <1>5 DEF StakingTypeOK
  <2>. QED
    BY <1>3, <2>1 DEF PendingYieldOf, Entitlement
<1>. QED
  BY <1>4, <1>5

\* What a step that leaves the accumulator alone does to a claim.
LEMMA ClaimsStandStill ==
  ASSUME StakingTypeOK, BaselinesReached, [Next]_vars, accYieldPerShare' = accYieldPerShare,
         NEW w \in Stakers
  PROVE  \/ PendingYieldOf(w)' = PendingYieldOf(w)
         \/ PendingYieldOf(w)' = 0 /\ vaultWqie' = vaultWqie - Paid(PendingYieldOf(w))
<1> DEFINE Still == PendingYieldOf(w)' = PendingYieldOf(w)
           Claimed == PendingYieldOf(w)' = 0
                        /\ vaultWqie' = vaultWqie - Paid(PendingYieldOf(w))
<1>1. ASSUME NEW u \in Stakers, NEW pos \in StakePosition, Settles(u, pos) PROVE Still
  BY <1>1, SettlingMovesNoClaim
<1>2. ASSUME NEW u \in Stakers, VaultClaim(u) PROVE Still \/ Claimed
  <2> DEFINE new == [positions[u] EXCEPT !.pendingYield = 0]
  <2>1. new.pendingYield = 0
    BY DEF StakePosition, StakingTypeOK
  <2> HIDE DEF new
  <2>2. /\ positions' = [positions EXCEPT ![u] = new]
        /\ effectiveShares' = effectiveShares
        /\ rewardDebt' = [rewardDebt EXCEPT ![u] = Entitlement(effectiveShares[u])]
        /\ vaultWqie' = vaultWqie - Paid(PendingYieldOf(u))
    BY <1>2 DEF VaultClaim, new
  <2>3. CASE w = u
    <3>1. positions'[w].pendingYield = 0 /\ rewardDebt'[w] = Entitlement(effectiveShares[w])
      BY <2>1, <2>2, <2>3 DEF StakingTypeOK
    <3>2. Entitlement(effectiveShares[w]) \in Nat
      BY EntitlementNat DEF StakingTypeOK
    <3>3. Entitlement(effectiveShares[w])' = Entitlement(effectiveShares[w])
      BY <2>2 DEF Entitlement
    <3>4. PendingYieldOf(w)' = 0
      BY <3>1, <3>2, <3>3 DEF PendingYieldOf
    <3>. QED
      BY <2>2, <2>3, <3>4
  <2>4. CASE w # u
    <3>1. /\ positions'[w] = positions[w] /\ effectiveShares'[w] = effectiveShares[w]
          /\ rewardDebt'[w] = rewardDebt[w]
      BY <2>2, <2>4 DEF StakingTypeOK
    <3>. QED
      BY <3>1 DEF PendingYieldOf, Entitlement
  <2>. QED
    BY <2>3, <2>4
<1>3. ASSUME UNCHANGED <<positions, shareVars>> PROVE Still
  BY <1>3 DEF PendingYieldOf, Entitlement, shareVars
<1>4. Still \/ Claimed
  <2> HIDE DEF Still, Claimed
  <2>. QED
    BY <1>1, <1>2, <1>3, StepKinds DEF Pays, Comes, Elsewhere, ReceiveYield
<1>. QED
  BY <1>4

\* "You only ever get yield that flowed in after you joined": a claim changes
\* only when yield comes in, or by being paid.
THEOREM YieldMovesOnlyWithHarvestHolds == Spec => YieldMovesOnlyWithHarvest
<1> DEFINE Move == accYieldPerShare' = accYieldPerShare =>
                     \A u \in Stakers :
                       \/ PendingYieldOf(u)' = PendingYieldOf(u)
                       \/ /\ PendingYieldOf(u)' = 0
                          /\ vaultWqie' = vaultWqie - Paid(PendingYieldOf(u))
<1>1. StakingTypeOK /\ BaselinesReached /\ [Next]_vars => [Move]_vars
  BY ClaimsStandStill
<1>. QED
  BY <1>1, StakingTypeCorrect, BaselinesStayReached, PTL DEF Spec, YieldMovesOnlyWithHarvest

(***************************************************************************)
(* Yield is split by shares.                                               *)
(***************************************************************************)

\* Adding to a dividend adds at most the rounded-up quotient.
LEMMA QuotientOfSum ==
  ASSUME NEW x \in Nat, NEW y \in Nat, NEW n \in Nat \ {0}
  PROVE  ((x + y) \div n - x \div n) * n <= y + n
<1> DEFINE a == (x + y) \div n
           b == x \div n
<1>1. a \in Nat /\ b \in Nat
  BY QuotientNat
<1>2. n * a <= x + y
  OBVIOUS
<1>3. x < n * (b + 1)
  OBVIOUS
<1> HIDE DEF a, b
<1>4. n * (b + 1) = n * b + n /\ (a - b) * n = n * a - n * b
  BY <1>1
<1>5. n * a \in Nat /\ n * b \in Nat
  BY <1>1, ProductNat
<1>6. (a - b) * n <= y + n
  BY <1>2, <1>3, <1>4, <1>5
<1>. QED
  BY <1>6 DEF a, b

LEMMA CancelFactor ==
  ASSUME NEW a \in Int, NEW b \in Int, NEW n \in Nat \ {0}, n * a <= n * b
  PROVE  a <= b
<1> SUFFICES ASSUME a > b PROVE FALSE
  OBVIOUS
<1>1. n * (a - b) >= n
  <2>1. a - b \in Nat /\ a - b >= 1
    OBVIOUS
  <2>. QED
    BY <2>1, ProductMonotone
<1>2. n * (a - b) = n * a - n * b
  OBVIOUS
<1>. QED
  BY <1>1, <1>2

\* The share of one staker of what a distribution adds: s shares of t, the
\* accumulator of scale p at acc, and an amount that comes in.
LEMMA SplitOfYield ==
  ASSUME NEW s \in Nat, NEW t \in Nat \ {0}, NEW p \in Nat \ {0},
         NEW acc \in Nat, NEW amount \in Nat,
         NEW more, more = (amount * p) \div t
  PROVE  ((s * (acc + more)) \div p - (s * acc) \div p) * t <= s * amount + t
<1> DEFINE gain == (s * (acc + more)) \div p - (s * acc) \div p
<1>1. amount * p \in Nat
  BY ProductNat
<1>2. more \in Nat
  BY <1>1, QuotientNat
<1>3. t * more <= amount * p
  BY <1>1
<1>4. s * acc \in Nat /\ s * more \in Nat /\ s * (acc + more) = s * acc + s * more
  BY <1>2, ProductNat
<1>5. gain \in Int /\ gain * p <= s * more + p
  <2> DEFINE x == s * acc
             y == s * more
  <2>1. x \in Nat /\ y \in Nat
    BY <1>4
  <2>2. gain = (x + y) \div p - x \div p
    BY <1>4
  <2> HIDE DEF x, y, gain
  <2>3. gain * p <= y + p
    BY <2>1, <2>2, QuotientOfSum
  <2>4. gain \in Int
    BY <2>1, <2>2
  <2>. QED
    BY <2>3, <2>4 DEF y
<1> HIDE DEF gain
<1>6. t * (gain * p) <= t * (s * more + p)
  <2> DEFINE y == s * more + p
             g == gain * p
  <2>1. y \in Nat /\ g \in Int /\ g <= y
    BY <1>4, <1>5
  <2> HIDE DEF y, g
  <2>2. t * g <= t * y
    BY <2>1
  <2>. QED
    BY <2>2 DEF y, g
<1>7. t * (s * more + p) = s * (t * more) + t * p
  BY <1>2
<1>8. s * (t * more) <= s * (amount * p)
  <2> DEFINE a == t * more
             b == amount * p
  <2>1. a \in Nat /\ b \in Nat /\ a <= b
    BY <1>1, <1>2, <1>3, ProductNat
  <2> HIDE DEF a, b
  <2>2. s * a <= s * b
    BY <2>1, ProductMonotone
  <2>. QED
    BY <2>2 DEF a, b
<1>9. /\ t * (gain * p) = p * (gain * t)
      /\ s * (amount * p) + t * p = p * (s * amount + t)
  BY <1>5
<1>10. p * (gain * t) <= p * (s * amount + t)
  <2>1. s * (t * more) \in Int /\ s * (amount * p) \in Int /\ t * p \in Int
    BY <1>2
  <2>. QED
    BY <1>5, <1>6, <1>7, <1>8, <1>9, <2>1
<1>11. gain * t <= s * amount + t
  <2> DEFINE a == gain * t
             b == s * amount + t
  <2>1. a \in Int /\ b \in Int /\ p * a <= p * b
    BY <1>5, <1>10
  <2> HIDE DEF a, b
  <2>2. a <= b
    BY <2>1, CancelFactor
  <2>. QED
    BY <2>2 DEF a, b
<1>. QED
  BY <1>11 DEF gain

\* What a distribution adds to a claim.
LEMMA ReceivedGain ==
  ASSUME StakingTypeOK, BaselinesReached, NEW amount \in Nat, ReceiveYield(amount),
         totalEffectiveShares # 0, NEW u \in Stakers
  PROVE  /\ PendingYieldOf(u) \in Nat /\ PendingYieldOf(u)' \in Int
         /\ (PendingYieldOf(u)' - PendingYieldOf(u)) * totalEffectiveShares
              <= effectiveShares[u] * (amount + undistributed) + totalEffectiveShares
<1> DEFINE came == amount + undistributed
           t == totalEffectiveShares
           s == effectiveShares[u]
           acc == accYieldPerShare
           gain == PendingYieldOf(u)' - PendingYieldOf(u)
<1>1. PendingYieldOf(u) \in Nat
  BY PendingNat DEF BaselinesReached
<1>2. /\ t \in Nat \ {0} /\ came \in Nat
      /\ acc' = acc + (came * ACC_PRECISION) \div t
  BY DEF ReceiveYield, PerShare, StakingTypeOK
<1>3. s \in Nat /\ acc \in Nat /\ positions[u].pendingYield \in Nat /\ rewardDebt[u] \in Nat
  BY DEF StakingTypeOK, StakePosition
<1>4. UNCHANGED <<positions, effectiveShares, rewardDebt>>
  BY DEF ReceiveYield, shareVars
<1>5. CASE s = 0
  <2>1. PendingYieldOf(u)' = PendingYieldOf(u)
    BY <1>4, <1>5 DEF PendingYieldOf
  <2>2. gain = 0 /\ 0 * t = 0 /\ s * came = 0
    BY <1>1, <1>2, <1>5, <2>1
  <2>. QED
    BY <1>1, <1>2, <2>1, <2>2
<1>6. CASE s # 0
  <2>1. PendingYieldOf(u) = positions[u].pendingYield
                              + ((s * acc) \div ACC_PRECISION - rewardDebt[u])
    BY <1>6 DEF PendingYieldOf, Entitlement
  <2>2. PendingYieldOf(u)' = positions[u].pendingYield
                               + ((s * acc') \div ACC_PRECISION - rewardDebt[u])
    BY <1>4, <1>6 DEF PendingYieldOf, Entitlement
  <2>3. (s * acc) \div ACC_PRECISION \in Nat
    BY <1>3, ProductNat, QuotientNat, VaultAssumption
  <2>4. (s * acc') \div ACC_PRECISION \in Nat
    <3>1. (came * ACC_PRECISION) \div t \in Nat
      BY <1>2, ProductNat, QuotientNat, VaultAssumption
    <3>2. acc' \in Nat
      BY <1>2, <1>3, <3>1
    <3>. QED
      BY <1>3, <3>2, ProductNat, QuotientNat, VaultAssumption
  <2>5. gain = (s * acc') \div ACC_PRECISION - (s * acc) \div ACC_PRECISION
    BY <1>3, <2>1, <2>2, <2>3, <2>4
  <2>6. ((s * acc') \div ACC_PRECISION - (s * acc) \div ACC_PRECISION) * t <= s * came + t
    <3> DEFINE more == (came * ACC_PRECISION) \div t
    <3>1. acc' = acc + more
      BY <1>2
    <3>2. more = (came * ACC_PRECISION) \div t
      OBVIOUS
    <3> HIDE DEF more, came, t, s, acc
    <3>3. ((s * (acc + more)) \div ACC_PRECISION - (s * acc) \div ACC_PRECISION) * t
            <= s * came + t
      BY <1>2, <1>3, <3>2, SplitOfYield, VaultAssumption
    <3>. QED
      BY <3>1, <3>3
  <2>7. PendingYieldOf(u)' \in Int
    BY <1>3, <2>2, <2>4
  <2>. QED
    BY <1>1, <2>5, <2>6, <2>7
<1>. QED
  BY <1>5, <1>6

\* A claim grows only by the staker's share of what comes in.
LEMMA GainIsShare ==
  ASSUME StakingTypeOK, BaselinesReached, [Next]_vars, NEW u \in Stakers,
         PendingYieldOf(u)' > PendingYieldOf(u)
  PROVE  (PendingYieldOf(u)' - PendingYieldOf(u)) * totalEffectiveShares
           <= effectiveShares[u] * (totalYieldPool' - totalYieldPool + undistributed)
                + totalEffectiveShares
<1>1. PendingYieldOf(u) \in Nat
  BY PendingNat DEF BaselinesReached
<1>2. accYieldPerShare' # accYieldPerShare
  <2>1. SUFFICES ASSUME accYieldPerShare' = accYieldPerShare PROVE FALSE
    OBVIOUS
  <2>2. PendingYieldOf(u)' = PendingYieldOf(u) \/ PendingYieldOf(u)' = 0
    BY <2>1, ClaimsStandStill
  <2>. QED
    BY <1>1, <2>2
<1>3. PICK amount \in Nat : ReceiveYield(amount)
  BY <1>2, StepKinds DEF Settles, Pays, Comes, Elsewhere, VaultClaim, yieldVars
<1>4. totalEffectiveShares # 0
  BY <1>2, <1>3 DEF ReceiveYield
<1>5. totalYieldPool' - totalYieldPool + undistributed = amount + undistributed
  BY <1>3 DEF ReceiveYield, StakingTypeOK
<1>. QED
  BY <1>3, <1>4, <1>5, ReceivedGain

LEMMA PendingNatNext ==
  ASSUME StakingTypeOK', NEW u \in Stakers, Settleable(u)'
  PROVE  PendingYieldOf(u)' \in Nat
<1>1. /\ effectiveShares'[u] \in Nat /\ rewardDebt'[u] \in Nat
      /\ positions'[u].pendingYield \in Nat /\ accYieldPerShare' \in Nat
  BY DEF StakingTypeOK, StakePosition
<1>2. (effectiveShares'[u] * accYieldPerShare') \div ACC_PRECISION \in Nat
  BY <1>1, ProductNat, QuotientNat, VaultAssumption
<1>. QED
  BY <1>1, <1>2 DEF PendingYieldOf, Settleable, Entitlement

\* A distribution is split by shares: whatever came in and was parked, nobody
\* gains more than the share of it, rounded up.
THEOREM YieldSplitBySharesHolds == Spec => YieldSplitByShares
<1> DEFINE Split == \A u \in Stakers :
                      LET gain == PendingYieldOf(u)' - PendingYieldOf(u)
                          came == totalYieldPool' - totalYieldPool + undistributed
                      IN  gain > 0 =>
                            gain * totalEffectiveShares
                              <= effectiveShares[u] * came + totalEffectiveShares
<1>1. StakingTypeOK /\ StakingTypeOK' /\ BaselinesReached /\ BaselinesReached' /\ [Next]_vars
        => [Split]_vars
  <2> SUFFICES ASSUME StakingTypeOK, StakingTypeOK', BaselinesReached, BaselinesReached',
                      [Next]_vars, NEW u \in Stakers,
                      PendingYieldOf(u)' - PendingYieldOf(u) > 0
               PROVE  (PendingYieldOf(u)' - PendingYieldOf(u)) * totalEffectiveShares
                        <= effectiveShares[u] * (totalYieldPool' - totalYieldPool + undistributed)
                             + totalEffectiveShares
    BY DEF Split
  <2>1. PendingYieldOf(u) \in Nat
    BY PendingNat DEF BaselinesReached
  <2>2. PendingYieldOf(u)' \in Nat
    <3>1. Settleable(u)'
      BY DEF BaselinesReached
    <3>. QED
      BY <3>1, PendingNatNext
  <2>3. PendingYieldOf(u)' > PendingYieldOf(u)
    BY <2>1, <2>2
  <2>. QED
    BY <2>3, GainIsShare
<1>. QED
  BY <1>1, StakingTypeCorrect, BaselinesStayReached, PTL DEF Spec, YieldSplitByShares

(***************************************************************************)
(* The totals are the sums of the positions.                               *)
(***************************************************************************)

\* Every step that changes a position's principal or shares changes the total
\* by the same amount.
LEMMA ShareStep ==
  ASSUME StakingTypeOK, SharesAddUp, [Next]_vars PROVE SharesAddUp'
<1> DEFINE p == [w \in Stakers |-> positions[w].principal]
           q == [w \in Stakers |-> positions'[w].principal]
           f == [w \in Stakers |-> effectiveShares[w]]
           g == [w \in Stakers |-> effectiveShares'[w]]
<1>1. /\ p \in [Stakers -> Int] /\ f \in [Stakers -> Int]
      /\ totalStaked = SumFunction(p) /\ totalEffectiveShares = SumFunction(f)
  BY DEF StakingTypeOK, StakePosition, SharesAddUp
<1>2. ASSUME NEW u \in Stakers, NEW pos \in StakePosition, Settles(u, pos)
      PROVE  totalStaked' = SumFunction(q) /\ totalEffectiveShares' = SumFunction(g)
  <2> DEFINE shares == ComputedShares(u, pos)
             new == [pos EXCEPT !.pendingYield = Banked(u)]
  <2>1. shares \in Nat
    BY ComputedSharesBounded
  <2>2. new.principal = pos.principal /\ pos.principal \in Nat
    BY DEF StakePosition
  <2>3. /\ positions' = [positions EXCEPT ![u] = new]
        /\ effectiveShares' = [effectiveShares EXCEPT ![u] = shares]
        /\ totalEffectiveShares' = (totalEffectiveShares - effectiveShares[u]) + shares
        /\ totalStaked' = totalStaked - positions[u].principal + pos.principal
    BY <1>2 DEF Settles, SettleAndUpdate, TotalWith
  <2> HIDE DEF shares, new
  <2>4. /\ q[u] = pos.principal /\ g[u] = shares
        /\ \A w \in Stakers \ {u} : q[w] = p[w] /\ g[w] = f[w]
    BY <2>2, <2>3 DEF StakingTypeOK
  <2>5. q \in [Stakers -> Int] /\ g \in [Stakers -> Int]
    BY <1>1, <2>1, <2>2, <2>4
  <2>6. p[u] = positions[u].principal /\ f[u] = effectiveShares[u]
    OBVIOUS
  <2> HIDE DEF p, q, f, g
  <2>7. SumFunction(q) = SumFunction(p) - p[u] + q[u]
    BY <1>1, <2>4, <2>5, TotalChanged, FiniteStakers
  <2>8. SumFunction(g) = SumFunction(f) - f[u] + g[u]
    BY <1>1, <2>4, <2>5, TotalChanged, FiniteStakers
  <2>. QED
    BY <1>1, <2>3, <2>4, <2>6, <2>7, <2>8
<1>3. ASSUME NEW u \in Stakers, Pays(u)
      PROVE  totalStaked' = SumFunction(q) /\ totalEffectiveShares' = SumFunction(g)
  <2>1. \A w \in Stakers : positions'[w].principal = positions[w].principal
    BY <1>3 DEF Pays, VaultClaim, StakingTypeOK, StakePosition
  <2>2. UNCHANGED <<totalStaked, totalEffectiveShares, effectiveShares>>
    BY <1>3 DEF Pays, VaultClaim
  <2>3. q = p /\ g = f
    BY <2>1, <2>2
  <2>. QED
    BY <1>1, <2>2, <2>3
<1>4. ASSUME UNCHANGED <<positions, shareVars, totalStaked>>
      PROVE  totalStaked' = SumFunction(q) /\ totalEffectiveShares' = SumFunction(g)
  <2>1. q = p /\ g = f
    BY <1>4 DEF shareVars
  <2>. QED
    BY <1>1, <1>4, <2>1 DEF shareVars
<1>5. totalStaked' = SumFunction(q) /\ totalEffectiveShares' = SumFunction(g)
  <2> HIDE DEF p, q, f, g
  <2>. QED
    BY <1>2, <1>3, <1>4, StepKinds DEF Comes, Elsewhere, ReceiveYield
<1>. QED
  BY <1>5 DEF SharesAddUp

\* The totals yield is divided by are what the positions hold, for any number
\* of stakers and any sequence of stakes, partial and full exits, opt-ins,
\* refreshed boosts and changed caps.
THEOREM SharesAlwaysAddUp == Spec => []SharesAddUp
<1>1. Init => SharesAddUp
  <2> SUFFICES ASSUME Init PROVE SharesAddUp
    OBVIOUS
  <2>1. /\ [w \in Stakers |-> positions[w].principal] = [w \in Stakers |-> 0]
        /\ [w \in Stakers |-> effectiveShares[w]] = [w \in Stakers |-> 0]
        /\ totalStaked = 0 /\ totalEffectiveShares = 0
    BY DEF Init, VaultInit, NoStake
  <2>. QED
    BY <2>1, TotalOfZeros, FiniteStakers DEF SharesAddUp
<1>2. StakingTypeOK /\ SharesAddUp /\ [Next]_vars => SharesAddUp'
  BY ShareStep
<1>. QED
  BY <1>1, <1>2, StakingTypeCorrect, PTL DEF Spec

\* No position can be stuck: settling it never reverts, and the totals it is
\* subtracted from on the way out are large enough.
THEOREM StakesAlwaysSettle == Spec => []StakesSettle
<1>1. StakingTypeOK /\ SharesAddUp /\ BaselinesReached => StakesSettle
  <2> SUFFICES ASSUME StakingTypeOK, SharesAddUp, BaselinesReached, NEW u \in Stakers
               PROVE  /\ effectiveShares[u] <= totalEffectiveShares
                      /\ positions[u].principal <= totalStaked
    BY DEF StakesSettle
  <2> DEFINE p == [w \in Stakers |-> positions[w].principal]
             f == [w \in Stakers |-> effectiveShares[w]]
  <2>1. /\ p \in [Stakers -> Nat] /\ f \in [Stakers -> Nat]
        /\ totalStaked = SumFunction(p) /\ totalEffectiveShares = SumFunction(f)
    BY DEF StakingTypeOK, StakePosition, SharesAddUp
  <2>2. p[u] = positions[u].principal /\ f[u] = effectiveShares[u]
    OBVIOUS
  <2> HIDE DEF p, f
  <2>3. p[u] <= SumFunction(p) /\ f[u] <= SumFunction(f)
    BY <2>1, TotalNat, FiniteStakers
  <2>. QED
    BY <2>1, <2>2, <2>3
<1>. QED
  BY <1>1, StakingTypeCorrect, SharesAlwaysAddUp, BaselinesStayReached, PTL

(***************************************************************************)
(* Promised yield is there.                                                *)
(***************************************************************************)

Claims == [u \in Stakers |-> PendingYieldOf(u)]

LEMMA ClaimsNat ==
  ASSUME StakingTypeOK, BaselinesReached
  PROVE  /\ Claims \in [Stakers -> Nat] /\ SumFunction(Claims) \in Nat
         /\ \A u \in Stakers : Claims[u] = PendingYieldOf(u)
<1>1. Claims \in [Stakers -> Nat]
  BY PendingNat DEF Claims, BaselinesReached
<1>. QED
  BY <1>1, TotalNat, FiniteStakers DEF Claims

\* A distribution adds what came in and was parked, and rounds up by less than
\* a unit for every staker.
LEMMA DistributionAdds ==
  ASSUME StakingTypeOK, BaselinesReached, SharesAddUp, NEW amount \in Nat,
         ReceiveYield(amount), totalEffectiveShares # 0
  PROVE  /\ SumFunction(Claims') \in Int
         /\ SumFunction(Claims')
              <= SumFunction(Claims) + (amount + undistributed) + Cardinality(Stakers)
<1> DEFINE came == amount + undistributed
           t == totalEffectiveShares
           n == Cardinality(Stakers)
           new == [u \in Stakers |-> PendingYieldOf(u)']
           gain == [u \in Stakers |-> new[u] - Claims[u]]
           shares == [u \in Stakers |-> effectiveShares[u]]
           ones == [u \in Stakers |-> 1]
           scaled == [u \in Stakers |-> t * gain[u]]
           units == [u \in Stakers |-> t * ones[u]]
           bound == [u \in Stakers |-> units[u] + came * shares[u]]
<1>1. /\ Claims \in [Stakers -> Int] /\ SumFunction(Claims) \in Int
      /\ \A u \in Stakers : Claims[u] = PendingYieldOf(u)
  BY ClaimsNat
<1>2. /\ t \in Nat \ {0} /\ came \in Nat /\ n \in Nat
      /\ shares \in [Stakers -> Int] /\ t = SumFunction(shares)
  <2>1. n \in Nat
    BY FiniteStakers, FS_CardinalityType
  <2>. QED
    BY <2>1 DEF StakingTypeOK, SharesAddUp
<1>3. \A u \in Stakers : /\ new[u] \in Int
                         /\ (new[u] - Claims[u]) * t <= shares[u] * came + t
  BY <1>1, ReceivedGain
<1>4. /\ new \in [Stakers -> Int] /\ gain \in [Stakers -> Int]
  BY <1>1, <1>3
<1>5. /\ scaled \in [Stakers -> Int] /\ units \in [Stakers -> Int]
      /\ bound \in [Stakers -> Int] /\ ones \in [Stakers -> Int]
  BY <1>2, <1>4
<1>6. \A u \in Stakers : scaled[u] <= bound[u]
  <2> SUFFICES ASSUME NEW u \in Stakers PROVE scaled[u] <= bound[u]
    OBVIOUS
  <2>1. scaled[u] = t * (new[u] - Claims[u]) /\ bound[u] = t * 1 + came * shares[u]
    OBVIOUS
  <2>2. new[u] - Claims[u] \in Int /\ shares[u] \in Int
    BY <1>1, <1>2, <1>3
  <2>3. (new[u] - Claims[u]) * t <= shares[u] * came + t
    BY <1>3
  <2> DEFINE d == new[u] - Claims[u]
             s == shares[u]
  <2> HIDE DEF d, s, t, came
  <2>4. t * d <= t * 1 + came * s
    BY <1>2, <2>2, <2>3 DEF d, s
  <2>. QED
    BY <2>1, <2>4 DEF d, s
<1>6a. \A u \in Stakers : scaled[u] = t * gain[u]
  BY <1>2, <1>4, <1>5
<1>7. /\ \A u \in Stakers : new[u] = Claims[u] + gain[u]
      /\ \A u \in Stakers : units[u] = t * ones[u]
      /\ \A u \in Stakers : bound[u] = units[u] + came * shares[u]
  BY <1>1, <1>2, <1>3, <1>4, <1>5
<1>8. SumFunction(ones) = n
  BY TotalOfOnes, FiniteStakers
<1>9. Claims' = new
  BY DEF Claims
<1> HIDE DEF new, gain, shares, ones, scaled, units, bound, t, n, came
<1>10. SumFunction(new) = SumFunction(Claims) + SumFunction(gain)
  <2>1. Claims \in [Stakers -> Int] /\ new \in [Stakers -> Int] /\ gain \in [Stakers -> Int]
    BY ONLY <1>1, <1>4
  <2>2. \A u \in Stakers : new[u] = Claims[u] + gain[u]
    BY ONLY <1>7
  <2>. QED
    BY ONLY <2>1, <2>2, TotalAdds, FiniteStakers
<1>11. SumFunction(scaled) = t * SumFunction(gain)
  <2>1. scaled \in [Stakers -> Int] /\ gain \in [Stakers -> Int] /\ t \in Int
    BY ONLY <1>2, <1>4, <1>5
  <2>. QED
    BY ONLY <1>6a, <2>1, TotalScaled, FiniteStakers
<1>12. SumFunction(units) = t * SumFunction(ones)
  <2>1. units \in [Stakers -> Int] /\ ones \in [Stakers -> Int] /\ t \in Int
    BY ONLY <1>2, <1>5
  <2>2. \A u \in Stakers : units[u] = t * ones[u]
    BY ONLY <1>7
  <2>. QED
    BY ONLY <2>1, <2>2, TotalScaled, FiniteStakers
<1>13. SumFunction(bound) = SumFunction(units) + came * SumFunction(shares)
  BY <1>2, <1>5, <1>7, TotalLinear, FiniteStakers
<1>14. SumFunction(scaled) <= SumFunction(bound)
  BY <1>5, <1>6, TotalMonotone, FiniteStakers
<1>15. SumFunction(gain) \in Int
  BY <1>4, TotalInt, FiniteStakers
<1>16. t * SumFunction(gain) <= t * (n + came)
  <2>1. t * n \in Int /\ came * t \in Int /\ t * SumFunction(gain) \in Int
    BY <1>2, <1>15
  <2>2. t * SumFunction(gain) <= t * n + came * t
    BY <1>2, <1>8, <1>11, <1>12, <1>13, <1>14, <2>1
  <2>3. t * (n + came) = t * n + came * t
    BY <1>2
  <2>. QED
    BY <2>2, <2>3
<1>17. SumFunction(gain) <= n + came
  BY <1>2, <1>15, <1>16, CancelFactor
<1>. QED
  BY <1>1, <1>2, <1>9, <1>10, <1>15, <1>17 DEF n, came

\* A claim that is paid falls to zero and leaves the others alone.
LEMMA PayingTakesOff ==
  ASSUME StakingTypeOK, BaselinesReached, NEW u \in Stakers, VaultClaim(u)
  PROVE  SumFunction(Claims') = SumFunction(Claims) - PendingYieldOf(u)
<1> DEFINE new == [w \in Stakers |-> PendingYieldOf(w)']
           left == [positions[u] EXCEPT !.pendingYield = 0]
<1>1. /\ Claims \in [Stakers -> Int] /\ SumFunction(Claims) \in Int
      /\ \A w \in Stakers : Claims[w] = PendingYieldOf(w)
  BY ClaimsNat
<1>2. left.pendingYield = 0
  BY DEF StakePosition, StakingTypeOK
<1> HIDE DEF left
<1>3. /\ positions' = [positions EXCEPT ![u] = left]
      /\ effectiveShares' = effectiveShares /\ accYieldPerShare' = accYieldPerShare
      /\ rewardDebt' = [rewardDebt EXCEPT ![u] = Entitlement(effectiveShares[u])]
  BY DEF VaultClaim, left
<1>4. PendingYieldOf(u)' = 0
  <2>1. positions'[u].pendingYield = 0 /\ rewardDebt'[u] = Entitlement(effectiveShares[u])
    BY <1>2, <1>3 DEF StakingTypeOK
  <2>2. Entitlement(effectiveShares[u]) \in Nat
    BY EntitlementNat DEF StakingTypeOK
  <2>3. Entitlement(effectiveShares[u])' = Entitlement(effectiveShares[u])
    BY <1>3 DEF Entitlement
  <2>. QED
    BY <2>1, <2>2, <2>3 DEF PendingYieldOf
<1>5. ASSUME NEW w \in Stakers \ {u} PROVE PendingYieldOf(w)' = PendingYieldOf(w)
  <2>1. /\ positions'[w] = positions[w] /\ effectiveShares'[w] = effectiveShares[w]
        /\ rewardDebt'[w] = rewardDebt[w]
    BY <1>3 DEF StakingTypeOK
  <2>. QED
    BY <1>3, <2>1 DEF PendingYieldOf, Entitlement
<1>6. new[u] = 0 /\ \A w \in Stakers \ {u} : new[w] = Claims[w]
  BY <1>1, <1>4, <1>5
<1>7. new \in [Stakers -> Int]
  BY <1>1, <1>6
<1>8. Claims' = new
  BY DEF Claims
<1> HIDE DEF new
<1>9. SumFunction(new) = SumFunction(Claims) - Claims[u] + new[u]
  BY <1>1, <1>6, <1>7, TotalChanged, FiniteStakers
<1>. QED
  BY <1>1, <1>6, <1>8, <1>9

LEMMA BackedStep ==
  ASSUME StakingTypeOK, BaselinesReached, SharesAddUp, YieldPoolBacked, [Next]_vars
  PROVE  YieldPoolBacked'
<1> DEFINE n == Cardinality(Stakers)
           C == SumFunction(Claims)
           D == SumFunction(Claims')
           Backed == D + undistributed' <= totalYieldPool' + distributions' * n
<1>1. /\ C \in Nat /\ n \in Nat /\ distributions \in Nat
      /\ undistributed \in Nat /\ totalYieldPool \in Nat /\ vaultWqie \in Nat
      /\ C + undistributed <= totalYieldPool + distributions * n
      /\ totalYieldPool <= vaultWqie
      /\ distributions * n \in Nat
  <2>1. n \in Nat /\ C \in Nat
    BY FiniteStakers, FS_CardinalityType, ClaimsNat
  <2>2. distributions * n \in Nat
    BY <2>1, ProductNat DEF StakingTypeOK
  <2>. QED
    BY <2>1, <2>2 DEF StakingTypeOK, YieldPoolBacked, Claims
<1> HIDE DEF n, C, D
<1>2. ASSUME NEW u \in Stakers, NEW pos \in StakePosition, Settles(u, pos)
      PROVE  Backed /\ totalYieldPool' <= vaultWqie'
  <2>1. Claims' = Claims
    BY <1>2, SettlingMovesNoClaim DEF Claims
  <2>2. UNCHANGED <<undistributed, totalYieldPool, vaultWqie, distributions>>
    BY <1>2 DEF Settles, yieldVars
  <2>. QED
    BY <1>1, <2>1, <2>2 DEF C, D
<1>3. ASSUME NEW u \in Stakers, Pays(u)
      PROVE  Backed /\ totalYieldPool' <= vaultWqie'
  <2> DEFINE claim == PendingYieldOf(u)
             paid == Paid(claim)
  <2>1. claim \in Nat
    BY PendingNat DEF BaselinesReached
  <2>2. /\ paid <= vaultWqie /\ totalYieldPool' = totalYieldPool - paid
        /\ vaultWqie' = vaultWqie - paid
        /\ UNCHANGED <<undistributed, distributions>>
    BY <1>3 DEF Pays, VaultClaim
  <2>3. /\ D = C - claim
        /\ paid = IF claim > totalYieldPool THEN totalYieldPool ELSE claim
    BY <1>3, PayingTakesOff DEF Pays, C, D, Paid
  <2> HIDE DEF claim, paid
  <2>. QED
    BY <1>1, <2>1, <2>2, <2>3
<1>4. ASSUME NEW amount \in Nat, Comes(amount)
      PROVE  Backed /\ totalYieldPool' <= vaultWqie'
  <2>1. /\ totalYieldPool' = totalYieldPool + amount /\ vaultWqie' = vaultWqie + amount
        /\ undistributed' = IF totalEffectiveShares > 0 THEN 0 ELSE amount + undistributed
        /\ distributions' = distributions + 1
    BY <1>4 DEF Comes, ReceiveYield, Parked
  <2>2. (distributions + 1) * n = distributions * n + n
    BY <1>1
  <2>3. CASE totalEffectiveShares > 0
    <3>1. totalEffectiveShares # 0
      BY <2>3
    <3>2. D \in Int /\ D <= C + (amount + undistributed) + n
      BY <1>4, <3>1, DistributionAdds DEF Comes, C, D, n
    <3>. QED
      BY <1>1, <2>1, <2>2, <2>3, <3>2
  <2>4. CASE ~(totalEffectiveShares > 0)
    <3>1. UNCHANGED <<positions, effectiveShares, rewardDebt, accYieldPerShare>>
      BY <1>4, <2>4 DEF Comes, ReceiveYield, shareVars
    <3>2. D = C
      BY <3>1 DEF C, D, Claims, PendingYieldOf, Entitlement
    <3>. QED
      BY <1>1, <2>1, <2>2, <2>4, <3>2
  <2>. QED
    BY <2>3, <2>4
<1>5. ASSUME Elsewhere
      PROVE  Backed /\ totalYieldPool' <= vaultWqie'
  <2>1. D = C
    BY <1>5 DEF C, D, Claims, PendingYieldOf, Entitlement, Elsewhere, shareVars
  <2>2. vaultWqie' \in Nat
    BY TypeStep DEF StakingTypeOK
  <2>. QED
    BY <1>1, <1>5, <2>1, <2>2 DEF Elsewhere
<1>6. Backed /\ totalYieldPool' <= vaultWqie'
  <2> HIDE DEF Backed
  <2>. QED
    BY <1>2, <1>3, <1>4, <1>5, StepKinds
<1>. QED
  BY <1>6 DEF YieldPoolBacked, D, Claims, n

\* What all stakers can claim and what is parked is covered by the yield pool,
\* up to a unit per staker for every distribution there ever was, and the pool
\* by the vault's balance.
THEOREM YieldPoolStaysBacked == Spec => []YieldPoolBacked
<1>1. Init => YieldPoolBacked
  <2> SUFFICES ASSUME Init PROVE YieldPoolBacked
    OBVIOUS
  <2>1. [u \in Stakers |-> PendingYieldOf(u)] = [u \in Stakers |-> 0]
    <3>1. \A u \in Stakers : positions[u].pendingYield = 0 /\ effectiveShares[u] = 0
      BY DEF Init, VaultInit, NoStake
    <3>2. ASSUME NEW u \in Stakers PROVE PendingYieldOf(u) = 0
      <4>1. PendingYieldOf(u) = 0 + 0
        BY <3>1 DEF PendingYieldOf
      <4>. QED
        BY <4>1
    <3>. QED
      BY <3>2
  <2>2. SumFunction([u \in Stakers |-> PendingYieldOf(u)]) = 0
    BY <2>1, TotalOfZeros, FiniteStakers
  <2>3. Cardinality(Stakers) \in Nat
    BY FiniteStakers, FS_CardinalityType
  <2>4. 0 * Cardinality(Stakers) = 0
    BY <2>3
  <2>. QED
    BY <2>2, <2>4 DEF Init, VaultInit, YieldPoolBacked
<1>2. StakingTypeOK /\ BaselinesReached /\ SharesAddUp /\ YieldPoolBacked /\ [Next]_vars
        => YieldPoolBacked'
  BY BackedStep
<1>. QED
  BY <1>1, <1>2, StakingTypeCorrect, BaselinesStayReached, SharesAlwaysAddUp, PTL DEF Spec
=============================================================================

----------------------------- MODULE PagesProofs -----------------------------
(***************************************************************************)
(* Theorems about the money pages: their types, what the loan form lets    *)
(* through, what the badges tell, the fee announced before an exit, and    *)
(* the rate that is promised.                                              *)
(***************************************************************************)
EXTENDS Pages, LendingPoolProofs

(***************************************************************************)
(* The inductive invariant.                                                *)
(***************************************************************************)

\* The form lets a loan through on the oracle price it has read.
Covered(c) ==
  c.oracle > 0 =>
    c.amount * PRICE_UNIT * 100 <= c.collateral * c.oracle * c.ltvPct

BorrowCalls ==
  {c \in [call : {"borrow"}, amount : Nat, collateral : Nat, oracle : Nat, ltvPct : Nat] :
     Covered(c)}

\* The fee a waiting exit would be charged now, if no stake was mined since the
\* page read the position.
Honest(c) ==
  /\ c.seen <= stakes
  /\ c.seen = stakes => c.amount * Vault!PenaltyRate(Me) <= c.announced

UnstakeCalls ==
  {c \in [call : {"unstake"}, amount : Nat, announced : Nat, seen : Nat] : Honest(c)}

PlainCalls ==
  [call : {"approveQusdc", "approveWeth", "supply", "redeem", "claimSupplierYield",
           "repay", "claimYield"}, amount : Nat]

StakeCalls == [call : {"stake"}, amount : Nat, tier : Vault!Tiers]

\* every call a handler has still to send, or that waits to be mined
Calls == PlainCalls \cup StakeCalls \cup BorrowCalls \cup UnstakeCalls

CallsOK ==
  /\ handlers \in Seq([visit : Nat, calls : Seq(Calls)])
  /\ \A n \in DOMAIN handlers : Len(handlers[n].calls) <= 2
  /\ queue \in Seq(Calls)
  /\ visit \in [page : PageNames, count : Nat]

CapsSet == caps = [standard |-> 50000, whale |-> 75000, threshold |-> 5000000]

VaultTyped ==
  /\ positions \in [{Me} -> Vault!StakePosition]
  /\ effectiveShares \in [{Me} -> Nat] /\ rewardDebt \in [{Me} -> Nat]
  /\ accYieldPerShare \in Nat /\ totalEffectiveShares \in Nat /\ undistributed \in Nat
  /\ totalStaked \in Nat /\ totalYieldPool \in Nat /\ vaultWqie \in Nat
  /\ CapsSet
  /\ totalStaked = positions[Me].principal

AccountTyped ==
  /\ kycVerified \in [{Me} -> BOOLEAN]
  /\ globalBaseApyBps \in Nat /\ purse \in Nat /\ stakes \in Nat
  /\ allowance \in [qusdc : Nat, weth : Nat]

LoanViews ==
  [collateral : Nat, principal : Nat, interest : Nat, threshold : Nat, hf : Nat,
   isLiquidatable : BOOLEAN]
SupplyViews == [amount : Nat, pending : Int]
Readings == [score : 0..1000, price : Nat, loan : LoanViews, supply : SupplyViews]

LendingScreenTyped ==
  /\ quote \in Nat
  /\ cached.price \in Nat
  /\ form \in [borrow : Nat, collateral : Nat]
  /\ shown \in Readings

\* Unless a stake came in between, the lock on the screen is the position's, or
\* the position's is over for good.
LockShown ==
  /\ shownStake.seen \in Nat /\ shownStake.seen <= stakes
  /\ shownStake.seen = stakes =>
       \/ positions[Me].lockExpiry = 0
       \/ /\ positions[Me].lockExpiry = shownStake.position.lockExpiry
          /\ positions[Me].lockTier = shownStake.position.lockTier

StakeForms ==
  [tab : {"stake", "unstake"}, amount : Nat, tier : Vault!Tiers, reviewing : BOOLEAN]

StakeScreenTyped ==
  /\ shownStake.position \in Vault!StakePosition /\ shownStake.purse \in Nat
  /\ stakeForm \in StakeForms
  /\ LockShown

PagesInv ==
  /\ TypeOK /\ NoInterestWithoutPrincipal
  /\ VaultTyped /\ AccountTyped
  /\ LendingScreenTyped /\ StakeScreenTyped
  /\ CallsOK

(***************************************************************************)
(* Tables, prices and what the form fills in.                              *)
(***************************************************************************)

LEMMA FloorBounds ==
  ASSUME NEW a \in Nat, NEW n \in Nat \ {0}
  PROVE  /\ a \div n \in Nat
         /\ n * (a \div n) <= a
         /\ a < n * (a \div n) + n
OBVIOUS

\* the scores the contracts know, under a name the provers need not look into
ScoreRange == 0..1000

LEMMA TierOfScore ==
  ASSUME NEW score \in ScoreRange
  PROVE  GetTier(score).ltvPct \in {60, 64, 68, 72, 75}
<1> DEFINE Fits(i) == score >= TIERS[i].min /\ score <= TIERS[i].max
<1>0. score \in Nat /\ score <= 1000
  BY DEF ScoreRange
<1>1. \E i \in 1..5 : Fits(i)
  <2>1. CASE score <= 200
    BY <1>0, <2>1 DEF TIERS
  <2>2. CASE score > 200 /\ score <= 400
    BY <1>0, <2>2 DEF TIERS
  <2>3. CASE score > 400 /\ score <= 600
    BY <1>0, <2>3 DEF TIERS
  <2>4. CASE score > 600 /\ score <= 800
    BY <1>0, <2>4 DEF TIERS
  <2>5. CASE score > 800
    BY <1>0, <2>5 DEF TIERS
  <2>. QED
    BY <1>0, <2>1, <2>2, <2>3, <2>4, <2>5
<1>2. (CHOOSE i \in 1..5 : Fits(i)) \in 1..5
  BY <1>1
<1>3. \A i \in 1..5 : TIERS[i].ltvPct \in {60, 64, 68, 72, 75}
  BY DEF TIERS
<1> DEFINE k == CHOOSE i \in 1..5 : Fits(i)
<1>4. GetTier(score) = TIERS[k]
  BY DEF GetTier
<1> HIDE DEF k
<1>. QED
  BY ONLY <1>2, <1>3, <1>4 DEF k

LEMMA RoundedNat ==
  ASSUME NEW a \in Nat, NEW n \in Nat \ {0} PROVE Rounded(a, n) \in Nat
<1>1. 2 * a + n \in Nat /\ 2 * n \in Nat \ {0}
  OBVIOUS
<1>. QED
  BY <1>1, QuotientNat DEF Rounded

LEMMA ToFixedNat ==
  ASSUME NEW a \in Nat, NEW n \in Nat \ {0} PROVE ToFixed(a, n) \in Nat
BY RoundedNat, ProductNat DEF ToFixed

LEMMA TripleNat == ASSUME NEW a \in Nat, NEW b \in Nat, NEW c \in Nat PROVE a * b * c \in Nat
BY ProductNat

\* a bound that two naturals have on both sides of the same factor
LEMMA ScaledBelow ==
  ASSUME NEW a \in Nat, NEW b \in Nat, NEW between \in Nat,
         a * 10000 < between, between <= b * 10000
  PROVE  a < b
OBVIOUS

\* The price the form calculates with is positive, and at most the oracle's once
\* that was read.
LEMMA SafePrice ==
  ASSUME LendingScreenTyped
  PROVE  /\ SafeEthUsd \in Nat \ {0}
         /\ shown.price > 0 => SafeEthUsd <= shown.price
         /\ LtvPct \in Nat \ {0}
<1>1. EthUsd \in Nat \ {0} /\ shown.price \in Nat
  BY LendingPageAssumption DEF LendingScreenTyped, EthUsd, Readings
<1>2. LtvPct \in {60, 64, 68, 72, 75}
  <2>1. shown.score \in ScoreRange
    BY DEF LendingScreenTyped, Readings, ScoreRange
  <2>2. GetTier(shown.score).ltvPct \in {60, 64, 68, 72, 75}
    BY ONLY <2>1, TierOfScore
  <2>. QED
    BY ONLY <2>2 DEF LtvPct
<1>3. CASE shown.price > 0
  BY <1>1, <1>2, <1>3, MinOfTwo DEF SafeEthUsd
<1>4. CASE shown.price = 0
  BY <1>1, <1>2, <1>4 DEF SafeEthUsd
<1>. QED
  BY <1>1, <1>3, <1>4

LEMMA FilledNat ==
  ASSUME LendingScreenTyped, NEW borrow \in Nat, NEW percent \in Nat
  PROVE  Filled(borrow, percent) \in Nat
<1>1. SafeEthUsd * LtvPct \in Nat \ {0}
  <2>1. \A a, b \in Nat \ {0} : a * b \in Nat \ {0}
    OBVIOUS
  <2>. QED
    BY <2>1, SafePrice
<1>2. borrow * PRICE_UNIT * percent \in Nat
  BY ProductNat, PoolAssumption
<1>. QED
  BY <1>1, <1>2, RoundedNat DEF Filled, MinCollateral

\* What the form lets through is covered at the oracle price it has read.
LEMMA FormCovers ==
  ASSUME LendingScreenTyped, ~TooLow
  PROVE  [call |-> "borrow", amount |-> form.borrow, collateral |-> form.collateral,
          oracle |-> shown.price, ltvPct |-> LtvPct] \in BorrowCalls
<1> DEFINE c == [call |-> "borrow", amount |-> form.borrow, collateral |-> form.collateral,
                 oracle |-> shown.price, ltvPct |-> LtvPct]
<1>1. /\ form.borrow \in Nat /\ form.collateral \in Nat /\ shown.price \in Nat
      /\ LtvPct \in Nat /\ SafeEthUsd \in Nat
      /\ shown.price > 0 => SafeEthUsd <= shown.price
  BY SafePrice DEF LendingScreenTyped, Readings
<1>2. form.borrow * PRICE_UNIT * 100 <= form.collateral * SafeEthUsd * LtvPct
  <2>0. PRICE_UNIT \in Nat /\ 100 \in Nat
    BY PoolAssumption
  <2>a. form.borrow * PRICE_UNIT * 100 \in Nat
    BY ONLY <1>1, <2>0, TripleNat
  <2>b. form.collateral * SafeEthUsd * LtvPct \in Nat
    BY ONLY <1>1, TripleNat
  <2>1. form.borrow * PRICE_UNIT * 100 \in Nat /\ form.collateral * SafeEthUsd * LtvPct \in Nat
    BY ONLY <2>a, <2>b
  <2>. QED
    BY <2>1 DEF TooLow
<1>3. ASSUME shown.price > 0
      PROVE  form.borrow * PRICE_UNIT * 100 <= form.collateral * shown.price * LtvPct
  <2>1. form.collateral * SafeEthUsd <= form.collateral * shown.price
    BY <1>1, <1>3, ProductMonotone
  <2>2. LtvPct * (form.collateral * SafeEthUsd) <= LtvPct * (form.collateral * shown.price)
    BY <1>1, <2>1, ProductNat, ProductMonotone
  <2>3. /\ LtvPct * (form.collateral * SafeEthUsd) = form.collateral * SafeEthUsd * LtvPct
        /\ LtvPct * (form.collateral * shown.price) = form.collateral * shown.price * LtvPct
    BY <1>1
  <2>4. /\ form.collateral * SafeEthUsd * LtvPct \in Nat
        /\ form.collateral * shown.price * LtvPct \in Nat
        /\ form.borrow * PRICE_UNIT * 100 \in Nat
    <3>1. PRICE_UNIT \in Nat
      BY PoolAssumption
    <3>. QED
      BY ONLY <1>1, <3>1, TripleNat
  <2>. QED
    BY ONLY <1>2, <2>2, <2>3, <2>4
<1>. QED
  BY <1>1, <1>3 DEF BorrowCalls, Covered

(***************************************************************************)
(* The vault.                                                              *)
(***************************************************************************)

LEMMA StakeParts ==
  ASSUME NEW pos \in Vault!StakePosition
  PROVE  /\ pos.principal \in Nat /\ pos.lockTier \in Vault!Tiers
         /\ pos.lockExpiry \in Nat /\ pos.pendingYield \in Nat
         /\ pos.reputationOptIn \in BOOLEAN
         /\ Vault!LockShareBonus[pos.lockTier] \in {0, 500, 1000, 1500}
         /\ Vault!PenaltyBps[pos.lockTier] \in {0, 100, 200, 300}
BY DEF Vault!StakePosition, Vault!Tiers, Vault!LockShareBonus, Vault!PenaltyBps

LEMMA ScoreOfMe == ASSUME TypeOK PROVE scores[Me] \in 0..1000 /\ scores[Me] \in Nat
<1>1. Me \in Borrowers
  BY LendingPageAssumption
<1>. QED
  BY <1>1, ScoreTyped

\* the multiplier of each band of scores
LEMMA MultiplierBands ==
  ASSUME NEW s \in Nat
  PROVE  /\ s <= 200 => Vault!MultiplierBps(s) = 10000
         /\ s > 200 /\ s <= 400 => Vault!MultiplierBps(s) = 11000
         /\ s > 400 /\ s <= 600 => Vault!MultiplierBps(s) = 12000
         /\ s > 600 /\ s <= 800 => Vault!MultiplierBps(s) = 13500
         /\ s > 800 => Vault!MultiplierBps(s) = 15000
<1>1. CASE s <= 200
  BY <1>1 DEF Vault!MultiplierBps
<1>2. CASE s > 200 /\ s <= 400
  BY <1>2 DEF Vault!MultiplierBps
<1>3. CASE s > 400 /\ s <= 600
  BY <1>3 DEF Vault!MultiplierBps
<1>4. CASE s > 600 /\ s <= 800
  BY <1>4 DEF Vault!MultiplierBps
<1>5. CASE s > 800
  <2>1. /\ ~(s <= 200) /\ ~(s > 200 /\ s <= 400) /\ ~(s > 400 /\ s <= 600)
        /\ ~(s > 600 /\ s <= 800)
    BY <1>5
  <2>2. Vault!MultiplierBps(s) = 15000
    BY ONLY <2>1 DEF Vault!MultiplierBps
  <2>. QED
    BY <1>5, <2>2
<1>. QED
  BY <1>1, <1>2, <1>3, <1>4, <1>5

LEMMA MultiplierOf ==
  ASSUME NEW s \in Nat
  PROVE  Vault!MultiplierBps(s) \in {10000, 11000, 12000, 13500, 15000}
<1>1. \/ s <= 200
      \/ s > 200 /\ s <= 400
      \/ s > 400 /\ s <= 600
      \/ s > 600 /\ s <= 800
      \/ s > 800
  OBVIOUS
<1>. QED
  BY <1>1, MultiplierBands

LEMMA ComputedNat ==
  ASSUME TypeOK, CapsSet, NEW pos \in Vault!StakePosition
  PROVE  Vault!ComputedShares(Me, pos) \in Nat
<1> DEFINE cap == Vault!BoostedCap(pos.principal)
           boosted == IF pos.principal < cap THEN pos.principal ELSE cap
           m == Vault!ScoreMultBps(Me, pos)
           weighted == (boosted * m) \div Vault!BPS + (pos.principal - boosted)
           l == Vault!BPS + Vault!LockShareBonus[pos.lockTier]
<1>1. cap \in Nat /\ boosted \in Nat /\ pos.principal - boosted \in Nat
  <2>1. cap \in Nat /\ pos.principal \in Nat
    BY StakeParts DEF CapsSet, Vault!BoostedCap
  <2> HIDE DEF cap
  <2>. QED
    BY <2>1
<1>2. m \in Nat
  <2>1. Vault!MultiplierBps(scores[Me]) \in Nat
    BY ScoreOfMe, MultiplierOf
  <2>. QED
    BY <2>1 DEF Vault!ScoreMultBps, Vault!BPS
<1>3. weighted \in Nat
  <2>1. (boosted * m) \div Vault!BPS \in Nat
    BY <1>1, <1>2, ProductNat, QuotientNat DEF Vault!BPS
  <2> HIDE DEF boosted, m
  <2>. QED
    BY <1>1, <2>1
<1>4. l \in Nat
  BY StakeParts DEF Vault!BPS
<1>5. (weighted * l) \div Vault!BPS \in Nat
  <2> HIDE DEF weighted, l
  <2>. QED
    BY <1>3, <1>4, ProductNat, QuotientNat DEF Vault!BPS
<1>. QED
  BY <1>5 DEF Vault!ComputedShares

LEMMA StakeEntitlementNat ==
  ASSUME VaultTyped, NEW shares \in Nat PROVE Vault!Entitlement(shares) \in Nat
BY ProductNat, QuotientNat, StakePageAssumption DEF VaultTyped, Vault!Entitlement

LEMMA PendingNat ==
  ASSUME VaultTyped, Vault!Settleable(Me) PROVE Vault!PendingYieldOf(Me) \in Nat
<1>1. effectiveShares[Me] \in Nat /\ rewardDebt[Me] \in Nat /\ positions[Me].pendingYield \in Nat
  BY StakeParts DEF VaultTyped
<1>2. Vault!Entitlement(effectiveShares[Me]) \in Nat
  BY <1>1, StakeEntitlementNat
<1>. QED
  BY <1>1, <1>2 DEF Vault!PendingYieldOf, Vault!Settleable

\* Settling and updating leaves the lock and the principal it is given.
LEMMA UpdateTyped ==
  ASSUME TypeOK, VaultTyped, NEW pos \in Vault!StakePosition,
         Vault!SettleAndUpdate(Me, pos), UNCHANGED <<Vault!yieldVars, caps>>,
         totalStaked' = pos.principal
  PROVE  /\ VaultTyped'
         /\ positions'[Me].lockExpiry = pos.lockExpiry
         /\ positions'[Me].lockTier = pos.lockTier
<1> DEFINE shares == Vault!ComputedShares(Me, pos)
           new == [pos EXCEPT !.pendingYield = Vault!Banked(Me)]
<1>1. shares \in Nat
  BY ComputedNat DEF VaultTyped
<1>2. Vault!Banked(Me) \in Nat
  BY PendingNat DEF Vault!SettleAndUpdate, Vault!Banked
<1>3. /\ new \in Vault!StakePosition
      /\ new.principal = pos.principal
      /\ new.lockExpiry = pos.lockExpiry /\ new.lockTier = pos.lockTier
  BY <1>2 DEF Vault!StakePosition
<1>4. /\ positions' = [positions EXCEPT ![Me] = new]
      /\ totalEffectiveShares' = (totalEffectiveShares - effectiveShares[Me]) + shares
      /\ effectiveShares[Me] <= totalEffectiveShares
      /\ effectiveShares' = [effectiveShares EXCEPT ![Me] = shares]
      /\ rewardDebt' = [rewardDebt EXCEPT ![Me] = Vault!Entitlement(shares)]
  BY DEF Vault!SettleAndUpdate, Vault!TotalWith, Vault!Baseline
<1>5. /\ positions' \in [{Me} -> Vault!StakePosition] /\ positions'[Me] = new
  BY <1>3, <1>4 DEF VaultTyped
<1>6. totalEffectiveShares' \in Nat
  <2> HIDE DEF shares
  <2>. QED
    BY <1>1, <1>4 DEF VaultTyped
<1>7. effectiveShares' \in [{Me} -> Nat] /\ rewardDebt' \in [{Me} -> Nat]
  BY <1>1, <1>4, StakeEntitlementNat DEF VaultTyped
<1>8. totalStaked' \in Nat /\ totalStaked' = positions'[Me].principal
  BY <1>3, <1>5, StakeParts
<1>9. /\ accYieldPerShare' \in Nat /\ undistributed' \in Nat /\ totalYieldPool' \in Nat
      /\ vaultWqie' \in Nat /\ CapsSet'
  BY DEF VaultTyped, Vault!yieldVars, CapsSet
<1>. QED
  BY <1>3, <1>5, <1>6, <1>7, <1>8, <1>9 DEF VaultTyped

LEMMA StakeTyped ==
  ASSUME TypeOK, VaultTyped, NEW tier \in Vault!Tiers, NEW amount \in Nat,
         Vault!VaultStake(Me, tier, amount)
  PROVE  VaultTyped'
<1> DEFINE pos == Vault!Staked(Me, tier, amount)
<1>1. /\ positions[Me] \in Vault!StakePosition /\ positions[Me].principal + amount \in Nat
      /\ totalStaked = positions[Me].principal /\ now \in Nat
  BY StakeParts DEF VaultTyped, TypeOK
<1>2. (IF tier = "FLEXIBLE" THEN 0 ELSE now + Vault!LockDuration[tier]) \in Nat
  BY <1>1 DEF Vault!LockDuration, Vault!Tiers
<1>3. pos \in Vault!StakePosition /\ pos.principal = totalStaked + amount
  BY <1>1, <1>2 DEF Vault!Staked, Vault!StakePosition
<1>. QED
  BY <1>3, UpdateTyped DEF Vault!VaultStake

\* Taking stake out leaves the lock alone, or ends it with the last unit.
LEMMA UnstakeTyped ==
  ASSUME TypeOK, VaultTyped, NEW amount \in Nat, Vault!VaultUnstake(Me, amount)
  PROVE  /\ VaultTyped'
         /\ \/ positions'[Me].lockExpiry = 0
            \/ /\ positions'[Me].lockExpiry = positions[Me].lockExpiry
               /\ positions'[Me].lockTier = positions[Me].lockTier
<1> DEFINE pos == Vault!Unstaked(Me, amount)
           left == [positions[Me] EXCEPT !.principal = @ - amount]
<1>1. /\ positions[Me] \in Vault!StakePosition /\ positions[Me].principal - amount \in Nat
      /\ totalStaked = positions[Me].principal
  BY StakeParts DEF VaultTyped, Vault!VaultUnstake
<1>2. /\ left \in Vault!StakePosition /\ left.principal = totalStaked - amount
      /\ left.lockExpiry = positions[Me].lockExpiry /\ left.lockTier = positions[Me].lockTier
  BY <1>1 DEF Vault!StakePosition
<1> HIDE DEF left
<1>3. pos = IF left.principal = 0
            THEN [left EXCEPT !.lockExpiry = 0, !.lockTier = "FLEXIBLE"] ELSE left
  BY DEF Vault!Unstaked, left
<1>4. /\ pos \in Vault!StakePosition /\ pos.principal = totalStaked - amount
      /\ \/ pos.lockExpiry = 0
         \/ /\ pos.lockExpiry = positions[Me].lockExpiry
            /\ pos.lockTier = positions[Me].lockTier
  <2>1. CASE left.principal = 0
    <3> DEFINE ended == [left EXCEPT !.lockExpiry = 0, !.lockTier = "FLEXIBLE"]
    <3>1. ended \in Vault!StakePosition /\ ended.principal = left.principal
          /\ ended.lockExpiry = 0
      BY <1>2 DEF Vault!StakePosition, Vault!Tiers
    <3>2. pos = ended
      BY <1>3, <2>1
    <3> HIDE DEF ended
    <3>. QED
      BY <1>2, <3>1, <3>2
  <2>2. CASE left.principal # 0
    BY <1>2, <1>3, <2>2
  <2>. QED
    BY <2>1, <2>2
<1> HIDE DEF pos
<1>5. Vault!SettleAndUpdate(Me, pos) /\ totalStaked' = totalStaked - amount
      /\ UNCHANGED <<Vault!yieldVars, caps>>
  BY DEF Vault!VaultUnstake, pos
<1>. QED
  BY <1>4, <1>5, UpdateTyped

LEMMA PaidBounds ==
  ASSUME VaultTyped, NEW claimable \in Nat
  PROVE  Vault!Paid(claimable) \in Nat /\ Vault!Paid(claimable) <= totalYieldPool
BY DEF VaultTyped, Vault!Paid

LEMMA ClaimTyped ==
  ASSUME VaultTyped, Vault!VaultClaim(Me)
  PROVE  /\ VaultTyped'
         /\ positions'[Me].lockExpiry = positions[Me].lockExpiry
         /\ positions'[Me].lockTier = positions[Me].lockTier
         /\ Vault!Paid(Vault!PendingYieldOf(Me)) \in Nat
<1> DEFINE new == [positions[Me] EXCEPT !.pendingYield = 0]
           paid == Vault!Paid(Vault!PendingYieldOf(Me))
<1>1. paid \in Nat /\ paid <= totalYieldPool /\ paid <= vaultWqie
  BY PendingNat, PaidBounds DEF Vault!VaultClaim
<1>2. positions[Me] \in Vault!StakePosition /\ effectiveShares[Me] \in Nat
  BY DEF VaultTyped
<1>3. /\ new \in Vault!StakePosition /\ new.principal = positions[Me].principal
      /\ new.lockExpiry = positions[Me].lockExpiry /\ new.lockTier = positions[Me].lockTier
  BY <1>2 DEF Vault!StakePosition
<1>4. /\ positions' = [positions EXCEPT ![Me] = new]
      /\ rewardDebt' = [rewardDebt EXCEPT ![Me] = Vault!Entitlement(effectiveShares[Me])]
      /\ totalYieldPool' = totalYieldPool - paid /\ vaultWqie' = vaultWqie - paid
      /\ UNCHANGED <<effectiveShares, totalEffectiveShares, accYieldPerShare,
                     undistributed, totalStaked, caps>>
  BY DEF Vault!VaultClaim
<1> HIDE DEF new, paid
<1>5. positions' \in [{Me} -> Vault!StakePosition] /\ positions'[Me] = new
  BY <1>3, <1>4 DEF VaultTyped
<1>6. totalYieldPool' \in Nat /\ vaultWqie' \in Nat
  BY <1>1, <1>4 DEF VaultTyped
<1>7. rewardDebt' \in [{Me} -> Nat]
  BY <1>2, <1>4, StakeEntitlementNat DEF VaultTyped
<1>8. VaultTyped'
  BY <1>3, <1>4, <1>5, <1>6, <1>7 DEF VaultTyped, CapsSet
<1>. QED
  BY <1>1, <1>3, <1>5, <1>8 DEF paid

LEMMA HarvestTyped ==
  ASSUME VaultTyped, AccountTyped, NEW amount \in Nat, Harvest(amount),
         allowance' = allowance
  PROVE  /\ VaultTyped' /\ AccountTyped'
         /\ UNCHANGED <<positions, stakes>>
<1>1. amount + undistributed \in Nat /\ amount * 365 * BPS \in Nat
  BY DEF VaultTyped, BPS
<1>2. accYieldPerShare' \in Nat
  <2>1. CASE totalEffectiveShares > 0
    <3>1. (amount + undistributed) * VAULT_PRECISION \in Nat
      BY <1>1, ProductNat, StakePageAssumption
    <3>2. ((amount + undistributed) * VAULT_PRECISION) \div totalEffectiveShares \in Nat
      BY <2>1, <3>1, QuotientNat DEF VaultTyped
    <3>. QED
      BY <2>1, <3>2 DEF Harvest, Vault!ReceiveYield, Vault!PerShare, VaultTyped
  <2>2. CASE ~(totalEffectiveShares > 0)
    BY <2>2 DEF Harvest, Vault!ReceiveYield, VaultTyped
  <2>. QED
    BY <2>1, <2>2
<1>3. globalBaseApyBps' \in Nat
  <2>1. CASE totalStaked > 0
    <3>1. (amount * 365 * BPS) \div totalStaked \in Nat
      BY <1>1, <2>1, QuotientNat DEF VaultTyped
    <3>. QED
      BY <2>1, <3>1 DEF Harvest
  <2>2. CASE ~(totalStaked > 0)
    BY <2>2 DEF Harvest, AccountTyped
  <2>. QED
    BY <2>1, <2>2
<1>4. undistributed' \in Nat /\ vaultWqie' \in Nat /\ totalYieldPool' \in Nat
  BY <1>1 DEF Harvest, Vault!ReceiveYield, Vault!Parked, VaultTyped
<1>5. UNCHANGED <<positions, Vault!shareVars, totalStaked, caps, kycVerified, purse, stakes>>
  BY DEF Harvest, Vault!ReceiveYield
<1>6. VaultTyped'
  BY <1>2, <1>4, <1>5 DEF VaultTyped, CapsSet, Vault!shareVars
<1>. QED
  BY <1>3, <1>5, <1>6 DEF AccountTyped

(***************************************************************************)
(* Handlers and queue.                                                     *)
(***************************************************************************)

LEMMA SeqGrows == ASSUME NEW S, NEW T, S \subseteq T PROVE Seq(S) \subseteq Seq(T)
  OBVIOUS

LEMMA SeqMember == ASSUME NEW S, NEW s \in Seq(S), NEW n \in DOMAIN s PROVE s[n] \in S
  OBVIOUS

\* What the chain may do to the lock while calls wait: a stake renews it, and is
\* counted; anything else leaves it or ends it, and time only runs forward.
LockEases ==
  /\ now \in Nat /\ now' \in Nat /\ now <= now'
  /\ stakes \in Nat /\ stakes' \in Nat /\ stakes <= stakes'
  /\ stakes' = stakes =>
       \/ positions'[Me].lockExpiry = 0
       \/ /\ positions'[Me].lockExpiry = positions[Me].lockExpiry
          /\ positions'[Me].lockTier = positions[Me].lockTier

LEMMA RateNeverRises ==
  ASSUME VaultTyped, VaultTyped', LockEases
  PROVE  /\ Vault!PenaltyRate(Me) \in 0..300 /\ Vault!PenaltyRate(Me)' \in 0..300
         /\ stakes' = stakes => Vault!PenaltyRate(Me)' <= Vault!PenaltyRate(Me)
<1>1. /\ positions[Me] \in Vault!StakePosition /\ positions'[Me] \in Vault!StakePosition
  BY DEF VaultTyped
<1>2. /\ positions[Me].lockExpiry \in Nat /\ positions'[Me].lockExpiry \in Nat
      /\ Vault!PenaltyBps[positions[Me].lockTier] \in {0, 100, 200, 300}
      /\ Vault!PenaltyBps[positions'[Me].lockTier] \in {0, 100, 200, 300}
  BY <1>1, StakeParts
<1>3. Vault!PenaltyRate(Me)' =
        IF positions'[Me].lockExpiry > 0 /\ now' < positions'[Me].lockExpiry
        THEN Vault!PenaltyBps[positions'[Me].lockTier] ELSE 0
  BY DEF Vault!PenaltyRate
<1>4. Vault!PenaltyRate(Me) =
        IF positions[Me].lockExpiry > 0 /\ now < positions[Me].lockExpiry
        THEN Vault!PenaltyBps[positions[Me].lockTier] ELSE 0
  BY DEF Vault!PenaltyRate
<1>5. Vault!PenaltyRate(Me) \in 0..300 /\ Vault!PenaltyRate(Me)' \in 0..300
  <2>1. Vault!PenaltyRate(Me) \in {0, 100, 200, 300}
    BY ONLY <1>2, <1>4
  <2>2. Vault!PenaltyRate(Me)' \in {0, 100, 200, 300}
    BY ONLY <1>2, <1>3
  <2>. QED
    BY ONLY <2>1, <2>2
<1>6. ASSUME stakes' = stakes PROVE Vault!PenaltyRate(Me)' <= Vault!PenaltyRate(Me)
  <2>1. CASE positions'[Me].lockExpiry = 0
    BY <1>3, <1>5, <2>1
  <2>2. CASE /\ positions'[Me].lockExpiry = positions[Me].lockExpiry
             /\ positions'[Me].lockTier = positions[Me].lockTier
    BY <1>2, <1>3, <1>4, <2>2 DEF LockEases
  <2>. QED
    BY <1>6, <2>1, <2>2 DEF LockEases
<1>. QED
  BY <1>5, <1>6

\* A call that was honest stays so.
LEMMA CallsStay ==
  ASSUME VaultTyped, VaultTyped', LockEases
  PROVE  Calls \subseteq Calls'
<1> DEFINE old == Vault!PenaltyRate(Me)
           new == Vault!PenaltyRate(Me)'
           Fields == [call : {"unstake"}, amount : Nat, announced : Nat, seen : Nat]
<1>1. old \in Nat /\ new \in Nat /\ (stakes' = stakes => new <= old)
  BY RateNeverRises
<1>2. ASSUME NEW c \in UnstakeCalls PROVE c \in UnstakeCalls'
  <2>1. /\ c \in Fields /\ c.amount \in Nat /\ c.announced \in Nat /\ c.seen \in Nat
        /\ c.seen <= stakes /\ (c.seen = stakes => c.amount * old <= c.announced)
    BY <1>2 DEF UnstakeCalls, Honest
  <2> HIDE DEF old, new, Fields
  <2>2. c.seen <= stakes'
    BY <2>1 DEF LockEases
  <2>3. ASSUME c.seen = stakes' PROVE c.amount * new <= c.announced
    <3>1. stakes' = stakes /\ c.seen = stakes
      BY <2>1, <2>3 DEF LockEases
    <3>2. c.amount * new <= c.amount * old
      BY <1>1, <2>1, <3>1, ProductMonotone
    <3>3. c.amount * new \in Nat /\ c.amount * old \in Nat
      BY <1>1, <2>1, ProductNat
    <3>. QED
      BY <2>1, <3>1, <3>2, <3>3
  <2>. QED
    BY <2>1, <2>2, <2>3 DEF UnstakeCalls, Honest, new, Fields
<1>3. BorrowCalls' = BorrowCalls /\ StakeCalls' = StakeCalls /\ PlainCalls' = PlainCalls
  BY DEF BorrowCalls, Covered, StakeCalls, PlainCalls, Vault!Tiers
<1>. QED
  BY <1>2, <1>3 DEF Calls

LEMMA CallsSame ==
  ASSUME UNCHANGED <<stakes, positions, now>> PROVE Calls' = Calls
<1>1. Vault!PenaltyRate(Me)' = Vault!PenaltyRate(Me)
  BY DEF Vault!PenaltyRate
<1>2. UnstakeCalls' = UnstakeCalls
  BY <1>1 DEF UnstakeCalls, Honest
<1>3. BorrowCalls' = BorrowCalls /\ StakeCalls' = StakeCalls /\ PlainCalls' = PlainCalls
  BY DEF BorrowCalls, Covered, StakeCalls, PlainCalls, Vault!Tiers
<1>. QED
  BY <1>2, <1>3 DEF Calls

\* While the chain moves, handlers wait and the queue loses at most its head.
LEMMA ChainKeepsCalls ==
  ASSUME CallsOK, Calls \subseteq Calls', UNCHANGED <<visit, handlers>>,
         queue' = queue \/ (queue # <<>> /\ queue' = Tail(queue))
  PROVE  CallsOK'
<1>1. Seq(Calls) \subseteq Seq(Calls')
  BY SeqGrows
<1>2. [visit : Nat, calls : Seq(Calls)] \subseteq [visit : Nat, calls : Seq(Calls')]
  BY <1>1
<1>3. handlers' \in Seq([visit : Nat, calls : Seq(Calls')])
  BY <1>2, SeqGrows DEF CallsOK
<1>4. queue' \in Seq(Calls)
  <2>1. queue \in Seq(Calls)
    BY DEF CallsOK
  <2>2. queue # <<>> => Tail(queue) \in Seq(Calls)
    BY <2>1
  <2>. QED
    BY <2>1, <2>2
<1>. QED
  BY <1>1, <1>3, <1>4 DEF CallsOK

LEMMA ClickKeepsCalls ==
  ASSUME CallsOK, Calls' = Calls, NEW page, NEW calls \in Seq(Calls), Len(calls) <= 2,
         Click(page, calls)
  PROVE  CallsOK'
<1> DEFINE new == [visit |-> visit.count, calls |-> calls]
<1>1. new \in [visit : Nat, calls : Seq(Calls)]
  BY DEF CallsOK
<1>2. handlers' = Append(handlers, new) /\ UNCHANGED <<visit, queue>>
  BY DEF Click
<1>3. handlers' \in Seq([visit : Nat, calls : Seq(Calls)])
  BY <1>1, <1>2 DEF CallsOK
<1>4. ASSUME NEW n \in DOMAIN handlers' PROVE Len(handlers'[n].calls) <= 2
  <2>1. handlers \in Seq([visit : Nat, calls : Seq(Calls)])
    BY DEF CallsOK
  <2>2. CASE n \in DOMAIN handlers
    <3>1. handlers'[n] = handlers[n]
      BY <1>2, <2>1, <2>2
    <3>. QED
      BY <2>2, <3>1 DEF CallsOK
  <2>3. CASE n \notin DOMAIN handlers
    <3>1. handlers'[n] = new
      BY <1>2, <1>4, <2>1, <2>3
    <3>. QED
      BY <3>1
  <2>. QED
    BY <2>2, <2>3
<1>. QED
  BY <1>2, <1>3, <1>4 DEF CallsOK

\* Signing moves a handler's next call to the queue; declining drops the rest.
LEMMA SignKeepsCalls ==
  ASSUME CallsOK, Calls' = Calls, NEW n \in DOMAIN handlers, Sign(n) \/ Decline(n)
  PROVE  CallsOK'
<1> DEFINE old == handlers[n].calls
           left == IF Sign(n) THEN Tail(old) ELSE <<>>
<1>1. /\ handlers \in Seq([visit : Nat, calls : Seq(Calls)]) /\ queue \in Seq(Calls)
      /\ handlers[n] \in [visit : Nat, calls : Seq(Calls)]
      /\ old \in Seq(Calls) /\ Len(old) <= 2
  <2>1. /\ handlers \in Seq([visit : Nat, calls : Seq(Calls)]) /\ queue \in Seq(Calls)
        /\ Len(old) <= 2
    BY DEF CallsOK
  <2>2. handlers[n] \in [visit : Nat, calls : Seq(Calls)]
    BY <2>1, SeqMember
  <2>. QED
    BY <2>1, <2>2
<1>2. old # <<>>
  BY DEF Sign, Decline
<1>3. left \in Seq(Calls) /\ Len(left) <= 2
  <2>1. Tail(old) \in Seq(Calls) /\ Len(Tail(old)) <= 2
    BY <1>1, <1>2
  <2>2. <<>> \in Seq(Calls) /\ Len(<<>>) <= 2
    OBVIOUS
  <2> HIDE DEF old
  <2>. QED
    BY <2>1, <2>2
<1>4. /\ handlers' = [handlers EXCEPT ![n].calls = left]
      /\ queue' = queue \/ queue' = Append(queue, Head(old))
      /\ visit' = visit
  BY DEF Sign, Decline
<1> HIDE DEF left
<1>5. [handlers[n] EXCEPT !.calls = left] \in [visit : Nat, calls : Seq(Calls)]
  BY <1>1, <1>3
<1>6. /\ handlers' \in Seq([visit : Nat, calls : Seq(Calls)])
      /\ DOMAIN handlers' = DOMAIN handlers
      /\ \A k \in DOMAIN handlers : k # n => handlers'[k] = handlers[k]
      /\ handlers'[n].calls = left
  BY <1>1, <1>4, <1>5
<1>7. queue' \in Seq(Calls)
  <2> HIDE DEF old
  <2>1. Head(old) \in Calls
    BY <1>1, <1>2
  <2>2. Append(queue, Head(old)) \in Seq(Calls)
    BY <1>1, <2>1
  <2>. QED
    BY <1>1, <1>4, <2>2
<1>8. \A k \in DOMAIN handlers' : Len(handlers'[k].calls) <= 2
  BY <1>3, <1>6 DEF CallsOK
<1>. QED
  BY <1>4, <1>6, <1>7, <1>8 DEF CallsOK

LEMMA MountKeepsCalls ==
  ASSUME CallsOK, Calls' = Calls, NEW page \in PageNames, Mount(page)
  PROVE  CallsOK'
BY DEF CallsOK, Mount

LEMMA WalletKeepsCalls ==
  ASSUME CallsOK, Calls' = Calls, UNCHANGED walletVars
  PROVE  CallsOK'
BY DEF CallsOK, walletVars

(***************************************************************************)
(* What the pages read, type and send.                                     *)
(***************************************************************************)

\* the chain stands still while a page is read, filled in or left
LEMMA ScreenStep ==
  ASSUME PagesInv, UNCHANGED contractVars,
         LendingScreenTyped', StakeScreenTyped', CallsOK'
  PROVE  PagesInv'
<1>1. TypeOK' /\ NoInterestWithoutPrincipal'
  <2>1. UNCHANGED vars
    BY DEF contractVars
  <2>2. TypeOK'
    BY <2>1, StutterKeepsTypes DEF PagesInv
  <2>3. borrowers' = borrowers
    BY <2>1 DEF vars, borrowVars
  <2>. QED
    BY <2>2, <2>3 DEF PagesInv, NoInterestWithoutPrincipal
<1>2. VaultTyped'
  BY DEF PagesInv, VaultTyped, CapsSet, contractVars, stakeChainVars, vaultState
<1>3. AccountTyped'
  BY DEF PagesInv, AccountTyped, contractVars, stakeChainVars
<1>. QED
  BY <1>1, <1>2, <1>3 DEF PagesInv

LEMMA StillCalls == ASSUME UNCHANGED contractVars PROVE Calls' = Calls
BY CallsSame DEF contractVars, stakeChainVars, vaultState, vars, outside, chainVars

LEMMA StillLock ==
  ASSUME PagesInv, UNCHANGED contractVars PROVE LockEases
BY DEF PagesInv, TypeOK, AccountTyped, LockEases, contractVars, stakeChainVars, vaultState,
       vars, outside, chainVars

LEMMA ShownLockStays ==
  ASSUME LockEases, LockShown, shownStake' = shownStake PROVE LockShown'
BY DEF LockEases, LockShown

LEMMA StakeScreenStays ==
  ASSUME StakeScreenTyped, LockEases, UNCHANGED stakePageVars PROVE StakeScreenTyped'
BY ShownLockStays DEF StakeScreenTyped, stakePageVars

LEMMA LendingScreenStays ==
  ASSUME LendingScreenTyped, UNCHANGED <<cached, quote, shown, form>>
  PROVE  LendingScreenTyped'
BY DEF LendingScreenTyped

LEMMA ViewInterestNat ==
  ASSUME TypeOK PROVE ViewInterest(Me) \in Nat
<1> DEFINE pos == borrowers[Me]
           rate == (BorrowRateBps(UtilBps(totalBorrowed, totalSupplied))
                      * (BPS - DiscountBps(scores[Me]))) \div BPS
<1>1. pos \in BorrowerPosition /\ now - pos.lastAccrual \in Nat
  BY LendingPageAssumption DEF TypeOK, BorrowerPosition
<1>2. pos.interestOwed \in Nat
  BY <1>1 DEF BorrowerPosition
<1>3. rate \in Nat
  <2>1. BorrowRateBps(UtilBps(totalBorrowed, totalSupplied)) \in Nat
    BY UtilisationNat, BorrowRateNat DEF TypeOK
  <2>2. BPS - DiscountBps(scores[Me]) \in Nat
    BY ScoreOfMe DEF DiscountBps, BPS
  <2>. QED
    BY <2>1, <2>2, ProductNat, QuotientNat DEF BPS
<1> HIDE DEF rate
<1>4. InterestOver(pos, rate, now - pos.lastAccrual) \in Nat
  BY <1>1, <1>3, InterestNat
<1>5. ViewInterest(Me) =
        pos.interestOwed + (IF pos.principal = 0 \/ pos.lastAccrual = 0 THEN 0
                            ELSE InterestOver(pos, rate, now - pos.lastAccrual))
  BY DEF ViewInterest, rate
<1>. QED
  BY <1>2, <1>4, <1>5

LEMMA LoanViewTyped == ASSUME TypeOK PROVE BorrowerView(Me) \in LoanViews
<1> DEFINE pos == borrowers[Me]
           threshold == MaxLtvBps(scores[Me]) + LIQ_BUFFER_BPS
           value == WethToQusdc(pos.collateral)
           owed == pos.principal + ViewInterest(Me)
           ltv == IF value > 0 THEN (owed * BPS) \div value ELSE Infinite
           some == pos.collateral > 0 /\ pos.principal > 0
           hf == IF some /\ ltv > 0 THEN (threshold * BPS) \div ltv ELSE Infinite
<1>1. pos \in BorrowerPosition /\ ethUsdPrice \in Nat
  BY LendingPageAssumption DEF TypeOK
<1>2. pos.collateral \in Nat /\ pos.principal \in Nat /\ ViewInterest(Me) \in Nat
  BY <1>1, ViewInterestNat DEF BorrowerPosition
<1>3. threshold \in Nat
  BY ScoreOfMe, MaxLtvNat DEF LIQ_BUFFER_BPS
<1>4. value \in Nat
  BY <1>1, <1>2, ProductNat, QuotientNat, PoolAssumption DEF WethToQusdc
<1>5. owed * BPS \in Nat
  BY <1>2 DEF BPS
<1> HIDE DEF value, owed, threshold
<1>6. ltv \in Nat
  <2>1. value > 0 => (owed * BPS) \div value \in Nat
    BY <1>4, <1>5, QuotientNat
  <2>. QED
    BY <1>4, <2>1 DEF Infinite
<1> HIDE DEF ltv
<1>7. hf \in Nat
  <2>1. threshold * BPS \in Nat
    BY <1>3 DEF BPS
  <2>2. ltv > 0 => (threshold * BPS) \div ltv \in Nat
    BY <1>6, <2>1, QuotientNat
  <2>. QED
    BY <1>6, <2>2 DEF Infinite
<1>8. BorrowerView(Me) =
        [collateral |-> pos.collateral, principal |-> pos.principal,
         interest |-> ViewInterest(Me), threshold |-> threshold, hf |-> hf,
         isLiquidatable |-> some /\ ltv > threshold]
  BY DEF BorrowerView, threshold, value, owed, ltv
<1> HIDE DEF hf
<1>. QED
  BY <1>2, <1>3, <1>7, <1>8 DEF LoanViews

LEMMA SupplyViewTyped == ASSUME TypeOK PROVE SupplyView \in SupplyViews
<1>1. suppliers[Me] \in SupplyPosition /\ accInterestPerShare \in Nat
  BY LendingPageAssumption DEF TypeOK
<1>2. /\ suppliers[Me].amount \in Nat /\ suppliers[Me].rewardDebt \in Nat
      /\ suppliers[Me].pendingYield \in Nat
  BY <1>1 DEF SupplyPosition
<1>3. Entitlement(suppliers[Me].amount, accInterestPerShare) \in Nat
  BY <1>1, <1>2, EntitlementNat
<1>4. Claimable(suppliers[Me]) \in Int
  BY <1>2, <1>3 DEF Claimable, Unsettled
<1>. QED
  BY <1>2, <1>4 DEF SupplyView, SupplyViews

LEMMA ReadingsTyped ==
  ASSUME TypeOK PROVE BorrowerView(Me) \in LoanViews /\ SupplyView \in SupplyViews
BY LoanViewTyped, SupplyViewTyped

LEMMA StakeReadingTyped ==
  ASSUME VaultTyped, AccountTyped, UNCHANGED <<positions, stakes>>,
         stakeForm' \in StakeForms,
         shownStake' = StakeView
  PROVE  StakeScreenTyped'
<1>1. /\ shownStake'.position = positions[Me] /\ shownStake'.purse = purse
      /\ shownStake'.seen = stakes
  BY DEF StakeView
<1>2. LockShown'
  BY <1>1 DEF LockShown, AccountTyped
<1>3. shownStake'.position \in Vault!StakePosition /\ shownStake'.purse \in Nat
  BY <1>1 DEF VaultTyped, AccountTyped
<1>. QED
  BY <1>2, <1>3 DEF StakeScreenTyped, StakeForms, Vault!StakePosition, Vault!Tiers

LEMMA ReadsKeep == ASSUME PagesInv, Reads PROVE PagesInv'
<1>1. CASE GetPrice /\ UNCHANGED <<stakePageVars, stakeChainVars, reads>>
  <2>1. UNCHANGED contractVars /\ UNCHANGED <<shown, form, stakePageVars, walletVars>>
    BY <1>1 DEF GetPrice, contractVars
  <2>2. FetchedPrices \subseteq Nat
    BY LendingPageAssumption DEF FetchedPrices, PagesInv, TypeOK
  <2>3. cached'.price \in Nat /\ quote' = cached'.price
    BY <1>1, <2>2 DEF GetPrice, PagesInv, LendingScreenTyped, Readings
  <2>4. LendingScreenTyped'
    BY <2>1, <2>3 DEF PagesInv, LendingScreenTyped, Readings
  <2>. QED
    BY <2>1, <2>4, StillCalls, StillLock, StakeScreenStays, WalletKeepsCalls, ScreenStep
       DEF PagesInv
<1>2. CASE Refetch /\ UNCHANGED <<stakePageVars, stakeChainVars>>
  <2>1. UNCHANGED contractVars /\ UNCHANGED <<cached, quote, form, stakePageVars, walletVars>>
    BY <1>2 DEF Refetch, contractVars
  <2>2. shown' = [score |-> scores[Me], price |-> ethUsdPrice,
                  loan |-> BorrowerView(Me), supply |-> SupplyView]
    BY <1>2 DEF Refetch
  <2>3. ethUsdPrice \in Nat /\ TypeOK
    BY DEF PagesInv, TypeOK
  <2>4. LendingScreenTyped'
    BY <2>1, <2>2, <2>3, ReadingsTyped, ScoreOfMe DEF PagesInv, LendingScreenTyped, Readings
  <2>. QED
    BY <2>1, <2>4, StillCalls, StillLock, StakeScreenStays, WalletKeepsCalls, ScreenStep
       DEF PagesInv
<1>3. CASE RefetchStake
  <2>1. /\ UNCHANGED contractVars
        /\ UNCHANGED <<cached, quote, shown, form, stakeForm, walletVars>>
        /\ shownStake' = StakeView
    BY <1>3 DEF RefetchStake, contractVars, lendingPageVars
  <2>2. StakeScreenTyped'
    <3>1. stakeForm' \in StakeForms
      BY <2>1 DEF PagesInv, StakeScreenTyped
    <3>. QED
      BY <2>1, <3>1, StakeReadingTyped DEF PagesInv, contractVars, stakeChainVars, vaultState
  <2>. QED
    BY <2>1, <2>2, StillCalls, LendingScreenStays, WalletKeepsCalls, ScreenStep DEF PagesInv
<1>. QED
  BY <1>1, <1>2, <1>3 DEF Reads

(***************************************************************************)
(* The loan form, and the calls of the lending page's buttons.             *)
(***************************************************************************)

LEMMA PairOfCalls ==
  ASSUME NEW a \in Calls, NEW b \in Calls
  PROVE  <<a, b>> \in Seq(Calls) /\ Len(<<a, b>>) <= 2
OBVIOUS

LEMMA OneCall ==
  ASSUME NEW a \in Calls PROVE <<a>> \in Seq(Calls) /\ Len(<<a>>) <= 2
OBVIOUS

LEMMA PlainCall ==
  ASSUME NEW amount \in Nat
  PROVE  \A name \in {"approveQusdc", "approveWeth", "supply", "redeem",
                      "claimSupplierYield", "repay", "claimYield"} :
           Call(name, amount) \in Calls
BY DEF Call, Calls, PlainCalls

LEMMA LendingClickKeepsCalls ==
  ASSUME PagesInv, Calls' = Calls, LendingClick PROVE CallsOK'
<1>1. CallsOK /\ LendingScreenTyped
  BY DEF PagesInv
<1>2. CASE SupplyClick
  <2>1. PICK amount \in Amounts : Click("lending", HandleSupply(amount))
    BY <1>2 DEF SupplyClick
  <2>2. HandleSupply(amount) \in Seq(Calls) /\ Len(HandleSupply(amount)) <= 2
    BY PlainCall, PairOfCalls, PoolAssumption DEF HandleSupply
  <2>. QED
    BY <1>1, <2>1, <2>2, ClickKeepsCalls
<1>3. CASE RedeemClick
  <2>1. PICK amount \in Amounts \cup {ToFixed(shown.supply.amount, Shown2)} :
          Click("lending", HandleRedeem(amount))
    BY <1>3 DEF RedeemClick
  <2>2. amount \in Nat
    <3>1. shown.supply.amount \in Nat
      BY <1>1 DEF LendingScreenTyped, SupplyViews, Readings
    <3>. QED
      BY <3>1, ToFixedNat, PoolAssumption, LendingPageAssumption
  <2>3. HandleRedeem(amount) \in Seq(Calls) /\ Len(HandleRedeem(amount)) <= 2
    BY <2>2, PlainCall, OneCall DEF HandleRedeem
  <2>. QED
    BY <1>1, <2>1, <2>3, ClickKeepsCalls
<1>4. CASE ClaimSupplyClick
  <2>1. HandleClaimSupply \in Seq(Calls) /\ Len(HandleClaimSupply) <= 2
    BY PlainCall, OneCall DEF HandleClaimSupply
  <2>2. PICK page \in {"lending", "dashboard"} : Click(page, HandleClaimSupply)
    BY <1>4 DEF ClaimSupplyClick
  <2>. QED
    BY <1>1, <2>1, <2>2, ClickKeepsCalls
<1>5. CASE BorrowClick
  <2>1. ~TooLow /\ Click("lending", HandleBorrow)
    BY <1>5 DEF BorrowClick, BorrowOffered
  <2>2. HandleBorrow \in Seq(Calls) /\ Len(HandleBorrow) <= 2
    <3>1. form.collateral \in Nat
      BY <1>1 DEF LendingScreenTyped, Readings
    <3>2. Call("approveWeth", form.collateral) \in Calls
      BY <3>1, PlainCall
    <3>3. [call |-> "borrow", amount |-> form.borrow, collateral |-> form.collateral,
           oracle |-> shown.price, ltvPct |-> LtvPct] \in Calls
      BY <1>1, <2>1, FormCovers DEF Calls
    <3>. QED
      BY <3>2, <3>3, PairOfCalls DEF HandleBorrow
  <2>. QED
    BY <1>1, <2>1, <2>2, ClickKeepsCalls
<1>6. CASE RepayClick
  <2>1. PICK amount \in Amounts
                 \cup {ToFixed(shown.loan.principal + shown.loan.interest, Shown4)} :
          Click("lending", HandleRepay(amount))
    BY <1>6 DEF RepayClick
  <2>2. shown.loan.principal + shown.loan.interest \in Nat
    BY <1>1 DEF LendingScreenTyped, LoanViews, Readings
  <2>3. amount \in Nat
    BY <2>2, ToFixedNat, PoolAssumption, LendingPageAssumption
  <2>4. HandleRepay(amount) \in Seq(Calls) /\ Len(HandleRepay(amount)) <= 2
    BY <2>3, PlainCall, PairOfCalls DEF HandleRepay
  <2>. QED
    BY <1>1, <2>1, <2>4, ClickKeepsCalls
<1>. QED
  BY <1>2, <1>3, <1>4, <1>5, <1>6 DEF LendingClick

LEMMA BrowseKeep == ASSUME PagesInv, Browse PROVE PagesInv'
<1>1. /\ UNCHANGED contractVars /\ UNCHANGED <<cached, quote, shown, stakePageVars>>
  BY DEF Browse, TypeBorrow, FillCollateral, LendingClick, lendingPageVars, contractVars
<1>2. form' \in [borrow : Nat, collateral : Nat] /\ CallsOK'
  <2>1. LendingScreenTyped /\ form.borrow \in Nat /\ Calls' = Calls /\ CallsOK
    BY <1>1, StillCalls DEF PagesInv, LendingScreenTyped, Readings
  <2>2. ASSUME NEW amount \in Amounts, TypeBorrow(amount)
        PROVE  form' \in [borrow : Nat, collateral : Nat] /\ CallsOK'
    BY <2>1, <2>2, FilledNat, WalletKeepsCalls, PoolAssumption DEF TypeBorrow
  <2>3. ASSUME NEW collateral \in {Filled(form.borrow, 100), Filled(form.borrow, 125)}
                                    \cup Collaterals,
               FillCollateral(collateral)
        PROVE  form' \in [borrow : Nat, collateral : Nat] /\ CallsOK'
    <3>1. collateral \in Nat
      <4>1. Filled(form.borrow, 100) \in Nat /\ Filled(form.borrow, 125) \in Nat
        BY <2>1, FilledNat
      <4>2. Collaterals \subseteq Nat
        BY PoolAssumption
      <4>3. CASE collateral \in Collaterals
        BY ONLY <4>2, <4>3
      <4>4. CASE collateral = Filled(form.borrow, 100) \/ collateral = Filled(form.borrow, 125)
        BY ONLY <4>1, <4>4
      <4>. QED
        BY <2>3, <4>3, <4>4
    <3>. QED
      BY <2>1, <2>3, <3>1, WalletKeepsCalls DEF FillCollateral, LendingScreenTyped, Readings
  <2>4. CASE LendingClick
    BY <2>1, <2>4, LendingClickKeepsCalls DEF LendingClick, lendingPageVars, LendingScreenTyped, Readings
  <2>. QED
    BY <2>2, <2>3, <2>4 DEF Browse
<1>3. LendingScreenTyped'
  BY <1>1, <1>2 DEF PagesInv, LendingScreenTyped
<1>4. StakeScreenTyped'
  BY <1>1, StillLock, StakeScreenStays DEF PagesInv
<1>. QED
  BY <1>1, <1>2, <1>3, <1>4, ScreenStep

(***************************************************************************)
(* The stake form, and the calls of the stake page's buttons.              *)
(***************************************************************************)

\* The tables of lib/constants.ts and of the vault charge the same.
LEMMA SamePenalty ==
  ASSUME NEW tier \in Vault!Tiers
  PROVE  /\ LOCK_TIERS[tier].penaltyBps = Vault!PenaltyBps[tier]
         /\ Vault!PenaltyBps[tier] \in Nat
BY DEF LOCK_TIERS, Vault!Tiers, Vault!PenaltyBps

\* The fee the page announces is the vault's, from the reading it stands on.
LEMMA AnnouncedFee ==
  ASSUME PagesInv, NEW amount \in Nat
  PROVE  [call |-> "unstake", amount |-> amount, announced |-> EarlyExitFee(amount),
          seen |-> shownStake.seen] \in UnstakeCalls
<1> DEFINE mine == positions[Me]
           seen == shownStake.position
<1>1. /\ mine \in Vault!StakePosition /\ seen \in Vault!StakePosition
      /\ now \in Nat /\ shownStake.seen \in Nat /\ shownStake.seen <= stakes
  BY DEF PagesInv, TypeOK, VaultTyped, StakeScreenTyped, LockShown
<1>2. /\ mine.lockExpiry \in Nat /\ mine.lockTier \in Vault!Tiers
      /\ seen.lockExpiry \in Nat /\ seen.lockTier \in Vault!Tiers
  BY <1>1, StakeParts
<1>3. /\ LOCK_TIERS[seen.lockTier].penaltyBps = Vault!PenaltyBps[seen.lockTier]
      /\ Vault!PenaltyBps[seen.lockTier] \in Nat
  BY <1>2, SamePenalty
<1>4. EarlyExitFee(amount) =
        IF DaysLeft(seen.lockExpiry) > 0
        THEN amount * Vault!PenaltyBps[seen.lockTier] ELSE 0
  BY <1>3 DEF EarlyExitFee
<1>5. amount * Vault!PenaltyBps[seen.lockTier] \in Nat
  BY <1>3, ProductNat
<1>6. EarlyExitFee(amount) \in Nat
  BY <1>4, <1>5
<1>7. ASSUME shownStake.seen = stakes
      PROVE  amount * Vault!PenaltyRate(Me) <= EarlyExitFee(amount)
  <2>1. CASE Vault!PenaltyRate(Me) = 0
    BY <1>6, <2>1
  <2>2. CASE Vault!PenaltyRate(Me) # 0
    <3>1. mine.lockExpiry > 0 /\ now < mine.lockExpiry
          /\ Vault!PenaltyRate(Me) = Vault!PenaltyBps[mine.lockTier]
      BY <2>2 DEF Vault!PenaltyRate
    <3>2. mine.lockExpiry = seen.lockExpiry /\ mine.lockTier = seen.lockTier
      BY <1>2, <1>7, <3>1 DEF PagesInv, StakeScreenTyped, LockShown
    <3>3. DaysLeft(seen.lockExpiry) > 0
      BY <1>1, <1>2, <3>1, <3>2 DEF DaysLeft
    <3>4. EarlyExitFee(amount) = amount * Vault!PenaltyRate(Me)
      BY <1>4, <3>1, <3>2, <3>3
    <3>. QED
      BY <1>6, <3>4
  <2>. QED
    BY <2>1, <2>2
<1>. QED
  BY <1>1, <1>6, <1>7 DEF UnstakeCalls, Honest

LEMMA StakeClickKeepsCalls ==
  ASSUME PagesInv, Calls' = Calls, StakeClick PROVE CallsOK'
<1>1. CallsOK /\ StakeScreenTyped /\ stakeForm.tier \in Vault!Tiers /\ stakeForm.amount \in Nat
  BY DEF PagesInv, StakeScreenTyped, StakeForms
<1>2. CASE HandleStake
  <2>1. [call |-> "stake", amount |-> stakeForm.amount, tier |-> stakeForm.tier] \in Calls
    BY <1>1 DEF Calls, StakeCalls
  <2>. QED
    BY <1>1, <1>2, <2>1, OneCall, ClickKeepsCalls DEF HandleStake
<1>3. CASE HandleUnstake
  <2>1. PICK amount \in StakeAmounts \cup {shownStake.position.principal} :
          Click("stake", <<[call |-> "unstake", amount |-> amount,
                            announced |-> EarlyExitFee(amount), seen |-> shownStake.seen]>>)
    BY <1>3 DEF HandleUnstake
  <2>2. amount \in Nat
    <3>1. shownStake.position.principal \in Nat
      BY <1>1, StakeParts DEF StakeScreenTyped
    <3>. QED
      BY <3>1, StakePageAssumption
  <2>3. [call |-> "unstake", amount |-> amount, announced |-> EarlyExitFee(amount),
         seen |-> shownStake.seen] \in Calls
    BY <2>2, AnnouncedFee DEF Calls
  <2>. QED
    BY <1>1, <2>1, <2>3, OneCall, ClickKeepsCalls
<1>4. CASE HandleClaimYield
  <2>1. Call("claimYield", 0) \in Calls
    BY PlainCall
  <2>2. PICK page \in {"stake", "dashboard"} : Click(page, <<Call("claimYield", 0)>>)
    BY <1>4 DEF HandleClaimYield
  <2>. QED
    BY <1>1, <2>1, <2>2, OneCall, ClickKeepsCalls
<1>. QED
  BY <1>2, <1>3, <1>4 DEF StakeClick

LEMMA BrowseStakeKeep == ASSUME PagesInv, BrowseStake PROVE PagesInv'
<1>1. /\ UNCHANGED contractVars /\ UNCHANGED <<cached, quote, shown, form, shownStake>>
  BY DEF BrowseStake, FillStake, Review, LeaveReview, StakeClick, lendingPageVars,
         contractVars, stakePageVars
<1>2. Calls' = Calls /\ CallsOK /\ LockEases
  BY <1>1, StillCalls, StillLock DEF PagesInv
<1>3. LendingScreenTyped'
  BY <1>1, LendingScreenStays DEF PagesInv
<1>4. stakeForm' \in StakeForms /\ CallsOK'
  <2>1. stakeForm \in StakeForms /\ shownStake.purse \in Nat
    BY DEF PagesInv, StakeScreenTyped
  <2>2. MaxStakeable \in Nat
    BY <2>1, StakePageAssumption DEF MaxStakeable
  <2>3. CASE FillStake
    <3>1. PICK amount \in StakeAmounts \cup {MaxStakeable}, tier \in TiersTried :
            stakeForm' = [stakeForm EXCEPT !.amount = amount, !.tier = tier]
      BY <2>3 DEF FillStake
    <3>2. amount \in Nat /\ tier \in Vault!Tiers
      BY <2>2, StakePageAssumption
    <3>3. UNCHANGED walletVars
      BY <2>3 DEF FillStake
    <3>. QED
      BY <1>2, <2>1, <3>1, <3>2, <3>3, WalletKeepsCalls DEF StakeForms
  <2>4. CASE Review \/ LeaveReview
    BY <1>2, <2>1, <2>4, WalletKeepsCalls DEF Review, LeaveReview, StakeForms
  <2>5. CASE StakeClick
    BY <1>2, <2>1, <2>5, StakeClickKeepsCalls DEF StakeClick, stakePageVars
  <2>. QED
    BY <2>3, <2>4, <2>5 DEF BrowseStake
<1>5. StakeScreenTyped'
  BY <1>1, <1>2, <1>4, ShownLockStays DEF PagesInv, StakeScreenTyped
<1>. QED
  BY <1>1, <1>3, <1>4, <1>5, ScreenStep

(***************************************************************************)
(* Moving between the pages, signing and declining.                        *)
(***************************************************************************)

LEMMA NavigateKeep == ASSUME PagesInv, Navigate PROVE PagesInv'
<1>1. /\ UNCHANGED contractVars /\ UNCHANGED <<cached, quote, shown, shownStake>>
      /\ form' = EmptyForm /\ stakeForm' = NoForm
  BY DEF Navigate
<1>2. CallsOK'
  BY <1>1, StillCalls, MountKeepsCalls DEF Navigate, PagesInv
<1>3. LendingScreenTyped'
  BY <1>1 DEF PagesInv, LendingScreenTyped, EmptyForm
<1>4. StakeScreenTyped'
  <2>1. stakeForm' \in StakeForms
    BY <1>1 DEF NoForm, StakeForms, Vault!Tiers
  <2>. QED
    BY <1>1, <2>1, StillLock, ShownLockStays DEF PagesInv, StakeScreenTyped, StakeForms
<1>. QED
  BY <1>1, <1>2, <1>3, <1>4, ScreenStep

LEMMA ReadingReplaced ==
  ASSUME NEW R, NEW loan \in LoanViews, NEW supply \in SupplyViews,
         NEW s \in [score : R, price : Nat, loan : LoanViews, supply : SupplyViews]
  PROVE  [s EXCEPT !.loan = loan, !.supply = supply]
           \in [score : R, price : Nat, loan : LoanViews, supply : SupplyViews]
OBVIOUS

LEMMA LoanReplaced ==
  ASSUME NEW s \in Readings, NEW loan \in LoanViews, NEW supply \in SupplyViews
  PROVE  [s EXCEPT !.loan = loan, !.supply = supply] \in Readings
<1> DEFINE R == 0..1000
<1>1. Readings = [score : R, price : Nat, loan : LoanViews, supply : SupplyViews]
  BY DEF Readings
<1> HIDE DEF R
<1>. QED
  BY <1>1, ReadingReplaced

LEMMA SupplyReplaced ==
  ASSUME NEW s \in Readings, NEW supply \in SupplyViews
  PROVE  [s EXCEPT !.supply = supply] \in Readings
<1> HIDE DEF LoanViews, SupplyViews
<1>. QED
  BY DEF Readings

\* What a refetch of the loan and the supply, or of the supply alone, makes of
\* the page's readings.
LEMMA RefetchedTyped ==
  ASSUME PagesInv, UNCHANGED <<cached, quote>>,
         form' \in {form, EmptyForm},
         \/ shown' = shown
         \/ shown' = [shown EXCEPT !.loan = BorrowerView(Me), !.supply = SupplyView]
         \/ shown' = [shown EXCEPT !.supply = SupplyView]
  PROVE  LendingScreenTyped'
<1>1. LendingScreenTyped /\ TypeOK
  BY DEF PagesInv
<1>2. shown \in Readings
  BY <1>1 DEF LendingScreenTyped
<1>3. BorrowerView(Me) \in LoanViews
  BY <1>1, LoanViewTyped
<1>4. SupplyView \in SupplyViews
  BY <1>1, SupplyViewTyped
<1>5. [shown EXCEPT !.loan = BorrowerView(Me), !.supply = SupplyView] \in Readings
  BY ONLY <1>2, <1>3, <1>4, LoanReplaced
<1>6. [shown EXCEPT !.supply = SupplyView] \in Readings
  BY ONLY <1>2, <1>4, SupplyReplaced
<1>7. shown' \in Readings
  <2>1. CASE shown' = shown
    BY ONLY <1>2, <2>1
  <2>2. CASE shown' = [shown EXCEPT !.loan = BorrowerView(Me), !.supply = SupplyView]
    BY ONLY <1>5, <2>2
  <2>3. CASE shown' = [shown EXCEPT !.supply = SupplyView]
    BY ONLY <1>6, <2>3
  <2>. QED
    BY <2>1, <2>2, <2>3
<1>8. form' \in [borrow : Nat, collateral : Nat]
  BY <1>1 DEF LendingScreenTyped, EmptyForm
<1>. QED
  BY <1>1, <1>7, <1>8 DEF LendingScreenTyped

LEMMA StakeRefetchedTyped ==
  ASSUME PagesInv, UNCHANGED contractVars, NEW STATE call,
         StakeConcludes(call) \/ (stakeForm' = stakeForm /\ shownStake' \in {shownStake, StakeView})
  PROVE  StakeScreenTyped'
<1>1. VaultTyped /\ AccountTyped /\ StakeScreenTyped /\ LockEases
  BY StillLock DEF PagesInv
<1>2. UNCHANGED <<positions, stakes>>
  BY DEF contractVars, stakeChainVars, vaultState
<1>3. stakeForm' \in StakeForms
  <2>1. stakeForm \in StakeForms
    BY <1>1 DEF StakeScreenTyped
  <2>2. /\ [stakeForm EXCEPT !.amount = 0, !.reviewing = FALSE] \in StakeForms
        /\ stakeForm' \in {stakeForm, [stakeForm EXCEPT !.amount = 0, !.reviewing = FALSE]}
    BY <2>1 DEF StakeForms, StakeConcludes
  <2>. QED
    BY <2>1, <2>2
<1>4. CASE shownStake' = StakeView
  BY <1>1, <1>2, <1>3, <1>4, StakeReadingTyped
<1>5. CASE shownStake' = shownStake
  BY <1>1, <1>3, <1>5, ShownLockStays DEF StakeScreenTyped, StakeForms
<1>. QED
  BY <1>4, <1>5 DEF StakeConcludes

LEMMA SignsKeep == ASSUME PagesInv, SignsCall PROVE PagesInv'
<1>1. PICK n \in DOMAIN handlers :
        LET call == Head(handlers[n].calls).call IN
        /\ Sign(n)
        /\ \/ Concludes(n, "lending") /\ LendingConcludes(call) /\ UNCHANGED stakePageVars
           \/ Concludes(n, "stake") /\ StakeConcludes(call) /\ UNCHANGED <<form, shown>>
           \/ /\ Concludes(n, "dashboard")
              /\ shown' = IF call = "claimSupplierYield" THEN [shown EXCEPT !.supply = SupplyView]
                          ELSE shown
              /\ shownStake' = IF call = "claimYield" THEN StakeView ELSE shownStake
              /\ UNCHANGED <<form, stakeForm>>
           \/ (\A page \in PageNames : ~Concludes(n, page))
                /\ UNCHANGED <<form, shown, stakePageVars>>
        /\ UNCHANGED <<contractVars, cached, quote, events, reads>>
  BY DEF SignsCall
<1> DEFINE call == Head(handlers[n].calls).call
<1>2. Sign(n) /\ UNCHANGED contractVars /\ UNCHANGED <<cached, quote>>
  BY <1>1
<1>3. CallsOK'
  BY <1>2, StillCalls, SignKeepsCalls DEF PagesInv
<1>4. /\ form' \in {form, EmptyForm}
      /\ \/ shown' = shown
         \/ shown' = [shown EXCEPT !.loan = BorrowerView(Me), !.supply = SupplyView]
         \/ shown' = [shown EXCEPT !.supply = SupplyView]
  BY <1>1 DEF LendingConcludes
<1>5. \/ StakeConcludes(call)
      \/ stakeForm' = stakeForm /\ shownStake' \in {shownStake, StakeView}
  BY <1>1 DEF stakePageVars
<1>6. LendingScreenTyped' /\ StakeScreenTyped'
  BY <1>2, <1>4, <1>5, RefetchedTyped, StakeRefetchedTyped
<1>. QED
  BY <1>2, <1>3, <1>6, ScreenStep

LEMMA DeclinesKeep == ASSUME PagesInv, DeclinesCall PROVE PagesInv'
<1>1. PICK n \in DOMAIN handlers :
        /\ Decline(n)
        /\ IF handlers[n].visit = visit.count THEN StakeDeclined(Head(handlers[n].calls).call)
           ELSE UNCHANGED stakeForm
        /\ UNCHANGED <<contractVars, cached, quote, shown, form, shownStake, events, reads>>
  BY DEF DeclinesCall
<1>2. /\ UNCHANGED contractVars /\ UNCHANGED <<cached, quote, shown, form, shownStake>>
  BY <1>1
<1>3. CallsOK'
  BY <1>1, <1>2, StillCalls, SignKeepsCalls DEF PagesInv
<1>4. LendingScreenTyped'
  BY <1>2, LendingScreenStays DEF PagesInv
<1>5. stakeForm' \in StakeForms
  BY <1>1 DEF StakeDeclined, PagesInv, StakeScreenTyped, StakeForms
<1>6. StakeScreenTyped'
  BY <1>2, <1>5, StillLock, ShownLockStays DEF PagesInv, StakeScreenTyped, StakeForms
<1>. QED
  BY <1>2, <1>3, <1>4, <1>6, ScreenStep

(***************************************************************************)
(* The chain: what is mined, and what the world does meanwhile.            *)
(***************************************************************************)

\* the pages keep what they show while the chain moves
LEMMA ChainStep ==
  ASSUME PagesInv, TypeOK', NoInterestWithoutPrincipal', VaultTyped', AccountTyped', LockEases,
         UNCHANGED <<screenVars, visit, handlers>>,
         queue' = queue \/ (queue # <<>> /\ queue' = Tail(queue))
  PROVE  PagesInv'
<1>1. CallsOK'
  <2>1. Calls \subseteq Calls'
    BY CallsStay DEF PagesInv
  <2>. QED
    BY <2>1, ChainKeepsCalls DEF PagesInv
<1>2. LendingScreenTyped' /\ StakeScreenTyped'
  BY LendingScreenStays, StakeScreenStays DEF PagesInv, screenVars
<1>. QED
  BY <1>1, <1>2 DEF PagesInv

LEMMA CallKinds ==
  ASSUME NEW c \in Calls
  PROVE  /\ c.amount \in Nat
         /\ c.call = "borrow" => c.collateral \in Nat
         /\ c.call = "stake" => c.tier \in Vault!Tiers
<1>1. c \in PlainCalls => c.amount \in Nat /\ c.call \notin {"borrow", "stake"}
  BY DEF PlainCalls
<1>2. c \in StakeCalls => c.amount \in Nat /\ c.call = "stake" /\ c.tier \in Vault!Tiers
  BY DEF StakeCalls
<1>3. c \in BorrowCalls => c.amount \in Nat /\ c.call = "borrow" /\ c.collateral \in Nat
  BY DEF BorrowCalls
<1>4. c \in UnstakeCalls => c.amount \in Nat /\ c.call = "unstake"
  BY DEF UnstakeCalls
<1>. QED
  BY <1>1, <1>2, <1>3, <1>4 DEF Calls

\* A call of the visitor's leaves the pool well-formed.
LEMMA PoolCallsKeep ==
  ASSUME TypeOK, NoInterestWithoutPrincipal, NEW amount \in Nat, NEW collateral \in Nat,
         \/ Supply(Me, amount) \/ Redeem(Me, amount) \/ ClaimSupplierYield(Me)
         \/ Borrow(Me, collateral, amount) \/ Repay(Me, amount)
         \/ Liquidate(Me)
  PROVE  TypeOK' /\ NoInterestWithoutPrincipal' /\ now' = now
<1>0. Me \in Suppliers /\ Me \in Borrowers
  BY LendingPageAssumption
<1>1. CASE Supply(Me, amount) \/ Redeem(Me, amount) \/ ClaimSupplierYield(Me)
  <2>1. UNCHANGED <<borrowers, now>>
    BY <1>1 DEF Supply, Redeem, ClaimSupplierYield, borrowVars, outside, chainVars
  <2>2. TypeOK'
    BY <1>0, <1>1, SupplierCallsKeepTypes
  <2>. QED
    BY <2>1, <2>2 DEF NoInterestWithoutPrincipal
<1>2. CASE Borrow(Me, collateral, amount) \/ Repay(Me, amount) \/ Liquidate(Me)
  <2>1. now' = now
    BY <1>2 DEF Borrow, Repay, Liquidate, outside, chainVars
  <2>2. TypeOK'
    BY <1>0, <1>2, BorrowKeepsTypes, RepayKeepsTypes, LiquidateKeepsTypes
  <2>3. \E pos \in BorrowerPosition :
          borrowers' = [borrowers EXCEPT ![Me] = pos] /\ LawfulChange(Me, pos)
    BY <1>0, <1>2, BorrowIsLawful, RepayIsLawful, LiquidateIsLawful
  <2>. QED
    BY <1>0, <2>1, <2>2, <2>3, LawfulKeepsInterest
<1>. QED
  BY <1>1, <1>2

LEMMA SpendTyped ==
  ASSUME allowance \in [qusdc : Nat, weth : Nat], NEW token \in {"qusdc", "weth"},
         NEW amount \in Nat, Spend(token, amount)
  PROVE  allowance' \in [qusdc : Nat, weth : Nat]
BY DEF Spend

LEMMA LendingMined ==
  ASSUME PagesInv, NEW tx \in Calls, LendingExecutes(tx), UNCHANGED stakeChainVars
  PROVE  /\ TypeOK' /\ NoInterestWithoutPrincipal' /\ now' = now
         /\ allowance' \in [qusdc : Nat, weth : Nat]
<1>1. /\ TypeOK /\ NoInterestWithoutPrincipal
      /\ allowance \in [qusdc : Nat, weth : Nat] /\ tx.amount \in Nat
  BY CallKinds DEF PagesInv, AccountTyped
<1>2. CASE tx.call \in {"approveQusdc", "approveWeth"}
  <2>1. allowance' \in [qusdc : Nat, weth : Nat] /\ UNCHANGED vars
    BY <1>1, <1>2 DEF LendingExecutes
  <2>. QED
    BY <1>1, <2>1, StutterKeepsTypes
       DEF NoInterestWithoutPrincipal, vars, borrowVars, outside, chainVars
<1>3. CASE tx.call = "supply"
  <2>1. Spend("qusdc", tx.amount) /\ Supply(Me, tx.amount)
    BY <1>3 DEF LendingExecutes
  <2>. QED
    BY <1>1, <2>1, SpendTyped, PoolCallsKeep
<1>4. CASE tx.call = "redeem"
  <2>1. Redeem(Me, tx.amount) /\ UNCHANGED allowance
    BY <1>4 DEF LendingExecutes
  <2>. QED
    BY <1>1, <2>1, PoolCallsKeep
<1>5. CASE tx.call = "claimSupplierYield"
  <2>1. ClaimSupplierYield(Me) /\ UNCHANGED allowance
    BY <1>5 DEF LendingExecutes
  <2>. QED
    BY <1>1, <2>1, PoolCallsKeep
<1>6. CASE tx.call = "borrow"
  <2>1. Spend("weth", tx.collateral) /\ Borrow(Me, tx.collateral, tx.amount)
    BY <1>6 DEF LendingExecutes
  <2>2. tx.collateral \in Nat
    BY <1>6, CallKinds
  <2>. QED
    BY <1>1, <2>1, <2>2, SpendTyped, PoolCallsKeep
<1>7. CASE tx.call = "repay"
  <2>1. Spend("qusdc", Min({tx.amount, Owed(Accrued(Me))})) /\ Repay(Me, tx.amount)
    BY <1>7 DEF LendingExecutes
  <2>2. Owed(Accrued(Me)) \in Nat
    <3>1. Accrued(Me) \in BorrowerPosition
      BY <1>1, AccruedPosition, LendingPageAssumption
    <3>. QED
      BY <3>1 DEF Owed, BorrowerPosition
  <2>3. Min({tx.amount, Owed(Accrued(Me))}) \in Nat
    BY <1>1, <2>2, MinOfTwo
  <2>. QED
    BY <1>1, <2>1, <2>3, SpendTyped, PoolCallsKeep
<1>. QED
  BY <1>2, <1>3, <1>4, <1>5, <1>6, <1>7 DEF LendingExecutes

\* the penalty is a part of what is received
LEMMA PenaltyIsAPart ==
  ASSUME NEW received \in Nat, NEW rate \in 0..300
  PROVE  (received * rate) \div BPS \in 0..received
BY DEF BPS

LEMMA StakeMined ==
  ASSUME PagesInv, NEW tx \in Calls, StakeExecutes(tx), UNCHANGED <<vars, allowance>>
  PROVE  VaultTyped' /\ AccountTyped' /\ LockEases
<1>1. /\ TypeOK /\ VaultTyped /\ AccountTyped /\ tx.amount \in Nat
      /\ now \in Nat /\ now' = now /\ purse \in Nat /\ stakes \in Nat
      /\ kycVerified \in [{Me} -> BOOLEAN] /\ globalBaseApyBps \in Nat
      /\ allowance' \in [qusdc : Nat, weth : Nat]
  BY CallKinds DEF PagesInv, TypeOK, AccountTyped, vars, outside, chainVars
<1>2. CASE tx.call = "stake"
  <2>1. /\ tx.amount <= purse /\ Vault!VaultStake(Me, tx.tier, tx.amount)
        /\ purse' = purse - tx.amount /\ stakes' = stakes + 1
        /\ UNCHANGED <<kycVerified, globalBaseApyBps>>
    BY <1>2 DEF StakeExecutes
  <2>2. VaultTyped'
    BY <1>1, <1>2, <2>1, CallKinds, StakeTyped
  <2>. QED
    BY <1>1, <2>1, <2>2 DEF AccountTyped, LockEases
<1>3. CASE tx.call = "unstake"
  <2>1. /\ Vault!VaultUnstake(Me, tx.amount)
        /\ \E cost \in ExitCosts :
             /\ cost < tx.amount
             /\ purse' = purse + (tx.amount - cost)
                           - ((tx.amount - cost) * Vault!PenaltyRate(Me)) \div BPS
        /\ UNCHANGED <<stakes, kycVerified, globalBaseApyBps>>
    BY <1>3 DEF StakeExecutes
  <2>2. PICK cost \in ExitCosts :
             /\ cost < tx.amount
             /\ purse' = purse + (tx.amount - cost)
                           - ((tx.amount - cost) * Vault!PenaltyRate(Me)) \div BPS
    BY <2>1
  <2> DEFINE received == tx.amount - cost
             rate == Vault!PenaltyRate(Me)
  <2>3. received \in Nat
    BY <1>1, <2>2, StakePageAssumption
  <2>4. rate \in 0..300
    <3>1. positions[Me] \in Vault!StakePosition
      BY <1>1 DEF VaultTyped
    <3>. QED
      BY <3>1, StakeParts DEF Vault!PenaltyRate
  <2>5. purse' = purse + received - (received * rate) \div BPS
    BY <2>2
  <2> HIDE DEF received, rate
  <2>6. (received * rate) \div BPS \in 0..received
    BY <2>3, <2>4, PenaltyIsAPart
  <2>7. purse' \in Nat
    BY <1>1, <2>3, <2>5, <2>6
  <2>8. /\ VaultTyped'
        /\ \/ positions'[Me].lockExpiry = 0
           \/ /\ positions'[Me].lockExpiry = positions[Me].lockExpiry
              /\ positions'[Me].lockTier = positions[Me].lockTier
    BY <1>1, <2>1, UnstakeTyped
  <2>. QED
    BY <1>1, <2>1, <2>7, <2>8 DEF AccountTyped, LockEases
<1>4. CASE tx.call = "claimYield"
  <2>1. /\ Vault!VaultClaim(Me)
        /\ purse' = purse + Vault!Paid(Vault!PendingYieldOf(Me))
        /\ UNCHANGED <<stakes, kycVerified, globalBaseApyBps>>
    BY <1>4 DEF StakeExecutes
  <2>2. /\ VaultTyped' /\ Vault!Paid(Vault!PendingYieldOf(Me)) \in Nat
        /\ positions'[Me].lockExpiry = positions[Me].lockExpiry
        /\ positions'[Me].lockTier = positions[Me].lockTier
    BY <1>1, <2>1, ClaimTyped
  <2>3. purse' \in Nat
    BY <1>1, <2>1, <2>2
  <2>. QED
    BY <1>1, <2>1, <2>2, <2>3 DEF AccountTyped, LockEases
<1>. QED
  BY <1>2, <1>3, <1>4 DEF StakeExecutes

\* the vault and the account stay as they are when the pool moves
LEMMA VaultStays ==
  ASSUME PagesInv, UNCHANGED stakeChainVars, allowance' \in [qusdc : Nat, weth : Nat],
         now' \in Nat, now <= now'
  PROVE  VaultTyped' /\ AccountTyped' /\ LockEases
<1>1. now \in Nat
  BY DEF PagesInv, TypeOK
<1>2. UNCHANGED <<positions, effectiveShares, rewardDebt, accYieldPerShare,
                  totalEffectiveShares, undistributed, totalStaked, totalYieldPool,
                  vaultWqie, caps, kycVerified, globalBaseApyBps, purse, stakes>>
  BY DEF stakeChainVars, vaultState
<1>3. VaultTyped' /\ AccountTyped'
  BY <1>2 DEF PagesInv, VaultTyped, CapsSet, AccountTyped
<1>. QED
  BY <1>1, <1>2, <1>3 DEF LockEases, PagesInv, AccountTyped

\* the pool stays as it is when the vault moves
LEMMA PoolStays ==
  ASSUME PagesInv, UNCHANGED vars PROVE TypeOK' /\ NoInterestWithoutPrincipal' /\ now' = now
BY StutterKeepsTypes DEF PagesInv, NoInterestWithoutPrincipal, vars, borrowVars, outside, chainVars

LEMMA MinedKeep == ASSUME PagesInv, Mined PROVE PagesInv'
<1>1. /\ queue # <<>> /\ queue' = Tail(queue)
      /\ UNCHANGED <<screenVars, visit, handlers>>
  BY DEF Mined
<1>2. Head(queue) \in Calls
  BY <1>1 DEF PagesInv, CallsOK
<1>3. CASE LendingExecutes(Head(queue)) /\ UNCHANGED stakeChainVars
  <2>1. /\ TypeOK' /\ NoInterestWithoutPrincipal' /\ now' = now
        /\ allowance' \in [qusdc : Nat, weth : Nat]
    BY <1>2, <1>3, LendingMined
  <2>2. now' \in Nat /\ now <= now'
    BY <2>1 DEF PagesInv, TypeOK
  <2>. QED
    BY <1>1, <1>3, <2>1, <2>2, VaultStays, ChainStep
<1>4. CASE StakeExecutes(Head(queue)) /\ UNCHANGED <<vars, allowance>>
  BY <1>1, <1>2, <1>4, StakeMined, PoolStays, ChainStep
<1>5. CASE UNCHANGED contractVars
  <2>1. UNCHANGED vars /\ UNCHANGED stakeChainVars /\ UNCHANGED allowance
    BY <1>5 DEF contractVars
  <2>2. TypeOK' /\ NoInterestWithoutPrincipal' /\ now' = now
    BY <2>1, PoolStays
  <2>3. now' \in Nat /\ now <= now' /\ allowance' \in [qusdc : Nat, weth : Nat]
    BY <2>1, <2>2 DEF PagesInv, TypeOK, AccountTyped
  <2>. QED
    BY <1>1, <2>1, <2>2, <2>3, VaultStays, ChainStep
<1>. QED
  BY <1>3, <1>4, <1>5 DEF Mined

\* opting in changes the shares and the opt-in, no principal and no lock
LEMMA OptInTyped ==
  ASSUME TypeOK, VaultTyped, AccountTyped, OptsIn, UNCHANGED allowance, now' = now
  PROVE  VaultTyped' /\ AccountTyped' /\ LockEases
<1> DEFINE pos == [positions[Me] EXCEPT !.reputationOptIn = TRUE]
<1>1. positions[Me] \in Vault!StakePosition /\ totalStaked = positions[Me].principal
  BY DEF VaultTyped
<1>2. /\ pos \in Vault!StakePosition /\ pos.principal = totalStaked
      /\ pos.lockExpiry = positions[Me].lockExpiry /\ pos.lockTier = positions[Me].lockTier
  BY <1>1 DEF Vault!StakePosition
<1>3. /\ Vault!SettleAndUpdate(Me, pos)
      /\ UNCHANGED <<Vault!yieldVars, caps>> /\ totalStaked' = totalStaked
      /\ UNCHANGED <<kycVerified, globalBaseApyBps, purse, stakes>>
  BY DEF OptsIn, Vault!VaultOptIn
<1> HIDE DEF pos
<1>4. /\ VaultTyped'
      /\ positions'[Me].lockExpiry = positions[Me].lockExpiry
      /\ positions'[Me].lockTier = positions[Me].lockTier
  BY <1>2, <1>3, UpdateTyped
<1>5. AccountTyped'
  BY <1>3 DEF AccountTyped
<1>6. now \in Nat /\ stakes \in Nat
  BY DEF TypeOK, AccountTyped
<1>. QED
  BY <1>3, <1>4, <1>5, <1>6 DEF LockEases

LEMMA WorldKeep == ASSUME PagesInv, World PROVE PagesInv'
<1>1. /\ UNCHANGED screenVars /\ UNCHANGED <<visit, handlers, queue>>
  BY DEF World, walletVars
<1>2. TypeOK /\ NoInterestWithoutPrincipal /\ allowance \in [qusdc : Nat, weth : Nat]
  BY DEF PagesInv, AccountTyped
<1>3. CASE /\ \/ \E seconds \in TimeSteps : NextBlock(seconds)
              \/ \E score \in Scores \ {scores[Me]} : SetScore(Me, score)
              \/ \E price \in Prices : KeeperSetsPrice(price) \/ AdminForcesPrice(price)
           /\ UNCHANGED <<allowance, stakeChainVars>>
  <2>1. WorldNext
    BY <1>3, LendingPageAssumption DEF WorldNext
  <2>2. TypeOK'
    BY <1>2, <2>1, WorldStepsKeepTypes
  <2>3. borrowers' = borrowers
    BY <1>3 DEF NextBlock, SetScore, KeeperSetsPrice, AdminForcesPrice, borrowVars
  <2>4. now' \in Nat /\ now <= now'
    <3>1. CASE \E seconds \in TimeSteps : NextBlock(seconds)
      BY <1>2, <3>1, PoolAssumption DEF NextBlock, TypeOK
    <3>2. CASE now' = now
      BY <1>2, <3>2 DEF TypeOK
    <3>. QED
      BY <1>3, <3>1, <3>2 DEF SetScore, KeeperSetsPrice, AdminForcesPrice, chainVars
  <2>5. NoInterestWithoutPrincipal'
    BY <1>2, <2>3 DEF NoInterestWithoutPrincipal
  <2>. QED
    BY <1>1, <1>2, <1>3, <2>2, <2>4, <2>5, VaultStays, ChainStep
<1>4. CASE (\E amount \in Harvests : Harvest(amount)) /\ UNCHANGED <<vars, allowance>>
  <2>1. TypeOK' /\ NoInterestWithoutPrincipal' /\ now' = now
    BY <1>4, PoolStays
  <2>2. VaultTyped' /\ AccountTyped' /\ UNCHANGED <<positions, stakes>>
    BY <1>4, HarvestTyped, StakePageAssumption DEF PagesInv
  <2>3. LockEases
    BY <2>1, <2>2 DEF LockEases, PagesInv, TypeOK, AccountTyped
  <2>. QED
    BY <1>1, <2>1, <2>2, <2>3, ChainStep
<1>5. CASE OptsIn /\ UNCHANGED <<vars, allowance>>
  <2>1. TypeOK' /\ NoInterestWithoutPrincipal' /\ now' = now
    BY <1>5, PoolStays
  <2>2. VaultTyped' /\ AccountTyped' /\ LockEases
    BY <1>5, <2>1, OptInTyped DEF PagesInv
  <2>. QED
    BY <1>1, <2>1, <2>2, ChainStep
<1>6. CASE Liquidate(Me) /\ UNCHANGED <<allowance, stakeChainVars>>
  <2>1. TypeOK' /\ NoInterestWithoutPrincipal' /\ now' = now
    BY <1>2, <1>6, PoolCallsKeep
  <2>2. now' \in Nat /\ now <= now'
    BY <1>2, <2>1 DEF TypeOK
  <2>. QED
    BY <1>1, <1>2, <1>6, <2>1, <2>2, VaultStays, ChainStep
<1>. QED
  BY <1>3, <1>4, <1>5, <1>6 DEF World

(***************************************************************************)
(* The invariant holds.                                                    *)
(***************************************************************************)

LEMMA PagesInitTypes == ASSUME PagesInit PROVE TypeOK /\ NoInterestWithoutPrincipal
<1> USE DEF PagesInit
<1>1. totalSupplied \in Nat \ {0}
  BY PagesAssumption
<1>2. /\ ProtocolCut(EarlierInterest) \in Nat
      /\ EarlierInterest - ProtocolCut(EarlierInterest) \in Nat
  BY PagesAssumption DEF ProtocolCut, PROTOCOL_FEE_BPS, BPS
<1>3. accInterestPerShare \in Nat
  BY <1>1, <1>2, ProductNat, QuotientNat, PoolAssumption
<1>4. suppliers \in [Suppliers -> SupplyPosition]
  BY PagesAssumption DEF NoSupply, SupplyPosition
<1>5. borrowers \in [Borrowers -> BorrowerPosition]
  BY DEF NoPosition, BorrowerPosition
<1>6. ethUsdPrice \in Nat \ {0} /\ updatedAt = 1
  BY PagesAssumption DEF Oracle!Deploy
<1>7. qusdc \in Nat
  BY <1>1, PagesAssumption
<1>8. \A u \in Borrowers :
        borrowers[u].lastAccrual = 0 /\ borrowers[u].interestOwed = 0
  BY DEF NoPosition
<1>9. scores \in [Borrowers -> Scores] /\ graceExpiry \in [Borrowers -> Nat]
  BY PagesAssumption
<1>10. /\ protocolFeeAccrued \in Nat /\ totalBorrowed = 0 /\ weth = 0
       /\ paused \in BOOLEAN /\ now = 1 /\ height = 1
  BY <1>2
<1>11. NoInterestWithoutPrincipal
  BY <1>8 DEF NoInterestWithoutPrincipal
<1>. QED
  <2> HIDE DEF PagesInit
  <2>1. /\ totalSupplied \in Nat /\ totalBorrowed \in Nat /\ weth \in Nat
        /\ updatedAt \in Nat /\ updatedAt <= now /\ now \in Nat \ {0} /\ height \in Nat
        /\ \A u \in Borrowers : borrowers[u].lastAccrual <= now
    BY <1>1, <1>6, <1>8, <1>10
  <2>. QED
    BY <1>3, <1>4, <1>5, <1>6, <1>7, <1>9, <1>10, <1>11, <2>1 DEF TypeOK

LEMMA PagesStart == ASSUME PagesInit PROVE PagesInv
<1>1. TypeOK /\ NoInterestWithoutPrincipal
  BY PagesInitTypes
<1>2. VaultTyped
  <2>1. /\ positions = [u \in {Me} |-> Vault!NoStake]
        /\ effectiveShares = [u \in {Me} |-> 0] /\ rewardDebt = [u \in {Me} |-> 0]
        /\ accYieldPerShare = 0 /\ totalEffectiveShares = 0 /\ undistributed = 0
        /\ totalStaked = 0 /\ totalYieldPool = 0 /\ vaultWqie = 0
        /\ CapsSet
    BY DEF PagesInit, StakePageInit, VaultInit, CapsSet
  <2>2. Vault!NoStake \in Vault!StakePosition /\ Vault!NoStake.principal = 0
    BY DEF Vault!NoStake, Vault!StakePosition, Vault!Tiers
  <2>3. positions \in [{Me} -> Vault!StakePosition] /\ positions[Me].principal = 0
    BY <2>1, <2>2
  <2>. QED
    BY <2>1, <2>3 DEF VaultTyped
<1>3. AccountTyped
  <2>1. /\ kycVerified \in [{Me} -> KycAnswers] /\ purse \in Purses
        /\ globalBaseApyBps = 0 /\ stakes = 0
        /\ allowance = [qusdc |-> 0, weth |-> 0]
    BY DEF PagesInit, StakePageInit, LendingPageInit
  <2>. QED
    BY <2>1, PagesAssumption DEF AccountTyped
<1>4. LendingScreenTyped
  <2>1. /\ cached = None /\ quote = 0 /\ form = EmptyForm
        /\ shown = [score |-> scores[Me], price |-> 0,
                    loan |-> BorrowerView(Me), supply |-> SupplyView]
    BY DEF PagesInit, LendingPageInit
  <2>2. /\ BorrowerView(Me) \in LoanViews /\ SupplyView \in SupplyViews
        /\ scores[Me] \in 0..1000
    BY <1>1, ReadingsTyped, ScoreOfMe
  <2>3. shown \in Readings
    BY <2>1, <2>2 DEF Readings
  <2>. QED
    BY <2>1, <2>3 DEF LendingScreenTyped, None, EmptyForm
<1>5. StakeScreenTyped
  <2>1. stakeForm = NoForm /\ shownStake = StakeView
    BY DEF PagesInit, StakePageInit
  <2>2. /\ shownStake.position = positions[Me] /\ shownStake.purse = purse
        /\ shownStake.seen = stakes
    BY <2>1 DEF StakeView
  <2>3. stakeForm \in StakeForms
    BY <2>1 DEF NoForm, StakeForms, Vault!Tiers
  <2>4. LockShown
    BY <1>3, <2>2 DEF LockShown, AccountTyped
  <2>. QED
    BY <1>2, <1>3, <2>2, <2>3, <2>4 DEF StakeScreenTyped, VaultTyped, AccountTyped
<1>6. CallsOK
  BY DEF PagesInit, WalletInit, CallsOK
<1>. QED
  BY <1>1, <1>2, <1>3, <1>4, <1>5, <1>6 DEF PagesInv

LEMMA PagesStutter == ASSUME PagesInv, UNCHANGED pageVars PROVE PagesInv'
<1>1. /\ UNCHANGED contractVars /\ UNCHANGED walletVars /\ UNCHANGED stakePageVars
      /\ UNCHANGED <<cached, quote, shown, form>>
  BY DEF pageVars, screenVars
<1>. QED
  BY <1>1, StillCalls, StillLock, StakeScreenStays, LendingScreenStays, WalletKeepsCalls,
     ScreenStep DEF PagesInv

LEMMA PagesInvHolds == PagesSpec => []PagesInv
<1>1. PagesInit => PagesInv
  BY PagesStart
<1>2. PagesInv /\ [PagesNext]_pageVars => PagesInv'
  BY ReadsKeep, BrowseKeep, BrowseStakeKeep, NavigateKeep, SignsKeep, DeclinesKeep,
     MinedKeep, WorldKeep, PagesStutter DEF PagesNext
<1>. QED
  BY <1>1, <1>2, PTL DEF PagesSpec

\* Allowances, balances and the forms hold amounts, a handler has at most two
\* calls to make, and the vault's total is the visitor's principal.
THEOREM PagesTypeCorrect == PagesSpec => []PagesTypeOK
<1>1. PagesInv => PagesTypeOK
  <2> SUFFICES ASSUME PagesInv PROVE PagesTypeOK
    OBVIOUS
  <2>1. allowance \in [qusdc : Nat, weth : Nat] /\ purse \in Nat
    BY DEF PagesInv, AccountTyped
  <2>2. form \in [borrow : Nat, collateral : Nat] /\ quote \in Nat
    BY DEF PagesInv, LendingScreenTyped, Readings
  <2>3. /\ shownStake.position \in Vault!StakePosition /\ shownStake.purse \in Nat
        /\ stakeForm.tier \in DOMAIN LOCK_TIERS /\ stakeForm.amount \in Nat
    BY DEF PagesInv, StakeScreenTyped, StakeForms, LOCK_TIERS, Vault!Tiers
  <2>4. \A n \in DOMAIN handlers : Len(handlers[n].calls) <= 2
    BY DEF PagesInv, CallsOK
  <2>5. totalStaked = positions[Me].principal
    BY DEF PagesInv, VaultTyped
  <2>. QED
    BY <2>1, <2>2, <2>3, <2>4, <2>5 DEF PagesTypeOK
<1>. QED
  BY <1>1, PagesInvHolds, PTL

(***************************************************************************)
(* What waits to be mined.                                                 *)
(***************************************************************************)

LEMMA QueuedCall ==
  ASSUME PagesInv, NEW name, NEW n \in Queued(name)
  PROVE  queue[n] \in Calls /\ queue[n].call = name
<1>1. queue \in Seq(Calls) /\ n \in DOMAIN queue /\ queue[n].call = name
  BY DEF PagesInv, CallsOK, Queued
<1>. QED
  BY <1>1, SeqMember

\* However long an exit waits to be mined, it is charged at most the fee the page
\* announced, unless a stake was mined after the page's reading: a lock only
\* runs out, and the page's table of penalties is the vault's.
THEOREM ExitsCostWhatWasAnnounced == PagesSpec => []NeverMoreThanAnnounced
<1>1. PagesInv => NeverMoreThanAnnounced
  <2> SUFFICES ASSUME PagesInv, NEW n \in Queued("unstake"), queue[n].seen = stakes
               PROVE  queue[n].amount * Vault!PenaltyRate(Me) <= queue[n].announced
    BY DEF NeverMoreThanAnnounced
  <2>1. queue[n] \in Calls /\ queue[n].call = "unstake"
    BY QueuedCall
  <2>2. queue[n] \in UnstakeCalls
    BY <2>1 DEF Calls, PlainCalls, StakeCalls, BorrowCalls
  <2>. QED
    BY <2>2 DEF UnstakeCalls, Honest
<1>. QED
  BY <1>1, PagesInvHolds, PTL

\* A debt within the percentage of the collateral the form asks for stays within
\* a limit that is no lower, at a price that is no lower.
LEMMA WithinLimit ==
  ASSUME NEW a \in Nat, NEW unit \in Nat, NEW c \in Nat, NEW more \in Nat,
         NEW oracle \in Nat, NEW price \in Nat, NEW pct \in Nat, NEW limit \in Nat,
         a * unit * 100 <= c * oracle * pct, c <= more, oracle <= price, pct * 100 <= limit
  PROVE  a * 10000 * unit <= limit * more * price
<1>1. c * oracle \in Nat /\ more * price \in Nat /\ c * price \in Nat
  BY ProductNat
<1>2. c * oracle <= more * price
  <2>1. c * oracle <= c * price
    BY ProductMonotone
  <2>2. price * c <= price * more
    BY ProductMonotone
  <2>3. price * c = c * price /\ price * more = more * price
    OBVIOUS
  <2>. QED
    BY <1>1, <2>1, <2>2, <2>3
<1>3. pct * 100 \in Nat
  OBVIOUS
<1>4. (pct * 100) * (c * oracle) <= (pct * 100) * (more * price)
  BY <1>1, <1>2, <1>3, ProductMonotone
<1>5. (more * price) * (pct * 100) <= (more * price) * limit
  BY <1>1, <1>3, ProductMonotone
<1>6. a * 10000 * unit = 100 * (a * unit * 100)
  OBVIOUS
<1>7. (pct * 100) * (c * oracle) = 100 * (c * oracle * pct)
  OBVIOUS
<1>8. /\ (pct * 100) * (more * price) = (more * price) * (pct * 100)
      /\ (more * price) * limit = limit * more * price
  OBVIOUS
<1>9. /\ a * unit * 100 \in Nat /\ c * oracle * pct \in Nat
      /\ (more * price) * (pct * 100) \in Nat /\ (more * price) * limit \in Nat
  BY <1>1, <1>3, ProductNat
<1>10. 100 * (a * unit * 100) <= 100 * (c * oracle * pct)
  BY <1>9
<1>11. 100 * (c * oracle * pct) <= (more * price) * limit
  BY <1>4, <1>5, <1>7, <1>8, <1>9
<1>12. 100 * (a * unit * 100) <= (more * price) * limit
  <2>1. 100 * (a * unit * 100) \in Nat /\ 100 * (c * oracle * pct) \in Nat
    BY <1>9
  <2>. QED
    BY <1>9, <1>10, <1>11, <2>1
<1>. QED
  BY <1>6, <1>8, <1>12

\* FirstLoanCovered: with no debt yet, the oracle's price read
\* and not fallen since, and the limit not lowered, the loan the form lets through
\* is within its limit, however long it waits; the contract's rounding of the
\* collateral's value alone may refuse it.
THEOREM FormCoversAFirstLoan == PagesSpec => []FirstLoanCovered
<1>1. PagesInv => FirstLoanCovered
  <2> SUFFICES ASSUME PagesInv, NEW n \in Queued("borrow"),
                      queue[n].oracle # 0, queue[n].oracle <= ethUsdPrice,
                      queue[n].ltvPct * 100 <= MaxLtvBps(scores[Me]),
                      borrowers[Me].principal = 0
               PROVE  ~OverLimit(Drawn(Accrued(Me), queue[n].collateral, queue[n].amount),
                                 MaxLtvBps(scores[Me]))
    BY DEF FirstLoanCovered
  <2> DEFINE tx == queue[n]
             mine == borrowers[Me]
             pos == Drawn(Accrued(Me), tx.collateral, tx.amount)
             limit == MaxLtvBps(scores[Me])
  <2>1. tx \in BorrowCalls
    <3>1. tx \in Calls /\ tx.call = "borrow"
      BY QueuedCall
    <3>. QED
      BY <3>1 DEF Calls, PlainCalls, StakeCalls, UnstakeCalls
  <2>2. /\ tx.amount \in Nat /\ tx.collateral \in Nat /\ tx.oracle \in Nat /\ tx.ltvPct \in Nat
        /\ tx.oracle > 0 =>
             tx.amount * PRICE_UNIT * 100 <= tx.collateral * tx.oracle * tx.ltvPct
    BY <2>1 DEF BorrowCalls, Covered
  <2>3. /\ mine \in BorrowerPosition /\ ethUsdPrice \in Nat
        /\ mine.principal = 0 => mine.interestOwed = 0
    BY LendingPageAssumption DEF PagesInv, TypeOK, NoInterestWithoutPrincipal
  <2>4. mine.principal \in Nat /\ mine.collateral \in Nat
    BY <2>3 DEF BorrowerPosition
  <2>5. limit \in Nat /\ PRICE_UNIT \in Nat
    BY ScoreOfMe, PoolAssumption DEF PagesInv, MaxLtvBps
  <2>6. /\ tx.oracle # 0 /\ tx.oracle <= ethUsdPrice /\ tx.ltvPct * 100 <= limit
        /\ mine.principal = 0
    OBVIOUS
  <2>7. Accrued(Me) = mine
    BY <2>6 DEF Accrued
  <2>8. /\ pos.collateral = mine.collateral + tx.collateral
        /\ Owed(pos) = tx.amount
    BY <2>2, <2>3, <2>6, <2>7 DEF Drawn, Owed
  <2> HIDE DEF tx, pos, limit, mine
  <2>9. pos.collateral \in Nat /\ tx.collateral <= pos.collateral
    BY <2>2, <2>4, <2>8
  <2>10. tx.amount * PRICE_UNIT * 100 <= tx.collateral * tx.oracle * tx.ltvPct
    BY <2>2, <2>6
  <2>11. tx.amount * 10000 * PRICE_UNIT <= limit * pos.collateral * ethUsdPrice
    BY <2>2, <2>3, <2>5, <2>6, <2>9, <2>10, WithinLimit
  <2>12. tx.amount * 10000 * PRICE_UNIT \in Nat /\ limit * pos.collateral * ethUsdPrice \in Nat
    BY <2>2, <2>3, <2>5, <2>9, ProductNat
  <2>13. ~OverLimit(pos, limit)
    BY <2>8, <2>11, <2>12 DEF OverLimit, BPS
  <2>. QED
    BY <2>13 DEF tx, pos, limit
<1>. QED
  BY <1>1, PagesInvHolds, PTL

(***************************************************************************)
(* What a reading tells the borrower.                                      *)
(***************************************************************************)

\* The view's interest is what accruing now would leave on the position.
LEMMA ViewAccrues ==
  ASSUME TypeOK
  PROVE  /\ Accrued(Me).interestOwed = ViewInterest(Me)
         /\ Accrued(Me).principal = borrowers[Me].principal
         /\ Accrued(Me).collateral = borrowers[Me].collateral
<1>1. borrowers[Me] \in BorrowerPosition
  BY LendingPageAssumption DEF TypeOK
<1> DEFINE pos == borrowers[Me]
           rate == CurrentRateBps(Me)
           more == InterestOver(pos, rate, now - pos.lastAccrual)
<1>2. ViewInterest(Me) =
        pos.interestOwed + (IF pos.principal = 0 \/ pos.lastAccrual = 0 THEN 0 ELSE more)
  BY DEF ViewInterest, CurrentRateBps, PersonalRateBps
<1>3. Accrued(Me) = IF pos.principal = 0 \/ pos.lastAccrual = 0 THEN pos
                    ELSE [pos EXCEPT !.interestOwed = @ + more, !.lastAccrual = now]
  BY DEF Accrued
<1> HIDE DEF more
<1>4. pos.interestOwed \in Nat
  BY <1>1 DEF BorrowerPosition
<1>. QED
  BY <1>1, <1>2, <1>3, <1>4 DEF BorrowerPosition

LEMMA InfiniteLarge == Infinite \in Nat /\ Infinite > 10000
BY DEF Infinite

\* liquidatable, in the view and in liquidate
LEMMA ViewOfLiquidation ==
  ASSUME TypeOK
  PROVE  BorrowerView(Me).isLiquidatable
           <=> borrowers[Me].principal > 0 /\ Underwater(Me)
<1> DEFINE pos == borrowers[Me]
           threshold == MaxLtvBps(scores[Me]) + LIQ_BUFFER_BPS
           value == WethToQusdc(pos.collateral)
           owed == pos.principal + ViewInterest(Me)
           ltv == IF value > 0 THEN (owed * BPS) \div value ELSE Infinite
<1>1. /\ pos \in BorrowerPosition /\ ethUsdPrice \in Nat
      /\ pos.collateral \in Nat /\ pos.principal \in Nat
  BY LendingPageAssumption DEF TypeOK, BorrowerPosition
<1>2. threshold \in 0..10000
  BY ScoreOfMe DEF MaxLtvBps, LIQ_BUFFER_BPS
<1>3. value \in Nat
  BY <1>1, ProductNat, QuotientNat, PoolAssumption DEF WethToQusdc
<1>4. BorrowerView(Me).isLiquidatable
        <=> (pos.collateral > 0 /\ pos.principal > 0 /\ ltv > threshold)
  BY DEF BorrowerView
<1>5. Underwater(Me) <=>
        /\ pos.collateral # 0
        /\ value # 0 => (owed * BPS) \div value > threshold
  BY ViewAccrues DEF Underwater, LtvExceeds, Owed
<1> HIDE DEF value, threshold, owed
<1>6. value = 0 => ltv > threshold
  BY <1>2, InfiniteLarge
<1>7. value # 0 => ltv = (owed * BPS) \div value
  BY <1>3
<1> HIDE DEF ltv
<1>8. ltv > threshold <=> (value # 0 => (owed * BPS) \div value > threshold)
  BY <1>6, <1>7
<1>. QED
  BY <1>1, <1>4, <1>5, <1>8

\* below one in the view exactly then
LEMMA HealthOfView ==
  ASSUME TypeOK
  PROVE  /\ BorrowerView(Me).hf \in Nat
         /\ BorrowerView(Me).hf < 10000 <=> BorrowerView(Me).isLiquidatable
<1> DEFINE pos == borrowers[Me]
           threshold == MaxLtvBps(scores[Me]) + LIQ_BUFFER_BPS
           value == WethToQusdc(pos.collateral)
           owed == pos.principal + ViewInterest(Me)
           ltv == IF value > 0 THEN (owed * BPS) \div value ELSE Infinite
           some == pos.collateral > 0 /\ pos.principal > 0
<1>1. /\ pos \in BorrowerPosition /\ ethUsdPrice \in Nat
      /\ pos.collateral \in Nat /\ pos.principal \in Nat
  BY LendingPageAssumption DEF TypeOK, BorrowerPosition
<1>2. threshold \in 0..10000
  BY ScoreOfMe DEF MaxLtvBps, LIQ_BUFFER_BPS
<1>3. value \in Nat
  BY <1>1, ProductNat, QuotientNat, PoolAssumption DEF WethToQusdc
<1>4. owed * BPS \in Nat
  BY <1>1, ViewInterestNat DEF BPS
<1>5. ltv \in Nat
  <2> HIDE DEF value, owed
  <2>1. value > 0 => (owed * BPS) \div value \in Nat
    BY <1>3, <1>4, QuotientNat
  <2>. QED
    BY <1>3, <2>1, InfiniteLarge
<1>6. /\ BorrowerView(Me).isLiquidatable <=> (some /\ ltv > threshold)
      /\ BorrowerView(Me).hf = IF some /\ ltv > 0 THEN (threshold * BPS) \div ltv ELSE Infinite
  BY DEF BorrowerView
<1> HIDE DEF ltv, threshold, some
<1>7. CASE some /\ ltv > 0
  <2> DEFINE hf == (threshold * BPS) \div ltv
  <2>1. threshold * BPS \in Nat
    BY <1>2 DEF BPS
  <2>2. hf \in Nat /\ ltv * hf <= threshold * BPS /\ threshold * BPS < ltv * hf + ltv
    BY <1>5, <1>7, <2>1, FloorBounds
  <2> HIDE DEF hf
  <2>3. hf < 10000 => ltv > threshold
    <3>1. SUFFICES ASSUME hf < 10000 PROVE ltv > threshold
      OBVIOUS
    <3>2. hf + 1 \in Nat /\ hf + 1 <= 10000
      BY <2>2, <3>1
    <3>3. ltv * (hf + 1) <= ltv * 10000
      BY <1>5, <3>2, ProductMonotone
    <3>4. ltv * (hf + 1) = ltv * hf + ltv
      BY <1>5, <2>2
    <3>5. ltv * hf \in Nat
      BY <1>5, <2>2, ProductNat
    <3>6. ltv * hf + ltv \in Nat /\ threshold \in Nat
      BY <1>2, <1>5, <3>5
    <3>7. threshold * 10000 < ltv * hf + ltv /\ ltv * hf + ltv <= ltv * 10000
      BY <2>2, <3>3, <3>4 DEF BPS
    <3>8. threshold < ltv
      BY ONLY <1>5, <3>6, <3>7, ScaledBelow
    <3>. QED
      BY <1>5, <3>6, <3>8
  <2>4. ltv > threshold => hf < 10000
    <3>1. SUFFICES ASSUME hf >= 10000 PROVE ltv <= threshold
      BY <1>2, <1>5, <2>2
    <3>2. ltv * 10000 <= ltv * hf
      BY <1>5, <2>2, <3>1, ProductMonotone
    <3>3. ltv * hf \in Nat
      BY <1>5, <2>2, ProductNat
    <3>. QED
      BY <1>2, <1>5, <2>2, <3>2, <3>3 DEF BPS
  <2>. QED
    BY <1>6, <1>7, <2>2, <2>3, <2>4 DEF hf
<1>8. CASE ~(some /\ ltv > 0)
  <2>1. BorrowerView(Me).hf = Infinite
    BY <1>6, <1>8
  <2>2. ~BorrowerView(Me).isLiquidatable
    <3>1. ltv > threshold => ltv > 0
      <4>1. threshold \in Nat
        BY <1>2
      <4>. QED
        BY <1>5, <4>1
    <3>. QED
      BY <1>6, <1>8, <3>1
  <2>. QED
    BY <2>1, <2>2, InfiniteLarge
<1>. QED
  BY <1>7, <1>8

\* The badge, the gauge's zone and the label of a fresh reading say that the
\* loan-to-value is past the threshold exactly when liquidate's own test of it,
\* after accruing, says so.
THEOREM ReadingsTellLiquidation == PagesSpec => []GaugeTellsLiquidation
<1>1. PagesInv => GaugeTellsLiquidation
  <2> SUFFICES ASSUME PagesInv PROVE GaugeTellsLiquidation
    OBVIOUS
  <2> DEFINE view == BorrowerView(Me)
             open == borrowers[Me].principal > 0 /\ Underwater(Me)
  <2>1. /\ view.isLiquidatable <=> open
        /\ view.hf \in Nat
        /\ view.hf < 10000 <=> open
    BY ViewOfLiquidation, HealthOfView DEF PagesInv
  <2> HIDE DEF view, open
  <2>2. (Badge(view) = "At Risk") <=> open
    BY <2>1 DEF Badge
  <2>3. (HealthLabel(view) = "Danger") <=> open
    BY <2>1 DEF HealthLabel
  <2>4. (ActiveZone(view) = "Liquidated") <=> open
    BY <2>1 DEF ActiveZone
  <2>. QED
    BY <2>2, <2>3, <2>4 DEF GaugeTellsLiquidation, view, open
<1>. QED
  BY <1>1, PagesInvHolds, PTL

(***************************************************************************)
(* The promised rate.                                                      *)
(***************************************************************************)

Factors == {10000, 11000, 12000, 13500, 15000}
LockFactors == {10000, 10500, 11000, 11500}

\* Shares are rounded down twice: by the score's factor, then by the lock's.
LEMMA SharesBounds ==
  ASSUME NEW p \in Nat, NEW m \in Factors, NEW l \in LockFactors
  PROVE  LET f == (m \div 100) * (l \div 100)
             s == (((p * m) \div 10000) * l) \div 10000
         IN  /\ f \in Nat /\ s \in Nat /\ p * f \in Nat
             /\ 10000 * s <= p * f /\ p * f < 10000 * s + 21500
<1> DEFINE w == (p * m) \div 10000
           s == (w * l) \div 10000
           M == m \div 100
           K == l \div 100
<1>1. M \in Nat /\ w \in Nat /\ 100 * w <= p * M /\ p * M < 100 * w + 100
  <2>1. CASE m = 10000
    BY <2>1
  <2>2. CASE m = 11000
    BY <2>2
  <2>3. CASE m = 12000
    BY <2>3
  <2>4. CASE m = 13500
    BY <2>4
  <2>5. CASE m = 15000
    BY <2>5
  <2>. QED
    BY <2>1, <2>2, <2>3, <2>4, <2>5 DEF Factors
<1> DEFINE a == p * M
<1>2. a \in Nat /\ p * (M * K) = a * K /\ K \in Nat
  <2>1. K \in Nat
    BY DEF LockFactors
  <2>. QED
    BY <1>1, <2>1, ProductNat
<1> HIDE DEF w, M
<1>3. a * K \in Nat /\ s \in Nat /\ 10000 * s <= a * K /\ a * K < 10000 * s + 21500
  <2>0. a \in Nat /\ w \in Nat /\ 100 * w <= a /\ a < 100 * w + 100
    BY <1>1, <1>2
  <2> HIDE DEF a
  <2>1. CASE l = 10000
    BY <2>0, <2>1
  <2>2. CASE l = 10500
    BY <2>0, <2>2
  <2>3. CASE l = 11000
    BY <2>0, <2>3
  <2>4. CASE l = 11500
    BY <2>0, <2>4
  <2>. QED
    BY <2>1, <2>2, <2>3, <2>4 DEF LockFactors
<1>4. M * K \in Nat
  BY <1>1, <1>2, ProductNat
<1> HIDE DEF s, K, a
<1>. QED
  BY <1>2, <1>3, <1>4 DEF s, w, M, K

\* The rate of shares that were rounded down, beside the page's rate.
LEMMA RateBounds ==
  ASSUME NEW p \in Nat \ {0}, NEW b \in Nat, NEW s \in Nat, NEW f \in Nat,
         10000 * s <= p * f, p * f < 10000 * s + 21500
  PROVE  LET e == (b * s) \div p
             c == (b * f) \div 10000
             r == (2 * (b * f) + 10000) \div 20000
             slack == (3 * b) \div p
         IN  /\ e \in Nat /\ c \in Nat /\ r \in Nat /\ slack \in Nat
             /\ e <= c /\ c <= r /\ r <= c + 1
             /\ c <= e + 1 + slack
<1> DEFINE y == b * s
           x == b * f
           z == p * x
           e == y \div p
           c == x \div 10000
           r == (2 * x + 10000) \div 20000
           slack == (3 * b) \div p
<1>1. y \in Nat /\ x \in Nat /\ z \in Nat /\ p * f \in Nat /\ 3 * b \in Nat
  BY ProductNat
<1>2. e \in Nat /\ p * e <= y /\ y < p * e + p
  <2> HIDE DEF y
  <2>. QED
    BY <1>1, FloorBounds
<1>3. slack \in Nat /\ p * slack <= 3 * b /\ 3 * b < p * slack + p
  BY <1>1, FloorBounds
<1>4. 10000 * y <= z
  <2>1. b * (10000 * s) <= b * (p * f)
    BY <1>1, ProductMonotone
  <2>2. b * (10000 * s) = 10000 * y /\ b * (p * f) = z
    OBVIOUS
  <2>. QED
    BY <2>1, <2>2
<1>5. z <= 10000 * y + 21500 * b
  <2>1. b * (p * f) <= b * (10000 * s + 21500)
    BY <1>1, ProductMonotone
  <2>2. b * (p * f) = z
    OBVIOUS
  <2>3. b * (10000 * s + 21500) = 10000 * y + 21500 * b
    OBVIOUS
  <2>. QED
    BY <2>1, <2>2, <2>3
<1> HIDE DEF y, x, e, slack
<1>6. c \in Nat /\ 10000 * c <= x /\ x < 10000 * c + 10000
  BY <1>1
<1>7. r \in Nat /\ c <= r /\ r <= c + 1
  BY <1>1
<1> HIDE DEF c, r
<1>8. e <= c
  <2> SUFFICES ASSUME c + 1 <= e PROVE FALSE
    BY <1>2, <1>6
  <2>1. c + 1 \in Nat /\ x + 1 <= 10000 * (c + 1)
    BY <1>1, <1>6
  <2>2. p * (c + 1) <= p * e
    BY <1>2, <2>1, ProductMonotone
  <2>3. p * (x + 1) <= p * (10000 * (c + 1))
    <3>1. x + 1 \in Nat /\ 10000 * (c + 1) \in Nat
      BY <1>1, <2>1
    <3>. QED
      BY <2>1, <3>1, ProductMonotone
  <2>4. /\ p * (x + 1) = z + p
        /\ p * (10000 * (c + 1)) = 10000 * (p * (c + 1))
    BY <1>1, <1>6
  <2>5. p * (c + 1) \in Nat /\ p * e \in Nat
    BY <1>2, <2>1, ProductNat
  <2> DEFINE pc == p * (c + 1)
             pe == p * e
  <2>6. z + p <= 10000 * pc /\ pc <= pe /\ pe <= y /\ pc \in Nat /\ pe \in Nat
    BY <1>2, <2>2, <2>3, <2>4, <2>5
  <2> HIDE DEF z, pc, pe
  <2>. QED
    BY <1>1, <1>4, <2>6
<1>9. c <= e + 1 + slack
  <2> SUFFICES ASSUME e + 2 + slack <= c PROVE FALSE
    BY <1>2, <1>3, <1>6
  <2>1. e + 2 + slack \in Nat
    BY <1>2, <1>3
  <2>2. p * (e + 2 + slack) <= p * c
    BY <1>6, <2>1, ProductMonotone
  <2>3. p * (10000 * c) <= p * x
    <3>1. 10000 * c \in Nat
      BY <1>6
    <3>. QED
      BY <1>1, <1>6, <3>1, ProductMonotone
  <2>4. /\ p * (e + 2 + slack) = p * e + 2 * p + p * slack
        /\ p * (10000 * c) = 10000 * (p * c)
    BY <1>2, <1>3, <1>6
  <2>5. p * e \in Nat /\ p * slack \in Nat /\ p * c \in Nat
    BY <1>2, <1>3, <1>6, ProductNat
  <2> DEFINE pe == p * e
             ps == p * slack
             pc == p * c
  <2>6. /\ pe \in Nat /\ ps \in Nat /\ pc \in Nat
        /\ pe + 2 * p + ps <= pc /\ 10000 * pc <= z
        /\ y < pe + p /\ 3 * b < ps + p
    BY <1>2, <1>3, <2>2, <2>3, <2>4, <2>5
  <2> HIDE DEF z, pc, pe, ps
  <2>. QED
    BY <1>1, <1>5, <2>6
<1>. QED
  BY <1>2, <1>3, <1>6, <1>7, <1>8, <1>9 DEF e, c, r, slack, x, y

LEMMA BandRows ==
  /\ SCORE_BANDS[1] = [min |-> 0, max |-> 200, multiplierBps |-> 10000]
  /\ SCORE_BANDS[2] = [min |-> 201, max |-> 400, multiplierBps |-> 11000]
  /\ SCORE_BANDS[3] = [min |-> 401, max |-> 600, multiplierBps |-> 12000]
  /\ SCORE_BANDS[4] = [min |-> 601, max |-> 800, multiplierBps |-> 13500]
  /\ SCORE_BANDS[5] = [min |-> 801, max |-> 1000, multiplierBps |-> 15000]
BY DEF SCORE_BANDS

\* The page's bands are the vault's multipliers.
LEMMA BandOf ==
  ASSUME NEW score \in Nat, score <= 1000
  PROVE  Band(score).multiplierBps = Vault!MultiplierBps(score)
<1> DEFINE Fits(k) == score >= SCORE_BANDS[k].min /\ score <= SCORE_BANDS[k].max
           i == CHOOSE k \in 1..5 : Fits(k)
<1>0. score \in Nat /\ score <= 1000
  OBVIOUS
<1>1. \E k \in 1..5 : Fits(k)
  <2>1. CASE score <= 200
    <3>1. Fits(1)
      BY <1>0, <2>1, BandRows
    <3>. QED
      BY <3>1
  <2>2. CASE score > 200 /\ score <= 400
    <3>1. Fits(2)
      BY <1>0, <2>2, BandRows
    <3>. QED
      BY <3>1
  <2>3. CASE score > 400 /\ score <= 600
    <3>1. Fits(3)
      BY <1>0, <2>3, BandRows
    <3>. QED
      BY <3>1
  <2>4. CASE score > 600 /\ score <= 800
    <3>1. Fits(4)
      BY <1>0, <2>4, BandRows
    <3>. QED
      BY <3>1
  <2>5. CASE score > 800
    <3>1. Fits(5)
      BY <1>0, <2>5, BandRows
    <3>. QED
      BY <3>1
  <2>. QED
    BY <1>0, <2>1, <2>2, <2>3, <2>4, <2>5
<1>2. i \in 1..5 /\ Fits(i)
  BY <1>1
<1>3. Band(score) = SCORE_BANDS[i]
  BY DEF Band
<1> HIDE DEF i
<1>9. /\ score \in Nat
      /\ score <= 200 => Vault!MultiplierBps(score) = 10000
      /\ score > 200 /\ score <= 400 => Vault!MultiplierBps(score) = 11000
      /\ score > 400 /\ score <= 600 => Vault!MultiplierBps(score) = 12000
      /\ score > 600 /\ score <= 800 => Vault!MultiplierBps(score) = 13500
      /\ score > 800 => Vault!MultiplierBps(score) = 15000
  BY MultiplierBands
<1>4. CASE i = 1
  <2>1. score >= 0 /\ score <= 200 /\ Band(score).multiplierBps = 10000
    BY <1>2, <1>3, <1>4, BandRows
  <2>2. Vault!MultiplierBps(score) = 10000
    BY ONLY <1>9, <2>1
  <2>. QED
    BY <2>1, <2>2
<1>5. CASE i = 2
  <2>1. score >= 201 /\ score <= 400 /\ Band(score).multiplierBps = 11000
    BY <1>2, <1>3, <1>5, BandRows
  <2>2. Vault!MultiplierBps(score) = 11000
    BY ONLY <1>9, <2>1
  <2>. QED
    BY <2>1, <2>2
<1>6. CASE i = 3
  <2>1. score >= 401 /\ score <= 600 /\ Band(score).multiplierBps = 12000
    BY <1>2, <1>3, <1>6, BandRows
  <2>2. Vault!MultiplierBps(score) = 12000
    BY ONLY <1>9, <2>1
  <2>. QED
    BY <2>1, <2>2
<1>7. CASE i = 4
  <2>1. score >= 601 /\ score <= 800 /\ Band(score).multiplierBps = 13500
    BY <1>2, <1>3, <1>7, BandRows
  <2>2. Vault!MultiplierBps(score) = 13500
    BY ONLY <1>9, <2>1
  <2>. QED
    BY <2>1, <2>2
<1>8. CASE i = 5
  <2>1. score >= 801 /\ score <= 1000 /\ Band(score).multiplierBps = 15000
    BY <1>2, <1>3, <1>8, BandRows
  <2>2. Vault!MultiplierBps(score) = 15000
    BY ONLY <1>9, <2>1
  <2>. QED
    BY <2>1, <2>2
<1>. QED
  BY <1>2, <1>4, <1>5, <1>6, <1>7, <1>8

\* Its lock bonuses are the vault's as well.
LEMMA SameBonus ==
  ASSUME NEW tier \in Vault!Tiers
  PROVE  /\ 10000 + LOCK_TIERS[tier].bonusBps = 10000 + Vault!LockShareBonus[tier]
         /\ 10000 + Vault!LockShareBonus[tier] \in LockFactors
BY DEF LOCK_TIERS, Vault!Tiers, Vault!LockShareBonus, LockFactors

LEMMA CountedScoreTyped ==
  ASSUME TypeOK PROVE CountedScore \in Nat /\ CountedScore <= 1000
BY ScoreOfMe DEF CountedScore

\* the shares of a position within the cap
LEMMA SharesWithinCap ==
  ASSUME PagesInv, positions[Me].principal <= caps.standard
  PROVE  Vault!ComputedShares(Me, positions[Me]) =
           (((positions[Me].principal * Vault!MultiplierBps(CountedScore)) \div 10000)
              * (10000 + Vault!LockShareBonus[positions[Me].lockTier])) \div 10000
<1> DEFINE pos == positions[Me]
           p == pos.principal
           cap == Vault!BoostedCap(p)
           boosted == IF p < cap THEN p ELSE cap
           w == (p * Vault!MultiplierBps(CountedScore)) \div 10000
<1>1. p \in Nat
  BY StakeParts DEF PagesInv, VaultTyped
<1>2. cap \in Nat /\ p <= cap
  BY <1>1 DEF PagesInv, VaultTyped, CapsSet, Vault!BoostedCap
<1>3. boosted = p
  <2> HIDE DEF p, cap
  <2>. QED
    BY <1>1, <1>2
<1>4. Vault!ScoreMultBps(Me, pos) = Vault!MultiplierBps(CountedScore)
  BY MultiplierBands DEF CountedScore, Vault!ScoreMultBps, Vault!BPS
<1>5. Vault!MultiplierBps(CountedScore) \in Nat
  BY CountedScoreTyped, MultiplierOf DEF PagesInv
<1>6. w \in Nat
  BY <1>1, <1>5, ProductNat, QuotientNat
<1>7. Vault!ComputedShares(Me, pos) =
        (((boosted * Vault!ScoreMultBps(Me, pos)) \div 10000 + (p - boosted))
           * (10000 + Vault!LockShareBonus[pos.lockTier])) \div 10000
  BY DEF Vault!ComputedShares, Vault!BPS
<1>8. (p * Vault!MultiplierBps(CountedScore)) \div 10000 + (p - p) = w
  <2> HIDE DEF p
  <2>1. p - p = 0
    BY <1>1
  <2>. QED
    BY <1>6, <2>1
<1>. QED
  BY <1>3, <1>4, <1>7, <1>8

\* For every position within the boost cap, the rate projected before the stake,
\* the dashboard's breakdown and the calculator, given the score the vault counts,
\* are the vault's rate, up to what rounding the shares to whole QIE may take.
THEOREM ChainOfFactorsIsTheVaults == PagesSpec => []RateIsOfTheCountedScore
<1>1. PagesInv => RateIsOfTheCountedScore
  <2> SUFFICES ASSUME PagesInv, positions[Me].principal > 0,
                      positions[Me].principal <= caps.standard
               PROVE
                 LET tier == positions[Me].lockTier IN
                 /\ Close(ProjectedApyBps(CountedScore, tier, globalBaseApyBps),
                          EffectiveApyBps, RateSlack)
                 /\ Close(BreakdownBps(CountedScore, tier, globalBaseApyBps),
                          EffectiveApyBps, RateSlack)
                 /\ Close(CalculatorApyBps(Band(CountedScore), tier, globalBaseApyBps),
                          EffectiveApyBps, RateSlack)
    BY DEF RateIsOfTheCountedScore
  <2> DEFINE pos == positions[Me]
             p == pos.principal
             b == globalBaseApyBps
             m == Vault!MultiplierBps(CountedScore)
             l == 10000 + Vault!LockShareBonus[pos.lockTier]
             f == (m \div 100) * (l \div 100)
             s == (((p * m) \div 10000) * l) \div 10000
             e == (b * s) \div p
             c == (b * f) \div 10000
             r == (2 * (b * f) + 10000) \div 20000
             extra == (3 * b) \div p
  <2>1. p \in Nat \ {0} /\ b \in Nat /\ pos.lockTier \in Vault!Tiers
    BY StakeParts DEF PagesInv, VaultTyped, AccountTyped
  <2>2. m \in Factors
    BY CountedScoreTyped, MultiplierOf DEF PagesInv, Factors
  <2>3. l \in LockFactors /\ 10000 + LOCK_TIERS[pos.lockTier].bonusBps = l
    BY <2>1, SameBonus
  <2>4. Band(CountedScore).multiplierBps = m
    BY CountedScoreTyped, BandOf DEF PagesInv
  <2>5. EffectiveApyBps = e
    BY <2>1, SharesWithinCap DEF EffectiveApyBps
  <2> HIDE DEF m, l, pos
  <2>6. /\ f \in Nat /\ s \in Nat
        /\ 10000 * s <= p * f /\ p * f < 10000 * s + 21500
    BY <2>1, <2>2, <2>3, SharesBounds
  <2>7. m \div 100 \in Nat /\ l \div 100 \in Nat
    BY <2>2, <2>3 DEF Factors, LockFactors
  <2>8. b * (m \div 100) * (l \div 100) = b * f
    BY <2>1, <2>7
  <2>9. /\ ProjectedApyBps(CountedScore, pos.lockTier, b) = r
        /\ BreakdownBps(CountedScore, pos.lockTier, b) = r
        /\ CalculatorApyBps(Band(CountedScore), pos.lockTier, b) = c
    <3> HIDE DEF f, b
    <3>1. ProjectedApyBps(CountedScore, pos.lockTier, b) = Rounded(b * f, 10000)
      BY <2>3, <2>4, <2>8 DEF ProjectedApyBps
    <3>2. BreakdownBps(CountedScore, pos.lockTier, b) = Rounded(b * f, 10000)
      BY <2>3, <2>4, <2>8 DEF BreakdownBps
    <3>3. CalculatorApyBps(Band(CountedScore), pos.lockTier, b) = c
      BY <2>3, <2>4, <2>8 DEF CalculatorApyBps
    <3>4. Rounded(b * f, 10000) = r
      BY DEF Rounded
    <3>. QED
      BY <3>1, <3>2, <3>3, <3>4
  <2> HIDE DEF f, s, b, p
  <2>10. /\ e \in Nat /\ c \in Nat /\ r \in Nat /\ extra \in Nat
         /\ e <= c /\ c <= r /\ r <= c + 1 /\ c <= e + 1 + extra
    BY <2>1, <2>6, RateBounds
  <2> HIDE DEF e, c, r, extra
  <2>11. Close(r, e, 2 + extra) /\ Close(c, e, 2 + extra)
    BY <2>10 DEF Close
  <2>. QED
    BY <2>5, <2>9, <2>11 DEF b, p, pos, extra, RateSlack
<1>. QED
  BY <1>1, PagesInvHolds, PTL
=============================================================================

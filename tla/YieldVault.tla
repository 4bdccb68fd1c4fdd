----------------------------- MODULE YieldVault -----------------------------
(***************************************************************************)
(* YieldVault.sol: stake positions, effective shares and the accumulator   *)
(* that pays harvested yield to them.  A transaction of the vault runs     *)
(* through the strategy as well, so the operators here are the vault's     *)
(* part of it; StakingSystem joins the two.  A revert is a disabled        *)
(* action, and each unsigned subtraction is a guard.  Time is in days.     *)
(***************************************************************************)
EXTENDS Integers

CONSTANTS
  Stakers,
  ACC_PRECISION      \* scale of the accumulator (1e18)

ASSUME VaultAssumption == ACC_PRECISION \in Nat \ {0}

BPS == 10000

Tiers == {"FLEXIBLE", "SILVER", "GOLD", "DIAMOND"}
LockDuration == [FLEXIBLE |-> 0, SILVER |-> 30, GOLD |-> 90, DIAMOND |-> 180]
LockShareBonus == [FLEXIBLE |-> 0, SILVER |-> 500, GOLD |-> 1000, DIAMOND |-> 1500]
PenaltyBps == [FLEXIBLE |-> 0, SILVER |-> 100, GOLD |-> 200, DIAMOND |-> 300]

VARIABLES
  positions,              \* staker -> StakePosition
  effectiveShares,        \* staker -> weighted shares
  rewardDebt,             \* staker -> accounting baseline
  accYieldPerShare, totalEffectiveShares,
  undistributed,          \* yield received while no shares existed
  totalStaked, totalYieldPool,
  caps,                   \* standardBoostedCap, whaleBoostedCap, whaleThreshold
  vaultWqie,              \* the vault's WQIE balance
  kycVerified, scores,    \* what the vault reads of ReputationRegistry
  now                     \* block.timestamp

shareVars == <<effectiveShares, rewardDebt, totalEffectiveShares>>
yieldVars == <<accYieldPerShare, undistributed, totalYieldPool, vaultWqie>>
vaultVars == <<positions, shareVars, yieldVars, totalStaked, caps>>
registryVars == <<kycVerified, scores>>

StakePosition == [principal : Nat, lockTier : Tiers, lockExpiry : Nat,
                  pendingYield : Nat, reputationOptIn : BOOLEAN]
NoStake == [principal |-> 0, lockTier |-> "FLEXIBLE", lockExpiry |-> 0,
            pendingYield |-> 0, reputationOptIn |-> FALSE]

(***************************************************************************)
(* Shares: principal, boosted by the score on the capped slice, then by    *)
(* the lock.                                                               *)
(***************************************************************************)

\* ScoreMultiplier.getMultiplierBps
MultiplierBps(score) ==
  CASE score <= 200 -> 10000
    [] score > 200 /\ score <= 400 -> 11000
    [] score > 400 /\ score <= 600 -> 12000
    [] score > 600 /\ score <= 800 -> 13500
    [] OTHER -> 15000

ScoreMultBps(u, pos) ==
  IF pos.reputationOptIn /\ kycVerified[u] THEN MultiplierBps(scores[u]) ELSE BPS

BoostedCap(staked) == IF staked >= caps.threshold THEN caps.whale ELSE caps.standard

\* mutant: the principal above the cap is forgotten
SharesOfCappedSlice(u, pos) ==
  LET boosted == IF pos.principal < BoostedCap(pos.principal)
                 THEN pos.principal ELSE BoostedCap(pos.principal)
  IN  (((boosted * ScoreMultBps(u, pos)) \div BPS)
         * (BPS + LockShareBonus[pos.lockTier])) \div BPS

\* _computeShares; no principal makes no shares
ComputedShares(u, pos) ==
  LET boosted == IF pos.principal < BoostedCap(pos.principal)
                 THEN pos.principal ELSE BoostedCap(pos.principal)
      weighted == (boosted * ScoreMultBps(u, pos)) \div BPS + (pos.principal - boosted)
  IN  (weighted * (BPS + LockShareBonus[pos.lockTier])) \div BPS

(***************************************************************************)
(* The accumulator.                                                        *)
(***************************************************************************)

Entitlement(shares) == (shares * accYieldPerShare) \div ACC_PRECISION

\* the subtraction in _settle does not revert
Settleable(u) ==
  effectiveShares[u] = 0 \/ rewardDebt[u] <= Entitlement(effectiveShares[u])

\* pendingYieldOf: banked, and accrued since the last settle
PendingYieldOf(u) ==
  positions[u].pendingYield
    + (IF effectiveShares[u] = 0 THEN 0
       ELSE Entitlement(effectiveShares[u]) - rewardDebt[u])

\* mutant: new shares without settling the old ones first
BankedBefore(u) == positions[u].pendingYield

\* _settle: what accrued so far is banked
Banked(u) == PendingYieldOf(u)

\* mutant: the old shares stay in the total
TotalKeepingOld(u, shares) == totalEffectiveShares + shares

\* the total with a staker's shares replaced
TotalWith(u, shares) == (totalEffectiveShares - effectiveShares[u]) + shares

\* mutant: the baseline is taken for the shares before the call
BaselineOfOld(u, shares) == Entitlement(effectiveShares[u])

\* the debt of new shares: they earn from here on
Baseline(u, shares) == Entitlement(shares)

\* _settle, the new position, _updateShares
SettleAndUpdate(u, pos) ==
  LET shares == ComputedShares(u, pos) IN
  /\ Settleable(u)
  /\ effectiveShares[u] <= totalEffectiveShares
  /\ positions' = [positions EXCEPT ![u] = [pos EXCEPT !.pendingYield = Banked(u)]]
  /\ totalEffectiveShares' = TotalWith(u, shares)
  /\ effectiveShares' = [effectiveShares EXCEPT ![u] = shares]
  /\ rewardDebt' = [rewardDebt EXCEPT ![u] = Baseline(u, shares)]

(***************************************************************************)
(* The vault's part of each call.                                          *)
(***************************************************************************)

\* a stake adds to the position and sets the lock of all of it
Staked(u, tier, amount) ==
  [positions[u] EXCEPT !.principal = @ + amount, !.lockTier = tier,
     !.lockExpiry = IF tier = "FLEXIBLE" THEN 0 ELSE now + LockDuration[tier]]

\* stake
VaultStake(u, tier, amount) ==
  /\ amount # 0
  /\ SettleAndUpdate(u, Staked(u, tier, amount))
  /\ totalStaked' = totalStaked + amount
  /\ UNCHANGED <<yieldVars, caps>>

\* the early-exit penalty, read before the position changes
PenaltyRate(u) ==
  IF positions[u].lockExpiry > 0 /\ now < positions[u].lockExpiry
  THEN PenaltyBps[positions[u].lockTier] ELSE 0

\* mutant: the tier is reset, its expiry is not
UnstakedKeepingExpiry(u, amount) ==
  LET left == [positions[u] EXCEPT !.principal = @ - amount]
  IN  IF left.principal = 0 THEN [left EXCEPT !.lockTier = "FLEXIBLE"] ELSE left

\* the last unit out ends the lock
Unstaked(u, amount) ==
  LET left == [positions[u] EXCEPT !.principal = @ - amount]
  IN  IF left.principal = 0
      THEN [left EXCEPT !.lockExpiry = 0, !.lockTier = "FLEXIBLE"] ELSE left

\* unstake; what the strategy sends passes through to the staker and the fund
VaultUnstake(u, amount) ==
  /\ amount # 0 /\ amount <= positions[u].principal /\ amount <= totalStaked
  /\ SettleAndUpdate(u, Unstaked(u, amount))
  /\ totalStaked' = totalStaked - amount
  /\ UNCHANGED <<yieldVars, caps>>

\* what a claim is paid: never more than the yield pool
Paid(claimable) == IF claimable > totalYieldPool THEN totalYieldPool ELSE claimable

\* claimYield: settle, pay, re-baseline
VaultClaim(u) ==
  /\ Settleable(u)
  /\ PendingYieldOf(u) # 0
  /\ Paid(PendingYieldOf(u)) <= vaultWqie
  /\ positions' = [positions EXCEPT ![u].pendingYield = 0]
  /\ rewardDebt' = [rewardDebt EXCEPT ![u] = Entitlement(effectiveShares[u])]
  /\ totalYieldPool' = totalYieldPool - Paid(PendingYieldOf(u))
  /\ vaultWqie' = vaultWqie - Paid(PendingYieldOf(u))
  /\ UNCHANGED <<effectiveShares, totalEffectiveShares, accYieldPerShare,
                 undistributed, totalStaked, caps>>

\* optInToReputation
VaultOptIn(u) ==
  /\ kycVerified[u]
  /\ SettleAndUpdate(u, [positions[u] EXCEPT !.reputationOptIn = TRUE])
  /\ UNCHANGED <<yieldVars, totalStaked, caps>>

\* refreshBoost
VaultRefresh(u) ==
  /\ SettleAndUpdate(u, positions[u])
  /\ UNCHANGED <<yieldVars, totalStaked, caps>>

\* setBoostedCaps
VaultSetCaps(new) ==
  /\ new.standard > 0 /\ new.whale >= new.standard /\ new.threshold > new.whale
  /\ caps' = new
  /\ UNCHANGED <<positions, shareVars, yieldVars, totalStaked>>

\* mutant: yield is divided by the principal, not by the boosted shares
PerPrincipal(amount) == (amount * ACC_PRECISION) \div totalStaked

PerShare(amount) == (amount * ACC_PRECISION) \div totalEffectiveShares

\* mutant: parked yield is paid out and kept
StillParked(amount) == IF totalEffectiveShares > 0 THEN undistributed ELSE amount + undistributed

\* what stays parked when an amount comes in
Parked(amount) == IF totalEffectiveShares > 0 THEN 0 ELSE amount + undistributed

\* receiveYield of a positive amount: credited to whoever holds shares now,
\* parked if nobody does
ReceiveYield(amount) ==
  /\ amount # 0
  /\ vaultWqie' = vaultWqie + amount
  /\ totalYieldPool' = totalYieldPool + amount
  /\ accYieldPerShare' =
       IF totalEffectiveShares > 0 THEN accYieldPerShare + PerShare(amount + undistributed)
       ELSE accYieldPerShare
  /\ undistributed' = Parked(amount)
  /\ UNCHANGED <<positions, shareVars, totalStaked, caps>>

\* emergencyExit sends the vault what the strategy holds; nothing books it
VaultReceivesExit(amount) ==
  /\ vaultWqie' = vaultWqie + amount
  /\ UNCHANGED <<positions, shareVars, accYieldPerShare, undistributed,
                 totalYieldPool, totalStaked, caps>>

VaultInit ==
  /\ positions = [u \in Stakers |-> NoStake]
  /\ effectiveShares = [u \in Stakers |-> 0]
  /\ rewardDebt = [u \in Stakers |-> 0]
  /\ accYieldPerShare = 0 /\ totalEffectiveShares = 0 /\ undistributed = 0
  /\ totalStaked = 0 /\ totalYieldPool = 0 /\ vaultWqie = 0
=============================================================================

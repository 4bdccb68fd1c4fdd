------------------------------ MODULE StakePage ------------------------------
(***************************************************************************)
(* stake/page.tsx, the dashboard's yield claim and the calculator, in      *)
(* front of the vault: lock tiers and the rate the pages promise, the form *)
(* with its review step, the fee they announce before an early exit.       *)
(* Amounts are whole QIE, time is in days.  The strategy behind the vault  *)
(* is StakingSystem's; here an exit recovers some part of what it asks.    *)
(***************************************************************************)
EXTENDS LendingPage

CONSTANTS
  VAULT_PRECISION,     \* the vault's ACC_PRECISION
  StakeAmounts, TiersTried,   \* what may be typed and picked
  Harvests,            \* what a harvest may bring
  GAS_HEADROOM_QIE,
  ExitCosts            \* what leaving the DEX position may cost

VARIABLES
  positions, effectiveShares, rewardDebt, accYieldPerShare,
  totalEffectiveShares, undistributed, totalStaked, totalYieldPool, vaultWqie,
  caps, kycVerified,   \* as in YieldVault
  globalBaseApyBps,    \* the annualised last harvest
  purse,               \* the account's native QIE
  stakes,              \* stakes mined so far
  shownStake,          \* what the page has read of the vault and the account
  stakeForm            \* tab, amount, tier, and whether it is under review

vaultState == <<positions, effectiveShares, rewardDebt, accYieldPerShare,
                totalEffectiveShares, undistributed, totalStaked, totalYieldPool, vaultWqie, caps>>
stakeChainVars == <<vaultState, kycVerified, globalBaseApyBps, purse, stakes>>
stakePageVars == <<shownStake, stakeForm>>

Vault == INSTANCE YieldVault WITH
  Stakers <- {Me}, ACC_PRECISION <- VAULT_PRECISION

ASSUME StakePageAssumption ==
  /\ VAULT_PRECISION \in Nat \ {0} /\ GAS_HEADROOM_QIE \in Nat
  /\ StakeAmounts \subseteq Nat /\ TiersTried \subseteq Vault!Tiers
  /\ Harvests \subseteq Nat /\ ExitCosts \subseteq Nat

(***************************************************************************)
(* The tables of lib/constants.ts and what is calculated from them.        *)
(***************************************************************************)

LOCK_TIERS ==
  [FLEXIBLE |-> [bonusBps |-> 0,    penaltyBps |-> 0],
   SILVER   |-> [bonusBps |-> 500,  penaltyBps |-> 100],
   GOLD     |-> [bonusBps |-> 1000, penaltyBps |-> 200],
   DIAMOND  |-> [bonusBps |-> 1500, penaltyBps |-> 300]]

SCORE_BANDS ==
  << [min |-> 0,   max |-> 200,  multiplierBps |-> 10000],
     [min |-> 201, max |-> 400,  multiplierBps |-> 11000],
     [min |-> 401, max |-> 600,  multiplierBps |-> 12000],
     [min |-> 601, max |-> 800,  multiplierBps |-> 13500],
     [min |-> 801, max |-> 1000, multiplierBps |-> 15000] >>

Band(score) ==
  SCORE_BANDS[CHOOSE i \in 1..5 : score >= SCORE_BANDS[i].min /\ score <= SCORE_BANDS[i].max]

\* mutant: the lock's bonus is added to the score's instead of chained
AddedApyBps(score, tier, baseApyBps) ==
  Rounded(baseApyBps * (Band(score).multiplierBps + LOCK_TIERS[tier].bonusBps), 10000)

\* useProjectedAPY; the factors are whole per cents
ProjectedApyBps(score, tier, baseApyBps) ==
  Rounded(baseApyBps * (Band(score).multiplierBps \div 100)
            * ((10000 + LOCK_TIERS[tier].bonusBps) \div 100), 10000)

\* ApyBreakdown, on the stake page and on the dashboard
BreakdownBps(score, tier, baseApyBps) ==
  LET lockMult == (10000 + LOCK_TIERS[tier].bonusBps) \div 100
      multiplier == Band(score).multiplierBps \div 100
  IN  Rounded(baseApyBps * multiplier * lockMult, 10000)

\* effectiveApy of the calculator, cut to bps; there the visitor picks the band
CalculatorApyBps(band, tier, baseApyBps) ==
  (baseApyBps * (band.multiplierBps \div 100)
     * ((10000 + LOCK_TIERS[tier].bonusBps) \div 100)) \div 10000

\* getEffectiveAPY
EffectiveApyBps ==
  LET pos == positions[Me] IN
  IF pos.principal = 0 THEN globalBaseApyBps
  ELSE (globalBaseApyBps * Vault!ComputedShares(Me, pos)) \div pos.principal

\* mutant: only whole days count, so the last one is over
WholeDaysLeft(lockExpiry) ==
  IF lockExpiry = 0 \/ lockExpiry - now - 1 <= 0 THEN 0 ELSE lockExpiry - now - 1

\* formatLockExpiry: a begun day counts
DaysLeft(lockExpiry) ==
  IF lockExpiry = 0 \/ lockExpiry - now <= 0 THEN 0 ELSE lockExpiry - now

\* earlyExitFee of the position on the screen, in BPS-ths of a QIE
EarlyExitFee(amount) ==
  IF DaysLeft(shownStake.position.lockExpiry) > 0
  THEN amount * LOCK_TIERS[shownStake.position.lockTier].penaltyBps ELSE 0

(***************************************************************************)
(* Reads, form and buttons.                                                *)
(***************************************************************************)

NoForm == [tab |-> "stake", amount |-> 0, tier |-> "FLEXIBLE", reviewing |-> FALSE]

\* mutant: the headroom is taken off whatever the balance is
MaxUnclamped == shownStake.purse - GAS_HEADROOM_QIE

\* the balance less the gas headroom
MaxStakeable ==
  IF shownStake.purse > GAS_HEADROOM_QIE THEN shownStake.purse - GAS_HEADROOM_QIE ELSE 0

\* getPosition, pendingYieldOf and useBalance; "seen" is the model's own note
StakeView ==
  [position |-> positions[Me], pending |-> Vault!PendingYieldOf(Me), purse |-> purse,
   seen |-> stakes]

RefetchStake ==
  /\ Shows("stake") \/ Shows("dashboard")
  /\ shownStake' = StakeView
  /\ UNCHANGED <<stakeForm, stakeChainVars, lendingPageVars, walletVars, vars>>

\* amount and tier; the buttons beside the amount fill in what can be staked
FillStake ==
  /\ Shows("stake") /\ ~IsPending
  /\ stakeForm.tab = "stake" /\ ~stakeForm.reviewing
  /\ \E amount \in StakeAmounts \cup {MaxStakeable}, tier \in TiersTried :
       stakeForm' = [stakeForm EXCEPT !.amount = amount, !.tier = tier]
  /\ UNCHANGED <<shownStake, stakeChainVars, lendingPageVars, walletVars, vars>>

\* "Review Stake"
Review ==
  /\ Shows("stake") /\ ~IsPending
  /\ stakeForm.tab = "stake" /\ ~stakeForm.reviewing
  /\ stakeForm.amount > 0 /\ stakeForm.amount <= MaxStakeable
  /\ stakeForm' = [stakeForm EXCEPT !.reviewing = TRUE]
  /\ UNCHANGED <<shownStake, stakeChainVars, lendingPageVars, walletVars, vars>>

\* "Edit", and a click on a tab, leave the review; so does "Go to Stake", which
\* is only there when nothing is under review
LeaveReview ==
  /\ Shows("stake")
  /\ \/ stakeForm.reviewing /\ ~IsPending
          /\ stakeForm' = [stakeForm EXCEPT !.reviewing = FALSE]
     \/ \E tab \in {"stake", "unstake"} \ {stakeForm.tab} :
          stakeForm' = [stakeForm EXCEPT !.tab = tab, !.reviewing = FALSE]
  /\ UNCHANGED <<shownStake, stakeChainVars, lendingPageVars, walletVars, vars>>

\* handleStake: the balance is looked at once more
HandleStake ==
  /\ stakeForm.tab = "stake" /\ stakeForm.reviewing
  /\ stakeForm.amount > 0 /\ stakeForm.amount <= MaxStakeable
  /\ Click("stake", <<[call |-> "stake", amount |-> stakeForm.amount, tier |-> stakeForm.tier]>>)

\* handleUnstake: any amount, the contract refuses what is too much; the fee
\* announced and the reading it comes from are kept with the call
HandleUnstake ==
  /\ stakeForm.tab = "unstake" /\ shownStake.position.principal > 0
  /\ \E amount \in StakeAmounts \cup {shownStake.position.principal} :
       Click("stake", <<[call |-> "unstake", amount |-> amount,
                         announced |-> EarlyExitFee(amount), seen |-> shownStake.seen]>>)

\* handleClaimYield of the stake page, which asks whatever is pending, and of
\* the dashboard
HandleClaimYield ==
  \/ /\ stakeForm.tab = "unstake" /\ shownStake.position.principal > 0
     /\ Click("stake", <<Call("claimYield", 0)>>)
  \/ /\ shownStake.position.principal > 0 /\ shownStake.pending > 0
     /\ Click("dashboard", <<Call("claimYield", 0)>>)

StakeClick ==
  /\ HandleStake \/ HandleUnstake \/ HandleClaimYield
  /\ UNCHANGED <<stakePageVars, stakeChainVars, lendingPageVars, vars>>

\* signed: the form is emptied, the position and the balance are read again
StakeConcludes(call) ==
  /\ stakeForm' = IF call = "stake"
                  THEN [stakeForm EXCEPT !.amount = 0, !.reviewing = FALSE] ELSE stakeForm
  /\ shownStake' = StakeView

\* declined: handleStake's catch leaves the review
StakeDeclined(call) ==
  stakeForm' = IF call = "stake" THEN [stakeForm EXCEPT !.reviewing = FALSE] ELSE stakeForm

(***************************************************************************)
(* The vault's side of a mined transaction, and the harvest.               *)
(***************************************************************************)

StakeExecutes(tx) ==
  \/ /\ tx.call = "stake" /\ tx.amount <= purse
     /\ Vault!VaultStake(Me, tx.tier, tx.amount)
     /\ purse' = purse - tx.amount /\ stakes' = stakes + 1
     /\ UNCHANGED <<kycVerified, globalBaseApyBps>>
  \/ /\ tx.call = "unstake"
     /\ Vault!VaultUnstake(Me, tx.amount)
     /\ \E cost \in ExitCosts :
          LET received == tx.amount - cost
          IN  cost < tx.amount
                /\ purse' = purse + received - (received * Vault!PenaltyRate(Me)) \div BPS
     /\ UNCHANGED <<stakes, kycVerified, globalBaseApyBps>>
  \/ /\ tx.call = "claimYield"
     /\ Vault!VaultClaim(Me)
     /\ purse' = purse + Vault!Paid(Vault!PendingYieldOf(Me))
     /\ UNCHANGED <<stakes, kycVerified, globalBaseApyBps>>

\* receiveYield, the annualised rate included
Harvest(amount) ==
  /\ Vault!ReceiveYield(amount)
  /\ globalBaseApyBps' =
       IF totalStaked > 0 THEN (amount * 365 * BPS) \div totalStaked ELSE globalBaseApyBps
  /\ UNCHANGED <<kycVerified, purse, stakes>>

\* optInToReputation, which no page offers: the visitor calls it by other means
OptsIn ==
  /\ Vault!VaultOptIn(Me)
  /\ UNCHANGED <<kycVerified, globalBaseApyBps, purse, stakes>>

VaultInit ==
  /\ positions = [u \in {Me} |-> Vault!NoStake]
  /\ effectiveShares = [u \in {Me} |-> 0] /\ rewardDebt = [u \in {Me} |-> 0]
  /\ accYieldPerShare = 0 /\ totalEffectiveShares = 0 /\ undistributed = 0
  /\ totalStaked = 0 /\ totalYieldPool = 0 /\ vaultWqie = 0

StakePageInit ==
  /\ VaultInit
  /\ caps = [standard |-> 50000, whale |-> 75000, threshold |-> 5000000]
  /\ globalBaseApyBps = 0 /\ stakes = 0
  /\ shownStake = StakeView
  /\ stakeForm = NoForm
=============================================================================

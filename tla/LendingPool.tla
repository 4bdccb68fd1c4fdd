---------------------------- MODULE LendingPool ----------------------------
(***************************************************************************)
(* LendingPool.sol: the two-sided QUSDC market.  Suppliers earn borrower   *)
(* interest through an accumulator; borrowers post WETH and draw QUSDC.    *)
(* Every external function is one action, because a transaction is atomic; *)
(* a call that reverts leaves no trace, so it is a disabled action.  The   *)
(* uint256 subtractions revert below zero: where the code subtracts, the   *)
(* action has the guard.  Amounts are whole token units.                   *)
(***************************************************************************)
EXTENDS RateModel, FiniteSetsExt

CONSTANTS
  Suppliers,       \* accounts that call the supply side
  Borrowers,       \* accounts that call the borrow side (may be the same)
  Amounts,         \* QUSDC amounts a call may pass
  Collaterals,     \* WETH amounts a call may pass
  Prices,          \* prices the oracle may be given
  Scores,          \* credit scores the registry may hold
  TimeSteps,       \* seconds between two blocks
  SECONDS_PER_YEAR, MAX_PRICE_AGE,
  ACC_PRECISION,   \* scale of the interest accumulator (1e12)
  PRICE_UNIT,      \* the price at which 1 WETH unit is worth 1 QUSDC unit (1e20)
  MaxTime, MaxSupplied, MaxCollateral   \* bounds of the model, not of the code

ASSUME PoolAssumption ==
  /\ Amounts \subseteq Nat /\ Collaterals \subseteq Nat
  /\ Prices \subseteq Nat \ {0} /\ Scores \subseteq 0..1000 /\ 0 \in Scores
  /\ TimeSteps \subseteq Nat \ {0}
  /\ SECONDS_PER_YEAR \in Nat \ {0} /\ ACC_PRECISION \in Nat \ {0}
  /\ PRICE_UNIT \in Nat \ {0}
  /\ MAX_PRICE_AGE \in Nat
  /\ MaxTime \in Nat /\ MaxSupplied \in Nat /\ MaxCollateral \in Nat

\* an address has 20 bytes, so there are finitely many accounts
ASSUME FiniteAccounts == IsFiniteSet(Suppliers) /\ IsFiniteSet(Borrowers)

PROTOCOL_FEE_BPS == 2000
LIQ_BONUS_BPS == 500
LIQ_BUFFER_BPS == 800
MAX_UTIL_BPS == 9000
GRACE_SCORE_THRESHOLD == 800

VARIABLES
  totalSupplied, accInterestPerShare, protocolFeeAccrued,
  suppliers,       \* account -> SupplyPosition
  totalBorrowed,
  borrowers,       \* account -> BorrowerPosition
  graceExpiry,     \* account -> end of its grace window, 0 when never armed
  paused,
  qusdc, weth,     \* the pool's own token balances
  scores,          \* ReputationRegistry.getCreditScore
  ethUsdPrice, updatedAt,   \* PriceOracle
  now, height      \* block.timestamp, block.number

supplyVars == <<totalSupplied, accInterestPerShare, protocolFeeAccrued, suppliers>>
borrowVars == <<totalBorrowed, borrowers, graceExpiry>>
oracleVars == <<ethUsdPrice, updatedAt>>
chainVars == <<now, height>>
outside == <<paused, scores, oracleVars, chainVars>>
vars == <<supplyVars, borrowVars, qusdc, weth, outside>>

Oracle == INSTANCE PriceOracle

SupplyPosition == [amount : Nat, rewardDebt : Nat, pendingYield : Nat]
BorrowerPosition == [collateral : Nat, principal : Nat, interestOwed : Nat,
                     lastAccrual : Nat, borrowBlock : Nat]

NoSupply == [amount |-> 0, rewardDebt |-> 0, pendingYield |-> 0]
NoPosition == [collateral |-> 0, principal |-> 0, interestOwed |-> 0,
               lastAccrual |-> 0, borrowBlock |-> 0]

(***************************************************************************)
(* Supply side: the accumulator and what it entitles a position to.        *)
(***************************************************************************)

Entitlement(amount, acc) == (amount * acc) \div ACC_PRECISION

\* the subtraction in _settleSupplierYield does not revert
Settleable(pos) ==
  pos.amount = 0 \/ pos.rewardDebt <= Entitlement(pos.amount, accInterestPerShare)

Unsettled(pos) ==
  IF pos.amount = 0 THEN 0
  ELSE Entitlement(pos.amount, accInterestPerShare) - pos.rewardDebt

\* getSupplierPosition's pendingYield
Claimable(pos) == pos.pendingYield + Unsettled(pos)

\* mutant: the baseline is taken before the amount changes
ResizedOnOldBaseline(pos, amount) ==
  [amount |-> amount,
   rewardDebt |-> Entitlement(pos.amount, accInterestPerShare),
   pendingYield |-> Claimable(pos)]

\* mutant: the amount changes without banking the yield first
ResizedUnsettled(pos, amount) ==
  [amount |-> amount,
   rewardDebt |-> Entitlement(amount, accInterestPerShare),
   pendingYield |-> pos.pendingYield]

\* _settleSupplierYield, then the new amount and its baseline
Resized(pos, amount) ==
  [amount |-> amount,
   rewardDebt |-> Entitlement(amount, accInterestPerShare),
   pendingYield |-> Claimable(pos)]

\* supply
Supply(u, amount) ==
  LET pos == suppliers[u] IN
  /\ ~paused
  /\ amount # 0
  /\ Settleable(pos)
  /\ totalSupplied + amount <= MaxSupplied
  /\ suppliers' = [suppliers EXCEPT ![u] = Resized(pos, pos.amount + amount)]
  /\ totalSupplied' = totalSupplied + amount
  /\ qusdc' = qusdc + amount
  /\ UNCHANGED <<accInterestPerShare, protocolFeeAccrued, borrowVars, weth, outside>>

\* mutant: the cap is applied to the supply before the redeem
LeavesEnoughBefore(remaining) ==
  UtilBps(totalBorrowed, totalSupplied) <= MAX_UTIL_BPS

\* the utilisation cap redeem applies to the supply that would remain
LeavesEnough(remaining) ==
  IF remaining > 0 THEN UtilBps(totalBorrowed, remaining) <= MAX_UTIL_BPS
                   ELSE totalBorrowed = 0

\* redeem
Redeem(u, amount) ==
  LET pos == suppliers[u] IN
  /\ ~paused
  /\ amount # 0 /\ amount <= pos.amount /\ amount <= totalSupplied
  /\ Settleable(pos)
  /\ LeavesEnough(totalSupplied - amount)
  /\ protocolFeeAccrued + amount <= qusdc
  /\ suppliers' = [suppliers EXCEPT ![u] = Resized(pos, pos.amount - amount)]
  /\ totalSupplied' = totalSupplied - amount
  /\ qusdc' = qusdc - amount
  /\ UNCHANGED <<accInterestPerShare, protocolFeeAccrued, borrowVars, weth, outside>>

\* claimSupplierYield: open while paused, and pays from the whole balance
ClaimSupplierYield(u) ==
  LET pos == suppliers[u] IN
  /\ Settleable(pos)
  /\ Claimable(pos) # 0 /\ Claimable(pos) <= qusdc
  /\ suppliers' = [suppliers EXCEPT ![u] =
                     [Resized(pos, pos.amount) EXCEPT !.pendingYield = 0]]
  /\ qusdc' = qusdc - Claimable(pos)
  /\ UNCHANGED <<totalSupplied, accInterestPerShare, protocolFeeAccrued,
                 borrowVars, weth, outside>>

(***************************************************************************)
(* Borrow side: interest, loan-to-value, and the split of paid interest.   *)
(***************************************************************************)

CurrentRateBps(u) ==
  PersonalRateBps(UtilBps(totalBorrowed, totalSupplied), scores[u])

InterestOver(pos, rateBps, elapsed) ==
  (pos.principal * rateBps * elapsed) \div (SECONDS_PER_YEAR * BPS)

\* mutant: the elapsed time is taken the wrong way round
AccruedBackwards(u) ==
  LET pos == borrowers[u] IN
  IF pos.principal = 0 \/ pos.lastAccrual = 0 THEN pos
  ELSE [pos EXCEPT
         !.interestOwed = @ + InterestOver(pos, CurrentRateBps(u), pos.lastAccrual - now),
         !.lastAccrual = now]

\* mutant: new interest replaces what was owed instead of adding to it
AccruedAfresh(u) ==
  LET pos == borrowers[u] IN
  IF pos.principal = 0 \/ pos.lastAccrual = 0 THEN pos
  ELSE [pos EXCEPT
         !.interestOwed = InterestOver(pos, CurrentRateBps(u), now - pos.lastAccrual),
         !.lastAccrual = now]

\* _accrueUserInterest on a copy of the position: the whole time since the
\* last accrual is charged at the rate of this moment's utilisation and score
Accrued(u) ==
  LET pos == borrowers[u] IN
  IF pos.principal = 0 \/ pos.lastAccrual = 0 THEN pos
  ELSE [pos EXCEPT
         !.interestOwed = @ + InterestOver(pos, CurrentRateBps(u), now - pos.lastAccrual),
         !.lastAccrual = now]

WethToQusdc(amount) == (amount * ethUsdPrice) \div PRICE_UNIT
QusdcToWeth(amount) == (amount * PRICE_UNIT) \div ethUsdPrice

Owed(pos) == pos.principal + pos.interestOwed

\* _currentLtvBps(pos) > limit: no collateral reads as LTV 0, collateral that
\* rounds to nothing as an infinite LTV
LtvExceeds(pos, limit) ==
  LET value == WethToQusdc(pos.collateral) IN
  /\ pos.collateral # 0
  /\ value # 0 => (Owed(pos) * BPS) \div value > limit

\* _requireFreshPrice
FreshPrice == now - updatedAt <= MAX_PRICE_AGE

ProtocolCut(interest) == (interest * PROTOCOL_FEE_BPS) \div BPS

\* mutant: suppliers are credited the treasury's 20 % as well
DistributeInterestTwice(interest) ==
  /\ protocolFeeAccrued' = protocolFeeAccrued + ProtocolCut(interest)
  /\ accInterestPerShare' =
       IF totalSupplied > 0
       THEN accInterestPerShare + (interest * ACC_PRECISION) \div totalSupplied
       ELSE accInterestPerShare
  /\ UNCHANGED <<totalSupplied, suppliers>>

\* 20 % of paid interest to the treasury, the rest to the accumulator
DistributeInterest(interest) ==
  LET share == interest - ProtocolCut(interest) IN
  /\ protocolFeeAccrued' = protocolFeeAccrued + ProtocolCut(interest)
  /\ accInterestPerShare' =
       IF totalSupplied > 0
       THEN accInterestPerShare + (share * ACC_PRECISION) \div totalSupplied
       ELSE accInterestPerShare
  /\ UNCHANGED <<totalSupplied, suppliers>>

\* mutant: the new collateral replaces what addCollateral had posted
DrawnOnNewCollateral(pos, collateral, amount) ==
  [collateral |-> collateral,
   principal |-> pos.principal + amount,
   interestOwed |-> pos.interestOwed,
   lastAccrual |-> IF pos.lastAccrual = 0 THEN now ELSE pos.lastAccrual,
   borrowBlock |-> height]

\* what borrow makes of a position, before its checks
Drawn(pos, collateral, amount) ==
  [collateral |-> pos.collateral + collateral,
   principal |-> pos.principal + amount,
   interestOwed |-> pos.interestOwed,
   lastAccrual |-> IF pos.lastAccrual = 0 THEN now ELSE pos.lastAccrual,
   borrowBlock |-> height]

\* borrow
Borrow(u, collateral, amount) ==
  LET pos == Drawn(Accrued(u), collateral, amount) IN
  /\ ~paused
  /\ collateral # 0 /\ amount # 0
  /\ ~(borrowers[u].borrowBlock = height /\ borrowers[u].principal > 0)
  /\ FreshPrice
  /\ ~LtvExceeds(pos, MaxLtvBps(scores[u]))
  /\ UtilBps(totalBorrowed + amount, totalSupplied) <= MAX_UTIL_BPS
  /\ protocolFeeAccrued + amount <= qusdc
  /\ weth + collateral <= MaxCollateral
  /\ borrowers' = [borrowers EXCEPT ![u] = pos]
  /\ totalBorrowed' = totalBorrowed + amount
  /\ qusdc' = qusdc - amount
  /\ weth' = weth + collateral
  /\ UNCHANGED <<supplyVars, graceExpiry, outside>>

\* mutant: principal is cleared first
PrincipalFirst(pos, paid) ==
  IF paid <= pos.principal THEN 0 ELSE paid - pos.principal

\* interest comes off first, principal only once interest is cleared
InterestPart(pos, paid) == Min({paid, pos.interestOwed})

Repaid(pos, paid) ==
  [pos EXCEPT !.interestOwed = @ - InterestPart(pos, paid),
              !.principal = @ - (paid - InterestPart(pos, paid))]

\* repay: the amount is cut to what is owed
Repay(u, amount) ==
  LET pos == Accrued(u)
      paid == Min({amount, Owed(pos)})
      interestPaid == InterestPart(pos, paid)
      principalPaid == paid - interestPaid
      left == Repaid(pos, paid)
  IN
  /\ borrowers[u].principal # 0
  /\ principalPaid <= totalBorrowed
  /\ borrowers' = [borrowers EXCEPT ![u] = left]
  /\ totalBorrowed' = totalBorrowed - principalPaid
  /\ DistributeInterest(interestPaid)
  /\ graceExpiry' = [graceExpiry EXCEPT ![u] = IF Owed(left) = 0 THEN 0 ELSE @]
  /\ qusdc' = qusdc + paid
  /\ UNCHANGED <<weth, outside>>

\* addCollateral
AddCollateral(u, amount) ==
  /\ ~paused
  /\ amount # 0
  /\ weth + amount <= MaxCollateral
  /\ borrowers' = [borrowers EXCEPT ![u].collateral = @ + amount]
  /\ weth' = weth + amount
  /\ UNCHANGED <<supplyVars, totalBorrowed, graceExpiry, qusdc, outside>>

\* mutant: the loan-to-value is checked before the reduction
BackedBefore(u, pos) ==
  pos.principal > 0 => ~LtvExceeds(Accrued(u), MaxLtvBps(scores[u]))

\* the loan-to-value check on the reduced position
StillBacked(u, pos) ==
  pos.principal > 0 => ~LtvExceeds(pos, MaxLtvBps(scores[u]))

\* withdrawCollateral: open while paused and on a stale price
WithdrawCollateral(u, amount) ==
  LET pos == [Accrued(u) EXCEPT !.collateral = @ - amount] IN
  /\ amount # 0 /\ amount <= borrowers[u].collateral /\ amount <= weth
  /\ StillBacked(u, pos)
  /\ borrowers' = [borrowers EXCEPT ![u] = pos]
  /\ weth' = weth - amount
  /\ UNCHANGED <<supplyVars, totalBorrowed, graceExpiry, qusdc, outside>>

(***************************************************************************)
(* Liquidation.                                                            *)
(***************************************************************************)

Underwater(u) ==
  LtvExceeds(Accrued(u), MaxLtvBps(scores[u]) + LIQ_BUFFER_BPS)

\* The grace branch of liquidate.  A first call on a high-score borrower
\* assigns graceExpiry and then reverts, which undoes the assignment, so it is
\* no step at all; later calls are let through once an armed window is over.
GraceOver(u) ==
  scores[u] >= GRACE_SCORE_THRESHOLD =>
    graceExpiry[u] # 0 /\ now >= graceExpiry[u]

\* the collateral a liquidator takes: the debt in WETH plus the bonus, at most
\* what was posted
Seized(pos) ==
  LET debtInWeth == QusdcToWeth(Owed(pos))
  IN  Min({debtInWeth + (debtInWeth * LIQ_BONUS_BPS) \div BPS, pos.collateral})

\* liquidate: the caller pays all that is owed and takes the seized part of the
\* collateral, the borrower gets the rest back
Liquidate(u) ==
  LET pos == Accrued(u) IN
  /\ FreshPrice
  /\ pos.principal # 0
  /\ Underwater(u)
  /\ GraceOver(u)
  /\ pos.principal <= totalBorrowed /\ pos.collateral <= weth
  /\ borrowers' = [borrowers EXCEPT ![u] = NoPosition]
  /\ graceExpiry' = [graceExpiry EXCEPT ![u] = 0]
  /\ totalBorrowed' = totalBorrowed - pos.principal
  /\ DistributeInterest(pos.interestOwed)
  /\ qusdc' = qusdc + Owed(pos)
  /\ weth' = weth - Seized(pos) - (pos.collateral - Seized(pos))
  /\ UNCHANGED outside

(***************************************************************************)
(* Admin, and the contracts and the chain around the pool.                 *)
(***************************************************************************)

\* withdrawProtocolFee; with nothing accrued it returns without a change
WithdrawProtocolFee ==
  /\ protocolFeeAccrued # 0 /\ protocolFeeAccrued <= qusdc
  /\ qusdc' = qusdc - protocolFeeAccrued
  /\ protocolFeeAccrued' = 0
  /\ UNCHANGED <<totalSupplied, accInterestPerShare, suppliers, borrowVars,
                 weth, outside>>

Pause ==
  /\ ~paused /\ paused' = TRUE
  /\ UNCHANGED <<supplyVars, borrowVars, qusdc, weth, scores, oracleVars, chainVars>>

Unpause ==
  /\ paused /\ paused' = FALSE
  /\ UNCHANGED <<supplyVars, borrowVars, qusdc, weth, scores, oracleVars, chainVars>>

\* ReputationRegistry.updateCreditScore, in a transaction of its own
SetScore(u, score) ==
  /\ scores' = [scores EXCEPT ![u] = score]
  /\ UNCHANGED <<supplyVars, borrowVars, qusdc, weth, paused, oracleVars, chainVars>>

KeeperSetsPrice(price) ==
  /\ Oracle!SetPrice(price, now)
  /\ UNCHANGED <<supplyVars, borrowVars, qusdc, weth, paused, scores, chainVars>>

AdminForcesPrice(price) ==
  /\ Oracle!ForceSetPrice(price, now)
  /\ UNCHANGED <<supplyVars, borrowVars, qusdc, weth, paused, scores, chainVars>>

\* the next block is mined; any number of calls may share a block
NextBlock(seconds) ==
  /\ now + seconds <= MaxTime
  /\ now' = now + seconds
  /\ height' = height + 1
  /\ UNCHANGED <<supplyVars, borrowVars, qusdc, weth, paused, scores, oracleVars>>

Init ==
  /\ totalSupplied = 0 /\ accInterestPerShare = 0 /\ protocolFeeAccrued = 0
  /\ suppliers = [u \in Suppliers |-> NoSupply]
  /\ totalBorrowed = 0
  /\ borrowers = [u \in Borrowers |-> NoPosition]
  /\ graceExpiry = [u \in Borrowers |-> 0]
  /\ paused = FALSE
  /\ qusdc = 0 /\ weth = 0
  /\ scores = [u \in Borrowers |-> 0]
  /\ now = 1 /\ height = 1
  /\ \E price \in Prices : Oracle!Deploy(price, now)

SupplierNext ==
  \E u \in Suppliers :
    \/ \E amount \in Amounts : Supply(u, amount) \/ Redeem(u, amount)
    \/ ClaimSupplierYield(u)

BorrowerNext ==
  \E u \in Borrowers :
    \/ \E collateral \in Collaterals, amount \in Amounts : Borrow(u, collateral, amount)
    \/ \E amount \in Amounts : Repay(u, amount)
    \/ \E amount \in Collaterals : AddCollateral(u, amount) \/ WithdrawCollateral(u, amount)
    \/ Liquidate(u)

AdminNext == WithdrawProtocolFee \/ Pause \/ Unpause

WorldNext ==
  \/ \E u \in Borrowers, score \in Scores : SetScore(u, score)
  \/ \E price \in Prices : KeeperSetsPrice(price) \/ AdminForcesPrice(price)
  \/ \E seconds \in TimeSteps : NextBlock(seconds)

Next == SupplierNext \/ BorrowerNext \/ AdminNext \/ WorldNext

Spec == Init /\ [][Next]_vars

(***************************************************************************)
(* Properties.                                                             *)
(***************************************************************************)

\* Type correctness: the unsigned fields never go below zero, positions keep
\* their shape, the price is never 0.
TypeOK ==
  /\ totalSupplied \in Nat /\ accInterestPerShare \in Nat
  /\ protocolFeeAccrued \in Nat /\ totalBorrowed \in Nat
  /\ qusdc \in Nat /\ weth \in Nat
  /\ suppliers \in [Suppliers -> SupplyPosition]
  /\ borrowers \in [Borrowers -> BorrowerPosition]
  /\ graceExpiry \in [Borrowers -> Nat]
  /\ paused \in BOOLEAN
  /\ scores \in [Borrowers -> Scores]
  /\ ethUsdPrice \in Nat \ {0} /\ updatedAt \in Nat /\ updatedAt <= now
  /\ now \in Nat \ {0} /\ height \in Nat
  /\ \A u \in Borrowers : borrowers[u].lastAccrual <= now

SupplyAddsUp == totalSupplied = SumFunction([u \in Suppliers |-> suppliers[u].amount])
LoansAddUp == totalBorrowed = SumFunction([u \in Borrowers |-> borrowers[u].principal])
CollateralAddsUp == weth = SumFunction([u \in Borrowers |-> borrowers[u].collateral])

\* The pool's aggregates are the sums of its positions: what supply, redeem,
\* borrow, repay, liquidate and the collateral calls each update by hand in
\* two places never drifts apart, and every WETH the pool holds is somebody's
\* collateral.
TotalsMatchPositions == SupplyAddsUp /\ LoansAddUp /\ CollateralAddsUp

\* No supplier is locked out by the accumulator: the unsigned subtraction of
\* _settleSupplierYield, on which supply, redeem and claimSupplierYield all
\* start, never reverts.
SettlingNeverReverts == \A u \in Suppliers : Settleable(suppliers[u])

\* A position without principal owes no interest, so repay, which refuses a
\* position without principal, never strands interest that can no longer be
\* paid, and a liquidation or a full repayment leaves nothing behind.
NoInterestWithoutPrincipal ==
  \A u \in Borrowers : borrowers[u].principal = 0 => borrowers[u].interestOwed = 0

\* "You only ever earn yield distributed after you joined": as long as the
\* accumulator stands still, no call changes what any supplier can claim,
\* except that a claim takes it to zero.  In particular supplying a large
\* amount just before, or redeeming just after, moves nobody's yield.
YieldMovesOnlyWithInterest ==
  [][accInterestPerShare' = accInterestPerShare =>
       \A u \in Suppliers :
         \/ Claimable(suppliers[u])' = Claimable(suppliers[u])
         \/ /\ Claimable(suppliers[u])' = 0
            /\ qusdc' = qusdc - Claimable(suppliers[u])]_vars

\* Debt is never forgiven: whenever a borrower comes to owe less, the pool's
\* QUSDC grew in the same step by at least the difference.
DebtFallsOnlyByPayment ==
  [][\A u \in Borrowers :
       Owed(borrowers[u])' < Owed(borrowers[u]) =>
         qusdc' - qusdc >= Owed(borrowers[u]) - Owed(borrowers[u])']_vars

\* what liquidate looks at first: a debt, and a loan-to-value past the buffer
Sunk(u) == borrowers[u].principal # 0 /\ Underwater(u)

\* Calls alone never put a position that has collateral and whose interest is
\* settled into liquidation range: only a new price, a new score or time can.
\* Borrowing to the limit and withdrawing collateral both stay short of the
\* liquidation threshold, and no call on other positions reaches over.  (Debt
\* without collateral reads as LTV 0 and is left out: adding a little
\* collateral to it does sink it.)
OnlyTheWorldSinksPositions ==
  [][\A u \in Borrowers :
       /\ Sunk(u)' /\ ~Sunk(u)
       /\ borrowers[u].lastAccrual = now /\ borrowers[u].collateral # 0
       /\ scores[u]' = scores[u] /\ ethUsdPrice' = ethUsdPrice
       => now' > now]_vars

\* The pool implements the ledger of PoolLedger: yield held for suppliers is
\* the balance that principal, loans and treasury fees do not explain.
Ledger == INSTANCE PoolLedger WITH
  cash <- qusdc, lent <- totalBorrowed, supplied <- totalSupplied,
  fees <- protocolFeeAccrued,
  yield <- qusdc + totalBorrowed - totalSupplied - protocolFeeAccrued

ImplementsLedger == Ledger!Spec

(***************************************************************************)
(* What comments of the contract say, and the code does not do: each       *)
(* checked in a run that expects the counterexample.                       *)
(***************************************************************************)

\* withdrawCollateral's comment: collateral that is backing debt cannot be
\* pulled.  So debt always has some collateral behind it.
DebtKeepsCollateral ==
  \A u \in Borrowers : borrowers[u].principal > 0 => borrowers[u].collateral > 0

=============================================================================

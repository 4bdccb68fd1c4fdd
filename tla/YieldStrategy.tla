---------------------------- MODULE YieldStrategy ----------------------------
(***************************************************************************)
(* YieldStrategy.sol: where staked WQIE sits.  The reserve is the          *)
(* contract's balance, principal and yield alike; the rest is a position   *)
(* in the QIEDex pair (DexPair, external), which others trade in too.  A   *)
(* quote and the swap it bounds are in one transaction, so _minOut never   *)
(* bites; the slippage limits of addLiquidity do.                          *)
(***************************************************************************)
EXTENDS DexPair

CONSTANT
  DUST               \* what withdrawFunds over-removes beside its 2 % (1e12)

ASSUME StrategyAssumption == DUST \in Nat

VARIABLES
  reserve,           \* stakingToken.balanceOf(strategy)
  pairToken,         \* pairToken.balanceOf(strategy)
  lpBalance,         \* _lpPair().balanceOf(strategy)
  pair,              \* external: reserves and supply of the pair
  tokenInLp,         \* _tokenInLp, the cost basis
  deployRatioBps, slippageBps,
  treasury, insurance   \* WQIE balances fed by the strategy

lpVars == <<pairToken, lpBalance, pair, tokenInLp>>
ratioVars == <<deployRatioBps, slippageBps>>
strategyVars == <<reserve, lpVars, ratioVars>>
fundVars == <<treasury, insurance>>

MAX_DEPLOY_RATIO_BPS == 5000
MAX_SLIPPAGE_BPS == 1000
PROTOCOL_FEE_BPS == 1000
INSURANCE_FEE_BPS == 500

Share(amount, bps) == (amount * bps) \div 10000

\* what slippage allows to be left of an amount
MinOut(amount) == Share(amount, 10000 - slippageBps)

\* _estimateLPValue: the WQIE side of the position, doubled
LPValue == (2 * pair.wqie * lpBalance) \div pair.supply

ManagedAssets == reserve + LPValue

(***************************************************************************)
(* Adding liquidity: half is swapped in the pair it is then added to.      *)
(***************************************************************************)

\* what the swap of the first half returns, and the pair it leaves
PairReceived(toLiquidity) == AmountOut(toLiquidity \div 2, pair.wqie, pair.qusdc)
TokenForLp(toLiquidity) == toLiquidity - toLiquidity \div 2

PairAfterSwap(toLiquidity) ==
  [pair EXCEPT !.wqie = @ + toLiquidity \div 2, !.qusdc = @ - PairReceived(toLiquidity)]

\* what the router takes of the two: all of one, and the match of it
Taken(toLiquidity) ==
  LET p == PairAfterSwap(toLiquidity)
      kept == TokenForLp(toLiquidity)
      received == PairReceived(toLiquidity)
      optimal == Quote(kept, p.wqie, p.qusdc)
  IN  IF optimal <= received THEN [wqie |-> kept, qusdc |-> optimal]
      ELSE [wqie |-> Quote(received, p.qusdc, p.wqie), qusdc |-> received]

\* the router's checks: at most what is offered, not less than slippage allows
Acceptable(taken, toLiquidity) ==
  /\ taken.wqie <= TokenForLp(toLiquidity) /\ taken.qusdc <= PairReceived(toLiquidity)
  /\ taken.wqie >= MinOut(TokenForLp(toLiquidity))
  /\ taken.qusdc >= MinOut(PairReceived(toLiquidity))
  /\ Minted(PairAfterSwap(toLiquidity), taken.wqie, taken.qusdc) > 0

\* what _addLiquidity adds to the cost basis: the WQIE half in full, used or
\* not, and only that half
BasisOf(toLiquidity) == TokenForLp(toLiquidity)

\* _addLiquidity of a positive amount, the rest of the deposit to the reserve;
\* what the router does not take of either token stays in the contract
AddLiquidity(amount, toLiquidity) ==
  LET p == PairAfterSwap(toLiquidity)
      taken == Taken(toLiquidity)
      minted == Minted(p, taken.wqie, taken.qusdc)
  IN
  /\ Swappable(PairReceived(toLiquidity), pair.qusdc)
  /\ Acceptable(taken, toLiquidity)
  /\ reserve' = reserve + (amount - toLiquidity) + (TokenForLp(toLiquidity) - taken.wqie)
  /\ pairToken' = pairToken + (PairReceived(toLiquidity) - taken.qusdc)
  /\ lpBalance' = lpBalance + minted
  /\ pair' = [wqie |-> p.wqie + taken.wqie, qusdc |-> p.qusdc + taken.qusdc,
              supply |-> p.supply + minted]
  /\ tokenInLp' = tokenInLp + BasisOf(toLiquidity)

\* deployFunds
DeployFunds(amount) ==
  LET toLiquidity == Share(amount, deployRatioBps) IN
  /\ amount # 0
  /\ \/ toLiquidity > 0 /\ AddLiquidity(amount, toLiquidity)
     \/ toLiquidity = 0 /\ reserve' = reserve + amount /\ UNCHANGED lpVars
  /\ UNCHANGED ratioVars

(***************************************************************************)
(* Removing liquidity: the other side is swapped back in the pair it has   *)
(* just been taken from.                                                   *)
(***************************************************************************)

\* mutant: the amount is taken of the WQIE side alone
LpOfOneSide(needed) ==
  LET side == LPValue \div 2
      lp == IF side = 0 THEN lpBalance ELSE (lpBalance * needed) \div side
  IN  IF lp > lpBalance THEN lpBalance ELSE lp

\* _lpTokensForAmount, and no more than there is
LpToBurn(needed) ==
  LET lp == IF LPValue = 0 THEN lpBalance ELSE (lpBalance * needed) \div LPValue
  IN  IF lp > lpBalance THEN lpBalance ELSE lp

TokenOut(lp) == WqieOf(pair, lp)

PairAfterBurn(lp) ==
  [wqie |-> pair.wqie - WqieOf(pair, lp), qusdc |-> pair.qusdc - QusdcOf(pair, lp),
   supply |-> pair.supply - lp]

SwappedBack(lp) ==
  AmountOut(QusdcOf(pair, lp), PairAfterBurn(lp).qusdc, PairAfterBurn(lp).wqie)

\* what _removeLiquidity leaves in the contract; without LP it does nothing
Removed(lp) == IF lpBalance = 0 THEN 0 ELSE TokenOut(lp) + SwappedBack(lp)

\* it does not revert
Removable(lp) ==
  lpBalance > 0 => /\ Burnable(pair, lp)
                   /\ Swappable(SwappedBack(lp), PairAfterBurn(lp).wqie)

CostAfter(lp) == IF tokenInLp > TokenOut(lp) THEN tokenInLp - TokenOut(lp) ELSE 0

\* its effect on the pair and the position
BurnLp(lp) ==
  /\ Removable(lp)
  /\ \/ lpBalance = 0 /\ UNCHANGED <<lpBalance, pair>>
     \/ /\ lpBalance > 0
        /\ lpBalance' = lpBalance - lp
        /\ pair' = [wqie |-> PairAfterBurn(lp).wqie - SwappedBack(lp),
                    qusdc |-> pair.qusdc, supply |-> pair.supply - lp]
  /\ UNCHANGED pairToken

\* mutant: the swap fee is not allowed for
NeededExactly(shortfall) == shortfall + DUST

\* the shortfall, 2 % on top for the swap fee, and dust
Needed(shortfall) == shortfall + shortfall \div 50 + DUST

\* what an exit burns
ExitBurns(amount) == LpToBurn(Needed(amount - reserve))

\* what withdrawFunds sends: the amount, or all there is
Withdrawn(amount) ==
  IF amount <= reserve THEN amount
  ELSE LET available == reserve + Removed(ExitBurns(amount))
       IN  IF available < amount THEN available ELSE amount

\* withdrawFunds: from the reserve, then from the LP
WithdrawFunds(amount) ==
  /\ amount # 0
  /\ \/ amount <= reserve /\ reserve' = reserve - amount /\ UNCHANGED lpVars
     \/ /\ amount > reserve
        /\ BurnLp(ExitBurns(amount))
        /\ reserve' = reserve + Removed(ExitBurns(amount)) - Withdrawn(amount)
        /\ tokenInLp' = IF lpBalance = 0 THEN tokenInLp ELSE CostAfter(ExitBurns(amount))
  /\ UNCHANGED ratioVars

(***************************************************************************)
(* Yield.                                                                  *)
(***************************************************************************)

\* the LP's gain over its cost basis
Unrealised == LPValue - tokenInLp

\* what a harvest pulls out for it
Realised == Removed(LpToBurn(Unrealised))

ToProtocol(rawYield) == Share(rawYield, PROTOCOL_FEE_BPS)
ToInsurance(rawYield) == Share(rawYield, INSURANCE_FEE_BPS)
ToStakers(rawYield) == rawYield - ToProtocol(rawYield) - ToInsurance(rawYield)

\* _distributeYield's transfers to the treasury and the fund
PayFunds(rawYield) ==
  /\ treasury' = treasury + ToProtocol(rawYield)
  /\ insurance' = insurance + ToInsurance(rawYield)

\* harvestAndDistribute: the gain is pulled out and leaves, and the cost basis
\* becomes the value of what remains
HarvestLPFees ==
  /\ Unrealised > 0
  /\ BurnLp(LpToBurn(Unrealised))
  /\ tokenInLp' = LPValue'
  /\ PayFunds(Realised)
  /\ UNCHANGED <<reserve, ratioVars>>

\* injectYield
Inject(amount) ==
  /\ amount # 0 /\ amount <= reserve
  /\ reserve' = reserve - amount
  /\ PayFunds(amount)
  /\ UNCHANGED <<lpVars, ratioVars>>

\* emergencyExit recovers this and sends it to the vault
ExitAmount == reserve + Removed(lpBalance)

EmergencyExitStrategy ==
  /\ BurnLp(lpBalance)
  /\ reserve' = 0
  /\ tokenInLp' = IF lpBalance = 0 THEN tokenInLp ELSE CostAfter(lpBalance)
  /\ UNCHANGED ratioVars

\* setDeployRatio
SetRatio(bps) ==
  /\ bps <= MAX_DEPLOY_RATIO_BPS
  /\ deployRatioBps' = bps
  /\ UNCHANGED <<reserve, lpVars, slippageBps>>

\* setSlippage
SetSlip(bps) ==
  /\ bps <= MAX_SLIPPAGE_BPS
  /\ slippageBps' = bps
  /\ UNCHANGED <<reserve, lpVars, deployRatioBps>>

\* external: others trade, add and remove, and leave the strategy its LP
MarketMove(new) ==
  /\ new.supply > lpBalance
  /\ pair' = new
  /\ UNCHANGED <<reserve, pairToken, lpBalance, tokenInLp, ratioVars>>

StrategyInit ==
  /\ reserve = 0 /\ pairToken = 0 /\ lpBalance = 0 /\ tokenInLp = 0
  /\ deployRatioBps = 2000 /\ slippageBps = 100
  /\ treasury = 0 /\ insurance = 0
=============================================================================

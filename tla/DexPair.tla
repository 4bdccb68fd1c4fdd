------------------------------ MODULE DexPair ------------------------------
(***************************************************************************)
(* The QIEDex pair and its router, which the repository does not hold: the *)
(* constant-product pair whose interface (IUniswapV2Router02, Pair) the    *)
(* strategy calls.  A pair is a record of its two reserves, each in base   *)
(* units of its own token, and of its LP supply; an operator says what a   *)
(* call pays or leaves behind.  QUSDC has 6 decimals and WQIE 18, so one   *)
(* unit of QUSDC is worth many of WQIE, and both sides round down.         *)
(***************************************************************************)
EXTENDS Integers

CONSTANTS
  FEE_KEPT, FEE_BASE     \* what a swap keeps of its input: 997 of 1000

ASSUME PairAssumption ==
  FEE_KEPT \in Nat \ {0} /\ FEE_BASE \in Nat \ {0} /\ FEE_KEPT <= FEE_BASE

PairState == [wqie : Nat \ {0}, qusdc : Nat \ {0}, supply : Nat \ {0}]

\* getAmountOut: the fee, and the swap's own price impact
AmountOut(in, reserveIn, reserveOut) ==
  (in * FEE_KEPT * reserveOut) \div (reserveIn * FEE_BASE + in * FEE_KEPT)

\* swap: it pays neither nothing nor all of a side
Swappable(out, reserveOut) == out > 0 /\ out < reserveOut

\* quote: the other token's amount at the pair's present price
Quote(amount, reserveOf, reserveOther) == (amount * reserveOther) \div reserveOf

\* mint: LP for what is added, by the scarcer side
Minted(p, wqieIn, qusdcIn) ==
  LET byWqie == (wqieIn * p.supply) \div p.wqie
      byQusdc == (qusdcIn * p.supply) \div p.qusdc
  IN  IF byWqie < byQusdc THEN byWqie ELSE byQusdc

\* burn: both sides' share of the LP
WqieOf(p, lp) == (lp * p.wqie) \div p.supply
QusdcOf(p, lp) == (lp * p.qusdc) \div p.supply

\* burn refuses when either share rounds to nothing
Burnable(p, lp) == WqieOf(p, lp) > 0 /\ QusdcOf(p, lp) > 0
=============================================================================

----------------------------- MODULE RateModel -----------------------------
(***************************************************************************)
(* The pure arithmetic the lending pool is priced with: the jump-rate      *)
(* curve of InterestRateModel.sol and the reputation ladders of            *)
(* LendingPool.sol.  Rates, ratios and shares are basis points, and every  *)
(* division is Solidity's: it rounds down.                                 *)
(***************************************************************************)
EXTENDS Integers

BPS == 10000                      \* 100 %

BASE_RATE_BPS == 200
MULTIPLIER_BPS == 1500
JUMP_MULTIPLIER_BPS == 15000
KINK_BPS == 8000

\* utilBps = min(utilBps, 10_000), the clamp each view starts with
Clamped(utilBps) == IF utilBps > BPS THEN BPS ELSE utilBps

\* getBorrowRateBps: annual borrow rate at a utilisation
BorrowRateBps(utilBps) ==
  LET u == Clamped(utilBps)
  IN  IF u <= KINK_BPS
      THEN BASE_RATE_BPS + (u * MULTIPLIER_BPS) \div BPS
      ELSE (BASE_RATE_BPS + (KINK_BPS * MULTIPLIER_BPS) \div BPS)
             + ((u - KINK_BPS) * JUMP_MULTIPLIER_BPS) \div BPS

\* LendingPool's utilisation, 0 while nothing is supplied
UtilBps(borrowed, supplied) ==
  IF supplied > 0 THEN (borrowed * BPS) \div supplied ELSE 0

\* _discountBps: the cut a score takes off the borrow rate
DiscountBps(score) ==
  CASE score > 800 -> 1200
    [] score > 600 /\ score <= 800 -> 900
    [] score > 400 /\ score <= 600 -> 600
    [] score > 200 /\ score <= 400 -> 300
    [] OTHER -> 0

\* _maxLtvBps: the loan-to-value a score may borrow up to
MaxLtvBps(score) ==
  CASE score > 800 -> 7500
    [] score > 600 /\ score <= 800 -> 7200
    [] score > 400 /\ score <= 600 -> 6800
    [] score > 200 /\ score <= 400 -> 6400
    [] OTHER -> 6000

\* _personalBorrowRateBps: curve rate less the score's discount
PersonalRateBps(utilBps, score) ==
  (BorrowRateBps(utilBps) * (BPS - DiscountBps(score))) \div BPS
=============================================================================

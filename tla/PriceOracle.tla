---------------------------- MODULE PriceOracle ----------------------------
(***************************************************************************)
(* PriceOracle.sol: the ETH/USD price the lending pool values collateral   *)
(* with.  The keeper's path is bounded to 20 % per update, the admin's is  *)
(* not.  A step takes the timestamp of the block it is mined in.           *)
(***************************************************************************)
EXTENDS Integers

VARIABLES
  ethUsdPrice,    \* last price written
  updatedAt       \* timestamp of that write

MAX_DEVIATION_BPS == 2000

Distance(a, b) == IF a > b THEN a - b ELSE b - a

\* the deviation check of setPrice, rounded down as the contract rounds it
WithinDeviation(old, new) ==
  old > 0 => (Distance(old, new) * 10000) \div old <= MAX_DEVIATION_BPS

\* setPrice, UPDATER_ROLE
SetPrice(price, timestamp) ==
  /\ price # 0
  /\ WithinDeviation(ethUsdPrice, price)
  /\ ethUsdPrice' = price
  /\ updatedAt' = timestamp

\* forceSetPrice, DEFAULT_ADMIN_ROLE
ForceSetPrice(price, timestamp) ==
  /\ price # 0
  /\ ethUsdPrice' = price
  /\ updatedAt' = timestamp

\* the constructor: the price the deploy script passes
Deploy(price, timestamp) ==
  /\ ethUsdPrice = price
  /\ updatedAt = timestamp
=============================================================================

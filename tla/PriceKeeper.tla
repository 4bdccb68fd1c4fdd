----------------------------- MODULE PriceKeeper -----------------------------
(***************************************************************************)
(* price-keeper.ts beside the pool: a run asks two price feeds, compares   *)
(* the answer with the chain and, when the price has drifted or aged, has  *)
(* setPrice mined.  Each await is a step boundary: the market, the chain   *)
(* and the other processes move in between.  A run may die at any of them; *)
(* the cron starts the next one.                                           *)
(***************************************************************************)
EXTENDS LendingPool

CONSTANTS
  MAX_STALENESS_SEC,   \* age at which a price is pushed again
  FALLBACK_PRICE       \* what update-price.ts makes of a failed fetch ($3000)

ASSUME KeeperAssumption ==
  MAX_STALENESS_SEC \in Nat \ {0} /\ FALLBACK_PRICE \in Prices

VARIABLES
  quotes,      \* feed -> its ETH/USD price, Down while it does not answer
  sync         \* the keeper's run: its step and the market price it fetched

priceKeeperVars == <<quotes, sync>>

Feeds == {"coingecko", "binance"}
Down == 0
DEVIATION_BPS == 50

NoSync == [step |-> "idle", price |-> Down]
Syncs == [step : {"idle", "fetched", "sending"}, price : Prices \cup {Down}]

\* external: what the feeds answer from now on
MarketMoves(answers) ==
  /\ quotes' = answers
  /\ UNCHANGED <<vars, sync>>

\* fetchMarketPrice: CoinGecko, and Binance when it does not answer
MarketPrice ==
  IF quotes["coingecko"] # Down THEN quotes["coingecko"] ELSE quotes["binance"]

\* syncPrice fetches; with both feeds down the run ends without a change
FetchMarketPrice ==
  /\ sync.step = "idle"
  /\ MarketPrice # Down
  /\ sync' = [step |-> "fetched", price |-> MarketPrice]
  /\ UNCHANGED <<vars, quotes>>

\* mutant: no heartbeat, only drift
DriftOnly(price) == Oracle!Distance(price, ethUsdPrice) * BPS >= DEVIATION_BPS * ethUsdPrice

\* needsUpdate: half a percent of drift, or the heartbeat
NeedsUpdate(price) ==
  \/ Oracle!Distance(price, ethUsdPrice) * BPS >= DEVIATION_BPS * ethUsdPrice
  \/ now - updatedAt >= MAX_STALENESS_SEC

\* syncPrice reads price and age from the chain
ReadOracle ==
  /\ sync.step = "fetched"
  /\ sync' = IF NeedsUpdate(sync.price) THEN [sync EXCEPT !.step = "sending"] ELSE NoSync
  /\ UNCHANGED <<vars, quotes>>

\* setPrice is mined: a move of more than 20 % reverts, syncPrice throws, and
\* the next run starts over
SetPriceMined ==
  /\ sync.step = "sending"
  /\ \/ KeeperSetsPrice(sync.price)
     \/ ~Oracle!WithinDeviation(ethUsdPrice, sync.price) /\ UNCHANGED vars
  /\ sync' = NoSync
  /\ UNCHANGED quotes

\* an RPC call fails or the process ends, before its transaction is mined
SyncDies ==
  /\ sync.step # "idle"
  /\ sync' = NoSync
  /\ UNCHANGED <<vars, quotes>>

(***************************************************************************)
(* update-price.ts, the script run by hand: a price from the command line, *)
(* or CoinGecko's, or one made up when CoinGecko does not answer.  It does *)
(* not look at the receipt; a move of more than 20 % changes nothing.      *)
(***************************************************************************)

FetchEthPriceUsd ==
  IF quotes["coingecko"] # Down THEN quotes["coingecko"] ELSE FALLBACK_PRICE

UpdatePrice ==
  /\ \E price \in Prices \cup {FetchEthPriceUsd} : KeeperSetsPrice(price)
  /\ UNCHANGED priceKeeperVars

PriceKeeperInit ==
  /\ \E price \in Prices : quotes = [feed \in Feeds |-> price]
  /\ sync = NoSync

SyncStep == FetchMarketPrice \/ ReadOracle \/ SetPriceMined
=============================================================================

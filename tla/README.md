# YieldPass: a verification project

YieldPass is a DeFi application on the QIE chain: staking of WQIE with
reputation-boosted yield, and a QUSDC lending market whose limits depend on a
credit score that is earned by zero-knowledge proofs and identity checks. This
directory holds TLA+ modules translated from its source, the TLC configurations
that check them on small instances, and TLAPS proofs of what matters most for
every value of the constants.

Paths below are relative to the repository; `contracts/` stands for
`packages/contracts/contracts/`, `deploy/` and `scripts/` for the directories of
that name in `packages/contracts/`, `keeper/` for `packages/keeper/src/`, `web/` for
`packages/web/src/`.

## 1. Inventory

| Component | State | Operations | Hard behaviour |
|---|---|---|---|
| `LendingPool.sol` | supplier and borrower positions, `totalSupplied`, `totalBorrowed`, interest accumulator, protocol fees, grace timers, QUSDC and WETH balances | supply, redeem, claimSupplierYield, borrow, repay, addCollateral, withdrawCollateral, liquidate, withdrawProtocolFee, pause/unpause | aggregates kept by hand next to positions; an accumulator with rounding; lazy interest at the rate of the moment; checks that read prices and scores other parties change |
| `InterestRateModel.sol` | none | getBorrowRateBps | piecewise, integer rounding, division by a zero supply |
| `PriceOracle.sol` | price, time of update | setPrice (bounded to 20 %), forceSetPrice | staleness; a bounded update that can no longer catch up |
| `YieldVault.sol` | positions, effective shares, share accumulator, parked yield, totals, caps | stake, unstake, claimYield, optIn, refreshBoost, receiveYield, setBoostedCaps | shares depend on score and KYC of another contract, read lazily; locks overwritten by a second stake |
| `YieldStrategy.sol` | reserve (its WQIE balance), LP tokens, cost basis, deploy ratio | deployFunds, withdrawFunds, harvestAndDistribute, injectYield, setDeployRatio, emergencyExit | the reserve holds principal and yield in one balance; the LP's value moves with the market |
| `InsuranceFund.sol` | its token balance | deposit, disburse | none of its own |
| `ReputationRegistry.sol` | scores, KYC with expiry, nonces, committed proofs, categories and documents, child wallets | updateCreditScore, verifyKYC, revokeKYC, commitZKProof, linkChildWallet | signed messages submitted later, out of order, by anyone, or never |
| `NullifierRegistry.sol` | the master each child is locked to | registerNullifier | must agree with the other contract's list |
| Oracle backend (`web/server/services`) | runs of `processAndSignProof` | reads chain and events, computes a delta, signs | reads the score, adds, signs an absolute value, and somebody else submits it later; every read can fail into a default |
| Proof sessions (`web/server/proofStore.ts`), Reclaim, QIE Pass | sessions in memory, requests and consents elsewhere | create, callback, status, evict | two writers (webhook and poll), lazy expiry, lost on a restart |
| API routes (`web/app/api`) | none but a price cache | the steps of the rows above | the reply travels on its own |
| Reputation pages (`web/app/reputation`) | a session, a result, a step, the list of finished proofs in localStorage | verify, poll, submit, cancel, link | handlers that go on after the account, the session or the page has changed |
| Lending, stake, dashboard pages | what was read, forms, handlers | approve then call, claim | a transaction is judged by the chain when it is mined, not by what the page read |
| Calculator, FAQ, landing, layout | none | rendering | promises about rates and fees |
| Price keeper (`keeper/price-keeper.ts`, `update-price.ts`) | none between runs | fetch from two feeds, compare, push | a bounded push that reverts for ever; a run that dies |
| Liquidation bot (`keeper/liquidation-bot.ts`) | balance and allowance of one account | scan events, check, approve, liquidate | scan window, overlapping cycles, values read before they are used |
| Harvest keeper and scheduler (`keeper/keeper.ts`, `harvest-lending.ts`, `index.ts`) | none | wrap, transfer, inject; harvest; fee sweep | three transactions that can fail between |
| Operator scripts (`keeper/set-deploy-ratio.ts`, `fund-lending.ts`, `seed-vault.ts`) | none | one call each | none of their own |
| Deploy and hand-over scripts (`deploy/`, `scripts/transfer-admin.ts`) | the record of deployments | deploy, grant, renounce | a dozen transactions that may stop anywhere and run again |

How they interact. The pool calls the rate model, the oracle and the registry
inside its own transactions, so a pool call sees one consistent state of all
three; what interleaves is transactions. The vault calls the strategy to deploy
and withdraw principal, and the strategy calls back `receiveYield`. A reputation
page asks a route, the route reads the chain and signs, the reply comes back to
the page, the page asks the wallet, the wallet sends, and the chain mines: each
arrow is a step of its own, and accounts, pages, sessions and the server change
between them. The money pages read the chain through a query cache, fill a form
from it, and sign; keepers are timers (`setInterval`, cron) around
transactions.

What makes each correct, in a sentence:

- pool: the books agree with positions and money, nobody's yield or debt moves
  without a reason, and bad debt is liquidated;
- vault and strategy: shares follow principal and score, yield that came in is
  paid out once, and principal can always leave;
- registry and nullifiers: a document, a proof and a nonce count once, both
  contracts agree on the children, and a link takes two signatures;
- backend and sessions: what is under a session's id is for the wallet and the type that
  opened it and of a proof that was finished, and no approval precedes a consent;
- keepers: the price stays fresh and positions solvent while they run;
- pages: what they announce is what the contracts then do, or the difference is
  due to something that happened after the reading;
- scripts: every interruption can be repaired by running them again, and the
  protocol never loses its admin.

`PROJECT.json` lists every component with its status, and under "hazards" the
places of this code that a test would hardly reach, with the properties that
cover each one or the reason why none does.

## 2. Modules

| Module | Models |
|---|---|
| `RateModel` | `InterestRateModel.sol` and the score bands of `LendingPool.sol` (limits and rate discounts) |
| `PriceOracle` | the oracle's constructor and its two writes, as operators on its two variables; time is a parameter |
| `LendingPool` | every call of the pool, with an instance of the oracle, the score of the registry, time and blocks |
| `PoolGrace` | the pool with the calls of `liquidate` that revert in the grace branch, seen in a history variable |
| `PoolLedger` | what the pool promises about money, abstractly: five buckets and the movements allowed between them |
| `PoolYieldBacking` | the pool with a counter of its changes of size, to bound rounding |
| `YieldVault` | the vault's part of every call: positions, shares, the accumulator, the yield pool |
| `DexPair` | the QIEDex pair and its router, external: reserves in each token's own base units, fee, price impact, rounding |
| `YieldStrategy` | the strategy's part: the reserve, the LP position in that pair, leftovers, fees |
| `StakingSystem` | one action per call, both parts in one transaction; the fund, the harvest keeper, the registry and the market |
| `ScoreModel` | scoring formulas, bureau ranges, score bands, reading a score out of a proof's parameters |
| `ReputationRegistry` | `ReputationRegistry.sol` and `NullifierRegistry.sol`: when each transaction is accepted and what it writes |
| `ScoreOracle` | session store, webhook and status routes, `processAndSignProof` as a job with steps |
| `BrowserWallet` | the account the browser is switched to, prompts, transactions sent and mined in nonce order |
| `Web2Page`, `KycPage`, `WalletsPage` | the three reputation pages with the routes and services they call |
| `ReputationSystem` | all of those together, with time, revocations, restarts and front ends elsewhere |
| `PriceKeeper` | a run of the price keeper between its awaits, its two feeds, the one-shot script |
| `LiquidationBot` | overlapping cycles of the bot, its purse and its allowance |
| `Operations` | both beside one pool, with borrowers, other liquidators, the fee sweep, the market and the chain |
| `Launch` | launch, hardening and hand-over scripts as lists of transactions |
| `PageWallet` | what the money pages share: visits, handlers of several calls, the queue of signed calls |
| `LendingPage`, `StakePage` | the two pages with their formulas, forms, handlers and readings; the dashboard's claims; the calculator's rate |
| `Pages` | one visitor in front of pool and vault, with time, prices, scores and harvests between any two steps |
| `MCLendingPool`, `MCPoolYield`, `MCStaking`, `MCReputation`, `MCOperations`, `MCPages` | model values, definitions of constants and symmetry for TLC |
| `SumTheorems` | sums over a finite set: induction over its subsets, what a change of one summand does to the sum |
| `LendingPoolProofs`, `LendingPoolMoneyProofs` | theorems about the pool's positions, and about its money: totals, backing, refinement |
| `StakingProofs` | theorems about the staking side |
| `ReputationProofs` | theorems about the reputation side |
| `LaunchProofs` | theorems about the deploy and hand-over scripts |
| `PagesProofs` | theorems about the money pages |
| `OperationsProofs` | theorems about the keeper and the bot beside the pool |

### LendingPool and the code

The variables have the names of the contract's storage. `suppliers` and
`borrowers` hold the structs `SupplyPosition` and `BorrowerPosition`; `qusdc`
and `weth` are the balances of the pool in the two token contracts (their
transfers move all or nothing). A transaction is atomic, so an external function is one action
and a revert is a disabled action. An unsigned subtraction reverts below zero;
where the code subtracts, the action has the guard, and whether such a guard
can ever bite is a property (`SettlingNeverReverts`) and not an assumption.

Two consequences of "a revert is no step" matter. `liquidate` on a high-score
borrower first stores the end of a grace window and then reverts in the same
call: `LendingPool` has no step for it, exactly as the chain keeps no trace of it. `PoolGrace`
adds the step, which changes nothing but the history variable `warned`, to ask what becomes of the
promised window.
And `_accrueUserInterest` inside a call that reverts later has no effect.

Division rounds down everywhere, as in the EVM. Amounts are whole token units;
the code's decimals are constants (`ACC_PRECISION` for 1e12, `PRICE_UNIT` for
the power of ten between WETH, price and QUSDC decimals). Rates, fees, bonus,
cap, score bands are the code's numbers.

`height` and `now` are separate because `borrow` refuses a second loan in one
block, and interest accrues over time. Any number of calls may share a block.

The registry is one action, `SetScore`: any score of `Scores`, at any time.
Its own rules are in `ReputationRegistry`.

### The staking side and the code

A call to the vault runs through the strategy (`stake` through `deployFunds`,
`unstake` through `withdrawFunds`) and a harvest of the strategy runs through
the vault (`receiveYield`), each within one transaction. `YieldVault` and
`YieldStrategy` therefore define operators for their parts of a call, and the
actions of `StakingSystem` conjoin them. `SettleAndUpdate` is the pattern all
of `stake`, `unstake`, `optInToReputation` and `refreshBoost` have: settle at
the old shares, change the position, compute the new shares and baseline.

Native QIE and WQIE are one money here. Two writes nothing reads are
left out: `lastHarvestTime` and `globalBaseApyBps`. `setVault` is the
deployment's wiring.

The strategy's LP position is what it is on chain: LP tokens (`lpBalance`) of a
constant-product pair (`DexPair`) whose two reserves and supply are a record,
`pair`, and a cost basis (`tokenInLp`). Adding liquidity swaps half of the
amount in the very pair it is then added to, and the router takes what matches
at the price this swap left, within the slippage limits; what it does not take
stays in the strategy, of WQIE in the reserve, of QUSDC in `pairToken`.
Removing liquidity burns the share of both sides and swaps the whole QUSDC side back in
the pair it has just shrunk, so the strategy pays its own price impact on top of the fee. Each reserve
is counted in base units of its own token. QUSDC has 6 decimals and WQIE 18, so a
unit of QUSDC is worth many of WQIE; both sides of a burn round down, and the pair reverts when
one of them rounds to nothing or a swap pays nothing. What other traders and
providers do is `MarketMove`, which gives the pair any state of `Markets` that leaves
the strategy its LP. A quote and the swap it bounds are in one
transaction, so `_minOut` never bites.

The keeper's simulated harvest is a transfer to the strategy
(`KeeperTransfers`) and an injection (`KeeperInjects`) with everybody else's
transactions between them, or a failure (`KeeperFails`) that leaves the money
in the reserve for good. `sent` is what the running process knows.

`events` and `distributions` are history variables that bound the model
(`MaxEvents`, `MaxDistributions`). Events are what comes from outside: stakes,
transfers, trades, scores, admin calls. Exits, claims, refreshes, opt-ins and
harvests are not counted: they are as many as the state allows.

### PoolLedger

The abstract pool has cash, loans, principal of suppliers, treasury fees, and
yield held for suppliers, and says which movements between them exist: supply,
redeem under the cap, lend under the cap, repay with interest split 80/20,
claim, treasury withdrawal. `LendingPool` implements it with yield mapped to
*balance + loans - principal - fees*, the part of the money nothing else
explains. The pool keeps no such variable, which is why the refinement is worth
having: it says that the money the pool holds beyond its books is moved only by
interest and claims.

### The reputation side and the code

Messages first. An attestation is the record of its fields, and to sign it is to
put it into `attested`; a wallet's signature on a link is the record of signer
and fields in `linkSigned`. Recovering a signer is reading a field. A
transaction is a record of the function, the sender and what it carries;
`Accepted` is the conjunction of the contract's `require`s, `Effect` what it
writes. `Mine(w)` takes the oldest transaction of an account and either executes
it or drops it: a page cannot tell the two apart, because no page waits for a receipt.

`ScoreOracle` follows a finished Reclaim session. `processAndSignProof` awaits
the events, the replay check and the score one after the other, so a run of it is
a record in `jobs` that moves through `history`, `replay`, `score` and `sign`;
it is started by the webhook or by the page's poll of the status route, both at
once if they come together. Each read has a second outcome, the default the code
falls back to (no events, not used, score 0), and the run can end with an
exception. The store can lose an entry between any two steps (`Evict`, the lazy
TTL; `ServerRestart`, the memory of one process).

Which proof a job is about is up to the caller. The webhook
(`callback/route.ts:16-25`) names a session and brings any finished proof
(`Callback(s, proof)`): wallet and type are those of the store entry, the document is the proof's.
`proof/submit` takes wallet and type from its caller, needs no entry and answers its caller
only (`SubmitsProof`). Jobs therefore carry their own wallet, type and proof. That the webhook
brings another session's proof, and that somebody calls the submit route, are counted as mishaps (`OracleRequest`).
A session's id also stands for the proof that was made in it; a document is what the bureau
showed, the same for every wallet and paired with the type it is claimed as, as its hash is. Proofs
come only from sessions that were opened here.

A page's handler is split at its awaits, and what it closed over when it started
is kept with it: `web2.closure`, `kyc.closure`, `link.handler`. React state moves on
in between, and so does the account. Replies travel in `answers` and
`kycAnswers` and may arrive after the session was cancelled or another request
opened. Opening a page, or reloading it, drops its state and whatever it was
waiting for; `mempool`, `store`, `attested` and localStorage stay.

`now` counts KYC terms, so `NewDay` is the expiry of an approval. `MaxMishaps`
bounds what is outside a page's own course: time, revocations, account
switches, evictions, restarts, failed reads, refused prompts, links resent by
another front end. What is not counted happens as often as the state allows.

### The off-chain processes and the code

`PriceKeeper` is `syncPrice` between its awaits: fetch (CoinGecko, else
Binance), read price and age from the chain, send, be mined. A push of more than
20 % reverts and the run is over. `LiquidationBot` is one cycle between its awaits:
collect the borrowers of recent events, read position and balance, approve, call.
`setInterval` does not wait, so there are several `Cycles`, and all use one
`purse` and one `allowance`, which an approval replaces. `TransactionFails` is
the loop's `catch`, `CycleDies` everything that ends a cycle. The scan window of 50 000 blocks is
`SCAN_BLOCKS`, both ends included.

`Operations` puts both beside the pool's own module. What others do is
`Borrowing` and `OtherCalls` (borrowers repay, add and withdraw collateral, other liquidators liquidate); the market is `FeedsChange`, where a feed may go
down; the fee sweep and the one-shot price script are there too. Suppliers do not
move: the pool starts with a deposit and one or two loans.

### The scripts and the code

A deploy script is the list of the transactions it sends (`LaunchCalls`,
`HardenedCalls`), a run is what is still ahead of it. `Deploys` is hardhat-deploy: what is on record with
the same arguments is reused, anything else is deployed anew, loses the old
contract's roles and gets what its constructor grants. `Dies` ends any script
between two transactions. `transfer-admin.ts` walks its list with `Target` at the
head: skip what is not on record, grant, renounce if told to, throw where there is no
access control or the deployer is not the admin any more.

### The money pages and the code

`PageWallet` has what they share: a button starts a handler of one or two calls
(approve, then act), the user signs or declines each, a signed call waits in
`queue` until `Mined`, and a page that is left keeps its handlers running
(`visit.count` tells the mounted page from an earlier one). `shown` and
`shownStake` are the query cache: what was read at the last refetch. The pages
refetch when the hash arrives, which is before the transaction is mined, and the model
does the same.

`LendingPage` and `StakePage` translate the formulas the pages use: automatic
collateral, tier tables, health gauge, badge and label, announced fee,
projected rate. Their inputs are what was read, those of the contract are what
is true when the call is mined; the transaction record carries what the page
knew when it was signed. JavaScript floating point is exact here, `toFixed` is a
rounding to the digit it keeps. Contracts are the pool's own module and an
instance of `YieldVault`. A harvest just arrives (`Harvests`), and an exit
recovers what it asks for less one of `ExitCosts`: the strategy behind the
vault is `StakingSystem`'s subject.

A stake starts without the opt-in, as in the contract, and no click of these
pages changes that, because no page calls `optInToReputation`. `OptsIn` is the visitor doing it
by other means once he has a stake. Whether he is verified is one of `KycAnswers`.

## 3. Runs

Eight runs pass and four show a disagreement. `CHECK_DEADLOCK FALSE` is in every
configuration but `launch`: the models stop at their bounds with nothing
left to do, and neither the contracts nor the processes have a notion of
progress to be stuck in. The launch can always be started again.

| Run | Question |
|---|---|
| `pool_risk` | two borrowers, one supplier, two prices 20 % apart, two scores on both sides of the grace threshold, time. Do positions, totals and liquidations stay within what the contract's accounting allows? |
| `pool_yield` | two suppliers and one borrower, with interest large enough that every rounding shows. Is anybody diluted, locked out or overpaid, and is every call a movement of the ledger? |
| `staking` | two stakers, a lock, a boost, KYC that comes and goes, harvests and injections, deposits half of which go into a pair that moves, settings the admin changes, an emergency exit. Do books, weights and claims agree in every order of calls, is yield split by weight and backed, does the 2 % headroom pay for the swap back, and does a harvest hand out no more than the gain? |
| `reputation_proofs` | two verified accounts, two sessions on the credit page, webhook, polls and submit route, one mishap. Does what is under a session's id stay that session's, and does a score without a commit mean that the commit is there? |
| `reputation_identity` | the identity and child-wallet pages of two accounts, new or with a score near the top, one expiry, two mishaps. Consent before approval, two signatures before a lock, two contracts in agreement, no score without a fresh attestation? |
| `operations` | price keeper, two overlapping liquidation cycles, feeds that fail, runs that die, two borrowers. Is a stale price replaced, and do the processes keep the pool's types? |
| `launch` | launch, hardening and hand-over in every order, up to three deaths. Wired in the end, never without an admin, never at a dead end? |
| `pages` | a visitor of lending page, stake page and dashboard, verified or not, opted in or not, two clicks, half a year passing, a price drop, a lost score, a harvest. Does a first loan from the form stay within the limit, do the displays of health tell liquidate's threshold, does an exit cost what was announced, and is the promised rate the one for the score the vault counts? |
| `pool_says_no_bare_debt` | is collateral that backs debt held back? (no) |
| `pool_says_window_ends` | can a high-score position be liquidated once its window has passed? (no) |
| `staking_says_harvest_is_gain` | does a harvest take only gains? (no) |
| `operations_says_repayment_covered` | does the bot's approval cover what liquidate takes? (no) |

### Bounds, and why they are enough

Bounds of the model are constants that begin with `Max` and appear in guards;
amounts, prices, scores and times come from the small sets of the cfg.

`pool_risk`: a loan of 20 against collateral of 30 or 60 at prices 8 and 10 lies on both
sides of the loan-to-value limit and of the liquidation threshold of both
scores, and one price move or one time step moves it across. Two loans fit into
the collateral bound together, so one borrower's calls move the other's
utilisation, rate and totals. A year passes in a step, so interest is never
rounded to nothing, and the pool sees a price go stale (`MAX_PRICE_AGE` 1,
steps of 2).

`pool_yield`: amounts of 3 and 8 do not divide each other, the accumulator has a precision
of 1000, and 72 years of interest turn a loan into a yield several times the
supply, so that a wrong baseline or a unit gained by rounding is visible. Three
changes of size in one run are enough to bank, dilute and redeem around a
payment of interest; `YieldBacked` states the rounding error per change of
size, so a bound on their number bounds no case away.

`staking`: a stake of 1000 is above the standard cap of 700, so a position
has a boosted and an unboosted slice, and two make a whale; a lock of 10 %, a boost of 50 % and a
precision of 1000 make every division inexact. The stakers are verified when they come, and a
verification can be lost and found again. Three events are enough for both
stakers to join and yield to be transferred and injected, or for liquidity to be provided and the market to move,
with opt-ins, exits, claims, refreshes and a passing lock anywhere between; two distributions
are enough for yield to be parked and paid out, and for a baseline to be wrong
in a later one. Rounding is stated per distribution and staker. The pair begins with 30000 WQIE and 10000
QUSDC, so a unit of QUSDC is worth 3 of WQIE and half of the dust of 4 is below one unit, as half of 10^12 wei is on chain
while QIE is below 2 USD. A deposit of 1000, once the admin has set the ratio to a half, puts 500 into the pair, so
the strategy moves the price by over a percent, and the fee is the 1 in 150 that keeps rounding
visible. The state the market moves to has QIE down and fees earned. `staking_says_harvest_is_gain` has
one staker, a ratio of a fifth and a market that stands still.

`pool_says_window_ends`: the window is one step of time, and three steps
fit, so a call, the window and a later call happen.

`reputation_proofs` and `reputation_identity`: the properties are about two things of a kind
that should be one, so two accounts, two proof types, two sessions, two
requests. There is one document, so two sessions prove the same one, for
one wallet or two; claimed as the other type it is another document to the chain, as the type is
part of what is hashed. `MaxNonce` of 4 is two whole
proofs (a score and a commit each); 3 is a child link and an approval. One job in flight at a time still
interleaves with the webhook, because the other party's next job starts between
any two of its replies and the chain mines between any two of its steps; two
transactions may wait per account, which is a whole submission. `MaxTime` 1 is
one expiry of KYC. `SYMMETRY` is used where every wallet starts
alike (`reputation_proofs`) and no temporal property is checked.

`operations`: a unit of time is an hour and a block, rates are those of a year, so a loan
gains interest within a cycle. From 10 the price 8 is just within
`setPrice`'s reach, from 8 the price 10 is not: both sides of the 20 %. The purse
of 50 covers the debts of two borrowers in turn but not all they can come to
owe, two cycles hold at most two borrowers, so that both may have the same one in
hand, and `SCAN_BLOCKS` 1 with three hours lets a loan leave the window. The
interest of an earlier loan has left a fee for the sweep.

`launch`: three deaths let the launch, the hardening and the hand-over each die once, or one of
them at three places; on a test network, where the scripts send one
transaction more.

The pages: a step of 179 days is the longest lock less a day, so a lock is seen running,
ending and over; `MAX_PRICE_AGE` 0 makes any step of time a stale price; the
price can fall by 12 %, which takes a loan at the limit underwater; the scores
are the last of no tier and the first of one; 2 clicks are a handler that is still at work when the next begins,
2 visits a page left and another entered, from the lending page to the dashboard and
from there to the stake page; it may begin on any of the three. The world has one event per
behaviour (time, a price, a score, a harvest), beside liquidation and the opt-in of a visitor with a stake, which are
not counted. One refetch that shows something new goes beside those the handlers make.

### Properties

Pool:

- `TotalsMatchPositions`: `totalSupplied`, `totalBorrowed` and the WETH held are
  the sums over the positions that six functions update by hand.
- `SettlingNeverReverts`: `_settleSupplierYield`'s subtraction never underflows.
- `YieldBacked`: the pool holds, in cash and in loans, what it owes suppliers and the
  treasury, up to one unit of rounding for each change of size.
- `YieldMovesOnlyWithInterest`: no call but a payment of interest changes what a
  supplier can claim (large supplies just before a payment, or redemptions just
  after, move nobody's yield).
- `NoInterestWithoutPrincipal`: interest is never left on a position `repay` refuses.
- `DebtFallsOnlyByPayment`: debt is never forgiven.
- `OnlyTheWorldSinksPositions`: no call of the pool, on this position or on another,
  takes a settled position with collateral past its liquidation threshold (`Sunk`). A
  position without principal is not sunk: dust of collateral left behind by `withdrawCollateral`, which then checks
  nothing, reads as an infinite loan-to-value, but `liquidate` asks for a debt first.
- `ImplementsLedger`: refinement.

Staking:

- `SharesAddUp`: the totals yield is divided by are the sums over positions.
- `SharesWithinBoost`: effective shares, computed when their owner last called, are
  always a legal weight of the principal, whatever scores, KYC and caps became.
- `StakesSettle`: no staker's settle ever reverts (`BaselinesReached`), and the totals
  suffice for everybody to leave.
- `YieldPoolBacked`: claims and parked yield are covered by the yield pool, up to
  one unit per staker and distribution, and the pool by the vault's balance.
- `YieldMovesOnlyWithHarvest`: a stake just before a harvest, an unlock, an
  opt-in or a lost score moves no yield that came in earlier.
- `YieldSplitByShares`: of a distribution nobody gains more than the share.
- `HeadroomPaysInFull`: the 2 % and the dust that `withdrawFunds` over-removes pay
  for the fee and for the strategy's own price impact, as long as an exit burns at most a 50th of the pair's
  liquidity and its shortfall is worth 150 units of QUSDC. Both limits are part of the property because the code needs
  them: a larger burn moves the price by more than 2 %, and a smaller shortfall is lost in rounding.
- `HarvestWithinGain`: a harvest pulls out no more than the gain it measured.

Reputation:

- `ResultsStayWithTheirSession`: whatever the store or a reply holds under a session's id is for
  the wallet and the type that opened it, and commits the document of a proof that was finished,
  although webhooks bring other sessions' proofs, the submit route runs jobs for anybody, entries vanish
  and replies are late. (That the proof is the session's own does not hold: nothing ties the two.)
- `ScoreOnlyMeansCommitted`: a job that skips commit and replay check (the
  re-sync) does so only for a wallet and type whose commit is on the chain.
- `ScoreChangesByFreshAttestation`: a score changes only by a message of the
  oracle for this wallet whose nonce was not used before, and to the value in it.
- `KycFollowsConsent`: an approval is signed for a wallet QIE Pass knows as verified, or while the request
  the page waits for has been consented to; never on one that is open, was rejected or was given up,
  across retries, time-outs and wallets switched between. (In the second case the wallet is the one the status
  route's query names, `reputation/kyc/status/route.ts`, and the consent is that of the request.)
- `ChildrenAgree`: the children one contract lists are those the other has locked
  to it, nobody is its own child, and the limit of ten is kept.
- `LinkedByBoth`: a lock takes the signatures of both wallets on one nonce.

Processes, scripts, pages:

- `StalePriceIsReplaced`: a price too old for the pool is replaced while the market stays
  within 20 % of it and a feed answers.
- `WiredWhenDone`: after a launch that ended, whatever died before and whatever scripts
  ran since, all contracts are there and all roles the protocol's own calls need.
- `AdminIsNeverLost`: no contract is ever without an admin, and what the deployer
  gave up is the safe's.
- `LaunchFinishes`: no half-done launch is a dead end.
- `FirstLoanCovered`: a first loan from the form is within the contract's limit when it is mined, however long the
  call waited, if the form had read the oracle's price, that price has not fallen and the account's limit was not lowered.
  (To an account that has a debt already the form promises too much.)
- `GaugeTellsLiquidation`: the three displays of health agree with liquidate's threshold test, with
  the interest it accrues first. Whether the price is fresh enough for the call, and the
  grace branch for scores of 800 and more, the displays do not tell.
- `NeverMoreThanAnnounced`: no exit pays a larger fee than was announced, unless a
  stake was mined after the reading.
- `RateIsOfTheCountedScore`: given the score the vault counts (none before verification and opt-in), the three
  places that promise a rate agree with the vault's own, up to what rounding shares to whole QIE takes: the vault
  rounds down after the score's factor and again after the lock's, which costs a position of `p` QIE up to 2.15
  shares of its rate. That the pages are given another score is among the observations.

Each is broken by a small mutation of the code, given next to the definition it
mutates and listed in `PROJECT.json`.

### Fairness

`OpsSpec` assumes that blocks keep coming (`ChainMoves`), that the cron keeps
starting price runs and a run that does not die gets on (`SyncRuns`), and
that the interval keeps starting cycles, each of which gets on (`CycleRuns`). The
price runs are scheduled by `index.ts` (by a GitHub action's cron on the hosted demo, as its comment says), the cycles by the bot's own `--daemon` interval
(`liquidation-bot.ts:116-121`), both for ever, and neither a failed run nor a failed borrower
stops them. Users, other liquidators, the admin, the registry and the market owe
nobody a step, and faults are bounded by `MaxEvents` because a process that dies for ever serves
nobody. `StalePriceIsReplaced` needs the first two.

`Launch` assumes that a script which has begun goes on or dies (`ScriptNext`, `TransferStep`) and
that the operator starts the launch again and again while it can be started (strong
fairness of `StartLaunch`, since another script may be running in between); deaths
are bounded. No other specification states fairness: what they check is safety.

## 4. Findings

Four statements of the repository that the code does not keep, each shown by a
run; `PROJECT.json` quotes them with their lines.

1. `pool_says_no_bare_debt`: withdrawing all collateral passes the loan-to-value check
   (`LendingPool.sol:572`): no collateral reads as a ratio of 0.
2. `pool_says_window_ends`: the grace window for high scores (`LendingPool.sol:371-378`) is armed in
   a call that reverts, so it is never armed, and the promised later liquidation reverts for ever
   (`HighScoresEscape` proves it for every instance).
3. `staking_says_harvest_is_gain`: the LP's cost basis counts one half of a deposit
   (`YieldStrategy.sol:318`) and its valuation both (407): the first harvest takes half of the deployed
   principal for a gain and distributes it.
4. `operations_says_repayment_covered`: the liquidation bot approves exactly the debt it has read
   (`liquidation-bot.ts:98`); with a unit of interest more the liquidation
   reverts, and the log says that it was done (107).

### Observations

What else was met while modelling, without a run of its own. All of it is in the models,
which translate the code as it is, unless the text says that no model has it.

Statements of the repository that the code does not keep either, each for a reason that can be read off
one or two places:

- Lending page and FAQ: "txs never revert" (`lending/page.tsx:151-152`), "a transaction that passes in the UI
  never reverts on-chain" (`faq/page.tsx:270-272`). The form's collateral, and the check that greys its button out,
  are for the amount typed alone (`lending/page.tsx:163-168`, 615-619), while `borrow` judges the whole position: with
  a loan at its limit and every reading fresh, a second loan is offered and reverts. A first one is refused for a stale price, the utilisation cap
  or a score that fell after it was signed. What does hold is `FirstLoanCovered`.
- `useCurrentAPY.ts:36` ("matching getEffectiveAPY") and `ApyBreakdown.tsx:15` ("Mirrors YieldVault.getEffectiveAPY"):
  both multiply by the visitor's score, which the vault counts only of a verified staker who has called
  `optInToReputation`. The contract starts without it and no page calls it. What does hold is `RateIsOfTheCountedScore`.
- `faq/page.tsx:184-187` gives the early-exit fee to the yield pool and the stakers who kept their lock; it goes to the
  insurance fund (`YieldVault.sol:188`).
- An exit is to pay "what we actually have" (`YieldStrategy.sol:202`), but a shortfall
  whose dust (200) is worth less than a unit or two of QUSDC, which has 6 decimals, makes the pair's
  burn or the swap back revert, and the exit with it. `HeadroomPaysInFull` is about larger shortfalls for that reason.
- `YieldStrategy.sol:344` says that only WQIE is held; what the router does not take of the QUSDC stays in the
  strategy (307), and nothing ever spends it.
- `ReputationRegistry.sol:78-81` and `oracle.service.ts:201` count a document once, as does `faq/page.tsx:370`. A score
  is updated by its own message, whether or not its commit was accepted (146-168), so a document proved for
  two wallets before either commit is mined raises both.
- "protocol fees sit in the same token balance but aren't suppliers' to take" (`LendingPool.sol:213`); after all suppliers have redeemed, their unclaimed
  yield can be lent out (`LendingPool.sol:269`), and claims are then paid from those fees (232).
- The bot "clears out anyone who's gone underwater" (`liquidation-bot.ts:1`), but looks for borrowers in the last 50 000 blocks only
  (`liquidation-bot.ts:56`); a loan taken earlier sinks unseen.

Contracts.

- The contract's grace branch starts at score 800 (`LendingPool.sol:374`), the FAQ's at 801
  (`web/app/faq/page.tsx:259`); the top loan-to-value band starts above 800. The lending page's "Grace
  Shield active" (659-663) announces the window of finding 2.
- `withdrawCollateral` judges the loan-to-value by the stored price, however old (`LendingPool.sol:347`); `borrow`
  and `liquidate` ask for a fresh one.
- A loan taken after a full repayment is charged from the last accrual of the
  earlier loan (`LendingPool.sol:527`).
- A second stake replaces the lock of the whole position
  (`YieldVault.sol:142-143`; `web/app/faq/page.tsx:181-184` says otherwise).

Backend and reputation pages.

- A score that cannot be read counts as 0 (`onchain.service.ts:101`,
  `oracle.service.ts:206`), and the sum is signed as an absolute value, which can lower a score. The
  comment that the re-sync is monotonic (215-216) holds for a fresh, successful read only.
- Two proofs processed before either is submitted lose one delta, as the sum was read before
  (`oracle.service.ts:206`); a replay check that races
  with the commit of the same type adds one twice.
- An identity approval adds its bonus at every renewal (`oracle.service.ts:133`), while the page calls
  it flat (`web2/page.tsx:294-295`).
- A late reply of a cancelled session sets the page's result, or ends its successor
  (`web2/page.tsx:172-186`, `kyc/page.tsx:88-110`); after a stale time-out banner "This page updates automatically" (323) is
  not so. A poll goes on for ever after a 404.
- The proof type written to localStorage is that of the pending session, not of the submitted
  result (263-269), and an account without an entry inherits the list of the one before (158-159).
- After a score transaction that failed, a retry sends the mined commit again (275-276), and
  nothing waits for a receipt: "done" is shown for transactions that revert (`kyc/page.tsx:376`).
- `proofStore.ts` says 10 minutes in one comment and has 30 (4, 35).
- The scan of commit events reaches 300 000 blocks back; an older commit is not seen.

- Nothing ties the proof a callback brings to the session it names (`callback/route.ts:16-25`), and `proof/submit`
  takes wallet and type from its caller: a finished proof is signed for whatever wallet is named.

Processes and scripts.

- `update-price.ts` makes up $3000 when CoinGecko does not answer and ignores the receipt
  (37-49, 92-101); `price-keeper.ts:6-7` prefers an old price to a made-up one.
- `transfer-admin.ts:33-63` does not compare `NEW_ADMIN` with the deployer: if they are the same, the grant is skipped
  and the renunciation leaves a contract without an admin. (The model's Safe is another account.)
- After a full hand-over the deployer keeps UPDATER on the oracle, VAULT on the strategy
  and REVOKER on the registry (`PriceOracle.sol:32`, `YieldStrategy.sol:101`,
  `ReputationRegistry.sol:100`); `transfer-admin.ts:6` says that no single key is left.
- Launch and hardening deploy the pool with different arguments: running both leaves an
  earlier pool off the record, where the hand-over never reaches it.
- `transfer-admin.ts` throws at `InterestRateModel`, which has no access control; it
  is the last of its list.
- Scripts 04, 06 and 08 pass numbers of constructor arguments the contracts do not take.

Money pages.

- No page calls `refreshBoost` either: who opted in by other means keeps the shares of the score at that time.
- No page offers withdrawCollateral or addCollateral; a supplier who withdrew everything with yield left can claim on
  no page.
- Success is announced, and data read again, at the hash, before anything is mined; the
  second call of a handler is sent before the first is mined.
- `toFixed(6)` may round the automatic collateral below the minimum, `toFixed(2)` a full withdrawal
  above the supply, `toFixed(4)` a maximum above the maximum; "Repay in full" leaves dust.
- "Unlocked - no fee" (`stake/page.tsx:406`) is not so if a stake is mined after the reading.

## 5. Proofs

`tlapm` checks them all, from nothing, to the last leaf.

The pool's constants are only restricted by the named assumptions
`PoolAssumption` (types, scores up to 1000, divisors that are not zero) and
`FiniteAccounts` (the accounts are finitely many, as addresses are), so the
theorems hold for any number of accounts, any amounts and any precision.

- **Types** (`LendingPoolProofs`): `TypeCorrect`. `TypeOK` is inductive. The work is in
  the arithmetic: that quotients of naturals are naturals, that a subtraction
  is guarded, and that a repayment never takes more interest or
  principal than there is.
- **Yield** (`LendingPoolProofs`): `SettlingAlwaysPossible` rests on the
  strengthening that every baseline is at most the accumulator's entitlement for
  the position's own size (`BaselinesBelowAccumulator`), which is kept because
  the accumulator only grows and division by a constant is monotone.
  `YieldIsNeverDiluted` follows from the same invariant: a change of size banks
  exactly what was claimable.
- **Debt**: `InterestNeedsPrincipal` needs only that `repay` clears interest
  before principal. `DebtIsNeverForgiven` is an action property over `TypeOK`.
- **Grace**: `HighScoresEscape` (that `liquidate` never takes a high-score position) by the invariant that
  no window is ever armed (`NeverArmed`): `GraceOver` then requires a low score. It says of every
  instance what the run `pool_says_window_ends` shows on one.
- **Sinking**: `CallsSinkNobody`. Each of the six calls that touch a position is compared with the
  threshold it leaves behind: `borrow` and `withdrawCollateral` check the limit that the liquidation threshold exceeds by
  `LIQ_BUFFER_BPS` for the same score, `repay` and `addCollateral` are monotone through two
  roundings, and a call on somebody else leaves score, price and position alone.
- **Totals** (`LendingPoolMoneyProofs`): `TotalsAreSums`. A call rewrites one position, and a sum changes by
  what its one summand changes by (`TotalChanged`).
- **Backing**: `YieldIsBacked`. `YieldBacked` is not inductive, as the claims it sums are rounded. The
  invariant (`BackingInv`) sums them before the division by the precision (`ExactBacked`): a distribution then
  adds at most the interest times the precision, whatever the split, because the positions'
  amounts sum to `totalSupplied`, which it is divided by; a change of size costs at most one unit of rounding, which
  `resizes` counts; a claim takes off what it pays.
- **Refinement**: `PoolImplementsLedger`: the initial
  states map to the ledger's, and each action to a movement or a stutter.

Sums are the subject of `SumTheorems`. The library's induction theorem takes an operator as its
parameter, which no installed prover instantiates. Here induction is first-order
(`SubsetInduction`): a set of subsets that has the empty one, and with a subset every subset
larger by one element, has them all; from it the sum of `Functions` is shown to obey its equations
and to be linear and monotone.

On the staking side the constants are restricted by `VaultAssumption`,
`PairAssumption`, `StrategyAssumption`, `StakingAssumption` and `FiniteStakers` (types; scores up to 1000; a swap
that keeps some and at most all of its input; a precision that is not zero; finitely many stakers).

- **Types** (`StakingProofs`): `StakingTypeCorrect`. `StakingTypeOK` is
  inductive, part by part (`TypeParts`): a swap or a burn never empties the pair, a removal of
  liquidity never takes more than the position, a withdrawal sends no more than there is, a claim takes no
  more than the yield pool, and the cuts leave something for the stakers.
- **Shares**: `SharesStayWithinBoost`, from
  `ComputedSharesBounded`: whatever cap and score were in force, the rounded
  weight lies between the principal and its largest boost.
- **Yield**: `StepKinds` sorts all actions into four kinds (settle and update,
  claim, receive yield, neither). `BaselinesStayReached` and
  `YieldMovesOnlyWithHarvestHolds` are then one short case each.
  `YieldSplitBySharesHolds` adds the arithmetic of two nested roundings
  (`SplitOfYield`).
- **Totals**: `SharesAlwaysAddUp`, and with it the second half of `StakesAlwaysSettle`: one summand never
  exceeds the sum, so nobody's shares are more than the total they are taken from.
- **Backing**: `YieldPoolStaysBacked`. Summed over the stakers, what a distribution adds to their claims is
  at most what came in and was parked plus a unit each; `distributions` counts those units.

On the reputation side the assumptions are `RegistryAssumption`,
`OracleAssumption` and `SystemAssumption`: constants have their types, sessions
are numbered, `NoOne` is no wallet and `None` none of the values it stands in
for. The theorems hold for any number of accounts, proof types, documents, sessions,
requests and pages.

- **Types** (`ReputationProofs`): `ReputationTypeCorrect`. `RepTypeOK` is not
  inductive: that what a page sends is a message takes what its handler closed over when
  it asked for the prompt, and that a link carries an account takes the
  signature it was given. `RepInv` adds this, part by part
  (`RegistryTyped`, `OracleTyped`, `Web2Typed`, `KycTyped`, `LinkTyped`), and one lemma per
  group of actions shows each part kept.
- **Results**: `ResultsStay`. The strengthening `ProvedInv` says that a store entry has the wallet and type of its
  session, a job that will write to it has them too or answers its own caller only (`EntriesAgree`, `JobsAgree`), and
  what entries, jobs and replies hold is signed for the wallet, type and proof they carry (`EntriesFit`, `AnswersFit`).
  Sessions and reports never change once they are there, whatever is evicted or restarted. The proof is
  quantified independently of the session, as the webhook brings it.
- **The re-sync**: `ScoreAloneNeedsCommit`, from two invariants: every event has used its category
  up, and a job that has read a commit still finds it there, because commits stay.
- **Scores**: `ScoresMoveByFreshAttestations`, an action property over `RepInv`.
- **Children**: `ChildrenAlwaysAgree` (the two contracts' checks together) and
  `LinksAreSignedByBoth` (what waits in a mempool carries signatures that were made).
- **Consent**: `IdentityNeedsConsent`, an action property. Only three steps sign an approval. `AlreadyVerified` asks QIE Pass,
  `KycStatus` has the request in hand it polls (`ConsentGiven`), and the strengthening (`RequestIsOpen`) says that a page polls only a
  request that was opened.

For the scripts the only assumption is `LaunchAssumption`: either network, and any number of
deaths. The three safety properties of `Launch` (`LaunchProofs`) share one inductive invariant, `LaunchInv`:

- at most one script runs, never beside a hand-over (`RunsOK`);
- every contract on record has the deployer or the Safe for its admin, and a hand-over
  renounces only where the Safe was seen to hold the role (`AdminsOK`). This gives `AdminStays`;
- what the launch has not done yet is still ahead of it (`LeftIsAhead`), and a contract's
  deployment ahead of the grants on it, which it would otherwise wipe out (`InOrder`). When nothing is
  ahead everything is done: `WiredOnceLaunched`. A death empties what is ahead, and a
  rerun starts from the whole list, so neither order nor number of deaths matters.

For the money pages the assumptions are those of the pool, `LendingPageAssumption`,
`StakePageAssumption` and `PagesAssumption`: prices and precisions are not zero, the rest has its type, the visitor
may lend and borrow, and somebody has supplied. The theorems (`PagesProofs`) hold for any number of clicks,
visits, events and reads, any amounts and any order in which calls are signed and mined.
They share one inductive invariant, `PagesInv`, whose parts are

- the pool's `TypeOK` and `NoInterestWithoutPrincipal`, kept by the lemmas of `LendingPoolProofs`, which are stated for
  any natural amount because a page sends amounts it calculates (`toFixed` of what is owed, an automatic collateral);
- what every call carries until it is mined (`Calls`): a loan call is covered at the oracle price
  the form had read (`Covered`), an exit call costs no more than it announced, unless a stake came in between
  (`Honest`). A call is judged by the state it is mined in, so `CallsStay` shows that whatever moves the chain
  keeps the calls honest: a lock only runs out (`LockEases`, `RateNeverRises`);
- what the screens show (`LendingScreenTyped`, `StakeScreenTyped`): unless a stake was mined since the reading,
  the lock on the screen is the position's, or the position's is over (`LockShown`).

From it follow `PagesTypeCorrect`, `ExitsCostWhatWasAnnounced` and, with the arithmetic of each formula,

- `FormCoversAFirstLoan`: a first loan, mined when the price and the limit it was read with have not fallen,
  is within the limit, up to the contract's own rounding of the collateral's value (`FirstLoanCovered`);
  `WithinLimit` is the chain of products from the form's minimum to the contract's limit;
- `ReadingsTellLiquidation`: `_viewPendingInterest` is what `_accrueUserInterest` would store
  (`ViewAccrues`), and a health factor rounded down is below one exactly when the rounded
  loan-to-value is above the threshold (`HealthOfView`);
- `ChainOfFactorsIsTheVaults`: whatever the opt-in and the verification are. `CountedScoreTyped` and `MultiplierOf` relate
  the vault's multiplier to the band of the counted score, `SharesBounds` bounds what two roundings of shares lose,
  `RateBounds` what that and the rates' own rounding make of it. The slack holds for positions and rates no
  instance has.

For the off-chain processes (`OperationsProofs`) the assumptions are those of the pool, `KeeperAssumption`,
`BotAssumption` and `OperationsAssumption`: amounts, prices and purses have their types, and the fallback
price is one the oracle may be given. The theorems hold for any number of cycles, borrowers, feeds' moves and faults.

- **Types**: `OpsTypeCorrect`, `OpsTypeOK` being inductive. The start is a pool with loans out, so its balance needs
  `CapLeavesMoney` (a pool within its utilisation cap has not lent more than it was given). Of the steps,
  the bot's payment is the one with substance: the purse and the approval are shared by cycles that overwrite each other's
  approval, and what is owed grows between approval and payment; that neither goes below zero is
  what `Covered` leaves (`CoveredTwice`).
- **The pool underneath**: `ProcessesCallThePool`. Every step of a process, a fault included, is a step of `LendingPool`'s
  `Next` or leaves the pool alone: what a run or the script gets mined is a price the oracle may be given (`KeeperSendsPrices`), a cycle never
  liquidates without a borrower at hand (`BorrowerAtHand`). The lemmas of `LendingPoolProofs` about the pool's steps
  (`StepsForgiveNothing`, `StepsKeepYield`, `StepsSinkNobody`, `StepsSpareHighScores`) do not depend on
  how the pool starts, so `PoolKeepsItsPromises` and `HighScoresEscapeTheBot` carry them over to a pool with loans out and
  processes around it.

Model-checked only:

- `StalePriceIsReplaced`, `LaunchFinishes`: liveness under fairness, and
  ENABLED, are out of the prover's reach.
- `HeadroomPaysInFull`, `HarvestWithinGain`: chains of five and more roundings over products of the pair's reserves and
  supply; they are checked on the instance and not proved.
- Everything a run refutes (section 4): a counterexample needs one instance.

## 6. Not modelled

Left out of modelled components on purpose: events nothing reads, view functions no page and
no property uses, role checks in the pool and vault (they restrict who calls, and the model gives every
call to somebody who may; `Launch` is about roles), the funder's wrapping of QIE, the wording of messages and toasts.

Of the API routes, `vault/apy` is called by nothing in the
repository; the format checks of request bodies decide nothing the properties are about.

Of the scripts: 00 deploys mocks; 03 to 08 are superseded by 09 and 10, and three of
them no longer fit the constructors; `mint-to-wallet` mints test tokens.

Of the web UI: FAQ, landing and overview pages, layout, cards and charts have no state
of their own beyond what they show. What the calculator computes is the one formula `StakePage` has.

External, and modelled from how the code uses them: the ERC-20 tokens, WQIE9 (as balances), the pair and its router
(`DexPair`), Reclaim (a session and a document), QIE Pass (a
request and a consent), the price feeds, the browser's wallet. The repository's mocks and Solidity
interfaces stand for them and are not modelled themselves.

Four limits of what is here. Every oracle nonce is fresh, so a collision of random
256-bit numbers does not happen. The front ends of two people are one browser
with two accounts, and other front ends can only resend links. The Safe of the hand-over is an account of its own, so a
`NEW_ADMIN` that is the deployer is left out. And each system is
checked by itself: the pool takes scores from nowhere in particular (`SetScore`), the
pages take harvests, so a property that needed registry, vault, pool and keepers in one behaviour
would not be seen.

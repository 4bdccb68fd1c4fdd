----------------------------- MODULE LendingPage -----------------------------
(***************************************************************************)
(* lending/page.tsx and the dashboard's supply claim, in front of the      *)
(* pool: what the page has read, the loan form with its automatic          *)
(* collateral, the handlers that approve and then call, and the price      *)
(* route.  Collateral is counted in the last digit the form shows, dollars *)
(* in QUSDC units; the page's floating point is exact here, and toFixed is *)
(* a rounding.                                                             *)
(***************************************************************************)
EXTENDS LendingPool, PageWallet

CONSTANTS
  Me,              \* the visitor's account
  MarketPrices,    \* what CoinGecko may answer
  STATIC_FALLBACK, CACHE_TTL,
  Shown2, Shown4   \* QUSDC units in the last digit toFixed(2) and toFixed(4) keep

ASSUME LendingPageAssumption ==
  /\ Me \in Suppliers \cap Borrowers
  /\ MarketPrices \subseteq Nat \ {0} /\ STATIC_FALLBACK \in Nat \ {0}
  /\ Shown2 \in Nat \ {0} /\ Shown4 \in Nat \ {0}

VARIABLES
  cached,          \* /api/price/eth's answer and when it was fetched, or None
  quote,           \* useEthPrice's data, 0 before the first answer
  shown,           \* what the page has read of the chain
  form,            \* borrowInput and collateralInput, 0 when empty
  allowance        \* what the pool may take from the account

lendingPageVars == <<cached, quote, shown, form, allowance>>

None == [price |-> 0, at |-> 0]
EmptyForm == [borrow |-> 0, collateral |-> 0]

Rounded(numerator, denominator) == (2 * numerator + denominator) \div (2 * denominator)
ToFixed(amount, digit) == Rounded(amount, digit) * digit

(***************************************************************************)
(* Tiers, and what getBorrowerPosition tells the page.                     *)
(***************************************************************************)

TIERS ==
  << [min |-> 0,   max |-> 200,  ltvPct |-> 60], [min |-> 201, max |-> 400,  ltvPct |-> 64],
     [min |-> 401, max |-> 600,  ltvPct |-> 68], [min |-> 601, max |-> 800,  ltvPct |-> 72],
     [min |-> 801, max |-> 1000, ltvPct |-> 75] >>

GetTier(score) ==
  TIERS[CHOOSE i \in 1..5 : score >= TIERS[i].min /\ score <= TIERS[i].max]

Infinite == 1000000000    \* type(uint256).max, and Number of it

\* mutant: interest since the last accrual is left out of the view
ViewStoredInterest(u) == borrowers[u].interestOwed

\* _viewPendingInterest on top of what is stored
ViewInterest(u) ==
  LET pos == borrowers[u]
      rateBps == (BorrowRateBps(UtilBps(totalBorrowed, totalSupplied))
                    * (BPS - DiscountBps(scores[u]))) \div BPS
  IN  pos.interestOwed + (IF pos.principal = 0 \/ pos.lastAccrual = 0 THEN 0
                          ELSE InterestOver(pos, rateBps, now - pos.lastAccrual))

\* getBorrowerPosition
BorrowerView(u) ==
  LET pos == borrowers[u]
      threshold == MaxLtvBps(scores[u]) + LIQ_BUFFER_BPS
      value == WethToQusdc(pos.collateral)
      ltv == IF value > 0 THEN ((pos.principal + ViewInterest(u)) * BPS) \div value ELSE Infinite
      some == pos.collateral > 0 /\ pos.principal > 0
  IN  [collateral |-> pos.collateral, principal |-> pos.principal, interest |-> ViewInterest(u),
       threshold |-> threshold,
       hf |-> IF some /\ ltv > 0 THEN (threshold * BPS) \div ltv ELSE Infinite,
       isLiquidatable |-> some /\ ltv > threshold]

Badge(view) ==
  CASE view.isLiquidatable -> "At Risk"
    [] ~view.isLiquidatable /\ view.hf > 0 /\ view.hf < 12000 -> "Caution"
    [] OTHER -> "Healthy"

HealthLabel(view) ==
  CASE view.hf >= 15000 -> "Safe"
    [] view.hf >= 12000 /\ view.hf < 15000 -> "Moderate"
    [] view.hf >= 10000 /\ view.hf < 12000 -> "Warning"
    [] OTHER -> "Danger"

\* HealthFactorGuide's activeZone; it gets no health factor when there is none
ActiveZone(view) ==
  CASE view.hf >= 15000 -> "Safe"
    [] view.hf >= 12000 /\ view.hf < 15000 -> "Monitor"
    [] view.hf >= 10000 /\ view.hf < 12000 -> "High risk"
    [] OTHER -> "Liquidated"

(***************************************************************************)
(* Prices: the route's cache, the market and the oracle, and the price the *)
(* page calculates with.                                                   *)
(***************************************************************************)

\* GET /api/price/eth: CoinGecko, else the oracle, else the static price
FetchedPrices == MarketPrices \cup {ethUsdPrice, STATIC_FALLBACK}

GetPrice ==
  /\ Shows("lending")
  /\ IF cached # None /\ now - cached.at < CACHE_TTL
     THEN UNCHANGED cached
     ELSE \E price \in FetchedPrices : cached' = [price |-> price, at |-> now]
  /\ quote' = cached'.price
  /\ UNCHANGED <<shown, form, allowance, walletVars, vars>>

EthUsd == IF quote = 0 THEN STATIC_FALLBACK ELSE quote

\* mutant: collateral is worth its market price
MarketEthUsd == EthUsd

\* the lower of the market's and the oracle's price
SafeEthUsd == IF shown.price > 0 THEN Min({EthUsd, shown.price}) ELSE EthUsd

LtvPct == GetTier(shown.score).ltvPct

\* minCollateralWeth, times a percentage, as numerator and denominator
MinCollateral(borrow, percent) ==
  [numerator |-> borrow * PRICE_UNIT * percent, denominator |-> SafeEthUsd * LtvPct]

\* what the buttons put into the collateral field: toFixed(6)
Filled(borrow, percent) ==
  Rounded(MinCollateral(borrow, percent).numerator, MinCollateral(borrow, percent).denominator)

TooLow ==
  form.collateral * SafeEthUsd * LtvPct < form.borrow * PRICE_UNIT * 100

(***************************************************************************)
(* Reads, forms and buttons.                                               *)
(***************************************************************************)

SupplyView == [amount |-> suppliers[Me].amount, pending |-> Claimable(suppliers[Me])]

\* react-query refetches, for instance when the window gets the focus
Refetch ==
  /\ Shows("lending") \/ Shows("dashboard")
  /\ shown' = [score |-> scores[Me], price |-> ethUsdPrice,
               loan |-> BorrowerView(Me), supply |-> SupplyView]
  /\ UNCHANGED <<cached, quote, form, allowance, walletVars, vars>>

\* handleBorrowInputChange
TypeBorrow(amount) ==
  /\ Shows("lending")
  /\ form' = [borrow |-> amount, collateral |-> Filled(amount, 100)]
  /\ UNCHANGED <<cached, quote, shown, allowance, walletVars, vars>>

\* "Use minimum" and "+25% safer", and whatever is typed over them
FillCollateral(collateral) ==
  /\ Shows("lending") /\ form.borrow > 0
  /\ form' = [form EXCEPT !.collateral = collateral]
  /\ UNCHANGED <<cached, quote, shown, allowance, walletVars, vars>>

Call(name, amount) == [call |-> name, amount |-> amount]

HasLoan == shown.loan.principal > 0

\* the calls each handler makes; the loan call keeps what the page had read when
\* its button was pressed
HandleSupply(amount) == <<Call("approveQusdc", amount), Call("supply", amount)>>
HandleRedeem(amount) == <<Call("redeem", amount)>>
HandleClaimSupply == <<Call("claimSupplierYield", 0)>>
HandleBorrow ==
  << Call("approveWeth", form.collateral),
     [call |-> "borrow", amount |-> form.borrow, collateral |-> form.collateral,
      oracle |-> shown.price, ltvPct |-> LtvPct] >>
HandleRepay(amount) == <<Call("approveQusdc", amount), Call("repay", amount)>>

\* "Approve & Supply"
SupplyClick == \E amount \in Amounts : Click("lending", HandleSupply(amount))

\* "Withdraw", of an amount or of all that is shown
RedeemClick ==
  /\ shown.supply.amount > 0
  /\ \E amount \in Amounts \cup {ToFixed(shown.supply.amount, Shown2)} :
       amount > 0 /\ Click("lending", HandleRedeem(amount))

\* "Claim" is there for who has a supply, on the dashboard also for who has a loan
ClaimSupplyClick ==
  /\ shown.supply.pending > 0
  /\ \/ shown.supply.amount > 0 /\ Click("lending", HandleClaimSupply)
     \/ (shown.supply.amount > 0 \/ HasLoan) /\ Click("dashboard", HandleClaimSupply)

\* "Approve & Borrow", disabled as "Collateral Too Low"
BorrowOffered == form.borrow > 0 /\ form.collateral > 0 /\ ~TooLow
BorrowClick == BorrowOffered /\ Click("lending", HandleBorrow)

\* "Approve & Repay", an amount or all that is shown as owed
RepayClick ==
  /\ HasLoan
  /\ \E amount \in Amounts \cup {ToFixed(shown.loan.principal + shown.loan.interest, Shown4)} :
       amount > 0 /\ Click("lending", HandleRepay(amount))

LendingClick ==
  /\ SupplyClick \/ RedeemClick \/ ClaimSupplyClick \/ BorrowClick \/ RepayClick
  /\ UNCHANGED <<lendingPageVars, vars>>

\* the last signature of a handler of this page: the loan form is emptied after
\* a loan, and refetchAll reads the positions as they are now
LendingConcludes(call) ==
  /\ form' = IF call = "borrow" THEN EmptyForm ELSE form
  /\ shown' = [shown EXCEPT !.loan = BorrowerView(Me), !.supply = SupplyView]

(***************************************************************************)
(* The pool's side of a mined transaction.                                 *)
(***************************************************************************)

Spend(token, amount) ==
  /\ amount <= allowance[token]
  /\ allowance' = [allowance EXCEPT ![token] = @ - amount]

LendingExecutes(tx) ==
  \/ tx.call = "approveQusdc" /\ allowance' = [allowance EXCEPT !.qusdc = tx.amount]
       /\ UNCHANGED vars
  \/ tx.call = "approveWeth" /\ allowance' = [allowance EXCEPT !.weth = tx.amount]
       /\ UNCHANGED vars
  \/ tx.call = "supply" /\ Spend("qusdc", tx.amount) /\ Supply(Me, tx.amount)
  \/ tx.call = "redeem" /\ Redeem(Me, tx.amount) /\ UNCHANGED allowance
  \/ tx.call = "claimSupplierYield" /\ ClaimSupplierYield(Me) /\ UNCHANGED allowance
  \/ tx.call = "borrow" /\ Spend("weth", tx.collateral)
       /\ Borrow(Me, tx.collateral, tx.amount)
  \/ tx.call = "repay" /\ Spend("qusdc", Min({tx.amount, Owed(Accrued(Me))}))
       /\ Repay(Me, tx.amount)

\* the page has loaded, but for the oracle's price
LendingPageInit ==
  /\ cached = None /\ quote = 0
  /\ shown = [score |-> scores[Me], price |-> 0, loan |-> BorrowerView(Me), supply |-> SupplyView]
  /\ form = EmptyForm
  /\ allowance = [qusdc |-> 0, weth |-> 0]
=============================================================================

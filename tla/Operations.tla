----------------------------- MODULE Operations -----------------------------
(***************************************************************************)
(* The off-chain processes at work on one pool: price keeper, liquidation  *)
(* bot and fee sweep, with borrowers, other liquidators, the market and    *)
(* the chain moving between any two of their steps.  The supply side does  *)
(* not move here: the pool starts with what suppliers have put in.         *)
(***************************************************************************)
EXTENDS PriceKeeper, LiquidationBot

CONSTANTS
  FEE_THRESHOLD,   \* least fee harvest-lending.ts withdraws
  InitialDeposit,  \* at the start: QUSDC in the pool,
  EarlierInterest, \* the interest of a loan that has been repaid,
  StartPrice,      \* the oracle's price,
  Indebted,        \* and who may have a loan
  MaxEvents        \* bound of the model: events, moves of the market, calls of others

ASSUME OperationsAssumption ==
  /\ FEE_THRESHOLD \in Nat \ {0} /\ InitialDeposit \in Nat \ {0} /\ InitialDeposit <= MaxSupplied
  /\ EarlierInterest \in Nat
  /\ StartPrice \in Prices /\ Indebted \subseteq SUBSET Borrowers
  /\ MaxEvents \in Nat

VARIABLE events    \* history: what came from outside so far, bounds the model

offChain == <<priceKeeperVars, botVars, events>>
opsVars == <<vars, offChain>>

\* One supplier has supplied the deposit, a loan has been repaid with interest,
\* and some borrowers have taken a loan in the block before.
PoolWithLoans ==
  \E s \in Suppliers, collateral \in Collaterals, amount \in Amounts,
     indebted \in Indebted :
  LET loan == [collateral |-> collateral, principal |-> amount, interestOwed |-> 0,
               lastAccrual |-> 1, borrowBlock |-> 1]
  IN
  /\ now = 1 /\ height = 1
  /\ Oracle!Deploy(StartPrice, now)
  /\ scores \in [Borrowers -> Scores]
  /\ totalSupplied = InitialDeposit
  /\ totalBorrowed = amount * Cardinality(indebted)
  /\ UtilBps(totalBorrowed, totalSupplied) <= MAX_UTIL_BPS
  /\ \A u \in indebted : ~LtvExceeds(loan, MaxLtvBps(scores[u]))
  /\ qusdc = InitialDeposit + EarlierInterest - totalBorrowed
  /\ weth = collateral * Cardinality(indebted) /\ weth <= MaxCollateral
  /\ suppliers = [u \in Suppliers |->
                   IF u = s THEN [NoSupply EXCEPT !.amount = InitialDeposit] ELSE NoSupply]
  /\ protocolFeeAccrued = ProtocolCut(EarlierInterest)
  /\ accInterestPerShare =
       ((EarlierInterest - protocolFeeAccrued) * ACC_PRECISION) \div totalSupplied
  /\ borrowers = [u \in Borrowers |-> IF u \in indebted THEN loan ELSE NoPosition]
  /\ \E order \in SetToSeqs(indebted) :
       log = [i \in DOMAIN order |-> [user |-> order[i], block |-> 1]]
  /\ graceExpiry = [u \in Borrowers |-> 0]
  /\ paused = FALSE

OpsInit == PoolWithLoans /\ PriceKeeperInit /\ BotInit /\ events = 0

Event == events < MaxEvents /\ events' = events + 1

Borrowing ==
  /\ \E u \in Borrowers, collateral \in Collaterals, amount \in Amounts :
       BorrowLogged(u, collateral, amount)
  /\ Event
  /\ UNCHANGED priceKeeperVars

\* other calls of borrowers, and of liquidators other than the bot
OtherCalls ==
  /\ \E u \in Borrowers :
       \/ \E amount \in Amounts : Repay(u, amount)
       \/ \E amount \in Collaterals : AddCollateral(u, amount) \/ WithdrawCollateral(u, amount)
       \/ Liquidate(u)
  /\ Event
  /\ UNCHANGED <<priceKeeperVars, botVars>>

\* harvest-lending.ts, run by hand: a fee of the threshold or more is
\* withdrawn.  Nobody else withdraws, and the contract pays what has accrued by
\* then, so reading the fee and withdrawing it come to one step.
HarvestLending ==
  /\ protocolFeeAccrued >= FEE_THRESHOLD
  /\ WithdrawProtocolFee
  /\ Event
  /\ UNCHANGED <<priceKeeperVars, botVars>>

PriceScript == UpdatePrice /\ Event /\ UNCHANGED botVars

FeedsChange ==
  /\ \E answers \in [Feeds -> Prices \cup {Down}] : MarketMoves(answers)
  /\ Event
  /\ UNCHANGED botVars

ChainMoves ==
  /\ \E seconds \in TimeSteps : NextBlock(seconds)
  /\ UNCHANGED offChain

SyncRuns == SyncStep /\ UNCHANGED <<botVars, events>>

CycleRuns(c) == CycleStep(c) /\ UNCHANGED <<priceKeeperVars, events>>

Fault ==
  /\ Event
  /\ \/ SyncDies /\ UNCHANGED botVars
     \/ \E c \in Cycles : CycleFault(c) /\ UNCHANGED priceKeeperVars

OpsNext ==
  \/ Borrowing \/ OtherCalls \/ HarvestLending \/ PriceScript \/ FeedsChange
  \/ ChainMoves
  \/ SyncRuns \/ (\E c \in Cycles : CycleRuns(c)) \/ Fault

(***************************************************************************)
(* Fairness: blocks keep coming, the cron and the interval keep starting   *)
(* runs, and a run that does not fail gets on.  Users, other liquidators   *)
(* and the market owe nobody a step.                                       *)
(***************************************************************************)
OpsSpec ==
  /\ OpsInit /\ [][OpsNext]_opsVars
  /\ WF_opsVars(ChainMoves)
  /\ WF_opsVars(SyncRuns)
  /\ \A c \in Cycles : WF_opsVars(CycleRuns(c))

(***************************************************************************)
(* Properties.                                                             *)
(***************************************************************************)

\* Type correctness: what the processes remember between their steps keeps its
\* shape, and the pool's own type invariant holds with them around.
OpsTypeOK ==
  /\ TypeOK
  /\ quotes \in [Feeds -> Prices \cup {Down}] /\ sync \in Syncs
  /\ log \in Seq(Borrowed)
  /\ cycles \in [Cycles -> CycleStates]
  /\ \A c \in Cycles : cycles[c].step = "idle" <=> cycles[c].todo = <<>>
  /\ purse \in Nat /\ allowance \in Nat
  /\ events \in 0..MaxEvents

\* a feed answers, and no answer is out of setPrice's reach
MarketInReach ==
  /\ \E feed \in Feeds : quotes[feed] # Down
  /\ \A feed \in Feeds :
       quotes[feed] # Down => Oracle!WithinDeviation(ethUsdPrice, quotes[feed])

\* The heartbeat: a price too old for the pool to use is replaced, whichever
\* feed is down and whichever run died, as long as the market stays within the
\* 20 % setPrice accepts.  (Beyond that nothing but the admin helps.)
StalePriceIsReplaced == (~FreshPrice /\ MarketInReach) ~> (FreshPrice \/ ~MarketInReach)

(***************************************************************************)
(* What a comment of liquidation-bot.ts says, and the bot does not do.     *)
(***************************************************************************)

\* "Ensure the liquidator can cover the repayment": when liquidate is mined on
\* a position that is still liquidatable, and the account has the money, the
\* approval covers the debt.
RepaymentCovered ==
  \A c \in Cycles :
    /\ cycles[c].step = "paying" /\ Liquidatable(At(c))
    /\ Owed(Accrued(At(c))) <= purse
    => Covered(At(c))
=============================================================================

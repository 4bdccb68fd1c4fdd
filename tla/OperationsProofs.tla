-------------------------- MODULE OperationsProofs --------------------------
(***************************************************************************)
(* Theorems about the off-chain processes beside the pool.  Whatever order *)
(* the keeper, the bot's cycles, their faults and the users take, the pool *)
(* makes only steps of its own specification, no process acts on a price,  *)
(* a borrower or a debt it does not have, and neither the keeper's purse   *)
(* nor its approval goes below zero.                                       *)
(***************************************************************************)
EXTENDS Operations, LendingPoolProofs, FiniteSetTheorems

(***************************************************************************)
(* The start: a pool with suppliers' money in it and loans out of it.      *)
(***************************************************************************)

\* A pool within its utilisation cap has not lent more than it was given.
LEMMA CapLeavesMoney ==
  ASSUME NEW lent \in Nat, NEW given \in Nat \ {0}, UtilBps(lent, given) <= MAX_UTIL_BPS
  PROVE  lent <= given
<1>1. (lent * 10000) \div given <= 9000
  BY DEF UtilBps, BPS, MAX_UTIL_BPS
<1>2. SUFFICES ASSUME lent > given PROVE FALSE
  OBVIOUS
<1>3. lent * 10000 >= given * 10000
  BY <1>2
<1>4. (given * 10000) \div given = 10000
  OBVIOUS
<1>5. given * 10000 \in Nat /\ lent * 10000 \in Nat
  OBVIOUS
<1>6. (given * 10000) \div given <= (lent * 10000) \div given
  BY <1>3, <1>5, QuotientMonotone
<1>. QED
  BY <1>1, <1>4, <1>5, <1>6, QuotientNat

\* The treasury's part of paid interest is a part of it.
LEMMA CutWithin ==
  ASSUME NEW paid \in Nat PROVE ProtocolCut(paid) \in Nat /\ ProtocolCut(paid) <= paid
BY DEF ProtocolCut, PROTOCOL_FEE_BPS, BPS

\* accounts that have a loan at the start can be counted
LEMMA IndebtedCounted ==
  ASSUME NEW indebted \in Indebted
  PROVE  indebted \subseteq Borrowers /\ Cardinality(indebted) \in Nat
BY OperationsAssumption, FiniteAccounts, FS_Subset, FS_CardinalityType

LEMMA LoansAreTyped == PoolWithLoans => TypeOK /\ log \in Seq(Borrowed)
<1> SUFFICES ASSUME PoolWithLoans PROVE TypeOK /\ log \in Seq(Borrowed)
  OBVIOUS
<1>1. PICK s \in Suppliers, collateral \in Collaterals, amount \in Amounts,
           indebted \in Indebted :
        LET loan == [collateral |-> collateral, principal |-> amount, interestOwed |-> 0,
                     lastAccrual |-> 1, borrowBlock |-> 1]
        IN
        /\ totalBorrowed = amount * Cardinality(indebted)
        /\ UtilBps(totalBorrowed, totalSupplied) <= MAX_UTIL_BPS
        /\ qusdc = InitialDeposit + EarlierInterest - totalBorrowed
        /\ weth = collateral * Cardinality(indebted)
        /\ suppliers = [u \in Suppliers |->
                         IF u = s THEN [NoSupply EXCEPT !.amount = InitialDeposit] ELSE NoSupply]
        /\ borrowers = [u \in Borrowers |-> IF u \in indebted THEN loan ELSE NoPosition]
        /\ \E order \in SetToSeqs(indebted) :
             log = [i \in DOMAIN order |-> [user |-> order[i], block |-> 1]]
  BY DEF PoolWithLoans
<1>2. /\ now = 1 /\ height = 1 /\ totalSupplied = InitialDeposit
      /\ scores \in [Borrowers -> Scores] /\ paused = FALSE
      /\ graceExpiry = [u \in Borrowers |-> 0]
      /\ protocolFeeAccrued = ProtocolCut(EarlierInterest)
      /\ accInterestPerShare =
           ((EarlierInterest - protocolFeeAccrued) * ACC_PRECISION) \div totalSupplied
  BY DEF PoolWithLoans
<1>3. ethUsdPrice \in Nat \ {0} /\ updatedAt = 1
  BY OperationsAssumption, PoolAssumption DEF PoolWithLoans, Oracle!Deploy
<1>4. /\ InitialDeposit \in Nat \ {0} /\ EarlierInterest \in Nat
      /\ amount \in Nat /\ collateral \in Nat
      /\ indebted \subseteq Borrowers /\ Cardinality(indebted) \in Nat
  BY OperationsAssumption, PoolAssumption, IndebtedCounted
<1>5. totalBorrowed \in Nat /\ weth \in Nat
  BY <1>1, <1>4, ProductNat
<1>6. qusdc \in Nat
  <2>1. totalBorrowed <= InitialDeposit
    BY <1>1, <1>2, <1>4, <1>5, CapLeavesMoney
  <2>. QED
    BY <1>1, <1>4, <1>5, <2>1
<1>7. protocolFeeAccrued \in Nat /\ accInterestPerShare \in Nat
  <2>1. protocolFeeAccrued \in Nat /\ EarlierInterest - protocolFeeAccrued \in Nat
    BY <1>2, <1>4, CutWithin
  <2>2. (EarlierInterest - protocolFeeAccrued) * ACC_PRECISION \in Nat
    BY <2>1, PoolAssumption, ProductNat
  <2>. QED
    BY <1>2, <1>4, <2>1, <2>2, QuotientNat
<1>8. suppliers \in [Suppliers -> SupplyPosition]
  BY <1>1, <1>4 DEF NoSupply, SupplyPosition
<1>9. /\ borrowers \in [Borrowers -> BorrowerPosition]
      /\ \A u \in Borrowers : borrowers[u].lastAccrual <= 1
  BY <1>1, <1>4 DEF NoPosition, BorrowerPosition
<1>10. log \in Seq(Borrowed)
  <2>1. PICK order \in SetToSeqs(indebted) :
          log = [i \in DOMAIN order |-> [user |-> order[i], block |-> 1]]
    BY <1>1
  <2>2. order \in [1..Cardinality(indebted) -> indebted]
    BY DEF SetToSeqs
  <2>3. log \in [1..Cardinality(indebted) -> Borrowed]
    BY <1>4, <2>1, <2>2 DEF Borrowed
  <2>. QED
    BY <1>4, <2>3
<1>11. /\ now \in Nat \ {0} /\ height \in Nat /\ totalSupplied \in Nat
       /\ updatedAt \in Nat /\ updatedAt <= now
       /\ paused \in BOOLEAN /\ scores \in [Borrowers -> Scores]
  <2>1. now = 1 /\ height = 1 /\ totalSupplied = InitialDeposit /\ updatedAt = 1
    BY <1>2, <1>3
  <2>2. paused \in BOOLEAN /\ scores \in [Borrowers -> Scores]
    BY <1>2
  <2>. QED
    BY <1>4, <2>1, <2>2
<1>12. graceExpiry \in [Borrowers -> Nat]
  BY <1>2
<1>13. \A u \in Borrowers : borrowers[u].lastAccrual <= now
  BY <1>2, <1>9
<1>. QED
  BY <1>3, <1>5, <1>6, <1>7, <1>8, <1>9, <1>10, <1>11, <1>12, <1>13 DEF TypeOK

LEMMA OpsTypeInit == OpsInit => OpsTypeOK
<1> SUFFICES ASSUME OpsInit PROVE OpsTypeOK
  OBVIOUS
<1>1. TypeOK /\ log \in Seq(Borrowed)
  BY LoansAreTyped DEF OpsInit
<1>2. quotes \in [Feeds -> Prices \cup {Down}] /\ sync \in Syncs
  BY DEF OpsInit, PriceKeeperInit, NoSync, Syncs
<1>3. /\ cycles \in [Cycles -> CycleStates] /\ purse \in Nat /\ allowance \in Nat
      /\ \A c \in Cycles : cycles[c].step = "idle" <=> cycles[c].todo = <<>>
  BY BotAssumption DEF OpsInit, BotInit, Idle, CycleStates, Steps
<1>4. events \in 0..MaxEvents
  BY OperationsAssumption DEF OpsInit
<1>. QED
  BY <1>1, <1>2, <1>3, <1>4 DEF OpsTypeOK

(***************************************************************************)
(* A cycle under way has a borrower at hand, and moving it on keeps it     *)
(* well-formed.                                                            *)
(***************************************************************************)

LEMMA BorrowerAtHand ==
  ASSUME OpsTypeOK, NEW c \in Cycles, cycles[c].step # "idle"
  PROVE  /\ cycles[c].todo \in Seq(Borrowers) /\ cycles[c].todo # <<>>
         /\ At(c) \in Borrowers
         /\ Tail(cycles[c].todo) \in Seq(Borrowers)
<1>1. cycles[c].todo \in Seq(Borrowers) /\ cycles[c].todo # <<>>
  BY DEF OpsTypeOK, CycleStates
<1>. QED
  BY <1>1 DEF At

LEMMA LoopTyped ==
  ASSUME NEW todo \in Seq(Borrowers)
  PROVE  Loop(todo) \in CycleStates /\ (Loop(todo).step = "idle" <=> Loop(todo).todo = <<>>)
<1>1. CASE todo = <<>>
  BY <1>1 DEF Loop, Idle, CycleStates, Steps
<1>2. CASE todo # <<>>
  <2>1. Loop(todo) = [step |-> "checking", todo |-> todo, debt |-> 0]
    BY <1>2 DEF Loop, Idle
  <2>. QED
    BY <1>2, <2>1 DEF CycleStates, Steps
<1>. QED
  BY <1>1, <1>2

LEMMA IdleTyped == Idle \in CycleStates /\ (Idle.step = "idle" <=> Idle.todo = <<>>)
BY DEF Idle, CycleStates, Steps

\* what a debt comes to, and what the approval and the purse cover of it
LEMMA OwedNat == ASSUME TypeOK, NEW u \in Borrowers PROVE Owed(Accrued(u)) \in Nat
BY AccruedPosition DEF Owed, BorrowerPosition

LEMMA CoveredTwice ==
  ASSUME OpsTypeOK, NEW u \in Borrowers, Covered(u)
  PROVE  /\ purse - Owed(Accrued(u)) \in Nat
         /\ allowance - Owed(Accrued(u)) \in Nat
<1>1. purse \in Nat /\ allowance \in Nat /\ TypeOK
  BY DEF OpsTypeOK
<1>2. Owed(Accrued(u)) \in Nat
  BY <1>1, OwedNat
<1>3. Min({allowance, purse}) <= allowance /\ Min({allowance, purse}) <= purse
      /\ Min({allowance, purse}) \in Nat
  BY <1>1, MinOfTwo
<1>4. Owed(Accrued(u)) <= Min({allowance, purse})
  BY DEF Covered
<1>. QED
  BY <1>1, <1>2, <1>3, <1>4

\* Moving one cycle to a well-formed state keeps them all well-formed.
LEMMA CycleMoved ==
  ASSUME OpsTypeOK, NEW c \in Cycles, NEW cycle \in CycleStates,
         cycle.step = "idle" <=> cycle.todo = <<>>, MoveTo(c, cycle)
  PROVE  /\ cycles' \in [Cycles -> CycleStates]
         /\ \A d \in Cycles : cycles'[d].step = "idle" <=> cycles'[d].todo = <<>>
<1>1. cycles \in [Cycles -> CycleStates]
  BY DEF OpsTypeOK
<1>2. \A d \in Cycles : cycles[d].step = "idle" <=> cycles[d].todo = <<>>
  BY DEF OpsTypeOK
<1>3. cycles' = [cycles EXCEPT ![c] = cycle]
  BY DEF MoveTo
<1>. QED
  BY ONLY <1>1, <1>2, <1>3, c \in Cycles, cycle \in CycleStates,
     cycle.step = "idle" <=> cycle.todo = <<>>

(***************************************************************************)
(* The bot's steps: on the cycles, the purse and the approval.             *)
(***************************************************************************)

BotTyped ==
  /\ cycles \in [Cycles -> CycleStates]
  /\ \A c \in Cycles : cycles[c].step = "idle" <=> cycles[c].todo = <<>>
  /\ log \in Seq(Borrowed) /\ purse \in Nat /\ allowance \in Nat

LEMMA BotUnmoved == ASSUME OpsTypeOK, UNCHANGED botVars PROVE BotTyped'
BY DEF OpsTypeOK, BotTyped, botVars

LEMMA ScanTyped ==
  ASSUME OpsTypeOK, NEW c \in Cycles, ScanEvents(c) PROVE BotTyped'
<1>1. PICK n \in 1..MaxTodo : \E found \in [1..n -> Borrowers] : MoveTo(c, Loop(found))
  BY DEF ScanEvents
<1>2. PICK found \in [1..n -> Borrowers] : MoveTo(c, Loop(found))
  BY <1>1
<1>3. n \in Nat
  BY BotAssumption
<1>4. found \in Seq(Borrowers)
  BY <1>3
<1>5. UNCHANGED <<log, purse, allowance>>
  BY DEF ScanEvents
<1>. QED
  BY <1>2, <1>4, <1>5, LoopTyped, CycleMoved DEF BotTyped, OpsTypeOK

LEMMA OnwardTyped ==
  ASSUME OpsTypeOK, NEW c \in Cycles, cycles[c].step # "idle", MoveTo(c, Onward(c))
  PROVE  /\ cycles' \in [Cycles -> CycleStates]
         /\ \A d \in Cycles : cycles'[d].step = "idle" <=> cycles'[d].todo = <<>>
BY BorrowerAtHand, LoopTyped, CycleMoved DEF Onward

LEMMA AdvancedCycle ==
  ASSUME NEW cycle \in CycleStates, NEW step \in Steps, NEW debt \in Nat
  PROVE  [cycle EXCEPT !.step = step, !.debt = debt]
           = [step |-> step, todo |-> cycle.todo, debt |-> debt]
<1> DEFINE next == [cycle EXCEPT !.step = step, !.debt = debt]
<1>1. next \in CycleStates
  BY DEF CycleStates
<1>2. next.step = step /\ next.todo = cycle.todo /\ next.debt = debt
  BY DEF CycleStates
<1> HIDE DEF next
<1>3. next = [step |-> next.step, todo |-> next.todo, debt |-> next.debt]
  BY <1>1 DEF CycleStates
<1>. QED
  BY <1>2, <1>3 DEF next

\* A cycle gets to the approval or the payment with its list as it is.
LEMMA AdvanceTyped ==
  ASSUME OpsTypeOK, NEW c \in Cycles, cycles[c].step # "idle",
         NEW step \in Steps \ {"idle"}, NEW debt \in Nat,
         MoveTo(c, [cycles[c] EXCEPT !.step = step, !.debt = debt])
  PROVE  /\ cycles' \in [Cycles -> CycleStates]
         /\ \A d \in Cycles : cycles'[d].step = "idle" <=> cycles'[d].todo = <<>>
<1> DEFINE cycle == [cycles[c] EXCEPT !.step = step, !.debt = debt]
<1>1. cycles[c] \in CycleStates /\ cycles[c].todo # <<>>
  BY BorrowerAtHand DEF OpsTypeOK
<1>2. cycle = [step |-> step, todo |-> cycles[c].todo, debt |-> debt]
  BY <1>1, AdvancedCycle
<1>3. cycle \in CycleStates /\ cycle.step # "idle" /\ cycle.todo # <<>>
  BY <1>1, <1>2 DEF CycleStates
<1> HIDE DEF cycle
<1>4. MoveTo(c, cycle)
  BY DEF cycle
<1>. QED
  BY <1>3, <1>4, CycleMoved

LEMMA ReadTyped ==
  ASSUME OpsTypeOK, NEW c \in Cycles, ReadPosition(c) PROVE BotTyped'
<1>1. cycles[c].step # "idle" /\ TypeOK /\ At(c) \in Borrowers
  BY BorrowerAtHand DEF ReadPosition, OpsTypeOK
<1>2. log' = log /\ purse' = purse /\ allowance' = allowance
  BY DEF ReadPosition
<1>3. CASE MoveTo(c, Onward(c))
  BY <1>1, <1>2, <1>3, OnwardTyped DEF BotTyped, OpsTypeOK
<1>4. CASE MoveTo(c, [cycles[c] EXCEPT !.step = "approving", !.debt = Owed(Accrued(At(c)))])
  BY <1>1, <1>2, <1>4, OwedNat, AdvanceTyped DEF BotTyped, OpsTypeOK, Steps
<1>. QED
  BY <1>3, <1>4 DEF ReadPosition

LEMMA ApproveTyped ==
  ASSUME OpsTypeOK, NEW c \in Cycles, ApproveMined(c) PROVE BotTyped'
<1>1. cycles[c].step # "idle" /\ cycles[c] \in CycleStates
  BY DEF ApproveMined, OpsTypeOK
<1>2. cycles[c].debt \in Nat
  BY <1>1 DEF CycleStates
<1>3. [cycles[c] EXCEPT !.step = "paying"]
        = [cycles[c] EXCEPT !.step = "paying", !.debt = cycles[c].debt]
  BY <1>1 DEF CycleStates
<1>4. MoveTo(c, [cycles[c] EXCEPT !.step = "paying", !.debt = cycles[c].debt])
  <2>1. MoveTo(c, [cycles[c] EXCEPT !.step = "paying"])
    BY DEF ApproveMined
  <2>. QED
    BY ONLY <1>3, <2>1
<1>5. "paying" \in Steps \ {"idle"}
  BY DEF Steps
<1>6. /\ cycles' \in [Cycles -> CycleStates]
      /\ \A d \in Cycles : cycles'[d].step = "idle" <=> cycles'[d].todo = <<>>
  BY <1>1, <1>2, <1>4, <1>5, AdvanceTyped
<1>. QED
  BY <1>2, <1>6 DEF ApproveMined, BotTyped, OpsTypeOK

LEMMA LiquidateMinedTyped ==
  ASSUME OpsTypeOK, NEW c \in Cycles, LiquidateMined(c) PROVE BotTyped'
<1>1. cycles[c].step # "idle" /\ Covered(At(c)) /\ MoveTo(c, Onward(c))
      /\ purse' = purse - Owed(Accrued(At(c)))
      /\ allowance' = allowance - Owed(Accrued(At(c)))
      /\ log' = log
  BY DEF LiquidateMined, Cleared, Onward
<1>2. At(c) \in Borrowers
  BY <1>1, BorrowerAtHand
<1>. QED
  BY <1>1, <1>2, CoveredTwice, OnwardTyped DEF BotTyped, OpsTypeOK

LEMMA GivesUpTyped ==
  ASSUME OpsTypeOK, NEW c \in Cycles, LiquidateReverts(c) \/ CycleFault(c) PROVE BotTyped'
<1>1. cycles[c].step # "idle" /\ UNCHANGED <<log, purse, allowance>>
  BY DEF LiquidateReverts, CycleFault, TransactionFails, CycleDies
<1>2. MoveTo(c, Onward(c)) \/ MoveTo(c, Idle)
  BY DEF LiquidateReverts, CycleFault, TransactionFails, CycleDies
<1>. QED
  BY <1>1, <1>2, OnwardTyped, IdleTyped, CycleMoved DEF BotTyped, OpsTypeOK

LEMMA LoggedTyped ==
  ASSUME OpsTypeOK, NEW u \in Borrowers,
         NEW collateral \in Collaterals, NEW amount \in Amounts,
         BorrowLogged(u, collateral, amount)
  PROVE  BotTyped'
<1>1. [user |-> u, block |-> height] \in Borrowed
  BY DEF OpsTypeOK, TypeOK, Borrowed
<1>. QED
  BY <1>1 DEF BorrowLogged, BotTyped, OpsTypeOK

(***************************************************************************)
(* The price keeper's steps: on the feeds and on the run under way.        *)
(***************************************************************************)

KeeperTyped == quotes \in [Feeds -> Prices \cup {Down}] /\ sync \in Syncs

LEMMA KeeperUnmoved == ASSUME OpsTypeOK, UNCHANGED priceKeeperVars PROVE KeeperTyped'
BY DEF OpsTypeOK, KeeperTyped, priceKeeperVars

LEMMA MarketPriceTyped == ASSUME OpsTypeOK PROVE MarketPrice \in Prices \cup {Down}
BY DEF OpsTypeOK, MarketPrice, Feeds

LEMMA SyncTyped == ASSUME OpsTypeOK, SyncStep \/ SyncDies PROVE KeeperTyped'
<1>1. quotes' = quotes /\ sync \in Syncs /\ quotes \in [Feeds -> Prices \cup {Down}]
  BY DEF SyncStep, SyncDies, FetchMarketPrice, ReadOracle, SetPriceMined, OpsTypeOK
<1>2. NoSync \in Syncs
  BY DEF NoSync, Syncs
<1>3. sync' \in Syncs
  <2>1. CASE FetchMarketPrice
    BY <2>1, MarketPriceTyped DEF FetchMarketPrice, Syncs
  <2>2. CASE ReadOracle
    BY <1>1, <1>2, <2>2 DEF ReadOracle, Syncs
  <2>3. CASE SetPriceMined \/ SyncDies
    BY <1>2, <2>3 DEF SetPriceMined, SyncDies
  <2>. QED
    BY <2>1, <2>2, <2>3 DEF SyncStep
<1>. QED
  BY <1>1, <1>3 DEF KeeperTyped

(***************************************************************************)
(* Every step of the processes is a step of the pool, or leaves it alone.  *)
(***************************************************************************)

\* What the keeper sends, from a run or by hand, is a price there can be.
LEMMA KeeperSendsPrices ==
  ASSUME OpsTypeOK, SetPriceMined \/ UpdatePrice
  PROVE  UNCHANGED vars \/ \E price \in Prices : KeeperSetsPrice(price)
<1>1. CASE UpdatePrice
  <2>1. FetchEthPriceUsd \in Prices
    BY KeeperAssumption DEF FetchEthPriceUsd, OpsTypeOK, Feeds
  <2>. QED
    BY <1>1, <2>1 DEF UpdatePrice
<1>2. CASE SetPriceMined
  <2>1. sync.price \in Prices \cup {0}
    BY DEF OpsTypeOK, Syncs, Down
  <2>2. KeeperSetsPrice(sync.price) => sync.price # 0
    BY DEF KeeperSetsPrice, Oracle!SetPrice
  <2>. QED
    BY <1>2, <2>1, <2>2 DEF SetPriceMined
<1>. QED
  BY <1>1, <1>2

LEMMA SyncMovesPool ==
  ASSUME OpsTypeOK, SyncStep \/ SyncDies \/ UpdatePrice PROVE [Next]_vars
<1>1. CASE SetPriceMined \/ UpdatePrice
  BY <1>1, KeeperSendsPrices DEF Next, WorldNext
<1>2. CASE FetchMarketPrice \/ ReadOracle \/ SyncDies
  BY <1>2 DEF FetchMarketPrice, ReadOracle, SyncDies
<1>. QED
  BY <1>1, <1>2 DEF SyncStep

LEMMA CycleMovesPool ==
  ASSUME OpsTypeOK, NEW c \in Cycles, CycleStep(c) \/ CycleFault(c) PROVE [Next]_vars
<1>1. CASE LiquidateMined(c)
  <2>1. Liquidate(At(c)) /\ At(c) \in Borrowers
    BY <1>1, BorrowerAtHand DEF LiquidateMined, Cleared
  <2>2. BorrowerNext
    BY <2>1 DEF BorrowerNext
  <2>. QED
    BY <2>2 DEF Next
<1>2. CASE ~LiquidateMined(c)
  <2>1. UNCHANGED vars
    BY <1>2 DEF CycleStep, CycleFault, ScanEvents, ReadPosition, ApproveMined,
       LiquidateReverts, TransactionFails, CycleDies
  <2>. QED
    BY <2>1
<1>. QED
  BY <1>1, <1>2

LEMMA StepsArePoolSteps == ASSUME OpsTypeOK, [OpsNext]_opsVars PROVE [Next]_vars
<1>1. CASE Borrowing
  BY <1>1 DEF Borrowing, BorrowLogged, Next, BorrowerNext
<1>2. CASE OtherCalls
  BY <1>2 DEF OtherCalls, Next, BorrowerNext
<1>3. CASE HarvestLending
  BY <1>3 DEF HarvestLending, Next, AdminNext
<1>4. CASE PriceScript
  BY <1>4, SyncMovesPool DEF PriceScript
<1>5. CASE FeedsChange
  BY <1>5 DEF FeedsChange, MarketMoves
<1>6. CASE ChainMoves
  BY <1>6 DEF ChainMoves, Next, WorldNext
<1>7. CASE SyncRuns
  BY <1>7, SyncMovesPool DEF SyncRuns
<1>8. CASE \E c \in Cycles : CycleRuns(c)
  BY <1>8, CycleMovesPool DEF CycleRuns
<1>9. CASE Fault
  BY <1>9, SyncMovesPool, CycleMovesPool DEF Fault
<1>10. CASE UNCHANGED opsVars
  BY <1>10 DEF opsVars
<1>. QED
  BY <1>1, <1>2, <1>3, <1>4, <1>5, <1>6, <1>7, <1>8, <1>9, <1>10 DEF OpsNext

(***************************************************************************)
(* Type correctness of the whole, and what it brings.                      *)
(***************************************************************************)

LEMMA EventCounted == ASSUME events \in 0..MaxEvents, Event PROVE events' \in 0..MaxEvents
BY OperationsAssumption DEF Event

LEMMA OpsTypeNext == ASSUME OpsTypeOK, [OpsNext]_opsVars PROVE OpsTypeOK'
<1>1. TypeOK'
  BY StepsArePoolSteps, NextKeepsTypes DEF OpsTypeOK
<1>2. events' \in 0..MaxEvents
  <2>1. events \in 0..MaxEvents
    BY DEF OpsTypeOK
  <2>2. Event \/ events' = events
    BY DEF OpsNext, Borrowing, OtherCalls, HarvestLending, PriceScript, FeedsChange,
       ChainMoves, SyncRuns, CycleRuns, Fault, opsVars, offChain
  <2>. QED
    BY <2>1, <2>2, EventCounted
<1>3. KeeperTyped'
  <2>1. CASE UNCHANGED priceKeeperVars
    BY <2>1, KeeperUnmoved
  <2>2. CASE FeedsChange
    BY <2>2 DEF FeedsChange, MarketMoves, KeeperTyped, OpsTypeOK
  <2>3. CASE SyncStep \/ SyncDies
    BY <2>3, SyncTyped
  <2>. QED
    BY <2>1, <2>2, <2>3 DEF OpsNext, Borrowing, OtherCalls, HarvestLending, PriceScript,
       UpdatePrice, ChainMoves, SyncRuns, CycleRuns, Fault, opsVars, offChain
<1>4. BotTyped'
  <2>1. CASE UNCHANGED botVars
    BY <2>1, BotUnmoved
  <2>2. CASE Borrowing
    BY <2>2, LoggedTyped DEF Borrowing
  <2>3. ASSUME NEW c \in Cycles, CycleStep(c) \/ CycleFault(c) PROVE BotTyped'
    BY <2>3, ScanTyped, ReadTyped, ApproveTyped, LiquidateMinedTyped, GivesUpTyped
       DEF CycleStep
  <2>. QED
    BY <2>1, <2>2, <2>3 DEF OpsNext, OtherCalls, HarvestLending, PriceScript, FeedsChange,
       ChainMoves, SyncRuns, CycleRuns, Fault, opsVars, offChain
<1>. QED
  BY <1>1, <1>2, <1>3, <1>4 DEF OpsTypeOK, KeeperTyped, BotTyped

\* the specification without the fairness, which no step needs
LEMMA OpsSteps == OpsSpec => OpsInit /\ [][OpsNext]_opsVars
BY PTL DEF OpsSpec

\* Whatever the keeper's runs, the overlapping cycles and their faults do to
\* each other, a cycle that has a step to take has a borrower to take it on,
\* and neither the purse nor the approval the cycles share is taken below zero.
THEOREM OpsTypeCorrect == OpsSpec => []OpsTypeOK
<1>1. OpsTypeOK /\ [OpsNext]_opsVars => OpsTypeOK'
  BY OpsTypeNext
<1>. QED
  BY <1>1, OpsTypeInit, OpsSteps, PTL

\* The processes make the pool take no step of their own invention: each of
\* theirs is a call the pool's specification knows, by somebody it may come
\* from and with arguments it may have, or leaves the pool alone.
THEOREM ProcessesCallThePool == OpsSpec => [][Next]_vars
<1>1. OpsTypeOK /\ [OpsNext]_opsVars => [Next]_vars
  BY StepsArePoolSteps
<1>. QED
  BY <1>1, OpsTypeCorrect, OpsSteps, PTL

(***************************************************************************)
(* So the pool keeps with the processes around what it promises alone.     *)
(***************************************************************************)

LEMMA StartSettled ==
  OpsInit => BaselinesBelowAccumulator /\ NoInterestWithoutPrincipal /\ NeverArmed
<1> SUFFICES ASSUME OpsInit
             PROVE  BaselinesBelowAccumulator /\ NoInterestWithoutPrincipal /\ NeverArmed
  OBVIOUS
<1>1. TypeOK /\ PoolWithLoans
  BY LoansAreTyped DEF OpsInit
<1>2. NeverArmed
  BY <1>1 DEF PoolWithLoans, NeverArmed
<1>3. \A u \in Suppliers : suppliers[u].rewardDebt = 0
  BY <1>1 DEF PoolWithLoans, NoSupply
<1>4. \A u \in Suppliers : Entitlement(suppliers[u].amount, accInterestPerShare) \in Nat
  BY <1>1, EntitlementNat DEF TypeOK, SupplyPosition
<1>5. \A u \in Borrowers : borrowers[u].interestOwed = 0
  BY <1>1 DEF PoolWithLoans, NoPosition
<1>. QED
  BY <1>2, <1>3, <1>4, <1>5 DEF BaselinesBelowAccumulator, NoInterestWithoutPrincipal

\* Liquidations by the bot's overlapping cycles and by others, fees withdrawn
\* beside them, prices pushed late or by hand: no debt is forgiven, no interest
\* is left without its principal, nobody's yield moves but with interest and
\* nobody's settlement reverts, and calls sink no settled position.
THEOREM PoolKeepsItsPromises ==
  OpsSpec => /\ []SettlingNeverReverts
             /\ []NoInterestWithoutPrincipal
             /\ DebtFallsOnlyByPayment
             /\ YieldMovesOnlyWithInterest
             /\ OnlyTheWorldSinksPositions
<1>1. OpsSpec => []TypeOK
  <2>1. OpsTypeOK => TypeOK
    BY DEF OpsTypeOK
  <2>. QED
    BY <2>1, OpsTypeCorrect, PTL
<1>2. BaselinesBelowAccumulator => SettlingNeverReverts
  BY DEF BaselinesBelowAccumulator, SettlingNeverReverts, Settleable
<1>3. OpsSpec => []BaselinesBelowAccumulator /\ []NoInterestWithoutPrincipal
  BY <1>1, OpsSteps, StartSettled, ProcessesCallThePool, BaselinesNext, NoInterestNext, PTL
<1>. QED
  BY <1>1, <1>2, <1>3, ProcessesCallThePool, StepsForgiveNothing, StepsKeepYield,
     StepsSinkNobody, PTL

\* The bot checks no score and takes what getBorrowerPosition calls
\* liquidatable; still none of its cycles, nor anybody else, liquidates a
\* borrower whose score is 800 or more.
THEOREM HighScoresEscapeTheBot == OpsSpec => HighScoreNeverLiquidated
<1>1. OpsSpec => [](TypeOK /\ NeverArmed)
  <2>1. OpsTypeOK => TypeOK
    BY DEF OpsTypeOK
  <2>. QED
    BY <2>1, OpsTypeCorrect, OpsSteps, StartSettled, ProcessesCallThePool,
       NeverArmedNext, PTL
<1>. QED
  BY <1>1, ProcessesCallThePool, StepsSpareHighScores, PTL
=============================================================================

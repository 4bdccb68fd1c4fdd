--------------------------- MODULE LiquidationBot ---------------------------
(***************************************************************************)
(* liquidation-bot.ts beside the pool: a cycle collects the borrowers of   *)
(* recent Borrowed events and, for each, reads the position, checks its    *)
(* own QUSDC, approves what it read, and calls liquidate.  setInterval     *)
(* starts the next cycle whether or not the last has ended, so cycles may  *)
(* overlap; they share one account, its balance and its allowance.         *)
(***************************************************************************)
EXTENDS LendingPool, SequencesExt

CONSTANTS
  Cycles,        \* cycles that can be under way at the same time
  SCAN_BLOCKS,   \* how far back a cycle looks for Borrowed events
  Purses,        \* QUSDC the bot may start with
  MaxTodo        \* bound of the model: borrowers ahead of all cycles together

ASSUME BotAssumption == SCAN_BLOCKS \in Nat /\ Purses \subseteq Nat /\ MaxTodo \in Nat

VARIABLES
  log,           \* the Borrowed events: user and block
  cycles,        \* cycle -> its step, the borrowers still to do (the first is
                 \* the one at hand), and the debt it read of that one
  purse,         \* QUSDC of the keeper account
  allowance      \* what the pool may take of it

botVars == <<log, cycles, purse, allowance>>

Borrowed == [user : Borrowers, block : Nat]
Steps == {"idle", "checking", "approving", "paying"}
CycleStates == [step : Steps, todo : Seq(Borrowers), debt : Nat]
Idle == [step |-> "idle", todo |-> <<>>, debt |-> 0]

\* the borrower at hand
At(c) == Head(cycles[c].todo)

MoveTo(c, cycle) == cycles' = [cycles EXCEPT ![c] = cycle]

\* mutant: a cycle that has done everybody does not end
LoopForever(todo) == [Idle EXCEPT !.step = "checking", !.todo = todo]

\* a loop over these borrowers, which is complete when there are none
Loop(todo) == IF todo = <<>> THEN Idle ELSE [Idle EXCEPT !.step = "checking", !.todo = todo]

\* within the last SCAN_BLOCKS blocks, both ends included
Scanned(event) == event.block >= height - SCAN_BLOCKS

\* where the scanned events of a user are in the log
Seen(u) == {i \in DOMAIN log : log[i].user = u /\ Scanned(log[i])}

\* the Set of their users, spread: each once, in the order found
InOrderFound(found) ==
  /\ Range(found) = {u \in Borrowers : Seen(u) # {}}
  /\ \A i, j \in DOMAIN found : i < j => Min(Seen(found[i])) < Min(Seen(found[j]))

Busy == LET ahead(c) == Len(cycles[c].todo) IN MapThenSumSet(ahead, Cycles)

\* getBlockNumber and getLogs; without borrowers the cycle is complete at once
ScanEvents(c) ==
  /\ cycles[c].step = "idle"
  /\ \E n \in 1..MaxTodo : \E found \in [1..n -> Borrowers] :
       Busy + n <= MaxTodo /\ InOrderFound(found) /\ MoveTo(c, Loop(found))
  /\ UNCHANGED <<vars, log, purse, allowance>>

\* the loop's next round
Onward(c) == Loop(Tail(cycles[c].todo))

\* the balance check
Payable(u) == Owed(Accrued(u)) <= purse

\* getBorrowerPosition and balanceOf, as of the latest block: borrowers without
\* debt or in good health, and debts beyond the purse, are passed over.  (Only
\* another cycle's payment could come between the two reads; here it comes
\* before or after both.)
ReadPosition(c) ==
  LET u == At(c) IN
  /\ cycles[c].step = "checking"
  /\ MoveTo(c, IF borrowers[u].principal # 0 /\ Underwater(u) /\ Payable(u)
               THEN [cycles[c] EXCEPT !.step = "approving", !.debt = Owed(Accrued(u))]
               ELSE Onward(c))
  /\ UNCHANGED <<vars, log, purse, allowance>>

\* the approval is mined; an ERC-20 approval replaces the one before
ApproveMined(c) ==
  /\ cycles[c].step = "approving"
  /\ allowance' = cycles[c].debt
  /\ MoveTo(c, [cycles[c] EXCEPT !.step = "paying"])
  /\ UNCHANGED <<vars, log, purse>>

\* safeTransferFrom inside liquidate takes what is owed by then
Covered(u) == Owed(Accrued(u)) <= Min({allowance, purse})

\* what liquidate checks before it takes the debt
Liquidatable(u) ==
  FreshPrice /\ borrowers[u].principal # 0 /\ Underwater(u) /\ GraceOver(u)

\* liquidate is mined on the borrower at hand
Cleared(u) ==
  /\ Covered(u)
  /\ Liquidate(u)
  /\ purse' = purse - Owed(Accrued(u))
  /\ allowance' = allowance - Owed(Accrued(u))

\* it takes effect, and the cycle goes on to the next borrower
LiquidateMined(c) ==
  /\ cycles[c].step = "paying"
  /\ Cleared(At(c))
  /\ MoveTo(c, Loop(Tail(cycles[c].todo)))
  /\ UNCHANGED log

\* or it reverts as a whole, which the cycle only logs
LiquidateReverts(c) ==
  /\ cycles[c].step = "paying"
  /\ ~(Covered(At(c)) /\ Liquidatable(At(c)))
  /\ MoveTo(c, Onward(c))
  /\ UNCHANGED <<vars, log, purse, allowance>>

\* the approval or the call fails to be sent or waited for: the catch logs it
\* and the cycle goes on
TransactionFails(c) ==
  /\ cycles[c].step \in {"approving", "paying"}
  /\ MoveTo(c, Onward(c))
  /\ UNCHANGED <<vars, log, purse, allowance>>

\* a read fails, or the process ends: the rest of the cycle is lost
CycleDies(c) ==
  /\ cycles[c].step # "idle"
  /\ MoveTo(c, Idle)
  /\ UNCHANGED <<vars, log, purse, allowance>>

\* a borrow as the bot sees it: the pool's step and its Borrowed event
BorrowLogged(u, collateral, amount) ==
  /\ Borrow(u, collateral, amount)
  /\ log' = Append(log, [user |-> u, block |-> height])
  /\ UNCHANGED <<cycles, purse, allowance>>

BotInit ==
  /\ cycles = [c \in Cycles |-> Idle]
  /\ purse \in Purses
  /\ allowance = 0

CycleStep(c) ==
  \/ ScanEvents(c) \/ ReadPosition(c) \/ ApproveMined(c)
  \/ LiquidateMined(c) \/ LiquidateReverts(c)

CycleFault(c) == TransactionFails(c) \/ CycleDies(c)
=============================================================================

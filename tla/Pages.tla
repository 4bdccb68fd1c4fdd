-------------------------------- MODULE Pages --------------------------------
(***************************************************************************)
(* One visitor on the money pages, his wallet, and the contracts his       *)
(* transactions reach.  A signed call is mined later, in nonce order, and  *)
(* any of them may revert; meanwhile time, prices, scores and harvests go  *)
(* on, and the pages show what they read at some earlier moment.           *)
(***************************************************************************)
EXTENDS StakePage

CONSTANTS
  InitialDeposit, MySupply,  \* what is in the pool, of somebody else's and the visitor's
  EarlierInterest, InitialPrice, InitialScore,
  KycAnswers,            \* whether the visitor may be verified, and may not be
  Purses,                \* what the account may start with
  MaxEvents, MaxReads    \* bounds of the model: what happens around the visit,
                         \* and how often the pages read again

ASSUME PagesAssumption ==
  /\ InitialDeposit \in Nat /\ MySupply \in Nat \ {0} /\ EarlierInterest \in Nat
  /\ InitialPrice \in Nat \ {0} /\ InitialScore \in Scores
  /\ KycAnswers \subseteq BOOLEAN /\ Purses \subseteq Nat

VARIABLES events, reads

contractVars == <<vars, allowance, stakeChainVars>>
screenVars == <<cached, quote, shown, form, stakePageVars>>
pageVars == <<contractVars, screenVars, walletVars, events, reads>>

\* a loan of somebody else's has been repaid with this interest
PagesInit ==
  /\ totalSupplied = InitialDeposit + MySupply
  /\ protocolFeeAccrued = ProtocolCut(EarlierInterest)
  /\ accInterestPerShare =
       ((EarlierInterest - ProtocolCut(EarlierInterest)) * ACC_PRECISION) \div totalSupplied
  /\ suppliers = [u \in Suppliers |->
                    [NoSupply EXCEPT !.amount = IF u = Me THEN MySupply ELSE InitialDeposit]]
  /\ totalBorrowed = 0
  /\ borrowers = [u \in Borrowers |-> NoPosition]
  /\ graceExpiry = [u \in Borrowers |-> 0]
  /\ paused = FALSE
  /\ qusdc = totalSupplied + EarlierInterest /\ weth = 0
  /\ scores = [u \in Borrowers |-> InitialScore]
  /\ now = 1 /\ height = 1
  /\ Oracle!Deploy(InitialPrice, now)
  /\ kycVerified \in [{Me} -> KycAnswers]
  /\ purse \in Purses
  /\ LendingPageInit /\ StakePageInit /\ WalletInit
  /\ events = 0 /\ reads = 0

(***************************************************************************)
(* The visitor.                                                            *)
(***************************************************************************)

\* a refetch that brings nothing new is a stutter
Reads ==
  /\ \/ GetPrice /\ UNCHANGED <<stakePageVars, stakeChainVars, reads>>
     \/ /\ reads < MaxReads /\ reads' = reads + 1
        /\ \/ Refetch /\ UNCHANGED <<stakePageVars, stakeChainVars>>
           \/ RefetchStake
        /\ <<shown', shownStake'>> # <<shown, shownStake>>
  /\ UNCHANGED events

Browse ==
  /\ \/ \E amount \in Amounts : TypeBorrow(amount)
     \/ \E collateral \in {Filled(form.borrow, 100), Filled(form.borrow, 125)} \cup Collaterals :
          FillCollateral(collateral)
     \/ LendingClick
  /\ UNCHANGED <<stakePageVars, stakeChainVars, events, reads>>

BrowseStake ==
  /\ FillStake \/ Review \/ LeaveReview \/ StakeClick
  /\ UNCHANGED <<events, reads>>

\* another page: its forms start empty, what was read stays in the query cache
Navigate ==
  /\ \E page \in PageNames \ {visit.page} : Mount(page)
  /\ form' = EmptyForm /\ stakeForm' = NoForm
  /\ UNCHANGED <<contractVars, cached, quote, shown, shownStake, events, reads>>

SignsCall ==
  \E n \in DOMAIN handlers :
    LET call == Head(handlers[n].calls).call IN
    /\ Sign(n)
    /\ \/ Concludes(n, "lending") /\ LendingConcludes(call) /\ UNCHANGED stakePageVars
       \/ Concludes(n, "stake") /\ StakeConcludes(call) /\ UNCHANGED <<form, shown>>
       \/ /\ Concludes(n, "dashboard")
          /\ shown' = IF call = "claimSupplierYield" THEN [shown EXCEPT !.supply = SupplyView]
                      ELSE shown
          /\ shownStake' = IF call = "claimYield" THEN StakeView ELSE shownStake
          /\ UNCHANGED <<form, stakeForm>>
       \/ (\A page \in PageNames : ~Concludes(n, page))
            /\ UNCHANGED <<form, shown, stakePageVars>>
    /\ UNCHANGED <<contractVars, cached, quote, events, reads>>

DeclinesCall ==
  \E n \in DOMAIN handlers :
    /\ Decline(n)
    /\ IF handlers[n].visit = visit.count THEN StakeDeclined(Head(handlers[n].calls).call)
       ELSE UNCHANGED stakeForm
    /\ UNCHANGED <<contractVars, cached, quote, shown, form, shownStake, events, reads>>

(***************************************************************************)
(* The chain, and the world around the visit.                              *)
(***************************************************************************)

\* the next transaction of the account is mined: it takes effect or reverts
Mined ==
  /\ queue # <<>>
  /\ queue' = Tail(queue)
  /\ \/ LendingExecutes(Head(queue)) /\ UNCHANGED stakeChainVars
     \/ StakeExecutes(Head(queue)) /\ UNCHANGED <<vars, allowance>>
     \/ UNCHANGED contractVars
  /\ UNCHANGED <<visit, handlers, screenVars, events, reads>>

World ==
  /\ \/ /\ events < MaxEvents /\ events' = events + 1
        /\ \/ \E seconds \in TimeSteps : NextBlock(seconds)
           \/ \E score \in Scores \ {scores[Me]} : SetScore(Me, score)
           \/ \E price \in Prices : KeeperSetsPrice(price) \/ AdminForcesPrice(price)
        /\ UNCHANGED <<allowance, stakeChainVars>>
     \/ /\ events < MaxEvents /\ events' = events + 1
        /\ \E amount \in Harvests : Harvest(amount)
        /\ UNCHANGED <<vars, allowance>>
     \/ /\ positions[Me].principal > 0 /\ ~positions[Me].reputationOptIn /\ OptsIn
        /\ UNCHANGED <<vars, allowance, events>>
     \/ /\ Liquidate(Me)
        /\ UNCHANGED <<allowance, stakeChainVars, events>>
  /\ UNCHANGED <<screenVars, walletVars, reads>>

PagesNext == Reads \/ Browse \/ BrowseStake \/ Navigate \/ SignsCall \/ DeclinesCall \/ Mined \/ World

PagesSpec == PagesInit /\ [][PagesNext]_pageVars

(***************************************************************************)
(* Properties.                                                             *)
(***************************************************************************)

\* Type correctness: allowances, balances and what the forms hold are amounts,
\* and a handler never has more than two calls to make.
PagesTypeOK ==
  /\ allowance \in [qusdc : Nat, weth : Nat] /\ purse \in Nat
  /\ form \in [borrow : Nat, collateral : Nat] /\ quote \in Nat
  /\ shownStake.position \in Vault!StakePosition /\ shownStake.purse \in Nat
  /\ stakeForm.tier \in DOMAIN LOCK_TIERS /\ stakeForm.amount \in Nat
  /\ \A n \in DOMAIN handlers : Len(handlers[n].calls) <= 2
  /\ totalStaked = positions[Me].principal

Queued(call) == {n \in DOMAIN queue : queue[n].call = call}

\* past the limit even before the collateral's value is rounded down
OverLimit(pos, limit) ==
  Owed(pos) * BPS * PRICE_UNIT > limit * pos.collateral * ethUsdPrice

\* The collateral the form demands holds until the loan is mined: however long the
\* call waits, the first loan of an account is within the limit borrow sets, as long
\* as the page had read the oracle's price, that price has not fallen since and the
\* limit has not come down.  (For an account in debt the form promises too much: it
\* looks at the new amount alone.)
FirstLoanCovered ==
  \A n \in Queued("borrow") :
    LET tx == queue[n]
        limit == MaxLtvBps(scores[Me])
    IN
    /\ tx.oracle # 0 /\ tx.oracle <= ethUsdPrice /\ tx.ltvPct * 100 <= limit
    /\ borrowers[Me].principal = 0
    => ~OverLimit(Drawn(Accrued(Me), tx.collateral, tx.amount), limit)

\* A borrower is told that his loan-to-value has passed the threshold when it has,
\* and not before: the badge, the gauge's zone and the label of a fresh reading
\* agree with the threshold test liquidate makes after it has accrued the interest.
\* Whether the price is fresh enough for the call, and its branch for scores of 800
\* and more, the displays do not tell.
GaugeTellsLiquidation ==
  LET view == BorrowerView(Me)
      open == borrowers[Me].principal > 0 /\ Underwater(Me)
  IN  /\ (Badge(view) = "At Risk") <=> open
      /\ (HealthLabel(view) = "Danger") <=> open
      /\ (ActiveZone(view) = "Liquidated") <=> open

\* Nobody pays a fee he was not told: however long an exit waits to be mined,
\* it is charged at most what the page announced, unless a stake was mined
\* after the page's reading.
NeverMoreThanAnnounced ==
  \A n \in Queued("unstake") :
    queue[n].seen = stakes =>
      queue[n].amount * Vault!PenaltyRate(Me) <= queue[n].announced

Close(a, b, slack) == a - b <= slack /\ b - a <= slack

\* the score the vault counts
CountedScore ==
  IF positions[Me].reputationOptIn /\ kycVerified[Me] THEN scores[Me] ELSE 0

\* what rounding the shares down to whole QIE takes, after the score's factor and
\* after the lock's, and the rounding of the rate itself
RateSlack == 2 + (3 * globalBaseApyBps) \div positions[Me].principal

\* The pages' chain of factors is the vault's: given the score the vault counts,
\* which is the visitor's only once he is verified and has opted in, the rate the
\* stake page projects, the dashboard's breakdown and the calculator all are
\* getEffectiveAPY's for a position within the boost cap, up to the rounding.
RateIsOfTheCountedScore ==
  LET pos == positions[Me]
      score == CountedScore
  IN  pos.principal > 0 /\ pos.principal <= caps.standard =>
        /\ Close(ProjectedApyBps(score, pos.lockTier, globalBaseApyBps), EffectiveApyBps, RateSlack)
        /\ Close(BreakdownBps(score, pos.lockTier, globalBaseApyBps), EffectiveApyBps, RateSlack)
        /\ Close(CalculatorApyBps(Band(score), pos.lockTier, globalBaseApyBps),
                 EffectiveApyBps, RateSlack)
=============================================================================

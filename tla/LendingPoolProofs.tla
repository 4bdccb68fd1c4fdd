--------------------------- MODULE LendingPoolProofs ---------------------------
(***************************************************************************)
(* Theorems about the lending pool, for every set of accounts and every    *)
(* value of the constants that the assumptions admit.  First its types;    *)
(* then safety: what each step does to the supply side and to a borrower is*)
(* stated once, in two frame lemmas, and every theorem is read off them.   *)
(***************************************************************************)
EXTENDS LendingPool, TLAPS

(***************************************************************************)
(* Arithmetic of the contract: products and rounded-down quotients.        *)
(***************************************************************************)

LEMMA ProductNat == ASSUME NEW a \in Nat, NEW b \in Nat PROVE a * b \in Nat
  OBVIOUS

LEMMA QuotientNat == ASSUME NEW a \in Nat, NEW n \in Nat \ {0} PROVE a \div n \in Nat
  OBVIOUS

LEMMA ProductMonotone ==
  ASSUME NEW a \in Nat, NEW x \in Nat, NEW y \in Nat, x <= y
  PROVE  a * x <= a * y
  OBVIOUS

LEMMA QuotientMonotone ==
  ASSUME NEW x \in Nat, NEW y \in Nat, NEW n \in Nat \ {0}, x <= y
  PROVE  x \div n <= y \div n
  OBVIOUS

LEMMA MinOfTwo ==
  ASSUME NEW a \in Nat, NEW b \in Nat
  PROVE  /\ Min({a, b}) \in Nat
         /\ Min({a, b}) <= a
         /\ Min({a, b}) <= b
         /\ Min({a, b}) = a \/ Min({a, b}) = b
<1> DEFINE m == IF a <= b THEN a ELSE b
<1>1. m \in {a, b} /\ \A y \in {a, b} : m <= y
  OBVIOUS
<1>2. Min({a, b}) \in {a, b} /\ \A y \in {a, b} : Min({a, b}) <= y
  BY <1>1 DEF Min
<1>. QED
  BY <1>2

(***************************************************************************)
(* The rate curve, interest and the split of paid interest stay natural    *)
(* numbers.                                                                *)
(***************************************************************************)

LEMMA UtilisationNat ==
  ASSUME NEW b \in Nat, NEW s \in Nat PROVE UtilBps(b, s) \in Nat
BY DEF UtilBps, BPS

LEMMA BorrowRateNat == ASSUME NEW util \in Nat PROVE BorrowRateBps(util) \in Nat
BY DEF BorrowRateBps, Clamped, BPS, BASE_RATE_BPS, MULTIPLIER_BPS,
       JUMP_MULTIPLIER_BPS, KINK_BPS

LEMMA ScoresInRange == ASSUME NEW score \in Scores PROVE score \in 0..1000 /\ score \in Nat
<1>1. score \in 0..1000
  BY PoolAssumption
<1>2. score \in Nat
  BY ONLY <1>1
<1>. QED
  BY <1>1, <1>2

LEMMA ScoreTyped ==
  ASSUME TypeOK, NEW u \in Borrowers
  PROVE  scores[u] \in Scores /\ scores[u] \in 0..1000 /\ scores[u] \in Nat
<1>1. scores[u] \in Scores
  BY DEF TypeOK
<1>2. scores[u] \in 0..1000
  BY ONLY <1>1, ScoresInRange
<1>3. scores[u] \in Nat
  BY ONLY <1>1, ScoresInRange
<1>. QED
  BY ONLY <1>1, <1>2, <1>3

LEMMA PersonalRateNat ==
  ASSUME NEW util \in Nat, NEW score \in Nat
  PROVE  PersonalRateBps(util, score) \in Nat
<1>1. BorrowRateBps(util) \in Nat
  BY BorrowRateNat
<1>2. DiscountBps(score) \in {0, 300, 600, 900, 1200}
  BY DEF DiscountBps
<1>3. BPS - DiscountBps(score) \in Nat
  BY ONLY <1>2 DEF BPS
<1>4. BorrowRateBps(util) * (BPS - DiscountBps(score)) \in Nat
  BY <1>1, <1>3, ProductNat
<1>. QED
  BY <1>4, QuotientNat DEF PersonalRateBps, BPS

LEMMA InterestNat ==
  ASSUME NEW pos \in BorrowerPosition, NEW rate \in Nat, NEW elapsed \in Nat
  PROVE  InterestOver(pos, rate, elapsed) \in Nat
<1>1. SECONDS_PER_YEAR * BPS \in Nat \ {0}
  BY PoolAssumption DEF BPS
<1>2. pos.principal \in Nat
  BY DEF BorrowerPosition
<1>3. pos.principal * rate * elapsed \in Nat
  BY <1>2, ProductNat
<1>. QED
  BY <1>1, <1>3, QuotientNat DEF InterestOver

LEMMA CurrentRateNat ==
  ASSUME NEW lent \in Nat, NEW given \in Nat, NEW score \in Scores
  PROVE  PersonalRateBps(UtilBps(lent, given), score) \in Nat
<1>1. UtilBps(lent, given) \in Nat
  BY UtilisationNat
<1>2. score \in Nat
  BY ScoresInRange
<1>. QED
  BY ONLY <1>1, <1>2, PersonalRateNat

LEMMA RateNat ==
  ASSUME TypeOK, NEW u \in Borrowers PROVE CurrentRateBps(u) \in Nat
<1>1. totalBorrowed \in Nat /\ totalSupplied \in Nat /\ scores[u] \in Scores
  BY DEF TypeOK
<1>. QED
  BY ONLY <1>1, CurrentRateNat DEF CurrentRateBps

\* Settling a position changes nothing but its interest, which never falls,
\* and the time of its last accrual.
LEMMA AccruedPosition ==
  ASSUME TypeOK, NEW u \in Borrowers
  PROVE  /\ Accrued(u) \in BorrowerPosition
         /\ Accrued(u).collateral = borrowers[u].collateral
         /\ Accrued(u).principal = borrowers[u].principal
         /\ Accrued(u).interestOwed >= borrowers[u].interestOwed
         /\ Accrued(u).lastAccrual <= now
         /\ borrowers[u].principal = 0 => Accrued(u) = borrowers[u]
<1> DEFINE pos == borrowers[u]
           interest == InterestOver(pos, CurrentRateBps(u), now - pos.lastAccrual)
<1>1. pos \in BorrowerPosition /\ pos.lastAccrual <= now /\ now \in Nat
  BY DEF TypeOK
<1>2. CurrentRateBps(u) \in Nat
  BY RateNat
<1>3. now - pos.lastAccrual \in Nat
  BY <1>1 DEF BorrowerPosition
<1>4. interest \in Nat
  BY <1>1, <1>2, <1>3, InterestNat
<1>5. CASE pos.principal = 0 \/ pos.lastAccrual = 0
  BY <1>1, <1>5 DEF Accrued, BorrowerPosition
<1>6. CASE ~(pos.principal = 0 \/ pos.lastAccrual = 0)
  <2>1. Accrued(u) = [pos EXCEPT !.interestOwed = @ + interest, !.lastAccrual = now]
    BY <1>6 DEF Accrued
  <2>2. Accrued(u) = [collateral |-> pos.collateral, principal |-> pos.principal,
                      interestOwed |-> pos.interestOwed + interest,
                      lastAccrual |-> now, borrowBlock |-> pos.borrowBlock]
    BY <1>1, <2>1 DEF BorrowerPosition
  <2>. QED
    BY <1>1, <1>4, <1>6, <2>2 DEF BorrowerPosition
<1>. QED
  BY <1>5, <1>6

LEMMA EntitlementNat ==
  ASSUME NEW amount \in Nat, NEW acc \in Nat PROVE Entitlement(amount, acc) \in Nat
BY ProductNat, QuotientNat, PoolAssumption DEF Entitlement

\* A later accumulator never entitles a position to less.
LEMMA EntitlementMonotone ==
  ASSUME NEW amount \in Nat, NEW x \in Nat, NEW y \in Nat, x <= y
  PROVE  Entitlement(amount, x) <= Entitlement(amount, y)
<1>1. amount * x <= amount * y
  BY ProductMonotone
<1>2. amount * x \in Nat /\ amount * y \in Nat
  BY ProductNat
<1>. QED
  BY <1>1, <1>2, QuotientMonotone, PoolAssumption DEF Entitlement

LEMMA ClaimableNat ==
  ASSUME NEW pos \in SupplyPosition, accInterestPerShare \in Nat, Settleable(pos)
  PROVE  Unsettled(pos) \in Nat /\ Claimable(pos) \in Nat
<1>1. pos.amount \in Nat /\ pos.rewardDebt \in Nat /\ pos.pendingYield \in Nat
  BY DEF SupplyPosition
<1>2. Entitlement(pos.amount, accInterestPerShare) \in Nat
  BY <1>1, EntitlementNat
<1>3. Unsettled(pos) \in Nat
  BY <1>1, <1>2 DEF Unsettled, Settleable
<1>. QED
  BY <1>1, <1>3 DEF Claimable

LEMMA ResizedPosition ==
  ASSUME NEW pos \in SupplyPosition, accInterestPerShare \in Nat, Settleable(pos),
         NEW amount \in Nat
  PROVE  Resized(pos, amount) \in SupplyPosition
BY ClaimableNat, EntitlementNat DEF Resized, SupplyPosition

LEMMA CutOfInterest ==
  ASSUME NEW interest \in Nat
  PROVE  ProtocolCut(interest) \in Nat /\ ProtocolCut(interest) <= interest
BY DEF ProtocolCut, PROTOCOL_FEE_BPS, BPS

\* Paid interest only ever raises the treasury's claim and the accumulator.
LEMMA InterestRaises ==
  ASSUME TypeOK, NEW interest \in Nat, DistributeInterest(interest)
  PROVE  /\ protocolFeeAccrued' \in Nat
         /\ accInterestPerShare' \in Nat
         /\ accInterestPerShare <= accInterestPerShare'
<1> DEFINE share == interest - ProtocolCut(interest)
<1>1. ProtocolCut(interest) \in Nat /\ share \in Nat
  BY CutOfInterest
<1>2. share * ACC_PRECISION \in Nat
  BY <1>1, ProductNat, PoolAssumption
<1>3. totalSupplied > 0 => (share * ACC_PRECISION) \div totalSupplied \in Nat
  BY <1>2, QuotientNat DEF TypeOK
<1>. QED
  BY <1>1, <1>3 DEF DistributeInterest, TypeOK

\* A payment is never more than is owed, takes off exactly what was paid, and
\* touches principal only when no interest is left.
LEMMA RepaidPosition ==
  ASSUME NEW pos \in BorrowerPosition, NEW amount \in Nat, NEW paid,
         paid = Min({amount, Owed(pos)})
  PROVE  /\ paid \in Nat /\ InterestPart(pos, paid) \in Nat
         /\ paid - InterestPart(pos, paid) \in Nat
         /\ InterestPart(pos, paid) <= pos.interestOwed
         /\ Repaid(pos, paid) \in BorrowerPosition
         /\ Repaid(pos, paid).lastAccrual = pos.lastAccrual
         /\ Owed(Repaid(pos, paid)) = Owed(pos) - paid
         /\ pos.principal # 0 /\ Repaid(pos, paid).principal = 0
              => Repaid(pos, paid).interestOwed = 0
<1> DEFINE i == InterestPart(pos, paid)
<1>1. pos.principal \in Nat /\ pos.interestOwed \in Nat /\ Owed(pos) \in Nat
  BY DEF BorrowerPosition, Owed
<1>2. paid \in Nat /\ paid <= Owed(pos)
  BY <1>1, MinOfTwo
<1>3. i \in Nat /\ i <= paid /\ i <= pos.interestOwed /\ (i = paid \/ i = pos.interestOwed)
  BY <1>1, <1>2, MinOfTwo DEF InterestPart
<1>4. paid - i \in Nat /\ paid - i <= pos.principal
  BY <1>1, <1>2, <1>3 DEF Owed
<1>5. Repaid(pos, paid) = [collateral |-> pos.collateral,
                           principal |-> pos.principal - (paid - i),
                           interestOwed |-> pos.interestOwed - i,
                           lastAccrual |-> pos.lastAccrual,
                           borrowBlock |-> pos.borrowBlock]
  <2>1. Repaid(pos, paid) = [pos EXCEPT !.interestOwed = @ - i,
                                        !.principal = @ - (paid - i)]
    BY DEF Repaid
  <2> HIDE DEF i
  <2>. QED
    BY <2>1 DEF BorrowerPosition
<1>6. Repaid(pos, paid) \in BorrowerPosition
  BY <1>1, <1>3, <1>4, <1>5 DEF BorrowerPosition
<1>7. Owed(Repaid(pos, paid)) = Owed(pos) - paid
  BY <1>1, <1>2, <1>3, <1>5 DEF Owed
<1>8. pos.principal # 0 /\ Repaid(pos, paid).principal = 0
        => Repaid(pos, paid).interestOwed = 0
  BY <1>1, <1>2, <1>3, <1>5
<1>. QED
  BY <1>2, <1>3, <1>4, <1>5, <1>6, <1>7, <1>8

LEMMA DrawnPosition ==
  ASSUME TypeOK, NEW pos \in BorrowerPosition, pos.lastAccrual <= now,
         NEW collateral \in Nat, NEW amount \in Nat
  PROVE  /\ Drawn(pos, collateral, amount) \in BorrowerPosition
         /\ Drawn(pos, collateral, amount).lastAccrual <= now
BY DEF Drawn, BorrowerPosition, TypeOK

(***************************************************************************)
(* Type correctness.  A subtraction the contract makes never goes below    *)
(* zero, time of the last accrual and of the last price never lies ahead   *)
(* of the block, and the price is never zero.                              *)
(***************************************************************************)

LEMMA TypeInit == Init => TypeOK
<1> SUFFICES ASSUME Init PROVE TypeOK
  OBVIOUS
<1>1. ethUsdPrice \in Nat \ {0} /\ updatedAt = now /\ now = 1 /\ height = 1
  BY PoolAssumption DEF Init, Oracle!Deploy
<1>2. suppliers \in [Suppliers -> SupplyPosition]
  BY DEF Init, NoSupply, SupplyPosition
<1>3. borrowers \in [Borrowers -> BorrowerPosition]
  BY DEF Init, NoPosition, BorrowerPosition
<1>4. \A u \in Borrowers : borrowers[u].lastAccrual <= now
  BY <1>1 DEF Init, NoPosition
<1>5. graceExpiry \in [Borrowers -> Nat]
  BY DEF Init
<1>6. scores \in [Borrowers -> Scores]
  BY PoolAssumption DEF Init
<1>7. /\ totalSupplied = 0 /\ accInterestPerShare = 0 /\ protocolFeeAccrued = 0
      /\ totalBorrowed = 0 /\ qusdc = 0 /\ weth = 0
  BY DEF Init
<1>8. paused \in BOOLEAN
  BY DEF Init
<1>. QED
  BY <1>1, <1>2, <1>3, <1>4, <1>5, <1>6, <1>7, <1>8 DEF TypeOK

LEMMA SupplierCallsKeepTypes ==
  ASSUME TypeOK, NEW u \in Suppliers,
         \/ \E amount \in Nat : Supply(u, amount) \/ Redeem(u, amount)
         \/ ClaimSupplierYield(u)
  PROVE  TypeOK'
<1> DEFINE pos == suppliers[u]
<1>1. pos \in SupplyPosition /\ pos.amount \in Nat /\ accInterestPerShare \in Nat
  BY DEF TypeOK, SupplyPosition
<1>2. UNCHANGED <<borrowVars, weth, outside>> => UNCHANGED <<totalBorrowed, borrowers,
        graceExpiry, weth, paused, scores, ethUsdPrice, updatedAt, now, height>>
  BY DEF borrowVars, outside, oracleVars, chainVars
<1>3. ASSUME NEW amount \in Nat, Supply(u, amount) PROVE TypeOK'
  <2>2. Resized(pos, pos.amount + amount) \in SupplyPosition
    BY <1>1, <1>3, ResizedPosition DEF Supply
  <2>. QED
    BY <1>2, <1>3, <2>2 DEF Supply, TypeOK
<1>4. ASSUME NEW amount \in Nat, Redeem(u, amount) PROVE TypeOK'
  <2>1. pos.amount - amount \in Nat /\ qusdc - amount \in Nat
    BY <1>1, <1>4 DEF Redeem, TypeOK
  <2>2. Resized(pos, pos.amount - amount) \in SupplyPosition
    BY <1>1, <1>4, <2>1, ResizedPosition DEF Redeem
  <2>. QED
    BY <1>2, <1>4, <2>1, <2>2 DEF Redeem, TypeOK
<1>5. CASE ClaimSupplierYield(u)
  <2>1. Resized(pos, pos.amount) \in SupplyPosition /\ Claimable(pos) \in Nat
    BY <1>1, <1>5, ResizedPosition, ClaimableNat DEF ClaimSupplierYield
  <2>2. [Resized(pos, pos.amount) EXCEPT !.pendingYield = 0] \in SupplyPosition
    BY <2>1 DEF SupplyPosition
  <2>. QED
    BY <1>2, <1>5, <2>1, <2>2 DEF ClaimSupplierYield, TypeOK
<1>. QED
  BY <1>3, <1>4, <1>5

LEMMA SupplierStepsKeepTypes == TypeOK /\ SupplierNext => TypeOK'
BY SupplierCallsKeepTypes, PoolAssumption DEF SupplierNext

\* Replacing one position by a well-formed one keeps the book well-formed.
LEMMA PositionReplaced ==
  ASSUME TypeOK, NEW u \in Borrowers, NEW pos \in BorrowerPosition,
         pos.lastAccrual <= now, now' = now,
         borrowers' = [borrowers EXCEPT ![u] = pos]
  PROVE  /\ borrowers' \in [Borrowers -> BorrowerPosition]
         /\ \A v \in Borrowers : borrowers'[v].lastAccrual <= now'
BY DEF TypeOK

LEMMA BorrowKeepsTypes ==
  ASSUME TypeOK, NEW u \in Borrowers, NEW collateral \in Nat,
         NEW amount \in Nat, Borrow(u, collateral, amount)
  PROVE  TypeOK'
<1> DEFINE pos == Drawn(Accrued(u), collateral, amount)
<1>1. collateral \in Nat /\ amount \in Nat
  BY PoolAssumption
<1>2. pos \in BorrowerPosition /\ pos.lastAccrual <= now
  BY <1>1, AccruedPosition, DrawnPosition
<1>3. /\ borrowers' = [borrowers EXCEPT ![u] = pos]
      /\ totalBorrowed' = totalBorrowed + amount
      /\ protocolFeeAccrued + amount <= qusdc /\ qusdc' = qusdc - amount
      /\ weth' = weth + collateral
      /\ UNCHANGED <<totalSupplied, accInterestPerShare, protocolFeeAccrued,
            suppliers, graceExpiry, paused, scores, ethUsdPrice, updatedAt, now, height>>
  BY DEF Borrow, supplyVars, outside, oracleVars, chainVars
<1>4. qusdc' \in Nat
  BY <1>1, <1>3 DEF TypeOK
<1>5. /\ borrowers' \in [Borrowers -> BorrowerPosition]
      /\ \A v \in Borrowers : borrowers'[v].lastAccrual <= now'
  BY <1>2, <1>3, PositionReplaced
<1>. QED
  BY <1>1, <1>3, <1>4, <1>5 DEF TypeOK

LEMMA RepayKeepsTypes ==
  ASSUME TypeOK, NEW u \in Borrowers, NEW amount \in Nat, Repay(u, amount)
  PROVE  TypeOK'
<1> DEFINE pos == Accrued(u)
           paid == Min({amount, Owed(pos)})
           interestPaid == InterestPart(pos, paid)
           left == Repaid(pos, paid)
<1>1. amount \in Nat /\ pos \in BorrowerPosition /\ pos.lastAccrual <= now
  BY PoolAssumption, AccruedPosition
<1>2. /\ paid \in Nat /\ interestPaid \in Nat /\ paid - interestPaid \in Nat
      /\ left \in BorrowerPosition /\ left.lastAccrual <= now
  BY <1>1, RepaidPosition
<1>3. /\ paid - interestPaid <= totalBorrowed
      /\ totalBorrowed' = totalBorrowed - (paid - interestPaid)
      /\ borrowers' = [borrowers EXCEPT ![u] = left]
      /\ DistributeInterest(interestPaid)
      /\ graceExpiry' = [graceExpiry EXCEPT ![u] = IF Owed(left) = 0 THEN 0 ELSE @]
      /\ qusdc' = qusdc + paid
      /\ UNCHANGED <<weth, paused, scores, ethUsdPrice, updatedAt, now, height>>
  BY DEF Repay, outside, oracleVars, chainVars
<1>4. protocolFeeAccrued' \in Nat /\ accInterestPerShare' \in Nat
      /\ UNCHANGED <<totalSupplied, suppliers>>
  BY <1>2, <1>3, InterestRaises DEF DistributeInterest
<1>5. /\ borrowers' \in [Borrowers -> BorrowerPosition]
      /\ \A v \in Borrowers : borrowers'[v].lastAccrual <= now'
  BY <1>2, <1>3, PositionReplaced
<1>6. graceExpiry' \in [Borrowers -> Nat]
  BY <1>3 DEF TypeOK
<1>7. totalBorrowed' \in Nat /\ qusdc' \in Nat
  <2> HIDE DEF paid, interestPaid
  <2>. QED
    BY <1>2, <1>3 DEF TypeOK
<1>. QED
  BY <1>3, <1>4, <1>5, <1>6, <1>7 DEF TypeOK

LEMMA SeizedWithinCollateral ==
  ASSUME TypeOK, NEW pos \in BorrowerPosition
  PROVE  Seized(pos) \in Nat /\ Seized(pos) <= pos.collateral
<1> DEFINE debtInWeth == QusdcToWeth(Owed(pos))
           bonus == (debtInWeth * LIQ_BONUS_BPS) \div BPS
<1>1. Owed(pos) \in Nat /\ pos.collateral \in Nat
  BY DEF Owed, BorrowerPosition
<1>2. debtInWeth \in Nat
  <2>1. Owed(pos) * PRICE_UNIT \in Nat
    BY <1>1, ProductNat, PoolAssumption
  <2>. QED
    BY <2>1, QuotientNat DEF QusdcToWeth, TypeOK
<1>3. bonus \in Nat
  BY <1>2, ProductNat, QuotientNat DEF LIQ_BONUS_BPS, BPS
<1>4. debtInWeth + bonus \in Nat
  BY <1>2, <1>3
<1>5. Seized(pos) = Min({debtInWeth + bonus, pos.collateral})
  BY DEF Seized
<1> HIDE DEF debtInWeth, bonus
<1>. QED
  BY <1>1, <1>4, <1>5, MinOfTwo

LEMMA CollateralCallsKeepTypes ==
  ASSUME TypeOK, NEW u \in Borrowers, NEW amount \in Nat,
         AddCollateral(u, amount) \/ WithdrawCollateral(u, amount)
  PROVE  TypeOK'
<1>1. amount \in Nat
  BY PoolAssumption
<1>2. CASE AddCollateral(u, amount)
  <2> DEFINE pos == [borrowers[u] EXCEPT !.collateral = @ + amount]
  <2>1. borrowers[u] \in BorrowerPosition /\ borrowers[u].lastAccrual <= now
    BY DEF TypeOK
  <2>2. pos \in BorrowerPosition /\ pos.lastAccrual <= now
    BY <1>1, <2>1 DEF BorrowerPosition
  <2>3. /\ borrowers' = [borrowers EXCEPT ![u] = pos]
        /\ weth' = weth + amount
        /\ UNCHANGED <<totalSupplied, accInterestPerShare, protocolFeeAccrued,
              suppliers, totalBorrowed, graceExpiry, qusdc, paused, scores,
              ethUsdPrice, updatedAt, now, height>>
    BY <1>2 DEF AddCollateral, supplyVars, outside, oracleVars, chainVars
  <2>4. /\ borrowers' \in [Borrowers -> BorrowerPosition]
        /\ \A v \in Borrowers : borrowers'[v].lastAccrual <= now'
    BY <2>2, <2>3, PositionReplaced
  <2>. QED
    BY <1>1, <2>3, <2>4 DEF TypeOK
<1>3. CASE WithdrawCollateral(u, amount)
  <2> DEFINE pos == [Accrued(u) EXCEPT !.collateral = @ - amount]
  <2>1. /\ Accrued(u) \in BorrowerPosition /\ Accrued(u).lastAccrual <= now
        /\ Accrued(u).collateral = borrowers[u].collateral
    BY AccruedPosition
  <2>2. amount <= borrowers[u].collateral /\ amount <= weth
    BY <1>3 DEF WithdrawCollateral
  <2>3. Accrued(u).collateral - amount \in Nat
    BY <1>1, <2>1, <2>2 DEF BorrowerPosition
  <2>4. pos \in BorrowerPosition /\ pos.lastAccrual <= now
    <3> DEFINE a == Accrued(u)
    <3>1. a \in BorrowerPosition /\ a.lastAccrual <= now /\ a.collateral - amount \in Nat
      BY <2>1, <2>3
    <3> HIDE DEF a
    <3>2. [a EXCEPT !.collateral = @ - amount] \in BorrowerPosition
          /\ [a EXCEPT !.collateral = @ - amount].lastAccrual <= now
      BY <3>1 DEF BorrowerPosition
    <3>. QED
      BY <3>2 DEF a
  <2>5. /\ borrowers' = [borrowers EXCEPT ![u] = pos]
        /\ weth' = weth - amount
        /\ UNCHANGED <<totalSupplied, accInterestPerShare, protocolFeeAccrued,
              suppliers, totalBorrowed, graceExpiry, qusdc, paused, scores,
              ethUsdPrice, updatedAt, now, height>>
    BY <1>3 DEF WithdrawCollateral, supplyVars, outside, oracleVars, chainVars
  <2>6. /\ borrowers' \in [Borrowers -> BorrowerPosition]
        /\ \A v \in Borrowers : borrowers'[v].lastAccrual <= now'
    BY <2>4, <2>5, PositionReplaced
  <2>. QED
    BY <1>1, <2>2, <2>5, <2>6 DEF TypeOK
<1>. QED
  BY <1>2, <1>3

LEMMA LiquidateKeepsTypes ==
  ASSUME TypeOK, NEW u \in Borrowers, Liquidate(u)
  PROVE  TypeOK'
<1> DEFINE pos == Accrued(u)
<1>1. pos \in BorrowerPosition
  BY AccruedPosition
<1>2. /\ pos.principal \in Nat /\ pos.interestOwed \in Nat
      /\ pos.collateral \in Nat /\ Owed(pos) \in Nat
  BY <1>1 DEF BorrowerPosition, Owed
<1>3. Seized(pos) \in Nat /\ Seized(pos) <= pos.collateral
  BY <1>1, SeizedWithinCollateral
<1>4. /\ pos.principal <= totalBorrowed /\ pos.collateral <= weth
      /\ borrowers' = [borrowers EXCEPT ![u] = NoPosition]
      /\ graceExpiry' = [graceExpiry EXCEPT ![u] = 0]
      /\ totalBorrowed' = totalBorrowed - pos.principal
      /\ DistributeInterest(pos.interestOwed)
      /\ qusdc' = qusdc + Owed(pos)
      /\ weth' = weth - Seized(pos) - (pos.collateral - Seized(pos))
      /\ UNCHANGED <<paused, scores, ethUsdPrice, updatedAt, now, height>>
  BY DEF Liquidate, outside, oracleVars, chainVars
<1>5. protocolFeeAccrued' \in Nat /\ accInterestPerShare' \in Nat
      /\ UNCHANGED <<totalSupplied, suppliers>>
  BY <1>2, <1>4, InterestRaises DEF DistributeInterest
<1>6. /\ borrowers' \in [Borrowers -> BorrowerPosition]
      /\ \A v \in Borrowers : borrowers'[v].lastAccrual <= now'
  <2>1. NoPosition \in BorrowerPosition /\ NoPosition.lastAccrual <= now
    BY DEF NoPosition, BorrowerPosition, TypeOK
  <2>. QED
    BY <1>4, <2>1, PositionReplaced
<1>7. graceExpiry' \in [Borrowers -> Nat]
  BY <1>4 DEF TypeOK
<1>8. totalBorrowed' \in Nat /\ qusdc' \in Nat /\ weth' \in Nat
  <2> HIDE DEF pos
  <2>. QED
    BY <1>2, <1>3, <1>4 DEF TypeOK
<1>. QED
  BY <1>4, <1>5, <1>6, <1>7, <1>8 DEF TypeOK

LEMMA AdminStepsKeepTypes == TypeOK /\ AdminNext => TypeOK'
<1> SUFFICES ASSUME TypeOK, AdminNext PROVE TypeOK'
  OBVIOUS
<1> USE DEF supplyVars, borrowVars, outside, oracleVars, chainVars
<1>1. CASE WithdrawProtocolFee
  BY <1>1 DEF WithdrawProtocolFee, TypeOK
<1>2. CASE Pause
  BY <1>2 DEF Pause, TypeOK
<1>3. CASE Unpause
  BY <1>3 DEF Unpause, TypeOK
<1>. QED
  BY <1>1, <1>2, <1>3 DEF AdminNext

LEMMA WorldStepsKeepTypes == TypeOK /\ WorldNext => TypeOK'
<1> SUFFICES ASSUME TypeOK, WorldNext PROVE TypeOK'
  OBVIOUS
<1> USE DEF supplyVars, borrowVars, outside, oracleVars, chainVars
<1>1. ASSUME NEW u \in Borrowers, NEW score \in Scores, SetScore(u, score)
      PROVE  TypeOK'
  BY <1>1 DEF SetScore, TypeOK
<1>2. ASSUME NEW price \in Prices, KeeperSetsPrice(price) \/ AdminForcesPrice(price)
      PROVE  TypeOK'
  <2>1. /\ ethUsdPrice' = price /\ updatedAt' = now
        /\ UNCHANGED <<supplyVars, borrowVars, qusdc, weth, paused, scores, chainVars>>
    BY <1>2 DEF KeeperSetsPrice, AdminForcesPrice, Oracle!SetPrice, Oracle!ForceSetPrice
  <2>2. price \in Nat \ {0}
    BY PoolAssumption
  <2>. QED
    BY <2>1, <2>2 DEF TypeOK
<1>3. ASSUME NEW seconds \in TimeSteps, NextBlock(seconds) PROVE TypeOK'
  <2>1. seconds \in Nat
    BY PoolAssumption
  <2>. QED
    BY <1>3, <2>1 DEF NextBlock, TypeOK, BorrowerPosition
<1>. QED
  BY <1>1, <1>2, <1>3 DEF WorldNext

LEMMA StutterKeepsTypes == TypeOK /\ UNCHANGED vars => TypeOK'
BY DEF TypeOK, vars, supplyVars, borrowVars, outside, oracleVars, chainVars

LEMMA NextKeepsTypes == TypeOK /\ [Next]_vars => TypeOK'
<1> SUFFICES ASSUME TypeOK, [Next]_vars PROVE TypeOK'
  OBVIOUS
<1>1. CASE SupplierNext
  BY <1>1, SupplierStepsKeepTypes
<1>2. CASE BorrowerNext
  BY <1>2, BorrowKeepsTypes, RepayKeepsTypes, CollateralCallsKeepTypes,
     LiquidateKeepsTypes, PoolAssumption DEF BorrowerNext
<1>3. CASE AdminNext
  BY <1>3, AdminStepsKeepTypes
<1>4. CASE WorldNext
  BY <1>4, WorldStepsKeepTypes
<1>5. CASE UNCHANGED vars
  BY <1>5, StutterKeepsTypes
<1>. QED
  BY <1>1, <1>2, <1>3, <1>4, <1>5 DEF Next

\* In every reachable state no unsigned amount of LendingPool.sol has gone below
\* zero, and no time it stored lies ahead of the block.
THEOREM TypeCorrect == Spec => []TypeOK
BY TypeInit, NextKeepsTypes, PTL DEF Spec


(***************************************************************************)
(* The supply side.                                                        *)
(***************************************************************************)

\* A supplier's call banks the position's yield and gives it a new size and a
\* new baseline, or pays the banked yield out; it leaves the accumulator alone.
LEMMA SupplierStep ==
  ASSUME TypeOK, SupplierNext
  PROVE  /\ accInterestPerShare' = accInterestPerShare
         /\ UNCHANGED borrowVars
         /\ \E u \in Suppliers, amount \in Nat :
              /\ Settleable(suppliers[u])
              /\ \/ suppliers' = [suppliers EXCEPT ![u] = Resized(suppliers[u], amount)]
                 \/ /\ suppliers' = [suppliers EXCEPT ![u] =
                          [Resized(suppliers[u], amount) EXCEPT !.pendingYield = 0]]
                    /\ qusdc' = qusdc - Claimable(suppliers[u])
<1> PICK u \in Suppliers :
      \/ \E amount \in Amounts : Supply(u, amount) \/ Redeem(u, amount)
      \/ ClaimSupplierYield(u)
  BY DEF SupplierNext
<1>1. suppliers[u].amount \in Nat
  BY DEF TypeOK, SupplyPosition
<1>2. ASSUME NEW amount \in Amounts, Supply(u, amount)
      PROVE  /\ accInterestPerShare' = accInterestPerShare
             /\ UNCHANGED borrowVars
             /\ Settleable(suppliers[u])
             /\ \E n \in Nat :
                  suppliers' = [suppliers EXCEPT ![u] = Resized(suppliers[u], n)]
  <2>1. suppliers[u].amount + amount \in Nat
    BY <1>1, PoolAssumption
  <2>. QED
    BY <1>2, <2>1 DEF Supply
<1>3. ASSUME NEW amount \in Amounts, Redeem(u, amount)
      PROVE  /\ accInterestPerShare' = accInterestPerShare
             /\ UNCHANGED borrowVars
             /\ Settleable(suppliers[u])
             /\ \E n \in Nat :
                  suppliers' = [suppliers EXCEPT ![u] = Resized(suppliers[u], n)]
  <2>1. suppliers[u].amount - amount \in Nat
    BY <1>1, <1>3, PoolAssumption DEF Redeem
  <2>. QED
    BY <1>3, <2>1 DEF Redeem
<1>4. CASE ClaimSupplierYield(u)
  BY <1>1, <1>4 DEF ClaimSupplierYield
<1>. QED
  BY <1>2, <1>3, <1>4

\* Every other step leaves the suppliers' positions alone and never lowers the
\* accumulator.
LEMMA OtherStepsOnSupply ==
  ASSUME TypeOK, BorrowerNext \/ AdminNext \/ WorldNext \/ UNCHANGED vars
  PROVE  /\ suppliers' = suppliers
         /\ accInterestPerShare <= accInterestPerShare'
<1> USE DEF supplyVars, outside, vars
<1>1. CASE BorrowerNext
  <2> PICK u \in Borrowers :
        \/ \E collateral \in Collaterals, amount \in Amounts : Borrow(u, collateral, amount)
        \/ \E amount \in Amounts : Repay(u, amount)
        \/ \E amount \in Collaterals : AddCollateral(u, amount) \/ WithdrawCollateral(u, amount)
        \/ Liquidate(u)
    BY <1>1 DEF BorrowerNext
  <2>1. ASSUME NEW collateral \in Collaterals, NEW amount \in Amounts,
               Borrow(u, collateral, amount)
        PROVE  suppliers' = suppliers /\ accInterestPerShare <= accInterestPerShare'
    BY <2>1 DEF Borrow, TypeOK
  <2>2. ASSUME NEW amount \in Amounts, Repay(u, amount)
        PROVE  suppliers' = suppliers /\ accInterestPerShare <= accInterestPerShare'
    <3> DEFINE paid == Min({amount, Owed(Accrued(u))})
               interest == InterestPart(Accrued(u), paid)
    <3>1. DistributeInterest(interest)
      BY <2>2 DEF Repay
    <3>2. interest \in Nat
      BY AccruedPosition, RepaidPosition, PoolAssumption
    <3> HIDE DEF interest
    <3>. QED
      BY <3>1, <3>2, InterestRaises DEF DistributeInterest
  <2>3. ASSUME NEW amount \in Collaterals,
               AddCollateral(u, amount) \/ WithdrawCollateral(u, amount)
        PROVE  suppliers' = suppliers /\ accInterestPerShare <= accInterestPerShare'
    BY <2>3 DEF AddCollateral, WithdrawCollateral, TypeOK
  <2>4. CASE Liquidate(u)
    <3> DEFINE interest == Accrued(u).interestOwed
    <3>1. DistributeInterest(interest)
      BY <2>4 DEF Liquidate
    <3>2. interest \in Nat
      BY AccruedPosition DEF BorrowerPosition
    <3> HIDE DEF interest
    <3>. QED
      BY <3>1, <3>2, InterestRaises DEF DistributeInterest
  <2>. QED
    BY <2>1, <2>2, <2>3, <2>4
<1>2. CASE AdminNext
  BY <1>2 DEF AdminNext, WithdrawProtocolFee, Pause, Unpause, TypeOK
<1>3. CASE WorldNext
  BY <1>3 DEF WorldNext, SetScore, KeeperSetsPrice, AdminForcesPrice, NextBlock, TypeOK
<1>4. CASE UNCHANGED vars
  BY <1>4 DEF TypeOK
<1>. QED
  BY <1>1, <1>2, <1>3, <1>4

\* The strengthening SettlingNeverReverts needs: a baseline is never above what
\* the position is entitled to, a position of size 0 included.
BaselinesBelowAccumulator ==
  \A u \in Suppliers :
    suppliers[u].rewardDebt <= Entitlement(suppliers[u].amount, accInterestPerShare)

LEMMA BaselinesInit == Init => BaselinesBelowAccumulator
BY EntitlementNat DEF Init, NoSupply, BaselinesBelowAccumulator

LEMMA BaselinesNext ==
  TypeOK /\ BaselinesBelowAccumulator /\ [Next]_vars => BaselinesBelowAccumulator'
<1> SUFFICES ASSUME TypeOK, BaselinesBelowAccumulator, [Next]_vars,
                    NEW v \in Suppliers
             PROVE  suppliers'[v].rewardDebt
                      <= Entitlement(suppliers'[v].amount, accInterestPerShare')
  BY DEF BaselinesBelowAccumulator
<1>1. /\ suppliers[v].rewardDebt <= Entitlement(suppliers[v].amount, accInterestPerShare)
      /\ suppliers[v].amount \in Nat /\ suppliers[v].rewardDebt \in Nat
      /\ accInterestPerShare \in Nat
  BY DEF BaselinesBelowAccumulator, TypeOK, SupplyPosition
<1>2. accInterestPerShare' \in Nat
  BY NextKeepsTypes DEF TypeOK
<1>3. CASE SupplierNext
  <2>1. PICK u \in Suppliers, amount \in Nat :
          \/ suppliers' = [suppliers EXCEPT ![u] = Resized(suppliers[u], amount)]
          \/ suppliers' = [suppliers EXCEPT ![u] =
                [Resized(suppliers[u], amount) EXCEPT !.pendingYield = 0]]
    BY <1>3, SupplierStep
  <2>2. accInterestPerShare' = accInterestPerShare
    BY <1>3, SupplierStep
  <2>3. v # u => suppliers'[v] = suppliers[v]
    BY <2>1 DEF TypeOK
  <2>4. /\ Entitlement(amount, accInterestPerShare) \in Nat
        /\ v = u => /\ suppliers'[v].amount = amount
                    /\ suppliers'[v].rewardDebt = Entitlement(amount, accInterestPerShare)
    BY <1>1, <2>1, EntitlementNat DEF TypeOK, Resized
  <2>. QED
    BY <1>1, <2>2, <2>3, <2>4
<1>4. CASE BorrowerNext \/ AdminNext \/ WorldNext \/ UNCHANGED vars
  <2>1. suppliers' = suppliers /\ accInterestPerShare <= accInterestPerShare'
    BY <1>4, OtherStepsOnSupply
  <2>2. Entitlement(suppliers[v].amount, accInterestPerShare)
          <= Entitlement(suppliers[v].amount, accInterestPerShare')
    BY <1>1, <1>2, <2>1, EntitlementMonotone
  <2>3. /\ Entitlement(suppliers[v].amount, accInterestPerShare) \in Nat
        /\ Entitlement(suppliers[v].amount, accInterestPerShare') \in Nat
    BY <1>1, <1>2, EntitlementNat
  <2>. QED
    BY <1>1, <2>1, <2>2, <2>3
<1>. QED
  BY <1>3, <1>4 DEF Next

LEMMA BaselinesHold == Spec => [](TypeOK /\ BaselinesBelowAccumulator)
BY TypeInit, NextKeepsTypes, BaselinesInit, BaselinesNext, PTL DEF Spec

\* No interleaving of supply, redeem, claim, repay and liquidate ever makes the
\* subtraction of _settleSupplierYield revert, so nobody's principal or yield
\* can be locked in by it.
THEOREM SettlingAlwaysPossible == Spec => []SettlingNeverReverts
<1>1. BaselinesBelowAccumulator => SettlingNeverReverts
  BY DEF BaselinesBelowAccumulator, SettlingNeverReverts, Settleable
<1>. QED
  BY <1>1, BaselinesHold, PTL

\* The steps alone show it, from wherever the pool starts.
LEMMA StepsKeepYield == []TypeOK /\ [][Next]_vars => YieldMovesOnlyWithInterest
<1> DEFINE Kept(u) == Claimable(suppliers[u])' = Claimable(suppliers[u])
           PaidOut(u) == /\ Claimable(suppliers[u])' = 0
                         /\ qusdc' = qusdc - Claimable(suppliers[u])
<1>1. ASSUME TypeOK, [Next]_vars, accInterestPerShare' = accInterestPerShare,
             NEW v \in Suppliers
      PROVE  Kept(v) \/ PaidOut(v)
  <2>1. /\ suppliers[v].amount \in Nat /\ suppliers[v].pendingYield \in Nat
        /\ accInterestPerShare \in Nat
    BY <1>1 DEF TypeOK, SupplyPosition
  <2>2. suppliers'[v] = suppliers[v] => Kept(v)
    BY <1>1 DEF Claimable, Unsettled
  <2>3. CASE SupplierNext
    <3>1. PICK u \in Suppliers, amount \in Nat :
            /\ Settleable(suppliers[u])
            /\ \/ suppliers' = [suppliers EXCEPT ![u] = Resized(suppliers[u], amount)]
               \/ /\ suppliers' = [suppliers EXCEPT ![u] =
                        [Resized(suppliers[u], amount) EXCEPT !.pendingYield = 0]]
                  /\ qusdc' = qusdc - Claimable(suppliers[u])
      BY <1>1, <2>3, SupplierStep
    <3>2. CASE v # u
      BY <1>1, <2>2, <3>1, <3>2 DEF TypeOK
    <3>3. CASE v = u
      <4>1. /\ suppliers[u] \in SupplyPosition
            /\ Entitlement(amount, accInterestPerShare) \in Nat
        BY <1>1, <2>1, EntitlementNat DEF TypeOK
      <4>2. Claimable(suppliers[u]) \in Nat
        BY <2>1, <3>1, <4>1, ClaimableNat
      <4>3. Claimable(suppliers[v])' = suppliers'[v].pendingYield
        <5>1. /\ suppliers'[v].amount = amount
              /\ suppliers'[v].rewardDebt = Entitlement(amount, accInterestPerShare)
              /\ suppliers'[v].pendingYield \in Nat
          BY <1>1, <3>1, <3>3, <4>2 DEF TypeOK, Resized
        <5>2. Unsettled(suppliers[v])' = 0
          BY <1>1, <4>1, <5>1 DEF Unsettled
        <5>. QED
          BY <5>1, <5>2 DEF Claimable
      <4>4. \/ suppliers'[v].pendingYield = Claimable(suppliers[v])
            \/ suppliers'[v].pendingYield = 0 /\ qusdc' = qusdc - Claimable(suppliers[v])
        BY <1>1, <3>1, <3>3 DEF TypeOK, Resized
      <4>. QED
        BY <4>3, <4>4
    <3>. QED
      BY <3>2, <3>3
  <2>4. CASE BorrowerNext \/ AdminNext \/ WorldNext \/ UNCHANGED vars
    BY <1>1, <2>2, <2>4, OtherStepsOnSupply
  <2>. QED
    BY <1>1, <2>3, <2>4 DEF Next
<1>2. TypeOK /\ [Next]_vars =>
        [accInterestPerShare' = accInterestPerShare =>
           \A u \in Suppliers :
             \/ Claimable(suppliers[u])' = Claimable(suppliers[u])
             \/ /\ Claimable(suppliers[u])' = 0
                /\ qusdc' = qusdc - Claimable(suppliers[u])]_vars
  BY <1>1
<1>. QED
  BY <1>2, PTL DEF YieldMovesOnlyWithInterest

\* "You only ever earn yield distributed after you joined": while the
\* accumulator stands still no call moves what any supplier can claim, except
\* the claim that pays it out.
THEOREM YieldIsNeverDiluted == Spec => YieldMovesOnlyWithInterest
BY TypeCorrect, StepsKeepYield, PTL DEF Spec

(***************************************************************************)
(* The borrow side.                                                        *)
(***************************************************************************)

LEMMA AccruedTime ==
  ASSUME TypeOK, NEW u \in Borrowers, borrowers[u].lastAccrual # 0
  PROVE  Accrued(u).lastAccrual # 0
<1>1. borrowers[u] \in BorrowerPosition /\ now # 0
  BY DEF TypeOK
<1>. QED
  BY <1>1 DEF Accrued, BorrowerPosition

\* What a call may make of a borrower's position.
LawfulChange(u, pos) ==
  /\ Owed(pos) >= Owed(borrowers[u]) \/ qusdc' - qusdc >= Owed(borrowers[u]) - Owed(pos)
  /\ pos.principal = 0 /\ borrowers[u].principal # 0 => pos.interestOwed = 0
  /\ pos.principal = 0 /\ borrowers[u].principal = 0
       => pos.interestOwed = borrowers[u].interestOwed
  /\ borrowers[u].lastAccrual # 0 /\ pos.lastAccrual = 0 => GraceOver(u)

LEMMA BorrowIsLawful ==
  ASSUME TypeOK, NEW u \in Borrowers, NEW collateral \in Nat,
         NEW amount \in Nat, Borrow(u, collateral, amount)
  PROVE  \E pos \in BorrowerPosition :
           borrowers' = [borrowers EXCEPT ![u] = pos] /\ LawfulChange(u, pos)
<1> DEFINE old == borrowers[u]
           acc == Accrued(u)
           pos == Drawn(acc, collateral, amount)
<1>1. /\ old \in BorrowerPosition /\ acc \in BorrowerPosition
      /\ acc.principal = old.principal /\ acc.interestOwed >= old.interestOwed
      /\ acc.lastAccrual <= now
      /\ collateral \in Nat /\ amount \in Nat /\ amount # 0
  BY AccruedPosition, PoolAssumption DEF TypeOK, Borrow
<1>2. pos \in BorrowerPosition
  BY <1>1, DrawnPosition
<1>3. /\ pos.principal = acc.principal + amount
      /\ pos.interestOwed = acc.interestOwed
      /\ pos.lastAccrual = IF acc.lastAccrual = 0 THEN now ELSE acc.lastAccrual
  BY DEF Drawn
<1>4. pos.principal # 0 /\ Owed(pos) >= Owed(old)
  <2> HIDE DEF acc, pos
  <2>. QED
    BY <1>1, <1>3 DEF Owed, BorrowerPosition
<1>5. pos.lastAccrual # 0
  BY <1>3 DEF TypeOK
<1>6. borrowers' = [borrowers EXCEPT ![u] = pos]
  BY DEF Borrow
<1>7. LawfulChange(u, pos)
  <2> HIDE DEF pos
  <2>. QED
    BY <1>4, <1>5 DEF LawfulChange
<1>. QED
  BY <1>2, <1>6, <1>7

LEMMA RepayIsLawful ==
  ASSUME TypeOK, NEW u \in Borrowers, NEW amount \in Nat, Repay(u, amount)
  PROVE  \E pos \in BorrowerPosition :
           borrowers' = [borrowers EXCEPT ![u] = pos] /\ LawfulChange(u, pos)
<1> DEFINE old == borrowers[u]
           acc == Accrued(u)
           paid == Min({amount, Owed(acc)})
           pos == Repaid(acc, paid)
<1>1. /\ old \in BorrowerPosition /\ acc \in BorrowerPosition
      /\ acc.principal = old.principal /\ acc.interestOwed >= old.interestOwed
      /\ old.lastAccrual # 0 => acc.lastAccrual # 0
      /\ amount \in Nat /\ old.principal # 0
  BY AccruedPosition, AccruedTime, PoolAssumption DEF TypeOK, Repay
<1>2. /\ paid \in Nat /\ pos \in BorrowerPosition
      /\ pos.lastAccrual = acc.lastAccrual
      /\ Owed(pos) = Owed(acc) - paid
      /\ acc.principal # 0 /\ pos.principal = 0 => pos.interestOwed = 0
  BY <1>1, RepaidPosition
<1>3. borrowers' = [borrowers EXCEPT ![u] = pos] /\ qusdc' = qusdc + paid
  BY DEF Repay
<1>4. qusdc' - qusdc >= Owed(old) - Owed(pos)
  <2>1. Owed(acc) \in Nat /\ Owed(old) \in Nat /\ Owed(acc) >= Owed(old)
    BY <1>1 DEF Owed, BorrowerPosition
  <2> HIDE DEF old, acc, paid, pos
  <2>. QED
    BY <1>2, <1>3, <2>1 DEF TypeOK
<1>5. LawfulChange(u, pos)
  <2> HIDE DEF acc, paid, pos
  <2>. QED
    BY <1>1, <1>2, <1>4 DEF LawfulChange
<1>. QED
  BY <1>2, <1>3, <1>5

LEMMA CollateralCallsAreLawful ==
  ASSUME TypeOK, NEW u \in Borrowers, NEW amount \in Nat,
         AddCollateral(u, amount) \/ WithdrawCollateral(u, amount)
  PROVE  \E pos \in BorrowerPosition :
           borrowers' = [borrowers EXCEPT ![u] = pos] /\ LawfulChange(u, pos)
<1> DEFINE old == borrowers[u]
<1>1. old \in BorrowerPosition /\ amount \in Nat /\ borrowers' \in [Borrowers -> BorrowerPosition]
  BY PoolAssumption, CollateralCallsKeepTypes DEF TypeOK
<1>2. \E pos :
        /\ borrowers' = [borrowers EXCEPT ![u] = pos]
        /\ pos.principal = old.principal
        /\ pos.interestOwed >= old.interestOwed
        /\ old.principal = 0 => pos.interestOwed = old.interestOwed
        /\ old.lastAccrual # 0 => pos.lastAccrual # 0
  <2>1. CASE AddCollateral(u, amount)
    <3> DEFINE pos == [old EXCEPT !.collateral = @ + amount]
    <3>1. borrowers' = [borrowers EXCEPT ![u] = pos]
      BY <2>1 DEF AddCollateral
    <3>2. /\ pos.principal = old.principal /\ pos.interestOwed = old.interestOwed
          /\ pos.lastAccrual = old.lastAccrual
      BY <1>1 DEF BorrowerPosition
    <3> HIDE DEF pos
    <3>3. pos.interestOwed >= old.interestOwed
      BY <1>1, <3>2 DEF BorrowerPosition
    <3>. QED
      BY <3>1, <3>2, <3>3
  <2>2. CASE WithdrawCollateral(u, amount)
    <3> DEFINE acc == Accrued(u)
               pos == [acc EXCEPT !.collateral = @ - amount]
    <3>1. borrowers' = [borrowers EXCEPT ![u] = pos]
      BY <2>2 DEF WithdrawCollateral
    <3>2. /\ acc \in BorrowerPosition /\ acc.principal = old.principal
          /\ acc.interestOwed >= old.interestOwed
          /\ old.principal = 0 => acc = old
          /\ old.lastAccrual # 0 => acc.lastAccrual # 0
      BY AccruedPosition, AccruedTime
    <3> HIDE DEF acc
    <3>3. /\ pos.principal = acc.principal /\ pos.interestOwed = acc.interestOwed
          /\ pos.lastAccrual = acc.lastAccrual
      BY <3>2 DEF BorrowerPosition
    <3> HIDE DEF pos
    <3>. QED
      BY <3>1, <3>2, <3>3
  <2>. QED
    BY <2>1, <2>2
<1>3. PICK pos :
        /\ borrowers' = [borrowers EXCEPT ![u] = pos]
        /\ pos.principal = old.principal
        /\ pos.interestOwed >= old.interestOwed
        /\ old.principal = 0 => pos.interestOwed = old.interestOwed
        /\ old.lastAccrual # 0 => pos.lastAccrual # 0
  BY <1>2
<1>4. pos \in BorrowerPosition
  BY <1>1, <1>3 DEF TypeOK
<1>5. Owed(pos) >= Owed(old)
  BY <1>1, <1>3, <1>4 DEF Owed, BorrowerPosition
<1>6. LawfulChange(u, pos)
  BY <1>3, <1>5 DEF LawfulChange
<1>. QED
  BY <1>3, <1>4, <1>6

LEMMA LiquidateIsLawful ==
  ASSUME TypeOK, NEW u \in Borrowers, Liquidate(u)
  PROVE  \E pos \in BorrowerPosition :
           borrowers' = [borrowers EXCEPT ![u] = pos] /\ LawfulChange(u, pos)
<1> DEFINE old == borrowers[u]
           acc == Accrued(u)
<1>1. /\ old \in BorrowerPosition /\ acc \in BorrowerPosition
      /\ acc.principal = old.principal /\ acc.interestOwed >= old.interestOwed
  BY AccruedPosition DEF TypeOK
<1>2. /\ borrowers' = [borrowers EXCEPT ![u] = NoPosition]
      /\ qusdc' = qusdc + Owed(acc)
      /\ GraceOver(u)
  BY DEF Liquidate
<1>3. /\ NoPosition \in BorrowerPosition /\ NoPosition.principal = 0
      /\ NoPosition.interestOwed = 0 /\ Owed(NoPosition) = 0
  BY DEF NoPosition, BorrowerPosition, Owed
<1>4. acc.principal # 0
  BY DEF Liquidate
<1>5. qusdc' - qusdc >= Owed(old) - Owed(NoPosition)
  <2>1. Owed(acc) \in Nat /\ Owed(old) \in Nat /\ Owed(acc) >= Owed(old)
    BY <1>1 DEF Owed, BorrowerPosition
  <2> HIDE DEF old, acc
  <2>. QED
    BY <1>2, <1>3, <2>1 DEF TypeOK
<1>6. LawfulChange(u, NoPosition)
  <2> HIDE DEF acc
  <2>. QED
    BY <1>1, <1>2, <1>3, <1>4, <1>5 DEF LawfulChange
<1>. QED
  BY <1>2, <1>3, <1>6

\* Borrowers' calls change one position, lawfully; no other step changes any.
LEMMA BorrowerStep ==
  ASSUME TypeOK, [Next]_vars
  PROVE  \/ borrowers' = borrowers
         \/ \E u \in Borrowers, pos \in BorrowerPosition :
              borrowers' = [borrowers EXCEPT ![u] = pos] /\ LawfulChange(u, pos)
<1>1. CASE SupplierNext
  BY <1>1, SupplierStep DEF borrowVars
<1>2. CASE BorrowerNext
  BY <1>2, BorrowIsLawful, RepayIsLawful, CollateralCallsAreLawful,
     LiquidateIsLawful, PoolAssumption DEF BorrowerNext
<1>3. CASE AdminNext \/ WorldNext \/ UNCHANGED vars
  BY <1>3 DEF AdminNext, WithdrawProtocolFee, Pause, Unpause, WorldNext, SetScore,
     KeeperSetsPrice, AdminForcesPrice, NextBlock, borrowVars, vars
<1>. QED
  BY <1>1, <1>2, <1>3 DEF Next

LEMMA LawfulKeepsInterest ==
  ASSUME TypeOK, NoInterestWithoutPrincipal, NEW u \in Borrowers,
         NEW pos \in BorrowerPosition,
         borrowers' = [borrowers EXCEPT ![u] = pos], LawfulChange(u, pos)
  PROVE  NoInterestWithoutPrincipal'
<1> SUFFICES ASSUME NEW v \in Borrowers, borrowers'[v].principal = 0
             PROVE  borrowers'[v].interestOwed = 0
  BY DEF NoInterestWithoutPrincipal
<1>1. borrowers[v].principal = 0 => borrowers[v].interestOwed = 0
  BY DEF NoInterestWithoutPrincipal
<1>2. CASE v = u
  <2>1. borrowers'[v] = pos
    BY <1>2 DEF TypeOK
  <2>. QED
    BY <1>1, <1>2, <2>1 DEF LawfulChange
<1>3. CASE v # u
  BY <1>1, <1>3 DEF TypeOK
<1>. QED
  BY <1>2, <1>3

LEMMA NoInterestNext ==
  TypeOK /\ NoInterestWithoutPrincipal /\ [Next]_vars => NoInterestWithoutPrincipal'
<1> SUFFICES ASSUME TypeOK, NoInterestWithoutPrincipal, [Next]_vars
             PROVE  NoInterestWithoutPrincipal'
  OBVIOUS
<1>1. CASE borrowers' = borrowers
  BY <1>1 DEF NoInterestWithoutPrincipal
<1>. QED
  BY <1>1, BorrowerStep, LawfulKeepsInterest

\* Interest is never left behind on a position whose principal is gone, where
\* repay would refuse to take it.
THEOREM InterestNeedsPrincipal == Spec => []NoInterestWithoutPrincipal
<1>1. Init => NoInterestWithoutPrincipal
  BY DEF Init, NoPosition, NoInterestWithoutPrincipal
<1>. QED
  BY <1>1, NoInterestNext, TypeCorrect, PTL DEF Spec

\* The steps alone show it, from wherever the pool starts.
LEMMA StepsForgiveNothing == []TypeOK /\ [][Next]_vars => DebtFallsOnlyByPayment
<1>1. ASSUME TypeOK, [Next]_vars, NEW v \in Borrowers,
             Owed(borrowers[v])' < Owed(borrowers[v])
      PROVE  qusdc' - qusdc >= Owed(borrowers[v]) - Owed(borrowers[v])'
  <2>1. Owed(borrowers[v])' = Owed(borrowers'[v])
    BY DEF Owed
  <2>2. Owed(borrowers[v]) \in Nat
    BY <1>1 DEF TypeOK, BorrowerPosition, Owed
  <2>3. borrowers'[v] # borrowers[v]
    BY <1>1, <2>1, <2>2
  <2>4. PICK u \in Borrowers, pos \in BorrowerPosition :
          borrowers' = [borrowers EXCEPT ![u] = pos] /\ LawfulChange(u, pos)
    BY <1>1, <2>3, BorrowerStep
  <2>5. v = u /\ borrowers'[v] = pos
    BY <1>1, <2>3, <2>4 DEF TypeOK
  <2>6. Owed(pos) \in Nat
    BY DEF Owed, BorrowerPosition
  <2>. QED
    BY <1>1, <2>1, <2>2, <2>4, <2>5, <2>6 DEF LawfulChange
<1>2. TypeOK /\ [Next]_vars =>
        [\A u \in Borrowers :
           Owed(borrowers[u])' < Owed(borrowers[u]) =>
             qusdc' - qusdc >= Owed(borrowers[u]) - Owed(borrowers[u])']_vars
  BY <1>1
<1>. QED
  BY <1>2, PTL DEF DebtFallsOnlyByPayment

\* Whenever a borrower comes to owe less, the pool was paid at least the
\* difference in the same transaction.
THEOREM DebtIsNeverForgiven == Spec => DebtFallsOnlyByPayment
BY TypeCorrect, StepsForgiveNothing, PTL DEF Spec

Liquidated(u) == borrowers[u].lastAccrual # 0 /\ borrowers'[u].lastAccrual = 0

\* What the revert in the grace branch amounts to, against the promise that
\* PoolGrace states: no position is liquidated while its owner's score is 800
\* or more, however long it stays underwater and however often it is called.
HighScoreNeverLiquidated ==
  [][\A u \in Borrowers : Liquidated(u) => scores[u] < GRACE_SCORE_THRESHOLD]_vars

\* The strengthening behind it: no grace window is ever armed, because the only
\* call that would arm one reverts.
NeverArmed == \A u \in Borrowers : graceExpiry[u] = 0

LEMMA NeverArmedNext == TypeOK /\ NeverArmed /\ [Next]_vars => NeverArmed'
<1> SUFFICES ASSUME TypeOK, NeverArmed, [Next]_vars PROVE NeverArmed'
  OBVIOUS
<1>1. CASE SupplierNext
  BY <1>1, SupplierStep DEF borrowVars, NeverArmed
<1>2. CASE BorrowerNext
  <2>1. \/ graceExpiry' = graceExpiry
        \/ \E u \in Borrowers : graceExpiry' = [graceExpiry EXCEPT ![u] = 0]
    <3> PICK u \in Borrowers :
          \/ \E collateral \in Collaterals, amount \in Amounts :
                Borrow(u, collateral, amount)
          \/ \E amount \in Amounts : Repay(u, amount)
          \/ \E amount \in Collaterals :
                AddCollateral(u, amount) \/ WithdrawCollateral(u, amount)
          \/ Liquidate(u)
      BY <1>2 DEF BorrowerNext
    <3>1. ASSUME NEW amount \in Amounts, Repay(u, amount)
          PROVE  \/ graceExpiry' = graceExpiry
                 \/ graceExpiry' = [graceExpiry EXCEPT ![u] = 0]
      BY <3>1 DEF Repay, TypeOK
    <3>. QED
      BY <3>1 DEF Borrow, AddCollateral, WithdrawCollateral, Liquidate
  <2>. QED
    BY <2>1 DEF NeverArmed, TypeOK
<1>3. CASE AdminNext \/ WorldNext \/ UNCHANGED vars
  BY <1>3 DEF AdminNext, WithdrawProtocolFee, Pause, Unpause, WorldNext, SetScore,
     KeeperSetsPrice, AdminForcesPrice, NextBlock, borrowVars, vars, NeverArmed
<1>. QED
  BY <1>1, <1>2, <1>3 DEF Next

LEMMA GraceIsNeverArmed == Spec => [](TypeOK /\ NeverArmed)
<1>1. Init => NeverArmed
  BY DEF Init, NeverArmed
<1>. QED
  BY <1>1, NeverArmedNext, TypeCorrect, PTL DEF Spec

\* The steps alone show it, once no grace window is armed.
LEMMA StepsSpareHighScores == [](TypeOK /\ NeverArmed) /\ [][Next]_vars => HighScoreNeverLiquidated
<1>1. ASSUME TypeOK, NeverArmed, [Next]_vars, NEW v \in Borrowers, Liquidated(v)
      PROVE  scores[v] < GRACE_SCORE_THRESHOLD
  <2>1. borrowers[v].lastAccrual # 0 /\ borrowers'[v].lastAccrual = 0
    BY <1>1 DEF Liquidated
  <2>2. PICK u \in Borrowers, pos \in BorrowerPosition :
          borrowers' = [borrowers EXCEPT ![u] = pos] /\ LawfulChange(u, pos)
    BY <1>1, <2>1, BorrowerStep
  <2>3. v = u /\ borrowers'[v] = pos
    BY <1>1, <2>1, <2>2 DEF TypeOK
  <2>4. GraceOver(v)
    BY <2>1, <2>2, <2>3 DEF LawfulChange
  <2>5. scores[v] \in Nat
    BY <1>1, ScoreTyped
  <2>. QED
    BY <1>1, <2>4, <2>5 DEF GraceOver, NeverArmed, GRACE_SCORE_THRESHOLD
<1>2. TypeOK /\ NeverArmed /\ [Next]_vars =>
        [\A u \in Borrowers : Liquidated(u) => scores[u] < GRACE_SCORE_THRESHOLD]_vars
  BY <1>1
<1>. QED
  BY <1>2, PTL DEF HighScoreNeverLiquidated

\* No run of the contract ever liquidates a borrower whose score is 800 or more,
\* so the window of the contract's own comment never ends in a liquidation.
THEOREM HighScoresEscape == Spec => HighScoreNeverLiquidated
BY GraceIsNeverArmed, StepsSpareHighScores, PTL DEF Spec

(***************************************************************************)
(* Liquidation range.                                                      *)
(***************************************************************************)

LEMMA MaxLtvNat == ASSUME NEW score \in Nat PROVE MaxLtvBps(score) \in Nat
BY DEF MaxLtvBps

\* A larger divisor gives no larger quotient.
LEMMA QuotientAntitone ==
  ASSUME NEW x \in Nat, NEW m \in Nat \ {0}, NEW n \in Nat \ {0}, m <= n
  PROVE  x \div n <= x \div m
<1> DEFINE a == x \div n
           b == x \div m
<1>1. /\ a \in Nat /\ b \in Nat /\ a * n <= x /\ x < b * m + m
  <2>1. x = n * (x \div n) + (x % n) /\ x % n \in 0 .. n - 1 /\ x \div n \in Nat
    OBVIOUS
  <2>2. x = m * (x \div m) + (x % m) /\ x % m \in 0 .. m - 1 /\ x \div m \in Nat
    OBVIOUS
  <2>. QED
    BY <2>1, <2>2
<1> HIDE DEF a, b
<1>2. SUFFICES ASSUME a >= b + 1 PROVE FALSE
  <2>1. a <= b
    BY <1>1, <1>2
  <2>. QED
    BY <2>1 DEF a, b
<1>3. /\ m * (b + 1) <= m * a /\ a * m <= a * n
  BY <1>1, <1>2, ProductMonotone
<1>4. m * (b + 1) = b * m + m /\ m * a = a * m /\ a * m \in Nat /\ a * n \in Nat /\ b * m \in Nat
  BY <1>1
<1>. QED
  BY <1>1, <1>3, <1>4

\* Less debt, more collateral and a higher limit keep a position under it.
LEMMA SaferStaysUnder ==
  ASSUME ethUsdPrice \in Nat \ {0},
         NEW p \in BorrowerPosition, NEW q \in BorrowerPosition,
         NEW low \in Nat, NEW high \in Nat, low <= high,
         p.collateral # 0, p.collateral <= q.collateral, Owed(q) <= Owed(p),
         ~LtvExceeds(p, low)
  PROVE  ~LtvExceeds(q, high)
<1> DEFINE value(c) == WethToQusdc(c)
           worth == value(p.collateral)
           more == value(q.collateral)
           debt == Owed(p) * BPS
           less == Owed(q) * BPS
<1>1. /\ p.collateral \in Nat /\ q.collateral \in Nat
      /\ Owed(p) \in Nat /\ Owed(q) \in Nat
  BY DEF BorrowerPosition, Owed
<1>2. worth \in Nat /\ more \in Nat /\ worth <= more
  <2>1. /\ p.collateral * ethUsdPrice \in Nat /\ q.collateral * ethUsdPrice \in Nat
        /\ p.collateral * ethUsdPrice <= q.collateral * ethUsdPrice
    <3>1. ethUsdPrice * p.collateral <= ethUsdPrice * q.collateral
      BY <1>1, ProductMonotone
    <3>. QED
      BY <1>1, <3>1, ProductNat
  <2>. QED
    BY <2>1, QuotientNat, QuotientMonotone, PoolAssumption DEF WethToQusdc
<1>3. debt \in Nat /\ less \in Nat /\ less <= debt
  BY <1>1 DEF BPS
<1>4. worth # 0 /\ ~(debt \div worth > low)
  BY DEF LtvExceeds
<1>5. more # 0
  BY <1>2, <1>4
<1> HIDE DEF worth, more, debt, less
<1>6. /\ less \div more <= debt \div more /\ debt \div more <= debt \div worth
      /\ less \div more \in Nat /\ debt \div more \in Nat /\ debt \div worth \in Nat
  BY <1>2, <1>3, <1>4, <1>5, QuotientMonotone, QuotientAntitone, QuotientNat
<1>7. ~(less \div more > high)
  BY <1>4, <1>6
<1>. QED
  BY <1>5, <1>7 DEF LtvExceeds, more, less

\* No time, no interest.
LEMMA NoTimeNoInterest ==
  ASSUME NEW pos \in BorrowerPosition, NEW rate \in Nat
  PROVE  [pos EXCEPT !.interestOwed = @ + InterestOver(pos, rate, 0),
                     !.lastAccrual = pos.lastAccrual] = pos
<1>1. InterestOver(pos, rate, 0) = 0
  <2>1. pos.principal * rate * 0 = 0 /\ SECONDS_PER_YEAR * BPS \in Nat \ {0}
    BY PoolAssumption DEF BorrowerPosition, BPS
  <2>2. \A n \in Nat \ {0} : 0 \div n = 0
    OBVIOUS
  <2>. QED
    BY <2>1, <2>2 DEF InterestOver
<1>2. pos.interestOwed + 0 = pos.interestOwed
  BY DEF BorrowerPosition
<1>. QED
  BY <1>1, <1>2 DEF BorrowerPosition

LEMMA SettledReadsItself ==
  ASSUME TypeOK, NEW u \in Borrowers, borrowers[u].lastAccrual = now
  PROVE  Accrued(u) = borrowers[u]
<1>1. borrowers[u] \in BorrowerPosition /\ CurrentRateBps(u) \in Nat
      /\ now - borrowers[u].lastAccrual = 0
  BY RateNat DEF TypeOK
<1>. QED
  BY <1>1, NoTimeNoInterest DEF Accrued

\* Short of the liquidation threshold, with the interest settled.
Afloat(u, pos) ==
  pos.principal # 0 =>
    pos.lastAccrual = now /\ ~LtvExceeds(pos, MaxLtvBps(scores[u]) + LIQ_BUFFER_BPS)

LEMMA AfloatAtMaximum ==
  ASSUME TypeOK, NEW u \in Borrowers, NEW pos \in BorrowerPosition,
         pos.lastAccrual = now, ~LtvExceeds(pos, MaxLtvBps(scores[u]))
  PROVE  Afloat(u, pos)
<1>1. /\ MaxLtvBps(scores[u]) \in Nat
      /\ MaxLtvBps(scores[u]) + LIQ_BUFFER_BPS \in Nat
      /\ MaxLtvBps(scores[u]) <= MaxLtvBps(scores[u]) + LIQ_BUFFER_BPS
      /\ Owed(pos) <= Owed(pos) /\ pos.collateral <= pos.collateral
  <2>1. scores[u] \in Nat
    BY ScoreTyped
  <2>. QED
    BY <2>1, MaxLtvNat DEF LIQ_BUFFER_BPS, Owed, BorrowerPosition
<1>2. CASE pos.collateral = 0
  BY <1>2 DEF Afloat, LtvExceeds
<1>3. CASE pos.collateral # 0
  BY <1>1, <1>3, SaferStaysUnder DEF Afloat, TypeOK
<1>. QED
  BY <1>2, <1>3

LEMMA CallsKeepAfloat ==
  ASSUME TypeOK, NEW u \in Borrowers, BorrowerNext,
         borrowers[u].lastAccrual = now, borrowers[u].collateral # 0,
         Afloat(u, borrowers[u])
  PROVE  \E pos \in BorrowerPosition : pos = borrowers'[u] /\ Afloat(u, pos)
<1> PICK v \in Borrowers :
      \/ \E collateral \in Collaterals, amount \in Amounts : Borrow(v, collateral, amount)
      \/ \E amount \in Amounts : Repay(v, amount)
      \/ \E amount \in Collaterals : AddCollateral(v, amount) \/ WithdrawCollateral(v, amount)
      \/ Liquidate(v)
  BY DEF BorrowerNext
<1> DEFINE old == borrowers[u]
           limit == MaxLtvBps(scores[u]) + LIQ_BUFFER_BPS
<1>1. old \in BorrowerPosition /\ now \in Nat \ {0}
  BY DEF TypeOK
<1>2. CASE v # u
  <2>1. borrowers'[u] = borrowers[u]
    BY <1>2 DEF TypeOK, Borrow, Repay, AddCollateral, WithdrawCollateral, Liquidate
  <2>. QED
    BY <1>1, <2>1
<1>3. CASE v = u
  <2>1. Accrued(u) = old
    BY SettledReadsItself
  <2>2. limit \in Nat
    <3>1. scores[u] \in Nat
      BY ScoreTyped
    <3>. QED
      BY <3>1, MaxLtvNat DEF LIQ_BUFFER_BPS
  <2>3. ASSUME NEW collateral \in Collaterals, NEW amount \in Amounts,
               Borrow(u, collateral, amount)
        PROVE  \E pos \in BorrowerPosition : pos = borrowers'[u] /\ Afloat(u, pos)
    <3> DEFINE pos == Drawn(old, collateral, amount)
    <3>1. pos \in BorrowerPosition /\ pos.lastAccrual = now
      <4>1. collateral \in Nat /\ amount \in Nat
        BY PoolAssumption
      <4>2. old.lastAccrual <= now
        BY <1>1
      <4>. QED
        BY <1>1, <4>1, <4>2, DrawnPosition DEF Drawn
    <3>2. borrowers'[u] = pos /\ ~LtvExceeds(pos, MaxLtvBps(scores[u]))
      BY <2>1, <2>3 DEF Borrow, TypeOK
    <3> HIDE DEF pos
    <3>. QED
      BY <3>1, <3>2, AfloatAtMaximum
  <2>4. ASSUME NEW amount \in Amounts, Repay(u, amount)
        PROVE  \E pos \in BorrowerPosition : pos = borrowers'[u] /\ Afloat(u, pos)
    <3> DEFINE paid == Min({amount, Owed(old)})
               pos == Repaid(old, paid)
    <3>1. amount \in Nat /\ old.principal # 0
      BY <2>4, PoolAssumption DEF Repay
    <3>2. /\ paid \in Nat /\ pos \in BorrowerPosition
          /\ pos.lastAccrual = now /\ Owed(pos) = Owed(old) - paid
      BY <1>1, <3>1, RepaidPosition
    <3>3. pos.collateral = old.collateral
      BY <1>1 DEF Repaid, BorrowerPosition
    <3>4. borrowers'[u] = pos
      BY <2>1, <2>4 DEF Repay, TypeOK
    <3> HIDE DEF paid, pos
    <3>5. Owed(pos) <= Owed(old) /\ old.collateral <= pos.collateral /\ limit <= limit
      BY <1>1, <2>2, <3>2, <3>3 DEF Owed, BorrowerPosition
    <3>6. ~LtvExceeds(old, limit)
      BY <3>1 DEF Afloat
    <3> HIDE DEF limit, old
    <3>7. ~LtvExceeds(pos, limit)
      BY <1>1, <2>2, <3>2, <3>5, <3>6, SaferStaysUnder DEF TypeOK, old
    <3>. QED
      BY <3>2, <3>4, <3>7 DEF Afloat, limit
  <2>5. ASSUME NEW amount \in Collaterals, AddCollateral(u, amount)
        PROVE  \E pos \in BorrowerPosition : pos = borrowers'[u] /\ Afloat(u, pos)
    <3> DEFINE pos == [old EXCEPT !.collateral = @ + amount]
    <3>1. amount \in Nat
      BY PoolAssumption
    <3>2. /\ pos \in BorrowerPosition /\ pos.lastAccrual = now
          /\ pos.principal = old.principal /\ pos.interestOwed = old.interestOwed
          /\ pos.collateral = old.collateral + amount
      BY <1>1, <3>1 DEF BorrowerPosition
    <3>3. borrowers'[u] = pos
      BY <2>5 DEF AddCollateral, TypeOK
    <3> HIDE DEF pos
    <3>4. Owed(pos) <= Owed(old) /\ old.collateral <= pos.collateral /\ limit <= limit
      BY <1>1, <2>2, <3>1, <3>2 DEF Owed, BorrowerPosition
    <3>5. pos.principal # 0 => ~LtvExceeds(old, limit)
      BY <3>2 DEF Afloat
    <3> HIDE DEF limit, old
    <3>6. pos.principal # 0 => ~LtvExceeds(pos, limit)
      BY <1>1, <2>2, <3>2, <3>4, <3>5, SaferStaysUnder DEF TypeOK, old
    <3>. QED
      BY <3>2, <3>3, <3>6 DEF Afloat, limit
  <2>6. ASSUME NEW amount \in Collaterals, WithdrawCollateral(u, amount)
        PROVE  \E pos \in BorrowerPosition : pos = borrowers'[u] /\ Afloat(u, pos)
    <3> DEFINE pos == [old EXCEPT !.collateral = @ - amount]
    <3>1. amount \in Nat /\ amount <= old.collateral
      BY <2>6, PoolAssumption DEF WithdrawCollateral
    <3>2. pos \in BorrowerPosition /\ pos.lastAccrual = now
      BY <1>1, <3>1 DEF BorrowerPosition
    <3>3. borrowers'[u] = pos /\ StillBacked(u, pos)
      BY <2>1, <2>6 DEF WithdrawCollateral, TypeOK
    <3> HIDE DEF pos
    <3>4. pos.principal # 0 => ~LtvExceeds(pos, MaxLtvBps(scores[u]))
      BY <3>2, <3>3 DEF StillBacked, BorrowerPosition
    <3>. QED
      BY <3>2, <3>3, <3>4, AfloatAtMaximum DEF Afloat
  <2>7. CASE Liquidate(u)
    <3>1. borrowers'[u] = NoPosition /\ NoPosition \in BorrowerPosition
      BY <2>7 DEF Liquidate, TypeOK, NoPosition, BorrowerPosition
    <3>. QED
      BY <3>1 DEF Afloat, NoPosition
  <2>. QED
    BY <1>3, <2>3, <2>4, <2>5, <2>6, <2>7
<1>. QED
  BY <1>2, <1>3

LEMMA StepsKeepAfloat ==
  ASSUME TypeOK, [Next]_vars, NEW u \in Borrowers, ~(now' > now),
         borrowers[u].lastAccrual = now, borrowers[u].collateral # 0,
         Afloat(u, borrowers[u])
  PROVE  /\ now' = now
         /\ \E pos \in BorrowerPosition : pos = borrowers'[u] /\ Afloat(u, pos)
<1>1. borrowers[u] \in BorrowerPosition
  BY DEF TypeOK
<1>2. CASE BorrowerNext
  <2>1. now' = now
    BY <1>2 DEF BorrowerNext, Borrow, Repay, AddCollateral, WithdrawCollateral,
       Liquidate, outside, chainVars
  <2>. QED
    BY <1>2, <2>1, CallsKeepAfloat
<1>3. CASE SupplierNext
  BY <1>1, <1>3 DEF SupplierNext, Supply, Redeem, ClaimSupplierYield, borrowVars,
     outside, chainVars
<1>4. CASE AdminNext \/ UNCHANGED vars
  BY <1>1, <1>4 DEF AdminNext, WithdrawProtocolFee, Pause, Unpause, borrowVars,
     outside, chainVars, vars
<1>5. CASE WorldNext
  <2>1. ASSUME NEW seconds \in TimeSteps, NextBlock(seconds) PROVE FALSE
    <3>1. seconds \in Nat \ {0}
      BY PoolAssumption
    <3>2. now' = now + seconds /\ now \in Nat
      BY <2>1 DEF NextBlock, TypeOK
    <3>. QED
      BY <3>1, <3>2
  <2>. QED
    BY <1>1, <1>5, <2>1 DEF WorldNext, SetScore, KeeperSetsPrice, AdminForcesPrice,
       borrowVars, chainVars
<1>. QED
  BY <1>2, <1>3, <1>4, <1>5 DEF Next

\* The steps alone show it, from wherever the pool starts.
LEMMA StepsSinkNobody == []TypeOK /\ [][Next]_vars => OnlyTheWorldSinksPositions
<1>1. ASSUME TypeOK, TypeOK', [Next]_vars, NEW u \in Borrowers,
             Sunk(u)', ~Sunk(u), borrowers[u].lastAccrual = now,
             borrowers[u].collateral # 0,
             scores[u]' = scores[u], ethUsdPrice' = ethUsdPrice
      PROVE  now' > now
  <2> SUFFICES ASSUME ~(now' > now) PROVE FALSE
    OBVIOUS
  <2>1. Afloat(u, borrowers[u])
    BY <1>1, SettledReadsItself DEF Afloat, Sunk, Underwater
  <2>2. PICK pos \in BorrowerPosition : pos = borrowers'[u] /\ Afloat(u, pos)
    BY <1>1, <2>1, StepsKeepAfloat
  <2>3. now' = now
    BY <1>1, <2>1, StepsKeepAfloat
  <2>4. /\ borrowers'[u].principal # 0
        /\ LtvExceeds(Accrued(u), MaxLtvBps(scores[u]) + LIQ_BUFFER_BPS)'
    BY <1>1 DEF Sunk, Underwater
  <2>5. pos.lastAccrual = now /\ ~LtvExceeds(pos, MaxLtvBps(scores[u]) + LIQ_BUFFER_BPS)
    BY <2>2, <2>4 DEF Afloat
  <2>6. Accrued(u)' = pos
    <3>1. CurrentRateBps(u)' \in Nat
      <4>1. scores'[u] \in Scores /\ totalBorrowed' \in Nat /\ totalSupplied' \in Nat
        BY <1>1 DEF TypeOK
      <4>. QED
        BY <4>1, CurrentRateNat DEF CurrentRateBps
    <3>2. borrowers'[u].lastAccrual = now' /\ now' - borrowers'[u].lastAccrual = 0
      BY <1>1, <2>2, <2>3, <2>5 DEF TypeOK
    <3>3. PICK rate \in Nat : rate = CurrentRateBps(u)'
      BY <3>1
    <3>4. Accrued(u)' = IF pos.principal = 0 \/ pos.lastAccrual = 0 THEN pos
                        ELSE [pos EXCEPT !.interestOwed = @ + InterestOver(pos, rate, 0),
                                         !.lastAccrual = pos.lastAccrual]
      BY <2>2, <3>2, <3>3 DEF Accrued
    <3>. QED
      BY <3>4, NoTimeNoInterest
  <2>7. LtvExceeds(pos, MaxLtvBps(scores[u]) + LIQ_BUFFER_BPS)
    <3>1. MaxLtvBps(scores'[u]) = MaxLtvBps(scores[u])
      BY <1>1
    <3>. QED
      BY <1>1, <2>4, <2>6, <3>1 DEF LtvExceeds, WethToQusdc, Owed
  <2>. QED
    BY <2>5, <2>7
<1>2. TypeOK /\ TypeOK' /\ [Next]_vars =>
        [\A u \in Borrowers :
           /\ Sunk(u)' /\ ~Sunk(u)
           /\ borrowers[u].lastAccrual = now /\ borrowers[u].collateral # 0
           /\ scores[u]' = scores[u] /\ ethUsdPrice' = ethUsdPrice
           => now' > now]_vars
  BY <1>1
<1>. QED
  BY <1>2, PTL DEF OnlyTheWorldSinksPositions

\* Nobody is pushed into liquidation range by a call, their own or another's:
\* with score and price unchanged, a position whose interest is settled and
\* that has collateral only sinks with time.
THEOREM CallsSinkNobody == Spec => OnlyTheWorldSinksPositions
BY TypeCorrect, StepsSinkNobody, PTL DEF Spec
=============================================================================

----------------------- MODULE LendingPoolMoneyProofs -----------------------
(***************************************************************************)
(* Where the lending pool's money is.  The totals it keeps by hand are the *)
(* sums of its positions; what suppliers can claim is covered by the       *)
(* interest collected for them; and every call is one of the movements of  *)
(* money of PoolLedger, or moves none.                                     *)
(***************************************************************************)
EXTENDS PoolYieldBacking, LendingPoolProofs, SumTheorems

(***************************************************************************)
(* The totals are the sums of the positions.                               *)
(***************************************************************************)

\* A supplier's position is replaced and the total follows.
LEMMA SupplyFollows ==
  ASSUME TypeOK, SupplyAddsUp, NEW u \in Suppliers, NEW pos \in SupplyPosition,
         suppliers' = [suppliers EXCEPT ![u] = pos],
         totalSupplied' = totalSupplied - suppliers[u].amount + pos.amount
  PROVE  SupplyAddsUp'
<1> DEFINE f == [v \in Suppliers |-> suppliers[v].amount]
           g == [v \in Suppliers |-> suppliers'[v].amount]
<1>1. f \in [Suppliers -> Int]
  BY DEF TypeOK, SupplyPosition
<1>2. g[u] = pos.amount /\ \A v \in Suppliers \ {u} : g[v] = f[v]
  BY DEF TypeOK
<1>3. g \in [Suppliers -> Int]
  BY <1>1, <1>2 DEF SupplyPosition
<1>4. SumFunction(g) = SumFunction(f) - f[u] + g[u]
  BY <1>1, <1>2, <1>3, TotalChanged, FiniteAccounts
<1>5. totalSupplied = SumFunction(f)
  BY DEF SupplyAddsUp
<1>6. totalSupplied' = SumFunction(g)
  BY <1>2, <1>4, <1>5
<1>. QED
  BY <1>6 DEF SupplyAddsUp

\* The same for a borrower's position, its principal and its collateral.
LEMMA LoansFollow ==
  ASSUME TypeOK, LoansAddUp, CollateralAddsUp,
         NEW u \in Borrowers, NEW pos \in BorrowerPosition,
         borrowers' = [borrowers EXCEPT ![u] = pos],
         totalBorrowed' = totalBorrowed - borrowers[u].principal + pos.principal,
         weth' = weth - borrowers[u].collateral + pos.collateral
  PROVE  LoansAddUp' /\ CollateralAddsUp'
<1> DEFINE p == [v \in Borrowers |-> borrowers[v].principal]
           q == [v \in Borrowers |-> borrowers'[v].principal]
           c == [v \in Borrowers |-> borrowers[v].collateral]
           d == [v \in Borrowers |-> borrowers'[v].collateral]
<1>1. p \in [Borrowers -> Int] /\ c \in [Borrowers -> Int]
  BY DEF TypeOK, BorrowerPosition
<1>2. /\ q[u] = pos.principal /\ \A v \in Borrowers \ {u} : q[v] = p[v]
      /\ d[u] = pos.collateral /\ \A v \in Borrowers \ {u} : d[v] = c[v]
  BY DEF TypeOK
<1>3. q \in [Borrowers -> Int] /\ d \in [Borrowers -> Int]
  BY <1>1, <1>2 DEF BorrowerPosition
<1>4. SumFunction(q) = SumFunction(p) - p[u] + q[u]
  BY <1>1, <1>2, <1>3, TotalChanged, FiniteAccounts
<1>5. SumFunction(d) = SumFunction(c) - c[u] + d[u]
  BY <1>1, <1>2, <1>3, TotalChanged, FiniteAccounts
<1>6. totalBorrowed = SumFunction(p) /\ weth = SumFunction(c)
  BY DEF LoansAddUp, CollateralAddsUp
<1>7. totalBorrowed' = SumFunction(q) /\ weth' = SumFunction(d)
  BY <1>2, <1>4, <1>5, <1>6
<1>. QED
  BY <1>7 DEF LoansAddUp, CollateralAddsUp

LEMMA SupplierStepsAddUp ==
  ASSUME TypeOK, SupplyAddsUp, SupplierNext
  PROVE  SupplyAddsUp'
<1> PICK u \in Suppliers :
      \/ \E amount \in Amounts : Supply(u, amount) \/ Redeem(u, amount)
      \/ ClaimSupplierYield(u)
  BY DEF SupplierNext
<1> DEFINE pos == suppliers[u]
<1>1. pos \in SupplyPosition /\ pos.amount \in Nat /\ totalSupplied \in Nat
      /\ accInterestPerShare \in Nat
  BY DEF TypeOK, SupplyPosition
<1>2. ASSUME NEW amount \in Amounts, Supply(u, amount) PROVE SupplyAddsUp'
  <2>1. amount \in Nat
    BY PoolAssumption
  <2>2. Resized(pos, pos.amount + amount) \in SupplyPosition
        /\ Resized(pos, pos.amount + amount).amount = pos.amount + amount
    BY <1>1, <1>2, <2>1, ResizedPosition DEF Supply, Resized
  <2>3. /\ suppliers' = [suppliers EXCEPT ![u] = Resized(pos, pos.amount + amount)]
        /\ totalSupplied' = totalSupplied + amount
    BY <1>2 DEF Supply
  <2>4. totalSupplied' = totalSupplied - pos.amount + (pos.amount + amount)
    BY <1>1, <2>1, <2>3
  <2>. QED
    BY <2>2, <2>3, <2>4, SupplyFollows
<1>3. ASSUME NEW amount \in Amounts, Redeem(u, amount) PROVE SupplyAddsUp'
  <2>1. amount \in Nat /\ pos.amount - amount \in Nat
    BY <1>1, <1>3, PoolAssumption DEF Redeem
  <2>2. Resized(pos, pos.amount - amount) \in SupplyPosition
        /\ Resized(pos, pos.amount - amount).amount = pos.amount - amount
    BY <1>1, <1>3, <2>1, ResizedPosition DEF Redeem, Resized
  <2>3. /\ suppliers' = [suppliers EXCEPT ![u] = Resized(pos, pos.amount - amount)]
        /\ totalSupplied' = totalSupplied - amount
    BY <1>3 DEF Redeem
  <2>4. totalSupplied' = totalSupplied - pos.amount + (pos.amount - amount)
    BY <1>1, <2>1, <2>3
  <2>. QED
    BY <2>2, <2>3, <2>4, SupplyFollows
<1>4. CASE ClaimSupplierYield(u)
  <2> DEFINE new == [Resized(pos, pos.amount) EXCEPT !.pendingYield = 0]
  <2>1. Resized(pos, pos.amount) \in SupplyPosition
        /\ Resized(pos, pos.amount).amount = pos.amount
    BY <1>1, <1>4, ResizedPosition DEF ClaimSupplierYield, Resized
  <2>2. new \in SupplyPosition /\ new.amount = pos.amount
    BY <2>1 DEF SupplyPosition
  <2>3. suppliers' = [suppliers EXCEPT ![u] = new] /\ totalSupplied' = totalSupplied
    BY <1>4 DEF ClaimSupplierYield
  <2>4. totalSupplied' = totalSupplied - pos.amount + new.amount
    BY <1>1, <2>2, <2>3
  <2> HIDE DEF new
  <2>. QED
    BY <2>2, <2>3, <2>4, SupplyFollows
<1>. QED
  BY <1>2, <1>3, <1>4

LEMMA BorrowerStepsAddUp ==
  ASSUME TypeOK, LoansAddUp, CollateralAddsUp, BorrowerNext
  PROVE  LoansAddUp' /\ CollateralAddsUp'
<1> PICK u \in Borrowers :
      \/ \E collateral \in Collaterals, amount \in Amounts : Borrow(u, collateral, amount)
      \/ \E amount \in Amounts : Repay(u, amount)
      \/ \E amount \in Collaterals : AddCollateral(u, amount) \/ WithdrawCollateral(u, amount)
      \/ Liquidate(u)
  BY DEF BorrowerNext
<1> DEFINE old == borrowers[u]
           acc == Accrued(u)
<1>1. /\ old \in BorrowerPosition /\ acc \in BorrowerPosition
      /\ acc.collateral = old.collateral /\ acc.principal = old.principal
      /\ acc.lastAccrual <= now
      /\ totalBorrowed \in Nat /\ weth \in Nat
      /\ old.principal \in Nat /\ old.collateral \in Nat
      /\ old.collateral \in Nat
  BY AccruedPosition DEF TypeOK, BorrowerPosition
<1> HIDE DEF acc
<1>2. ASSUME NEW collateral \in Collaterals, NEW amount \in Amounts,
             Borrow(u, collateral, amount)
      PROVE  LoansAddUp' /\ CollateralAddsUp'
  <2> DEFINE pos == Drawn(acc, collateral, amount)
  <2>1. collateral \in Nat /\ amount \in Nat
    BY PoolAssumption
  <2>2. /\ pos \in BorrowerPosition
        /\ pos.principal = old.principal + amount
        /\ pos.collateral = old.collateral + collateral
    BY <1>1, <2>1, DrawnPosition DEF Drawn
  <2>3. /\ borrowers' = [borrowers EXCEPT ![u] = pos]
        /\ totalBorrowed' = totalBorrowed + amount /\ weth' = weth + collateral
    BY <1>2 DEF Borrow, acc
  <2> HIDE DEF pos
  <2>4. /\ totalBorrowed' = totalBorrowed - old.principal + pos.principal
        /\ weth' = weth - old.collateral + pos.collateral
    BY <1>1, <2>1, <2>2, <2>3
  <2>. QED
    BY <2>2, <2>3, <2>4, LoansFollow
<1>3. ASSUME NEW amount \in Amounts, Repay(u, amount)
      PROVE  LoansAddUp' /\ CollateralAddsUp'
  <2> DEFINE paid == Min({amount, Owed(acc)})
             principalPaid == paid - InterestPart(acc, paid)
             pos == Repaid(acc, paid)
  <2>1. amount \in Nat
    BY PoolAssumption
  <2>2. principalPaid \in Nat /\ pos \in BorrowerPosition
    BY <1>1, <2>1, RepaidPosition
  <2>3. pos.principal = acc.principal - principalPaid /\ pos.collateral = acc.collateral
    BY <1>1 DEF Repaid, BorrowerPosition
  <2>4. /\ borrowers' = [borrowers EXCEPT ![u] = pos]
        /\ totalBorrowed' = totalBorrowed - principalPaid /\ weth' = weth
    BY <1>3 DEF Repay, acc
  <2> HIDE DEF pos, principalPaid
  <2>5. /\ totalBorrowed' = totalBorrowed - old.principal + pos.principal
        /\ weth' = weth - old.collateral + pos.collateral
    BY <1>1, <2>2, <2>3, <2>4
  <2>. QED
    BY <2>2, <2>4, <2>5, LoansFollow
<1>4. ASSUME NEW amount \in Collaterals, AddCollateral(u, amount)
      PROVE  LoansAddUp' /\ CollateralAddsUp'
  <2> DEFINE pos == [old EXCEPT !.collateral = @ + amount]
  <2>1. amount \in Nat
    BY PoolAssumption
  <2>2. /\ pos \in BorrowerPosition /\ pos.principal = old.principal
        /\ pos.collateral = old.collateral + amount
    BY <1>1, <2>1 DEF BorrowerPosition
  <2>3. /\ borrowers' = [borrowers EXCEPT ![u] = pos]
        /\ totalBorrowed' = totalBorrowed /\ weth' = weth + amount
    BY <1>4 DEF AddCollateral
  <2> HIDE DEF pos
  <2>4. /\ totalBorrowed' = totalBorrowed - old.principal + pos.principal
        /\ weth' = weth - old.collateral + pos.collateral
    BY <1>1, <2>1, <2>2, <2>3
  <2>. QED
    BY <2>2, <2>3, <2>4, LoansFollow
<1>5. ASSUME NEW amount \in Collaterals, WithdrawCollateral(u, amount)
      PROVE  LoansAddUp' /\ CollateralAddsUp'
  <2> DEFINE pos == [acc EXCEPT !.collateral = @ - amount]
  <2>1. amount \in Nat /\ amount <= acc.collateral
    BY <1>1, <1>5, PoolAssumption DEF WithdrawCollateral
  <2>2. /\ pos \in BorrowerPosition /\ pos.principal = acc.principal
        /\ pos.collateral = acc.collateral - amount
    BY <1>1, <2>1 DEF BorrowerPosition
  <2>3. /\ borrowers' = [borrowers EXCEPT ![u] = pos]
        /\ totalBorrowed' = totalBorrowed /\ weth' = weth - amount
    BY <1>5 DEF WithdrawCollateral, acc
  <2> HIDE DEF pos
  <2>4. /\ totalBorrowed' = totalBorrowed - old.principal + pos.principal
        /\ weth' = weth - old.collateral + pos.collateral
    BY <1>1, <2>1, <2>2, <2>3
  <2>. QED
    BY <2>2, <2>3, <2>4, LoansFollow
<1>6. CASE Liquidate(u)
  <2>1. /\ NoPosition \in BorrowerPosition /\ NoPosition.principal = 0
        /\ NoPosition.collateral = 0
    BY DEF NoPosition, BorrowerPosition
  <2>2. /\ borrowers' = [borrowers EXCEPT ![u] = NoPosition]
        /\ totalBorrowed' = totalBorrowed - acc.principal
        /\ weth' = weth - Seized(acc) - (acc.collateral - Seized(acc))
    BY <1>6 DEF Liquidate, acc
  <2>3. Seized(acc) \in Nat
    BY <1>1, SeizedWithinCollateral
  <2>4. /\ totalBorrowed' = totalBorrowed - old.principal + NoPosition.principal
        /\ weth' = weth - old.collateral + NoPosition.collateral
    BY <1>1, <2>1, <2>2, <2>3
  <2>. QED
    BY <2>1, <2>2, <2>4, LoansFollow
<1>. QED
  BY <1>2, <1>3, <1>4, <1>5, <1>6

\* Borrowers' calls leave principals supplied alone, and suppliers' calls the
\* loans; the rest of the world touches neither.
LEMMA SidesKeepApart ==
  ASSUME [Next]_vars
  PROVE  /\ SupplierNext \/ UNCHANGED <<totalSupplied, suppliers>>
         /\ BorrowerNext \/ UNCHANGED <<totalBorrowed, weth, borrowers>>
<1> USE DEF supplyVars, borrowVars
<1>1. CASE SupplierNext
  BY <1>1 DEF SupplierNext, Supply, Redeem, ClaimSupplierYield
<1>2. CASE BorrowerNext
  BY <1>2 DEF BorrowerNext, Borrow, Repay, AddCollateral, WithdrawCollateral,
     Liquidate, DistributeInterest
<1>3. CASE AdminNext
  BY <1>3 DEF AdminNext, WithdrawProtocolFee, Pause, Unpause
<1>4. CASE WorldNext
  BY <1>4 DEF WorldNext, SetScore, KeeperSetsPrice, AdminForcesPrice, NextBlock
<1>5. CASE UNCHANGED vars
  BY <1>5 DEF vars
<1>. QED
  BY <1>1, <1>2, <1>3, <1>4, <1>5 DEF Next

LEMMA TotalsInit == Init => TotalsMatchPositions
<1> SUFFICES ASSUME Init PROVE TotalsMatchPositions
  OBVIOUS
<1>1. /\ [u \in Suppliers |-> suppliers[u].amount] = [u \in Suppliers |-> 0]
      /\ [u \in Borrowers |-> borrowers[u].principal] = [u \in Borrowers |-> 0]
      /\ [u \in Borrowers |-> borrowers[u].collateral] = [u \in Borrowers |-> 0]
  BY DEF Init, NoSupply, NoPosition
<1>2. /\ SumFunction([u \in Suppliers |-> 0]) = 0
      /\ SumFunction([u \in Borrowers |-> 0]) = 0
  BY TotalOfZeros, FiniteAccounts
<1>. QED
  BY <1>1, <1>2 DEF Init, TotalsMatchPositions, SupplyAddsUp, LoansAddUp, CollateralAddsUp

LEMMA TotalsNext == TypeOK /\ TotalsMatchPositions /\ [Next]_vars => TotalsMatchPositions'
<1> SUFFICES ASSUME TypeOK, TotalsMatchPositions, [Next]_vars
             PROVE  TotalsMatchPositions'
  OBVIOUS
<1>1. SupplyAddsUp'
  <2>1. CASE SupplierNext
    BY <2>1, SupplierStepsAddUp DEF TotalsMatchPositions
  <2>2. CASE UNCHANGED <<totalSupplied, suppliers>>
    BY <2>2 DEF TotalsMatchPositions, SupplyAddsUp
  <2>. QED
    BY <2>1, <2>2, SidesKeepApart
<1>2. LoansAddUp' /\ CollateralAddsUp'
  <2>1. CASE BorrowerNext
    BY <2>1, BorrowerStepsAddUp DEF TotalsMatchPositions
  <2>2. CASE UNCHANGED <<totalBorrowed, weth, borrowers>>
    BY <2>2 DEF TotalsMatchPositions, LoansAddUp, CollateralAddsUp
  <2>. QED
    BY <2>1, <2>2, SidesKeepApart
<1>. QED
  BY <1>1, <1>2 DEF TotalsMatchPositions

\* However many accounts supply, borrow, repay, are liquidated and move
\* collateral, in whatever order: totalSupplied, totalBorrowed and the pool's
\* WETH are the sums over the positions, to the unit.
THEOREM TotalsAreSums == Spec => []TotalsMatchPositions
BY TotalsInit, TotalsNext, TypeCorrect, PTL DEF Spec

(***************************************************************************)
(* Yield is backed.                                                        *)
(***************************************************************************)

LEMMA QuotientBounds ==
  ASSUME NEW x \in Nat, NEW n \in Nat \ {0}
  PROVE  (x \div n) * n <= x /\ x < (x \div n) * n + n
<1>1. x = n * (x \div n) + (x % n) /\ x % n \in 0 .. n - 1 /\ x \div n \in Nat
  OBVIOUS
<1>. QED
  BY <1>1

LEMMA CancelFactor ==
  ASSUME NEW a \in Int, NEW b \in Int, NEW n \in Nat \ {0}, a * n <= b * n
  PROVE  a <= b
<1> SUFFICES ASSUME a > b PROVE FALSE
  OBVIOUS
<1>1. a - b >= 1
  OBVIOUS
<1>2. (a - b) * n >= 1 * n
  BY <1>1
<1>. QED
  BY <1>2

LEMMA EntitlementBounds ==
  ASSUME NEW amount \in Nat, NEW acc \in Nat
  PROVE  /\ Entitlement(amount, acc) * ACC_PRECISION <= amount * acc
         /\ amount * acc < Entitlement(amount, acc) * ACC_PRECISION + ACC_PRECISION
BY ProductNat, QuotientBounds, PoolAssumption DEF Entitlement

\* What a position is entitled to before the division rounds: its claim in
\* units of 1 / ACC_PRECISION.
Exact(pos) ==
  pos.pendingYield * ACC_PRECISION + pos.amount * accInterestPerShare
    - pos.rewardDebt * ACC_PRECISION

Exacts == [u \in Suppliers |-> Exact(suppliers[u])]

\* The strengthening YieldBacked needs: the claims are backed before rounding.
ExactBacked == SumFunction(Exacts) <= (YieldHeld + resizes) * ACC_PRECISION

BackingInv ==
  /\ TypeOK /\ resizes \in Nat
  /\ BaselinesBelowAccumulator /\ SupplyAddsUp
  /\ ExactBacked

LEMMA ExactInt ==
  ASSUME NEW pos \in SupplyPosition, accInterestPerShare \in Nat
  PROVE  Exact(pos) \in Int
<1>1. /\ pos.pendingYield * ACC_PRECISION \in Nat
      /\ pos.amount * accInterestPerShare \in Nat
      /\ pos.rewardDebt * ACC_PRECISION \in Nat
  BY ProductNat, PoolAssumption DEF SupplyPosition
<1>. QED
  BY <1>1 DEF Exact

LEMMA ExactsInt ==
  ASSUME TypeOK
  PROVE  Exacts \in [Suppliers -> Int] /\ SumFunction(Exacts) \in Int
<1>1. Exacts \in [Suppliers -> Int]
  BY ExactInt DEF Exacts, TypeOK
<1>. QED
  BY <1>1, TotalInt, FiniteAccounts

\* The division only takes away from a claim.
LEMMA ClaimBelowExact ==
  ASSUME NEW pos \in SupplyPosition, accInterestPerShare \in Nat,
         pos.rewardDebt <= Entitlement(pos.amount, accInterestPerShare)
  PROVE  /\ Settleable(pos) /\ Claimable(pos) \in Nat
         /\ Claimable(pos) * ACC_PRECISION <= Exact(pos)
<1> DEFINE acc == accInterestPerShare
           P == ACC_PRECISION
           e == Entitlement(pos.amount, acc)
<1>1. pos.amount \in Nat /\ pos.rewardDebt \in Nat /\ pos.pendingYield \in Nat
      /\ P \in Nat \ {0}
  BY PoolAssumption DEF SupplyPosition
<1>2. e \in Nat /\ e * P <= pos.amount * acc
  BY <1>1, EntitlementNat, EntitlementBounds
<1>3. Settleable(pos) /\ Claimable(pos) \in Nat
  BY ClaimableNat DEF Settleable
<1>4. Claimable(pos) = pos.pendingYield + (e - pos.rewardDebt)
  <2>1. pos.amount = 0 => e = 0
    BY <1>1 DEF Entitlement
  <2>2. pos.amount = 0 => pos.rewardDebt = 0
    BY <1>1, <2>1
  <2>. QED
    BY <1>1, <2>1, <2>2 DEF Claimable, Unsettled
<1> HIDE DEF e, P
<1>5. (pos.pendingYield + (e - pos.rewardDebt)) * P
        = pos.pendingYield * P + e * P - pos.rewardDebt * P
  BY <1>1, <1>2
<1>6. /\ pos.pendingYield * P \in Nat /\ e * P \in Nat /\ pos.rewardDebt * P \in Nat
      /\ pos.amount * acc \in Nat
  BY <1>1, <1>2, ProductNat
<1>7. Exact(pos) = pos.pendingYield * P + pos.amount * acc - pos.rewardDebt * P
  BY DEF Exact, P
<1>8. Claimable(pos) * P <= Exact(pos)
  BY <1>2, <1>4, <1>5, <1>6, <1>7
<1>. QED
  BY <1>3, <1>8 DEF P

\* Giving a position a new size adds less than a unit to its exact claim ...
LEMMA ResizingCosts ==
  ASSUME NEW pos \in SupplyPosition, accInterestPerShare \in Nat, NEW amount \in Nat,
         pos.rewardDebt <= Entitlement(pos.amount, accInterestPerShare)
  PROVE  Exact(Resized(pos, amount)) <= Exact(pos) + ACC_PRECISION
<1> DEFINE acc == accInterestPerShare
           P == ACC_PRECISION
           e == Entitlement(amount, acc)
<1>1. /\ Claimable(pos) \in Nat /\ Claimable(pos) * P <= Exact(pos)
      /\ Exact(pos) \in Int /\ P \in Nat \ {0}
  BY ClaimBelowExact, ExactInt, PoolAssumption
<1>2. e \in Nat /\ amount * acc < e * P + P
  BY EntitlementNat, EntitlementBounds
<1>3. Exact(Resized(pos, amount)) = Claimable(pos) * P + amount * acc - e * P
  BY DEF Exact, Resized
<1>4. Claimable(pos) * P \in Nat /\ amount * acc \in Nat /\ e * P \in Nat
  BY <1>1, <1>2, ProductNat
<1> HIDE DEF e, P
<1>5. Exact(Resized(pos, amount)) <= Exact(pos) + P
  BY <1>1, <1>2, <1>3, <1>4
<1>. QED
  BY <1>5 DEF P

\* ... and paying it out takes exactly what is paid off it.
LEMMA PayingTakesOff ==
  ASSUME NEW pos \in SupplyPosition, accInterestPerShare \in Nat,
         pos.rewardDebt <= Entitlement(pos.amount, accInterestPerShare)
  PROVE  Exact([Resized(pos, pos.amount) EXCEPT !.pendingYield = 0])
           = Exact(pos) - Claimable(pos) * ACC_PRECISION
<1> DEFINE acc == accInterestPerShare
           P == ACC_PRECISION
           e == Entitlement(pos.amount, acc)
           paid == [Resized(pos, pos.amount) EXCEPT !.pendingYield = 0]
<1>1. pos.amount \in Nat /\ pos.rewardDebt \in Nat /\ pos.pendingYield \in Nat
      /\ P \in Nat \ {0} /\ e \in Nat
  BY PoolAssumption, EntitlementNat DEF SupplyPosition
<1>2. Claimable(pos) = pos.pendingYield + (e - pos.rewardDebt)
  <2>1. pos.amount = 0 => e = 0
    BY <1>1 DEF Entitlement
  <2>2. pos.amount = 0 => pos.rewardDebt = 0
    BY <1>1, <2>1
  <2>. QED
    BY <1>1, <2>1, <2>2 DEF Claimable, Unsettled
<1>3. paid = [amount |-> pos.amount, rewardDebt |-> e, pendingYield |-> 0]
  BY DEF Resized
<1>4. Exact(paid) = 0 * P + pos.amount * acc - e * P
  BY <1>3 DEF Exact
<1>5. Exact(pos) = pos.pendingYield * P + pos.amount * acc - pos.rewardDebt * P
  BY DEF Exact
<1> HIDE DEF e, P, paid
<1>6. (pos.pendingYield + (e - pos.rewardDebt)) * P
        = pos.pendingYield * P + e * P - pos.rewardDebt * P
  BY <1>1
<1>7. /\ pos.pendingYield * P \in Nat /\ e * P \in Nat /\ pos.rewardDebt * P \in Nat
      /\ pos.amount * acc \in Nat /\ 0 * P = 0
  BY <1>1, ProductNat
<1>8. Exact(paid) = Exact(pos) - Claimable(pos) * P
  BY <1>2, <1>4, <1>5, <1>6, <1>7
<1>. QED
  BY <1>8 DEF P, paid

\* One position changes while the accumulator stands still.
LEMMA ExactsFollow ==
  ASSUME TypeOK, NEW u \in Suppliers, NEW pos \in SupplyPosition,
         suppliers' = [suppliers EXCEPT ![u] = pos],
         accInterestPerShare' = accInterestPerShare
  PROVE  SumFunction(Exacts)' = SumFunction(Exacts) - Exact(suppliers[u]) + Exact(pos)
<1> DEFINE g == [v \in Suppliers |-> Exact(suppliers'[v])]
<1>1. Exacts \in [Suppliers -> Int] /\ Exacts[u] = Exact(suppliers[u])
  BY ExactsInt DEF Exacts
<1>2. g[u] = Exact(pos) /\ \A v \in Suppliers \ {u} : g[v] = Exacts[v]
  BY DEF Exacts, TypeOK
<1>3. g \in [Suppliers -> Int]
  BY <1>1, <1>2, ExactInt DEF TypeOK
<1>4. SumFunction(g) = SumFunction(Exacts) - Exacts[u] + g[u]
  BY <1>1, <1>2, <1>3, TotalChanged, FiniteAccounts
<1>5. Exacts' = g
  BY DEF Exacts, Exact
<1>. QED
  BY <1>1, <1>2, <1>4, <1>5

\* The accumulator rises: everybody gains in proportion to their size.
LEMMA ExactsRise ==
  ASSUME TypeOK, SupplyAddsUp, NEW d \in Nat, suppliers' = suppliers,
         accInterestPerShare' = accInterestPerShare + d
  PROVE  SumFunction(Exacts)' = SumFunction(Exacts) + d * totalSupplied
<1> DEFINE amount == [v \in Suppliers |-> suppliers[v].amount]
           g == Exacts'
<1>1. Exacts \in [Suppliers -> Int] /\ amount \in [Suppliers -> Int]
  BY ExactsInt DEF TypeOK, SupplyPosition
<1>2. ASSUME NEW v \in Suppliers PROVE g[v] = Exacts[v] + d * amount[v]
  <2> DEFINE pos == suppliers[v]
             acc == accInterestPerShare
             rest == pos.pendingYield * ACC_PRECISION
             base == pos.rewardDebt * ACC_PRECISION
  <2>1. /\ pos.amount \in Nat /\ acc \in Nat
        /\ rest \in Nat /\ base \in Nat
    BY ProductNat, PoolAssumption DEF TypeOK, SupplyPosition
  <2>2. Exacts[v] = rest + pos.amount * acc - base
    BY DEF Exacts, Exact
  <2>3. g[v] = rest + pos.amount * (acc + d) - base
    BY DEF Exacts, Exact
  <2> HIDE DEF rest, base
  <2>4. pos.amount * (acc + d) = pos.amount * acc + d * pos.amount
    BY <2>1
  <2>5. pos.amount * acc \in Nat /\ d * pos.amount \in Nat
    BY <2>1, ProductNat
  <2>6. amount[v] = pos.amount
    OBVIOUS
  <2>. QED
    BY <2>1, <2>2, <2>3, <2>4, <2>5, <2>6
<1>3. \A v \in Suppliers : d * amount[v] \in Int
  BY <1>1
<1>4. g \in [Suppliers -> Int]
  <2>1. g = [v \in Suppliers |-> g[v]]
    BY DEF Exacts
  <2>. QED
    BY <1>1, <1>2, <1>3, <2>1
<1>5. SumFunction(g) = SumFunction(Exacts) + d * SumFunction(amount)
  BY <1>1, <1>2, <1>4, TotalLinear, FiniteAccounts
<1>6. totalSupplied = SumFunction(amount)
  BY DEF SupplyAddsUp
<1>. QED
  BY <1>5, <1>6

LEMMA YieldHeldInt == ASSUME TypeOK PROVE YieldHeld \in Int
BY DEF TypeOK, YieldHeld

\* Supplying, redeeming and claiming: the exact claims grow by less than a unit
\* when the size of a position changes, and fall by what a claim pays.
LEMMA SupplierStepsKeepBacked ==
  ASSUME BackingInv, SupplierNext,
         NEW k \in Nat, resizes' = resizes + k, Resizing => k = 1
  PROVE  ExactBacked'
<1> PICK u \in Suppliers :
      \/ \E amount \in Amounts : Supply(u, amount) \/ Redeem(u, amount)
      \/ ClaimSupplierYield(u)
  BY DEF SupplierNext
<1> DEFINE pos == suppliers[u]
           P == ACC_PRECISION
           E == SumFunction(Exacts)
<1>1. /\ TypeOK /\ accInterestPerShare \in Nat /\ resizes \in Nat
      /\ pos \in SupplyPosition /\ pos.amount \in Nat
      /\ pos.rewardDebt <= Entitlement(pos.amount, accInterestPerShare)
      /\ E <= (YieldHeld + resizes) * P /\ E \in Int /\ YieldHeld \in Int
      /\ P \in Nat \ {0} /\ Exact(pos) \in Int
  BY ExactsInt, ExactInt, YieldHeldInt, PoolAssumption
     DEF BackingInv, TypeOK, SupplyPosition, BaselinesBelowAccumulator, ExactBacked
<1>2. ASSUME NEW amount \in Nat, amount # pos.amount,
             suppliers' = [suppliers EXCEPT ![u] = Resized(pos, amount)],
             accInterestPerShare' = accInterestPerShare, YieldHeld' = YieldHeld
      PROVE  ExactBacked'
  <2>1. /\ Resized(pos, amount) \in SupplyPosition
        /\ Resized(pos, amount).amount = amount
    BY <1>1, ClaimBelowExact, ResizedPosition DEF Resized
  <2>2. E' = E - Exact(pos) + Exact(Resized(pos, amount))
    BY <1>1, <1>2, <2>1, ExactsFollow
  <2>3. Exact(Resized(pos, amount)) <= Exact(pos) + P
    BY <1>1, ResizingCosts
  <2>4. Exact(Resized(pos, amount)) \in Int
    BY <1>1, <2>1, ExactInt
  <2>5. resizes' = resizes + 1
    <3>1. suppliers'[u].amount # suppliers[u].amount
      BY <1>1, <1>2, <2>1 DEF TypeOK
    <3>. QED
      BY <3>1 DEF Resizing
  <2> HIDE DEF E, P, pos
  <2>6. (YieldHeld + (resizes + 1)) * P = (YieldHeld + resizes) * P + P
    BY <1>1
  <2>7. (YieldHeld + resizes) * P \in Int
    BY <1>1
  <2>8. E' <= (YieldHeld' + resizes') * P
    BY <1>1, <1>2, <2>2, <2>3, <2>4, <2>5, <2>6, <2>7
  <2>. QED
    BY <2>8 DEF ExactBacked, E, P
<1>3. ASSUME NEW amount \in Amounts, Supply(u, amount) PROVE ExactBacked'
  <2>1. amount \in Nat /\ amount # 0 /\ pos.amount + amount # pos.amount
        /\ pos.amount + amount \in Nat
    BY <1>1, <1>3, PoolAssumption DEF Supply
  <2>2. /\ suppliers' = [suppliers EXCEPT ![u] = Resized(pos, pos.amount + amount)]
        /\ totalSupplied' = totalSupplied + amount /\ qusdc' = qusdc + amount
        /\ UNCHANGED <<accInterestPerShare, protocolFeeAccrued, totalBorrowed>>
    BY <1>3 DEF Supply, borrowVars
  <2>3. YieldHeld' = YieldHeld
    BY <1>1, <2>1, <2>2 DEF YieldHeld, TypeOK
  <2>. QED
    BY <1>2, <2>1, <2>2, <2>3
<1>4. ASSUME NEW amount \in Amounts, Redeem(u, amount) PROVE ExactBacked'
  <2>1. amount \in Nat /\ amount # 0 /\ pos.amount - amount # pos.amount
        /\ pos.amount - amount \in Nat
    BY <1>1, <1>4, PoolAssumption DEF Redeem
  <2>2. /\ suppliers' = [suppliers EXCEPT ![u] = Resized(pos, pos.amount - amount)]
        /\ totalSupplied' = totalSupplied - amount /\ qusdc' = qusdc - amount
        /\ UNCHANGED <<accInterestPerShare, protocolFeeAccrued, totalBorrowed>>
    BY <1>4 DEF Redeem, borrowVars
  <2>3. YieldHeld' = YieldHeld
    BY <1>1, <2>1, <2>2 DEF YieldHeld, TypeOK
  <2>. QED
    BY <1>2, <2>1, <2>2, <2>3
<1>5. CASE ClaimSupplierYield(u)
  <2> DEFINE new == [Resized(pos, pos.amount) EXCEPT !.pendingYield = 0]
             paid == Claimable(pos)
  <2>1. /\ Resized(pos, pos.amount) \in SupplyPosition /\ paid \in Nat
        /\ Exact(new) = Exact(pos) - paid * P
    BY <1>1, ClaimBelowExact, ResizedPosition, PayingTakesOff
  <2>2. new \in SupplyPosition
    BY <2>1 DEF SupplyPosition
  <2>3. /\ suppliers' = [suppliers EXCEPT ![u] = new] /\ qusdc' = qusdc - paid
        /\ UNCHANGED <<totalSupplied, accInterestPerShare, protocolFeeAccrued, totalBorrowed>>
    BY <1>5 DEF ClaimSupplierYield, borrowVars
  <2> HIDE DEF new
  <2>4. E' = E - Exact(pos) + Exact(new)
    BY <1>1, <2>2, <2>3, ExactsFollow
  <2>5. YieldHeld' = YieldHeld - paid
    BY <1>1, <2>1, <2>3 DEF YieldHeld, TypeOK
  <2> HIDE DEF E, P, pos, paid
  <2>7. (YieldHeld - paid + (resizes + k)) * P
          = (YieldHeld + resizes) * P - paid * P + k * P
    BY <1>1, <2>1
  <2>8. /\ (YieldHeld + resizes) * P \in Int /\ paid * P \in Nat
        /\ k * P \in Nat
    BY <1>1, <2>1, ProductNat
  <2>9. E' <= (YieldHeld' + resizes') * P
    BY <1>1, <2>1, <2>4, <2>5, <2>7, <2>8
  <2>. QED
    BY <2>9 DEF ExactBacked, E, P
<1>. QED
  BY <1>3, <1>4, <1>5

\* Paid interest: the accumulator credits at most the suppliers' share of it.
LEMMA InterestKeepsBacked ==
  ASSUME BackingInv, NEW k \in Nat, resizes' = resizes + k,
         NEW principal \in Nat, NEW interest \in Nat,
         totalBorrowed' = totalBorrowed - principal,
         qusdc' = qusdc + (principal + interest),
         DistributeInterest(interest)
  PROVE  ExactBacked'
<1> DEFINE share == interest - ProtocolCut(interest)
           P == ACC_PRECISION
           E == SumFunction(Exacts)
           d == IF totalSupplied > 0 THEN (share * P) \div totalSupplied ELSE 0
<1>1. /\ TypeOK /\ SupplyAddsUp /\ E <= (YieldHeld + resizes) * P
      /\ E \in Int /\ YieldHeld \in Int
      /\ P \in Nat \ {0} /\ resizes \in Nat /\ totalSupplied \in Nat
  BY ExactsInt, YieldHeldInt, PoolAssumption DEF BackingInv, ExactBacked, TypeOK
<1>2. share \in Nat /\ ProtocolCut(interest) \in Nat
  BY CutOfInterest
<1>3. share * P \in Nat
  BY <1>1, <1>2, ProductNat
<1>4. d \in Nat /\ d * totalSupplied <= share * P
  <2> DEFINE x == share * P
  <2>1. x \in Nat
    BY <1>3
  <2> HIDE DEF x
  <2>2. CASE totalSupplied > 0
    <3>1. x \div totalSupplied \in Nat /\ (x \div totalSupplied) * totalSupplied <= x
      BY <1>1, <2>1, <2>2, QuotientNat, QuotientBounds
    <3>. QED
      BY <2>2, <3>1 DEF x
  <2>3. CASE ~(totalSupplied > 0)
    BY <1>1, <1>3, <2>3
  <2>. QED
    BY <2>2, <2>3
<1>5. /\ accInterestPerShare' = accInterestPerShare + d
      /\ protocolFeeAccrued' = protocolFeeAccrued + ProtocolCut(interest)
      /\ suppliers' = suppliers /\ totalSupplied' = totalSupplied
  BY <1>1 DEF DistributeInterest, TypeOK
<1>6. YieldHeld' = YieldHeld + share
  <2> DEFINE cut == ProtocolCut(interest)
  <2>1. cut \in Nat /\ protocolFeeAccrued' = protocolFeeAccrued + cut
    BY <1>2, <1>5
  <2> HIDE DEF cut
  <2>2. YieldHeld' = YieldHeld + (interest - cut)
    BY <1>1, <1>5, <2>1 DEF YieldHeld, TypeOK
  <2>. QED
    BY <2>2 DEF cut
<1> HIDE DEF d, share
<1>7. E' = E + d * totalSupplied
  BY <1>1, <1>4, <1>5, ExactsRise
<1> HIDE DEF E, P
<1>8. (YieldHeld + share + (resizes + k)) * P
        = (YieldHeld + resizes) * P + share * P + k * P
  BY <1>1, <1>2
<1>9. /\ (YieldHeld + resizes) * P \in Int /\ k * P \in Nat
      /\ d * totalSupplied \in Nat
  <2>1. YieldHeld + resizes \in Int /\ (YieldHeld + resizes) * P \in Int
    BY <1>1
  <2>. QED
    BY <1>1, <1>4, <2>1, ProductNat
<1>10. E' <= (YieldHeld' + resizes') * P
  BY <1>1, <1>3, <1>4, <1>6, <1>7, <1>8, <1>9
<1>. QED
  BY <1>10 DEF ExactBacked, E, P

\* A step that keeps positions, accumulator and the yield held keeps the claims
\* backed.
LEMMA NothingMovesKeepsBacked ==
  ASSUME BackingInv, NEW k \in Nat, resizes' = resizes + k,
         YieldHeld' = YieldHeld, UNCHANGED <<suppliers, accInterestPerShare>>
  PROVE  ExactBacked'
<1> DEFINE P == ACC_PRECISION
           E == SumFunction(Exacts)
<1>1. /\ E <= (YieldHeld + resizes) * P /\ E \in Int /\ YieldHeld \in Int
      /\ P \in Nat \ {0} /\ resizes \in Nat
  BY ExactsInt, YieldHeldInt, PoolAssumption DEF BackingInv, ExactBacked
<1>2. E' = E
  BY DEF Exacts, Exact
<1> HIDE DEF E, P
<1>3. (YieldHeld + (resizes + k)) * P = (YieldHeld + resizes) * P + k * P
  BY <1>1
<1>4. (YieldHeld + resizes) * P \in Int /\ k * P \in Nat
  <2>1. YieldHeld + resizes \in Int /\ (YieldHeld + resizes) * P \in Int
    BY <1>1
  <2>. QED
    BY <1>1, <2>1, ProductNat
<1>5. (YieldHeld' + resizes') * P = (YieldHeld + (resizes + k)) * P
  OBVIOUS
<1>6. E' <= (YieldHeld' + resizes') * P
  BY <1>1, <1>2, <1>3, <1>4, <1>5
<1>. QED
  BY <1>6 DEF ExactBacked, E, P

LEMMA BorrowerStepsKeepBacked ==
  ASSUME BackingInv, BorrowerNext, NEW k \in Nat, resizes' = resizes + k
  PROVE  ExactBacked'
<1> PICK u \in Borrowers :
      \/ \E collateral \in Collaterals, amount \in Amounts : Borrow(u, collateral, amount)
      \/ \E amount \in Amounts : Repay(u, amount)
      \/ \E amount \in Collaterals : AddCollateral(u, amount) \/ WithdrawCollateral(u, amount)
      \/ Liquidate(u)
  BY DEF BorrowerNext
<1>0. TypeOK
  BY DEF BackingInv
<1>1. ASSUME NEW collateral \in Collaterals, NEW amount \in Amounts,
             Borrow(u, collateral, amount)
      PROVE  ExactBacked'
  <2>1. amount \in Nat
    BY PoolAssumption
  <2>2. /\ totalBorrowed' = totalBorrowed + amount /\ qusdc' = qusdc - amount
        /\ UNCHANGED <<totalSupplied, protocolFeeAccrued, suppliers, accInterestPerShare>>
    BY <1>1 DEF Borrow, supplyVars
  <2>3. YieldHeld' = YieldHeld
    BY <1>0, <2>1, <2>2 DEF YieldHeld, TypeOK
  <2>. QED
    BY <2>2, <2>3, NothingMovesKeepsBacked
<1>2. ASSUME NEW amount \in Amounts, Repay(u, amount) PROVE ExactBacked'
  <2> DEFINE pos == Accrued(u)
             paid == Min({amount, Owed(pos)})
             interestPaid == InterestPart(pos, paid)
             principalPaid == paid - interestPaid
  <2>1. paid \in Nat /\ interestPaid \in Nat /\ principalPaid \in Nat
    BY <1>0, AccruedPosition, RepaidPosition, PoolAssumption
  <2>2. /\ totalBorrowed' = totalBorrowed - principalPaid
        /\ DistributeInterest(interestPaid) /\ qusdc' = qusdc + paid
    BY <1>2 DEF Repay
  <2>3. paid = principalPaid + interestPaid
    <3> HIDE DEF paid, interestPaid
    <3>. QED
      BY <2>1
  <2> HIDE DEF paid, interestPaid, principalPaid
  <2>. QED
    BY <2>1, <2>2, <2>3, InterestKeepsBacked
<1>3. ASSUME NEW amount \in Collaterals,
             AddCollateral(u, amount) \/ WithdrawCollateral(u, amount)
      PROVE  ExactBacked'
  BY <1>3, NothingMovesKeepsBacked DEF AddCollateral, WithdrawCollateral, supplyVars, YieldHeld
<1>4. CASE Liquidate(u)
  <2> DEFINE pos == Accrued(u)
  <2>1. pos.principal \in Nat /\ pos.interestOwed \in Nat
    BY <1>0, AccruedPosition DEF BorrowerPosition
  <2>2. /\ totalBorrowed' = totalBorrowed - pos.principal
        /\ DistributeInterest(pos.interestOwed)
        /\ qusdc' = qusdc + (pos.principal + pos.interestOwed)
    BY <1>4 DEF Liquidate, Owed
  <2> HIDE DEF pos
  <2>. QED
    BY <2>1, <2>2, InterestKeepsBacked
<1>. QED
  BY <1>1, <1>2, <1>3, <1>4

LEMMA OtherStepsKeepBacked ==
  ASSUME BackingInv, AdminNext \/ WorldNext \/ UNCHANGED vars,
         NEW k \in Nat, resizes' = resizes + k
  PROVE  ExactBacked'
<1>1. UNCHANGED <<suppliers, accInterestPerShare>> /\ YieldHeld' = YieldHeld
  <2> USE DEF supplyVars, borrowVars, YieldHeld
  <2>1. CASE WithdrawProtocolFee
    BY <2>1 DEF WithdrawProtocolFee, BackingInv, TypeOK
  <2>2. CASE Pause \/ Unpause
    BY <2>2 DEF Pause, Unpause
  <2>3. CASE WorldNext
    BY <2>3 DEF WorldNext, SetScore, KeeperSetsPrice, AdminForcesPrice, NextBlock
  <2>4. CASE UNCHANGED vars
    BY <2>4 DEF vars
  <2>. QED
    BY <2>1, <2>2, <2>3, <2>4 DEF AdminNext
<1>. QED
  BY <1>1, NothingMovesKeepsBacked

LEMMA BackingInit == Init /\ resizes = 0 => BackingInv
<1> SUFFICES ASSUME Init, resizes = 0 PROVE BackingInv
  OBVIOUS
<1>1. TypeOK /\ BaselinesBelowAccumulator /\ SupplyAddsUp
  BY TypeInit, BaselinesInit, TotalsInit DEF TotalsMatchPositions
<1>2. Exacts = [u \in Suppliers |-> 0]
  <2>1. \A u \in Suppliers : Exact(suppliers[u]) = 0
    <3>1. 0 * ACC_PRECISION = 0
      BY PoolAssumption
    <3>. QED
      BY <3>1 DEF Exact, Init, NoSupply
  <2>. QED
    BY <2>1 DEF Exacts
<1>3. SumFunction(Exacts) = 0
  BY <1>2, TotalOfZeros, FiniteAccounts
<1>4. YieldHeld = 0 /\ (0 + 0) * ACC_PRECISION = 0
  BY PoolAssumption DEF Init, YieldHeld
<1>5. ExactBacked
  BY <1>3, <1>4 DEF ExactBacked
<1>. QED
  BY <1>1, <1>5 DEF BackingInv

LEMMA BackingStep == BackingInv /\ [BackingNext]_<<vars, resizes>> => BackingInv'
<1> SUFFICES ASSUME BackingInv, [BackingNext]_<<vars, resizes>> PROVE BackingInv'
  OBVIOUS
<1>1. [Next]_vars
  BY DEF BackingNext
<1>2. TypeOK' /\ BaselinesBelowAccumulator' /\ SupplyAddsUp'
  <2>1. TypeOK' /\ BaselinesBelowAccumulator'
    BY <1>1, NextKeepsTypes, BaselinesNext DEF BackingInv
  <2>2. SupplyAddsUp'
    <3>1. CASE SupplierNext
      BY <3>1, SupplierStepsAddUp DEF BackingInv
    <3>2. CASE UNCHANGED <<totalSupplied, suppliers>>
      BY <3>2 DEF BackingInv, SupplyAddsUp
    <3>. QED
      BY <1>1, <3>1, <3>2, SidesKeepApart
  <2>. QED
    BY <2>1, <2>2
<1>3. CASE BackingNext
  <2>1. resizes' = resizes + (IF Resizing THEN 1 ELSE 0)
    BY <1>3 DEF BackingNext
  <2> DEFINE k == IF Resizing THEN 1 ELSE 0
  <2>2. k \in Nat /\ resizes' = resizes + k /\ (Resizing => k = 1) /\ resizes' \in Nat
    BY <2>1 DEF BackingInv
  <2> HIDE DEF k
  <2>3. ExactBacked'
    BY <1>3, <2>1, <2>2, SupplierStepsKeepBacked, BorrowerStepsKeepBacked,
       OtherStepsKeepBacked DEF BackingNext, Next
  <2>. QED
    BY <1>2, <2>2, <2>3 DEF BackingInv
<1>4. CASE UNCHANGED <<vars, resizes>>
  <2>1. resizes' \in Nat /\ resizes' = resizes + 0
    BY <1>4 DEF BackingInv
  <2>2. ExactBacked'
    BY <1>4, <2>1, OtherStepsKeepBacked
  <2>. QED
    BY <1>2, <2>1, <2>2 DEF BackingInv
<1>. QED
  BY <1>3, <1>4

\* What all suppliers together can claim is covered by the interest collected
\* for them and not paid out yet, up to one unit for every supply or redeem
\* there ever was, for any number of suppliers and any accumulator precision.
THEOREM YieldIsBacked == BackingSpec => []YieldBacked
<1>1. BackingInv => YieldBacked
  <2> SUFFICES ASSUME BackingInv PROVE YieldBacked
    OBVIOUS
  <2> DEFINE P == ACC_PRECISION
             claim == [u \in Suppliers |-> Claimable(suppliers[u])]
             scaled == [u \in Suppliers |-> Claimable(suppliers[u]) * P]
             zero == [u \in Suppliers |-> 0]
  <2>1. /\ TypeOK /\ P \in Nat \ {0} /\ resizes \in Nat /\ YieldHeld \in Int
        /\ SumFunction(Exacts) <= (YieldHeld + resizes) * P
    BY YieldHeldInt, PoolAssumption DEF BackingInv, ExactBacked
  <2>2. \A u \in Suppliers : /\ Claimable(suppliers[u]) \in Nat
                             /\ Claimable(suppliers[u]) * P <= Exact(suppliers[u])
    BY ClaimBelowExact DEF BackingInv, TypeOK, BaselinesBelowAccumulator
  <2>3. /\ claim \in [Suppliers -> Int] /\ scaled \in [Suppliers -> Int]
        /\ zero \in [Suppliers -> Int] /\ Exacts \in [Suppliers -> Int]
    BY <2>1, <2>2, ExactsInt, ProductNat
  <2>4. \A u \in Suppliers : scaled[u] = zero[u] + P * claim[u]
    BY <2>1, <2>2
  <2>5. SumFunction(scaled) = SumFunction(zero) + P * SumFunction(claim)
    <3> HIDE DEF scaled, zero, claim
    <3>. QED
      BY <2>1, <2>3, <2>4, TotalLinear, FiniteAccounts
  <2>6. SumFunction(zero) = 0
    BY TotalOfZeros, FiniteAccounts
  <2>7. SumFunction(scaled) <= SumFunction(Exacts)
    BY <2>2, <2>3, TotalMonotone, FiniteAccounts DEF Exacts
  <2>8. /\ SumFunction(claim) \in Int /\ SumFunction(scaled) \in Int
        /\ SumFunction(Exacts) \in Int
    BY <2>3, TotalInt, FiniteAccounts
  <2> HIDE DEF claim, scaled, zero, P
  <2>9. /\ P * SumFunction(claim) = SumFunction(claim) * P
        /\ SumFunction(claim) * P \in Int /\ (YieldHeld + resizes) * P \in Int
    BY <2>1, <2>8
  <2>10. SumFunction(claim) * P <= (YieldHeld + resizes) * P
    BY <2>1, <2>5, <2>6, <2>7, <2>8, <2>9
  <2>11. SumFunction(claim) <= YieldHeld + resizes
    BY <2>1, <2>8, <2>10, CancelFactor
  <2>. QED
    BY <2>11 DEF YieldBacked, claim
<1>. QED
  BY <1>1, BackingInit, BackingStep, PTL DEF BackingSpec

(***************************************************************************)
(* The refinement: the pool implements the ledger of PoolLedger.           *)
(***************************************************************************)

\* a rounded-down utilisation of at most 9000 keeps the loans under 90.01 %
LEMMA CapBoundsLoans ==
  ASSUME NEW b \in Nat, NEW s \in Nat \ {0}, UtilBps(b, s) <= MAX_UTIL_BPS
  PROVE  b * 10000 < 9001 * s
<1>1. (b * 10000) \div s <= 9000
  BY DEF UtilBps, MAX_UTIL_BPS, BPS
<1>2. b * 10000 \in Nat
  OBVIOUS
<1>3. ASSUME NEW x \in Nat, x \div s <= 9000 PROVE x < 9001 * s
  <2>1. x = s * (x \div s) + (x % s) /\ x % s < s /\ x \div s \in Nat
    OBVIOUS
  <2>2. s * (x \div s) <= s * 9000
    BY <1>3, <2>1, ProductMonotone
  <2>. QED
    BY <2>1, <2>2
<1>. QED
  BY <1>1, <1>2, <1>3

LEMMA LedgerInit == Init => Ledger!Init
BY DEF Init, Ledger!Init

LEMMA SupplyMoves ==
  ASSUME TypeOK, NEW u \in Suppliers, NEW amount \in Amounts, Supply(u, amount)
  PROVE  Ledger!Deposit
<1>1. amount \in Nat /\ amount # 0
  BY PoolAssumption DEF Supply
<1>2. /\ totalSupplied' = totalSupplied + amount /\ qusdc' = qusdc + amount
      /\ UNCHANGED <<protocolFeeAccrued, totalBorrowed>>
  BY DEF Supply, borrowVars
<1>. QED
  BY <1>1, <1>2 DEF TypeOK, Ledger!Deposit

LEMMA RedeemMoves ==
  ASSUME TypeOK, NEW u \in Suppliers, NEW amount \in Amounts, Redeem(u, amount)
  PROVE  Ledger!Withdraw
<1>1. amount \in Nat /\ amount # 0
  BY PoolAssumption DEF Redeem
<1>2. /\ amount <= totalSupplied /\ protocolFeeAccrued + amount <= qusdc
      /\ totalSupplied' = totalSupplied - amount /\ qusdc' = qusdc - amount
      /\ UNCHANGED <<protocolFeeAccrued, totalBorrowed>>
      /\ LeavesEnough(totalSupplied - amount)
  BY DEF Redeem, borrowVars
<1>3. totalBorrowed = 0 \/ totalBorrowed * 10000 < 9001 * totalSupplied'
  <2>1. CASE totalSupplied - amount > 0
    <3>1. totalSupplied - amount \in Nat \ {0} /\ totalBorrowed \in Nat
      BY <1>1, <1>2, <2>1 DEF TypeOK
    <3>2. UtilBps(totalBorrowed, totalSupplied - amount) <= MAX_UTIL_BPS
      BY <1>2, <2>1 DEF LeavesEnough
    <3>. QED
      BY <1>2, <3>1, <3>2, CapBoundsLoans
  <2>2. CASE ~(totalSupplied - amount > 0)
    BY <1>2, <2>2 DEF LeavesEnough
  <2>. QED
    BY <2>1, <2>2
<1>. QED
  BY <1>1, <1>2, <1>3 DEF TypeOK, Ledger!Withdraw

LEMMA ClaimMoves ==
  ASSUME TypeOK, NEW u \in Suppliers, ClaimSupplierYield(u)
  PROVE  Ledger!PayYield
<1>1. Claimable(suppliers[u]) \in Nat
  BY ClaimableNat DEF TypeOK, ClaimSupplierYield
<1>2. /\ Claimable(suppliers[u]) # 0 /\ Claimable(suppliers[u]) <= qusdc
      /\ qusdc' = qusdc - Claimable(suppliers[u])
      /\ UNCHANGED <<totalSupplied, protocolFeeAccrued, totalBorrowed>>
  BY DEF ClaimSupplierYield, borrowVars
<1>. QED
  BY <1>1, <1>2 DEF TypeOK, Ledger!PayYield

LEMMA BorrowMoves ==
  ASSUME TypeOK, NEW u \in Borrowers, NEW collateral \in Collaterals,
         NEW amount \in Amounts, Borrow(u, collateral, amount)
  PROVE  Ledger!Lend
<1>1. amount \in Nat /\ amount # 0
  BY PoolAssumption DEF Borrow
<1>2. /\ protocolFeeAccrued + amount <= qusdc
      /\ totalBorrowed' = totalBorrowed + amount /\ qusdc' = qusdc - amount
      /\ UNCHANGED <<totalSupplied, protocolFeeAccrued>>
      /\ UtilBps(totalBorrowed + amount, totalSupplied) <= MAX_UTIL_BPS
  BY DEF Borrow, supplyVars
<1>3. totalSupplied > 0 => totalBorrowed' * 10000 < 9001 * totalSupplied
  <2>1. totalBorrowed + amount \in Nat
    BY <1>1 DEF TypeOK
  <2>. QED
    BY <1>2, <2>1, CapBoundsLoans DEF TypeOK
<1>. QED
  BY <1>1, <1>2, <1>3 DEF TypeOK, Ledger!Lend

\* Principal and interest of one payment, split as DistributeInterest splits it.
LEMMA PaymentMoves ==
  ASSUME TypeOK, NEW principal \in Nat, NEW interest \in Nat,
         principal <= totalBorrowed,
         totalBorrowed' = totalBorrowed - principal,
         qusdc' = qusdc + (principal + interest),
         DistributeInterest(interest)
  PROVE  Ledger!Collect
<1> DEFINE cut == (interest * 2000) \div 10000
<1>1. protocolFeeAccrued' = protocolFeeAccrued + cut /\ totalSupplied' = totalSupplied
  BY DEF DistributeInterest, ProtocolCut, PROTOCOL_FEE_BPS, BPS
<1>2. cut \in Nat
  BY CutOfInterest DEF ProtocolCut, PROTOCOL_FEE_BPS, BPS
<1>3. /\ totalBorrowed - totalBorrowed' = principal
      /\ (qusdc' - qusdc) - (totalBorrowed - totalBorrowed') = interest
  BY DEF TypeOK
<1>4. qusdc' + totalBorrowed' - totalSupplied' - protocolFeeAccrued'
        = (qusdc + totalBorrowed - totalSupplied - protocolFeeAccrued) + (interest - cut)
  <2> HIDE DEF cut
  <2>. QED
    BY <1>1, <1>2 DEF TypeOK
<1>. QED
  BY <1>1, <1>3, <1>4 DEF Ledger!Collect

LEMMA RepayMoves ==
  ASSUME TypeOK, NEW u \in Borrowers, NEW amount \in Amounts, Repay(u, amount)
  PROVE  Ledger!Collect
<1> DEFINE pos == Accrued(u)
           paid == Min({amount, Owed(pos)})
           interestPaid == InterestPart(pos, paid)
           principalPaid == paid - interestPaid
<1>1. paid \in Nat /\ interestPaid \in Nat /\ principalPaid \in Nat
  BY AccruedPosition, RepaidPosition, PoolAssumption
<1>2. /\ principalPaid <= totalBorrowed
      /\ totalBorrowed' = totalBorrowed - principalPaid
      /\ DistributeInterest(interestPaid)
      /\ qusdc' = qusdc + paid
  BY DEF Repay
<1>3. paid = principalPaid + interestPaid
  <2> HIDE DEF paid, interestPaid
  <2>. QED
    BY <1>1
<1> HIDE DEF paid, interestPaid, principalPaid
<1>. QED
  BY <1>1, <1>2, <1>3, PaymentMoves

LEMMA LiquidateMoves ==
  ASSUME TypeOK, NEW u \in Borrowers, Liquidate(u)
  PROVE  Ledger!Collect
<1> DEFINE pos == Accrued(u)
<1>1. pos.principal \in Nat /\ pos.interestOwed \in Nat
  BY AccruedPosition DEF BorrowerPosition
<1>2. /\ pos.principal <= totalBorrowed
      /\ totalBorrowed' = totalBorrowed - pos.principal
      /\ DistributeInterest(pos.interestOwed)
      /\ qusdc' = qusdc + (pos.principal + pos.interestOwed)
  BY DEF Liquidate, Owed
<1> HIDE DEF pos
<1>. QED
  BY <1>1, <1>2, PaymentMoves

LEMMA FeeWithdrawalMoves ==
  ASSUME TypeOK, WithdrawProtocolFee
  PROVE  Ledger!Sweep
BY DEF TypeOK, WithdrawProtocolFee, borrowVars, Ledger!Sweep

LEMMA OtherStepsMoveNothing ==
  ASSUME \/ \E u \in Borrowers, amount \in Collaterals :
              AddCollateral(u, amount) \/ WithdrawCollateral(u, amount)
         \/ Pause \/ Unpause \/ WorldNext \/ UNCHANGED vars
  PROVE  UNCHANGED Ledger!ledger
<1>1. UNCHANGED <<totalSupplied, protocolFeeAccrued, totalBorrowed, qusdc>>
  BY DEF AddCollateral, WithdrawCollateral, Pause, Unpause, WorldNext, SetScore,
     KeeperSetsPrice, AdminForcesPrice, NextBlock, supplyVars, borrowVars, vars
<1>. QED
  BY <1>1 DEF Ledger!ledger

\* Whoever calls the pool and in whatever order, QUSDC only moves the ways the
\* ledger allows: principal leaves only from cash that is not the treasury's,
\* loans stay under the cap, no paid interest is lost between the treasury and
\* the suppliers, and yield is paid from the cash.
THEOREM PoolImplementsLedger == Spec => ImplementsLedger
<1>1. TypeOK /\ [Next]_vars => [Ledger!Next]_Ledger!ledger
  <2> SUFFICES ASSUME TypeOK, [Next]_vars PROVE Ledger!Next \/ UNCHANGED Ledger!ledger
    OBVIOUS
  <2>1. CASE SupplierNext
    BY <2>1, SupplyMoves, RedeemMoves, ClaimMoves DEF SupplierNext, Ledger!Next
  <2>2. CASE BorrowerNext
    BY <2>2, BorrowMoves, RepayMoves, LiquidateMoves, OtherStepsMoveNothing
       DEF BorrowerNext, Ledger!Next
  <2>3. CASE AdminNext
    BY <2>3, FeeWithdrawalMoves, OtherStepsMoveNothing DEF AdminNext, Ledger!Next
  <2>4. CASE WorldNext \/ UNCHANGED vars
    BY <2>4, OtherStepsMoveNothing
  <2>. QED
    BY <2>1, <2>2, <2>3, <2>4 DEF Next
<1>. QED
  BY <1>1, LedgerInit, TypeCorrect, PTL DEF Spec, ImplementsLedger, Ledger!Spec
=============================================================================

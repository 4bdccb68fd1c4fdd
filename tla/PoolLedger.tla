----------------------------- MODULE PoolLedger -----------------------------
(***************************************************************************)
(* What the lending pool promises about money, whoever calls it and in     *)
(* whatever order: QUSDC moves between five buckets, and only in these     *)
(* ways.  Suppliers' principal, treasury fees and suppliers' yield are     *)
(* three separate claims on the cash and the loans.                        *)
(***************************************************************************)
EXTENDS Integers

VARIABLES
  cash,       \* QUSDC the pool holds
  lent,       \* principal out on loan
  supplied,   \* principal owed to suppliers
  fees,       \* owed to the treasury
  yield       \* interest collected for suppliers less yield paid to them

ledger == <<cash, lent, supplied, fees, yield>>

\* The amounts of a movement are read off the step itself.

Deposit ==
  LET n == supplied' - supplied IN
  /\ n > 0
  /\ cash' = cash + n
  /\ UNCHANGED <<lent, fees, yield>>

\* principal leaves only from cash that is not the treasury's, and what stays
\* supplied still covers the loans under the 90 % cap
Withdraw ==
  LET n == supplied - supplied' IN
  /\ 0 < n /\ n <= supplied /\ fees + n <= cash
  /\ lent = 0 \/ lent * 10000 < 9001 * supplied'
  /\ cash' = cash - n
  /\ UNCHANGED <<lent, fees, yield>>

\* while anything is supplied, loans stay under the 90 % cap
Lend ==
  LET n == lent' - lent IN
  /\ n > 0 /\ fees + n <= cash
  /\ supplied > 0 => lent' * 10000 < 9001 * supplied
  /\ cash' = cash - n
  /\ UNCHANGED <<supplied, fees, yield>>

\* a payment of principal and interest: the treasury's share is 20 %, rounded
\* down, and none of the interest is lost
Collect ==
  LET principal == lent - lent'
      interest == (cash' - cash) - principal
      cut == (interest * 2000) \div 10000 IN
  /\ 0 <= principal /\ principal <= lent /\ 0 <= interest
  /\ fees' = fees + cut
  /\ yield' = yield + (interest - cut)
  /\ UNCHANGED supplied

PayYield ==
  LET n == cash - cash' IN
  /\ 0 < n /\ n <= cash
  /\ yield' = yield - n
  /\ UNCHANGED <<lent, supplied, fees>>

Sweep ==
  /\ fees <= cash
  /\ cash' = cash - fees /\ fees' = 0
  /\ UNCHANGED <<lent, supplied, yield>>

Init == cash = 0 /\ lent = 0 /\ supplied = 0 /\ fees = 0 /\ yield = 0

Next == Deposit \/ Withdraw \/ Lend \/ Collect \/ PayYield \/ Sweep

Spec == Init /\ [][Next]_ledger
=============================================================================

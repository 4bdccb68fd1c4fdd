-------------------------- MODULE PoolYieldBacking --------------------------
(***************************************************************************)
(* The lending pool with a history variable: how often a supplier's        *)
(* position changed size.  Each change re-bases the position on a rounded  *)
(* baseline, so each can hand out up to one unit of yield nobody paid in;  *)
(* the history is what bounds that dust.  Pausing and price updates touch  *)
(* nothing on the supply side and are left to the other runs.              *)
(***************************************************************************)
EXTENDS LendingPool

CONSTANT MaxResizes     \* bound of the model

VARIABLE resizes        \* supply and redeem calls so far

Resizing == \E u \in Suppliers : suppliers'[u].amount # suppliers[u].amount

BackingNext ==
  /\ Next
  /\ UNCHANGED <<paused, oracleVars>>
  /\ resizes' = resizes + (IF Resizing THEN 1 ELSE 0)
  /\ resizes' <= MaxResizes

BackingSpec == Init /\ resizes = 0 /\ [][BackingNext]_<<vars, resizes>>

\* interest collected for suppliers and not paid out: the part of the balance
\* that principal, loans and treasury fees do not explain
YieldHeld == qusdc + totalBorrowed - totalSupplied - protocolFeeAccrued

\* The pool can pay: what all suppliers together can claim is covered by the
\* interest that was collected for them and not yet paid out, up to one unit
\* for every supply or redeem call made.  A call that settled twice, forgot a
\* baseline, or credited the treasury's 20 % to suppliers as well, breaks it.
YieldBacked ==
  SumFunction([u \in Suppliers |-> Claimable(suppliers[u])]) <= YieldHeld + resizes
=============================================================================

----------------------------- MODULE PoolGrace -----------------------------
(***************************************************************************)
(* The lending pool with the calls of liquidate that revert in its grace   *)
(* branch. A reverted call leaves no trace in the contract, so here it     *)
(* leaves one in a history variable: when a borrower of high score was     *)
(* first called upon, which is what its window is counted from.            *)
(***************************************************************************)
EXTENDS LendingPool

CONSTANT GRACE_PERIOD

VARIABLE warned     \* account -> time of the call that opened its window, or 0

\* what delete graceExpiry[borrower] forgets, with a debt repaid or liquidated
StillWarned == [u \in Borrowers |-> IF borrowers'[u].principal = 0 THEN 0 ELSE warned[u]]

\* the first call of liquidate on a position it would take but for the grace
\* branch: it assigns the window's end and reverts
CalledUpon(u) ==
  /\ FreshPrice
  /\ Sunk(u)
  /\ ~GraceOver(u)
  /\ warned[u] = 0
  /\ warned' = [warned EXCEPT ![u] = now]
  /\ UNCHANGED vars

GraceNext == (Next /\ warned' = StillWarned) \/ \E u \in Borrowers : CalledUpon(u)

GraceSpec ==
  Init /\ warned = [u \in Borrowers |-> 0] /\ [][GraceNext]_<<vars, warned>>

\* "first call arms the timer and reverts, only a later call (after it expires)
\* actually liquidates": once a window's time has passed since the first call,
\* a position that still is underwater can be liquidated.
WindowEndsInLiquidation ==
  \A u \in Borrowers :
    /\ warned[u] # 0 /\ now >= warned[u] + GRACE_PERIOD
    /\ FreshPrice /\ Sunk(u)
    => GraceOver(u)
=============================================================================

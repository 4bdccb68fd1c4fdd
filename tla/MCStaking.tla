------------------------------ MODULE MCStaking ------------------------------
(***************************************************************************)
(* The staking system for TLC.  The standard cap lies below one stake, so  *)
(* that a position has both slices, and two stakes make a whale.           *)
(* A unit of QUSDC is worth 3 of WQIE and the dust is 4, so that half of   *)
(* the dust is below a unit, as it is on chain while QIE is below 2 USD.   *)
(***************************************************************************)
EXTENDS StakingSystem, TLC

CONSTANTS a1, a2

Capped == {[standard |-> 700, whale |-> 900, threshold |-> 2000]}

\* a pair much larger than the stakes
Deep == [wqie |-> 30000, qusdc |-> 10000, supply |-> 20000]

\* the same pair after fees and a fall of QIE
Fallen == [wqie |-> 34000, qusdc |-> 10500, supply |-> 20000]

AtFirst == {Deep}
Later == {Fallen}

\* stakers differ only by name
Interchangeable == Permutations(Stakers)
=============================================================================

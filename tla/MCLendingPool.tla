--------------------------- MODULE MCLendingPool ---------------------------
(***************************************************************************)
(* The pool for TLC.  The amounts are chosen so that interest of one       *)
(* "year" is several units (the treasury's 20 % is not always rounded to   *)
(* nothing) and so that both roundings of the accumulator happen.          *)
(***************************************************************************)
EXTENDS LendingPool, TLC

CONSTANTS s1, s2, b1, b2

\* accounts of one side differ only by name
Interchangeable == Permutations(Suppliers) \cup Permutations(Borrowers)
=============================================================================

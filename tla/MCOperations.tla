---------------------------- MODULE MCOperations ----------------------------
(***************************************************************************)
(* The off-chain processes for TLC.  A unit of time is an hour, and so is  *)
(* a block; the rates are those of a year, so that a loan of 20 earns      *)
(* interest in it.  From price 8 the market price 10 is out of setPrice's  *)
(* reach, from 10 the price 8 is just within.                              *)
(***************************************************************************)
EXTENDS Operations, TLC

CONSTANTS s1, b1, b2, c1, c2

MCIndebted == {{b1}, {b1, b2}}
=============================================================================

------------------------------- MODULE MCPages -------------------------------
(* Pages instantiated for TLC. *)
EXTENDS Pages

\* leaving a page with calls on their way, for the dashboard and from it
CrossMoves == {<<"lending", "dashboard">>, <<"dashboard", "stake">>}
=============================================================================

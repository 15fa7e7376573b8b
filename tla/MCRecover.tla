------------------------------ MODULE MCRecover ------------------------------
(***************************************************************************)
(* The TCP server of a tunnel that is not shut down: what it recovers from *)
(* while its parent context lasts.                                         *)
(***************************************************************************)
EXTENDS RevServer

Lasting == Next /\ UNCHANGED parent

LastingSpec == Init /\ [][Lasting]_vars /\ Fairness
=============================================================================

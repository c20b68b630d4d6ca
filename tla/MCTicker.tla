------------------------------- MODULE MCTicker -------------------------------
(* Ticker on a small instance.                                             *)
EXTENDS Ticker
===============================================================================

----------------------------- MODULE MCHistoryFsm -----------------------------
(* HistoryFsm on small instances.                                          *)
EXTENDS Densities, TLC
===============================================================================

------------------------------ MODULE MCMetric ------------------------------
(* Metric on a small instance.                                             *)
EXTENDS Metric
=============================================================================

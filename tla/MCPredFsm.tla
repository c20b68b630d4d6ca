------------------------------ MODULE MCPredFsm ------------------------------
(* PredFsm on small instances.                                             *)
EXTENDS PredFsm

\* Samples more than a microsecond apart.
Apart == [spacing |-> 2, last |-> 6, samples |-> 4]

\* Samples with one of two timestamps.
Together == [spacing |-> 0, last |-> 1, samples |-> 4]

SpacedOrEqual == {Apart, Together}

OnlySpaced == {Apart}
==============================================================================

------------------------------ MODULE MCPipeline ------------------------------
(* Pipeline on a small instance: two predictions that have a metric in     *)
(* common and a constraint; a dummy model, one that renames a result and   *)
(* one that looks for two.                                                 *)
EXTENDS Pipeline

CONSTANTS average, simple, constraint, dummy, perflvl, radio, usage, latency, power,
          consumption

PredictionKinds == {average, simple, constraint}

ConstraintNames == [p \in {constraint} |-> power]

AttachableNames ==
  [p \in {average, simple} |-> IF p = average THEN {usage, latency} ELSE {usage}]

NeededNames ==
  [m \in {perflvl, radio} |->
     IF m = radio THEN <<[result |-> usage, output |-> usage]>>
     ELSE <<[result |-> usage, output |-> usage],
            [result |-> power, output |-> consumption]>>]

Weights == [n \in {usage, consumption} |-> IF n = usage THEN 1 ELSE 2]
================================================================================

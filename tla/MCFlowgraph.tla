------------------------------ MODULE MCFlowgraph ------------------------------
(* Flowgraph on small instances.                                            *)
EXTENDS Flowgraph

\* A program that keeps to the contract of the library, programs that do not
\* in one way, and one that does anything.
Contract == {}
RunDry == {"run_dry"}
NullLists == {"null_list"}
AnyHabit == Habits
================================================================================

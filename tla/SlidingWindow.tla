---------------------------- MODULE SlidingWindow ----------------------------
(***************************************************************************)
(* What a metric promises to the prediction code that reads it             *)
(* (include/metric.h, used by lib/predictions/average.c and                *)
(* lib/predictions/fsm/pred_fsm.c): samples are accepted one at a time, a   *)
(* dump returns the most recent ones, oldest first, without a gap and      *)
(* never more than Capacity, and the last sample is at least as recent as  *)
(* the end of an earlier dump.  There is no ring, no lock and no copying   *)
(* loop here: each call is one step.                                       *)
(*                                                                         *)
(* A sample is named by its rank in the order of acceptance, starting at 1 *)
(***************************************************************************)
EXTENDS Integers, Sequences

CONSTANTS Capacity,     \* How many samples the window retains, a natural number
          Readers       \* The threads that read the metric

VARIABLES accepted,     \* How many samples were accepted so far
          got,          \* What the pending dump of each reader returned
          latest        \* What the last-sample call of each reader returned

vars == <<accepted, got, latest>>

Lesser(a, b) == IF a <= b THEN a ELSE b

(***************************************************************************)
(* The retained samples when n of them were accepted, oldest first.        *)
(***************************************************************************)
Window(n) ==
  [i \in 1..Lesser(n, Capacity) |-> n - Lesser(n, Capacity) + i]

Init ==
  /\ accepted = 0
  /\ got = [r \in Readers |-> << >>]
  /\ latest = [r \in Readers |-> 0]

Accept ==
  /\ accepted' = accepted + 1
  /\ UNCHANGED <<got, latest>>

\* A reader that saw the metric non-empty never gets an empty dump.
Dump(r) ==
  /\ got[r] = << >>
  /\ Lesser(accepted, Capacity) > 0
  /\ got' = [got EXCEPT ![r] = Window(accepted)]
  /\ UNCHANGED <<accepted, latest>>

Latest(r) ==
  /\ got[r] # << >>
  /\ latest' = [latest EXCEPT ![r] = accepted]
  /\ UNCHANGED <<accepted, got>>

Release(r) ==
  /\ got[r] # << >>
  /\ got' = [got EXCEPT ![r] = << >>]
  /\ latest' = [latest EXCEPT ![r] = 0]
  /\ UNCHANGED accepted

Next ==
  \/ Accept
  \/ \E r \in Readers : Dump(r) \/ Latest(r) \/ Release(r)

Spec == Init /\ [][Next]_vars
==============================================================================

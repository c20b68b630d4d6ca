------------------------------ MODULE DwellTimes ------------------------------
(***************************************************************************)
(* What the history FSM is for: it watches states go by, and counts, for   *)
(* every ordered pair of states, how long the first lasted before the      *)
(* second came.  The matrix of counters is complete from the start, time   *)
(* does not wrap, and a state that was there before the first change       *)
(* ("since" = -1) lasted for an unknown time and is not counted.           *)
(***************************************************************************)
EXTENDS Integers

CONSTANTS States,
          None,         \* No state was observed yet
          Times,        \* The timestamps of the observations
          Resolution,   \* The width of a bucket
          Buckets,      \* How many buckets a counter has
          Lost          \* Durations, in resolutions, that are not recorded

VARIABLES current, since, count

vars == <<current, since, count>>

Cells == States \X States \X (0 .. Buckets - 1)

\* The last bucket also takes the longer stays.
Bucket(stay) == IF stay \div Resolution < Buckets
                THEN stay \div Resolution ELSE Buckets - 1

Nothing == [c \in Cells |-> 0]

Init == current = None /\ since = -1 /\ count = Nothing

First(s) ==
  /\ current = None
  /\ current' = s
  /\ since' = -1
  /\ UNCHANGED count

\* Two changes are more than one unit of time apart; others go unnoticed.
Change(s, t) ==
  /\ current \notin {None, s}
  /\ t > since + 1
  /\ current' = s
  /\ since' = t
  /\ IF since = -1 \/ (t - since) \div Resolution \in Lost
     THEN UNCHANGED count
     ELSE count' = [count EXCEPT ![<<current, s, Bucket(t - since)>>] = @ + 1]

Forget == count' = Nothing /\ UNCHANGED <<current, since>>

Next ==
  \/ \E s \in States : First(s) \/ \E t \in Times : Change(s, t)
  \/ Forget

Spec == Init /\ [][Next]_vars
===============================================================================

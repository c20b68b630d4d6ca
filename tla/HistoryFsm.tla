------------------------------ MODULE HistoryFsm ------------------------------
(***************************************************************************)
(* The history FSM (lib/predictions/fsm/history_fsm.c): the states that the *)
(* user's FSM was seen in, and for every ordered pair of them a transition *)
(* with a histogram of the time spent in the first before the second came. *)
(* States are added when they are first seen.  Only the thread that runs   *)
(* the prediction uses it, and one observation is one step: the training   *)
(* loop of pred_fsm.c calls history_fsm_state_changed, adds the state if   *)
(* that fails, and calls it again.                                         *)
(*                                                                         *)
(* A state is the position at which it was added; a transition is a pair   *)
(* of positions.  Times have a width: (sample_time_t)-1 is TimeModulus - 1 *)
(* and sums and differences wrap.                                          *)
(***************************************************************************)
EXTENDS Integers, Sequences, SequencesExt

CONSTANTS UserStates,               \* The fsm_state_t of the user's FSM
          NoState,                  \* For the abstract view: no current state
          TimeModulus,              \* 2^64, one more than the last time
          prediction_length_us,
          transition_resolution_us,
          MaxTime                   \* Bound: the last timestamp observed

ASSUME NoStateAssumption == NoState \notin UserStates

\* Timestamps stay away from the value that means "never".
ASSUME TimeAssumption ==
  /\ TimeModulus \in Nat
  /\ MaxTime \in Nat
  /\ MaxTime < TimeModulus - 1

\* At least one entry: entry_count - 1 is an index.
ASSUME ResolutionAssumption ==
  /\ prediction_length_us \in Nat
  /\ transition_resolution_us \in Nat \ {0}
  /\ prediction_length_us \div transition_resolution_us > 0

VARIABLES states,             \* user_fsm_state of each state, oldest first
          cnt,                \* The histogram of each transition
          total_count,        \* Of each transition
          cur,                \* The current state, 0 for NULL
          time_state_changed

vars == <<states, cnt, total_count, cur, time_state_changed>>

Times == 0 .. MaxTime

\* (sample_time_t)-1.
Never == TimeModulus - 1

history_fsm_entry_count == prediction_length_us \div transition_resolution_us

\* The words of a histogram, and the word after its end.
Entries == 0 .. history_fsm_entry_count - 1
Words == 0 .. history_fsm_entry_count

\* Mutant: the entry is rounded up.
history_fsm_entry_RoundedUp(time) ==
  LET i == (time + transition_resolution_us - 1) \div transition_resolution_us
  IN IF i > history_fsm_entry_count THEN history_fsm_entry_count - 1 ELSE i

\* The entry of a stay.  entry_count itself is let through.
history_fsm_entry(time) ==
  LET i == time \div transition_resolution_us
  IN IF i > history_fsm_entry_count THEN history_fsm_entry_count - 1 ELSE i

(***************************************************************************)
(* history_fsm_create.  time_state_changed is left uninitialised.          *)
(***************************************************************************)
Init ==
  /\ states = << >>
  /\ cnt = << >>
  /\ total_count = << >>
  /\ cur = 0
  /\ time_state_changed \in 0 .. Never

(***************************************************************************)
(* history_fsm_state_changed.                                              *)
(***************************************************************************)
\* A change that is not later than the last one by more than 1 is ignored,
\* with an assertion that it is later.
TooEarly(time) == time <= (time_state_changed + 1) % TimeModulus

timer_diff(time) == (time - time_state_changed) % TimeModulus

\* The transitions of the current state to state s of the user's FSM.
Found(s) == {j \in 1..Len(states) : <<cur, j>> \in DOMAIN cnt /\ states[j] = s}

Arrived(time) == time

\* A transition that history_fsm_state_transition_add has just made is zero.
Histogram(e) == IF e \in DOMAIN cnt THEN cnt[e] ELSE [i \in Words |-> 0]

Total(e) == IF e \in DOMAIN cnt THEN total_count[e] ELSE 0

\* The stay in a state that was there before the first change is unknown.
Counts(e, j) == e = <<cur, j>> /\ time_state_changed # Never

\* The state at position j is entered; these are the transitions.
Enter(j, time, transitions) ==
  /\ cnt' = [e \in transitions |->
               [i \in Words |->
                  IF Counts(e, j) /\ i = history_fsm_entry(timer_diff(time))
                  THEN Histogram(e)[i] + 1 ELSE Histogram(e)[i]]]
  /\ total_count' = [e \in transitions |->
                       IF Counts(e, j) THEN Total(e) + 1 ELSE Total(e)]
  /\ cur' = j
  /\ time_state_changed' = Arrived(time)

\* The current state is observed again.
SameState(s) ==
  /\ cur # 0 /\ states[cur] = s
  /\ UNCHANGED vars

IgnoreChange(s, time) ==
  /\ cur # 0 /\ states[cur] # s
  /\ TooEarly(time)
  /\ UNCHANGED vars

ChangeState(s, time) ==
  /\ cur # 0 /\ states[cur] # s
  /\ ~TooEarly(time)
  /\ \E j \in Found(s) : Enter(j, time, DOMAIN cnt)
  /\ UNCHANGED states

(***************************************************************************)
(* history_fsm_state_add, when history_fsm_state_changed returned 1, and   *)
(* the second history_fsm_state_changed.                                   *)
(***************************************************************************)
\* Mutant: the new state gets transitions, but the others get none to it.
NewEdges_OneWay(n) == {<<n, i>> : i \in 1 .. n - 1}

NewEdges(n) == {<<i, n>> : i \in 1 .. n - 1} \cup {<<n, i>> : i \in 1 .. n - 1}

\* There is no state at all: it becomes the current one.
AddFirstState(s) ==
  /\ cur = 0
  /\ states' = Append(states, s)
  /\ cur' = Len(states')
  /\ time_state_changed' = Never
  /\ UNCHANGED <<cnt, total_count>>

AddState(s, time) ==
  /\ cur # 0 /\ states[cur] # s
  /\ ~TooEarly(time)
  /\ Found(s) = {}
  /\ states' = Append(states, s)
  /\ LET n == Len(states) + 1 IN Enter(n, time, DOMAIN cnt \cup NewEdges(n))

Observe(s, time) ==
  \/ SameState(s) \/ IgnoreChange(s, time) \/ ChangeState(s, time)
  \/ AddFirstState(s) \/ AddState(s, time)

(***************************************************************************)
(* history_fsm_reset_transitions.                                          *)
(***************************************************************************)
\* Mutant: the totals are kept.
history_fsm_reset_transitions_TotalsKept ==
  /\ cnt' = [e \in DOMAIN cnt |->
               [i \in Words |-> IF i \in Entries THEN 0 ELSE cnt[e][i]]]
  /\ UNCHANGED <<states, total_count, cur, time_state_changed>>

history_fsm_reset_transitions ==
  /\ cnt' = [e \in DOMAIN cnt |->
               [i \in Words |-> IF i \in Entries THEN 0 ELSE cnt[e][i]]]
  /\ total_count' = [e \in DOMAIN cnt |-> 0]
  /\ UNCHANGED <<states, cur, time_state_changed>>

Next ==
  \/ \E s \in UserStates : \E time \in Times : Observe(s, time)
  \/ history_fsm_reset_transitions

Spec == Init /\ [][Next]_vars
--------------------------------------------------------------------------------
(***************************************************************************)
(* Properties.                                                             *)
(***************************************************************************)
Positions == 1 .. Len(states)

TypeOK ==
  /\ states \in Seq(UserStates)
  /\ DOMAIN cnt \subseteq Positions \X Positions
  /\ cnt \in [DOMAIN cnt -> [Words -> Nat]]
  /\ total_count \in [DOMAIN cnt -> Nat]
  /\ cur \in 0 .. Len(states)
  /\ time_state_changed \in 0 .. Never

\* Every state of the user's FSM is in the list once, with one transition
\* to and from each of the others, although a state is added as soon as ONE
\* state (the current one) knows no transition to it.  This is why the second
\* history_fsm_state_changed of pred_fsm.c:142 succeeds.
GraphComplete ==
  /\ \A i, j \in Positions : i # j => states[i] # states[j]
  /\ DOMAIN cnt = {e \in Positions \X Positions : e[1] # e[2]}
  /\ cur = 0 => states = << >>

\* The total of a transition is the sum of its histogram, from which it is
\* out only by what was written behind the histogram.
TotalsAddUp ==
  \A e \in DOMAIN cnt :
    LET sum == MapThenSumSet(LAMBDA i : cnt[e][i], Entries) IN
    /\ sum <= total_count[e]
    /\ cnt[e][history_fsm_entry_count] = 0 => sum = total_count[e]

\* Nothing is written outside of the histograms.
WritesInBounds ==
  \A e \in DOMAIN cnt : cnt[e][history_fsm_entry_count] = 0

(***************************************************************************)
(* The history FSM counts the time spent in each state before the next, as *)
(* DwellTimes says, except for the stays that fall just behind the end of  *)
(* the histogram.                                                          *)
(***************************************************************************)
Position(s) == CHOOSE i \in Positions : states[i] = s

Known(s) == \E i \in Positions : states[i] = s

\* How often a stay of length k in state a before state b was counted.
Cell(a, b, k) ==
  IF Known(a) /\ Known(b) /\ a # b THEN cnt[<<Position(a), Position(b)>>][k] ELSE 0

CurrentState == IF cur = 0 THEN NoState ELSE states[cur]

Since == IF cur = 0 \/ time_state_changed = Never THEN -1 ELSE time_state_changed

Counters == [c \in UserStates \X UserStates \X Entries |-> Cell(c[1], c[2], c[3])]

Dwell ==
  INSTANCE DwellTimes WITH
    States <- UserStates,
    None <- NoState,
    Resolution <- transition_resolution_us,
    Buckets <- history_fsm_entry_count,
    Lost <- {history_fsm_entry_count},
    current <- CurrentState,
    since <- Since,
    count <- Counters

DwellSpec == Dwell!Spec
================================================================================

--------------------------------- MODULE Ticker ---------------------------------
(***************************************************************************)
(* The schedule of thread_flowgraph (lib/rtgde.c) and the statistics that  *)
(* rtgde_stop prints: when the ticks begin, which of them are late, and    *)
(* what the sums say of them.  Flowgraph has what a tick does; here it     *)
(* takes time and nothing else.                                            *)
(*                                                                         *)
(* now is the clock that clock_read_us reads.  It may pass between any two *)
(* steps, so that a tick, the start of the thread and the way out of       *)
(* usleep take as long as they like.  The clock is not set while the       *)
(* flowgraph runs.                                                         *)
(***************************************************************************)
EXTENDS Integers, Sequences, SequencesExt, FiniteSetsExt

CONSTANTS update_period_us,
          SumModulus,      \* The range of uint32_t
          Horizon,         \* Bound: where time and the schedule stop
          MaxStarts        \* Bound: how often the flowgraph is started

ASSUME TickerAssumption ==
  /\ update_period_us \in Nat \ {0}
  /\ SumModulus \in Nat \ {0}
  /\ Horizon \in Nat
  /\ MaxStarts \in Nat

VARIABLES now,
          engine,                       \* Where thread_flowgraph is
          main,                         \* Where the thread of rtgde_stop is
          one_time, cancel_pending,
          start_time_us, next_wakeup,
          exec_before,
          flowgraph_exec_count, update_period_miss,
          update_period_jitter_sum, update_period_jitter_sum_sq,
          decision_exec_time_sum, decision_exec_time_sum_sq,
          starts,                       \* History: calls of rtgde_start,
          jitters, exec_times,          \* what was measured since the last,
          busy,                         \* how long the thread did not sleep,
          hurried                       \* and how many sleeps in a row were cut short

statistics ==
  <<update_period_miss, update_period_jitter_sum, update_period_jitter_sum_sq,
    decision_exec_time_sum, decision_exec_time_sum_sq, jitters, exec_times>>

schedule == <<start_time_us, next_wakeup, exec_before, hurried>>

control == <<main, one_time, cancel_pending, starts>>

vars == <<now, busy, engine, flowgraph_exec_count, statistics, schedule, control>>

Places ==
  {"none", "start", "schedule", "asleep", "late", "awake", "ready", "executing", "exited"}

\* flowgraph_create
Init ==
  /\ now = 0 /\ busy = 0
  /\ engine = "none"
  /\ main = "idle"
  /\ one_time = FALSE /\ cancel_pending = FALSE
  /\ start_time_us = 0 /\ next_wakeup = 0 /\ exec_before = 0
  /\ hurried = 0
  /\ flowgraph_exec_count = 0 /\ update_period_miss = 0
  /\ update_period_jitter_sum = 0 /\ update_period_jitter_sum_sq = 0
  /\ decision_exec_time_sum = 0 /\ decision_exec_time_sum_sq = 0
  /\ jitters = << >> /\ exec_times = << >>
  /\ starts = 0

(***************************************************************************)
(* Time.                                                                   *)
(***************************************************************************)
Asleep == engine = "asleep" /\ now < next_wakeup

Pass ==
  /\ now < Horizon
  /\ now' = now + 1
  /\ busy' = IF Asleep THEN busy ELSE busy + 1
  /\ UNCHANGED <<engine, flowgraph_exec_count, statistics, schedule, control>>

(***************************************************************************)
(* The thread.                                                             *)
(***************************************************************************)
StartThread ==
  /\ engine = "start"
  /\ decision_exec_time_sum' = 0 /\ decision_exec_time_sum_sq' = 0
  /\ update_period_jitter_sum' = 0 /\ update_period_jitter_sum_sq' = 0
  /\ update_period_miss' = 0
  /\ start_time_us' = now
  /\ next_wakeup' = now
  /\ jitters' = << >> /\ exec_times' = << >>
  /\ busy' = 0 /\ hurried' = 0
  /\ engine' = "schedule"
  /\ UNCHANGED <<now, flowgraph_exec_count, exec_before, control>>

\* Mutant: the period begins when the thread asks for it.
Next_wakeup_FromNow == now + update_period_us

Next_wakeup == next_wakeup + update_period_us

\* Mutant: a wake-up in a microsecond is as good as missed.
Missed_Soon == Next_wakeup - now <= 1

Missed == Next_wakeup - now <= 0

\* usleep until then, if it is not past.
Schedule ==
  /\ engine = "schedule"
  /\ next_wakeup <= Horizon
  /\ next_wakeup' = Next_wakeup
  /\ engine' = IF Missed THEN "late" ELSE "asleep"
  /\ hurried' = IF Missed THEN 0 ELSE hurried
  /\ UNCHANGED <<now, busy, flowgraph_exec_count, start_time_us, exec_before,
                 statistics, control>>

Miss ==
  /\ engine = "late"
  /\ update_period_miss' = update_period_miss + 1
  /\ engine' = "awake"
  /\ UNCHANGED <<now, busy, flowgraph_exec_count, update_period_jitter_sum,
                 update_period_jitter_sum_sq, decision_exec_time_sum,
                 decision_exec_time_sum_sq, jitters, exec_times, schedule, control>>

\* usleep is over; a signal handled by this thread ends it before its time.
Wake ==
  /\ engine = "asleep"
  /\ hurried' = IF now < next_wakeup THEN hurried + 1 ELSE 0
  /\ engine' = "awake"
  /\ UNCHANGED <<now, busy, flowgraph_exec_count, start_time_us, next_wakeup,
                 exec_before, statistics, control>>

\* Mutant: cancellation is not disabled during the tick.
CancellationPoints_InTick == {"asleep", "late", "executing"}

\* usleep and the warning of a missed tick.
CancellationPoints == {"asleep", "late"}

Cancelled ==
  /\ engine \in CancellationPoints
  /\ cancel_pending
  /\ engine' = "exited"
  /\ UNCHANGED <<now, busy, flowgraph_exec_count, statistics, schedule, control>>

\* Mutant: a sum takes its square as well as its value.
Added_Squared(sum, x) == (sum + x * x) % SumModulus

Added(sum, x) == (sum + x) % SumModulus

wakeup_jitter == now - next_wakeup

MeasureJitter ==
  /\ engine = "awake"
  /\ update_period_jitter_sum' = Added(update_period_jitter_sum, wakeup_jitter)
  /\ update_period_jitter_sum_sq' =
       Added(update_period_jitter_sum_sq, wakeup_jitter * wakeup_jitter)
  /\ jitters' = Append(jitters, wakeup_jitter)
  /\ engine' = "ready"
  /\ UNCHANGED <<now, busy, flowgraph_exec_count, update_period_miss, exec_times,
                 decision_exec_time_sum, decision_exec_time_sum_sq, schedule, control>>

\* Cancellation is disabled from here to EndTick.
BeginTick ==
  /\ engine = "ready"
  /\ exec_before' = now
  /\ engine' = "executing"
  /\ UNCHANGED <<now, busy, flowgraph_exec_count, start_time_us, next_wakeup, hurried,
                 statistics, control>>

exec_time == now - exec_before

AfterTick == IF one_time THEN "exited" ELSE "schedule"

EndTick ==
  /\ engine = "executing"
  /\ decision_exec_time_sum' = Added(decision_exec_time_sum, exec_time)
  /\ decision_exec_time_sum_sq' = Added(decision_exec_time_sum_sq, exec_time * exec_time)
  /\ exec_times' = Append(exec_times, exec_time)
  /\ flowgraph_exec_count' = flowgraph_exec_count + 1
  /\ engine' = AfterTick
  /\ UNCHANGED <<now, busy, update_period_miss, update_period_jitter_sum, jitters,
                 update_period_jitter_sum_sq, schedule, control>>

(***************************************************************************)
(* The thread of the application.                                          *)
(***************************************************************************)
rtgde_start ==
  /\ main \in {"idle", "stopped"}
  /\ starts < MaxStarts
  /\ starts' = starts + 1
  /\ one_time' \in BOOLEAN
  /\ cancel_pending' = FALSE
  /\ engine' = "start"
  /\ main' = "running"
  /\ UNCHANGED <<now, busy, flowgraph_exec_count, statistics, schedule>>

\* rtgde_stop up to pthread_join.
CancelThread ==
  /\ main = "running"
  /\ one_time => flowgraph_exec_count >= 1
  /\ cancel_pending' = TRUE
  /\ main' = "joining"
  /\ UNCHANGED <<now, busy, engine, flowgraph_exec_count, one_time, starts,
                 statistics, schedule>>

\* The rest, which prints the statistics.
JoinThread ==
  /\ main = "joining"
  /\ engine = "exited"
  /\ main' = "stopped"
  /\ UNCHANGED <<now, busy, engine, flowgraph_exec_count, one_time, cancel_pending,
                 starts, statistics, schedule>>

Next ==
  \/ Pass
  \/ StartThread \/ Schedule \/ Miss \/ Wake \/ Cancelled
  \/ MeasureJitter \/ BeginTick \/ EndTick
  \/ rtgde_start \/ CancelThread \/ JoinThread

Spec == Init /\ [][Next]_vars
--------------------------------------------------------------------------------
(***************************************************************************)
(* Properties.                                                             *)
(***************************************************************************)
Sums == 0 .. SumModulus - 1

TypeOK ==
  /\ now \in Nat /\ busy \in Nat
  /\ engine \in Places
  /\ main \in {"idle", "running", "joining", "stopped"}
  /\ one_time \in BOOLEAN /\ cancel_pending \in BOOLEAN /\ hurried \in Nat
  /\ start_time_us \in Nat /\ next_wakeup \in Nat /\ exec_before \in Nat
  /\ flowgraph_exec_count \in Nat /\ update_period_miss \in Nat
  /\ update_period_jitter_sum \in Sums /\ update_period_jitter_sum_sq \in Sums
  /\ decision_exec_time_sum \in Sums /\ decision_exec_time_sum_sq \in Sums
  /\ jitters \in Seq(Int) /\ exec_times \in Seq(Int)
  /\ starts \in Nat

\* The tick n begins n periods after the start or later, however long those
\* before it took and however late they were: delays neither add up nor are made
\* up for by early ticks.  A signal that cuts a sleep short brings its tick
\* forward by a period at most, and the next sleep that is not cut short makes
\* up for it.
NeverEarly ==
  engine \in {"ready", "executing"} =>
    now >= start_time_us + (Len(jitters) - hurried) * update_period_us

\* No tick is dropped: the thread only sleeps once it has caught up, that is when
\* as many ticks have begun as periods have passed, or more after a signal.
CaughtUp ==
  Asleep =>
    /\ start_time_us + (Len(jitters) - hurried) * update_period_us <= now
    /\ now < start_time_us + (Len(jitters) + 1) * update_period_us

\* The ticks neither run ahead of the schedule nor fall behind it for good.
KeepsSchedule == NeverEarly /\ CaughtUp

\* A late tick has a cause: for each of them the thread has been busy (at a tick,
\* or overslept) for a whole period.
MissesArePaid == update_period_miss * update_period_us <= busy

\* The late updates that rtgde_stop prints are some of the decisions, wherever
\* the thread was cancelled, and the decisions those that were measured, unless
\* an earlier start has left the count behind.
MissesAreTicks ==
  main = "stopped" =>
    /\ update_period_miss <= flowgraph_exec_count
    /\ Len(jitters) = Len(exec_times)
    /\ starts = 1 => flowgraph_exec_count = Len(exec_times)

SumOf(s) == FoldLeft(LAMBDA x, y : x + y, 0, s)

Squares(s) == [i \in DOMAIN s |-> s[i] * s[i]]

\* Whether the sums of the code had room for what was added to them.
Fit(s) == SumOf(Squares(s)) < SumModulus /\ \A i \in DOMAIN s : s[i] >= 0

\* The average is one of the values between the least and the greatest, and the
\* number under the square root is not negative.
Sound(s, sum, sum_sq, n) ==
  /\ n * Min(ToSet(s)) <= sum /\ sum <= n * Max(ToSet(s))
  /\ n * sum_sq - sum * sum >= 0

\* What rtgde_stop prints of the jitter and of the execution times are the
\* average and the deviation of some numbers between the least and the greatest
\* measured, if a tick was taken, no sum wrapped, and the flowgraph was started
\* for the first time: nothing resets flowgraph_exec_count.
StatisticsSound ==
  main = "stopped" /\ starts = 1 /\ flowgraph_exec_count > 0 =>
    /\ Fit(jitters) =>
         Sound(jitters, update_period_jitter_sum, update_period_jitter_sum_sq,
               flowgraph_exec_count)
    /\ Fit(exec_times) =>
         Sound(exec_times, decision_exec_time_sum, decision_exec_time_sum_sq,
               flowgraph_exec_count)
================================================================================

----------------------------- MODULE TickerProofs -----------------------------
(***************************************************************************)
(* Ticker is correct for every period, and for however long it runs and    *)
(* however often it is started.                                            *)
(***************************************************************************)
EXTENDS Ticker, FiniteSetTheorems, TLAPS

(***************************************************************************)
(* The inductive invariant.                                                *)
(***************************************************************************)
Started == engine \notin {"none", "start", "exited"}

\* Whether the tick that next_wakeup is for has yet to be measured.
Pending == engine \in {"asleep", "late", "awake"}

\* The ticks that have been scheduled since the start.
Scheduled == IF Pending THEN Len(jitters) + 1 ELSE Len(jitters)

\* How far the signals may have brought a tick forward.
Ahead == hurried * update_period_us

\* next_wakeup counts the periods, and is past when a tick is under way, but for
\* the sleeps that were cut short.
OnSchedule ==
  /\ Started => next_wakeup = start_time_us + Scheduled * update_period_us
  /\ engine = "late" => next_wakeup <= now
  /\ Started =>
       IF engine = "asleep" THEN next_wakeup - update_period_us - Ahead <= now
       ELSE next_wakeup - Ahead <= now

\* The time that all the misses stand for.
Missing == update_period_miss * update_period_us

\* The thread has been busy for the misses and, since the wake-up that it is
\* working on, for as long as that one is past.
Accounts ==
  /\ Missing <= busy
  /\ Started /\ engine # "late" => Missing + now - next_wakeup <= busy
  /\ engine = "late" => Missing + update_period_us + now - next_wakeup <= busy

\* The miss of a tick is counted before the tick is.
Underway == engine \in {"awake", "ready", "executing"}

Counts ==
  /\ update_period_miss <= flowgraph_exec_count + (IF Underway THEN 1 ELSE 0)
  /\ Len(jitters) =
       Len(exec_times) + (IF engine \in {"ready", "executing"} THEN 1 ELSE 0)
  /\ starts <= 1 => flowgraph_exec_count = Len(exec_times)
  /\ starts <= 1 /\ engine \in {"none", "start"} => Len(exec_times) = 0
  /\ starts = 0 => engine = "none"
  /\ main = "idle" => starts = 0
  /\ main = "stopped" => engine = "exited" /\ starts >= 1

(***************************************************************************)
(* Arithmetic.                                                             *)
(***************************************************************************)
LEMMA OnePeriodMore ==
  ASSUME NEW n \in Nat
  PROVE  /\ (n + 1) * update_period_us = n * update_period_us + update_period_us
         /\ n * update_period_us \in Nat
BY TickerAssumption

LEMMA AddedInRange ==
  ASSUME NEW sum \in Int, NEW x \in Int
  PROVE  Added(sum, x) \in Sums
BY TickerAssumption DEF Added, Sums

(***************************************************************************)
(* Type correctness.                                                       *)
(***************************************************************************)
LEMMA NothingMeasured == 0 \in Sums /\ << >> \in Seq(Int)
BY TickerAssumption DEF Sums

LEMMA InitType == Init => TypeOK
<1> SUFFICES ASSUME Init PROVE TypeOK
  OBVIOUS
<1>1. one_time \in BOOLEAN /\ cancel_pending \in BOOLEAN
  BY DEF Init
<1> QED BY <1>1, NothingMeasured DEF Init, TypeOK, Places

LEMMA NextType == TypeOK /\ [Next]_vars => TypeOK'
<1> SUFFICES ASSUME TypeOK, [Next]_vars PROVE TypeOK'
  OBVIOUS
<1> USE TickerAssumption DEF TypeOK, Places
<1>1. CASE Pass
  BY <1>1 DEF Pass, statistics, schedule, control
<1>2. CASE StartThread
  BY <1>2, NothingMeasured DEF StartThread, control
<1>3. CASE Schedule
  BY <1>3 DEF Schedule, Next_wakeup, statistics, control
<1>4. CASE Miss
  BY <1>4 DEF Miss, schedule, control
<1>5. CASE Wake
  BY <1>5 DEF Wake, statistics, control
<1>6. CASE Cancelled
  BY <1>6 DEF Cancelled, statistics, schedule, control
<1>7. CASE MeasureJitter
  <2>1. wakeup_jitter \in Int /\ wakeup_jitter * wakeup_jitter \in Int
    BY DEF wakeup_jitter
  <2>2. /\ update_period_jitter_sum \in Int
        /\ update_period_jitter_sum_sq \in Int
    BY DEF Sums
  <2>3. /\ update_period_jitter_sum' \in Sums
        /\ update_period_jitter_sum_sq' \in Sums
    BY <1>7, <2>1, <2>2, AddedInRange DEF MeasureJitter
  <2>4. jitters' \in Seq(Int)
    BY <1>7, <2>1 DEF MeasureJitter
  <2> QED BY <1>7, <2>3, <2>4 DEF MeasureJitter, schedule, control
<1>8. CASE BeginTick
  BY <1>8 DEF BeginTick, statistics, control
<1>9. CASE EndTick
  <2>1. exec_time \in Int /\ exec_time * exec_time \in Int
    BY DEF exec_time
  <2>2. decision_exec_time_sum \in Int /\ decision_exec_time_sum_sq \in Int
    BY DEF Sums
  <2>3. decision_exec_time_sum' \in Sums /\ decision_exec_time_sum_sq' \in Sums
    BY <1>9, <2>1, <2>2, AddedInRange DEF EndTick
  <2>4. exec_times' \in Seq(Int)
    BY <1>9, <2>1 DEF EndTick
  <2> QED BY <1>9, <2>3, <2>4 DEF EndTick, AfterTick, schedule, control
<1>10. CASE rtgde_start
  <2>1. one_time' \in BOOLEAN /\ cancel_pending' \in BOOLEAN
    BY <1>10 DEF rtgde_start
  <2> QED BY <1>10, <2>1 DEF rtgde_start, statistics, schedule
<1>11. CASE CancelThread
  BY <1>11 DEF CancelThread, statistics, schedule
<1>12. CASE JoinThread
  BY <1>12 DEF JoinThread, statistics, schedule
<1>13. CASE UNCHANGED vars
  BY <1>13 DEF vars, statistics, schedule, control
<1> QED
  BY <1>1, <1>2, <1>3, <1>4, <1>5, <1>6, <1>7, <1>8, <1>9, <1>10, <1>11, <1>12,
     <1>13 DEF Next

\* Every variable of Ticker keeps its type: the sums stay within 32 bits.
THEOREM TypeCorrect == Spec => []TypeOK
BY InitType, NextType, PTL DEF Spec

(***************************************************************************)
(* The schedule.                                                           *)
(***************************************************************************)
LEMMA InitSchedule == Init => OnSchedule
BY DEF Init, OnSchedule, Started

LEMMA NextSchedule == TypeOK /\ OnSchedule /\ [Next]_vars => OnSchedule'
<1> SUFFICES ASSUME TypeOK, OnSchedule, [Next]_vars PROVE OnSchedule'
  OBVIOUS
<1> USE TickerAssumption
<1>n. Len(jitters) \in Nat
  BY DEF TypeOK
<1>p. /\ (Len(jitters) + 1) * update_period_us
          = Len(jitters) * update_period_us + update_period_us
      /\ Len(jitters) * update_period_us \in Nat
  BY <1>n, OnePeriodMore
<1>a. /\ (hurried + 1) * update_period_us = Ahead + update_period_us
      /\ Ahead \in Nat
  BY OnePeriodMore DEF TypeOK, Ahead
<1>k. hurried' = hurried => Ahead' = Ahead
  BY DEF Ahead
<1>z. hurried' = 0 => Ahead' = 0
  BY DEF Ahead
<1>o. hurried' = hurried + 1 => Ahead' = Ahead + update_period_us
  BY <1>a DEF Ahead
<1> USE <1>a, <1>k DEF TypeOK, OnSchedule, Started, Scheduled, Pending, Places
<1>1. CASE Pass
  BY <1>1 DEF Pass, statistics, schedule, control
<1>2. CASE StartThread
  <2>1. Len(jitters') = 0
    BY <1>2 DEF StartThread
  <2> QED BY <1>2, <1>z, <2>1 DEF StartThread, control
<1>3. CASE Schedule
  <2>1. CASE Missed
    BY <1>3, <1>p, <1>z, <2>1 DEF Schedule, Missed, Next_wakeup, statistics, control
  <2>2. CASE ~Missed
    BY <1>3, <1>p, <2>2 DEF Schedule, Missed, Next_wakeup, statistics, control
  <2> QED BY <2>1, <2>2
<1>4. CASE Miss
  BY <1>4 DEF Miss, schedule, control
<1>5. CASE Wake
  <2>1. CASE now < next_wakeup
    BY <1>5, <1>o, <2>1 DEF Wake, statistics, control
  <2>2. CASE ~(now < next_wakeup)
    BY <1>5, <1>z, <2>2 DEF Wake, statistics, control
  <2> QED BY <2>1, <2>2
<1>6. CASE Cancelled
  BY <1>6 DEF Cancelled, statistics, schedule, control
<1>7. CASE MeasureJitter
  <2>1. Len(jitters') = Len(jitters) + 1
    BY <1>7 DEF MeasureJitter, wakeup_jitter
  <2> QED BY <1>7, <2>1 DEF MeasureJitter, schedule, control
<1>8. CASE BeginTick
  BY <1>8 DEF BeginTick, statistics, control
<1>9. CASE EndTick
  BY <1>9 DEF EndTick, AfterTick, schedule, control
<1>10. CASE rtgde_start
  BY <1>10 DEF rtgde_start, statistics, schedule
<1>11. CASE CancelThread
  BY <1>11 DEF CancelThread, statistics, schedule
<1>12. CASE JoinThread
  BY <1>12 DEF JoinThread, statistics, schedule
<1>13. CASE UNCHANGED vars
  BY <1>13 DEF vars, statistics, schedule, control
<1> QED
  BY <1>1, <1>2, <1>3, <1>4, <1>5, <1>6, <1>7, <1>8, <1>9, <1>10, <1>11, <1>12,
     <1>13 DEF Next

LEMMA PeriodsAhead ==
  ASSUME TypeOK
  PROVE  /\ (Len(jitters) - hurried) * update_period_us
              = Len(jitters) * update_period_us - Ahead
         /\ Len(jitters) * update_period_us \in Nat
         /\ Ahead \in Nat
BY TickerAssumption DEF TypeOK, Ahead

\* The schedule neither drifts nor is run ahead of, but for the sleeps that a
\* signal cuts short: NeverEarly.
THEOREM TicksAreNeverEarly == Spec => []NeverEarly
<1>1. TypeOK /\ OnSchedule => NeverEarly
  BY PeriodsAhead DEF TypeOK, OnSchedule, NeverEarly, Started, Scheduled, Pending
<1> QED
  BY <1>1, InitType, NextType, InitSchedule, NextSchedule, PTL DEF Spec

\* A thread that sleeps is up to date with the schedule: CaughtUp.
THEOREM SleepsWhenCaughtUp == Spec => []CaughtUp
<1>1. TypeOK /\ OnSchedule => CaughtUp
  <2> SUFFICES ASSUME TypeOK, OnSchedule, Asleep
               PROVE  /\ start_time_us + (Len(jitters) - hurried) * update_period_us
                           <= now
                      /\ now < start_time_us + (Len(jitters) + 1) * update_period_us
    BY DEF CaughtUp
  <2>1. Len(jitters) \in Nat
    BY DEF TypeOK
  <2>2. /\ (Len(jitters) + 1) * update_period_us
            = Len(jitters) * update_period_us + update_period_us
        /\ Len(jitters) * update_period_us \in Nat
    BY <2>1, OnePeriodMore
  <2> QED
    BY <2>2, PeriodsAhead, TickerAssumption
    DEF TypeOK, OnSchedule, Asleep, Started, Scheduled, Pending
<1> QED
  BY <1>1, InitType, NextType, InitSchedule, NextSchedule, PTL DEF Spec

\* Both: whatever the ticks take and however late the thread wakes up, their
\* number follows the schedule of thread_flowgraph.
THEOREM ScheduleIsKept == Spec => []KeepsSchedule
<1>1. NeverEarly /\ CaughtUp => KeepsSchedule
  BY DEF KeepsSchedule
<1> QED
  BY <1>1, TicksAreNeverEarly, SleepsWhenCaughtUp, PTL

(***************************************************************************)
(* The misses.                                                             *)
(***************************************************************************)
LEMMA InitAccounts == Init => Accounts
BY TickerAssumption DEF Init, Accounts, Started, Missing

LEMMA NextAccounts == TypeOK /\ OnSchedule /\ Accounts /\ [Next]_vars => Accounts'
<1> SUFFICES ASSUME TypeOK, OnSchedule, Accounts, [Next]_vars PROVE Accounts'
  OBVIOUS
<1>m. /\ (update_period_miss + 1) * update_period_us = Missing + update_period_us
      /\ Missing \in Nat
  BY OnePeriodMore DEF TypeOK, Missing
<1>l. engine = "late" => next_wakeup <= now
  BY DEF OnSchedule
<1>k. update_period_miss' = update_period_miss => Missing' = Missing
  BY DEF Missing
<1> USE TickerAssumption DEF TypeOK, Accounts, Started, Places
<1> HIDE DEF Missing
<1>1. CASE Pass
  BY <1>1, <1>m, <1>k DEF Pass, Asleep, statistics, schedule, control
<1>2. CASE StartThread
  <2>1. Missing' = 0
    BY <1>2 DEF StartThread, Missing
  <2> QED BY <1>2, <2>1 DEF StartThread, control
<1>3. CASE Schedule
  BY <1>3, <1>m, <1>k DEF Schedule, Missed, Next_wakeup, statistics, control
<1>4. CASE Miss
  <2>1. Missing' = Missing + update_period_us
    BY <1>4, <1>m DEF Miss, Missing
  <2> QED BY <1>4, <1>m, <1>l, <2>1 DEF Miss, schedule, control
<1>5. CASE Wake
  BY <1>5, <1>m, <1>k DEF Wake, statistics, control
<1>6. CASE Cancelled
  BY <1>6, <1>m, <1>k DEF Cancelled, CancellationPoints, statistics, schedule, control
<1>7. CASE MeasureJitter
  BY <1>7, <1>m, <1>k DEF MeasureJitter, schedule, control
<1>8. CASE BeginTick
  BY <1>8, <1>m, <1>k DEF BeginTick, statistics, control
<1>9. CASE EndTick
  BY <1>9, <1>m, <1>k DEF EndTick, AfterTick, schedule, control
<1>10. CASE rtgde_start
  BY <1>10, <1>m, <1>k DEF rtgde_start, statistics, schedule
<1>11. CASE CancelThread
  BY <1>11, <1>m, <1>k DEF CancelThread, statistics, schedule
<1>12. CASE JoinThread
  BY <1>12, <1>m, <1>k DEF JoinThread, statistics, schedule
<1>13. CASE UNCHANGED vars
  BY <1>13, <1>m, <1>k DEF vars, statistics, schedule, control
<1> QED
  BY <1>1, <1>2, <1>3, <1>4, <1>5, <1>6, <1>7, <1>8, <1>9, <1>10, <1>11, <1>12,
     <1>13 DEF Next

\* Late ticks take a period of work each: MissesArePaid.
THEOREM MissesTakeTime == Spec => []MissesArePaid
<1>1. TypeOK /\ Accounts => MissesArePaid
  BY DEF Accounts, MissesArePaid, Missing
<1> QED
  BY <1>1, InitType, NextType, InitSchedule, NextSchedule, InitAccounts, NextAccounts,
     PTL DEF Spec

(***************************************************************************)
(* The counters.                                                           *)
(***************************************************************************)
LEMMA InitCounts == Init => Counts
BY DEF Init, Counts, Underway

LEMMA NextCounts == TypeOK /\ Counts /\ [Next]_vars => Counts'
<1> SUFFICES ASSUME TypeOK, Counts, [Next]_vars PROVE Counts'
  OBVIOUS
<1>n. Len(jitters) \in Nat /\ Len(exec_times) \in Nat
  BY DEF TypeOK
<1> USE <1>n DEF TypeOK, Counts, Underway, Places
<1>1. CASE Pass
  BY <1>1 DEF Pass, statistics, schedule, control
<1>2. CASE StartThread
  <2>1. Len(jitters') = 0 /\ Len(exec_times') = 0
    BY <1>2 DEF StartThread
  <2> QED BY <1>2, <2>1 DEF StartThread, control
<1>3. CASE Schedule
  BY <1>3 DEF Schedule, statistics, control
<1>4. CASE Miss
  BY <1>4 DEF Miss, schedule, control
<1>5. CASE Wake
  BY <1>5 DEF Wake, statistics, control
<1>6. CASE Cancelled
  BY <1>6 DEF Cancelled, CancellationPoints, statistics, schedule, control
<1>7. CASE MeasureJitter
  <2>1. Len(jitters') = Len(jitters) + 1
    BY <1>7 DEF MeasureJitter, wakeup_jitter
  <2> QED BY <1>7, <2>1 DEF MeasureJitter, schedule, control
<1>8. CASE BeginTick
  BY <1>8 DEF BeginTick, statistics, control
<1>9. CASE EndTick
  <2>1. Len(exec_times') = Len(exec_times) + 1
    BY <1>9 DEF EndTick, exec_time
  <2> QED BY <1>9, <2>1 DEF EndTick, AfterTick, schedule, control
<1>10. CASE rtgde_start
  BY <1>10 DEF rtgde_start, statistics, schedule
<1>11. CASE CancelThread
  BY <1>11 DEF CancelThread, statistics, schedule
<1>12. CASE JoinThread
  BY <1>12 DEF JoinThread, statistics, schedule
<1>13. CASE UNCHANGED vars
  BY <1>13 DEF vars, statistics, schedule, control
<1> QED
  BY <1>1, <1>2, <1>3, <1>4, <1>5, <1>6, <1>7, <1>8, <1>9, <1>10, <1>11, <1>12,
     <1>13 DEF Next

\* The statistics are of the decisions that were taken: MissesAreTicks.
THEOREM LateUpdatesAreDecisions == Spec => []MissesAreTicks
<1>1. TypeOK /\ Counts => MissesAreTicks
  BY DEF TypeOK, Counts, MissesAreTicks, Underway
<1> QED
  BY <1>1, InitType, NextType, InitCounts, NextCounts, PTL DEF Spec

(***************************************************************************)
(* The sum of a sequence.                                                  *)
(***************************************************************************)
Folded == INSTANCE FoldTheorems
  WITH Op <- LAMBDA x, y : y + x, Base <- 0, Pick <- LAMBDA S : Max(S), D <- Int

LEMMA MaxAndMin ==
  ASSUME NEW S \in SUBSET Int, IsFiniteSet(S), S # {}
  PROVE  /\ Max(S) \in S /\ \A x \in S : x <= Max(S)
         /\ Min(S) \in S /\ \A x \in S : Min(S) <= x
<1>1. Folded!IsFiniteSet(S)
  BY DEF IsFiniteSet, Folded!IsFiniteSet
<1>2. /\ \E x \in S : \A y \in S : y <= x
      /\ \E x \in S : \A y \in S : x <= y
  BY <1>1, Folded!GreatestAndLeast
<1>3. \E x \in S : \A y \in S : x >= y
  BY <1>2
<1> QED
  BY <1>2, <1>3 DEF Max, Min

LEMMA SumIs ==
  /\ SumOf(<< >>) = 0
  /\ \A s \in Seq(Int), x \in Int : SumOf(Append(s, x)) = SumOf(s) + x
<1>1. \A s : SumOf(s) = Folded!FoldOn(s, DOMAIN s)
  BY DEF SumOf, FoldLeft, Folded!FoldOn, MapThenFoldSet, Folded!MapThenFoldSet
<1>2. SumOf(<< >>) = 0
  <2>1. DOMAIN << >> = {}
    OBVIOUS
  <2>2. Folded!FoldOn(<< >>, {}) = 0
    BY Folded!FoldEmpty
  <2> QED
    BY <1>1, <2>1, <2>2
<1>3. ASSUME NEW s \in Seq(Int), NEW x \in Int
      PROVE  SumOf(Append(s, x)) = SumOf(s) + x
  <2>1. ASSUME NEW t \in SUBSET Nat, t # {}, Folded!IsFiniteSet(t)
        PROVE  Max(t) \in t /\ \A i \in t : i <= Max(t)
    <3>1. IsFiniteSet(t) /\ t \in SUBSET Int
      BY <2>1 DEF IsFiniteSet, Folded!IsFiniteSet
    <3> QED
      BY <2>1, <3>1, MaxAndMin
  <2>2. Folded!FoldOn(Append(s, x), DOMAIN Append(s, x)) = Folded!FoldOn(s, DOMAIN s) + x
    BY <2>1, Folded!FoldAppended
  <2> QED
    BY <1>1, <2>2
<1> QED
  BY <1>2, <1>3

\* The sum of a sequence, of its squares, and the bounds of its elements.
Bounds(s) ==
  /\ SumOf(s) \in Int /\ SumOf(Squares(s)) \in Int
  /\ Len(s) = 0 => SumOf(s) = 0 /\ SumOf(Squares(s)) = 0
  /\ Len(s) * SumOf(Squares(s)) - SumOf(s) * SumOf(s) >= 0
  /\ (\A i \in DOMAIN s : s[i] >= 0) => 0 <= SumOf(s) /\ SumOf(s) <= SumOf(Squares(s))
  /\ \A b \in Int :
       /\ (\A i \in DOMAIN s : b <= s[i]) => Len(s) * b <= SumOf(s)
       /\ (\A i \in DOMAIN s : s[i] <= b) => SumOf(s) <= Len(s) * b

LEMMA SquaresOf ==
  /\ Squares(<< >>) = << >>
  /\ \A s \in Seq(Int) : Squares(s) \in Seq(Int)
  /\ \A s \in Seq(Int), x \in Int : Squares(Append(s, x)) = Append(Squares(s), x * x)
<1>1. \A s \in Seq(Int) : Squares(s) \in Seq(Int) /\ Len(Squares(s)) = Len(s)
  BY DEF Squares
<1>2. ASSUME NEW s \in Seq(Int), NEW x \in Int
      PROVE  Squares(Append(s, x)) = Append(Squares(s), x * x)
  <2> DEFINE t == Append(s, x)
  <2>1. t \in Seq(Int) /\ Len(t) = Len(s) + 1 /\ t[Len(s) + 1] = x
        /\ \A i \in 1 .. Len(s) : t[i] = s[i]
    OBVIOUS
  <2>2. /\ Squares(s) \in Seq(Int) /\ Len(Squares(s)) = Len(s)
        /\ Squares(t) \in Seq(Int) /\ Len(Squares(t)) = Len(t)
    BY <1>1, <2>1
  <2>3. \A i \in 1 .. Len(s) : Squares(s)[i] = s[i] * s[i]
    BY DEF Squares
  <2>4. \A i \in 1 .. Len(t) : Squares(t)[i] = t[i] * t[i]
    BY <2>1 DEF Squares
  <2> HIDE DEF t
  <2> DEFINE a == Append(Squares(s), x * x)
  <2>5. a \in Seq(Int) /\ Len(a) = Len(s) + 1 /\ a[Len(s) + 1] = x * x
        /\ \A i \in 1 .. Len(s) : a[i] = Squares(s)[i]
    BY <2>2
  <2> HIDE DEF a
  <2>6. ASSUME NEW i \in 1 .. Len(s) + 1 PROVE a[i] = Squares(t)[i]
    <3>1. CASE i = Len(s) + 1
      BY <2>1, <2>4, <2>5, <3>1
    <3>2. CASE i # Len(s) + 1
      <4>1. i \in 1 .. Len(s) /\ i \in 1 .. Len(t)
        BY <2>1, <3>2
      <4> DEFINE q == Squares(t)
      <4>2. a[i] = s[i] * s[i] /\ q[i] = t[i] * t[i] /\ t[i] = s[i]
        BY <2>1, <2>3, <2>4, <2>5, <4>1
      <4> QED
        BY <4>2
    <3> QED
      BY <3>1, <3>2
  <2>7. a = Squares(t)
    BY <2>1, <2>2, <2>5, <2>6
  <2> QED
    BY <2>7 DEF a, t
<1>3. Squares(<< >>) = << >>
  BY DEF Squares
<1> QED
  BY <1>1, <1>2, <1>3

LEMMA BoundsOf == \A s \in Seq(Int) : Bounds(s)
<1> DEFINE Q == {s \in Seq(Int) : Bounds(s)}
<1>1. << >> \in Q
  BY SumIs, SquaresOf DEF Bounds
<1>2. ASSUME NEW s \in Seq(Int), NEW x \in Int, s \in Q PROVE Append(s, x) \in Q
  <2> DEFINE t == Append(s, x)
             n == Len(s)
             S == SumOf(s)
             R == SumOf(Squares(s))
  <2>1. t \in Seq(Int) /\ Len(t) = n + 1 /\ n \in Nat /\ t[n + 1] = x
        /\ \A i \in 1 .. n : t[i] = s[i]
    OBVIOUS
  <2>2. SumOf(t) = S + x /\ SumOf(Squares(t)) = R + x * x
    <3>1. Squares(t) = Append(Squares(s), x * x) /\ Squares(s) \in Seq(Int)
      BY SquaresOf
    <3>2. x * x \in Int
      OBVIOUS
    <3>3. SumOf(Append(Squares(s), x * x)) = SumOf(Squares(s)) + x * x
      BY <3>1, <3>2, SumIs
    <3> QED
      BY <3>1, <3>3, SumIs
  <2>3. /\ S \in Int /\ R \in Int
        /\ n = 0 => S = 0 /\ R = 0
        /\ n * R - S * S >= 0
        /\ (\A i \in 1 .. n : s[i] >= 0) => 0 <= S /\ S <= R
        /\ \A b \in Int :
             /\ (\A i \in 1 .. n : b <= s[i]) => n * b <= S
             /\ (\A i \in 1 .. n : s[i] <= b) => S <= n * b
    <3>1. DOMAIN s = 1 .. n
      OBVIOUS
    <3>2. Bounds(s)
      BY <1>2
    <3> QED
      BY ONLY <3>1, <3>2 DEF Bounds
  <2> HIDE DEF t, n, S, R
  <2>4. /\ SumOf(t) \in Int /\ SumOf(Squares(t)) \in Int
        /\ Len(t) * SumOf(Squares(t)) - SumOf(t) * SumOf(t) >= 0
    <3>1. (n + 1) * (R + x * x) - (S + x) * (S + x) >= 0
      <4>1. n \in Nat
        BY <2>1
      <4> QED
        BY <2>3, <4>1, Folded!SpreadMore
    <3>2. x * x \in Int
      OBVIOUS
    <3>3. SumOf(t) \in Int /\ SumOf(Squares(t)) \in Int
      BY <2>2, <2>3, <3>2
    <3> QED
      BY <2>1, <2>2, <3>1, <3>3
  <2>5. ASSUME \A i \in 1 .. n + 1 : t[i] >= 0
        PROVE  0 <= SumOf(t) /\ SumOf(t) <= SumOf(Squares(t))
    <3>1. x >= 0 /\ \A i \in 1 .. n : s[i] >= 0
      BY <2>1, <2>5
    <3>2. x <= x * x /\ x * x \in Int
      BY <3>1
    <3>3. 0 <= S /\ S <= R
      BY <2>3, <3>1
    <3> DEFINE y == x * x
    <3>4. SumOf(Squares(t)) = R + y /\ x <= y /\ y \in Int
      BY <2>2, <3>2
    <3> HIDE DEF y
    <3> QED
      BY <2>2, <2>3, <3>1, <3>3, <3>4
  <2>6. ASSUME NEW b \in Int
        PROVE  /\ (\A i \in 1 .. n + 1 : b <= t[i]) => (n + 1) * b <= SumOf(t)
               /\ (\A i \in 1 .. n + 1 : t[i] <= b) => SumOf(t) <= (n + 1) * b
    <3>1. (n + 1) * b = n * b + b /\ n * b \in Int
      BY <2>1
    <3>2. n + 1 \in 1 .. n + 1 /\ \A i \in 1 .. n : i \in 1 .. n + 1
      BY <2>1
    <3> QED
      BY <2>1, <2>2, <2>3, <3>1, <3>2
  <2>7. DOMAIN t = 1 .. n + 1 /\ Len(t) # 0
    BY <2>1
  <2> QED
    BY <2>1, <2>4, <2>5, <2>6, <2>7 DEF Bounds, t
<1> HIDE DEF Q
<1>3. \A s \in Seq(Int) : s \in Q
  BY <1>1, <1>2, Folded!SeqInduction
<1> QED
  BY <1>3 DEF Q

(***************************************************************************)
(* The sums of the code, modulo the width of a word.                       *)
(***************************************************************************)
Rest(x) == x % SumModulus

LEMMA Remainder ==
  ASSUME NEW x \in Int
  PROVE  /\ \E q \in Int : x = q * SumModulus + Rest(x)
         /\ Rest(x) \in 0 .. SumModulus - 1
<1> DEFINE N == SumModulus
<1>1. N \in Nat \ {0}
  BY TickerAssumption
<1> HIDE DEF N
<1>2. x % N \in 0 .. N - 1 /\ x \div N \in Int /\ x = (x \div N) * N + (x % N)
  BY <1>1
<1> QED
  BY <1>2 DEF N, Rest

\* A remainder is the only one in its range.
LEMMA RemainderIs ==
  ASSUME NEW x \in Int, NEW u \in 0 .. SumModulus - 1, NEW q \in Int,
         x = q * SumModulus + u
  PROVE  Rest(x) = u
<1> DEFINE N == SumModulus
           v == Rest(x)
<1>1. N \in Nat \ {0}
  BY TickerAssumption
<1>2. PICK p \in Int : x = p * N + v
  BY Remainder
<1>3. v \in 0 .. N - 1 /\ u \in 0 .. N - 1 /\ v \in Int /\ u \in Int
  <2>1. v \in 0 .. N - 1 /\ u \in 0 .. N - 1
    BY Remainder
  <2> HIDE DEF v, N
  <2> QED
    BY <2>1, <1>1
<1>a. x = q * N + u
  OBVIOUS
<1> HIDE DEF N, v
<1>4. (p - q) * N = u - v
  <2>1. (p - q) * N = p * N - q * N /\ p * N \in Int /\ q * N \in Int
    BY <1>1
  <2> QED
    BY <1>a, <1>2, <1>3, <2>1
<1>5. p = q
  <2>1. p - q >= 1 => (p - q) * N >= N
    BY <1>1
  <2>2. p - q <= -1 => (p - q) * N <= -N
    BY <1>1
  <2> QED
    BY <1>1, <1>3, <1>4, <2>1, <2>2
<1>6. u = v
  <2>1. (p - q) * N = 0
    BY <1>1, <1>5
  <2> QED
    BY <1>3, <1>4, <2>1
<1> QED
  BY <1>6 DEF v

LEMMA AddedIs ==
  ASSUME NEW s \in Int, NEW x \in Int
  PROVE  Added(Rest(s), x) = Rest(s + x)
<1> DEFINE N == SumModulus
           u == Rest(s)
           v == Rest(u + x)
<1>n. N \in Nat \ {0}
  BY TickerAssumption
<1>1. u \in 0 .. N - 1 /\ u \in Int
  <2>1. u \in 0 .. N - 1
    BY Remainder
  <2> HIDE DEF u, N
  <2> QED
    BY <1>n, <2>1
<1>2. PICK p \in Int : s = p * N + u
  BY Remainder
<1>3. u + x \in Int
  BY <1>1
<1>4. PICK q \in Int : u + x = q * N + v
  <2> HIDE DEF u
  <2> QED
    BY <1>3, Remainder
<1>5. v \in 0 .. N - 1 /\ v \in Int
  <2> HIDE DEF u
  <2>1. v \in 0 .. N - 1
    BY <1>3, Remainder
  <2> HIDE DEF v, N
  <2> QED
    BY <1>n, <2>1
<1> HIDE DEF N, u, v
<1>6. s + x = (p + q) * N + v
  <2>1. (p + q) * N = p * N + q * N /\ p * N \in Int /\ q * N \in Int
    BY <1>n
  <2> QED
    BY <1>1, <1>2, <1>4, <1>5, <2>1
<1>7. s + x \in Int /\ p + q \in Int
  OBVIOUS
<1>8. Rest(s + x) = v
  BY <1>5, <1>6, <1>7, RemainderIs DEF N
<1> QED
  BY <1>8 DEF Added, Rest, u, v

Tallied(s, sum, sum_sq) ==
  /\ sum = Rest(SumOf(s))
  /\ sum_sq = Rest(SumOf(Squares(s)))

\* What the code has added up is what it has measured.
Tallies ==
  /\ Tallied(jitters, update_period_jitter_sum, update_period_jitter_sum_sq)
  /\ Tallied(exec_times, decision_exec_time_sum, decision_exec_time_sum_sq)

LEMMA NothingTallied == Tallied(<< >>, 0, 0)
<1>1. 0 \in 0 .. SumModulus - 1 /\ 0 = 0 * SumModulus + 0
  BY TickerAssumption
<1>2. Rest(0) = 0
  BY <1>1, RemainderIs
<1> QED
  BY <1>2, SumIs, SquaresOf DEF Tallied

LEMMA OneMoreTallied ==
  ASSUME NEW s \in Seq(Int), NEW x \in Int, NEW sum, NEW sum_sq, Tallied(s, sum, sum_sq)
  PROVE  Tallied(Append(s, x), Added(sum, x), Added(sum_sq, x * x))
<1>1. SumOf(s) \in Int /\ SumOf(Squares(s)) \in Int
  BY BoundsOf DEF Bounds
<1>2. x * x \in Int /\ Squares(s) \in Seq(Int)
  BY SquaresOf
<1>3. /\ SumOf(Append(s, x)) = SumOf(s) + x
      /\ SumOf(Append(Squares(s), x * x)) = SumOf(Squares(s)) + x * x
  BY <1>2, SumIs
<1>4. Squares(Append(s, x)) = Append(Squares(s), x * x)
  BY SquaresOf
<1>5. /\ Added(sum, x) = Rest(SumOf(s) + x)
      /\ Added(sum_sq, x * x) = Rest(SumOf(Squares(s)) + x * x)
  BY <1>1, <1>2, AddedIs DEF Tallied
<1> QED
  BY <1>3, <1>4, <1>5 DEF Tallied

LEMMA InitTallies == Init => Tallies
BY NothingTallied DEF Init, Tallies

LEMMA NextTallies == TypeOK /\ Tallies /\ [Next]_vars => Tallies'
<1> SUFFICES ASSUME TypeOK, Tallies, [Next]_vars PROVE Tallies'
  OBVIOUS
<1>1. CASE StartThread
  BY <1>1, NothingTallied DEF StartThread, Tallies
<1>2. CASE MeasureJitter
  <2>1. jitters \in Seq(Int) /\ wakeup_jitter \in Int
    BY DEF TypeOK, wakeup_jitter
  <2>2. Tallied(jitters', update_period_jitter_sum', update_period_jitter_sum_sq')
    BY <1>2, <2>1, OneMoreTallied DEF MeasureJitter, Tallies
  <2> QED
    BY <1>2, <2>2 DEF MeasureJitter, Tallies, Tallied
<1>3. CASE EndTick
  <2>1. exec_times \in Seq(Int) /\ exec_time \in Int
    BY DEF TypeOK, exec_time
  <2>2. Tallied(exec_times', decision_exec_time_sum', decision_exec_time_sum_sq')
    BY <1>3, <2>1, OneMoreTallied DEF EndTick, Tallies
  <2> QED
    BY <1>3, <2>2 DEF EndTick, Tallies, Tallied
<1>4. CASE UNCHANGED <<jitters, update_period_jitter_sum, update_period_jitter_sum_sq,
                       exec_times, decision_exec_time_sum, decision_exec_time_sum_sq>>
  BY <1>4 DEF Tallies, Tallied
<1>5. CASE Miss
  BY <1>4, <1>5 DEF Miss
<1>6. CASE Pass \/ Schedule \/ Wake \/ Cancelled \/ BeginTick \/ rtgde_start
             \/ CancelThread \/ JoinThread \/ UNCHANGED vars
  BY <1>4, <1>6
  DEF Pass, Schedule, Wake, Cancelled, BeginTick, rtgde_start, CancelThread, JoinThread,
      vars, statistics
<1> QED
  BY <1>1, <1>2, <1>3, <1>5, <1>6 DEF Next

LEMMA SmallTally ==
  ASSUME NEW x \in Int, 0 <= x, x < SumModulus
  PROVE  Rest(x) = x
<1>1. x \in 0 .. SumModulus - 1 /\ x = 0 * SumModulus + x
  BY TickerAssumption
<1> QED
  BY <1>1, RemainderIs

LEMMA TalliedIsSound ==
  ASSUME NEW s \in Seq(Int), NEW sum, NEW sum_sq, Tallied(s, sum, sum_sq), s # << >>, Fit(s)
  PROVE  Sound(s, sum, sum_sq, Len(s))
<1> DEFINE n == Len(s)
           S == SumOf(s)
           R == SumOf(Squares(s))
<1>1. /\ S \in Int /\ R \in Int /\ n \in Nat
      /\ n * R - S * S >= 0
      /\ 0 <= S /\ S <= R /\ R < SumModulus
      /\ \A b \in Int :
           /\ (\A i \in DOMAIN s : b <= s[i]) => n * b <= S
           /\ (\A i \in DOMAIN s : s[i] <= b) => S <= n * b
  BY BoundsOf DEF Bounds, Fit
<1>2. sum = S /\ sum_sq = R
  <2> HIDE DEF S, R, n
  <2>1. S < SumModulus /\ 0 <= R
    BY <1>1, TickerAssumption
  <2>2. Rest(S) = S /\ Rest(R) = R
    BY <1>1, <2>1, SmallTally
  <2> QED
    BY <2>2 DEF Tallied, S, R
<1>3. /\ ToSet(s) \in SUBSET Int /\ IsFiniteSet(ToSet(s)) /\ ToSet(s) # {}
      /\ \A i \in DOMAIN s : s[i] \in ToSet(s)
  <2>1. DOMAIN s = 1 .. n /\ 1 \in DOMAIN s
    OBVIOUS
  <2>2. IsFiniteSet(DOMAIN s)
    BY <1>1, <2>1, FS_Interval
  <2>3. ToSet(s) = {s[i] : i \in DOMAIN s}
    BY DEF ToSet
  <2>4. s \in Surjection(DOMAIN s, ToSet(s))
    BY <2>3 DEF Surjection
  <2>5. IsFiniteSet(ToSet(s))
    BY <2>2, <2>4, FS_Surjection
  <2> QED
    BY <2>1, <2>3, <2>5
<1>4. /\ Max(ToSet(s)) \in Int /\ \A i \in DOMAIN s : s[i] <= Max(ToSet(s))
      /\ Min(ToSet(s)) \in Int /\ \A i \in DOMAIN s : Min(ToSet(s)) <= s[i]
  BY <1>3, MaxAndMin
<1> HIDE DEF n, S, R
<1>5. n * Min(ToSet(s)) <= S /\ S <= n * Max(ToSet(s))
  BY <1>1, <1>4
<1> QED
  BY <1>1, <1>2, <1>5 DEF Sound, n

\* What rtgde_stop prints of the measurements is sound: StatisticsSound.
THEOREM StatisticsAreSound == Spec => []StatisticsSound
<1>1. TypeOK /\ Counts /\ Tallies => StatisticsSound
  <2> SUFFICES ASSUME TypeOK, Counts, Tallies,
                      main = "stopped", starts = 1, flowgraph_exec_count > 0
               PROVE  /\ Fit(jitters) =>
                           Sound(jitters, update_period_jitter_sum,
                                 update_period_jitter_sum_sq, flowgraph_exec_count)
                      /\ Fit(exec_times) =>
                           Sound(exec_times, decision_exec_time_sum,
                                 decision_exec_time_sum_sq, flowgraph_exec_count)
    BY DEF StatisticsSound
  <2>1. jitters \in Seq(Int) /\ exec_times \in Seq(Int)
    BY DEF TypeOK
  <2>2. Len(jitters) = flowgraph_exec_count /\ Len(exec_times) = flowgraph_exec_count
    BY <2>1 DEF Counts, TypeOK
  <2>3. jitters # << >> /\ exec_times # << >>
    BY <2>1, <2>2
  <2> QED
    BY <2>1, <2>2, <2>3, TalliedIsSound DEF Tallies
<1> QED
  BY <1>1, InitType, NextType, InitCounts, NextCounts, InitTallies, NextTallies,
     PTL DEF Spec
===============================================================================

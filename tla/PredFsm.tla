-------------------------------- MODULE PredFsm --------------------------------
(***************************************************************************)
(* One execution of the FSM prediction per tick                            *)
(* (lib/predictions/fsm/pred_fsm.c): it dumps the history of every metric, *)
(* one after the other, merges them by timestamp and feeds the samples to  *)
(* the history FSM, then resets the histograms.  The next tick reads the   *)
(* same samples again, except for those that were evicted meanwhile.       *)
(*                                                                         *)
(* A metric is the sliding window that Metric implements: one dump is a    *)
(* snapshot, but two dumps are not of the same moment.  A sample is its    *)
(* time and the state that fsm_update_state finds for it; that function of *)
(* the application depends on the metric and the value only, as in         *)
(* tests/nv_graph.c:104-110.                                               *)
(***************************************************************************)
EXTENDS HistoryFsm

CONSTANTS MetricCount,   \* metrics_count
          HistorySize,   \* metric_history_size of every metric
          Feeds          \* Ways to feed the metrics: the least time between
                         \* two samples and (bounds) the last time and the
                         \* number of samples

ASSUME MetricAssumption ==
  /\ MetricCount \in Nat \ {0}
  /\ HistorySize \in Nat \ {0}
  /\ Feeds \subseteq [spacing : Nat, last : Times, samples : Nat]

VARIABLES feed,          \* The way the metrics are fed
          ring,          \* What each metric holds
          clock,         \* The earliest time of the next sample
          fed,           \* How many samples the metrics have got
          pc,            \* Where the prediction is
          history,       \* The dumps of this tick
          cur_index,     \* How many samples of each dump were consumed
          pos,           \* How many metrics the output loop has visited
          results,       \* Its i: how many results it has, and buffers it freed
          before         \* For the properties: the current state and the
                         \* time of its change when the tick began

fsm == <<states, cnt, total_count, cur, time_state_changed>>

predVars == <<states, cnt, total_count, cur, time_state_changed,
              feed, ring, clock, fed, pc, history, cur_index, pos, results,
              before>>

output == <<pos, results>>

Metrics == 1 .. MetricCount

Samples == [time : Times, state : UserStates]

PredInit ==
  /\ Init
  /\ feed \in Feeds
  /\ ring = [m \in Metrics |-> << >>]
  /\ clock = 0 /\ fed = 0
  /\ pc = "idle"
  /\ history = [m \in Metrics |-> << >>]
  /\ cur_index = [m \in Metrics |-> 0]
  /\ pos = 0 /\ results = 0
  /\ before = [state |-> NoState, time |-> 0]

\* Mutant: the ring is filled to its last slot.
Kept_Full(samples) == IF Len(samples) > HistorySize THEN Tail(samples) ELSE samples

\* A metric holds one sample less than its ring has slots.
Kept(samples) == IF Len(samples) >= HistorySize THEN Tail(samples) ELSE samples

\* metric_update, by another thread, at any time.
Feed(m, sample) ==
  /\ sample.time \in clock .. feed.last
  /\ fed < feed.samples
  /\ clock' = sample.time + feed.spacing
  /\ fed' = fed + 1
  /\ ring' = [ring EXCEPT ![m] = Kept(Append(@, sample))]
  /\ UNCHANGED <<fsm, feed, pc, history, cur_index, output, before>>

\* The engine calls prediction_fsm_exec.
StartTick ==
  /\ pc = "idle"
  /\ pc' = "dump"
  /\ before' = [state |-> CurrentState, time |-> time_state_changed]
  /\ history' = << >>
  /\ cur_index' = [m \in Metrics |-> 0]
  /\ UNCHANGED <<fsm, feed, ring, clock, fed, output>>

DumpHistory ==
  /\ pc = "dump"
  /\ LET m == Len(history) + 1 IN
       /\ history' = Append(history, ring[m])
       /\ pc' = IF m = MetricCount THEN "train" ELSE "dump"
  /\ UNCHANGED <<fsm, feed, ring, clock, fed, cur_index, output, before>>

\* Mutant: the last sample of a dump is left out.
Left_ButLast == {m \in Metrics : Len(history[m]) > cur_index[m] + 1}

Left == {m \in Metrics : Len(history[m]) > cur_index[m]}

NextSample(m) == history[m][cur_index[m] + 1]

\* Mutant: the first metric with a sample left.
min_time_idx_First == CHOOSE m \in Left : \A n \in Left : m <= n

\* The metric with the lowest timestamp, the first of them.
min_time_idx ==
  CHOOSE m \in Left :
    \A n \in Left : \/ NextSample(m).time < NextSample(n).time
                    \/ NextSample(m).time = NextSample(n).time /\ m <= n

\* Mutant: the sample is not consumed.
Consumed_Never(m) == cur_index

Consumed(m) == [cur_index EXCEPT ![m] = @ + 1]

TrainSample ==
  /\ pc = "train"
  /\ Left # {}
  /\ Observe(NextSample(min_time_idx).state, NextSample(min_time_idx).time)
  /\ cur_index' = Consumed(min_time_idx)
  /\ UNCHANGED <<feed, ring, clock, fed, pc, history, output, before>>

\* Mutant: the histograms are not reset.
ResetAfterTraining_Forgotten == UNCHANGED fsm

ResetAfterTraining == history_fsm_reset_transitions

EndTraining ==
  /\ pc = "train"
  /\ Left = {}
  /\ ResetAfterTraining
  /\ pc' = "output"
  /\ UNCHANGED <<feed, ring, clock, fed, history, cur_index, output, before>>

\* The output loop: a result for each metric that is not empty now, and with
\* it the buffer at that index is freed, be it that metric's or not.
OutputMetric ==
  /\ pc = "output"
  /\ pos < MetricCount
  /\ pos' = pos + 1
  /\ results' = IF ring[pos + 1] = << >> THEN results ELSE results + 1
  /\ UNCHANGED <<fsm, feed, ring, clock, fed, pc, history, cur_index, before>>

EndTick ==
  /\ pc = "output"
  /\ pos = MetricCount
  /\ pc' = "idle"
  /\ history' = [m \in Metrics |-> << >>]
  /\ cur_index' = [m \in Metrics |-> 0]
  /\ pos' = 0 /\ results' = 0
  /\ UNCHANGED <<fsm, feed, ring, clock, fed, before>>

PredictionStep ==
  StartTick \/ DumpHistory \/ TrainSample \/ EndTraining \/ OutputMetric \/ EndTick

PredNext ==
  \/ \E m \in Metrics : \E sample \in Samples : Feed(m, sample)
  \/ PredictionStep

PredSpec == PredInit /\ [][PredNext]_predVars

\* The engine goes on with the tick; nobody has to feed the metrics.
FairPredSpec == PredSpec /\ WF_predVars(PredictionStep)
--------------------------------------------------------------------------------
(***************************************************************************)
(* Properties.                                                             *)
(***************************************************************************)
PredTypeOK ==
  /\ TypeOK
  /\ ring \in [Metrics -> Seq(Samples)]
  /\ feed \in Feeds
  /\ clock \in 0 .. feed.last + feed.spacing
  /\ fed \in 0 .. feed.samples
  /\ pc \in {"idle", "dump", "train", "output"}
  /\ history \in Seq(Seq(Samples)) /\ Len(history) <= MetricCount
  /\ pc # "dump" => Len(history) = MetricCount
  /\ cur_index \in [Metrics -> Nat]
  /\ \A m \in Metrics : cur_index[m] <= IF pc = "dump" THEN 0 ELSE Len(history[m])
  /\ pos \in 0 .. MetricCount
  /\ results \in 0 .. pos
  /\ before \in [state : UserStates \cup {NoState}, time : 0 .. Never]

\* The search for the lowest timestamp reads the sample at cur_index of every
\* dump before it asks whether there is one; it stays inside the buffers.
ReadsInBounds ==
  pc = "train" => \A m \in Metrics : cur_index[m] < HistorySize

\* The samples are consumed in the order of their timestamps, whatever metric
\* they come from.
MergeOrdered ==
  pc = "train" =>
    \A m, n \in Metrics :
      \A k \in 1 .. cur_index[m], l \in cur_index[n] + 1 .. Len(history[n]) :
        history[m][k].time <= history[n][l].time

\* The buffers of a tick are freed at its end, but for one for each metric that
\* was still empty when its history was dumped: with samples in every metric
\* nothing is leaked, although the loop asks the metrics again.
OnlyEmptyMetricsLeak ==
  pc = "output" /\ pos = MetricCount =>
    MetricCount - results <= Cardinality({m \in Metrics : history[m] = << >>})

\* The samples of this tick.
Merged == UNION {ToSet(history[m]) : m \in Metrics}

Latest(samples) == CHOOSE x \in samples : \A y \in samples : y.time <= x.time

Trained == pc = "train" /\ Left = {}

\* When it was trained, the history FSM is in the state of the latest sample,
\* although the history starts with samples that an earlier tick consumed.
\* (If the samples are more than a microsecond apart: the code ignores a change
\* that comes within one microsecond of the last.)
Spaced == feed.spacing > 1

FollowsMetrics ==
  Spaced /\ Trained /\ Merged # {} => CurrentState = Latest(Merged).state

\* The samples that are late enough to change the state.
Fresh ==
  {x \in Merged : before.state # NoState => x.time > (before.time + 1) % TimeModulus}

Previous(x) ==
  LET earlier == {y \in Fresh : y.time < x.time} IN
  IF earlier # {} THEN Latest(earlier).state
  ELSE IF before.state = NoState THEN x.state ELSE before.state

Changes == {x \in Fresh : Previous(x) # x.state}

\* A tick counts the changes of state in its histories that come after the
\* last change that the tick before has seen, each of them once; what an
\* earlier tick counted is not counted again, and nothing is left out, except
\* for the first change of all, before which the time is unknown.
ChangesCountedOnce ==
  Spaced /\ Trained =>
    MapThenSumSet(LAMBDA e : total_count[e], DOMAIN cnt)
      + (IF Changes # {} /\ (before.state = NoState \/ before.time = Never)
         THEN 1 ELSE 0)
    = Cardinality(Changes)

\* Every tick starts from empty histograms.
TicksStartEmpty ==
  pc \in {"idle", "dump"} =>
    \A e \in DOMAIN cnt : total_count[e] = 0 /\ \A i \in Entries : cnt[e][i] = 0

\* Nothing of a tick is left to the next, and with samples in every metric
\* nothing is lost.
NothingLeftBehind == TicksStartEmpty /\ OnlyEmptyMetricsLeak

\* A tick comes to its end however fast the metrics are fed.
TickEnds == pc = "dump" ~> pc = "idle"

\* The assertion of history_fsm.c:134: a sample that changes the state is
\* later than the last change.
SamplesComeLater ==
  pc = "train" /\ Left # {} =>
    LET x == NextSample(min_time_idx) IN
    cur # 0 /\ states[cur] # x.state /\ TooEarly(x.time)
      => x.time > time_state_changed
================================================================================

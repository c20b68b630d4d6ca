# A verification of RTGDE in TLA+

RTGDE is a C library (`lib/`, `include/`) that takes real-time decisions with a
*flowgraph*: once per period, predictions read the recent history of metrics and
say what may come, models turn the predictions into outputs, a scoring weighs
the outputs and a decision selects a model; a callback tells the application.
This directory holds TLA+ modules that follow the code of the library, the TLC
configurations that check them on small instances, and proofs checked by TLAPS
for every instance.

## Inventory

| component | state | operations | hard because |
|---|---|---|---|
| metric history, `lib/metric.c` | ring, `put`, `get`, `history_mutex` | `metric_update`, `metric_is_empty`, `metric_dump_history`, `metric_get_last` | updates and several readers interleave; readers make several calls, each under its own lock |
| flowgraph engine, `lib/rtgde.c` | two lists and `config_mutex`, the thread, `one_time`, `flowgraph_exec_count`, the CSV formats | create, attach/detach, CSV setters, `rtgde_start`, `rtgde_stop`, `flowgraph_teardown`, the thread | a thread that is cancelled, user code under a mutex, calls at any moment, a teardown that frees what the others use |
| prediction base, `lib/prediction.c` | metrics of a prediction, lists of results | attach, `prediction_exec`, copies, deletions | results change hands several times per tick |
| predictions, `lib/predictions/` | none but their parameters (simple, average, constraint) | `exec` | arithmetic at the edges, snapshots under several locks |
| FSM prediction, `lib/predictions/fsm/`, `lib/fsm.c` | states, transitions with histograms, current state and the time of the last change | dumps, merge of the histories, `history_fsm_state_changed`, `_state_add`, `_reset_transitions`, the output loop, the density files | the same history is read again at every tick; indices into the histograms; metrics that were empty a moment ago |
| graphs, `lib/graph.c` | list of points | add, copy, read, delete, `graph_integral` | boundaries of the integral |
| models, `lib/model.c`, `lib/models/` | none | `model_exec` | takes results out of its list |
| decision input, `lib/decision_input.c` | models, metrics, scores of a tick | add, find, delete | ownership of results |
| scoring, `lib/scoring.c`, `lib/scoring/` | metrics with weights and CSV files, the format | register, delete, `scoring_exec`, `score_simple_calc` | four curves walked at once, divisions, missing metrics and files |
| decision, `lib/decision.c`, `lib/decision/` | none | `decision_exec` | no output, NaN scores |
| clock, list, `lib/utils.c`, `include/list.h` | none | `clock_read_us` | time goes on between any two reads |
| sample programs, `tests/` | | | they are the contract the library is used under |

How they interact: the threads of the application feed the metrics at any time
(shared state under `history_mutex`). The engine thread calls every prediction,
model, the scoring, the decision and the user's callback, all of it with
`config_mutex` held and cancellation disabled (callbacks). The application
attaches and detaches from other threads (`config_mutex`), sets the CSV output
up (no lock) and starts, stops and tears the flowgraph down.

What makes each part correct:

- metric: the ring is a sliding window over the samples fed; a dump is a
  snapshot; a metric found non-empty stays non-empty; nobody reads or writes
  outside of the ring or of the caller's buffer.
- engine: a tick sees one configuration, releases what it took on every way
  out, survives cancellation at any point, leaves no list behind; a one-time run
  takes its decision; calls and the teardown return; nothing runs after it.
- FSM prediction: the graph of transitions is complete and has one entry per
  ordered pair; every change of state is counted once, in the bucket of the
  time spent, inside the histogram; the merge consumes every sample, in order.
- schedule: ticks neither run ahead of their period nor are dropped, and what is
  counted as late was late.
- pipeline: every result and every decision input is freed exactly once.
- scoring and decision: a score is the mean over the prediction and in [0, 1];
  the decision takes a best one.
- average: low and high lie around the average, and the average among the samples,
  in spite of the rounding of the floats.
- graphs and logs: what is read, integrated or written is the step function that
  the points stand for.

## The modules

| module | what it is |
|---|---|
| `SlidingWindow` | what a metric promises |
| `Metric` | the ring of `lib/metric.c`, its mutex, its readers; implements `SlidingWindow` |
| `FlowgraphApi` | what a flowgraph promises |
| `Flowgraph` | `lib/rtgde.c`: the engine thread, the calls of the application, start, stop, teardown; implements `FlowgraphApi` |
| `Ticker` | `lib/rtgde.c` once more: when the ticks begin, and the statistics of `rtgde_stop` |
| `DwellTimes` | what the history FSM is for |
| `HistoryFsm` | `history_fsm.c`; implements `DwellTimes` |
| `Densities` | extends `HistoryFsm` with the lines of its CSV files |
| `PredFsm` | `pred_fsm.c`: `HistoryFsm` fed with what the metrics hold, tick after tick |
| `Pipeline` | the results of a tick and their owners, the decision input, the life of the scoring, the selected model |
| `Graph` | `lib/graph.c`: curves as sequences of points |
| `Float` | the type `float`: every operation rounded to the nearest |
| `Curves` | extends `Graph` and `Float`: the curves of one metric from the prediction to the score and the log |
| `MCMetric`, `MCFlowgraph`, `MCTicker`, `MCHistoryFsm`, `MCPredFsm`, `MCPipeline`, `MCCurves` | instances for TLC |
| `MetricProofs`, `FlowgraphProofs`, `TickerProofs`, `HistoryFsmProofs`, `PredFsmProofs`, `PipelineProofs`, `CurvesProofs` | the theorems, see *What is proved* |
| `FoldTheorems` | what they need of folds, recursive functions and sequences of any length |

The engine appears three times, once for each question: `Flowgraph` has its
threads and no data or time, `Pipeline` the data of a tick and no threads,
`Ticker` its time and nothing else.

### Metric

One variable per field: `ring`, `put`, `get` and `history_mutex` are those of
`metric_priv_t`. A sample is named by its rank, so "the most recent samples" can
be said; `fed` counts them. `metric_update`, `metric_is_empty` (`IsEmpty`) and
`metric_get_last` (`GetLast`) are one step each: they keep the mutex from their
first to their last access and cannot block inside. `metric_dump_history` is
split: `DumpLock` up to its loop, one `DumpCopy` per entry, `DumpUnlock`. A reader
does what the predictions do: ask whether the metric is empty, dump it if not,
and perhaps ask for the last sample while the dump is in use.

The refinement to `SlidingWindow` takes the dump to happen when the mutex is
released: there it is one step that returns the last `HistorySize - 1` samples.

### Flowgraph

| code | model |
|---|---|
| `flowgraph_priv_t` lists with `last_prediction` | `predictions`, `models` |
| `config_mutex` | `config_mutex`, its owner between two steps |
| `csv_pred_format`, `csv_model_format` | `csv`: null, set, or dangling between the `free` and the assignment of a setter |
| `one_time`, `flowgraph_exec_count` | the same; the counter saturates at 1, the value it is compared with |
| `pthread_setcancelstate`, `pthread_cancel` | `cancel_disabled`, `cancel_pending`; `EngineCancelled` at every cancellation point |
| `execute_flow_graph` | one step per prediction, per model, and for scoring with decision, the callback, each CSV log, the end |
| `rtgde_stop` | `rtgde_stop`, `WaitFirst`, `CancelThread`, `JoinThread` |
| `flowgraph_teardown` | the same with `tearing`, then `FreeFlowgraph` |
| attach, detach | `Call`, then the critical section as one step with the return |

User code is reduced to what the engine tells apart: a prediction returns a list
or NULL, a model has an output or not, the decision selects one of the outputs
or none, the callback returns or calls back into the library.

What the program around the library may do is the constant `Environment`, a set
of *habits*: let the predictions run out, return NULL from a prediction, have a
file that cannot be created, set the CSV output up while the engine runs, call
back into the library from the callback, stop without tearing down and start
again, stop or tear down a flowgraph that was never started, fail to create
the thread. With no habit at all the program keeps to what the library needs
(`Contract`); the theorems and the run `flowgraph_any` allow every habit.

Undefined behaviour ends in `crashed`, or in either outcome where a build may
well survive it (`pthread_cancel` of an uninitialised `pthread_t`, formatting with a
freed format). `pthread_cancel` of a thread that has exited but was not joined
returns 0 or `ESRCH`, as C libraries differ.

The refinement to `FlowgraphApi` takes a decision to happen when `user_cb` is
called: there it is one step whose report names all the attached predictions
and models, in order.

### HistoryFsm

`states` is the list `h_fsm->states` (oldest first); a state is the position at
which it was added and a transition is a pair of positions, with `cnt` and
`total_count` of `history_fsm_transition_t`. `cur` is a position, 0 for NULL.
`time_state_changed` is uninitialised until the first state is added, and
`(sample_time_t)-1` from then to the first change. Timestamps wrap at
`TimeModulus`. A histogram has one word more than the code allocates, so that a
write behind its end is seen and not lost.

One observation, `Observe`, is what `pred_fsm.c:117-145` does with a sample:
`history_fsm_state_changed` finds the same state (`SameState`), ignores a change
that is not late enough (`IgnoreChange`), follows a transition (`ChangeState`), or
returns 1, whereupon the state is added and the function is called again
(`AddFirstState`, `AddState`). Only the thread of the prediction uses the
structure, so an observation is one step.

The refinement to `DwellTimes` maps the pair of user states to the pair of their
positions. There the counters are complete from the start, time does not wrap
and nothing is allocated. The constant `Lost` names the durations that are not
recorded; it is `{history_fsm_entry_count}`, which is the defect described under
*Findings*, said as weakly as it is true: every other stay is counted in its
bucket.

### Densities

`history_fsm_transitions_prob_density_to_csv` writes, for each state, one line per
entry of the histograms and leaves out what repeats. `Printed` is the list of
entries that get a line, a recursive function along the histogram with the flag
that remembers whether the line before was written (`PrintLine`). It has no variables: it is
evaluated in every state of `HistoryFsm`.

### PredFsm

Extends `HistoryFsm` with the metrics (as the sliding windows `Metric` implements:
each dump is a snapshot, two dumps are of different moments), which are fed at
any time, and the steps of `prediction_fsm_exec`: one dump per metric, the merge
one sample at a time, the reset of the histograms, the output loop one metric
at a time, the end. A sample is its time
and the state that `fsm_update_state` finds for it; the function of the
application depends on the metric and the value only, as in
`tests/nv_graph.c:104-110`.

`pos` is the metric the output loop has come to and `results` its `i`. The loop asks
each metric again whether it is empty, and frees the buffers at `i`, which are
those of another metric once one was skipped: `MetricCount - results` of them are
never freed.

How the metrics are fed is a member of `Feeds`, chosen once: the least time
between two samples, the last time and the number of samples.

### Pipeline

The tick of `Flowgraph` once more, for its data: nothing runs beside it, and
user code never fails.

| code | model |
|---|---|
| metrics attached to a prediction (`prediction_attach_metric`, `prediction_delete`) | `metrics`, a list of names per prediction |
| the metrics of the scoring and their files, its format and its global file | `registered`, `csv`; `late` remembers what was registered when there were files already |
| `prediction_metric_result_t` | its rank in the order of allocation; `results` has its name and how often it was freed |
| `last_prediction` of every entry | `last_prediction`, one list of results per prediction executed so far |
| the list given to `model_exec` | `input`: copies, made anew for each model (`Union`) |
| `decision_input_model_t` being built | `dim` |
| `decision_input_t` | `di`: models, each with its metrics (a name and a result) |
| `decision_input_model_add_metric` refuses a name | `refused` |
| `dim->score` | `score`: a sum and its weights, instead of their quotient in floating point |
| `dim_sel` | its position in `di`, or 0 |

A prediction has one result for each attached metric that is not empty, a
constraint always has one. There are the two kinds of models the
repository has: `model_dummy_exec` takes the results out of its list, one
`TakeHead` each; the others (`FindResults`) look for the names in `Needs`, put copies of
them next to their outputs, or return NULL. `model_exec` deletes what is left in
the list. Which predictions and models are attached is chosen again for every
tick; metrics are attached and registered between the ticks, when there is no
mutex to protect them. `score_simple_calc` is any score from 0 to 1, which is what
`Curves` shows of it for predictions whose values are less than 2^31 apart. Weights
are positive, which `scoring.c` does not check. The graphs, histories and outputs live and
die with the result or the metric that holds them. `scoring_exec` ends in `crashed`
where `csv_write_metric` reads a file that is not open or an output that is not
there.

### Graph and Curves

A curve is a sequence of points, a pointer to a point its position, NULL is 0.
`Curves` follows one metric through the code that computes on curves, and `pc`
names the place: `predict` (one of the three predictions of the library, or one of
the application), `model` (`model_dummy_exec`, or a model of the application),
`start` and `score` (`score_simple_calc`, one step per segment), `scored`, `log`
(`csv_log_models`, one step per row; also for a metric that is not scored), `logged`.
`aborted` and `mismatch` are the failing assertions of the two.

A score of 1.0 is `Unit`. The quotients of `score_simple_calc` are rounded to parts of
it, and the mean over the prediction is kept as a sum (`score`) over a time
(`last_update`), which the code has as a `double`. For the bounds of a score it does
not matter how the quotients and sums are rounded: rounding keeps the order, and
0, 1/2, 1 and all times below 2^53 are numbers of the type. What does matter is
that the numerators and denominators are differences of 32 bits: they are
wrapped (`Signed` in `NormalScore`), as the overflow does in a build without
sanitizers.

`prediction_average_exec` depends on its rounding, so that `Float` models it: a float
is a multiple of the least positive one, the distance between neighbours is a
member of `Steps` and doubles from one power of two to the next, and the result of a
conversion, quotient, product, sum, difference or root is the nearest float, or of two
the even one (`Round`, `RoundRoot`). `Precision` is 2^24 and `One` is 2^149 for the
`float` of C; TLC takes 128 and 1024, and the proofs any pair. There is one rounding
per operation of `average.c:73-85`, as with the SSE instructions of x86-64 and
without fused operations. A sum of squares
wraps at `SumModulus`, the product of two samples at `ValueModulus`, and what is not
a number or out of range becomes the least value when it is converted to 32 bits
(`ToValue`), as on x86-64.

`graph_integral` is a recursive function over the points, with the variables of the
C function and the flag that it has returned as its value (`IntegralStep`).

`AverageAssumption` says of the constants what `AverageInside` needs: a history short
enough that its sums stay below `SumModulus` (2^33 samples of 31 bits do, in 64
bits) and that its length is exact as a float (up to 2^24 samples), and
confidences so small that a value whose square fits stays in range when it is
enlarged by them and by the rounding (with 32 bits and a confidence of at most 3,
by a wide margin). `FloatAssumption` says what the steps of a float are.

### Ticker

`now` is the clock; it passes between any two steps, so that a tick, a start of
the thread or the way out of `usleep` takes as long as it likes. The thread is at
`start`, `schedule`, `asleep` or `late` (the warning is a cancellation point), `awake`,
`ready`, `executing`. `jitters`, `exec_times` (what was measured), `busy` (how long the
thread did not sleep), `hurried` (how many sleeps in a row a signal cut short) and
`starts` are history variables of the properties; the sums wrap at `SumModulus`. The
floats of `rtgde_stop` (`rtgde.c:615-627`), which are only printed, are exact.

## The runs

| run | module, configuration | expectation |
|---|---|---|
| `metric` | `MCMetric.cfg` | pass |
| `flowgraph_any` | `MCFlowgraphAny.cfg` | pass |
| `flowgraph_contract` | `MCFlowgraphContract.cfg` | pass |
| `flowgraph_dry`, `flowgraph_null_list` | `MCFlowgraphDry.cfg`, `MCFlowgraphNullList.cfg` | violation |
| `ticker` | `MCTicker.cfg` | pass |
| `history_fsm` | `MCHistoryFsm.cfg` | pass |
| `history_fsm_bounds` | `MCHistoryFsmBounds.cfg` | violation |
| `pred_fsm` | `MCPredFsm.cfg` | pass |
| `pred_fsm_assert` | `MCPredFsmAssert.cfg` | violation |
| `pipeline` | `MCPipeline.cfg` | pass |
| `curves` | `MCCurves.cfg` | pass |

Every module has one type invariant, and each is proved. The runs do not repeat
them, but for that of `Pipeline`, where a pointer or an index to nothing is a
defect that the type excludes.

- `metric`: the ring holds the most recent samples in order (`RingHoldsWindow`); a
  metric found non-empty gives a dump that is not empty, however many updates
  come in between, and that leaves the last entry of the caller's buffer unused
  (`DumpFits`); the last sample is not older than the dump before
  it (`LastNotOlder`); dumps are snapshots (`WindowSpec`) and return
  (`DumpReturns`).
- `flowgraph_any`, with every habit: a tick sees one configuration
  (`ConfigStable`), nothing runs after the teardown (`NoUseAfterFree`), every report
  is one that `FlowgraphApi` allows (`ApiSpec`).
- `flowgraph_contract`, with no habit, two predictions and two threads that attach
  and detach: no crash (`NoCrash`) and no deadlock, every way out of a tick
  releases the mutex, the decision input and the lists (`TickReleases`), a one-time
  flowgraph has reported before its thread ends (`OneTimeServed`), attach, detach
  and teardown return (`CallsReturn`), a running flowgraph goes on reporting
  (`KeepsDeciding`).
- `ticker`: the n-th tick begins n periods after the start or later, less one for
  each sleep in a row that a signal cut short, and a thread
  that sleeps has begun as many ticks as periods have passed, but for those
  (`KeepsSchedule`); each
  tick counted as missed stands for a period in which the thread was busy
  (`MissesArePaid`); the late updates are some of the decisions, wherever the
  thread was cancelled (`MissesAreTicks`); the averages and deviations printed are
  those of some numbers between the least and the greatest measured, if no sum
  wrapped (`StatisticsSound`).
- `history_fsm`: the graph of transitions is complete (`GraphComplete`), totals and
  histograms agree (`TotalsAddUp`), the counters are those of `DwellTimes` (`DwellSpec`), and from the
  density files the densities can be drawn (`DensitiesReadable`).
- `pred_fsm`: over several ticks with overlapping histories, fed by samples that
  are apart or that share their times, the merge consumes in order (`MergeOrdered`)
  and reads inside the buffers (`ReadsInBounds`), the FSM ends in the state of the
  latest sample (`FollowsMetrics`), each change of state is counted in one tick
  and once (`ChangesCountedOnce`), no count and, with samples in every metric, no
  buffer is left behind (`NothingLeftBehind`), and the tick ends (`TickEnds`).
- `pipeline`: a result has one owner and is freed once (`OneOwner`); what a tick
  allocates is freed at its end as long as no two predictions have a metric in
  common (`OnlyDuplicatesLeak`); a model sees the results of all predictions,
  whatever other models did with their copies (`ModelsSeeAll`); the selected model
  has the highest mean, and models without a registered metric neither win nor
  hide another (`BestSelected`); the CSV output of the scoring crashes for metrics
  registered late and for missing outputs, and for nothing else
  (`CsvCrashExplained`).
- `curves`: a score is between 0 and 1.0 unless the prediction is 2^31 or more wide
  (`ScoreInRange`) and the mean of the score at
  every moment, up to the end of the shortest curve (`ScoreIsMean`); the program
  aborts for no other curves than those that start late, end at 0, go back in
  time before the others end, step apart, or are that wide (`OnlyBadCurvesAbort`); a
  file has one row for each moment at which a curve steps, with the values of that
  moment (`RowsFollowCurves`). The average lies among the samples if a float can
  hold their sum; low and high lie around it, or are both the least value when the
  rounding has made the variance negative; and for small samples, of which a float
  can hold six times the sum of the squares, that never happens, and samples that
  are all the same are predicted to stay so (`AverageInside`). Integrals over any
  interval whose ends fit a `sample_value_t` are the surface under the curve, plus
  `Excess` in one case (`IntegralExact`).

### Findings

Four runs end in a violation, each of something the repository says of itself:

- `flowgraph_dry`: without an attached prediction `execute_flow_graph` returns with
  `config_mutex` locked (`rtgde.c:317`). In a one-time flowgraph the teardown then
  waits for ever (`TeardownReturns`); in a periodic one the second tick does so
  first. The message beside the return calls it a warning, and `tests/minimal.c`
  does just that.
- `flowgraph_null_list`: a prediction that returns NULL, as
  `tests/pcap/pred_packets.c:57` does for an empty metric, is dereferenced when
  the lists are copied for the first model.
- `history_fsm_bounds`: `history_fsm_entry` limits its result with `>` where `>=` is
  meant, so a stay of `entry_count` resolutions is written behind the histogram.
- `pred_fsm_assert`: the assertion at `history_fsm.c:134` fails at the second tick,
  because each tick reads the history from its start. A build with `NDEBUG`
  ignores the samples, which is what the next line wants.

The models show more, which no text of the repository contradicts in so many
words. It has no run of its own; the properties name it as an exception, so that
each says precisely what is left:

- The teardown of a flowgraph that was never started cancels an uninitialised
  thread identifier (`rtgde.c:598`); `tests/dvfs/dvfs.c` can do it. This is the habit
  `unstarted`, one of the four that the proof of `NoCrash` excludes.
- When two predictions have a metric in common (`prediction_simple` and
  `prediction_average` of the same metric), `model_dummy` loses one result per tick:
  `decision_input_model_add_metric` refuses the second output of that name and
  nobody frees it (`decision_input.c:114`). See `NothingShared` in
  `OnlyDuplicatesLeak` and `refused` in `OneOwner`.
- The output loop of `prediction_fsm_exec` leaks one buffer for each metric that
  is empty (`pred_fsm.c:170`): `OnlyEmptyMetricsLeak`.
- With its CSV output on, the scoring dereferences NULL for a model that lacks a
  registered metric and for a metric registered after the first tick
  (`scoring.c:224`): `CsvCrashExplained`.
- A prediction or an output that ends at 0, as one of a single point does, divides
  0 by 0, and the assertion behind it aborts the program (`scoring/simple.c:97`); so does an output that goes
  back in time early, which `model_dummy_exec` draws when the prediction steps twice
  within a second (`models/dummy.c:55-57`): `OnlyBadCurvesAbort`.
- `score_simple_calc` subtracts 32-bit values before it converts them
  (`scoring/simple.c:69`, `73`). If those of a prediction are 2^31 or more apart a
  difference overflows, and the score may exceed 1.0, whereupon the assertion at
  line 97 aborts the program, or be negative: low and average -2e9, high 2e9 and an
  output of 1e9 score about 2.7. `Narrow` in `ScoreInRange` and `OnlyBadCurvesAbort`;
  `WideCurves` has such curves.
- The variance of `prediction_average_exec` is a difference of two floats
  (`average.c:80`). For samples that are all the same, or nearly so, it may be
  positive (three samples of 4097 with a factor of 1 are predicted between 4095 and
  4098) or negative, and then low and high are both `INT_MIN`. `AverageInside` says
  how large the samples must be for that; the samples 13, 13, 13 and 16, 17, 17 of
  `Histories` are the two cases in floats of 7 bits.
- `graph_integral` is wrong when a point lies in the interval and the next one
  behind its end (`graph.c:162`): it counts the value of that point from the start
  of the interval. `Excess` in `IntegralExact` is the difference.
- `flowgraph_exec_count` is not reset by `rtgde_start` (`rtgde.c:594`): a second
  one-time run can be cancelled before its decision (`OneTimeServed` is proved
  without the habit `stop`), and the statistics of a second run divide by the
  wrong count (`starts = 1` in `StatisticsSound`).

### Bounds, and why they are enough

- `metric`: four slots and eight updates: the ring fills, evicts and wraps twice,
  with every position of `put` and `get` against a dump under way; two readers
  compete with each other and with the updates.
- `flowgraph_*`: `MaxAttached` entries per list (two: a first and a last one, and
  the same object attached twice), one or two threads of the application: every
  pair of calls meets every step of the engine. The counter of executions
  saturates at 1 because the code only compares it with 1.
- `ticker`: a period of two microseconds, a clock that goes to seven (`Horizon`) and two starts
  (`MaxStarts`): a tick that takes longer than a period, two missed in a row, a
  schedule caught up, a cancellation at every place, and sums of four bits that
  wrap. The run may stop because time does.
- `history_fsm`: three states (a state is added while the current one has other
  transitions), four entries of two microseconds each and stays of up to twelve:
  each entry, the word behind the end and the last entry for what is longer, and
  lines of a density file that are printed, left out and printed late. The
  times are finite, which bounds the state space: a change needs a later time.
- `pred_fsm`: two metrics of two samples each, four samples in all, so that
  histories overlap from one tick to the next and samples are evicted between
  ticks. `Apart` has samples more than a microsecond apart, which
  `FollowsMetrics` and `ChangesCountedOnce` need: the code ignores a change that
  comes within one microsecond of the last. `Together` has two timestamps only,
  which any number of samples share, for the order of the merge.
- `pipeline`: one or two predictions and up to two models out of three each, in
  any order and possibly the same twice; a metric that two predictions share; a
  model that needs two results (one of them a constraint), one that needs one and
  one that takes all: models scored over different metrics meet, and none at all.
  Weights 1 and 2 and scores 0, 1/2 and 1 tell sums from means. Ticks follow one
  another, with metrics and files coming and going between them; the numbering
  of results starts again with each.
- `curves`: curves of one to three points between the times 0 and 3 and values up
  to 2: every order of the next points of four curves, ties, curves that end
  first, start late, stand still or go back, before and behind the end of the
  others, low, average and high that coincide or cross.
  Values of 14 bits, so that predictions can be more than half of their range
  apart. Floats of 7 bits (`Precision`) and histories that they hold exactly,
  whose deviation is rounded to something else than 0, and whose variance is
  rounded to a negative number. No sample of a history is negative or has a square
  that overflows: `AverageInside` says nothing of those. The run may stop where an
  assertion failed.

### Fairness

- `Metric`: a reader inside the copying loop goes on (weak); a reader that waits
  for the mutex gets it if it is free again and again (strong), which the futex
  behind `pthread_mutex_lock` gives as long as nobody takes it in a tight loop.
  Nobody has to feed the metric.
- `Flowgraph`: the engine and the calls that wait for `config_mutex` get it if it is
  free again and again (strong: the engine sleeps for the rest of the period
  between two ticks, `rtgde.c:384-388`, and a call is short), the main thread and
  the CSV setters go on (weak). User code returns. Nothing obliges the
  application to call, or the main thread to start, stop or tear down.
- `PredFsm`: the prediction goes on (weak); feeding is not fair, and may outrun it.
- `HistoryFsm`, `Pipeline`, `Curves` and `Ticker` are sequential or have no liveness
  property of their own, and state none.

## What is proved

Every safety property of the passing runs, whether of a state or of a step, and
all three refinements, for every value of the constants that satisfies the named
assumptions:

- `MetricProofs`, from `HistorySize > 0`: `TypeCorrect`, `RingCorrect`, `DumpNotEmpty`,
  `DumpLeavesSpareSlot`, the two together in `DumpsFit`, `LastIsRecent` and
  `ImplementsWindow`. The ring's invariant
  is inductive once `fed`, `put` and `get` are tied together (`put` is `Stored` slots
  after `get`); the readers need in addition that their cursor is as far from
  `get` as their buffer is long and that the ring does not change while one of
  them copies, because that reader holds the mutex. The refinement follows: at
  `DumpUnlock` the buffer is the window.
- `FlowgraphProofs`, for every `Environment`: `TypeCorrect` (with the owner of the
  mutex), `NeverUsedAfterFree`, `ListsEndWithTick` and `TickSeesOneConfiguration`. The
  inductive invariant `SafetyInv` ties the owner of `config_mutex` to the place of the
  engine (it is inside a tick, or has left one through the early return), and the
  place of the main thread to that of the engine: past the join the engine is
  gone.
  `ImplementsApi`, that is `Spec => ApiSpec`, also holds for every `Environment`.
  `ApiInv` adds to `SafetyInv` that what a tick has executed is a prefix of the
  configuration, all of it when the models are done; that there is a report only
  while the callback runs; and that a one-time run has at most one. The steps are
  mapped group by group: calls to attachments and detachments, start and stop to
  the phases, the step into the callback to the report, everything else to a
  stutter.
  With the habits that each theorem excludes, and from a finite set of threads
  (`AppsAssumption`) and `NoCall` being no call (`NoCallAssumption`): `TicksRelease`
  (without `run_dry`), `NeverCrashes` (without
  `null_list`, `csv_live`, `unstarted`, `create_fails`) and `OneTimeRunIsServed` (without
  `run_dry` and `stop`). "The predictions do not run out" is not an invariant of
  the lists alone; `NeverDry` says that there are more predictions than detaching
  calls under way, and is. `NeverCrashes` rests on three invariants that each close
  one cause: every list of a tick is present, no format is freed while the engine
  may use it, and there is a thread to stop.
- `TickerProofs`, from a period and widths that are not 0: `TypeCorrect`,
  `TicksAreNeverEarly`, `SleepsWhenCaughtUp`, the two together in `ScheduleIsKept`,
  `MissesTakeTime`, `LateUpdatesAreDecisions` and `StatisticsAreSound`. `OnSchedule` keeps
  `next_wakeup` a whole number of periods after the start, one for each tick
  measured or about to be, and the clock no further behind it than the sleeps cut
  short account for (`Ahead`); `Accounts` weighs the misses and the delay of the
  wake-up being worked on against the time spent busy. For the statistics,
  `Tallies` says that the sums are those of what was measured, modulo their
  width; what is printed is then sound by two facts about sums: a sum lies
  between its length times the least and times the greatest, and adding a value
  does not make a variance negative (`SpreadMore`).
- `HistoryFsmProofs`, from at least one entry per histogram and timestamps below
  `(sample_time_t)-1`: `TypeCorrect`, `GraphIsComplete`, `TotalsAlwaysAddUp`, `DensitiesCanBeRead` and
  `CountsDwellTimes`. `TypeOK` with `GraphComplete` is inductive: a state is added
  only if the current state has no transition to it, and completeness turns
  that into "it is not in the list". The refinement goes by one lemma for
  each way of recording a change (`ChangeStateRecords`, `AddStateRecords`), which
  say what happens to the counter of every pair of user states, and
  `EntryOfStay`, which undoes the wrapping of the times. `DensitiesCanBeRead` is by
  induction along the file: the lines printed so far are those the property wants,
  and the flag tells whether the last entry is among them.
- `PredFsmProofs`, from `MetricAssumption`: `PredTypeCorrect`, `MergeReadsInBounds`,
  `MergeIsOrdered`, `TicksStartFromNothing`, `LeaksAreOfEmptyMetrics` and, of these two,
  `TicksCleanUp`. `PInv` adds to the invariant of `HistoryFsm` that rings and dumps are
  sorted and shorter than the buffers, that a dump that was not empty comes from
  a metric that is not empty now, and that the loop has skipped empty metrics
  only. That a sample of lowest time exists follows from the times being
  well-founded. `FollowsTheMetrics` and `CountsEveryChangeOnce` need more (`Follow`):
  while the samples come more than a microsecond apart, some metric, and its dump
  too, always ends with the sample of the last change or a later one, so that what
  a tick reads again lies before that change and is ignored; and in the midst of
  the merge the current state is that of the latest new sample, the time of the
  last change is that of the latest change, and the totals are as many as the
  changes merged.
- `PipelineProofs`, from `NamesAssumption` and `ScoreAssumption`: `TypeCorrect`,
  `ResultsOwnedOnce`, `NothingElseLeaks`, `EveryModelSeesAll`, `BestIsSelected` and
  `CsvCrashesAreExplained`. `PipelineInv` collects what is true in the middle of a tick.
  `Separate`: the lists of the predictions, the input of the model, the output it is
  building and those of the models before it have no pointer twice and none in
  common. `Accounted`: a result is not freed if one of them holds it or its output
  was refused, and freed once otherwise. `Named`: while no two predictions share a
  metric, the results of a tick have different names, so that nothing is
  refused. `Seen`: the outputs so far are those of the models executed that find
  what they need, and show what they needed. One operator, `Frees`, says what every
  step that releases results does to all of them, whoever held them. The
  decision is a loop over the models whose invariant is `Best`, means compared as
  fractions.
- `CurvesProofs`, from `UnitAssumption`, `CurvesAssumption`, `FloatAssumption` and
  `AverageAssumption`:
  `TypeCorrect`, which includes that everything predicted fits its 32 bits,
  `ScoresAreBounded`, `ScoresAreMeans`, `OnlyBadCurvesFail`, `RowsAreRight`,
  `AveragesAreInside` and `IntegralsAreExact`.
  `Walked` is the invariant of the scoring: each cursor is at the last point of
  its curve that is not later than `last_update`, and `score` is the sum of the scores
  of all moments before. It is kept because a segment ends at the first next
  point of four, so that no curve steps inside it. `Logging` is that of the log: the
  cursors are where they belong at the time of the next row, and the rows are
  those of the moments before it. `Integrated` is the invariant of the loop of
  `graph_integral`.
  `AveragesAreInside` has two halves. One is about floats: the rounding keeps the
  order (`RoundGrows`), leaves a float alone (`RoundExact`), at most doubles a number
  (`RoundTwice`), and what is exact stays so. It bounds high by four roundings of
  the largest sample, and puts the average between the samples. The other is algebra
  on two sums (`Sound`): the spread of samples that are not all the same is at least
  their number less one, and for small sums that is more than the rounding of the
  average can add to its square (`SquareOfMean`), so that the variance stays positive.
  If all are the same, every operation is exact.
  The quotients and roots are not linear, so each bound on them is a lemma of its
  own.
- `FoldTheorems` has what these proofs have in common: induction along a sequence,
  the value of a function that is defined by recursion (`Recursion`), and the folds
  of the community modules, one element at a time from either end (`FoldPicked`,
  `FoldAppended`) or, when the operation allows it, in any order (`FoldAny`). The
  operation is a parameter of the module, so that each fold of the model is an
  instance of it.

Only model-checked: what is under fairness (`DumpReturns`, `CallsReturn`,
`KeepsDeciding`, `TickEnds`), which the prover does not reach.

## What is not modelled

- Setting the clock while a flowgraph runs: `clock_read_us` reads the time of day, and
  a jump would move the schedule with it.
- The rounding of `float` and `double` in scores and in the printed statistics of
  `rtgde_stop`: scores are rounded to parts of `Unit`, statistics are exact.
- Samples that are negative or whose squares overflow 31 bits, in what is said of
  the average: the squares wrap, and the variance means nothing.
- The contents of `csv_log_pred` and the history columns of the CSV files, which
  repeat curves and samples; the names of files, and messages.
- `usage_hint` and `metric` of a result, which `prediction_metric_result_copy` leaves
  uninitialised and nothing reads from a copy.
- `metric_print_history` and the CSV file of a metric, which only print;
  `metric_delete` and `history_fsm_delete`, which are called when nobody else is left.
- `history_fsm_state_attach_metric`: what it allocates is linked nowhere.
- Failures of `malloc`, except in attach; `die()` at the start.
- `fsm.c` beyond the call of `next_state`; `graph_read_point`, `graph_read_last` and
  `graph_point_count`, which only a test calls.
- A prediction length shorter than the resolution, for which a histogram has no
  entry (`ResolutionAssumption` excludes it).
- The sample programs, which were read as the contract of the library, beyond
  the kinds of predictions and models they have; their deciders. Plot scripts
  and build files have no behaviour of the system.

## Plan

What a next step would be, in this order:

1. An abstract specification of what a tick promises about its results (one
   allocation, at most one owner at a time, one release), which `Pipeline` would
   implement as `Flowgraph` implements `FlowgraphApi`.
2. A refinement between the two views of a tick: the lists of `Flowgraph` as what
   is left of those of `Pipeline` without their data.
3. `csv_log_pred` with the history it prints before the curves.
4. The deciders of the sample programs (`tests/dvfs/dvfs_decision.c`,
   `tests/pcap/pcap_decision.c`) as other decisions of `Pipeline`.

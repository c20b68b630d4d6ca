-------------------------------- MODULE Curves --------------------------------
(***************************************************************************)
(* What becomes of one metric in a tick: a prediction draws its curves     *)
(* (lib/predictions/{simple,average,constraint}.c, or a prediction of the  *)
(* application), a model gets a copy of them and draws an output           *)
(* (lib/models/dummy.c, or a model of the application), score_simple_calc  *)
(* (lib/scoring/simple.c) compares the two, and csv_log_models             *)
(* (lib/rtgde.c) writes them down side by side.                            *)
(*                                                                         *)
(* A score of 1.0 is Unit: the quotients of score_simple_calc are rounded  *)
(* to parts of it, where the code rounds them to a float, and the mean     *)
(* over the prediction is kept as the pair of score and last_update.  The  *)
(* floats of prediction_average_exec are those of Float.                   *)
(***************************************************************************)
EXTENDS Graph, Float

CONSTANTS SumModulus,    \* The range of uint64_t
          Unit,          \* A score of 1.0
          Lengths,       \* The lengths of the predictions
          Factors,       \* enum pred_avr_confidence_t
          Dumps,         \* What a metric that is not empty may hold
          Constraints,   \* low, average and high of the constraints
          UserCurves,    \* low, average and high of other predictions
          UserOutputs,   \* The outputs of other models
          Delay,         \* The steps of model_dummy_exec, 500000
          Moments        \* Where the intervals of the integrals begin and end

ASSUME UnitAssumption == Unit \in Nat \ {0} /\ Unit % 2 = 0

ASSUME CurvesAssumption ==
  /\ Lengths \subseteq Nat \ {0}
  /\ Delay \in Nat \ {0}
  /\ Dumps \subseteq Seq(Values) \ {<< >>}
  /\ Constraints \subseteq [low : Values, average : Values, high : Values]
  /\ UserCurves \subseteq [low : Curve, average : Curve, high : Curve]
  /\ UserOutputs \subseteq Curve
  /\ Moments \subseteq 0 .. Half - 1

\* The sums of a history do not overflow, and its length is exact as a float,
\* as those of up to 2^24 samples; and the confidence, which is at most 3, is
\* small for the range of the values: for 3 and 2^31 not even twice what the
\* rounding of five floats adds takes the high of a prediction out of it.
ASSUME AverageAssumption ==
  /\ SumModulus \in Nat \ {0}
  /\ \A history \in Dumps :
       Len(history) * Half <= SumModulus /\ Len(history) <= Precision
  /\ Factors \subseteq Nat
  /\ \A factor \in Factors, value \in 0 .. Half :
       value * value < Half => (24 * factor + 8) * value < Half

VARIABLES pc,
          dump,           \* The history the prediction has read
          result,         \* Its curves
          prediction,     \* The copy of them in the decision input
          output,         \* The curve of the model
          h, a, l, m,     \* Points of high, average, low and of the output
          last_update,
          score,
          rows            \* What csv_log_models has written

vars == <<pc, dump, result, prediction, output, h, a, l, m, last_update, score, rows>>

cursors == <<h, a, l, m>>

sums == <<last_update, score>>

Styles == {"normal", "inverted"}

Results == [low : Curve, average : Curve, high : Curve, style : Styles]

Rows == [time : Nat, low : Values, average : Values, high : Values, model : Values]

Empty ==
  [low |-> graph_create, average |-> graph_create, high |-> graph_create,
   style |-> "normal"]

Init ==
  /\ pc = "predict"
  /\ dump = << >>
  /\ result = Empty /\ prediction = Empty
  /\ output = graph_create
  /\ h = NULL /\ a = NULL /\ l = NULL /\ m = NULL
  /\ last_update = 0 /\ score = 0
  /\ rows = << >>

(***************************************************************************)
(* The predictions.                                                        *)
(***************************************************************************)
Flat(value, length) ==
  graph_add_point(graph_add_point(graph_create, 0, value), length, value)

FlatResult(low, average, high, length, style) ==
  [low |-> Flat(low, length), average |-> Flat(average, length),
   high |-> Flat(high, length), style |-> style]

Predict(curves, history) ==
  /\ pc = "predict"
  /\ result' = curves
  /\ dump' = history
  /\ pc' = "model"
  /\ UNCHANGED <<prediction, output, cursors, sums, rows>>

prediction_simple_exec ==
  \E history \in Dumps, length \in Lengths :
    LET last == history[Len(history)] IN
    Predict(FlatResult(last, last, last, length, "normal"), history)

\* Mutant: the first sample is left out.
Sum_FromSecond(history) ==
  FoldLeft(LAMBDA sum, value : (sum + value) % SumModulus, 0, Tail(history))

Sum(history) == FoldLeft(LAMBDA sum, value : (sum + value) % SumModulus, 0, history)

SumOfSquares(history) ==
  FoldLeft(LAMBDA sum, value : (sum + Signed(value * value)) % SumModulus, 0, history)

\* A sum is rounded when it is converted, and again when it is divided.
Mean(sum, n) == Round(Round(sum * One, 1), n)

avr(history) == Mean(Sum(history), Len(history))

avr_sq(history) == Mean(SumOfSquares(history), Len(history))

\* The product of two floats.
avr_avr(history) == Round(avr(history) * avr(history), One)

\* The root of a negative number is not a number.
IsNaN(history) == avr_sq(history) < avr_avr(history)

std(history) == RoundRoot(Round(avr_sq(history) - avr_avr(history), 1) * One)

Margin(history, factor) == Round(factor * std(history), 1)

\* The conversion to sample_value_t of what is out of its range or not a number,
\* on the processors at hand.
ToValue(x) == IF x \in Values THEN x ELSE -Half

p_average(history) == ToValue(avr(history) \div One)

p_high(history, factor) ==
  IF IsNaN(history) THEN -Half
  ELSE ToValue(Round(avr(history) + Margin(history, factor), 1) \div One)

\* The conversion rounds towards 0.
p_low(history, factor) ==
  LET margin == Margin(history, factor) IN
  IF IsNaN(history) THEN -Half
  ELSE IF avr(history) >= margin
  THEN ToValue(Round(avr(history) - margin, 1) \div One)
  ELSE ToValue(-(Round(margin - avr(history), 1) \div One))

prediction_average_exec ==
  \E history \in Dumps, length \in Lengths, factor \in Factors :
    Predict(FlatResult(p_low(history, factor), p_average(history),
                       p_high(history, factor), length, "normal"), history)

prediction_constraint_exec ==
  \E c \in Constraints, length \in Lengths, style \in Styles :
    Predict(FlatResult(c.low, c.average, c.high, length, style), << >>)

UserPrediction ==
  \E curves \in UserCurves, style \in Styles :
    Predict([low |-> curves.low, average |-> curves.average, high |-> curves.high,
             style |-> style], << >>)

(***************************************************************************)
(* The models.                                                             *)
(***************************************************************************)
prediction_metric_result_copy(pmr) ==
  [low     |-> graph_copy(pmr.low),
   average |-> graph_copy(pmr.average),
   high    |-> graph_copy(pmr.high),
   style   |-> pmr.style]

\* The products of an integer with 0.8 and 1.2, rounded towards 0.
Tenths(value, n) ==
  IF value >= 0 THEN (value * n) \div 10 ELSE -((-value * n) \div 10)

\* Three points for each of high, the last two with the same value.
DummyPoint(s, k) ==
  Point(s.time + k * Delay, ToValue(Tenths(s.value, IF k = 0 THEN 8 ELSE 12)))

model_dummy_exec(high) ==
  [i \in 1 .. 3 * Len(high) |-> DummyPoint(high[((i - 1) \div 3) + 1], (i - 1) % 3)]

ModelExec ==
  /\ pc = "model"
  /\ prediction' = prediction_metric_result_copy(result)
  /\ output' \in UserOutputs \cup {model_dummy_exec(result.high)}
  /\ dump' = << >>
  /\ result' = Empty
  /\ pc' = "start"
  /\ UNCHANGED <<cursors, sums, rows>>

(***************************************************************************)
(* score_simple_calc.                                                      *)
(***************************************************************************)
Time(g, point) == g[point].time

Value(g, point) == g[point].value

FourCurves == {prediction.low, prediction.average, prediction.high, output}

\* Otherwise an assertion fails, or NULL is dereferenced.
StartAtZero == \A g \in FourCurves : g # << >> /\ g[1].time = 0

StartScore ==
  /\ pc = "start"
  /\ h' = graph_read_first(prediction.high)
  /\ a' = graph_read_first(prediction.average)
  /\ l' = graph_read_first(prediction.low)
  /\ m' = graph_read_first(output)
  /\ pc' = IF StartAtZero THEN "score" ELSE "aborted"
  /\ UNCHANGED <<dump, result, prediction, output, sums, rows>>

nh == graph_read_next(prediction.high, h)
na == graph_read_next(prediction.average, a)
nl == graph_read_next(prediction.low, l)
nm == graph_read_next(output, m)

AllGoOn == nh # NULL /\ na # NULL /\ nl # NULL /\ nm # NULL

\* Mutant: the curve of the model is forgotten.
min_time_WithoutModel ==
  Min({Time(prediction.high, nh), Time(prediction.average, na), Time(prediction.low, nl)})

min_time ==
  Min({Time(prediction.high, nh), Time(prediction.average, na),
       Time(prediction.low, nl), Time(output, nm)})

\* Mutant: a segment counts from the beginning of the curves.
len_FromStart == min_time

len == min_time - last_update

\* Half of a score, for the part that x is of y.
HalfScore(x, y) ==
  IF y > 0 THEN (x * (Unit \div 2)) \div y ELSE ((-x) * (Unit \div 2)) \div (-y)

\* The differences are of 32 bits, and wrap in the builds at hand.
NormalScore(high, average, low, out) ==
  IF out >= high THEN Unit
  ELSE IF out >= average
  THEN Unit \div 2 + HalfScore(Signed(out - average), Signed(high - average))
  ELSE IF out <= low THEN 0
  ELSE HalfScore(Signed(out - low), Signed(average - low))

StyledScore(x, style) == IF style = "inverted" THEN Unit - x ELSE x

score_seg ==
  StyledScore(NormalScore(Value(prediction.high, h), Value(prediction.average, a),
                          Value(prediction.low, l), Value(output, m)),
              prediction.style)

\* Mutant: the cursor is left behind.
Moved_Never(g, point, next) == point

Moved(g, point, next) == IF Time(g, next) = min_time THEN next ELSE point

ScoreSegment ==
  /\ pc = "score"
  /\ AllGoOn
  /\ min_time > last_update
  /\ score' = score + score_seg * len
  /\ h' = Moved(prediction.high, h, nh)
  /\ a' = Moved(prediction.average, a, na)
  /\ l' = Moved(prediction.low, l, nl)
  /\ m' = Moved(output, m, nm)
  /\ last_update' = min_time
  /\ UNCHANGED <<pc, dump, result, prediction, output, rows>>

\* The assertions: the segments advance, and the mean is a number and not above
\* 1.0.
MeanIsGood == last_update > 0 /\ score <= Unit * last_update

Abort ==
  /\ pc = "score"
  /\ IF AllGoOn THEN min_time <= last_update ELSE ~MeanIsGood
  /\ pc' = "aborted"
  /\ UNCHANGED <<dump, result, prediction, output, cursors, sums, rows>>

EndScore ==
  /\ pc = "score"
  /\ ~AllGoOn
  /\ MeanIsGood
  /\ pc' = "scored"
  /\ UNCHANGED <<dump, result, prediction, output, cursors, sums, rows>>

(***************************************************************************)
(* csv_log_models, if there is a format, also for a metric that is not     *)
(* scored.  Its assertions want all curves to start at 0 and those of a    *)
(* prediction to step at the same times.                                   *)
(***************************************************************************)
StartLog ==
  /\ pc \in {"start", "scored"}
  /\ h' = graph_read_first(prediction.high)
  /\ a' = graph_read_first(prediction.average)
  /\ l' = graph_read_first(prediction.low)
  /\ m' = graph_read_first(output)
  /\ last_update' = 0 /\ score' = 0
  /\ pc' = IF StartAtZero THEN "log" ELSE "mismatch"
  /\ UNCHANGED <<dump, result, prediction, output, rows>>

Row ==
  [time    |-> Max({Time(prediction.low, l), Time(output, m)}),
   low     |-> Value(prediction.low, l),
   average |-> Value(prediction.average, a),
   high    |-> Value(prediction.high, h),
   model   |-> Value(output, m)]

PredictionSteps ==
  nl # NULL /\ (nm = NULL \/ Time(prediction.low, nl) <= Time(output, nm))

\* Mutant: the output waits while the prediction steps.
ModelSteps_Later ==
  nm # NULL /\ (nl = NULL \/ Time(prediction.low, nl) > Time(output, nm))

ModelSteps ==
  nm # NULL /\ (nl = NULL \/ Time(prediction.low, nl) >= Time(output, nm))

\* The three curves go on together; a curve that has ended is dereferenced.
SameStep ==
  /\ na # NULL /\ nh # NULL
  /\ Time(prediction.low, nl) = Time(prediction.average, na)
  /\ Time(prediction.average, na) = Time(prediction.high, nh)

LogEnds == nl = NULL /\ nm = NULL

PcAfterRow ==
  IF PredictionSteps /\ ~SameStep THEN "mismatch"
  ELSE IF LogEnds THEN "logged"
  ELSE "log"

LogRow ==
  /\ pc = "log"
  /\ rows' = Append(rows, Row)
  /\ IF PredictionSteps
     THEN l' = nl /\ a' = na /\ h' = nh
     ELSE UNCHANGED <<l, a, h>>
  /\ m' = IF ModelSteps THEN nm ELSE m
  /\ pc' = PcAfterRow
  /\ UNCHANGED <<dump, result, prediction, output, sums>>

\* decision_input_delete frees the curves; without a format there is no log.
Delete ==
  /\ pc \in {"start", "scored", "logged"}
  /\ pc' = "predict"
  /\ prediction' = Empty
  /\ output' = graph_create
  /\ h' = NULL /\ a' = NULL /\ l' = NULL /\ m' = NULL
  /\ last_update' = 0 /\ score' = 0
  /\ rows' = << >>
  /\ UNCHANGED <<dump, result>>

Next ==
  \/ prediction_simple_exec \/ prediction_average_exec
  \/ prediction_constraint_exec \/ UserPrediction
  \/ ModelExec
  \/ StartScore \/ ScoreSegment \/ Abort \/ EndScore
  \/ StartLog \/ LogRow
  \/ Delete

Spec == Init /\ [][Next]_vars
--------------------------------------------------------------------------------
(***************************************************************************)
(* Properties.                                                             *)
(***************************************************************************)
TypeOK ==
  /\ pc \in {"predict", "model", "start", "score", "scored", "log", "logged", "aborted",
            "mismatch"}
  /\ dump \in Seq(Values)
  /\ result \in Results /\ prediction \in Results
  /\ output \in Curve
  /\ h \in 0 .. Len(prediction.high) /\ a \in 0 .. Len(prediction.average)
  /\ l \in 0 .. Len(prediction.low) /\ m \in 0 .. Len(output)
  /\ last_update \in Nat /\ score \in Int
  /\ rows \in Seq(Rows)

\* No difference between low and average, or average and high, overflows.
Narrow ==
  \A i \in DOMAIN prediction.high, j \in DOMAIN prediction.average,
     k \in DOMAIN prediction.low :
    /\ prediction.high[i].value - prediction.average[j].value < Half
    /\ prediction.average[j].value - prediction.low[k].value < Half

\* The assertion of score_simple_calc: a score is at most 1.0, and it is not
\* negative either, in whatever order low, average and high are, as long as
\* they are less than 2^31 apart.
ScoreInRange == Narrow => 0 <= score /\ score <= Unit * last_update

SegmentAt(t) ==
  StyledScore(NormalScore(At(prediction.high, t), At(prediction.average, t),
                          At(prediction.low, t), At(output, t)), prediction.style)

Ends ==
  Min({LastTime(prediction.high), LastTime(prediction.average),
       LastTime(prediction.low), LastTime(output)})

\* The four cursors walk the curves so that the score is the mean of the score
\* at every moment, up to the moment where the first of the curves ends.
ScoreIsMean ==
  pc = "scored" /\ (\A g \in FourCurves : OrderedUpTo(g, Ends)) =>
    /\ last_update = Ends
    /\ score = SumFunction([t \in 0 .. last_update - 1 |-> SegmentAt(t)])

TimesOf(g) == [i \in 1..Len(g) |-> g[i].time]

SameTimes ==
  TimesOf(prediction.low) = TimesOf(prediction.average)
    /\ TimesOf(prediction.low) = TimesOf(prediction.high)

\* score_simple_calc aborts the program for a curve that starts late, ends at 0,
\* as one of a single point does, or goes back in time before the others end,
\* for predictions that are 2^31 or more apart, and for no other; csv_log_models
\* only for curves that start late or that step apart.
OnlyBadCurvesAbort ==
  /\ pc = "aborted" =>
       \/ ~StartAtZero
       \/ \E g \in FourCurves : LastTime(g) = 0 \/ ~OrderedUpTo(g, Ends)
       \/ ~Narrow
  /\ pc = "mismatch" => ~StartAtZero \/ ~SameTimes

\* The file of a model has one row for each moment at which the prediction or
\* the output steps, with the values that they have at that moment.
RowsFollowCurves ==
  pc = "logged" /\ SameTimes /\ Ordered(output) /\ Ordered(prediction.low) =>
    /\ {rows[k].time : k \in 1..Len(rows)}
         = ToSet(TimesOf(prediction.low)) \cup ToSet(TimesOf(output))
    /\ \A k \in 1 .. Len(rows) - 1 : rows[k].time < rows[k + 1].time
    /\ \A k \in 1 .. Len(rows) :
         rows[k] = [time    |-> rows[k].time,
                    low     |-> At(prediction.low, rows[k].time),
                    average |-> At(prediction.average, rows[k].time),
                    high    |-> At(prediction.high, rows[k].time),
                    model   |-> At(output, rows[k].time)]

Fits(history) ==
  \A i \in 1..Len(history) : history[i] >= 0 /\ history[i] * history[i] < Half

\* What prediction_simple_exec and prediction_average_exec say of a metric none
\* of whose samples is negative or has a square that overflows.  average lies
\* between the samples if a float can hold their sum, and low and high lie
\* around it, unless the rounding has made a variance of about 0 negative: then
\* both are the least value.  For samples so small that a float can hold six
\* times the sum of their squares it never does that, and samples that are all
\* the same are predicted to stay so.
AverageInside ==
  pc = "model" /\ dump # << >> /\ Fits(dump) =>
    \A t \in DOMAIN result.low :
      LET low  == result.low[t].value
          mean == result.average[t].value
          high == result.high[t].value
          isAround == low <= mean /\ mean <= high
      IN /\ isAround \/ (low = -Half /\ high = -Half)
         /\ Sum(dump) <= Precision =>
              Min(ToSet(dump)) <= mean /\ mean <= Max(ToSet(dump))
         /\ 6 * SumOfSquares(dump) <= Precision =>
              isAround /\ (Cardinality(ToSet(dump)) = 1 => low = high)

\* graph_integral is the surface under the curve, except for an interval that
\* ends between two points of which the first is inside it: of that point the
\* surface counts from the start of the interval, and not from its own time.
IntegralExact ==
  pc = "start" /\ Ordered(output) =>
    \A first \in {1, 2}, start, end \in Moments :
      LET g == SubSeq(output, first, Len(output)) IN
      start <= end
        => graph_integral(g, start, end) = Area(g, start, end) + Excess(g, start, end)
================================================================================

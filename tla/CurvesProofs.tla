----------------------------- MODULE CurvesProofs -----------------------------
(***************************************************************************)
(* Theorems about Curves, for every set of curves, length of the           *)
(* predictions, range of sample_value_t and precision of the floats.  The  *)
(* quotients of the code and the rounding are not linear, so that each     *)
(* bound on them is a lemma of its own.                                    *)
(***************************************************************************)
EXTENDS Curves, FiniteSetTheorems, SequenceTheorems, TLAPS

Points == [time : Nat, value : Values]

(***************************************************************************)
(* Integers.                                                               *)
(***************************************************************************)
LEMMA HalfOfModulus == Half \in Nat /\ 2 * Half = ValueModulus
  BY ValueAssumption DEF Half

LEMMA ModulusBounds ==
  ASSUME NEW x \in Int PROVE x % ValueModulus \in 0 .. ValueModulus - 1
  BY ValueAssumption

\* A conversion to sample_value_t gives one.
LEMMA SignedIsValue == ASSUME NEW x \in Int PROVE Signed(x) \in Values
<1> DEFINE r == (x + Half) % ValueModulus
<1>1. r \in 0 .. ValueModulus - 1
  BY HalfOfModulus, ModulusBounds
<1> QED
  BY <1>1, HalfOfModulus DEF Signed, Values

LEMMA SignedSmall == ASSUME NEW x \in 0 .. Half - 1 PROVE Signed(x) = x
<1>1. Half \in Nat /\ x + Half \in 0 .. ValueModulus - 1 /\ ValueModulus \in Nat \ {0}
  BY HalfOfModulus, ValueAssumption
<1>2. (x + Half) % ValueModulus = x + Half
  BY <1>1
<1> QED
  BY <1>1, <1>2 DEF Signed

\* A difference of two values that are not the same does not wrap to 0.
LEMMA SignedNotZero ==
  ASSUME NEW x \in 1 .. ValueModulus - 1 PROVE Signed(x) \in Int /\ Signed(x) # 0
<1>1. Half \in Nat /\ ValueModulus \in Nat \ {0} /\ 2 * Half = ValueModulus
  BY HalfOfModulus, ValueAssumption
<1>2. CASE x + Half < ValueModulus
  <2>1. (x + Half) % ValueModulus = x + Half
    BY <1>1, <1>2
  <2> QED
    BY <1>1, <2>1 DEF Signed
<1>3. CASE x + Half >= ValueModulus
  <2>1. (x + Half) % ValueModulus = x + Half - ValueModulus
    BY <1>1, <1>3
  <2> QED
    BY <1>1, <2>1 DEF Signed
<1> QED
  BY <1>1, <1>2, <1>3

LEMMA ValuesAreInt == Values \subseteq Int /\ 0 \in Values
  BY HalfOfModulus, ValueAssumption DEF Values

LEMMA ToValueIsValue == ASSUME NEW x PROVE ToValue(x) \in Values
  BY HalfOfModulus, ValueAssumption DEF ToValue, Values

\* A part of a whole, rounded down, is between nothing and the whole.
LEMMA PartOfWhole ==
  ASSUME NEW x \in Nat, NEW y \in Nat \ {0}, x <= y, NEW u \in Nat
  PROVE  (x * u) \div y \in 0 .. u
<1> DEFINE q == (x * u) \div y
<1>1. x * u \in Nat /\ x * u <= y * u
  OBVIOUS
<1>2. q \in Int /\ y * q <= x * u /\ x * u < y * (q + 1)
  BY <1>1
<1>3. q >= 0
  BY <1>1, <1>2
<1>4. y * q <= y * u
  BY <1>1, <1>2
<1>5. q <= u
  BY <1>2, <1>4
<1> QED
  BY <1>2, <1>3, <1>5

(***************************************************************************)
(* Curves and their points.                                                *)
(***************************************************************************)
LEMMA CurveOfPoints == Curve = Seq(Points)
  BY DEF Curve, Points

LEMMA CopyIsCurve == ASSUME NEW g \in Curve PROVE graph_copy(g) \in Curve
<1>1. Len(g) \in Nat /\ \A i \in 1 .. Len(g) : g[i] \in Points
  BY CurveOfPoints
<1>2. \A i \in 1 .. Len(g) : Point(g[i].time, g[i].value) \in Points
  BY <1>1 DEF Point, Points
<1> QED
  BY <1>1, <1>2, CurveOfPoints DEF graph_copy

LEMMA FlatIsCurve ==
  ASSUME NEW value \in Values, NEW length \in Nat
  PROVE  Flat(value, length) \in Curve
  BY CurveOfPoints DEF Flat, graph_add_point, graph_create, Point, Points

LEMMA FlatResultIsResult ==
  ASSUME NEW low \in Values, NEW average \in Values, NEW high \in Values,
         NEW length \in Lengths, NEW style \in Styles
  PROVE  FlatResult(low, average, high, length, style) \in Results
  BY FlatIsCurve, CurvesAssumption DEF FlatResult, Results

LEMMA NextInside ==
  ASSUME NEW g \in Curve, NEW point \in 0 .. Len(g)
  PROVE  /\ graph_read_next(g, point) \in 0 .. Len(g)
         /\ graph_read_next(g, point) # NULL
              => point \in 1 .. Len(g) /\ graph_read_next(g, point) \in 1 .. Len(g)
  BY CurveOfPoints DEF graph_read_next, NULL

LEMMA FirstInside ==
  ASSUME NEW g \in Curve PROVE graph_read_first(g) \in 0 .. Len(g)
  BY CurveOfPoints DEF graph_read_first, NULL

LEMMA PointInside ==
  ASSUME NEW g \in Curve, NEW point \in 1 .. Len(g)
  PROVE  /\ Time(g, point) \in Nat /\ Value(g, point) \in Int
         /\ Value(g, point) \in Values
<1>1. g[point] \in Points
  BY CurveOfPoints
<1>2. g[point].time \in Nat /\ g[point].value \in Values
  BY <1>1 DEF Points
<1> QED
  BY <1>2, ValuesAreInt DEF Time, Value

(***************************************************************************)
(* The output of model_dummy_exec.                                         *)
(***************************************************************************)
LEMMA DummyPointIsPoint ==
  ASSUME NEW s \in Points, NEW k \in Nat PROVE DummyPoint(s, k) \in Points
<1>1. s.value \in Int /\ s.time \in Nat
  BY ValuesAreInt DEF Points
<1>2. ToValue(Tenths(s.value, IF k = 0 THEN 8 ELSE 12)) \in Values
  BY ToValueIsValue
<1>3. s.time + k * Delay \in Nat
  BY <1>1, CurvesAssumption
<1> QED
  BY <1>2, <1>3 DEF DummyPoint, Point, Points

LEMMA DummyIsCurve == ASSUME NEW g \in Curve PROVE model_dummy_exec(g) \in Curve
<1>1. Len(g) \in Nat /\ g \in [1 .. Len(g) -> Points]
  BY CurveOfPoints
<1>2. ASSUME NEW i \in 1 .. 3 * Len(g)
      PROVE  DummyPoint(g[((i - 1) \div 3) + 1], (i - 1) % 3) \in Points
  <2>1. ((i - 1) \div 3) + 1 \in 1 .. Len(g) /\ (i - 1) % 3 \in Nat
    BY <1>1
  <2> QED
    BY <1>1, <2>1, DummyPointIsPoint
<1>3. 3 * Len(g) \in Nat
  BY <1>1
<1> QED
  BY <1>2, <1>3, CurveOfPoints DEF model_dummy_exec

(***************************************************************************)
(* The score of a segment.                                                 *)
(***************************************************************************)
LEMMA HalfScoreBounds ==
  ASSUME NEW x \in Nat, NEW y \in Nat \ {0}, x <= y
  PROVE  HalfScore(x, y) \in 0 .. Unit \div 2
  BY PartOfWhole, UnitAssumption DEF HalfScore

LEMMA HalfScoreIsInt ==
  ASSUME NEW x \in Int, NEW y \in Int, y # 0 PROVE HalfScore(x, y) \in Int
<1>1. Unit \div 2 \in Nat
  BY UnitAssumption
<1>2. x * (Unit \div 2) \in Int /\ (-x) * (Unit \div 2) \in Int
  BY <1>1
<1> QED
  BY <1>1, <1>2 DEF HalfScore

LEMMA NormalScoreIsInt ==
  ASSUME NEW high \in Values, NEW average \in Values, NEW low \in Values, NEW out \in Values
  PROVE  NormalScore(high, average, low, out) \in Int
<1>1. Unit \in Nat /\ Unit \div 2 \in Nat
  BY UnitAssumption
<1>2. /\ high \in Int /\ average \in Int /\ low \in Int /\ out \in Int
      /\ high - average < ValueModulus /\ average - low < ValueModulus
  BY HalfOfModulus DEF Values
<1>3. ASSUME average <= out, out < high
      PROVE  HalfScore(Signed(out - average), Signed(high - average)) \in Int
  <2>1. high - average \in 1 .. ValueModulus - 1 /\ out - average \in Int
    BY <1>2, <1>3, ValueAssumption
  <2>2. Signed(high - average) \in Int /\ Signed(high - average) # 0
    BY <2>1, SignedNotZero
  <2>3. Signed(out - average) \in Values
    BY <2>1, SignedIsValue
  <2> QED
    BY <2>2, <2>3, ValuesAreInt, HalfScoreIsInt
<1>4. ASSUME low < out, out < average
      PROVE  HalfScore(Signed(out - low), Signed(average - low)) \in Int
  <2>1. average - low \in 1 .. ValueModulus - 1 /\ out - low \in Int
    BY <1>2, <1>4, ValueAssumption
  <2>2. Signed(average - low) \in Int /\ Signed(average - low) # 0
    BY <2>1, SignedNotZero
  <2>3. Signed(out - low) \in Values
    BY <2>1, SignedIsValue
  <2> QED
    BY <2>2, <2>3, ValuesAreInt, HalfScoreIsInt
<1> QED
  BY <1>1, <1>2, <1>3, <1>4 DEF NormalScore

\* Whatever the order of low, average and high, a segment scores between 0
\* and 1.0, unless a difference of them overflows.
LEMMA NormalScoreBounds ==
  ASSUME NEW high \in Int, NEW average \in Int, NEW low \in Int, NEW out \in Int,
         high - average < Half, average - low < Half
  PROVE  NormalScore(high, average, low, out) \in 0 .. Unit
<1>1. Unit \in Nat /\ Unit \div 2 \in Nat /\ 2 * (Unit \div 2) <= Unit /\ Half \in Nat
  BY UnitAssumption, HalfOfModulus
<1>2. CASE out >= high
  BY <1>1, <1>2 DEF NormalScore
<1>3. CASE ~(out >= high) /\ out >= average
  <2>1. out - average \in 0 .. Half - 1 /\ high - average \in 0 .. Half - 1
    BY <1>1, <1>3
  <2>2. Signed(out - average) = out - average /\ Signed(high - average) = high - average
    BY <2>1, SignedSmall
  <2>3. HalfScore(out - average, high - average) \in 0 .. Unit \div 2
    BY <1>3, HalfScoreBounds
  <2> QED
    BY <1>1, <1>3, <2>2, <2>3 DEF NormalScore
<1>4. CASE ~(out >= high) /\ ~(out >= average) /\ out <= low
  BY <1>1, <1>4 DEF NormalScore
<1>5. CASE ~(out >= high) /\ ~(out >= average) /\ ~(out <= low)
  <2>1. out - low \in 0 .. Half - 1 /\ average - low \in 0 .. Half - 1
    BY <1>1, <1>5
  <2>2. Signed(out - low) = out - low /\ Signed(average - low) = average - low
    BY <2>1, SignedSmall
  <2>3. HalfScore(out - low, average - low) \in 0 .. Unit \div 2
    BY <1>5, HalfScoreBounds
  <2> QED
    BY <1>1, <1>5, <2>2, <2>3 DEF NormalScore
<1> QED
  BY <1>2, <1>3, <1>4, <1>5

LEMMA StyledScoreBounds ==
  ASSUME NEW x \in 0 .. Unit, NEW style
  PROVE  StyledScore(x, style) \in 0 .. Unit
  BY UnitAssumption DEF StyledScore

LEMMA StyledScoreIsInt ==
  ASSUME NEW x \in Int, NEW style PROVE StyledScore(x, style) \in Int
  BY UnitAssumption DEF StyledScore

\* While all curves go on, the next step of one of them is a time, and the
\* score of the segment before it is between 0 and 1.0, unless a difference of
\* the values of the prediction overflows.
LEMMA SegmentBounds ==
  ASSUME TypeOK, AllGoOn
  PROVE  min_time \in Nat /\ score_seg \in Int /\ (Narrow => score_seg \in 0 .. Unit)
<1>1. /\ prediction.high \in Curve /\ prediction.average \in Curve
      /\ prediction.low \in Curve /\ output \in Curve
  BY DEF TypeOK, Results
<1>2. /\ h \in 1 .. Len(prediction.high) /\ nh \in 1 .. Len(prediction.high)
      /\ a \in 1 .. Len(prediction.average) /\ na \in 1 .. Len(prediction.average)
      /\ l \in 1 .. Len(prediction.low) /\ nl \in 1 .. Len(prediction.low)
      /\ m \in 1 .. Len(output) /\ nm \in 1 .. Len(output)
  BY <1>1, NextInside DEF TypeOK, AllGoOn, nh, na, nl, nm
<1>3. min_time \in Nat
  <2> DEFINE th == Time(prediction.high, nh)
             ta == Time(prediction.average, na)
             tl == Time(prediction.low, nl)
             tm == Time(output, nm)
  <2>1. th \in Nat /\ ta \in Nat /\ tl \in Nat /\ tm \in Nat
    BY <1>1, <1>2, PointInside
  <2> HIDE DEF th, ta, tl, tm
  <2>2. \E x \in {th, ta, tl, tm} : \A y \in {th, ta, tl, tm} : x <= y
    BY <2>1
  <2>3. Min({th, ta, tl, tm}) \in {th, ta, tl, tm}
    BY <2>2 DEF Min
  <2> QED
    BY <2>1, <2>3 DEF min_time, th, ta, tl, tm
<1>4. /\ Value(prediction.high, h) \in Values /\ Value(prediction.average, a) \in Values
      /\ Value(prediction.low, l) \in Values /\ Value(output, m) \in Values
  BY <1>1, <1>2, PointInside
<1>5. score_seg \in Int
  BY <1>4, NormalScoreIsInt, StyledScoreIsInt DEF score_seg
<1>6. ASSUME Narrow PROVE score_seg \in 0 .. Unit
  <2>1. /\ DOMAIN prediction.high = 1 .. Len(prediction.high)
        /\ DOMAIN prediction.average = 1 .. Len(prediction.average)
        /\ DOMAIN prediction.low = 1 .. Len(prediction.low)
    BY <1>1, CurveOfPoints
  <2>2. /\ Value(prediction.high, h) - Value(prediction.average, a) < Half
        /\ Value(prediction.average, a) - Value(prediction.low, l) < Half
    BY <1>2, <1>6, <2>1, Zenon DEF Narrow, Value
  <2>3. /\ Value(prediction.high, h) \in Int /\ Value(prediction.average, a) \in Int
        /\ Value(prediction.low, l) \in Int /\ Value(output, m) \in Int
    BY <1>4, ValuesAreInt
  <2> QED
    BY <2>2, <2>3, NormalScoreBounds, StyledScoreBounds DEF score_seg
<1> QED
  BY <1>3, <1>5, <1>6

(***************************************************************************)
(* The steps.                                                              *)
(***************************************************************************)
LEMMA NothingIsCurve == graph_create \in Curve /\ Empty \in Results
  BY DEF graph_create, Curve, Empty, Results, Styles

LEMMA ResultCurves ==
  ASSUME NEW r \in Results
  PROVE  r.low \in Curve /\ r.average \in Curve /\ r.high \in Curve /\ r.style \in Styles
  BY DEF Results

LEMMA CopyIsResult ==
  ASSUME NEW r \in Results PROVE prediction_metric_result_copy(r) \in Results
  BY ResultCurves, CopyIsCurve DEF prediction_metric_result_copy, Results

LEMMA LastOfDump ==
  ASSUME NEW d \in Dumps PROVE d \in Seq(Values) /\ d[Len(d)] \in Values
<1>1. d \in Seq(Values) /\ d # << >>
  BY CurvesAssumption
<1>2. Len(d) \in 1 .. Len(d)
  BY <1>1
<1> QED
  BY <1>1, <1>2

\* Any prediction leaves curves, and nothing else changes.
LEMMA PredictionsGiveResults ==
  ASSUME prediction_simple_exec \/ prediction_average_exec
           \/ prediction_constraint_exec \/ UserPrediction
  PROVE  \E curves \in Results, history \in Seq(Values) : Predict(curves, history)
<1>1. CASE prediction_simple_exec
  <2>1. PICK history \in Dumps, length \in Lengths :
          LET last == history[Len(history)] IN
          Predict(FlatResult(last, last, last, length, "normal"), history)
    BY <1>1 DEF prediction_simple_exec
  <2>2. FlatResult(history[Len(history)], history[Len(history)],
                   history[Len(history)], length, "normal") \in Results
    BY LastOfDump, FlatResultIsResult DEF Styles
  <2> QED
    BY <2>1, <2>2, LastOfDump
<1>2. CASE prediction_average_exec
  <2>1. PICK history \in Dumps, length \in Lengths, factor \in Factors :
          Predict(FlatResult(p_low(history, factor), p_average(history),
                             p_high(history, factor), length, "normal"), history)
    BY <1>2 DEF prediction_average_exec
  <2>2. -Half \in Values
    BY HalfOfModulus, ValueAssumption DEF Values
  <2>3. p_low(history, factor) \in Values
    BY <2>2, ToValueIsValue DEF p_low
  <2>4. p_average(history) \in Values
    BY ToValueIsValue DEF p_average
  <2>5. p_high(history, factor) \in Values
    BY <2>2, ToValueIsValue DEF p_high
  <2>6. FlatResult(p_low(history, factor), p_average(history),
                   p_high(history, factor), length, "normal") \in Results
    BY <2>3, <2>4, <2>5, FlatResultIsResult DEF Styles
  <2> QED
    BY <2>1, <2>6, LastOfDump
<1>3. CASE prediction_constraint_exec
  <2>1. PICK c \in Constraints, length \in Lengths, style \in Styles :
          Predict(FlatResult(c.low, c.average, c.high, length, style), << >>)
    BY <1>3 DEF prediction_constraint_exec
  <2>2. c \in [low : Values, average : Values, high : Values]
    BY CurvesAssumption
  <2>4. c.low \in Values /\ c.average \in Values /\ c.high \in Values
    BY <2>2
  <2>3. FlatResult(c.low, c.average, c.high, length, style) \in Results
    BY <2>4, FlatResultIsResult
  <2>5. << >> \in Seq(Values)
    OBVIOUS
  <2> QED
    BY <2>1, <2>3, <2>5
<1>4. CASE UserPrediction
  <2>1. PICK c \in UserCurves, style \in Styles :
          Predict([low |-> c.low, average |-> c.average, high |-> c.high,
                   style |-> style], << >>)
    BY <1>4 DEF UserPrediction
  <2>2. c \in [low : Curve, average : Curve, high : Curve]
    BY CurvesAssumption
  <2>3. [low |-> c.low, average |-> c.average, high |-> c.high, style |-> style]
          \in Results
    <3> HIDE DEF Curve
    <3> QED
      BY <2>2 DEF Results
  <2>5. << >> \in Seq(Values)
    OBVIOUS
  <2> QED
    BY <2>1, <2>3, <2>5
<1> QED
  BY <1>1, <1>2, <1>3, <1>4

\* Before a score begins the cursors are nowhere, and no moment has been scored.
AtRest ==
  pc \in {"predict", "model", "start"} =>
    /\ h = NULL /\ a = NULL /\ l = NULL /\ m = NULL
    /\ last_update = 0 /\ score = 0

\* The log reads points.
OnPoints == pc = "log" => h # NULL /\ a # NULL /\ l # NULL /\ m # NULL

IInv == TypeOK /\ ScoreInRange /\ AtRest /\ OnPoints

LEMMA RowIsRow ==
  ASSUME TypeOK, h # NULL, a # NULL, l # NULL, m # NULL PROVE Row \in Rows
<1>1. /\ prediction.high \in Curve /\ prediction.average \in Curve
      /\ prediction.low \in Curve /\ output \in Curve
  BY ResultCurves DEF TypeOK
<1>2. /\ h \in 1 .. Len(prediction.high) /\ a \in 1 .. Len(prediction.average)
      /\ l \in 1 .. Len(prediction.low) /\ m \in 1 .. Len(output)
  BY DEF TypeOK, NULL
<1> DEFINE x == Time(prediction.low, l)
           y == Time(output, m)
<1>3. /\ x \in Nat /\ y \in Nat
      /\ Value(prediction.low, l) \in Values /\ Value(prediction.average, a) \in Values
      /\ Value(prediction.high, h) \in Values /\ Value(output, m) \in Values
  BY <1>1, <1>2, PointInside
<1>4. Max({x, y}) \in Nat
  <2> HIDE DEF x, y
  <2>1. \E u \in {x, y} : \A v \in {x, y} : u >= v
    BY <1>3
  <2> QED
    BY <1>3, <2>1 DEF Max
<1> QED
  BY <1>3, <1>4 DEF Row, Rows

LEMMA InvInit == Init => IInv
  BY NothingIsCurve, UnitAssumption
     DEF Init, IInv, TypeOK, ScoreInRange, Narrow, AtRest, OnPoints, graph_create, NULL

\* The prediction and the output do not change.
LEMMA NarrowStays == ASSUME prediction' = prediction PROVE Narrow' <=> Narrow
  BY DEF Narrow

\* A segment adds at most its length.
LEMMA ScoreSegmentKeeps == IInv /\ ScoreSegment => IInv'
<1> SUFFICES ASSUME IInv, ScoreSegment PROVE IInv'
  OBVIOUS
<1>1. TypeOK /\ AllGoOn /\ min_time > last_update
  BY DEF IInv, ScoreSegment
<1>2. min_time \in Nat /\ score_seg \in Int /\ (Narrow => score_seg \in 0 .. Unit)
  BY <1>1, SegmentBounds
<1>3. last_update \in Nat /\ score \in Int
  BY DEF IInv, TypeOK
<1>4. len \in Nat /\ min_time = last_update + len
  BY <1>1, <1>2, <1>3 DEF len
<1>5. last_update' = min_time /\ score' = score + score_seg * len /\ prediction' = prediction
  BY DEF ScoreSegment
<1>6. last_update' \in Nat /\ score' \in Int
  <2> HIDE DEF len, score_seg, min_time
  <2> QED
    BY <1>2, <1>3, <1>4, <1>5
<1>7. ScoreInRange'
  <2> SUFFICES ASSUME Narrow PROVE 0 <= score' /\ score' <= Unit * last_update'
    BY <1>5, NarrowStays DEF ScoreInRange
  <2>1. 0 <= score /\ score <= Unit * last_update /\ score_seg \in 0 .. Unit
    BY <1>2 DEF IInv, ScoreInRange
  <2> HIDE DEF len, score_seg, min_time, Narrow
  <2>2. score_seg * len \in Nat /\ score_seg * len <= Unit * len
    BY <1>4, <2>1, UnitAssumption
  <2>3. Unit * last_update + Unit * len = Unit * min_time
    BY <1>3, <1>4, UnitAssumption
  <2>4. Unit * last_update \in Int /\ Unit * len \in Int /\ Unit * min_time \in Int
    BY <1>2, <1>3, <1>4, UnitAssumption
  <2>5. 0 <= score + score_seg * len
           /\ score + score_seg * len <= Unit * last_update + Unit * len
    BY <1>3, <2>1, <2>2, <2>4
  <2> QED
    BY <1>5, <2>3, <2>5
<1>8. /\ h' \in 0 .. Len(prediction.high) /\ a' \in 0 .. Len(prediction.average)
      /\ l' \in 0 .. Len(prediction.low) /\ m' \in 0 .. Len(output)
  BY <1>1, NextInside, ResultCurves DEF TypeOK, ScoreSegment, Moved, nh, na, nl, nm
<1> QED
  BY <1>1, <1>6, <1>7, <1>8 DEF IInv, TypeOK, AtRest, OnPoints, ScoreSegment

LEMMA InvStep == IInv /\ [Next]_vars => IInv'
<1> SUFFICES ASSUME IInv, [Next]_vars PROVE IInv'
  OBVIOUS
<1> USE DEF IInv
<1>0. (prediction' = prediction /\ UNCHANGED sums) => ScoreInRange'
  <2> SUFFICES ASSUME prediction' = prediction, UNCHANGED sums PROVE ScoreInRange'
    OBVIOUS
  <2>1. (Narrow' <=> Narrow) /\ last_update' = last_update /\ score' = score
    BY NarrowStays DEF sums
  <2> QED
    BY <2>1 DEF ScoreInRange
<1>11. (last_update' = 0 /\ score' = 0) => ScoreInRange'
  BY UnitAssumption DEF ScoreInRange
<1>1. CASE prediction_simple_exec \/ prediction_average_exec
             \/ prediction_constraint_exec \/ UserPrediction
  <2>1. PICK curves \in Results, history \in Seq(Values) : Predict(curves, history)
    BY <1>1, PredictionsGiveResults
  <2> QED
    BY <1>0, <2>1 DEF Predict, TypeOK, AtRest, OnPoints, cursors, sums
<1>2. CASE ModelExec
  <2>1. prediction' \in Results
    BY <1>2, CopyIsResult DEF ModelExec, TypeOK
  <2>2. model_dummy_exec(result.high) \in Curve /\ UserOutputs \subseteq Curve
    BY CurvesAssumption, ResultCurves, DummyIsCurve DEF TypeOK
  <2>3. output' \in Curve
    BY <1>2, <2>2 DEF ModelExec
  <2>4. /\ NULL \in 0 .. Len(prediction'.high) /\ NULL \in 0 .. Len(prediction'.average)
        /\ NULL \in 0 .. Len(prediction'.low) /\ NULL \in 0 .. Len(output')
    BY <2>1, <2>3, ResultCurves, CurveOfPoints DEF NULL
  <2>5. result' \in Results /\ dump' \in Seq(Values)
    BY <1>2, NothingIsCurve DEF ModelExec
  <2> QED
    BY <1>2, <1>11, <2>1, <2>3, <2>4, <2>5
       DEF ModelExec, TypeOK, AtRest, OnPoints, cursors, sums
<1>3. CASE StartScore
  <2>1. /\ h' \in 0 .. Len(prediction.high) /\ a' \in 0 .. Len(prediction.average)
        /\ l' \in 0 .. Len(prediction.low) /\ m' \in 0 .. Len(output)
    BY <1>3, FirstInside, ResultCurves DEF StartScore, TypeOK
  <2> QED
    BY <1>0, <1>3, <2>1 DEF StartScore, StartAtZero, TypeOK, AtRest, OnPoints, sums
<1>4. CASE ScoreSegment
  BY <1>4, ScoreSegmentKeeps
<1>5. CASE Abort
  BY <1>0, <1>5 DEF Abort, TypeOK, AtRest, OnPoints, cursors, sums
<1>6. CASE EndScore
  BY <1>0, <1>6 DEF EndScore, TypeOK, AtRest, OnPoints, cursors, sums
<1>7. CASE StartLog
  <2>1. OnPoints'
    BY <1>7 DEF StartLog, StartAtZero, OnPoints, FourCurves, graph_read_first, NULL
  <2> QED
    <3>1. ScoreInRange' /\ AtRest'
      BY <1>7, <1>11 DEF StartLog, AtRest
    <3>2. /\ h' \in 0 .. Len(prediction.high) /\ a' \in 0 .. Len(prediction.average)
          /\ l' \in 0 .. Len(prediction.low) /\ m' \in 0 .. Len(output)
      BY <1>7, FirstInside, ResultCurves DEF StartLog, TypeOK
    <3>3. pc' \in {"log", "mismatch"}
      BY <1>7 DEF StartLog
    <3>4. TypeOK'
      BY <1>7, <3>2, <3>3 DEF StartLog, TypeOK
    <3> QED
      BY <2>1, <3>1, <3>4
<1>8. CASE LogRow
  <2>1. rows' \in Seq(Rows)
    BY <1>8, RowIsRow DEF LogRow, TypeOK, OnPoints
  <2>2. OnPoints'
    BY <1>8 DEF LogRow, PcAfterRow, OnPoints, SameStep, PredictionSteps, ModelSteps
  <2> QED
    BY <1>0, <1>8, <2>1, <2>2, NextInside, ResultCurves
       DEF LogRow, PcAfterRow, TypeOK, AtRest, sums, nh, na, nl, nm
<1>9. CASE Delete
  BY <1>9, <1>11, NothingIsCurve
     DEF Delete, TypeOK, AtRest, OnPoints, Empty, graph_create, NULL
<1>10. CASE UNCHANGED vars
  BY <1>0, <1>10 DEF vars, TypeOK, AtRest, OnPoints, sums
<1> QED
  BY <1>1, <1>2, <1>3, <1>4, <1>5, <1>6, <1>7, <1>8, <1>9, <1>10 DEF Next

\* The cursors stay on the curves, and everything drawn is a curve of values.
THEOREM TypeCorrect == Spec => []TypeOK
<1>1. IInv => TypeOK
  BY DEF IInv
<1> QED
  BY <1>1, InvInit, InvStep, PTL DEF Spec

\* A score is between 0 and 1.0, as the assertion of score_simple_calc says,
\* in whatever order and wherever the curves of the prediction and the model
\* are, as long as no difference between the values of the prediction overflows
\* the 32 bits in which it is computed.
THEOREM ScoresAreBounded == Spec => []ScoreInRange
<1>1. IInv => ScoreInRange
  BY DEF IInv
<1> QED
  BY <1>1, InvInit, InvStep, PTL DEF Spec

(***************************************************************************)
(* Sums over the moments of an interval.                                   *)
(***************************************************************************)
Sums == INSTANCE FoldTheorems
  WITH Op <- +, Base <- 0, Pick <- LAMBDA s : CHOOSE x \in s : TRUE, D <- Int

LEMMA SumIs ==
  ASSUME NEW f, NEW S, IsFiniteSet(S), \A x \in S : f[x] \in Int
  PROVE  /\ SumFunctionOnSet(f, S) \in Int
         /\ S = {} => SumFunctionOnSet(f, S) = 0
         /\ \A x \in S : SumFunctionOnSet(f, S) = f[x] + SumFunctionOnSet(f, S \ {x})
<1>1. \A T : SumFunctionOnSet(f, T) = Sums!FoldOn(f, T)
  BY DEF SumFunctionOnSet, FoldFunctionOnSet, Sums!FoldOn, MapThenFoldSet, Sums!MapThenFoldSet
<1>2. Sums!Picks(S) /\ Sums!Commutes
  BY DEF Sums!Picks, Sums!Commutes
<1>3. Sums!IsFiniteSet(S)
  BY DEF IsFiniteSet, Sums!IsFiniteSet
<1>4. S = {} => Sums!FoldOn(f, S) = 0
  BY Sums!FoldEmpty
<1>5. /\ Sums!FoldOn(f, S) \in Int
      /\ \A x \in S : Sums!FoldOn(f, S) = f[x] + Sums!FoldOn(f, S \ {x})
  BY <1>2, <1>3, Sums!FoldAny
<1> QED
  BY <1>1, <1>4, <1>5

LEMMA SumSame ==
  ASSUME NEW f, NEW g, NEW S, IsFiniteSet(S), \A x \in S : f[x] = g[x]
  PROVE  SumFunctionOnSet(f, S) = SumFunctionOnSet(g, S)
<1>1. \A k : SumFunctionOnSet(k, S) = Sums!FoldOn(k, S)
  BY DEF SumFunctionOnSet, FoldFunctionOnSet, Sums!FoldOn, MapThenFoldSet, Sums!MapThenFoldSet
<1>2. Sums!Picks(S) /\ Sums!IsFiniteSet(S)
  BY DEF Sums!Picks, IsFiniteSet, Sums!IsFiniteSet
<1>3. Sums!FoldOn(f, S) = Sums!FoldOn(g, S)
  BY <1>2, Sums!FoldSame
<1> QED
  BY <1>1, <1>3

\* The sum of f from one moment to another.
During(f, from, to) == SumFunctionOnSet(f, from .. to - 1)

LEMMA DuringIsInt ==
  ASSUME NEW from \in Nat, NEW to \in Nat, NEW f, \A t \in from .. to - 1 : f[t] \in Int
  PROVE  During(f, from, to) \in Int
<1>1. IsFiniteSet(from .. to - 1)
  BY FS_Interval
<1> QED
  BY <1>1, SumIs DEF During

LEMMA DuringNothing ==
  ASSUME NEW from \in Nat, NEW f PROVE During(f, from, from) = 0
<1>1. from .. from - 1 = {} /\ IsFiniteSet({})
  BY FS_EmptySet
<1>2. SumFunctionOnSet(f, {}) = 0
  BY <1>1, SumIs
<1> QED
  BY <1>1, <1>2 DEF During

LEMMA DuringOneMore ==
  ASSUME NEW from \in Nat, NEW to \in Nat, from <= to, NEW f,
         \A t \in from .. to : f[t] \in Int
  PROVE  During(f, from, to + 1) = During(f, from, to) + f[to]
<1> DEFINE S == from .. to
<1>1. S = from .. (to + 1) - 1 /\ S \ {to} = from .. to - 1 /\ to \in S /\ f[to] \in Int
  OBVIOUS
<1>2. IsFiniteSet(S) /\ IsFiniteSet(from .. to - 1)
  BY FS_Interval
<1>3. SumFunctionOnSet(f, S) = f[to] + SumFunctionOnSet(f, S \ {to})
  BY <1>1, <1>2, SumIs
<1>4. SumFunctionOnSet(f, from .. to - 1) \in Int
  BY <1>1, <1>2, SumIs
<1>5. During(f, from, to + 1) = SumFunctionOnSet(f, S)
  BY <1>1 DEF During
<1>6. During(f, from, to) = SumFunctionOnSet(f, S \ {to})
  BY <1>1 DEF During
<1> HIDE DEF S
<1>7. SumFunctionOnSet(f, S \ {to}) \in Int
  BY <1>1, <1>4
<1> QED
  BY <1>1, <1>3, <1>5, <1>6, <1>7

\* A segment with one value adds its length times that value.
LEMMA DuringSegment ==
  ASSUME NEW from \in Nat, NEW mid \in Nat, NEW to \in Nat, from <= mid, mid <= to,
         NEW f, NEW v \in Int, \A t \in from .. mid - 1 : f[t] \in Int,
         \A t \in mid .. to - 1 : f[t] = v
  PROVE  During(f, from, to) = During(f, from, mid) + (to - mid) * v
<1> DEFINE Is(n) == During(f, from, n) = During(f, from, mid) + (n - mid) * v
           Q == {n \in mid .. to : Is(n)}
<1>1. \A t \in from .. to - 1 : f[t] \in Int
  <2> SUFFICES ASSUME NEW t \in from .. to - 1 PROVE f[t] \in Int
    OBVIOUS
  <2> QED
    BY t \in from .. mid - 1 \/ t \in mid .. to - 1
<1>2. During(f, from, mid) \in Int
  BY DuringIsInt
<1>3. mid \in Q
  BY <1>2
<1>4. ASSUME NEW n \in mid .. to, n # mid, n - 1 \in Q PROVE n \in Q
  <2>1. n - 1 \in Nat /\ from <= n - 1 /\ n - 1 \in mid .. to - 1 /\ (n - 1) + 1 = n
    BY <1>4
  <2>2. During(f, from, n) = During(f, from, n - 1) + f[n - 1]
    BY <1>1, <2>1, DuringOneMore
  <2>3. f[n - 1] = v
    BY <2>1
  <2>4. During(f, from, n - 1) = During(f, from, mid) + ((n - 1) - mid) * v
    BY <1>4
  <2>5. ((n - 1) - mid) * v + v = (n - mid) * v /\ ((n - 1) - mid) * v \in Int
    BY <2>1
  <2>6. During(f, from, n) = During(f, from, mid) + (n - mid) * v
    BY <1>2, <2>2, <2>3, <2>4, <2>5
  <2> QED
    BY <2>6
<1> HIDE DEF Q
<1>5. \A n \in mid .. to : n \in Q
  BY <1>3, <1>4, Sums!Induction
<1>6. to \in Q
  BY <1>5
<1> QED
  BY <1>6 DEF Q

\* What is asked of f, for a prover to find it in one piece.
Whole(f, from, to) == \A t \in from .. to - 1 : f[t] \in Int

Level(f, from, to, v) == \A t \in from .. to - 1 : f[t] = v

LEMMA DuringLevel ==
  ASSUME NEW from \in Nat, NEW mid \in Nat, NEW to \in Nat, from <= mid, mid <= to,
         NEW f, NEW v \in Int, Whole(f, from, mid), Level(f, mid, to, v)
  PROVE  During(f, from, to) = During(f, from, mid) + (to - mid) * v
  BY DuringSegment DEF Whole, Level

LEMMA SumOfMoments ==
  ASSUME NEW from \in Nat, NEW to \in Nat, NEW f, NEW g,
         g = [t \in from .. to - 1 |-> f[t]]
  PROVE  SumFunction(g) = During(f, from, to)
<1>1. IsFiniteSet(from .. to - 1)
  BY FS_Interval
<1>2. SumFunctionOnSet(g, from .. to - 1) = SumFunctionOnSet(f, from .. to - 1)
  BY <1>1, SumSame
<1> QED
  BY <1>2 DEF SumFunction, During

(***************************************************************************)
(* The function a curve stands for, and a cursor on the curve.             *)
(***************************************************************************)
LEMMA PointsOf ==
  ASSUME NEW g \in Curve
  PROVE  /\ Len(g) \in Nat
         /\ \A i \in 1 .. Len(g) : g[i] \in Points /\ g[i].time \in Nat /\ g[i].value \in Int
<1>1. Len(g) \in Nat /\ \A i \in 1 .. Len(g) : g[i] \in Points
  BY CurveOfPoints
<1>2. \A p \in Points : p.time \in Nat /\ p.value \in Int
  BY ValuesAreInt DEF Points
<1> QED
  BY <1>1, <1>2

\* The cursor is at the last point that is not after the moment t.
Cursor(g, c, t) ==
  /\ c \in 1 .. Len(g)
  /\ g[c].time <= t
  /\ \A i \in 1 .. Len(g) : c < i => t < g[i].time

LEMMA ValueAtCursor ==
  ASSUME NEW g \in Curve, NEW c, NEW t \in Nat, Cursor(g, c, t)
  PROVE  At(g, t) = g[c].value
<1> DEFINE before == {i \in 1 .. Len(g) : g[i].time <= t}
<1>1. Len(g) \in Nat /\ \A i \in 1 .. Len(g) : g[i].time \in Nat
  BY PointsOf
<1>2. c \in before /\ \A i \in before : i \in Int /\ i <= c
  BY <1>1 DEF Cursor
<1>3. Max(before) = c
  <2> HIDE DEF before
  <2>1. \A x \in before : (\A y \in before : x >= y) => x = c
    BY <1>2
  <2>2. c \in before /\ \A y \in before : c >= y
    BY <1>2
  <2> QED
    BY <2>1, <2>2 DEF Max
<1> QED
  BY <1>2, <1>3 DEF At

LEMMA ValueBeforeAll ==
  ASSUME NEW g \in Curve, NEW t \in Nat, \A i \in 1 .. Len(g) : t < g[i].time
  PROVE  At(g, t) = 0
<1>1. \A i \in 1 .. Len(g) : ~(g[i].time <= t)
  BY PointsOf
<1> QED
  BY <1>1 DEF At

LEMMA CursorStarts ==
  ASSUME NEW g \in Curve, g # << >>, g[1].time = 0, NEW end \in Nat, OrderedUpTo(g, end)
  PROVE  Cursor(g, 1, 0)
<1>1. Len(g) \in Nat /\ Len(g) # 0 /\ \A i \in 1 .. Len(g) : g[i].time \in Nat
  BY PointsOf, CurveOfPoints
<1>2. ASSUME NEW i \in 1 .. Len(g), 1 < i PROVE 0 < g[i].time
  BY <1>1, <1>2 DEF OrderedUpTo
<1> QED
  BY <1>1, <1>2 DEF Cursor

\* What the score does with each cursor when a segment ends.
LEMMA CursorMoves ==
  ASSUME NEW g \in Curve, NEW c, NEW t \in Nat, NEW end \in Nat, NEW next \in Nat,
         OrderedUpTo(g, end), Cursor(g, c, t), c # Len(g),
         t < next, next <= end, next <= g[c + 1].time
  PROVE  /\ Cursor(g, IF g[c + 1].time = next THEN c + 1 ELSE c, next)
         /\ \A u \in t .. next - 1 : At(g, u) = g[c].value
<1>1. Len(g) \in Nat /\ \A i \in 1 .. Len(g) : g[i].time \in Nat
  BY PointsOf
<1>2. c \in 1 .. Len(g) /\ c + 1 \in 1 .. Len(g) /\ g[c].time <= t
  BY <1>1 DEF Cursor
<1>3. ASSUME NEW i \in 1 .. Len(g), c + 1 < i PROVE next < g[i].time
  <2>1. g[i].time <= end => g[c + 1].time < g[i].time
    BY <1>2, <1>3 DEF OrderedUpTo
  <2> QED
    BY <1>1, <1>2, <2>1
<1>4. Cursor(g, IF g[c + 1].time = next THEN c + 1 ELSE c, next)
  <2>1. CASE g[c + 1].time = next
    BY <1>1, <1>2, <1>3, <2>1 DEF Cursor
  <2>2. CASE g[c + 1].time # next
    <3>1. \A i \in 1 .. Len(g) : c < i => next < g[i].time
      <4> SUFFICES ASSUME NEW i \in 1 .. Len(g), c < i PROVE next < g[i].time
        OBVIOUS
      <4>1. i = c + 1 \/ c + 1 < i
        BY <1>1, <1>2
      <4> QED
        BY <1>1, <1>2, <1>3, <2>2, <4>1
    <3>2. g[c].time <= next
      BY <1>1, <1>2
    <3> QED
      BY <1>2, <2>2, <3>1, <3>2 DEF Cursor
  <2> QED
    BY <2>1, <2>2
<1>5. ASSUME NEW u \in t .. next - 1 PROVE At(g, u) = g[c].value
  <2>1. u \in Nat /\ g[c].time <= u
    BY <1>1, <1>2
  <2>2. ASSUME NEW i \in 1 .. Len(g), c < i PROVE u < g[i].time
    BY <1>1, <1>2, <1>3, <2>2
  <2>3. Cursor(g, c, u)
    BY <1>2, <2>1, <2>2 DEF Cursor
  <2> QED
    BY <2>1, <2>3, ValueAtCursor
<1> QED
  BY <1>4, <1>5

LEMMA NextIsLater ==
  ASSUME NEW g \in Curve, NEW c, NEW t \in Nat, Cursor(g, c, t), graph_read_next(g, c) # NULL
  PROVE  t < Time(g, graph_read_next(g, c))
<1>1. c \in 1 .. Len(g) /\ c # Len(g) /\ graph_read_next(g, c) = c + 1 /\ Len(g) \in Nat
  BY PointsOf DEF Cursor, graph_read_next, NULL
<1>2. c + 1 \in 1 .. Len(g) /\ c < c + 1
  BY <1>1
<1> QED
  BY <1>1, <1>2 DEF Cursor, Time

LEMMA NextMoves ==
  ASSUME NEW g \in Curve, NEW c, NEW t \in Nat, NEW end \in Nat, NEW next \in Nat,
         OrderedUpTo(g, end), Cursor(g, c, t), graph_read_next(g, c) # NULL,
         t < next, next <= end, next <= Time(g, graph_read_next(g, c))
  PROVE  /\ Cursor(g, IF Time(g, graph_read_next(g, c)) = next
                      THEN graph_read_next(g, c) ELSE c, next)
         /\ \A u \in t .. next - 1 : At(g, u) = Value(g, c)
<1>1. c \in 1 .. Len(g) /\ c # Len(g) /\ graph_read_next(g, c) = c + 1
  BY PointsOf DEF Cursor, graph_read_next, NULL
<1>2. next <= g[c + 1].time
  BY <1>1 DEF Time
<1>3. /\ Cursor(g, IF g[c + 1].time = next THEN c + 1 ELSE c, next)
      /\ \A u \in t .. next - 1 : At(g, u) = g[c].value
  BY <1>1, <1>2, CursorMoves
<1> QED
  BY <1>1, <1>3 DEF Time, Value

LEMMA CursorAtEnd ==
  ASSUME NEW g \in Curve, NEW c, NEW t \in Nat, Cursor(g, c, t), graph_read_next(g, c) = NULL
  PROVE  c = Len(g) /\ LastTime(g) <= t /\ LastTime(g) \in Nat
<1>1. c \in 1 .. Len(g) /\ Len(g) \in Nat /\ g[c].time \in Nat
  BY PointsOf DEF Cursor
<1>2. c = Len(g)
  BY <1>1 DEF graph_read_next, NULL
<1> QED
  BY <1>1, <1>2 DEF Cursor, LastTime

LEMMA NextBeforeEnd ==
  ASSUME NEW g \in Curve, NEW c \in 1 .. Len(g), c # Len(g), OrderedUpTo(g, LastTime(g))
  PROVE  g[c + 1].time <= LastTime(g)
<1>1. Len(g) \in Nat /\ \A i \in 1 .. Len(g) : g[i].time \in Nat
  BY PointsOf
<1>2. c + 1 \in 1 .. Len(g) /\ Len(g) \in 1 .. Len(g) /\ (c + 1 = Len(g) \/ c + 1 < Len(g))
  BY <1>1
<1>3. c + 1 < Len(g) => g[c + 1].time < g[Len(g)].time
  BY <1>1, <1>2 DEF OrderedUpTo, LastTime
<1> QED
  BY <1>1, <1>2, <1>3 DEF LastTime

LEMMA LeastOfFour ==
  ASSUME NEW w \in Nat, NEW x \in Nat, NEW y \in Nat, NEW z \in Nat
  PROVE  /\ Min({w, x, y, z}) \in {w, x, y, z}
         /\ \A v \in {w, x, y, z} : Min({w, x, y, z}) <= v
<1>1. \E u \in {w, x, y, z} : \A v \in {w, x, y, z} : u <= v
  OBVIOUS
<1> QED
  BY <1>1 DEF Min

(***************************************************************************)
(* The score is the mean over the moments that have been walked.           *)
(***************************************************************************)
OrderedWhileScored == \A g \in FourCurves : OrderedUpTo(g, Ends)

CursorsAt(t) ==
  /\ Cursor(prediction.high, h, t)
  /\ Cursor(prediction.average, a, t)
  /\ Cursor(prediction.low, l, t)
  /\ Cursor(output, m, t)

MomentScores == [t \in Nat |-> SegmentAt(t)]

LEMMA TheFourCurves ==
  ASSUME TypeOK
  PROVE  /\ prediction.high \in Curve /\ prediction.average \in Curve
         /\ prediction.low \in Curve /\ output \in Curve
         /\ FourCurves = {prediction.low, prediction.average, prediction.high, output}
  BY ResultCurves DEF TypeOK, FourCurves

LEMMA EndsIsFirstEnd ==
  ASSUME TypeOK, StartAtZero
  PROVE  /\ Ends \in Nat
         /\ \E g \in FourCurves : LastTime(g) = Ends
         /\ \A g \in FourCurves : Ends <= LastTime(g)
<1>1. ASSUME NEW g \in FourCurves PROVE LastTime(g) \in Nat
  <2>1. g \in Curve /\ g # << >>
    BY TheFourCurves DEF StartAtZero
  <2>2. Len(g) \in 1 .. Len(g)
    BY <2>1, CurveOfPoints
  <2> QED
    BY <2>1, <2>2, PointsOf DEF LastTime
<1> DEFINE w == LastTime(prediction.high)
           x == LastTime(prediction.average)
           y == LastTime(prediction.low)
           z == LastTime(output)
<1>2. w \in Nat /\ x \in Nat /\ y \in Nat /\ z \in Nat
  BY <1>1, TheFourCurves
<1>3. /\ \A g \in FourCurves : LastTime(g) \in {w, x, y, z}
      /\ \A v \in {w, x, y, z} : \E g \in FourCurves : v = LastTime(g)
  BY TheFourCurves
<1> HIDE DEF w, x, y, z
<1>4. Min({w, x, y, z}) \in {w, x, y, z} /\ \A v \in {w, x, y, z} : Min({w, x, y, z}) <= v
  BY <1>2, LeastOfFour
<1>5. Ends = Min({w, x, y, z})
  BY DEF Ends, w, x, y, z
<1> QED
  BY <1>2, <1>3, <1>4, <1>5

\* The next points of the four curves, and the first of their times.
LEMMA NextPoints ==
  ASSUME TypeOK, AllGoOn
  PROVE  /\ nh = h + 1 /\ h \in 1 .. Len(prediction.high) /\ h # Len(prediction.high)
         /\ na = a + 1 /\ a \in 1 .. Len(prediction.average) /\ a # Len(prediction.average)
         /\ nl = l + 1 /\ l \in 1 .. Len(prediction.low) /\ l # Len(prediction.low)
         /\ nm = m + 1 /\ m \in 1 .. Len(output) /\ m # Len(output)
  BY TheFourCurves, NextInside
     DEF TypeOK, AllGoOn, nh, na, nl, nm, graph_read_next, NULL

LEMMA MinTimeIsNext ==
  ASSUME TypeOK, AllGoOn
  PROVE  /\ min_time \in Nat
         /\ min_time \in {Time(prediction.high, nh), Time(prediction.average, na),
                          Time(prediction.low, nl), Time(output, nm)}
         /\ min_time <= Time(prediction.high, nh) /\ min_time <= Time(prediction.average, na)
         /\ min_time <= Time(prediction.low, nl) /\ min_time <= Time(output, nm)
         /\ Time(prediction.high, nh) \in Nat /\ Time(prediction.average, na) \in Nat
         /\ Time(prediction.low, nl) \in Nat /\ Time(output, nm) \in Nat
<1> DEFINE w == Time(prediction.high, nh)
           x == Time(prediction.average, na)
           y == Time(prediction.low, nl)
           z == Time(output, nm)
<1>1. /\ nh \in 1 .. Len(prediction.high) /\ na \in 1 .. Len(prediction.average)
      /\ nl \in 1 .. Len(prediction.low) /\ nm \in 1 .. Len(output)
  BY NextInside, TheFourCurves DEF TypeOK, AllGoOn, nh, na, nl, nm
<1>2. w \in Nat /\ x \in Nat /\ y \in Nat /\ z \in Nat
  BY <1>1, PointInside, TheFourCurves
<1>3. min_time = Min({w, x, y, z})
  BY DEF min_time
<1> HIDE DEF w, x, y, z
<1>4. Min({w, x, y, z}) \in {w, x, y, z} /\ \A v \in {w, x, y, z} : Min({w, x, y, z}) <= v
  BY <1>2, LeastOfFour
<1>5. /\ min_time \in Nat /\ min_time \in {w, x, y, z}
      /\ min_time <= w /\ min_time <= x /\ min_time <= y /\ min_time <= z
  BY <1>2, <1>3, <1>4
<1> QED
  BY <1>2, <1>5 DEF w, x, y, z

\* Each curve has its next point after last_update, and the first of these is
\* not after the end of the score.
LEMMA SegmentAdvances ==
  ASSUME TypeOK, AllGoOn, StartAtZero, OrderedWhileScored, CursorsAt(last_update)
  PROVE  last_update < min_time /\ min_time <= Ends
<1>1. /\ last_update < Time(prediction.high, nh) /\ last_update < Time(prediction.average, na)
      /\ last_update < Time(prediction.low, nl) /\ last_update < Time(output, nm)
  BY TheFourCurves, NextIsLater DEF CursorsAt, AllGoOn, nh, na, nl, nm, TypeOK
<1>2. last_update < min_time
  BY <1>1, MinTimeIsNext
<1>3. PICK g \in FourCurves : LastTime(g) = Ends
  BY EndsIsFirstEnd
<1>4. OrderedUpTo(g, LastTime(g)) /\ g \in Curve
  BY <1>3, TheFourCurves DEF OrderedWhileScored
<1>5. \E c \in 1 .. Len(g) : c # Len(g) /\ min_time <= g[c + 1].time
  <2> HIDE DEF min_time
  <2>1. /\ min_time <= prediction.high[h + 1].time /\ min_time <= prediction.average[a + 1].time
        /\ min_time <= prediction.low[l + 1].time /\ min_time <= output[m + 1].time
    BY NextPoints, MinTimeIsNext DEF Time
  <2>2. CASE g = prediction.high
    BY <2>1, <2>2, NextPoints
  <2>3. CASE g = prediction.average
    BY <2>1, <2>3, NextPoints
  <2>4. CASE g = prediction.low
    BY <2>1, <2>4, NextPoints
  <2>5. CASE g = output
    BY <2>1, <2>5, NextPoints
  <2> QED
    BY <2>2, <2>3, <2>4, <2>5, TheFourCurves
<1>6. \E c \in 1 .. Len(g) : c # Len(g) /\ min_time <= g[c + 1].time /\ g[c + 1].time <= Ends /\ g[c + 1].time \in Nat
  <2>1. PICK c \in 1 .. Len(g) : c # Len(g) /\ min_time <= g[c + 1].time
    BY <1>5
  <2>2. g[c + 1].time <= LastTime(g)
    BY <1>4, <2>1, NextBeforeEnd
  <2>3. g[c + 1].time \in Nat
    BY <1>4, <2>1, PointsOf
  <2> QED
    BY <1>3, <2>1, <2>2, <2>3
<1>7. min_time <= Ends
  BY <1>6, MinTimeIsNext, EndsIsFirstEnd
<1> QED
  BY <1>2, <1>7

LEMMA SegmentWalks ==
  ASSUME TypeOK, AllGoOn, StartAtZero, OrderedWhileScored, CursorsAt(last_update)
  PROVE  /\ Cursor(prediction.high, Moved(prediction.high, h, nh), min_time)
         /\ Cursor(prediction.average, Moved(prediction.average, a, na), min_time)
         /\ Cursor(prediction.low, Moved(prediction.low, l, nl), min_time)
         /\ Cursor(output, Moved(output, m, nm), min_time)
         /\ \A u \in last_update .. min_time - 1 : MomentScores[u] = score_seg
<1>1. /\ Ends \in Nat /\ last_update \in Nat /\ min_time \in Nat
      /\ last_update < min_time /\ min_time <= Ends
  BY EndsIsFirstEnd, SegmentAdvances, MinTimeIsNext DEF TypeOK
<1>2. /\ OrderedUpTo(prediction.high, Ends) /\ OrderedUpTo(prediction.average, Ends)
      /\ OrderedUpTo(prediction.low, Ends) /\ OrderedUpTo(output, Ends)
  BY TheFourCurves DEF OrderedWhileScored
<1>3. /\ Cursor(prediction.high, Moved(prediction.high, h, nh), min_time)
      /\ \A u \in last_update .. min_time - 1 : At(prediction.high, u) = Value(prediction.high, h)
  <2>1. /\ Cursor(prediction.high, h, last_update) /\ min_time <= Time(prediction.high, nh)
        /\ nh = graph_read_next(prediction.high, h) /\ nh # NULL
    BY MinTimeIsNext DEF CursorsAt, AllGoOn, nh
  <2> HIDE DEF min_time, nh
  <2> QED
    BY <1>1, <1>2, <2>1, TheFourCurves, NextMoves DEF Moved
<1>4. /\ Cursor(prediction.average, Moved(prediction.average, a, na), min_time)
      /\ \A u \in last_update .. min_time - 1 :
           At(prediction.average, u) = Value(prediction.average, a)
  <2>1. /\ Cursor(prediction.average, a, last_update) /\ min_time <= Time(prediction.average, na)
        /\ na = graph_read_next(prediction.average, a) /\ na # NULL
    BY MinTimeIsNext DEF CursorsAt, AllGoOn, na
  <2> HIDE DEF min_time, na
  <2> QED
    BY <1>1, <1>2, <2>1, TheFourCurves, NextMoves DEF Moved
<1>5. /\ Cursor(prediction.low, Moved(prediction.low, l, nl), min_time)
      /\ \A u \in last_update .. min_time - 1 : At(prediction.low, u) = Value(prediction.low, l)
  <2>1. /\ Cursor(prediction.low, l, last_update) /\ min_time <= Time(prediction.low, nl)
        /\ nl = graph_read_next(prediction.low, l) /\ nl # NULL
    BY MinTimeIsNext DEF CursorsAt, AllGoOn, nl
  <2> HIDE DEF min_time, nl
  <2> QED
    BY <1>1, <1>2, <2>1, TheFourCurves, NextMoves DEF Moved
<1>6. /\ Cursor(output, Moved(output, m, nm), min_time)
      /\ \A u \in last_update .. min_time - 1 : At(output, u) = Value(output, m)
  <2>1. /\ Cursor(output, m, last_update) /\ min_time <= Time(output, nm)
        /\ nm = graph_read_next(output, m) /\ nm # NULL
    BY MinTimeIsNext DEF CursorsAt, AllGoOn, nm
  <2> HIDE DEF min_time, nm
  <2> QED
    BY <1>1, <1>2, <2>1, TheFourCurves, NextMoves DEF Moved
<1>7. ASSUME NEW u \in last_update .. min_time - 1 PROVE MomentScores[u] = score_seg
  <2>1. u \in Nat
    BY <1>1
  <2>2. MomentScores[u] = SegmentAt(u)
    BY <2>1 DEF MomentScores
  <2> QED
    BY <1>3, <1>4, <1>5, <1>6, <2>2 DEF SegmentAt, score_seg
<1> QED
  BY <1>3, <1>4, <1>5, <1>6, <1>7

\* When one of the curves has no next point, the score has come to its end.
LEMMA WalkEnds ==
  ASSUME TypeOK, ~AllGoOn, StartAtZero, CursorsAt(last_update), last_update <= Ends
  PROVE  last_update = Ends
<1>1. \E g \in FourCurves : LastTime(g) <= last_update /\ LastTime(g) \in Nat
  <2>1. last_update \in Nat
    BY DEF TypeOK
  <2>2. CASE nh = NULL
    BY <2>1, <2>2, CursorAtEnd, TheFourCurves DEF nh, CursorsAt
  <2>3. CASE na = NULL
    BY <2>1, <2>3, CursorAtEnd, TheFourCurves DEF na, CursorsAt
  <2>4. CASE nl = NULL
    BY <2>1, <2>4, CursorAtEnd, TheFourCurves DEF nl, CursorsAt
  <2>5. CASE nm = NULL
    BY <2>1, <2>5, CursorAtEnd, TheFourCurves DEF nm, CursorsAt
  <2> QED
    BY <2>2, <2>3, <2>4, <2>5 DEF AllGoOn
<1> QED
  BY <1>1, EndsIsFirstEnd DEF TypeOK

LEMMA AtIsValue == ASSUME NEW g \in Curve, NEW t \in Nat PROVE At(g, t) \in Values
<1> DEFINE before == {i \in 1 .. Len(g) : g[i].time <= t}
<1>0. Len(g) \in Nat /\ \A i \in 1 .. Len(g) : g[i] \in Points
  BY CurveOfPoints
<1>1. Len(g) \in Nat /\ \A i \in 1 .. Len(g) : g[i].value \in Values
  BY <1>0 DEF Points
<1>2. before \in SUBSET Int /\ Sums!IsFiniteSet(before)
  <2>1. IsFiniteSet(1 .. Len(g))
    BY <1>1, FS_Interval
  <2>2. IsFiniteSet(before)
    BY <2>1, FS_Subset
  <2> QED
    BY <1>1, <2>2 DEF IsFiniteSet, Sums!IsFiniteSet
<1>3. CASE before = {}
  BY <1>3, ValuesAreInt DEF At
<1>4. CASE before # {}
  <2> HIDE DEF before
  <2>1. PICK x \in before : \A y \in before : y <= x
    BY <1>2, <1>4, Sums!GreatestAndLeast
  <2>2. \A y \in before : x >= y
    BY <1>2, <2>1
  <2>3. Max(before) \in before
    BY <2>2 DEF Max
  <2> QED
    BY <1>1, <1>4, <2>3 DEF At, before
<1> QED
  BY <1>3, <1>4

LEMMA AtIsInt == ASSUME NEW g \in Curve, NEW t \in Nat PROVE At(g, t) \in Int
  BY AtIsValue, ValuesAreInt

LEMMA MomentScoresAreInt == ASSUME TypeOK, NEW t \in Nat PROVE MomentScores[t] \in Int
<1>1. /\ At(prediction.high, t) \in Values /\ At(prediction.average, t) \in Values
      /\ At(prediction.low, t) \in Values /\ At(output, t) \in Values
  BY TheFourCurves, AtIsValue
<1>2. SegmentAt(t) \in Int
  BY <1>1, NormalScoreIsInt, StyledScoreIsInt DEF SegmentAt
<1> QED
  BY <1>2 DEF MomentScores

\* As long as the curves do not go back in time, the cursors are at the moment
\* that the score has reached; the three of the log stay together.
Walked ==
  /\ pc \in {"score", "log"} => StartAtZero
  /\ pc = "score" /\ OrderedWhileScored =>
       /\ last_update <= Ends
       /\ CursorsAt(last_update)
       /\ score = During(MomentScores, 0, last_update)
  /\ ScoreIsMean
  /\ OnlyBadCurvesAbort
  /\ pc = "log" /\ SameTimes => l = a /\ l = h

LEMMA SameCurves ==
  ASSUME UNCHANGED <<prediction, output>>
  PROVE  /\ StartAtZero' <=> StartAtZero
         /\ OrderedWhileScored' <=> OrderedWhileScored
         /\ Ends' = Ends
         /\ FourCurves' = FourCurves
         /\ MomentScores' = MomentScores
         /\ SameTimes' <=> SameTimes
         /\ Narrow' <=> Narrow
         /\ \A t : SegmentAt(t)' = SegmentAt(t)
<1>1. FourCurves' = FourCurves /\ Ends' = Ends
  BY DEF FourCurves, Ends
<1>2. \A t : SegmentAt(t)' = SegmentAt(t)
  BY DEF SegmentAt
<1>3. MomentScores' = MomentScores
  BY DEF MomentScores, SegmentAt
<1>4. /\ StartAtZero' <=> StartAtZero
      /\ OrderedWhileScored' <=> OrderedWhileScored
      /\ SameTimes' <=> SameTimes
  BY <1>1 DEF StartAtZero, OrderedWhileScored, SameTimes
<1> QED
  BY <1>1, <1>2, <1>3, <1>4, NarrowStays

LEMMA WalkedInit == Init => Walked
  BY DEF Init, Walked, ScoreIsMean, OnlyBadCurvesAbort

\* Abort finds a curve that is not as score_simple_calc expects it.
LEMMA AbortIsExplained ==
  ASSUME TypeOK, ScoreInRange, Walked, Abort
  PROVE  (\E g \in FourCurves : LastTime(g) = 0 \/ ~OrderedUpTo(g, Ends)) \/ ~Narrow
<1> SUFFICES ASSUME OrderedWhileScored, Narrow PROVE \E g \in FourCurves : LastTime(g) = 0
  BY DEF OrderedWhileScored
<1>1. StartAtZero /\ last_update <= Ends /\ CursorsAt(last_update)
  BY DEF Walked, Abort
<1>2. AllGoOn => last_update < min_time /\ min_time \in Nat
  BY <1>1, SegmentAdvances, MinTimeIsNext
<1>3. ~AllGoOn /\ last_update = 0
  <2>1. score <= Unit * last_update
    BY DEF ScoreInRange
  <2> QED
    BY <1>2, <2>1 DEF Abort, MeanIsGood, TypeOK
<1>4. Ends = 0
  BY <1>1, <1>3, WalkEnds
<1> QED
  BY <1>1, <1>4, EndsIsFirstEnd

LEMMA WalkedSegment == ASSUME TypeOK, Walked, ScoreSegment PROVE Walked'
<1>1. UNCHANGED <<prediction, output>> /\ pc = "score" /\ pc' = "score"
  BY DEF ScoreSegment
<1>2. StartAtZero'
  BY <1>1, SameCurves DEF Walked
<1>3. ASSUME OrderedWhileScored
      PROVE  /\ last_update' <= Ends'
             /\ CursorsAt(last_update)'
             /\ score' = During(MomentScores, 0, last_update)'
  <2>1. StartAtZero /\ last_update <= Ends /\ CursorsAt(last_update)
    BY <1>1, <1>3 DEF Walked
  <2>2. AllGoOn /\ last_update' = min_time /\ score' = score + score_seg * len
    BY DEF ScoreSegment
  <2>3. last_update < min_time /\ min_time <= Ends /\ min_time \in Nat
    BY <1>3, <2>1, <2>2, SegmentAdvances, MinTimeIsNext
  <2>4. CursorsAt(last_update)'
    BY <1>1, <1>3, <2>1, <2>2, SegmentWalks DEF ScoreSegment, CursorsAt, Cursor
  <2>5. During(MomentScores, 0, min_time)
          = During(MomentScores, 0, last_update) + (min_time - last_update) * score_seg
    <3>1. \A u \in last_update .. min_time - 1 : MomentScores[u] = score_seg
      BY <1>3, <2>1, <2>2, SegmentWalks
    <3>2. score_seg \in Int
      BY <2>2, SegmentBounds
    <3>3. last_update \in Nat /\ \A u \in 0 .. last_update - 1 : MomentScores[u] \in Int
      BY MomentScoresAreInt DEF TypeOK
    <3> HIDE DEF min_time, score_seg
    <3> QED
      BY <2>3, <3>1, <3>2, <3>3, DuringSegment
  <2>6. score' = During(MomentScores, 0, min_time)
    <3>1. (min_time - last_update) * score_seg = score_seg * len
      <4>1. score_seg \in Int /\ last_update \in Nat
        BY <2>2, SegmentBounds DEF TypeOK
      <4> HIDE DEF min_time, score_seg
      <4> QED
        BY <2>3, <4>1 DEF len
    <3>2. score = During(MomentScores, 0, last_update)
      BY <1>1, <1>3 DEF Walked
    <3> QED
      BY <2>2, <2>5, <3>1, <3>2
  <2>7. During(MomentScores, 0, last_update)' = During(MomentScores, 0, min_time)
    BY <1>1, <2>2, SameCurves DEF During, SumFunctionOnSet, FoldFunctionOnSet, MapThenFoldSet
  <2> QED
    BY <1>1, <2>2, <2>3, <2>4, <2>6, <2>7, SameCurves
<1>4. ScoreIsMean' /\ OnlyBadCurvesAbort'
  BY <1>1 DEF ScoreIsMean, OnlyBadCurvesAbort
<1> QED
  BY <1>1, <1>2, <1>3, <1>4, SameCurves DEF Walked

\* The score begins with all cursors at the first points, at time 0.
LEMMA WalkedStart ==
  ASSUME TypeOK, last_update = 0, score = 0, Walked, StartScore PROVE Walked'
<1>1. UNCHANGED <<prediction, output, last_update, score>> /\ pc' = IF StartAtZero THEN "score" ELSE "aborted"
  BY DEF StartScore, sums
<1>2. ASSUME StartAtZero, OrderedWhileScored
      PROVE  last_update <= Ends /\ CursorsAt(last_update)' /\ score = During(MomentScores, 0, last_update)
  <2>1. /\ Cursor(prediction.high, 1, 0) /\ Cursor(prediction.average, 1, 0)
        /\ Cursor(prediction.low, 1, 0) /\ Cursor(output, 1, 0) /\ Ends \in Nat
    BY <1>2, EndsIsFirstEnd, TheFourCurves, CursorStarts DEF StartAtZero, OrderedWhileScored
  <2>2. h' = 1 /\ a' = 1 /\ l' = 1 /\ m' = 1
    BY <1>2, TheFourCurves DEF StartScore, StartAtZero, graph_read_first
  <2>3. CursorsAt(last_update)'
    BY <1>1, <2>1, <2>2 DEF CursorsAt, Cursor
  <2> QED
    BY <2>1, <2>3, DuringNothing
<1>3. During(MomentScores, 0, last_update)' = During(MomentScores, 0, last_update)
  BY <1>1, SameCurves DEF During, SumFunctionOnSet, FoldFunctionOnSet, MapThenFoldSet
<1>4. ScoreIsMean' /\ OnlyBadCurvesAbort'
  BY <1>1, SameCurves DEF ScoreIsMean, OnlyBadCurvesAbort
<1> QED
  BY <1>1, <1>2, <1>3, <1>4, SameCurves DEF Walked

LEMMA WalkedEnd == ASSUME TypeOK, Walked, EndScore PROVE Walked'
<1>1. UNCHANGED <<prediction, output, last_update, score>> /\ pc = "score" /\ pc' = "scored" /\ ~AllGoOn
  BY DEF EndScore, sums
<1>2. ASSUME OrderedWhileScored
      PROVE  /\ last_update = Ends
             /\ score = SumFunction([t \in 0 .. last_update - 1 |-> SegmentAt(t)])
  <2>1. /\ StartAtZero /\ last_update <= Ends /\ CursorsAt(last_update)
        /\ score = During(MomentScores, 0, last_update)
    BY <1>1, <1>2 DEF Walked
  <2>2. last_update = Ends
    BY <1>1, <2>1, WalkEnds
  <2> DEFINE g == [t \in 0 .. last_update - 1 |-> SegmentAt(t)]
  <2>3. g = [t \in 0 .. last_update - 1 |-> MomentScores[t]] /\ last_update \in Nat
    BY DEF MomentScores, TypeOK
  <2> HIDE DEF g
  <2>4. SumFunction(g) = During(MomentScores, 0, last_update)
    BY <2>3, SumOfMoments
  <2> QED
    BY <2>1, <2>2, <2>4 DEF g
<1>3. /\ OrderedWhileScored' <=> OrderedWhileScored
      /\ Ends' = Ends /\ \A t : SegmentAt(t)' = SegmentAt(t)
  BY <1>1, SameCurves
<1>4. SumFunction([t \in 0 .. last_update - 1 |-> SegmentAt(t)])'
        = SumFunction([t \in 0 .. last_update - 1 |-> SegmentAt(t)])
  <2> DEFINE g == [t \in 0 .. last_update - 1 |-> SegmentAt(t)]
  <2>1. g' = g
    BY <1>1, <1>3
  <2> HIDE DEF g
  <2>2. SumFunction(g)' = SumFunction(g)
    BY <2>1 DEF SumFunction, SumFunctionOnSet, FoldFunctionOnSet, MapThenFoldSet
  <2> QED
    BY <2>2 DEF g
<1>5. ScoreIsMean'
  BY <1>1, <1>2, <1>3, <1>4 DEF ScoreIsMean, OrderedWhileScored
<1> QED
  BY <1>1, <1>5 DEF Walked, OnlyBadCurvesAbort

\* Curves of the same times step together.
LEMMA StepTogether ==
  ASSUME TypeOK, SameTimes, l = a, l = h
  PROVE  na = nl /\ nh = nl /\ (nl # NULL => SameStep)
<1>1. /\ Len(prediction.low) = Len(prediction.average) /\ Len(prediction.low) = Len(prediction.high)
      /\ Len(prediction.low) \in Nat
  <2>1. Len(TimesOf(prediction.low)) = Len(TimesOf(prediction.average))
          /\ Len(TimesOf(prediction.low)) = Len(TimesOf(prediction.high))
    BY DEF SameTimes
  <2>2. \A g \in Curve : Len(g) \in Nat /\ Len(TimesOf(g)) = Len(g)
    BY PointsOf DEF TimesOf
  <2> QED
    BY <2>1, <2>2, TheFourCurves
<1>2. na = nl /\ nh = nl
  BY <1>1 DEF na, nh, nl, graph_read_next
<1>3. ASSUME nl # NULL
      PROVE  /\ Time(prediction.low, nl) = Time(prediction.average, nl)
             /\ Time(prediction.low, nl) = Time(prediction.high, nl)
  <2>1. nl \in 1 .. Len(prediction.low)
    BY <1>3, TheFourCurves, NextInside DEF nl, TypeOK
  <2>2. \A i \in 1 .. Len(prediction.low) :
          /\ TimesOf(prediction.low)[i] = prediction.low[i].time
          /\ TimesOf(prediction.average)[i] = prediction.average[i].time
          /\ TimesOf(prediction.high)[i] = prediction.high[i].time
    BY <1>1 DEF TimesOf
  <2> HIDE DEF nl
  <2> QED
    BY <2>1, <2>2 DEF SameTimes, Time
<1> QED
  BY <1>2, <1>3 DEF SameStep

LEMMA WalkedRow == ASSUME TypeOK, Walked, LogRow PROVE Walked'
<1>1. UNCHANGED <<prediction, output>> /\ pc = "log" /\ pc' = PcAfterRow
  BY DEF LogRow
<1>2. StartAtZero' /\ (pc' \in {"mismatch", "logged", "log"})
  BY <1>1, SameCurves DEF Walked, PcAfterRow
<1>3. ASSUME SameTimes PROVE l' = a' /\ l' = h' /\ pc' # "mismatch"
  <2>1. l = a /\ l = h
    BY <1>1, <1>3 DEF Walked
  <2>2. na = nl /\ nh = nl /\ (nl # NULL => SameStep)
    BY <1>3, <2>1, StepTogether
  <2>3. PredictionSteps => nl # NULL
    BY DEF PredictionSteps
  <2>4. l' = a' /\ l' = h'
    BY <2>1, <2>2 DEF LogRow
  <2> QED
    BY <1>1, <2>2, <2>3, <2>4 DEF PcAfterRow
<1> QED
  BY <1>1, <1>2, <1>3, SameCurves DEF Walked, ScoreIsMean, OnlyBadCurvesAbort

LEMMA WalkedStep == IInv /\ Walked /\ [Next]_vars => Walked'
<1> SUFFICES ASSUME IInv, Walked, [Next]_vars PROVE Walked'
  OBVIOUS
<1>0. TypeOK /\ ScoreInRange /\ AtRest
  BY DEF IInv
<1>1. CASE prediction_simple_exec \/ prediction_average_exec
             \/ prediction_constraint_exec \/ UserPrediction
  <2>1. pc' = "model"
    BY <1>1, PredictionsGiveResults, <1>0 DEF Predict
  <2> QED
    BY <2>1 DEF Walked, ScoreIsMean, OnlyBadCurvesAbort
<1>2. CASE ModelExec
  BY <1>2 DEF ModelExec, Walked, ScoreIsMean, OnlyBadCurvesAbort
<1>3. CASE StartScore
  BY <1>0, <1>3, WalkedStart DEF AtRest, StartScore
<1>4. CASE ScoreSegment
  BY <1>0, <1>4, WalkedSegment
<1>5. CASE Abort
  <2>1. UNCHANGED <<prediction, output>> /\ pc' = "aborted"
    BY <1>5 DEF Abort
  <2>2. (\E g \in FourCurves : LastTime(g) = 0 \/ ~OrderedUpTo(g, Ends)) \/ ~Narrow
    BY <1>0, <1>5, AbortIsExplained
  <2> QED
    BY <2>1, <2>2, SameCurves DEF Walked, ScoreIsMean, OnlyBadCurvesAbort
<1>6. CASE EndScore
  BY <1>0, <1>6, WalkedEnd
<1>7. CASE StartLog
  <2>1. UNCHANGED <<prediction, output>> /\ pc' = IF StartAtZero THEN "log" ELSE "mismatch"
    BY <1>7 DEF StartLog
  <2>2. StartAtZero => l' = 1 /\ a' = 1 /\ h' = 1
    BY <1>7, TheFourCurves, <1>0 DEF StartLog, StartAtZero, graph_read_first
  <2> QED
    BY <2>1, <2>2, SameCurves DEF Walked, ScoreIsMean, OnlyBadCurvesAbort
<1>8. CASE LogRow
  BY <1>0, <1>8, WalkedRow
<1>9. CASE Delete
  BY <1>9 DEF Delete, Walked, ScoreIsMean, OnlyBadCurvesAbort
<1>10. CASE UNCHANGED vars
  <2>1. UNCHANGED <<prediction, output, pc, h, a, l, m, last_update, score>>
    BY <1>10 DEF vars
  <2>2. During(MomentScores, 0, last_update)' = During(MomentScores, 0, last_update)
    BY <2>1, SameCurves DEF During, SumFunctionOnSet, FoldFunctionOnSet, MapThenFoldSet
  <2>3. CursorsAt(last_update)' <=> CursorsAt(last_update)
    BY <2>1 DEF CursorsAt, Cursor
  <2>4. ScoreIsMean' <=> ScoreIsMean
    <3> DEFINE g == [t \in 0 .. last_update - 1 |-> SegmentAt(t)]
    <3>1. g' = g
      BY <2>1, SameCurves
    <3> HIDE DEF g
    <3>2. SumFunction(g)' = SumFunction(g)
      BY <3>1 DEF SumFunction, SumFunctionOnSet, FoldFunctionOnSet, MapThenFoldSet
    <3>3. /\ ScoreIsMean <=> (pc = "scored" /\ OrderedWhileScored =>
                               last_update = Ends /\ score = SumFunction(g))
          /\ ScoreIsMean' <=> (pc' = "scored" /\ OrderedWhileScored' =>
                                last_update' = Ends' /\ score' = SumFunction(g)')
      BY DEF ScoreIsMean, OrderedWhileScored, g
    <3> QED
      BY <2>1, <3>2, <3>3, SameCurves
  <2>5. OnlyBadCurvesAbort' <=> OnlyBadCurvesAbort
    BY <2>1, SameCurves DEF OnlyBadCurvesAbort
  <2> QED
    BY <2>1, <2>2, <2>3, <2>4, <2>5, SameCurves DEF Walked
<1> QED
  BY <1>1, <1>2, <1>3, <1>4, <1>5, <1>6, <1>7, <1>8, <1>9, <1>10 DEF Next

\* The score of a metric is the mean of the scores at each moment, up to the
\* end of the first of its curves, although score_simple_calc walks four curves
\* of different steps at once (lib/scoring/simple.c).
THEOREM ScoresAreMeans == Spec => []ScoreIsMean
<1>1. Walked => ScoreIsMean
  BY DEF Walked
<1> QED
  BY <1>1, InvInit, InvStep, WalkedInit, WalkedStep, PTL DEF Spec

\* The assertions of score_simple_calc and of csv_log_models fail only for
\* curves that start late, end at 0, go back in time or step apart, and for
\* predictions whose values are so far apart that a difference overflows.
THEOREM OnlyBadCurvesFail == Spec => []OnlyBadCurvesAbort
<1>1. Walked => OnlyBadCurvesAbort
  BY DEF Walked
<1> QED
  BY <1>1, InvInit, InvStep, WalkedInit, WalkedStep, PTL DEF Spec

(***************************************************************************)
(* The rows of csv_log_models.                                             *)
(***************************************************************************)
TimesOn(g) == {g[i].time : i \in 1 .. Len(g)}

TimesIn(s) == {s[k].time : k \in 1 .. Len(s)}

Increasing(s) == \A k \in 1 .. Len(s) - 1 : s[k].time < s[k + 1].time

LEMMA MomentsOf ==
  ASSUME NEW g \in Curve PROVE ToSet(TimesOf(g)) = TimesOn(g) /\ TimesOn(g) \subseteq Nat
<1>1. Len(g) \in Nat /\ \A i \in 1 .. Len(g) : g[i].time \in Nat
  BY PointsOf
<1>2. DOMAIN TimesOf(g) = 1 .. Len(g) /\ \A i \in 1 .. Len(g) : TimesOf(g)[i] = g[i].time
  BY DEF TimesOf
<1> QED
  BY <1>1, <1>2 DEF ToSet, TimesOn

LEMMA RowAppended ==
  ASSUME NEW s \in Seq(Rows), NEW r \in Rows, Increasing(s), \A x \in TimesIn(s) : x < r.time
  PROVE  /\ TimesIn(Append(s, r)) = TimesIn(s) \cup {r.time}
         /\ Increasing(Append(s, r))
         /\ Len(Append(s, r)) = Len(s) + 1 /\ Len(s) \in Nat
         /\ \A k \in 1 .. Len(s) : Append(s, r)[k] = s[k]
         /\ Append(s, r)[Len(s) + 1] = r
<1> DEFINE t == Append(s, r)
<1>1. /\ Len(t) = Len(s) + 1 /\ Len(s) \in Nat
      /\ \A k \in 1 .. Len(s) : t[k] = s[k]
      /\ t[Len(s) + 1] = r
  OBVIOUS
<1> HIDE DEF t
<1>2. TimesIn(t) = TimesIn(s) \cup {r.time}
  <2>1. \A k \in 1 .. Len(t) : k \in 1 .. Len(s) \/ k = Len(s) + 1
    BY <1>1
  <2>2. TimesIn(t) \subseteq TimesIn(s) \cup {r.time}
    BY <1>1, <2>1 DEF TimesIn
  <2>3. TimesIn(s) \subseteq TimesIn(t)
    <3>1. \A k \in 1 .. Len(s) : k \in 1 .. Len(t) /\ t[k].time = s[k].time
      BY <1>1
    <3> QED
      BY <3>1 DEF TimesIn
  <2>4. r.time \in TimesIn(t)
    <3>1. Len(s) + 1 \in 1 .. Len(t)
      BY <1>1
    <3> QED
      BY <1>1, <3>1 DEF TimesIn
  <2> QED
    BY <2>2, <2>3, <2>4
<1>3. ASSUME NEW k \in 1 .. Len(t) - 1 PROVE t[k].time < t[k + 1].time
  <2>1. CASE k = Len(s)
    <3>1. s[k].time \in TimesIn(s)
      BY <1>1, <1>3, <2>1 DEF TimesIn
    <3> QED
      BY <1>1, <1>3, <2>1, <3>1
  <2>2. CASE k # Len(s)
    <3>1. k \in 1 .. Len(s) - 1 /\ k \in 1 .. Len(s) /\ k + 1 \in 1 .. Len(s)
      BY <1>1, <1>3, <2>2
    <3> QED
      BY <1>1, <3>1 DEF Increasing
  <2> QED
    BY <2>1, <2>2
<1> QED
  BY <1>1, <1>2, <1>3 DEF Increasing, t

\* A curve while the log goes on to the next moment of one of the two.
LEMMA LogMoves ==
  ASSUME NEW g \in Curve, Ordered(g), NEW c, NEW t \in Nat, NEW next \in Nat,
         Cursor(g, c, t), t < next,
         graph_read_next(g, c) = NULL \/ next <= Time(g, graph_read_next(g, c))
  PROVE  /\ Cursor(g, IF graph_read_next(g, c) # NULL /\ Time(g, graph_read_next(g, c)) = next
                      THEN graph_read_next(g, c) ELSE c, next)
         /\ \A x \in TimesOn(g) : x < next => x <= t
<1>1. Len(g) \in Nat /\ \A i \in 1 .. Len(g) : g[i].time \in Nat
  BY PointsOf
<1>2. /\ \A i \in 1 .. Len(g) : i <= c => g[i].time <= t
      /\ c \in 1 .. Len(g)
  BY <1>1 DEF Cursor, Ordered
<1>3. CASE graph_read_next(g, c) = NULL
  <2>1. c = Len(g)
    BY <1>1, <1>2, <1>3 DEF graph_read_next, NULL
  <2>2. \A i \in 1 .. Len(g) : g[i].time <= t
    BY <1>1, <1>2, <2>1
  <2>3. \A x \in TimesOn(g) : x <= t
    BY <2>2 DEF TimesOn
  <2>4. Cursor(g, c, next)
    BY <1>1, <1>2, <2>1 DEF Cursor
  <2> QED
    BY <1>3, <2>3, <2>4
<1>4. CASE graph_read_next(g, c) # NULL
  <2>1. OrderedUpTo(g, next)
    BY DEF Ordered, OrderedUpTo
  <2>2. Cursor(g, IF Time(g, graph_read_next(g, c)) = next
                  THEN graph_read_next(g, c) ELSE c, next)
    BY <1>4, <2>1, NextMoves
  <2>3. graph_read_next(g, c) = c + 1 /\ c + 1 \in 1 .. Len(g)
    BY <1>1, <1>2, <1>4 DEF graph_read_next, NULL
  <2>4. ASSUME NEW i \in 1 .. Len(g), g[i].time < next PROVE g[i].time <= t
    <3>1. c < i => next <= g[i].time
      <4>1. c < i => i = c + 1 \/ c + 1 < i
        BY <1>2
      <4> QED
        BY <1>1, <1>4, <2>3, <4>1 DEF Ordered, Time
    <3> QED
      BY <1>1, <1>2, <2>4, <3>1
  <2> QED
    BY <1>4, <2>2, <2>4 DEF TimesOn
<1> QED
  BY <1>3, <1>4

AllMoments == TimesOn(prediction.low) \cup TimesOn(output)

Tidy == SameTimes /\ Ordered(output) /\ Ordered(prediction.low)

RowOf(t) ==
  [time    |-> t,
   low     |-> At(prediction.low, t),
   average |-> At(prediction.average, t),
   high    |-> At(prediction.high, t),
   model   |-> At(output, t)]

RowsAre(S) ==
  /\ TimesIn(rows) = S
  /\ Increasing(rows)
  /\ \A k \in 1 .. Len(rows) : rows[k] = RowOf(rows[k].time)

\* The next row is the one of the moment at which the cursors are.
Logging ==
  /\ pc \in {"predict", "model", "start", "score", "scored"} => rows = << >>
  /\ pc = "log" /\ Tidy =>
       /\ Cursor(prediction.low, l, Row.time)
       /\ Cursor(output, m, Row.time)
       /\ RowsAre({x \in AllMoments : x < Row.time})
  /\ pc = "logged" /\ Tidy => RowsAre(AllMoments)

LEMMA RowsAreThat == ASSUME TypeOK PROVE Logging => RowsFollowCurves
  BY TheFourCurves, MomentsOf
     DEF Logging, RowsFollowCurves, Tidy, RowsAre, RowOf, TimesIn, Increasing, AllMoments

LEMMA RowTimeIs ==
  ASSUME TypeOK, OnPoints, pc = "log"
  PROVE  /\ Row \in Rows /\ Row.time \in Nat
         /\ Row.time \in {Time(prediction.low, l), Time(output, m)}
         /\ Row.time \in AllMoments
         /\ l \in 1 .. Len(prediction.low) /\ m \in 1 .. Len(output)
         /\ a \in 1 .. Len(prediction.average) /\ h \in 1 .. Len(prediction.high)
<1>1. /\ l \in 1 .. Len(prediction.low) /\ m \in 1 .. Len(output)
      /\ a \in 1 .. Len(prediction.average) /\ h \in 1 .. Len(prediction.high)
  BY DEF OnPoints, TypeOK, NULL
<1>2. Row \in Rows
  BY RowIsRow DEF OnPoints
<1> DEFINE x == Time(prediction.low, l)
           y == Time(output, m)
<1>3. x \in Nat /\ y \in Nat
  BY <1>1, TheFourCurves, PointInside
<1>4. Max({x, y}) \in {x, y}
  <2> HIDE DEF x, y
  <2>1. \E u \in {x, y} : \A v \in {x, y} : u >= v
    BY <1>3
  <2> QED
    BY <2>1 DEF Max
<1>5. Row.time = Max({x, y})
  BY DEF Row
<1>6. x \in AllMoments /\ y \in AllMoments
  BY <1>1 DEF AllMoments, TimesOn, Time
<1> QED
  BY <1>1, <1>2, <1>3, <1>4, <1>5, <1>6

LEMMA GreaterOfTwo ==
  ASSUME NEW x \in Nat, NEW y \in Nat, NEW z \in {x, y}, x <= z, y <= z
  PROVE  Max({x, y}) = z
<1>1. z \in {x, y} /\ \A v \in {x, y} : z >= v
  OBVIOUS
<1>2. \A u \in {x, y} : (\A v \in {x, y} : u >= v) => u = z
  OBVIOUS
<1> QED
  BY <1>1, <1>2 DEF Max

\* A curve of the same times has its cursor at the same place.
LEMMA CursorTogether ==
  ASSUME NEW g \in Curve, NEW k \in Curve, TimesOf(g) = TimesOf(k), NEW c, NEW t, Cursor(g, c, t)
  PROVE  Cursor(k, c, t)
<1>1. /\ Len(g) \in Nat /\ Len(k) \in Nat
      /\ Len(TimesOf(g)) = Len(g) /\ Len(TimesOf(k)) = Len(k)
  BY PointsOf DEF TimesOf
<1>2. /\ \A i \in 1 .. Len(g) : TimesOf(g)[i] = g[i].time
      /\ \A i \in 1 .. Len(k) : TimesOf(k)[i] = k[i].time
  BY DEF TimesOf
<1> QED
  BY <1>1, <1>2 DEF Cursor

\* The row that is written holds the values at its time.
LEMMA RowIsRight ==
  ASSUME TypeOK, OnPoints, Walked, Logging, pc = "log", Tidy
  PROVE  Row = RowOf(Row.time)
<1>1. /\ Cursor(prediction.low, l, Row.time) /\ Cursor(output, m, Row.time)
      /\ Row.time \in Nat /\ l = a /\ l = h /\ SameTimes
  BY RowTimeIs DEF Logging, Walked, Tidy
<1>2. Cursor(prediction.average, a, Row.time) /\ Cursor(prediction.high, h, Row.time)
  BY <1>1, TheFourCurves, CursorTogether DEF SameTimes
<1>3. /\ At(prediction.low, Row.time) = Value(prediction.low, l)
      /\ At(prediction.average, Row.time) = Value(prediction.average, a)
      /\ At(prediction.high, Row.time) = Value(prediction.high, h)
      /\ At(output, Row.time) = Value(output, m)
  <2> HIDE DEF Row
  <2> QED
    BY <1>1, <1>2, TheFourCurves, ValueAtCursor DEF Value
<1>4. Row = [time    |-> Row.time,
             low     |-> Value(prediction.low, l),
             average |-> Value(prediction.average, a),
             high    |-> Value(prediction.high, h),
             model   |-> Value(output, m)]
  BY DEF Row
<1> QED
  BY <1>3, <1>4 DEF RowOf

\* The next of the moments, if there is one.
LEMMA NextMoment ==
  ASSUME TypeOK, OnPoints, Logging, pc = "log", Tidy, LogRow, ~LogEnds
  PROVE  \E next \in Nat :
           /\ Row.time < next
           /\ Cursor(prediction.low, l', next) /\ Cursor(output, m', next)
           /\ next \in {Time(prediction.low, l'), Time(output, m')}
           /\ \A x \in AllMoments : x < next => x <= Row.time
<1> DEFINE tl == Time(prediction.low, nl)
           tm == Time(output, nm)
           next == IF nm = NULL \/ (nl # NULL /\ tl <= tm) THEN tl ELSE tm
           R == Row.time
<1>1. /\ Cursor(prediction.low, l, R) /\ Cursor(output, m, R) /\ R \in Nat
      /\ Ordered(output)
  BY RowTimeIs DEF Logging, Tidy
<1>2. Ordered(prediction.low)
  BY DEF Tidy
<1>3. /\ nl # NULL => tl \in Nat /\ R < tl
      /\ nm # NULL => tm \in Nat /\ R < tm
  <2>1. nl # NULL => tl \in Nat
    BY TheFourCurves, NextInside, PointInside DEF nl, TypeOK
  <2>2. nm # NULL => tm \in Nat
    BY TheFourCurves, NextInside, PointInside DEF nm, TypeOK
  <2> HIDE DEF R
  <2>3. nl # NULL => R < tl
    BY <1>1, TheFourCurves, NextIsLater DEF nl
  <2>4. nm # NULL => R < tm
    BY <1>1, TheFourCurves, NextIsLater DEF nm
  <2> QED
    BY <2>1, <2>2, <2>3, <2>4
<1> DEFINE u == IF nl # NULL /\ tl = next THEN nl ELSE l
           v == IF nm # NULL /\ tm = next THEN nm ELSE m
<1>4. /\ next \in Nat /\ R < next
      /\ nl = NULL \/ next <= tl
      /\ nm = NULL \/ next <= tm
      /\ (nl # NULL /\ next = tl) \/ (nm # NULL /\ next = tm)
  <2> HIDE DEF tl, tm, R
  <2> QED
    BY <1>3 DEF LogEnds
<1>5. l' = u /\ m' = v
  <2>1. /\ l' = IF PredictionSteps THEN nl ELSE l
        /\ m' = IF ModelSteps THEN nm ELSE m
    BY DEF LogRow
  <2>2. /\ PredictionSteps <=> nl # NULL /\ (nm = NULL \/ tl <= tm)
        /\ ModelSteps <=> nm # NULL /\ (nl = NULL \/ tl >= tm)
    BY DEF PredictionSteps, ModelSteps
  <2> HIDE DEF tl, tm, PredictionSteps, ModelSteps
  <2> QED
    BY <1>3, <1>4, <2>1, <2>2
<1> HIDE DEF next, R
<1>6. Cursor(prediction.low, u, next) /\ \A x \in TimesOn(prediction.low) : x < next => x <= R
  BY <1>1, <1>2, <1>4, TheFourCurves, LogMoves DEF nl
<1>7. Cursor(output, v, next) /\ \A x \in TimesOn(output) : x < next => x <= R
  BY <1>1, <1>4, TheFourCurves, LogMoves DEF nm
<1>8. next \in {Time(prediction.low, u), Time(output, v)}
  BY <1>4
<1> QED
  BY <1>4, <1>5, <1>6, <1>7, <1>8 DEF AllMoments, R

LEMMA SameLog ==
  ASSUME UNCHANGED <<prediction, output>>
  PROVE  /\ Tidy' <=> Tidy
         /\ AllMoments' = AllMoments
         /\ \A t : RowOf(t)' = RowOf(t)
  BY DEF Tidy, SameTimes, AllMoments, RowOf

LEMMA LoggingRow ==
  ASSUME TypeOK, TypeOK', OnPoints, OnPoints', Walked, Walked', Logging, LogRow
  PROVE  Logging'
<1>1. UNCHANGED <<prediction, output>> /\ pc = "log" /\ pc' = PcAfterRow
  BY DEF LogRow
<1>2. pc' \in {"mismatch", "logged", "log"}
  BY <1>1 DEF PcAfterRow
<1> SUFFICES ASSUME Tidy, pc' # "mismatch"
             PROVE  /\ pc' = "log" =>
                         /\ Cursor(prediction.low, l, Row.time)'
                         /\ Cursor(output, m, Row.time)'
                         /\ RowsAre({x \in AllMoments : x < Row.time})'
                    /\ pc' = "logged" => RowsAre(AllMoments)'
  BY <1>1, <1>2, SameLog DEF Logging
<1> DEFINE R == Row.time
           before == {x \in AllMoments : x < R}
<1>3. /\ Row \in Rows /\ R \in Nat /\ R \in AllMoments
      /\ Row = RowOf(R) /\ rows \in Seq(Rows) /\ rows' = Append(rows, Row)
      /\ Cursor(prediction.low, l, R) /\ Cursor(output, m, R) /\ RowsAre(before)
  BY <1>1, RowTimeIs, RowIsRight DEF Logging, TypeOK, LogRow
<1> HIDE DEF R
<1>4. /\ TimesIn(rows') = {x \in AllMoments : x < R} \cup {R}
      /\ Increasing(rows')
      /\ \A k \in 1 .. Len(rows') : rows'[k] = RowOf(rows'[k].time)
  <2>1. Row.time = R
    BY DEF R
  <2>2. Increasing(rows) /\ \A x \in TimesIn(rows) : x < R
    BY <1>3 DEF RowsAre
  <2>3. /\ TimesIn(rows') = TimesIn(rows) \cup {R}
        /\ Increasing(rows')
        /\ Len(rows') = Len(rows) + 1 /\ Len(rows) \in Nat
        /\ \A k \in 1 .. Len(rows) : rows'[k] = rows[k]
        /\ rows'[Len(rows) + 1] = Row
    <3> HIDE DEF Row
    <3> QED
      BY <1>3, <2>1, <2>2, RowAppended
  <2>4. ASSUME NEW k \in 1 .. Len(rows') PROVE rows'[k] = RowOf(rows'[k].time)
    <3>1. CASE k = Len(rows) + 1
      BY <1>3, <2>1, <2>3, <3>1
    <3>2. CASE k # Len(rows) + 1
      <4>1. k \in 1 .. Len(rows)
        BY <2>3, <3>2
      <4> QED
        BY <1>3, <2>3, <4>1 DEF RowsAre
    <3> QED
      BY <3>1, <3>2
  <2> QED
    BY <1>3, <2>3, <2>4 DEF RowsAre
<1>5. ASSUME NEW S, S = {x \in AllMoments : x < R} \cup {R} PROVE RowsAre(S)'
  BY <1>1, <1>4, <1>5, SameLog DEF RowsAre, TimesIn, Increasing
<1>6. \A x \in AllMoments : x \in Nat
  BY TheFourCurves, MomentsOf DEF AllMoments
<1>7. CASE LogEnds
  <2>1. pc' = "logged"
    BY <1>1, <1>7 DEF PcAfterRow
  <2>2. \A x \in AllMoments : x <= R
    <3>1. /\ l = Len(prediction.low) /\ m = Len(output)
      BY <1>3, <1>7, TheFourCurves, CursorAtEnd DEF LogEnds, nl, nm
    <3>2. /\ \A i \in 1 .. Len(prediction.low) : prediction.low[i].time <= R
          /\ \A i \in 1 .. Len(output) : output[i].time <= R
      <4>1. \A g \in Curve : Ordered(g) /\ Cursor(g, Len(g), R)
                                => \A i \in 1 .. Len(g) : g[i].time <= R
        <5> SUFFICES ASSUME NEW g \in Curve, Ordered(g), Cursor(g, Len(g), R),
                            NEW i \in 1 .. Len(g)
                     PROVE  g[i].time <= R
          OBVIOUS
        <5>1. Len(g) \in Nat /\ \A k \in 1 .. Len(g) : g[k].time \in Nat
          BY PointsOf
        <5>2. i = Len(g) \/ i < Len(g)
          BY <5>1
        <5> QED
          BY <1>3, <5>1, <5>2 DEF Ordered, Cursor
      <4> QED
        BY <1>3, <3>1, <4>1, TheFourCurves DEF Tidy
    <3> QED
      BY <3>2 DEF AllMoments, TimesOn
  <2>3. AllMoments = {x \in AllMoments : x < R} \cup {R}
    <3>1. \A x \in AllMoments : x < R \/ x = R
      BY <1>3, <1>6, <2>2
    <3> QED
      BY <1>3, <3>1
  <2> QED
    BY <1>1, <1>5, <2>1, <2>3, SameLog
<1>8. CASE ~LogEnds
  <2>1. pc' = "log"
    BY <1>1, <1>2, <1>8 DEF PcAfterRow
  <2>2. PICK next \in Nat :
          /\ R < next
          /\ Cursor(prediction.low, l', next) /\ Cursor(output, m', next)
          /\ next \in {Time(prediction.low, l'), Time(output, m')}
          /\ \A x \in AllMoments : x < next => x <= R
    BY <1>1, <1>8, NextMoment DEF R
  <2>3. Row.time' = next
    <3> DEFINE x == Time(prediction.low, l')
               y == Time(output, m')
    <3>1. x \in Nat /\ y \in Nat /\ x <= next /\ y <= next
      BY <2>2, TheFourCurves, PointInside DEF Cursor, Time
    <3>2. Row.time' = Max({x, y})
      BY <1>1 DEF Row
    <3> HIDE DEF x, y
    <3>3. next \in {x, y}
      BY <2>2 DEF x, y
    <3> QED
      BY <3>1, <3>2, <3>3, GreaterOfTwo
  <2>4. {x \in AllMoments : x < R} \cup {R} = {x \in AllMoments : x < next}
    <3>1. \A x \in AllMoments : x < next <=> x < R \/ x = R
      BY <1>3, <1>6, <2>2
    <3> QED
      BY <1>3, <3>1
  <2>5. RowsAre({x \in AllMoments : x < Row.time})'
    <3>1. PICK S : S = {x \in AllMoments : x < next}
      OBVIOUS
    <3>2. RowsAre(S)'
      BY <1>5, <2>4, <3>1
    <3>3. {x \in AllMoments : x < Row.time}' = S
      BY <1>1, <2>3, <3>1, SameLog
    <3> QED
      BY <3>2, <3>3 DEF RowsAre
  <2> QED
    BY <1>1, <2>1, <2>2, <2>3, <2>5 DEF Cursor
<1> QED
  BY <1>7, <1>8

LEMMA LoggingInit == Init => Logging
  BY DEF Init, Logging

LEMMA LoggingStep ==
  IInv /\ IInv' /\ Walked /\ Walked' /\ Logging /\ [Next]_vars => Logging'
<1> SUFFICES ASSUME IInv, IInv', Walked, Walked', Logging, [Next]_vars PROVE Logging'
  OBVIOUS
<1>0. TypeOK /\ TypeOK' /\ OnPoints /\ OnPoints'
  BY DEF IInv
<1>1. CASE prediction_simple_exec \/ prediction_average_exec
             \/ prediction_constraint_exec \/ UserPrediction
  BY <1>1, PredictionsGiveResults, <1>0 DEF Predict, Logging
<1>2. CASE ModelExec
  BY <1>2 DEF ModelExec, Logging
<1>3. CASE StartScore
  BY <1>3 DEF StartScore, Logging
<1>4. CASE ScoreSegment
  BY <1>4 DEF ScoreSegment, Logging
<1>5. CASE Abort
  BY <1>5 DEF Abort, Logging
<1>6. CASE EndScore
  BY <1>6 DEF EndScore, Logging
<1>7. CASE StartLog
  <2>1. /\ UNCHANGED <<prediction, output, rows>> /\ rows = << >>
        /\ pc' = IF StartAtZero THEN "log" ELSE "mismatch"
    BY <1>7 DEF StartLog, Logging
  <2>2. ASSUME StartAtZero, Tidy
        PROVE  /\ Cursor(prediction.low, 1, 0) /\ Cursor(output, 1, 0)
               /\ Time(prediction.low, 1) = 0 /\ Time(output, 1) = 0
               /\ l' = 1 /\ m' = 1
    <3>1. OrderedUpTo(prediction.low, 0) /\ OrderedUpTo(output, 0)
      BY <2>2 DEF Tidy, Ordered, OrderedUpTo
    <3>2. /\ prediction.low # << >> /\ prediction.low[1].time = 0
          /\ output # << >> /\ output[1].time = 0
      BY <2>2, <1>0, TheFourCurves DEF StartAtZero
    <3> QED
      BY <1>0, <1>7, <3>1, <3>2, TheFourCurves, CursorStarts DEF Time, StartLog, graph_read_first
  <2>3. ASSUME StartAtZero, Tidy PROVE Row.time' = 0
    <3>1. Row.time' = Max({Time(prediction.low, l'), Time(output, m')})
      BY <2>1 DEF Row
    <3>2. Row.time' = Max({0, 0})
      BY <2>2, <2>3, <3>1
    <3> QED
      BY <3>2, GreaterOfTwo
  <2>4. \A x \in AllMoments : ~(x < 0)
    BY <1>0, TheFourCurves, MomentsOf DEF AllMoments
  <2>5. \A S : S = {} => RowsAre(S)'
    BY <2>1 DEF RowsAre, TimesIn, Increasing
  <2>6. ASSUME StartAtZero, Tidy PROVE RowsAre({x \in AllMoments : x < Row.time})'
    <3>1. {x \in AllMoments : x < Row.time}' = {}
      BY <2>1, <2>3, <2>4, <2>6, SameLog
    <3>2. \A S : S = {} => TimesIn(rows)' = S
      BY <2>5 DEF RowsAre
    <3> QED
      BY <2>5, <3>1, <3>2 DEF RowsAre
  <2>7. ASSUME StartAtZero, Tidy
        PROVE  Cursor(prediction.low, l, Row.time)' /\ Cursor(output, m, Row.time)'
    BY <2>1, <2>2, <2>3, <2>7 DEF Cursor
  <2> QED
    BY <2>1, <2>6, <2>7, SameLog DEF Logging
<1>8. CASE LogRow
  BY <1>0, <1>8, LoggingRow
<1>9. CASE Delete
  BY <1>9 DEF Delete, Logging
<1>10. CASE UNCHANGED vars
  <2>1. UNCHANGED <<prediction, output, pc, h, a, l, m, rows>>
    BY <1>10 DEF vars
  <2>2. Row' = Row
    BY <2>1 DEF Row
  <2>3. \A S : RowsAre(S)' <=> RowsAre(S)
    BY <2>1, SameLog DEF RowsAre, TimesIn, Increasing
  <2>4. /\ RowsAre(AllMoments)' <=> RowsAre(AllMoments)
        /\ RowsAre({x \in AllMoments : x < Row.time})'
             <=> RowsAre({x \in AllMoments : x < Row.time})
    BY <2>1, <2>2, SameLog DEF RowsAre, TimesIn, Increasing
  <2>5. /\ Cursor(prediction.low, l, Row.time)' <=> Cursor(prediction.low, l, Row.time)
        /\ Cursor(output, m, Row.time)' <=> Cursor(output, m, Row.time)
    BY <2>1, <2>2 DEF Cursor
  <2> QED
    BY <2>1, <2>4, <2>5, SameLog DEF Logging
<1> QED
  BY <1>1, <1>2, <1>3, <1>4, <1>5, <1>6, <1>7, <1>8, <1>9, <1>10 DEF Next

\* The file of a model has one row, with the right values, for each moment at
\* which its prediction or its output steps, although csv_log_models walks both
\* at once (lib/rtgde.c).
THEOREM RowsAreRight == Spec => []RowsFollowCurves
<1>1. IInv /\ Logging => RowsFollowCurves
  BY RowsAreThat DEF IInv
<1> QED
  BY <1>1, InvInit, InvStep, WalkedInit, WalkedStep, LoggingInit, LoggingStep, PTL DEF Spec

(***************************************************************************)
(* graph_integral.                                                         *)
(***************************************************************************)
LastValue(g, i) == IF i = 0 THEN 0 ELSE g[i].value

\* Between two points a curve has the value of the first.
LEMMA ValueBetween ==
  ASSUME NEW g \in Curve, Ordered(g), NEW i \in 0 .. Len(g), NEW t \in Nat,
         i # 0 => g[i].time <= t, i # Len(g) => t < g[i + 1].time
  PROVE  At(g, t) = LastValue(g, i)
<1>1. Len(g) \in Nat /\ \A k \in 1 .. Len(g) : g[k].time \in Nat
  BY PointsOf
<1>2. ASSUME NEW k \in 1 .. Len(g), i < k PROVE t < g[k].time
  <2>1. i + 1 \in 1 .. Len(g) /\ i # Len(g) /\ (k = i + 1 \/ i + 1 < k)
    BY <1>1, <1>2
  <2> QED
    BY <1>1, <2>1 DEF Ordered
<1>3. CASE i = 0
  BY <1>1, <1>2, <1>3, ValueBeforeAll DEF LastValue
<1>4. CASE i # 0
  <2>1. Cursor(g, i, t)
    BY <1>1, <1>2, <1>4 DEF Cursor
  <2> QED
    BY <1>4, <2>1, ValueAtCursor DEF LastValue
<1> QED
  BY <1>3, <1>4

ValuesOf(g) == [t \in Nat |-> At(g, t)]

LEMMA AreaIsDuring ==
  ASSUME NEW g, NEW start \in Nat, NEW end \in Nat
  PROVE  Area(g, start, end) = During(ValuesOf(g), start, end)
<1> DEFINE f == [t \in start .. end - 1 |-> At(g, t)]
<1>1. f = [t \in start .. end - 1 |-> ValuesOf(g)[t]]
  BY DEF ValuesOf
<1> HIDE DEF f
<1>2. SumFunction(f) = During(ValuesOf(g), start, end)
  BY <1>1, SumOfMoments
<1> QED
  BY <1>2 DEF Area, f

LEMMA AreaIsInt ==
  ASSUME NEW g \in Curve, NEW from \in Nat, NEW to \in Nat
  PROVE  /\ During(ValuesOf(g), from, to) \in Int
         /\ \A t \in from .. to - 1 : ValuesOf(g)[t] \in Int
<1>1. \A t \in from .. to - 1 : ValuesOf(g)[t] \in Int
  BY AtIsInt DEF ValuesOf
<1> QED
  BY <1>1, DuringIsInt

\* A piece of the area between two points.
LEMMA AreaGrows ==
  ASSUME NEW g \in Curve, Ordered(g), NEW i \in 0 .. Len(g), NEW from \in Nat,
         NEW mid \in Nat, NEW to \in Nat, from <= mid, mid <= to,
         i # 0 => g[i].time <= mid, i # Len(g) => to <= g[i + 1].time
  PROVE  /\ During(ValuesOf(g), from, to)
              = During(ValuesOf(g), from, mid) + (to - mid) * LastValue(g, i)
         /\ LastValue(g, i) \in Int
<1> DEFINE v == LastValue(g, i)
<1>1. Len(g) \in Nat /\ \A k \in 1 .. Len(g) : g[k].time \in Nat /\ g[k].value \in Int
  BY PointsOf
<1>2. v \in Int
  BY <1>1 DEF LastValue
<1>3. ASSUME NEW t \in mid .. to - 1 PROVE ValuesOf(g)[t] = v
  <2>1. t \in Nat /\ (i # 0 => g[i].time <= t) /\ (i # Len(g) => t < g[i + 1].time)
    <3>1. i # 0 => g[i].time \in Nat
      BY <1>1
    <3>2. i # Len(g) => g[i + 1].time \in Nat
      BY <1>1
    <3> QED
      BY <3>1, <3>2
  <2>2. At(g, t) = LastValue(g, i)
    BY <2>1, ValueBetween
  <2> QED
    BY <2>1, <2>2 DEF ValuesOf
<1>4. \A t \in from .. mid - 1 : ValuesOf(g)[t] \in Int
  BY AreaIsInt
<1>5. Whole(ValuesOf(g), from, mid) /\ Level(ValuesOf(g), mid, to, v)
  BY <1>3, <1>4 DEF Whole, Level
<1>6. During(ValuesOf(g), from, to) = During(ValuesOf(g), from, mid) + (to - mid) * v
  BY <1>2, <1>5, DuringLevel
<1> QED
  BY <1>2, <1>6

LEMMA OneEndsBehind ==
  ASSUME NEW g \in Curve, Ordered(g), NEW start \in Nat, NEW end \in Nat,
         NEW i \in EndsBehind(g, start, end)
  PROVE  Excess(g, start, end) = (g[i].time - start) * g[i].value
<1>1. Len(g) \in Nat /\ \A k \in 1 .. Len(g) : g[k].time \in Nat
  BY PointsOf
<1>2. /\ i \in 1 .. Len(g) /\ i + 1 \in 1 .. Len(g)
      /\ g[i].time < end /\ end < g[i + 1].time
  BY <1>1 DEF EndsBehind
<1>3. ASSUME NEW j \in EndsBehind(g, start, end) PROVE j = i
  <2>1. /\ j \in 1 .. Len(g) /\ j + 1 \in 1 .. Len(g)
        /\ g[j].time < end /\ end < g[j + 1].time
    BY <1>1 DEF EndsBehind
  <2>2. CASE j < i
    <3>1. j + 1 = i \/ j + 1 < i
      BY <2>1, <1>2, <2>2
    <3>2. g[j + 1].time <= g[i].time
      BY <1>1, <1>2, <2>1, <3>1 DEF Ordered
    <3> QED
      BY <1>1, <1>2, <2>1, <3>2
  <2>3. CASE i < j
    <3>1. i + 1 = j \/ i + 1 < j
      BY <2>1, <1>2, <2>3
    <3>2. g[i + 1].time <= g[j].time
      BY <1>1, <1>2, <2>1, <3>1 DEF Ordered
    <3> QED
      BY <1>1, <1>2, <2>1, <3>2
  <2> QED
    BY <1>2, <2>1, <2>2, <2>3
<1>4. EndsBehind(g, start, end) = {i}
  BY <1>3
<1>5. Max({i}) = i
  BY <1>2 DEF Max
<1> QED
  BY <1>4, <1>5 DEF Excess

\* No interval ends behind a point that it is not inside of.
LEMMA NoneEndsBehind ==
  ASSUME NEW g \in Curve, Ordered(g), NEW start \in Nat, NEW end \in Nat,
         NEW i \in 0 .. Len(g), i # 0 => g[i].time <= end,
         i # Len(g) => end <= g[i + 1].time,
         i # 0 /\ start < g[i].time /\ g[i].time < end => i = Len(g) \/ g[i + 1].time = end
  PROVE  Excess(g, start, end) = 0
<1>1. Len(g) \in Nat /\ \A k \in 1 .. Len(g) : g[k].time \in Nat
  BY PointsOf
<1>2. ASSUME NEW j \in EndsBehind(g, start, end) PROVE FALSE
  <2>1. /\ j \in 1 .. Len(g) /\ j + 1 \in 1 .. Len(g) /\ j # Len(g)
        /\ start < g[j].time /\ g[j].time < end /\ end < g[j + 1].time
    BY <1>1 DEF EndsBehind
  <2>2. CASE j = i
    BY <1>1, <2>1, <2>2
  <2>3. CASE j < i
    <3>1. i \in 1 .. Len(g) /\ (j + 1 = i \/ j + 1 < i)
      BY <1>1, <2>1, <2>3
    <3>2. g[j + 1].time <= g[i].time
      BY <1>1, <2>1, <3>1 DEF Ordered
    <3> QED
      BY <1>1, <2>1, <3>1, <3>2
  <2>4. CASE i < j
    <3>1. i + 1 \in 1 .. Len(g) /\ i # Len(g) /\ (i + 1 = j \/ i + 1 < j)
      BY <1>1, <2>1, <2>4
    <3>2. g[i + 1].time <= g[j].time
      BY <1>1, <2>1, <3>1 DEF Ordered
    <3> QED
      BY <1>1, <2>1, <3>1, <3>2
  <2> QED
    BY <2>1, <2>2, <2>3, <2>4
<1> QED
  BY <1>2 DEF Excess

Accumulators == [old_value : Int, old_time : Int, g_int : Int, returned : BOOLEAN]

\* What the loop has computed after i points.
Integrated(g, start, end, i, s) ==
  /\ s \in Accumulators
  /\ s.returned => s.g_int = During(ValuesOf(g), start, end) + Excess(g, start, end)
  /\ ~s.returned =>
       /\ s.old_value = LastValue(g, i)
       /\ s.old_time = (IF i # 0 /\ start < g[i].time THEN g[i].time ELSE start)
       /\ s.old_time <= end
       /\ i # 0 => g[i].time <= start \/ g[i].time < end
       /\ s.g_int = During(ValuesOf(g), start, s.old_time)

LEMMA IntegratedFirst ==
  ASSUME NEW g \in Curve, NEW start \in 0 .. Half - 1, NEW end \in 0 .. Half - 1, start <= end
  PROVE  Integrated(g, start, end, 0, IntegralStart(start))
<1>1. Signed(start) = start /\ start \in Nat
  BY SignedSmall
<1>2. During(ValuesOf(g), start, start) = 0
  BY <1>1, DuringNothing
<1> QED
  BY <1>1, <1>2 DEF Integrated, IntegralStart, Accumulators, LastValue

\* A step that returns or goes on at a point behind the start.
LEMMA IntegralStepIs ==
  ASSUME NEW s \in Accumulators, NEW p \in Points, NEW start \in Nat, NEW end \in Nat,
         start < p.time
  PROVE  ~s.returned =>
           /\ IntegralStep(s, p, start, end).old_value = p.value
           /\ IntegralStep(s, p, start, end).old_time = Signed(p.time)
           /\ IntegralStep(s, p, start, end).g_int = Surface(s, p, start, end)
           /\ IntegralStep(s, p, start, end).returned <=> p.time >= end
           /\ Surface(s, p, start, end) \in Int
           /\ IntegralStep(s, p, start, end) \in Accumulators
<1> SUFFICES ASSUME ~s.returned
             PROVE  /\ IntegralStep(s, p, start, end).old_value = p.value
                    /\ IntegralStep(s, p, start, end).old_time = Signed(p.time)
                    /\ IntegralStep(s, p, start, end).g_int = Surface(s, p, start, end)
                    /\ IntegralStep(s, p, start, end).returned <=> p.time >= end
                    /\ Surface(s, p, start, end) \in Int
                    /\ IntegralStep(s, p, start, end) \in Accumulators
  OBVIOUS
<1>0. p.time \in Nat /\ p.value \in Values
  BY DEF Points
<1>1. p.time \in Nat /\ p.value \in Int /\ ~(p.time <= start) /\ Signed(p.time) \in Int
  <2>1. Signed(p.time) \in Values
    BY <1>0, SignedIsValue
  <2>2. Signed(p.time) \in Int /\ p.value \in Int
    BY <1>0, <2>1, ValuesAreInt
  <2> QED
    BY <1>0, <2>2
<1>2. Surface(s, p, start, end) \in Int
  <2>1. s.old_value \in Int /\ s.old_time \in Int /\ s.g_int \in Int
    BY DEF Accumulators
  <2> QED
    BY <1>1, <2>1 DEF Surface
<1>3. IntegralStep(s, p, start, end)
        = [old_value |-> p.value, old_time |-> Signed(p.time),
           g_int |-> Surface(s, p, start, end), returned |-> p.time >= end]
  BY <1>1, Zenon DEF IntegralStep
<1> DEFINE ends == p.time >= end
<1>4. ends \in BOOLEAN /\ (ends <=> p.time >= end)
  BY <1>1
<1>5. ASSUME NEW r, r = [old_value |-> p.value, old_time |-> Signed(p.time),
                         g_int |-> Surface(s, p, start, end), returned |-> ends]
      PROVE  /\ r.old_value = p.value /\ r.old_time = Signed(p.time)
             /\ r.g_int = Surface(s, p, start, end) /\ r.returned = ends
             /\ r \in Accumulators
  <2> HIDE DEF ends
  <2> QED
    BY <1>1, <1>2, <1>4, <1>5 DEF Accumulators
<1> HIDE DEF ends
<1>6. IntegralStep(s, p, start, end)
        = [old_value |-> p.value, old_time |-> Signed(p.time),
           g_int |-> Surface(s, p, start, end), returned |-> ends]
  BY <1>3 DEF ends
<1> QED
  BY <1>2, <1>4, <1>5, <1>6

LEMMA IntegratedNext ==
  ASSUME NEW g \in Curve, Ordered(g), NEW start \in 0 .. Half - 1, NEW end \in 0 .. Half - 1,
         start <= end,
         NEW i \in 0 .. Len(g) - 1, NEW s, Integrated(g, start, end, i, s)
  PROVE  Integrated(g, start, end, i + 1, IntegralStep(s, g[i + 1], start, end))
<1>1. Len(g) \in Nat /\ \A k \in 1 .. Len(g) : g[k] \in Points /\ g[k].time \in Nat /\ g[k].value \in Int
  BY PointsOf
<1>2. /\ i + 1 \in 1 .. Len(g) /\ i \in 0 .. Len(g) /\ i # Len(g) /\ i + 1 # 0
      /\ start \in Nat /\ end \in Nat
  BY <1>1
<1>3. PICK p \in Points : p = g[i + 1]
  BY <1>1, <1>2
<1>4. p.time \in Nat /\ p.value \in Int
  BY <1>1, <1>2, <1>3
<1>5. i # 0 => g[i].time \in Nat /\ g[i].time < p.time
  BY <1>1, <1>2, <1>3 DEF Ordered
<1>6. s \in Accumulators
  BY DEF Integrated
<1>7. CASE s.returned
  <2>1. IntegralStep(s, p, start, end) = s
    BY <1>7 DEF IntegralStep
  <2> QED
    BY <1>3, <1>6, <1>7, <2>1 DEF Integrated
<1>8. CASE ~s.returned /\ p.time <= start
  <2>1. IntegralStep(s, p, start, end) = [s EXCEPT !.old_value = p.value]
    BY <1>8 DEF IntegralStep
  <2>2. /\ s.old_time = start /\ start <= end
        /\ s.g_int = During(ValuesOf(g), start, start)
    BY <1>4, <1>5, <1>8 DEF Integrated
  <2>3. ASSUME NEW r, r = [s EXCEPT !.old_value = p.value]
        PROVE  /\ r.old_value = p.value /\ r.old_time = s.old_time /\ r.g_int = s.g_int
               /\ ~r.returned /\ r \in Accumulators
    BY <1>4, <1>6, <1>8, <2>3 DEF Accumulators
  <2>4. ASSUME NEW r, r = [s EXCEPT !.old_value = p.value]
        PROVE  Integrated(g, start, end, i + 1, r)
    <3>1. /\ r.old_value = g[i + 1].value /\ r.old_time = start
          /\ r.g_int = During(ValuesOf(g), start, r.old_time)
          /\ ~r.returned /\ r \in Accumulators /\ g[i + 1].time <= start
      BY <1>3, <1>8, <2>2, <2>3, <2>4
    <3> QED
      BY <1>2, <1>3, <1>4, <1>8, <2>2, <3>1 DEF Integrated, LastValue
  <2> QED
    BY <1>3, <2>1, <2>4
<1>9. CASE ~s.returned /\ ~(p.time <= start)
  <2> DEFINE v == LastValue(g, i)
  <2>0. start < p.time
    BY <1>2, <1>4, <1>9
  <2>1. PICK r : r = IntegralStep(s, p, start, end)
    OBVIOUS
  <2>2. /\ r.old_value = p.value /\ r.old_time = Signed(p.time)
        /\ r.g_int = Surface(s, p, start, end) /\ (r.returned <=> p.time >= end)
        /\ r \in Accumulators
    BY <1>2, <1>6, <1>9, <2>0, <2>1, IntegralStepIs
  <2>3. /\ s.old_value = v /\ s.old_time \in Nat /\ start <= s.old_time /\ s.old_time <= end
        /\ s.g_int = During(ValuesOf(g), start, s.old_time)
        /\ (i # 0 => g[i].time <= s.old_time) /\ s.old_time <= p.time
        /\ (s.old_time = start \/ (i # 0 /\ start < g[i].time /\ g[i].time < end))
    BY <1>2, <1>4, <1>5, <1>9, <2>0 DEF Integrated
  <2>4. CASE p.time > end
    <3>1. end <= g[i + 1].time
      BY <1>2, <1>3, <1>4, <2>4
    <3>2. /\ During(ValuesOf(g), start, end)
               = During(ValuesOf(g), start, s.old_time) + (end - s.old_time) * v
          /\ v \in Int
      BY <1>2, <2>3, <3>1, AreaGrows
    <3>3. Surface(s, p, start, end) = s.g_int + (end - start) * s.old_value
      BY <2>4 DEF Surface
    <3>4. Excess(g, start, end) = (s.old_time - start) * v
      <4>1. CASE i # 0 /\ start < g[i].time /\ g[i].time < end
        <5>1. i \in EndsBehind(g, start, end)
          BY <1>1, <1>2, <1>3, <1>4, <2>4, <4>1 DEF EndsBehind
        <5>2. s.old_time = g[i].time /\ v = g[i].value
          BY <1>9, <4>1 DEF Integrated, LastValue
        <5> QED
          BY <1>2, <5>1, <5>2, OneEndsBehind
      <4>2. CASE ~(i # 0 /\ start < g[i].time /\ g[i].time < end)
        <5>1. s.old_time = start
          BY <2>3, <4>2
        <5>2. i # 0 => g[i].time <= end
          BY <1>2, <1>5, <1>9, <2>3
        <5>3. Excess(g, start, end) = 0
          BY <1>2, <3>1, <4>2, <5>2, NoneEndsBehind
        <5> HIDE DEF v
        <5> QED
          BY <1>2, <3>2, <5>1, <5>3
      <4> QED
        BY <4>1, <4>2
    <3>5. r.g_int = During(ValuesOf(g), start, end) + Excess(g, start, end)
      <4>1. During(ValuesOf(g), start, s.old_time) \in Int
        BY <1>2, <2>3, AreaIsInt
      <4>2. r.g_int = During(ValuesOf(g), start, s.old_time) + (end - start) * v
        BY <2>2, <2>3, <3>3
      <4>3. (end - start) * v = (end - s.old_time) * v + (s.old_time - start) * v
        <5> HIDE DEF v
        <5> QED
          BY <1>2, <2>3, <3>2
      <4>4. (end - s.old_time) * v \in Int /\ (s.old_time - start) * v \in Int
        <5> HIDE DEF v
        <5> QED
          BY <1>2, <2>3, <3>2
      <4> HIDE DEF v
      <4> QED
        BY <3>2, <3>4, <4>1, <4>2, <4>3, <4>4
    <3>6. r.returned
      BY <1>2, <1>4, <2>2, <2>4
    <3>7. Integrated(g, start, end, i + 1, r)
      BY <2>2, <3>5, <3>6 DEF Integrated
    <3> QED
      BY <1>3, <2>1, <3>7
  <2>5. CASE ~(p.time > end)
    <3>1. p.time <= g[i + 1].time
      BY <1>3, <1>4
    <3>2. During(ValuesOf(g), start, p.time)
            = During(ValuesOf(g), start, s.old_time) + (p.time - s.old_time) * v
      <4>1. ASSUME NEW mid \in Nat, start <= mid, mid <= p.time, i # 0 => g[i].time <= mid
            PROVE  During(ValuesOf(g), start, p.time)
                     = During(ValuesOf(g), start, mid) + (p.time - mid) * v
        BY <1>2, <1>4, <3>1, <4>1, AreaGrows
      <4> QED
        BY <2>3, <4>1
    <3>3. Surface(s, p, start, end) = s.g_int + (p.time - s.old_time) * s.old_value
      BY <2>5 DEF Surface
    <3>4. Signed(p.time) = p.time
      <4>1. p.time \in 0 .. Half - 1
        BY <1>2, <1>4, <2>5, HalfOfModulus
      <4> QED
        BY <4>1, SignedSmall
    <3>5. r.g_int = During(ValuesOf(g), start, p.time) /\ r.old_time = p.time
      BY <2>2, <2>3, <3>2, <3>3, <3>4
    <3>6. p.time <= end /\ (r.returned => p.time = end) /\ (~r.returned => p.time < end)
      BY <1>2, <1>4, <2>2, <2>5
    <3>7. Integrated(g, start, end, i + 1, r)
      <4>1. r.returned => r.g_int = During(ValuesOf(g), start, end) + Excess(g, start, end)
        <5> SUFFICES ASSUME r.returned
                     PROVE  r.g_int = During(ValuesOf(g), start, end) + Excess(g, start, end)
          OBVIOUS
        <5>1. p.time = end
          BY <3>6
        <5>2. i # 0 => g[i].time <= end
          BY <1>2, <1>4, <1>5, <5>1
        <5>3. end = g[i + 1].time /\ end <= g[i + 1].time
          BY <1>2, <1>3, <5>1
        <5>4. Excess(g, start, end) = 0
          BY <1>2, <5>2, <5>3, NoneEndsBehind
        <5>5. During(ValuesOf(g), start, end) \in Int
          BY <1>2, AreaIsInt
        <5> QED
          BY <3>5, <5>1, <5>4, <5>5
      <4>2. /\ r.old_value = g[i + 1].value /\ start < g[i + 1].time
            /\ r.old_time = g[i + 1].time /\ r.old_time <= end
            /\ (~r.returned => g[i + 1].time < end)
            /\ r.g_int = During(ValuesOf(g), start, r.old_time)
        BY <1>3, <2>0, <2>2, <3>5, <3>6
      <4> QED
        BY <1>2, <2>2, <4>1, <4>2 DEF Integrated, LastValue
    <3> QED
      BY <1>3, <2>1, <3>7
  <2> QED
    BY <2>4, <2>5
<1> QED
  BY <1>7, <1>8, <1>9

LoopSteps(g, start, end, s) ==
  s = [i \in 0 .. Len(g) |->
         IF i = 0 THEN IntegralStart(start) ELSE IntegralStep(s[i - 1], g[i], start, end)]

LEMMA StepIsAccumulator ==
  ASSUME NEW s \in Accumulators, NEW p \in Points, NEW start \in Nat, NEW end \in Nat
  PROVE  IntegralStep(s, p, start, end) \in Accumulators
<1>1. p.time \in Nat /\ p.value \in Int
  BY ValuesAreInt DEF Points
<1>2. CASE s.returned
  BY <1>2 DEF IntegralStep
<1>3. CASE ~s.returned /\ p.time <= start
  <2>1. IntegralStep(s, p, start, end) = [s EXCEPT !.old_value = p.value]
    BY <1>3 DEF IntegralStep
  <2>2. [s EXCEPT !.old_value = p.value] \in Accumulators
    BY <1>1 DEF Accumulators
  <2> QED
    BY <2>1, <2>2
<1>4. CASE ~s.returned /\ start < p.time
  BY <1>4, IntegralStepIs
<1> QED
  BY <1>1, <1>2, <1>3, <1>4

\* The accumulators after each of the points.
LEMMA IntegralIs ==
  ASSUME NEW g \in Curve, NEW start \in 0 .. Half - 1, NEW end \in 0 .. Half - 1
  PROVE  \E s :
           /\ s[0] = IntegralStart(start)
           /\ \A i \in 0 .. Len(g) - 1 : s[i + 1] = IntegralStep(s[i], g[i + 1], start, end)
           /\ graph_integral(g, start, end)
                = IF s[Len(g)].returned THEN s[Len(g)].g_int
                  ELSE s[Len(g)].g_int + (end - s[Len(g)].old_time) * s[Len(g)].old_value
<1> DEFINE n == Len(g)
           base == IntegralStart(start)
           step == [i \in 0 .. n |-> [s \in Accumulators |->
                      IF i = 0 THEN s ELSE IntegralStep(s, g[i], start, end)]]
<1>1. n \in Nat /\ \A i \in 1 .. n : g[i] \in Points
  BY PointsOf
<1>2. start \in Nat /\ end \in Nat
  OBVIOUS
<1>3. base \in Accumulators
  <2>1. Signed(start) \in Values
    BY <1>2, SignedIsValue
  <2>2. Signed(start) \in Int
    BY <2>1, ValuesAreInt
  <2> QED
    BY <2>2 DEF IntegralStart, Accumulators
<1>4. step \in [0 .. n -> [Accumulators -> Accumulators]]
  <2>1. \A i \in 0 .. n : \A s \in Accumulators :
          (IF i = 0 THEN s ELSE IntegralStep(s, g[i], start, end)) \in Accumulators
    BY <1>1, <1>2, StepIsAccumulator
  <2> QED
    BY <2>1
<1>5. n \in Nat /\ 0 \in Nat /\ 0 <= n
  BY <1>1
<1> HIDE DEF step, n, base
<1>6. PICK k : Sums!Recurses(k, Accumulators, base, 0, n, step)
  BY <1>3, <1>4, <1>5, Sums!Recursion
<1>7. /\ k \in [0 .. n -> Accumulators] /\ k[0] = base
      /\ \A i \in 0 .. n : i # 0 => k[i] = step[i][k[i - 1]]
  BY <1>6 DEF Sums!Recurses
<1>8. ASSUME NEW i \in 0 .. n, i # 0 PROVE k[i] = IntegralStep(k[i - 1], g[i], start, end)
  <2>1. i - 1 \in 0 .. n
    BY <1>1, <1>8
  <2>2. k[i] = step[i][k[i - 1]] /\ k[i - 1] \in Accumulators
    BY <1>7, <1>8, <2>1
  <2> QED
    BY <1>8, <2>2 DEF step
<1>9. LoopSteps(g, start, end, k)
  BY <1>7, <1>8 DEF LoopSteps, n, base
<1> DEFINE s == CHOOSE r : LoopSteps(g, start, end, r)
<1>10. LoopSteps(g, start, end, s)
  BY <1>9
<1>11. graph_integral(g, start, end)
         = IF s[n].returned THEN s[n].g_int ELSE s[n].g_int + (end - s[n].old_time) * s[n].old_value
  BY DEF graph_integral, LoopSteps, n
<1> HIDE DEF s
<1>12. /\ \A i \in 0 .. n : s[i] = IF i = 0 THEN base
                                  ELSE IntegralStep(s[i - 1], g[i], start, end)
  BY <1>10 DEF LoopSteps, n, base
<1>13. s[0] = base
  BY <1>5, <1>12
<1>14. ASSUME NEW i \in 0 .. n - 1 PROVE s[i + 1] = IntegralStep(s[i], g[i + 1], start, end)
  <2>1. i + 1 \in 0 .. n /\ i + 1 # 0 /\ (i + 1) - 1 = i
    BY <1>5, <1>14
  <2>2. s[i + 1] = IntegralStep(s[(i + 1) - 1], g[i + 1], start, end)
    BY <1>12, <2>1
  <2> QED
    BY <2>1, <2>2
<1> QED
  BY <1>11, <1>13, <1>14 DEF n, base

LEMMA IntegralIsArea ==
  ASSUME NEW g \in Curve, Ordered(g), NEW start \in 0 .. Half - 1, NEW end \in 0 .. Half - 1,
         start <= end
  PROVE  graph_integral(g, start, end) = Area(g, start, end) + Excess(g, start, end)
<1> DEFINE n == Len(g)
<1>1. PICK s :
        /\ s[0] = IntegralStart(start)
        /\ \A i \in 0 .. n - 1 : s[i + 1] = IntegralStep(s[i], g[i + 1], start, end)
        /\ graph_integral(g, start, end)
             = IF s[n].returned THEN s[n].g_int
               ELSE s[n].g_int + (end - s[n].old_time) * s[n].old_value
  BY IntegralIs
<1>2. n \in Nat /\ n \in 0 .. Len(g) /\ start \in Nat /\ end \in Nat
      /\ \A i \in 1 .. n : g[i].time \in Nat
  BY PointsOf
<1> DEFINE Q == {i \in 0 .. n : Integrated(g, start, end, i, s[i])}
<1>3. 0 \in Q
  BY <1>1, <1>2, IntegratedFirst
<1>4. ASSUME NEW i \in 0 .. n, i # 0, i - 1 \in Q PROVE i \in Q
  <2>1. i - 1 \in 0 .. n - 1 /\ (i - 1) + 1 = i
    BY <1>2, <1>4
  <2>2. Integrated(g, start, end, (i - 1) + 1,
                   IntegralStep(s[i - 1], g[(i - 1) + 1], start, end))
    BY <1>4, <2>1, IntegratedNext
  <2>3. s[(i - 1) + 1] = IntegralStep(s[i - 1], g[(i - 1) + 1], start, end)
    BY <1>1, <2>1
  <2> QED
    BY <2>1, <2>2, <2>3
<1> HIDE DEF Q
<1>5. \A i \in 0 .. n : i \in Q
  BY <1>2, <1>3, <1>4, Sums!Induction
<1>6. Integrated(g, start, end, n, s[n])
  BY <1>2, <1>5 DEF Q
<1>7. CASE s[n].returned
  BY <1>1, <1>2, <1>6, <1>7, AreaIsDuring DEF Integrated
<1>8. CASE ~s[n].returned
  <2>1. /\ s[n].old_value = LastValue(g, n)
        /\ s[n].old_time \in Nat /\ start <= s[n].old_time /\ s[n].old_time <= end
        /\ s[n].g_int = During(ValuesOf(g), start, s[n].old_time)
        /\ n # 0 => g[n].time <= s[n].old_time
    BY <1>2, <1>6, <1>8 DEF Integrated
  <2>3. Excess(g, start, end) = 0
    <3>1. n # 0 => g[n].time <= end
      BY <1>2, <2>1
    <3> QED
      BY <1>2, <3>1, NoneEndsBehind
  <2>4. Area(g, start, end) \in Int
    BY <1>2, AreaIsDuring, AreaIsInt
  <2>2. During(ValuesOf(g), start, end)
          = During(ValuesOf(g), start, s[n].old_time) + (end - s[n].old_time) * LastValue(g, n)
    <3>1. ASSUME NEW mid \in Nat, start <= mid, mid <= end, n # 0 => g[n].time <= mid
          PROVE  During(ValuesOf(g), start, end)
                   = During(ValuesOf(g), start, mid) + (end - mid) * LastValue(g, n)
      BY <1>2, <3>1, AreaGrows
    <3> QED
      BY <2>1, <3>1
  <2> QED
    BY <1>1, <1>2, <1>8, <2>1, <2>2, <2>3, <2>4, AreaIsDuring
<1> QED
  BY <1>7, <1>8

LEMMA RestIsCurve ==
  ASSUME NEW g \in Curve, Ordered(g), NEW first \in {1, 2}
  PROVE  SubSeq(g, first, Len(g)) \in Curve /\ Ordered(SubSeq(g, first, Len(g)))
<1> DEFINE r == SubSeq(g, first, Len(g))
<1>1. Len(g) \in Nat /\ g \in Seq(Points) /\ \A i \in 1 .. Len(g) : g[i] \in Points
  BY PointsOf, CurveOfPoints
<1>2. Len(r) \in Nat /\ \A i \in 1 .. Len(r) : r[i] = g[first + i - 1] /\ first + i - 1 \in 1 .. Len(g)
  BY <1>1
<1>3. r \in Seq(Points)
  BY <1>1
<1> HIDE DEF r
<1>4. ASSUME NEW i \in 1 .. Len(r), NEW j \in 1 .. Len(r), i < j
      PROVE  r[i].time < r[j].time
  <2>1. /\ first + i - 1 \in 1 .. Len(g) /\ first + j - 1 \in 1 .. Len(g)
        /\ first + i - 1 < first + j - 1
        /\ r[i] = g[first + i - 1] /\ r[j] = g[first + j - 1]
    BY <1>2, <1>4
  <2>2. \A x, y \in 1 .. Len(g) : x < y => g[x].time < g[y].time
    BY DEF Ordered
  <2>3. g[first + i - 1].time < g[first + j - 1].time
    BY <2>1, <2>2, Zenon
  <2> QED
    BY <2>1, <2>3, Zenon
<1>5. Ordered(r)
  BY <1>4 DEF Ordered
<1> QED
  BY <1>3, <1>5, CurveOfPoints DEF r

\* graph_integral is the surface under a curve whose points are in order, but
\* for an interval that ends between two points of which the first is inside it:
\* there it also counts what that point's value is worth before its time
\* (lib/graph.c).
THEOREM IntegralsAreExact == Spec => []IntegralExact
<1>1. TypeOK => IntegralExact
  <2> SUFFICES ASSUME TypeOK, Ordered(output), NEW first \in {1, 2},
                      NEW start \in Moments, NEW end \in Moments, start <= end
               PROVE  graph_integral(SubSeq(output, first, Len(output)), start, end)
                        = Area(SubSeq(output, first, Len(output)), start, end)
                            + Excess(SubSeq(output, first, Len(output)), start, end)
    BY DEF IntegralExact
  <2>1. /\ SubSeq(output, first, Len(output)) \in Curve
        /\ Ordered(SubSeq(output, first, Len(output)))
    BY TheFourCurves, RestIsCurve
  <2>2. start \in 0 .. Half - 1 /\ end \in 0 .. Half - 1
    BY CurvesAssumption
  <2> QED
    BY <2>1, <2>2, IntegralIsArea
<1>2. IInv => TypeOK
  BY DEF IInv
<1> QED
  BY <1>1, <1>2, InvInit, InvStep, PTL DEF Spec

(***************************************************************************)
(* Quotients, squares and roots.                                           *)
(***************************************************************************)
LEMMA Quotient ==
  ASSUME NEW x \in Nat, NEW n \in Nat \ {0}
  PROVE  x \div n \in Nat /\ n * (x \div n) <= x /\ x < n * (x \div n + 1)
<1> DEFINE q == x \div n
<1>1. q \in Int /\ n * q <= x /\ x < n * (q + 1)
  OBVIOUS
<1>2. q >= 0
  BY <1>1
<1> QED
  BY <1>1, <1>2

LEMMA TimesLess ==
  ASSUME NEW n \in Nat \ {0}, NEW a1 \in Int, NEW b1 \in Int, n * a1 < n * b1
  PROVE  a1 < b1
<1> SUFFICES ASSUME b1 <= a1 PROVE FALSE
  OBVIOUS
<1>1. n * b1 <= n * a1
  OBVIOUS
<1> QED
  BY <1>1

LEMMA QuotientGrows ==
  ASSUME NEW x \in Nat, NEW y \in Nat, x <= y, NEW n \in Nat \ {0}
  PROVE  x \div n <= y \div n
<1> DEFINE p == x \div n
           q == y \div n
<1>1. p \in Nat /\ n * p <= x /\ q \in Nat /\ y < n * (q + 1)
  BY Quotient
<1> HIDE DEF p, q
<1>2. n * p < n * (q + 1)
  <2>1. n * p \in Int /\ n * (q + 1) \in Int
    BY <1>1
  <2> QED
    BY <1>1, <2>1
<1>3. p < q + 1
  BY <1>1, <1>2, TimesLess
<1> QED
  BY <1>1, <1>3 DEF p, q

LEMMA QuotientBounds ==
  ASSUME NEW x \in Nat, NEW n \in Nat \ {0}, NEW b1 \in Nat
  PROVE  /\ n * b1 <= x => b1 <= x \div n
         /\ x <= n * b1 => x \div n <= b1
<1> DEFINE q == x \div n
<1>1. q \in Nat /\ n * q <= x /\ x < n * (q + 1)
  BY Quotient
<1> HIDE DEF q
<1>2. n * q \in Int /\ n * (q + 1) \in Int /\ n * b1 \in Int /\ n * (b1 + 1) \in Int
  BY <1>1
<1>3. ASSUME n * b1 <= x PROVE b1 <= q
  <2>1. n * b1 < n * (q + 1)
    BY <1>1, <1>2, <1>3
  <2>2. b1 < q + 1
    BY <1>1, <2>1, TimesLess
  <2> QED
    BY <1>1, <2>2
<1>4. ASSUME x <= n * b1 PROVE q <= b1
  <2>1. n * (b1 + 1) = n * b1 + n
    OBVIOUS
  <2>2. n * q < n * (b1 + 1)
    BY <1>1, <1>2, <1>4, <2>1
  <2>3. q < b1 + 1
    BY <1>1, <2>2, TimesLess
  <2> QED
    BY <1>1, <2>3
<1> QED
  BY <1>3, <1>4 DEF q

LEMMA SquareLess ==
  ASSUME NEW x \in Nat, NEW y \in Nat, x * x <= y * y PROVE x <= y
<1> SUFFICES ASSUME y < x PROVE FALSE
  OBVIOUS
<1>1. x = y + (x - y) /\ x - y \in Nat \ {0}
  OBVIOUS
<1>2. PICK d \in Nat \ {0} : x = y + d
  BY <1>1
<1>3. x * x = y * y + 2 * (y * d) + d * d
  BY <1>2
<1>4. y * d \in Nat /\ d * d \in Nat \ {0} /\ y * y \in Nat
  OBVIOUS
<1> QED
  BY <1>3, <1>4

LEMMA RootIs ==
  ASSUME NEW x \in Nat
  PROVE  /\ Root(x) \in 0 .. x
         /\ Root(x) * Root(x) <= x
         /\ x < (Root(x) + 1) * (Root(x) + 1)
<1> DEFINE above == {r \in Nat : x < (r + 1) * (r + 1)}
<1>1. x \in above
  <2>1. (x + 1) * (x + 1) = x * x + 2 * x + 1 /\ x * x \in Nat
    OBVIOUS
  <2> QED
    BY <2>1
<1>2. PICK r \in above : \A y \in above : r <= y
  BY <1>1, Sums!LeastNatural
<1>3. r \in Nat /\ x < (r + 1) * (r + 1) /\ r <= x
  BY <1>1, <1>2
<1>4. r * r <= x
  <2>1. CASE r = 0
    BY <2>1
  <2>2. CASE r # 0
    <3>1. r - 1 \in Nat /\ r - 1 \notin above
      BY <1>2, <1>3, <2>2
    <3>2. ~(x < ((r - 1) + 1) * ((r - 1) + 1))
      BY <3>1
    <3>3. (r - 1) + 1 = r /\ r * r \in Nat
      BY <1>3
    <3> QED
      BY <3>2, <3>3
  <2> QED
    BY <2>1, <2>2
<1>5. \E q \in 0 .. x : q * q <= x /\ x < (q + 1) * (q + 1)
  BY <1>3, <1>4
<1> QED
  BY <1>5 DEF Root

(***************************************************************************)
(* Floats.                                                                 *)
(***************************************************************************)
IsTop(t) == \A s \in Steps : s <= t

LEMMA StepsAre ==
  /\ Precision \in Nat \ {0} /\ Steps \subseteq Nat \ {0} /\ 1 \in Steps
  /\ One \in Nat \ {0} /\ One \in Steps /\ Precision <= One
  BY FloatAssumption

LEMMA LeastIs ==
  ASSUME NEW S \in SUBSET Steps
  PROVE  /\ Least(S) \in Steps
         /\ S = {} => IsTop(Least(S))
         /\ S # {} => Least(S) \in S /\ \A s \in S : Least(S) <= s
<1>1. CASE S = {}
  <2>1. \E t \in Steps : \A s \in Steps : t >= s
    BY FloatAssumption
  <2>2. Max(Steps) \in Steps /\ \A s \in Steps : s <= Max(Steps)
    BY <2>1 DEF Max
  <2> QED
    BY <1>1, <2>2 DEF Least, IsTop
<1>2. CASE S # {}
  <2>1. S \in SUBSET Nat
    BY StepsAre
  <2>2. \E s \in S : \A t \in S : s <= t
    BY <1>2, <2>1, Sums!LeastNatural
  <2>3. Min(S) \in S /\ \A s \in S : Min(S) <= s
    BY <2>2 DEF Min
  <2> QED
    BY <1>2, <2>3 DEF Least
<1> QED
  BY <1>1, <1>2

\* A greater distance is at least twice as great.
LEMMA StepsDouble ==
  ASSUME NEW s \in Steps, NEW t \in Steps, s < t
  PROVE  /\ t % 2 = 0 /\ t \div 2 \in Steps /\ s <= t \div 2
         /\ t = 2 * (t \div 2) /\ t \div 2 < t
<1>1. s \in Nat \ {0} /\ t \in Nat \ {0}
  BY StepsAre
<1>2. t % 2 = 0 /\ t \div 2 \in Steps
  BY <1>1, FloatAssumption
<1>3. t % s = 0
  BY <1>1, FloatAssumption
<1>4. PICK k \in Nat : t = s * k
  <2>1. t = s * (t \div s) /\ t \div s \in Nat
    BY <1>1, <1>3
  <2> QED
    BY <2>1
<1>5. 2 * s <= t
  <2>1. k # 0 /\ k # 1
    BY <1>1, <1>4
  <2>2. 2 <= k
    BY <1>4, <2>1
  <2>3. s * 2 <= s * k
    BY <1>1, <1>4, <2>2
  <2> QED
    BY <1>1, <1>4, <2>3
<1> QED
  BY <1>1, <1>2, <1>5

\* The distance is so great that Precision of them reach the fraction, and no
\* smaller one is.
LEMMA StepIs ==
  ASSUME NEW x \in Nat, NEW y \in Nat \ {0}
  PROVE  /\ Step(x, y) \in Steps
         /\ x < Precision * Step(x, y) * y \/ IsTop(Step(x, y))
         /\ \A s \in Steps : x < Precision * s * y => Step(x, y) <= s
<1> DEFINE S == {s \in Steps : x < Precision * s * y}
<1>1. S \in SUBSET Steps /\ Step(x, y) = Least(S)
  BY DEF Step
<1>2. CASE S = {}
  BY <1>1, <1>2, LeastIs
<1>3. CASE S # {}
  <2>1. Least(S) \in S /\ \A s \in S : Least(S) <= s
    BY <1>1, <1>3, LeastIs
  <2> QED
    BY <1>1, <2>1
<1> QED
  BY <1>2, <1>3

\* Nearest is at most half away, and even if it is exactly that.
LEMMA NearestIs ==
  ASSUME NEW x \in Nat, NEW d \in Nat \ {0}
  PROVE  /\ Nearest(x, d) \in Nat
         /\ 2 * (d * Nearest(x, d)) - d <= 2 * x
         /\ 2 * x <= 2 * (d * Nearest(x, d)) + d
         /\ 2 * x = 2 * (d * Nearest(x, d)) + d => Nearest(x, d) % 2 = 0
         /\ 2 * x = 2 * (d * Nearest(x, d)) - d => Nearest(x, d) % 2 = 0
<1> DEFINE q == x \div d
           r == x % d
           isDown == 2 * r < d \/ (2 * r = d /\ q % 2 = 0)
<1>1. q \in Nat /\ r \in Nat /\ r < d /\ x = d * q + r
  OBVIOUS
<1>2. Nearest(x, d) = IF isDown THEN q ELSE q + 1
  BY DEF Nearest
<1> HIDE DEF q, r
<1>3. d * (q + 1) = d * q + d /\ d * q \in Nat
  BY <1>1
<1>4. q % 2 # 0 => (q + 1) % 2 = 0
  BY <1>1
<1>5. CASE isDown
  BY <1>1, <1>2, <1>3, <1>5
<1>6. CASE ~isDown
  BY <1>1, <1>2, <1>3, <1>4, <1>6
<1> QED
  BY <1>5, <1>6

LEMMA TimesAtMost ==
  ASSUME NEW n \in Nat \ {0}, NEW x \in Int, NEW y \in Int
  PROVE  n * x <= n * y <=> x <= y
<1>1. x <= y => n * x <= n * y
  OBVIOUS
<1>2. y < x => n * y < n * x
  OBVIOUS
<1>3. n * x \in Int /\ n * y \in Int
  OBVIOUS
<1> QED
  BY <1>1, <1>2, <1>3

LEMMA NearestBetween ==
  ASSUME NEW x \in Nat, NEW d \in Nat \ {0}, NEW k \in Nat
  PROVE  /\ x <= d * k => Nearest(x, d) <= k
         /\ d * k <= x => k <= Nearest(x, d)
<1> DEFINE r == Nearest(x, d)
<1>1. r \in Nat /\ 2 * (d * r) - d <= 2 * x /\ 2 * x <= 2 * (d * r) + d
  BY NearestIs
<1> HIDE DEF r
<1>2. d * r \in Int /\ d * k \in Int
  BY <1>1
<1>3. ASSUME x <= d * k PROVE r <= k
  <2>1. d * (2 * r) <= d * (2 * k + 1)
    <3>1. d * (2 * r) = 2 * (d * r) /\ d * (2 * k + 1) = 2 * (d * k) + d
      BY <1>1
    <3> QED
      BY <1>1, <1>2, <1>3, <3>1
  <2>2. 2 * r <= 2 * k + 1
    BY <1>1, <2>1, TimesAtMost
  <2> QED
    BY <1>1, <2>2
<1>4. ASSUME d * k <= x PROVE k <= r
  <2>1. d * (2 * k) <= d * (2 * r + 1)
    <3>1. d * (2 * k) = 2 * (d * k) /\ d * (2 * r + 1) = 2 * (d * r) + d
      BY <1>1
    <3> QED
      BY <1>1, <1>2, <1>4, <3>1
  <2>2. 2 * k <= 2 * r + 1
    BY <1>1, <2>1, TimesAtMost
  <2> QED
    BY <1>1, <2>2
<1> QED
  BY <1>3, <1>4 DEF r

\* A fraction that is not less is not nearest to less.
LEMMA NearestGrows ==
  ASSUME NEW x \in Nat, NEW d \in Nat \ {0}, NEW y \in Nat, NEW e \in Nat \ {0},
         x * e <= y * d
  PROVE  Nearest(x, d) <= Nearest(y, e)
<1> DEFINE p == Nearest(x, d)
           q == Nearest(y, e)
<1>1. /\ p \in Nat /\ 2 * (d * p) - d <= 2 * x
      /\ 2 * x = 2 * (d * p) - d => p % 2 = 0
  BY NearestIs
<1>2. /\ q \in Nat /\ 2 * y <= 2 * (e * q) + e
      /\ 2 * y = 2 * (e * q) + e => q % 2 = 0
  BY NearestIs
<1> HIDE DEF p, q
<1> SUFFICES ASSUME q < p PROVE FALSE
  BY <1>1, <1>2 DEF p, q
<1> DEFINE w == d * e
<1>3. w \in Nat \ {0}
  OBVIOUS
<1>4. w * (2 * p - 1) <= 2 * (x * e)
  <2>1. d * (2 * p - 1) <= 2 * x
    <3>1. d * (2 * p - 1) = 2 * (d * p) - d
      BY <1>1
    <3> QED
      BY <1>1, <3>1
  <2>2. e * (d * (2 * p - 1)) <= e * (2 * x)
    <3>1. d * (2 * p - 1) \in Int /\ 2 * x \in Int
      BY <1>1
    <3> QED
      BY <2>1, <3>1, TimesAtMost
  <2>3. w * (2 * p - 1) = e * (d * (2 * p - 1)) /\ e * (2 * x) = 2 * (x * e)
    BY <1>1
  <2> QED
    BY <2>2, <2>3
<1>5. 2 * (y * d) <= w * (2 * q + 1)
  <2>1. 2 * y <= e * (2 * q + 1)
    <3>1. e * (2 * q + 1) = 2 * (e * q) + e
      BY <1>2
    <3> QED
      BY <1>2, <3>1
  <2>2. d * (2 * y) <= d * (e * (2 * q + 1))
    <3>1. e * (2 * q + 1) \in Int /\ 2 * y \in Int
      BY <1>2
    <3> QED
      BY <2>1, <3>1, TimesAtMost
  <2>3. w * (2 * q + 1) = d * (e * (2 * q + 1)) /\ d * (2 * y) = 2 * (y * d)
    BY <1>2
  <2> QED
    BY <2>2, <2>3
<1>6. x * e \in Int /\ y * d \in Int /\ w * (2 * p - 1) \in Int /\ w * (2 * q + 1) \in Int
  BY <1>1, <1>2, <1>3
<1>7. w * (2 * p - 1) <= w * (2 * q + 1)
  <2> HIDE DEF w
  <2> QED
    BY <1>4, <1>5, <1>6
<1>8. 2 * p - 1 <= 2 * q + 1
  <2> HIDE DEF w
  <2> QED
    BY <1>1, <1>2, <1>3, <1>7, TimesAtMost
<1>9. p = q + 1
  BY <1>1, <1>2, <1>8
<1>10. w * (2 * p - 1) = 2 * (x * e) /\ 2 * (y * d) = w * (2 * q + 1)
  <2>1. 2 * p - 1 = 2 * q + 1
    BY <1>1, <1>2, <1>9
  <2> HIDE DEF w
  <2> QED
    BY <1>4, <1>5, <1>6, <2>1
<1>11. 2 * x = 2 * (d * p) - d
  <2>1. e * (2 * x) = e * (2 * (d * p) - d)
    <3>1. w * (2 * p - 1) = e * (2 * (d * p) - d)
      BY <1>1
    <3> QED
      BY <1>1, <1>10, <3>1
  <2>2. 2 * (d * p) - d \in Int
    BY <1>1
  <2> QED
    BY <2>1, <2>2, TimesAtMost
<1>12. 2 * y = 2 * (e * q) + e
  <2>1. d * (2 * y) = d * (2 * (e * q) + e)
    <3>1. w * (2 * q + 1) = d * (2 * (e * q) + e)
      BY <1>2
    <3> QED
      BY <1>2, <1>10, <3>1
  <2>2. 2 * (e * q) + e \in Int
    BY <1>2
  <2> QED
    BY <2>1, <2>2, TimesAtMost
<1>13. p % 2 = 0 /\ q % 2 = 0
  BY <1>1, <1>2, <1>11, <1>12
<1> QED
  BY <1>1, <1>2, <1>9, <1>13

\* The floats.
IsFloat(x) == \E s \in Steps : \E k \in Nat : x = s * k /\ (k <= Precision \/ IsTop(s))

LEMMA RoundIsFloat ==
  ASSUME NEW x \in Nat, NEW y \in Nat \ {0}
  PROVE  IsFloat(Round(x, y)) /\ Round(x, y) \in Nat
<1> DEFINE s == Step(x, y)
<1>1. s \in Steps /\ (x < Precision * s * y \/ IsTop(s))
  BY StepIs
<1> HIDE DEF s
<1>2. s \in Nat \ {0} /\ Precision \in Nat
  BY <1>1, StepsAre
<1>3. s * y \in Nat \ {0}
  BY <1>2
<1> DEFINE d == s * y
           k == Nearest(x, d)
<1>4. d \in Nat \ {0} /\ (x < d * Precision \/ IsTop(s))
  <2>1. Precision * s * y = d * Precision
    BY <1>2
  <2> QED
    BY <1>1, <1>3, <2>1
<1>5. Round(x, y) = s * k
  BY DEF Round, s
<1> HIDE DEF d
<1>6. k \in Nat
  BY <1>4, NearestIs
<1>7. k <= Precision \/ IsTop(s)
  <2>1. d * Precision \in Nat
    BY <1>2, <1>4
  <2>2. x < d * Precision => x <= d * Precision
    BY <2>1
  <2> QED
    BY <1>2, <1>4, <2>2, NearestBetween
<1> HIDE DEF k
<1> QED
  BY <1>1, <1>2, <1>5, <1>6, <1>7 DEF IsFloat

LEMMA IntegerIsFloat ==
  ASSUME NEW v \in 0 .. Precision PROVE IsFloat(v * One) /\ v * One \in Nat
<1>1. v \in Nat /\ One \in Steps /\ One \in Nat /\ v <= Precision
  BY StepsAre
<1>2. v * One = One * v
  BY <1>1
<1> QED
  BY <1>1, <1>2 DEF IsFloat

\* A float rounds to itself.
LEMMA RoundExact ==
  ASSUME NEW x \in Nat, IsFloat(x), NEW y \in Nat \ {0}
  PROVE  Round(x * y, y) = x
<1>1. PICK s \in Steps : \E k \in Nat : x = s * k /\ (k <= Precision \/ IsTop(s))
  BY DEF IsFloat
<1>2. PICK k \in Nat : x = s * k /\ (k <= Precision \/ IsTop(s))
  BY <1>1
<1> DEFINE t == Step(x * y, y)
<1>3. /\ x * y \in Nat /\ t \in Steps
      /\ \A u \in Steps : x * y < Precision * u * y => t <= u
  BY StepIs
<1> HIDE DEF t
<1>4. s \in Nat \ {0} /\ t \in Nat \ {0} /\ Precision \in Nat \ {0} /\ Precision % 2 = 0
  BY <1>3, StepsAre, FloatAssumption
<1>5. \E q \in Nat : x = t * q
  <2>1. CASE t <= s
    <3>1. s % t = 0
      BY <1>3, <2>1, FloatAssumption
    <3>2. s = t * (s \div t) /\ s \div t \in Nat
      BY <1>4, <3>1
    <3>3. x = t * ((s \div t) * k)
      <4> DEFINE c == s \div t
      <4>1. s = t * c /\ c \in Nat
        BY <3>2
      <4> HIDE DEF c
      <4>2. x = t * (c * k)
        BY <1>2, <1>4, <4>1
      <4> QED
        BY <4>2 DEF c
    <3>4. (s \div t) * k \in Nat
      BY <3>2
    <3> QED
      BY <3>3, <3>4
  <2>2. CASE s < t
    <3> DEFINE u == t \div 2
    <3>1. u \in Steps /\ s <= u /\ t = 2 * u /\ u < t
      BY <1>3, <2>2, StepsDouble
    <3> HIDE DEF u
    <3>2. u \in Nat \ {0}
      BY <3>1, StepsAre
    <3>3. ~(x * y < Precision * u * y)
      BY <1>3, <1>4, <3>1, <3>2
    <3>4. Precision * u <= x
      <4>1. Precision * u * y = y * (Precision * u) /\ x * y = y * x
        BY <1>4, <3>2
      <4>2. Precision * u \in Nat /\ Precision * u * y \in Nat
        BY <1>4, <3>2
      <4>3. y * (Precision * u) <= y * x
        BY <1>3, <3>3, <4>1, <4>2
      <4> QED
        BY <4>2, <4>3, TimesAtMost
    <3>5. k <= Precision
      BY <1>2, <1>3, <1>4, <2>2 DEF IsTop
    <3>6. x <= s * Precision
      BY <1>2, <1>4, <3>5
    <3>7. s * Precision <= Precision * u
      <4>1. Precision * s <= Precision * u
        BY <1>4, <3>1, <3>2, TimesAtMost
      <4> QED
        BY <1>4, <4>1
    <3>8. x = Precision * u
      <4>1. s * Precision \in Nat /\ Precision * u \in Nat
        BY <1>4, <3>2
      <4> QED
        BY <3>4, <3>6, <3>7, <4>1
    <3>9. PICK p \in Nat : Precision = 2 * p
      <4>1. Precision = 2 * (Precision \div 2) /\ Precision \div 2 \in Nat
        BY <1>4
      <4> QED
        BY <4>1
    <3>10. x = t * p
      BY <3>1, <3>2, <3>8, <3>9
    <3> QED
      BY <3>10
  <2> QED
    BY <1>4, <2>1, <2>2
<1>6. PICK q \in Nat : x = t * q
  BY <1>5
<1>7. t * y \in Nat \ {0} /\ x * y = (t * y) * q
  BY <1>4, <1>6
<1>8. Nearest(x * y, t * y) = q
  <2> DEFINE d == t * y
  <2>1. d \in Nat \ {0} /\ x * y = d * q
    BY <1>7
  <2> HIDE DEF d
  <2>2. d * q \in Nat
    BY <2>1
  <2>3. Nearest(d * q, d) \in Nat
    BY <2>1, <2>2, NearestIs
  <2>4. Nearest(d * q, d) <= q /\ q <= Nearest(d * q, d)
    BY <2>1, <2>2, NearestBetween
  <2>5. Nearest(d * q, d) = q
    BY <2>3, <2>4
  <2> QED
    BY <2>1, <2>5 DEF d
<1> QED
  BY <1>6, <1>8 DEF Round, t

\* Rounding keeps the order of fractions.
LEMMA RoundGrows ==
  ASSUME NEW x \in Nat, NEW y \in Nat \ {0}, NEW u \in Nat, NEW v \in Nat \ {0},
         x * v <= u * y
  PROVE  Round(x, y) <= Round(u, v)
<1> DEFINE s == Step(x, y)
           t == Step(u, v)
<1>1. /\ s \in Steps /\ (x < Precision * s * y \/ IsTop(s))
      /\ \A w \in Steps : x < Precision * w * y => s <= w
  BY StepIs
<1>2. /\ t \in Steps /\ (u < Precision * t * v \/ IsTop(t))
      /\ \A w \in Steps : u < Precision * w * v => t <= w
  BY StepIs
<1>3. Round(x, y) = s * Nearest(x, s * y) /\ Round(u, v) = t * Nearest(u, t * v)
  BY DEF Round
<1> HIDE DEF s, t
<1>4. s \in Nat \ {0} /\ t \in Nat \ {0} /\ Precision \in Nat \ {0} /\ Precision % 2 = 0
  BY <1>1, <1>2, StepsAre, FloatAssumption
<1>5. s * y \in Nat \ {0} /\ t * v \in Nat \ {0}
  BY <1>4
<1>6. s <= t
  <2>1. CASE IsTop(t)
    BY <1>1, <2>1 DEF IsTop
  <2>2. CASE u < Precision * t * v
    <3> DEFINE b == Precision * t
    <3>1. b \in Nat /\ Precision * t * v = v * b /\ Precision * t * y = y * b
      BY <1>4
    <3> HIDE DEF b
    <3>2. y * u < y * (v * b)
      <4>1. v * b \in Nat /\ u < v * b
        BY <2>2, <3>1
      <4> QED
        BY <4>1
    <3>3. v * x < v * (y * b)
      <4>1. v * x = x * v /\ y * u = u * y /\ v * (y * b) = y * (v * b)
        BY <3>1
      <4>2. x * v \in Nat /\ u * y \in Nat /\ y * (v * b) \in Nat
        BY <3>1
      <4> QED
        BY <3>2, <4>1, <4>2
    <3>4. x < y * b
      <4>1. y * b \in Nat
        BY <3>1
      <4> QED
        BY <3>3, <4>1, TimesLess
    <3> QED
      BY <1>1, <1>2, <3>1, <3>4
  <2> QED
    BY <1>2, <2>1, <2>2
<1>7. CASE s = t
  <2> DEFINE d == s * y
             e == t * v
  <2>1. d \in Nat \ {0} /\ e \in Nat \ {0}
    BY <1>5
  <2>2. x * e <= u * d
    <3>1. x * e = s * (x * v) /\ u * d = s * (u * y)
      BY <1>4, <1>7
    <3>2. s * (x * v) <= s * (u * y)
      <4>1. x * v \in Nat /\ u * y \in Nat
        OBVIOUS
      <4> QED
        BY <1>4, <4>1, TimesAtMost
    <3> QED
      BY <3>1, <3>2
  <2>3. Round(x, y) = s * Nearest(x, d) /\ Round(u, v) = s * Nearest(u, e)
    BY <1>3, <1>7
  <2> HIDE DEF d, e
  <2>4. Nearest(x, d) <= Nearest(u, e)
    BY <2>1, <2>2, NearestGrows
  <2>5. Nearest(x, d) \in Nat /\ Nearest(u, e) \in Nat
    BY <2>1, NearestIs
  <2> QED
    BY <1>4, <2>3, <2>4, <2>5, TimesAtMost
<1>8. CASE s < t
  <2> DEFINE w == t \div 2
             d == s * y
             e == t * v
  <2>1. d \in Nat \ {0} /\ e \in Nat \ {0}
    BY <1>5
  <2>2. w \in Steps /\ s <= w /\ t = 2 * w /\ w < t
    BY <1>1, <1>2, <1>8, StepsDouble
  <2> HIDE DEF w
  <2>3. w \in Nat \ {0}
    BY <2>2, StepsAre
  <2>4. PICK p \in Nat : Precision = 2 * p
    <3>1. Precision = 2 * (Precision \div 2) /\ Precision \div 2 \in Nat
      BY <1>4
    <3> QED
      BY <3>1
  <2>5. x < d * Precision
    <3>1. ~IsTop(s)
      BY <1>2, <1>4, <1>8 DEF IsTop
    <3>2. Precision * s * y = d * Precision
      BY <1>4
    <3> QED
      BY <1>1, <3>1, <3>2
  <2>6. e * p <= u
    <3>1. ~(u < Precision * w * v)
      BY <1>2, <1>4, <2>2, <2>3
    <3>2. Precision * w * v = e * p
      BY <2>2, <2>3, <2>4
    <3>3. e * p \in Nat
      BY <2>1, <2>4
    <3> QED
      BY <3>1, <3>2, <3>3
  <2>7. Round(x, y) = s * Nearest(x, d) /\ Round(u, v) = t * Nearest(u, e)
    BY <1>3
  <2> HIDE DEF d, e
  <2>8. Nearest(x, d) \in Nat /\ Nearest(x, d) <= Precision
    <3>1. d * Precision \in Nat
      BY <1>4, <2>1
    <3>2. x <= d * Precision
      BY <2>5, <3>1
    <3> QED
      BY <1>4, <2>1, <3>2, NearestIs, NearestBetween
  <2>9. Nearest(u, e) \in Nat /\ p <= Nearest(u, e)
    BY <2>1, <2>4, <2>6, NearestIs, NearestBetween
  <2> DEFINE q == Nearest(x, d)
             r == Nearest(u, e)
  <2>10. s * q <= s * Precision
    BY <1>4, <2>8, TimesAtMost
  <2>11. t * p <= t * r
    BY <1>4, <2>4, <2>9, TimesAtMost
  <2>12. s * Precision <= t * p
    <3>1. Precision * s <= Precision * w
      BY <1>4, <2>2, <2>3, TimesAtMost
    <3>2. Precision * w = t * p /\ Precision * s = s * Precision
      BY <1>4, <2>2, <2>3, <2>4
    <3> QED
      BY <3>1, <3>2
  <2>13. s * q \in Nat /\ s * Precision \in Nat /\ t * p \in Nat /\ t * r \in Nat
    BY <1>4, <2>4, <2>8, <2>9
  <2> HIDE DEF q, r
  <2>14. s * q <= t * r
    BY <2>10, <2>11, <2>12, <2>13
  <2> QED
    BY <2>7, <2>14 DEF q, r
<1> QED
  BY <1>4, <1>6, <1>7, <1>8

\* Floats on either side of a fraction stay there.
LEMMA RoundBetween ==
  ASSUME NEW x \in Nat, NEW y \in Nat \ {0}, NEW f \in Nat, IsFloat(f)
  PROVE  /\ f * y <= x => f <= Round(x, y)
         /\ x <= f * y => Round(x, y) <= f
<1>1. f * y \in Nat /\ Round(f * y, y) = f
  BY RoundExact
<1>2. ASSUME f * y <= x PROVE Round(f * y, y) <= Round(x, y)
  <2> DEFINE w == f * y
  <2>1. w \in Nat /\ w <= x
    BY <1>1, <1>2
  <2> HIDE DEF w
  <2>2. w * y <= x * y
    BY <2>1
  <2>3. Round(w, y) <= Round(x, y)
    BY <2>1, <2>2, RoundGrows
  <2> QED
    BY <2>3 DEF w
<1>3. ASSUME x <= f * y PROVE Round(x, y) <= Round(f * y, y)
  <2> DEFINE w == f * y
  <2>1. w \in Nat /\ x <= w
    BY <1>1, <1>3
  <2> HIDE DEF w
  <2>2. x * y <= w * y
    BY <2>1
  <2>3. Round(x, y) <= Round(w, y)
    BY <2>1, <2>2, RoundGrows
  <2> QED
    BY <2>3 DEF w
<1> QED
  BY <1>1, <1>2, <1>3

\* Rounding at most doubles.
LEMMA RoundTwice ==
  ASSUME NEW x \in Nat, NEW y \in Nat \ {0} PROVE y * Round(x, y) <= 2 * x
<1> DEFINE s == Step(x, y)
           d == s * y
           r == Nearest(x, d)
<1>1. s \in Nat \ {0}
  BY StepIs, StepsAre
<1>2. Round(x, y) = s * r
  BY DEF Round
<1> HIDE DEF s
<1>3. d \in Nat \ {0}
  BY <1>1
<1>4. y * Round(x, y) = d * r
  <2>1. r \in Nat
    BY <1>3, NearestIs
  <2> HIDE DEF r
  <2> QED
    BY <1>1, <1>2, <2>1
<1> HIDE DEF d
<1>5. r \in Nat /\ 2 * (d * r) - d <= 2 * x
  BY <1>3, NearestIs
<1> HIDE DEF r
<1>6. CASE r = 0
  BY <1>3, <1>4, <1>6
<1>7. CASE r # 0
  <2>1. d * 1 <= d * r /\ d * r \in Nat
    BY <1>3, <1>5, <1>7
  <2> QED
    BY <1>3, <1>4, <1>5, <2>1
<1> QED
  BY <1>6, <1>7

\* The square of a rounded root is at most four times too great.
LEMMA RoundRootIs ==
  ASSUME NEW x \in Nat
  PROVE  /\ RoundRoot(x) \in Nat
         /\ RoundRoot(x) * RoundRoot(x) <= 4 * x
         /\ x = 0 => RoundRoot(x) = 0
<1> DEFINE s == RootStep(x)
           z == s * s
           q == Root(x \div z)
           middle == (2 * q + 1) * s
           p == IF middle * middle < 4 * x THEN q + 1 ELSE q
<1>1. s \in Nat \ {0}
  <2>1. s \in Steps
    BY LeastIs DEF RootStep
  <2> QED
    BY <2>1, StepsAre
<1>2. RoundRoot(x) = s * p
  BY DEF RoundRoot
<1> HIDE DEF s
<1>3. z \in Nat \ {0}
  BY <1>1
<1>4. x \div z \in Nat /\ z * (x \div z) <= x
  <2> HIDE DEF z
  <2> QED
    BY <1>3, Quotient
<1>5. q \in Nat /\ q * q <= x \div z
  <2> HIDE DEF z
  <2> QED
    BY <1>4, RootIs
<1>6. z * (q * q) <= x
  <2> HIDE DEF q, z
  <2>1. q * q \in Nat
    BY <1>5
  <2>2. z * (q * q) <= z * (x \div z)
    BY <1>3, <1>4, <1>5, <2>1, TimesAtMost
  <2>3. z * (q * q) \in Nat /\ z * (x \div z) \in Nat
    BY <1>3, <1>4, <2>1
  <2> QED
    BY <1>4, <2>2, <2>3
<1> HIDE DEF q
<1>7. p \in Nat /\ s * p \in Nat
  <2>1. p \in Nat
    BY <1>5
  <2> HIDE DEF p
  <2> QED
    BY <1>1, <2>1
<1>8. CASE middle * middle < 4 * x
  <2>1. p = q + 1
    BY <1>8
  <2>2. 4 * ((s * (q + 1)) * (s * (q + 1))) <= 4 * (middle * middle)
    <3> DEFINE b == 2 * q + 2
               c == 2 * (2 * q + 1)
    <3>1. b \in Nat /\ c \in Nat /\ b <= c
      BY <1>5
    <3>2. 4 * ((s * (q + 1)) * (s * (q + 1))) = (b * b) * z
      BY <1>1, <1>5
    <3>3. 4 * (middle * middle) = (c * c) * z
      BY <1>1, <1>5
    <3> HIDE DEF b, c, z
    <3>4. b * b <= c * c
      BY <3>1
    <3>5. z * (b * b) <= z * (c * c)
      <4>1. b * b \in Nat /\ c * c \in Nat
        BY <3>1
      <4> QED
        BY <1>3, <3>4, <4>1, TimesAtMost
    <3>6. z * (b * b) = (b * b) * z /\ z * (c * c) = (c * c) * z
      BY <1>3, <3>1
    <3> QED
      BY <3>2, <3>3, <3>5, <3>6
  <2>3. middle * middle \in Nat /\ (s * (q + 1)) * (s * (q + 1)) \in Nat
    BY <1>1, <1>5
  <2>4. (s * (q + 1)) * (s * (q + 1)) <= 4 * x
    <3> HIDE DEF middle
    <3> QED
      BY <1>8, <2>2, <2>3
  <2>5. x # 0
    BY <1>8, <2>3
  <2> QED
    BY <1>2, <1>7, <2>1, <2>4, <2>5
<1>9. CASE ~(middle * middle < 4 * x)
  <2>1. p = q
    BY <1>9
  <2>2. (s * q) * (s * q) = z * (q * q)
    BY <1>1, <1>5
  <2>3. (s * q) * (s * q) <= 4 * x
    BY <1>3, <1>5, <1>6, <2>2
  <2>4. x = 0 => q = 0
    <3> SUFFICES ASSUME x = 0, q # 0 PROVE FALSE
      BY <1>5
    <3>1. q * q \in Nat \ {0}
      BY <1>5
    <3> HIDE DEF z
    <3>2. z * (q * q) \in Nat \ {0}
      BY <1>3, <3>1
    <3> QED
      BY <1>6, <3>2
  <2> QED
    BY <1>1, <1>2, <1>7, <2>1, <2>3, <2>4
<1> QED
  BY <1>8, <1>9

LEMMA RoundOnce ==
  ASSUME NEW x \in Nat PROVE Round(x, 1) \in Nat /\ IsFloat(Round(x, 1)) /\ Round(x, 1) <= 2 * x
<1>1. ASSUME NEW y \in Nat \ {0}, y = 1 PROVE Round(x, y) \in Nat /\ Round(x, y) <= 2 * x
  <2>1. y * Round(x, y) <= 2 * x /\ Round(x, y) \in Nat
    BY RoundTwice, RoundIsFloat
  <2> QED
    BY <1>1, <2>1
<1>2. IsFloat(Round(x, 1))
  BY RoundIsFloat
<1> QED
  BY <1>1, <1>2

\* The mean of a sum, of which each part is at most v.
LEMMA MeanBound ==
  ASSUME NEW sum \in Nat, NEW n \in Nat \ {0}, NEW v \in Nat, sum <= n * v
  PROVE  Mean(sum, n) \in Nat /\ IsFloat(Mean(sum, n)) /\ Mean(sum, n) <= 4 * (v * One)
<1> DEFINE c == sum * One
           r == Round(c, 1)
           b == v * One
<1>1. One \in Nat \ {0}
  BY StepsAre
<1>2. c \in Nat /\ b \in Nat /\ c <= n * b
  <2>1. n * b = (n * v) * One
    BY <1>1
  <2>2. n * v \in Nat /\ One * sum <= One * (n * v)
    BY <1>1, TimesAtMost
  <2>3. One * sum = c /\ One * (n * v) = (n * v) * One
    BY <1>1
  <2> QED
    BY <1>1, <2>1, <2>2, <2>3
<1> HIDE DEF c, b
<1>3. r \in Nat /\ r <= 2 * c
  BY <1>2, RoundOnce
<1>4. Mean(sum, n) = Round(r, n)
  BY DEF Mean, c
<1> HIDE DEF r
<1>5. n * Round(r, n) <= 2 * r /\ Round(r, n) \in Nat /\ IsFloat(Round(r, n))
  BY <1>3, RoundTwice, RoundIsFloat
<1> DEFINE q == Round(r, n)
<1>6. n * q <= n * (4 * b)
  <2>1. n * (4 * b) = 4 * (n * b) /\ n * b \in Nat
    BY <1>2
  <2>2. n * q \in Nat
    BY <1>5
  <2> HIDE DEF q
  <2> QED
    BY <1>2, <1>3, <1>5, <2>1, <2>2 DEF q
<1>7. q <= 4 * b
  <2>1. q \in Nat /\ 4 * b \in Nat
    BY <1>2, <1>5
  <2> HIDE DEF q
  <2> QED
    BY <1>6, <2>1, TimesAtMost
<1> QED
  BY <1>4, <1>5, <1>7 DEF b

\* The mean of a sum that a float can hold.
LEMMA MeanExact ==
  ASSUME NEW sum \in 0 .. Precision, NEW n \in Nat \ {0}
  PROVE  Mean(sum, n) = Round(sum * One, n)
<1>1. sum * One \in Nat /\ IsFloat(sum * One)
  BY IntegerIsFloat
<1>2. Round(sum * One, 1) = sum * One
  <2> DEFINE w == sum * One
  <2>1. w \in Nat /\ IsFloat(w) /\ w * 1 = w
    BY <1>1
  <2> HIDE DEF w
  <2>2. Round(w * 1, 1) = w
    BY <2>1, RoundExact
  <2> QED
    BY <2>1, <2>2 DEF w
<1> QED
  BY <1>2 DEF Mean

LEMMA MeanBetween ==
  ASSUME NEW sum \in 0 .. Precision, NEW n \in Nat \ {0}, NEW v \in 0 .. Precision
  PROVE  /\ n * v <= sum => v * One <= Mean(sum, n)
         /\ sum <= n * v => Mean(sum, n) <= v * One
<1>0. One \in Nat \ {0} /\ Precision \in Nat
  BY StepsAre
<1>1. sum \in Nat /\ v \in Nat
  BY <1>0
<1> DEFINE f == v * One
           c == sum * One
<1>2. f \in Nat /\ IsFloat(f) /\ c \in Nat
  BY <1>0, <1>1, IntegerIsFloat
<1>3. f * n = One * (n * v) /\ c = One * sum
  BY <1>0, <1>1
<1>4. n * v \in Nat
  BY <1>1
<1>5. /\ n * v <= sum => f * n <= c
      /\ sum <= n * v => c <= f * n
  <2> HIDE DEF f, c
  <2> QED
    BY <1>0, <1>1, <1>3, <1>4, TimesAtMost
<1>6. Mean(sum, n) = Round(c, n)
  BY MeanExact
<1> HIDE DEF f, c
<1>7. /\ f * n <= c => f <= Round(c, n)
      /\ c <= f * n => Round(c, n) <= f
  BY <1>2, RoundBetween
<1> QED
  BY <1>5, <1>6, <1>7 DEF f

\* The rounded root of what is at most twice a square.
LEMMA RootBound ==
  ASSUME NEW x \in Nat, NEW w \in Nat, x <= 8 * (w * w)
  PROVE  RoundRoot(x) \in Nat /\ RoundRoot(x) <= 6 * w
<1> DEFINE r == RoundRoot(x)
<1>1. r \in Nat /\ r * r <= 4 * x
  BY RoundRootIs
<1> HIDE DEF r
<1>2. w * w \in Nat /\ r * r \in Nat
  BY <1>1
<1>3. r * r <= (6 * w) * (6 * w)
  <2>1. (6 * w) * (6 * w) = 36 * (w * w)
    OBVIOUS
  <2> QED
    BY <1>1, <1>2, <2>1
<1>4. 6 * w \in Nat
  OBVIOUS
<1>5. r <= 6 * w
  BY <1>1, <1>3, <1>4, SquareLess
<1> QED
  BY <1>1, <1>5 DEF r

\* What the average and f times the deviation of samples up to v come to.
LEMMA HighBound ==
  ASSUME NEW v \in Nat, NEW f \in Nat, NEW A \in Nat, NEW B \in Nat, NEW C \in Nat,
         C <= B, A <= 4 * (v * One), B <= 4 * ((v * v) * One)
  PROVE  LET X == Round(f * RoundRoot(Round(B - C, 1) * One), 1)
         IN X \in Nat /\ Round(A + X, 1) \in Nat
              /\ Round(A + X, 1) <= ((24 * f + 8) * v) * One
<1> DEFINE b == v * One
           D == Round(B - C, 1)
           R == RoundRoot(D * One)
           X == Round(f * R, 1)
<1>1. One \in Nat \ {0}
  BY StepsAre
<1>2. b \in Nat /\ (v * v) * One \in Nat
  BY <1>1
<1>3. D \in Nat /\ D <= 8 * ((v * v) * One)
  <2> DEFINE z == B - C
             k == (v * v) * One
  <2>1. z \in Nat /\ z <= B /\ k \in Nat
    BY <1>2
  <2> HIDE DEF z, k
  <2>2. Round(z, 1) \in Nat /\ Round(z, 1) <= 2 * z
    BY <2>1, RoundOnce
  <2>3. B <= 4 * k
    BY DEF k
  <2>4. Round(z, 1) <= 8 * k
    BY <2>1, <2>2, <2>3
  <2> QED
    BY <2>2, <2>4 DEF z, k
<1> HIDE DEF D
<1>4. D * One \in Nat /\ D * One <= 8 * (b * b)
  <2> DEFINE k == (v * v) * One
  <2>1. k \in Nat /\ D <= 8 * k
    BY <1>2, <1>3
  <2>2. (8 * k) * One = 8 * (b * b)
    BY <1>1
  <2> HIDE DEF k
  <2>3. One * D <= One * (8 * k)
    <3>1. 8 * k \in Nat
      BY <2>1
    <3> QED
      BY <1>1, <1>3, <2>1, <3>1, TimesAtMost
  <2>4. D * One = One * D /\ (8 * k) * One = One * (8 * k) /\ D * One \in Nat
    BY <1>1, <1>3, <2>1
  <2> QED
    BY <2>2, <2>3, <2>4
<1>5. R \in Nat /\ R <= 6 * b
  <2> DEFINE c == D * One
  <2>1. c \in Nat /\ c <= 8 * (b * b)
    BY <1>4
  <2> HIDE DEF c, b
  <2> QED
    BY <1>2, <2>1, RootBound DEF c
<1> HIDE DEF R
<1>6. X \in Nat /\ X <= 12 * (f * b)
  <2> DEFINE c == f * R
  <2>1. c \in Nat /\ c <= 6 * (f * b)
    <3> HIDE DEF b
    <3>1. f * R <= f * (6 * b) /\ f * R \in Nat
      BY <1>2, <1>5
    <3>2. f * (6 * b) = 6 * (f * b)
      BY <1>2
    <3> QED
      BY <3>1, <3>2
  <2> HIDE DEF c
  <2>2. Round(c, 1) \in Nat /\ Round(c, 1) <= 2 * c
    BY <2>1, RoundOnce
  <2>3. f * b \in Nat
    BY <1>2
  <2> HIDE DEF b
  <2>4. Round(c, 1) <= 12 * (f * b)
    BY <2>1, <2>2, <2>3
  <2> QED
    BY <2>2, <2>4 DEF c
<1> HIDE DEF X
<1>7. Round(A + X, 1) \in Nat /\ Round(A + X, 1) <= 24 * (f * b) + 8 * b
  <2> DEFINE c == A + X
  <2>1. c \in Nat /\ c <= 12 * (f * b) + 4 * b
    <3>1. A <= 4 * b
      OBVIOUS
    <3> HIDE DEF b
    <3>2. f * b \in Nat
      BY <1>2
    <3> QED
      BY <1>2, <1>6, <3>1, <3>2
  <2> HIDE DEF c
  <2>2. Round(c, 1) \in Nat /\ Round(c, 1) <= 2 * c
    BY <2>1, RoundOnce
  <2>3. f * b \in Nat
    BY <1>2
  <2> HIDE DEF b
  <2>4. Round(c, 1) <= 24 * (f * b) + 8 * b
    BY <1>2, <2>1, <2>2, <2>3
  <2> QED
    BY <2>2, <2>4 DEF c
<1>8. 24 * (f * b) + 8 * b = ((24 * f + 8) * v) * One
  BY <1>1
<1> QED
  BY <1>6, <1>7, <1>8 DEF X, R, D

\* Of samples that are not all the same, and so small that a float can hold six
\* times the sum of their squares, the square of the rounded mean is at most the
\* mean of the squares.
LEMMA SquareOfMean ==
  ASSUME NEW n \in Nat, 2 <= n, n <= Precision, NEW S \in Nat, NEW Q \in Nat,
         S <= Q, 6 * Q <= Precision, n * Q - S * S >= n - 1,
         NEW A, A = Round(S * One, n)
  PROVE  n * (A * A) <= Q * (One * One)
<1> DEFINE C == S * One
           s == Step(C, n)
           w == s * n
           B == n * A
           z == One * One
<1>1. One \in Nat \ {0} /\ Precision \in Nat \ {0} /\ Precision <= One /\ n \in Nat \ {0}
  BY StepsAre
<1>2. C \in Nat
  BY <1>1
<1>3. s \in Steps /\ \A t \in Steps : C < Precision * t * n => s <= t
  <2> HIDE DEF C
  <2> QED
    BY <1>1, <1>2, StepIs
<1>4. A = s * Nearest(C, w)
  BY DEF Round
<1> HIDE DEF s
<1>5. s \in Nat \ {0}
  BY <1>3, StepsAre
<1>6. w \in Nat \ {0}
  BY <1>1, <1>5
<1>7. A \in Nat /\ 2 * B <= 2 * C + w
  <2> DEFINE r == Nearest(C, w)
  <2>1. r \in Nat /\ 2 * (w * r) - w <= 2 * C
    <3> HIDE DEF C, w
    <3> QED
      BY <1>2, <1>6, NearestIs
  <2>2. w * r = n * (s * r) /\ s * r \in Nat
    <3> HIDE DEF r
    <3> QED
      BY <1>1, <1>5, <2>1
  <2>3. A = s * r
    BY <1>4
  <2>4. w * r = B /\ A \in Nat
    BY <2>2, <2>3
  <2>5. B \in Nat
    BY <1>1, <2>4
  <2> HIDE DEF C, w, r, B
  <2> QED
    BY <1>2, <1>6, <2>1, <2>4, <2>5
<1>8. B \in Nat /\ z \in Nat \ {0} /\ C * C = (S * S) * z
  BY <1>1, <1>7
<1>9. 4 * (C * w) + w * w <= 2 * (n * z)
  <2>1. C * w \in Nat /\ w * w \in Nat /\ C * C \in Nat /\ n * z \in Nat
    BY <1>1, <1>2, <1>6, <1>8
  <2>2. CASE s = 1
    <3>1. w = n
      BY <1>1, <2>2
    <3>2. 6 * (C * n) <= n * z
      <4>1. 6 * S <= One
        BY <1>1
      <4>2. One * (6 * S) <= One * One
        BY <1>1, <4>1
      <4>3. 6 * C <= z
        BY <1>1, <4>2
      <4>4. n * (6 * C) <= n * z
        BY <1>1, <1>2, <1>8, <4>3, TimesAtMost
      <4>5. n * (6 * C) = 6 * (C * n)
        BY <1>1, <1>2
      <4> QED
        BY <4>4, <4>5
    <3>3. n * n <= n * z
      <4>1. n <= One /\ One <= One * One
        BY <1>1
      <4>2. n <= z
        BY <1>1, <4>1
      <4> QED
        BY <1>1, <1>8, <4>2, TimesAtMost
    <3>4. C * n \in Nat /\ n * n \in Nat
      BY <1>1, <1>2
    <3> HIDE DEF C, z, w
    <3> QED
      BY <2>1, <3>1, <3>2, <3>3, <3>4
  <2>3. CASE s # 1
    <3>1. 1 < s /\ 1 \in Steps
      BY <1>5, <2>3, StepsAre
    <3> DEFINE u == s \div 2
    <3>2. u \in Steps /\ s = 2 * u /\ u < s
      BY <1>3, <3>1, StepsDouble
    <3> HIDE DEF u
    <3>3. u \in Nat \ {0}
      BY <3>2, StepsAre
    <3>4. Precision * u * n <= C
      <4>1. ~(C < Precision * u * n)
        BY <1>3, <1>5, <3>2, <3>3
      <4>2. Precision * u * n \in Nat
        BY <1>1, <3>3
      <4> HIDE DEF C
      <4> QED
        BY <1>2, <4>1, <4>2
    <3>5. Precision * w <= 2 * C
      <4>1. Precision * w = 2 * (Precision * u * n) /\ Precision * u * n \in Nat
        BY <1>1, <3>2, <3>3
      <4> HIDE DEF C, w
      <4> QED
        BY <1>2, <3>4, <4>1
    <3>6. Precision * (4 * (C * w)) <= 8 * (C * C)
      <4> HIDE DEF C, w
      <4>1. C * (Precision * w) <= C * (2 * C)
        <5>1. Precision * w \in Nat
          BY <1>1, <1>6
        <5> QED
          BY <1>2, <3>5, <5>1
      <4>2. C * (Precision * w) = Precision * (C * w) /\ C * (2 * C) = 2 * (C * C)
        BY <1>1, <1>2, <1>6
      <4>3. Precision * (4 * (C * w)) = 4 * (Precision * (C * w)) /\ Precision * (C * w) \in Nat
        BY <1>1, <2>1
      <4> QED
        BY <2>1, <4>1, <4>2, <4>3
    <3>7. Precision * (w * w) <= 4 * (C * C)
      <4> HIDE DEF C, w
      <4> DEFINE k == Precision * w
      <4>1. k \in Nat /\ k <= 2 * C /\ w <= k
        BY <1>1, <1>6, <3>5
      <4>2. Precision * (w * w) = w * k
        BY <1>1, <1>6
      <4> HIDE DEF k
      <4>3. w * k <= k * k /\ k * k <= (2 * C) * (2 * C)
        BY <1>2, <1>6, <4>1
      <4>4. (2 * C) * (2 * C) = 4 * (C * C) /\ w * k \in Nat /\ k * k \in Nat
        BY <1>2, <1>6, <4>1
      <4> QED
        BY <2>1, <4>2, <4>3, <4>4
    <3>8. 12 * (C * C) <= Precision * (2 * (n * z))
      <4>1. S * S <= n * Q /\ S * S \in Nat /\ n * Q \in Nat
        BY <1>1
      <4>2. n * (6 * Q) <= n * Precision
        <5>1. 6 * Q \in Nat
          OBVIOUS
        <5> QED
          BY <1>1, <5>1, TimesAtMost
      <4>3. n * (6 * Q) = 6 * (n * Q) /\ n * Precision \in Nat
        BY <1>1
      <4>4. 6 * (S * S) <= n * Precision
        BY <4>1, <4>2, <4>3
      <4> HIDE DEF C, z
      <4>5. z * (6 * (S * S)) <= z * (n * Precision)
        <5>1. 6 * (S * S) \in Nat
          BY <4>1
        <5> QED
          BY <1>8, <4>3, <4>4, <5>1, TimesAtMost
      <4>6. z * (6 * (S * S)) = 6 * (C * C)
        <5>1. z * (6 * (S * S)) = 6 * ((S * S) * z)
          BY <1>8
        <5> QED
          BY <1>8, <5>1
      <4>7. z * (n * Precision) = Precision * (n * z)
        BY <1>1, <1>8
      <4>8. Precision * (2 * (n * z)) = 2 * (Precision * (n * z)) /\ Precision * (n * z) \in Nat
        BY <1>1, <2>1
      <4> QED
        BY <2>1, <4>5, <4>6, <4>7, <4>8
    <3> DEFINE c == 4 * (C * w) + w * w
               e == 2 * (n * z)
    <3>9. c \in Nat /\ e \in Nat
      BY <2>1
    <3>10. Precision * c <= Precision * e
      <4>1. Precision * c = Precision * (4 * (C * w)) + Precision * (w * w)
        <5> DEFINE j == C * w
                   i == w * w
        <5>1. j \in Nat /\ i \in Nat
          BY <2>1
        <5> HIDE DEF j, i
        <5>2. Precision * (4 * j + i) = Precision * (4 * j) + Precision * i
          BY <1>1, <5>1
        <5> QED
          BY <5>2 DEF j, i
      <4>2. Precision * (4 * (C * w)) \in Nat /\ Precision * (w * w) \in Nat
             /\ Precision * e \in Nat
        BY <1>1, <2>1
      <4> HIDE DEF C, w, z, c
      <4> QED
        BY <2>1, <3>6, <3>7, <3>8, <4>1, <4>2
    <3> HIDE DEF c, e
    <3>11. c <= e
      BY <1>1, <3>9, <3>10, TimesAtMost
    <3> QED
      BY <3>11 DEF c, e
  <2> QED
    BY <2>2, <2>3
<1>10. 4 * (B * B) <= 4 * (C * C) + 4 * (C * w) + w * w
  <2> HIDE DEF B, C, w
  <2>1. (2 * B) * (2 * B) <= (2 * C + w) * (2 * C + w)
    BY <1>2, <1>6, <1>7, <1>8
  <2>2. /\ (2 * B) * (2 * B) = 4 * (B * B)
        /\ (2 * C + w) * (2 * C + w) = 4 * (C * C) + 4 * (C * w) + w * w
    BY <1>2, <1>6, <1>8
  <2> QED
    BY <2>1, <2>2
<1>11. C * C + (n - 1) * z <= (n * Q) * z
  <2> DEFINE b == S * S
             e == n * Q
  <2>1. b \in Nat /\ e \in Nat /\ b + (n - 1) <= e
    OBVIOUS
  <2> HIDE DEF z
  <2>2. C * C = b * z
    BY <1>8
  <2> HIDE DEF b, e, C
  <2>3. z * (b + (n - 1)) <= z * e
    <3>1. b + (n - 1) \in Nat
      BY <1>1, <2>1
    <3> QED
      BY <1>8, <2>1, <3>1, TimesAtMost
  <2>4. z * (b + (n - 1)) = b * z + (n - 1) * z /\ z * e = e * z
    BY <1>1, <1>8, <2>1
  <2>5. e * z = (n * Q) * z
    BY DEF e
  <2> QED
    BY <2>2, <2>3, <2>4, <2>5
<1>12. 2 * (n * z) <= 4 * ((n - 1) * z)
  <2> HIDE DEF z
  <2>1. z * (2 * n) <= z * (4 * (n - 1))
    <3>1. 2 * n <= 4 * (n - 1) /\ 2 * n \in Nat /\ 4 * (n - 1) \in Nat
      BY <1>1
    <3> QED
      BY <1>8, <3>1, TimesAtMost
  <2>2. z * (2 * n) = 2 * (n * z) /\ z * (4 * (n - 1)) = 4 * ((n - 1) * z)
    BY <1>1, <1>8
  <2> QED
    BY <2>1, <2>2
<1>13. B * B <= (n * Q) * z
  <2>1. /\ B * B \in Nat /\ C * C \in Nat /\ C * w \in Nat /\ w * w \in Nat
        /\ n * z \in Nat /\ (n - 1) * z \in Nat /\ (n * Q) * z \in Nat
    <3>1. n * Q \in Nat /\ n - 1 \in Nat
      BY <1>1
    <3> HIDE DEF B, C, w, z
    <3> QED
      BY <1>1, <1>2, <1>6, <1>8, <3>1
  <2> HIDE DEF B, C, w, z
  <2> QED
    BY <1>9, <1>10, <1>11, <1>12, <2>1
<1>14. n * (n * (A * A)) <= n * (Q * z)
  <2>1. B * B = n * (n * (A * A)) /\ (n * Q) * z = n * (Q * z)
    BY <1>1, <1>7, <1>8
  <2> QED
    BY <1>13, <2>1
<1>15. n * (A * A) \in Nat /\ Q * z \in Nat
  BY <1>1, <1>7, <1>8
<1> HIDE DEF z
<1>16. n * (A * A) <= Q * z
  BY <1>1, <1>14, <1>15, TimesAtMost
<1> QED
  BY <1>16 DEF z

(***************************************************************************)
(* The sums of a history whose squares fit.                                *)
(***************************************************************************)
Wrapped(x) == x % SumModulus

Added == INSTANCE FoldTheorems
  WITH Op <- LAMBDA x, y : Wrapped(y + x), Base <- 0, Pick <- LAMBDA S : Max(S), D <- Int

Squared == INSTANCE FoldTheorems
  WITH Op <- LAMBDA x, y : Wrapped(y + Signed(x * x)), Base <- 0,
       Pick <- LAMBDA S : Max(S), D <- Int

LEMMA WrappedSmall == ASSUME NEW x \in Nat, x < SumModulus PROVE Wrapped(x) = x
  BY AverageAssumption DEF Wrapped

LEMMA GreatestIsMax ==
  ASSUME NEW S \in SUBSET Int, IsFiniteSet(S), S # {}
  PROVE  /\ Max(S) \in S /\ \A x \in S : x <= Max(S)
         /\ Min(S) \in S /\ \A x \in S : Min(S) <= x
<1>1. Sums!IsFiniteSet(S)
  BY DEF IsFiniteSet, Sums!IsFiniteSet
<1>2. /\ \E x \in S : \A y \in S : y <= x
      /\ \E x \in S : \A y \in S : x <= y
  BY <1>1, Sums!GreatestAndLeast
<1>3. \E x \in S : \A y \in S : x >= y
  BY <1>2
<1> QED
  BY <1>2, <1>3 DEF Max, Min

LEMMA SumStep ==
  /\ Sum(<< >>) = 0
  /\ \A s \in Seq(Int), x \in Int : Sum(Append(s, x)) = Wrapped(Sum(s) + x)
<1>1. \A s : Sum(s) = Added!FoldOn(s, DOMAIN s)
  BY DEF Sum, FoldLeft, Added!FoldOn, MapThenFoldSet, Added!MapThenFoldSet, Wrapped
<1>2. Sum(<< >>) = 0
  <2>1. DOMAIN << >> = {}
    OBVIOUS
  <2>2. Added!FoldOn(<< >>, {}) = 0
    BY Added!FoldEmpty
  <2> QED
    BY <1>1, <2>1, <2>2
<1>3. ASSUME NEW s \in Seq(Int), NEW x \in Int
      PROVE  Sum(Append(s, x)) = Wrapped(Sum(s) + x)
  <2>1. ASSUME NEW t \in SUBSET Nat, t # {}, Added!IsFiniteSet(t)
        PROVE  Max(t) \in t /\ \A i \in t : i <= Max(t)
    <3>1. IsFiniteSet(t) /\ t \in SUBSET Int
      BY <2>1 DEF IsFiniteSet, Added!IsFiniteSet
    <3> QED
      BY <2>1, <3>1, GreatestIsMax
  <2>2. Added!FoldOn(Append(s, x), DOMAIN Append(s, x))
          = Wrapped(Added!FoldOn(s, DOMAIN s) + x)
    BY <2>1, Added!FoldAppended
  <2> QED
    BY <1>1, <2>2
<1> QED
  BY <1>2, <1>3

LEMMA SumOfSquaresStep ==
  /\ SumOfSquares(<< >>) = 0
  /\ \A s \in Seq(Int), x \in Int :
       SumOfSquares(Append(s, x)) = Wrapped(SumOfSquares(s) + Signed(x * x))
<1>1. \A s : SumOfSquares(s) = Squared!FoldOn(s, DOMAIN s)
  BY DEF SumOfSquares, FoldLeft, Squared!FoldOn, MapThenFoldSet, Squared!MapThenFoldSet, Wrapped
<1>2. SumOfSquares(<< >>) = 0
  <2>1. DOMAIN << >> = {}
    OBVIOUS
  <2>2. Squared!FoldOn(<< >>, {}) = 0
    BY Squared!FoldEmpty
  <2> QED
    BY <1>1, <2>1, <2>2
<1>3. ASSUME NEW s \in Seq(Int), NEW x \in Int
      PROVE  SumOfSquares(Append(s, x)) = Wrapped(SumOfSquares(s) + Signed(x * x))
  <2>1. ASSUME NEW t \in SUBSET Nat, t # {}, Squared!IsFiniteSet(t)
        PROVE  Max(t) \in t /\ \A i \in t : i <= Max(t)
    <3>1. IsFiniteSet(t) /\ t \in SUBSET Int
      BY <2>1 DEF IsFiniteSet, Squared!IsFiniteSet
    <3> QED
      BY <2>1, <3>1, GreatestIsMax
  <2>2. Squared!FoldOn(Append(s, x), DOMAIN Append(s, x))
          = Wrapped(Squared!FoldOn(s, DOMAIN s) + Signed(x * x))
    BY <2>1, Squared!FoldAppended
  <2> QED
    BY <1>1, <2>2
<1> QED
  BY <1>2, <1>3

\* The samples of Fits.
Samples == {v \in Nat : v * v < Half}

LEMMA SamplesFit ==
  ASSUME NEW v \in Samples PROVE v \in Nat /\ v * v \in Nat /\ v <= v * v /\ v * v <= Half - 1 /\ v <= Half - 1
<1>1. v \in Nat /\ v * v \in Nat /\ v * v < Half /\ Half \in Nat
  BY HalfOfModulus DEF Samples
<1>2. v <= v * v
  BY <1>1
<1> QED
  BY <1>1, <1>2

\* The number of samples, their sum and the sum of their squares.
Sound(s, n, S, Q) ==
  /\ S \in Nat /\ Q \in Nat /\ S <= Q
  /\ S <= n * (Half - 1) /\ Q <= n * (Half - 1)
  /\ \A v \in Nat :
       /\ (\A i \in 1 .. n : v <= s[i]) => n * v <= S
       /\ (\A i \in 1 .. n : s[i] <= v) => S <= n * v /\ Q <= n * (v * v)
       /\ (\A i \in 1 .. n : s[i] = v) => S = n * v /\ Q = n * (v * v)
       /\ Q - 2 * (v * S) + n * (v * v) >= 0
       /\ (\E i \in 1 .. n : s[i] # v) => Q - 2 * (v * S) + n * (v * v) >= 1
  /\ (\E i, j \in 1 .. n : s[i] # s[j]) => n * Q - S * S >= n - 1

\* What a value adds to the squares of the distances between the samples.
LEMMA SpreadMore ==
  ASSUME NEW n \in Nat, NEW S \in Int, NEW Q \in Int, NEW x \in Int
  PROVE  (n + 1) * (Q + x * x) - (S + x) * (S + x)
           = (n * Q - S * S) + (Q - 2 * (x * S) + n * (x * x))
<1>1. (n + 1) * (Q + x * x) = n * Q + n * (x * x) + Q + x * x
  OBVIOUS
<1>2. (S + x) * (S + x) = S * S + 2 * (x * S) + x * x
  OBVIOUS
<1>3. n * Q \in Int /\ n * (x * x) \in Int /\ S * S \in Int /\ x * S \in Int /\ x * x \in Int
  OBVIOUS
<1> QED
  BY <1>1, <1>2, <1>3

LEMMA SquareOfDistance ==
  ASSUME NEW x \in Int, NEW y \in Int
  PROVE  /\ x * x - 2 * (y * x) + y * y \in Nat
         /\ x # y => x * x - 2 * (y * x) + y * y >= 1
<1>1. x * x - 2 * (y * x) + y * y = (x - y) * (x - y)
  OBVIOUS
<1>2. (x - y) * (x - y) \in Nat /\ (x # y => (x - y) * (x - y) >= 1)
  OBVIOUS
<1> QED
  BY <1>1, <1>2

LEMMA SoundMore ==
  ASSUME NEW s \in Seq(Samples), NEW x \in Samples, NEW S, NEW Q, Sound(s, Len(s), S, Q)
  PROVE  Sound(Append(s, x), Len(s) + 1, S + x, Q + x * x)
<1> DEFINE t == Append(s, x)
           n == Len(s)
<1>1. /\ n \in Nat /\ t[n + 1] = x /\ \A i \in 1 .. n : t[i] = s[i] /\ i \in 1 .. n + 1
      /\ n + 1 \in 1 .. n + 1
  OBVIOUS
<1>2. /\ x \in Nat /\ x * x \in Nat /\ x <= x * x
      /\ x <= Half - 1 /\ x * x <= Half - 1 /\ Half \in Nat
  BY SamplesFit, HalfOfModulus
<1>3. S \in Nat /\ Q \in Nat /\ S <= Q
  BY DEF Sound
<1>10. \A i \in 1 .. n : s[i] \in Nat
  BY DEF Samples
<1> HIDE DEF n, t
<1>4. (S + x) <= (n + 1) * (Half - 1) /\ Q + x * x <= (n + 1) * (Half - 1)
  <2>1. (n + 1) * (Half - 1) = n * (Half - 1) + (Half - 1) /\ n * (Half - 1) \in Int
    BY <1>1, <1>2
  <2>2. S <= n * (Half - 1) /\ Q <= n * (Half - 1)
    BY DEF Sound, n
  <2> QED
    BY <1>2, <1>3, <2>1, <2>2
<1>5. ASSUME NEW v \in Nat
      PROVE  /\ (Q + x * x) - 2 * (v * (S + x)) + (n + 1) * (v * v) >= 0
             /\ (\E i \in 1 .. n + 1 : t[i] # v)
                  => (Q + x * x) - 2 * (v * (S + x)) + (n + 1) * (v * v) >= 1
  <2> DEFINE d == Q - 2 * (v * S) + n * (v * v)
             e == x * x - 2 * (v * x) + v * v
  <2>1. (Q + x * x) - 2 * (v * (S + x)) + (n + 1) * (v * v) = d + e
    BY <1>1, <1>2, <1>3
  <2>2. d \in Int /\ d >= 0 /\ ((\E i \in 1 .. n : s[i] # v) => d >= 1)
    <3>1. d \in Int
      BY <1>1, <1>3
    <3> QED
      BY <3>1 DEF Sound, n
  <2>3. e \in Nat /\ (x # v => e >= 1)
    BY <1>2, SquareOfDistance
  <2>4. (\E i \in 1 .. n + 1 : t[i] # v) => (\E i \in 1 .. n : s[i] # v) \/ x # v
    <3> SUFFICES ASSUME NEW i \in 1 .. n + 1, t[i] # v
                 PROVE  (\E k \in 1 .. n : s[k] # v) \/ x # v
      OBVIOUS
    <3>1. i = n + 1 \/ i \in 1 .. n
      BY <1>1
    <3> QED
      BY <1>1, <3>1
  <2> HIDE DEF d, e
  <2>5. d + e >= 0 /\ ((\E i \in 1 .. n + 1 : t[i] # v) => d + e >= 1)
    BY <2>2, <2>3, <2>4
  <2> QED
    BY <2>1, <2>5
<1>6. ASSUME NEW v \in Nat, \A i \in 1 .. n + 1 : v <= t[i]
      PROVE  (n + 1) * v <= S + x
  <2>1. v <= x /\ \A i \in 1 .. n : v <= s[i]
    BY <1>1, <1>6
  <2>2. n * v <= S
    BY <2>1 DEF Sound, n
  <2>3. (n + 1) * v = n * v + v /\ n * v \in Int
    BY <1>1
  <2> QED
    BY <1>2, <1>3, <2>1, <2>2, <2>3
<1>7. ASSUME NEW v \in Nat, \A i \in 1 .. n + 1 : t[i] <= v
      PROVE  S + x <= (n + 1) * v /\ Q + x * x <= (n + 1) * (v * v)
  <2>1. x <= v /\ \A i \in 1 .. n : s[i] <= v
    BY <1>1, <1>7
  <2>2. S <= n * v /\ Q <= n * (v * v)
    BY <2>1 DEF Sound, n
  <2>3. x * x <= v * v
    BY <1>2, <2>1
  <2>4. /\ (n + 1) * v = n * v + v /\ n * v \in Int
        /\ (n + 1) * (v * v) = n * (v * v) + v * v /\ n * (v * v) \in Int /\ v * v \in Int
    BY <1>1
  <2> QED
    BY <1>2, <1>3, <2>1, <2>2, <2>3, <2>4
<1>8. ASSUME NEW v \in Nat, \A i \in 1 .. n + 1 : t[i] = v
      PROVE  S + x = (n + 1) * v /\ Q + x * x = (n + 1) * (v * v)
  <2>1. x = v /\ \A i \in 1 .. n : s[i] = v
    BY <1>1, <1>8
  <2>2. S = n * v /\ Q = n * (v * v)
    BY <2>1 DEF Sound, n
  <2>3. (n + 1) * v = n * v + v /\ (n + 1) * (v * v) = n * (v * v) + v * v
    BY <1>1
  <2> QED
    BY <2>1, <2>2, <2>3
<1>9. ASSUME NEW i \in 1 .. n + 1, NEW j \in 1 .. n + 1, t[i] # t[j]
      PROVE  (n + 1) * (Q + x * x) - (S + x) * (S + x) >= n
  <2> DEFINE g == n * Q - S * S
             d == Q - 2 * (x * S) + n * (x * x)
  <2>1. (n + 1) * (Q + x * x) - (S + x) * (S + x) = g + d
    BY <1>1, <1>2, <1>3, SpreadMore
  <2>2. g \in Int /\ d \in Int
    BY <1>1, <1>2, <1>3
  <2>3. CASE \E p, q \in 1 .. n : s[p] # s[q]
    <3>1. g >= n - 1
      BY <2>3 DEF Sound, n
    <3>2. \E p \in 1 .. n : s[p] # x
      BY <2>3
    <3>3. d >= 1
      BY <1>2, <3>2 DEF Sound, n
    <3> HIDE DEF g, d
    <3> QED
      BY <1>1, <2>1, <2>2, <3>1, <3>3
  <2>4. CASE ~(\E p, q \in 1 .. n : s[p] # s[q])
    <3>1. (i = n + 1 \/ i \in 1 .. n) /\ (j = n + 1 \/ j \in 1 .. n)
      BY <1>1
    <3>2. PICK p \in 1 .. n : s[p] # x
      BY <1>1, <1>9, <2>4, <3>1
    <3>3. PICK v \in Nat : v = s[p]
      BY <1>10
    <3>4. v # x /\ \A q \in 1 .. n : s[q] = v
      BY <2>4, <3>2, <3>3
    <3>5. S = n * v /\ Q = n * (v * v)
      BY <3>3, <3>4 DEF Sound, n
    <3>6. g = 0
      <4>1. n * (n * (v * v)) = (n * v) * (n * v) /\ (n * v) * (n * v) \in Int
        BY <1>1
      <4> QED
        BY <3>5, <4>1
    <3>7. d = n * (v * v - 2 * (x * v) + x * x)
      BY <1>1, <1>2, <3>5
    <3> DEFINE e == v * v - 2 * (x * v) + x * x
    <3>8. e \in Nat /\ e >= 1
      BY <1>2, <3>4, SquareOfDistance
    <3> HIDE DEF e, g, d
    <3>9. n * e >= n
      BY <1>1, <3>8
    <3> QED
      BY <2>1, <2>2, <3>6, <3>7, <3>9 DEF e
  <2> QED
    BY <2>3, <2>4
<1>11. S + x \in Nat /\ Q + x * x \in Nat /\ S + x <= Q + x * x
  BY <1>2, <1>3
<1>12. (\E i, j \in 1 .. n + 1 : t[i] # t[j])
         => (n + 1) * (Q + x * x) - (S + x) * (S + x) >= (n + 1) - 1
  BY <1>1, <1>9
<1>13. \A v \in Nat :
         /\ (\A i \in 1 .. n + 1 : v <= t[i]) => (n + 1) * v <= S + x
         /\ (\A i \in 1 .. n + 1 : t[i] <= v)
              => S + x <= (n + 1) * v /\ Q + x * x <= (n + 1) * (v * v)
         /\ (\A i \in 1 .. n + 1 : t[i] = v)
              => S + x = (n + 1) * v /\ Q + x * x = (n + 1) * (v * v)
         /\ (Q + x * x) - 2 * (v * (S + x)) + (n + 1) * (v * v) >= 0
         /\ (\E i \in 1 .. n + 1 : t[i] # v)
              => (Q + x * x) - 2 * (v * (S + x)) + (n + 1) * (v * v) >= 1
  BY <1>5, <1>6, <1>7, <1>8
<1> QED
  BY <1>4, <1>11, <1>12, <1>13, Zenon DEF Sound, n, t

\* The sums do not overflow.
LEMMA SumsAreSound ==
  ASSUME NEW s \in Seq(Samples), Len(s) * Half <= SumModulus
  PROVE  Sound(s, Len(s), Sum(s), SumOfSquares(s))
<1> DEFINE Fit(t) == Len(t) * Half <= SumModulus => Sound(t, Len(t), Sum(t), SumOfSquares(t))
           Q == {t \in Seq(Samples) : Fit(t)}
<1>0. Half \in Nat \ {0} /\ SumModulus \in Nat \ {0}
  BY HalfOfModulus, ValueAssumption, AverageAssumption
<1>1. << >> \in Q
  <2>1. Sum(<< >>) = 0 /\ SumOfSquares(<< >>) = 0 /\ Len(<< >>) = 0
    BY SumStep, SumOfSquaresStep
  <2>2. Sound(<< >>, 0, 0, 0)
    BY <1>0 DEF Sound
  <2> QED
    BY <2>1, <2>2
<1>2. ASSUME NEW t \in Seq(Samples), NEW x \in Samples, t \in Q
      PROVE  Append(t, x) \in Q
  <2> DEFINE n == Len(t)
  <2>1. /\ Append(t, x) \in Seq(Samples) /\ Len(Append(t, x)) = n + 1 /\ n \in Nat
        /\ t \in Seq(Int) /\ x \in Int
    BY DEF Samples
  <2> SUFFICES ASSUME (n + 1) * Half <= SumModulus
               PROVE  Sound(Append(t, x), n + 1, Sum(Append(t, x)), SumOfSquares(Append(t, x)))
    BY <2>1
  <2> HIDE DEF n
  <2>2. n * Half <= SumModulus /\ (n + 1) * (Half - 1) < SumModulus
    <3>1. (n + 1) * Half = n * Half + Half /\ n * Half \in Nat
      BY <1>0, <2>1
    <3>2. (n + 1) * (Half - 1) = (n + 1) * Half - (n + 1)
      BY <1>0, <2>1
    <3>3. (n + 1) * Half \in Nat
      BY <1>0, <2>1
    <3> QED
      BY <1>0, <2>1, <3>1, <3>2, <3>3
  <2>3. Sound(t, Len(t), Sum(t), SumOfSquares(t))
    BY <1>2, <2>2 DEF n
  <2>4. Sound(Append(t, x), n + 1, Sum(t) + x, SumOfSquares(t) + x * x)
    BY <2>3, SoundMore DEF n
  <2>5. /\ Sum(t) + x \in Nat /\ Sum(t) + x <= (n + 1) * (Half - 1)
        /\ SumOfSquares(t) + x * x \in Nat
        /\ SumOfSquares(t) + x * x <= (n + 1) * (Half - 1)
    BY <2>4 DEF Sound
  <2>6. (n + 1) * (Half - 1) \in Int
    BY <1>0, <2>1
  <2>7. Signed(x * x) = x * x
    <3>1. x * x \in 0 .. Half - 1
      BY <1>0, SamplesFit
    <3> QED
      BY <3>1, SignedSmall
  <2>8. Sum(Append(t, x)) = Sum(t) + x
    <3>1. Sum(t) + x < SumModulus
      BY <1>0, <2>2, <2>5, <2>6
    <3> QED
      BY <2>1, <2>5, <3>1, SumStep, WrappedSmall
  <2>9. SumOfSquares(Append(t, x)) = SumOfSquares(t) + x * x
    <3>1. SumOfSquares(t) + x * x < SumModulus
      BY <1>0, <2>2, <2>5, <2>6
    <3>2. SumOfSquares(Append(t, x)) = Wrapped(SumOfSquares(t) + x * x)
      BY <2>1, <2>7, SumOfSquaresStep
    <3> QED
      BY <2>5, <3>1, <3>2, WrappedSmall
  <2> QED
    BY <2>4, <2>8, <2>9
<1> HIDE DEF Q
<1>3. \A t \in Seq(Samples) : t \in Q
  BY <1>1, <1>2, Sums!SeqInduction
<1> QED
  BY <1>3 DEF Q

(***************************************************************************)
(* prediction_average_exec: its curves.                                    *)
(***************************************************************************)
LEMMA SamplesOf ==
  ASSUME NEW history \in Dumps, Fits(history)
  PROVE  /\ history \in Seq(Samples) /\ Len(history) \in Nat \ {0}
         /\ Len(history) * Half <= SumModulus /\ Len(history) <= Precision
<1>1. history \in Seq(Values) /\ history # << >>
  BY CurvesAssumption
<1>2. ASSUME NEW i \in 1 .. Len(history) PROVE history[i] \in Samples
  <2>1. history[i] \in Int
    <3>1. history[i] \in Values
      BY <1>1
    <3> QED
      BY <3>1, ValuesAreInt
  <2>2. history[i] >= 0 /\ history[i] * history[i] < Half
    BY DEF Fits
  <2> QED
    BY <2>1, <2>2 DEF Samples
<1>3. history \in Seq(Samples)
  BY <1>1, <1>2
<1> QED
  BY <1>1, <1>3, AverageAssumption

LEMMA ExtremesOf ==
  ASSUME NEW s \in Seq(Samples), Len(s) # 0
  PROVE  /\ Min(ToSet(s)) \in Samples /\ Max(ToSet(s)) \in Samples
         /\ \A i \in 1 .. Len(s) : Min(ToSet(s)) <= s[i] /\ s[i] <= Max(ToSet(s))
         /\ Cardinality(ToSet(s)) = 1
              => \E v \in Samples : \A i \in 1 .. Len(s) : s[i] = v
<1> DEFINE S == ToSet(s)
<1>1. /\ \A i \in 1 .. Len(s) : s[i] \in S
      /\ \A v \in S : v \in Samples /\ v \in 0 .. Half - 1
  <2>1. \A i \in 1 .. Len(s) : s[i] \in S /\ s[i] \in Samples
    BY DEF ToSet
  <2>2. \A v \in S : v \in Samples
    BY DEF ToSet
  <2>3. \A v \in Samples : v \in 0 .. Half - 1
    BY SamplesFit, HalfOfModulus
  <2> QED
    BY <2>1, <2>2, <2>3
<1> HIDE DEF S
<1>2. IsFiniteSet(S)
  <2>1. IsFiniteSet(0 .. Half - 1)
    BY HalfOfModulus, FS_Interval
  <2> QED
    BY <1>1, <2>1, FS_Subset
<1>3. S # {} /\ S \in SUBSET Int
  <2>1. 1 \in 1 .. Len(s)
    OBVIOUS
  <2> QED
    BY <1>1, <2>1
<1>4. /\ Max(S) \in S /\ \A x \in S : x <= Max(S)
      /\ Min(S) \in S /\ \A x \in S : Min(S) <= x
  BY <1>2, <1>3, GreatestIsMax
<1>5. ASSUME Cardinality(S) = 1
      PROVE  \E v \in Samples : \A i \in 1 .. Len(s) : s[i] = v
  <2>1. PICK v : S = {v}
    BY <1>2, <1>5, FS_Singleton
  <2> QED
    BY <1>1, <2>1
<1> QED
  BY <1>1, <1>4, <1>5 DEF S

\* average lies between low and high, and all where AverageInside says.
IsAround(low, mean, high) == low <= mean /\ mean <= high

Around(history, low, mean, high) ==
  /\ IsAround(low, mean, high) \/ (low = -Half /\ high = -Half)
  /\ Sum(history) <= Precision => Min(ToSet(history)) <= mean /\ mean <= Max(ToSet(history))
  /\ 6 * SumOfSquares(history) <= Precision =>
       IsAround(low, mean, high) /\ (Cardinality(ToSet(history)) = 1 => low = high)

LEMMA SimpleIsAround ==
  ASSUME NEW history \in Dumps, Fits(history)
  PROVE  Around(history, history[Len(history)], history[Len(history)], history[Len(history)])
<1>1. history \in Seq(Samples) /\ Len(history) \in Nat \ {0} /\ Len(history) \in 1 .. Len(history)
  BY SamplesOf
<1>2. history[Len(history)] \in Int
  BY <1>1 DEF Samples
<1> QED
  BY <1>1, <1>2, ExtremesOf DEF Around, IsAround

\* The sums and the means of a history.
LEMMA MeansOf ==
  ASSUME NEW history \in Dumps, Fits(history), NEW n, n = Len(history),
         NEW v, v = Max(ToSet(history))
  PROVE  /\ n \in Nat \ {0} /\ n <= Precision /\ v \in Nat
         /\ Sound(history, n, Sum(history), SumOfSquares(history))
         /\ avr(history) \in Nat /\ IsFloat(avr(history)) /\ avr(history) <= 4 * (v * One)
         /\ avr_sq(history) \in Nat /\ avr_sq(history) <= 4 * ((v * v) * One)
         /\ avr_avr(history) \in Nat
<1>1. /\ history \in Seq(Samples) /\ n \in Nat \ {0} /\ n <= Precision
      /\ n * Half <= SumModulus
  BY SamplesOf
<1>2. Sound(history, n, Sum(history), SumOfSquares(history))
  BY <1>1, SumsAreSound
<1>3. v \in Nat /\ \A i \in 1 .. n : history[i] <= v
  BY <1>1, ExtremesOf DEF Samples
<1>4. /\ Sum(history) \in Nat /\ Sum(history) <= n * v
      /\ SumOfSquares(history) \in Nat /\ SumOfSquares(history) <= n * (v * v)
  BY <1>2, <1>3 DEF Sound
<1>5. v * v \in Nat
  BY <1>3
<1>6. avr(history) \in Nat /\ IsFloat(avr(history)) /\ avr(history) <= 4 * (v * One)
  BY <1>1, <1>3, <1>4, MeanBound DEF avr
<1>7. avr_sq(history) \in Nat /\ avr_sq(history) <= 4 * ((v * v) * One)
  BY <1>1, <1>4, <1>5, MeanBound DEF avr_sq
<1>8. avr_avr(history) \in Nat
  <2>1. One \in Nat \ {0} /\ avr(history) * avr(history) \in Nat
    BY <1>6, StepsAre
  <2> QED
    BY <2>1, RoundIsFloat DEF avr_avr
<1> QED
  BY <1>1, <1>2, <1>3, <1>6, <1>7, <1>8

LEMMA SamplesAlike ==
  ASSUME NEW history \in Dumps, Fits(history), Cardinality(ToSet(history)) = 1
  PROVE  \E v \in Nat : \A i \in 1 .. Len(history) : history[i] = v
<1>1. history \in Seq(Samples) /\ Len(history) \in Nat \ {0}
  BY SamplesOf
<1> QED
  BY <1>1, ExtremesOf DEF Samples

\* The means of a history of one small value are that value and its square.
LEMMA AlikeAreExact ==
  ASSUME NEW history \in Dumps, Fits(history), 6 * SumOfSquares(history) <= Precision,
         NEW v \in Nat, \A i \in 1 .. Len(history) : history[i] = v
  PROVE  ~IsNaN(history) /\ std(history) = 0
<1> DEFINE n == Len(history)
           S == Sum(history)
           Q == SumOfSquares(history)
           w == v * v
           f == w * One
<1>1. n \in Nat \ {0} /\ Sound(history, n, S, Q)
  BY MeansOf
<1>2. One \in Nat \ {0} /\ Precision \in Nat
  BY StepsAre
<1>3. S = n * v /\ Q = n * w /\ S \in Nat /\ Q \in Nat /\ S <= Q /\ w \in Nat
  <2>1. w \in Nat
    OBVIOUS
  <2>2. \A i \in 1 .. n : history[i] = v
    OBVIOUS
  <2> HIDE DEF n, S, Q
  <2>3. S = n * v /\ Q = n * (v * v) /\ S \in Nat /\ Q \in Nat /\ S <= Q
    BY <1>1, <2>2 DEF Sound
  <2> QED
    BY <2>1, <2>3
<1> HIDE DEF n, S, Q
<1>4. v <= S /\ w <= Q
  <2> HIDE DEF w
  <2> QED
    BY <1>1, <1>3
<1>5. S \in 0 .. Precision /\ Q \in 0 .. Precision /\ v \in 0 .. Precision /\ w \in 0 .. Precision
  <2> HIDE DEF w
  <2> QED
    BY <1>2, <1>3, <1>4 DEF Q
<1>6. f \in Nat /\ IsFloat(f)
  <2> HIDE DEF w
  <2> QED
    BY <1>5, IntegerIsFloat
<1>7. avr(history) = v * One
  <2>1. v * One \in Nat /\ n * v <= S /\ S <= n * v
    BY <1>1, <1>2, <1>3
  <2>2. Mean(S, n) \in Nat
    BY <1>1, <1>3, MeanBound
  <2>3. v * One <= Mean(S, n) /\ Mean(S, n) <= v * One
    BY <1>1, <1>5, <2>1, MeanBetween
  <2> QED
    BY <2>1, <2>2, <2>3 DEF avr, S, n
<1>8. avr_sq(history) = f
  <2> HIDE DEF w
  <2>1. w * One \in Nat /\ n * w <= Q /\ Q <= n * w
    BY <1>1, <1>2, <1>3
  <2>2. Mean(Q, n) \in Nat
    BY <1>1, <1>3, <2>1, MeanBound
  <2>3. w * One <= Mean(Q, n) /\ Mean(Q, n) <= w * One
    BY <1>1, <1>5, <2>1, MeanBetween
  <2> QED
    BY <2>1, <2>2, <2>3 DEF avr_sq, Q, n
<1>9. avr_avr(history) = f
  <2>1. (v * One) * (v * One) = f * One
    BY <1>2
  <2> HIDE DEF f
  <2>2. Round(f * One, One) = f
    BY <1>2, <1>6, RoundExact
  <2> QED
    BY <1>7, <2>1, <2>2 DEF avr_avr
<1> HIDE DEF f
<1>10. Round(f - f, 1) * One = 0
  <2>1. f - f = 0
    BY <1>6
  <2>2. Round(0, 1) \in Nat /\ Round(0, 1) <= 2 * 0
    BY RoundOnce
  <2>3. Round(0, 1) = 0
    BY <2>2
  <2> QED
    BY <1>2, <2>1, <2>3
<1>11. RoundRoot(0) = 0
  BY RoundRootIs
<1> QED
  BY <1>6, <1>8, <1>9, <1>10, <1>11 DEF IsNaN, std

\* The variance of small samples does not become negative.
LEMMA SmallIsNumber ==
  ASSUME NEW history \in Dumps, Fits(history), 6 * SumOfSquares(history) <= Precision
  PROVE  ~IsNaN(history)
<1> DEFINE n == Len(history)
           S == Sum(history)
           Q == SumOfSquares(history)
           A == avr(history)
<1>1. /\ n \in Nat \ {0} /\ n <= Precision /\ Sound(history, n, S, Q)
      /\ A \in Nat /\ avr_sq(history) \in Nat /\ avr_avr(history) \in Nat
  BY MeansOf
<1>2. One \in Nat \ {0} /\ Precision \in Nat
  BY StepsAre
<1>3. S \in Nat /\ Q \in Nat /\ S <= Q
  BY <1>1 DEF Sound
<1>4. \A i \in 1 .. n : history[i] \in Nat
  <2>1. history \in Seq(Samples)
    BY SamplesOf
  <2>2. \A i \in 1 .. n : history[i] \in Samples
    BY <2>1
  <2> QED
    BY <2>2 DEF Samples
<1>5. CASE \E i, j \in 1 .. n : history[i] # history[j]
  <2>1. n * Q - S * S >= n - 1 /\ 2 <= n
    <3> HIDE DEF n, S, Q
    <3>1. n * Q - S * S >= n - 1
      BY <1>1, <1>5 DEF Sound
    <3>2. PICK i \in 1 .. n : \E j \in 1 .. n : history[i] # history[j]
      BY <1>5
    <3>3. PICK j \in 1 .. n : history[i] # history[j]
      BY <3>2
    <3>4. i # j
      BY <3>3
    <3>5. 2 <= n
      BY <1>1, <3>4
    <3> QED
      BY <3>1, <3>5
  <2>2. 6 * Q <= Precision
    OBVIOUS
  <2>3. S \in 0 .. Precision /\ Q \in 0 .. Precision
    <3> HIDE DEF S, Q
    <3> QED
      BY <1>2, <1>3, <2>2
  <2>4. A = Round(S * One, n) /\ avr_sq(history) = Round(Q * One, n)
    BY <1>1, <2>3, MeanExact DEF avr, avr_sq
  <2> HIDE DEF n, S, Q, A
  <2>5. n * (A * A) <= Q * (One * One)
    BY <1>1, <1>2, <1>3, <2>1, <2>2, <2>4, SquareOfMean
  <2>6. (A * A) * n <= (Q * One) * One /\ A * A \in Nat /\ Q * One \in Nat
    <3>1. (A * A) * n = n * (A * A) /\ (Q * One) * One = Q * (One * One)
      BY <1>1, <1>2, <1>3
    <3> QED
      BY <1>1, <1>2, <1>3, <2>5, <3>1
  <2>7. Round(A * A, One) <= Round(Q * One, n)
    BY <1>1, <1>2, <2>6, RoundGrows
  <2>8. avr_avr(history) <= avr_sq(history)
    BY <2>4, <2>7 DEF avr_avr, A
  <2> QED
    BY <1>1, <2>8 DEF IsNaN
<1>6. CASE ~(\E i, j \in 1 .. n : history[i] # history[j])
  <2>1. 1 \in 1 .. n
    BY <1>1
  <2>2. \A i \in 1 .. n : history[i] = history[1]
    BY <1>6, <2>1
  <2>3. PICK v \in Nat : v = history[1]
    BY <1>4, <2>1
  <2>4. \A i \in 1 .. Len(history) : history[i] = v
    BY <2>2, <2>3
  <2> QED
    BY <2>4, AlikeAreExact
<1> QED
  BY <1>5, <1>6

\* If the deviation is a number, low and high lie around the average.
LEMMA NumbersAreAround ==
  ASSUME NEW history \in Dumps, Fits(history), NEW factor \in Factors, ~IsNaN(history)
  PROVE  /\ IsAround(p_low(history, factor), p_average(history), p_high(history, factor))
         /\ std(history) = 0 => p_low(history, factor) = p_high(history, factor)
<1> DEFINE A == avr(history)
           B == avr_sq(history)
           C == avr_avr(history)
           v == Max(ToSet(history))
           X == Margin(history, factor)
           H == Round(A + X, 1)
           top == (24 * factor + 8) * v
<1>1. /\ A \in Nat /\ IsFloat(A) /\ A <= 4 * (v * One) /\ v \in Nat
      /\ B \in Nat /\ B <= 4 * ((v * v) * One) /\ C \in Nat
  BY MeansOf
<1>2. One \in Nat \ {0} /\ Half \in Nat /\ factor \in Nat
  BY StepsAre, HalfOfModulus, AverageAssumption
<1>3. top < Half /\ top \in Nat
  <2>1. v \in Samples
    BY SamplesOf, ExtremesOf
  <2>2. v \in 0 .. Half /\ v * v < Half
    BY <1>2, <2>1, SamplesFit
  <2> HIDE DEF v
  <2>3. top < Half
    BY <2>2, AverageAssumption
  <2> QED
    BY <1>1, <1>2, <2>3
<1>4. C <= B
  BY <1>1 DEF IsNaN
<1>5. X = Round(factor * RoundRoot(Round(B - C, 1) * One), 1)
  BY DEF Margin, std
<1> HIDE DEF A, B, C, v, X
<1>6. X \in Nat /\ H \in Nat /\ H <= top * One
  BY <1>1, <1>2, <1>4, <1>5, HighBound
<1> HIDE DEF top
<1>7. A <= H
  <2>1. A * 1 <= A + X /\ A + X \in Nat
    BY <1>1, <1>6
  <2> QED
    BY <1>1, <2>1, RoundBetween
<1> HIDE DEF H
<1>8. H \div One \in Nat /\ A \div One \in Nat /\ A \div One <= H \div One /\ H \div One <= top
  <2>1. H <= One * top
    BY <1>2, <1>3, <1>6
  <2>2. H \div One <= top
    BY <1>2, <1>3, <1>6, <2>1, QuotientBounds
  <2> QED
    BY <1>1, <1>2, <1>6, <1>7, <2>2, Quotient, QuotientGrows
<1>9. \A x \in 0 .. top : ToValue(x) = x
  BY <1>2, <1>3 DEF ToValue, Values
<1>10. p_average(history) = A \div One
  BY <1>3, <1>8, <1>9 DEF p_average, A
<1>11. p_high(history, factor) = H \div One
  BY <1>3, <1>8, <1>9 DEF p_high, A, X, H
<1>12. CASE A >= X
  <2> DEFINE L == Round(A - X, 1)
  <2>1. A - X \in Nat /\ A - X <= A * 1
    BY <1>1, <1>6, <1>12
  <2>2. L \in Nat /\ L <= A
    BY <1>1, <2>1, RoundBetween, RoundOnce
  <2>3. p_low(history, factor) = ToValue(L \div One)
    BY <1>12 DEF p_low, A, X
  <2>4. X = 0 => L = H
    <3> SUFFICES ASSUME X = 0 PROVE L = H
      OBVIOUS
    <3>1. A - X = A /\ A + X = A
      BY <1>1
    <3> QED
      BY <3>1 DEF H
  <2> HIDE DEF L
  <2>5. L \div One \in Nat /\ L \div One <= A \div One
    BY <1>1, <1>2, <2>2, Quotient, QuotientGrows
  <2>6. p_low(history, factor) = L \div One
    BY <1>3, <1>8, <1>9, <2>3, <2>5
  <2>7. std(history) = 0 => X = 0
    <3> SUFFICES ASSUME std(history) = 0 PROVE X = 0
      OBVIOUS
    <3>1. factor * 0 = 0
      BY <1>2
    <3>2. Round(0, 1) \in Nat /\ Round(0, 1) <= 2 * 0
      BY RoundOnce
    <3> QED
      BY <3>1, <3>2 DEF X, Margin
  <2> QED
    BY <1>8, <1>10, <1>11, <2>4, <2>5, <2>6, <2>7 DEF IsAround
<1>13. CASE ~(A >= X)
  <2> DEFINE y == Round(X - A, 1) \div One
  <2>1. X - A \in Nat
    BY <1>1, <1>6, <1>13
  <2>2. y \in Nat
    BY <1>2, <2>1, RoundOnce, Quotient
  <2>3. p_low(history, factor) = ToValue(-y)
    BY <1>13 DEF p_low, A, X
  <2> HIDE DEF y
  <2>4. p_low(history, factor) <= 0
    BY <1>2, <2>2, <2>3 DEF ToValue
  <2>5. std(history) # 0
    <3> SUFFICES ASSUME std(history) = 0 PROVE FALSE
      OBVIOUS
    <3>1. factor * 0 = 0
      BY <1>2
    <3>2. Round(0, 1) \in Nat /\ Round(0, 1) <= 2 * 0
      BY RoundOnce
    <3>3. X = 0
      BY <3>1, <3>2 DEF X, Margin
    <3> QED
      BY <1>1, <1>13, <3>3
  <2>6. p_low(history, factor) \in Int
    BY ToValueIsValue, ValuesAreInt, <2>3
  <2> QED
    BY <1>8, <1>10, <1>11, <2>4, <2>5, <2>6 DEF IsAround
<1> QED
  BY <1>12, <1>13

\* A mean whose sum is exact lies between the samples.
LEMMA MeanInside ==
  ASSUME NEW history \in Dumps, Fits(history), Sum(history) <= Precision
  PROVE  /\ Min(ToSet(history)) <= p_average(history)
         /\ p_average(history) <= Max(ToSet(history))
<1> DEFINE n == Len(history)
           S == Sum(history)
           A == avr(history)
           v == Max(ToSet(history))
           w == Min(ToSet(history))
           k == A \div One
<1>1. n \in Nat \ {0} /\ A \in Nat /\ Sound(history, n, S, SumOfSquares(history))
  BY MeansOf
<1>2. /\ w \in Samples /\ v \in Samples
      /\ \A i \in 1 .. n : w <= history[i] /\ history[i] <= v
  BY SamplesOf, ExtremesOf
<1>3. w \in Nat /\ v \in Nat /\ v <= Half - 1 /\ Half \in Nat
  BY <1>2, SamplesFit, HalfOfModulus
<1>4. S \in Nat /\ n * w <= S /\ S <= n * v
  BY <1>1, <1>2, <1>3 DEF Sound
<1>5. One \in Nat \ {0} /\ Precision \in Nat
  BY StepsAre
<1>6. S \in 0 .. Precision
  BY <1>4, <1>5
<1>7. A = Mean(S, n)
  BY DEF avr
<1> HIDE DEF n, S, A, v, w
<1>8. w <= S
  BY <1>1, <1>3, <1>4
<1>9. w \in 0 .. Precision
  BY <1>3, <1>5, <1>6, <1>8
<1>10. One * w <= A
  <2>1. w * One <= Mean(S, n)
    BY <1>1, <1>4, <1>6, <1>9, MeanBetween
  <2>2. w * One = One * w
    BY <1>3, <1>5
  <2> QED
    BY <1>7, <2>1, <2>2
<1>11. A <= One * v
  <2>1. CASE v \in 0 .. Precision
    <3>1. Mean(S, n) <= v * One
      BY <1>1, <1>4, <1>6, <2>1, MeanBetween
    <3>2. v * One = One * v
      BY <1>3, <1>5
    <3> QED
      BY <1>7, <3>1, <3>2
  <2>2. CASE Precision < v
    <3>1. S <= n * Precision
      <4>1. 1 * Precision <= n * Precision /\ n * Precision \in Nat
        BY <1>1, <1>5
      <4> QED
        BY <1>5, <1>6, <4>1
    <3>2. Precision \in 0 .. Precision
      BY <1>5
    <3>3. Mean(S, n) <= Precision * One
      BY <1>1, <1>6, <3>1, <3>2, MeanBetween
    <3>4. One * Precision <= One * v /\ Precision * One = One * Precision
            /\ One * Precision \in Nat /\ One * v \in Nat
      BY <1>3, <1>5, <2>2, TimesAtMost
    <3> QED
      BY <1>1, <1>7, <3>3, <3>4
  <2> QED
    BY <1>3, <1>5, <2>1, <2>2
<1>12. k \in Nat /\ w <= k /\ k <= v
  BY <1>1, <1>3, <1>5, <1>10, <1>11, Quotient, QuotientBounds
<1>13. p_average(history) = ToValue(k)
  BY DEF p_average, A
<1> HIDE DEF k
<1>14. p_average(history) = k
  BY <1>3, <1>12, <1>13 DEF ToValue, Values
<1> QED
  BY <1>12, <1>14 DEF v, w

LEMMA AverageIsAround ==
  ASSUME NEW history \in Dumps, Fits(history), NEW factor \in Factors
  PROVE  Around(history, p_low(history, factor), p_average(history), p_high(history, factor))
<1> DEFINE low == p_low(history, factor)
           mean == p_average(history)
           high == p_high(history, factor)
<1>1. IsAround(low, mean, high) \/ (low = -Half /\ high = -Half)
  <2>1. CASE IsNaN(history)
    BY <2>1 DEF p_low, p_high
  <2>2. CASE ~IsNaN(history)
    BY <2>2, NumbersAreAround
  <2> QED
    BY <2>1, <2>2
<1>2. ASSUME 6 * SumOfSquares(history) <= Precision
      PROVE  IsAround(low, mean, high) /\ (Cardinality(ToSet(history)) = 1 => low = high)
  <2>1. ~IsNaN(history)
    BY <1>2, SmallIsNumber
  <2>2. Cardinality(ToSet(history)) = 1 => std(history) = 0
    BY <1>2, SamplesAlike, AlikeAreExact
  <2> QED
    BY <2>1, <2>2, NumbersAreAround
<1>3. Sum(history) <= Precision =>
        Min(ToSet(history)) <= mean /\ mean <= Max(ToSet(history))
  BY MeanInside
<1> QED
  BY <1>1, <1>2, <1>3 DEF Around

LEMMA AroundInside ==
  ASSUME NEW history, NEW low, NEW mean, NEW high, NEW length, NEW style,
         Around(history, low, mean, high)
  PROVE  LET r == FlatResult(low, mean, high, length, style) IN
         \A t \in DOMAIN r.low :
           Around(history, r.low[t].value, r.average[t].value, r.high[t].value)
<1> DEFINE r == FlatResult(low, mean, high, length, style)
<1>1. \A v : /\ DOMAIN Flat(v, length) = {1, 2}
             /\ Flat(v, length)[1].value = v /\ Flat(v, length)[2].value = v
  BY DEF Flat, graph_add_point, graph_create, Point
<1>2. r.low = Flat(low, length) /\ r.average = Flat(mean, length) /\ r.high = Flat(high, length)
  BY DEF FlatResult
<1> QED
  BY <1>1, <1>2

\* What a prediction has read and what it says of it.
DumpPredicted ==
  pc = "model" /\ dump # << >> /\ Fits(dump) =>
    \A t \in DOMAIN result.low :
      Around(dump, result.low[t].value, result.average[t].value, result.high[t].value)

LEMMA PredictedInit == Init => DumpPredicted
  BY DEF Init, DumpPredicted

LEMMA PredictedStep == DumpPredicted /\ [Next]_vars => DumpPredicted'
<1> SUFFICES ASSUME DumpPredicted, [Next]_vars PROVE DumpPredicted'
  OBVIOUS
<1> USE DEF DumpPredicted
<1>1. ASSUME prediction_simple_exec PROVE DumpPredicted'
  <2>1. PICK history \in Dumps : \E length \in Lengths :
          LET last == history[Len(history)] IN
          Predict(FlatResult(last, last, last, length, "normal"), history)
    BY <1>1 DEF prediction_simple_exec
  <2>2. PICK length \in Lengths :
          LET last == history[Len(history)] IN
          Predict(FlatResult(last, last, last, length, "normal"), history)
    BY <2>1
  <2>3. Fits(history) =>
          Around(history, history[Len(history)], history[Len(history)], history[Len(history)])
    BY SimpleIsAround
  <2>4. dump' = history /\ result' = FlatResult(history[Len(history)], history[Len(history)],
                                                history[Len(history)], length, "normal")
    BY <2>2 DEF Predict
  <2> QED
    BY <2>3, <2>4, AroundInside
<1>2. ASSUME prediction_average_exec PROVE DumpPredicted'
  <2>1. PICK history \in Dumps : \E length \in Lengths, factor \in Factors :
          Predict(FlatResult(p_low(history, factor), p_average(history),
                             p_high(history, factor), length, "normal"), history)
    BY <1>2 DEF prediction_average_exec
  <2>2. PICK length \in Lengths, factor \in Factors :
          Predict(FlatResult(p_low(history, factor), p_average(history),
                             p_high(history, factor), length, "normal"), history)
    BY <2>1
  <2>3. Fits(history) =>
          Around(history, p_low(history, factor), p_average(history), p_high(history, factor))
    BY AverageIsAround
  <2>4. dump' = history /\ result' = FlatResult(p_low(history, factor), p_average(history),
                                                p_high(history, factor), length, "normal")
    BY <2>2 DEF Predict
  <2> QED
    BY <2>3, <2>4, AroundInside
<1>3. ASSUME prediction_constraint_exec PROVE DumpPredicted'
  BY <1>3 DEF prediction_constraint_exec, Predict
<1>4. ASSUME UserPrediction PROVE DumpPredicted'
  BY <1>4 DEF UserPrediction, Predict
<1>5. ASSUME ModelExec \/ StartScore \/ ScoreSegment \/ Abort \/ EndScore \/ StartLog
               \/ LogRow \/ Delete
      PROVE  pc' # "model"
  BY <1>5 DEF ModelExec, StartScore, ScoreSegment, Abort, EndScore, StartLog, LogRow,
              PcAfterRow, Delete
<1>6. ASSUME UNCHANGED vars PROVE DumpPredicted'
  BY <1>6 DEF vars
<1> QED
  BY <1>1, <1>2, <1>3, <1>4, <1>5, <1>6 DEF Next

\* The predictions of lib/predictions/{simple,average}.c with the rounding of
\* their floats, if no sample is negative or has a square that overflows: low
\* and high lie around average, or both are the least value because the rounding
\* has made the variance negative; average lies between the samples if a float
\* can hold their sum; and samples of which a float can hold six times the sum of
\* the squares never have such a variance, and stay the same if they are.
THEOREM AveragesAreInside == Spec => []AverageInside
<1>1. DumpPredicted => AverageInside
  BY DEF DumpPredicted, AverageInside, Around, IsAround
<1> QED
  BY <1>1, PredictedInit, PredictedStep, PTL DEF Spec
================================================================================

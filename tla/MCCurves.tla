------------------------------- MODULE MCCurves -------------------------------
(* Curves on small instances.                                              *)
EXTENDS Curves

\* Where the curves of predictions and of models step.
PredictionTimes == {<<0>>, <<0, 2>>, <<0, 1, 3>>}

OutputTimes ==
  {<<0>>, <<0, 0>>, <<0, 1>>, <<0, 3>>, <<0, 1, 2>>, <<0, 2, 3>>, <<0, 3, 2>>, <<1, 2>>}

Through(times, values) == [i \in 1..Len(times) |-> Point(times[i], values[i])]

AnyOutput ==
  UNION {{Through(t, values) : values \in [1..Len(t) -> 0..2]} : t \in OutputTimes}

\* Low, average and high: they coincide, or the average is one of the others,
\* or lies between them, or beyond.
Levels == {<<0, 1, 2>>, <<0, 2, 2>>, <<1, 1, 2>>, <<1, 1, 1>>, <<1, 2, 0>>}

SameTimesCurves ==
  UNION {{[low     |-> Through(t, [i \in 1..Len(t) |-> levels[i][1]]),
           average |-> Through(t, [i \in 1..Len(t) |-> levels[i][2]]),
           high    |-> Through(t, [i \in 1..Len(t) |-> levels[i][3]])] :
             levels \in [1..Len(t) -> Levels]} : t \in PredictionTimes}

\* Constant values, and points at different times, the first perhaps late.
MixedCurves ==
  {[low     |-> Through(t[1], [i \in 1..Len(t[1]) |-> 0]),
    average |-> Through(t[2], [i \in 1..Len(t[2]) |-> 1]),
    high    |-> Through(t[3], [i \in 1..Len(t[3]) |-> 2])] :
     t \in [1..3 -> PredictionTimes \cup {<<1, 2>>}]}

\* Constant values that are more than half of the range apart: the score of the
\* output 0 is above 1.0, or negative.
WideCurves ==
  {[low     |-> Through(<<0, 1, 3>>, [i \in 1..3 |-> levels[1]]),
    average |-> Through(<<0, 1, 3>>, [i \in 1..3 |-> levels[2]]),
    high    |-> Through(<<0, 1, 3>>, [i \in 1..3 |-> levels[3]])] :
     levels \in {<<-8192, -8192, 3000>>, <<-6000, -6000, 5000>>, <<-8000, 5000, 6000>>}}

SomeCurves == SameTimesCurves \cup MixedCurves \cup WideCurves

SomeSteps == {2^i : i \in 0..13}

SomeMoments == 0..7

\* Small ones, whose sums a float can hold, and two for which the rounding matters:
\* the deviation of the first is not 0, and that of the second is not a number.
Histories ==
  {<<3>>, <<0, 1>>, <<1, 1>>, <<0, 1, 3>>, <<2, 2, 2>>, <<3, 1, 2>>,
   <<13, 13, 13>>, <<16, 17, 17>>}

\* Also one whose average is not between the others.
SomeConstraints ==
  {[low |-> -2, average |-> 1, high |-> 3], [low |-> 2, average |-> 0, high |-> 1]}
================================================================================

--------------------------------- MODULE Graph ---------------------------------
(***************************************************************************)
(* lib/graph.c: a curve is a list of points in the order in which they     *)
(* were added, and stands for the step function that keeps the value of a  *)
(* point until the next one.  A pointer to a point is its position in the  *)
(* list, and NULL is 0.                                                    *)
(***************************************************************************)
EXTENDS Integers, Sequences, SequencesExt, FiniteSetsExt, Functions

CONSTANT ValueModulus    \* The range of sample_value_t, 2^32

ASSUME ValueAssumption == ValueModulus \in Nat \ {0} /\ ValueModulus % 2 = 0

Half == ValueModulus \div 2

Values == -Half .. Half - 1

\* A conversion to sample_value_t.
Signed(x) == ((x + Half) % ValueModulus) - Half

NULL == 0

graph_create == << >>

Point(time, value) == [time |-> time, value |-> value]

Curve == Seq([time : Nat, value : Values])

graph_add_point(g, time, value) == Append(g, Point(time, value))

\* Point after point.
graph_copy(g) == [i \in 1..Len(g) |-> Point(g[i].time, g[i].value)]

graph_read_first(g) == IF g = << >> THEN NULL ELSE 1

graph_read_next(g, point) ==
  IF point = NULL \/ point = Len(g) THEN NULL ELSE point + 1

(***************************************************************************)
(* graph_integral, with the point at which it returns.  old_time is a      *)
(* sample_value_t, although it holds a time.                               *)
(***************************************************************************)
IntegralStart(start) ==
  [old_value |-> 0, old_time |-> Signed(start), g_int |-> 0, returned |-> FALSE]

\* Mutant: the surface left of a point has that point's value.
Surface_Right(s, pos, start, end) == s.g_int + (pos.time - s.old_time) * pos.value

Surface(s, pos, start, end) ==
  s.g_int + (IF pos.time > end THEN end - start ELSE pos.time - s.old_time) * s.old_value

IntegralStep(s, pos, start, end) ==
  IF s.returned THEN s
  ELSE IF pos.time <= start THEN [s EXCEPT !.old_value = pos.value]
  ELSE [old_value |-> pos.value,
        old_time  |-> Signed(pos.time),
        g_int     |-> Surface(s, pos, start, end),
        returned  |-> pos.time >= end]

\* Point after point.
graph_integral(g, start, end) ==
  LET s[i \in 0 .. Len(g)] ==
        IF i = 0 THEN IntegralStart(start) ELSE IntegralStep(s[i - 1], g[i], start, end)
      last == s[Len(g)]
  IN IF last.returned THEN last.g_int
     ELSE last.g_int + (end - last.old_time) * last.old_value

(***************************************************************************)
(* The function that a curve stands for, for the properties.               *)
(***************************************************************************)
Ordered(g) == \A i, j \in 1 .. Len(g) : i < j => g[i].time < g[j].time

\* What it does up to a given time is in order.
OrderedUpTo(g, time) ==
  \A i, j \in 1 .. Len(g) : i < j /\ g[j].time <= time => g[i].time < g[j].time

LastTime(g) == g[Len(g)].time

\* The value of a curve at a time, 0 before its first point.
At(g, time) ==
  LET before == {i \in 1..Len(g) : g[i].time <= time} IN
  IF before = {} THEN 0 ELSE g[Max(before)].value

Area(g, start, end) == SumFunction([t \in start .. end - 1 |-> At(g, t)])

\* The points after which an interval ends that they are inside of.
EndsBehind(g, start, end) ==
  {i \in 1 .. Len(g) - 1 : start < g[i].time /\ g[i].time < end /\ end < g[i + 1].time}

\* What such a point has before its time: its value since the start.
Excess(g, start, end) ==
  LET last == EndsBehind(g, start, end) IN
  IF last = {} THEN 0
  ELSE LET i == Max(last) IN (g[i].time - start) * g[i].value
================================================================================

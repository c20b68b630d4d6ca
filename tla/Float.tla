--------------------------------- MODULE Float ---------------------------------
(***************************************************************************)
(* The type float, as lib/predictions/average.c uses it: no number that is *)
(* kept is negative, the result of every operation is rounded to the       *)
(* nearest float, and of two that are equally near to the even one.        *)
(*                                                                         *)
(* A float is a multiple of the least of them, the unit, and so a natural  *)
(* number.  The distance between neighbours doubles from one power of two  *)
(* to the next: between Precision * s \div 2 and Precision * s it is s.    *)
(* Nothing is infinite, as the sums of 64 bits that are converted here     *)
(* never are.                                                              *)
(***************************************************************************)
EXTENDS Integers, FiniteSetsExt

CONSTANTS Precision,    \* The integers up to it are exact, 2^24
          One,          \* 1.0 in units, 2^149
          Steps         \* The distances between neighbours in units, powers of two

ASSUME FloatAssumption ==
  /\ Precision \in Nat \ {0} /\ Precision % 2 = 0
  /\ Steps \subseteq Nat \ {0} /\ 1 \in Steps
  /\ \E t \in Steps : \A s \in Steps : s <= t
  /\ \A s \in Steps \ {1} : s % 2 = 0 /\ s \div 2 \in Steps
  /\ \A s, t \in Steps : s <= t => t % s = 0
  /\ One \in Steps /\ Precision <= One

Least(steps) == IF steps = {} THEN Max(Steps) ELSE Min(steps)

\* The distance between the neighbours of the fraction a / b.
Step(a, b) == Least({s \in Steps : a < Precision * s * b})

\* The integer nearest to a / b.
Nearest(a, b) ==
  LET twice == 2 * (a % b)
      isDown == twice < b \/ (twice = b /\ (a \div b) % 2 = 0)
  IN IF isDown THEN a \div b ELSE a \div b + 1

\* The float nearest to a / b.
Round(a, b) == Step(a, b) * Nearest(a, Step(a, b) * b)

Root(x) == CHOOSE r \in 0 .. x : r * r <= x /\ x < (r + 1) * (r + 1)

\* That of the neighbours of the square root of x, which is less than y if the
\* quotient of x and y is.
RootStep(x) == Least({s \in Steps : x \div (Precision * s) < Precision * s})

\* The float nearest to the square root of x; no root of a float lies halfway.
RoundRoot(x) ==
  LET s == RootStep(x)
      q == Root(x \div (s * s))
      middle == (2 * q + 1) * s
  IN s * (IF middle * middle < 4 * x THEN q + 1 ELSE q)
================================================================================

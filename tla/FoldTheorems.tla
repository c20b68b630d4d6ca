----------------------------- MODULE FoldTheorems -----------------------------
(***************************************************************************)
(* What MapThenFoldSet computes, for the folds and the sums of the other    *)
(* modules: an instance of this one names the operation, the base and the   *)
(* choice of the next element.                                              *)
(***************************************************************************)
EXTENDS Folds, Integers, Sequences, FiniteSets, FiniteSetTheorems, SequenceTheorems,
        WellFoundedInduction, TLAPS

CONSTANTS Op(_, _), Base, Pick(_),
          D                         \* The values, if Op is commutative

FoldOn(f, S) == MapThenFoldSet(Op, Base, LAMBDA i : f[i], Pick, S)

(***************************************************************************)
(* Induction, by the least counterexample.                                  *)
(***************************************************************************)
LEMMA LeastNatural ==
  ASSUME NEW S \in SUBSET Nat, S # {}
  PROVE  \E x \in S : \A y \in S : x <= y
<1>1. PICK x \in S : \A y \in S : ~(<<y, x>> \in OpToRel(<, Nat))
  BY NatLessThanWellFounded, WFMin
<1>2. \A y \in S : ~(y < x)
  BY <1>1 DEF OpToRel
<1> QED
  BY <1>2

LEMMA Induction ==
  ASSUME NEW Q, NEW lo \in Nat, lo \in Q, NEW n \in Nat,
         \A i \in lo .. n : i # lo /\ i - 1 \in Q => i \in Q
  PROVE  \A i \in lo .. n : i \in Q
<1> DEFINE bad == {i \in lo .. n : i \notin Q}
<1> SUFFICES ASSUME bad # {} PROVE FALSE
  OBVIOUS
<1>1. bad \in SUBSET Nat
  OBVIOUS
<1>2. PICK i \in bad : \A j \in bad : i <= j
  BY <1>1, LeastNatural
<1>3. i \in Nat /\ i \in lo .. n /\ i # lo /\ i - 1 \in lo .. n /\ ~(i <= i - 1)
  OBVIOUS
<1>4. i - 1 \notin bad
  BY <1>2, <1>3
<1> QED
  BY <1>3, <1>4

\* Induction over the length of a sequence.
LEMMA SeqInduction ==
  ASSUME NEW S, NEW Q, << >> \in Q, \A s \in Seq(S), x \in S : s \in Q => Append(s, x) \in Q
  PROVE  \A s \in Seq(S) : s \in Q
<1> DEFINE L == {n \in Nat : \A s \in Seq(S) : Len(s) = n => s \in Q}
<1>1. 0 \in L
  <2>1. \A s \in Seq(S) : Len(s) = 0 => s = << >>
    BY EmptySeq
  <2> QED
    BY <2>1
<1>2. ASSUME NEW n \in Nat, n # 0, n - 1 \in L PROVE n \in L
  <2> SUFFICES ASSUME NEW s \in Seq(S), Len(s) = n PROVE s \in Q
    OBVIOUS
  <2>1. s # << >>
    BY <1>2
  <2>2. PICK t \in Seq(S), x \in S : s = Append(t, x)
    BY <2>1, SequenceEmptyOrAppend
  <2>3. Len(t) \in Nat /\ Len(t) = n - 1
    BY <2>2, AppendProperties
  <2>4. t \in Q
    BY <1>2, <2>3
  <2> QED
    BY <2>2, <2>4
<1> HIDE DEF L
<1>3. ASSUME NEW n \in Nat PROVE n \in L
  <2>1. \A i \in 0 .. n : i # 0 /\ i - 1 \in L => i \in L
    BY <1>2
  <2>2. \A i \in 0 .. n : i \in L
    BY <1>1, <2>1, Induction
  <2> QED
    BY <2>2
<1>4. ASSUME NEW s \in Seq(S) PROVE s \in Q
  <2>1. Len(s) \in L
    BY <1>3, LenProperties
  <2> QED
    BY <2>1 DEF L
<1> QED
  BY <1>4

(***************************************************************************)
(* A recursive function of a natural number, whose values are in X.         *)
(***************************************************************************)
Recurses(g, X, base, lo, n, step) ==
  /\ g \in [lo .. n -> X]
  /\ g[lo] = base
  /\ \A i \in lo .. n : i # lo => g[i] = step[i][g[i - 1]]

LEMMA Recursion ==
  ASSUME NEW X, NEW base \in X, NEW lo \in Nat, NEW n \in Nat, lo <= n,
         NEW step \in [lo .. n -> [X -> X]]
  PROVE  \E g : Recurses(g, X, base, lo, n, step)
<1> DEFINE Has(m) == \E g \in [lo .. m -> X] :
                       /\ g[lo] = base
                       /\ \A i \in lo .. m : i # lo => g[i] = step[i][g[i - 1]]
           Q == {m \in Nat : Has(m)}
<1>1. lo \in Q
  <2> DEFINE g == [i \in lo .. lo |-> base]
  <2>1. g \in [lo .. lo -> X] /\ g[lo] = base /\ \A i \in lo .. lo : i = lo
    OBVIOUS
  <2> HIDE DEF g
  <2> QED
    BY <2>1
<1>2. ASSUME NEW m \in lo .. n, m # lo, m - 1 \in Q PROVE m \in Q
  <2>1. PICK g \in [lo .. m - 1 -> X] :
          /\ g[lo] = base
          /\ \A i \in lo .. m - 1 : i # lo => g[i] = step[i][g[i - 1]]
    BY <1>2
  <2> DEFINE x == step[m][g[m - 1]]
             h == [i \in lo .. m |-> IF i = m THEN x ELSE g[i]]
  <2>2. m \in Nat /\ m - 1 \in lo .. m - 1 /\ g[m - 1] \in X
    BY <1>2
  <2>3. x \in X
    BY <2>2
  <2>4. /\ h \in [lo .. m -> X] /\ h[m] = x
        /\ \A i \in lo .. m - 1 : h[i] = g[i]
    <3> HIDE DEF x
    <3> QED
      BY <2>3
  <2> HIDE DEF h
  <2>5. h[lo] = base /\ h[m - 1] = g[m - 1]
    BY <2>1, <2>2, <2>4
  <2>6. ASSUME NEW i \in lo .. m, i # lo PROVE h[i] = step[i][h[i - 1]]
    <3>1. CASE i = m
      BY <2>4, <2>5, <3>1
    <3>2. CASE i # m
      <4>1. i \in lo .. m - 1 /\ i - 1 \in lo .. m - 1
        BY <2>6, <3>2
      <4> QED
        BY <2>1, <2>4, <2>6, <4>1
    <3> QED
      BY <3>1, <3>2
  <2> QED
    BY <2>2, <2>4, <2>5, <2>6
<1> HIDE DEF Q
<1>3. \A i \in lo .. n : i \in Q
  BY <1>1, <1>2, Induction
<1>4. n \in Q
  BY <1>3
<1> QED
  BY <1>4 DEF Q, Recurses

LEMMA SmallestSet ==
  ASSUME NEW F, F # {}, \A S \in F : IsFiniteSet(S)
  PROVE  \E S \in F : \A T \in F : Cardinality(S) <= Cardinality(T)
<1> DEFINE sizes == {Cardinality(S) : S \in F}
<1>1. sizes \in SUBSET Nat /\ sizes # {}
  BY FS_CardinalityType
<1>2. PICK n \in sizes : \A m \in sizes : n <= m
  BY <1>1, LeastNatural
<1> QED
  BY <1>2

\* A property that a finite set has if it has it without one of its elements.
LEMMA SmallerSet ==
  ASSUME NEW S, IsFiniteSet(S), NEW x \in S
  PROVE  /\ IsFiniteSet(S \ {x})
         /\ Cardinality(S \ {x}) < Cardinality(S)
<1>1. IsFiniteSet(S \ {x}) /\ Cardinality(S \ {x}) = Cardinality(S) - 1
  BY FS_RemoveElement
<1>2. Cardinality(S) \in Nat
  BY FS_CardinalityType
<1> QED
  BY <1>1, <1>2

\* A finite set of integers has a greatest and a least element.
LEMMA GreatestAndLeast ==
  ASSUME NEW S \in SUBSET Int, IsFiniteSet(S), S # {}
  PROVE  /\ \E x \in S : \A y \in S : y <= x
         /\ \E x \in S : \A y \in S : x <= y
<1> DEFINE Has(T) == /\ \E x \in T : \A y \in T : y <= x
                     /\ \E x \in T : \A y \in T : x <= y
           bad == {T \in SUBSET S : T # {} /\ ~Has(T)}
<1> SUFFICES ASSUME bad # {} PROVE FALSE
  OBVIOUS
<1>1. \A T \in bad : IsFiniteSet(T)
  BY FS_Subset
<1>2. PICK T \in bad : \A U \in bad : Cardinality(T) <= Cardinality(U)
  BY <1>1, SmallestSet
<1>3. PICK x \in T : TRUE
  OBVIOUS
<1>4. T \ {x} \notin bad
  <2>1. IsFiniteSet(T \ {x}) /\ Cardinality(T \ {x}) < Cardinality(T)
    BY <1>1, SmallerSet
  <2>2. Cardinality(T \ {x}) \in Nat /\ Cardinality(T) \in Nat
    BY <1>1, <2>1, FS_CardinalityType
  <2> HIDE DEF bad
  <2>3. T \ {x} \in bad => Cardinality(T) <= Cardinality(T \ {x})
    BY <1>2
  <2> QED
    BY <2>1, <2>2, <2>3
<1>5. CASE T \ {x} = {}
  <2>1. \A y \in T : y = x
    BY <1>5
  <2> QED
    BY <2>1, <1>3
<1>6. CASE T \ {x} # {}
  <2>1. PICK y \in T \ {x} : \A z \in T \ {x} : z <= y
    BY <1>4, <1>6
  <2>2. PICK w \in T \ {x} : \A z \in T \ {x} : w <= z
    BY <1>4, <1>6
  <2>3. x \in Int /\ y \in Int /\ w \in Int /\ T \subseteq Int
    OBVIOUS
  <2>4. \E v \in T : \A z \in T : z <= v
    <3>1. CASE x <= y
      BY <2>1, <2>3, <3>1
    <3>2. CASE ~(x <= y)
      BY <1>3, <2>1, <2>3, <3>2
    <3> QED
      BY <3>1, <3>2
  <2>5. \E v \in T : \A z \in T : v <= z
    <3>1. CASE w <= x
      BY <2>2, <2>3, <3>1
    <3>2. CASE ~(w <= x)
      BY <1>3, <2>2, <2>3, <3>2
    <3> QED
      BY <3>1, <3>2
  <2> QED
    BY <2>4, <2>5
<1> QED
  BY <1>5, <1>6

(***************************************************************************)
(* The function behind the fold exists.                                     *)
(***************************************************************************)
Body(g, f, s) == IF s = {} THEN Base ELSE Op(f[Pick(s)], g[s \ {Pick(s)}])

Iterates(g, f, S) == g = [s \in SUBSET S |-> Body(g, f, s)]

LEMMA FoldIsIterate ==
  ASSUME NEW f, NEW S
  PROVE  FoldOn(f, S) = (CHOOSE g : Iterates(g, f, S))[S]
BY DEF FoldOn, MapThenFoldSet, Iterates, Body

Picks(S) == \A s \in SUBSET S : s # {} => Pick(s) \in s

Small(S, n) == {s \in SUBSET S : Cardinality(s) <= n}

LEMMA IterateExists ==
  ASSUME NEW f, NEW S, IsFiniteSet(S), Picks(S)
  PROVE  \E g : Iterates(g, f, S)
<1> DEFINE Has(n) == \E g : g = [s \in Small(S, n) |-> Body(g, f, s)]
           bad == {n \in Nat : ~Has(n)}
<1>1. \A s \in SUBSET S : IsFiniteSet(s) /\ Cardinality(s) \in Nat /\ Cardinality(s) <= Cardinality(S)
  BY FS_Subset, FS_CardinalityType
<1>2. Has(0)
  <2> DEFINE g == [s \in Small(S, 0) |-> Base]
  <2>1. \A s \in Small(S, 0) : s = {}
    BY <1>1, FS_EmptySet DEF Small
  <2>2. g = [s \in Small(S, 0) |-> Body(g, f, s)]
    BY <2>1 DEF Body
  <2> QED
    BY <2>2
<1>3. ASSUME NEW n \in Nat, Has(n)
      PROVE  Has(n + 1)
  <2>1. PICK g : g = [s \in Small(S, n) |-> Body(g, f, s)]
    BY <1>3
  <2> DEFINE h == [s \in Small(S, n + 1) |-> Body(g, f, s)]
  <2>2. \A s \in Small(S, n + 1) : s # {} => s \ {Pick(s)} \in Small(S, n)
    <3> SUFFICES ASSUME NEW s \in Small(S, n + 1), s # {}
                 PROVE  s \ {Pick(s)} \in Small(S, n)
      OBVIOUS
    <3>1. s \in SUBSET S /\ IsFiniteSet(s) /\ Pick(s) \in s
      BY <1>1 DEF Small, Picks
    <3>2. Cardinality(s \ {Pick(s)}) < Cardinality(s) /\ Cardinality(s) <= n + 1
      BY <3>1, SmallerSet DEF Small
    <3>3. s \ {Pick(s)} \in SUBSET S
      BY <3>1
    <3> QED
      BY <1>1, <3>1, <3>2, <3>3 DEF Small
  <2>3. \A s \in Small(S, n) : s \in Small(S, n + 1)
    BY <1>1 DEF Small
  <2>4. \A s \in Small(S, n) : h[s] = g[s]
    BY <2>1, <2>3
  <2>5. ASSUME NEW s \in Small(S, n + 1)
        PROVE  Body(h, f, s) = Body(g, f, s)
    <3> HIDE DEF h
    <3>1. CASE s = {}
      BY <3>1 DEF Body
    <3>2. CASE s # {}
      <4>1. h[s \ {Pick(s)}] = g[s \ {Pick(s)}]
        BY <2>2, <2>4, <3>2
      <4> QED
        BY <3>2, <4>1 DEF Body
    <3> QED
      BY <3>1, <3>2
  <2>6. h = [s \in Small(S, n + 1) |-> Body(h, f, s)]
    <3> DEFINE b(s) == Body(g, f, s)
               c(s) == Body(h, f, s)
    <3>1. \A s \in Small(S, n + 1) : b(s) = c(s)
      BY <2>5
    <3>2. h = [s \in Small(S, n + 1) |-> b(s)]
      OBVIOUS
    <3> HIDE DEF b, c, h
    <3>3. [s \in Small(S, n + 1) |-> b(s)] = [s \in Small(S, n + 1) |-> c(s)]
      BY <3>1
    <3>4. h = [s \in Small(S, n + 1) |-> c(s)]
      BY <3>2, <3>3
    <3> QED
      BY <3>4 DEF c
  <2> QED
    BY <2>6
<1>4. bad = {}
  <2> SUFFICES ASSUME bad # {} PROVE FALSE
    OBVIOUS
  <2>1. PICK n \in bad : \A m \in bad : n <= m
    BY LeastNatural
  <2>2. n # 0 /\ n - 1 \in Nat /\ n = (n - 1) + 1
    BY <1>2
  <2>3. Has(n - 1)
    BY <2>1, <2>2
  <2> HIDE DEF Has
  <2> QED
    BY <1>3, <2>1, <2>2, <2>3
<1>5. Small(S, Cardinality(S)) = SUBSET S
  BY <1>1 DEF Small
<1>6. Has(Cardinality(S))
  BY <1>4, FS_CardinalityType
<1> QED
  BY <1>5, <1>6 DEF Iterates

LEMMA IteratesTheFold ==
  ASSUME NEW f, NEW S, IsFiniteSet(S), Picks(S)
  PROVE  \E g : Iterates(g, f, S) /\ FoldOn(f, S) = g[S]
BY IterateExists, FoldIsIterate

\* Two such functions agree where both are defined and what they fold is the same.
LEMMA IteratesAgree ==
  ASSUME NEW f, NEW g, NEW f2, NEW g2, NEW S, NEW S2,
         Iterates(g, f, S), Iterates(g2, f2, S2), IsFiniteSet(S), Picks(S),
         NEW T \in SUBSET S, T \subseteq S2, \A x \in T : f[x] = f2[x]
  PROVE  g[T] = g2[T]
<1> DEFINE bad == {s \in SUBSET T : g[s] # g2[s]}
<1> SUFFICES ASSUME bad # {} PROVE FALSE
  OBVIOUS
<1>1. \A s \in bad : IsFiniteSet(s)
  BY FS_Subset
<1>2. PICK s \in bad : \A t \in bad : Cardinality(s) <= Cardinality(t)
  BY <1>1, SmallestSet
<1>3. s \in SUBSET S /\ s \in SUBSET S2
  OBVIOUS
<1>4. g[s] = Body(g, f, s) /\ g2[s] = Body(g2, f2, s)
  BY <1>3 DEF Iterates
<1>5. s # {}
  BY <1>4 DEF Body
<1>6. Pick(s) \in s
  BY <1>3, <1>5 DEF Picks
<1>7. s \ {Pick(s)} \notin bad
  <2>1. Cardinality(s \ {Pick(s)}) < Cardinality(s)
    BY <1>1, <1>6, SmallerSet
  <2>2. Cardinality(s \ {Pick(s)}) \in Nat /\ Cardinality(s) \in Nat
    BY <1>1, <1>6, SmallerSet, FS_CardinalityType
  <2> QED
    BY <1>2, <2>1, <2>2
<1>8. g[s \ {Pick(s)}] = g2[s \ {Pick(s)}]
  BY <1>7
<1> QED
  BY <1>4, <1>5, <1>6, <1>8 DEF Body

(***************************************************************************)
(* What folds satisfy.                                                      *)
(***************************************************************************)
LEMMA PicksSubset ==
  ASSUME NEW S, Picks(S), NEW T \in SUBSET S PROVE Picks(T)
BY DEF Picks

THEOREM FoldEmpty == ASSUME NEW f PROVE FoldOn(f, {}) = Base
<1>1. Picks({}) /\ IsFiniteSet({})
  BY FS_EmptySet DEF Picks
<1>2. PICK g : Iterates(g, f, {}) /\ FoldOn(f, {}) = g[{}]
  BY <1>1, IteratesTheFold
<1> QED
  BY <1>2 DEF Iterates, Body

THEOREM FoldPicked ==
  ASSUME NEW f, NEW S, IsFiniteSet(S), Picks(S), S # {}
  PROVE  FoldOn(f, S) = Op(f[Pick(S)], FoldOn(f, S \ {Pick(S)}))
<1> DEFINE T == S \ {Pick(S)}
<1>1. PICK g : Iterates(g, f, S) /\ FoldOn(f, S) = g[S]
  BY IteratesTheFold
<1>2. Picks(T) /\ IsFiniteSet(T)
  BY PicksSubset, FS_Subset
<1>3. PICK h : Iterates(h, f, T) /\ FoldOn(f, T) = h[T]
  BY <1>2, IteratesTheFold
<1>4. g[T] = h[T]
  BY <1>1, <1>2, <1>3, IteratesAgree
<1>5. g[S] = Op(f[Pick(S)], g[T])
  BY <1>1 DEF Iterates, Body
<1> QED
  BY <1>1, <1>3, <1>4, <1>5

THEOREM FoldSame ==
  ASSUME NEW f, NEW f2, NEW S, IsFiniteSet(S), Picks(S), \A x \in S : f[x] = f2[x]
  PROVE  FoldOn(f, S) = FoldOn(f2, S)
<1>1. PICK g : Iterates(g, f, S) /\ FoldOn(f, S) = g[S]
  BY IteratesTheFold
<1>2. PICK h : Iterates(h, f2, S) /\ FoldOn(f2, S) = h[S]
  BY IteratesTheFold
<1> QED
  BY <1>1, <1>2, IteratesAgree

\* From left to right over a sequence.
THEOREM FoldAppended ==
  ASSUME NEW X, NEW s \in Seq(X), NEW x \in X,
         \A t \in SUBSET Nat : t # {} /\ IsFiniteSet(t) =>
           Pick(t) \in t /\ \A i \in t : i <= Pick(t)
  PROVE  FoldOn(Append(s, x), DOMAIN Append(s, x)) = Op(x, FoldOn(s, DOMAIN s))
<1> DEFINE n == Len(s)
           t == Append(s, x)
           J == 1 .. n + 1
<1>1. n \in Nat /\ DOMAIN s = 1 .. n
  OBVIOUS
<1>a. DOMAIN t = J /\ t[n + 1] = x
  OBVIOUS
<1>b. \A i \in 1 .. n : t[i] = s[i]
  OBVIOUS
<1> HIDE DEF t, n
<1>2. IsFiniteSet(J) /\ IsFiniteSet(1 .. n) /\ J \in SUBSET Nat /\ J # {}
  <2>1. n \in Int /\ n + 1 \in Int /\ 1 \in Int
    BY <1>1
  <2>2. IsFiniteSet(J) /\ IsFiniteSet(1 .. n)
    BY <2>1, FS_Interval
  <2>3. J \in SUBSET Nat /\ n + 1 \in J
    BY <1>1
  <2> QED
    BY <2>2, <2>3
<1>3. Picks(J)
  BY <1>2, FS_Subset DEF Picks
<1>4. Pick(J) = n + 1
  <2>1. Pick(J) \in J /\ n + 1 <= Pick(J)
    BY <1>1, <1>2
  <2> QED
    BY <1>1, <2>1
<1>5. J \ {n + 1} = 1 .. n
  BY <1>1
<1>6. FoldOn(t, J) = Op(x, FoldOn(t, 1 .. n))
  BY <1>a, <1>2, <1>3, <1>4, <1>5, FoldPicked
<1>7. Picks(1 .. n)
  BY <1>3, <1>1 DEF Picks
<1>8. FoldOn(t, 1 .. n) = FoldOn(s, 1 .. n)
  BY <1>b, <1>2, <1>7, FoldSame
<1>9. FoldOn(t, J) = Op(x, FoldOn(s, 1 .. n))
  BY <1>6, <1>8
<1> QED
  BY <1>1, <1>a, <1>9 DEF t

Commutes ==
  /\ Base \in D
  /\ \A a, b \in D : Op(a, b) \in D
  /\ \A a, b, c \in D : Op(a, Op(b, c)) = Op(b, Op(a, c))

\* In any order, if the operation allows it.
THEOREM FoldAny ==
  ASSUME Commutes, NEW f, NEW S, IsFiniteSet(S), Picks(S), \A i \in S : f[i] \in D
  PROVE  /\ FoldOn(f, S) \in D
         /\ \A x \in S : FoldOn(f, S) = Op(f[x], FoldOn(f, S \ {x}))
<1> DEFINE Good(T) == /\ FoldOn(f, T) \in D
                      /\ \A x \in T : FoldOn(f, T) = Op(f[x], FoldOn(f, T \ {x}))
           bad == {T \in SUBSET S : ~Good(T)}
<1> USE DEF Commutes
<1> SUFFICES ASSUME bad # {} PROVE FALSE
  OBVIOUS
<1>1. \A T \in SUBSET S : IsFiniteSet(T) /\ Picks(T)
  BY FS_Subset, PicksSubset
<1>2. PICK T \in bad : \A U \in bad : Cardinality(T) <= Cardinality(U)
  BY <1>1, SmallestSet
<1> HIDE DEF Good
<1>a. T \in SUBSET S /\ IsFiniteSet(T) /\ ~Good(T) /\ Cardinality(T) \in Nat
  BY <1>1, <1>2, FS_CardinalityType
<1>b. ASSUME NEW U \in SUBSET S, Cardinality(U) < Cardinality(T) PROVE Good(U)
  <2>1. Cardinality(U) \in Nat
    BY <1>1, FS_CardinalityType
  <2>2. U \notin bad
    BY <1>2, <1>a, <1>b, <2>1
  <2> QED
    BY <2>2
<1>3. ASSUME NEW x \in T PROVE Good(T \ {x})
  <2>1. Cardinality(T \ {x}) < Cardinality(T)
    BY <1>a, <1>3, SmallerSet
  <2> QED
    BY <1>a, <1>b, <2>1
<1>4. Good(T)
  <2>1. CASE T = {}
    BY <2>1, FoldEmpty DEF Good
  <2>2. CASE T # {}
    <3> DEFINE p == Pick(T)
    <3>1. p \in T
      BY <1>1, <2>2 DEF Picks
    <3>2. FoldOn(f, T) = Op(f[p], FoldOn(f, T \ {p}))
      BY <1>1, <2>2, FoldPicked
    <3>3. FoldOn(f, T \ {p}) \in D /\ f[p] \in D
      BY <1>3, <1>a, <3>1 DEF Good
    <3>4. FoldOn(f, T) \in D
      BY <3>2, <3>3
    <3>5. ASSUME NEW x \in T PROVE FoldOn(f, T) = Op(f[x], FoldOn(f, T \ {x}))
      <4>1. CASE x = p
        BY <3>2, <4>1
      <4>2. CASE x # p
        <5>1. x \in T \ {p} /\ p \in T \ {x}
          BY <3>1, <4>2
        <5> DEFINE V == (T \ {p}) \ {x}
        <5>2. (T \ {x}) \ {p} = V
          OBVIOUS
        <5>3. FoldOn(f, T \ {p}) = Op(f[x], FoldOn(f, V))
          BY <1>3, <3>1, <5>1 DEF Good
        <5>4. FoldOn(f, T \ {x}) = Op(f[p], FoldOn(f, V))
          <6>1. FoldOn(f, T \ {x}) = Op(f[p], FoldOn(f, (T \ {x}) \ {p}))
            BY <1>3, <5>1 DEF Good
          <6> QED
            BY <5>2, <6>1
        <5> HIDE DEF p
        <5>5. FoldOn(f, V) \in D
          <6>1. /\ IsFiniteSet(T \ {p})
                /\ Cardinality(T \ {p}) < Cardinality(T)
                /\ Cardinality(V) < Cardinality(T \ {p})
            BY <1>a, <3>1, <5>1, SmallerSet
          <6>2. /\ IsFiniteSet(V)
                /\ Cardinality(V) \in Nat
                /\ Cardinality(T \ {p}) \in Nat
            BY <1>a, <1>1, <6>1, FS_CardinalityType
          <6>3. V \in SUBSET S
            BY <1>a
          <6>4. Cardinality(V) < Cardinality(T)
            BY <1>a, <6>1, <6>2
          <6>5. Good(V)
            BY <1>b, <6>3, <6>4
          <6> QED
            BY <6>5 DEF Good
        <5>6. f[x] \in D /\ f[p] \in D
          BY <1>a, <3>1
        <5> HIDE DEF V
        <5>7. Op(f[p], Op(f[x], FoldOn(f, V))) = Op(f[x], Op(f[p], FoldOn(f, V)))
          BY <5>5, <5>6
        <5> QED
          BY <3>2, <5>3, <5>4, <5>7
      <4> QED
        BY <4>1, <4>2
    <3> QED
      BY <3>4, <3>5 DEF Good
  <2> QED
    BY <2>1, <2>2
<1> QED
  BY <1>a, <1>4

(***************************************************************************)
(* What a value adds to the variance, from the number, the sum S and the    *)
(* sum of squares Q of the values before it.                                *)
(***************************************************************************)
LEMMA SpreadMore ==
  ASSUME NEW n \in Nat, NEW S \in Int, NEW Q \in Int, NEW x \in Int,
         n * Q - S * S >= 0, n = 0 => S = 0 /\ Q = 0
  PROVE  (n + 1) * (Q + x * x) - (S + x) * (S + x) >= 0
<1> DEFINE d == Q - 2 * (S * x) + n * (x * x)
<1>1. (n + 1) * (Q + x * x) - (S + x) * (S + x) = (n * Q - S * S) + d
  <2>1. (n + 1) * (Q + x * x) = n * Q + n * (x * x) + Q + x * x
    OBVIOUS
  <2>2. (S + x) * (S + x) = S * S + 2 * (S * x) + x * x
    OBVIOUS
  <2>3. n * Q \in Int /\ n * (x * x) \in Int /\ S * S \in Int /\ S * x \in Int /\ x * x \in Int
    OBVIOUS
  <2> QED
    BY <2>1, <2>2, <2>3
<1>2. n * d = (n * Q - S * S) + (S - n * x) * (S - n * x)
  OBVIOUS
<1>3. d \in Int /\ n * Q - S * S \in Int /\ (S - n * x) * (S - n * x) \in Nat
  OBVIOUS
<1>4. n = 0 => d = 0
  OBVIOUS
<1> HIDE DEF d
<1>5. n * d >= 0
  BY <1>2, <1>3
<1>6. d >= 0
  BY <1>3, <1>4, <1>5
<1> QED
  BY <1>1, <1>3, <1>6
================================================================================

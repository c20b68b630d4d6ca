---------------------------- MODULE PipelineProofs ----------------------------
(***************************************************************************)
(* Proofs about Pipeline, for every set of predictions, models, names and  *)
(* weights, and for any number of ticks.                                   *)
(***************************************************************************)
EXTENDS Pipeline, SequenceTheorems, FiniteSetTheorems, TLAPS

Sums == INSTANCE FoldTheorems
  WITH Op <- +, Base <- 0, Pick <- LAMBDA s : CHOOSE x \in s : TRUE, D <- Nat

(***************************************************************************)
(* Sequences: what they hold, and what is in them once.                    *)
(***************************************************************************)
LEMMA FunctionIsSeq ==
  ASSUME NEW S, NEW n \in Nat, NEW f \in [1 .. n -> S]
  PROVE  f \in Seq(S) /\ Len(f) = n
OBVIOUS

LEMMA AppendIs ==
  ASSUME NEW S, NEW s \in Seq(S), NEW x \in S
  PROVE  Append(s, x) = [i \in 1 .. Len(s) + 1 |-> IF i = Len(s) + 1 THEN x ELSE s[i]]
<1> DEFINE a == Append(s, x)
           n == Len(s)
<1>1. /\ n \in Nat /\ a \in Seq(S) /\ Len(a) = n + 1 /\ a[n + 1] = x
      /\ \A i \in 1..n : a[i] = s[i]
  BY AppendProperties, LenProperties
<1> HIDE DEF a, n
<1>2. a \in [1 .. n + 1 -> S]
  BY <1>1, LenProperties
<1>3. a = [i \in 1 .. n + 1 |-> a[i]]
  BY <1>2
<1>4. \A i \in 1 .. n + 1 : a[i] = IF i = n + 1 THEN x ELSE s[i]
  BY <1>1
<1>5. a = [i \in 1 .. n + 1 |-> IF i = n + 1 THEN x ELSE s[i]]
  BY <1>3, <1>4
<1> QED
  BY <1>5 DEF a, n

LEMMA ToSetIs ==
  ASSUME NEW S, NEW s \in Seq(S)
  PROVE  /\ ToSet(s) \in SUBSET S
         /\ \A x : x \in ToSet(s) <=> \E i \in 1..Len(s) : s[i] = x
         /\ \A x : Contains(s, x) <=> x \in ToSet(s)
BY LenProperties, ElementOfSeq DEF ToSet, Contains

LEMMA ToSetEmpty == ToSet(<< >>) = {} /\ IsInjective(<< >>)
BY DEF ToSet, IsInjective

LEMMA Concatenated ==
  ASSUME NEW S, NEW s \in Seq(S), NEW t \in Seq(S)
  PROVE  /\ s \o t \in Seq(S)
         /\ ToSet(s \o t) = ToSet(s) \cup ToSet(t)
         /\ IsInjective(s \o t) <=>
              IsInjective(s) /\ IsInjective(t) /\ ToSet(s) \cap ToSet(t) = {}
<1> DEFINE m == Len(s)
           n == Len(t)
           u == s \o t
<1>1. m \in Nat /\ n \in Nat /\ DOMAIN s = 1 .. m /\ DOMAIN t = 1 .. n
  BY LenProperties
<1>2. u \in Seq(S) /\ Len(u) = m + n /\ DOMAIN u = 1 .. m + n
  BY ConcatProperties, LenProperties
<1>3. \A i \in 1 .. m : i \in 1 .. m + n /\ u[i] = s[i]
  BY <1>1, ConcatProperties
<1>4. \A i \in 1 .. n : m + i \in 1 .. m + n /\ u[m + i] = t[i]
  <2> SUFFICES ASSUME NEW i \in 1 .. n
               PROVE  m + i \in 1 .. m + n /\ u[m + i] = t[i]
    OBVIOUS
  <2>1. m + i \in 1 .. m + n /\ ~(m + i <= m) /\ (m + i) - m = i
    BY <1>1
  <2>2. u[m + i] = IF m + i <= m THEN s[m + i] ELSE t[(m + i) - m]
    BY <2>1, ConcatProperties
  <2> QED
    BY <2>1, <2>2
<1>5. \A i \in 1 .. m + n : i \in 1 .. m \/ \E j \in 1 .. n : i = m + j
  <2> SUFFICES ASSUME NEW i \in 1 .. m + n, i \notin 1 .. m PROVE \E j \in 1 .. n : i = m + j
    OBVIOUS
  <2>1. i - m \in 1 .. n /\ i = m + (i - m)
    BY <1>1
  <2> QED
    BY <2>1
<1>6. \A i \in 1 .. m : \A j \in 1 .. n : i # m + j
  BY <1>1
<1> HIDE DEF u, m, n
<1>7. ToSet(u) = ToSet(s) \cup ToSet(t)
  <2>1. /\ ToSet(s) = {s[i] : i \in 1 .. m}
        /\ ToSet(t) = {t[i] : i \in 1 .. n}
        /\ ToSet(u) = {u[i] : i \in 1 .. m + n}
    BY <1>1, <1>2 DEF ToSet
  <2>2. ASSUME NEW x \in ToSet(u) PROVE x \in ToSet(s) \cup ToSet(t)
    <3>1. PICK i \in 1 .. m + n : x = u[i]
      BY <2>1
    <3>2. CASE i \in 1 .. m
      BY <1>3, <2>1, <3>1, <3>2
    <3>3. CASE i \notin 1 .. m
      BY <1>4, <1>5, <2>1, <3>1, <3>3
    <3> QED
      BY <3>2, <3>3
  <2>3. ASSUME NEW x \in ToSet(s) PROVE x \in ToSet(u)
    BY <1>3, <2>1
  <2>4. ASSUME NEW x \in ToSet(t) PROVE x \in ToSet(u)
    BY <1>4, <2>1
  <2> QED
    BY <2>2, <2>3, <2>4
<1>8. ASSUME IsInjective(u)
      PROVE  IsInjective(s) /\ IsInjective(t) /\ ToSet(s) \cap ToSet(t) = {}
  <2>1. IsInjective(s)
    BY <1>1, <1>2, <1>3, <1>8 DEF IsInjective
  <2>2. IsInjective(t)
    <3> SUFFICES ASSUME NEW i \in 1 .. n, NEW j \in 1 .. n, t[i] = t[j] PROVE i = j
      BY <1>1 DEF IsInjective
    <3>1. m + i = m + j
      BY <1>2, <1>4, <1>8 DEF IsInjective
    <3> QED
      BY <1>1, <3>1
  <2>3. \A i \in 1 .. m : \A j \in 1 .. n : s[i] # t[j]
    BY <1>2, <1>3, <1>4, <1>6, <1>8 DEF IsInjective
  <2> QED
    BY <1>1, <2>1, <2>2, <2>3 DEF ToSet
<1>9. ASSUME IsInjective(s), IsInjective(t), ToSet(s) \cap ToSet(t) = {}
      PROVE  IsInjective(u)
  <2>1. \A i \in 1 .. m : \A j \in 1 .. n : s[i] # t[j]
    BY <1>1, <1>9 DEF ToSet
  <2> SUFFICES ASSUME NEW i \in 1 .. m + n, NEW j \in 1 .. m + n, u[i] = u[j] PROVE i = j
    BY <1>2 DEF IsInjective
  <2>2. CASE i \in 1 .. m /\ j \in 1 .. m
    BY <1>1, <1>3, <1>9, <2>2 DEF IsInjective
  <2>3. CASE i \in 1 .. m /\ j \notin 1 .. m
    BY <1>3, <1>4, <1>5, <2>1, <2>3
  <2>4. CASE i \notin 1 .. m /\ j \in 1 .. m
    <3>1. PICK k \in 1 .. n : i = m + k
      BY <1>5, <2>4
    <3>2. u[i] = t[k] /\ u[j] = s[j]
      BY <1>3, <1>4, <2>4, <3>1
    <3> QED
      BY <2>1, <2>4, <3>2
  <2>5. CASE i \notin 1 .. m /\ j \notin 1 .. m
    <3>1. PICK k \in 1 .. n, l \in 1 .. n : i = m + k /\ j = m + l
      BY <1>5, <2>5
    <3>2. t[k] = t[l]
      BY <1>4, <3>1
    <3> QED
      BY <1>1, <1>9, <3>1, <3>2 DEF IsInjective
  <2> QED
    BY <2>2, <2>3, <2>4, <2>5
<1> QED
  BY <1>2, <1>7, <1>8, <1>9 DEF u

LEMMA Appended ==
  ASSUME NEW S, NEW s \in Seq(S), NEW x \in S
  PROVE  /\ Append(s, x) \in Seq(S)
         /\ ToSet(Append(s, x)) = ToSet(s) \cup {x}
         /\ IsInjective(Append(s, x)) <=> IsInjective(s) /\ x \notin ToSet(s)
<1> DEFINE t == <<x>>
<1>1. t \in Seq(S) /\ ToSet(t) = {x} /\ IsInjective(t)
  BY DEF ToSet, IsInjective
<1>2. Append(s, x) = s \o t
  BY AppendIsConcat
<1> HIDE DEF t
<1>3. /\ s \o t \in Seq(S)
      /\ ToSet(s \o t) = ToSet(s) \cup ToSet(t)
      /\ IsInjective(s \o t) <=>
           IsInjective(s) /\ IsInjective(t) /\ ToSet(s) \cap ToSet(t) = {}
  BY <1>1, Concatenated
<1> QED
  BY <1>1, <1>2, <1>3

LEMMA HeadAndTail ==
  ASSUME NEW S, NEW s \in Seq(S), s # << >>
  PROVE  /\ Head(s) \in S /\ Tail(s) \in Seq(S)
         /\ ToSet(s) = {Head(s)} \cup ToSet(Tail(s))
         /\ IsInjective(s) <=> Head(s) \notin ToSet(Tail(s)) /\ IsInjective(Tail(s))
<1>1. Head(s) \in S /\ Tail(s) \in Seq(S) /\ s = <<Head(s)>> \o Tail(s)
  <2>1. Head(s) \in S /\ Tail(s) \in Seq(S) /\ Len(Tail(s)) = Len(s) - 1 /\ Len(s) \in Nat \ {0}
        /\ \A i \in 1 .. Len(s) - 1 : Tail(s)[i] = s[i + 1]
    BY HeadTailProperties, EmptySeq
  <2> DEFINE h == <<Head(s)>>
  <2>2. h \in Seq(S) /\ Len(h) = 1 /\ h[1] = s[1]
    BY <2>1
  <2> DEFINE t == Tail(s)
             n == Len(s)
  <2>3. t \in Seq(S) /\ Len(t) = n - 1 /\ n \in Nat \ {0} /\ Len(h) + Len(t) = n
        /\ \A i \in 1 .. n - 1 : t[i] = s[i + 1]
    BY <2>1, <2>2
  <2> HIDE DEF h, t, n
  <2>4. /\ h \o t \in Seq(S) /\ Len(h \o t) = Len(h) + Len(t)
        /\ \A i \in 1 .. Len(h) + Len(t) :
             (h \o t)[i] = IF i <= Len(h) THEN h[i] ELSE t[i - Len(h)]
    BY <2>2, <2>3, ConcatProperties
  <2>5. ASSUME NEW i \in 1 .. n PROVE (h \o t)[i] = s[i]
    <3>1. (h \o t)[i] = IF i <= 1 THEN h[i] ELSE t[i - 1]
      BY <2>2, <2>3, <2>4
    <3>2. CASE i = 1
      BY <2>2, <3>1, <3>2
    <3>3. CASE i # 1
      <4>1. i - 1 \in 1 .. n - 1 /\ ~(i <= 1) /\ (i - 1) + 1 = i
        BY <2>3, <3>3
      <4> QED
        BY <2>3, <3>1, <4>1
    <3> QED
      BY <3>2, <3>3
  <2>6. h \o t = s
    BY <2>3, <2>4, <2>5, SeqEqual DEF n
  <2> QED
    BY <2>1, <2>6 DEF h, t
<1> DEFINE h == <<Head(s)>>
           t == Tail(s)
<1>2. h \in Seq(S) /\ ToSet(h) = {Head(s)} /\ IsInjective(h)
  BY <1>1 DEF ToSet, IsInjective
<1>3. t \in Seq(S) /\ s = h \o t
  BY <1>1
<1> HIDE DEF h, t
<1>4. /\ ToSet(h \o t) = ToSet(h) \cup ToSet(t)
      /\ IsInjective(h \o t) <=>
           IsInjective(h) /\ IsInjective(t) /\ ToSet(h) \cap ToSet(t) = {}
  BY <1>2, <1>3, Concatenated
<1>5. /\ ToSet(s) = {Head(s)} \cup ToSet(t)
      /\ IsInjective(s) <=> Head(s) \notin ToSet(t) /\ IsInjective(t)
  BY <1>2, <1>3, <1>4
<1> QED
  BY <1>1, <1>5 DEF t

(***************************************************************************)
(* FlattenSeq, one sequence at a time.                                     *)
(***************************************************************************)
Flattens(g, ss) ==
  g = [i \in 1..Len(ss) |-> IF i = 1 THEN ss[i] ELSE g[i - 1] \o ss[i]]

LEMMA FlattenIs ==
  ASSUME NEW S, NEW ss \in Seq(Seq(S)), ss # << >>
  PROVE  \E g : /\ Flattens(g, ss)
                /\ FlattenSeq(ss) = g[Len(ss)]
                /\ g \in [1..Len(ss) -> Seq(S)]
<1> DEFINE n == Len(ss)
           X == Seq(S)
           first == ss[1]
           step == [i \in 1 .. n |-> [x \in X |-> x \o ss[i]]]
<1>1. n \in Nat /\ 1 \in Nat /\ 1 <= n
  BY EmptySeq
<1>2. \A i \in 1 .. n : ss[i] \in X
  BY ElementOfSeq
<1>3. \A i \in 1 .. n : i # 1 => i - 1 \in 1 .. n
  BY <1>1
<1>4. \A i \in 1 .. n : \A x \in X : x \o ss[i] \in X
  BY <1>2, ConcatProperties
<1>5. first \in X /\ step \in [1 .. n -> [X -> X]]
  <2> HIDE DEF X, n
  <2> QED
    BY <1>1, <1>2, <1>4
<1> HIDE DEF step, X, n, first
<1>a. PICK g : Sums!Recurses(g, X, first, 1, n, step)
  BY <1>1, <1>5, Sums!Recursion
<1>6. /\ g \in [1 .. n -> X] /\ g[1] = first
      /\ \A i \in 1 .. n : i # 1 => g[i] = step[i][g[i - 1]]
  BY <1>a DEF Sums!Recurses
<1>7. \A i \in 1 .. n : g[i] = IF i = 1 THEN ss[i] ELSE g[i - 1] \o ss[i]
  <2> SUFFICES ASSUME NEW i \in 1 .. n
               PROVE  g[i] = IF i = 1 THEN ss[i] ELSE g[i - 1] \o ss[i]
    OBVIOUS
  <2>1. CASE i = 1
    BY <1>6, <2>1 DEF first
  <2>2. CASE i # 1
    <3>1. g[i] = step[i][g[i - 1]] /\ g[i - 1] \in X
      BY <1>3, <1>6, <2>2
    <3>2. step[i][g[i - 1]] = g[i - 1] \o ss[i]
      BY <3>1 DEF step
    <3> QED
      BY <2>2, <3>1, <3>2
  <2> QED
    BY <2>1, <2>2
<1>8. Flattens(g, ss)
  BY <1>6, <1>7 DEF Flattens, n
<1> DEFINE h == CHOOSE f : Flattens(f, ss)
<1>9. Flattens(h, ss)
  BY <1>8
<1>10. FlattenSeq(ss) = h[n]
  BY <1>1 DEF FlattenSeq, Flattens, n
<1> HIDE DEF h
<1>11. \A i \in 1 .. n : h[i] = IF i = 1 THEN ss[i] ELSE h[i - 1] \o ss[i]
  BY <1>9 DEF Flattens, n
<1> DEFINE Q == {i \in 1 .. n : h[i] \in X}
<1>12. 1 \in Q
  <2>1. 1 \in 1 .. n
    BY <1>1
  <2>2. h[1] = ss[1]
    BY <1>11, <2>1
  <2> QED
    BY <1>2, <2>1, <2>2
<1>13. \A i \in 1 .. n : i # 1 /\ i - 1 \in Q => i \in Q
  <2> SUFFICES ASSUME NEW i \in 1 .. n, i # 1, i - 1 \in Q PROVE i \in Q
    OBVIOUS
  <2>1. h[i] = h[i - 1] \o ss[i]
    BY <1>11
  <2>2. h[i - 1] \in X /\ ss[i] \in X
    BY <1>2, <1>3
  <2>3. h[i - 1] \o ss[i] \in X
    BY <2>2, ConcatProperties DEF X
  <2> QED
    BY <2>1, <2>2, <2>3
<1> HIDE DEF Q
<1>14. \A i \in 1 .. n : i \in Q
  BY <1>1, <1>12, <1>13, Sums!Induction
<1>15. h \in [1 .. n -> X]
  <2>1. \A i \in 1 .. n : h[i] \in X
    BY <1>14 DEF Q
  <2>2. DOMAIN h = 1 .. n /\ h = [i \in DOMAIN h |-> h[i]]
    BY <1>9 DEF Flattens, n
  <2> QED
    BY <2>1, <2>2
<1> QED
  BY <1>9, <1>10, <1>15 DEF n, X

LEMMA FlattenAppended ==
  ASSUME NEW S, NEW ss \in Seq(Seq(S)), NEW s \in Seq(S)
  PROVE  FlattenSeq(Append(ss, s)) = FlattenSeq(ss) \o s
<1> DEFINE n == Len(ss)
           tt == Append(ss, s)
<1>1. n \in Nat
  OBVIOUS
<1>2. /\ tt \in Seq(Seq(S)) /\ tt # << >> /\ Len(tt) = n + 1 /\ tt[n + 1] = s
      /\ \A i \in 1 .. n : tt[i] = ss[i]
  BY AppendProperties
<1> HIDE DEF tt
<1>3. PICK h : Flattens(h, tt) /\ FlattenSeq(tt) = h[n + 1]
  BY <1>2, FlattenIs
<1>4. \A i \in 1 .. n + 1 : h[i] = IF i = 1 THEN tt[i] ELSE h[i - 1] \o tt[i]
  BY <1>2, <1>3 DEF Flattens
<1>5. CASE ss = << >>
  <2>1. n = 0 /\ FlattenSeq(ss) = << >>
    BY <1>5 DEF FlattenSeq
  <2>2. 1 \in 1 .. n + 1
    BY <2>1
  <2>3. FlattenSeq(tt) = s
    BY <1>2, <1>3, <1>4, <2>1, <2>2
  <2> QED
    BY <2>1, <2>3, ConcatEmptySeq DEF tt
<1>6. CASE ss # << >>
  <2>1. PICK g : Flattens(g, ss) /\ FlattenSeq(ss) = g[n]
    BY <1>6, FlattenIs
  <2>2. \A i \in 1 .. n : g[i] = IF i = 1 THEN ss[i] ELSE g[i - 1] \o ss[i]
    BY <2>1 DEF Flattens
  <2>3. n >= 1
    BY <1>6, EmptySeq
  <2> DEFINE Q == {i \in 1 .. n : g[i] = h[i]}
  <2>4. 1 \in Q
    <3>1. 1 \in 1 .. n /\ 1 \in 1 .. n + 1
      BY <1>1, <2>3
    <3> QED
      BY <1>2, <1>4, <2>2, <3>1
  <2>5. \A i \in 1 .. n : i # 1 /\ i - 1 \in Q => i \in Q
    <3> SUFFICES ASSUME NEW i \in 1 .. n, i # 1, i - 1 \in Q PROVE i \in Q
      OBVIOUS
    <3>1. i \in 1 .. n + 1
      BY <1>1
    <3>2. g[i] = g[i - 1] \o ss[i] /\ h[i] = h[i - 1] \o tt[i] /\ tt[i] = ss[i]
      BY <1>2, <1>4, <2>2, <3>1
    <3> QED
      BY <3>1, <3>2
  <2> HIDE DEF Q
  <2>6. \A i \in 1 .. n : i \in Q
    BY <1>1, <2>4, <2>5, Sums!Induction
  <2>7. n \in 1 .. n /\ n + 1 \in 1 .. n + 1 /\ n + 1 # 1 /\ (n + 1) - 1 = n
    BY <1>1, <2>3
  <2>8. h[n] = g[n]
    BY <2>6, <2>7 DEF Q
  <2>9. h[n + 1] = h[n] \o s
    BY <1>2, <1>4, <2>7
  <2> QED
    BY <1>3, <2>1, <2>8, <2>9 DEF tt
<1> QED
  BY <1>5, <1>6

LEMMA FlattenType ==
  ASSUME NEW S, NEW ss \in Seq(Seq(S))
  PROVE  FlattenSeq(ss) \in Seq(S)
<1>1. CASE ss = << >>
  BY <1>1 DEF FlattenSeq
<1>2. CASE ss # << >>
  <2>1. PICK g : FlattenSeq(ss) = g[Len(ss)] /\ g \in [1..Len(ss) -> Seq(S)]
    BY <1>2, FlattenIs
  <2>2. Len(ss) \in 1..Len(ss)
    BY <1>2, EmptySeq
  <2> QED
    BY <2>1, <2>2
<1> QED
  BY <1>1, <1>2

LEMMA FlattenEmpty == FlattenSeq(<< >>) = << >>
BY DEF FlattenSeq

LEMMA FlattenHolds ==
  ASSUME NEW S, NEW ss \in Seq(Seq(S))
  PROVE  ToSet(FlattenSeq(ss)) = UNION {ToSet(ss[i]) : i \in 1..Len(ss)}
<1> DEFINE All(tt) == UNION {ToSet(tt[i]) : i \in 1..Len(tt)}
           Q == {tt \in Seq(Seq(S)) : ToSet(FlattenSeq(tt)) = All(tt)}
<1>1. << >> \in Q
  <2>1. All(<< >>) = {}
    OBVIOUS
  <2> QED
    BY <2>1, FlattenEmpty, ToSetEmpty
<1>2. ASSUME NEW tt \in Seq(Seq(S)), NEW s \in Seq(S), tt \in Q PROVE Append(tt, s) \in Q
  <2> DEFINE uu == Append(tt, s)
             n == Len(tt)
  <2>1. /\ n \in Nat /\ uu \in Seq(Seq(S)) /\ Len(uu) = n + 1 /\ uu[n + 1] = s
        /\ \A i \in 1 .. n : uu[i] = tt[i]
    BY AppendProperties
  <2>2. ToSet(FlattenSeq(uu)) = ToSet(FlattenSeq(tt)) \cup ToSet(s)
    <3>1. FlattenSeq(uu) = FlattenSeq(tt) \o s
      BY FlattenAppended
    <3>2. FlattenSeq(tt) \in Seq(S)
      BY FlattenType
    <3> QED
      BY <3>1, <3>2, Concatenated
  <2> HIDE DEF uu, n
  <2>3. All(uu) = All(tt) \cup ToSet(s)
    <3>1. 1 .. n + 1 = (1 .. n) \cup {n + 1}
      BY <2>1
    <3>2. {ToSet(uu[i]) : i \in 1 .. n + 1} = {ToSet(tt[i]) : i \in 1 .. n} \cup {ToSet(s)}
      BY <2>1, <3>1
    <3> QED
      BY <2>1, <3>2 DEF n
  <2> QED
    BY <1>2, <2>1, <2>2, <2>3 DEF uu
<1> HIDE DEF Q
<1>3. ss \in Q
  BY <1>1, <1>2, Sums!SeqInduction
<1> QED
  BY <1>3 DEF Q

(***************************************************************************)
(* Kept, one entry at a time.                                              *)
(***************************************************************************)
Keeps(g, s, A) ==
  g = [i \in 0 .. Len(s) |->
         IF i = 0 THEN << >>
         ELSE IF s[i] \in A THEN Append(g[i - 1], s[i]) ELSE g[i - 1]]

LEMMA KeptIs ==
  ASSUME NEW S, NEW s \in Seq(S), NEW A
  PROVE  \E g : /\ Keeps(g, s, A)
                /\ Kept(s, A) = g[Len(s)]
                /\ g \in [0 .. Len(s) -> Seq(S)]
<1> DEFINE n == Len(s)
           X == Seq(S)
           Next1(i, x) == IF s[i] \in A THEN Append(x, s[i]) ELSE x
           none == << >>
           step == [i \in 0 .. n |-> [x \in X |-> IF i = 0 THEN none ELSE Next1(i, x)]]
<1>1. n \in Nat /\ 0 \in Nat /\ 0 <= n
  BY LenProperties
<1>2. \A i \in 0 .. n : i # 0 => s[i] \in S /\ i - 1 \in 0 .. n
  <2>1. \A i \in 0 .. n : i # 0 => i \in 1 .. n /\ i - 1 \in 0 .. n
    BY <1>1
  <2> QED
    BY <2>1, ElementOfSeq
<1>3. none \in X
  OBVIOUS
<1>4. \A i \in 0 .. n : i # 0 => \A x \in X : Next1(i, x) \in X
  BY <1>2, AppendProperties
<1> HIDE DEF none, X, n, Next1
<1>5. step \in [0 .. n -> [X -> X]]
  BY <1>3, <1>4
<1> HIDE DEF step
<1>a. PICK g : Sums!Recurses(g, X, none, 0, n, step)
  BY <1>1, <1>3, <1>5, Sums!Recursion
<1>6. /\ g \in [0 .. n -> X] /\ g[0] = none
      /\ \A i \in 0 .. n : i # 0 => g[i] = step[i][g[i - 1]]
  BY <1>a DEF Sums!Recurses
<1>7. \A i \in 0 .. n : g[i] = IF i = 0 THEN none ELSE Next1(i, g[i - 1])
  <2> SUFFICES ASSUME NEW i \in 0 .. n
               PROVE  g[i] = IF i = 0 THEN none ELSE Next1(i, g[i - 1])
    OBVIOUS
  <2>1. CASE i = 0
    BY <1>6, <2>1
  <2>2. CASE i # 0
    <3>1. g[i] = step[i][g[i - 1]] /\ g[i - 1] \in X
      BY <1>2, <1>6, <2>2
    <3>2. step[i][g[i - 1]] = Next1(i, g[i - 1])
      BY <2>2, <3>1 DEF step
    <3> QED
      BY <2>2, <3>1, <3>2
  <2> QED
    BY <2>1, <2>2
<1>8. Keeps(g, s, A)
  BY <1>6, <1>7 DEF Keeps, n, Next1, none
<1> DEFINE h == CHOOSE f : Keeps(f, s, A)
<1>9. Keeps(h, s, A)
  BY <1>8
<1>10. Kept(s, A) = h[n]
  BY DEF Kept, Keeps, n
<1> HIDE DEF h
<1>11. \A i \in 0 .. n : h[i] = IF i = 0 THEN none ELSE Next1(i, h[i - 1])
  BY <1>9 DEF Keeps, n, none, Next1
<1> DEFINE Q == {i \in 0 .. n : h[i] \in X}
<1>12. 0 \in Q
  <2>1. 0 \in 0 .. n
    BY <1>1
  <2>2. h[0] = none
    BY <1>11, <2>1
  <2> QED
    BY <1>3, <2>1, <2>2
<1>13. \A i \in 0 .. n : i # 0 /\ i - 1 \in Q => i \in Q
  BY <1>4, <1>11
<1> HIDE DEF Q
<1>14. \A i \in 0 .. n : i \in Q
  BY <1>1, <1>12, <1>13, Sums!Induction
<1>15. h \in [0 .. n -> X]
  <2>1. \A i \in 0 .. n : h[i] \in X
    BY <1>14 DEF Q
  <2>2. DOMAIN h = 0 .. n /\ h = [i \in DOMAIN h |-> h[i]]
    BY <1>9 DEF Keeps, n
  <2> QED
    BY <2>1, <2>2
<1> QED
  BY <1>9, <1>10, <1>15 DEF n, X

LEMMA KeptEmpty == ASSUME NEW A PROVE Kept(<< >>, A) = << >>
<1>1. << >> \in Seq({}) /\ Len(<< >>) = 0
  BY EmptySeq
<1>2. PICK g : Keeps(g, << >>, A) /\ Kept(<< >>, A) = g[0]
  BY <1>1, KeptIs
<1>3. 0 \in 0 .. 0
  OBVIOUS
<1> QED
  BY <1>1, <1>2, <1>3 DEF Keeps

LEMMA KeptAppended ==
  ASSUME NEW S, NEW s \in Seq(S), NEW x \in S, NEW A
  PROVE  Kept(Append(s, x), A) = IF x \in A THEN Append(Kept(s, A), x) ELSE Kept(s, A)
<1> DEFINE n == Len(s)
           t == Append(s, x)
<1>1. n \in Nat
  OBVIOUS
<1>2. /\ t \in Seq(S) /\ Len(t) = n + 1 /\ t[n + 1] = x
      /\ \A i \in 1 .. n : t[i] = s[i]
  BY AppendProperties
<1> HIDE DEF t
<1>3. PICK h : Keeps(h, t, A) /\ Kept(t, A) = h[n + 1]
  BY <1>2, KeptIs
<1>4. \A i \in 0 .. n + 1 :
        h[i] = IF i = 0 THEN << >> ELSE IF t[i] \in A THEN Append(h[i - 1], t[i]) ELSE h[i - 1]
  BY <1>2, <1>3 DEF Keeps
<1>5. PICK g : Keeps(g, s, A) /\ Kept(s, A) = g[n]
  BY KeptIs
<1>6. \A i \in 0 .. n :
        g[i] = IF i = 0 THEN << >> ELSE IF s[i] \in A THEN Append(g[i - 1], s[i]) ELSE g[i - 1]
  BY <1>5 DEF Keeps
<1> DEFINE Q == {i \in 0 .. n : g[i] = h[i]}
<1>7. 0 \in Q
  <2>1. 0 \in 0 .. n /\ 0 \in 0 .. n + 1
    BY <1>1
  <2> QED
    BY <1>4, <1>6, <2>1
<1>8. \A i \in 0 .. n : i # 0 /\ i - 1 \in Q => i \in Q
  <2> SUFFICES ASSUME NEW i \in 0 .. n, i # 0, i - 1 \in Q PROVE i \in Q
    OBVIOUS
  <2>1. i \in 0 .. n + 1 /\ i \in 1 .. n
    BY <1>1
  <2>2. /\ t[i] = s[i]
        /\ g[i] = IF s[i] \in A THEN Append(g[i - 1], s[i]) ELSE g[i - 1]
        /\ h[i] = IF t[i] \in A THEN Append(h[i - 1], t[i]) ELSE h[i - 1]
    BY <1>2, <1>4, <1>6, <2>1
  <2> QED
    BY <2>1, <2>2
<1> HIDE DEF Q
<1>9. \A i \in 0 .. n : i \in Q
  <2>1. 0 \in Nat
    OBVIOUS
  <2> QED
    BY <1>1, <1>7, <1>8, <2>1, Sums!Induction
<1>10. n \in 0 .. n /\ n + 1 \in 0 .. n + 1 /\ n + 1 # 0 /\ (n + 1) - 1 = n
  BY <1>1
<1>11. h[n] = g[n]
  BY <1>9, <1>10 DEF Q
<1>12. h[n + 1] = IF x \in A THEN Append(h[n], x) ELSE h[n]
  BY <1>2, <1>4, <1>10
<1> QED
  BY <1>3, <1>5, <1>11, <1>12 DEF t

LEMMA KeptHolds ==
  ASSUME NEW S, NEW s \in Seq(S), NEW A
  PROVE  /\ Kept(s, A) \in Seq(S)
         /\ ToSet(Kept(s, A)) = ToSet(s) \cap A
         /\ IsInjective(s) => IsInjective(Kept(s, A))
<1> DEFINE Good(t) == /\ Kept(t, A) \in Seq(S)
                      /\ ToSet(Kept(t, A)) = ToSet(t) \cap A
                      /\ IsInjective(t) => IsInjective(Kept(t, A))
           Q == {t \in Seq(S) : Good(t)}
<1>1. << >> \in Q
  <2>1. << >> \in Seq(S)
    OBVIOUS
  <2> QED
    BY <2>1, KeptEmpty, ToSetEmpty
<1>2. ASSUME NEW t \in Seq(S), NEW x \in S, t \in Q PROVE Append(t, x) \in Q
  <2> DEFINE u == Append(t, x)
             k == Kept(t, A)
  <2>1. Kept(u, A) = IF x \in A THEN Append(k, x) ELSE k
    BY KeptAppended
  <2>2. /\ k \in Seq(S) /\ ToSet(k) = ToSet(t) \cap A
        /\ IsInjective(t) => IsInjective(k)
    BY <1>2
  <2>3. /\ u \in Seq(S) /\ ToSet(u) = ToSet(t) \cup {x}
        /\ IsInjective(u) <=> IsInjective(t) /\ x \notin ToSet(t)
    BY Appended
  <2> HIDE DEF u, k
  <2>4. CASE x \in A
    <3>1. /\ Append(k, x) \in Seq(S) /\ ToSet(Append(k, x)) = ToSet(k) \cup {x}
          /\ IsInjective(Append(k, x)) <=> IsInjective(k) /\ x \notin ToSet(k)
      BY <2>2, Appended
    <3>2. Good(u)
      BY <2>1, <2>2, <2>3, <2>4, <3>1
    <3> QED
      BY <2>3, <3>2 DEF u
  <2>5. CASE x \notin A
    <3>1. Good(u)
      BY <2>1, <2>2, <2>3, <2>5
    <3> QED
      BY <2>3, <3>1 DEF u
  <2> QED
    BY <2>4, <2>5
<1> HIDE DEF Q
<1>3. s \in Q
  BY <1>1, <1>2, Sums!SeqInduction
<1> QED
  BY <1>3 DEF Q

(***************************************************************************)
(* The inductive invariant.                                                *)
(***************************************************************************)
Lists == FlattenSeq(last_prediction)

OutputLists == [d \in 1..Len(di) |-> PredictionsOf(di[d].metrics)]

Outputs == FlattenSeq(OutputLists)

\* What the running model still has, or has put together.
Running == ToSet(input) \cup OwnedBy(dim)

Held == ToSet(Lists) \cup Running \cup ToSet(Outputs)

NamesIn(ids) == {results[i].name : i \in ids}

Phases ==
  /\ pc \in {"idle", "ended"} => last_prediction = << >>
  /\ pc # "exec" => input = << >> /\ dim = << >>
  /\ pc \in {"idle", "predict", "free", "ended"} => di = << >>
  /\ pc \in {"idle", "predict"} => executed = 0 /\ refused = {}
  /\ pc = "exec" => executed # 0 /\ (model \notin Dummies => dim = << >>)
  /\ pc \in {"decide", "report"} => Len(score) = Len(di)
  /\ pc = "decide" => executed = Len(models)

AttachedOnce == \A p \in Predictions : IsInjective(metrics[p])

\* OneOwner, without the order of the pointers.
Separate ==
  /\ IsInjective(Lists) /\ IsInjective(input)
  /\ IsInjective(PredictionsOf(dim)) /\ IsInjective(Outputs)
  /\ ToSet(Lists) \cap ToSet(input) = {}
  /\ ToSet(Lists) \cap OwnedBy(dim) = {}
  /\ ToSet(Lists) \cap ToSet(Outputs) = {}
  /\ ToSet(input) \cap OwnedBy(dim) = {}
  /\ ToSet(input) \cap ToSet(Outputs) = {}
  /\ OwnedBy(dim) \cap ToSet(Outputs) = {}

Accounted ==
  \A i \in Ids :
    IF i \in refused THEN results[i].freed = 0 /\ i \notin Held
    ELSE results[i].freed = IF i \in Held THEN 0 ELSE 1

\* Results of the same name, in the lists and in the hands of a model.
Distinct(ids) ==
  \A i, j \in ids : results[i].name = results[j].name => i = j

\* The lists of the predictions.
ListsNamed ==
  /\ \A i \in ToSet(Lists) : \E k \in 1..Len(last_prediction) :
       results[i].name \in ToSet(Produces(predictions[k]))
  /\ NothingShared => refused = {} /\ Distinct(ToSet(Lists))

\* What the running model has.
RunningNamed ==
  /\ \A i \in 1..Len(dim) : dim[i].name = results[dim[i].prediction].name
  /\ NamesIn(Running) = NamesIn(ToSet(Lists))
  /\ NothingShared => Distinct(Running)

Named == ListsNamed /\ (pc = "exec" => RunningNamed)

\* The first n models; the models that have an output when the predictions
\* have these names; the names that the output of one of them is about.
Ended(n) == SubSeq(models, 1, n)

Served(names) == {m \in Models : m \in Dummies \/ Finds(m, names)}

Shown(m, names) == IF m \in Dummies THEN names ELSE ToSet(ResultsFor(m))

ModelsOf == [d \in 1..Len(di) |-> di[d].model]

ShowsAll(names) ==
  \A d \in 1..Len(di) : NamesIn(OwnedBy(di[d].metrics)) = Shown(di[d].model, names)

Seen ==
  pc \in {"model", "exec", "decide"} =>
    /\ ModelsOf = Kept(Ended(IF pc = "exec" THEN executed - 1 ELSE executed),
                       Served(NamesIn(ToSet(Lists))))
    /\ ShowsAll(NamesIn(ToSet(Lists)))

Scores ==
  pc \in {"decide", "report"} =>
    \A d \in 1..Len(di) : score[d].weights = 0 => score[d].sum = 0

Files ==
  csv.global => \A i \in 1..Len(registered) :
    registered[i].file \/ registered[i].name \in late

PipelineInv ==
  /\ TypeOK /\ Phases /\ AttachedOnce /\ Separate /\ Accounted /\ Named /\ Seen
  /\ Scores /\ Files /\ BestSelected /\ CsvCrashExplained

(***************************************************************************)
(* Results that are allocated and freed.                                   *)
(***************************************************************************)
Result == [name : Names, freed : {0, 1}]

LEMMA NewFacts ==
  ASSUME NEW r \in Seq(Result), NEW names \in Seq(Names)
  PROVE  /\ New(names) \in Seq(Result)
         /\ r \o New(names) \in Seq(Result)
         /\ Len(r \o New(names)) = Len(r) + Len(names)
         /\ \A i \in 1..Len(r) : (r \o New(names))[i] = r[i]
         /\ \A i \in 1..Len(names) :
              (r \o New(names))[Len(r) + i] = [name |-> names[i], freed |-> 0]
<1> DEFINE n == Len(names)
           t == New(names)
           m == Len(r)
<1>1. n \in Nat /\ m \in Nat /\ \A i \in 1 .. n : names[i] \in Names
  BY ElementOfSeq, LenProperties
<1>2. /\ t \in Seq(Result) /\ Len(t) = n
      /\ \A i \in 1 .. n : t[i] = [name |-> names[i], freed |-> 0]
  <2>1. t = [i \in 1 .. n |-> [name |-> names[i], freed |-> 0]]
    BY DEF New
  <2>2. \A i \in 1 .. n : [name |-> names[i], freed |-> 0] \in Result
    BY <1>1 DEF Result
  <2> HIDE DEF t, n
  <2> QED
    BY <1>1, <2>1, <2>2
<1> HIDE DEF t, n, m
<1>3. /\ r \o t \in Seq(Result) /\ Len(r \o t) = m + n
      /\ \A i \in 1 .. m + n : (r \o t)[i] = IF i <= m THEN r[i] ELSE t[i - m]
  BY <1>2, ConcatProperties DEF m
<1>4. \A i \in 1 .. m : (r \o t)[i] = r[i]
  BY <1>1, <1>3
<1>5. ASSUME NEW i \in 1 .. n PROVE (r \o t)[m + i] = t[i]
  <2>1. m + i \in 1 .. m + n /\ ~(m + i <= m) /\ (m + i) - m = i
    BY <1>1
  <2> QED
    BY <1>3, <2>1
<1> QED
  BY <1>2, <1>3, <1>4, <1>5 DEF t, n, m

LEMMA FreshFacts ==
  ASSUME NEW names \in Seq(Names), Len(results) \in Nat
  PROVE  /\ Fresh(names) \in Seq(Len(results) + 1 .. Len(results) + Len(names))
         /\ Len(Fresh(names)) = Len(names)
         /\ \A i \in 1..Len(names) : Fresh(names)[i] = Len(results) + i
         /\ IsInjective(Fresh(names))
         /\ ToSet(Fresh(names)) = Len(results) + 1 .. Len(results) + Len(names)
<1> DEFINE n == Len(names)
           m == Len(results)
           f == Fresh(names)
<1>1. n \in Nat /\ m \in Nat
  OBVIOUS
<1>2. f = [i \in 1 .. n |-> m + i]
  BY DEF Fresh
<1> HIDE DEF f, n, m
<1>3. f \in Seq(m + 1 .. m + n) /\ Len(f) = n /\ DOMAIN f = 1 .. n
  <2>1. \A i \in 1 .. n : m + i \in m + 1 .. m + n
    BY <1>1
  <2> QED
    BY <1>1, <1>2, <2>1
<1>4. IsInjective(f)
  BY <1>1, <1>2, <1>3 DEF IsInjective
<1>5. ToSet(f) = m + 1 .. m + n
  <2>1. \A k \in m + 1 .. m + n : k - m \in 1 .. n /\ f[k - m] = k
    BY <1>1, <1>2
  <2>2. \A i \in 1 .. n : f[i] \in m + 1 .. m + n
    BY <1>1, <1>2
  <2> QED
    BY <1>3, <2>1, <2>2 DEF ToSet
<1> QED
  BY <1>2, <1>3, <1>4, <1>5 DEF f, n, m

LEMMA DeletedFacts ==
  ASSUME NEW ids, results \in Seq(Result), \A i \in ids \cap Ids : results[i].freed = 0
  PROVE  /\ Deleted(ids) \in Seq(Result)
         /\ Len(Deleted(ids)) = Len(results)
         /\ \A i \in Ids :
              /\ Deleted(ids)[i].name = results[i].name
              /\ Deleted(ids)[i].freed = IF i \in ids THEN 1 ELSE results[i].freed
<1> DEFINE n == Len(results)
           D(i) == IF i \in ids THEN [results[i] EXCEPT !.freed = @ + 1] ELSE results[i]
<1>1. n \in Nat /\ Ids = 1 .. n
  BY DEF Ids
<1>2. ASSUME NEW i \in 1 .. n
      PROVE  /\ D(i) \in Result /\ D(i).name = results[i].name
             /\ D(i).freed = IF i \in ids THEN 1 ELSE results[i].freed
  <2>1. results[i] \in Result
    BY ElementOfSeq
  <2>2. i \in ids => results[i].freed = 0
    BY <1>1
  <2> QED
    BY <2>1, <2>2 DEF Result
<1>3. Deleted(ids) = [i \in 1 .. n |-> D(i)]
  BY DEF Deleted
<1> HIDE DEF D, n
<1>4. Deleted(ids) \in Seq(Result) /\ Len(Deleted(ids)) = n
  BY <1>1, <1>2, <1>3
<1> QED
  BY <1>1, <1>2, <1>3, <1>4 DEF n

LEMMA NamesOfFacts ==
  ASSUME results \in Seq(Result), NEW ids \in Seq(Ids)
  PROVE  /\ NamesOf(ids) \in Seq(Names)
         /\ Len(NamesOf(ids)) = Len(ids)
         /\ \A i \in 1..Len(ids) : NamesOf(ids)[i] = results[ids[i]].name
         /\ ToSet(NamesOf(ids)) = NamesIn(ToSet(ids))
<1> DEFINE n == Len(ids)
           N(i) == results[ids[i]].name
<1>1. n \in Nat /\ DOMAIN ids = 1 .. n
  BY LenProperties
<1>2. \A i \in 1 .. n : N(i) \in Names
  <2> SUFFICES ASSUME NEW i \in 1 .. n PROVE N(i) \in Names
    OBVIOUS
  <2>1. ids[i] \in 1..Len(results)
    BY ElementOfSeq DEF Ids
  <2>2. results[ids[i]] \in Result
    BY <2>1, ElementOfSeq
  <2> QED
    BY <2>2 DEF Result
<1>3. NamesOf(ids) = [i \in 1 .. n |-> N(i)]
  BY DEF NamesOf
<1>4. ToSet(ids) = {ids[i] : i \in 1 .. n}
  BY <1>1 DEF ToSet
<1>5. NamesIn(ToSet(ids)) = {N(i) : i \in 1 .. n}
  BY <1>4 DEF NamesIn
<1> HIDE DEF N, n
<1>6. /\ NamesOf(ids) \in Seq(Names) /\ Len(NamesOf(ids)) = n
      /\ DOMAIN NamesOf(ids) = 1 .. n
  BY <1>1, <1>2, <1>3
<1>7. ToSet(NamesOf(ids)) = {N(i) : i \in 1 .. n}
  BY <1>3, <1>6 DEF ToSet
<1> QED
  BY <1>3, <1>5, <1>6, <1>7 DEF n, N

LEMMA PredictionsOfFacts ==
  ASSUME NEW I, NEW outputs \in Seq([name : Names, prediction : I])
  PROVE  /\ PredictionsOf(outputs) \in Seq(I)
         /\ ToSet(PredictionsOf(outputs)) = OwnedBy(outputs)
<1> DEFINE n == Len(outputs)
           p == PredictionsOf(outputs)
<1>1. n \in Nat /\ \A i \in 1 .. n : outputs[i].prediction \in I
  <2>1. \A i \in 1 .. n : outputs[i] \in [name : Names, prediction : I]
    BY ElementOfSeq
  <2> QED
    BY <2>1
<1>2. p = [i \in 1 .. n |-> outputs[i].prediction]
  BY DEF PredictionsOf
<1> HIDE DEF p, n
<1>3. p \in Seq(I) /\ DOMAIN p = 1 .. n
  BY <1>1, <1>2
<1>4. ToSet(p) = {outputs[i].prediction : i \in 1 .. n}
  BY <1>2, <1>3 DEF ToSet
<1> QED
  BY <1>3, <1>4 DEF p, n, OwnedBy

(***************************************************************************)
(* The types.                                                              *)
(***************************************************************************)
Output(I) == [name : Names, prediction : I]

Filled(I) == [model : Models, metrics : Seq(Output(I))]

LEMMA Grown ==
  ASSUME NEW I, NEW J, I \subseteq J
  PROVE  /\ Seq(I) \subseteq Seq(J) /\ Seq(Seq(I)) \subseteq Seq(Seq(J))
         /\ Seq(Output(I)) \subseteq Seq(Output(J))
         /\ Seq(Filled(I)) \subseteq Seq(Filled(J))
<1>1. Seq(I) \subseteq Seq(J)
  BY SeqMonotonic
<1>2. Seq(Seq(I)) \subseteq Seq(Seq(J))
  BY <1>1, SeqMonotonic
<1>3. Output(I) \subseteq Output(J)
  BY DEF Output
<1>4. Seq(Output(I)) \subseteq Seq(Output(J))
  BY <1>3, SeqMonotonic
<1>5. Filled(I) \subseteq Filled(J)
  BY <1>4 DEF Filled
<1>6. Seq(Filled(I)) \subseteq Seq(Filled(J))
  BY <1>5, SeqMonotonic
<1> QED
  BY <1>1, <1>2, <1>4, <1>6

\* What TypeOK says of the pointers and the results.
LEMMA TypeParts ==
  ASSUME TypeOK
  PROVE  /\ results \in Seq(Result) /\ Len(results) \in Nat /\ Ids = 1..Len(results)
         /\ last_prediction \in Seq(Seq(Ids)) /\ input \in Seq(Ids)
         /\ dim \in Seq(Output(Ids)) /\ di \in Seq(Filled(Ids))
BY LenProperties DEF TypeOK, Result, Ids, Output, Filled, Metrics

LEMMA PointerParts ==
  ASSUME TypeOK
  PROVE  /\ Lists \in Seq(Ids) /\ ToSet(Lists) \in SUBSET Ids
         /\ ToSet(input) \in SUBSET Ids
         /\ PredictionsOf(dim) \in Seq(Ids)
         /\ ToSet(PredictionsOf(dim)) = OwnedBy(dim) /\ OwnedBy(dim) \in SUBSET Ids
         /\ OutputLists \in Seq(Seq(Ids)) /\ Len(OutputLists) = Len(di)
         /\ Outputs \in Seq(Ids) /\ ToSet(Outputs) \in SUBSET Ids
         /\ ToSet(Outputs) = UNION {OwnedBy(di[d].metrics) : d \in 1..Len(di)}
         /\ \A d \in 1..Len(di) : OwnedBy(di[d].metrics) \in SUBSET Ids
<1>1. /\ results \in Seq(Result) /\ Len(results) \in Nat /\ Ids = 1..Len(results)
      /\ last_prediction \in Seq(Seq(Ids)) /\ input \in Seq(Ids)
      /\ dim \in Seq(Output(Ids)) /\ di \in Seq(Filled(Ids))
  BY TypeParts
<1>2. Lists \in Seq(Ids)
  BY <1>1, FlattenType DEF Lists
<1>3. ToSet(Lists) \in SUBSET Ids /\ ToSet(input) \in SUBSET Ids
  BY <1>1, <1>2, ToSetIs
<1>4. /\ PredictionsOf(dim) \in Seq(Ids)
      /\ ToSet(PredictionsOf(dim)) = OwnedBy(dim)
  BY <1>1, PredictionsOfFacts DEF Output
<1>5. OwnedBy(dim) \in SUBSET Ids
  BY <1>4, ToSetIs
<1>6. ASSUME NEW d \in 1..Len(di)
      PROVE  /\ PredictionsOf(di[d].metrics) \in Seq(Ids)
             /\ ToSet(PredictionsOf(di[d].metrics)) = OwnedBy(di[d].metrics)
             /\ OwnedBy(di[d].metrics) \in SUBSET Ids
  <2>1. di[d] \in Filled(Ids)
    BY <1>1, ElementOfSeq
  <2>2. di[d].metrics \in Seq(Output(Ids))
    BY <2>1 DEF Filled
  <2>3. /\ PredictionsOf(di[d].metrics) \in Seq(Ids)
        /\ ToSet(PredictionsOf(di[d].metrics)) = OwnedBy(di[d].metrics)
    BY <2>2, PredictionsOfFacts DEF Output
  <2> QED
    BY <2>3, ToSetIs
<1>7. Len(di) \in Nat
  BY <1>1, LenProperties
<1>8. OutputLists \in Seq(Seq(Ids)) /\ Len(OutputLists) = Len(di)
  BY <1>6, <1>7 DEF OutputLists
<1>9. Outputs \in Seq(Ids)
  BY <1>8, FlattenType DEF Outputs
<1>10. ToSet(Outputs) = UNION {ToSet(OutputLists[d]) : d \in 1..Len(di)}
  BY <1>8, FlattenHolds DEF Outputs
<1>11. \A d \in 1..Len(di) : ToSet(OutputLists[d]) = OwnedBy(di[d].metrics)
  BY <1>6 DEF OutputLists
<1>12. ToSet(Outputs) = UNION {OwnedBy(di[d].metrics) : d \in 1..Len(di)}
  BY <1>10, <1>11
<1>13. ToSet(Outputs) \in SUBSET Ids
  BY <1>9, ToSetIs
<1> QED
  BY <1>2, <1>3, <1>4, <1>5, <1>6, <1>8, <1>9, <1>12, <1>13

\* No result is lost before EndTick.
LEMMA TypesCarried ==
  ASSUME TypeOK, results' \in Seq(Result), Len(results) <= Len(results')
  PROVE  /\ Ids \subseteq Ids'
         /\ last_prediction \in Seq(Seq(Ids')) /\ input \in Seq(Ids')
         /\ dim \in Seq(Output(Ids')) /\ di \in Seq(Filled(Ids'))
         /\ Seq(Output(Ids)) \subseteq Seq(Output(Ids'))
<1>1. /\ Len(results) \in Nat /\ Ids = 1..Len(results)
      /\ last_prediction \in Seq(Seq(Ids)) /\ input \in Seq(Ids)
      /\ dim \in Seq(Output(Ids)) /\ di \in Seq(Filled(Ids))
  BY TypeParts
<1>2. Len(results') \in Nat /\ Ids' = 1..Len(results')
  BY LenProperties DEF Ids
<1>3. Ids \subseteq Ids'
  BY <1>1, <1>2
<1> QED
  BY <1>1, <1>3, Grown

LEMMA ProducesType ==
  ASSUME TypeOK, NEW p \in Predictions
  PROVE  Produces(p) \in Seq(Names)
<1>1. CASE p \in DOMAIN Constraint
  <2>1. Constraint[p] \in Names
    BY <1>1, NamesAssumption
  <2> QED
    BY <1>1, <2>1 DEF Produces
<1>2. CASE p \notin DOMAIN Constraint
  BY <1>2 DEF Produces, TypeOK
<1> QED
  BY <1>1, <1>2

LEMMA ModelType ==
  ASSUME TypeOK, executed # 0
  PROVE  model \in Models
<1>1. executed \in 1..Len(models) /\ models \in Seq(Models)
  BY DEF TypeOK
<1> QED
  BY <1>1, ElementOfSeq DEF model

LEMMA ResultsForType ==
  ASSUME NEW m \in Models \ Dummies
  PROVE  /\ Needs[m] \in Seq([result : Names, output : Names])
         /\ Len(Needs[m]) \in Nat
         /\ ResultsFor(m) \in Seq(Names) /\ Len(ResultsFor(m)) = Len(Needs[m])
<1>1. Needs[m] \in Seq([result : Names, output : Names])
  BY NamesAssumption
<1>2. Len(Needs[m]) \in Nat /\ \A i \in 1..Len(Needs[m]) : Needs[m][i].result \in Names
  <2>1. \A i \in 1..Len(Needs[m]) : Needs[m][i] \in [result : Names, output : Names]
    BY <1>1, ElementOfSeq
  <2> QED
    BY <1>1, <2>1, LenProperties
<1> QED
  BY <1>1, <1>2 DEF ResultsFor

(***************************************************************************)
(* What the actions that touch results do to them.                         *)
(***************************************************************************)
LEMMA Allocation ==
  ASSUME TypeOK, NEW names \in Seq(Names), NEW r \in Seq(Result),
         Len(r) = Len(results), results' = r \o New(names)
  PROVE  /\ results' \in Seq(Result) /\ Len(results) <= Len(results')
         /\ Ids \subseteq Ids'
         /\ Fresh(names) \in Seq(Ids') /\ IsInjective(Fresh(names))
         /\ ToSet(Fresh(names)) = Ids' \ Ids
         /\ \A i \in Ids : results'[i] = r[i]
         /\ \A i \in Ids' \ Ids : results'[i].freed = 0
         /\ Len(Fresh(names)) = Len(names)
         /\ \A i \in 1..Len(names) : results'[Fresh(names)[i]].name = names[i]
<1> DEFINE m == Len(results)
           n == Len(names)
           f == Fresh(names)
<1>1. m \in Nat /\ n \in Nat /\ Ids = 1 .. m
  BY TypeParts, LenProperties
<1>2. /\ results' \in Seq(Result) /\ Len(results') = m + n
      /\ \A i \in 1 .. m : results'[i] = r[i]
      /\ \A i \in 1 .. n : results'[m + i] = [name |-> names[i], freed |-> 0]
  BY NewFacts
<1>a. ASSUME NEW i \in 1 .. n
      PROVE  results'[m + i].name = names[i] /\ results'[m + i].freed = 0
  <2> DEFINE e == [name |-> names[i], freed |-> 0]
  <2>1. results'[m + i] = e
    BY <1>2
  <2>2. e.name = names[i] /\ e.freed = 0
    OBVIOUS
  <2> HIDE DEF e
  <2> QED
    BY <2>1, <2>2
<1>3. /\ f \in Seq(m + 1 .. m + n) /\ IsInjective(f) /\ ToSet(f) = m + 1 .. m + n
      /\ Len(f) = n /\ \A i \in 1 .. n : f[i] = m + i
  BY <1>1, FreshFacts
<1>4. Ids' = 1 .. m + n
  BY <1>2 DEF Ids
<1> HIDE DEF m, n, f
<1>5. Ids \subseteq Ids' /\ m + 1 .. m + n = Ids' \ Ids /\ m + 1 .. m + n \subseteq Ids'
  BY <1>1, <1>4
<1>6. f \in Seq(Ids')
  BY <1>3, <1>5, SeqMonotonic
<1>7. ASSUME NEW i \in Ids' \ Ids PROVE results'[i].freed = 0
  <2>1. i - m \in 1 .. n /\ m + (i - m) = i
    BY <1>1, <1>4
  <2>2. results'[m + (i - m)].freed = 0
    BY <1>a, <2>1
  <2> QED
    BY <2>1, <2>2
<1>8. ASSUME NEW i \in 1 .. n PROVE results'[f[i]].name = names[i]
  <2>1. f[i] = m + i
    BY <1>3
  <2> QED
    BY <1>a, <2>1
<1>9. m <= m + n
  BY <1>1
<1> QED
  BY <1>1, <1>2, <1>3, <1>5, <1>6, <1>7, <1>8, <1>9 DEF m, n, f

LEMMA ExecutePredictionDoes ==
  ASSUME TypeOK, ExecutePrediction
  PROVE  \E names \in Seq(Names) :
           /\ results' = results \o New(names)
           /\ last_prediction' = Append(last_prediction, Fresh(names))
           /\ LET k == Len(last_prediction) + 1 IN
                /\ k \in 1..Len(predictions)
                /\ ToSet(names) \subseteq ToSet(Produces(predictions[k]))
                /\ AttachedOnce => IsInjective(names)
<1> DEFINE k == Len(last_prediction) + 1
           p == predictions[k]
<1>1. k \in 1..Len(predictions) /\ predictions \in Seq(Predictions)
  BY LenProperties DEF ExecutePrediction, TypeOK
<1>2. p \in Predictions
  BY <1>1, ElementOfSeq
<1>3. PICK empty :
        /\ results' = Allocated(Kept(Produces(p), Names \ empty))
        /\ last_prediction' =
             Append(last_prediction, Fresh(Kept(Produces(p), Names \ empty)))
  BY DEF ExecutePrediction
<1> DEFINE names == Kept(Produces(p), Names \ empty)
<1>4. Produces(p) \in Seq(Names)
  BY <1>2, ProducesType
<1>5. /\ names \in Seq(Names) /\ ToSet(names) \subseteq ToSet(Produces(p))
      /\ IsInjective(Produces(p)) => IsInjective(names)
  BY <1>4, KeptHolds
<1>6. ASSUME AttachedOnce PROVE IsInjective(Produces(p))
  <2>1. CASE p \in DOMAIN Constraint
    BY <2>1 DEF Produces, IsInjective
  <2>2. CASE p \notin DOMAIN Constraint
    BY <1>2, <1>6, <2>2 DEF Produces, AttachedOnce
  <2> QED
    BY <2>1, <2>2
<1>7. results' = results \o New(names) /\ last_prediction' = Append(last_prediction, Fresh(names))
  BY <1>3 DEF Allocated
<1> HIDE DEF names
<1> QED
  BY <1>1, <1>5, <1>6, <1>7

LEMMA StartModelDoes ==
  ASSUME TypeOK, StartModel
  PROVE  \E names \in Seq(Names) :
           /\ names = NamesOf(Lists)
           /\ results' = results \o New(names)
           /\ input' = Fresh(names)
<1>1. NamesOf(Lists) \in Seq(Names)
  BY TypeParts, PointerParts, NamesOfFacts
<1> QED
  BY <1>1 DEF StartModel, Union, Allocated, Lists

LEMMA UnusedDeleted ==
  ASSUME TypeOK, Accounted, NEW ids \in SUBSET Held
  PROVE  /\ Deleted(ids) \in Seq(Result)
         /\ Len(Deleted(ids)) = Len(results)
         /\ \A i \in Ids :
              /\ Deleted(ids)[i].name = results[i].name
              /\ Deleted(ids)[i].freed = IF i \in ids THEN 1 ELSE results[i].freed
<1>1. \A i \in ids \cap Ids : results[i].freed = 0
  BY DEF Accounted
<1> QED
  BY <1>1, TypeParts, DeletedFacts

\* The part of FindResults in which the model has an output.
FindResultsAll ==
  /\ Finds(model, ToSet(NamesOf(input)))
  /\ results' = Deleted(ToSet(input)) \o New(ResultsFor(model))
  /\ di' = Append(di, [model |-> model,
                       metrics |-> [i \in 1..Len(ResultsFor(model)) |->
                                      Metric(Needs[model][i].output,
                                             Fresh(ResultsFor(model))[i])]])

FindResultsNone ==
  /\ ~Finds(model, ToSet(NamesOf(input)))
  /\ results' = Deleted(ToSet(input))
  /\ di' = di

LEMMA FindResultsDoes ==
  ASSUME TypeOK, FindResults
  PROVE  FindResultsAll \/ FindResultsNone
BY DEF FindResults, FindResultsAll, FindResultsNone, Unused

\* The outputs of a model that finds its results: copies of them, in order.
LEMMA CopiesType ==
  ASSUME TypeOK, NEW m \in Models \ Dummies, NEW ids, NEW f \in Seq(ids),
         Len(f) = Len(ResultsFor(m))
  PROVE  LET outputs == [i \in 1..Len(ResultsFor(m)) |-> Metric(Needs[m][i].output, f[i])] IN
         /\ outputs \in Seq(Output(ids))
         /\ PredictionsOf(outputs) = f
         /\ OwnedBy(outputs) = ToSet(f)
<1> DEFINE n == Len(ResultsFor(m))
           O(i) == Metric(Needs[m][i].output, f[i])
           outputs == [i \in 1 .. n |-> O(i)]
<1>1. n \in Nat /\ n = Len(Needs[m]) /\ Needs[m] \in Seq([result : Names, output : Names])
  BY ResultsForType
<1>2. ASSUME NEW i \in 1 .. n PROVE O(i) \in Output(ids) /\ O(i).prediction = f[i]
  <2>1. Needs[m][i] \in [result : Names, output : Names]
    BY <1>1, ElementOfSeq
  <2>2. f[i] \in ids
    BY ElementOfSeq
  <2> QED
    BY <2>1, <2>2 DEF Metric, Output
<1> HIDE DEF O, n
<1>3. outputs \in Seq(Output(ids)) /\ Len(outputs) = n /\ \A i \in 1 .. n : outputs[i] = O(i)
  BY <1>1, <1>2
<1> HIDE DEF outputs
<1>4. PredictionsOf(outputs) = [i \in 1 .. n |-> f[i]]
  BY <1>2, <1>3 DEF PredictionsOf
<1>5. f = [i \in 1 .. n |-> f[i]]
  BY <1>1, LenProperties DEF n
<1>6. PredictionsOf(outputs) = f
  BY <1>4, <1>5
<1>7. OwnedBy(outputs) = ToSet(f)
  BY <1>3, <1>6, PredictionsOfFacts DEF Output
<1> QED
  BY <1>3, <1>6, <1>7 DEF outputs, O, n

(***************************************************************************)
(* The model that decision_simple_calc selects.                            *)
(***************************************************************************)
LEMMA Scaled ==
  ASSUME NEW a \in Int, NEW b \in Int, NEW c \in Nat, a <= b
  PROVE  a * c <= b * c
OBVIOUS

LEMMA Cancelled ==
  ASSUME NEW a \in Int, NEW b \in Int, NEW c \in Nat \ {0}, a * c <= b * c
  PROVE  a <= b
<1>1. CASE a > b
  <2>1. a - b >= 1
    BY <1>1
  <2>2. (a - b) * c >= 1 * c
    BY <2>1, Scaled
  <2>3. (a - b) * c = a * c - b * c
    OBVIOUS
  <2> QED
    BY <2>2, <2>3
<1> QED
  BY <1>1

\* That one mean is at most another is transitive.
LEMMA MeansOrdered ==
  ASSUME NEW s1 \in Nat, NEW w1 \in Nat, NEW s2 \in Nat, NEW w2 \in Nat \ {0},
         NEW s3 \in Nat, NEW w3 \in Nat \ {0},
         s1 * w2 <= s2 * w1, s2 * w3 <= s3 * w2
  PROVE  s1 * w3 <= s3 * w1
<1>1. (s1 * w2) * w3 <= (s2 * w1) * w3
  BY Scaled
<1>2. (s2 * w3) * w1 <= (s3 * w2) * w1
  BY Scaled
<1>3. /\ (s1 * w2) * w3 = (s1 * w3) * w2
      /\ (s2 * w1) * w3 = (s2 * w3) * w1
      /\ (s3 * w2) * w1 = (s3 * w1) * w2
  OBVIOUS
<1>4. (s1 * w3) * w2 <= (s3 * w1) * w2
  BY <1>1, <1>2, <1>3
<1> QED
  BY <1>4, Cancelled

Best(d, b) ==
  /\ b \in 0 .. d
  /\ b # 0 => /\ score[b].weights > 0
              /\ score[b].sum > 0
              /\ \A e \in 1 .. d : score[e].sum * score[b].weights
                                     <= score[b].sum * score[e].weights
  /\ b = 0 => \A e \in 1 .. d : score[e].sum = 0

Means(n) ==
  \A d \in 1 .. n : /\ score[d].sum \in Nat /\ score[d].weights \in Nat
                    /\ score[d].weights = 0 => score[d].sum = 0

LEMMA BestStep ==
  ASSUME NEW n \in Nat, Means(n), NEW d \in 1 .. n, NEW b, Best(d - 1, b)
  PROVE  Best(d, IF Beats(d, b) THEN d ELSE b)
<1> DEFINE s(e) == score[e].sum
           w(e) == score[e].weights
<1>1. \A e \in 1 .. n : s(e) \in Nat /\ w(e) \in Nat /\ (w(e) = 0 => s(e) = 0)
  BY DEF Means
<1>2. d \in Nat /\ d # 0 /\ b \in 0 .. d /\ (b # 0 => b \in 1 .. n)
      /\ \A e \in 1 .. d : e \in 1 .. n /\ (e = d \/ e \in 1 .. d - 1)
  BY DEF Best
<1>3. b # 0 => /\ w(b) > 0 /\ s(b) > 0
               /\ \A e \in 1 .. d - 1 : s(e) * w(b) <= s(b) * w(e)
  BY DEF Best
<1>4. b = 0 => \A e \in 1 .. d - 1 : s(e) = 0
  BY DEF Best
<1>5. Beats(d, b) <=> w(d) > 0 /\ IF b = 0 THEN s(d) > 0 ELSE s(d) * w(b) > s(b) * w(d)
  BY DEF Beats
<1>6. \A c : Best(d, c) <=>
        /\ c \in 0 .. d
        /\ c # 0 => w(c) > 0 /\ s(c) > 0 /\ \A e \in 1 .. d : s(e) * w(c) <= s(c) * w(e)
        /\ c = 0 => \A e \in 1 .. d : s(e) = 0
  BY DEF Best
<1> HIDE DEF s, w
<1>7. CASE Beats(d, b) /\ b = 0
  <2>1. w(d) > 0 /\ s(d) > 0 /\ d \in 1 .. n
    BY <1>5, <1>7
  <2>2. ASSUME NEW e \in 1 .. d PROVE s(e) * w(d) <= s(d) * w(e)
    <3>1. CASE e = d
      BY <1>1, <3>1
    <3>2. CASE e # d
      <4>1. s(e) = 0 /\ w(e) \in Nat /\ w(d) \in Nat /\ s(d) \in Nat
        BY <1>1, <1>2, <1>4, <1>7, <3>2
      <4>2. 0 * w(e) <= s(d) * w(e)
        BY <4>1, Scaled
      <4> QED
        BY <4>1, <4>2
    <3> QED
      BY <3>1, <3>2
  <2>3. d \in 0 .. d
    BY <1>2
  <2> QED
    BY <1>2, <1>6, <1>7, <2>1, <2>2, <2>3
<1>8. CASE Beats(d, b) /\ b # 0
  <2>1. /\ w(d) \in Nat \ {0} /\ w(b) \in Nat \ {0} /\ s(d) \in Nat /\ s(b) \in Nat
        /\ s(b) * w(d) < s(d) * w(b)
    <3>1. d \in 1 .. n /\ b \in 1 .. n
      BY <1>2, <1>8
    <3>2. w(d) \in Nat /\ w(b) \in Nat /\ s(d) \in Nat /\ s(b) \in Nat
      BY <1>1, <3>1
    <3>3. w(d) > 0 /\ w(b) > 0 /\ s(b) * w(d) < s(d) * w(b)
      BY <1>3, <1>5, <1>8
    <3> QED
      BY <3>2, <3>3
  <2>2. s(d) > 0
    <3>1. CASE s(d) = 0
      <4>1. s(d) * w(b) = 0
        BY <2>1, <3>1
      <4>2. 0 * w(d) <= s(b) * w(d)
        BY <2>1, Scaled
      <4> QED
        BY <2>1, <4>1, <4>2
    <3> QED
      BY <2>1, <3>1
  <2>3. ASSUME NEW e \in 1 .. d PROVE s(e) * w(d) <= s(d) * w(e)
    <3>1. CASE e = d
      BY <2>1, <3>1
    <3>2. CASE e # d
      <4>1. s(e) \in Nat /\ w(e) \in Nat /\ s(e) * w(b) <= s(b) * w(e)
        BY <1>1, <1>2, <1>3, <1>8, <3>2
      <4>2. s(b) * w(d) <= s(d) * w(b)
        BY <2>1
      <4> QED
        BY <2>1, <4>1, <4>2, MeansOrdered
    <3> QED
      BY <3>1, <3>2
  <2>4. d \in 0 .. d /\ w(d) > 0
    BY <1>2, <2>1
  <2> QED
    BY <1>2, <1>6, <1>8, <2>2, <2>3, <2>4
<1>9. CASE ~Beats(d, b) /\ b = 0
  <2>1. d \in 1 .. n /\ s(d) = 0
    BY <1>1, <1>5, <1>9
  <2>2. \A e \in 1 .. d : s(e) = 0
    BY <1>2, <1>4, <1>9, <2>1
  <2> QED
    BY <1>2, <1>6, <1>9, <2>2
<1>10. CASE ~Beats(d, b) /\ b # 0
  <2>1. d \in 1 .. n /\ b \in 1 .. n
    BY <1>2, <1>10
  <2>2. s(d) \in Nat /\ w(d) \in Nat /\ s(b) \in Nat /\ w(b) \in Nat
    BY <1>1, <2>1
  <2>3. s(d) * w(b) <= s(b) * w(d)
    <3>1. CASE w(d) = 0
      <4>1. s(d) = 0
        BY <1>1, <2>1, <3>1
      <4> QED
        BY <2>2, <3>1, <4>1
    <3>2. CASE w(d) # 0
      <4>1. ~(s(d) * w(b) > s(b) * w(d))
        BY <1>5, <1>10, <2>2, <3>2
      <4>2. s(d) * w(b) \in Int /\ s(b) * w(d) \in Int
        BY <2>2
      <4> QED
        BY <4>1, <4>2
    <3> QED
      BY <3>1, <3>2
  <2>4. \A e \in 1 .. d : s(e) * w(b) <= s(b) * w(e)
    BY <1>2, <1>3, <1>10, <2>3
  <2> QED
    BY <1>2, <1>3, <1>6, <1>10, <2>4
<1> QED
  BY <1>7, <1>8, <1>9, <1>10

Decides(g) ==
  g = [d \in 0..Len(di) |->
         IF d = 0 THEN 0 ELSE IF Beats(d, g[d - 1]) THEN d ELSE g[d - 1]]

LEMMA DecisionIsBest ==
  ASSUME Len(di) \in Nat, Means(Len(di))
  PROVE  Best(Len(di), decision_simple_calc)
<1> DEFINE n == Len(di)
           X == 0 .. n
           Step(d, x) == IF Beats(d, x) THEN d ELSE x
           step == [d \in X |-> [x \in X |-> Step(d, x)]]
<1>1. n \in Nat /\ 0 \in X /\ 0 \in Nat /\ 0 <= n
  OBVIOUS
<1>2. \A d \in X : \A x \in X : Step(d, x) \in X
  OBVIOUS
<1>3. \A d \in X : d # 0 => d - 1 \in X /\ d \in 1 .. n
  OBVIOUS
<1> HIDE DEF Step, n
<1>4. step \in [X -> [X -> X]]
  BY <1>2
<1> HIDE DEF step
<1>5. PICK g : Sums!Recurses(g, X, 0, 0, n, step)
  BY <1>1, <1>4, Sums!Recursion
<1>6. g \in [X -> X] /\ g[0] = 0 /\ \A d \in X : d # 0 => g[d] = step[d][g[d - 1]]
  BY <1>5 DEF Sums!Recurses
<1>7. \A d \in X : g[d] = IF d = 0 THEN 0 ELSE Step(d, g[d - 1])
  <2> SUFFICES ASSUME NEW d \in X, d # 0 PROVE g[d] = Step(d, g[d - 1])
    BY <1>6
  <2>1. g[d] = step[d][g[d - 1]] /\ g[d - 1] \in X
    BY <1>3, <1>6
  <2>2. step[d][g[d - 1]] = Step(d, g[d - 1])
    BY <2>1 DEF step
  <2> QED
    BY <2>1, <2>2
<1>8. Decides(g)
  BY <1>6, <1>7 DEF Decides, n, Step
<1> DEFINE h == CHOOSE f : Decides(f)
<1>9. Decides(h)
  BY <1>8
<1>10. decision_simple_calc = h[n]
  BY DEF decision_simple_calc, Decides, n
<1> HIDE DEF h
<1>11. \A d \in X : h[d] = IF d = 0 THEN 0 ELSE Step(d, h[d - 1])
  BY <1>9 DEF Decides, n, Step
<1> DEFINE Q == {d \in X : Best(d, h[d])}
<1>12. 0 \in Q
  <2>1. h[0] = 0
    BY <1>1, <1>11
  <2>2. Best(0, 0)
    BY DEF Best
  <2> QED
    BY <1>1, <2>1, <2>2
<1>13. ASSUME NEW d \in 0 .. n, d # 0, d - 1 \in Q PROVE d \in Q
  <2>1. d \in 1 .. n /\ Best(d - 1, h[d - 1])
    BY <1>3, <1>13
  <2>2. Best(d, Step(d, h[d - 1]))
    BY <1>1, <2>1, BestStep DEF Step, n
  <2> QED
    BY <1>11, <1>13, <2>2
<1> HIDE DEF Q
<1>14. \A d \in 0 .. n : d \in Q
  BY <1>1, <1>12, <1>13, Sums!Induction
<1>15. Best(n, h[n])
  BY <1>1, <1>14 DEF Q
<1> QED
  BY <1>10, <1>15 DEF n

(***************************************************************************)
(* The scores.                                                             *)
(***************************************************************************)
LEMMA SumFacts ==
  ASSUME NEW f, NEW S, IsFiniteSet(S), \A x \in S : f[x] \in Nat
  PROVE  /\ SumFunctionOnSet(f, S) \in Nat
         /\ S = {} => SumFunctionOnSet(f, S) = 0
         /\ (\E x \in S : f[x] > 0) => SumFunctionOnSet(f, S) > 0
<1>1. \A T : SumFunctionOnSet(f, T) = Sums!FoldOn(f, T)
  BY DEF SumFunctionOnSet, FoldFunctionOnSet, Sums!FoldOn, MapThenFoldSet, Sums!MapThenFoldSet
<1>2. \A T \in SUBSET S : Sums!Picks(T)
  BY DEF Sums!Picks
<1>3. \A T \in SUBSET S : Sums!IsFiniteSet(T)
  BY FS_Subset DEF IsFiniteSet, Sums!IsFiniteSet
<1>4. Sums!Commutes
  BY DEF Sums!Commutes
<1>5. ASSUME NEW T \in SUBSET S
      PROVE  /\ Sums!FoldOn(f, T) \in Nat
             /\ \A x \in T : Sums!FoldOn(f, T) = f[x] + Sums!FoldOn(f, T \ {x})
  <2>1. Sums!IsFiniteSet(T) /\ Sums!Picks(T) /\ \A x \in T : f[x] \in Nat
    BY <1>2, <1>3
  <2> QED
    BY <1>4, <2>1, Sums!FoldAny
<1>6. S = {} => Sums!FoldOn(f, S) = 0
  BY Sums!FoldEmpty
<1>7. ASSUME NEW x \in S, f[x] > 0 PROVE Sums!FoldOn(f, S) > 0
  <2>1. Sums!FoldOn(f, S) = f[x] + Sums!FoldOn(f, S \ {x}) /\ Sums!FoldOn(f, S \ {x}) \in Nat
    BY <1>5
  <2> QED
    BY <1>7, <2>1
<1> QED
  BY <1>1, <1>5, <1>6, <1>7

LEMMA ScoredFacts ==
  ASSUME TypeOK, NEW outputs
  PROVE  /\ Registered \in SUBSET DOMAIN Weight /\ IsFiniteSet(Registered)
         /\ Scored(outputs) \in SUBSET Registered /\ IsFiniteSet(Scored(outputs))
<1> DEFINE n == Len(registered)
<1>1. n \in Nat /\ \A i \in 1 .. n : registered[i].name \in DOMAIN Weight
  <2>1. registered \in Seq([name : DOMAIN Weight, file : BOOLEAN])
    BY DEF TypeOK
  <2>2. \A i \in 1 .. n : registered[i] \in [name : DOMAIN Weight, file : BOOLEAN]
    BY <2>1, ElementOfSeq
  <2> QED
    BY <2>1, <2>2, LenProperties
<1>2. Registered = {registered[i].name : i \in 1 .. n}
  BY DEF Registered
<1>3. IsFiniteSet(Registered)
  <2> DEFINE name == [i \in 1 .. n |-> registered[i].name]
  <2>1. IsFiniteSet(1 .. n)
    BY <1>1, FS_Interval
  <2>2. Registered = {name[i] : i \in 1 .. n} /\ name \in Surjection(1 .. n, Registered)
    BY <1>2 DEF Surjection
  <2> QED
    BY <2>1, <2>2, FS_Surjection
<1>4. Scored(outputs) \in SUBSET Registered
  BY DEF Scored
<1> QED
  BY <1>1, <1>2, <1>3, <1>4, FS_Subset

LEMMA MeanFacts ==
  ASSUME TypeOK, NEW outputs, NEW calc \in [Registered -> 0 .. MaxScore]
  PROVE  /\ MeanOf(outputs, calc) \in [sum : Nat, weights : Nat]
         /\ MeanOf(outputs, calc).weights = 0 => MeanOf(outputs, calc).sum = 0
<1> DEFINE S == Scored(outputs)
           f == [n \in S |-> calc[n] * Weight[n]]
<1>1. /\ S \in SUBSET Registered /\ IsFiniteSet(S) /\ Registered \in SUBSET DOMAIN Weight
  BY ScoredFacts
<1>2. /\ \A n \in S : Weight[n] \in Nat /\ Weight[n] > 0
      /\ \A n \in S : f[n] \in Nat
  <2>1. ASSUME NEW n \in S PROVE Weight[n] \in Nat /\ Weight[n] > 0 /\ calc[n] \in Nat
    BY <1>1, ScoreAssumption
  <2>2. ASSUME NEW n \in S PROVE f[n] \in Nat
    BY <2>1
  <2> QED
    BY <2>1, <2>2
<1>3. DOMAIN f = S
  OBVIOUS
<1>4. MeanOf(outputs, calc) = [sum |-> SumFunctionOnSet(f, S), weights |-> SumFunctionOnSet(Weight, S)]
  BY <1>3 DEF MeanOf, SumFunction
<1> HIDE DEF f, S
<1>5. /\ SumFunctionOnSet(f, S) \in Nat /\ (S = {} => SumFunctionOnSet(f, S) = 0)
      /\ SumFunctionOnSet(Weight, S) \in Nat
      /\ (\E n \in S : Weight[n] > 0) => SumFunctionOnSet(Weight, S) > 0
  BY <1>1, <1>2, SumFacts
<1> QED
  BY <1>2, <1>4, <1>5

(***************************************************************************)
(* Every step keeps the types.                                             *)
(***************************************************************************)
RegisteredMetric == [name : DOMAIN Weight, file : BOOLEAN]

ConfigOK ==
  /\ metrics \in [Predictions -> Seq(Names)]
  /\ registered \in Seq(RegisteredMetric)
  /\ csv \in [format : BOOLEAN, global : BOOLEAN]
  /\ late \subseteq Registered
  /\ predictions \in Seq(Predictions) /\ models \in Seq(Models)

TickOK ==
  /\ results \in Seq(Result)
  /\ last_prediction \in Seq(Seq(Ids)) /\ Len(last_prediction) <= Len(predictions)
  /\ executed \in 0 .. Len(models)
  /\ input \in Seq(Ids) /\ dim \in Seq(Output(Ids)) /\ refused \subseteq Ids
  /\ di \in Seq(Filled(Ids))
  /\ score \in Seq([sum : Nat, weights : Nat])
  /\ dim_sel \in 0 .. Len(di)
  /\ pc \in {"idle", "predict", "model", "exec", "decide", "report", "free",
             "ended", "crashed"}

LEMMA TypeIs ==
  /\ TypeOK <=> ConfigOK /\ TickOK
  /\ TypeOK' <=> ConfigOK' /\ TickOK'
BY DEF TypeOK, ConfigOK, TickOK, Result, Output, Filled, Metrics, RegisteredMetric

\* The steps that touch what is attached and registered.
Configures ==
  \/ prediction_attach_metric \/ prediction_delete
  \/ scoring_metric_create \/ scoring_metric_delete
  \/ scoring_output_csv \/ scoring_delete

LEMMA RegisteredIs ==
  ASSUME NEW r \in Seq(RegisteredMetric)
  PROVE  /\ {r[i].name : i \in 1..Len(r)} = {sm.name : sm \in ToSet(r)}
         /\ ToSet(r) \in SUBSET RegisteredMetric
         /\ ToSet(r) = {r[i] : i \in 1..Len(r)}
<1>1. DOMAIN r = 1..Len(r)
  BY LenProperties
<1>2. ToSet(r) = {r[i] : i \in 1..Len(r)}
  BY <1>1 DEF ToSet
<1>3. ToSet(r) \in SUBSET RegisteredMetric
  BY ToSetIs
<1> QED
  BY <1>2, <1>3

LEMMA CreateRegisters ==
  ASSUME ConfigOK, NEW n \in DOMAIN Weight,
         registered' = <<[name |-> n, file |-> FALSE]>> \o registered
  PROVE  /\ registered' \in Seq(RegisteredMetric)
         /\ ToSet(registered') = ToSet(registered) \cup {[name |-> n, file |-> FALSE]}
         /\ Registered' = Registered \cup {n}
<1> DEFINE sm == [name |-> n, file |-> FALSE]
           one == <<sm>>
<1>1. sm \in RegisteredMetric /\ sm.name = n
  BY DEF RegisteredMetric
<1> HIDE DEF sm
<1>2. one \in Seq(RegisteredMetric) /\ ToSet(one) = {sm}
  BY <1>1 DEF ToSet
<1> HIDE DEF one
<1>3. registered' = one \o registered /\ registered \in Seq(RegisteredMetric)
  BY DEF ConfigOK, one, sm
<1>4. /\ registered' \in Seq(RegisteredMetric)
      /\ ToSet(registered') = ToSet(one) \cup ToSet(registered)
  <2>1. /\ one \o registered \in Seq(RegisteredMetric)
        /\ ToSet(one \o registered) = ToSet(one) \cup ToSet(registered)
    BY <1>2, <1>3, Concatenated
  <2> QED
    BY <1>3, <2>1
<1>5. /\ Registered' = {s.name : s \in ToSet(registered')}
      /\ Registered = {s.name : s \in ToSet(registered)}
  BY <1>3, <1>4, RegisteredIs DEF Registered
<1>6. ToSet(registered') = ToSet(registered) \cup {sm}
  BY <1>2, <1>4
<1>7. Registered' = Registered \cup {n}
  BY <1>1, <1>5, <1>6
<1> QED
  BY <1>4, <1>6, <1>7 DEF sm

LEMMA DeleteRegisters ==
  ASSUME ConfigOK, NEW n,
         registered' = Kept(registered, {sm \in ToSet(registered) : sm.name # n})
  PROVE  /\ registered' \in Seq(RegisteredMetric)
         /\ ToSet(registered') = {sm \in ToSet(registered) : sm.name # n}
         /\ Registered' = Registered \ {n}
<1>1. registered \in Seq(RegisteredMetric)
  BY DEF ConfigOK
<1>2. /\ registered' \in Seq(RegisteredMetric)
      /\ ToSet(registered') = {sm \in ToSet(registered) : sm.name # n}
  <2>1. /\ registered' \in Seq(RegisteredMetric)
        /\ ToSet(registered') = ToSet(registered) \cap {sm \in ToSet(registered) : sm.name # n}
    BY <1>1, KeptHolds
  <2> QED
    BY <2>1
<1>3. /\ Registered' = {s.name : s \in ToSet(registered')}
      /\ Registered = {s.name : s \in ToSet(registered)}
  BY <1>1, <1>2, RegisteredIs DEF Registered
<1> QED
  BY <1>2, <1>3

LEMMA HeaderWritten ==
  ASSUME ConfigOK, registered' = csv_write_header
  PROVE  /\ registered' \in Seq(RegisteredMetric)
         /\ Len(registered') = Len(registered)
         /\ \A i \in 1..Len(registered) :
              /\ registered'[i].name = registered[i].name
              /\ registered'[i].file = (registered[i].file \/ (csv.format /\ ~csv.global))
         /\ Registered' = Registered
<1> DEFINE n == Len(registered)
<1>1. n \in Nat /\ \A i \in 1 .. n : registered[i] \in RegisteredMetric
  BY ElementOfSeq, LenProperties DEF ConfigOK
<1>2. CASE csv.format /\ ~csv.global
  <2> DEFINE W(i) == [registered[i] EXCEPT !.file = TRUE]
  <2>1. ASSUME NEW i \in 1 .. n
        PROVE  W(i) \in RegisteredMetric /\ W(i).name = registered[i].name /\ W(i).file = TRUE
    BY <1>1 DEF RegisteredMetric
  <2>2. registered' = [i \in 1 .. n |-> W(i)]
    BY <1>2 DEF csv_write_header
  <2> HIDE DEF W, n
  <2>3. registered' \in Seq(RegisteredMetric) /\ Len(registered') = n
    <3> DEFINE r == [i \in 1 .. n |-> W(i)]
    <3>1. r \in [1 .. n -> RegisteredMetric]
      BY <2>1
    <3> HIDE DEF r
    <3>2. n \in Nat
      BY <1>1
    <3>3. r \in Seq(RegisteredMetric) /\ Len(r) = n
      BY <3>1, <3>2, FunctionIsSeq
    <3> QED
      BY <2>2, <3>3 DEF r
  <2>4. ASSUME NEW i \in 1 .. n
        PROVE  /\ registered'[i].name = registered[i].name
               /\ registered'[i].file = TRUE
    BY <2>1, <2>2
  <2>5. {registered'[i].name : i \in 1 .. n} = {registered[i].name : i \in 1 .. n}
    BY <2>4
  <2> QED
    BY <1>2, <2>3, <2>4, <2>5 DEF Registered, n
<1>3. CASE ~(csv.format /\ ~csv.global)
  <2>1. registered' = registered
    BY <1>3 DEF csv_write_header
  <2>2. \A i \in 1 .. n : registered[i].file \in BOOLEAN
    BY <1>1 DEF RegisteredMetric
  <2> QED
    BY <1>3, <2>1, <2>2 DEF ConfigOK, Registered
<1> QED
  BY <1>2, <1>3

LEMMA ConfigStep ==
  ASSUME ConfigOK, [Next]_vars
  PROVE  ConfigOK'
<1> USE DEF ConfigOK
<1>1. CASE prediction_attach_metric
  <2>0. PICK p \in DOMAIN Attachable : \E n \in Attachable[p] :
          metrics' = [metrics EXCEPT ![p] = Attached(p, n)]
    BY <1>1 DEF prediction_attach_metric
  <2>1. PICK n \in Attachable[p] : metrics' = [metrics EXCEPT ![p] = Attached(p, n)]
    BY <2>0
  <2>2. p \in Predictions /\ n \in Names
    BY NamesAssumption
  <2>3. metrics[p] \in Seq(Names)
    BY <2>2
  <2>4. Attached(p, n) \in Seq(Names)
    <3>1. <<n>> \in Seq(Names)
      BY <2>2
    <3>2. <<n>> \o metrics[p] \in Seq(Names)
      BY <2>3, <3>1, ConcatProperties
    <3> QED
      BY <2>3, <3>2 DEF Attached
  <2>5. metrics' \in [Predictions -> Seq(Names)]
    BY <2>1, <2>2, <2>4
  <2>6. UNCHANGED <<scoring, predictions, models>>
    BY <1>1 DEF prediction_attach_metric, tick
  <2> QED
    BY <2>5, <2>6 DEF scoring, Registered
<1>2. CASE prediction_delete
  <2>1. << >> \in Seq(Names)
    OBVIOUS
  <2> QED
    BY <1>2, <2>1 DEF prediction_delete, scoring, tick, Registered
<1>3. CASE scoring_metric_create
  <2>1. PICK n \in DOMAIN Weight \ Registered :
          /\ registered' = <<[name |-> n, file |-> FALSE]>> \o registered
          /\ late' = IF csv.global THEN late \cup {n} ELSE late
    BY <1>3 DEF scoring_metric_create
  <2>2. registered' \in Seq(RegisteredMetric) /\ Registered' = Registered \cup {n}
    BY <2>1, CreateRegisters
  <2> QED
    BY <1>3, <2>1, <2>2 DEF scoring_metric_create, tick
<1>4. CASE scoring_metric_delete
  <2>1. PICK n \in Registered :
          /\ registered' = Kept(registered, {sm \in ToSet(registered) : sm.name # n})
          /\ late' = late \ {n}
    BY <1>4 DEF scoring_metric_delete
  <2>2. registered' \in Seq(RegisteredMetric) /\ Registered' = Registered \ {n}
    BY <2>1, DeleteRegisters
  <2> QED
    BY <1>4, <2>1, <2>2 DEF scoring_metric_delete, tick
<1>5. CASE scoring_output_csv
  BY <1>5 DEF scoring_output_csv, tick, Registered
<1>6. CASE scoring_delete
  <2>1. registered' = << >> /\ csv' = [format |-> FALSE, global |-> FALSE] /\ late' = {}
    BY <1>6 DEF scoring_delete, NoScoring
  <2> QED
    BY <1>6, <2>1 DEF scoring_delete, tick
<1>7. CASE StartTick
  <2>1. \A S : SeqOf(S, MaxLength) \subseteq Seq(S)
    <3> SUFFICES ASSUME NEW S, NEW s \in SeqOf(S, MaxLength) PROVE s \in Seq(S)
      OBVIOUS
    <3>1. PICK m \in 0 .. MaxLength : s \in [1 .. m -> S]
      BY DEF SeqOf
    <3>2. m \in Nat
      BY ScoreAssumption
    <3> QED
      BY <3>1, <3>2
  <2>2. predictions' \in Seq(Predictions) /\ models' \in Seq(Models)
    BY <1>7, <2>1 DEF StartTick
  <2> QED
    BY <1>7, <2>2 DEF StartTick, scoring, Registered
<1>8. CASE scoring_exec
  <2>1. registered' \in Seq(RegisteredMetric) /\ Registered' = Registered
    BY <1>8, HeaderWritten DEF scoring_exec
  <2>2. csv' \in [format : BOOLEAN, global : BOOLEAN]
    BY <1>8 DEF scoring_exec
  <2> QED
    BY <1>8, <2>1, <2>2 DEF scoring_exec, config
<1>9. CASE EndTick
  <2>1. predictions' = << >> /\ models' = << >>
    BY <1>9 DEF EndTick
  <2> QED
    BY <1>9, <2>1 DEF EndTick, scoring, Registered
<1>10. CASE UNCHANGED <<config, scoring>>
  BY <1>10 DEF config, scoring, Registered
<1>11. CASE UNCHANGED vars
  BY <1>11 DEF vars, Registered
<1>12. \/ Configures \/ StartTick \/ scoring_exec \/ EndTick \/ UNCHANGED vars
       \/ UNCHANGED <<config, scoring>>
  BY DEF Next, Configures, ExecutePrediction, PredictionsDone, StartModel, TakeHead,
         DummyReturns, FindResults, TakeDecision, decision_input_delete, prediction_list_delete,
         config, scoring
<1> QED
  BY <1>1, <1>2, <1>3, <1>4, <1>5, <1>6, <1>7, <1>8, <1>9, <1>10, <1>11, <1>12 DEF Configures
LEMMA ExecutePredictionTypes ==
  ASSUME TypeOK, ExecutePrediction
  PROVE  TickOK'
<1>0. TickOK /\ ConfigOK
  BY TypeIs
<1>1. PICK names \in Seq(Names) :
        /\ results' = results \o New(names)
        /\ last_prediction' = Append(last_prediction, Fresh(names))
        /\ Len(last_prediction) + 1 \in 1..Len(predictions)
  BY ExecutePredictionDoes
<1>2. /\ results' \in Seq(Result) /\ Len(results) <= Len(results')
      /\ Ids \subseteq Ids' /\ Fresh(names) \in Seq(Ids')
  BY <1>0, <1>1, Allocation DEF TickOK
<1>3. /\ last_prediction \in Seq(Seq(Ids')) /\ input \in Seq(Ids')
      /\ dim \in Seq(Output(Ids')) /\ di \in Seq(Filled(Ids'))
  BY <1>2, TypesCarried
<1>4. last_prediction' \in Seq(Seq(Ids')) /\ Len(last_prediction') = Len(last_prediction) + 1
  BY <1>1, <1>2, <1>3, AppendProperties
<1>5. /\ UNCHANGED <<predictions, models, executed, input, dim, refused, di, score, dim_sel>>
      /\ pc' = pc
  BY DEF ExecutePrediction, config, chosen
<1>6. Len(last_prediction') <= Len(predictions')
  BY <1>1, <1>4, <1>5
<1> QED
  BY <1>0, <1>2, <1>3, <1>4, <1>5, <1>6 DEF TickOK

LEMMA StartModelTypes ==
  ASSUME TypeOK, StartModel
  PROVE  TickOK'
<1>0. TickOK /\ ConfigOK
  BY TypeIs
<1>1. PICK names \in Seq(Names) : results' = results \o New(names) /\ input' = Fresh(names)
  BY StartModelDoes
<1>2. /\ results' \in Seq(Result) /\ Len(results) <= Len(results')
      /\ Ids \subseteq Ids' /\ Fresh(names) \in Seq(Ids')
  BY <1>0, <1>1, Allocation DEF TickOK
<1>3. /\ last_prediction \in Seq(Seq(Ids'))
      /\ dim \in Seq(Output(Ids')) /\ di \in Seq(Filled(Ids'))
  BY <1>2, TypesCarried
<1>4. /\ UNCHANGED <<predictions, models, last_prediction, refused, di, score, dim_sel>>
      /\ executed < Len(models) /\ executed' = executed + 1
      /\ dim' = << >> /\ pc' = "exec"
  BY DEF StartModel, config, chosen
<1>5. executed' \in 0 .. Len(models')
  BY <1>0, <1>4 DEF TickOK, ConfigOK
<1>6. dim' \in Seq(Output(Ids'))
  BY <1>4
<1> QED
  BY <1>0, <1>1, <1>2, <1>3, <1>4, <1>5, <1>6 DEF TickOK

LEMMA TakeHeadTypes ==
  ASSUME TypeOK, TakeHead
  PROVE  TickOK'
<1>0. TickOK /\ ConfigOK
  BY TypeIs
<1>1. Head(input) \in Ids /\ Tail(input) \in Seq(Ids)
  BY <1>0, HeadAndTail DEF TickOK, TakeHead
<1>2. /\ UNCHANGED <<predictions, models, results, last_prediction, executed, di, score, dim_sel>>
      /\ pc' = pc /\ input' = Tail(input)
      /\ \/ refused' = refused \cup {Head(input)} /\ dim' = dim
         \/ refused' = refused
            /\ dim' = Append(dim, Metric(results[Head(input)].name, Head(input)))
  BY DEF TakeHead, config, chosen
<1>3. Metric(results[Head(input)].name, Head(input)) \in Output(Ids)
  <2>1. results[Head(input)] \in Result
    BY <1>0, <1>1, ElementOfSeq DEF TickOK, Ids
  <2> QED
    BY <1>1, <2>1 DEF Metric, Output, Result
<1>4. dim' \in Seq(Output(Ids)) /\ refused' \subseteq Ids
  <2> DEFINE o == Metric(results[Head(input)].name, Head(input))
  <2>1. dim \in Seq(Output(Ids)) /\ o \in Output(Ids) /\ refused \subseteq Ids
    BY <1>0, <1>3 DEF TickOK
  <2>2. /\ refused' = refused \/ refused' = refused \cup {Head(input)}
        /\ dim' = dim \/ dim' = Append(dim, o)
    BY <1>2
  <2> HIDE DEF o
  <2>3. Append(dim, o) \in Seq(Output(Ids))
    BY <2>1, AppendProperties
  <2> QED
    BY <1>1, <2>1, <2>2, <2>3
<1>5. Ids' = Ids
  BY <1>2 DEF Ids
<1> QED
  BY <1>0, <1>1, <1>2, <1>4, <1>5 DEF TickOK

LEMMA DummyReturnsTypes ==
  ASSUME TypeOK, Phases, DummyReturns
  PROVE  TickOK'
<1>0. TickOK /\ ConfigOK
  BY TypeIs
<1>1. /\ UNCHANGED <<predictions, models, results, last_prediction, executed, input, refused,
                     score, dim_sel>>
      /\ di' = Append(di, [model |-> model, metrics |-> dim])
      /\ dim' = << >> /\ pc' = "model" /\ pc = "exec"
  BY DEF DummyReturns, config, chosen
<1>2. model \in Models
  BY <1>1, ModelType DEF Phases
<1>3. [model |-> model, metrics |-> dim] \in Filled(Ids)
  BY <1>0, <1>2 DEF TickOK, Filled
<1> HIDE DEF model
<1>4. di' \in Seq(Filled(Ids)) /\ Len(di') = Len(di) + 1
  BY <1>0, <1>1, <1>3, AppendProperties DEF TickOK
<1>5. Ids' = Ids
  BY <1>1 DEF Ids
<1>6. dim_sel' \in 0 .. Len(di')
  BY <1>0, <1>1, <1>4 DEF TickOK
<1>7. dim' \in Seq(Output(Ids))
  BY <1>1
<1> QED
  BY <1>0, <1>1, <1>4, <1>5, <1>6, <1>7 DEF TickOK
\* What an action does to the results: it frees some, and allocates more.
Frees(ids) ==
  /\ results' \in Seq(Result) /\ Len(results) <= Len(results') /\ Ids \subseteq Ids'
  /\ \A i \in Ids : /\ results'[i].name = results[i].name
                    /\ results'[i].freed = IF i \in ids THEN 1 ELSE results[i].freed
  /\ \A i \in Ids' \ Ids : results'[i].freed = 0

NewOnly(f) == f \in Seq(Ids') /\ IsInjective(f) /\ ToSet(f) = Ids' \ Ids

LEMMA FreesNone ==
  ASSUME TypeOK, results' = results
  PROVE  Frees({}) /\ Ids' = Ids
<1>1. results \in Seq(Result) /\ Len(results) \in Nat
  BY TypeParts
<1>2. Ids' = Ids
  BY DEF Ids
<1> QED
  BY <1>1, <1>2 DEF Frees

LEMMA AllocationFrees ==
  ASSUME TypeOK, NEW names \in Seq(Names), results' = results \o New(names)
  PROVE  Frees({}) /\ NewOnly(Fresh(names))
<1>1. results \in Seq(Result)
  BY TypeParts
<1> QED
  BY <1>1, Allocation DEF Frees, NewOnly

LEMMA DeletedFrees ==
  ASSUME TypeOK, Accounted, NEW ids \in SUBSET Held, results' = Deleted(ids)
  PROVE  Frees(ids) /\ Ids' = Ids
<1>1. results' \in Seq(Result) /\ Len(results') = Len(results) /\ Len(results) \in Nat
  BY UnusedDeleted, TypeParts
<1>2. Ids' = Ids
  BY <1>1 DEF Ids
<1> QED
  BY <1>1, <1>2, UnusedDeleted DEF Frees

\* The two outcomes of FindResults.
Finding(f, outputs) ==
  /\ Finds(model, NamesIn(ToSet(input)))
  /\ NewOnly(f)
  /\ outputs \in Seq(Output(Ids')) /\ PredictionsOf(outputs) = f /\ OwnedBy(outputs) = ToSet(f)
  /\ {results'[i].name : i \in ToSet(f)} = ToSet(ResultsFor(model))
  /\ di' = Append(di, [model |-> model, metrics |-> outputs])

FindingNone ==
  /\ ~Finds(model, NamesIn(ToSet(input)))
  /\ di' = di /\ Ids' = Ids

LEMMA FindResultsEffects ==
  ASSUME TypeOK, Phases, Accounted, FindResults
  PROVE  /\ model \in Models \ Dummies
         /\ Frees(ToSet(input))
         /\ (\E f, outputs : Finding(f, outputs)) \/ FindingNone
<1>1. model \in Models \ Dummies
  BY ModelType DEF FindResults, Phases
<1>2. ToSet(input) \in SUBSET Held
  BY DEF Held, Running
<1>3. /\ Deleted(ToSet(input)) \in Seq(Result) /\ Len(Deleted(ToSet(input))) = Len(results)
      /\ \A i \in Ids :
           /\ Deleted(ToSet(input))[i].name = results[i].name
           /\ Deleted(ToSet(input))[i].freed
                = IF i \in ToSet(input) THEN 1 ELSE results[i].freed
  BY <1>2, UnusedDeleted
<1>4. ToSet(NamesOf(input)) = NamesIn(ToSet(input))
  BY TypeParts, NamesOfFacts
<1>5. CASE FindResultsAll
  <2> DEFINE names == ResultsFor(model)
             r == Deleted(ToSet(input))
             f == Fresh(names)
             outputs == [i \in 1..Len(names) |-> Metric(Needs[model][i].output, f[i])]
  <2>1. names \in Seq(Names)
    BY <1>1, ResultsForType
  <2>2. results' = r \o New(names)
    BY <1>5 DEF FindResultsAll
  <2> HIDE DEF r
  <2>3. /\ results' \in Seq(Result) /\ Len(results) <= Len(results') /\ Ids \subseteq Ids'
        /\ f \in Seq(Ids') /\ IsInjective(f) /\ ToSet(f) = Ids' \ Ids
        /\ \A i \in Ids : results'[i] = r[i]
        /\ \A i \in Ids' \ Ids : results'[i].freed = 0
        /\ Len(f) = Len(names)
        /\ \A i \in 1..Len(names) : results'[f[i]].name = names[i]
    BY <1>3, <2>1, <2>2, Allocation DEF r
  <2>4. Frees(ToSet(input))
    BY <1>3, <2>3 DEF Frees, r
  <2>5. /\ outputs \in Seq(Output(Ids')) /\ PredictionsOf(outputs) = f
        /\ OwnedBy(outputs) = ToSet(f)
    BY <1>1, <2>3, CopiesType
  <2>6. di' = Append(di, [model |-> model, metrics |-> outputs])
    BY <1>5 DEF FindResultsAll
  <2> HIDE DEF f, outputs, names
  <2>7. {results'[i].name : i \in ToSet(f)} = ToSet(names)
    <3>1. Len(f) \in Nat
      BY <2>3, LenProperties
    <3>2. ToSet(f) = {f[i] : i \in 1..Len(f)} /\ ToSet(names) = {names[i] : i \in 1..Len(f)}
      BY <2>3 DEF ToSet
    <3>3. {results'[i].name : i \in ToSet(f)} = {results'[f[i]].name : i \in 1..Len(f)}
      BY <3>2
    <3>4. \A i \in 1..Len(f) : results'[f[i]].name = names[i]
      BY <2>3
    <3>5. {results'[f[i]].name : i \in 1..Len(f)} = {names[i] : i \in 1..Len(f)}
      BY <3>4
    <3> QED
      BY <3>2, <3>3, <3>5
  <2>8. Finds(model, NamesIn(ToSet(input)))
    BY <1>4, <1>5 DEF FindResultsAll
  <2>9. Finding(f, outputs)
    BY <2>3, <2>5, <2>6, <2>7, <2>8 DEF Finding, NewOnly, names
  <2> QED
    BY <1>1, <2>4, <2>9
<1>6. CASE FindResultsNone
  <2>1. Frees(ToSet(input)) /\ Ids' = Ids
    BY <1>2, <1>6, DeletedFrees DEF FindResultsNone
  <2> QED
    BY <1>1, <1>4, <1>6, <2>1 DEF FindResultsNone, FindingNone
<1> QED
  BY <1>5, <1>6, FindResultsDoes

LEMMA FindResultsTypes ==
  ASSUME TypeOK, Phases, Accounted, FindResults
  PROVE  TickOK'
<1>0. TickOK /\ ConfigOK
  BY TypeIs
<1>1. model \in Models /\ Frees(ToSet(input))
  BY FindResultsEffects
<1>2. /\ results' \in Seq(Result) /\ Len(results) <= Len(results') /\ Ids \subseteq Ids'
  BY <1>1 DEF Frees
<1>3. /\ last_prediction \in Seq(Seq(Ids'))
      /\ dim \in Seq(Output(Ids')) /\ di \in Seq(Filled(Ids'))
  BY <1>2, TypesCarried
<1>4. /\ UNCHANGED <<predictions, models, last_prediction, executed, dim, refused,
                     score, dim_sel>>
      /\ input' = << >> /\ pc' = "model"
  BY DEF FindResults, config, chosen
<1>5. di' \in Seq(Filled(Ids')) /\ dim_sel' \in 0 .. Len(di')
  <2>1. CASE FindingNone
    BY <1>0, <1>3, <1>4, <2>1 DEF FindingNone, TickOK
  <2>2. ASSUME NEW f, NEW outputs, Finding(f, outputs)
        PROVE  di' \in Seq(Filled(Ids')) /\ dim_sel' \in 0 .. Len(di')
    <3>1. outputs \in Seq(Output(Ids')) /\ di' = Append(di, [model |-> model, metrics |-> outputs])
      BY <2>2 DEF Finding
    <3>2. [model |-> model, metrics |-> outputs] \in Filled(Ids')
      BY <1>1, <3>1 DEF Filled
    <3> HIDE DEF model
    <3>3. di' \in Seq(Filled(Ids')) /\ Len(di') = Len(di) + 1
      BY <1>3, <3>1, <3>2, AppendProperties
    <3> QED
      BY <1>0, <1>4, <3>3 DEF TickOK
  <2> QED
    BY <2>1, <2>2, FindResultsEffects
<1> QED
  BY <1>0, <1>2, <1>3, <1>4, <1>5 DEF TickOK
\* What scoring_exec computes.
LEMMA Scoring ==
  ASSUME TypeOK, scoring_exec
  PROVE  /\ score' \in Seq([sum : Nat, weights : Nat])
         /\ Len(score') = Len(di)
         /\ \A d \in 1..Len(di) : score'[d].weights = 0 => score'[d].sum = 0
<1> DEFINE n == Len(di)
<1>1. PICK calc \in [1..n -> [Registered -> 0 .. MaxScore]] :
        score' = [d \in 1..n |-> MeanOf(di[d].metrics, calc[d])]
  BY DEF scoring_exec
<1> DEFINE M(d) == MeanOf(di[d].metrics, calc[d])
<1>2. ASSUME NEW d \in 1..n
      PROVE  M(d) \in [sum : Nat, weights : Nat] /\ (M(d).weights = 0 => M(d).sum = 0)
  <2>1. calc[d] \in [Registered -> 0 .. MaxScore]
    BY <1>1
  <2> QED
    BY <2>1, MeanFacts
<1>3. n \in Nat
  BY TypeParts, LenProperties
<1>4. score' = [d \in 1..n |-> M(d)]
  BY <1>1
<1> HIDE DEF M, n
<1> DEFINE t == [d \in 1..n |-> M(d)]
<1>5. t \in [1..n -> [sum : Nat, weights : Nat]]
  BY <1>2
<1>6. \A d \in 1..n : t[d].weights = 0 => t[d].sum = 0
  BY <1>2
<1> HIDE DEF t
<1>7. t \in Seq([sum : Nat, weights : Nat]) /\ Len(t) = n
  <2> DEFINE Mean == [sum : Nat, weights : Nat]
  <2>1. t \in [1..n -> Mean]
    BY <1>5
  <2> HIDE DEF Mean
  <2>2. t \in Seq(Mean) /\ Len(t) = n
    BY <1>3, <2>1, FunctionIsSeq
  <2> QED
    BY <2>2 DEF Mean
<1> QED
  BY <1>4, <1>6, <1>7 DEF t, n

LEMMA TickStep ==
  ASSUME TypeOK, Phases, Accounted, Scores, [Next]_vars
  PROVE  TickOK'
<1>0. TickOK /\ ConfigOK
  BY TypeIs
<1>1. CASE UNCHANGED tick
  BY <1>0, <1>1 DEF TickOK, tick, Ids
<1>2. CASE StartTick
  <2>1. /\ UNCHANGED <<results, last_prediction, executed, input, dim, refused, di, score, dim_sel>>
        /\ pc' = "predict" /\ Len(last_prediction) = 0 /\ executed = 0
    BY <1>2 DEF StartTick, chosen, Phases
  <2>2. ConfigOK'
    BY <1>0, <1>2, ConfigStep
  <2>3. Len(predictions') \in Nat /\ Len(models') \in Nat
    BY <2>2, LenProperties DEF ConfigOK
  <2> QED
    BY <1>0, <2>1, <2>3 DEF TickOK, Ids
<1>3. CASE PredictionsDone
  BY <1>0, <1>3 DEF TickOK, Ids, PredictionsDone, config, chosen
<1>4. CASE scoring_exec
  <2>1. score' \in Seq([sum : Nat, weights : Nat])
    BY <1>4, Scoring
  <2> QED
    BY <1>0, <1>4, <2>1 DEF TickOK, Ids, scoring_exec, config
<1>5. CASE TakeDecision
  <2> DEFINE best == decision_simple_calc
             n == Len(di)
  <2>1. pc = "decide" /\ dim_sel' = best
    BY <1>5 DEF TakeDecision, Selected
  <2>2. n \in Nat /\ Len(score) = n
    BY <1>0, <2>1, LenProperties DEF TickOK, Phases
  <2>3. Means(n)
    <3>1. \A d \in 1 .. n : score[d].weights = 0 => score[d].sum = 0
      BY <2>1 DEF Scores
    <3>2. \A d \in 1 .. n : score[d] \in [sum : Nat, weights : Nat]
      BY <1>0, <2>2, ElementOfSeq DEF TickOK
    <3>3. \A d \in 1 .. n : score[d].sum \in Nat /\ score[d].weights \in Nat
      BY <3>2
    <3> QED
      BY <3>1, <3>3 DEF Means
  <2>4. best \in 0 .. n
    BY <2>2, <2>3, DecisionIsBest DEF Best
  <2> HIDE DEF best
  <2> QED
    BY <1>0, <1>5, <2>1, <2>4 DEF TickOK, Ids, TakeDecision, config
<1>6. CASE decision_input_delete
  <2>1. results' = Deleted(ToSet(Outputs))
    BY <1>6, PointerParts DEF decision_input_delete
  <2>2. ToSet(Outputs) \in SUBSET Held
    BY DEF Held
  <2>3. results' \in Seq(Result) /\ Ids' = Ids
    BY <2>1, <2>2, DeletedFrees DEF Frees
  <2> QED
    BY <1>0, <1>6, <2>3 DEF TickOK, decision_input_delete, config
<1>7. CASE prediction_list_delete
  <2>1. results' = Deleted(ToSet(Lists))
    BY <1>7 DEF prediction_list_delete, Lists
  <2>2. ToSet(Lists) \in SUBSET Held
    BY DEF Held
  <2>3. results' \in Seq(Result) /\ Ids' = Ids
    BY <2>1, <2>2, DeletedFrees DEF Frees
  <2>4. Len(predictions) \in Nat /\ Len(last_prediction') = 0
    BY <1>0, <1>7, LenProperties DEF ConfigOK, prediction_list_delete
  <2> QED
    BY <1>0, <1>7, <2>3, <2>4 DEF TickOK, prediction_list_delete, config, chosen
<1>8. CASE EndTick
  BY <1>0, <1>8 DEF TickOK, EndTick, Phases, chosen
<1> QED
  BY <1>1, <1>2, <1>3, <1>4, <1>5, <1>6, <1>7, <1>8, ExecutePredictionTypes, StartModelTypes,
     TakeHeadTypes, DummyReturnsTypes, FindResultsTypes
  DEF Next, vars, tick, prediction_attach_metric, prediction_delete, scoring_metric_create,
      scoring_metric_delete, scoring_output_csv, scoring_delete

LEMMA TypeStep ==
  ASSUME TypeOK, Phases, Accounted, Scores, [Next]_vars
  PROVE  TypeOK'
BY TypeIs, ConfigStep, TickStep

LEMMA PhasesStep ==
  ASSUME TypeOK, Phases, [Next]_vars
  PROVE  Phases'
<1> USE DEF Phases
<1>0. TickOK /\ ConfigOK
  BY TypeIs
<1>1. CASE UNCHANGED tick
  BY <1>1 DEF tick, model
<1>2. CASE StartTick
  BY <1>2 DEF StartTick, chosen
<1>3. CASE ExecutePrediction
  BY <1>3 DEF ExecutePrediction, config, chosen
<1>4. CASE PredictionsDone
  BY <1>4 DEF PredictionsDone, config, chosen
<1>5. CASE StartModel
  <2>1. executed \in Nat
    BY <1>0 DEF TickOK
  <2> QED
    BY <1>5, <2>1 DEF StartModel, config, chosen
<1>6. CASE TakeHead
  BY <1>6 DEF TakeHead, config, chosen, model
<1>7. CASE DummyReturns
  BY <1>7 DEF DummyReturns, config, chosen
<1>8. CASE FindResults
  BY <1>8 DEF FindResults, config, chosen
<1>9. CASE scoring_exec
  <2>1. Len(score') = Len(di)
    BY <1>9, Scoring
  <2> QED
    BY <1>9, <2>1 DEF scoring_exec, config
<1>10. CASE TakeDecision
  BY <1>10 DEF TakeDecision, config
<1>11. CASE decision_input_delete
  BY <1>11 DEF decision_input_delete, config
<1>12. CASE prediction_list_delete
  BY <1>12 DEF prediction_list_delete, config, chosen
<1>13. CASE EndTick
  BY <1>13 DEF EndTick, chosen
<1> QED
  BY <1>1, <1>2, <1>3, <1>4, <1>5, <1>6, <1>7, <1>8, <1>9, <1>10, <1>11, <1>12, <1>13
  DEF Next, vars, tick, prediction_attach_metric, prediction_delete, scoring_metric_create,
      scoring_metric_delete, scoring_output_csv, scoring_delete
LEMMA AttachedOnceStep ==
  ASSUME TypeOK, AttachedOnce, [Next]_vars
  PROVE  AttachedOnce'
<1>0. ConfigOK
  BY TypeIs
<1>1. CASE prediction_attach_metric
  <2>0. PICK p \in DOMAIN Attachable : \E n \in Attachable[p] :
          metrics' = [metrics EXCEPT ![p] = Attached(p, n)]
    BY <1>1 DEF prediction_attach_metric
  <2>1. PICK n \in Attachable[p] : metrics' = [metrics EXCEPT ![p] = Attached(p, n)]
    BY <2>0
  <2>2. p \in Predictions /\ n \in Names
    BY NamesAssumption
  <2>3. metrics[p] \in Seq(Names) /\ IsInjective(metrics[p])
    BY <1>0, <2>2 DEF ConfigOK, AttachedOnce
  <2>4. IsInjective(Attached(p, n))
    <3>1. CASE Contains(metrics[p], n)
      BY <2>3, <3>1 DEF Attached
    <3>2. CASE ~Contains(metrics[p], n)
      <4>1. n \notin ToSet(metrics[p])
        BY <2>3, <3>2, ToSetIs
      <4> DEFINE one == <<n>>
      <4>2. one \in Seq(Names) /\ ToSet(one) = {n} /\ IsInjective(one)
        BY <2>2 DEF ToSet, IsInjective
      <4> HIDE DEF one
      <4>3. IsInjective(one \o metrics[p])
        BY <2>3, <4>1, <4>2, Concatenated
      <4> QED
        BY <3>2, <4>3 DEF Attached, one
    <3> QED
      BY <3>1, <3>2
  <2> QED
    BY <1>0, <2>1, <2>2, <2>4 DEF AttachedOnce, ConfigOK
<1>2. CASE prediction_delete
  BY <1>0, <1>2, ToSetEmpty DEF prediction_delete, AttachedOnce, ConfigOK
<1>3. CASE UNCHANGED metrics
  BY <1>3 DEF AttachedOnce
<1> QED
  BY <1>1, <1>2, <1>3
  DEF Next, vars, scoring_metric_create, scoring_metric_delete, scoring_output_csv,
      scoring_delete, StartTick, ExecutePrediction, PredictionsDone, StartModel, TakeHead,
      DummyReturns, FindResults, scoring_exec, TakeDecision, decision_input_delete,
      prediction_list_delete, EndTick, config

(***************************************************************************)
(* The four places where a pointer to a result can be: a list of the       *)
(* predictions, the list of the running model, what it has put together,   *)
(* and the decision input.                                                 *)
(***************************************************************************)
Apart(l, i, d, o) ==
  /\ IsInjective(l) /\ IsInjective(i) /\ IsInjective(d) /\ IsInjective(o)
  /\ ToSet(l) \cap ToSet(i) = {} /\ ToSet(l) \cap ToSet(d) = {}
  /\ ToSet(l) \cap ToSet(o) = {} /\ ToSet(i) \cap ToSet(d) = {}
  /\ ToSet(i) \cap ToSet(o) = {} /\ ToSet(d) \cap ToSet(o) = {}

LEMMA ApartIs ==
  ASSUME NEW S, NEW l \in Seq(S), NEW i \in Seq(S), NEW d \in Seq(S), NEW o \in Seq(S)
  PROVE  /\ Apart(l, i, d, o) <=> IsInjective(l \o i \o d \o o)
         /\ ToSet(l \o i \o d \o o) = ToSet(l) \cup ToSet(i) \cup ToSet(d) \cup ToSet(o)
<1>1. /\ l \o i \in Seq(S) /\ ToSet(l \o i) = ToSet(l) \cup ToSet(i)
      /\ IsInjective(l \o i) <=> IsInjective(l) /\ IsInjective(i) /\ ToSet(l) \cap ToSet(i) = {}
  BY Concatenated
<1>2. /\ (l \o i) \o d \in Seq(S) /\ ToSet((l \o i) \o d) = ToSet(l \o i) \cup ToSet(d)
      /\ IsInjective((l \o i) \o d) <=>
           IsInjective(l \o i) /\ IsInjective(d) /\ ToSet(l \o i) \cap ToSet(d) = {}
  BY <1>1, Concatenated
<1>3. /\ ToSet(((l \o i) \o d) \o o) = ToSet((l \o i) \o d) \cup ToSet(o)
      /\ IsInjective(((l \o i) \o d) \o o) <=>
           IsInjective((l \o i) \o d) /\ IsInjective(o) /\ ToSet((l \o i) \o d) \cap ToSet(o) = {}
  BY <1>2, Concatenated
<1> QED
  BY <1>1, <1>2, <1>3 DEF Apart

\* What an allocation adds to one of the places, all others being about S.
LEMMA ApartGrown ==
  ASSUME NEW S, NEW T, S \subseteq T,
         NEW l \in Seq(S), NEW i \in Seq(S), NEW d \in Seq(S), NEW o \in Seq(S),
         Apart(l, i, d, o), NEW f \in Seq(T), IsInjective(f), ToSet(f) = T \ S
  PROVE  /\ Apart(l \o f, i, d, o) /\ ToSet(l \o f) = ToSet(l) \cup (T \ S)
         /\ Apart(l, f, << >>, o)
         /\ Apart(l, << >>, d, o \o f) /\ ToSet(o \o f) = ToSet(o) \cup (T \ S)
<1>1. l \in Seq(T) /\ o \in Seq(T)
  BY SeqMonotonic
<1>2. ToSet(l) \in SUBSET S /\ ToSet(i) \in SUBSET S /\ ToSet(d) \in SUBSET S /\ ToSet(o) \in SUBSET S
  BY ToSetIs
<1>3. /\ ToSet(l \o f) = ToSet(l) \cup ToSet(f)
      /\ IsInjective(l \o f) <=> IsInjective(l) /\ IsInjective(f) /\ ToSet(l) \cap ToSet(f) = {}
  BY <1>1, Concatenated
<1>4. /\ ToSet(o \o f) = ToSet(o) \cup ToSet(f)
      /\ IsInjective(o \o f) <=> IsInjective(o) /\ IsInjective(f) /\ ToSet(o) \cap ToSet(f) = {}
  BY <1>1, Concatenated
<1> QED
  BY <1>2, <1>3, <1>4, ToSetEmpty DEF Apart

\* The head of the running model's list moves to its outputs, or is lost.
LEMMA ApartTaken ==
  ASSUME NEW S, NEW l \in Seq(S), NEW i \in Seq(S), NEW d \in Seq(S), NEW o \in Seq(S),
         Apart(l, i, d, o), i # << >>
  PROVE  /\ Apart(l, Tail(i), Append(d, Head(i)), o)
         /\ ToSet(Append(d, Head(i))) = ToSet(d) \cup {Head(i)}
         /\ Apart(l, Tail(i), d, o)
         /\ ToSet(i) = {Head(i)} \cup ToSet(Tail(i)) /\ Head(i) \notin ToSet(Tail(i))
         /\ Head(i) \notin ToSet(l) \cup ToSet(d) \cup ToSet(o)
<1>1. /\ Head(i) \in S /\ ToSet(i) = {Head(i)} \cup ToSet(Tail(i))
      /\ IsInjective(i) <=> Head(i) \notin ToSet(Tail(i)) /\ IsInjective(Tail(i))
  BY HeadAndTail
<1>2. /\ ToSet(Append(d, Head(i))) = ToSet(d) \cup {Head(i)}
      /\ IsInjective(Append(d, Head(i))) <=> IsInjective(d) /\ Head(i) \notin ToSet(d)
  BY <1>1, Appended
<1> QED
  BY <1>1, <1>2 DEF Apart

\* What the running model has put together becomes part of the decision input.
LEMMA ApartReturned ==
  ASSUME NEW S, NEW l \in Seq(S), NEW i \in Seq(S), NEW d \in Seq(S), NEW o \in Seq(S),
         Apart(l, i, d, o)
  PROVE  /\ Apart(l, i, << >>, o \o d) /\ ToSet(o \o d) = ToSet(o) \cup ToSet(d)
         /\ Apart(l, i, d, << >>) /\ Apart(<< >>, i, d, o)
<1>1. /\ ToSet(o \o d) = ToSet(o) \cup ToSet(d)
      /\ IsInjective(o \o d) <=> IsInjective(o) /\ IsInjective(d) /\ ToSet(o) \cap ToSet(d) = {}
  BY Concatenated
<1> QED
  BY <1>1, ToSetEmpty DEF Apart

LEMMA Places ==
  ASSUME TypeOK
  PROVE  /\ Lists \in Seq(Ids) /\ input \in Seq(Ids) /\ PredictionsOf(dim) \in Seq(Ids)
         /\ Outputs \in Seq(Ids)
         /\ Separate <=> Apart(Lists, input, PredictionsOf(dim), Outputs)
         /\ Running = ToSet(input) \cup ToSet(PredictionsOf(dim))
         /\ Held = ToSet(Lists) \cup ToSet(input) \cup ToSet(PredictionsOf(dim)) \cup ToSet(Outputs)
<1>1. /\ Lists \in Seq(Ids) /\ PredictionsOf(dim) \in Seq(Ids) /\ Outputs \in Seq(Ids)
      /\ ToSet(PredictionsOf(dim)) = OwnedBy(dim)
  BY PointerParts
<1> QED
  BY <1>1, TypeParts DEF Separate, Apart, Running, Held
LEMMA PlacesNext ==
  ASSUME TypeOK'
  PROVE  /\ Separate' <=> Apart(Lists', input', PredictionsOf(dim'), Outputs')
         /\ Held' = ToSet(Lists') \cup ToSet(input') \cup ToSet(PredictionsOf(dim'))
                      \cup ToSet(Outputs')
<1>1. dim' \in Seq([name : Names, prediction : Ids'])
  BY DEF TypeOK, Metrics
<1>2. ToSet(PredictionsOf(dim')) = OwnedBy(dim')
  BY <1>1, PredictionsOfFacts
<1> QED
  BY <1>2 DEF Separate, Apart, Running, Held

LEMMA AccountedStep ==
  ASSUME TypeOK, Accounted, NEW ids \in SUBSET Held, Frees(ids),
         refused \subseteq refused', refused' \subseteq refused \cup (Held \ ids),
         Held' = ((Held \ ids) \ refused') \cup (Ids' \ Ids)
  PROVE  Accounted'
<1>1. refused \subseteq Ids /\ Held \subseteq Ids
  BY PointerParts DEF TypeOK, Held, Running
<1>2. ASSUME NEW i \in Ids
      PROVE  IF i \in refused' THEN results'[i].freed = 0 /\ i \notin Held'
             ELSE results'[i].freed = IF i \in Held' THEN 0 ELSE 1
  <2>1. results'[i].freed = IF i \in ids THEN 1 ELSE results[i].freed
    BY DEF Frees
  <2>2. IF i \in refused THEN results[i].freed = 0 /\ i \notin Held
        ELSE results[i].freed = IF i \in Held THEN 0 ELSE 1
    BY DEF Accounted
  <2> QED
    BY <2>1, <2>2
<1>3. ASSUME NEW i \in Ids' \ Ids
      PROVE  i \notin refused' /\ i \in Held' /\ results'[i].freed = 0
  BY <1>1 DEF Frees
<1> QED
  BY <1>2, <1>3 DEF Accounted

LEMMA ListsAppended ==
  ASSUME NEW J, last_prediction \in Seq(Seq(J)), NEW f \in Seq(J),
         last_prediction' = Append(last_prediction, f)
  PROVE  Lists' = Lists \o f
BY FlattenAppended DEF Lists

LEMMA OutputsAppended ==
  ASSUME TypeOK, NEW J, Ids \subseteq J, NEW outputs \in Seq(Output(J)), NEW m,
         di' = Append(di, [model |-> m, metrics |-> outputs])
  PROVE  Outputs' = Outputs \o PredictionsOf(outputs)
<1> DEFINE n == Len(di)
           filled == [model |-> m, metrics |-> outputs]
           ps == PredictionsOf(outputs)
<1>1. filled.metrics = outputs
  OBVIOUS
<1>2. ps \in Seq(J)
  BY PredictionsOfFacts DEF Output
<1>3. OutputLists \in Seq(Seq(Ids)) /\ Len(OutputLists) = n
  BY PointerParts
<1>4. OutputLists \in Seq(Seq(J))
  BY <1>3, Grown
<1> HIDE DEF filled
<1>5. /\ Len(di') = n + 1 /\ di'[n + 1] = filled
      /\ \A d \in 1..n : di'[d] = di[d]
      /\ n \in Nat
  <2>1. di \in Seq(Filled(Ids))
    BY TypeParts
  <2> QED
    BY <2>1, AppendProperties, LenProperties DEF filled
<1>6. OutputLists' = [d \in 1 .. n + 1 |-> PredictionsOf(di'[d].metrics)]
  BY <1>5 DEF OutputLists
<1>7. PredictionsOf(di'[n + 1].metrics) = ps
  BY <1>1, <1>5
<1>8. \A d \in 1..n : PredictionsOf(di'[d].metrics) = OutputLists[d]
  BY <1>5 DEF OutputLists
<1> HIDE DEF n, ps
<1>9. Append(OutputLists, ps) = [d \in 1 .. n + 1 |-> IF d = n + 1 THEN ps ELSE OutputLists[d]]
  BY <1>2, <1>3, <1>4, AppendIs
<1>10. OutputLists' = Append(OutputLists, ps)
  <2>1. \A d \in 1 .. n + 1 :
          PredictionsOf(di'[d].metrics) = IF d = n + 1 THEN ps ELSE OutputLists[d]
    BY <1>5, <1>7, <1>8
  <2> QED
    BY <1>6, <1>9, <2>1
<1> QED
  BY <1>2, <1>4, <1>10, FlattenAppended DEF Outputs, ps

LEMMA PutTogether ==
  ASSUME TypeOK, NEW name, NEW h \in Ids, dim' = Append(dim, Metric(name, h)), dim' \in Seq(Output(Ids))
  PROVE  PredictionsOf(dim') = Append(PredictionsOf(dim), h)
<1> DEFINE n == Len(dim)
           o == Metric(name, h)
           ps == PredictionsOf(dim)
<1>1. n \in Nat /\ ps = [i \in 1..n |-> dim[i].prediction] /\ ps \in Seq(Ids)
  BY TypeParts, LenProperties, PointerParts DEF PredictionsOf
<1>2. o.prediction = h
  BY DEF Metric
<1> HIDE DEF o
<1>3. Len(dim') = n + 1 /\ dim'[n + 1] = o /\ \A i \in 1..n : dim'[i] = dim[i]
  BY <1>1, TypeParts, AppendProperties DEF o
<1>4. PredictionsOf(dim') = [i \in 1 .. n + 1 |-> dim'[i].prediction]
  BY <1>3 DEF PredictionsOf
<1> HIDE DEF n, ps
<1>5. Len(ps) = n /\ \A i \in 1..n : ps[i] = dim'[i].prediction
  BY <1>1, <1>3
<1>6. Append(ps, h) = [i \in 1 .. n + 1 |-> IF i = n + 1 THEN h ELSE ps[i]]
  BY <1>1, <1>5
<1>7. \A i \in 1 .. n + 1 : dim'[i].prediction = IF i = n + 1 THEN h ELSE ps[i]
  BY <1>1, <1>2, <1>3, <1>5
<1> QED
  BY <1>4, <1>6, <1>7 DEF ps
LEMMA AccountedSame ==
  ASSUME TypeOK, Accounted, NEW ids \in SUBSET Held, Frees(ids), refused' = refused,
         Held' = (Held \ ids) \cup (Ids' \ Ids)
  PROVE  Accounted'
<1>1. Held \subseteq Ids
  BY PointerParts DEF Held, Running
<1>2. Held \cap refused = {}
  BY <1>1 DEF Accounted
<1>3. Held' = ((Held \ ids) \ refused') \cup (Ids' \ Ids)
  BY <1>2
<1>4. refused \subseteq refused' /\ refused' \subseteq refused \cup (Held \ ids)
  OBVIOUS
<1> QED
  BY <1>3, <1>4, AccountedStep

LEMMA ExecutePredictionOwners ==
  ASSUME TypeOK, TypeOK', Separate, Accounted, ExecutePrediction
  PROVE  Separate' /\ Accounted'
<1>1. PICK names \in Seq(Names) :
        /\ results' = results \o New(names)
        /\ last_prediction' = Append(last_prediction, Fresh(names))
  BY ExecutePredictionDoes
<1> DEFINE f == Fresh(names)
<1>2. Frees({}) /\ NewOnly(f)
  BY <1>1, AllocationFrees
<1>3. Ids \subseteq Ids' /\ last_prediction \in Seq(Seq(Ids'))
  BY <1>2, TypesCarried DEF Frees
<1> HIDE DEF f
<1>4. Lists' = Lists \o f
  BY <1>1, <1>2, <1>3, ListsAppended DEF NewOnly, f
<1>5. UNCHANGED <<input, dim, di, refused>>
  BY DEF ExecutePrediction
<1>6. Outputs' = Outputs
  BY <1>5 DEF Outputs, OutputLists
<1>7. /\ Apart(Lists', input, PredictionsOf(dim), Outputs)
      /\ ToSet(Lists') = ToSet(Lists) \cup (Ids' \ Ids)
  <2> DEFINE ps == PredictionsOf(dim)
  <2>0. /\ Lists \in Seq(Ids) /\ input \in Seq(Ids) /\ ps \in Seq(Ids) /\ Outputs \in Seq(Ids)
        /\ Apart(Lists, input, ps, Outputs)
        /\ f \in Seq(Ids') /\ IsInjective(f) /\ ToSet(f) = Ids' \ Ids
    BY <1>2, Places DEF NewOnly
  <2> HIDE DEF ps
  <2>1. /\ Apart(Lists \o f, input, ps, Outputs)
        /\ ToSet(Lists \o f) = ToSet(Lists) \cup (Ids' \ Ids)
    <3> DEFINE S == Ids
               T == Ids'
    <3>1. /\ Lists \in Seq(S) /\ input \in Seq(S) /\ ps \in Seq(S) /\ Outputs \in Seq(S)
          /\ Apart(Lists, input, ps, Outputs)
      BY <2>0
    <3>2. f \in Seq(T) /\ IsInjective(f) /\ ToSet(f) = T \ S /\ S \subseteq T
      BY <1>3, <2>0
    <3> HIDE DEF S, T
    <3>3. /\ Apart(Lists \o f, input, ps, Outputs)
          /\ ToSet(Lists \o f) = ToSet(Lists) \cup (T \ S)
      BY <3>1, <3>2, ApartGrown
    <3> QED
      BY <3>3 DEF S, T
  <2> QED
    BY <1>4, <2>1 DEF ps
<1>8. Separate' /\ Held' = Held \cup (Ids' \ Ids)
  BY <1>5, <1>6, <1>7, Places, PlacesNext
<1> QED
  BY <1>2, <1>5, <1>8, AccountedSame

LEMMA StartModelOwners ==
  ASSUME TypeOK, TypeOK', Phases, Separate, Accounted, StartModel
  PROVE  Separate' /\ Accounted'
<1>1. PICK names \in Seq(Names) : results' = results \o New(names) /\ input' = Fresh(names)
  BY StartModelDoes
<1> DEFINE f == Fresh(names)
<1>2. Frees({}) /\ NewOnly(f)
  BY <1>1, AllocationFrees
<1>3. Ids \subseteq Ids'
  BY <1>2 DEF Frees
<1>4. input' = f
  BY <1>1
<1> HIDE DEF f
<1>5. UNCHANGED <<last_prediction, di, refused>> /\ input = << >> /\ dim = << >> /\ dim' = << >>
  BY DEF StartModel, Phases
<1>6. Outputs' = Outputs /\ Lists' = Lists
  BY <1>5 DEF Outputs, OutputLists, Lists
<1>7. PredictionsOf(<< >>) = << >>
  BY DEF PredictionsOf
<1>8. Apart(Lists, f, << >>, Outputs) /\ ToSet(f) = Ids' \ Ids
  BY <1>2, <1>3, Places, ApartGrown DEF NewOnly
<1>9. Separate' /\ Held' = Held \cup (Ids' \ Ids)
  BY <1>4, <1>5, <1>6, <1>7, <1>8, Places, PlacesNext, ToSetEmpty
<1> QED
  BY <1>2, <1>5, <1>9, AccountedSame

LEMMA TakeHeadOwners ==
  ASSUME TypeOK, TypeOK', Separate, Accounted, TakeHead
  PROVE  Separate' /\ Accounted'
<1> DEFINE h == Head(input)
           ps == PredictionsOf(dim)
<1>1. /\ UNCHANGED <<results, last_prediction, di>> /\ input # << >> /\ input' = Tail(input)
      /\ \/ refused' = refused \cup {h} /\ dim' = dim
         \/ refused' = refused /\ dim' = Append(dim, Metric(results[h].name, h))
  BY DEF TakeHead
<1>2. Frees({}) /\ Ids' = Ids
  BY <1>1, FreesNone
<1>3. h \in Ids
  BY <1>1, TypeParts, HeadAndTail
<1>4. Outputs' = Outputs /\ Lists' = Lists
  BY <1>1 DEF Outputs, OutputLists, Lists
<1>5. /\ Apart(Lists, Tail(input), Append(ps, h), Outputs)
      /\ ToSet(Append(ps, h)) = ToSet(ps) \cup {h}
      /\ Apart(Lists, Tail(input), ps, Outputs)
      /\ ToSet(input) = {h} \cup ToSet(Tail(input)) /\ h \notin ToSet(Tail(input))
      /\ h \notin ToSet(Lists) \cup ToSet(ps) \cup ToSet(Outputs)
  BY <1>1, Places, ApartTaken
<1> HIDE DEF h
<1>6. CASE refused' = refused \cup {h} /\ dim' = dim
  <2>1. Separate' /\ Held' = Held \ {h} /\ h \in Held
    BY <1>1, <1>4, <1>5, <1>6, Places, PlacesNext
  <2>2. Held \cap refused = {}
    BY PointerParts DEF Accounted, Held, Running
  <2>3. /\ Held' = ((Held \ {}) \ refused') \cup (Ids' \ Ids)
        /\ refused \subseteq refused' /\ refused' \subseteq refused \cup (Held \ {})
    BY <1>2, <1>6, <2>1, <2>2
  <2> QED
    BY <1>2, <2>1, <2>3, AccountedStep
<1>7. CASE refused' = refused /\ dim' = Append(dim, Metric(results[h].name, h))
  <2>1. dim' \in Seq(Output(Ids))
    BY <1>2 DEF TypeOK, Metrics, Output
  <2>2. PredictionsOf(dim') = Append(ps, h)
    BY <1>3, <1>7, <2>1, PutTogether
  <2> HIDE DEF ps
  <2>3. Separate' /\ Held' = Held
    BY <1>1, <1>4, <1>5, <2>2, Places, PlacesNext DEF ps
  <2> QED
    BY <1>2, <1>7, <2>3, AccountedSame
<1> QED
  BY <1>1, <1>6, <1>7

LEMMA DummyReturnsOwners ==
  ASSUME TypeOK, TypeOK', Separate, Accounted, DummyReturns
  PROVE  Separate' /\ Accounted'
<1>1. /\ UNCHANGED <<results, last_prediction, input, refused>> /\ dim' = << >>
      /\ di' = Append(di, [model |-> model, metrics |-> dim])
  BY DEF DummyReturns
<1>2. Frees({}) /\ Ids' = Ids
  BY <1>1, FreesNone
<1>3. Outputs' = Outputs \o PredictionsOf(dim)
  BY <1>1, TypeParts, OutputsAppended
<1>4. Lists' = Lists
  BY <1>1 DEF Lists
<1>5. PredictionsOf(<< >>) = << >>
  BY DEF PredictionsOf
<1>6. /\ Apart(Lists, input, << >>, Outputs \o PredictionsOf(dim))
      /\ ToSet(Outputs \o PredictionsOf(dim)) = ToSet(Outputs) \cup ToSet(PredictionsOf(dim))
  BY Places, ApartReturned
<1>7. Separate' /\ Held' = Held
  BY <1>1, <1>3, <1>4, <1>5, <1>6, Places, PlacesNext, ToSetEmpty
<1> QED
  BY <1>1, <1>2, <1>7, AccountedSame

LEMMA FindResultsOwners ==
  ASSUME TypeOK, TypeOK', Phases, Separate, Accounted, FindResults
  PROVE  Separate' /\ Accounted'
<1>1. Frees(ToSet(input)) /\ Ids \subseteq Ids' /\ ToSet(input) \in SUBSET Held
  BY FindResultsEffects DEF Frees, Held, Running
<1>2. UNCHANGED <<last_prediction, dim, refused>> /\ input' = << >>
  BY DEF FindResults
<1>3. Lists' = Lists
  BY <1>2 DEF Lists
<1>4. CASE FindingNone
  <2>1. Outputs' = Outputs /\ Ids' = Ids
    BY <1>4 DEF Outputs, OutputLists, FindingNone
  <2>2. Apart(Lists, << >>, PredictionsOf(dim), Outputs)
    BY Places, ToSetEmpty DEF Apart
  <2>3. Separate'
    BY <1>2, <1>3, <2>1, <2>2, PlacesNext
  <2>4. Held' = (Held \ ToSet(input)) \cup (Ids' \ Ids)
    BY <1>2, <1>3, <2>1, Places, PlacesNext, ToSetEmpty DEF Apart
  <2> QED
    BY <1>1, <1>2, <2>3, <2>4, AccountedSame
<1>5. ASSUME NEW f, NEW outputs, Finding(f, outputs)
      PROVE  Separate' /\ Accounted'
  <2>1. NewOnly(f) /\ Outputs' = Outputs \o f
    BY <1>1, <1>5, OutputsAppended DEF Finding
  <2>2. /\ Apart(Lists, << >>, PredictionsOf(dim), Outputs')
        /\ ToSet(Outputs') = ToSet(Outputs) \cup (Ids' \ Ids)
    BY <1>1, <2>1, Places, ApartGrown DEF NewOnly
  <2>3. Separate'
    BY <1>2, <1>3, <2>2, PlacesNext
  <2>4. Held' = (Held \ ToSet(input)) \cup (Ids' \ Ids)
    BY <1>2, <1>3, <2>2, Places, PlacesNext, ToSetEmpty DEF Apart
  <2> QED
    BY <1>1, <1>2, <2>3, <2>4, AccountedSame
<1> QED
  BY <1>4, <1>5, FindResultsEffects
LEMMA InputDeletedOwners ==
  ASSUME TypeOK, TypeOK', Separate, Accounted, decision_input_delete
  PROVE  Separate' /\ Accounted'
<1>1. /\ UNCHANGED <<last_prediction, input, dim, refused>> /\ di' = << >>
      /\ results' = Deleted(ToSet(Outputs))
  BY PointerParts DEF decision_input_delete
<1>2. ToSet(Outputs) \in SUBSET Held
  BY DEF Held
<1>3. Frees(ToSet(Outputs)) /\ Ids' = Ids
  BY <1>1, <1>2, DeletedFrees
<1>4. Lists' = Lists
  BY <1>1 DEF Lists
<1>5. OutputLists' = << >>
  BY <1>1 DEF OutputLists
<1>6. Outputs' = << >>
  BY <1>5, FlattenEmpty DEF Outputs
<1>7. Apart(Lists, input, PredictionsOf(dim), << >>)
  BY Places, ToSetEmpty DEF Apart
<1>8. Separate'
  BY <1>1, <1>4, <1>6, <1>7, PlacesNext
<1>9. Held' = (Held \ ToSet(Outputs)) \cup (Ids' \ Ids)
  BY <1>1, <1>3, <1>4, <1>6, Places, PlacesNext, ToSetEmpty DEF Apart
<1> QED
  BY <1>1, <1>2, <1>3, <1>8, <1>9, AccountedSame

LEMMA ListsDeletedOwners ==
  ASSUME TypeOK, TypeOK', Separate, Accounted, prediction_list_delete
  PROVE  Separate' /\ Accounted'
<1>1. /\ UNCHANGED <<di, input, dim, refused>> /\ last_prediction' = << >>
      /\ results' = Deleted(ToSet(Lists))
  BY DEF prediction_list_delete, Lists
<1>2. ToSet(Lists) \in SUBSET Held
  BY DEF Held
<1>3. Frees(ToSet(Lists)) /\ Ids' = Ids
  BY <1>1, <1>2, DeletedFrees
<1>4. Outputs' = Outputs
  BY <1>1 DEF Outputs, OutputLists
<1>5. Lists' = << >>
  BY <1>1, FlattenEmpty DEF Lists
<1>6. Apart(<< >>, input, PredictionsOf(dim), Outputs)
  BY Places, ToSetEmpty DEF Apart
<1>7. Separate'
  BY <1>1, <1>4, <1>5, <1>6, PlacesNext
<1>8. Held' = (Held \ ToSet(Lists)) \cup (Ids' \ Ids)
  BY <1>1, <1>3, <1>4, <1>5, Places, PlacesNext, ToSetEmpty DEF Apart
<1> QED
  BY <1>1, <1>2, <1>3, <1>7, <1>8, AccountedSame

LEMMA OwnersStep ==
  ASSUME TypeOK, TypeOK', Phases, Separate, Accounted, [Next]_vars
  PROVE  Separate' /\ Accounted'
<1>1. CASE UNCHANGED <<results, last_prediction, input, dim, refused, di>>
  <2>1. Lists' = Lists /\ Outputs' = Outputs /\ Ids' = Ids
    BY <1>1 DEF Lists, Outputs, OutputLists, Ids
  <2>2. Running' = Running /\ Held' = Held
    BY <1>1, <2>1 DEF Running, Held
  <2> QED
    BY <1>1, <2>1, <2>2 DEF Separate, Accounted
<1>2. CASE EndTick
  <2>1. UNCHANGED <<last_prediction, input, dim, di>> /\ results' = << >>
    BY <1>2 DEF EndTick
  <2>2. Lists' = Lists /\ Outputs' = Outputs /\ Ids' = {}
    BY <2>1 DEF Lists, Outputs, OutputLists, Ids
  <2> QED
    BY <2>1, <2>2 DEF Separate, Accounted
<1> QED
  BY <1>1, <1>2, ExecutePredictionOwners, StartModelOwners, TakeHeadOwners, DummyReturnsOwners,
     FindResultsOwners, InputDeletedOwners, ListsDeletedOwners
  DEF Next, vars, prediction_attach_metric, prediction_delete, scoring_metric_create,
      scoring_metric_delete, scoring_output_csv, scoring_delete, tick, StartTick,
      PredictionsDone, scoring_exec, TakeDecision
(***************************************************************************)
(* The scores, the decision and the files.                                 *)
(***************************************************************************)
LEMMA ScoresStep ==
  ASSUME TypeOK, Scores, [Next]_vars
  PROVE  Scores'
<1>1. CASE scoring_exec
  <2>1. \A d \in 1..Len(di) : score'[d].weights = 0 => score'[d].sum = 0
    BY <1>1, Scoring
  <2>2. di' = di
    BY <1>1 DEF scoring_exec
  <2> QED
    BY <2>1, <2>2 DEF Scores
<1>2. CASE TakeDecision
  BY <1>2 DEF TakeDecision, Scores
<1>3. CASE UNCHANGED tick
  BY <1>3 DEF tick, Scores
<1>4. pc' \notin {"decide", "report"} \/ scoring_exec \/ TakeDecision \/ UNCHANGED tick
  BY DEF Next, vars, prediction_attach_metric, prediction_delete, scoring_metric_create,
         scoring_metric_delete, scoring_output_csv, scoring_delete, tick, StartTick,
         ExecutePrediction, PredictionsDone, StartModel, TakeHead, DummyReturns, FindResults,
         decision_input_delete, prediction_list_delete, EndTick
<1> QED
  BY <1>1, <1>2, <1>3, <1>4 DEF Scores

LEMMA FilesAre ==
  ASSUME ConfigOK
  PROVE  Files <=> (csv.global => \A sm \in ToSet(registered) : sm.file \/ sm.name \in late)
<1>1. ToSet(registered) = {registered[i] : i \in 1..Len(registered)}
  BY RegisteredIs DEF ConfigOK
<1> QED
  BY <1>1 DEF Files

LEMMA FilesNext ==
  ASSUME ConfigOK'
  PROVE  Files' <=> (csv'.global => \A sm \in ToSet(registered') : sm.file \/ sm.name \in late')
<1>1. ToSet(registered') = {registered'[i] : i \in 1..Len(registered')}
  BY RegisteredIs DEF ConfigOK
<1> QED
  BY <1>1 DEF Files

LEMMA FilesStep ==
  ASSUME ConfigOK, ConfigOK', Files, [Next]_vars
  PROVE  Files'
<1>1. CASE scoring_metric_create
  <2>1. PICK n \in DOMAIN Weight \ Registered :
          /\ registered' = <<[name |-> n, file |-> FALSE]>> \o registered
          /\ late' = IF csv.global THEN late \cup {n} ELSE late
    BY <1>1 DEF scoring_metric_create
  <2> DEFINE sm == [name |-> n, file |-> FALSE]
  <2>2. ToSet(registered') = ToSet(registered) \cup {sm} /\ sm.name = n
    BY <2>1, CreateRegisters
  <2>3. csv' = csv
    BY <1>1 DEF scoring_metric_create
  <2> HIDE DEF sm
  <2> QED
    BY <2>1, <2>2, <2>3, FilesAre, FilesNext
<1>2. CASE scoring_metric_delete
  <2>1. PICK n \in Registered :
          /\ registered' = Kept(registered, {sm \in ToSet(registered) : sm.name # n})
          /\ late' = late \ {n}
    BY <1>2 DEF scoring_metric_delete
  <2>2. ToSet(registered') = {sm \in ToSet(registered) : sm.name # n}
    BY <2>1, DeleteRegisters
  <2>3. csv' = csv
    BY <1>2 DEF scoring_metric_delete
  <2> QED
    BY <2>1, <2>2, <2>3, FilesAre, FilesNext
<1>3. CASE scoring_output_csv
  BY <1>3 DEF scoring_output_csv, Files, ConfigOK
<1>4. CASE scoring_delete
  BY <1>4 DEF scoring_delete, NoScoring, Files
<1>5. CASE scoring_exec
  <2>1. /\ Len(registered') = Len(registered)
        /\ \A i \in 1..Len(registered) :
             /\ registered'[i].name = registered[i].name
             /\ registered'[i].file = (registered[i].file \/ (csv.format /\ ~csv.global))
    BY <1>5, HeaderWritten DEF scoring_exec
  <2>2. late' = late /\ csv'.global = (csv.global \/ csv.format)
    BY <1>5 DEF scoring_exec, ConfigOK
  <2> QED
    BY <2>1, <2>2 DEF Files
<1>6. CASE UNCHANGED scoring
  BY <1>6 DEF scoring, Files
<1> QED
  BY <1>1, <1>2, <1>3, <1>4, <1>5, <1>6
  DEF Next, vars, prediction_attach_metric, prediction_delete, StartTick, ExecutePrediction,
      PredictionsDone, StartModel, TakeHead, DummyReturns, FindResults, TakeDecision,
      decision_input_delete, prediction_list_delete, EndTick, scoring

LEMMA BestSelectedStep ==
  ASSUME TypeOK, Phases, Scores, BestSelected, [Next]_vars
  PROVE  BestSelected'
<1>1. CASE TakeDecision
  <2> DEFINE best == decision_simple_calc
             n == Len(di)
  <2>1. pc = "decide" /\ dim_sel' = best /\ UNCHANGED <<di, score>>
    BY <1>1 DEF TakeDecision, Selected
  <2>2. n \in Nat /\ Len(score) = n /\ score \in Seq([sum : Nat, weights : Nat])
    BY <2>1, LenProperties DEF TypeOK, Phases
  <2>3. Means(n)
    <3>1. \A d \in 1 .. n : score[d].weights = 0 => score[d].sum = 0
      BY <2>1 DEF Scores
    <3>2. \A d \in 1 .. n : score[d] \in [sum : Nat, weights : Nat]
      BY <2>2, ElementOfSeq
    <3>3. \A d \in 1 .. n : score[d].sum \in Nat /\ score[d].weights \in Nat
      BY <3>2
    <3> QED
      BY <3>1, <3>3 DEF Means
  <2>4. Best(n, best)
    BY <2>2, <2>3, DecisionIsBest
  <2> HIDE DEF best
  <2> QED
    BY <2>1, <2>4 DEF BestSelected, Best
<1>2. CASE UNCHANGED tick
  BY <1>2 DEF tick, BestSelected
<1>3. pc' # "report" \/ TakeDecision \/ UNCHANGED tick
  BY DEF Next, vars, prediction_attach_metric, prediction_delete, scoring_metric_create,
         scoring_metric_delete, scoring_output_csv, scoring_delete, tick, StartTick,
         ExecutePrediction, PredictionsDone, StartModel, TakeHead, DummyReturns, FindResults,
         scoring_exec, decision_input_delete, prediction_list_delete, EndTick
<1> QED
  BY <1>1, <1>2, <1>3 DEF BestSelected

LEMMA CsvCrashStep ==
  ASSUME ConfigOK, Files, CsvCrashExplained, [Next]_vars
  PROVE  CsvCrashExplained'
<1>1. CASE scoring_exec
  <2>1. /\ Registered' = Registered
        /\ \A i \in 1..Len(registered) :
             registered'[i].file = (registered[i].file \/ (csv.format /\ ~csv.global))
    BY <1>1, HeaderWritten DEF scoring_exec
  <2>2. late' = late /\ di' = di /\ (pc' = "crashed" => csv_write_metric_Fails)
    BY <1>1 DEF scoring_exec
  <2>3. \A d : Scored(di[d].metrics)' = Scored(di[d].metrics)
    BY <2>1, <2>2 DEF Scored
  <2>4. ASSUME NEW i \in 1..Len(registered), ~registered'[i].file, csv.format
        PROVE  late # {}
    BY <2>1, <2>4 DEF Files
  <2>5. ASSUME NEW i \in 1..Len(registered), NEW d, ~Has(di[d].metrics, registered[i].name)
        PROVE  Scored(di[d].metrics) # Registered
    BY <2>5 DEF Scored, Registered
  <2> QED
    BY <2>1, <2>2, <2>3, <2>4, <2>5 DEF CsvCrashExplained, csv_write_metric_Fails
<1>2. CASE UNCHANGED vars
  BY <1>2 DEF vars, CsvCrashExplained, Scored, Registered
<1>3. pc' # "crashed" \/ scoring_exec \/ UNCHANGED vars
  BY DEF Next, vars, prediction_attach_metric, prediction_delete, scoring_metric_create,
         scoring_metric_delete, scoring_output_csv, scoring_delete, tick, StartTick,
         ExecutePrediction, PredictionsDone, StartModel, TakeHead, DummyReturns, FindResults,
         TakeDecision, decision_input_delete, prediction_list_delete, EndTick
<1> QED
  BY <1>1, <1>2, <1>3 DEF CsvCrashExplained
(***************************************************************************)
(* The names of the results.                                               *)
(***************************************************************************)
\* Distinct, in the next state.
DistinctNext(ids) ==
  \A i, j \in ids : results'[i].name = results'[j].name => i = j

LEMMA NamesKept ==
  ASSUME NEW ids, Frees(ids), NEW s \in SUBSET Ids
  PROVE  /\ {results'[i].name : i \in s} = NamesIn(s)
         /\ Distinct(s) <=> DistinctNext(s)
<1>1. \A i \in s : results'[i].name = results[i].name
  BY DEF Frees
<1> QED
  BY <1>1 DEF NamesIn, Distinct, DistinctNext

LEMMA AllocationNames ==
  ASSUME TypeOK, NEW names \in Seq(Names), results' = results \o New(names)
  PROVE  /\ {results'[i].name : i \in ToSet(Fresh(names))} = ToSet(names)
         /\ IsInjective(names) => DistinctNext(ToSet(Fresh(names)))
<1> DEFINE f == Fresh(names)
<1>1. results \in Seq(Result)
  BY TypeParts
<1>2. /\ f \in Seq(Ids') /\ Len(f) = Len(names)
      /\ \A i \in 1..Len(names) : results'[f[i]].name = names[i]
  BY <1>1, Allocation
<1> HIDE DEF f
<1>3. ToSet(f) = {f[i] : i \in 1..Len(names)} /\ ToSet(names) = {names[i] : i \in 1..Len(names)}
  BY <1>2 DEF ToSet
<1>4. {results'[i].name : i \in ToSet(f)} = ToSet(names)
  <2> DEFINE I == 1..Len(names)
  <2>1. ToSet(f) = {f[i] : i \in I} /\ ToSet(names) = {names[i] : i \in I}
    BY <1>3
  <2>2. \A i \in I : results'[f[i]].name = names[i]
    BY <1>2
  <2> DEFINE N(i) == results'[i].name
  <2>3. \A i \in I : N(f[i]) = names[i]
    BY <2>2
  <2> HIDE DEF I, N
  <2>4. {N(x) : x \in ToSet(f)} = {N(f[i]) : i \in I}
    BY <2>1
  <2>5. {N(f[i]) : i \in I} = {names[i] : i \in I}
    BY <2>3
  <2> QED
    BY <2>1, <2>4, <2>5 DEF N
<1>5. ASSUME IsInjective(names), NEW x \in ToSet(f), NEW y \in ToSet(f),
             results'[x].name = results'[y].name
      PROVE  x = y
  <2>1. PICK i \in 1..Len(names) : f[i] = x
    BY <1>3
  <2>2. PICK j \in 1..Len(names) : f[j] = y
    BY <1>3
  <2>3. names[i] = names[j]
    BY <1>2, <1>5, <2>1, <2>2
  <2>4. i = j
    BY <1>5, <2>3, LenProperties DEF IsInjective
  <2> QED
    BY <2>1, <2>2, <2>4
<1> QED
  BY <1>4, <1>5 DEF DistinctNext, f

LEMMA NamesOfDistinct ==
  ASSUME TypeOK, NEW ids \in Seq(Ids), IsInjective(ids), Distinct(ToSet(ids))
  PROVE  IsInjective(NamesOf(ids))
<1> DEFINE names == NamesOf(ids)
<1>1. /\ names \in Seq(Names) /\ Len(names) = Len(ids)
      /\ \A i \in 1..Len(ids) : names[i] = results[ids[i]].name
  BY TypeParts, NamesOfFacts
<1> HIDE DEF names
<1>2. DOMAIN names = 1..Len(ids) /\ DOMAIN ids = 1..Len(ids)
  BY <1>1, LenProperties
<1>3. ASSUME NEW i \in 1..Len(ids), NEW j \in 1..Len(ids), names[i] = names[j] PROVE i = j
  <2>1. ids[i] \in ToSet(ids) /\ ids[j] \in ToSet(ids)
    BY ToSetIs
  <2>2. ids[i] = ids[j]
    BY <1>1, <1>3, <2>1 DEF Distinct
  <2> QED
    BY <1>2, <2>2 DEF IsInjective
<1> QED
  BY <1>2, <1>3 DEF IsInjective, names

LEMMA SharedSame ==
  ASSUME UNCHANGED <<metrics, predictions>>
  PROVE  (NothingShared' <=> NothingShared) /\ \A p : Produces(p)' = Produces(p)
BY DEF NothingShared, Produces

\* An action that leaves the lists and the names as they are.
LEMMA NamedKept ==
  ASSUME TypeOK, ListsNamed, NEW ids, Frees(ids),
         UNCHANGED <<metrics, predictions, last_prediction, refused>>
  PROVE  ListsNamed'
<1>1. Lists' = Lists /\ ToSet(Lists) \in SUBSET Ids
  BY PointerParts DEF Lists
<1>2. \A i \in ToSet(Lists) : results'[i].name = results[i].name
  BY <1>1 DEF Frees
<1>3. \A p : Produces(p)' = Produces(p)
  BY SharedSame
<1>4. \A i \in ToSet(Lists)' : \E k \in 1..Len(last_prediction') :
        results'[i].name \in ToSet(Produces(predictions[k]))'
  BY <1>1, <1>2, <1>3 DEF ListsNamed
<1>5. NothingShared' => refused' = {} /\ DistinctNext(ToSet(Lists))
  BY <1>1, SharedSame, NamesKept DEF ListsNamed
<1> QED
  BY <1>1, <1>4, <1>5 DEF ListsNamed, Distinct, DistinctNext

LEMMA NamedEmpty ==
  ASSUME last_prediction' = << >>, NothingShared' => refused' = {}, pc' # "exec"
  PROVE  Named'
<1>1. ToSet(Lists') = {}
  BY FlattenEmpty, ToSetEmpty DEF Lists
<1> QED
  BY <1>1 DEF Named, ListsNamed, Distinct

LEMMA ExecutePredictionNames ==
  ASSUME TypeOK, Phases, AttachedOnce, Named, ExecutePrediction
  PROVE  Named'
<1> DEFINE k == Len(last_prediction) + 1
<1>1. PICK names \in Seq(Names) :
        /\ results' = results \o New(names)
        /\ last_prediction' = Append(last_prediction, Fresh(names))
        /\ k \in 1..Len(predictions)
        /\ ToSet(names) \subseteq ToSet(Produces(predictions[k]))
        /\ AttachedOnce => IsInjective(names)
  BY ExecutePredictionDoes
<1> DEFINE f == Fresh(names)
<1>2. Frees({}) /\ NewOnly(f)
  BY <1>1, AllocationFrees
<1>3. {results'[i].name : i \in ToSet(f)} = ToSet(names) /\ DistinctNext(ToSet(f))
  BY <1>1, AllocationNames
<1>4. Ids \subseteq Ids' /\ last_prediction \in Seq(Seq(Ids'))
  BY <1>2, TypesCarried DEF Frees
<1> HIDE DEF f
<1>5. Lists' = Lists \o f /\ Len(last_prediction') = k /\ Len(last_prediction) \in Nat
  BY <1>1, <1>2, <1>4, ListsAppended, AppendProperties, LenProperties DEF NewOnly, f
<1>6. ToSet(Lists') = ToSet(Lists) \cup ToSet(f)
  <2>1. Lists \in Seq(Ids')
    BY <1>4, PointerParts, SeqMonotonic
  <2> QED
    BY <1>2, <1>5, <2>1, Concatenated DEF NewOnly
<1>7. UNCHANGED <<metrics, predictions, refused>> /\ pc' = "predict" /\ refused = {}
  BY DEF ExecutePrediction, config, Phases
<1>8. \A p : Produces(p)' = Produces(p)
  BY <1>7, SharedSame
<1>9. \A i \in ToSet(Lists) : results'[i].name = results[i].name
  BY <1>2, PointerParts DEF Frees
<1>10. ASSUME NEW i \in ToSet(Lists)
       PROVE  \E e \in 1 .. k - 1 : results'[i].name \in ToSet(Produces(predictions[e]))
  BY <1>5, <1>9 DEF Named, ListsNamed
<1>11. ASSUME NEW i \in ToSet(f) PROVE results'[i].name \in ToSet(Produces(predictions[k]))
  BY <1>1, <1>3
<1>12. \A i \in ToSet(Lists') : \E e \in 1..k : results'[i].name \in ToSet(Produces(predictions[e]))
  <2>1. 1 .. k - 1 \subseteq 1..k /\ k \in 1..k
    BY <1>5
  <2> HIDE DEF k
  <2>2. ASSUME NEW i \in ToSet(Lists)
        PROVE  \E e \in 1..k : results'[i].name \in ToSet(Produces(predictions[e]))
    BY <1>10, <2>1
  <2>3. ASSUME NEW i \in ToSet(f)
        PROVE  \E e \in 1..k : results'[i].name \in ToSet(Produces(predictions[e]))
    BY <1>11, <2>1
  <2> QED
    BY <1>6, <2>2, <2>3
<1>13. ASSUME NothingShared PROVE DistinctNext(ToSet(Lists'))
  <2>1. DistinctNext(ToSet(Lists))
    BY <1>2, <1>13, PointerParts, NamesKept DEF Named, ListsNamed
  <2>2. ASSUME NEW i \in ToSet(Lists), NEW j \in ToSet(f) PROVE results'[i].name # results'[j].name
    <3>1. PICK e \in 1 .. k - 1 : results'[i].name \in ToSet(Produces(predictions[e]))
      BY <1>10
    <3>2. ToSet(Produces(predictions[e])) \cap ToSet(Produces(predictions[k])) = {}
      <4>1. e \in 1..Len(predictions) /\ k \in 1..Len(predictions) /\ e # k
        BY <1>1, <1>5
      <4> QED
        BY <1>13, <4>1 DEF NothingShared
    <3> QED
      BY <1>11, <3>1, <3>2
  <2> QED
    BY <1>3, <1>6, <2>1, <2>2 DEF DistinctNext
<1> HIDE DEF k
<1>14. NothingShared' => refused' = {} /\ DistinctNext(ToSet(Lists'))
  BY <1>7, <1>13, SharedSame
<1>15. \A i \in ToSet(Lists)' : \E e \in 1..Len(last_prediction') :
         results'[i].name \in ToSet(Produces(predictions[e]))'
  BY <1>5, <1>7, <1>8, <1>12
<1> QED
  BY <1>7, <1>14, <1>15 DEF Named, ListsNamed, Distinct, DistinctNext
LEMMA StartModelNames ==
  ASSUME TypeOK, TypeOK', Phases, Separate, Named, StartModel
  PROVE  Named'
<1>1. PICK names \in Seq(Names) :
        /\ names = NamesOf(Lists)
        /\ results' = results \o New(names) /\ input' = Fresh(names)
  BY StartModelDoes
<1> DEFINE f == Fresh(names)
<1>2. Frees({})
  BY <1>1, AllocationFrees
<1>3. /\ {results'[i].name : i \in ToSet(f)} = ToSet(names)
      /\ IsInjective(names) => DistinctNext(ToSet(f))
  BY <1>1, AllocationNames
<1>4. input' = f
  BY <1>1
<1> HIDE DEF f
<1>5. /\ UNCHANGED <<metrics, predictions, last_prediction, refused>> /\ dim' = << >>
      /\ Lists' = Lists
  BY DEF StartModel, config, Lists
<1>6. ListsNamed'
  BY <1>2, <1>5, NamedKept DEF Named
<1>7. OwnedBy(dim') = {} /\ Len(dim') = 0
  BY <1>5 DEF OwnedBy
<1>8. Running' = ToSet(f)
  BY <1>4, <1>7 DEF Running
<1>9. ToSet(names) = NamesIn(ToSet(Lists))
  BY <1>1, TypeParts, PointerParts, NamesOfFacts
<1>10. {results'[i].name : i \in ToSet(Lists)} = NamesIn(ToSet(Lists))
  BY <1>2, PointerParts, NamesKept
<1>11. NamesIn(Running)' = NamesIn(ToSet(Lists))'
  <2>1. NamesIn(Running)' = {results'[i].name : i \in ToSet(f)}
    BY <1>8 DEF NamesIn
  <2>2. NamesIn(ToSet(Lists))' = {results'[i].name : i \in ToSet(Lists)}
    BY <1>5 DEF NamesIn
  <2> QED
    BY <1>3, <1>9, <1>10, <2>1, <2>2
<1>12. NothingShared' => DistinctNext(ToSet(f))
  <2>1. NothingShared => IsInjective(names)
    BY <1>1, PointerParts, NamesOfDistinct DEF Named, ListsNamed, Separate
  <2> QED
    BY <1>3, <1>5, <2>1, SharedSame
<1>13. RunningNamed'
  BY <1>7, <1>8, <1>11, <1>12 DEF RunningNamed, Distinct, DistinctNext
<1> QED
  BY <1>6, <1>13 DEF Named

LEMMA TakeHeadNames ==
  ASSUME TypeOK, TypeOK', Separate, Named, TakeHead
  PROVE  Named'
<1> DEFINE h == Head(input)
           name == results[h].name
           ps == PredictionsOf(dim)
<1>1. /\ UNCHANGED <<metrics, predictions, results, last_prediction>>
      /\ input # << >> /\ input' = Tail(input) /\ pc = "exec"
      /\ \/ refused' = refused \cup {h} /\ dim' = dim /\ Has(dim, name)
         \/ refused' = refused /\ dim' = Append(dim, Metric(name, h))
  BY DEF TakeHead, config
<1>2. Lists' = Lists /\ Ids' = Ids /\ \A s : NamesIn(s)' = {results[i].name : i \in s}
  BY <1>1 DEF Lists, Ids, NamesIn
<1>3. h \in Ids
  BY <1>1, TypeParts, HeadAndTail
<1>4. /\ ToSet(input) = {h} \cup ToSet(Tail(input)) /\ h \notin ToSet(ps)
      /\ ToSet(ps) = OwnedBy(dim)
  BY <1>1, Places, PointerParts, ApartTaken
<1>5. /\ ListsNamed /\ \A i \in 1..Len(dim) : dim[i].name = results[dim[i].prediction].name
      /\ NamesIn(Running) = NamesIn(ToSet(Lists)) /\ (NothingShared => Distinct(Running))
      /\ (NothingShared' <=> NothingShared)
  BY <1>1, SharedSame DEF Named, RunningNamed
<1> HIDE DEF h, ps
<1>6. CASE refused' = refused \cup {h} /\ dim' = dim /\ Has(dim, name)
  <2>1. PICK e \in 1..Len(dim) : dim[e].name = name
    BY <1>6 DEF Has
  <2> DEFINE p == dim[e].prediction
  <2>2. p \in OwnedBy(dim) /\ results[p].name = name
    BY <1>5, <2>1 DEF OwnedBy
  <2> HIDE DEF p
  <2>3. Running = {h} \cup Running' /\ p \in Running' /\ h # p
    BY <1>1, <1>4, <1>6, <2>2 DEF Running
  <2>4. ~NothingShared
    BY <1>5, <2>2, <2>3 DEF Distinct
  <2>5. NamesIn(Running)' = NamesIn(Running)
    BY <1>1, <2>2, <2>3 DEF NamesIn
  <2>6. NamesIn(ToSet(Lists))' = NamesIn(ToSet(Lists))
    BY <1>1, <1>2 DEF NamesIn
  <2>7. RunningNamed'
    BY <1>1, <1>5, <1>6, <2>4, <2>5, <2>6 DEF RunningNamed
  <2>8. \A q : Produces(q)' = Produces(q)
    BY <1>1, SharedSame
  <2>9. ListsNamed'
    BY <1>1, <1>2, <1>5, <2>4, <2>8 DEF ListsNamed
  <2> QED
    BY <2>7, <2>9 DEF Named
<1>7. CASE refused' = refused /\ dim' = Append(dim, Metric(name, h))
  <2>1. dim' \in Seq(Output(Ids))
    BY <1>2 DEF TypeOK, Metrics, Output
  <2>2. PredictionsOf(dim') = Append(ps, h)
    BY <1>3, <1>7, <2>1, PutTogether DEF ps
  <2>3. ToSet(Append(ps, h)) = ToSet(ps) \cup {h}
    BY <1>3, PointerParts, Appended DEF ps
  <2>4. OwnedBy(dim') = OwnedBy(dim) \cup {h}
    BY <1>4, <2>1, <2>2, <2>3, PredictionsOfFacts DEF Output
  <2>5. Running' = Running
    BY <1>1, <1>4, <2>4 DEF Running
  <2>6. NamesIn(Running)' = NamesIn(Running) /\ NamesIn(ToSet(Lists))' = NamesIn(ToSet(Lists))
    BY <1>1, <1>2, <2>5 DEF NamesIn
  <2>7. \A i \in 1..Len(dim') : dim'[i].name = results[dim'[i].prediction].name
    <3> DEFINE o == Metric(name, h)
    <3>1. o.name = results[o.prediction].name
      BY DEF Metric
    <3> HIDE DEF o
    <3>2. /\ Len(dim') = Len(dim) + 1 /\ Len(dim) \in Nat /\ dim'[Len(dim) + 1] = o
          /\ \A i \in 1..Len(dim) : dim'[i] = dim[i]
      BY <1>7, TypeParts, AppendProperties, LenProperties DEF o
    <3>3. \A i \in 1..Len(dim) : dim'[i].name = results[dim'[i].prediction].name
      BY <1>5, <3>2
    <3> QED
      BY <3>1, <3>2, <3>3
  <2>8. Distinct(Running)' <=> Distinct(Running)
    BY <1>1, <2>5 DEF Distinct
  <2>9. RunningNamed'
    BY <1>1, <1>5, <2>6, <2>7, <2>8 DEF RunningNamed
  <2>10. ListsNamed'
    BY <1>1, <1>5, <1>7, FreesNone, NamedKept
  <2> QED
    BY <2>9, <2>10 DEF Named
<1> QED
  BY <1>1, <1>6, <1>7

LEMMA NamedStep ==
  ASSUME TypeOK, TypeOK', Phases, AttachedOnce, Separate, Accounted, Named, [Next]_vars
  PROVE  Named'
<1>1. CASE Configures \/ StartTick \/ EndTick
  <2>1. pc \in {"idle", "ended"} /\ last_prediction' = last_prediction
    BY <1>1 DEF Configures, StartTick, EndTick, prediction_attach_metric, prediction_delete,
         scoring_metric_create, scoring_metric_delete, scoring_output_csv, scoring_delete, tick
  <2>2. refused' = {} /\ pc' # "exec"
    BY <1>1, <2>1 DEF Phases, Configures, StartTick, EndTick, prediction_attach_metric,
         prediction_delete, scoring_metric_create, scoring_metric_delete, scoring_output_csv,
         scoring_delete, tick
  <2> QED
    BY <2>1, <2>2, NamedEmpty DEF Phases
<1>2. CASE PredictionsDone \/ scoring_exec \/ TakeDecision
  <2>1. UNCHANGED <<metrics, predictions, results, last_prediction, refused>> /\ pc' # "exec"
    BY <1>2 DEF PredictionsDone, scoring_exec, TakeDecision, config
  <2> QED
    BY <2>1, FreesNone, NamedKept DEF Named
<1>3. CASE DummyReturns
  <2>1. UNCHANGED <<metrics, predictions, results, last_prediction, refused>> /\ pc' # "exec"
    BY <1>3 DEF DummyReturns, config
  <2> QED
    BY <2>1, FreesNone, NamedKept DEF Named
<1>4. CASE FindResults
  <2>1. UNCHANGED <<metrics, predictions, last_prediction, refused>> /\ pc' # "exec"
    BY <1>4 DEF FindResults, config
  <2> QED
    BY <1>4, <2>1, FindResultsEffects, NamedKept DEF Named
<1>5. CASE decision_input_delete
  <2>1. UNCHANGED <<metrics, predictions, last_prediction, refused>> /\ pc' # "exec"
    BY <1>5 DEF decision_input_delete, config
  <2>2. results' = Deleted(ToSet(Outputs)) /\ ToSet(Outputs) \in SUBSET Held
    BY <1>5, PointerParts DEF decision_input_delete, Held
  <2> QED
    BY <2>1, <2>2, DeletedFrees, NamedKept DEF Named
<1>6. CASE prediction_list_delete
  <2>1. /\ UNCHANGED <<metrics, predictions, refused>> /\ last_prediction' = << >> /\ pc' # "exec"
    BY <1>6 DEF prediction_list_delete, config
  <2>2. NothingShared' => refused' = {}
    BY <2>1, SharedSame DEF Named, ListsNamed
  <2> QED
    BY <2>1, <2>2, NamedEmpty
<1>7. CASE UNCHANGED vars
  <2>1. UNCHANGED <<metrics, predictions, results, last_prediction, input, dim, refused, pc>>
    BY <1>7 DEF vars
  <2>2. ListsNamed'
    BY <2>1, FreesNone, NamedKept DEF Named
  <2>3. Lists' = Lists /\ Running' = Running
    BY <2>1 DEF Lists, Running
  <2>4. RunningNamed' <=> RunningNamed
    <3>1. NamesIn(Running)' = NamesIn(Running) /\ NamesIn(ToSet(Lists))' = NamesIn(ToSet(Lists))
      BY <2>1, <2>3 DEF NamesIn
    <3>2. Distinct(Running)' <=> Distinct(Running)
      BY <2>1, <2>3 DEF Distinct
    <3>3. NothingShared' <=> NothingShared
      BY <2>1, SharedSame
    <3>4. (\A i \in 1..Len(dim) : dim[i].name = results[dim[i].prediction].name)'
            <=> (\A i \in 1..Len(dim) : dim[i].name = results[dim[i].prediction].name)
      BY <2>1
    <3> QED
      BY <3>1, <3>2, <3>3, <3>4 DEF RunningNamed
  <2> QED
    BY <2>1, <2>2, <2>4 DEF Named
<1> QED
  BY <1>1, <1>2, <1>3, <1>4, <1>5, <1>6, <1>7, ExecutePredictionNames, StartModelNames,
     TakeHeadNames
  DEF Next, Configures
(***************************************************************************)
(* What the models see.                                                    *)
(***************************************************************************)
LEMMA EndedFacts ==
  ASSUME models \in Seq(Models)
  PROVE  /\ Ended(0) = << >> /\ Ended(Len(models)) = models
         /\ \A n \in 1..Len(models) :
              /\ Ended(n - 1) \in Seq(Models)
              /\ models[n] \in Models
              /\ Ended(n) = Append(Ended(n - 1), models[n])
<1>1. Ended(0) = << >>
  BY SubSeqEmpty DEF Ended
<1>2. Ended(Len(models)) = models
  BY SubSeqFull DEF Ended
<1>3. ASSUME NEW n \in 1..Len(models)
      PROVE  /\ Ended(n - 1) \in Seq(Models) /\ models[n] \in Models
             /\ Ended(n) = Append(Ended(n - 1), models[n])
  <2>1. Len(models) \in Nat /\ \A i \in 1..Len(models) : models[i] \in Models
    BY LenProperties, ElementOfSeq
  <2>2. n - 1 \in Int /\ \A i \in 1 .. n - 1 : models[i] \in Models
    BY <2>1
  <2>3. Ended(n - 1) \in Seq(Models)
    BY <2>2, SubSeqProperties DEF Ended
  <2>4. n \in 1..Len(models) /\ 1 \in 1..Len(models) /\ models[n] \in Models
    BY <2>1
  <2>5. SubSeq(models, 1, n) = SubSeq(models, 1, n - 1) \o <<models[n]>>
    BY <2>4, SubSeqRecursiveSecond
  <2>6. Ended(n) = Append(Ended(n - 1), models[n])
    BY <2>3, <2>4, <2>5, AppendIsConcat DEF Ended
  <2> QED
    BY <2>3, <2>4, <2>6
<1> QED
  BY <1>1, <1>2, <1>3

\* ShowsAll, in the next state.
ShowsAllNext(names) ==
  \A d \in 1..Len(di') :
    {results'[i].name : i \in OwnedBy(di'[d].metrics)} = Shown(di'[d].model, names)

LEMMA ShownKept ==
  ASSUME TypeOK, NEW ids, Frees(ids), di' = di, NEW names, ShowsAll(names)
  PROVE  ShowsAllNext(names) /\ ModelsOf' = ModelsOf
<1>1. ASSUME NEW d \in 1..Len(di)
      PROVE  {results'[i].name : i \in OwnedBy(di[d].metrics)} = NamesIn(OwnedBy(di[d].metrics))
  <2>1. OwnedBy(di[d].metrics) \in SUBSET Ids
    BY PointerParts
  <2> QED
    BY <2>1, NamesKept
<1> QED
  BY <1>1 DEF ShowsAll, ShowsAllNext, ModelsOf

LEMMA ShownGrown ==
  ASSUME TypeOK, NEW ids, Frees(ids), NEW names, ShowsAll(names), NEW m \in Models, NEW outputs,
         outputs \in Seq(Output(Ids')),
         di' = Append(di, [model |-> m, metrics |-> outputs]),
         {results'[i].name : i \in OwnedBy(outputs)} = Shown(m, names)
  PROVE  /\ ShowsAllNext(names)
         /\ ModelsOf \in Seq(Models) /\ ModelsOf' = Append(ModelsOf, m)
<1> DEFINE n == Len(di)
           filled == [model |-> m, metrics |-> outputs]
<1>1. filled.metrics = outputs /\ filled.model = m
  OBVIOUS
<1>2. di \in Seq(Filled(Ids)) /\ di \in Seq(Filled(Ids')) /\ filled \in Filled(Ids')
  BY TypeParts, TypesCarried DEF Frees, Filled
<1> HIDE DEF filled
<1>3. /\ n \in Nat /\ Len(di') = n + 1 /\ di'[n + 1] = filled
      /\ \A d \in 1..n : di'[d] = di[d]
  BY <1>2, AppendProperties, LenProperties DEF filled
<1>4. ASSUME NEW d \in 1..n
      PROVE  {results'[i].name : i \in OwnedBy(di[d].metrics)} = Shown(di[d].model, names)
  <2>1. OwnedBy(di[d].metrics) \in SUBSET Ids
    BY PointerParts
  <2>2. {results'[i].name : i \in OwnedBy(di[d].metrics)} = NamesIn(OwnedBy(di[d].metrics))
    BY <2>1, NamesKept
  <2> QED
    BY <2>2 DEF ShowsAll
<1> DEFINE N(s) == {results'[i].name : i \in s}
<1>5. ASSUME NEW d \in 1 .. n + 1
      PROVE  N(OwnedBy(di'[d].metrics)) = Shown(di'[d].model, names)
  <2>1. N(OwnedBy(outputs)) = Shown(m, names)
    OBVIOUS
  <2>2. \A e \in 1..n : N(OwnedBy(di[e].metrics)) = Shown(di[e].model, names)
    BY <1>4
  <2> HIDE DEF N
  <2>3. CASE d = n + 1
    BY <1>1, <1>3, <2>1, <2>3
  <2>4. CASE d \in 1..n
    BY <1>3, <2>2, <2>4
  <2> QED
    BY <1>3, <2>3, <2>4
<1>6. ShowsAllNext(names)
  BY <1>3, <1>5 DEF ShowsAllNext
<1>7. \A d \in 1..n : di[d].model \in Models
  <2>1. \A d \in 1..n : di[d] \in Filled(Ids)
    BY <1>2, ElementOfSeq
  <2> QED
    BY <2>1 DEF Filled
<1>8. ModelsOf \in Seq(Models) /\ Len(ModelsOf) = n /\ \A d \in 1..n : ModelsOf[d] = di[d].model
  <2>1. ModelsOf \in [1..n -> Models]
    BY <1>7 DEF ModelsOf
  <2>2. ModelsOf \in Seq(Models) /\ Len(ModelsOf) = n
    BY <1>3, <2>1, FunctionIsSeq
  <2> QED
    BY <2>2 DEF ModelsOf
<1>9. Append(ModelsOf, m) = [d \in 1 .. n + 1 |-> IF d = n + 1 THEN m ELSE ModelsOf[d]]
  BY <1>8, AppendIs
<1>10. \A d \in 1 .. n + 1 : di'[d].model = IF d = n + 1 THEN m ELSE ModelsOf[d]
  BY <1>1, <1>3, <1>8
<1>11. ModelsOf' = [d \in 1 .. n + 1 |-> di'[d].model]
  BY <1>3 DEF ModelsOf
<1> HIDE DEF n
<1>12. ModelsOf' = Append(ModelsOf, m)
  BY <1>9, <1>10, <1>11
<1> QED
  BY <1>6, <1>8, <1>12

LEMMA SeenNext ==
  ASSUME NEW ids, Frees(ids), TypeOK, last_prediction' = last_prediction,
         NEW names, names = NamesIn(ToSet(Lists)),
         models' = models, ShowsAllNext(names),
         ModelsOf' = Kept(Ended(IF pc' = "exec" THEN executed' - 1 ELSE executed'), Served(names))
  PROVE  Seen'
<1>1. Lists' = Lists
  BY DEF Lists
<1>2. {results'[i].name : i \in ToSet(Lists)} = names
  BY PointerParts, NamesKept
<1>3. NamesIn(ToSet(Lists))' = names
  BY <1>1, <1>2 DEF NamesIn
<1>4. ShowsAll(NamesIn(ToSet(Lists)))'
  BY <1>3 DEF ShowsAll, ShowsAllNext, NamesIn
<1>5. Ended(IF pc = "exec" THEN executed - 1 ELSE executed)'
        = Ended(IF pc' = "exec" THEN executed' - 1 ELSE executed')
  BY DEF Ended
<1>6. Served(NamesIn(ToSet(Lists)))' = Served(names)
  BY <1>3 DEF Served
<1> QED
  BY <1>4, <1>5, <1>6 DEF Seen
LEMMA SeenSame ==
  ASSUME TypeOK, Seen, pc \in {"model", "exec", "decide"}, NEW ids, Frees(ids),
         UNCHANGED <<last_prediction, models, di>>,
         (IF pc' = "exec" THEN executed' - 1 ELSE executed')
           = IF pc = "exec" THEN executed - 1 ELSE executed
  PROVE  Seen'
<1> DEFINE names == NamesIn(ToSet(Lists))
<1>1. /\ ModelsOf = Kept(Ended(IF pc = "exec" THEN executed - 1 ELSE executed), Served(names))
      /\ ShowsAll(names)
  BY DEF Seen
<1>2. names = NamesIn(ToSet(Lists))
  OBVIOUS
<1> HIDE DEF names
<1>3. ShowsAllNext(names) /\ ModelsOf' = ModelsOf
  BY <1>1, ShownKept
<1> QED
  BY <1>1, <1>2, <1>3, SeenNext

LEMMA DummyReturnsSeen ==
  ASSUME TypeOK, Phases, Named, Seen, DummyReturns
  PROVE  Seen'
<1> DEFINE names == NamesIn(ToSet(Lists))
           m == model
<1>1. /\ UNCHANGED <<results, last_prediction, models, executed>>
      /\ di' = Append(di, [model |-> m, metrics |-> dim])
      /\ pc = "exec" /\ pc' = "model" /\ m \in Dummies /\ input = << >> /\ executed # 0
  BY DEF DummyReturns, config, Phases
<1>2. Frees({}) /\ Ids' = Ids
  BY <1>1, FreesNone
<1>3. ModelsOf = Kept(Ended(executed - 1), Served(names)) /\ ShowsAll(names)
  BY <1>1 DEF Seen
<1>4. /\ executed \in 1..Len(models) /\ m = models[executed] /\ models \in Seq(Models)
      /\ m \in Models
  BY <1>1, ModelType, LenProperties DEF TypeOK, model
<1>5. Ended(executed - 1) \in Seq(Models) /\ Ended(executed) = Append(Ended(executed - 1), m)
  BY <1>4, EndedFacts
<1>6. NamesIn(OwnedBy(dim)) = names
  <2>1. Running = OwnedBy(dim)
    BY <1>1, ToSetEmpty DEF Running
  <2> QED
    BY <1>1, <2>1 DEF Named, RunningNamed
<1>7. {results'[i].name : i \in OwnedBy(dim)} = NamesIn(OwnedBy(dim))
  BY <1>1 DEF NamesIn
<1>8. names = NamesIn(ToSet(Lists)) /\ dim \in Seq(Output(Ids'))
  BY <1>2, TypeParts
<1> HIDE DEF names, m
<1>9. m \in Served(names) /\ Shown(m, names) = names
  BY <1>1, <1>4 DEF Served, Shown
<1>10. /\ ShowsAllNext(names) /\ ModelsOf' = Append(ModelsOf, m)
  BY <1>1, <1>2, <1>3, <1>4, <1>6, <1>7, <1>8, <1>9, ShownGrown
<1>11. Kept(Ended(executed), Served(names)) = Append(Kept(Ended(executed - 1), Served(names)), m)
  BY <1>4, <1>5, <1>9, KeptAppended
<1> QED
  BY <1>1, <1>2, <1>3, <1>8, <1>10, <1>11, SeenNext

LEMMA FindResultsSeen ==
  ASSUME TypeOK, Phases, Accounted, Named, Seen, FindResults
  PROVE  Seen'
<1> DEFINE names == NamesIn(ToSet(Lists))
           m == model
<1>1. /\ UNCHANGED <<last_prediction, models, executed>>
      /\ pc = "exec" /\ pc' = "model" /\ m \notin Dummies /\ dim = << >> /\ executed # 0
  BY DEF FindResults, config, Phases
<1>2. Frees(ToSet(input)) /\ m \in Models \ Dummies
  BY FindResultsEffects
<1>3. ModelsOf = Kept(Ended(executed - 1), Served(names)) /\ ShowsAll(names)
  BY <1>1 DEF Seen
<1>4. executed \in 1..Len(models) /\ m = models[executed] /\ models \in Seq(Models)
  BY <1>1, LenProperties DEF TypeOK, model
<1>5. Ended(executed - 1) \in Seq(Models) /\ Ended(executed) = Append(Ended(executed - 1), m)
  BY <1>4, EndedFacts
<1>6. NamesIn(ToSet(input)) = names
  <2>1. Running = ToSet(input)
    BY <1>1 DEF Running, OwnedBy
  <2> QED
    BY <1>1, <2>1 DEF Named, RunningNamed
<1>7. CASE FindingNone
  <2>1. di' = di /\ ~Finds(m, names)
    BY <1>6, <1>7 DEF FindingNone
  <2>2. names = NamesIn(ToSet(Lists))
    OBVIOUS
  <2> HIDE DEF names, m
  <2>3. m \notin Served(names)
    BY <1>1, <2>1 DEF Served
  <2>4. Kept(Ended(executed), Served(names)) = Kept(Ended(executed - 1), Served(names))
    BY <1>2, <1>5, <2>3, KeptAppended
  <2>5. ShowsAllNext(names) /\ ModelsOf' = ModelsOf
    BY <1>2, <1>3, <2>1, ShownKept
  <2> QED
    BY <1>1, <1>2, <1>3, <2>2, <2>4, <2>5, SeenNext
<1>8. ASSUME NEW f, NEW outputs, Finding(f, outputs)
      PROVE  Seen'
  <2>1. /\ Finds(m, names) /\ OwnedBy(outputs) = ToSet(f) /\ outputs \in Seq(Output(Ids'))
        /\ {results'[i].name : i \in ToSet(f)} = ToSet(ResultsFor(m))
        /\ di' = Append(di, [model |-> m, metrics |-> outputs])
    BY <1>6, <1>8 DEF Finding
  <2>2. names = NamesIn(ToSet(Lists))
    OBVIOUS
  <2> HIDE DEF names, m
  <2>3. m \in Served(names) /\ Shown(m, names) = ToSet(ResultsFor(m))
    BY <1>1, <1>2, <2>1 DEF Served, Shown
  <2>4. {results'[i].name : i \in OwnedBy(outputs)} = Shown(m, names)
    BY <2>1, <2>3
  <2>5. ShowsAllNext(names) /\ ModelsOf' = Append(ModelsOf, m)
    BY <1>2, <1>3, <2>1, <2>4, ShownGrown
  <2>6. Kept(Ended(executed), Served(names)) = Append(Kept(Ended(executed - 1), Served(names)), m)
    BY <1>2, <1>5, <2>3, KeptAppended
  <2> QED
    BY <1>1, <1>2, <1>3, <2>2, <2>5, <2>6, SeenNext
<1> QED
  BY <1>7, <1>8, FindResultsEffects

LEMMA SeenStep ==
  ASSUME TypeOK, Phases, Accounted, Named, Seen, [Next]_vars
  PROVE  Seen'
<1>1. CASE PredictionsDone
  <2> DEFINE names == NamesIn(ToSet(Lists))
  <2>1. /\ UNCHANGED <<results, last_prediction, models, di, executed>>
        /\ di = << >> /\ executed = 0 /\ pc' = "model"
    BY <1>1 DEF PredictionsDone, config, Phases
  <2>2. Frees({})
    BY <2>1, FreesNone
  <2>3. ModelsOf' = << >> /\ Ended(executed) = << >>
    BY <2>1, EndedFacts DEF ModelsOf, TypeOK
  <2>4. Kept(<< >>, Served(names)) = << >>
    BY KeptEmpty
  <2>5. ShowsAllNext(names)
    BY <2>1 DEF ShowsAllNext
  <2>6. names = NamesIn(ToSet(Lists))
    OBVIOUS
  <2> HIDE DEF names
  <2> QED
    BY <2>1, <2>2, <2>3, <2>4, <2>5, <2>6, SeenNext
<1>2. CASE StartModel
  <2>1. /\ UNCHANGED <<last_prediction, models, di>> /\ executed' = executed + 1
        /\ pc = "model" /\ pc' = "exec" /\ executed \in Nat
    BY <1>2 DEF StartModel, config, TypeOK
  <2>2. Frees({})
    BY <1>2, StartModelDoes, AllocationFrees
  <2> QED
    BY <2>1, <2>2, SeenSame
<1>3. CASE TakeHead
  <2>1. UNCHANGED <<results, last_prediction, models, di, executed, pc>> /\ pc = "exec"
    BY <1>3 DEF TakeHead, config
  <2> QED
    BY <2>1, FreesNone, SeenSame
<1>4. CASE scoring_exec
  <2>1. /\ UNCHANGED <<results, last_prediction, models, di, executed>>
        /\ pc = "model" /\ pc' \in {"crashed", "decide"}
    BY <1>4 DEF scoring_exec, config
  <2> QED
    BY <2>1, FreesNone, SeenSame
<1>5. CASE UNCHANGED vars
  <2>1. UNCHANGED <<results, last_prediction, models, di, executed, pc>>
    BY <1>5 DEF vars
  <2>2. CASE pc \in {"model", "exec", "decide"}
    BY <2>1, <2>2, FreesNone, SeenSame
  <2> QED
    BY <2>1, <2>2 DEF Seen
<1>6. \/ pc' \notin {"model", "exec", "decide"} \/ PredictionsDone \/ StartModel \/ TakeHead
      \/ DummyReturns \/ FindResults \/ scoring_exec \/ UNCHANGED vars
  BY DEF Next, prediction_attach_metric, prediction_delete, scoring_metric_create,
         scoring_metric_delete, scoring_output_csv, scoring_delete, tick, StartTick,
         ExecutePrediction, TakeDecision, decision_input_delete, prediction_list_delete, EndTick
<1>7. CASE pc' \notin {"model", "exec", "decide"}
  BY <1>7 DEF Seen
<1> QED
  BY <1>1, <1>2, <1>3, <1>4, <1>5, <1>6, <1>7, DummyReturnsSeen, FindResultsSeen
(***************************************************************************)
(* The invariant holds, and implies the properties.                        *)
(***************************************************************************)
LEMMA InvInit ==
  ASSUME Init
  PROVE  PipelineInv
<1> USE DEF Init
<1>1. Lists = << >> /\ OutputLists = << >>
  BY FlattenEmpty DEF Lists, OutputLists
<1>2. Outputs = << >> /\ PredictionsOf(dim) = << >>
  BY <1>1, FlattenEmpty DEF Outputs, PredictionsOf
<1>3. TypeOK
  <2>1. metrics \in [Predictions -> Seq(Names)]
    OBVIOUS
  <2>2. ConfigOK
    BY <2>1 DEF ConfigOK, NoScoring, Registered
  <2>3. TickOK
    BY DEF TickOK, Ids
  <2> QED
    BY <2>2, <2>3, TypeIs
<1>4. ToSet(input) = {} /\ OwnedBy(dim) = {} /\ ToSet(Lists) = {} /\ ToSet(Outputs) = {}
  BY <1>1, <1>2, ToSetEmpty DEF OwnedBy
<1>5. Separate
  BY <1>1, <1>2, <1>4, ToSetEmpty DEF Separate
<1>6. Ids = {}
  BY DEF Ids
<1>7. Accounted /\ Named
  BY <1>4, <1>6 DEF Accounted, Named, ListsNamed, Distinct
<1>8. AttachedOnce
  BY ToSetEmpty DEF AttachedOnce
<1>9. Phases /\ Seen /\ Scores /\ Files /\ BestSelected /\ CsvCrashExplained
  BY DEF Phases, Seen, Scores, Files, NoScoring, BestSelected, CsvCrashExplained
<1> QED
  BY <1>3, <1>5, <1>7, <1>8, <1>9 DEF PipelineInv

LEMMA InvStep ==
  ASSUME PipelineInv, [Next]_vars
  PROVE  PipelineInv'
<1> USE DEF PipelineInv
<1>1. TypeOK'
  BY TypeStep
<1>2. ConfigOK /\ ConfigOK'
  BY <1>1, TypeIs
<1>3. Phases' /\ AttachedOnce'
  BY PhasesStep, AttachedOnceStep
<1>4. Separate' /\ Accounted'
  BY <1>1, OwnersStep
<1>5. Named' /\ Seen'
  BY <1>1, NamedStep, SeenStep
<1>6. Scores' /\ Files' /\ BestSelected' /\ CsvCrashExplained'
  BY <1>2, ScoresStep, FilesStep, BestSelectedStep, CsvCrashStep
<1> QED
  BY <1>1, <1>3, <1>4, <1>5, <1>6

\* In every reachable state: the types, the phases of a tick, that a
\* prediction has a metric once, who points to which result, under which
\* names, what the models saw, and the scores and files.
THEOREM Invariant == Spec => []PipelineInv
<1>1. Init => PipelineInv
  BY InvInit
<1>2. PipelineInv /\ [Next]_vars => PipelineInv'
  BY InvStep
<1> QED
  BY <1>1, <1>2, PTL DEF Spec

\* Every variable keeps its type; no list of a prediction, of a model or of
\* the decision input has a pointer to something that is not a result, and a
\* result is freed at most once (prediction_metric_result_delete, lib/prediction.c).
THEOREM TypeCorrect == Spec => []TypeOK
<1>1. PipelineInv => TypeOK
  BY DEF PipelineInv
<1> QED
  BY <1>1, Invariant, PTL

LEMMA SeparateOwners ==
  ASSUME TypeOK, Separate, Accounted
  PROVE  OneOwner
<1>1. Pointers = Lists \o input \o PredictionsOf(dim) \o Outputs
  BY DEF Pointers, Lists, Outputs, OutputLists
<1>2. /\ IsInjective(Pointers)
      /\ ToSet(Pointers) = Held
  <2> DEFINE ps == PredictionsOf(dim)
  <2>1. /\ Lists \in Seq(Ids) /\ input \in Seq(Ids) /\ ps \in Seq(Ids) /\ Outputs \in Seq(Ids)
        /\ Apart(Lists, input, ps, Outputs)
        /\ Held = ToSet(Lists) \cup ToSet(input) \cup ToSet(ps) \cup ToSet(Outputs)
    BY Places
  <2> HIDE DEF ps
  <2>2. /\ IsInjective(Lists \o input \o ps \o Outputs)
        /\ ToSet(Lists \o input \o ps \o Outputs) = Held
    BY <2>1, ApartIs
  <2> QED
    BY <1>1, <2>2 DEF ps
<1>3. \A i : Contains(Pointers, i) <=> i \in Held
  <2>1. Pointers \in Seq(Ids)
    BY <1>1, Places, ConcatProperties
  <2> QED
    BY <1>2, <2>1, ToSetIs
<1> QED
  BY <1>2, <1>3 DEF OneOwner, Accounted

\* A result has one owner until it is freed, and is freed once, however many
\* predictions and models there are and whatever they are called.
THEOREM ResultsOwnedOnce == Spec => []OneOwner
<1>1. PipelineInv => OneOwner
  BY SeparateOwners DEF PipelineInv
<1> QED
  BY <1>1, Invariant, PTL

\* At the end of a tick in which no two predictions share a metric, all its
\* results were freed, as the comment of rtgde.c:337 has it.
THEOREM NothingElseLeaks == Spec => []OnlyDuplicatesLeak
<1>1. ASSUME PipelineInv PROVE OnlyDuplicatesLeak
  <2> SUFFICES ASSUME pc = "ended", NothingShared, NEW i \in Ids PROVE results[i].freed = 1
    BY DEF OnlyDuplicatesLeak
  <2>1. last_prediction = << >> /\ input = << >> /\ dim = << >> /\ di = << >>
    BY <1>1 DEF PipelineInv, Phases
  <2>2. Lists = << >> /\ OutputLists = << >>
    BY <2>1, FlattenEmpty DEF Lists, OutputLists
  <2>3. Outputs = << >> /\ OwnedBy(dim) = {}
    BY <2>1, <2>2, FlattenEmpty DEF Outputs, OwnedBy
  <2>4. Held = {}
    BY <2>1, <2>2, <2>3, ToSetEmpty DEF Held, Running
  <2>5. refused = {}
    BY <1>1 DEF PipelineInv, Named, ListsNamed
  <2> QED
    BY <1>1, <2>4, <2>5 DEF PipelineInv, Accounted
<1> QED
  BY <1>1, Invariant, PTL

\* When all models have been executed, those with an output are the ones that
\* take everything and the ones that found what they look for, in the order
\* in which they were attached, and each saw the results of all predictions,
\* whatever the others took out of their lists (lib/rtgde.c, model_exec).
THEOREM EveryModelSeesAll == Spec => []ModelsSeeAll
<1>1. ASSUME PipelineInv PROVE ModelsSeeAll
  <2> SUFFICES ASSUME pc = "decide" PROVE
        /\ ModelsOf = Kept(models, Served(Produced))
        /\ \A d \in 1..Len(di) :
             ToSet(NamesOf(PredictionsOf(di[d].metrics))) = Shown(di[d].model, Produced)
    BY DEF ModelsSeeAll, ModelsOf, Served, Shown
  <2>1. TypeOK /\ Phases /\ Seen
    BY <1>1 DEF PipelineInv
  <2>2. Produced = NamesIn(ToSet(Lists))
    BY <2>1, TypeParts, PointerParts, NamesOfFacts DEF Produced, Lists
  <2>3. Ended(executed) = models
    BY <2>1, EndedFacts DEF Phases, TypeOK
  <2>4. ModelsOf = Kept(models, Served(Produced)) /\ ShowsAll(Produced)
    BY <2>1, <2>2, <2>3 DEF Seen
  <2>5. ASSUME NEW d \in 1..Len(di)
        PROVE  ToSet(NamesOf(PredictionsOf(di[d].metrics))) = NamesIn(OwnedBy(di[d].metrics))
    <3>1. di[d] \in Filled(Ids)
      BY <2>1, TypeParts, ElementOfSeq
    <3>2. di[d].metrics \in Seq([name : Names, prediction : Ids])
      BY <3>1 DEF Filled, Output
    <3>3. /\ PredictionsOf(di[d].metrics) \in Seq(Ids)
          /\ ToSet(PredictionsOf(di[d].metrics)) = OwnedBy(di[d].metrics)
      BY <3>2, PredictionsOfFacts
    <3> QED
      BY <2>1, <3>3, TypeParts, NamesOfFacts
  <2> QED
    BY <2>4, <2>5 DEF ShowsAll
<1> QED
  BY <1>1, Invariant, PTL

\* decision_simple_calc selects the model with the highest mean, and selects
\* one as soon as there is a mean above 0, for any number of models, whatever
\* they have been scored on.
THEOREM BestIsSelected == Spec => []BestSelected
<1>1. PipelineInv => BestSelected
  BY DEF PipelineInv
<1> QED
  BY <1>1, Invariant, PTL

\* scoring_exec crashes only for a metric that was registered when there was
\* a global file already, or for a model without an output for a registered
\* metric.
THEOREM CsvCrashesAreExplained == Spec => []CsvCrashExplained
<1>1. PipelineInv => CsvCrashExplained
  BY DEF PipelineInv
<1> QED
  BY <1>1, Invariant, PTL
================================================================================

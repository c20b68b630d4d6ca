--------------------------- MODULE HistoryFsmProofs ---------------------------
(***************************************************************************)
(* Proofs about HistoryFsm and its density files, for every set of states, *)
(* every resolution and every width of the times.                          *)
(***************************************************************************)
EXTENDS Densities, FiniteSetTheorems, SequenceTheorems, TLAPS

\* The list of states and the transitions between them are sound.
IInv == TypeOK /\ GraphComplete

LEMMA ConstantsOK ==
  /\ history_fsm_entry_count \in Nat \ {0}
  /\ transition_resolution_us \in Nat \ {0}
  /\ MaxTime \in Nat /\ TimeModulus \in Nat /\ Never \in Nat
  /\ MaxTime < Never /\ TimeModulus = Never + 1
<1>1. prediction_length_us \div transition_resolution_us \in Nat \ {0}
  BY ResolutionAssumption
<1> QED
  BY <1>1, TimeAssumption, ResolutionAssumption DEF history_fsm_entry_count, Never

LEMMA TimesOK ==
  ASSUME NEW t \in Times
  PROVE  t \in Nat /\ t \in 0 .. Never /\ t # Never
BY ConstantsOK DEF Times

(***************************************************************************)
(* Type correctness.                                                       *)
(***************************************************************************)
LEMMA InitIInv == Init => IInv
<1> SUFFICES ASSUME Init PROVE IInv
  OBVIOUS
<1>1. /\ states = << >> /\ cnt = << >> /\ total_count = << >> /\ cur = 0
      /\ time_state_changed \in 0 .. Never
  BY DEF Init
<1>2. Positions = {}
  BY <1>1 DEF Positions
<1>3. DOMAIN cnt = {}
  BY <1>1
<1>4. cnt \in [DOMAIN cnt -> [Words -> Nat]] /\ total_count \in [DOMAIN cnt -> Nat]
  BY <1>1, <1>3
<1>5. TypeOK
  BY <1>1, <1>3, <1>4 DEF TypeOK
<1>6. GraphComplete
  BY <1>1, <1>2, <1>3 DEF GraphComplete
<1> QED
  BY <1>5, <1>6 DEF IInv

\* What Enter makes of the histograms.
LEMMA EnterProperties ==
  ASSUME IInv, NEW j, NEW t \in Times, NEW edges, Enter(j, t, edges)
  PROVE  /\ DOMAIN cnt' = edges
         /\ cnt' \in [edges -> [Words -> Nat]]
         /\ total_count' \in [edges -> Nat]
         /\ cur' = j
         /\ time_state_changed' = t
<1>1. /\ cnt \in [DOMAIN cnt -> [Words -> Nat]]
      /\ total_count \in [DOMAIN cnt -> Nat]
  BY DEF IInv, TypeOK
<1>2. \A e : Histogram(e) \in [Words -> Nat]
  BY <1>1 DEF Histogram
<1>3. \A e : Total(e) \in Nat
  BY <1>1 DEF Total
<1> QED
  BY <1>2, <1>3 DEF Enter, Arrived

\* A state that was found is another one than the current one.
LEMMA FoundProperties ==
  ASSUME IInv, cur # 0, NEW s, states[cur] # s, NEW j \in Found(s)
  PROVE  j \in Positions /\ cur \in Positions /\ j # cur /\ states[j] = s
BY DEF IInv, TypeOK, Found, Positions

\* A state that was not found is nowhere in the list.
LEMMA NotFound ==
  ASSUME IInv, cur # 0, NEW s, states[cur] # s, Found(s) = {}
  PROVE  cur \in Positions /\ ~Known(s)
<1>1. cur \in Positions
  BY DEF IInv, TypeOK, Positions
<1>2. ASSUME NEW i \in Positions, states[i] = s
      PROVE  FALSE
  <2>1. i # cur
    BY <1>2
  <2>2. <<cur, i>> \in DOMAIN cnt
    BY <1>1, <1>2, <2>1 DEF IInv, GraphComplete
  <2> QED
    BY <1>2, <2>2 DEF Found, Positions
<1> QED
  BY <1>1, <1>2 DEF Known

LEMMA ChangeStateKeepsIInv ==
  ASSUME IInv, NEW s \in UserStates, NEW t \in Times, ChangeState(s, t)
  PROVE  IInv'
<1>1. PICK j \in Found(s) : Enter(j, t, DOMAIN cnt)
  BY DEF ChangeState
<1>2. cur # 0 /\ states[cur] # s /\ states' = states
  BY DEF ChangeState
<1>3. j \in Positions /\ cur \in Positions
  BY <1>1, <1>2, FoundProperties
<1>4. /\ DOMAIN cnt' = DOMAIN cnt
      /\ cnt' \in [DOMAIN cnt -> [Words -> Nat]]
      /\ total_count' \in [DOMAIN cnt -> Nat]
      /\ cur' = j
      /\ time_state_changed' = t
  BY <1>1, EnterProperties
<1>5. t \in 0 .. Never
  BY TimesOK
<1>6. Positions' = Positions
  BY <1>2 DEF Positions
<1>7. states \in Seq(UserStates) /\ DOMAIN cnt \subseteq Positions \X Positions
  BY DEF IInv, TypeOK
<1>8. cur' \in 0 .. Len(states) /\ cur' # 0
  BY <1>3, <1>4, <1>7 DEF Positions
<1>9. TypeOK'
  BY <1>2, <1>4, <1>5, <1>6, <1>7, <1>8 DEF TypeOK
<1>10. GraphComplete'
  BY <1>2, <1>4, <1>6, <1>8 DEF IInv, GraphComplete
<1> QED
  BY <1>9, <1>10 DEF IInv

LEMMA AddFirstStateProperties ==
  ASSUME IInv, NEW s \in UserStates, AddFirstState(s)
  PROVE  /\ states = << >> /\ DOMAIN cnt = {}
         /\ states' \in Seq(UserStates) /\ Len(states') = 1 /\ states'[1] = s
         /\ Positions' = {1}
         /\ cur' = 1 /\ time_state_changed' = Never
         /\ cnt' = cnt /\ total_count' = total_count
<1>1. states = << >> /\ DOMAIN cnt = {}
  BY DEF AddFirstState, IInv, GraphComplete, Positions
<1>2. states' = Append(states, s) /\ cur' = Len(states') /\ time_state_changed' = Never
  BY DEF AddFirstState
<1>3. states' \in Seq(UserStates) /\ Len(states') = 1 /\ states'[1] = s
  BY <1>1, <1>2
<1>4. Positions' = {1}
  BY <1>3 DEF Positions
<1> QED
  BY <1>1, <1>2, <1>3, <1>4 DEF AddFirstState

LEMMA AddFirstStateKeepsIInv ==
  ASSUME IInv, NEW s \in UserStates, AddFirstState(s)
  PROVE  IInv'
<1>1. /\ DOMAIN cnt = {}
      /\ states' \in Seq(UserStates) /\ Len(states') = 1
      /\ Positions' = {1}
      /\ cur' = 1 /\ time_state_changed' = Never
      /\ cnt' = cnt /\ total_count' = total_count
  BY AddFirstStateProperties
<1>2. TypeOK'
  BY <1>1, ConstantsOK DEF IInv, TypeOK
<1>3. GraphComplete'
  BY <1>1 DEF GraphComplete
<1> QED
  BY <1>2, <1>3 DEF IInv

\* The list of states with a new one.
LEMMA AddStateProperties ==
  ASSUME IInv, NEW s \in UserStates, NEW t \in Times, AddState(s, t)
  PROVE  /\ cur \in Positions /\ ~Known(s)
         /\ Len(states) \in Nat
         /\ states' \in Seq(UserStates)
         /\ Len(states') = Len(states) + 1
         /\ \A i \in Positions : states'[i] = states[i] /\ i # Len(states) + 1
         /\ states'[Len(states) + 1] = s
         /\ Positions' = Positions \cup {Len(states) + 1}
         /\ DOMAIN cnt' = DOMAIN cnt \cup NewEdges(Len(states) + 1)
         /\ cnt' \in [DOMAIN cnt' -> [Words -> Nat]]
         /\ total_count' \in [DOMAIN cnt' -> Nat]
         /\ cur' = Len(states) + 1
         /\ time_state_changed' = t
<1> DEFINE n == Len(states) + 1
<1>1. /\ cur # 0 /\ states[cur] # s /\ Found(s) = {}
      /\ states' = Append(states, s)
      /\ Enter(n, t, DOMAIN cnt \cup NewEdges(n))
  BY DEF AddState
<1>2. cur \in Positions /\ ~Known(s)
  BY <1>1, NotFound
<1>3. states \in Seq(UserStates)
  BY DEF IInv, TypeOK
<1>4. /\ Len(states) \in Nat
      /\ states' \in Seq(UserStates)
      /\ Len(states') = n
      /\ \A i \in Positions : states'[i] = states[i] /\ i # n
      /\ states'[n] = s
  BY <1>1, <1>3 DEF Positions
<1>5. Positions' = Positions \cup {n}
  BY <1>4 DEF Positions
<1>6. /\ DOMAIN cnt' = DOMAIN cnt \cup NewEdges(n)
      /\ cnt' \in [DOMAIN cnt' -> [Words -> Nat]]
      /\ total_count' \in [DOMAIN cnt' -> Nat]
      /\ cur' = n
      /\ time_state_changed' = t
  BY <1>1, EnterProperties
<1> QED
  BY <1>2, <1>4, <1>5, <1>6

LEMMA AddStateKeepsIInv ==
  ASSUME IInv, NEW s \in UserStates, NEW t \in Times, AddState(s, t)
  PROVE  IInv'
<1> DEFINE n == Len(states) + 1
<1>1. /\ ~Known(s)
      /\ Len(states) \in Nat
      /\ states' \in Seq(UserStates)
      /\ Len(states') = n
      /\ \A i \in Positions : states'[i] = states[i] /\ i # n
      /\ states'[n] = s
      /\ Positions' = Positions \cup {n}
      /\ DOMAIN cnt' = DOMAIN cnt \cup NewEdges(n)
      /\ cnt' \in [DOMAIN cnt' -> [Words -> Nat]]
      /\ total_count' \in [DOMAIN cnt' -> Nat]
      /\ cur' = n
      /\ time_state_changed' = t
  BY AddStateProperties
<1>2. Positions = 1 .. n - 1
  BY <1>1 DEF Positions
<1>3. DOMAIN cnt = {e \in Positions \X Positions : e[1] # e[2]}
  BY DEF IInv, GraphComplete
<1>4. DOMAIN cnt' = {e \in Positions' \X Positions' : e[1] # e[2]}
  <2>1. \A i \in Positions : i # n
    BY <1>1
  <2>2. NewEdges(n) = {<<i, n>> : i \in Positions} \cup {<<n, i>> : i \in Positions}
    BY <1>2 DEF NewEdges
  <2>3. \A e \in NewEdges(n) : e \in Positions' \X Positions' /\ e[1] # e[2]
    BY <1>1, <2>1, <2>2
  <2>4. \A i, j \in Positions' : i # j => <<i, j>> \in DOMAIN cnt'
    BY <1>1, <1>3, <2>2
  <2>5. DOMAIN cnt' \subseteq {e \in Positions' \X Positions' : e[1] # e[2]}
    BY <1>1, <1>3, <2>3
  <2>6. {e \in Positions' \X Positions' : e[1] # e[2]} \subseteq DOMAIN cnt'
    BY <2>4
  <2> QED
    BY <2>5, <2>6
<1>5. \A i, j \in Positions' : i # j => states'[i] # states'[j]
  <2>1. \A i \in Positions : states'[i] # s
    BY <1>1 DEF Known
  <2>2. \A i, j \in Positions : i # j => states'[i] # states'[j]
    BY <1>1 DEF IInv, GraphComplete
  <2> QED
    BY <1>1, <2>1, <2>2
<1>6. cur' \in 0 .. Len(states') /\ cur' # 0
  BY <1>1
<1>7. time_state_changed' \in 0 .. Never
  BY <1>1, TimesOK
<1>8. TypeOK'
  BY <1>1, <1>4, <1>6, <1>7 DEF TypeOK
<1>9. GraphComplete'
  BY <1>4, <1>5, <1>6 DEF GraphComplete
<1> QED
  BY <1>8, <1>9 DEF IInv

LEMMA ResetKeepsIInv ==
  ASSUME IInv, history_fsm_reset_transitions
  PROVE  IInv'
<1>1. /\ cnt \in [DOMAIN cnt -> [Words -> Nat]]
      /\ UNCHANGED <<states, cur, time_state_changed>>
  BY DEF IInv, TypeOK, history_fsm_reset_transitions
<1>2. /\ DOMAIN cnt' = DOMAIN cnt
      /\ cnt' \in [DOMAIN cnt -> [Words -> Nat]]
      /\ total_count' \in [DOMAIN cnt -> Nat]
  BY <1>1 DEF history_fsm_reset_transitions
<1>3. Positions' = Positions
  BY <1>1 DEF Positions
<1>4. TypeOK'
  BY <1>1, <1>2, <1>3 DEF IInv, TypeOK
<1>5. GraphComplete'
  BY <1>1, <1>2, <1>3 DEF IInv, GraphComplete
<1> QED
  BY <1>4, <1>5 DEF IInv

LEMMA NextIInv == IInv /\ [Next]_vars => IInv'
<1> SUFFICES ASSUME IInv, [Next]_vars PROVE IInv'
  OBVIOUS
<1>1. CASE UNCHANGED vars
  BY <1>1 DEF vars, IInv, TypeOK, GraphComplete, Positions
<1>2. CASE history_fsm_reset_transitions
  BY <1>2, ResetKeepsIInv
<1>3. ASSUME NEW s \in UserStates, NEW t \in Times, Observe(s, t)
      PROVE  IInv'
  <2>1. CASE SameState(s) \/ IgnoreChange(s, t)
    BY <1>1, <2>1 DEF SameState, IgnoreChange
  <2> QED
    BY <1>3, <2>1, ChangeStateKeepsIInv, AddFirstStateKeepsIInv, AddStateKeepsIInv
    DEF Observe
<1> QED
  BY <1>1, <1>2, <1>3 DEF Next

LEMMA Invariance == Spec => []IInv
  BY InitIInv, NextIInv, PTL DEF Spec

\* The graph of transitions is well typed, whatever is observed.
THEOREM TypeCorrect == Spec => []TypeOK
  BY Invariance, PTL DEF IInv

\* A state is never added twice, and every pair of states has its two
\* transitions: looking for the new state among the transitions of the current
\* one (history_fsm.c:141) is enough to know whether it was ever seen.
THEOREM GraphIsComplete == Spec => []GraphComplete
  BY Invariance, PTL DEF IInv

(***************************************************************************)
(* The counters of DwellTimes.                                             *)
(***************************************************************************)
\* The only position of an element is the one that is chosen.
LEMMA OnePositionOf ==
  ASSUME NEW list, NEW i \in 1..Len(list), NEW x, list[i] = x,
         \A k, l \in 1..Len(list) : k # l => list[k] # list[l]
  PROVE  (CHOOSE k \in 1..Len(list) : list[k] = x) = i
OBVIOUS

LEMMA PositionOf ==
  ASSUME IInv, NEW i \in Positions
  PROVE  Known(states[i]) /\ Position(states[i]) = i
BY OnePositionOf DEF IInv, GraphComplete, Positions, Known, Position

Hit(s, t, a, b, k) ==
  /\ time_state_changed # Never
  /\ a = states[cur] /\ b = s
  /\ k = history_fsm_entry(timer_diff(t))

\* What a recorded change of state does to the abstract counters.
Recorded(s, t) ==
  /\ cur \in Positions /\ states[cur] # s /\ ~TooEarly(t)
  /\ cur' # 0 /\ states'[cur'] = s /\ time_state_changed' = t
  /\ \A a, b \in UserStates, k \in Entries :
       Cell(a, b, k)' = IF Hit(s, t, a, b, k) THEN Cell(a, b, k) + 1 ELSE Cell(a, b, k)

LEMMA EnterCell ==
  ASSUME NEW j, NEW t, NEW edges, Enter(j, t, edges), NEW e \in edges, NEW k \in Words
  PROVE  cnt'[e][k] = IF Counts(e, j) /\ k = history_fsm_entry(timer_diff(t))
                      THEN Histogram(e)[k] + 1 ELSE Histogram(e)[k]
BY DEF Enter

LEMMA EntriesAreWords == Entries \subseteq Words
BY ConstantsOK DEF Entries, Words

LEMMA ChangeStateRecords ==
  ASSUME IInv, NEW s \in UserStates, NEW t \in Times, ChangeState(s, t)
  PROVE  Recorded(s, t)
<1>1. PICK j \in Found(s) : Enter(j, t, DOMAIN cnt)
  BY DEF ChangeState
<1>2. cur # 0 /\ states[cur] # s /\ states' = states /\ ~TooEarly(t)
  BY DEF ChangeState
<1>3. j \in Positions /\ cur \in Positions /\ j # cur /\ states[j] = s
  BY <1>1, <1>2, FoundProperties
<1>4. cur' = j /\ time_state_changed' = t
  BY <1>1, EnterProperties
<1>5. j # 0
  BY <1>3 DEF Positions
<1>6. ASSUME NEW a \in UserStates, NEW b \in UserStates, NEW k \in Entries
      PROVE  Cell(a, b, k)' = IF Hit(s, t, a, b, k)
                              THEN Cell(a, b, k) + 1 ELSE Cell(a, b, k)
  <2>1. Known(a)' = Known(a) /\ Known(b)' = Known(b)
    BY <1>2 DEF Known, Positions
  <2>2. Position(a)' = Position(a) /\ Position(b)' = Position(b)
    BY <1>2 DEF Position, Positions
  <2>3. CASE Known(a) /\ Known(b) /\ a # b
    <3>1. PICK p \in Positions : states[p] = a /\ Position(a) = p
      BY <2>3, PositionOf DEF Known
    <3>2. PICK q \in Positions : states[q] = b /\ Position(b) = q
      BY <2>3, PositionOf DEF Known
    <3>3. p # q
      BY <2>3, <3>1, <3>2
    <3>4. <<p, q>> \in DOMAIN cnt
      BY <3>3 DEF IInv, GraphComplete
    <3>5. Counts(<<p, q>>, j) <=> time_state_changed # Never /\ a = states[cur] /\ b = s
      <4>1. p = cur <=> a = states[cur]
        BY <1>3, <3>1 DEF IInv, GraphComplete
      <4>2. q = j <=> b = s
        BY <1>3, <3>2 DEF IInv, GraphComplete
      <4> QED
        BY <4>1, <4>2 DEF Counts
    <3>6. cnt'[<<p, q>>][k] = IF Counts(<<p, q>>, j) /\ k = history_fsm_entry(timer_diff(t))
                              THEN cnt[<<p, q>>][k] + 1 ELSE cnt[<<p, q>>][k]
      BY <1>1, <3>4, EnterCell, EntriesAreWords DEF Histogram
    <3>7. Cell(a, b, k)' = cnt'[<<p, q>>][k] /\ Cell(a, b, k) = cnt[<<p, q>>][k]
      BY <2>1, <2>2, <2>3, <3>1, <3>2 DEF Cell
    <3> QED
      BY <3>5, <3>6, <3>7 DEF Hit
  <2>4. CASE ~(Known(a) /\ Known(b) /\ a # b)
    <3>1. Known(states[cur]) /\ Known(s)
      BY <1>3, PositionOf
    <3>2. ~Hit(s, t, a, b, k)
      BY <1>2, <2>4, <3>1 DEF Hit
    <3>3. Cell(a, b, k)' = 0 /\ Cell(a, b, k) = 0
      BY <2>1, <2>4 DEF Cell
    <3> QED
      BY <3>2, <3>3
  <2> QED
    BY <2>3, <2>4
<1> QED
  BY <1>2, <1>3, <1>4, <1>5, <1>6 DEF Recorded

LEMMA AddStateRecords ==
  ASSUME IInv, NEW s \in UserStates, NEW t \in Times, AddState(s, t)
  PROVE  Recorded(s, t)
<1> DEFINE n == Len(states) + 1
<1>1. /\ cur \in Positions /\ ~Known(s)
      /\ Len(states) \in Nat
      /\ \A i \in Positions : states'[i] = states[i] /\ i # n
      /\ states'[n] = s
      /\ Positions' = Positions \cup {n}
      /\ DOMAIN cnt' = DOMAIN cnt \cup NewEdges(n)
      /\ cur' = n
      /\ time_state_changed' = t
  BY AddStateProperties
<1>2. states[cur] # s /\ ~TooEarly(t) /\ Enter(n, t, DOMAIN cnt \cup NewEdges(n))
  BY DEF AddState
<1>3. cur' # 0
  BY <1>1
<1>4. IInv'
  BY AddStateKeepsIInv
<1>5. \A i, k \in Positions' : i # k => states'[i] # states'[k]
  BY <1>4 DEF IInv, GraphComplete
<1>6. ASSUME NEW x, NEW i \in Positions', states'[i] = x
      PROVE  Known(x)' /\ Position(x)' = i
  <2>1. i \in 1..Len(states') /\ \A k, l \in 1..Len(states') : k # l => states'[k] # states'[l]
    BY <1>5, <1>6 DEF Positions
  <2>2. (CHOOSE k \in 1..Len(states') : states'[k] = x) = i
    BY <1>6, <2>1, OnePositionOf
  <2> QED
    BY <1>6, <2>2 DEF Known, Position, Positions
<1>7. ASSUME NEW x, NEW i \in Positions, states[i] = x
      PROVE  Known(x)' /\ Position(x)' = i
  BY <1>1, <1>6, <1>7
<1>8. Known(s)' /\ Position(s)' = n
  BY <1>1, <1>6
<1>9. \A a : Known(a)' => Known(a) \/ a = s
  BY <1>1 DEF Known
<1>10. \A i \in Positions : <<i, n>> \in NewEdges(n) /\ <<n, i>> \in NewEdges(n)
  BY <1>1 DEF NewEdges, Positions
<1>11. \A i \in Positions : <<i, n>> \notin DOMAIN cnt /\ <<n, i>> \notin DOMAIN cnt
  BY <1>1 DEF IInv, GraphComplete
<1>12. ASSUME NEW a \in UserStates, NEW b \in UserStates, NEW k \in Entries
       PROVE  Cell(a, b, k)' = IF Hit(s, t, a, b, k)
                               THEN Cell(a, b, k) + 1 ELSE Cell(a, b, k)
  <2>1. k \in Words
    BY EntriesAreWords
  <2>2. CASE Known(a) /\ Known(b) /\ a # b
    <3>1. PICK p \in Positions : states[p] = a /\ Position(a) = p
      BY <2>2, PositionOf DEF Known
    <3>2. PICK q \in Positions : states[q] = b /\ Position(b) = q
      BY <2>2, PositionOf DEF Known
    <3>3. <<p, q>> \in DOMAIN cnt
      BY <2>2, <3>1, <3>2 DEF IInv, GraphComplete
    <3>4. ~Counts(<<p, q>>, n)
      BY <1>1, <3>2 DEF Counts
    <3>5. cnt'[<<p, q>>][k] = cnt[<<p, q>>][k]
      BY <1>2, <2>1, <3>3, <3>4, EnterCell DEF Histogram
    <3>6. Cell(a, b, k)' = cnt'[<<p, q>>][k] /\ Cell(a, b, k) = cnt[<<p, q>>][k]
      BY <1>7, <2>2, <3>1, <3>2 DEF Cell
    <3>7. ~Hit(s, t, a, b, k)
      BY <1>1, <2>2 DEF Hit
    <3> QED
      BY <3>5, <3>6, <3>7
  <2>3. CASE Known(a) /\ b = s
    <3>1. PICK p \in Positions : states[p] = a
      BY <2>3 DEF Known
    <3>2. Cell(a, b, k) = 0
      BY <1>1, <2>3 DEF Cell
    <3>3. Cell(a, b, k)' = cnt'[<<p, n>>][k]
      <4>1. a # b
        BY <1>1, <2>3
      <4> QED
        BY <1>7, <1>8, <2>3, <3>1, <4>1 DEF Cell
    <3>4. cnt'[<<p, n>>][k] = IF Counts(<<p, n>>, n) /\ k = history_fsm_entry(timer_diff(t))
                              THEN 1 ELSE 0
      <4>1. Histogram(<<p, n>>) = [i \in Words |-> 0]
        BY <1>11 DEF Histogram
      <4>2. <<p, n>> \in DOMAIN cnt \cup NewEdges(n)
        BY <1>10
      <4>3. cnt'[<<p, n>>][k] = IF Counts(<<p, n>>, n) /\ k = history_fsm_entry(timer_diff(t))
                                THEN Histogram(<<p, n>>)[k] + 1
                                ELSE Histogram(<<p, n>>)[k]
        BY <1>2, <2>1, <4>2, EnterCell
      <4>4. Histogram(<<p, n>>)[k] = 0
        BY <2>1, <4>1
      <4> QED
        BY <4>3, <4>4
    <3>5. Counts(<<p, n>>, n) <=> time_state_changed # Never /\ a = states[cur]
      <4>1. p = cur <=> a = states[cur]
        BY <1>1, <3>1 DEF IInv, GraphComplete
      <4> QED
        BY <4>1 DEF Counts
    <3> QED
      BY <2>3, <3>2, <3>3, <3>4, <3>5 DEF Hit
  <2>4. CASE a = s /\ Known(b)
    <3>1. PICK q \in Positions : states[q] = b
      BY <2>4 DEF Known
    <3>2. Cell(a, b, k) = 0
      BY <1>1, <2>4 DEF Cell
    <3>3. Cell(a, b, k)' = cnt'[<<n, q>>][k]
      <4>1. a # b
        BY <1>1, <2>4
      <4> QED
        BY <1>7, <1>8, <2>4, <3>1, <4>1 DEF Cell
    <3>4. Histogram(<<n, q>>) = [i \in Words |-> 0] /\ ~Counts(<<n, q>>, n)
      BY <1>1, <1>11 DEF Histogram, Counts
    <3>5. cnt'[<<n, q>>][k] = 0
      <4>1. <<n, q>> \in DOMAIN cnt \cup NewEdges(n)
        BY <1>10
      <4>2. cnt'[<<n, q>>][k] = Histogram(<<n, q>>)[k]
        BY <1>2, <2>1, <3>4, <4>1, EnterCell
      <4> QED
        BY <2>1, <3>4, <4>2
    <3>6. ~Hit(s, t, a, b, k)
      BY <1>1, <2>4 DEF Hit
    <3> QED
      BY <3>2, <3>3, <3>5, <3>6
  <2>5. CASE a = b \/ ~(Known(a) \/ a = s) \/ ~(Known(b) \/ b = s)
    <3>1. Cell(a, b, k) = 0
      BY <2>5 DEF Cell
    <3>2. Cell(a, b, k)' = 0
      BY <1>9, <2>5 DEF Cell
    <3>3. Known(states[cur])
      BY <1>1, PositionOf
    <3>4. ~Hit(s, t, a, b, k)
      BY <1>2, <2>5, <3>3 DEF Hit
    <3> QED
      BY <3>1, <3>2, <3>4
  <2> QED
    BY <2>2, <2>3, <2>4, <2>5
<1> QED
  BY <1>1, <1>2, <1>3, <1>12 DEF Recorded

(***************************************************************************)
(* The history FSM implements DwellTimes.                                  *)
(***************************************************************************)
\* A stay is put where the abstract bucket is, unless it is lost.
LEMMA EntryOfStay ==
  ASSUME IInv, NEW t \in Times, time_state_changed # Never, ~TooEarly(t)
  PROVE  /\ t > time_state_changed + 1
         /\ history_fsm_entry(timer_diff(t))
              = IF (t - time_state_changed) \div transition_resolution_us
                     = history_fsm_entry_count
                THEN history_fsm_entry_count
                ELSE Dwell!Bucket(t - time_state_changed)
<1>1. t \in Nat /\ t < Never
  BY TimesOK, ConstantsOK
<1>2. time_state_changed \in Nat /\ time_state_changed < Never
  BY ConstantsOK DEF IInv, TypeOK
<1>3. (time_state_changed + 1) % TimeModulus = time_state_changed + 1
  BY <1>2, ConstantsOK
<1>4. t > time_state_changed + 1
  BY <1>1, <1>2, <1>3 DEF TooEarly
<1>5. timer_diff(t) = t - time_state_changed
  BY <1>1, <1>2, <1>4, ConstantsOK DEF timer_diff
<1>6. (t - time_state_changed) \div transition_resolution_us \in Nat
  BY <1>1, <1>2, <1>4, ConstantsOK
<1> QED
  BY <1>4, <1>5, <1>6, ConstantsOK DEF history_fsm_entry, Dwell!Bucket

LEMMA BucketIsEntry ==
  ASSUME NEW stay \in Nat
  PROVE  Dwell!Bucket(stay) \in Entries
<1>1. stay \div transition_resolution_us \in Nat
  BY ConstantsOK
<1> QED
  BY <1>1, ConstantsOK DEF Dwell!Bucket, Entries

LEMMA CountersOf ==
  ASSUME NEW a \in UserStates, NEW b \in UserStates, NEW k \in Entries
  PROVE  Counters[<<a, b, k>>] = Cell(a, b, k)
BY DEF Counters

LEMMA InitRefines == Init => Dwell!Init
<1> SUFFICES ASSUME Init PROVE Dwell!Init
  OBVIOUS
<1>1. cur = 0 /\ Positions = {}
  BY DEF Init, Positions
<1>2. \A a, b, k : Cell(a, b, k) = 0
  BY <1>1 DEF Cell, Known
<1>3. Counters = Dwell!Nothing
  BY <1>2 DEF Counters, Dwell!Nothing, Dwell!Cells, Entries
<1> QED
  BY <1>1, <1>3 DEF Dwell!Init, CurrentState, Since

LEMMA StutterRefines == UNCHANGED vars => UNCHANGED Dwell!vars
<1> SUFFICES ASSUME UNCHANGED vars PROVE UNCHANGED Dwell!vars
  OBVIOUS
<1>1. /\ states' = states /\ cnt' = cnt /\ cur' = cur
      /\ time_state_changed' = time_state_changed
  BY DEF vars
<1>2. CurrentState' = CurrentState /\ Since' = Since
  BY <1>1 DEF CurrentState, Since
<1>3. Counters' = Counters
  BY <1>1 DEF Counters, Cell, Known, Position, Positions
<1> QED
  BY <1>2, <1>3 DEF Dwell!vars

LEMMA AddFirstStateRefines ==
  ASSUME IInv, NEW s \in UserStates, AddFirstState(s)
  PROVE  Dwell!First(s)
<1>1. /\ states = << >> /\ states'[1] = s /\ Positions' = {1}
      /\ cur' = 1 /\ time_state_changed' = Never
  BY AddFirstStateProperties
<1>2. cur = 0
  BY DEF AddFirstState
<1>3. Positions = {}
  BY <1>1 DEF Positions
<1>4. ASSUME NEW a, NEW b, NEW k
      PROVE  Cell(a, b, k)' = Cell(a, b, k)
  <2>1. ~Known(a)
    BY <1>3 DEF Known
  <2>2. ~(Known(a)' /\ Known(b)' /\ a # b)
    BY <1>1 DEF Known
  <2> QED
    BY <2>1, <2>2 DEF Cell
<1>5. Counters' = Counters
  BY <1>4 DEF Counters
<1>6. CurrentState = NoState /\ CurrentState' = s /\ Since' = -1
  BY <1>1, <1>2 DEF CurrentState, Since
<1> QED
  BY <1>5, <1>6 DEF Dwell!First

LEMMA RecordedRefines ==
  ASSUME IInv, NEW s \in UserStates, NEW t \in Times, Recorded(s, t)
  PROVE  Dwell!Change(s, t)
<1> DEFINE entry == history_fsm_entry(timer_diff(t))
<1>1. /\ cur \in Positions /\ states[cur] # s /\ ~TooEarly(t)
      /\ cur' # 0 /\ states'[cur'] = s /\ time_state_changed' = t
  BY DEF Recorded
<1>2. ASSUME NEW a \in UserStates, NEW b \in UserStates, NEW k \in Entries
      PROVE  Cell(a, b, k)' = IF Hit(s, t, a, b, k)
                              THEN Cell(a, b, k) + 1 ELSE Cell(a, b, k)
  BY DEF Recorded
<1>3. cur # 0 /\ states[cur] \in UserStates
  BY <1>1 DEF IInv, TypeOK, Positions
<1>4. CurrentState = states[cur] /\ CurrentState' = s
  BY <1>1, <1>3 DEF CurrentState
<1>5. CurrentState \notin {NoState, s}
  BY <1>1, <1>3, <1>4, NoStateAssumption
<1>6. t \in Nat /\ t # Never
  BY TimesOK
<1>7. Since' = t
  BY <1>1, <1>6 DEF Since
<1>8. CASE time_state_changed = Never
  <2>1. Since = -1
    BY <1>8 DEF Since
  <2>2. (Never + 1) % TimeModulus = 0
    BY ConstantsOK
  <2>3. t > Since + 1
    BY <1>1, <1>6, <1>8, <2>1, <2>2 DEF TooEarly
  <2>4. \A a, b \in UserStates, k \in Entries : Cell(a, b, k)' = Cell(a, b, k)
    BY <1>2, <1>8 DEF Hit
  <2>5. Counters' = Counters
    BY <2>4 DEF Counters
  <2> QED
    BY <1>4, <1>5, <1>7, <2>1, <2>3, <2>5 DEF Dwell!Change
<1>9. CASE time_state_changed # Never
  <2> DEFINE stay == t - time_state_changed
  <2>1. Since = time_state_changed /\ Since \in Nat
    BY <1>3, <1>9, ConstantsOK DEF Since, IInv, TypeOK
  <2>2. t > Since + 1
    BY <1>1, <1>9, <2>1, EntryOfStay
  <2>3. stay \in Nat
    BY <1>6, <2>1, <2>2
  <2>4. CASE stay \div transition_resolution_us = history_fsm_entry_count
    <3>1. entry = history_fsm_entry_count
      BY <1>1, <1>9, <2>4, EntryOfStay
    <3>2. entry \notin Entries
      BY <3>1, ConstantsOK DEF Entries
    <3>3. \A a, b \in UserStates, k \in Entries : Cell(a, b, k)' = Cell(a, b, k)
      BY <1>2, <3>2 DEF Hit
    <3>4. Counters' = Counters
      BY <3>3 DEF Counters
    <3> QED
      BY <1>4, <1>5, <1>7, <2>1, <2>2, <2>4, <3>4 DEF Dwell!Change
  <2>5. CASE stay \div transition_resolution_us # history_fsm_entry_count
    <3> DEFINE hit == <<states[cur], s, Dwell!Bucket(stay)>>
    <3>1. entry = Dwell!Bucket(stay)
      BY <1>1, <1>9, <2>5, EntryOfStay
    <3>2. ASSUME NEW a \in UserStates, NEW b \in UserStates, NEW k \in Entries
          PROVE  Cell(a, b, k)' = IF <<a, b, k>> = hit
                                  THEN Cell(a, b, k) + 1 ELSE Cell(a, b, k)
      BY <1>2, <1>9, <3>1 DEF Hit
    <3>3. Counters' = [c \in UserStates \X UserStates \X Entries |->
                         IF c = hit THEN Counters[c] + 1 ELSE Counters[c]]
      BY <3>2 DEF Counters
    <3>4. Counters' = [Counters EXCEPT ![hit] = @ + 1]
      BY <3>3 DEF Counters
    <3>5. Counters' = [Counters EXCEPT ![<<CurrentState, s, Dwell!Bucket(t - Since)>>] = @ + 1]
      BY <1>4, <2>1, <3>4
    <3> QED
      BY <1>4, <1>5, <1>7, <2>1, <2>2, <2>5, <3>5 DEF Dwell!Change
  <2> QED
    BY <2>4, <2>5
<1> QED
  BY <1>8, <1>9

LEMMA ResetRefines ==
  ASSUME IInv, history_fsm_reset_transitions
  PROVE  Dwell!Forget
<1>1. /\ cnt' = [e \in DOMAIN cnt |->
                   [i \in Words |-> IF i \in Entries THEN 0 ELSE cnt[e][i]]]
      /\ states' = states /\ cur' = cur /\ time_state_changed' = time_state_changed
  BY DEF history_fsm_reset_transitions
<1>2. ASSUME NEW a, NEW b, NEW k \in Entries
      PROVE  Cell(a, b, k)' = 0
  <2>1. Known(a)' = Known(a) /\ Known(b)' = Known(b)
    BY <1>1 DEF Known, Positions
  <2>2. Position(a)' = Position(a) /\ Position(b)' = Position(b)
    BY <1>1 DEF Position, Positions
  <2>3. CASE Known(a) /\ Known(b) /\ a # b
    <3>1. PICK p \in Positions : states[p] = a /\ Position(a) = p
      BY <2>3, PositionOf DEF Known
    <3>2. PICK q \in Positions : states[q] = b /\ Position(b) = q
      BY <2>3, PositionOf DEF Known
    <3>3. <<p, q>> \in DOMAIN cnt
      BY <2>3, <3>1, <3>2 DEF IInv, GraphComplete
    <3>4. cnt'[<<p, q>>][k] = 0
      BY <1>1, <3>3, EntriesAreWords
    <3> QED
      BY <2>1, <2>2, <2>3, <3>1, <3>2, <3>4 DEF Cell
  <2> QED
    BY <2>1, <2>3 DEF Cell
<1>3. Counters' = Dwell!Nothing
  BY <1>2 DEF Counters, Dwell!Nothing, Dwell!Cells, Entries
<1>4. CurrentState' = CurrentState /\ Since' = Since
  BY <1>1 DEF CurrentState, Since
<1> QED
  BY <1>3, <1>4 DEF Dwell!Forget

LEMMA NextRefines ==
  ASSUME IInv, [Next]_vars
  PROVE  [Dwell!Next]_(Dwell!vars)
<1>1. ASSUME NEW s \in UserStates, NEW t \in Times, Observe(s, t)
      PROVE  Dwell!Next \/ UNCHANGED Dwell!vars
  <2>1. CASE SameState(s) \/ IgnoreChange(s, t)
    BY <2>1, StutterRefines DEF SameState, IgnoreChange
  <2>2. CASE ChangeState(s, t) \/ AddState(s, t)
    BY <2>2, ChangeStateRecords, AddStateRecords, RecordedRefines DEF Dwell!Next
  <2>3. CASE AddFirstState(s)
    BY <2>3, AddFirstStateRefines DEF Dwell!Next
  <2> QED
    BY <1>1, <2>1, <2>2, <2>3 DEF Observe
<1>2. CASE history_fsm_reset_transitions
  BY <1>2, ResetRefines DEF Dwell!Next
<1>3. CASE UNCHANGED vars
  BY <1>3, StutterRefines
<1> QED
  BY <1>1, <1>2, <1>3 DEF Next

\* Every behaviour of the history FSM is one of DwellTimes: what
\* history_fsm_state_changed and history_fsm_state_add leave in the histograms
\* are the times spent in each state before the next, but for the stays
\* that the test of history_fsm_entry lets fall behind the last entry.
THEOREM CountsDwellTimes == Spec => DwellSpec
<1>1. Init => Dwell!Init
  BY InitRefines
<1>2. IInv /\ [Next]_vars => [Dwell!Next]_(Dwell!vars)
  BY NextRefines
<1> QED
  BY <1>1, <1>2, Invariance, PTL DEF Spec, DwellSpec, Dwell!Spec

(***************************************************************************)
(* The total of a transition and the sum of its histogram.                 *)
(***************************************************************************)
Sums == INSTANCE FoldTheorems
  WITH Op <- +, Base <- 0, Pick <- LAMBDA s : CHOOSE x \in s : TRUE, D <- Nat

SumOf(f, S) == MapThenSumSet(LAMBDA i : f[i], S)

LEMMA SumIs ==
  ASSUME NEW f, NEW S, IsFiniteSet(S), \A x \in S : f[x] \in Nat
  PROVE  /\ SumOf(f, S) \in Nat
         /\ S = {} => SumOf(f, S) = 0
         /\ \A x \in S : SumOf(f, S) = f[x] + SumOf(f, S \ {x})
<1>1. \A T : SumOf(f, T) = Sums!FoldOn(f, T)
  BY DEF SumOf, MapThenSumSet, Sums!FoldOn, MapThenFoldSet, Sums!MapThenFoldSet
<1>2. Sums!Picks(S) /\ Sums!Commutes
  BY DEF Sums!Picks, Sums!Commutes
<1>3. Sums!IsFiniteSet(S)
  BY DEF IsFiniteSet, Sums!IsFiniteSet
<1>4. S = {} => Sums!FoldOn(f, S) = 0
  BY Sums!FoldEmpty
<1>5. /\ Sums!FoldOn(f, S) \in Nat
      /\ \A x \in S : Sums!FoldOn(f, S) = f[x] + Sums!FoldOn(f, S \ {x})
  BY <1>2, <1>3, Sums!FoldAny
<1> QED
  BY <1>1, <1>4, <1>5

LEMMA SumSame ==
  ASSUME NEW f, NEW g, NEW S, IsFiniteSet(S), \A x \in S : f[x] = g[x]
  PROVE  SumOf(f, S) = SumOf(g, S)
<1>1. \A h : SumOf(h, S) = Sums!FoldOn(h, S)
  BY DEF SumOf, MapThenSumSet, Sums!FoldOn, MapThenFoldSet, Sums!MapThenFoldSet
<1>2. Sums!Picks(S) /\ Sums!IsFiniteSet(S)
  BY DEF Sums!Picks, IsFiniteSet, Sums!IsFiniteSet
<1>3. Sums!FoldOn(f, S) = Sums!FoldOn(g, S)
  BY <1>2, Sums!FoldSame
<1> QED
  BY <1>1, <1>3

LEMMA SumZero ==
  ASSUME NEW f, NEW S, IsFiniteSet(S), \A x \in S : f[x] = 0
  PROVE  SumOf(f, S) = 0
<1> DEFINE bad == {T \in SUBSET S : SumOf(f, T) # 0}
<1> SUFFICES ASSUME bad # {} PROVE FALSE
  OBVIOUS
<1>1. \A T \in SUBSET S : IsFiniteSet(T)
  BY FS_Subset
<1>2. PICK T \in bad : \A U \in bad : Cardinality(T) <= Cardinality(U)
  <2>1. \A U \in bad : Sums!IsFiniteSet(U)
    BY <1>1 DEF IsFiniteSet, Sums!IsFiniteSet
  <2>2. \E T \in bad : \A U \in bad : Sums!Cardinality(T) <= Sums!Cardinality(U)
    BY <2>1, Sums!SmallestSet
  <2> QED
    BY <2>2 DEF Cardinality, Sums!Cardinality
<1>3. IsFiniteSet(T) /\ \A x \in T : f[x] \in Nat /\ f[x] = 0
  BY <1>1
<1>4. T # {}
  BY <1>3, SumIs
<1>5. PICK x \in T : TRUE
  BY <1>4
<1>6. SumOf(f, T) = SumOf(f, T \ {x})
  <2>1. /\ SumOf(f, T) = f[x] + SumOf(f, T \ {x})
        /\ \A y \in T \ {x} : f[y] \in Nat
        /\ IsFiniteSet(T \ {x})
    BY <1>1, <1>3, <1>5, SumIs
  <2>2. SumOf(f, T \ {x}) \in Nat
    BY <2>1, SumIs
  <2> QED
    BY <1>3, <1>5, <2>1, <2>2
<1>7. Cardinality(T \ {x}) \in Nat /\ Cardinality(T) = Cardinality(T \ {x}) + 1
  <2>1. IsFiniteSet(T \ {x}) /\ Cardinality(T \ {x}) = Cardinality(T) - 1 /\ Cardinality(T) \in Nat
    BY <1>3, <1>5, FS_RemoveElement, FS_CardinalityType
  <2> QED
    BY <2>1, FS_CardinalityType
<1> QED
  BY <1>2, <1>5, <1>6, <1>7

LEMMA SumOneMore ==
  ASSUME NEW f, NEW g, NEW S, IsFiniteSet(S), NEW k \in S, \A x \in S : f[x] \in Nat,
         g[k] = f[k] + 1, \A x \in S : x # k => g[x] = f[x]
  PROVE  SumOf(g, S) = SumOf(f, S) + 1
<1>1. \A x \in S : g[x] \in Nat
  OBVIOUS
<1>2. SumOf(f, S) = f[k] + SumOf(f, S \ {k}) /\ SumOf(g, S) = g[k] + SumOf(g, S \ {k})
  BY <1>1, SumIs
<1>3. IsFiniteSet(S \ {k})
  BY FS_Subset
<1>4. SumOf(f, S \ {k}) = SumOf(g, S \ {k})
  BY <1>3, SumSame
<1>5. SumOf(f, S \ {k}) \in Nat
  BY <1>3, SumIs
<1> QED
  BY <1>2, <1>4, <1>5

LEMMA TotalsAre ==
  /\ TotalsAddUp <=>
       \A e \in DOMAIN cnt :
         /\ SumOf(cnt[e], Entries) <= total_count[e]
         /\ cnt[e][history_fsm_entry_count] = 0 => SumOf(cnt[e], Entries) = total_count[e]
  /\ TotalsAddUp' <=>
       \A e \in DOMAIN cnt' :
         /\ SumOf(cnt'[e], Entries) <= total_count'[e]
         /\ cnt'[e][history_fsm_entry_count] = 0 => SumOf(cnt'[e], Entries) = total_count'[e]
<1> DEFINE S(e) == MapThenSumSet(LAMBDA i : cnt[e][i], Entries)
<1>1. \A e : SumOf(cnt[e], Entries) = S(e) /\ SumOf(cnt'[e], Entries) = S(e)'
  BY DEF SumOf, MapThenSumSet, MapThenFoldSet, Entries, history_fsm_entry_count
<1>2. /\ TotalsAddUp <=>
           \A e \in DOMAIN cnt :
             /\ S(e) <= total_count[e]
             /\ cnt[e][history_fsm_entry_count] = 0 => S(e) = total_count[e]
      /\ TotalsAddUp' <=>
           \A e \in DOMAIN cnt' :
             /\ S(e)' <= total_count'[e]
             /\ cnt'[e][history_fsm_entry_count] = 0 => S(e)' = total_count'[e]
  BY DEF TotalsAddUp, history_fsm_entry_count
<1> HIDE DEF S
<1> QED
  BY <1>1, <1>2

LEMMA EntriesFinite == IsFiniteSet(Entries) /\ Entries \subseteq Words /\ Words = Entries \cup {history_fsm_entry_count}
<1>1. IsFiniteSet(Entries)
  BY ConstantsOK, FS_Interval DEF Entries
<1> QED
  BY <1>1, ConstantsOK DEF Entries, Words

LEMMA EntryIsWord ==
  ASSUME IInv, NEW t \in Times
  PROVE  history_fsm_entry(timer_diff(t)) \in Words
<1> DEFINE stay == timer_diff(t)
           i == stay \div transition_resolution_us
<1>1. stay \in Nat
  BY ConstantsOK, TimesOK DEF IInv, TypeOK, timer_diff
<1> HIDE DEF stay
<1>2. i \in Nat
  BY <1>1, ConstantsOK
<1>3. history_fsm_entry(stay) = IF i > history_fsm_entry_count THEN history_fsm_entry_count - 1 ELSE i
  BY DEF history_fsm_entry
<1> HIDE DEF i
<1> QED
  BY <1>2, <1>3, ConstantsOK DEF stay, Words

\* A histogram h with its total m adds up.
AddsUp(h, m) ==
  /\ SumOf(h, Entries) <= m
  /\ h[history_fsm_entry_count] = 0 => SumOf(h, Entries) = m

LEMMA NewTransitionAddsUp == AddsUp([i \in Words |-> 0], 0)
<1>1. SumOf([i \in Words |-> 0], Entries) = 0
  BY EntriesFinite, SumZero
<1> QED
  BY <1>1 DEF AddsUp

LEMMA SameAddsUp ==
  ASSUME NEW h, NEW g, NEW m, AddsUp(h, m), \A i \in Words : g[i] = h[i]
  PROVE  AddsUp(g, m)
<1>1. SumOf(g, Entries) = SumOf(h, Entries)
  BY EntriesFinite, SumSame
<1>2. g[history_fsm_entry_count] = h[history_fsm_entry_count]
  BY EntriesFinite
<1> QED
  BY <1>1, <1>2 DEF AddsUp

LEMMA CountedAddsUp ==
  ASSUME NEW h \in [Words -> Nat], NEW m \in Nat, AddsUp(h, m), NEW k \in Words
  PROVE  AddsUp([i \in Words |-> IF i = k THEN h[i] + 1 ELSE h[i]], m + 1)
<1> DEFINE g == [i \in Words |-> IF i = k THEN h[i] + 1 ELSE h[i]]
<1>1. g[k] = h[k] + 1 /\ \A i \in Words : i # k => g[i] = h[i]
  OBVIOUS
<1>2. \A i \in Entries : h[i] \in Nat
  BY EntriesFinite
<1>3. SumOf(h, Entries) \in Nat
  BY <1>2, EntriesFinite, SumIs
<1> HIDE DEF g
<1>4. CASE k \in Entries
  <2>1. SumOf(g, Entries) = SumOf(h, Entries) + 1
    BY <1>1, <1>2, <1>4, EntriesFinite, SumOneMore
  <2>2. g[history_fsm_entry_count] = h[history_fsm_entry_count]
    BY <1>1, <1>4, ConstantsOK, EntriesFinite DEF Entries
  <2> QED
    BY <1>3, <2>1, <2>2 DEF AddsUp, g
<1>5. CASE k = history_fsm_entry_count
  <2>1. \A i \in Entries : g[i] = h[i]
    BY <1>1, <1>5, ConstantsOK, EntriesFinite DEF Entries
  <2>2. SumOf(g, Entries) = SumOf(h, Entries)
    BY <2>1, EntriesFinite, SumSame
  <2>3. g[history_fsm_entry_count] # 0
    BY <1>1, <1>5, EntriesFinite
  <2> QED
    BY <1>3, <2>2, <2>3 DEF AddsUp, g
<1> QED
  BY <1>4, <1>5, EntriesFinite

LEMMA EnterTotals ==
  ASSUME IInv, TotalsAddUp, NEW j, NEW t \in Times, NEW edges, Enter(j, t, edges)
  PROVE  TotalsAddUp'
<1>1. DOMAIN cnt' = edges
  BY EnterProperties
<1>2. ASSUME NEW e \in edges PROVE AddsUp(cnt'[e], total_count'[e])
  <2> DEFINE h == Histogram(e)
             m == Total(e)
             k == history_fsm_entry(timer_diff(t))
  <2>1. h \in [Words -> Nat] /\ m \in Nat
    BY DEF IInv, TypeOK, Histogram, Total
  <2>2. AddsUp(h, m)
    BY NewTransitionAddsUp, TotalsAre DEF Histogram, Total, AddsUp
  <2>3. k \in Words
    BY EntryIsWord
  <2>4. /\ cnt'[e] = [i \in Words |-> IF Counts(e, j) /\ i = k THEN h[i] + 1 ELSE h[i]]
        /\ total_count'[e] = IF Counts(e, j) THEN m + 1 ELSE m
    BY DEF Enter
  <2> HIDE DEF h, m, k
  <2>5. CASE Counts(e, j)
    <3>1. cnt'[e] = [i \in Words |-> IF i = k THEN h[i] + 1 ELSE h[i]]
      BY <2>4, <2>5
    <3> QED
      BY <2>1, <2>2, <2>3, <2>4, <2>5, <3>1, CountedAddsUp
  <2>6. CASE ~Counts(e, j)
    <3>1. \A i \in Words : cnt'[e][i] = h[i]
      BY <2>4, <2>6
    <3> QED
      BY <2>2, <2>4, <2>6, <3>1, SameAddsUp
  <2> QED
    BY <2>5, <2>6
<1> QED
  BY <1>1, <1>2, TotalsAre DEF AddsUp

LEMMA ResetTotals ==
  ASSUME IInv, history_fsm_reset_transitions
  PROVE  TotalsAddUp'
<1>1. DOMAIN cnt' = DOMAIN cnt
  BY DEF history_fsm_reset_transitions
<1>2. ASSUME NEW e \in DOMAIN cnt PROVE AddsUp(cnt'[e], total_count'[e])
  <2>1. /\ \A i \in Entries : cnt'[e][i] = 0
        /\ total_count'[e] = 0
    BY EntriesFinite DEF history_fsm_reset_transitions
  <2>2. SumOf(cnt'[e], Entries) = 0
    BY <2>1, EntriesFinite, SumZero
  <2> QED
    BY <2>1, <2>2 DEF AddsUp
<1> QED
  BY <1>1, <1>2, TotalsAre DEF AddsUp

LEMMA TotalsStep ==
  ASSUME IInv, TotalsAddUp, [Next]_vars
  PROVE  TotalsAddUp'
<1>1. CASE UNCHANGED <<cnt, total_count>>
  BY <1>1, TotalsAre
<1>2. ASSUME NEW s \in UserStates, NEW t \in Times, ChangeState(s, t) \/ AddState(s, t)
      PROVE  TotalsAddUp'
  BY <1>2, EnterTotals DEF ChangeState, AddState
<1> QED
  BY <1>1, <1>2, ResetTotals
  DEF Next, vars, Observe, SameState, IgnoreChange, AddFirstState

\* The total of every transition is the sum of its histogram, unless a stay
\* was counted in the word behind it (history_fsm.c, history_fsm_entry and
\* history_fsm_reset_transitions).
THEOREM TotalsAlwaysAddUp == Spec => []TotalsAddUp
<1>1. Init => TotalsAddUp
  BY TotalsAre DEF Init
<1>2. IInv /\ TotalsAddUp /\ [Next]_vars => TotalsAddUp'
  BY TotalsStep
<1> QED
  BY <1>1, <1>2, Invariance, PTL DEF Spec

(***************************************************************************)
(* The density files.                                                      *)
(***************************************************************************)
Files == [lines : Seq(Int), last_printed : BOOLEAN]

\* What is left out behind line k, up to the entry where the next one is, says
\* the same.
Repeats(s, lines, k, next) == \A i \in lines[k] .. next - 1 : Line(s, i) = Line(s, lines[k])

\* The file after n entries, of which there was at least one.
Readable(s, file, n) ==
  /\ file.lines # << >> /\ file.lines[1] = 0
  /\ \A k \in 1 .. Len(file.lines) : file.lines[k] \in 0 .. n - 1
  /\ \A k \in 1 .. Len(file.lines) - 1 :
       /\ file.lines[k] <= file.lines[k + 1]
       /\ Repeats(s, file.lines, k, file.lines[k + 1])
       /\ file.lines[k + 1] > file.lines[k] + 1
            => Line(s, file.lines[k + 1]) = Line(s, file.lines[k])
  /\ Repeats(s, file.lines, Len(file.lines), n)
  /\ file.last_printed => file.lines[Len(file.lines)] = n - 1

Same(s, i) == Line(s, i) = Line(s, i - 1)

LEMMA FileOf ==
  ASSUME NEW lines \in Seq(Int), NEW b \in BOOLEAN, NEW f,
         f = [lines |-> lines, last_printed |-> b]
  PROVE  f \in Files /\ f.lines = lines /\ f.last_printed = b
BY DEF Files

LEMMA PrintFirst ==
  ASSUME NEW s, NEW file \in Files
  PROVE  /\ PrintLine(file, s, 0) \in Files
         /\ PrintLine(file, s, 0).lines = <<0>>
         /\ PrintLine(file, s, 0).last_printed = file.last_printed
<1> DEFINE f == PrintLine(file, s, 0)
<1>1. f = [lines |-> <<0>>, last_printed |-> file.last_printed]
  BY DEF PrintLine, Files
<1>2. <<0>> \in Seq(Int) /\ file.last_printed \in BOOLEAN
  BY DEF Files
<1> HIDE DEF f
<1>3. f \in Files /\ f.lines = <<0>> /\ f.last_printed = file.last_printed
  BY <1>1, <1>2, FileOf
<1> QED
  BY <1>3 DEF f

LEMMA PrintSame ==
  ASSUME NEW s, NEW file \in Files, NEW i \in Int, i # 0, Same(s, i)
  PROVE  /\ PrintLine(file, s, i) \in Files
         /\ PrintLine(file, s, i).lines = file.lines
         /\ PrintLine(file, s, i).last_printed = FALSE
<1> DEFINE f == PrintLine(file, s, i)
<1>1. f = [lines |-> file.lines, last_printed |-> FALSE]
  BY DEF PrintLine, LeftOut, Files, Same
<1>2. file.lines \in Seq(Int) /\ FALSE \in BOOLEAN
  BY DEF Files
<1> HIDE DEF f
<1>3. f \in Files /\ f.lines = file.lines /\ f.last_printed = FALSE
  BY <1>1, <1>2, FileOf
<1> QED
  BY <1>3 DEF f

LEMMA PrintNext ==
  ASSUME NEW s, NEW file \in Files, NEW i \in Int, i # 0, ~Same(s, i), file.last_printed
  PROVE  /\ PrintLine(file, s, i) \in Files
         /\ PrintLine(file, s, i).lines = file.lines \o <<i>>
         /\ PrintLine(file, s, i).last_printed = TRUE
<1> DEFINE f == PrintLine(file, s, i)
<1>1. f = [lines |-> file.lines \o <<i>>, last_printed |-> TRUE]
  BY DEF PrintLine, Same
<1>2. file.lines \o <<i>> \in Seq(Int) /\ TRUE \in BOOLEAN
  <2>1. file.lines \in Seq(Int) /\ <<i>> \in Seq(Int)
    BY DEF Files
  <2> QED
    BY <2>1, ConcatProperties
<1> HIDE DEF f
<1>3. f \in Files /\ f.lines = file.lines \o <<i>> /\ f.last_printed = TRUE
  BY <1>1, <1>2, FileOf
<1> QED
  BY <1>3 DEF f

LEMMA PrintBoth ==
  ASSUME NEW s, NEW file \in Files, NEW i \in Int, i # 0, ~Same(s, i), ~file.last_printed
  PROVE  /\ PrintLine(file, s, i) \in Files
         /\ PrintLine(file, s, i).lines = file.lines \o <<i - 1, i>>
         /\ PrintLine(file, s, i).last_printed = TRUE
<1> DEFINE f == PrintLine(file, s, i)
<1>1. f = [lines |-> file.lines \o <<i - 1, i>>, last_printed |-> TRUE]
  BY DEF PrintLine, Same
<1>2. file.lines \o <<i - 1, i>> \in Seq(Int) /\ TRUE \in BOOLEAN
  <2>1. file.lines \in Seq(Int) /\ <<i - 1, i>> \in Seq(Int)
    BY DEF Files
  <2> QED
    BY <2>1, ConcatProperties
<1> HIDE DEF f
<1>3. f \in Files /\ f.lines = file.lines \o <<i - 1, i>> /\ f.last_printed = TRUE
  BY <1>1, <1>2, FileOf
<1> QED
  BY <1>3 DEF f

LEMMA PrintLineIsFile ==
  ASSUME NEW s, NEW file \in Files, NEW i \in Int
  PROVE  PrintLine(file, s, i) \in Files
BY PrintFirst, PrintSame, PrintNext, PrintBoth

LEMMA FirstLine ==
  ASSUME NEW s, NEW file \in Files, ~file.last_printed,
         NEW f, f = PrintLine(file, s, 0)
  PROVE  Readable(s, f, 1)
<1>1. f.lines = <<0>>
  BY PrintFirst
<1>2. ~f.last_printed
  BY PrintFirst
<1>3. f.lines # << >> /\ Len(f.lines) = 1 /\ f.lines[1] = 0
  <2>1. ASSUME NEW lines, lines = << 0 >> PROVE lines # << >> /\ Len(lines) = 1 /\ lines[1] = 0
    BY <2>1
  <2> QED
    BY <1>1, <2>1
<1>4. Repeats(s, f.lines, 1, 1)
  <2>1. \A i \in 0 .. 0 : i = 0
    OBVIOUS
  <2> QED
    BY <1>3, <2>1 DEF Repeats
<1>5. /\ \A k \in 1 .. Len(f.lines) : f.lines[k] \in 0 .. 0
      /\ 1 .. Len(f.lines) - 1 = {}
  <2>1. \A k \in 1 .. 1 : k = 1
    OBVIOUS
  <2>2. 1 .. 1 - 1 = {} /\ 0 \in 0 .. 0
    OBVIOUS
  <2> QED
    BY <1>3, <2>1, <2>2, Zenon
<1> QED
  BY <1>2, <1>3, <1>4, <1>5 DEF Readable

LEMMA MoreLines ==
  ASSUME NEW s, NEW n \in Nat \ {0}, NEW file \in Files, Readable(s, file, n),
         NEW f, f = PrintLine(file, s, n)
  PROVE  Readable(s, f, n + 1)
<1> DEFINE old == file.lines
           new == f.lines
           z == Len(old)
           L(i) == Line(s, i)
<1>0. n \in Int /\ n # 0
  OBVIOUS
<1>1. old \in Seq(Int) /\ z \in Nat \ {0} /\ file.last_printed \in BOOLEAN
  BY DEF Files, Readable
<1>2. /\ old[1] = 0
      /\ \A k \in 1 .. z : old[k] \in 0 .. n - 1
      /\ \A k \in 1 .. z - 1 :
           /\ old[k] <= old[k + 1]
           /\ \A i \in old[k] .. old[k + 1] - 1 : L(i) = L(old[k])
           /\ old[k + 1] > old[k] + 1 => L(old[k + 1]) = L(old[k])
      /\ \A i \in old[z] .. n - 1 : L(i) = L(old[z])
      /\ file.last_printed => old[z] = n - 1
  BY DEF Readable, Repeats
<1>3. SUFFICES
        /\ new # << >> /\ new[1] = 0
        /\ \A k \in 1 .. Len(new) : new[k] \in 0 .. n
        /\ \A k \in 1 .. Len(new) - 1 :
             /\ new[k] <= new[k + 1]
             /\ \A i \in new[k] .. new[k + 1] - 1 : L(i) = L(new[k])
             /\ new[k + 1] > new[k] + 1 => L(new[k + 1]) = L(new[k])
        /\ \A i \in new[Len(new)] .. n : L(i) = L(new[Len(new)])
        /\ f.last_printed => new[Len(new)] = n
  BY DEF Readable, Repeats
<1>4. CASE Same(s, n)
  <2>a. L(n) = L(n - 1)
    BY <1>4 DEF Same
  <2>1. new = old /\ ~f.last_printed
    <3>1. /\ PrintLine(file, s, n).lines = file.lines
          /\ PrintLine(file, s, n).last_printed = FALSE
      BY <1>0, <1>4, PrintSame
    <3>2. f.lines = file.lines
      BY <3>1, Zenon
    <3> QED
      BY <3>1, <3>2
  <2>2. L(n - 1) = L(old[z])
    BY <1>1, <1>2
  <2> HIDE DEF old, new, L, z
  <2>3. \A i \in old[z] .. n : L(i) = L(old[z])
    <3> SUFFICES ASSUME NEW i \in old[z] .. n PROVE L(i) = L(old[z])
      OBVIOUS
    <3>1. CASE i = n
      BY <2>a, <2>2, <3>1
    <3>2. CASE i # n
      BY <1>1, <1>2, <3>2
    <3> QED
      BY <3>1, <3>2
  <2> QED
    BY <1>1, <1>2, <2>1, <2>3 DEF z
<1>5. CASE ~Same(s, n) /\ file.last_printed
  <2>1. new = old \o <<n>> /\ f.last_printed
    <3>1. /\ PrintLine(file, s, n).lines = file.lines \o <<n>>
          /\ PrintLine(file, s, n).last_printed = TRUE
      BY <1>0, <1>5, PrintNext
    <3>2. f.lines = file.lines \o <<n>>
      BY <3>1, Zenon
    <3> QED
      BY <3>1, <3>2
  <2>2. Len(new) = z + 1 /\ new[z + 1] = n /\ \A k \in 1 .. z : new[k] = old[k]
    BY <1>1, <2>1
  <2>3. old[z] = n - 1
    BY <1>2, <1>5
  <2> HIDE DEF old, new, L, z
  <2>4. ASSUME NEW k \in 1 .. z
        PROVE  /\ new[k] <= new[k + 1]
               /\ \A i \in new[k] .. new[k + 1] - 1 : L(i) = L(new[k])
               /\ new[k + 1] > new[k] + 1 => L(new[k + 1]) = L(new[k])
    <3>1. CASE k = z
      <4>1. new[k] = n - 1 /\ new[k + 1] = n
        BY <2>2, <2>3, <3>1
      <4> QED
        BY <4>1
    <3>2. CASE k # z
      <4>1. k \in 1 .. z - 1 /\ k + 1 \in 1 .. z
        BY <1>1, <3>2
      <4> QED
        BY <1>2, <2>2, <4>1
    <3> QED
      BY <3>1, <3>2
  <2>5. new # << >> /\ new[1] = 0
    BY <1>1, <1>2, <2>2
  <2>6. \A k \in 1 .. Len(new) : new[k] \in 0 .. n
    <3> SUFFICES ASSUME NEW k \in 1 .. z + 1 PROVE new[k] \in 0 .. n
      BY <2>2
    <3>1. CASE k \in 1 .. z
      BY <1>2, <2>2, <3>1
    <3>2. CASE k = z + 1
      BY <2>2, <3>2
    <3> QED
      BY <1>1, <3>1, <3>2
  <2>7. /\ Len(new) - 1 = z
        /\ new[Len(new)] = n /\ \A i \in new[Len(new)] .. n : i = n
    BY <1>1, <2>2
  <2> QED
    BY <2>4, <2>5, <2>6, <2>7
<1>6. CASE ~Same(s, n) /\ ~file.last_printed
  <2>1. new = old \o <<n - 1, n>> /\ f.last_printed
    <3>1. /\ PrintLine(file, s, n).lines = file.lines \o <<n - 1, n>>
          /\ PrintLine(file, s, n).last_printed = TRUE
      BY <1>0, <1>6, PrintBoth
    <3>2. f.lines = file.lines \o <<n - 1, n>>
      BY <3>1, Zenon
    <3> QED
      BY <3>1, <3>2
  <2>2. /\ Len(new) = z + 2 /\ new[z + 1] = n - 1 /\ new[z + 2] = n
        /\ \A k \in 1 .. z : new[k] = old[k]
    BY <1>1, <2>1
  <2>3. L(n - 1) = L(old[z]) /\ old[z] \in 0 .. n - 1
    BY <1>1, <1>2
  <2> HIDE DEF old, new, L, z
  <2>4. ASSUME NEW k \in 1 .. z + 1
        PROVE  /\ new[k] <= new[k + 1]
               /\ \A i \in new[k] .. new[k + 1] - 1 : L(i) = L(new[k])
               /\ new[k + 1] > new[k] + 1 => L(new[k + 1]) = L(new[k])
    <3>1. CASE k = z + 1
      <4>1. new[k] = n - 1 /\ new[k + 1] = n
        BY <1>1, <2>2, <3>1
      <4> QED
        BY <4>1
    <3>2. CASE k = z
      <4>1. new[k] = old[z] /\ new[k + 1] = n - 1
        BY <1>1, <2>2, <3>2
      <4> QED
        BY <1>2, <2>3, <4>1
    <3>3. CASE k # z + 1 /\ k # z
      <4>1. k \in 1 .. z - 1 /\ k + 1 \in 1 .. z /\ k \in 1 .. z
        BY <1>1, <3>3
      <4> QED
        BY <1>2, <2>2, <4>1
    <3> QED
      BY <3>1, <3>2, <3>3
  <2>5. new # << >> /\ new[1] = 0
    BY <1>1, <1>2, <2>2
  <2>6. \A k \in 1 .. Len(new) : new[k] \in 0 .. n
    <3> SUFFICES ASSUME NEW k \in 1 .. z + 2 PROVE new[k] \in 0 .. n
      BY <2>2
    <3>1. CASE k \in 1 .. z
      BY <1>2, <2>2, <3>1
    <3>2. CASE k = z + 1 \/ k = z + 2
      BY <2>2, <3>2
    <3> QED
      BY <1>1, <3>1, <3>2
  <2>7. /\ Len(new) - 1 = z + 1
        /\ new[Len(new)] = n /\ \A i \in new[Len(new)] .. n : i = n
    BY <1>1, <2>2
  <2> QED
    BY <2>4, <2>5, <2>6, <2>7
<1> QED
  BY <1>1, <1>4, <1>5, <1>6

Prints(s, file) ==
  file = [n \in 0 .. history_fsm_entry_count |->
           IF n = 0 THEN [lines |-> << >>, last_printed |-> FALSE]
           ELSE PrintLine(file[n - 1], s, n - 1)]

\* The loop of history_fsm_transitions_prob_density_to_csv.
LEMMA PrintedIsReadable ==
  ASSUME NEW s
  PROVE  \E file \in Files :
           /\ Printed(s) = file.lines
           /\ Readable(s, file, history_fsm_entry_count)
<1> DEFINE N == history_fsm_entry_count
           empty == [lines |-> << >>, last_printed |-> FALSE]
           step == [n \in 0 .. N |-> [file \in Files |-> PrintLine(file, s, n - 1)]]
<1>1. N \in Nat \ {0}
  BY ConstantsOK
<1>2. empty \in Files
  BY DEF Files
<1>3. step \in [0 .. N -> [Files -> Files]]
  <2>1. \A n \in 0 .. N : \A file \in Files : PrintLine(file, s, n - 1) \in Files
    BY <1>1, PrintLineIsFile
  <2> QED
    BY <2>1
<1>a. N \in Nat /\ 0 \in Nat /\ 0 <= N
  BY <1>1
<1> HIDE DEF step, N, empty
<1>4. PICK g : Sums!Recurses(g, Files, empty, 0, N, step)
  BY <1>a, <1>2, <1>3, Sums!Recursion
<1>5. /\ g \in [0 .. N -> Files] /\ g[0] = empty
      /\ \A n \in 0 .. N : n # 0 => g[n] = step[n][g[n - 1]]
  BY <1>4 DEF Sums!Recurses
<1>6. ASSUME NEW n \in 0 .. N, n # 0 PROVE g[n] = PrintLine(g[n - 1], s, n - 1)
  <2>1. n - 1 \in 0 .. N
    BY <1>1, <1>6
  <2>2. g[n] = step[n][g[n - 1]] /\ g[n - 1] \in Files
    BY <1>5, <1>6, <2>1
  <2> QED
    BY <2>2 DEF step
<1>7. Prints(s, g)
  BY <1>5, <1>6 DEF Prints, N, empty
<1> DEFINE h == CHOOSE file : Prints(s, file)
<1>8. Prints(s, h)
  BY <1>7
<1>9. Printed(s) = h[N].lines
  BY DEF Printed, Prints, N
<1> HIDE DEF h
<1>10. \A n \in 0 .. N : h[n] = IF n = 0 THEN empty ELSE PrintLine(h[n - 1], s, n - 1)
  BY <1>8 DEF Prints, N, empty
<1> DEFINE Q == {n \in 0 .. N : h[n] \in Files /\ Readable(s, h[n], n)}
<1>11. h[0] = empty /\ 1 \in Q
  <2>1. h[0] = empty /\ h[1] = PrintLine(h[0], s, 0) /\ 1 \in 0 .. N
    BY <1>1, <1>10
  <2>2. h[1] \in Files
    BY <1>2, <2>1, PrintLineIsFile
  <2>3. Readable(s, h[1], 1)
    BY <1>2, <2>1, FirstLine DEF empty
  <2> QED
    BY <2>1, <2>2, <2>3
<1>12. ASSUME NEW n \in 1 .. N, n # 1, n - 1 \in Q PROVE n \in Q
  <2>1. n - 1 \in Nat \ {0} /\ n - 1 + 1 = n /\ n \in 0 .. N /\ n - 1 \in Int
    BY <1>1, <1>12
  <2>2. h[n] = PrintLine(h[n - 1], s, n - 1)
    BY <1>10, <2>1
  <2>3. h[n - 1] \in Files /\ Readable(s, h[n - 1], n - 1)
    BY <1>12
  <2>4. h[n] \in Files
    BY <2>1, <2>2, <2>3, PrintLineIsFile
  <2>5. Readable(s, h[n], n)
    BY <2>1, <2>2, <2>3, MoreLines
  <2> QED
    BY <2>1, <2>4, <2>5
<1> HIDE DEF Q
<1>13. \A n \in 1 .. N : n \in Q
  BY <1>1, <1>11, <1>12, Sums!Induction
<1>14. N \in Q
  BY <1>1, <1>13
<1> QED
  BY <1>9, <1>14 DEF Q, N

\* From the density files the densities can be drawn, however many entries the
\* histograms have: no line is lost that differs from the one before it, and
\* none is held back too long (history_fsm.c:247-284).
THEOREM DensitiesCanBeRead == Spec => []DensitiesReadable
<1>1. DensitiesReadable
  <2> SUFFICES ASSUME NEW s \in Positions
               PROVE  LET lines == Printed(s) IN
                      /\ history_fsm_entry_to_time(lines[1]) = 0
                      /\ \A k \in 1 .. Len(lines) - 1 :
                           history_fsm_entry_to_time(lines[k])
                             <= history_fsm_entry_to_time(lines[k + 1])
                      /\ \A k \in 1 .. Len(lines) :
                           LET next == IF k = Len(lines) THEN history_fsm_entry_count
                                       ELSE lines[k + 1]
                           IN /\ \A i \in lines[k] .. next - 1 : Line(s, i) = Line(s, lines[k])
                              /\ k < Len(lines) /\ next > lines[k] + 1
                                   => Line(s, next) = Line(s, lines[k])
    BY DEF DensitiesReadable
  <2> DEFINE lines == Printed(s)
  <2>1. PICK file \in Files : lines = file.lines /\ Readable(s, file, history_fsm_entry_count)
    BY PrintedIsReadable
  <2>2. lines \in Seq(Int) /\ Len(lines) \in Nat
    BY <2>1 DEF Files
  <2> HIDE DEF lines
  <2>3. history_fsm_entry_to_time(lines[1]) = 0
    BY <2>1, ConstantsOK DEF Readable, history_fsm_entry_to_time
  <2>4. ASSUME NEW k \in 1 .. Len(lines) - 1
        PROVE  history_fsm_entry_to_time(lines[k]) <= history_fsm_entry_to_time(lines[k + 1])
    <3>1. lines[k] <= lines[k + 1] /\ lines[k] \in Nat /\ lines[k + 1] \in Nat
      BY <2>1, <2>2, ConstantsOK DEF Readable
    <3> QED
      BY <3>1, ConstantsOK DEF history_fsm_entry_to_time
  <2>5. ASSUME NEW k \in 1 .. Len(lines)
        PROVE  LET next == IF k = Len(lines) THEN history_fsm_entry_count ELSE lines[k + 1] IN
               /\ \A i \in lines[k] .. next - 1 : Line(s, i) = Line(s, lines[k])
               /\ k < Len(lines) /\ next > lines[k] + 1 => Line(s, next) = Line(s, lines[k])
    <3>1. CASE k = Len(lines)
      BY <2>1, <2>2, <3>1 DEF Readable, Repeats
    <3>2. CASE k # Len(lines)
      <4>1. k \in 1 .. Len(lines) - 1
        BY <2>2, <3>2
      <4> QED
        BY <2>1, <3>2, <4>1 DEF Readable, Repeats
    <3> QED
      BY <3>1, <3>2
  <2> QED
    BY <2>3, <2>4, <2>5 DEF lines
<1> QED
  BY <1>1, PTL
===============================================================================

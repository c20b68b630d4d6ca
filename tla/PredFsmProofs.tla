---------------------------- MODULE PredFsmProofs ----------------------------
(***************************************************************************)
(* Proofs about PredFsm, for every number of metrics, size of their        *)
(* histories and way to feed them.                                         *)
(***************************************************************************)
EXTENDS PredFsm, HistoryFsmProofs

Sorted(samples) ==
  \A i, j \in 1 .. Len(samples) : i <= j => samples[i].time <= samples[j].time

\* What metric_update keeps is in the order of the times, and leaves a slot.
RingsSorted ==
  \A m \in Metrics :
    /\ Len(ring[m]) < HistorySize
    /\ Sorted(ring[m])
    /\ \A i \in 1 .. Len(ring[m]) : ring[m][i].time <= clock

\* So is a dump; a metric that was not empty then is not empty later.
DumpsSorted ==
  \A m \in 1 .. Len(history) :
    /\ Len(history[m]) < HistorySize
    /\ Sorted(history[m])
    /\ history[m] # << >> => ring[m] # << >>

\* The histograms are empty but during the training.
EmptyOutsideTraining ==
  pc # "train" =>
    \A e \in DOMAIN cnt : total_count[e] = 0 /\ \A i \in Entries : cnt[e][i] = 0

EmptyDumps(n) == {m \in 1 .. n : history[m] = << >>}

\* As far as the output loop has come, only empty dumps have no result.
LeaksExplained ==
  /\ pc = "output" => pos - results <= Cardinality(EmptyDumps(pos))
  /\ pc # "output" => pos = 0 /\ results = 0

DumpsMissing == pc = "dump" => Len(history) < MetricCount

PInv ==
  /\ IInv /\ PredTypeOK /\ DumpsMissing
  /\ RingsSorted /\ DumpsSorted
  /\ MergeOrdered /\ EmptyOutsideTraining /\ LeaksExplained

(***************************************************************************)
(* Sequences of samples, and the search for the lowest timestamp.          *)
(***************************************************************************)
LEMMA EmptyIsSorted == << >> \in Seq(Samples) /\ Len(<< >>) = 0 /\ Sorted(<< >>)
BY DEF Sorted

LEMMA TimesAreNat ==
  ASSUME NEW s \in Seq(Samples), NEW i \in 1 .. Len(s)
  PROVE  s[i] \in Samples /\ s[i].time \in Nat /\ s[i].time \in Times /\ s[i].state \in UserStates
<1>1. s[i] \in Samples
  OBVIOUS
<1>2. s[i].time \in Times /\ s[i].state \in UserStates
  BY <1>1 DEF Samples
<1> QED
  BY <1>1, <1>2, TimesOK

LEMMA KeptProperties ==
  ASSUME NEW s \in Seq(Samples), NEW x \in Samples,
         Len(s) < HistorySize, Sorted(s),
         \A i \in 1 .. Len(s) : s[i].time <= x.time
  PROVE  /\ Kept(Append(s, x)) \in Seq(Samples)
         /\ Len(Kept(Append(s, x))) < HistorySize
         /\ Sorted(Kept(Append(s, x)))
         /\ \A i \in 1 .. Len(Kept(Append(s, x))) : Kept(Append(s, x))[i].time <= x.time
         /\ s # << >> => Kept(Append(s, x)) # << >>
<1> DEFINE t == Append(s, x)
<1>1. /\ t \in Seq(Samples) /\ Len(t) = Len(s) + 1 /\ Len(s) \in Nat
      /\ \A i \in 1 .. Len(s) : t[i] = s[i]
      /\ t[Len(s) + 1] = x
  OBVIOUS
<1>2. x.time \in Nat /\ \A i \in 1 .. Len(s) : s[i].time \in Nat
  BY TimesAreNat, TimesOK DEF Samples
<1>3. \A i \in 1 .. Len(t) : t[i].time <= x.time
  BY <1>1, <1>2
<1>4. Sorted(t)
  <2> SUFFICES ASSUME NEW i \in 1 .. Len(t), NEW j \in 1 .. Len(t), i <= j
               PROVE  t[i].time <= t[j].time
    BY DEF Sorted
  <2>1. CASE j = Len(s) + 1
    BY <2>1, <1>1, <1>3
  <2>2. CASE j # Len(s) + 1
    BY <2>2, <1>1 DEF Sorted
  <2> QED
    BY <2>1, <2>2
<1>5. CASE Len(t) < HistorySize
  <2>1. Kept(t) = t
    BY <1>1, <1>5, MetricAssumption DEF Kept
  <2> QED
    BY <2>1, <1>1, <1>3, <1>4, <1>5
<1>6. CASE ~(Len(t) < HistorySize)
  <2>1. Kept(t) = Tail(t)
    BY <1>1, <1>6, MetricAssumption DEF Kept
  <2>2. /\ Tail(t) \in Seq(Samples) /\ Len(Tail(t)) = Len(s)
        /\ \A i \in 1 .. Len(s) : Tail(t)[i] = t[i + 1]
    BY <1>1
  <2>3. \A i \in 1 .. Len(s) : i + 1 \in 1 .. Len(t)
    BY <1>1
  <2>4. Sorted(Tail(t))
    BY <2>2, <2>3, <1>1, <1>4 DEF Sorted
  <2>5. \A i \in 1 .. Len(Tail(t)) : Tail(t)[i].time <= x.time
    BY <2>2, <2>3, <1>3
  <2>6. s # << >> => Tail(t) # << >>
    BY <2>2
  <2> QED
    BY <2>1, <2>2, <2>4, <2>5, <2>6
<1> QED
  BY <1>5, <1>6

\* There is a lowest timestamp as long as there is a sample.
LEMMA SearchFinds ==
  ASSUME PInv, pc = "train", Left # {}
  PROVE  /\ min_time_idx \in Left
         /\ \A n \in Left : NextSample(min_time_idx).time <= NextSample(n).time
<1>1. \A n \in Left : n \in Metrics /\ n \in Nat /\ NextSample(n) \in Samples
                        /\ NextSample(n).time \in Nat
  <2> SUFFICES ASSUME NEW n \in Left PROVE n \in Metrics /\ n \in Nat /\ NextSample(n) \in Samples
                        /\ NextSample(n).time \in Nat
    OBVIOUS
  <2>1. n \in 1 .. Len(history) /\ cur_index[n] \in Nat /\ Len(history[n]) > cur_index[n]
    BY MetricAssumption DEF PInv, PredTypeOK, Left, Metrics
  <2>2. history[n] \in Seq(Samples) /\ cur_index[n] + 1 \in 1 .. Len(history[n])
    BY <2>1 DEF PInv, PredTypeOK
  <2> QED
    BY <2>1, <2>2, TimesAreNat DEF Left, Metrics, NextSample
<1> DEFINE times == {NextSample(n).time : n \in Left}
<1>2. PICK t \in times : \A u \in times : t <= u
  BY <1>1, Sums!LeastNatural
<1> DEFINE earliest == {n \in Left : NextSample(n).time = t}
<1>3. PICK m \in earliest : \A n \in earliest : m <= n
  <2>1. earliest \in SUBSET Nat /\ earliest # {}
    BY <1>1, <1>2
  <2> QED
    BY <2>1, Sums!LeastNatural
<1> DEFINE First(k) ==
      \A n \in Left : \/ NextSample(k).time < NextSample(n).time
                      \/ NextSample(k).time = NextSample(n).time /\ k <= n
<1>4. m \in Left /\ First(m)
  <2>1. \A n \in Left : t <= NextSample(n).time
    BY <1>2
  <2> QED
    BY <2>1, <1>1, <1>3
<1>5. min_time_idx \in Left /\ First(min_time_idx)
  <2>1. min_time_idx = CHOOSE k \in Left : First(k)
    BY DEF min_time_idx
  <2> QED
    BY <2>1, <1>4
<1> QED
  BY <1>1, <1>5

(***************************************************************************)
(* The invariant.                                                          *)
(***************************************************************************)
LEMMA PInvInit == PredInit => PInv
<1> SUFFICES ASSUME PredInit PROVE PInv
  OBVIOUS
<1>1. IInv
  BY InitIInv DEF PredInit
<1>2. /\ pc = "idle" /\ pos = 0 /\ results = 0 /\ clock = 0 /\ fed = 0
      /\ ring = [m \in Metrics |-> << >>]
      /\ history = [m \in Metrics |-> << >>]
      /\ cur_index = [m \in Metrics |-> 0]
      /\ cnt = << >> /\ feed \in Feeds
  BY DEF PredInit, Init
<1>3. history \in Seq(Seq(Samples)) /\ Len(history) = MetricCount
  BY <1>2, MetricAssumption, EmptyIsSorted DEF Metrics
<1>4. /\ feed.last \in Nat /\ feed.spacing \in Nat /\ feed.samples \in Nat
  BY <1>2, MetricAssumption, TimesOK
<1>5. before \in [state : UserStates \cup {NoState}, time : 0 .. Never]
  BY ConstantsOK DEF PredInit
<1>6. PredTypeOK
  BY <1>1, <1>2, <1>3, <1>4, <1>5, MetricAssumption, EmptyIsSorted
     DEF PredTypeOK, IInv, Metrics
<1>7. RingsSorted
  BY <1>2, MetricAssumption, EmptyIsSorted DEF RingsSorted
<1>8. DumpsSorted
  BY <1>2, <1>3, MetricAssumption, EmptyIsSorted DEF DumpsSorted, Metrics
<1>9. MergeOrdered /\ LeaksExplained /\ DumpsMissing
  BY <1>2 DEF MergeOrdered, LeaksExplained, DumpsMissing
<1>10. EmptyOutsideTraining
  <2>1. DOMAIN cnt = {}
    BY <1>2
  <2> QED
    BY <2>1 DEF EmptyOutsideTraining
<1> QED
  BY <1>1, <1>6, <1>7, <1>8, <1>9, <1>10 DEF PInv

LEMMA SameFsm ==
  ASSUME IInv, UNCHANGED fsm
  PROVE  IInv' /\ CurrentState' = CurrentState /\ (DOMAIN cnt)' = DOMAIN cnt
         /\ TypeOK'
BY DEF fsm, IInv, TypeOK, GraphComplete, Positions, CurrentState

\* The rings have what they are fed.
LEMMA FeedTypes ==
  ASSUME PInv
  PROVE  /\ feed.last \in Times /\ feed.last \in Nat /\ feed.spacing \in Nat
         /\ feed.samples \in Nat /\ clock \in Nat /\ fed \in Nat
<1>1. feed \in [spacing : Nat, last : Times, samples : Nat]
  BY MetricAssumption DEF PInv, PredTypeOK
<1> QED
  BY <1>1, TimesOK DEF PInv, PredTypeOK

LEMMA FeedKeeps ==
  ASSUME PInv, NEW m \in Metrics, NEW sample \in Samples, Feed(m, sample)
  PROVE  PInv'
<1>1. /\ UNCHANGED <<fsm, feed, pc, history, cur_index, output, before>>
      /\ sample.time \in clock .. feed.last /\ fed < feed.samples
      /\ clock' = sample.time + feed.spacing /\ fed' = fed + 1
      /\ ring' = [ring EXCEPT ![m] = Kept(Append(@, sample))]
  BY DEF Feed
<1>2. /\ feed.last \in Nat /\ feed.spacing \in Nat /\ feed.samples \in Nat
      /\ clock \in Nat /\ fed \in Nat /\ sample.time \in Nat
  BY FeedTypes, TimesOK DEF Samples
<1>3. ring \in [Metrics -> Seq(Samples)]
  BY DEF PInv, PredTypeOK
<1>4. clock <= sample.time /\ sample.time <= clock' /\ clock' \in 0 .. feed.last + feed.spacing
  BY <1>1, <1>2
<1>5. /\ Kept(Append(ring[m], sample)) \in Seq(Samples)
      /\ Len(Kept(Append(ring[m], sample))) < HistorySize
      /\ Sorted(Kept(Append(ring[m], sample)))
      /\ \A i \in 1 .. Len(Kept(Append(ring[m], sample))) :
           Kept(Append(ring[m], sample))[i].time <= sample.time
      /\ ring[m] # << >> => Kept(Append(ring[m], sample)) # << >>
  <2>1. ring[m] \in Seq(Samples) /\ Len(ring[m]) < HistorySize /\ Sorted(ring[m])
    BY <1>3 DEF PInv, RingsSorted
  <2>2. \A i \in 1 .. Len(ring[m]) : ring[m][i].time <= sample.time
    <3> SUFFICES ASSUME NEW i \in 1 .. Len(ring[m]) PROVE ring[m][i].time <= sample.time
      OBVIOUS
    <3>1. ring[m][i].time \in Nat /\ ring[m][i].time <= clock
      BY <2>1, TimesAreNat DEF PInv, RingsSorted
    <3> QED
      BY <3>1, <1>2, <1>4
  <2> QED
    BY <2>1, <2>2, KeptProperties
<1>6. \A n \in Metrics : ring'[n] = IF n = m THEN Kept(Append(ring[m], sample)) ELSE ring[n]
  BY <1>1, <1>3
<1>7. ring' \in [Metrics -> Seq(Samples)]
  BY <1>1, <1>3, <1>5
<1>8. IInv' /\ TypeOK'
  BY <1>1, SameFsm DEF PInv
<1>9. PredTypeOK'
  <2>1. fed' \in 0 .. feed.samples /\ feed' = feed /\ pos' = pos /\ results' = results
    BY <1>1, <1>2 DEF output
  <2> QED
    BY <1>1, <1>4, <1>7, <1>8, <2>1 DEF PInv, PredTypeOK
<1>10. RingsSorted'
  <2> SUFFICES ASSUME NEW n \in Metrics
               PROVE  /\ Len(ring'[n]) < HistorySize /\ Sorted(ring'[n])
                      /\ \A i \in 1 .. Len(ring'[n]) : ring'[n][i].time <= clock'
    BY DEF RingsSorted, Sorted
  <2>1. CASE n = m
    <3>1. ring'[n] \in Seq(Samples) /\ \A i \in 1 .. Len(ring'[n]) : ring'[n][i].time \in Nat
      BY <1>7, TimesAreNat
    <3> QED
      BY <2>1, <3>1, <1>2, <1>4, <1>5, <1>6
  <2>2. CASE n # m
    <3>1. ring'[n] = ring[n]
      BY <2>2, <1>6
    <3>2. /\ Len(ring[n]) < HistorySize /\ Sorted(ring[n])
          /\ \A i \in 1 .. Len(ring[n]) : ring[n][i].time <= clock
      BY DEF PInv, RingsSorted
    <3>3. ASSUME NEW i \in 1 .. Len(ring[n])
          PROVE  ring[n][i].time <= clock'
      <4>1. ring[n][i].time \in Nat /\ ring[n][i].time <= clock
        BY <1>3, <3>2, TimesAreNat
      <4>2. clock \in Int /\ clock' \in Int /\ clock <= clock'
        BY <1>2, <1>4
      <4> QED
        BY <4>1, <4>2
    <3> QED
      BY <3>1, <3>2, <3>3
  <2> QED
    BY <2>1, <2>2
<1>11. DumpsSorted'
  <2>1. Len(history) <= MetricCount /\ Len(history) \in Nat
    BY MetricAssumption DEF PInv, PredTypeOK
  <2>2. \A n \in 1 .. Len(history) : n \in Metrics
    BY <2>1, MetricAssumption DEF Metrics
  <2> QED
    BY <1>1, <1>5, <1>6, <2>2 DEF PInv, DumpsSorted, Sorted
<1>12. MergeOrdered' /\ EmptyOutsideTraining' /\ LeaksExplained' /\ DumpsMissing'
  BY <1>1 DEF PInv, DumpsMissing, MergeOrdered, EmptyOutsideTraining, LeaksExplained, EmptyDumps, fsm, output
<1> QED
  BY <1>8, <1>9, <1>10, <1>11, <1>12 DEF PInv

LEMMA StartTickKeeps == ASSUME PInv, StartTick PROVE PInv'
<1>1. /\ pc = "idle" /\ pc' = "dump" /\ history' = << >>
      /\ cur_index' = [m \in Metrics |-> 0]
      /\ before' = [state |-> CurrentState, time |-> time_state_changed]
      /\ UNCHANGED <<fsm, feed, ring, clock, fed, output>>
  BY DEF StartTick
<1>2. IInv' /\ TypeOK'
  BY <1>1, SameFsm DEF PInv
<1>3. CurrentState \in UserStates \cup {NoState} /\ time_state_changed \in 0 .. Never
  <2>1. states \in Seq(UserStates) /\ cur \in 0 .. Len(states)
    BY DEF PInv, IInv, TypeOK
  <2> QED
    BY <2>1 DEF PInv, IInv, TypeOK, CurrentState
<1>4. PredTypeOK'
  BY <1>1, <1>2, <1>3, MetricAssumption DEF PInv, PredTypeOK, output
<1> QED
  BY <1>1, <1>2, <1>4, MetricAssumption
     DEF PInv, DumpsMissing, RingsSorted, Sorted, DumpsSorted, MergeOrdered, EmptyOutsideTraining,
         LeaksExplained, fsm, output

LEMMA DumpHistoryKeeps == ASSUME PInv, DumpHistory PROVE PInv'
<1> DEFINE d == Len(history) + 1
<1>1. /\ pc = "dump" /\ history' = Append(history, ring[d])
      /\ pc' = IF d = MetricCount THEN "train" ELSE "dump"
      /\ UNCHANGED <<fsm, feed, ring, clock, fed, cur_index, output, before>>
  BY DEF DumpHistory
<1>2. history \in Seq(Seq(Samples)) /\ ring \in [Metrics -> Seq(Samples)]
      /\ Len(history) <= MetricCount
      /\ \A m \in Metrics : cur_index[m] \in Nat /\ cur_index[m] <= 0
  BY <1>1 DEF PInv, PredTypeOK
<1>3. IInv' /\ TypeOK'
  BY <1>1, SameFsm DEF PInv
<1>4. d \in Metrics /\ d \in Nat /\ Len(history) \in Nat
  BY <1>1, <1>2, MetricAssumption DEF PInv, DumpsMissing, Metrics
<1>5. /\ history' \in Seq(Seq(Samples)) /\ Len(history') = d
      /\ history'[d] = ring[d]
      /\ \A m \in 1 .. Len(history) : history'[m] = history[m]
  BY <1>1, <1>2, <1>4
<1>6. d <= MetricCount /\ (pc' # "dump" => d = MetricCount)
  BY <1>1, <1>4, MetricAssumption DEF Metrics
<1>7. \A m \in Metrics : cur_index'[m] = 0
  BY <1>1, <1>2
<1>8. \A m \in Metrics : cur_index'[m] <= IF pc' = "dump" THEN 0 ELSE Len(history'[m])
  <2> SUFFICES ASSUME NEW m \in Metrics, pc' # "dump" PROVE 0 <= Len(history'[m])
    BY <1>7
  <2>1. m \in 1 .. Len(history')
    BY <1>5, <1>6 DEF Metrics
  <2>2. history'[m] \in Seq(Samples)
    BY <2>1, <1>5
  <2> QED
    BY <2>2
<1>9. PredTypeOK'
  BY <1>1, <1>3, <1>5, <1>6, <1>8 DEF PInv, PredTypeOK, output
<1>10. RingsSorted'
  BY <1>1 DEF PInv, RingsSorted, Sorted
<1>11. DumpsSorted'
  <2> SUFFICES ASSUME NEW m \in 1 .. Len(history')
               PROVE  /\ Len(history'[m]) < HistorySize /\ Sorted(history'[m])
                      /\ history'[m] # << >> => ring[m] # << >>
    BY <1>1 DEF DumpsSorted, Sorted
  <2>1. CASE m = d
    BY <2>1, <1>4, <1>5 DEF PInv, RingsSorted
  <2>2. CASE m # d
    <3>1. m \in 1 .. Len(history)
      BY <2>2, <1>4, <1>5
    <3> QED
      BY <3>1, <1>5 DEF PInv, DumpsSorted
  <2> QED
    BY <2>1, <2>2
<1>12. MergeOrdered'
  BY <1>7 DEF MergeOrdered
<1>13. EmptyOutsideTraining' /\ LeaksExplained' /\ DumpsMissing'
  <2>1. EmptyOutsideTraining' /\ LeaksExplained'
    BY <1>1 DEF PInv, EmptyOutsideTraining, LeaksExplained, fsm, output
  <2>2. DumpsMissing'
    BY <1>1, <1>4, <1>5, <1>6, MetricAssumption DEF DumpsMissing, Metrics
  <2> QED
    BY <2>1, <2>2
<1> QED
  BY <1>3, <1>9, <1>10, <1>11, <1>12, <1>13 DEF PInv

LEMMA ObserveKeepsIInv ==
  ASSUME IInv, NEW s \in UserStates, NEW t \in Times, Observe(s, t)
  PROVE  IInv'
<1>1. CASE SameState(s) \/ IgnoreChange(s, t)
  BY <1>1 DEF SameState, IgnoreChange, vars, IInv, TypeOK, GraphComplete, Positions
<1> QED
  BY <1>1, ChangeStateKeepsIInv, AddFirstStateKeepsIInv, AddStateKeepsIInv DEF Observe

\* The sample that is consumed is not later than any that is left.
LEMMA TrainSampleKeeps == ASSUME PInv, TrainSample PROVE PInv'
<1> DEFINE c == min_time_idx
           x == NextSample(c)
<1>1. /\ pc = "train" /\ Left # {}
      /\ Observe(x.state, x.time)
      /\ cur_index' = [cur_index EXCEPT ![c] = @ + 1]
      /\ UNCHANGED <<feed, ring, clock, fed, pc, history, output, before>>
  BY DEF TrainSample, Consumed
<1>2. c \in Left /\ \A n \in Left : x.time <= NextSample(n).time
  BY <1>1, SearchFinds
<1>3. /\ Len(history) = MetricCount /\ history \in Seq(Seq(Samples))
      /\ cur_index \in [Metrics -> Nat]
      /\ \A m \in Metrics : cur_index[m] <= Len(history[m])
  BY <1>1 DEF PInv, PredTypeOK
<1>4. \A m \in Metrics : history[m] \in Seq(Samples) /\ Len(history[m]) \in Nat
  BY <1>3, MetricAssumption DEF Metrics
<1>5. /\ c \in Metrics /\ Len(history[c]) > cur_index[c]
      /\ cur_index[c] + 1 \in 1 .. Len(history[c])
  BY <1>2, <1>3, <1>4 DEF Left
<1>6. x = history[c][cur_index[c] + 1] /\ x \in Samples /\ x.state \in UserStates
      /\ x.time \in Times /\ x.time \in Nat
  BY <1>4, <1>5, TimesAreNat DEF NextSample
<1>7. IInv'
  BY <1>1, <1>6, ObserveKeepsIInv DEF PInv
<1>8. \A m \in Metrics : cur_index'[m] = IF m = c THEN cur_index[m] + 1 ELSE cur_index[m]
  BY <1>1, <1>3
<1>9. cur_index' \in [Metrics -> Nat]
      /\ \A m \in Metrics : cur_index'[m] <= Len(history[m])
  <2>1. cur_index' \in [Metrics -> Nat]
    BY <1>1, <1>3, <1>5
  <2>2. \A m \in Metrics : cur_index'[m] <= Len(history[m])
    BY <1>3, <1>4, <1>5, <1>8
  <2> QED
    BY <2>1, <2>2
<1>10. PredTypeOK'
  <2>1. TypeOK'
    BY <1>7 DEF IInv
  <2> QED
    BY <1>1, <1>9, <2>1 DEF PInv, PredTypeOK, output
<1>11. MergeOrdered'
  <2> SUFFICES ASSUME NEW m \in Metrics, NEW n \in Metrics,
                      NEW k \in 1 .. cur_index'[m],
                      NEW l \in cur_index'[n] + 1 .. Len(history[n])
               PROVE  history[m][k].time <= history[n][l].time
    BY <1>1 DEF MergeOrdered
  <2>1. l \in cur_index[n] + 1 .. Len(history[n]) /\ l \in 1 .. Len(history[n])
    BY <1>3, <1>4, <1>8
  <2>2. CASE m # c \/ k # cur_index[c] + 1
    <3>1. k \in 1 .. cur_index[m]
      BY <2>2, <1>3, <1>8
    <3> QED
      BY <3>1, <2>1, <1>1 DEF PInv, MergeOrdered
  <2>3. CASE m = c /\ k = cur_index[c] + 1
    <3>1. n \in Left /\ cur_index[n] + 1 \in 1 .. Len(history[n]) /\ cur_index[n] + 1 <= l
      BY <2>1, <1>3, <1>4 DEF Left
    <3>2. x.time <= history[n][cur_index[n] + 1].time
      BY <3>1, <1>2 DEF NextSample
    <3>3. history[n][cur_index[n] + 1].time <= history[n][l].time
      <4>1. n \in 1 .. Len(history)
        BY <1>3 DEF Metrics
      <4> QED
        BY <4>1, <3>1, <2>1 DEF PInv, DumpsSorted, Sorted
    <3>4. history[n][cur_index[n] + 1].time \in Nat /\ history[n][l].time \in Nat
      BY <1>4, <2>1, <3>1, TimesAreNat
    <3> QED
      BY <2>3, <3>2, <3>3, <3>4, <1>6
  <2> QED
    BY <2>2, <2>3
<1>12. RingsSorted' /\ DumpsSorted'
  BY <1>1 DEF PInv, RingsSorted, DumpsSorted, Sorted
<1>13. EmptyOutsideTraining' /\ LeaksExplained' /\ DumpsMissing'
  BY <1>1 DEF PInv, EmptyOutsideTraining, LeaksExplained, DumpsMissing, output
<1> QED
  BY <1>7, <1>10, <1>11, <1>12, <1>13 DEF PInv

LEMMA EndTrainingKeeps == ASSUME PInv, EndTraining PROVE PInv'
<1>1. /\ pc = "train" /\ pc' = "output"
      /\ history_fsm_reset_transitions
      /\ UNCHANGED <<feed, ring, clock, fed, history, cur_index, output, before>>
  BY DEF EndTraining, ResetAfterTraining
<1>2. IInv'
  BY <1>1, ResetKeepsIInv DEF PInv
<1>3. PredTypeOK'
  <2>1. TypeOK'
    BY <1>2 DEF IInv
  <2> QED
    BY <1>1, <2>1 DEF PInv, PredTypeOK, output
<1>4. EmptyOutsideTraining'
  <2>1. Entries \subseteq Words
    BY EntriesAreWords
  <2> QED
    BY <1>1, <2>1 DEF EmptyOutsideTraining, history_fsm_reset_transitions
<1>5. LeaksExplained'
  <2>1. pos' = 0 /\ results' = 0 /\ pos = 0
    BY <1>1 DEF PInv, LeaksExplained, output
  <2>2. EmptyDumps(0)' = {}
    BY DEF EmptyDumps
  <2> QED
    BY <2>1, <2>2, <1>1, FS_EmptySet DEF LeaksExplained
<1> QED
  BY <1>1, <1>2, <1>3, <1>4, <1>5
     DEF PInv, RingsSorted, DumpsSorted, Sorted, MergeOrdered, DumpsMissing

\* A metric that has no result now was empty when it was dumped.
LEMMA OutputMetricKeeps == ASSUME PInv, OutputMetric PROVE PInv'
<1> DEFINE d == pos + 1
<1>1. /\ pc = "output" /\ pos < MetricCount /\ pos' = d
      /\ results' = IF ring[d] = << >> THEN results ELSE results + 1
      /\ UNCHANGED <<fsm, feed, ring, clock, fed, pc, history, cur_index, before>>
  BY DEF OutputMetric
<1>2. IInv' /\ TypeOK'
  BY <1>1, SameFsm DEF PInv
<1>3. pos \in Nat /\ results \in 0 .. pos /\ d \in 1 .. MetricCount /\ Len(history) = MetricCount
  BY <1>1, MetricAssumption DEF PInv, PredTypeOK
<1>4. PredTypeOK'
  BY <1>1, <1>2, <1>3, MetricAssumption DEF PInv, PredTypeOK
<1>5. LeaksExplained'
  <2> DEFINE old == EmptyDumps(pos)
             new == {m \in 1 .. pos' : history'[m] = << >>}
  <2>1. IsFiniteSet(old) /\ d \notin old
    <3>1. IsFiniteSet(1 .. pos)
      BY <1>3, FS_Interval
    <3>2. old \in SUBSET (1 .. pos) /\ d \notin 1 .. pos
      BY <1>3 DEF EmptyDumps
    <3> QED
      BY <3>1, <3>2, FS_Subset
  <2>2. Cardinality(old) \in Nat /\ Cardinality(old \cup {d}) = Cardinality(old) + 1
    BY <2>1, FS_CardinalityType, FS_AddElement
  <2>3. new = IF history[d] = << >> THEN old \cup {d} ELSE old
    <3>1. 1 .. pos' = (1 .. pos) \cup {d}
      BY <1>1, <1>3
    <3> QED
      BY <3>1, <1>1 DEF EmptyDumps
  <2>4. ring[d] = << >> => history[d] = << >>
    BY <1>3 DEF PInv, DumpsSorted
  <2>5. pos - results <= Cardinality(old)
    BY <1>1 DEF PInv, LeaksExplained
  <2> HIDE DEF old, new
  <2>6. pos' - results' <= Cardinality(new)
    <3>1. CASE ring[d] = << >>
      BY <3>1, <2>2, <2>3, <2>4, <2>5, <1>1, <1>3
    <3>2. CASE ring[d] # << >>
      BY <3>2, <2>2, <2>3, <2>5, <1>1, <1>3
    <3> QED
      BY <3>1, <3>2
  <2> QED
    BY <2>6, <1>1 DEF new, LeaksExplained, EmptyDumps
<1> QED
  BY <1>1, <1>2, <1>4, <1>5
     DEF PInv, RingsSorted, DumpsSorted, Sorted, MergeOrdered, DumpsMissing,
         EmptyOutsideTraining, fsm

LEMMA EndTickKeeps == ASSUME PInv, EndTick PROVE PInv'
<1>1. /\ pc = "output" /\ pc' = "idle" /\ pos' = 0 /\ results' = 0
      /\ history' = [m \in Metrics |-> << >>]
      /\ cur_index' = [m \in Metrics |-> 0]
      /\ UNCHANGED <<fsm, feed, ring, clock, fed, before>>
  BY DEF EndTick
<1>2. IInv' /\ TypeOK'
  BY <1>1, SameFsm DEF PInv
<1>3. /\ history' \in Seq(Seq(Samples)) /\ Len(history') = MetricCount
      /\ \A m \in 1 .. MetricCount : history'[m] = << >>
  BY <1>1, MetricAssumption, EmptyIsSorted DEF Metrics
<1>4. PredTypeOK'
  BY <1>1, <1>2, <1>3, MetricAssumption DEF PInv, PredTypeOK, Metrics
<1>5. DumpsSorted'
  BY <1>3, MetricAssumption, EmptyIsSorted DEF DumpsSorted
<1> QED
  BY <1>1, <1>2, <1>4, <1>5
     DEF PInv, RingsSorted, Sorted, MergeOrdered, DumpsMissing, EmptyOutsideTraining,
         LeaksExplained, fsm

LEMMA PInvStep == PInv /\ [PredNext]_predVars => PInv'
<1> SUFFICES ASSUME PInv, [PredNext]_predVars PROVE PInv'
  OBVIOUS
<1>1. CASE UNCHANGED predVars
  <2>1. IInv' /\ TypeOK'
    BY <1>1, SameFsm DEF PInv, predVars, fsm
  <2> QED
    BY <1>1, <2>1
       DEF PInv, predVars, PredTypeOK, RingsSorted, DumpsSorted, Sorted, MergeOrdered,
           DumpsMissing, EmptyOutsideTraining, LeaksExplained, EmptyDumps
<1> QED
  BY <1>1, FeedKeeps, StartTickKeeps, DumpHistoryKeeps, TrainSampleKeeps,
     EndTrainingKeeps, OutputMetricKeeps, EndTickKeeps DEF PredNext, PredictionStep

LEMMA PInvariance == PredSpec => []PInv
  BY PInvInit, PInvStep, PTL DEF PredSpec

(***************************************************************************)
(* The theorems.                                                           *)
(***************************************************************************)
\* The dumps, the indices of the merge and the history FSM are well typed.
THEOREM PredTypeCorrect == PredSpec => []PredTypeOK
  BY PInvariance, PTL DEF PInv

\* The search for the lowest timestamp never reads behind a buffer, because
\* metric_update leaves a slot of the ring free (pred_fsm.c:102).
THEOREM MergeReadsInBounds == PredSpec => []ReadsInBounds
<1>1. PInv => ReadsInBounds
  <2> SUFFICES ASSUME PInv, pc = "train", NEW m \in Metrics
               PROVE  cur_index[m] < HistorySize
    BY DEF ReadsInBounds
  <2>1. m \in 1 .. Len(history) /\ cur_index[m] \in Nat /\ cur_index[m] <= Len(history[m])
    BY DEF PInv, PredTypeOK, Metrics
  <2>2. history[m] \in Seq(Samples) /\ Len(history[m]) < HistorySize
    BY <2>1 DEF PInv, PredTypeOK, DumpsSorted
  <2> QED
    BY <2>1, <2>2, MetricAssumption
<1> QED
  BY <1>1, PInvariance, PTL

\* The samples of all metrics reach the history FSM in the order of their
\* times, however the dumps and the updates interleave.
THEOREM MergeIsOrdered == PredSpec => []MergeOrdered
  BY PInvariance, PTL DEF PInv

\* No count of one tick is still there when the next one begins.
THEOREM TicksStartFromNothing == PredSpec => []TicksStartEmpty
<1>1. PInv => TicksStartEmpty
  BY DEF PInv, EmptyOutsideTraining, TicksStartEmpty
<1> QED
  BY <1>1, PInvariance, PTL

\* The output loop leaks no buffer but those of metrics that were empty when
\* they were dumped.
THEOREM LeaksAreOfEmptyMetrics == PredSpec => []OnlyEmptyMetricsLeak
<1>1. PInv => OnlyEmptyMetricsLeak
  BY DEF PInv, LeaksExplained, EmptyDumps, OnlyEmptyMetricsLeak, Metrics
<1> QED
  BY <1>1, PInvariance, PTL

\* Both: a tick leaves neither counts nor, with samples in every metric, buffers.
THEOREM TicksCleanUp == PredSpec => []NothingLeftBehind
<1>1. TicksStartEmpty /\ OnlyEmptyMetricsLeak => NothingLeftBehind
  BY DEF NothingLeftBehind
<1> QED
  BY <1>1, TicksStartFromNothing, LeaksAreOfEmptyMetrics, PTL

(***************************************************************************)
(* What the history FSM makes of the samples.                              *)
(***************************************************************************)
LastOf(s) == s[Len(s)]

Held ==
  (UNION {ToSet(ring[m]) : m \in Metrics})
    \cup (UNION {ToSet(history[m]) : m \in DOMAIN history})

\* The samples that the metrics and the dumps hold are apart in time.
SamplesApart ==
  Spaced =>
    \A x \in Held :
      /\ x.time + 1 < clock
      /\ \A y \in Held : x.time <= y.time => x = y \/ x.time + 1 < y.time

\* So is the last change of state, but from the sample that was the change.
ChangeApart ==
  Spaced /\ cur # 0 /\ time_state_changed # Never =>
    /\ time_state_changed + 1 < clock
    /\ \A x \in Held : /\ x.time = time_state_changed => x.state = CurrentState
                       /\ x.time # time_state_changed + 1

\* A metric that was dumped has something at least as late.
RingsAhead ==
  \A m \in DOMAIN history :
    history[m] # << >> =>
      ring[m] # << >> /\ LastOf(history[m]).time <= LastOf(ring[m]).time

\* The samples end with the one that was the last change, or later.
Recalls(samples) ==
  /\ samples # << >>
  /\ IF time_state_changed = Never
     THEN LastOf(samples).time > 0 \/ LastOf(samples).state = CurrentState
     ELSE LastOf(samples).time >= time_state_changed

\* One of the metrics recalls the last change, and so does its dump.
ChangeRecalled ==
  Spaced /\ cur # 0 =>
    \E m \in Metrics :
      /\ Recalls(ring[m])
      /\ pc # "idle" /\ m \in DOMAIN history => Recalls(history[m])

BeforeIsNow ==
  pc = "dump" => before = [state |-> CurrentState, time |-> time_state_changed]

\* The samples that were consumed.
Done == UNION {{history[m][k] : k \in 1 .. cur_index[m]} : m \in Metrics}

DoneFresh == Done \cap Fresh

DoneChanges == Done \cap Changes

Unknown == before.state = NoState \/ before.time = Never

Totals == MapThenSumSet(LAMBDA e : total_count[e], DOMAIN cnt)

\* What the history FSM has made of them.
StateFollows ==
  CurrentState = IF DoneFresh = {} THEN before.state ELSE Latest(DoneFresh).state

TimeFollows ==
  IF DoneChanges = {}
  THEN /\ before.state # NoState => time_state_changed = before.time
       /\ before.state = NoState /\ cur # 0 => time_state_changed = Never
  ELSE time_state_changed = Latest(DoneChanges).time

CountsFollow ==
  /\ IsFiniteSet(DoneChanges)
  /\ Totals + (IF DoneChanges # {} /\ Unknown THEN 1 ELSE 0) = Cardinality(DoneChanges)

FsmFollows == Spaced /\ pc = "train" => StateFollows /\ TimeFollows /\ CountsFollow

Follow ==
  /\ SamplesApart /\ ChangeApart /\ RingsAhead /\ ChangeRecalled /\ BeforeIsNow
  /\ FsmFollows

(***************************************************************************)
(* Samples and sequences of them.                                          *)
(***************************************************************************)
LEMMA LatestIs ==
  ASSUME NEW S \in SUBSET Samples, S # {}
  PROVE  Latest(S) \in S /\ \A y \in S : y.time <= Latest(S).time
<1> DEFINE times == {y.time : y \in S}
<1>1. \A y \in S : y.time \in 0 .. MaxTime
  BY DEF Samples, Times
<1>2. times \in SUBSET (0 .. MaxTime) /\ times \in SUBSET Int /\ times # {}
  BY <1>1, ConstantsOK
<1>3. IsFiniteSet(times)
  <2>1. IsFiniteSet(0 .. MaxTime)
    BY ConstantsOK, FS_Interval
  <2> HIDE DEF times
  <2> QED
    BY <1>2, <2>1, FS_Subset
<1>4. \E t \in times : \A u \in times : u <= t
  <2> HIDE DEF times
  <2>1. Sums!IsFiniteSet(times)
    BY <1>3 DEF IsFiniteSet, Sums!IsFiniteSet
  <2> QED
    BY <1>2, <2>1, Sums!GreatestAndLeast
<1>5. \E x \in S : \A y \in S : y.time <= x.time
  BY <1>4
<1> QED
  BY <1>5 DEF Latest

LEMMA LatestUnique ==
  ASSUME NEW S \in SUBSET Samples, \A x, y \in S : x.time = y.time => x = y,
         NEW z \in S, \A y \in S : y.time <= z.time
  PROVE  Latest(S) = z
<1>1. Latest(S) \in S /\ \A y \in S : y.time <= Latest(S).time
  BY LatestIs
<1>2. \A y \in S : y.time \in Nat
  BY TimesOK DEF Samples
<1>3. Latest(S).time = z.time
  BY <1>1, <1>2
<1> QED
  BY <1>1, <1>3

LEMMA SamplesOf ==
  ASSUME NEW s \in Seq(Samples)
  PROVE  /\ ToSet(s) \in SUBSET Samples
         /\ \A k \in 1 .. Len(s) : s[k] \in ToSet(s)
         /\ \A x \in ToSet(s) : \E k \in 1 .. Len(s) : x = s[k]
         /\ s # << >> => Len(s) \in 1 .. Len(s) /\ LastOf(s) \in ToSet(s)
<1>1. DOMAIN s = 1 .. Len(s) /\ Len(s) \in Nat
  OBVIOUS
<1>2. ToSet(s) = {s[k] : k \in DOMAIN s}
  BY DEF ToSet
<1>3. s # << >> => Len(s) \in 1 .. Len(s)
  OBVIOUS
<1> QED
  BY <1>1, <1>2, <1>3 DEF LastOf

LEMMA KeptHolds ==
  ASSUME NEW s \in Seq(Samples), NEW x \in Samples, Len(s) < HistorySize
  PROVE  /\ ToSet(Kept(Append(s, x))) \subseteq ToSet(s) \cup {x}
         /\ s # << >> => Kept(Append(s, x)) # << >> /\ LastOf(Kept(Append(s, x))) = x
<1> DEFINE t == Append(s, x)
           n == Len(s)
<1>1. /\ t \in Seq(Samples) /\ Len(t) = n + 1 /\ n \in Nat
      /\ t[n + 1] = x /\ \A k \in 1 .. n : t[k] = s[k] /\ s[k] \in ToSet(s)
  BY SamplesOf
<1>2. \A k \in 1 .. n + 1 : t[k] \in ToSet(s) \cup {x}
  BY <1>1
<1>3. s # << >> => n # 0
  OBVIOUS
<1> HIDE DEF t, n
<1>4. CASE Len(t) < HistorySize
  <2>1. Kept(t) = t
    BY <1>1, <1>4, MetricAssumption DEF Kept
  <2>2. ToSet(t) \subseteq ToSet(s) \cup {x}
    BY <1>1, <1>2, SamplesOf
  <2>3. t # << >> /\ LastOf(t) = x
    BY <1>1 DEF LastOf
  <2> QED
    BY <2>1, <2>2, <2>3 DEF t
<1>5. CASE ~(Len(t) < HistorySize)
  <2> DEFINE u == Tail(t)
  <2>1. Kept(t) = u
    BY <1>1, <1>5, MetricAssumption DEF Kept
  <2>2. u \in Seq(Samples) /\ Len(u) = n /\ \A k \in 1 .. n : u[k] = t[k + 1]
    BY <1>1
  <2> HIDE DEF u
  <2>3. ToSet(u) \subseteq ToSet(s) \cup {x}
    <3> SUFFICES ASSUME NEW y \in ToSet(u) PROVE y \in ToSet(s) \cup {x}
      OBVIOUS
    <3>1. PICK k \in 1 .. n : y = u[k]
      BY <2>2, SamplesOf
    <3>2. k + 1 \in 1 .. n + 1
      BY <1>1
    <3> QED
      BY <1>2, <2>2, <3>1, <3>2
  <2>4. s # << >> => u # << >> /\ LastOf(u) = x
    <3> SUFFICES ASSUME s # << >> PROVE u # << >> /\ LastOf(u) = x
      OBVIOUS
    <3>1. n \in 1 .. n
      BY <1>1, <1>3
    <3>2. u[n] = x
      BY <1>1, <2>2, <3>1
    <3>3. u # << >>
      BY <1>1, <1>3, <2>2
    <3> QED
      BY <2>2, <3>2, <3>3 DEF LastOf
  <2> QED
    BY <2>1, <2>3, <2>4 DEF t
<1> QED
  BY <1>4, <1>5 DEF t

LEMMA HeldOf ==
  ASSUME PInv
  PROVE  /\ Held \in SUBSET Samples
         /\ \A m \in Metrics : ring[m] \in Seq(Samples) /\ ToSet(ring[m]) \subseteq Held
         /\ \A m \in DOMAIN history : /\ m \in Metrics
                                      /\ history[m] \in Seq(Samples)
                                      /\ ToSet(history[m]) \subseteq Held
         /\ DOMAIN history = 1 .. Len(history)
<1>1. ring \in [Metrics -> Seq(Samples)] /\ history \in Seq(Seq(Samples))
      /\ Len(history) <= MetricCount /\ Len(history) \in Nat
  BY DEF PInv, PredTypeOK
<1>2. \A m \in Metrics : ring[m] \in Seq(Samples)
  BY <1>1
<1>3. \A m \in DOMAIN history : m \in Metrics /\ history[m] \in Seq(Samples)
  BY <1>1, MetricAssumption DEF Metrics
<1>4. /\ \A m \in Metrics : ToSet(ring[m]) \in SUBSET Samples
      /\ \A m \in DOMAIN history : ToSet(history[m]) \in SUBSET Samples
  BY <1>2, <1>3, SamplesOf
<1>5. DOMAIN history = 1 .. Len(history)
  BY <1>1
<1> HIDE DEF Metrics
<1> QED
  BY <1>2, <1>3, <1>4, <1>5 DEF Held

(***************************************************************************)
(* What is held, and how it is kept.                                       *)
(***************************************************************************)
LEMMA TimesApart ==
  ASSUME PInv
  PROVE  /\ clock \in Nat /\ time_state_changed \in Nat
         /\ \A x \in Held : x.time \in Nat /\ x.time \in Times /\ x.state \in UserStates
<1>1. Held \in SUBSET Samples
  BY HeldOf
<1>2. \A x \in Held : x.time \in Times /\ x.state \in UserStates
  BY <1>1 DEF Samples
<1>3. time_state_changed \in Nat
  BY ConstantsOK DEF PInv, IInv, TypeOK
<1> QED
  BY <1>2, <1>3, TimesOK, FeedTypes

LEMMA ApartKept ==
  ASSUME SamplesApart, UNCHANGED <<clock, feed>>, Held' \subseteq Held
  PROVE  SamplesApart'
BY DEF SamplesApart, Spaced

LEMMA ChangeApartKept ==
  ASSUME ChangeApart, UNCHANGED <<clock, feed, fsm>>, Held' \subseteq Held
  PROVE  ChangeApart'
BY DEF ChangeApart, Spaced, fsm, CurrentState

LEMMA HeldGrows ==
  ASSUME PInv, NEW m \in Metrics, NEW sample \in Samples, Feed(m, sample)
  PROVE  /\ Held' \subseteq Held \cup {sample}
         /\ \A n \in Metrics : ring[n] # << >> =>
              /\ ring'[n] # << >>
              /\ LastOf(ring'[n]) = IF n = m THEN sample ELSE LastOf(ring[n])
<1>1. ring' = [ring EXCEPT ![m] = Kept(Append(@, sample))] /\ history' = history
  BY DEF Feed
<1>2. ring \in [Metrics -> Seq(Samples)] /\ Len(ring[m]) < HistorySize
  BY DEF PInv, PredTypeOK, RingsSorted
<1>3. /\ ring[m] \in Seq(Samples)
      /\ \A n \in Metrics : ring'[n] = IF n = m THEN Kept(Append(ring[m], sample)) ELSE ring[n]
  BY <1>1, <1>2
<1>4. /\ ToSet(Kept(Append(ring[m], sample))) \subseteq ToSet(ring[m]) \cup {sample}
      /\ ring[m] # << >> =>
           /\ Kept(Append(ring[m], sample)) # << >>
           /\ LastOf(Kept(Append(ring[m], sample))) = sample
  BY <1>2, <1>3, KeptHolds
<1>5. \A n \in Metrics : ToSet(ring'[n]) \subseteq ToSet(ring[n]) \cup {sample}
  BY <1>3, <1>4
<1> QED
  BY <1>1, <1>3, <1>4, <1>5 DEF Held

LEMMA FeedKeepsHeld ==
  ASSUME PInv, Follow, NEW m \in Metrics, NEW sample \in Samples, Feed(m, sample)
  PROVE  SamplesApart' /\ ChangeApart' /\ RingsAhead' /\ ChangeRecalled' /\ BeforeIsNow'
<1>1. /\ UNCHANGED <<fsm, feed, pc, history, cur_index, output, before>>
      /\ sample.time \in clock .. feed.last
      /\ clock' = sample.time + feed.spacing
  BY DEF Feed
<1>2. /\ clock \in Nat /\ feed.last \in Nat /\ feed.spacing \in Nat /\ sample.time \in Nat
      /\ time_state_changed \in Nat
      /\ \A x \in Held : x.time \in Nat
  BY TimesApart, FeedTypes, TimesOK DEF Samples
<1>3. clock <= sample.time
  BY <1>1, <1>2
<1>4. /\ Held' \subseteq Held \cup {sample}
      /\ \A n \in Metrics : ring[n] # << >> =>
           /\ ring'[n] # << >>
           /\ LastOf(ring'[n]) = IF n = m THEN sample ELSE LastOf(ring[n])
  BY HeldGrows
<1>5. \A n \in Metrics : ring[n] # << >> => LastOf(ring[n]) \in Held
  BY HeldOf, SamplesOf
<1>6. SamplesApart'
  <2> SUFFICES ASSUME Spaced
               PROVE  \A x \in Held' :
                        /\ x.time + 1 < clock'
                        /\ \A y \in Held' : x.time <= y.time => x = y \/ x.time + 1 < y.time
    BY <1>1 DEF SamplesApart, Spaced
  <2>1. feed.spacing > 1
    BY DEF Spaced
  <2>2. \A x \in Held : /\ x.time + 1 < clock
                        /\ \A y \in Held : x.time <= y.time => x = y \/ x.time + 1 < y.time
    BY DEF Follow, SamplesApart
  <2>3. \A x \in Held : x.time + 1 < sample.time /\ x.time + 1 < clock'
    BY <1>1, <1>2, <1>3, <2>1, <2>2
  <2>4. sample.time + 1 < clock'
    BY <1>1, <1>2, <2>1
  <2> QED
    BY <1>2, <1>4, <2>2, <2>3, <2>4
<1>7. ChangeApart'
  <2> SUFFICES ASSUME Spaced, cur # 0, time_state_changed # Never
               PROVE  /\ time_state_changed + 1 < clock'
                      /\ \A x \in Held' : /\ x.time = time_state_changed => x.state = CurrentState
                                          /\ x.time # time_state_changed + 1
    BY <1>1 DEF ChangeApart, Spaced, fsm, CurrentState
  <2>1. /\ time_state_changed + 1 < clock
        /\ \A x \in Held : /\ x.time = time_state_changed => x.state = CurrentState
                           /\ x.time # time_state_changed + 1
    BY DEF Follow, ChangeApart
  <2>2. time_state_changed + 1 < sample.time /\ time_state_changed + 1 < clock'
    BY <1>1, <1>2, <1>3, <2>1
  <2> QED
    BY <1>2, <1>4, <2>1, <2>2
<1>8. RingsAhead' /\ ChangeRecalled'
  <2>1. RingsAhead'
    <3> SUFFICES ASSUME NEW n \in DOMAIN history, history[n] # << >>
                 PROVE  ring'[n] # << >> /\ LastOf(history[n]).time <= LastOf(ring'[n]).time
      BY <1>1 DEF RingsAhead, LastOf
    <3>1. /\ n \in Metrics /\ history[n] \in Seq(Samples) /\ ring[n] # << >>
          /\ LastOf(history[n]).time <= LastOf(ring[n]).time
      BY HeldOf DEF Follow, RingsAhead
    <3>2. ring[n] \in Seq(Samples) /\ Len(ring[n]) \in 1 .. Len(ring[n])
      BY <3>1, HeldOf, SamplesOf
    <3>3. /\ LastOf(ring[n]).time \in Nat /\ LastOf(ring[n]).time <= clock
      BY <3>1, <3>2, TimesAreNat DEF PInv, RingsSorted, LastOf
    <3>4. LastOf(history[n]).time \in Nat
      BY <3>1, HeldOf, SamplesOf, <1>2
    <3> QED
      BY <1>2, <1>3, <1>4, <3>1, <3>3, <3>4
  <2>2. ChangeRecalled'
    <3> SUFFICES ASSUME Spaced, cur # 0
                 PROVE  \E n \in Metrics :
                          /\ Recalls(ring[n])'
                          /\ pc # "idle" /\ n \in DOMAIN history => Recalls(history[n])'
      BY <1>1 DEF ChangeRecalled, Spaced, fsm
    <3>1. PICK n \in Metrics :
            /\ Recalls(ring[n])
            /\ pc # "idle" /\ n \in DOMAIN history => Recalls(history[n])
      BY DEF Follow, ChangeRecalled
    <3>2. pc # "idle" /\ n \in DOMAIN history => Recalls(history[n])'
      BY <1>1, <3>1 DEF Recalls, fsm, CurrentState, LastOf
    <3>3. ring[n] # << >> /\ LastOf(ring[n]) \in Held
      BY <1>5, <3>1 DEF Recalls
    <3>4. LastOf(ring[n]).time \in Nat /\ LastOf(ring[n]).time + 1 < clock
      BY <1>2, <3>3 DEF Follow, SamplesApart
    <3>5. \/ LastOf(ring'[n]) = LastOf(ring[n])
          \/ LastOf(ring'[n]) = sample /\ sample.time > LastOf(ring[n]).time /\ sample.time > 0
      BY <1>2, <1>3, <1>4, <3>3, <3>4
    <3>6. ring'[n] # << >>
      BY <1>4, <3>3
    <3>7. Recalls(ring[n])'
      <4>1. IF time_state_changed = Never
            THEN LastOf(ring'[n]).time > 0 \/ LastOf(ring'[n]).state = CurrentState
            ELSE LastOf(ring'[n]).time >= time_state_changed
        BY <1>2, <3>1, <3>4, <3>5 DEF Recalls
      <4> QED
        BY <1>1, <3>6, <4>1 DEF Recalls, fsm, CurrentState, LastOf
    <3> QED
      BY <3>2, <3>7
  <2> QED
    BY <2>1, <2>2
<1>9. BeforeIsNow'
  BY <1>1 DEF Follow, BeforeIsNow, fsm, CurrentState
<1> QED
  BY <1>6, <1>7, <1>8, <1>9

LEMMA StartTickFollows == ASSUME PInv, Follow, StartTick PROVE Follow'
<1>1. /\ pc = "idle" /\ pc' = "dump" /\ history' = << >>
      /\ before' = [state |-> CurrentState, time |-> time_state_changed]
      /\ UNCHANGED <<fsm, feed, ring, clock, fed, output>>
  BY DEF StartTick
<1>2. DOMAIN history' = {}
  BY <1>1
<1>3. Held' \subseteq Held
  BY <1>1, <1>2 DEF Held
<1>4. SamplesApart' /\ ChangeApart'
  BY <1>1, <1>3, ApartKept, ChangeApartKept DEF Follow
<1>5. RingsAhead' /\ BeforeIsNow' /\ FsmFollows'
  BY <1>1, <1>2 DEF RingsAhead, BeforeIsNow, FsmFollows, fsm, CurrentState
<1>6. ChangeRecalled'
  BY <1>1, <1>2 DEF Follow, ChangeRecalled, Recalls, Spaced, fsm, CurrentState, LastOf
<1> QED
  BY <1>4, <1>5, <1>6 DEF Follow

LEMMA DumpHolds ==
  ASSUME PInv, DumpHistory
  PROVE  LET d == Len(history) + 1 IN
         /\ d \in Metrics
         /\ DOMAIN history' = DOMAIN history \cup {d}
         /\ history'[d] = ring[d]
         /\ \A m \in DOMAIN history : history'[m] = history[m]
<1> DEFINE d == Len(history) + 1
<1>1. history' = Append(history, ring[d]) /\ pc = "dump"
  BY DEF DumpHistory
<1>2. history \in Seq(Seq(Samples)) /\ Len(history) < MetricCount /\ Len(history) \in Nat
  BY <1>1 DEF PInv, PredTypeOK, DumpsMissing
<1>3. d \in Metrics /\ ring[d] \in Seq(Samples)
  <2>1. d \in Metrics
    BY <1>2, MetricAssumption DEF Metrics
  <2> QED
    BY <2>1, HeldOf
<1>4. Len(history') = d /\ DOMAIN history' = 1 .. d /\ DOMAIN history = 1 .. Len(history)
  BY <1>1, <1>2, <1>3
<1>5. 1 .. d = (1 .. Len(history)) \cup {d}
  BY <1>2
<1>6. history'[d] = ring[d] /\ \A m \in 1 .. Len(history) : history'[m] = history[m]
  BY <1>1, <1>2, <1>3
<1> QED
  BY <1>3, <1>4, <1>5, <1>6

LEMMA DumpKeepsHeld ==
  ASSUME PInv, Follow, DumpHistory
  PROVE  SamplesApart' /\ ChangeApart' /\ RingsAhead' /\ ChangeRecalled' /\ BeforeIsNow'
<1> DEFINE d == Len(history) + 1
<1>1. /\ pc = "dump" /\ UNCHANGED <<fsm, feed, ring, clock, fed, cur_index, output, before>>
  BY DEF DumpHistory
<1>2. /\ d \in Metrics
      /\ DOMAIN history' = DOMAIN history \cup {d}
      /\ history'[d] = ring[d]
      /\ \A m \in DOMAIN history : history'[m] = history[m]
  BY DumpHolds
<1>3. ring[d] \in Seq(Samples)
  BY <1>2, HeldOf
<1> HIDE DEF d
<1>4. Held' \subseteq Held
  <2>1. \A m \in DOMAIN history' : \/ m \in DOMAIN history /\ ToSet(history'[m]) = ToSet(history[m])
                                   \/ ToSet(history'[m]) = ToSet(ring[d])
    BY <1>2
  <2> QED
    BY <1>1, <1>2, <2>1 DEF Held
<1>5. SamplesApart' /\ ChangeApart'
  BY <1>1, <1>4, ApartKept, ChangeApartKept DEF Follow
<1>6. RingsAhead'
  <2> SUFFICES ASSUME NEW m \in DOMAIN history', history'[m] # << >>
               PROVE  ring[m] # << >> /\ LastOf(history'[m]).time <= LastOf(ring[m]).time
    BY <1>1 DEF RingsAhead, LastOf
  <2>1. CASE m = d
    <3>1. LastOf(ring[d]).time \in Nat
      BY <1>2, <1>3, <2>1, SamplesOf, TimesAreNat DEF LastOf
    <3> QED
      BY <1>2, <2>1, <3>1
  <2>2. CASE m # d
    BY <1>2, <2>2 DEF Follow, RingsAhead
  <2> QED
    BY <2>1, <2>2
<1>7. ChangeRecalled'
  <2> SUFFICES ASSUME Spaced, cur # 0
               PROVE  \E m \in Metrics :
                        /\ Recalls(ring[m])'
                        /\ m \in DOMAIN history' => Recalls(history[m])'
    BY <1>1 DEF ChangeRecalled, Spaced, fsm
  <2>1. PICK m \in Metrics :
          /\ Recalls(ring[m])
          /\ m \in DOMAIN history => Recalls(history[m])
    BY <1>1 DEF Follow, ChangeRecalled
  <2>2. \A s : Recalls(s) =>
          /\ s # << >>
          /\ IF time_state_changed' = Never
             THEN LastOf(s).time > 0 \/ LastOf(s).state = CurrentState'
             ELSE LastOf(s).time >= time_state_changed'
    BY <1>1 DEF Recalls, fsm, CurrentState
  <2>3. Recalls(ring[m])'
    BY <1>1, <2>1, <2>2 DEF Recalls, LastOf
  <2>4. m \in DOMAIN history' => Recalls(history[m])'
    BY <1>2, <2>1, <2>2 DEF Recalls, LastOf
  <2> QED
    BY <2>3, <2>4
<1>8. BeforeIsNow'
  BY <1>1 DEF Follow, BeforeIsNow, fsm, CurrentState
<1> QED
  BY <1>5, <1>6, <1>7, <1>8

\* The sums of the totals.
LEMMA TotalsAreSums ==
  /\ Totals = SumOf(total_count, DOMAIN cnt)
  /\ Totals' = SumOf(total_count', DOMAIN cnt')
BY DEF Totals, SumOf, MapThenSumSet, MapThenFoldSet

LEMMA EdgesFinite ==
  ASSUME IInv
  PROVE  IsFiniteSet(DOMAIN cnt) /\ IsFiniteSet(Positions)
<1>1. IsFiniteSet(Positions)
  <2>1. Len(states) \in Nat
    BY DEF IInv, TypeOK
  <2> QED
    BY <2>1, FS_Interval DEF Positions
<1>2. IsFiniteSet(Positions \X Positions)
  BY <1>1, FS_Product
<1> QED
  BY <1>1, <1>2, FS_Subset DEF IInv, TypeOK

\* At the beginning of the training nothing is done.
LEMMA DumpFollows == ASSUME PInv, Follow, DumpHistory PROVE FsmFollows'
<1> SUFFICES ASSUME pc' = "train" PROVE StateFollows' /\ TimeFollows' /\ CountsFollow'
  BY DEF FsmFollows
<1>1. /\ pc = "dump" /\ UNCHANGED <<fsm, feed, ring, clock, fed, cur_index, output, before>>
  BY DEF DumpHistory
<1>2. \A m \in Metrics : cur_index[m] = 0
  BY <1>1 DEF PInv, PredTypeOK
<1>3. Done' = {}
  BY <1>1, <1>2 DEF Done
<1>4. DoneFresh' = {} /\ DoneChanges' = {}
  BY <1>3 DEF DoneFresh, DoneChanges
<1>5. /\ before'.state = CurrentState' /\ before'.time = time_state_changed'
      /\ CurrentState' = CurrentState
  BY <1>1 DEF Follow, BeforeIsNow, fsm, CurrentState
<1>6. StateFollows'
  BY <1>4, <1>5 DEF StateFollows
<1>7. TimeFollows'
  <2>1. cur # 0 => CurrentState \in UserStates
    BY DEF PInv, IInv, TypeOK, CurrentState
  <2>2. cur' = cur
    BY <1>1 DEF fsm
  <2> QED
    BY <1>4, <1>5, <2>1, <2>2, NoStateAssumption DEF TimeFollows
<1>8. CountsFollow'
  <2>1. IsFiniteSet(DOMAIN cnt) /\ \A e \in DOMAIN cnt : total_count[e] = 0
    BY <1>1, EdgesFinite DEF PInv, EmptyOutsideTraining
  <2>2. SumOf(total_count, DOMAIN cnt) = 0
    BY <2>1, SumZero
  <2>3. Totals' = 0
    BY <1>1, <2>2, TotalsAreSums DEF fsm
  <2> QED
    BY <1>4, <2>3, FS_EmptySet DEF CountsFollow
<1> QED
  BY <1>6, <1>7, <1>8

(***************************************************************************)
(* What an observation does.                                               *)
(***************************************************************************)
LEMMA SumExtended ==
  ASSUME NEW f, NEW g, NEW S, NEW U, S \subseteq U, IsFiniteSet(U),
         \A x \in S : f[x] \in Nat /\ g[x] = f[x], \A x \in U \ S : g[x] = 0
  PROVE  SumOf(g, U) = SumOf(f, S)
<1> DEFINE bad == {T \in SUBSET U : S \subseteq T /\ SumOf(g, T) # SumOf(f, S)}
<1> SUFFICES ASSUME bad # {} PROVE FALSE
  OBVIOUS
<1>1. \A T \in SUBSET U : IsFiniteSet(T)
  BY FS_Subset
<1>2. PICK T \in bad : \A V \in bad : Cardinality(T) <= Cardinality(V)
  <2>1. \A V \in bad : Sums!IsFiniteSet(V)
    BY <1>1 DEF IsFiniteSet, Sums!IsFiniteSet
  <2>2. \E T \in bad : \A V \in bad : Sums!Cardinality(T) <= Sums!Cardinality(V)
    BY <2>1, Sums!SmallestSet
  <2> QED
    BY <2>2 DEF Cardinality, Sums!Cardinality
<1>3. /\ IsFiniteSet(T) /\ S \subseteq T /\ T \subseteq U /\ SumOf(g, T) # SumOf(f, S)
      /\ \A x \in T : g[x] \in Nat
  BY <1>1
<1>4. T # S
  <2>1. IsFiniteSet(S) /\ \A x \in S : g[x] = f[x]
    BY <1>1
  <2> QED
    BY <1>3, <2>1, SumSame
<1>5. PICK x \in T : x \notin S
  BY <1>3, <1>4
<1>6. SumOf(g, T) = SumOf(g, T \ {x})
  <2>1. SumOf(g, T) = g[x] + SumOf(g, T \ {x})
    BY <1>3, SumIs
  <2>2. SumOf(g, T \ {x}) \in Nat
    <3>1. IsFiniteSet(T \ {x}) /\ \A y \in T \ {x} : g[y] \in Nat
      BY <1>1, <1>3
    <3> QED
      BY <3>1, SumIs
  <2>3. g[x] = 0
    BY <1>3, <1>5
  <2> QED
    BY <2>1, <2>2, <2>3
<1>7. T \ {x} \in bad
  BY <1>3, <1>5, <1>6
<1>8. Cardinality(T \ {x}) \in Nat /\ Cardinality(T) = Cardinality(T \ {x}) + 1
  <2>1. IsFiniteSet(T \ {x}) /\ Cardinality(T \ {x}) = Cardinality(T) - 1 /\ Cardinality(T) \in Nat
    BY <1>3, <1>5, FS_RemoveElement, FS_CardinalityType
  <2> QED
    BY <2>1, FS_CardinalityType
<1> HIDE DEF bad
<1>9. Cardinality(T) <= Cardinality(T \ {x})
  BY <1>2, <1>7
<1> QED
  BY <1>8, <1>9

\* A change is counted once, unless nothing is known of the last.
LEMMA EnterAddsOne ==
  ASSUME IInv, NEW j, NEW t \in Times, NEW edges, Enter(j, t, edges),
         IsFiniteSet(edges), DOMAIN cnt \subseteq edges, <<cur, j>> \in edges
  PROVE  Totals' = IF time_state_changed = Never THEN Totals ELSE Totals + 1
<1> DEFINE T == [e \in edges |-> Total(e)]
           k == <<cur, j>>
<1>1. /\ DOMAIN cnt' = edges
      /\ \A e \in edges : total_count'[e] = IF Counts(e, j) THEN Total(e) + 1 ELSE Total(e)
  BY DEF Enter
<1>2. \A e \in DOMAIN cnt : total_count[e] \in Nat
  BY DEF IInv, TypeOK
<1>3. /\ \A e \in DOMAIN cnt : T[e] = total_count[e]
      /\ \A e \in edges \ DOMAIN cnt : T[e] = 0
      /\ \A e \in edges : T[e] \in Nat /\ T[e] = Total(e)
  BY <1>2 DEF Total
<1> HIDE DEF T, k
<1>4. SumOf(T, edges) = Totals
  <2>1. SumOf(T, edges) = SumOf(total_count, DOMAIN cnt)
    BY <1>2, <1>3, SumExtended
  <2> QED
    BY <2>1, TotalsAreSums
<1>5. Totals' = SumOf(total_count', edges)
  BY <1>1, TotalsAreSums
<1>6. CASE time_state_changed = Never
  <2>1. \A e \in edges : total_count'[e] = T[e]
    BY <1>1, <1>3, <1>6 DEF Counts
  <2>2. SumOf(total_count', edges) = SumOf(T, edges)
    BY <2>1, SumSame
  <2> QED
    BY <1>4, <1>5, <1>6, <2>2
<1>7. CASE time_state_changed # Never
  <2>1. total_count'[k] = T[k] + 1 /\ \A e \in edges : e # k => total_count'[e] = T[e]
    BY <1>1, <1>3, <1>7 DEF Counts, k
  <2>2. k \in edges
    BY DEF k
  <2>3. SumOf(total_count', edges) = SumOf(T, edges) + 1
    BY <1>3, <2>1, <2>2, SumOneMore
  <2> QED
    BY <1>4, <1>5, <1>7, <2>3
<1> QED
  BY <1>6, <1>7

LEMMA TooEarlyIs ==
  ASSUME NEW t \in 0 .. Never
  PROVE  (t + 1) % TimeModulus = IF t = Never THEN 0 ELSE t + 1
<1>1. CASE t = Never
  <2>1. t + 1 = TimeModulus /\ TimeModulus \in Nat \ {0}
    BY <1>1, ConstantsOK
  <2>2. TimeModulus % TimeModulus = 0
    BY <2>1
  <2> QED
    BY <1>1, <2>1, <2>2
<1>2. CASE t # Never
  <2>1. t + 1 \in 0 .. TimeModulus - 1 /\ TimeModulus \in Nat \ {0}
    BY <1>2, ConstantsOK
  <2>2. (t + 1) % TimeModulus = t + 1
    BY <2>1
  <2> QED
    BY <1>2, <2>2
<1> QED
  BY <1>1, <1>2

Ignores(s, t) ==
  /\ cur # 0 /\ UNCHANGED vars
  /\ CurrentState = s \/ TooEarly(t)

BeginsWith(s) ==
  /\ cur = 0 /\ cur' # 0 /\ CurrentState' = s
  /\ time_state_changed' = Never
  /\ Totals' = Totals

ChangesTo(s, t) ==
  /\ cur # 0 /\ CurrentState # s /\ ~TooEarly(t)
  /\ cur' # 0 /\ CurrentState' = s
  /\ time_state_changed' = t
  /\ Totals' = IF time_state_changed = Never THEN Totals ELSE Totals + 1

LEMMA ObserveDoes ==
  ASSUME IInv, NEW s \in UserStates, NEW t \in Times, Observe(s, t)
  PROVE  Ignores(s, t) \/ BeginsWith(s) \/ ChangesTo(s, t)
<1>1. CASE SameState(s) \/ IgnoreChange(s, t)
  BY <1>1 DEF SameState, IgnoreChange, Ignores, CurrentState
<1>2. CASE AddFirstState(s)
  <2>1. cur = 0 /\ cur' = 1 /\ states'[1] = s /\ time_state_changed' = Never
        /\ cnt' = cnt /\ total_count' = total_count
    BY <1>2, AddFirstStateProperties DEF AddFirstState
  <2>2. Totals' = Totals
    BY <2>1, TotalsAreSums
  <2> QED
    BY <2>1, <2>2 DEF BeginsWith, CurrentState
<1>3. CASE ChangeState(s, t)
  <2>1. PICK j \in Found(s) : Enter(j, t, DOMAIN cnt)
    BY <1>3 DEF ChangeState
  <2>2. cur # 0 /\ states[cur] # s /\ ~TooEarly(t) /\ states' = states
    BY <1>3 DEF ChangeState
  <2>3. j \in Positions /\ states[j] = s /\ <<cur, j>> \in DOMAIN cnt
    BY <2>1, <2>2, FoundProperties DEF Found
  <2>4. cur' = j /\ time_state_changed' = t
    BY <2>1, EnterProperties
  <2>5. Totals' = IF time_state_changed = Never THEN Totals ELSE Totals + 1
    BY <2>1, <2>3, EdgesFinite, EnterAddsOne
  <2>6. j # 0
    BY <2>3 DEF Positions
  <2> QED
    BY <2>2, <2>3, <2>4, <2>5, <2>6 DEF ChangesTo, CurrentState
<1>4. CASE AddState(s, t)
  <2> DEFINE n == Len(states) + 1
             edges == DOMAIN cnt \cup NewEdges(n)
  <2>1. /\ cur # 0 /\ states[cur] # s /\ ~TooEarly(t)
        /\ states' = Append(states, s) /\ Enter(n, t, edges)
    BY <1>4 DEF AddState
  <2>2. states \in Seq(UserStates) /\ cur \in 1 .. Len(states) /\ Len(states) \in Nat
    BY <2>1 DEF IInv, TypeOK
  <2>3. n \in Nat /\ n # 0 /\ states'[n] = s
    BY <2>1, <2>2
  <2>4. cur' = n /\ time_state_changed' = t
    BY <2>1, EnterProperties
  <2>5. <<cur, n>> \in edges
    <3>1. cur \in 1 .. n - 1
      BY <2>2
    <3> QED
      BY <3>1 DEF NewEdges
  <2>6. IsFiniteSet(edges)
    <3>1. IsFiniteSet(1 .. n)
      BY <2>3, FS_Interval
    <3>2. IsFiniteSet((1 .. n) \X (1 .. n))
      BY <3>1, FS_Product
    <3>3. NewEdges(n) \subseteq (1 .. n) \X (1 .. n)
      BY <2>3 DEF NewEdges
    <3>4. IsFiniteSet(NewEdges(n)) /\ IsFiniteSet(DOMAIN cnt)
      BY <3>2, <3>3, FS_Subset, EdgesFinite
    <3> QED
      BY <3>4, FS_Union
  <2>7. Totals' = IF time_state_changed = Never THEN Totals ELSE Totals + 1
    BY <2>1, <2>5, <2>6, EnterAddsOne
  <2> QED
    BY <2>1, <2>3, <2>4, <2>7 DEF ChangesTo, CurrentState
<1> QED
  BY <1>1, <1>2, <1>3, <1>4 DEF Observe

(***************************************************************************)
(* The merge.                                                              *)
(***************************************************************************)
LEMMA SameSamples ==
  ASSUME UNCHANGED <<history, before>>
  PROVE  Merged' = Merged /\ Fresh' = Fresh /\ Changes' = Changes
<1>1. Merged' = Merged
  BY DEF Merged
<1>2. Fresh' = Fresh
  BY <1>1 DEF Fresh
<1>3. ASSUME NEW x PROVE Previous(x)' = Previous(x)
  <2> DEFINE e == {y \in Fresh : y.time < x.time}
             f == {y \in Fresh' : y.time < x.time}
  <2>1. e = f
    BY <1>2
  <2>2. /\ Previous(x) = IF e # {} THEN Latest(e).state
                         ELSE IF before.state = NoState THEN x.state ELSE before.state
        /\ Previous(x)' = IF f # {} THEN Latest(f).state
                          ELSE IF before'.state = NoState THEN x.state ELSE before'.state
    BY DEF Previous
  <2> HIDE DEF e, f
  <2> QED
    BY <2>1, <2>2
<1>4. Changes' = Changes
  BY <1>2, <1>3 DEF Changes
<1> QED
  BY <1>1, <1>2, <1>4

\* The sample that is consumed comes after those that were, before those that
\* were not.
LEMMA TrainConsumes ==
  ASSUME PInv, TrainSample
  PROVE  LET x == NextSample(min_time_idx) IN
         /\ x \in Merged /\ x \in Held /\ x \in Samples
         /\ Observe(x.state, x.time)
         /\ Done' = Done \cup {x} /\ Done \subseteq Merged
         /\ \A y \in Done : y.time <= x.time
         /\ \A y \in Merged \ Done : x.time <= y.time
         /\ \E c \in DOMAIN history : /\ history[c] # << >>
                                      /\ x.time <= LastOf(history[c]).time
                                      /\ LastOf(history[c]) \in Held
<1> DEFINE c == min_time_idx
           x == NextSample(c)
<1>1. /\ pc = "train" /\ Left # {}
      /\ Observe(x.state, x.time)
      /\ cur_index' = [cur_index EXCEPT ![c] = @ + 1]
      /\ UNCHANGED <<feed, ring, clock, fed, pc, history, output, before>>
  BY DEF TrainSample, Consumed
<1>2. c \in Left /\ \A n \in Left : x.time <= NextSample(n).time
  BY <1>1, SearchFinds
<1>3. /\ Len(history) = MetricCount /\ history \in Seq(Seq(Samples))
      /\ cur_index \in [Metrics -> Nat]
      /\ \A m \in Metrics : cur_index[m] <= Len(history[m])
  BY <1>1 DEF PInv, PredTypeOK
<1>4. /\ DOMAIN history = Metrics
      /\ \A m \in Metrics : history[m] \in Seq(Samples) /\ Len(history[m]) \in Nat
  BY <1>3, MetricAssumption DEF Metrics
<1>5. /\ c \in Metrics /\ Len(history[c]) > cur_index[c]
      /\ cur_index[c] + 1 \in 1 .. Len(history[c])
  <2>1. c \in Metrics /\ Len(history[c]) > cur_index[c]
    BY <1>2 DEF Left
  <2>2. cur_index[c] \in Nat /\ Len(history[c]) \in Nat
    BY <1>3, <1>4, <2>1
  <2> HIDE DEF c
  <2> QED
    BY <2>1, <2>2
<1>6. x = history[c][cur_index[c] + 1]
  BY DEF NextSample
<1>7. x \in Merged /\ x \in Held /\ x \in Samples
  <2>1. x \in ToSet(history[c]) /\ ToSet(history[c]) \subseteq Held /\ Held \in SUBSET Samples
    BY <1>4, <1>5, <1>6, HeldOf, SamplesOf
  <2> QED
    BY <2>1, <1>5 DEF Merged
<1>8. \A m \in Metrics : cur_index'[m] = IF m = c THEN cur_index[m] + 1 ELSE cur_index[m]
  BY <1>1, <1>3
<1> HIDE DEF x, c
<1>9. Done' = Done \cup {x}
  <2>1. ASSUME NEW y \in Done' PROVE y \in Done \cup {x}
    <3>1. PICK m \in Metrics : y \in {history[m][k] : k \in 1 .. cur_index'[m]}
      BY <1>1 DEF Done
    <3>2. PICK k \in 1 .. cur_index'[m] : y = history[m][k]
      BY <3>1
    <3>3. CASE m = c /\ k = cur_index[c] + 1
      BY <1>6, <3>2, <3>3
    <3>4. CASE ~(m = c /\ k = cur_index[c] + 1)
      <4>1. k \in 1 .. cur_index[m]
        BY <1>3, <1>8, <3>4
      <4> QED
        BY <3>2, <4>1 DEF Done
    <3> QED
      BY <3>3, <3>4
  <2>2. ASSUME NEW y \in Done PROVE y \in Done'
    <3>1. PICK m \in Metrics : y \in {history[m][k] : k \in 1 .. cur_index[m]}
      BY DEF Done
    <3>2. PICK k \in 1 .. cur_index[m] : y = history[m][k]
      BY <3>1
    <3>3. k \in 1 .. cur_index'[m]
      BY <1>3, <1>8
    <3> QED
      BY <1>1, <3>2, <3>3 DEF Done
  <2>3. x \in Done'
    <3>1. cur_index[c] + 1 \in 1 .. cur_index'[c]
      BY <1>3, <1>5, <1>8
    <3> QED
      BY <1>1, <1>5, <1>6, <3>1 DEF Done
  <2> QED
    BY <2>1, <2>2, <2>3
<1>10. Done \subseteq Merged
  <2> SUFFICES ASSUME NEW y \in Done PROVE y \in Merged
    OBVIOUS
  <2>1. PICK m \in Metrics : y \in {history[m][k] : k \in 1 .. cur_index[m]}
    BY DEF Done
  <2>2. PICK k \in 1 .. cur_index[m] : y = history[m][k]
    BY <2>1
  <2>3. k \in 1 .. Len(history[m])
    BY <1>3, <1>4
  <2>4. y \in ToSet(history[m])
    BY <1>4, <2>2, <2>3, SamplesOf
  <2> QED
    BY <2>4 DEF Merged
<1>11. ASSUME NEW y \in Done PROVE y.time <= x.time
  <2>1. PICK m \in Metrics : y \in {history[m][k] : k \in 1 .. cur_index[m]}
    BY DEF Done
  <2>2. PICK k \in 1 .. cur_index[m] : y = history[m][k]
    BY <2>1
  <2>3. cur_index[c] + 1 \in cur_index[c] + 1 .. Len(history[c])
    BY <1>5
  <2> QED
    BY <1>1, <1>5, <1>6, <2>2, <2>3 DEF PInv, MergeOrdered
<1>12. ASSUME NEW y \in Merged \ Done PROVE x.time <= y.time
  <2>1. PICK n \in Metrics : y \in ToSet(history[n])
    BY DEF Merged
  <2>2. PICK l \in 1 .. Len(history[n]) : y = history[n][l]
    BY <1>4, <2>1, SamplesOf
  <2>3. ~(l \in 1 .. cur_index[n])
    BY <2>2 DEF Done
  <2>4. n \in Left /\ cur_index[n] + 1 \in 1 .. Len(history[n]) /\ cur_index[n] + 1 <= l
    BY <1>3, <1>4, <2>3 DEF Left
  <2>5. x.time <= history[n][cur_index[n] + 1].time
    BY <1>2, <2>4 DEF NextSample
  <2>6. history[n][cur_index[n] + 1].time <= history[n][l].time
    <3>1. n \in 1 .. Len(history)
      BY <1>3 DEF Metrics
    <3> QED
      BY <2>4, <3>1 DEF PInv, DumpsSorted, Sorted
  <2>7. history[n][cur_index[n] + 1].time \in Nat /\ history[n][l].time \in Nat
    BY <1>4, <2>4, TimesAreNat
  <2>8. x.time \in Nat
    BY <1>7, TimesOK DEF Samples
  <2> QED
    BY <2>2, <2>5, <2>6, <2>7, <2>8
<1>13. /\ history[c] # << >>
       /\ x.time <= LastOf(history[c]).time
       /\ LastOf(history[c]) \in Held
  <2>1. history[c] # << >> /\ Len(history[c]) \in 1 .. Len(history[c])
    BY <1>4, <1>5
  <2>2. LastOf(history[c]) \in Held
    BY <1>4, <1>5, <2>1, HeldOf, SamplesOf
  <2>3. cur_index[c] + 1 <= Len(history[c]) /\ c \in 1 .. Len(history)
    BY <1>3, <1>5 DEF Metrics
  <2>4. history[c][cur_index[c] + 1].time <= history[c][Len(history[c])].time
    BY <1>5, <2>1, <2>3 DEF PInv, DumpsSorted, Sorted
  <2> QED
    BY <1>6, <2>1, <2>2, <2>4 DEF LastOf
<1>14. \E d \in DOMAIN history : /\ history[d] # << >>
                                 /\ x.time <= LastOf(history[d]).time
                                 /\ LastOf(history[d]) \in Held
  BY <1>4, <1>5, <1>13
<1> QED
  BY <1>1, <1>7, <1>9, <1>10, <1>11, <1>12, <1>14 DEF x, c

\* One sample more that was consumed, and what it does to the history FSM.
LEMMA TrainFollows ==
  ASSUME PInv, Follow, TrainSample, Spaced
  PROVE  StateFollows' /\ TimeFollows' /\ CountsFollow'
<1> DEFINE x == NextSample(min_time_idx)
<1>1. /\ x \in Merged /\ x \in Held /\ x \in Samples
      /\ Observe(x.state, x.time)
      /\ Done' = Done \cup {x} /\ Done \subseteq Merged
      /\ \A y \in Done : y.time <= x.time
      /\ \A y \in Merged \ Done : x.time <= y.time
  BY TrainConsumes
<1>2. /\ UNCHANGED <<feed, ring, clock, fed, pc, history, output, before>> /\ pc = "train"
      /\ Fresh' = Fresh /\ Changes' = Changes
  BY SameSamples DEF TrainSample
<1> HIDE DEF x
<1>3. x.time \in Nat /\ x.time \in Times /\ x.state \in UserStates
  BY <1>1, TimesOK DEF Samples
<1>4. /\ Merged \subseteq Held
      /\ \A y \in Merged : y.time \in Nat
      /\ \A y, z \in Merged : y.time <= z.time => y = z \/ y.time + 1 < z.time
  <2>1. Merged \subseteq Held
    <3>1. DOMAIN history = Metrics
      BY <1>2, HeldOf, MetricAssumption DEF PInv, PredTypeOK, Metrics
    <3> QED
      BY <3>1, HeldOf DEF Merged
  <2> QED
    BY <2>1, TimesApart DEF Follow, SamplesApart
<1>5. /\ StateFollows /\ TimeFollows /\ CountsFollow
  BY <1>2 DEF Follow, FsmFollows
<1>6. /\ DoneFresh' = DoneFresh \cup ({x} \cap Fresh)
      /\ DoneChanges' = DoneChanges \cup ({x} \cap Changes)
  BY <1>1, <1>2 DEF DoneFresh, DoneChanges
<1>7. /\ DoneFresh \subseteq Done /\ DoneFresh \subseteq Fresh /\ Fresh \subseteq Merged
      /\ DoneChanges \subseteq DoneFresh /\ Changes \subseteq Fresh
      /\ Merged \in SUBSET Samples
  <2>1. Merged \in SUBSET Samples
    BY <1>4, HeldOf
  <2> QED
    BY <2>1 DEF DoneFresh, DoneChanges, Fresh, Changes
<1>8. /\ cur = 0 <=> CurrentState = NoState
      /\ CurrentState # NoState => CurrentState \in UserStates
  BY NoStateAssumption DEF PInv, IInv, TypeOK, CurrentState
<1>9. /\ time_state_changed \in 0 .. Never
      /\ before.time \in 0 .. Never /\ before.state \in UserStates \cup {NoState}
  BY DEF PInv, PredTypeOK, IInv, TypeOK
<1>10. TooEarly(x.time) <=>
         x.time <= IF time_state_changed = Never THEN 0 ELSE time_state_changed + 1
  BY <1>9, TooEarlyIs DEF TooEarly
<1>11. x \in Fresh <=>
         (before.state # NoState => x.time > IF before.time = Never THEN 0 ELSE before.time + 1)
  BY <1>1, <1>9, TooEarlyIs DEF Fresh
<1>12. PInv => IInv
  BY DEF PInv
<1>13. Ignores(x.state, x.time) \/ BeginsWith(x.state) \/ ChangesTo(x.state, x.time)
  BY <1>1, <1>3, <1>12, ObserveDoes
\* Nothing changes.
<1>14. ASSUME Ignores(x.state, x.time), DoneFresh' = DoneFresh, DoneChanges' = DoneChanges
       PROVE  StateFollows' /\ TimeFollows' /\ CountsFollow'
  <2>1. /\ CurrentState' = CurrentState /\ time_state_changed' = time_state_changed
        /\ cur' = cur /\ before' = before
    BY <1>2, <1>14 DEF Ignores, vars, CurrentState
  <2>2. Totals' = Totals
    BY <1>14, TotalsAreSums DEF Ignores, vars
  <2>3. StateFollows'
    BY <1>5, <1>14, <2>1 DEF StateFollows
  <2>4. TimeFollows'
    BY <1>5, <1>14, <2>1 DEF TimeFollows
  <2>5. CountsFollow'
    BY <1>5, <1>14, <2>1, <2>2 DEF CountsFollow, Unknown
  <2> QED
    BY <2>3, <2>4, <2>5
<1>15. CASE x \notin Fresh
  <2>1. /\ before.state # NoState
        /\ x.time <= IF before.time = Never THEN 0 ELSE before.time + 1
    <3> DEFINE b == IF before.time = Never THEN 0 ELSE before.time + 1
    <3>1. b \in Nat
      BY <1>9, ConstantsOK
    <3>2. ~(before.state # NoState => x.time > b)
      BY <1>11, <1>15
    <3> HIDE DEF b
    <3>3. before.state # NoState /\ x.time <= b
      BY <1>3, <3>1, <3>2
    <3> QED
      BY <3>3 DEF b
  <2>2. DoneFresh = {}
    <3> SUFFICES ASSUME NEW y \in DoneFresh PROVE FALSE
      OBVIOUS
    <3>1. y \in Merged /\ y.time <= x.time /\ y.time \in Nat
      BY <1>1, <1>4, <1>7
    <3>2. y.time > IF before.time = Never THEN 0 ELSE before.time + 1
      BY <1>7, <1>9, <2>1, TooEarlyIs DEF Fresh
    <3> QED
      BY <1>3, <1>9, <2>1, <3>1, <3>2, ConstantsOK
  <2>3. DoneFresh' = DoneFresh /\ DoneChanges = {} /\ DoneChanges' = DoneChanges
    BY <1>6, <1>7, <1>15, <2>2
  <2>4. CurrentState = before.state /\ time_state_changed = before.time /\ cur # 0
    BY <1>5, <1>8, <2>1, <2>2, <2>3 DEF StateFollows, TimeFollows
  <2>5. TooEarly(x.time)
    BY <1>10, <2>1, <2>4
  <2>6. Ignores(x.state, x.time)
    BY <1>13, <2>4, <2>5 DEF BeginsWith, ChangesTo
  <2> QED
    BY <1>14, <2>3, <2>6
<1>16. CASE x \in Fresh /\ x \in Done
  <2>1. x \in DoneFresh /\ DoneFresh' = DoneFresh /\ DoneChanges' = DoneChanges
    BY <1>6, <1>16 DEF DoneFresh, DoneChanges
  <2>2. Latest(DoneFresh) = x
    <3>1. /\ DoneFresh \in SUBSET Samples
          /\ \A y, z \in DoneFresh : y.time = z.time => y = z
          /\ \A y \in DoneFresh : y.time <= x.time
      <4>1. DoneFresh \subseteq Merged
        BY <1>7
      <4>2. \A y, z \in DoneFresh : y.time = z.time => y = z
        BY <1>4, <4>1
      <4> QED
        BY <1>1, <1>7, <4>1, <4>2
    <3> QED
      BY <2>1, <3>1, LatestUnique
  <2>3. CurrentState = x.state /\ cur # 0
    BY <1>3, <1>5, <1>8, <2>1, <2>2, NoStateAssumption DEF StateFollows
  <2>4. Ignores(x.state, x.time)
    BY <1>13, <2>3 DEF BeginsWith, ChangesTo
  <2> QED
    BY <1>14, <2>1, <2>4
<1>17. CASE x \in Fresh /\ x \notin Done
  <2>1. \A y \in Done : y.time + 1 < x.time /\ y # x
    <3> SUFFICES ASSUME NEW y \in Done PROVE y.time + 1 < x.time /\ y # x
      OBVIOUS
    <3>1. y # x /\ y \in Merged /\ y.time <= x.time
      BY <1>1, <1>17
    <3> QED
      BY <1>1, <1>4, <3>1
  <2>2. {y \in Fresh : y.time < x.time} = DoneFresh
    <3>1. ASSUME NEW y \in Fresh, y.time < x.time PROVE y \in DoneFresh
      <4>1. y \in Merged /\ y.time \in Nat
        BY <1>4, <1>7
      <4>2. y \in Done
        BY <1>1, <1>3, <3>1, <4>1
      <4> QED
        BY <4>2 DEF DoneFresh
    <3>2. ASSUME NEW y \in DoneFresh PROVE y \in Fresh /\ y.time < x.time
      <4>1. y \in Merged /\ y.time \in Nat /\ y \in Done
        BY <1>4, <1>7
      <4> QED
        BY <1>3, <1>7, <2>1, <4>1
    <3> QED
      BY <3>1, <3>2
  <2>3. Previous(x) = IF DoneFresh # {} THEN Latest(DoneFresh).state
                      ELSE IF before.state = NoState THEN x.state ELSE before.state
    BY <2>2 DEF Previous
  <2>4. DoneFresh' = DoneFresh \cup {x} /\ DoneFresh' # {}
    BY <1>6, <1>17
  <2>5. ASSUME NEW S \in SUBSET DoneFresh
        PROVE  Latest(S \cup {x}) = x
    <3> DEFINE R == S \cup {x}
    <3>1. R \in SUBSET Samples /\ x \in R /\ R \subseteq Merged
      BY <1>1, <1>7
    <3>2. \A y, z \in R : y.time = z.time => y = z
      <4>1. \A y \in R : y.time \in Nat
        BY <1>4, <3>1
      <4> HIDE DEF R
      <4> QED
        BY <1>4, <3>1, <4>1
    <3>3. \A y \in R : y.time <= x.time
      BY <1>1, <1>3, <1>7
    <3> HIDE DEF R
    <3>4. Latest(R) = x
      BY <3>1, <3>2, <3>3, LatestUnique
    <3> QED
      BY <3>4 DEF R
  <2>6. Latest(DoneFresh') = x
    BY <2>4, <2>5
  <2>7. DoneFresh = {} \/ Latest(DoneFresh) \in DoneFresh
    BY <1>7, LatestIs
  <2>8. CASE cur = 0
    <3>1. CurrentState = NoState
      BY <1>8, <2>8
    <3>2. DoneFresh = {}
      <4> SUFFICES ASSUME DoneFresh # {} PROVE FALSE
        OBVIOUS
      <4>1. CurrentState = Latest(DoneFresh).state /\ Latest(DoneFresh) \in Samples
        BY <1>5, <1>7, <2>7 DEF StateFollows
      <4> QED
        BY <3>1, <4>1, NoStateAssumption DEF Samples
    <3>3. before.state = NoState
      BY <1>5, <3>1, <3>2 DEF StateFollows
    <3>4. x \notin Changes
      BY <2>3, <3>2, <3>3 DEF Changes
    <3>5. DoneChanges = {} /\ DoneChanges' = {}
      BY <1>6, <1>7, <3>2, <3>4
    <3>6. BeginsWith(x.state)
      BY <1>13, <2>8 DEF Ignores, ChangesTo
    <3>7. StateFollows'
      BY <2>4, <2>6, <3>6 DEF StateFollows, BeginsWith
    <3>8. TimeFollows'
      BY <1>2, <3>3, <3>5, <3>6 DEF TimeFollows, BeginsWith
    <3>9. CountsFollow'
      BY <1>5, <3>5, <3>6 DEF CountsFollow, BeginsWith
    <3> QED
      BY <3>7, <3>8, <3>9
  <2>9. CASE cur # 0
    <3>1. Previous(x) = CurrentState
      <4>1. CurrentState # NoState
        BY <1>8, <2>9
      <4> QED
        BY <1>5, <2>3, <4>1 DEF StateFollows
    <3>2. CASE CurrentState = x.state
      <4>1. x \notin Changes /\ Ignores(x.state, x.time)
        BY <1>13, <2>9, <3>1, <3>2 DEF Changes, BeginsWith, ChangesTo
      <4>2. DoneChanges' = DoneChanges
        BY <1>6, <4>1
      <4>3. /\ CurrentState' = CurrentState /\ time_state_changed' = time_state_changed
            /\ cur' = cur /\ before' = before
        BY <1>2, <4>1 DEF Ignores, vars, CurrentState
      <4>4. Totals' = Totals
        BY <4>1, TotalsAreSums DEF Ignores, vars
      <4>5. StateFollows'
        BY <2>4, <2>6, <3>2, <4>3 DEF StateFollows
      <4>6. TimeFollows'
        BY <1>5, <4>2, <4>3 DEF TimeFollows
      <4>7. CountsFollow'
        BY <1>5, <4>2, <4>3, <4>4 DEF CountsFollow, Unknown
      <4> QED
        BY <4>5, <4>6, <4>7
    <3>3. CASE CurrentState # x.state
      <4>1. x \in Changes /\ DoneChanges' = DoneChanges \cup {x} /\ x \notin DoneChanges
        BY <1>6, <1>17, <3>1, <3>3 DEF Changes, DoneChanges
      <4>2. DoneChanges # {} =>
              /\ time_state_changed = Latest(DoneChanges).time
              /\ Latest(DoneChanges) \in DoneChanges
              /\ time_state_changed # Never
        <5> SUFFICES ASSUME DoneChanges # {}
                     PROVE  /\ time_state_changed = Latest(DoneChanges).time
                            /\ Latest(DoneChanges) \in DoneChanges
                            /\ time_state_changed # Never
          OBVIOUS
        <5>1. time_state_changed = Latest(DoneChanges).time
          BY <1>5 DEF TimeFollows
        <5>2. DoneChanges \in SUBSET Samples
          BY <1>7
        <5>3. Latest(DoneChanges) \in DoneChanges /\ Latest(DoneChanges) \in Samples
          BY <5>2, LatestIs
        <5>4. Latest(DoneChanges).time \in Times
          BY <5>3 DEF Samples
        <5> QED
          BY <5>1, <5>3, <5>4, TimesOK
      <4>3. DoneChanges = {} => (time_state_changed = Never <=> Unknown)
        BY <1>5, <2>9 DEF TimeFollows, Unknown
      <4>4. ~TooEarly(x.time)
        <5>1. CASE DoneChanges # {}
          <6>1. Latest(DoneChanges) \in Done
            BY <1>7, <4>2, <5>1
          <6> QED
            BY <1>3, <1>9, <1>10, <2>1, <4>2, <5>1, <6>1, ConstantsOK
        <5>2. CASE DoneChanges = {} /\ before.state # NoState
          <6>1. time_state_changed = before.time
            BY <1>5, <5>2 DEF TimeFollows
          <6> QED
            BY <1>3, <1>9, <1>10, <1>11, <1>17, <5>2, <6>1, ConstantsOK
        <5>3. CASE DoneChanges = {} /\ before.state = NoState
          <6>1. time_state_changed = Never
            BY <1>5, <2>9, <5>3 DEF TimeFollows
          <6>2. DoneFresh # {}
            BY <1>5, <1>8, <2>9, <5>3 DEF StateFollows
          <6>3. PICK y \in DoneFresh : TRUE
            BY <6>2
          <6>4. y.time \in Nat /\ y.time + 1 < x.time
            BY <1>4, <1>7, <2>1
          <6> QED
            BY <1>3, <1>10, <6>1, <6>4
        <5> QED
          BY <5>1, <5>2, <5>3
      <4>5. ChangesTo(x.state, x.time)
        BY <1>13, <2>9, <3>3, <4>4 DEF Ignores, BeginsWith
      <4>6. StateFollows'
        BY <2>4, <2>6, <4>5 DEF StateFollows, ChangesTo
      <4>7. TimeFollows'
        <5>1. Latest(DoneChanges') = x
          BY <1>7, <2>5, <4>1
        <5> QED
          BY <4>1, <4>5, <5>1 DEF TimeFollows, ChangesTo
      <4>8. CountsFollow'
        <5>1. /\ IsFiniteSet(DoneChanges')
              /\ Cardinality(DoneChanges') = Cardinality(DoneChanges) + 1
          BY <1>5, <4>1, FS_AddElement DEF CountsFollow
        <5>2. Cardinality(DoneChanges) \in Nat
          BY <1>5, FS_CardinalityType DEF CountsFollow
        <5>3. Totals' = IF time_state_changed = Never THEN Totals ELSE Totals + 1
          BY <4>5 DEF ChangesTo
        <5>4. Totals + (IF DoneChanges # {} /\ Unknown THEN 1 ELSE 0)
                = Cardinality(DoneChanges)
          BY <1>5 DEF CountsFollow
        <5>5. Unknown' <=> Unknown
          BY <1>2 DEF Unknown
        <5>6. Totals \in Int
          <6>1. IsFiniteSet(DOMAIN cnt) /\ \A e \in DOMAIN cnt : total_count[e] \in Nat
            BY EdgesFinite DEF PInv, IInv, TypeOK
          <6> QED
            BY <6>1, SumIs, TotalsAreSums
        <5>7. Totals' + (IF Unknown THEN 1 ELSE 0) = Cardinality(DoneChanges) + 1
          <6>1. CASE DoneChanges = {}
            BY <4>3, <5>2, <5>3, <5>4, <5>6, <6>1
          <6>2. CASE DoneChanges # {}
            BY <4>2, <5>2, <5>3, <5>4, <5>6, <6>2
          <6> QED
            BY <6>1, <6>2
        <5>8. DoneChanges' # {}
          BY <4>1
        <5> QED
          BY <5>1, <5>5, <5>7, <5>8 DEF CountsFollow
      <4> QED
        BY <4>6, <4>7, <4>8
    <3> QED
      BY <3>2, <3>3
  <2> QED
    BY <2>8, <2>9
<1> QED
  BY <1>15, <1>16, <1>17

LEMMA TrainKeepsHeld ==
  ASSUME PInv, Follow, TrainSample
  PROVE  SamplesApart' /\ ChangeApart' /\ RingsAhead' /\ ChangeRecalled' /\ BeforeIsNow'
<1> DEFINE x == NextSample(min_time_idx)
<1>1. /\ pc = "train"
      /\ UNCHANGED <<feed, ring, clock, fed, pc, history, output, before>>
  BY DEF TrainSample
<1>2. /\ x \in Held /\ x \in Samples
      /\ Observe(x.state, x.time)
      /\ \E c \in DOMAIN history : /\ history[c] # << >>
                                   /\ x.time <= LastOf(history[c]).time
                                   /\ LastOf(history[c]) \in Held
  BY TrainConsumes
<1> HIDE DEF x
<1>3. x.time \in Nat /\ x.time \in Times /\ x.time # Never /\ x.state \in UserStates
  BY <1>2, TimesOK DEF Samples
<1>4. Held' = Held
  BY <1>1 DEF Held
<1>5. Ignores(x.state, x.time) \/ BeginsWith(x.state) \/ ChangesTo(x.state, x.time)
  <2>1. IInv
    BY DEF PInv
  <2> QED
    BY <1>2, <1>3, <2>1, ObserveDoes
<1>6. SamplesApart' /\ RingsAhead' /\ BeforeIsNow'
  <2>1. SamplesApart'
    BY <1>1, <1>4, ApartKept DEF Follow
  <2>2. RingsAhead' /\ BeforeIsNow'
    BY <1>1 DEF Follow, RingsAhead, BeforeIsNow, LastOf
  <2> QED
    BY <2>1, <2>2
<1>7. CASE Ignores(x.state, x.time)
  <2>1. UNCHANGED fsm
    BY <1>7 DEF Ignores, vars, fsm
  <2>2. ChangeApart'
    BY <1>1, <1>4, <2>1, ChangeApartKept DEF Follow
  <2>3. ChangeRecalled'
    BY <1>1, <2>1 DEF Follow, ChangeRecalled, Recalls, Spaced, fsm, CurrentState, LastOf
  <2> QED
    BY <1>6, <2>2, <2>3
<1>8. CASE ~Ignores(x.state, x.time)
  <2>1. /\ cur' # 0 /\ CurrentState' = x.state
        /\ time_state_changed' = Never \/ time_state_changed' = x.time
    BY <1>5, <1>8 DEF BeginsWith, ChangesTo
  <2>2. \A y \in Held : y.time \in Nat /\ y.state \in UserStates
    BY TimesApart
  <2>3. Spaced => \A y, z \in Held : y.time <= z.time => y = z \/ y.time + 1 < z.time
    BY DEF Follow, SamplesApart
  <2>4. ChangeApart'
    <3> SUFFICES ASSUME Spaced, time_state_changed' = x.time
                 PROVE  /\ x.time + 1 < clock
                        /\ \A y \in Held : /\ y.time = x.time => y.state = x.state
                                           /\ y.time # x.time + 1
      BY <1>1, <1>4, <2>1 DEF ChangeApart, Spaced
    <3>1. x.time + 1 < clock
      BY <1>2 DEF Follow, SamplesApart
    <3>2. ASSUME NEW y \in Held PROVE (y.time = x.time => y = x) /\ y.time # x.time + 1
      <4>1. x.time <= y.time => x = y \/ x.time + 1 < y.time
        BY <1>2, <2>3
      <4> QED
        BY <1>3, <2>2, <4>1
    <3> QED
      BY <3>1, <3>2
  <2>5. ChangeRecalled'
    <3> SUFFICES ASSUME Spaced
                 PROVE  \E m \in Metrics :
                          /\ Recalls(ring[m])'
                          /\ m \in DOMAIN history => Recalls(history[m])'
      BY <1>1 DEF ChangeRecalled, Spaced
    <3>1. PICK c \in DOMAIN history : /\ history[c] # << >>
                                      /\ x.time <= LastOf(history[c]).time
                                      /\ LastOf(history[c]) \in Held
      BY <1>2
    <3>2. /\ c \in Metrics /\ ring[c] # << >>
          /\ LastOf(history[c]).time <= LastOf(ring[c]).time
      BY <3>1, HeldOf DEF Follow, RingsAhead
    <3>3. LastOf(ring[c]) \in Held
      BY <3>2, HeldOf, SamplesOf
    <3>4. ASSUME NEW z \in Held, x.time <= z.time
          PROVE  IF time_state_changed' = Never
                 THEN z.time > 0 \/ z.state = CurrentState'
                 ELSE z.time >= time_state_changed'
      <4>1. z.time > 0 \/ z.state = x.state
        <5>1. z = x \/ x.time + 1 < z.time
          BY <1>2, <2>3, <3>4
        <5> QED
          BY <1>3, <2>2, <5>1
      <4> QED
        BY <1>3, <2>1, <2>2, <3>4, <4>1
    <3>5. x.time <= LastOf(ring[c]).time
      BY <1>3, <2>2, <3>1, <3>2, <3>3
    <3>6. Recalls(ring[c])'
      <4>1. IF time_state_changed' = Never
            THEN LastOf(ring[c]).time > 0 \/ LastOf(ring[c]).state = CurrentState'
            ELSE LastOf(ring[c]).time >= time_state_changed'
        BY <3>3, <3>4, <3>5
      <4> QED
        BY <1>1, <3>2, <4>1 DEF Recalls, LastOf
    <3>7. Recalls(history[c])'
      <4>1. IF time_state_changed' = Never
            THEN LastOf(history[c]).time > 0 \/ LastOf(history[c]).state = CurrentState'
            ELSE LastOf(history[c]).time >= time_state_changed'
        BY <3>1, <3>4
      <4> QED
        BY <1>1, <3>1, <4>1 DEF Recalls, LastOf
    <3> QED
      BY <3>2, <3>6, <3>7
  <2> QED
    BY <1>6, <2>4, <2>5
<1> QED
  BY <1>7, <1>8

LEMMA FeedFollows ==
  ASSUME PInv, Follow, NEW m \in Metrics, NEW sample \in Samples, Feed(m, sample)
  PROVE  FsmFollows'
<1>1. UNCHANGED <<fsm, feed, pc, history, cur_index, output, before>>
  BY DEF Feed
<1>2. Fresh' = Fresh /\ Changes' = Changes
  BY <1>1, SameSamples
<1>3. Done' = Done
  BY <1>1 DEF Done
<1>4. DoneFresh' = DoneFresh /\ DoneChanges' = DoneChanges
  BY <1>2, <1>3 DEF DoneFresh, DoneChanges
<1>5. Totals' = Totals
  BY <1>1, TotalsAreSums DEF fsm
<1>6. CurrentState' = CurrentState /\ (Spaced' <=> Spaced) /\ (Unknown' <=> Unknown)
  BY <1>1 DEF fsm, CurrentState, Spaced, Unknown
<1>7. StateFollows => StateFollows'
  BY <1>1, <1>4, <1>6 DEF StateFollows
<1>8. TimeFollows => TimeFollows'
  BY <1>1, <1>4 DEF TimeFollows, fsm
<1>9. CountsFollow => CountsFollow'
  BY <1>4, <1>5, <1>6 DEF CountsFollow
<1> QED
  BY <1>1, <1>6, <1>7, <1>8, <1>9 DEF Follow, FsmFollows

LEMMA EndTrainingFollows == ASSUME PInv, Follow, EndTraining PROVE Follow'
<1>1. /\ pc = "train" /\ pc' = "output" /\ history_fsm_reset_transitions
      /\ UNCHANGED <<feed, ring, clock, fed, history, cur_index, output, before>>
  BY DEF EndTraining, ResetAfterTraining
<1>2. UNCHANGED <<states, cur, time_state_changed>> /\ Held' = Held
  BY <1>1 DEF history_fsm_reset_transitions, Held
<1> QED
  BY <1>1, <1>2
     DEF Follow, SamplesApart, ChangeApart, RingsAhead, ChangeRecalled, Recalls, BeforeIsNow,
         FsmFollows, Spaced, CurrentState, LastOf

LEMMA OutputFollows == ASSUME PInv, Follow, OutputMetric PROVE Follow'
<1>1. /\ pc = "output" /\ UNCHANGED <<fsm, feed, ring, clock, fed, pc, history, cur_index, before>>
  BY DEF OutputMetric
<1>2. Held' = Held
  BY <1>1 DEF Held
<1> QED
  BY <1>1, <1>2
     DEF Follow, SamplesApart, ChangeApart, RingsAhead, ChangeRecalled, Recalls, BeforeIsNow,
         FsmFollows, Spaced, CurrentState, LastOf, fsm

LEMMA EndTickFollows == ASSUME PInv, Follow, EndTick PROVE Follow'
<1>1. /\ pc = "output" /\ pc' = "idle" /\ history' = [m \in Metrics |-> << >>]
      /\ UNCHANGED <<fsm, feed, ring, clock, fed, before>>
  BY DEF EndTick
<1>2. Held' \subseteq Held
  <2>1. \A m \in DOMAIN history' : history'[m] = << >>
    BY <1>1
  <2>2. ToSet(<< >>) = {}
    BY DEF ToSet
  <2> QED
    BY <1>1, <2>1, <2>2 DEF Held
<1>3. SamplesApart' /\ ChangeApart'
  BY <1>1, <1>2, ApartKept, ChangeApartKept DEF Follow
<1>4. RingsAhead' /\ BeforeIsNow' /\ FsmFollows'
  BY <1>1 DEF RingsAhead, BeforeIsNow, FsmFollows
<1>5. ChangeRecalled'
  BY <1>1 DEF Follow, ChangeRecalled, Recalls, Spaced, fsm, CurrentState, LastOf
<1> QED
  BY <1>3, <1>4, <1>5 DEF Follow

LEMMA FollowInit == PredInit => Follow
<1> SUFFICES ASSUME PredInit PROVE Follow
  OBVIOUS
<1>1. /\ pc = "idle" /\ cur = 0
      /\ ring = [m \in Metrics |-> << >>] /\ history = [m \in Metrics |-> << >>]
  BY DEF PredInit, Init
<1>2. Held = {}
  <2>1. ToSet(<< >>) = {}
    BY DEF ToSet
  <2>2. /\ \A m \in Metrics : ring[m] = << >>
        /\ \A m \in DOMAIN history : history[m] = << >>
    BY <1>1
  <2> QED
    BY <2>1, <2>2 DEF Held
<1> QED
  BY <1>1, <1>2
     DEF Follow, SamplesApart, ChangeApart, RingsAhead, ChangeRecalled, BeforeIsNow, FsmFollows

LEMMA FollowStep == PInv /\ Follow /\ [PredNext]_predVars => Follow'
<1> SUFFICES ASSUME PInv, Follow, [PredNext]_predVars PROVE Follow'
  OBVIOUS
<1>1. ASSUME NEW m \in Metrics, NEW sample \in Samples, Feed(m, sample) PROVE Follow'
  BY <1>1, FeedKeepsHeld, FeedFollows DEF Follow
<1>2. CASE DumpHistory
  BY <1>2, DumpKeepsHeld, DumpFollows DEF Follow
<1>3. CASE TrainSample
  <2>1. FsmFollows'
    <3>1. Spaced' <=> Spaced
      BY <1>3 DEF TrainSample, Spaced
    <3> QED
      BY <1>3, <3>1, TrainFollows DEF FsmFollows
  <2> QED
    BY <1>3, <2>1, TrainKeepsHeld DEF Follow
<1>4. CASE UNCHANGED predVars
  <2>1. UNCHANGED <<fsm, feed, ring, clock, fed, pc, history, cur_index, output, before>>
    BY <1>4 DEF predVars, fsm, output
  <2>2. Held' = Held /\ Done' = Done /\ Fresh' = Fresh /\ Changes' = Changes
    BY <2>1, SameSamples DEF Held, Done
  <2>3. Totals' = Totals
    BY <2>1, TotalsAreSums DEF fsm
  <2>4. DoneFresh' = DoneFresh /\ DoneChanges' = DoneChanges
    BY <2>2 DEF DoneFresh, DoneChanges
  <2>5. SamplesApart' /\ ChangeApart'
    BY <2>1, <2>2, ApartKept, ChangeApartKept DEF Follow
  <2>6. RingsAhead' /\ ChangeRecalled' /\ BeforeIsNow'
    BY <2>1 DEF Follow, RingsAhead, ChangeRecalled, Recalls, BeforeIsNow, Spaced, fsm,
                CurrentState, LastOf
  <2>7. CurrentState' = CurrentState /\ (Unknown' <=> Unknown) /\ (Spaced' <=> Spaced)
    BY <2>1 DEF fsm, CurrentState, Unknown, Spaced
  <2>8. (StateFollows => StateFollows') /\ (CountsFollow => CountsFollow')
    BY <2>1, <2>3, <2>4, <2>7 DEF StateFollows, CountsFollow
  <2>9. TimeFollows => TimeFollows'
    BY <2>1, <2>4 DEF TimeFollows, fsm
  <2>10. FsmFollows'
    BY <2>1, <2>7, <2>8, <2>9 DEF Follow, FsmFollows
  <2> QED
    BY <2>5, <2>6, <2>10 DEF Follow
<1> QED
  BY <1>1, <1>2, <1>3, <1>4, StartTickFollows, EndTrainingFollows, OutputFollows,
     EndTickFollows DEF PredNext, PredictionStep

LEMMA Following == PredSpec => [](PInv /\ Follow)
<1>1. PredInit => PInv /\ Follow
  BY PInvInit, FollowInit
<1>2. PInv /\ Follow /\ [PredNext]_predVars => (PInv /\ Follow)'
  BY PInvStep, FollowStep
<1> QED
  BY <1>1, <1>2, PTL DEF PredSpec

(***************************************************************************)
(* The end of the training.                                                *)
(***************************************************************************)
LEMMA TrainedDone ==
  ASSUME PInv, Follow, Spaced, Trained
  PROVE  /\ Done = Merged
         /\ Merged \subseteq Held /\ Held \in SUBSET Samples
         /\ \A y \in Merged : y.time \in Nat
         /\ \A y, z \in Merged : y.time <= z.time => y = z \/ y.time + 1 < z.time
         /\ StateFollows /\ TimeFollows /\ CountsFollow
<1>1. /\ pc = "train" /\ Left = {}
      /\ Len(history) = MetricCount /\ history \in Seq(Seq(Samples))
      /\ cur_index \in [Metrics -> Nat]
      /\ \A m \in Metrics : cur_index[m] <= Len(history[m])
  BY DEF Trained, PInv, PredTypeOK
<1>2. /\ DOMAIN history = Metrics
      /\ \A m \in Metrics : history[m] \in Seq(Samples) /\ Len(history[m]) \in Nat
  BY <1>1, MetricAssumption DEF Metrics
<1>3. \A m \in Metrics : cur_index[m] = Len(history[m])
  BY <1>1, <1>2 DEF Left
<1>4. Done = Merged
  <2>1. ASSUME NEW m \in Metrics
        PROVE  {history[m][k] : k \in 1 .. cur_index[m]} = ToSet(history[m])
    <3>1. \A k \in 1 .. Len(history[m]) : history[m][k] \in ToSet(history[m])
      BY <1>2, SamplesOf
    <3>2. \A x \in ToSet(history[m]) : \E k \in 1 .. Len(history[m]) : x = history[m][k]
      BY <1>2, SamplesOf
    <3> QED
      BY <1>3, <3>1, <3>2
  <2> QED
    BY <2>1 DEF Done, Merged
<1>5. Merged \subseteq Held /\ Held \in SUBSET Samples
  BY <1>2, HeldOf DEF Merged
<1>6. /\ \A y \in Merged : y.time \in Nat
      /\ \A y, z \in Merged : y.time <= z.time => y = z \/ y.time + 1 < z.time
  BY <1>5, TimesApart DEF Follow, SamplesApart
<1>7. StateFollows /\ TimeFollows /\ CountsFollow
  BY <1>1 DEF Follow, FsmFollows
<1> QED
  BY <1>4, <1>5, <1>6, <1>7

\* Some metric still holds the last change of state, and what comes later.
LEMMA TrainedRecalls ==
  ASSUME PInv, Follow, Spaced, Trained, cur # 0
  PROVE  \E z \in Merged : IF time_state_changed = Never
                           THEN z.time > 0 \/ z.state = CurrentState
                           ELSE z.time >= time_state_changed
<1>1. /\ pc = "train" /\ Len(history) = MetricCount /\ history \in Seq(Seq(Samples))
  BY DEF Trained, PInv, PredTypeOK
<1>2. DOMAIN history = Metrics /\ \A m \in Metrics : history[m] \in Seq(Samples)
  BY <1>1, MetricAssumption DEF Metrics
<1>3. PICK m \in Metrics : Recalls(history[m])
  BY <1>1, <1>2 DEF Follow, ChangeRecalled
<1>4. LastOf(history[m]) \in Merged
  <2>1. LastOf(history[m]) \in ToSet(history[m])
    BY <1>2, <1>3, SamplesOf DEF Recalls
  <2> QED
    BY <2>1 DEF Merged
<1> QED
  BY <1>3, <1>4 DEF Recalls

LEMMA TrainedFollows == PInv /\ Follow => FollowsMetrics
<1> SUFFICES ASSUME PInv, Follow, Spaced, Trained, Merged # {}
             PROVE  CurrentState = Latest(Merged).state
  BY DEF FollowsMetrics
<1>1. /\ Done = Merged /\ Merged \subseteq Held /\ Merged \in SUBSET Samples
      /\ \A y \in Merged : y.time \in Nat
      /\ \A y, z \in Merged : y.time <= z.time => y = z \/ y.time + 1 < z.time
      /\ StateFollows /\ TimeFollows
  BY TrainedDone
<1> DEFINE last == Latest(Merged)
           bound == IF before.time = Never THEN 0 ELSE before.time + 1
<1>2. last \in Merged /\ \A y \in Merged : y.time <= last.time
  BY <1>1, LatestIs
<1>3. \A y, z \in Merged : y.time = z.time => y = z
  BY <1>1
<1>4. before.time \in 0 .. Never /\ time_state_changed \in 0 .. Never /\ Never \in Nat
  BY ConstantsOK DEF PInv, PredTypeOK, IInv, TypeOK
<1>5. bound \in Nat
  BY <1>4
<1>6. Fresh = {y \in Merged : before.state # NoState => y.time > bound}
  BY <1>4, TooEarlyIs DEF Fresh
<1>7. DoneFresh = Fresh /\ DoneChanges \subseteq Fresh
  BY <1>1, <1>6 DEF DoneFresh, DoneChanges, Changes
<1> HIDE DEF last
<1>8. CASE Fresh # {}
  <2>1. PICK y \in Fresh : TRUE
    BY <1>8
  <2>2. last \in Fresh
    <3> HIDE DEF bound
    <3> QED
      BY <1>1, <1>2, <1>5, <1>6, <2>1
  <2>3. Latest(Fresh) = last
    <3>1. Fresh \in SUBSET Samples /\ \A y1, y2 \in Fresh : y1.time = y2.time => y1 = y2
      BY <1>1, <1>3, <1>6
    <3>2. \A y1 \in Fresh : y1.time <= last.time
      BY <1>2, <1>6
    <3> QED
      BY <2>2, <3>1, <3>2, LatestUnique
  <2> QED
    BY <1>1, <1>7, <1>8, <2>3 DEF StateFollows, last
<1>9. CASE Fresh = {}
  <2>1. before.state # NoState /\ \A y \in Merged : y.time <= bound
    <3> HIDE DEF bound
    <3> QED
      BY <1>1, <1>2, <1>5, <1>6, <1>9
  <2>2. /\ CurrentState = before.state /\ time_state_changed = before.time
        /\ cur # 0
    BY <1>1, <1>7, <1>9, <2>1 DEF StateFollows, TimeFollows, CurrentState
  <2>3. PICK z \in Merged : IF time_state_changed = Never
                            THEN z.time > 0 \/ z.state = CurrentState
                            ELSE z.time >= time_state_changed
    BY <2>2, TrainedRecalls
  <2>4. last.time \in Nat /\ z.time \in Nat /\ z.time <= last.time /\ last.time <= bound
    BY <1>1, <1>2, <2>1
  <2>5. CASE time_state_changed = Never
    <3>1. z.time = last.time /\ z.state = CurrentState
      BY <2>2, <2>3, <2>4, <2>5
    <3> QED
      BY <1>2, <1>3, <3>1 DEF last
  <2>6. CASE time_state_changed # Never
    <3>1. last.time >= time_state_changed /\ last.time <= time_state_changed + 1
      BY <1>4, <2>2, <2>3, <2>4, <2>6
    <3>2. /\ last.time = time_state_changed => last.state = CurrentState
          /\ last.time # time_state_changed + 1
      BY <1>1, <1>2, <2>2, <2>6 DEF Follow, ChangeApart
    <3> QED
      BY <1>4, <2>4, <3>1, <3>2 DEF last
  <2> QED
    BY <2>5, <2>6
<1> QED
  BY <1>8, <1>9

\* After every tick the history FSM is in the state that the application would
\* find for the latest of the samples: the samples that every tick reads again,
\* those that were evicted between two dumps and those that came meanwhile
\* neither hold it back nor move it on.
THEOREM FollowsTheMetrics == PredSpec => []FollowsMetrics
  BY Following, TrainedFollows, PTL

\* A tick counts each change of state exactly once, over all ticks, however the
\* dumps and the updates interleave; only the first change of all is left out.
THEOREM CountsEveryChangeOnce == PredSpec => []ChangesCountedOnce
<1>1. PInv /\ Follow => ChangesCountedOnce
  <2> SUFFICES ASSUME PInv, Follow, Spaced, Trained
               PROVE  Totals + (IF Changes # {} /\ Unknown THEN 1 ELSE 0) = Cardinality(Changes)
    BY DEF ChangesCountedOnce, Totals, Unknown
  <2>1. Done = Merged /\ CountsFollow
    BY TrainedDone
  <2>2. DoneChanges = Changes
    BY <2>1 DEF DoneChanges, Changes, Fresh
  <2> QED
    BY <2>1, <2>2 DEF CountsFollow
<1> QED
  BY <1>1, Following, PTL
==============================================================================

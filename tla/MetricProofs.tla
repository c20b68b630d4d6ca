----------------------------- MODULE MetricProofs -----------------------------
(***************************************************************************)
(* Proofs about Metric, for every size of the ring, every set of readers   *)
(* and every number of updates: the ring holds the window, a dump is never *)
(* empty, never fills the buffer and never older than the last sample, and *)
(* Metric implements SlidingWindow.                                        *)
(***************************************************************************)
EXTENDS Metric, TLAPS

(***************************************************************************)
(* The index arithmetic without the remainder.                             *)
(***************************************************************************)
LEMMA NextIndex ==
  ASSUME NEW i \in Slots
  PROVE  rb_next_index(i) = IF i = HistorySize - 1 THEN 0 ELSE i + 1
  BY HistorySizeAssumption, SMT DEF rb_next_index, Slots

LEMMA PreviousIndex ==
  ASSUME NEW i \in Slots
  PROVE  rb_previous_index(i) = IF i = 0 THEN HistorySize - 1 ELSE i - 1
  BY HistorySizeAssumption, SMT DEF rb_previous_index, Slots

(***************************************************************************)
(* The inductive invariant.  RingHoldsWindow says what is between get and  *)
(* put; the parts below say how far each reader has come.                  *)
(***************************************************************************)

\* A reader past the emptiness test reads a metric that is not empty, and
\* remains so: an update evicts only when it adds.
SeenSample ==
  \A r \in Readers : pc[r] # "idle" => fed > 0 /\ HistorySize > 1

\* A reader is in the loop of metric_dump_history iff it holds the mutex.
CopyHoldsMutex ==
  \A r \in Readers : pc[r] = "copy" <=> history_mutex = r

\* Before the loop the reader has nothing; only after it, a last sample.
NothingYet ==
  \A r \in Readers :
    /\ pc[r] \in {"idle", "found"} => buffer[r] = << >>
    /\ pc[r] # "use" => last[r] = 0

\* In the loop the buffer is a prefix of the window, and the cursor is where
\* the prefix ends.
CopiesPrefix ==
  \A r \in Readers : pc[r] = "copy" =>
    /\ Len(buffer[r]) <= Stored
    /\ cursor[r] = Slot(Len(buffer[r]))
    /\ buffer[r] = [i \in 1..Len(buffer[r]) |-> fed - Stored + i]

\* After the loop the buffer ends with a sample that was the last one once.
UsesSnapshot ==
  \A r \in Readers : pc[r] = "use" =>
    /\ Len(buffer[r]) \in 1 .. HistorySize - 1
    /\ buffer[r][Len(buffer[r])] <= fed
    /\ last[r] # 0 => last[r] >= buffer[r][Len(buffer[r])]

IInv ==
  /\ TypeOK
  /\ RingHoldsWindow
  /\ SeenSample
  /\ CopyHoldsMutex
  /\ NothingYet
  /\ CopiesPrefix
  /\ UsesSnapshot
-------------------------------------------------------------------------------
(***************************************************************************)
(* Type correctness is inductive by itself.                                *)
(***************************************************************************)
LEMMA InitTypeOK == Init => TypeOK
  BY HistorySizeAssumption, MaxUpdatesAssumption DEF Init, TypeOK, Slots, Samples

LEMMA NextTypeOK == TypeOK /\ [Next]_vars => TypeOK'
<1> SUFFICES ASSUME TypeOK, [Next]_vars
             PROVE  TypeOK'
  OBVIOUS
<1> USE DEF TypeOK
<1>1. \A i \in Slots : rb_next_index(i) \in Slots /\ rb_previous_index(i) \in Slots
  BY NextIndex, PreviousIndex, HistorySizeAssumption DEF Slots
<1>2. CASE metric_update
  <2>1. fed' \in Samples
    BY <1>2, MaxUpdatesAssumption DEF metric_update, Samples
  <2>2. ring' \in [Slots -> Samples]
    BY <1>2, <2>1 DEF metric_update
  <2>3. put' \in Slots /\ get' \in Slots
    BY <1>1, <1>2 DEF metric_update
  <2> QED
    BY <1>2, <2>1, <2>2, <2>3 DEF metric_update
<1>3. ASSUME NEW r \in Readers, IsEmpty(r)
      PROVE  TypeOK'
  BY <1>3 DEF IsEmpty, shared
<1>4. ASSUME NEW r \in Readers, DumpLock(r)
      PROVE  TypeOK'
  BY <1>4 DEF DumpLock, shared
<1>5. ASSUME NEW r \in Readers, DumpCopy(r)
      PROVE  TypeOK'
  <2>1. Append(buffer[r], ring[cursor[r]]) \in Seq(Samples)
    OBVIOUS
  <2> QED
    BY <1>1, <1>5, <2>1 DEF DumpCopy, shared
<1>6. ASSUME NEW r \in Readers, DumpUnlock(r)
      PROVE  TypeOK'
  BY <1>6 DEF DumpUnlock, shared
<1>7. ASSUME NEW r \in Readers, GetLast(r)
      PROVE  TypeOK'
  BY <1>1, <1>7 DEF GetLast, shared
<1>8. ASSUME NEW r \in Readers, Release(r)
      PROVE  TypeOK'
  <2>1. << >> \in Seq(Samples) /\ 0 \in Samples
    BY MaxUpdatesAssumption DEF Samples
  <2> QED
    BY <1>8, <2>1 DEF Release, shared
<1>9. CASE UNCHANGED vars
  BY <1>9 DEF vars
<1> QED
  BY <1>2, <1>3, <1>4, <1>5, <1>6, <1>7, <1>8, <1>9 DEF Next

\* The indices of the ring stay inside it, for every size of the ring, and
\* only a reader holds the mutex.
THEOREM TypeCorrect == Spec => []TypeOK
  BY InitTypeOK, NextTypeOK, PTL DEF Spec
-------------------------------------------------------------------------------
(***************************************************************************)
(* The invariant is inductive.                                             *)
(***************************************************************************)

\* The parts of IInv that speak of the readers, not of the ring alone.
ReadersOK ==
  SeenSample /\ CopyHoldsMutex /\ NothingYet /\ CopiesPrefix /\ UsesSnapshot

LEMMA InitIInv == Init => IInv
  BY InitTypeOK, HistorySizeAssumption, NoReaderAssumption
  DEF Init, IInv, RingHoldsWindow, SeenSample, CopyHoldsMutex, NothingYet,
      CopiesPrefix, UsesSnapshot, Stored, Slot, Lesser

\* metric_update on a ring with room: nothing is evicted.
LEMMA UpdateWithRoom ==
  ASSUME TypeOK, RingHoldsWindow, metric_update, fed < HistorySize - 1
  PROVE  RingHoldsWindow'
<1> USE HistorySizeAssumption DEF TypeOK, Slots, Samples
<1>1. get = 0 /\ put = fed
  BY DEF RingHoldsWindow, Stored, Slot, Lesser
<1>2. get' = 0 /\ put' = fed + 1
  BY <1>1, NextIndex DEF metric_update, Evicts
<1>3. \A k \in 0 .. fed - 1 : ring[k] = k + 1
  BY <1>1 DEF RingHoldsWindow, Stored, Slot, Lesser
<1>4. \A k \in 0 .. fed : ring'[k] = k + 1
  BY <1>1, <1>3 DEF metric_update
<1>5. Stored' = fed + 1 /\ fed' = fed + 1
  BY DEF Stored, Lesser, metric_update
<1>6. \A k \in 0 .. fed + 1 : Slot(k)' = k
  BY <1>2 DEF Slot
<1> QED
  BY <1>2, <1>4, <1>5, <1>6 DEF RingHoldsWindow

\* metric_update on a full ring: the oldest sample gives way.
LEMMA UpdateFull ==
  ASSUME TypeOK, RingHoldsWindow, metric_update, fed >= HistorySize - 1
  PROVE  RingHoldsWindow'
<1> USE HistorySizeAssumption DEF TypeOK, Slots, Samples
<1>1. Stored = HistorySize - 1 /\ Stored' = HistorySize - 1
  BY DEF Stored, Lesser, metric_update
<1>2. put = Slot(HistorySize - 1)
  BY <1>1 DEF RingHoldsWindow
<1>3. Evicts
  BY <1>2, NextIndex DEF Evicts, Slot
<1>4. get' = rb_next_index(get) /\ put' = get
  BY <1>3 DEF metric_update, Evicts
<1>5. put' = Slot(HistorySize - 1)'
  BY <1>4, NextIndex DEF Slot
<1>6. ASSUME NEW k \in 0 .. HistorySize - 2
      PROVE  ring'[Slot(k)'] = fed' - (HistorySize - 1) + k + 1
  <2>1. Slot(k)' = Slot(k + 1)
    <3>1. get' = IF get = HistorySize - 1 THEN 0 ELSE get + 1
      BY <1>4, NextIndex
    <3>2. Slot(k)' = IF get' + k < HistorySize THEN get' + k ELSE get' + k - HistorySize
      BY DEF Slot
    <3> QED
      BY <3>1, <3>2 DEF Slot
  <2>2. CASE k = HistorySize - 2
    <3>1. Slot(k)' = put
      BY <1>2, <2>1, <2>2
    <3> QED
      BY <2>2, <3>1 DEF metric_update
  <2>3. CASE k < HistorySize - 2
    <3>1. Slot(k + 1) # put
      BY <1>2, <2>3 DEF Slot
    <3>2. Slot(k + 1) \in Slots
      BY DEF Slot
    <3>3. ring[Slot(k + 1)] = fed - (HistorySize - 1) + k + 1 + 1
      BY <1>1, <2>3 DEF RingHoldsWindow
    <3> QED
      BY <2>1, <3>1, <3>2, <3>3 DEF metric_update
  <2> QED
    BY <2>2, <2>3
<1> QED
  BY <1>1, <1>5, <1>6 DEF RingHoldsWindow, metric_update

LEMMA UpdateKeepsReaders ==
  ASSUME IInv, metric_update
  PROVE  ReadersOK'
<1>1. \A r \in Readers : pc[r] # "copy"
  BY NoReaderAssumption DEF IInv, CopyHoldsMutex, metric_update, Free
<1>2. fed' = fed + 1 /\ fed \in Nat /\ UNCHANGED <<history_mutex, pc, cursor, buffer, last>>
  BY MaxUpdatesAssumption DEF IInv, TypeOK, Samples, metric_update
<1>3. SeenSample'
  BY <1>2 DEF IInv, SeenSample
<1>4. CopyHoldsMutex' /\ NothingYet'
  BY <1>2 DEF IInv, CopyHoldsMutex, NothingYet
<1>5. CopiesPrefix'
  BY <1>1, <1>2 DEF CopiesPrefix
<1>6. UsesSnapshot'
  <2> SUFFICES ASSUME NEW r \in Readers, pc[r] = "use"
               PROVE  buffer[r][Len(buffer[r])] <= fed + 1
    BY <1>2 DEF IInv, UsesSnapshot
  <2>1. Len(buffer[r]) \in 1 .. Len(buffer[r]) /\ buffer[r][Len(buffer[r])] <= fed
    BY HistorySizeAssumption DEF IInv, UsesSnapshot
  <2>2. buffer[r][Len(buffer[r])] \in Nat
    BY <2>1, MaxUpdatesAssumption DEF IInv, TypeOK, Samples
  <2> QED
    BY <1>2, <2>1, <2>2
<1> QED
  BY <1>3, <1>4, <1>5, <1>6 DEF ReadersOK

\* The steps of the readers leave the ring alone.
LEMMA RingUnchanged ==
  ASSUME RingHoldsWindow, UNCHANGED shared
  PROVE  RingHoldsWindow'
  BY DEF RingHoldsWindow, Stored, Slot, Lesser, shared

LEMMA IsEmptyKeepsReaders ==
  ASSUME IInv, NEW r \in Readers, IsEmpty(r)
  PROVE  ReadersOK'
<1>1. /\ pc' = [pc EXCEPT ![r] = IF metric_is_empty THEN "idle" ELSE "found"]
      /\ pc[r] = "idle"
      /\ UNCHANGED <<ring, put, get, fed, history_mutex, cursor, buffer, last>>
  BY DEF IsEmpty, shared
<1>2. pc \in [Readers -> {"idle", "found", "copy", "use"}] /\ fed \in Nat
  BY MaxUpdatesAssumption DEF IInv, TypeOK, Samples
\* With a single slot put never leaves 0; with more, put = 0 = get only
\* before the first sample.
<1>3. ~metric_is_empty => fed > 0 /\ HistorySize > 1
  BY <1>2, HistorySizeAssumption
  DEF IInv, TypeOK, RingHoldsWindow, metric_is_empty, Stored, Slot, Lesser, Slots
<1>4. SeenSample'
  BY <1>1, <1>2, <1>3 DEF IInv, SeenSample
<1>5. CopyHoldsMutex' /\ NothingYet'
  BY <1>1, <1>2 DEF IInv, CopyHoldsMutex, NothingYet
<1>6. CopiesPrefix'
  BY <1>1, <1>2 DEF IInv, CopiesPrefix, Stored, Slot, Lesser
<1>7. UsesSnapshot'
  BY <1>1, <1>2 DEF IInv, UsesSnapshot
<1> QED
  BY <1>4, <1>5, <1>6, <1>7 DEF ReadersOK

LEMMA DumpLockKeepsReaders ==
  ASSUME IInv, NEW r \in Readers, DumpLock(r)
  PROVE  ReadersOK'
<1>1. /\ pc' = [pc EXCEPT ![r] = "copy"]
      /\ pc[r] = "found"
      /\ history_mutex = NoReader
      /\ history_mutex' = r
      /\ cursor' = [cursor EXCEPT ![r] = get]
      /\ UNCHANGED <<ring, put, get, fed, buffer, last>>
  BY DEF DumpLock, shared, Free
<1> USE DEF IInv, TypeOK
<1>2. SeenSample'
  BY <1>1 DEF SeenSample
<1>3. CopyHoldsMutex'
  BY <1>1, NoReaderAssumption DEF CopyHoldsMutex
<1>4. NothingYet'
  BY <1>1 DEF NothingYet
<1>5. CopiesPrefix'
  <2>1. \A q \in Readers : q # r => pc'[q] # "copy"
    BY <1>1, <1>3 DEF CopyHoldsMutex
  <2>2. buffer'[r] = << >> /\ cursor'[r] = get
    BY <1>1 DEF NothingYet
  <2>3. Stored \in Nat /\ Slot(0) = get /\ Len(<< >>) = 0
    BY HistorySizeAssumption, MaxUpdatesAssumption DEF Stored, Slot, Lesser, Slots, Samples
  <2>4. << >> = [i \in 1..0 |-> fed - Stored + i]
    OBVIOUS
  <2>5. Stored' = Stored /\ Slot(0)' = Slot(0)
    BY <1>1 DEF Stored, Slot, Lesser
  <2> QED
    BY <1>1, <2>1, <2>2, <2>3, <2>4, <2>5 DEF CopiesPrefix
<1>6. UsesSnapshot'
  BY <1>1 DEF UsesSnapshot
<1> QED
  BY <1>2, <1>3, <1>4, <1>5, <1>6 DEF ReadersOK

LEMMA DumpCopyKeepsReaders ==
  ASSUME IInv, NEW r \in Readers, DumpCopy(r)
  PROVE  ReadersOK'
<1> DEFINE n == Len(buffer[r])
<1>1. /\ pc[r] = "copy"
      /\ cursor[r] # put
      /\ buffer' = [buffer EXCEPT ![r] = Append(@, ring[cursor[r]])]
      /\ cursor' = [cursor EXCEPT ![r] = rb_next_index(@)]
      /\ UNCHANGED <<ring, put, get, fed, history_mutex, pc, last>>
  BY DEF DumpCopy, MoreToCopy, shared
<1>2. /\ buffer \in [Readers -> Seq(Samples)]
      /\ cursor \in [Readers -> Slots]
      /\ fed \in Nat /\ get \in Slots /\ put \in Slots
  BY MaxUpdatesAssumption DEF IInv, TypeOK, Samples
<1>3. Stored \in Nat /\ Stored <= HistorySize - 1 /\ Stored <= fed
  BY <1>2, HistorySizeAssumption DEF Stored, Lesser
<1>4. \A q \in Readers : q # r => pc[q] # "copy"
  BY <1>1 DEF IInv, CopyHoldsMutex
<1>5. /\ n \in Nat /\ n <= Stored
      /\ cursor[r] = Slot(n)
      /\ buffer[r] = [i \in 1..n |-> fed - Stored + i]
  BY <1>1, <1>2 DEF IInv, CopiesPrefix
<1>6. n < Stored
  BY <1>1, <1>3, <1>5 DEF IInv, RingHoldsWindow
<1>7. ring[cursor[r]] = fed - Stored + n + 1
  BY <1>3, <1>5, <1>6 DEF IInv, RingHoldsWindow
<1>8. cursor'[r] = Slot(n + 1)
  BY <1>1, <1>2, <1>3, <1>5, <1>6, NextIndex, HistorySizeAssumption DEF Slot, Slots
<1>9. buffer'[r] = [i \in 1..n + 1 |-> fed - Stored + i] /\ Len(buffer'[r]) = n + 1
  <2>1. buffer'[r] = Append(buffer[r], fed - Stored + n + 1)
    BY <1>1, <1>2, <1>7
  <2> QED
    BY <1>2, <1>3, <1>5, <2>1
<1>10. Stored' = Stored /\ \A k \in Nat : Slot(k)' = Slot(k)
  BY <1>1 DEF Stored, Slot, Lesser
<1>11. \A q \in Readers : q # r => buffer'[q] = buffer[q] /\ cursor'[q] = cursor[q]
  BY <1>1, <1>2
<1>12. SeenSample' /\ CopyHoldsMutex'
  BY <1>1 DEF IInv, SeenSample, CopyHoldsMutex
<1>13. NothingYet'
  BY <1>1, <1>11 DEF IInv, NothingYet
<1>14. CopiesPrefix'
  <2> SUFFICES ASSUME NEW q \in Readers, pc'[q] = "copy"
               PROVE  /\ Len(buffer'[q]) <= Stored'
                      /\ cursor'[q] = Slot(Len(buffer[q]))'
                      /\ buffer'[q] = [i \in 1..Len(buffer'[q]) |-> fed' - Stored' + i]
    BY DEF CopiesPrefix
  <2>1. q = r
    BY <1>1, <1>4
  <2>2. Slot(Len(buffer[r]))' = IF get' + (n + 1) < HistorySize THEN get' + (n + 1)
                                ELSE get' + (n + 1) - HistorySize
    BY <1>9 DEF Slot
  <2> QED
    BY <1>1, <1>3, <1>5, <1>6, <1>8, <1>9, <1>10, <2>1, <2>2 DEF Slot
<1>15. UsesSnapshot'
  BY <1>1, <1>11 DEF IInv, UsesSnapshot
<1> QED
  BY <1>12, <1>13, <1>14, <1>15 DEF ReadersOK

\* At the end of the loop the buffer is the window of that moment.
LEMMA DumpIsWindow ==
  ASSUME IInv, NEW r \in Readers, DumpUnlock(r)
  PROVE  /\ buffer[r] = [i \in 1..Stored |-> fed - Stored + i]
         /\ Len(buffer[r]) = Stored
         /\ Stored \in 1 .. HistorySize - 1
<1> DEFINE n == Len(buffer[r])
<1>1. /\ pc[r] = "copy"
      /\ cursor[r] = put \/ ~(n < HistorySize)
  BY DEF DumpUnlock, MoreToCopy
<1>2. /\ buffer[r] \in Seq(Samples)
      /\ fed \in Nat /\ get \in Slots /\ put \in Slots
  BY MaxUpdatesAssumption DEF IInv, TypeOK, Samples
<1>3. fed > 0 /\ HistorySize > 1
  BY <1>1 DEF IInv, SeenSample
<1>4. Stored \in 1 .. HistorySize - 1 /\ Stored <= fed
  BY <1>2, <1>3, HistorySizeAssumption DEF Stored, Lesser
<1>5. /\ n \in Nat /\ n <= Stored
      /\ cursor[r] = Slot(n)
      /\ buffer[r] = [i \in 1..n |-> fed - Stored + i]
  <2>1. CopiesPrefix
    BY DEF IInv
  <2>2. n \in Nat
    BY <1>2
  <2> QED
    BY <1>1, <2>1, <2>2, Zenon DEF CopiesPrefix
<1>6. cursor[r] = put
  BY <1>1, <1>4, <1>5, HistorySizeAssumption
<1>7. put = Slot(Stored)
  BY DEF IInv, RingHoldsWindow
<1>8. n = Stored
  BY <1>2, <1>4, <1>5, <1>6, <1>7, HistorySizeAssumption DEF Slot, Slots
<1> QED
  BY <1>4, <1>5, <1>8

LEMMA DumpUnlockKeepsReaders ==
  ASSUME IInv, NEW r \in Readers, DumpUnlock(r)
  PROVE  ReadersOK'
<1>1. /\ pc' = [pc EXCEPT ![r] = "use"]
      /\ pc[r] = "copy"
      /\ history_mutex' = NoReader
      /\ UNCHANGED <<ring, put, get, fed, cursor, buffer, last>>
  BY DEF DumpUnlock, shared
<1>2. history_mutex = r
  BY <1>1 DEF IInv, CopyHoldsMutex
<1>3. /\ pc \in [Readers -> {"idle", "found", "copy", "use"}]
      /\ fed \in Nat
  BY MaxUpdatesAssumption DEF IInv, TypeOK, Samples
<1>4. \A q \in Readers : q # r => pc[q] # "copy" /\ pc'[q] = pc[q]
  BY <1>1, <1>2, <1>3 DEF IInv, CopyHoldsMutex
<1>5. pc'[r] = "use"
  BY <1>1, <1>3
<1>6. SeenSample'
  BY <1>1, <1>4 DEF IInv, SeenSample
<1>7. CopyHoldsMutex'
  BY <1>1, <1>4, <1>5, NoReaderAssumption DEF CopyHoldsMutex
<1>8. NothingYet'
  BY <1>1, <1>4, <1>5 DEF IInv, NothingYet
<1>9. CopiesPrefix'
  BY <1>4, <1>5 DEF CopiesPrefix
<1>10. UsesSnapshot'
  <2>1. /\ Len(buffer[r]) = Stored
        /\ Stored \in 1 .. HistorySize - 1
        /\ buffer[r] = [i \in 1..Stored |-> fed - Stored + i]
    BY DumpIsWindow
  <2>2. buffer[r][Len(buffer[r])] = fed
    BY <1>3, <2>1, HistorySizeAssumption
  <2>3. last[r] = 0
    BY <1>1 DEF IInv, NothingYet
  <2> QED
    BY <1>1, <1>3, <1>4, <2>1, <2>2, <2>3 DEF IInv, UsesSnapshot
<1> QED
  BY <1>6, <1>7, <1>8, <1>9, <1>10 DEF ReadersOK

\* metric_get_last returns the sample accepted last.
LEMMA LastSlot ==
  ASSUME IInv, fed > 0, HistorySize > 1
  PROVE  ring[rb_previous_index(put)] = fed
<1>1. fed \in Nat /\ get \in Slots /\ put \in Slots
  BY MaxUpdatesAssumption DEF IInv, TypeOK, Samples
<1>2. Stored \in 1 .. HistorySize - 1 /\ Stored <= fed
  BY <1>1, HistorySizeAssumption DEF Stored, Lesser
<1>3. put = Slot(Stored) /\ ring[Slot(Stored - 1)] = fed
  BY <1>1, <1>2, HistorySizeAssumption DEF IInv, RingHoldsWindow
<1>4. rb_previous_index(put) = Slot(Stored - 1)
  BY <1>1, <1>2, <1>3, PreviousIndex, HistorySizeAssumption DEF Slot, Slots
<1> QED
  BY <1>3, <1>4

LEMMA GetLastKeepsReaders ==
  ASSUME IInv, NEW r \in Readers, GetLast(r)
  PROVE  ReadersOK'
<1>1. /\ pc[r] = "use"
      /\ last' = [last EXCEPT ![r] = ring[rb_previous_index(put)]]
      /\ UNCHANGED <<ring, put, get, fed, history_mutex, pc, cursor, buffer>>
  BY DEF GetLast, shared
<1>2. fed > 0 /\ HistorySize > 1 /\ fed \in Nat
  BY <1>1, MaxUpdatesAssumption DEF IInv, SeenSample, TypeOK, Samples
<1>3. last' = [last EXCEPT ![r] = fed]
  BY <1>1, <1>2, LastSlot
<1>4. SeenSample' /\ CopyHoldsMutex'
  BY <1>1 DEF IInv, SeenSample, CopyHoldsMutex
<1>5. NothingYet'
  BY <1>1 DEF IInv, NothingYet, TypeOK
<1>6. CopiesPrefix'
  BY <1>1 DEF IInv, CopiesPrefix, Stored, Slot, Lesser
<1>7. UsesSnapshot'
  BY <1>1, <1>2, <1>3 DEF IInv, UsesSnapshot, TypeOK
<1> QED
  BY <1>4, <1>5, <1>6, <1>7 DEF ReadersOK

LEMMA ReleaseKeepsReaders ==
  ASSUME IInv, NEW r \in Readers, Release(r)
  PROVE  ReadersOK'
<1>1. /\ pc[r] = "use"
      /\ pc' = [pc EXCEPT ![r] = "idle"]
      /\ buffer' = [buffer EXCEPT ![r] = << >>]
      /\ last' = [last EXCEPT ![r] = 0]
      /\ UNCHANGED <<ring, put, get, fed, history_mutex, cursor>>
  BY DEF Release, shared
<1> USE DEF IInv, TypeOK
<1>2. SeenSample' /\ CopyHoldsMutex'
  BY <1>1 DEF SeenSample, CopyHoldsMutex
<1>3. NothingYet' /\ UsesSnapshot'
  BY <1>1 DEF NothingYet, UsesSnapshot
<1>4. CopiesPrefix'
  BY <1>1 DEF CopiesPrefix, Stored, Slot, Lesser
<1> QED
  BY <1>2, <1>3, <1>4 DEF ReadersOK

LEMMA NextIInv == IInv /\ [Next]_vars => IInv'
<1> SUFFICES ASSUME IInv, [Next]_vars
             PROVE  IInv'
  OBVIOUS
<1>1. TypeOK'
  BY NextTypeOK DEF IInv
<1>2. RingHoldsWindow'
  <2>1. CASE metric_update
    BY <2>1, UpdateWithRoom, UpdateFull, HistorySizeAssumption, MaxUpdatesAssumption
    DEF IInv, TypeOK, Samples
  <2>2. CASE UNCHANGED shared
    BY <2>2, RingUnchanged DEF IInv
  <2> QED
    BY <2>1, <2>2
    DEF Next, vars, shared, IsEmpty, DumpLock, DumpCopy, DumpUnlock, GetLast, Release
<1>3. ReadersOK'
  <2>1. CASE UNCHANGED vars
    BY <2>1 DEF vars, IInv, ReadersOK, SeenSample, CopyHoldsMutex, NothingYet,
                CopiesPrefix, UsesSnapshot, Stored, Slot, Lesser
  <2> QED
    BY <2>1, UpdateKeepsReaders, IsEmptyKeepsReaders, DumpLockKeepsReaders,
       DumpCopyKeepsReaders, DumpUnlockKeepsReaders, GetLastKeepsReaders,
       ReleaseKeepsReaders DEF Next
<1> QED
  BY <1>1, <1>2, <1>3 DEF IInv, ReadersOK

LEMMA Invariance == Spec => []IInv
  BY InitIInv, NextIInv, PTL DEF Spec

\* For every size of the ring, the slots from get to put hold exactly the
\* most recent samples: metric_update evicts in time and never too early.
THEOREM RingCorrect == Spec => []RingHoldsWindow
  BY Invariance, PTL DEF IInv

\* A reader that found the metric non-empty gets a non-empty dump, whatever
\* the updates between the two calls: average.c never divides by hsize = 0.
THEOREM DumpNotEmpty == Spec => []DumpNeverEmpty
<1>1. IInv => DumpNeverEmpty
  BY HistorySizeAssumption DEF IInv, UsesSnapshot, DumpNeverEmpty
<1> QED
  BY <1>1, Invariance, PTL

\* The buffer of a dump keeps one unused entry, which pred_fsm.c reads.
THEOREM DumpLeavesSpareSlot == Spec => []SpareSlot
<1>1. IInv => SpareSlot
  <2> SUFFICES ASSUME IInv, NEW r \in Readers
               PROVE  Len(buffer[r]) < HistorySize
    BY DEF SpareSlot
  <2>1. pc[r] \in {"idle", "found", "copy", "use"}
    BY DEF IInv, TypeOK
  <2>2. CASE pc[r] \in {"idle", "found"}
    BY <2>2, HistorySizeAssumption DEF IInv, NothingYet
  <2>3. CASE pc[r] = "copy"
    <3>1. Len(buffer[r]) \in Nat /\ Len(buffer[r]) <= Stored
      BY <2>3 DEF IInv, CopiesPrefix, TypeOK
    <3>2. Stored \in Nat /\ Stored <= HistorySize - 1
      BY HistorySizeAssumption, MaxUpdatesAssumption
      DEF IInv, TypeOK, Samples, Stored, Lesser
    <3> QED
      BY <3>1, <3>2, HistorySizeAssumption
  <2>4. CASE pc[r] = "use"
    BY <2>4, HistorySizeAssumption DEF IInv, UsesSnapshot
  <2> QED
    BY <2>1, <2>2, <2>3, <2>4
<1> QED
  BY <1>1, Invariance, PTL

\* Both: a dump has a sample to divide by and an entry to look past its end.
THEOREM DumpsFit == Spec => []DumpFits
<1>1. DumpNeverEmpty /\ SpareSlot => DumpFits
  BY DEF DumpFits
<1> QED
  BY <1>1, DumpNotEmpty, DumpLeavesSpareSlot, PTL

\* The last sample is never older than the end of the dump before it.
THEOREM LastIsRecent == Spec => []LastNotOlder
<1>1. IInv => LastNotOlder
  BY DEF IInv, UsesSnapshot, LastNotOlder
<1> QED
  BY <1>1, Invariance, PTL
-------------------------------------------------------------------------------
(***************************************************************************)
(* Metric implements SlidingWindow.  metric_update accepts, the step that  *)
(* releases the mutex dumps, and the steps before it are invisible.        *)
(***************************************************************************)

\* What the refinement mapping substitutes for the variable got.
Got == [r \in Readers |-> IF pc[r] = "use" THEN buffer[r] ELSE << >>]

\* The readers' steps the abstract specification does not see.
LEMMA InvisibleStep ==
  ASSUME TypeOK, NEW r \in Readers, IsEmpty(r) \/ DumpLock(r) \/ DumpCopy(r)
  PROVE  UNCHANGED <<fed, Got, last>>
<1>1. UNCHANGED <<fed, last>>
  BY DEF IsEmpty, DumpLock, DumpCopy, shared
<1>2. \A q \in Readers : Got'[q] = Got[q]
  BY DEF TypeOK, Got, IsEmpty, DumpLock, DumpCopy, shared
<1> QED
  BY <1>1, <1>2 DEF Got

LEMMA DumpUnlockDumps ==
  ASSUME IInv, NEW r \in Readers, DumpUnlock(r)
  PROVE  Window!Dump(r)
<1>1. /\ buffer[r] = [i \in 1..Stored |-> fed - Stored + i]
      /\ Stored \in 1 .. HistorySize - 1
  BY DumpIsWindow
<1>2. Window!Lesser(fed, HistorySize - 1) = Stored
  BY DEF Window!Lesser, Stored, Lesser
<1>3. buffer[r] = Window!Window(fed)
  BY <1>1, <1>2 DEF Window!Window
<1>4. /\ pc[r] = "copy" /\ pc' = [pc EXCEPT ![r] = "use"]
      /\ UNCHANGED <<fed, buffer, last>>
      /\ pc \in [Readers -> {"idle", "found", "copy", "use"}]
  BY DEF DumpUnlock, shared, IInv, TypeOK
<1>5. Got' = [Got EXCEPT ![r] = buffer[r]]
  BY <1>4 DEF Got
<1>6. Got[r] = << >>
  BY <1>4 DEF Got
<1> QED
  <2>1. Window!Lesser(fed, HistorySize - 1) > 0
    BY <1>1, <1>2, HistorySizeAssumption
  <2>2. Got' = [Got EXCEPT ![r] = Window!Window(fed)]
    BY <1>3, <1>5
  <2>3. UNCHANGED <<fed, last>>
    BY <1>4
  <2> QED
    BY <1>6, <2>1, <2>2, <2>3 DEF Window!Dump, Got

LEMMA GetLastIsLatest ==
  ASSUME IInv, NEW r \in Readers, GetLast(r)
  PROVE  Window!Latest(r)
<1>1. fed > 0 /\ HistorySize > 1
  BY DEF GetLast, IInv, SeenSample
<1>2. ring[rb_previous_index(put)] = fed
  BY <1>1, LastSlot
<1>3. Got[r] # << >>
  BY HistorySizeAssumption DEF GetLast, Got, IInv, UsesSnapshot
<1>4. /\ last' = [last EXCEPT ![r] = fed]
      /\ UNCHANGED <<fed, pc, buffer>>
  BY <1>2 DEF GetLast, shared
<1> QED
  BY <1>3, <1>4 DEF Window!Latest, Got

LEMMA ReleaseReleases ==
  ASSUME IInv, NEW r \in Readers, Release(r)
  PROVE  Window!Release(r)
<1>1. Got[r] # << >>
  BY HistorySizeAssumption DEF Release, Got, IInv, UsesSnapshot
<1>2. Got' = [Got EXCEPT ![r] = << >>]
  BY DEF Release, Got, IInv, TypeOK
<1>3. last' = [last EXCEPT ![r] = 0] /\ UNCHANGED fed
  BY DEF Release, shared
<1> QED
  BY <1>1, <1>2, <1>3 DEF Window!Release, Got

LEMMA InitWindow == Init => Window!Init
  BY DEF Init, Window!Init

LEMMA NextWindow == IInv /\ [Next]_vars => [Window!Next]_(Window!vars)
<1> SUFFICES ASSUME IInv, [Next]_vars
             PROVE  Window!Next \/ UNCHANGED Window!vars
  OBVIOUS
<1>1. CASE metric_update
  BY <1>1 DEF metric_update, Window!Next, Window!Accept
<1>2. ASSUME NEW r \in Readers, IsEmpty(r) \/ DumpLock(r) \/ DumpCopy(r)
      PROVE  UNCHANGED Window!vars
  BY <1>2, InvisibleStep DEF IInv, Window!vars, Got
<1>3. ASSUME NEW r \in Readers, DumpUnlock(r)
      PROVE  Window!Next
  BY <1>3, DumpUnlockDumps DEF Window!Next
<1>4. ASSUME NEW r \in Readers, GetLast(r)
      PROVE  Window!Next
  BY <1>4, GetLastIsLatest DEF Window!Next
<1>5. ASSUME NEW r \in Readers, Release(r)
      PROVE  Window!Next
  BY <1>5, ReleaseReleases DEF Window!Next
<1>6. CASE UNCHANGED vars
  BY <1>6 DEF vars, Window!vars
<1> QED
  BY <1>1, <1>2, <1>3, <1>4, <1>5, <1>6 DEF Next

\* Every dump is the most recent samples of one moment, in order and without
\* a gap, for every size of the ring and however the threads interleave.
THEOREM ImplementsWindow == Spec => WindowSpec
  BY Invariance, InitWindow, NextWindow, PTL DEF Spec, WindowSpec, Window!Spec
===============================================================================

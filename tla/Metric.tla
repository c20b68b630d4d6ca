-------------------------------- MODULE Metric --------------------------------
(***************************************************************************)
(* The sample history of a metric (lib/metric.c): a ring of HistorySize    *)
(* slots under history_mutex, fed by metric_update and read by the         *)
(* prediction code through metric_is_empty, metric_dump_history and        *)
(* metric_get_last.  Every call takes the mutex.  A call that cannot block  *)
(* while it holds the mutex is one step; the copying loop of               *)
(* metric_dump_history is one step per entry, so that the other threads     *)
(* meet it half way.                                                       *)
(*                                                                         *)
(* A sample is named by its rank in the order of acceptance; 0 stands for  *)
(* a slot that malloc returned and nobody wrote.                           *)
(*                                                                         *)
(* A reader is a thread that runs a prediction: it asks whether the metric *)
(* is empty, dumps the history only if it is not, and may ask for the last *)
(* sample while it uses the dump (lib/predictions/average.c:53-70,         *)
(* lib/predictions/fsm/pred_fsm.c:170-203).                                *)
(***************************************************************************)
EXTENDS Integers, Sequences

CONSTANTS HistorySize,  \* history_size, the number of slots of the ring
          Readers,      \* The threads that read the metric
          NoReader,     \* The value of history_mutex when no reader holds it
          MaxUpdates    \* Bound: how many samples are fed

ASSUME HistorySizeAssumption == HistorySize \in Nat \ {0}
ASSUME NoReaderAssumption == NoReader \notin Readers
ASSUME MaxUpdatesAssumption == MaxUpdates \in Nat

VARIABLES ring,         \* The slots
          put,          \* Index of the next slot to write
          get,          \* Index of the oldest sample
          fed,          \* How many samples were accepted so far
          history_mutex,\* The reader that copies the ring, if any
          pc,           \* Where each reader is
          cursor,       \* The local variable get of metric_dump_history
          buffer,       \* What the dump of each reader has copied so far
          last          \* What metric_get_last returned, 0 before the call

vars == <<ring, put, get, fed, history_mutex, pc, cursor, buffer, last>>

shared == <<ring, put, get, fed>>

Slots == 0 .. HistorySize - 1
Samples == 0 .. MaxUpdates

(***************************************************************************)
(* Helpers.                                                                *)
(***************************************************************************)
rb_next_index(index) == (index + 1) % HistorySize

\* Mutant: the slot that will be written next instead of the last one written.
rb_previous_index_Next(index) == index

rb_previous_index(index) == (HistorySize + index - 1) % HistorySize

\* Mutant: the emptiness test forgotten.
metric_is_empty_Never == FALSE

metric_is_empty == put = get /\ put = 0

\* Mutant: metric_update evicts when the ring is already overfull.
Evicts_Late == put = get /\ fed > 0

Evicts == rb_next_index(put) = get

Free == history_mutex = NoReader

(***************************************************************************)
(* metric_create.  The ring is not initialised.                            *)
(***************************************************************************)
Init ==
  /\ ring = [s \in Slots |-> 0]
  /\ put = 0
  /\ get = 0
  /\ fed = 0
  /\ history_mutex = NoReader
  /\ pc = [r \in Readers |-> "idle"]
  /\ cursor = [r \in Readers |-> 0]
  /\ buffer = [r \in Readers |-> << >>]
  /\ last = [r \in Readers |-> 0]

(***************************************************************************)
(* metric_update, by any of the threads that feed the metric.  The oldest  *)
(* sample is evicted when the ring is full, one slot early: put = get means *)
(* empty, so the ring never holds more than HistorySize - 1 samples.       *)
(***************************************************************************)
metric_update ==
  /\ fed < MaxUpdates
  /\ Free
  /\ get' = IF Evicts THEN rb_next_index(get) ELSE get
  /\ fed' = fed + 1
  /\ ring' = [ring EXCEPT ![put] = fed']
  /\ put' = rb_next_index(put)
  /\ UNCHANGED <<history_mutex, pc, cursor, buffer, last>>

(***************************************************************************)
(* The steps of a reader.                                                  *)
(***************************************************************************)
IsEmpty(r) ==
  /\ pc[r] = "idle"
  /\ Free
  /\ pc' = [pc EXCEPT ![r] = IF metric_is_empty THEN "idle" ELSE "found"]
  /\ UNCHANGED <<shared, history_mutex, cursor, buffer, last>>

\* Mutant: the copy starts at the first slot, not at the oldest sample.
DumpLock_FromZero(r) ==
  /\ pc[r] = "found"
  /\ Free
  /\ history_mutex' = r
  /\ cursor' = [cursor EXCEPT ![r] = 0]
  /\ pc' = [pc EXCEPT ![r] = "copy"]
  /\ UNCHANGED <<shared, buffer, last>>

\* metric_dump_history up to the loop.
DumpLock(r) ==
  /\ pc[r] = "found"
  /\ Free
  /\ history_mutex' = r
  /\ cursor' = [cursor EXCEPT ![r] = get]
  /\ pc' = [pc EXCEPT ![r] = "copy"]
  /\ UNCHANGED <<shared, buffer, last>>

\* The callers pass a buffer of HistorySize entries and size = HistorySize.
MoreToCopy(r) == cursor[r] # put /\ Len(buffer[r]) < HistorySize

DumpCopy(r) ==
  /\ pc[r] = "copy"
  /\ MoreToCopy(r)
  /\ buffer' = [buffer EXCEPT ![r] = Append(@, ring[cursor[r]])]
  /\ cursor' = [cursor EXCEPT ![r] = rb_next_index(@)]
  /\ UNCHANGED <<shared, history_mutex, pc, last>>

\* Mutant: the mutex is not released.
DumpUnlock_Forgotten(r) ==
  /\ pc[r] = "copy"
  /\ ~MoreToCopy(r)
  /\ pc' = [pc EXCEPT ![r] = "use"]
  /\ UNCHANGED <<shared, history_mutex, cursor, buffer, last>>

DumpUnlock(r) ==
  /\ pc[r] = "copy"
  /\ ~MoreToCopy(r)
  /\ history_mutex' = NoReader
  /\ pc' = [pc EXCEPT ![r] = "use"]
  /\ UNCHANGED <<shared, cursor, buffer, last>>

\* metric_get_last, called zero or more times while the dump is in use.
GetLast(r) ==
  /\ pc[r] = "use"
  /\ Free
  /\ last' = [last EXCEPT ![r] = ring[rb_previous_index(put)]]
  /\ UNCHANGED <<shared, history_mutex, pc, cursor, buffer>>

\* The prediction is done with its copy of the history.
Release(r) ==
  /\ pc[r] = "use"
  /\ pc' = [pc EXCEPT ![r] = "idle"]
  /\ buffer' = [buffer EXCEPT ![r] = << >>]
  /\ last' = [last EXCEPT ![r] = 0]
  /\ UNCHANGED <<shared, history_mutex, cursor>>

Next ==
  \/ metric_update
  \/ \E r \in Readers : \/ IsEmpty(r) \/ DumpLock(r) \/ DumpCopy(r)
                        \/ DumpUnlock(r) \/ GetLast(r) \/ Release(r)

Spec == Init /\ [][Next]_vars

(***************************************************************************)
(* A reader that entered the loop leaves it (it neither blocks nor waits   *)
(* there), and a reader that waits for the mutex gets it if the mutex is   *)
(* free again and again, which is what the futex behind pthread_mutex_lock *)
(* gives in practice.  Nothing obliges anybody to feed the metric.         *)
(***************************************************************************)
Fairness ==
  \A r \in Readers : /\ WF_vars(DumpCopy(r) \/ DumpUnlock(r))
                     /\ SF_vars(DumpLock(r))

FairSpec == Spec /\ Fairness
-------------------------------------------------------------------------------
(***************************************************************************)
(* Properties.                                                             *)
(***************************************************************************)

\* Type correctness: the indices stay inside the ring, and only a reader
\* inside metric_dump_history holds the mutex.
TypeOK ==
  /\ ring \in [Slots -> Samples]
  /\ put \in Slots
  /\ get \in Slots
  /\ fed \in Samples
  /\ history_mutex \in Readers \cup {NoReader}
  /\ pc \in [Readers -> {"idle", "found", "copy", "use"}]
  /\ cursor \in [Readers -> Slots]
  /\ buffer \in [Readers -> Seq(Samples)]
  /\ last \in [Readers -> Samples]

Lesser(a, b) == IF a <= b THEN a ELSE b

\* How many samples the ring holds.
Stored == Lesser(fed, HistorySize - 1)

\* The slot that is k places after the oldest sample.
Slot(k) == IF get + k < HistorySize THEN get + k ELSE get + k - HistorySize

\* The slots from get to put hold the most recent samples in the order they
\* were fed: metric_update never evicts a sample too early or too late, and
\* no unwritten slot is ever between get and put.
RingHoldsWindow ==
  /\ put = Slot(Stored)
  /\ fed < HistorySize => get = 0
  /\ \A k \in 0 .. Stored - 1 : ring[Slot(k)] = fed - Stored + k + 1

\* A reader that found the metric non-empty gets at least one sample, however
\* many updates come between the two calls: average.c divides by hsize.
DumpNeverEmpty ==
  \A r \in Readers : pc[r] = "use" => buffer[r] # << >>

\* A dump leaves the last entry of the caller's buffer unused: pred_fsm.c:102
\* reads history[i][hsize] when it has consumed all the hsize samples.
SpareSlot ==
  \A r \in Readers : Len(buffer[r]) < HistorySize

\* What the predictions rely on without asking: a dump has at least one sample
\* and leaves an entry of the buffer for the merge to look at.
DumpFits == DumpNeverEmpty /\ SpareSlot

\* The last sample a prediction gets is not older than the end of the history
\* it dumped before, though the two calls take the mutex separately.
LastNotOlder ==
  \A r \in Readers :
    pc[r] = "use" /\ last[r] # 0 => last[r] >= buffer[r][Len(buffer[r])]

\* metric_dump_history returns although updates and other readers compete
\* with it for the mutex.
DumpReturns ==
  \A r \in Readers : pc[r] = "found" ~> pc[r] = "use"

(***************************************************************************)
(* A metric is a sliding window over the samples fed: a dump is a snapshot *)
(* of one moment even though it is copied entry by entry.  It takes effect *)
(* when the mutex is released.                                             *)
(***************************************************************************)
Window ==
  INSTANCE SlidingWindow WITH
    Capacity <- HistorySize - 1,
    accepted <- fed,
    got <- [r \in Readers |-> IF pc[r] = "use" THEN buffer[r] ELSE << >>],
    latest <- last

WindowSpec == Window!Spec
===============================================================================

--------------------------- MODULE FlowgraphProofs ---------------------------
(***************************************************************************)
(* Proofs about Flowgraph, for every set of predictions, models and        *)
(* threads, every bound, and whatever the Environment does: its invariants *)
(* first, then that it implements FlowgraphApi, then what it keeps if the  *)
(* program around it has none of the habits that each theorem names.       *)
(***************************************************************************)
EXTENDS Flowgraph, SequenceTheorems, FiniteSetTheorems, TLAPS

(***************************************************************************)
(* A list less one entry.                                                  *)
(***************************************************************************)
LEMMA RemoveAtProperties ==
  ASSUME NEW S, NEW s \in Seq(S), NEW i \in 1..Len(s)
  PROVE  /\ RemoveAt(s, i) \in Seq(S)
         /\ Len(RemoveAt(s, i)) = Len(s) - 1
         /\ \A j \in 1 .. Len(s) - 1 :
              RemoveAt(s, i)[j] = IF j < i THEN s[j] ELSE s[j + 1]
<1> DEFINE l == SubSeq(s, 1, i - 1)
           r == SubSeq(s, i + 1, Len(s))
<1>1. /\ l \in Seq(S) /\ Len(l) = i - 1
      /\ \A j \in 1 .. i - 1 : l[j] = s[j]
  OBVIOUS
<1>2. /\ r \in Seq(S) /\ Len(r) = Len(s) - i
      /\ \A j \in 1 .. Len(s) - i : r[j] = s[j + i]
  OBVIOUS
<1> HIDE DEF l, r
<1>3. /\ l \o r \in Seq(S) /\ Len(l \o r) = Len(s) - 1
      /\ \A j \in 1 .. Len(s) - 1 :
           (l \o r)[j] = IF j < i THEN l[j] ELSE r[j - (i - 1)]
  <2>1. Len(s) \in Nat /\ Len(l) \in Nat /\ Len(r) \in Nat
    BY <1>1, <1>2
  <2>2. Len(l) + Len(r) = Len(s) - 1
    BY <1>1, <1>2, <2>1
  <2>3. /\ l \o r \in Seq(S) /\ Len(l \o r) = Len(l) + Len(r)
        /\ \A j \in 1 .. Len(l) + Len(r) :
             (l \o r)[j] = IF j <= Len(l) THEN l[j] ELSE r[j - Len(l)]
    BY <1>1, <1>2, ConcatProperties
  <2> QED
    BY <1>1, <2>1, <2>2, <2>3
<1>4. RemoveAt(s, i) = l \o r
  BY DEF RemoveAt, l, r
<1> QED
  BY <1>1, <1>2, <1>3, <1>4

(***************************************************************************)
(* Type correctness.                                                       *)
(***************************************************************************)
USE DEF Outputs, ExecCap

LEMMA InitTypeOK == Init => TypeOK
<1> SUFFICES ASSUME Init PROVE TypeOK
  OBVIOUS
<1>1. /\ predictions \in Seq(Entries) /\ models \in Seq(Models)
      /\ ran \in Seq(Predictions) /\ executed \in Seq(Models)
      /\ di \subseteq 1..Len(executed) /\ dim_sel \in di \cup {0}
  BY DEF Init
<1>2. /\ csv \in [Outputs -> {"null", "set", "dangling"}]
      /\ call \in [Apps -> Calls \cup {NoCall}]
      /\ config_mutex \in {NoThread, Engine, Main}
      /\ engine \in Places
  BY DEF Init, Places
<1>3. /\ one_time \in BOOLEAN /\ tearing \in BOOLEAN
      /\ cancel_disabled \in BOOLEAN /\ cancel_pending \in BOOLEAN
      /\ di_live \in BOOLEAN /\ reported \in BOOLEAN /\ crashed \in BOOLEAN
  BY DEF Init
<1>4. flowgraph_exec_count \in 0..ExecCap /\ main = "ready"
  BY DEF Init
<1> QED
  BY <1>1, <1>2, <1>3, <1>4 DEF TypeOK

LEMMA CallType ==
  ASSUME TypeOK, NEW a \in Apps, Call(a)
  PROVE  TypeOK'
  BY DEF TypeOK, Call, config, owner, cancelling, tick, calls

\* What is left to show about a call that returns.
LEMMA ReturnsType ==
  ASSUME TypeOK, NEW a \in Apps, Returns(a),
         predictions' \in Seq(Entries), models' \in Seq(Models),
         csv' \in [Outputs -> {"null", "set", "dangling"}]
  PROVE  TypeOK'
  BY DEF TypeOK, Returns, owner, cancelling, tick, calls

LEMMA LockedCallType ==
  ASSUME TypeOK, NEW a \in Apps, LockedCall(a)
  PROVE  TypeOK'
<1>1. /\ predictions \in Seq(Entries) /\ models \in Seq(Models)
      /\ call[a] # NoCall => call[a] \in Calls
      /\ csv \in [Outputs -> {"null", "set", "dangling"}]
  BY DEF TypeOK
<1>2. CASE flowgraph_attach_prediction(a)
  <2>1. call[a].arg \in Predictions
    BY <1>1, <1>2 DEF flowgraph_attach_prediction, Calls
  <2>2. NewEntry(call[a].arg) \in Entries
    BY <2>1 DEF NewEntry, Entries
  <2>3. predictions' \in Seq(Entries)
    BY <1>1, <1>2, <2>2 DEF flowgraph_attach_prediction
  <2> QED
    BY <1>1, <1>2, <2>3, ReturnsType DEF flowgraph_attach_prediction
<1>3. CASE flowgraph_detach_prediction(a)
  <2>1. predictions' \in Seq(Entries)
    BY <1>1, <1>3, RemoveAtProperties DEF flowgraph_detach_prediction
  <2> QED
    BY <1>1, <1>3, <2>1, ReturnsType DEF flowgraph_detach_prediction
<1>4. CASE flowgraph_attach_model(a)
  <2>1. call[a].arg \in Models
    BY <1>1, <1>4 DEF flowgraph_attach_model, Calls
  <2>2. models' \in Seq(Models)
    BY <1>1, <1>4, <2>1 DEF flowgraph_attach_model
  <2> QED
    BY <1>1, <1>4, <2>2, ReturnsType DEF flowgraph_attach_model
<1>5. CASE flowgraph_detach_model(a)
  <2>1. models' \in Seq(Models)
    BY <1>1, <1>5, RemoveAtProperties DEF flowgraph_detach_model
  <2> QED
    BY <1>1, <1>5, <2>1, ReturnsType DEF flowgraph_detach_model
<1> QED
  BY <1>2, <1>3, <1>4, <1>5 DEF LockedCall

LEMMA CsvCallType ==
  ASSUME TypeOK, NEW a \in Apps, CsvCall(a)
  PROVE  TypeOK'
<1>1. CASE FreeCsvFormat(a)
  <2>1. call[a] \in Calls /\ call[a].op = "free_csv"
    BY <1>1 DEF TypeOK, FreeCsvFormat
  <2>2. [call[a] EXCEPT !.op = "set_csv"] \in Calls /\ call[a].arg \in Outputs
    BY <2>1 DEF Calls
  <2>3. call' \in [Apps -> Calls \cup {NoCall}]
    BY <1>1, <2>2 DEF TypeOK, FreeCsvFormat
  <2>4. csv' \in [Outputs -> {"null", "set", "dangling"}]
    BY <1>1, <2>2 DEF TypeOK, FreeCsvFormat
  <2> QED
    BY <1>1, <2>3, <2>4 DEF TypeOK, FreeCsvFormat, config, owner, cancelling, tick, calls
<1>2. CASE SetCsvFormat(a)
  BY <1>2, ReturnsType DEF TypeOK, SetCsvFormat, config
<1> QED
  BY <1>1, <1>2 DEF CsvCall

LEMMA StartStopType ==
  ASSUME TypeOK, NEW b \in BOOLEAN, rtgde_start(b) \/ rtgde_stop(b)
  PROVE  TypeOK'
<1>1. CASE rtgde_start(b)
  BY <1>1 DEF TypeOK, rtgde_start, config, cancelling, tick, Places
<1>2. CASE rtgde_stop(b)
  BY <1>2 DEF TypeOK, rtgde_stop, config, cancelling, tick, calls
<1> QED
  BY <1>1, <1>2

LEMMA MainType ==
  ASSUME TypeOK, MainStep
  PROVE  TypeOK'
<1>1. CASE WaitFirst
  BY <1>1 DEF TypeOK, WaitFirst, config, cancelling, tick, calls
<1>2. CASE CancelThread
  <2>1. /\ main' \in {"join", "teardown", "ready"}
        /\ cancel_pending' \in BOOLEAN /\ crashed' \in BOOLEAN
    BY <1>2 DEF TypeOK, CancelThread, AfterStop
  <2>2. UNCHANGED <<config, config_mutex, csv, one_time, flowgraph_exec_count, call,
                    tearing, engine, cancel_disabled, tick, calls>>
    BY <1>2 DEF CancelThread
  <2> QED
    BY <2>1, <2>2 DEF TypeOK, config, tick, calls
<1>3. CASE JoinThread
  BY <1>3 DEF TypeOK, JoinThread, AfterStop, config, cancelling, tick, calls, Places
<1>4. CASE FreeFlowgraph
  BY <1>4 DEF TypeOK, FreeFlowgraph, cancelling, tick, calls
<1> QED
  BY <1>1, <1>2, <1>3, <1>4 DEF MainStep

\* The steps of the engine that change neither the lists nor the tick.
LEMMA EngineMovesType ==
  ASSUME TypeOK,
         \/ EngineWakes \/ EngineCancelled \/ EngineLocks \/ NothingToExecute
         \/ GoOnToModels \/ TakeDecision \/ CallUser \/ UserReturns
         \/ LogPredictions \/ LogModels \/ CountExecution \/ EnableCancel
  PROVE  TypeOK'
<1> USE DEF TypeOK, Places, Holding, config, cancelling, tick, calls, owner, outside
<1>1. CASE EngineWakes
  BY <1>1 DEF EngineWakes, CancelStateInTick
<1>2. CASE EngineCancelled
  BY <1>2 DEF EngineCancelled
<1>3. CASE EngineLocks
  BY <1>3 DEF EngineLocks
<1>4. CASE NothingToExecute
  BY <1>4 DEF NothingToExecute
<1>11. CASE GoOnToModels
  BY <1>11 DEF GoOnToModels
<1>5. CASE TakeDecision
  BY <1>5 DEF TakeDecision
<1>6. CASE CallUser
  BY <1>6 DEF CallUser
<1>7. CASE UserReturns
  BY <1>7 DEF UserReturns
<1>8. CASE LogPredictions \/ LogModels
  <2>1. engine' \in Places /\ crashed' \in BOOLEAN
    BY <1>8 DEF LogPredictions, LogModels, LogCsv
  <2>2. UNCHANGED <<config, config_mutex, flowgraph_exec_count, cancelling, tick,
                    calls, csv, call, owner>>
    BY <1>8 DEF LogPredictions, LogModels, LogCsv
  <2> QED
    BY <2>1, <2>2
<1>9. CASE CountExecution
  BY <1>9 DEF CountExecution
<1>10. CASE EnableCancel
  <2>1. engine' \in Places /\ cancel_disabled' \in BOOLEAN
    BY <1>10 DEF EnableCancel, AfterTick, CancelStateAfterTick
  <2> QED
    BY <1>10, <2>1 DEF EnableCancel
<1> QED
  BY <1>1, <1>2, <1>3, <1>4, <1>5, <1>6, <1>7, <1>8, <1>9, <1>10, <1>11

LEMMA ExecutePredictionType ==
  ASSUME TypeOK, ExecutePrediction
  PROVE  TypeOK'
<1> DEFINE i == Len(ran) + 1
<1>1. i \in 1..Len(predictions) /\ predictions[i] \in Entries
  BY DEF TypeOK, ExecutePrediction
<1>2. PICK list \in {"null", "list"} :
        predictions' = [predictions EXCEPT
                          ![i] = [base |-> @.base, last_prediction |-> list]]
  BY DEF ExecutePrediction
<1>3. [base |-> predictions[i].base, last_prediction |-> list] \in Entries
  BY <1>1 DEF Entries
<1>4. predictions' = [predictions EXCEPT ![i] =
                        [base |-> predictions[i].base, last_prediction |-> list]]
  BY <1>2
<1>5. predictions' \in Seq(Entries)
  BY <1>1, <1>3, <1>4, ExceptSeq DEF TypeOK
<1>6. ran' \in Seq(Predictions)
  BY <1>1 DEF TypeOK, ExecutePrediction, Entries
<1> QED
  BY <1>5, <1>6 DEF TypeOK, ExecutePrediction, cancelling, calls, outside, owner

LEMMA ExecuteModelType ==
  ASSUME TypeOK, ExecuteModel
  PROVE  TypeOK'
<1>1. /\ executed' \in Seq(Models)
      /\ di' \subseteq 1..Len(executed')
      /\ dim_sel' \in di' \cup {0}
  <2>1. CASE UNCHANGED <<executed, di>>
    BY <2>1 DEF TypeOK, ExecuteModel
  <2>2. CASE /\ executed' = Append(executed, models[Len(executed) + 1])
             /\ di' \in {di, di \cup {Len(executed) + 1}}
    <3>1. models[Len(executed) + 1] \in Models
      BY DEF TypeOK, ExecuteModel
    <3>2. executed' \in Seq(Models) /\ Len(executed') = Len(executed) + 1
      BY <2>2, <3>1 DEF TypeOK
    <3>3. dim_sel' = dim_sel
      BY DEF ExecuteModel
    <3> QED
      BY <2>2, <3>2, <3>3 DEF TypeOK
  <2> QED
    BY <2>1, <2>2 DEF ExecuteModel
<1>2. crashed' \in BOOLEAN
  BY DEF TypeOK, ExecuteModel
<1> QED
  BY <1>1, <1>2 DEF TypeOK, ExecuteModel, config, cancelling, calls, owner

LEMMA EndTickType ==
  ASSUME TypeOK, EndTick
  PROVE  TypeOK'
<1>1. \A fp \in Entries : Cleared(fp) \in Entries
  BY DEF Cleared, Entries
<1>2. predictions' \in Seq(Entries)
  BY <1>1 DEF TypeOK, EndTick
<1>3. ran' \in Seq(Predictions) /\ executed' \in Seq(Models)
      /\ di' \subseteq 1..Len(executed') /\ dim_sel' \in di' \cup {0}
  BY DEF EndTick
<1> QED
  BY <1>2, <1>3
  DEF TypeOK, EndTick, MutexAfterTick, Places, cancelling, calls, outside, owner

LEMMA NextTypeOK == TypeOK /\ [Next]_vars => TypeOK'
<1> SUFFICES ASSUME TypeOK, [Next]_vars
             PROVE  TypeOK'
  OBVIOUS
<1>1. ASSUME NEW a \in Apps, Call(a) \/ LockedCall(a) \/ CsvCall(a)
      PROVE  TypeOK'
  BY <1>1, CallType, LockedCallType, CsvCallType
<1>2. ASSUME NEW b \in BOOLEAN, rtgde_start(b) \/ rtgde_stop(b)
      PROVE  TypeOK'
  BY <1>2, StartStopType
<1>3. CASE MainStep
  BY <1>3, MainType
<1>4. CASE EngineStep
  BY <1>4, EngineMovesType, ExecutePredictionType, ExecuteModelType, EndTickType
  DEF EngineStep
<1>5. CASE UNCHANGED vars
  BY <1>5 DEF vars, TypeOK
<1> QED
  BY <1>1, <1>2, <1>3, <1>4, <1>5 DEF Next, Finished

\* Every variable keeps its type, whatever the environment does.
THEOREM TypeCorrect == Spec => []TypeOK
  BY InitTypeOK, NextTypeOK, PTL DEF Spec
------------------------------------------------------------------------------
(***************************************************************************)
(* The inductive invariant.                                                *)
(***************************************************************************)

\* The engine owns config_mutex as long as it executes the graph, so the
\* calls of the application and the end of the teardown stay out.
MutexInTick == InTick => config_mutex = Engine

\* A cancellation cannot end the thread inside execute_flow_graph.
CancelOffInTick == InTick \/ engine = "lock" => cancel_disabled

\* A teardown begins when no call is under way, and frees the flowgraph
\* after the thread has ended; the thread is never started again.
TeardownAlone ==
  /\ tearing => \A a \in Apps : call[a] = NoCall
  /\ main \in {"teardown", "freed"} => tearing /\ ThreadGone

SafetyInv ==
  /\ TypeOK
  /\ MutexInTick
  /\ CancelOffInTick
  /\ NoListOutlivesTick
  /\ TeardownAlone

\* What the tick has executed is a prefix of the configuration.
ExecutesPrefix ==
  /\ ~InTick => ran = << >> /\ executed = << >> /\ di = {} /\ dim_sel = 0
  /\ engine = "predict" =>
       /\ Len(ran) <= Len(predictions)
       /\ \A i \in 1..Len(ran) : ran[i] = predictions[i].base
       /\ executed = << >>
  /\ engine \in {"model", "callback"} =>
       /\ ran = Bases
       /\ ran # << >>
  /\ engine = "model" =>
       /\ Len(executed) <= Len(models)
       /\ \A i \in 1..Len(executed) : executed[i] = models[i]
  /\ engine = "callback" => executed = models

\* There is a report as long as the callback of the application runs.
ReportInCallback == report = NoReport \/ engine \in {"user", "stuck"}

\* A one-time run has reported only when it is past its callback.
ReportsOnce ==
  one_time /\ reported => engine \notin {"sleep", "lock", "predict", "model", "callback"}

ApiInv ==
  /\ SafetyInv
  /\ ExecutesPrefix
  /\ ReportInCallback
  /\ ReportsOnce

(***************************************************************************)
(* What each group of steps leaves alone, stated once.                     *)
(***************************************************************************)
LEMMA CallsLeaveEngine ==
  ASSUME NEW a \in Apps, Call(a) \/ LockedCall(a) \/ CsvCall(a)
  PROVE  /\ UNCHANGED <<engine, config_mutex, cancel_disabled, main, tearing, one_time,
                        ran, executed, di, dim_sel, report, reported>>
         /\ UNCHANGED <<predictions, models>> \/ config_mutex = NoThread
  BY DEF Call, LockedCall, CsvCall, flowgraph_attach_prediction,
     flowgraph_detach_prediction, flowgraph_attach_model, flowgraph_detach_model,
     FreeCsvFormat, SetCsvFormat, Returns, Lockable, config, owner, cancelling,
     tick, calls

LEMMA StartStopLeaves ==
  ASSUME NEW b \in BOOLEAN, rtgde_start(b) \/ rtgde_stop(b)
  PROVE  /\ UNCHANGED <<config_mutex, predictions, models, call, ran, executed, di,
                        dim_sel, report>>
         /\ engine' # engine => ThreadGone /\ engine' \in {"sleep", "absent"}
         /\ \/ UNCHANGED <<one_time, reported>>
            \/ ThreadGone /\ one_time' = b /\ reported' = FALSE
         /\ UNCHANGED cancel_disabled \/ engine' = "sleep"
         /\ main = "ready" /\ ~tearing
  BY DEF rtgde_start, rtgde_stop, config, owner, cancelling, tick, calls, ThreadGone

LEMMA MainLeaves ==
  ASSUME MainStep
  PROVE  /\ UNCHANGED <<tearing, one_time, call, cancel_disabled, ran, executed, di,
                        dim_sel, report, reported>>
         /\ engine' # engine => engine = "exited" /\ engine' = "absent"
         /\ \/ UNCHANGED <<predictions, models, config_mutex>>
            \/ /\ config_mutex = NoThread
               /\ predictions' = << >> /\ models' = << >>
  BY DEF MainStep, WaitFirst, CancelThread, JoinThread, Joinable, FreeFlowgraph,
     Lockable, config, cancelling, tick, calls

LEMMA EngineLeaves ==
  ASSUME EngineStep
  PROVE  /\ UNCHANGED <<call, main, tearing, one_time>>
         /\ ~ThreadGone
  BY DEF EngineStep, EngineWakes, EngineCancelled, EngineLocks, ExecutePrediction,
     PredictionsDone, NothingToExecute, GoOnToModels, ExecuteModel, TakeDecision,
     CallUser, UserReturns, LogPredictions, LogModels, LogCsv, EndTick,
     CountExecution, EnableCancel, outside, owner, ThreadGone

LEMMA InitApiInv == Init => ApiInv
  BY InitTypeOK
  DEF Init, ApiInv, SafetyInv, MutexInTick, CancelOffInTick, NoListOutlivesTick,
      TeardownAlone, ExecutesPrefix, ReportInCallback, ReportsOnce, InTick, Holding

LEMMA TeardownAloneKept ==
  ASSUME SafetyInv, [Next]_vars
  PROVE  TeardownAlone'
<1>1. ASSUME NEW a \in Apps, Call(a) \/ LockedCall(a) \/ CsvCall(a)
      PROVE  TeardownAlone'
  <2>1. ~tearing
    BY <1>1 DEF SafetyInv, TeardownAlone, Call, LockedCall, CsvCall,
       flowgraph_attach_prediction, flowgraph_detach_prediction,
       flowgraph_attach_model, flowgraph_detach_model, FreeCsvFormat, SetCsvFormat
  <2> QED
    BY <1>1, <2>1, CallsLeaveEngine DEF SafetyInv, TeardownAlone, ThreadGone
<1>2. ASSUME NEW b \in BOOLEAN, rtgde_start(b)
      PROVE  TeardownAlone'
  BY <1>2 DEF SafetyInv, TeardownAlone, rtgde_start
<1>3. ASSUME NEW b \in BOOLEAN, rtgde_stop(b)
      PROVE  TeardownAlone'
  BY <1>3 DEF SafetyInv, TeardownAlone, rtgde_stop
<1>4. CASE WaitFirst
  BY <1>4 DEF SafetyInv, TeardownAlone, WaitFirst, ThreadGone
<1>5. CASE CancelThread
  BY <1>5 DEF SafetyInv, TeardownAlone, CancelThread, AfterStop, ThreadGone
<1>6. CASE JoinThread
  BY <1>6 DEF SafetyInv, TeardownAlone, JoinThread, Joinable, AfterStop, ThreadGone
<1>7. CASE FreeFlowgraph
  BY <1>7 DEF SafetyInv, TeardownAlone, FreeFlowgraph, ThreadGone
<1>8. CASE EngineStep
  BY <1>8, EngineLeaves DEF SafetyInv, TeardownAlone, ThreadGone
<1>9. CASE UNCHANGED vars
  BY <1>9 DEF SafetyInv, TeardownAlone, ThreadGone, vars
<1> QED
  BY <1>1, <1>2, <1>3, <1>4, <1>5, <1>6, <1>7, <1>8, <1>9 DEF Next, MainStep, Finished

LEMMA MutexKept ==
  ASSUME SafetyInv, [Next]_vars
  PROVE  MutexInTick' /\ CancelOffInTick'
<1> USE DEF SafetyInv, MutexInTick, CancelOffInTick, InTick, Holding
<1>1. ASSUME NEW a \in Apps, Call(a) \/ LockedCall(a) \/ CsvCall(a)
      PROVE  MutexInTick' /\ CancelOffInTick'
  BY <1>1, CallsLeaveEngine
<1>2. ASSUME NEW b \in BOOLEAN, rtgde_start(b) \/ rtgde_stop(b)
      PROVE  MutexInTick' /\ CancelOffInTick'
  BY <1>2, StartStopLeaves
<1>3. CASE MainStep
  BY <1>3, MainLeaves, ThreadsAssumption
<1>4. CASE EngineStep
  BY <1>4 DEF EngineStep, EngineWakes, EngineCancelled, Cancellable, CancelStateInTick,
     EngineLocks, ExecutePrediction, PredictionsDone, NothingToExecute, GoOnToModels,
     ExecuteModel, TakeDecision, CallUser, UserReturns, LogPredictions, LogModels,
     LogCsv, EndTick, CountExecution, EnableCancel, AfterTick, cancelling
<1>5. CASE UNCHANGED vars
  BY <1>5 DEF vars
<1> QED
  BY <1>1, <1>2, <1>3, <1>4, <1>5 DEF Next, Finished

\* A prediction that is executed keeps its place.
LEMMA ExecutePredictionBases ==
  ASSUME TypeOK, ExecutePrediction
  PROVE  Bases' = Bases /\ models' = models
<1> DEFINE i == Len(ran) + 1
<1>1. i \in 1..Len(predictions)
  BY DEF TypeOK, ExecutePrediction
<1>2. PICK list : predictions' = [predictions EXCEPT
                                    ![i] = [base |-> @.base, last_prediction |-> list]]
  BY DEF ExecutePrediction
<1>3. predictions \in Seq(Entries)
  BY DEF TypeOK
<1>4. Len(predictions') = Len(predictions)
  BY <1>1, <1>2, <1>3
<1>5. \A j \in 1..Len(predictions) : predictions'[j].base = predictions[j].base
  BY <1>1, <1>2, <1>3
<1>6. Bases' = Bases
  BY <1>4, <1>5 DEF Bases
<1> QED
  BY <1>6 DEF ExecutePrediction

LEMMA NoListKept ==
  ASSUME SafetyInv, [Next]_vars
  PROVE  NoListOutlivesTick'
<1> DEFINE AllNull == \A i \in 1..Len(predictions) : predictions[i].last_prediction = "null"
<1>1. predictions \in Seq(Entries)
  BY DEF SafetyInv, TypeOK
<1>2. ~InTick => AllNull
  BY DEF SafetyInv, NoListOutlivesTick
<1>3. SUFFICES ASSUME ~InTick'
               PROVE  AllNull'
  BY DEF NoListOutlivesTick
<1>4. ASSUME NEW a \in Apps, Call(a) \/ LockedCall(a) \/ CsvCall(a)
      PROVE  AllNull'
  <2>1. ~InTick /\ AllNull
    BY <1>2, <1>3, <1>4, CallsLeaveEngine DEF InTick
  <2>2. CASE flowgraph_attach_prediction(a)
    <3>1. \/ predictions' = predictions
          \/ predictions' = Append(predictions, NewEntry(call[a].arg))
      BY <2>2 DEF flowgraph_attach_prediction
    <3>2. NewEntry(call[a].arg).last_prediction = "null"
      BY DEF NewEntry
    <3> QED
      BY <1>1, <2>1, <3>1, <3>2
  <2>3. CASE flowgraph_detach_prediction(a)
    <3>1. CASE UNCHANGED predictions
      BY <2>1, <3>1
    <3>2. CASE \E i \in 1..Len(predictions) : predictions' = RemoveAt(predictions, i)
      <4>1. PICK i \in 1..Len(predictions) : predictions' = RemoveAt(predictions, i)
        BY <3>2
      <4>2. /\ Len(predictions') = Len(predictions) - 1
            /\ \A j \in 1 .. Len(predictions) - 1 :
                 predictions'[j] = IF j < i THEN predictions[j] ELSE predictions[j + 1]
        BY <1>1, <4>1, RemoveAtProperties
      <4>3. Len(predictions) \in Nat
        BY <1>1
      <4> QED
        BY <2>1, <4>2, <4>3
    <3> QED
      BY <2>3, <3>1, <3>2 DEF flowgraph_detach_prediction
  <2>4. CASE UNCHANGED predictions
    BY <2>1, <2>4
  <2> QED
    BY <1>4, <2>2, <2>3, <2>4
    DEF Call, LockedCall, CsvCall, flowgraph_attach_model, flowgraph_detach_model,
        FreeCsvFormat, SetCsvFormat, config
<1>5. ASSUME NEW b \in BOOLEAN, rtgde_start(b) \/ rtgde_stop(b)
      PROVE  AllNull'
  <2>1. ~InTick
    BY <1>3, <1>5, StartStopLeaves DEF InTick, Holding, ThreadGone
  <2> QED
    BY <1>2, <1>5, <2>1, StartStopLeaves
<1>6. CASE MainStep
  <2>1. ~InTick
    BY <1>3, <1>6, MainLeaves DEF InTick, Holding
  <2> QED
    BY <1>2, <1>6, <2>1, MainLeaves
<1>7. CASE NothingToExecute
  BY <1>1, <1>7 DEF NothingToExecute, PredictionsDone, config
<1>8. CASE EndTick
  BY <1>1, <1>8 DEF EndTick, Cleared
<1>9. CASE EngineStep /\ ~NothingToExecute /\ ~EndTick
  <2>1. ~InTick /\ UNCHANGED predictions
    BY <1>3, <1>9
    DEF SafetyInv, CancelOffInTick, InTick, Holding, EngineStep, EngineWakes,
        EngineCancelled, Cancellable, EngineLocks, ExecutePrediction, PredictionsDone,
        GoOnToModels, ExecuteModel, TakeDecision, CallUser, UserReturns,
        LogPredictions, LogModels, LogCsv, CountExecution, EnableCancel, AfterTick,
        config
  <2> QED
    BY <1>2, <2>1
<1>10. CASE UNCHANGED vars
  BY <1>2, <1>3, <1>10 DEF vars, InTick
<1> QED
  BY <1>4, <1>5, <1>6, <1>7, <1>8, <1>9, <1>10 DEF Next, Finished, EngineStep

LEMMA NextSafetyInv == SafetyInv /\ [Next]_vars => SafetyInv'
  BY NextTypeOK, MutexKept, NoListKept, TeardownAloneKept DEF SafetyInv

LEMMA SafetyInvariance == Spec => []SafetyInv
  BY InitApiInv, NextSafetyInv, PTL DEF Spec, ApiInv

\* After flowgraph_teardown has freed the flowgraph, neither the engine nor a
\* call of the application is left to use it.
THEOREM NeverUsedAfterFree == Spec => []NoUseAfterFree
<1>1. SafetyInv => NoUseAfterFree
  BY DEF SafetyInv, TeardownAlone, NoUseAfterFree
<1> QED
  BY <1>1, SafetyInvariance, PTL

\* Outside of a tick no entry keeps a list of predictions.
THEOREM ListsEndWithTick == Spec => []NoListOutlivesTick
  BY SafetyInvariance, PTL DEF SafetyInv

\* From its first prediction to its last, a tick sees one configuration,
\* whatever the application calls meanwhile.
THEOREM TickSeesOneConfiguration == Spec => ConfigStable
<1>1. SafetyInv /\ [Next]_vars =>
        [InTick /\ InTick' => Bases' = Bases /\ models' = models]_vars
  <2> SUFFICES ASSUME SafetyInv, [Next]_vars, InTick, InTick'
               PROVE  Bases' = Bases /\ models' = models
    OBVIOUS
  <2>1. config_mutex # NoThread /\ ~ThreadGone
    BY ThreadsAssumption DEF SafetyInv, MutexInTick, InTick, Holding, ThreadGone
  <2>2. ASSUME NEW a \in Apps, Call(a) \/ LockedCall(a) \/ CsvCall(a)
        PROVE  Bases' = Bases /\ models' = models
    BY <2>1, <2>2, CallsLeaveEngine DEF Bases
  <2>3. ASSUME NEW b \in BOOLEAN, rtgde_start(b) \/ rtgde_stop(b)
        PROVE  Bases' = Bases /\ models' = models
    BY <2>3, StartStopLeaves DEF Bases
  <2>4. CASE MainStep
    BY <2>1, <2>4, MainLeaves DEF Bases
  <2>5. CASE ExecutePrediction
    BY <2>5, ExecutePredictionBases DEF SafetyInv
  <2>6. CASE EngineStep /\ ~ExecutePrediction
    <3>1. UNCHANGED <<predictions, models>>
      BY <2>6
      DEF InTick, Holding, EngineStep, EngineWakes, EngineCancelled, EngineLocks,
          NothingToExecute, GoOnToModels, ExecuteModel, TakeDecision, CallUser,
          UserReturns, LogPredictions, LogModels, LogCsv, EndTick, CountExecution,
          EnableCancel, config
    <3> QED
      BY <3>1 DEF Bases
  <2>7. CASE UNCHANGED vars
    BY <2>7 DEF vars, Bases
  <2> QED
    BY <2>2, <2>3, <2>4, <2>5, <2>6, <2>7 DEF Next, Finished
<1> QED
  BY <1>1, SafetyInvariance, PTL DEF Spec, ConfigStable

--------------------------------------------------------------------------------
(***************************************************************************)
(* Flowgraph implements FlowgraphApi: a report of execute_flow_graph names *)
(* one configuration.                                                      *)
(***************************************************************************)
\* The names of the attached predictions, of which FlowgraphApi speaks.
LEMMA BasesType ==
  ASSUME NEW list \in Seq(Entries)
  PROVE  LET bases == [i \in 1..Len(list) |-> list[i].base] IN
         /\ bases \in Seq(Predictions)
         /\ Len(bases) = Len(list)
         /\ \A i \in 1..Len(list) : bases[i] = list[i].base
<1> DEFINE bases == [i \in 1..Len(list) |-> list[i].base]
<1>1. Len(list) \in Nat
  OBVIOUS
<1>2. \A i \in 1..Len(list) : list[i].base \in Predictions
  <2>1. \A i \in 1..Len(list) : list[i] \in Entries
    OBVIOUS
  <2> QED
    BY <2>1 DEF Entries
<1>3. bases \in Seq(Predictions)
  BY <1>1, <1>2
<1> QED
  BY <1>1, <1>3

(***************************************************************************)
(* The rest of the inductive invariant ApiInv.                              *)
(***************************************************************************)

\* The steps of everybody but the engine touch the lists only when there is
\* no tick, and never what a tick has done so far.
LEMMA OthersLeaveTick ==
  ASSUME SafetyInv, [Next]_vars, ~EngineStep
  PROVE  /\ UNCHANGED <<ran, executed, di, dim_sel, report>>
         /\ InTick => UNCHANGED <<engine, predictions, models>>
         /\ InTick' => InTick
<1> USE DEF SafetyInv, MutexInTick, InTick, Holding, ThreadGone
<1>1. ASSUME NEW a \in Apps, Call(a) \/ LockedCall(a) \/ CsvCall(a)
      PROVE  /\ UNCHANGED <<ran, executed, di, dim_sel, report, engine>>
             /\ InTick => UNCHANGED <<engine, predictions, models>>
  BY <1>1, CallsLeaveEngine, ThreadsAssumption
<1>2. ASSUME NEW b \in BOOLEAN, rtgde_start(b) \/ rtgde_stop(b)
      PROVE  /\ UNCHANGED <<ran, executed, di, dim_sel, report, predictions, models>>
             /\ engine' # engine => ThreadGone /\ engine' \in {"sleep", "absent"}
  BY <1>2, StartStopLeaves
<1>3. CASE MainStep
  BY <1>3, MainLeaves, ThreadsAssumption
<1>4. CASE UNCHANGED vars
  BY <1>4 DEF vars
<1> QED
  BY <1>1, <1>2, <1>3, <1>4 DEF Next, Finished

LEMMA PrefixKeptByPrediction ==
  ASSUME SafetyInv, ExecutesPrefix, ExecutePrediction
  PROVE  ExecutesPrefix'
<1>1. /\ engine = "predict" /\ engine' = "predict"
      /\ ran' = Append(ran, predictions[Len(ran) + 1].base)
      /\ executed' = executed
      /\ Len(ran) < Len(predictions)
  BY DEF ExecutePrediction
<1>2. Len(predictions') = Len(predictions)
      /\ \A j \in 1..Len(predictions) : predictions'[j].base = predictions[j].base
  <2>1. Bases' = Bases
    BY ExecutePredictionBases DEF SafetyInv
  <2>2. predictions \in Seq(Entries) /\ predictions' \in Seq(Entries)
    BY ExecutePredictionType DEF SafetyInv, TypeOK
  <2> QED
    BY <2>1, <2>2 DEF Bases
<1>3. ran \in Seq(Predictions) /\ predictions \in Seq(Entries)
  BY DEF SafetyInv, TypeOK
<1>4. Len(ran') = Len(ran) + 1
      /\ \A i \in 1..Len(ran') :
           ran'[i] = IF i = Len(ran) + 1 THEN predictions[i].base ELSE ran[i]
  BY <1>1, <1>3
<1>5. \A i \in 1..Len(ran) : ran[i] = predictions[i].base
  BY <1>1 DEF ExecutesPrefix
<1>6. Len(ran) \in Nat /\ Len(predictions) \in Nat
  BY <1>3
<1>7. Len(ran') <= Len(predictions')
      /\ \A i \in 1..Len(ran') : ran'[i] = predictions'[i].base
  BY <1>1, <1>2, <1>4, <1>5, <1>6
<1> QED
  BY <1>1, <1>7 DEF ExecutesPrefix, InTick, Holding

LEMMA PrefixKeptByModel ==
  ASSUME SafetyInv, ExecutesPrefix, ExecuteModel
  PROVE  ExecutesPrefix'
<1>1. /\ engine = "model" /\ UNCHANGED <<engine, predictions, models, ran>>
      /\ Len(executed) < Len(models)
      /\ executed' \in {executed, Append(executed, models[Len(executed) + 1])}
  BY DEF ExecuteModel, config
<1>2. executed \in Seq(Models) /\ models \in Seq(Models)
  BY DEF SafetyInv, TypeOK
<1>3. \A i \in 1..Len(executed) : executed[i] = models[i]
  BY <1>1 DEF ExecutesPrefix
<1>4. Len(executed') <= Len(models)
      /\ \A i \in 1..Len(executed') : executed'[i] = models[i]
  BY <1>1, <1>2, <1>3
<1>5. Bases' = Bases
  BY <1>1 DEF Bases
<1> QED
  BY <1>1, <1>4, <1>5 DEF ExecutesPrefix, InTick, Holding

\* At the end of the loops, what has been executed is everything.
LEMMA AllExecuted ==
  ASSUME SafetyInv, ExecutesPrefix
  PROVE  /\ PredictionsDone => ran = Bases
         /\ engine = "model" /\ Len(executed) >= Len(models) => executed = models
<1>1. /\ ran \in Seq(Predictions) /\ predictions \in Seq(Entries)
      /\ executed \in Seq(Models) /\ models \in Seq(Models)
  BY DEF SafetyInv, TypeOK
<1>2. ASSUME PredictionsDone
      PROVE  ran = Bases
  <2>1. Len(ran) = Len(predictions)
        /\ \A i \in 1..Len(ran) : ran[i] = predictions[i].base
    BY <1>1, <1>2 DEF PredictionsDone, ExecutesPrefix
  <2>2. Bases \in Seq(Predictions) /\ Len(Bases) = Len(predictions)
        /\ \A i \in 1..Len(predictions) : Bases[i] = predictions[i].base
    BY <1>1, BasesType DEF Bases
  <2> QED
    BY <1>1, <2>1, <2>2, SeqEqual
<1>3. ASSUME engine = "model", Len(executed) >= Len(models)
      PROVE  executed = models
  <2>1. Len(executed) = Len(models)
        /\ \A i \in 1..Len(executed) : executed[i] = models[i]
    BY <1>1, <1>3 DEF ExecutesPrefix
  <2> QED
    BY <1>1, <2>1, SeqEqual
<1> QED
  BY <1>2, <1>3

LEMMA PrefixKept ==
  ASSUME SafetyInv, ExecutesPrefix, [Next]_vars
  PROVE  ExecutesPrefix'
<1> USE DEF InTick, Holding
<1>1. CASE ~EngineStep
  <2>1. /\ UNCHANGED <<ran, executed, di, dim_sel>>
        /\ InTick => UNCHANGED <<engine, predictions, models, Bases>>
        /\ InTick' => InTick
    BY <1>1, OthersLeaveTick DEF Bases
  <2> QED
    BY <2>1 DEF ExecutesPrefix
<1>2. CASE EngineWakes \/ EngineCancelled
  BY <1>2 DEF SafetyInv, CancelOffInTick, ExecutesPrefix, EngineWakes,
     EngineCancelled, Cancellable, tick
<1>3. CASE EngineLocks
  <2>1. /\ engine = "lock" /\ engine' = "predict"
        /\ UNCHANGED <<ran, executed, predictions>>
    BY <1>3 DEF EngineLocks, tick, config
  <2>2. ran = << >> /\ executed = << >>
    BY <2>1 DEF ExecutesPrefix
  <2> QED
    BY <2>1, <2>2 DEF ExecutesPrefix, SafetyInv, TypeOK
<1>4. CASE ExecutePrediction
  BY <1>4, PrefixKeptByPrediction
<1>5. CASE NothingToExecute
  BY <1>5 DEF SafetyInv, TypeOK, ExecutesPrefix, NothingToExecute, PredictionsDone, tick
<1>6. CASE GoOnToModels
  <2>1. /\ ran # << >> /\ executed = << >> /\ ran = Bases
        /\ engine' = "model"
        /\ UNCHANGED <<ran, executed, models, Bases>>
    BY <1>6, AllExecuted DEF GoOnToModels, PredictionsDone, ExecutesPrefix, tick, config, Bases
  <2> QED
    BY <2>1 DEF ExecutesPrefix, SafetyInv, TypeOK
<1>7. CASE ExecuteModel
  BY <1>7, PrefixKeptByModel
<1>8. CASE TakeDecision
  <2>1. /\ executed = models /\ engine = "model" /\ engine' = "callback"
        /\ UNCHANGED <<ran, executed, models, Bases>>
    BY <1>8, AllExecuted DEF TakeDecision, config, Bases
  <2> QED
    BY <2>1 DEF ExecutesPrefix
<1>9. CASE CallUser \/ UserReturns \/ LogPredictions \/ LogModels
  BY <1>9 DEF ExecutesPrefix, CallUser, UserReturns, LogPredictions, LogModels, LogCsv
<1>10. CASE EndTick
  BY <1>10 DEF ExecutesPrefix, EndTick
<1>11. CASE CountExecution \/ EnableCancel
  BY <1>11 DEF ExecutesPrefix, CountExecution, EnableCancel, AfterTick, tick
<1> QED
  BY <1>1, <1>2, <1>3, <1>4, <1>5, <1>6, <1>7, <1>8, <1>9, <1>10, <1>11 DEF EngineStep

\* The application looks at a report only while its callback runs.
LEMMA ReportKept ==
  ASSUME SafetyInv, ReportInCallback, [Next]_vars
  PROVE  ReportInCallback'
<1>1. CASE ~EngineStep
  BY <1>1, OthersLeaveTick DEF ReportInCallback, InTick, Holding
<1>2. CASE EngineStep
  BY <1>2
  DEF SafetyInv, CancelOffInTick, InTick, Holding, ReportInCallback, EngineStep,
      EngineWakes, EngineCancelled, Cancellable, EngineLocks, ExecutePrediction,
      PredictionsDone, NothingToExecute, GoOnToModels, ExecuteModel, TakeDecision,
      CallUser, UserReturns, LogPredictions, LogModels, LogCsv, EndTick,
      CountExecution, EnableCancel, calls
<1> QED
  BY <1>1, <1>2

\* A one-time run that has reported goes on to its end, not to another report.
LEMMA OnceKept ==
  ASSUME SafetyInv, ReportsOnce, [Next]_vars
  PROVE  ReportsOnce'
<1>1. ASSUME NEW a \in Apps, Call(a) \/ LockedCall(a) \/ CsvCall(a)
      PROVE  ReportsOnce'
  BY <1>1, CallsLeaveEngine DEF ReportsOnce
<1>2. ASSUME NEW b \in BOOLEAN, rtgde_start(b) \/ rtgde_stop(b)
      PROVE  ReportsOnce'
  BY <1>2 DEF ReportsOnce, rtgde_start, rtgde_stop, calls
<1>3. CASE MainStep
  BY <1>3, MainLeaves DEF ReportsOnce
<1>4. CASE EngineStep
  BY <1>4
  DEF ReportsOnce, EngineStep, EngineWakes, EngineCancelled, Cancellable, EngineLocks,
      ExecutePrediction, PredictionsDone, NothingToExecute, GoOnToModels,
      ExecuteModel, TakeDecision, CallUser, UserReturns, LogPredictions, LogModels,
      LogCsv, EndTick, CountExecution, EnableCancel, AfterTick, calls, outside, owner
<1>5. CASE UNCHANGED vars
  BY <1>5 DEF ReportsOnce, vars
<1> QED
  BY <1>1, <1>2, <1>3, <1>4, <1>5 DEF Next, Finished

LEMMA NextApiInv == ApiInv /\ [Next]_vars => ApiInv'
  BY NextSafetyInv, PrefixKept, ReportKept, OnceKept DEF ApiInv

LEMMA ApiInvariance == Spec => []ApiInv
  BY InitApiInv, NextApiInv, PTL DEF Spec
-------------------------------------------------------------------------------
(***************************************************************************)
(* The refinement.  What each call does to the names of the attached        *)
(* predictions.                                                             *)
(***************************************************************************)
LEMMA AttachBases ==
  ASSUME TypeOK, NEW p \in Predictions, predictions' = Append(predictions, NewEntry(p))
  PROVE  Bases' = Append(Bases, p)
<1>1. predictions \in Seq(Entries) /\ NewEntry(p) \in Entries
  BY DEF TypeOK, NewEntry, Entries
<1>2. predictions' \in Seq(Entries) /\ Len(predictions') = Len(predictions) + 1
      /\ \A i \in 1..Len(predictions') :
           predictions'[i] = IF i = Len(predictions) + 1 THEN NewEntry(p)
                             ELSE predictions[i]
  BY <1>1
<1>3. Bases' \in Seq(Predictions) /\ Len(Bases') = Len(predictions')
      /\ \A i \in 1..Len(predictions') : Bases'[i] = predictions'[i].base
  BY <1>2, BasesType DEF Bases
<1>4. Bases \in Seq(Predictions) /\ Len(Bases) = Len(predictions)
      /\ \A i \in 1..Len(predictions) : Bases[i] = predictions[i].base
  BY <1>1, BasesType DEF Bases
<1>5. NewEntry(p).base = p /\ Len(predictions) \in Nat
  BY <1>1 DEF NewEntry
<1>6. Append(Bases, p) \in Seq(Predictions)
      /\ Len(Append(Bases, p)) = Len(Bases) + 1
      /\ \A i \in 1 .. Len(Bases) + 1 :
           Append(Bases, p)[i] = IF i = Len(Bases) + 1 THEN p ELSE Bases[i]
  BY <1>4
<1>7. \A i \in 1..Len(Bases') : Bases'[i] = Append(Bases, p)[i]
  BY <1>2, <1>3, <1>4, <1>5, <1>6
<1> QED
  BY <1>2, <1>3, <1>4, <1>6, <1>7, SeqEqual

LEMMA DetachBases ==
  ASSUME TypeOK, NEW i \in 1..Len(predictions),
         predictions' = RemoveAt(predictions, i)
  PROVE  Bases' = RemoveAt(Bases, i)
<1>1. predictions \in Seq(Entries) /\ Len(predictions) \in Nat
  BY DEF TypeOK
<1>2. predictions' \in Seq(Entries) /\ Len(predictions') = Len(predictions) - 1
      /\ \A j \in 1 .. Len(predictions) - 1 :
           predictions'[j] = IF j < i THEN predictions[j] ELSE predictions[j + 1]
  BY <1>1, RemoveAtProperties
<1>3. Bases' \in Seq(Predictions) /\ Len(Bases') = Len(predictions')
      /\ \A j \in 1..Len(predictions') : Bases'[j] = predictions'[j].base
  BY <1>2, BasesType DEF Bases
<1>4. Bases \in Seq(Predictions) /\ Len(Bases) = Len(predictions)
      /\ \A j \in 1..Len(predictions) : Bases[j] = predictions[j].base
  BY <1>1, BasesType DEF Bases
<1>5. RemoveAt(Bases, i) \in Seq(Predictions)
      /\ Len(RemoveAt(Bases, i)) = Len(Bases) - 1
      /\ \A j \in 1 .. Len(Bases) - 1 :
           RemoveAt(Bases, i)[j] = IF j < i THEN Bases[j] ELSE Bases[j + 1]
  BY <1>4, RemoveAtProperties
<1>6. ASSUME NEW j \in 1..Len(Bases')
      PROVE  Bases'[j] = RemoveAt(Bases, i)[j]
  <2>1. j \in 1 .. Len(predictions) - 1 /\ j \in 1..Len(predictions')
        /\ j \in 1..Len(predictions) /\ j + 1 \in 1..Len(predictions)
        /\ j \in 1 .. Len(Bases) - 1
    BY <1>1, <1>2, <1>3, <1>4
  <2>2. CASE j < i
    <3>1. Bases'[j] = predictions[j].base /\ RemoveAt(Bases, i)[j] = Bases[j]
      BY <1>2, <1>3, <1>5, <2>1, <2>2
    <3> QED
      BY <1>4, <2>1, <3>1
  <2>3. CASE ~(j < i)
    <3>1. Bases'[j] = predictions[j + 1].base /\ RemoveAt(Bases, i)[j] = Bases[j + 1]
      BY <1>2, <1>3, <1>5, <2>1, <2>3
    <3> QED
      BY <1>4, <2>1, <3>1
  <2> QED
    BY <2>2, <2>3
<1> QED
  BY <1>2, <1>3, <1>4, <1>5, <1>6, SeqEqual

\* Where FlowgraphApi sees the flowgraph: the phase of the refinement mapping.
Phase ==
  IF main = "freed" THEN "down" ELSE IF ThreadGone THEN "idle" ELSE "running"

\* What FlowgraphApi sees of a step that it does not know of.
LEMMA Stutters ==
  ASSUME UNCHANGED <<Bases, models, Phase, one_time, reported, report>>
  PROVE  [Api!Next]_(Api!vars)
  BY DEF Api!vars, Phase

LEMMA CallsRefine ==
  ASSUME ApiInv, NEW a \in Apps, Call(a) \/ LockedCall(a) \/ CsvCall(a)
  PROVE  [Api!Next]_(Api!vars)
<1>1. /\ UNCHANGED <<Phase, one_time, reported, report>>
  BY CallsLeaveEngine DEF Phase, ThreadGone
<1>2. TypeOK /\ predictions \in Seq(Entries)
  BY DEF ApiInv, SafetyInv, TypeOK
<1>3. ASSUME call[a] # NoCall
      PROVE  call[a] \in Calls /\ Phase # "down"
  BY <1>2, <1>3 DEF ApiInv, SafetyInv, TypeOK, TeardownAlone, Phase
<1>4. CASE UNCHANGED <<predictions, models>>
  <2>1. UNCHANGED Bases
    BY <1>4 DEF Bases
  <2> QED
    BY <1>1, <1>4, <2>1, Stutters
<1>5. CASE /\ call[a] # NoCall /\ call[a].op = "attach_prediction"
           /\ predictions' = Append(predictions, NewEntry(call[a].arg))
           /\ UNCHANGED models
  <2>1. call[a].arg \in Predictions
    BY <1>3, <1>5 DEF Calls
  <2>2. Bases' = Append(Bases, call[a].arg)
    BY <1>2, <1>5, <2>1, AttachBases
  <2>3. Api!AttachPrediction(call[a].arg)
    BY <1>1, <1>3, <1>5, <2>2 DEF Api!AttachPrediction, Phase
  <2> QED
    BY <2>1, <2>3 DEF Api!Next
<1>6. ASSUME call[a] # NoCall, call[a].op = "detach_prediction", UNCHANGED models,
             NEW i \in 1..Len(predictions),
             predictions[i].base = call[a].arg,
             \A j \in 1 .. i - 1 : predictions[j].base # call[a].arg,
             predictions' = RemoveAt(predictions, i)
      PROVE  [Api!Next]_(Api!vars)
  <2>1. call[a].arg \in Predictions
    BY <1>3, <1>6 DEF Calls
  <2>2. Bases' = RemoveAt(Bases, i)
    BY <1>2, <1>6, DetachBases
  <2>3. Len(Bases) = Len(predictions)
        /\ \A j \in 1..Len(predictions) : Bases[j] = predictions[j].base
    BY <1>2, BasesType DEF Bases
  <2>4. i \in 1..Len(Bases) /\ Bases[i] = call[a].arg
        /\ \A j \in 1 .. i - 1 : Bases[j] # call[a].arg
    BY <1>2, <1>6, <2>3
  <2>5. Api!WithoutFirst(Bases, call[a].arg, Bases')
    BY <2>2, <2>4 DEF Api!WithoutFirst, RemoveAt, Api!RemoveAt
  <2>6. Api!DetachPrediction(call[a].arg)
    BY <1>1, <1>3, <1>6, <2>5 DEF Api!DetachPrediction, Phase
  <2> QED
    BY <2>1, <2>6 DEF Api!Next
<1>7. CASE /\ call[a] # NoCall /\ call[a].op = "attach_model"
           /\ models' = Append(models, call[a].arg)
           /\ UNCHANGED predictions
  <2>1. call[a].arg \in Models /\ UNCHANGED Bases
    BY <1>3, <1>7 DEF Calls, Bases
  <2>2. Api!AttachModel(call[a].arg)
    BY <1>1, <1>3, <1>7, <2>1 DEF Api!AttachModel, Phase
  <2> QED
    BY <2>1, <2>2 DEF Api!Next
<1>8. ASSUME call[a] # NoCall, call[a].op = "detach_model", UNCHANGED predictions,
             NEW i \in 1..Len(models),
             models[i] = call[a].arg,
             \A j \in 1 .. i - 1 : models[j] # call[a].arg,
             models' = RemoveAt(models, i)
      PROVE  [Api!Next]_(Api!vars)
  <2>1. call[a].arg \in Models /\ UNCHANGED Bases
    BY <1>3, <1>8 DEF Calls, Bases
  <2>2. Api!WithoutFirst(models, call[a].arg, models')
    BY <1>8 DEF Api!WithoutFirst, RemoveAt, Api!RemoveAt
  <2>3. Api!DetachModel(call[a].arg)
    BY <1>1, <1>3, <1>8, <2>1, <2>2 DEF Api!DetachModel, Phase
  <2> QED
    BY <2>1, <2>3 DEF Api!Next
<1>9. CASE flowgraph_attach_prediction(a)
  BY <1>4, <1>5, <1>9 DEF flowgraph_attach_prediction
<1>10. CASE flowgraph_detach_prediction(a)
  BY <1>4, <1>6, <1>10 DEF flowgraph_detach_prediction
<1>11. CASE flowgraph_attach_model(a)
  BY <1>4, <1>7, <1>11 DEF flowgraph_attach_model
<1>12. CASE flowgraph_detach_model(a)
  BY <1>4, <1>8, <1>12 DEF flowgraph_detach_model
<1>13. CASE Call(a) \/ CsvCall(a)
  BY <1>4, <1>13 DEF Call, CsvCall, FreeCsvFormat, SetCsvFormat, config
<1> QED
  BY <1>9, <1>10, <1>11, <1>12, <1>13 DEF LockedCall

LEMMA StartStopRefine ==
  ASSUME ApiInv, NEW b \in BOOLEAN, rtgde_start(b) \/ rtgde_stop(b)
  PROVE  [Api!Next]_(Api!vars)
<1>1. CASE rtgde_start(b)
  <2>1. Phase = "idle" /\ Phase' \in {"idle", "running"}
    BY <1>1 DEF rtgde_start, Phase, ThreadGone
  <2>2. UNCHANGED <<Bases, models, report>> /\ reported' = FALSE /\ one_time' = b
    BY <1>1 DEF rtgde_start, config, Bases
  <2>3. Api!Start
    BY <2>1, <2>2 DEF Api!Start, Phase
  <2> QED
    BY <2>3 DEF Api!Next
<1>2. CASE rtgde_stop(b)
  <2>1. UNCHANGED <<Bases, models, Phase, one_time, reported, report>>
    BY <1>2 DEF rtgde_stop, config, calls, Bases, Phase, ThreadGone
  <2> QED
    BY <2>1, Stutters
<1> QED
  BY <1>1, <1>2

LEMMA MainRefines ==
  ASSUME ApiInv, MainStep
  PROVE  [Api!Next]_(Api!vars)
<1>1. CASE WaitFirst \/ CancelThread \/ JoinThread
  <2>1. UNCHANGED <<Bases, models, Phase, one_time, reported, report>>
    BY <1>1
    DEF WaitFirst, CancelThread, JoinThread, Joinable, AfterStop, config, calls, Bases,
        Phase, ThreadGone
  <2> QED
    BY <2>1, Stutters
<1>2. CASE FreeFlowgraph
  <2>1. Phase = "idle" /\ Phase' = "down"
    BY <1>2 DEF FreeFlowgraph, Phase, ApiInv, SafetyInv, TeardownAlone
  <2>2. Bases' = << >> /\ models' = << >> /\ UNCHANGED <<one_time, reported, report>>
    BY <1>2 DEF FreeFlowgraph, calls, Bases
  <2>3. Api!Teardown
    BY <2>1, <2>2 DEF Api!Teardown, Phase
  <2> QED
    BY <2>3 DEF Api!Next
<1> QED
  BY <1>1, <1>2 DEF MainStep

LEMMA EngineRefines ==
  ASSUME ApiInv, EngineStep
  PROVE  [Api!Next]_(Api!vars)
<1>1. Phase = "running" /\ UNCHANGED <<main, one_time>> /\ main # "freed"
  BY EngineLeaves DEF ApiInv, SafetyInv, TeardownAlone, Phase
<1>2. CASE \/ EngineWakes \/ EngineLocks \/ NothingToExecute \/ GoOnToModels
           \/ ExecuteModel \/ TakeDecision \/ LogPredictions \/ LogModels
           \/ CountExecution
  <2>1. UNCHANGED <<Bases, models, reported, report>> /\ engine' \notin {"absent", "exited"}
    BY <1>1, <1>2
    DEF EngineWakes, EngineLocks, NothingToExecute, PredictionsDone, GoOnToModels,
        ExecuteModel, TakeDecision, LogPredictions, LogModels, LogCsv, CountExecution,
        config, calls, Bases
  <2> QED
    BY <1>1, <2>1, Stutters DEF Phase, ThreadGone
<1>3. CASE ExecutePrediction
  <2>1. UNCHANGED <<Bases, models, reported, report, engine>>
    BY <1>3, ExecutePredictionBases DEF ApiInv, SafetyInv, ExecutePrediction, calls
  <2> QED
    BY <1>1, <2>1, Stutters DEF Phase, ThreadGone
<1>4. CASE EndTick
  <2>1. predictions \in Seq(Entries)
    BY DEF ApiInv, SafetyInv, TypeOK
  <2>2. UNCHANGED <<Bases, models, reported, report>> /\ engine' = "count"
    BY <1>4, <2>1 DEF EndTick, Cleared, calls, Bases
  <2> QED
    BY <1>1, <2>2, Stutters DEF Phase, ThreadGone
<1>5. CASE EngineCancelled \/ EnableCancel
  <2>1. UNCHANGED <<Bases, models, reported, report>> /\ report = NoReport
    BY <1>5 DEF EngineCancelled, Cancellable, EnableCancel, config, calls, Bases, ApiInv,
       SafetyInv, CancelOffInTick, InTick, Holding, ReportInCallback
  <2>2. CASE engine' = "exited"
    <3>1. Phase' = "idle"
      BY <1>1, <2>2 DEF Phase, ThreadGone
    <3>2. Api!Halt
      BY <1>1, <2>1, <3>1 DEF Api!Halt, Phase, NoReport, Api!NoReport
    <3> QED
      BY <3>2 DEF Api!Next
  <2>3. CASE engine' = "sleep"
    BY <1>1, <2>1, <2>3, Stutters DEF Phase, ThreadGone
  <2> QED
    BY <1>5, <2>2, <2>3 DEF EngineCancelled, EnableCancel, AfterTick
<1>6. CASE CallUser
  <2>1. /\ ran = Bases /\ Bases # << >> /\ executed = models
        /\ report = NoReport
        /\ ~(one_time /\ reported)
        /\ di \subseteq 1..Len(models) /\ dim_sel \in di \cup {0}
    BY <1>6 DEF CallUser, ApiInv, ExecutesPrefix, ReportInCallback, ReportsOnce,
       SafetyInv, TypeOK
  <2>2. /\ report' = [ran |-> Bases, executed |-> models,
                      offered |-> di, chosen |-> dim_sel]
        /\ reported' = TRUE
        /\ UNCHANGED <<Bases, models>>
        /\ engine' = "user"
    BY <1>6, <2>1 DEF CallUser, config, Bases
  <2>3. Phase' = Phase
    BY <1>1, <2>2 DEF Phase, ThreadGone
  <2>4. Api!Decide
    BY <1>1, <2>1, <2>2, <2>3 DEF Api!Decide, Phase, NoReport, Api!NoReport
  <2> QED
    BY <2>4 DEF Api!Next
<1>7. CASE UserReturns
  <2>1. /\ UNCHANGED <<Bases, models, reported>>
        /\ engine' \in {"csv_prediction", "stuck"}
        /\ report' \in {report, NoReport}
    BY <1>7 DEF UserReturns, config, Bases
  <2>2. Phase' = Phase
    BY <1>1, <2>1 DEF Phase, ThreadGone
  <2>3. CASE report' = report
    BY <1>1, <2>1, <2>2, <2>3, Stutters
  <2>4. CASE report # NoReport /\ report' = NoReport
    <3>1. Api!Acknowledge
      BY <1>1, <2>1, <2>2, <2>4 DEF Api!Acknowledge, Phase, NoReport, Api!NoReport
    <3> QED
      BY <3>1 DEF Api!Next
  <2> QED
    BY <2>1, <2>3, <2>4
<1> QED
  BY <1>2, <1>3, <1>4, <1>5, <1>6, <1>7 DEF EngineStep

\* Every report that rtgde.c makes is one that FlowgraphApi allows: all the
\* attached predictions and then all the attached models were executed, in
\* order and from one configuration, by a flowgraph that is running, and at
\* most once in a one-time run, whatever the Environment does.
THEOREM ImplementsApi == Spec => ApiSpec
<1>1. Init => Api!Init
  BY DEF Init, Api!Init, Bases, ThreadGone, NoReport, Api!NoReport
<1>2. ApiInv /\ [Next]_vars => [Api!Next]_(Api!vars)
  <2> SUFFICES ASSUME ApiInv, [Next]_vars
               PROVE  [Api!Next]_(Api!vars)
    OBVIOUS
  <2>1. CASE UNCHANGED vars
    <3>1. UNCHANGED <<Bases, models, Phase, one_time, reported, report>>
      BY <2>1 DEF vars, Bases, Phase, ThreadGone
    <3> QED
      BY <3>1, Stutters
  <2> QED
    BY <2>1, CallsRefine, StartStopRefine, MainRefines, EngineRefines DEF Next, Finished
<1> QED
  BY <1>1, <1>2, ApiInvariance, PTL DEF Spec, ApiSpec, Api!Spec

--------------------------------------------------------------------------------
(***************************************************************************)
(* The contract: the ticks of a program release what they took, it does    *)
(* not crash, and a one-time run is served.                                *)
(***************************************************************************)

(***************************************************************************)
(* Without run_dry the engine always finds a prediction: there are more of  *)
(* them than calls of flowgraph_detach_prediction under way.                *)
(***************************************************************************)
Detaching == Pending("detach_prediction")

NeverDry == ~ThreadGone => Cardinality(Detaching) < Len(predictions)

\* A thread of the application enters or leaves the set of those that detach.
LEMMA DetachingCount ==
  ASSUME NEW a \in Apps, \A b \in Apps \ {a} : call'[b] = call[b]
  PROVE  /\ Cardinality(Detaching) \in Nat /\ Cardinality(Detaching') \in Nat
         /\ a \in Detaching' => Cardinality(Detaching') <= Cardinality(Detaching) + 1
         /\ a \notin Detaching' =>
              Cardinality(Detaching') =
                IF a \in Detaching THEN Cardinality(Detaching) - 1
                ELSE Cardinality(Detaching)
<1>1. IsFiniteSet(Detaching) /\ IsFiniteSet(Detaching')
  <2>1. Detaching \subseteq Apps /\ Detaching' \subseteq Apps
    BY DEF Detaching, Pending
  <2> QED
    BY <2>1, AppsAssumption, FS_Subset
<1>2. CASE a \in Detaching'
  <2>1. Detaching' = Detaching \cup {a}
    BY <1>2 DEF Detaching, Pending
  <2> QED
    BY <1>1, <1>2, <2>1, FS_AddElement, FS_CardinalityType
<1>3. CASE a \notin Detaching'
  <2>1. Detaching' = Detaching \ {a}
    BY <1>3 DEF Detaching, Pending
  <2> QED
    BY <1>1, <1>3, <2>1, FS_RemoveElement, FS_CardinalityType
<1> QED
  BY <1>2, <1>3

\* The first half of a CSV setter leaves the call in its second half.
LEMMA FreeCsvFormatCall ==
  ASSUME TypeOK, NEW a \in Apps, FreeCsvFormat(a)
  PROVE  /\ \A b \in Apps \ {a} : call'[b] = call[b]
         /\ call'[a] \in Calls
         /\ call'[a].op = "set_csv" /\ call'[a].arg = call[a].arg
<1>1. call \in [Apps -> Calls \cup {NoCall}]
      /\ call[a] \in Calls /\ call[a].op = "free_csv"
  BY DEF TypeOK, FreeCsvFormat
<1>2. /\ [call[a] EXCEPT !.op = "set_csv"] \in Calls
      /\ [call[a] EXCEPT !.op = "set_csv"].op = "set_csv"
      /\ [call[a] EXCEPT !.op = "set_csv"].arg = call[a].arg
  BY <1>1 DEF Calls
<1>3. call' = [call EXCEPT ![a] = [call[a] EXCEPT !.op = "set_csv"]]
  BY DEF FreeCsvFormat
<1> QED
  BY <1>1, <1>2, <1>3

LEMMA NeverDryKeptByCalls ==
  ASSUME SafetyInv, NeverDry, "run_dry" \notin Environment,
         NEW a \in Apps, Call(a) \/ LockedCall(a) \/ CsvCall(a)
  PROVE  NeverDry'
<1>1. UNCHANGED engine
  BY CallsLeaveEngine
<1>2. SUFFICES ASSUME ~ThreadGone
               PROVE  Cardinality(Detaching') < Len(predictions')
  BY <1>1 DEF NeverDry, ThreadGone
<1>3. call \in [Apps -> Calls \cup {NoCall}] /\ predictions \in Seq(Entries)
      /\ Len(predictions) \in Nat
  BY DEF SafetyInv, TypeOK
<1>4. Cardinality(Detaching) < Len(predictions)
  BY <1>2 DEF NeverDry
<1>5. CASE Call(a)
  <2>1. PICK c \in Calls : MayCall(c) /\ call' = [call EXCEPT ![a] = c]
    BY <1>5 DEF Call
  <2>2. call[a] = NoCall /\ predictions' = predictions
        /\ \A b \in Apps \ {a} : call'[b] = call[b]
    BY <1>3, <1>5, <2>1 DEF Call, config
  <2>3. a \notin Detaching
    BY <2>2 DEF Detaching, Pending
  <2>4. CASE a \in Detaching'
    <3>1. c.op = "detach_prediction"
      BY <1>3, <2>1, <2>4 DEF Detaching, Pending
    <3>2. Len(predictions) > Cardinality(Detaching) + 1
      BY <1>2, <2>1, <3>1 DEF MayCall, Detaching
    <3> QED
      BY <1>3, <2>2, <2>4, <3>2, DetachingCount
  <2> QED
    BY <1>4, <2>2, <2>3, <2>4, DetachingCount
<1>6. CASE LockedCall(a) \/ CsvCall(a)
  <2>1. /\ \A b \in Apps \ {a} : call'[b] = call[b]
        /\ call'[a] = NoCall \/ call'[a].op = "set_csv"
    <3>1. CASE FreeCsvFormat(a)
      BY <3>1, FreeCsvFormatCall DEF SafetyInv
    <3>2. CASE LockedCall(a) \/ SetCsvFormat(a)
      BY <1>3, <3>2
      DEF LockedCall, flowgraph_attach_prediction, flowgraph_detach_prediction,
          flowgraph_attach_model, flowgraph_detach_model, SetCsvFormat, Returns
    <3> QED
      BY <1>6, <3>1, <3>2 DEF CsvCall
  <2>2. a \notin Detaching'
    BY <2>1 DEF Detaching, Pending
  <2>3. CASE flowgraph_detach_prediction(a)
    <3>1. a \in Detaching
      BY <2>3 DEF flowgraph_detach_prediction, Detaching, Pending
    <3>2. Len(predictions') \in {Len(predictions) - 1, Len(predictions)}
      BY <1>3, <2>3, RemoveAtProperties DEF flowgraph_detach_prediction
    <3> QED
      BY <1>3, <1>4, <2>1, <2>2, <3>1, <3>2, DetachingCount
  <2>4. CASE ~flowgraph_detach_prediction(a)
    <3>1. a \notin Detaching
      BY <1>6, <2>4
      DEF LockedCall, CsvCall, flowgraph_attach_prediction, flowgraph_attach_model,
          flowgraph_detach_model, FreeCsvFormat, SetCsvFormat, Detaching, Pending
    <3>2. Len(predictions') \in {Len(predictions), Len(predictions) + 1}
      BY <1>3, <1>6, <2>4
      DEF LockedCall, CsvCall, flowgraph_attach_prediction, flowgraph_attach_model,
          flowgraph_detach_model, FreeCsvFormat, SetCsvFormat, config
    <3> QED
      BY <1>3, <1>4, <2>1, <2>2, <3>1, <3>2, DetachingCount
  <2> QED
    BY <2>3, <2>4
<1> QED
  BY <1>5, <1>6

LEMMA NeverDryKept ==
  ASSUME SafetyInv, NeverDry, "run_dry" \notin Environment, [Next]_vars
  PROVE  NeverDry'
<1>1. ASSUME NEW a \in Apps, Call(a) \/ LockedCall(a) \/ CsvCall(a)
      PROVE  NeverDry'
  BY <1>1, NeverDryKeptByCalls
<1>2. ASSUME NEW b \in BOOLEAN, rtgde_start(b) \/ rtgde_stop(b)
      PROVE  NeverDry'
  <2>1. UNCHANGED <<predictions, Detaching>>
    BY <1>2 DEF rtgde_start, rtgde_stop, config, calls, Detaching, Pending
  <2> QED
    BY <1>2, <2>1 DEF NeverDry, rtgde_start, rtgde_stop, ThreadGone, Detaching
<1>3. CASE MainStep
  <2>1. UNCHANGED Detaching
    BY <1>3, MainLeaves DEF Detaching, Pending
  <2> QED
    BY <1>3, <2>1
    DEF NeverDry, MainStep, WaitFirst, CancelThread, JoinThread, Joinable,
        FreeFlowgraph, config, ThreadGone, SafetyInv, TeardownAlone
<1>4. CASE EngineStep
  <2>1. UNCHANGED Detaching /\ ~ThreadGone
    BY <1>4, EngineLeaves DEF Detaching, Pending
  <2>2. predictions \in Seq(Entries)
    BY DEF SafetyInv, TypeOK
  <2>3. Len(predictions') = Len(predictions)
    <3>1. CASE ExecutePrediction
      BY <2>2, <3>1 DEF ExecutePrediction
    <3>2. CASE EndTick
      BY <2>2, <3>2 DEF EndTick
    <3> QED
      BY <1>4, <3>1, <3>2
      DEF EngineStep, EngineWakes, EngineCancelled, EngineLocks, NothingToExecute,
          PredictionsDone, GoOnToModels, ExecuteModel, TakeDecision, CallUser,
          UserReturns, LogPredictions, LogModels, LogCsv, CountExecution, EnableCancel,
          config
  <2> QED
    BY <2>1, <2>3 DEF NeverDry
<1>5. CASE UNCHANGED vars
  BY <1>5 DEF vars, NeverDry, ThreadGone, Detaching, Pending
<1> QED
  BY <1>1, <1>2, <1>3, <1>4, <1>5 DEF Next, Finished

\* An engine that finds a prediction does not return early.
LEMMA SomethingToExecute ==
  ASSUME SafetyInv, NeverDry
  PROVE  ~NothingToExecute
<1> SUFFICES ASSUME NothingToExecute
             PROVE  FALSE
  OBVIOUS
<1>1. ~ThreadGone /\ Len(ran) >= Len(predictions) /\ Len(ran) = 0
  BY DEF NothingToExecute, PredictionsDone, ThreadGone
<1>2. Cardinality(Detaching) \in Nat
  <2>1. Detaching \subseteq Apps
    BY DEF Detaching, Pending
  <2> QED
    BY <2>1, AppsAssumption, FS_Subset, FS_CardinalityType
<1>3. Len(predictions) \in Nat
  BY DEF SafetyInv, TypeOK
<1> QED
  BY <1>1, <1>2, <1>3 DEF NeverDry

LEMMA NeverDryInvariance ==
  ASSUME "run_dry" \notin Environment
  PROVE  Spec => [](ApiInv /\ NeverDry)
<1>1. Init => NeverDry
  BY DEF Init, NeverDry, ThreadGone
<1>2. ApiInv /\ NeverDry /\ [Next]_vars => NeverDry'
  BY NeverDryKept DEF ApiInv
<1> QED
  BY <1>1, <1>2, InitApiInv, NextApiInv, PTL DEF Spec

(***************************************************************************)
(* The mutex and the decision input.                                        *)
(***************************************************************************)
Released == ~InTick /\ engine # "lock" => config_mutex # Engine /\ ~di_live

LEMMA ReleasedKept ==
  ASSUME SafetyInv, NeverDry, Released, [Next]_vars
  PROVE  Released'
<1> USE DEF Released, InTick, Holding
<1>1. ASSUME NEW a \in Apps, Call(a) \/ LockedCall(a) \/ CsvCall(a)
      PROVE  Released'
  <2>1. UNCHANGED di_live
    BY <1>1
    DEF Call, LockedCall, CsvCall, flowgraph_attach_prediction,
        flowgraph_detach_prediction, flowgraph_attach_model, flowgraph_detach_model,
        FreeCsvFormat, SetCsvFormat, Returns, tick
  <2> QED
    BY <1>1, <2>1, CallsLeaveEngine
<1>2. ASSUME NEW b \in BOOLEAN, rtgde_start(b) \/ rtgde_stop(b)
      PROVE  Released'
  BY <1>2 DEF rtgde_start, rtgde_stop, tick
<1>3. CASE MainStep
  BY <1>3, ThreadsAssumption
  DEF MainStep, WaitFirst, CancelThread, JoinThread, FreeFlowgraph, tick
<1>4. CASE EngineStep
  BY <1>4, SomethingToExecute, ThreadsAssumption
  DEF SafetyInv, CancelOffInTick, EngineStep, EngineWakes, EngineCancelled, Cancellable,
      EngineLocks, ExecutePrediction, PredictionsDone, GoOnToModels, ExecuteModel,
      TakeDecision, CallUser, UserReturns, LogPredictions, LogModels, LogCsv, EndTick,
      MutexAfterTick, CountExecution, EnableCancel, AfterTick, tick
<1>5. CASE UNCHANGED vars
  BY <1>5 DEF vars
<1> QED
  BY <1>1, <1>2, <1>3, <1>4, <1>5 DEF Next, Finished

\* Unless the predictions run out, execute_flow_graph releases config_mutex, the
\* decision input and the lists on every way out, wherever the thread is
\* cancelled and whatever else the program does.
THEOREM TicksRelease ==
  ASSUME "run_dry" \notin Environment
  PROVE  Spec => []TickReleases
<1>1. Init => Released
  BY ThreadsAssumption DEF Init, Released
<1>2. ApiInv /\ NeverDry /\ Released /\ [Next]_vars => Released'
  BY ReleasedKept DEF ApiInv
<1>3. ApiInv /\ Released => TickReleases
  BY DEF ApiInv, SafetyInv, Released, TickReleases
<1> QED
  BY <1>1, <1>2, <1>3, NeverDryInvariance, PTL DEF Spec
-------------------------------------------------------------------------------
(***************************************************************************)
(* No crash.  The lists that a tick copies are there.                       *)
(***************************************************************************)
ListsPresent ==
  InTick => \A i \in 1..Len(predictions) :
              engine # "predict" \/ i <= Len(ran)
                => predictions[i].last_prediction = "list"

LEMMA ListsPresentKept ==
  ASSUME ApiInv, ListsPresent, [Next]_vars, "null_list" \notin Environment
  PROVE  ListsPresent'
<1> USE DEF InTick, Holding
<1>1. predictions \in Seq(Entries) /\ Len(predictions) \in Nat
      /\ ran \in Seq(Predictions) /\ Len(ran) \in Nat
  BY DEF ApiInv, SafetyInv, TypeOK
<1>2. CASE ~EngineStep
  BY <1>2, OthersLeaveTick DEF ApiInv, ListsPresent
<1>3. CASE EngineLocks
  <2>1. Len(ran') = 0 /\ engine' = "predict" /\ Len(predictions') \in Nat
    BY <1>1, <1>3 DEF EngineLocks, ApiInv, ExecutesPrefix, tick, config
  <2> QED
    BY <2>1 DEF ListsPresent
<1>4. CASE ExecutePrediction
  <2>1. /\ engine = "predict" /\ engine' = "predict"
        /\ Len(ran) < Len(predictions) /\ Len(ran') = Len(ran) + 1
        /\ predictions' =
             [predictions EXCEPT
                ![Len(ran) + 1] = [base |-> @.base, last_prediction |-> "list"]]
    BY <1>1, <1>4 DEF ExecutePrediction
  <2>2. Len(predictions') = Len(predictions)
        /\ \A j \in 1..Len(predictions) :
             predictions'[j].last_prediction =
               IF j = Len(ran) + 1 THEN "list" ELSE predictions[j].last_prediction
    BY <1>1, <2>1
  <2>3. \A j \in 1..Len(predictions) :
          j <= Len(ran) => predictions[j].last_prediction = "list"
    BY <2>1 DEF ListsPresent
  <2> QED
    BY <1>1, <2>1, <2>2, <2>3 DEF ListsPresent
<1>5. CASE NothingToExecute \/ EngineWakes \/ EngineCancelled
  BY <1>5 DEF NothingToExecute, EngineWakes, EngineCancelled, ListsPresent
<1>6. CASE GoOnToModels
  <2>1. /\ engine = "predict" /\ engine' = "model" /\ Len(ran) >= Len(predictions)
        /\ UNCHANGED <<predictions, ran>>
    BY <1>6 DEF GoOnToModels, PredictionsDone, tick, config
  <2> QED
    BY <1>1, <2>1 DEF ListsPresent
<1>7. CASE ExecuteModel \/ TakeDecision \/ CallUser \/ UserReturns \/ LogPredictions
           \/ LogModels
  BY <1>7
  DEF ListsPresent, ExecuteModel, TakeDecision, CallUser, UserReturns, LogPredictions,
      LogModels, LogCsv, config
<1>8. CASE EndTick \/ CountExecution \/ EnableCancel
  BY <1>8 DEF ListsPresent, EndTick, CountExecution, EnableCancel, AfterTick
<1> QED
  BY <1>2, <1>3, <1>4, <1>5, <1>6, <1>7, <1>8 DEF EngineStep

(***************************************************************************)
(* A format that was freed belongs to a setter under way, and there is no   *)
(* setter under way when there is a thread.                                 *)
(***************************************************************************)
Setting(o) ==
  \E a \in Apps : call[a] # NoCall /\ call[a].op = "set_csv" /\ call[a].arg = o

DanglingIsSet == \A o \in Outputs : csv[o] = "dangling" => Setting(o)

FormatsLeftAlone ==
  ~ThreadGone => \A a \in Apps : call[a] # NoCall => call[a].op \notin {"free_csv", "set_csv"}

LEMMA FormatsKept ==
  ASSUME SafetyInv, DanglingIsSet, FormatsLeftAlone, "csv_live" \notin Environment,
         [Next]_vars
  PROVE  DanglingIsSet' /\ FormatsLeftAlone'
<1>1. TypeOK /\ call \in [Apps -> Calls \cup {NoCall}]
      /\ csv \in [Outputs -> {"null", "set", "dangling"}]
  BY DEF SafetyInv, TypeOK
<1>2. ASSUME NEW a \in Apps, Call(a)
      PROVE  DanglingIsSet' /\ FormatsLeftAlone'
  <2>1. PICK c \in Calls : MayCall(c) /\ call' = [call EXCEPT ![a] = c]
    BY <1>2 DEF Call
  <2>2. UNCHANGED <<csv, engine>> /\ call[a] = NoCall
    BY <1>2 DEF Call
  <2>3. \A b \in Apps \ {a} : call'[b] = call[b]
    BY <1>1, <2>1
  <2>4. call'[a] = c
    BY <1>1, <2>1
  <2>5. DanglingIsSet'
    BY <2>2, <2>3 DEF DanglingIsSet, Setting
  <2>6. ~ThreadGone => c.op \notin {"free_csv", "set_csv"}
    BY <2>1 DEF MayCall
  <2> QED
    BY <2>2, <2>3, <2>4, <2>5, <2>6 DEF FormatsLeftAlone, ThreadGone
<1>3. ASSUME NEW a \in Apps, LockedCall(a)
      PROVE  DanglingIsSet' /\ FormatsLeftAlone'
  <2>1. /\ UNCHANGED <<csv, engine>>
        /\ call' = [call EXCEPT ![a] = NoCall]
        /\ call[a].op # "set_csv"
    BY <1>3
    DEF LockedCall, flowgraph_attach_prediction, flowgraph_detach_prediction,
        flowgraph_attach_model, flowgraph_detach_model, Returns
  <2>2. \A b \in Apps \ {a} : call'[b] = call[b]
    BY <1>1, <2>1
  <2>3. call'[a] = NoCall
    BY <1>1, <2>1
  <2> QED
    BY <2>1, <2>2, <2>3 DEF DanglingIsSet, Setting, FormatsLeftAlone, ThreadGone
<1>4. ASSUME NEW a \in Apps, FreeCsvFormat(a)
      PROVE  DanglingIsSet' /\ FormatsLeftAlone'
  <2>1. /\ \A b \in Apps \ {a} : call'[b] = call[b]
        /\ call'[a].op = "set_csv" /\ call'[a].arg = call[a].arg
        /\ call[a] # NoCall /\ call[a].op = "free_csv" /\ UNCHANGED engine
    BY <1>1, <1>4, FreeCsvFormatCall DEF FreeCsvFormat
  <2>2. ThreadGone
    BY <2>1 DEF FormatsLeftAlone
  <2>3. \A o \in Outputs : o # call[a].arg => csv'[o] = csv[o]
    BY <1>1, <1>4 DEF FreeCsvFormat
  <2>4. call'[a] # NoCall
    BY <1>1, <1>4, FreeCsvFormatCall, NoCallAssumption
  <2>5. ASSUME NEW o \in Outputs, csv'[o] = "dangling"
        PROVE  Setting(o)'
    <3>1. CASE o = call[a].arg
      BY <2>1, <2>4, <3>1 DEF Setting
    <3>2. CASE o # call[a].arg
      <4>1. PICK b \in Apps :
              call[b] # NoCall /\ call[b].op = "set_csv" /\ call[b].arg = o
        BY <2>3, <2>5, <3>2 DEF DanglingIsSet, Setting
      <4>2. call'[b] = call[b]
        BY <2>1, <4>1
      <4> QED
        BY <4>1, <4>2 DEF Setting
    <3> QED
      BY <3>1, <3>2
  <2> QED
    BY <2>1, <2>2, <2>5 DEF DanglingIsSet, FormatsLeftAlone, ThreadGone
<1>5. ASSUME NEW a \in Apps, SetCsvFormat(a)
      PROVE  DanglingIsSet' /\ FormatsLeftAlone'
  <2>1. /\ call' = [call EXCEPT ![a] = NoCall] /\ UNCHANGED engine
        /\ call[a] # NoCall /\ call[a].op = "set_csv"
    BY <1>5 DEF SetCsvFormat, Returns
  <2>2. \A b \in Apps \ {a} : call'[b] = call[b]
    BY <1>1, <2>1
  <2>3. call'[a] = NoCall
    BY <1>1, <2>1
  <2>4. \A o \in Outputs :
          csv'[o] = "dangling" => o # call[a].arg /\ csv[o] = "dangling"
    BY <1>1, <1>5 DEF SetCsvFormat
  <2>5. DanglingIsSet'
    BY <2>2, <2>4 DEF DanglingIsSet, Setting
  <2> QED
    BY <2>1, <2>2, <2>3, <2>5 DEF FormatsLeftAlone, ThreadGone
<1>6. ASSUME NEW b \in BOOLEAN, rtgde_start(b) \/ rtgde_stop(b)
      PROVE  DanglingIsSet' /\ FormatsLeftAlone'
  <2>1. UNCHANGED <<csv, call>>
    BY <1>6 DEF rtgde_start, rtgde_stop
  <2>2. DanglingIsSet'
    BY <2>1 DEF DanglingIsSet, Setting
  <2>3. CASE rtgde_start(b)
    <3>1. Pending("free_csv") \cup Pending("set_csv") = {}
      BY <2>3 DEF rtgde_start
    <3>2. FormatsLeftAlone'
      BY <2>1, <3>1 DEF FormatsLeftAlone, Pending
    <3> QED
      BY <2>2, <3>2
  <2>4. CASE rtgde_stop(b)
    BY <2>1, <2>2, <2>4 DEF rtgde_stop, FormatsLeftAlone, ThreadGone
  <2> QED
    BY <1>6, <2>3, <2>4
<1>7. CASE MainStep \/ EngineStep
  <2>1. UNCHANGED <<csv, call>> /\ (ThreadGone => ThreadGone')
    BY <1>7, EngineLeaves
    DEF MainStep, WaitFirst, CancelThread, JoinThread, Joinable, FreeFlowgraph,
        EngineStep, EngineWakes, EngineCancelled, EngineLocks, ExecutePrediction,
        PredictionsDone, NothingToExecute, GoOnToModels, ExecuteModel, TakeDecision,
        CallUser, UserReturns, LogPredictions, LogModels, LogCsv, EndTick,
        CountExecution, EnableCancel, outside, ThreadGone
  <2> QED
    BY <2>1 DEF DanglingIsSet, Setting, FormatsLeftAlone
<1>8. CASE UNCHANGED vars
  BY <1>8 DEF vars, DanglingIsSet, Setting, FormatsLeftAlone, ThreadGone
<1> QED
  BY <1>2, <1>3, <1>4, <1>5, <1>6, <1>7, <1>8 DEF Next, Finished, CsvCall

\* rtgde_stop finds a thread to cancel.
ThreadToStop == main \in {"wait_first", "cancel"} => engine # "absent"

LEMMA ThreadToStopKept ==
  ASSUME ThreadToStop, "unstarted" \notin Environment, [Next]_vars
  PROVE  ThreadToStop'
<1>1. ASSUME NEW a \in Apps, Call(a) \/ LockedCall(a) \/ CsvCall(a)
      PROVE  ThreadToStop'
  BY <1>1, CallsLeaveEngine DEF ThreadToStop
<1>2. ASSUME NEW b \in BOOLEAN, rtgde_start(b) \/ rtgde_stop(b)
      PROVE  ThreadToStop'
  BY <1>2 DEF ThreadToStop, rtgde_start, rtgde_stop
<1>3. CASE MainStep
  BY <1>3
  DEF ThreadToStop, MainStep, WaitFirst, CancelThread, JoinThread, Joinable,
      FreeFlowgraph, AfterStop
<1>4. CASE EngineStep
  BY <1>4, EngineLeaves
  DEF ThreadToStop, EngineStep, EngineWakes, EngineCancelled, EngineLocks,
      ExecutePrediction, PredictionsDone, NothingToExecute, GoOnToModels, ExecuteModel,
      TakeDecision, CallUser, UserReturns, LogPredictions, LogModels, LogCsv, EndTick,
      CountExecution, EnableCancel, AfterTick
<1>5. CASE UNCHANGED vars
  BY <1>5 DEF vars, ThreadToStop
<1> QED
  BY <1>1, <1>2, <1>3, <1>4, <1>5 DEF Next, Finished

Sound ==
  /\ ListsPresent
  /\ DanglingIsSet /\ FormatsLeftAlone
  /\ ThreadToStop
  /\ NoCrash

LEMMA NoCrashKept ==
  ASSUME ApiInv, Sound, [Next]_vars,
         Environment \cap {"null_list", "csv_live", "unstarted", "create_fails"} = {}
  PROVE  NoCrash'
<1> USE DEF NoCrash
<1>1. ~crashed
  BY DEF Sound
<1>2. ASSUME NEW a \in Apps, Call(a) \/ LockedCall(a) \/ CsvCall(a)
      PROVE  ~crashed'
  BY <1>1, <1>2
  DEF Call, LockedCall, CsvCall, flowgraph_attach_prediction,
      flowgraph_detach_prediction, flowgraph_attach_model, flowgraph_detach_model,
      FreeCsvFormat, SetCsvFormat, Returns
<1>3. ASSUME NEW b \in BOOLEAN, rtgde_start(b) \/ rtgde_stop(b)
      PROVE  ~crashed'
  BY <1>1, <1>3 DEF rtgde_start, rtgde_stop
<1>4. CASE FreeFlowgraph
  <2>1. ~InTick
    BY <1>4 DEF FreeFlowgraph, ApiInv, SafetyInv, TeardownAlone, ThreadGone, InTick, Holding
  <2>2. \A i \in 1..Len(predictions) : predictions[i].last_prediction = "null"
    BY <2>1 DEF ApiInv, SafetyInv, NoListOutlivesTick
  <2> QED
    BY <1>4, <2>2 DEF FreeFlowgraph
<1>5. CASE WaitFirst \/ CancelThread \/ JoinThread
  BY <1>1, <1>5 DEF WaitFirst, CancelThread, JoinThread, Sound, ThreadToStop
<1>6. CASE ExecuteModel \/ LogPredictions \/ LogModels
  <2>1. InTick /\ engine # "predict" /\ ~ThreadGone
    BY <1>6 DEF ExecuteModel, LogPredictions, LogModels, LogCsv, InTick, Holding, ThreadGone
  <2>2. ~NullList
    BY <2>1 DEF Sound, ListsPresent, NullList
  <2>3. \A o \in Outputs : csv[o] # "dangling"
    BY <2>1 DEF Sound, DanglingIsSet, FormatsLeftAlone, Setting
  <2>4. CASE ExecuteModel
    BY <1>1, <2>2, <2>4 DEF ExecuteModel
  <2>5. CASE LogPredictions
    BY <1>1, <2>2, <2>3, <2>5 DEF LogPredictions, LogCsv, Outputs
  <2>6. CASE LogModels
    BY <1>1, <2>3, <2>6 DEF LogModels, LogCsv, Outputs
  <2> QED
    BY <1>6, <2>4, <2>5, <2>6
<1>7. CASE EngineStep /\ ~(ExecuteModel \/ LogPredictions \/ LogModels)
  BY <1>1, <1>7
  DEF EngineStep, EngineWakes, EngineCancelled, EngineLocks, ExecutePrediction,
      NothingToExecute, GoOnToModels, TakeDecision, CallUser, UserReturns, EndTick,
      CountExecution, EnableCancel, outside
<1>8. CASE UNCHANGED vars
  BY <1>1, <1>8 DEF vars
<1> QED
  BY <1>2, <1>3, <1>4, <1>5, <1>6, <1>7, <1>8 DEF Next, Finished, MainStep, EngineStep

\* A program crashes in rtgde.c only if a prediction returns NULL, the CSV output
\* is set up while the engine runs, or a flowgraph without a thread is stopped:
\* neither the cancellation of the thread nor the calls of other threads, at any
\* moment, make it use a list or a format that is not there.
THEOREM NeverCrashes ==
  ASSUME Environment \cap {"null_list", "csv_live", "unstarted", "create_fails"} = {}
  PROVE  Spec => []NoCrash
<1>1. Init => Sound
  BY DEF Init, Sound, ListsPresent, InTick, Holding, DanglingIsSet, FormatsLeftAlone,
     ThreadGone, ThreadToStop, NoCrash
<1>2. ApiInv /\ Sound /\ [Next]_vars => Sound'
  BY ListsPresentKept, FormatsKept, ThreadToStopKept, NoCrashKept DEF ApiInv, Sound
<1>3. Sound => NoCrash
  BY DEF Sound
<1> QED
  BY <1>1, <1>2, <1>3, InitApiInv, NextApiInv, PTL DEF Spec
-------------------------------------------------------------------------------
(***************************************************************************)
(* The one decision of a one-time run.                                      *)
(***************************************************************************)
ServedInv ==
  /\ main # "ready" => tearing
  /\ main \in {"cancel", "join", "teardown", "freed"} /\ one_time =>
       flowgraph_exec_count >= 1
  /\ cancel_pending => main \notin {"ready", "wait_first"}
  /\ engine = "absent" /\ ~tearing => flowgraph_exec_count = 0
  /\ flowgraph_exec_count >= 1 => reported
  /\ engine \in {"user", "csv_prediction", "csv_model", "free", "stuck", "count",
                 "enable"} => reported
  /\ OneTimeServed

LEMMA ServedKept ==
  ASSUME SafetyInv, NeverDry, ServedInv, "stop" \notin Environment, [Next]_vars
  PROVE  ServedInv'
<1> USE DEF ServedInv, OneTimeServed
<1>1. ASSUME NEW a \in Apps, Call(a) \/ LockedCall(a) \/ CsvCall(a)
      PROVE  ServedInv'
  <2>1. UNCHANGED <<main, tearing, one_time, flowgraph_exec_count, cancel_pending,
                    engine, reported>>
    BY <1>1
    DEF Call, LockedCall, CsvCall, flowgraph_attach_prediction,
        flowgraph_detach_prediction, flowgraph_attach_model, flowgraph_detach_model,
        FreeCsvFormat, SetCsvFormat, Returns, owner, cancelling, calls
  <2> QED
    BY <2>1
<1>2. ASSUME NEW b \in BOOLEAN, rtgde_start(b)
      PROVE  ServedInv'
  <2>1. /\ engine = "absent" /\ ~tearing /\ main = "ready"
        /\ UNCHANGED <<main, tearing, flowgraph_exec_count>>
        /\ engine' \in {"sleep", "absent"}
    BY <1>2 DEF rtgde_start
  <2>2. flowgraph_exec_count = 0 /\ ~cancel_pending
    BY <2>1
  <2>3. ~cancel_pending'
    BY <1>2, <2>2 DEF rtgde_start, cancelling
  <2> QED
    BY <2>1, <2>2, <2>3
<1>3. ASSUME NEW b \in BOOLEAN, rtgde_stop(b)
      PROVE  ServedInv'
  BY <1>3 DEF rtgde_stop, cancelling, calls
<1>4. CASE MainStep
  <2>1. /\ main # "ready" /\ tearing
        /\ UNCHANGED <<tearing, one_time, flowgraph_exec_count, reported>>
    BY <1>4
    DEF MainStep, WaitFirst, CancelThread, JoinThread, FreeFlowgraph, calls
  <2>2. CASE WaitFirst
    BY <2>1, <2>2 DEF WaitFirst, ExecutedOnce, cancelling
  <2>3. CASE CancelThread
    BY <2>1, <2>3 DEF CancelThread, AfterStop
  <2>4. CASE JoinThread
    BY <2>1, <2>4 DEF JoinThread, Joinable, AfterStop, cancelling
  <2>5. CASE FreeFlowgraph
    BY <2>1, <2>5 DEF FreeFlowgraph, cancelling
  <2> QED
    BY <1>4, <2>2, <2>3, <2>4, <2>5 DEF MainStep
<1>5. CASE EngineCancelled
  <2>1. /\ engine' = "exited" /\ cancel_pending
        /\ UNCHANGED <<main, tearing, one_time, flowgraph_exec_count, cancel_pending,
                       reported>>
    BY <1>5 DEF EngineCancelled, Cancellable, owner, outside, cancelling, calls
  <2>2. main \in {"cancel", "join", "teardown", "freed"}
    BY <2>1 DEF SafetyInv, TypeOK
  <2> QED
    BY <2>1, <2>2
<1>6. CASE CallUser
  BY <1>6 DEF CallUser, owner, outside, cancelling
<1>7. CASE CountExecution
  BY <1>7 DEF CountExecution, SafetyInv, TypeOK, owner, outside, cancelling, calls
<1>8. CASE EngineStep /\ ~(EngineCancelled \/ CallUser \/ CountExecution)
  BY <1>8, SomethingToExecute
  DEF EngineStep, EngineWakes, EngineLocks, ExecutePrediction, PredictionsDone,
      GoOnToModels, ExecuteModel, TakeDecision, UserReturns, LogPredictions, LogModels,
      LogCsv, EndTick, EnableCancel, AfterTick, owner, outside, cancelling, calls
<1>9. CASE UNCHANGED vars
  BY <1>9 DEF vars
<1> QED
  BY <1>1, <1>2, <1>3, <1>4, <1>5, <1>6, <1>7, <1>8, <1>9 DEF Next, Finished

\* rtgde_stop does not cancel a one-time run before its decision, wherever the
\* thread is when it is called, unless the predictions run out or the flowgraph
\* is started a second time, when flowgraph_exec_count is the one of the first.
THEOREM OneTimeRunIsServed ==
  ASSUME Environment \cap {"run_dry", "stop"} = {}
  PROVE  Spec => []OneTimeServed
<1>1. Init => ServedInv
  BY DEF Init, ServedInv, OneTimeServed
<1>2. "run_dry" \notin Environment /\ "stop" \notin Environment
  OBVIOUS
<1>3. ApiInv /\ NeverDry /\ ServedInv /\ [Next]_vars => ServedInv'
  BY <1>2, ServedKept DEF ApiInv
<1>4. ServedInv => OneTimeServed
  BY DEF ServedInv
<1>5. Spec => [](ApiInv /\ NeverDry)
  BY <1>2, NeverDryInvariance
<1> QED
  BY <1>1, <1>3, <1>4, <1>5, PTL DEF Spec
================================================================================

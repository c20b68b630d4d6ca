------------------------------- MODULE Flowgraph -------------------------------
(***************************************************************************)
(* The engine of a flowgraph and the calls of the application (lib/rtgde.c):*)
(* the thread that executes the graph once per period or once in all, the   *)
(* threads of the application that attach and detach predictions and models *)
(* or set up the CSV output at any time, and the main thread that starts,   *)
(* stops and tears the flowgraph down.  They share the two lists under      *)
(* config_mutex, the counter of executions, and the CSV formats, which no   *)
(* mutex protects.                                                          *)
(*                                                                          *)
(* What a prediction, a model, the scoring and the decision compute is      *)
(* abstracted to what the engine tells apart: a prediction returns a list   *)
(* or NULL, a model has an output or not, the decision selects one of the   *)
(* outputs or none.  A critical section without a call to user code is one  *)
(* step; the engine's, which calls user code throughout, is one step per    *)
(* call.  Undefined behaviour ends in "crashed" or, where a build may well   *)
(* survive it, in either outcome.                                           *)
(***************************************************************************)
EXTENDS Integers, Sequences, FiniteSets, SequencesExt

CONSTANTS Predictions,  \* prediction_t objects of the application
          Models,       \* model_t objects of the application
          Apps,         \* Threads of the application
          Engine,       \* thread_flowgraph
          Main,         \* The thread that owns the flowgraph
          NoThread,     \* The value of config_mutex when it is free
          NoCall,       \* The value of call[a] when a is outside the library
          Environment,  \* What the program around the library may do, see Habits
          MaxAttached   \* Bound: how many entries each list has

(***************************************************************************)
(* What may happen around the library, and in the code that it calls:      *)
(*   run_dry       no prediction is attached when the engine looks          *)
(*   null_list     a prediction returns NULL (its check failed, or its exec *)
(*                 does it, as tests/pcap/pred_packets.c:57)                *)
(*   fopen_fails   a CSV file cannot be created                             *)
(*   csv_live      the CSV output is set up while the engine runs           *)
(*   reenter       the user's callback attaches or detaches                 *)
(*   stop          rtgde_stop is called without a teardown, and the         *)
(*                 flowgraph may be started again                           *)
(*   unstarted     rtgde_stop or flowgraph_teardown is called when there    *)
(*                 is no thread, as tests/dvfs/dvfs.c does after usage()    *)
(*   create_fails  pthread_create fails                                     *)
(***************************************************************************)
Habits == {"run_dry", "null_list", "fopen_fails", "csv_live", "reenter",
           "stop", "unstarted", "create_fails"}

ASSUME EnvironmentAssumption == Environment \subseteq Habits
ASSUME ThreadsAssumption ==
  /\ Engine # Main
  /\ NoThread \notin {Engine, Main}
ASSUME AppsAssumption == IsFiniteSet(Apps)
ASSUME MaxAttachedAssumption == MaxAttached \in Nat

VARIABLES
  predictions,          \* [base, last_prediction] entries, in order
  models,               \* Attached models, in order
  config_mutex,         \* Its owner
  csv,                  \* csv_pred_format and csv_model_format
  one_time,             \* Garbage until rtgde_start
  flowgraph_exec_count, \* Saturates, the code compares it with 1
  call,                 \* The pending call of each thread of the application
  main,                 \* Where the main thread is
  tearing,              \* Whether flowgraph_teardown called rtgde_stop
  engine,               \* Where the engine is
  cancel_disabled,      \* pthread_setcancelstate
  cancel_pending,       \* pthread_cancel was called
  di_live,              \* The decision input is allocated
  ran,                  \* The predictions executed in this tick
  executed,             \* The models executed in this tick
  di,                   \* The positions of the models with an output
  dim_sel,              \* The position the decision selected, or 0
  report,               \* What user_cb is being called with
  reported,             \* user_cb was called since rtgde_start
  crashed               \* Undefined behaviour has killed the process

config == <<predictions, models>>
tick == <<di_live, ran, executed, di, dim_sel>>
calls == <<report, reported>>
owner == <<main, tearing, one_time>>
cancelling == <<cancel_disabled, cancel_pending>>

vars == <<predictions, models, config_mutex, csv, one_time,
          flowgraph_exec_count, call, main, tearing, engine, cancel_disabled,
          cancel_pending, di_live, ran, executed, di, dim_sel, report,
          reported, crashed>>

Outputs == {"csv_prediction", "csv_model"}

ExecCap == 1            \* Bound: where flowgraph_exec_count saturates

Calls ==
  [op : {"attach_prediction", "detach_prediction"}, arg : Predictions]
    \cup [op : {"attach_model", "detach_model"}, arg : Models]
    \cup [op : {"free_csv", "set_csv"}, arg : Outputs]

ASSUME NoCallAssumption == NoCall \notin Calls

\* The places of the engine where execute_flow_graph owns config_mutex.
Holding == {"predict", "model", "callback", "user", "csv_prediction",
            "csv_model", "free", "stuck"}

Places == Holding \cup {"absent", "sleep", "lock", "count", "enable", "exited"}

ThreadGone == engine \in {"absent", "exited"}

NoReport == [ran |-> << >>, executed |-> << >>, offered |-> {}, chosen |-> 0]

(***************************************************************************)
(* flowgraph_create.  The malloc leaves one_time uninitialised.            *)
(***************************************************************************)
Init ==
  /\ predictions = << >>
  /\ models = << >>
  /\ config_mutex = NoThread
  /\ csv = [o \in Outputs |-> "null"]
  /\ one_time \in BOOLEAN
  /\ flowgraph_exec_count = 0
  /\ call = [a \in Apps |-> NoCall]
  /\ main = "ready"
  /\ tearing = FALSE
  /\ engine = "absent"
  /\ cancel_disabled = FALSE
  /\ cancel_pending = FALSE
  /\ di_live = FALSE
  /\ ran = << >>
  /\ executed = << >>
  /\ di = {}
  /\ dim_sel = 0
  /\ report = NoReport
  /\ reported = FALSE
  /\ crashed = FALSE

(***************************************************************************)
(* The calls of the application.  Call is the entry of the call, the       *)
(* actions after it are its critical section and its return.               *)
(***************************************************************************)

\* Mutant: the application's calls do not take config_mutex.
Lockable_Unlocked == TRUE

Lockable == config_mutex = NoThread

Pending(op) == {a \in Apps : call[a] # NoCall /\ call[a].op = op}

\* What the application may call now: nothing once the teardown has begun.
\* The bound on the lists, and the restrictions of the Environment.
MayCall(c) ==
  CASE c.op = "attach_prediction" ->
         Len(predictions) + Cardinality(Pending(c.op)) < MaxAttached
    [] c.op = "attach_model" ->
         Len(models) + Cardinality(Pending(c.op)) < MaxAttached
    [] c.op = "detach_prediction" ->
         \/ "run_dry" \in Environment
         \/ ThreadGone
         \/ Len(predictions) > Cardinality(Pending(c.op)) + 1
    [] c.op = "detach_model" -> TRUE
    [] c.op = "free_csv" -> ThreadGone \/ "csv_live" \in Environment
    [] c.op = "set_csv" -> FALSE

Call(a) ==
  /\ call[a] = NoCall
  /\ ~tearing
  /\ \E c \in Calls : MayCall(c) /\ call' = [call EXCEPT ![a] = c]
  /\ UNCHANGED <<config, config_mutex, csv, flowgraph_exec_count, owner, engine,
                 cancelling, tick, calls, crashed>>

Returns(a) ==
  /\ call' = [call EXCEPT ![a] = NoCall]
  /\ UNCHANGED <<config_mutex, flowgraph_exec_count, owner, engine, cancelling,
                 tick, calls, crashed>>

NewEntry(p) == [base |-> p, last_prediction |-> "null"]

\* The entry is appended, unless its malloc fails.
flowgraph_attach_prediction(a) ==
  /\ call[a] # NoCall /\ call[a].op = "attach_prediction"
  /\ Lockable
  /\ predictions' \in
       {predictions, Append(predictions, NewEntry(call[a].arg))}
  /\ UNCHANGED <<models, csv>>
  /\ Returns(a)

\* The first entry of the prediction leaves the list; -1 if there is none.
flowgraph_detach_prediction(a) ==
  /\ call[a] # NoCall /\ call[a].op = "detach_prediction"
  /\ Lockable
  /\ \/ \E i \in 1..Len(predictions) :
          /\ predictions[i].base = call[a].arg
          /\ \A j \in 1 .. i - 1 : predictions[j].base # call[a].arg
          /\ predictions' = RemoveAt(predictions, i)
     \/ /\ \A i \in 1..Len(predictions) : predictions[i].base # call[a].arg
        /\ UNCHANGED predictions
  /\ UNCHANGED <<models, csv>>
  /\ Returns(a)

flowgraph_attach_model(a) ==
  /\ call[a] # NoCall /\ call[a].op = "attach_model"
  /\ Lockable
  /\ models' \in {models, Append(models, call[a].arg)}
  /\ UNCHANGED <<predictions, csv>>
  /\ Returns(a)

flowgraph_detach_model(a) ==
  /\ call[a] # NoCall /\ call[a].op = "detach_model"
  /\ Lockable
  /\ \/ \E i \in 1..Len(models) :
          /\ models[i] = call[a].arg
          /\ \A j \in 1 .. i - 1 : models[j] # call[a].arg
          /\ models' = RemoveAt(models, i)
     \/ /\ \A i \in 1..Len(models) : models[i] # call[a].arg
        /\ UNCHANGED models
  /\ UNCHANGED <<predictions, csv>>
  /\ Returns(a)

(***************************************************************************)
(* flowgraph_prediction_output_csv and flowgraph_model_output_csv take no  *)
(* mutex: the old format is freed, and a step later there is a new one.    *)
(***************************************************************************)
FreeCsvFormat(a) ==
  /\ call[a] # NoCall /\ call[a].op = "free_csv"
  /\ csv' = [csv EXCEPT ![call[a].arg] = IF @ = "null" THEN "null" ELSE "dangling"]
  /\ call' = [call EXCEPT ![a].op = "set_csv"]
  /\ UNCHANGED <<config, config_mutex, flowgraph_exec_count, owner, engine,
                 cancelling, tick, calls, crashed>>

SetCsvFormat(a) ==
  /\ call[a] # NoCall /\ call[a].op = "set_csv"
  /\ csv' = [csv EXCEPT ![call[a].arg] = "set"]
  /\ UNCHANGED config
  /\ Returns(a)

LockedCall(a) ==
  \/ flowgraph_attach_prediction(a) \/ flowgraph_detach_prediction(a)
  \/ flowgraph_attach_model(a) \/ flowgraph_detach_model(a)

CsvCall(a) == FreeCsvFormat(a) \/ SetCsvFormat(a)

(***************************************************************************)
(* rtgde_start.  A failed pthread_create leaves no usable thread, and when *)
(* one_time is set that thread is joined nevertheless.                     *)
(***************************************************************************)
rtgde_start(once) ==
  /\ main = "ready" /\ ~tearing
  /\ engine = "absent" \/ (engine = "exited" /\ "stop" \in Environment)
  /\ "run_dry" \in Environment
       \/ Len(predictions) > Cardinality(Pending("detach_prediction"))
  /\ "csv_live" \in Environment
       \/ Pending("free_csv") \cup Pending("set_csv") = {}
  /\ one_time' = once
  /\ reported' = FALSE
  /\ \/ /\ engine' = "sleep"
        /\ cancel_disabled' = FALSE
        /\ cancel_pending' = FALSE
        /\ UNCHANGED crashed
     \/ /\ "create_fails" \in Environment
        /\ engine' = "absent"
        /\ crashed' \in IF once THEN BOOLEAN ELSE {FALSE}
        /\ UNCHANGED cancelling
  /\ UNCHANGED <<config, config_mutex, csv, flowgraph_exec_count, call, main,
                 tearing, tick, report>>

(***************************************************************************)
(* rtgde_stop, and flowgraph_teardown which begins with it.  The           *)
(* application calls nothing when the flowgraph is torn down.              *)
(***************************************************************************)
rtgde_stop(teardown) ==
  /\ main = "ready" /\ ~tearing
  /\ engine = "absent" => "unstarted" \in Environment
  /\ IF teardown THEN \A a \in Apps : call[a] = NoCall ELSE "stop" \in Environment
  /\ main' = "wait_first"
  /\ tearing' = teardown
  /\ UNCHANGED <<config, config_mutex, csv, one_time, flowgraph_exec_count, call,
                 engine, cancelling, tick, calls, crashed>>

AfterStop == IF tearing THEN "teardown" ELSE "ready"

\* Mutant: a one-time run is cancelled without waiting for it.
ExecutedOnce_NotAwaited == TRUE

ExecutedOnce == one_time => flowgraph_exec_count >= 1

\* The loop over sched_yield ends.
WaitFirst ==
  /\ main = "wait_first"
  /\ ExecutedOnce
  /\ main' = "cancel"
  /\ UNCHANGED <<config, config_mutex, csv, one_time, flowgraph_exec_count, call,
                 tearing, engine, cancelling, tick, calls, crashed>>

\* pthread_cancel.  A thread that has exited but was not joined is reported
\* by some C libraries with ESRCH, and rtgde_stop then returns at once.
CancelThread ==
  /\ main = "cancel"
  /\ \/ /\ ~ThreadGone
        /\ cancel_pending' = TRUE
        /\ main' = "join"
        /\ UNCHANGED crashed
     \/ /\ engine = "exited"
        /\ main' \in {"join", AfterStop}
        /\ UNCHANGED <<cancel_pending, crashed>>
     \/ /\ engine = "absent"
        /\ main' = AfterStop
        /\ crashed' \in BOOLEAN
        /\ UNCHANGED cancel_pending
  /\ UNCHANGED <<config, config_mutex, csv, one_time, flowgraph_exec_count, call,
                 tearing, engine, cancel_disabled, tick, calls>>

\* Mutant: the thread is not joined.
Joinable_Anyway == TRUE

Joinable == engine = "exited"

JoinThread ==
  /\ main = "join"
  /\ Joinable
  /\ engine' = IF engine = "exited" THEN "absent" ELSE engine
  /\ main' = AfterStop
  /\ UNCHANGED <<config, config_mutex, csv, one_time, flowgraph_exec_count, call,
                 tearing, cancelling, tick, calls, crashed>>

\* The rest of flowgraph_teardown.  The mutex is never unlocked.
FreeFlowgraph ==
  /\ main = "teardown"
  /\ Lockable
  /\ config_mutex' = Main
  /\ crashed' = (\E i \in 1..Len(predictions) :
                   predictions[i].last_prediction = "freed")
  /\ predictions' = << >>
  /\ models' = << >>
  /\ main' = "freed"
  /\ UNCHANGED <<csv, one_time, flowgraph_exec_count, call, tearing, engine,
                 cancelling, tick, calls>>

MainStep == WaitFirst \/ CancelThread \/ JoinThread \/ FreeFlowgraph

(***************************************************************************)
(* The engine: thread_flowgraph around execute_flow_graph.                 *)
(***************************************************************************)
outside == <<csv, call, owner, crashed>>

\* Mutant: cancellation stays enabled while the graph is executed.
CancelStateInTick_Enabled == FALSE

CancelStateInTick == TRUE

\* Mutant: cancellation is not enabled again.
CancelStateAfterTick_Disabled == TRUE

CancelStateAfterTick == FALSE

\* Whether a cancellation takes effect at the next cancellation point.
Cancellable == cancel_pending /\ ~cancel_disabled

\* The period is over: the thread woke up, or it was late already.
\* execute_flow_graph creates the decision input before it takes the mutex.
EngineWakes ==
  /\ engine = "sleep"
  /\ ~Cancellable
  /\ engine' = "lock"
  /\ cancel_disabled' = CancelStateInTick
  /\ di_live' = TRUE
  /\ UNCHANGED <<config, config_mutex, flowgraph_exec_count, cancel_pending,
                 ran, executed, di, dim_sel, calls, outside>>

\* usleep, and the warnings, user code and files inside a tick, are
\* cancellation points, but inside a tick cancellation is disabled.
EngineCancelled ==
  /\ engine \in {"sleep", "user", "csv_prediction", "csv_model"}
  /\ Cancellable
  /\ engine' = "exited"
  /\ UNCHANGED <<config, config_mutex, flowgraph_exec_count, cancelling, tick,
                 calls, outside>>

EngineLocks ==
  /\ engine = "lock"
  /\ Lockable
  /\ config_mutex' = Engine
  /\ engine' = "predict"
  /\ UNCHANGED <<config, flowgraph_exec_count, cancelling, tick, calls, outside>>

\* prediction_exec of the next prediction.
ExecutePrediction ==
  /\ engine = "predict"
  /\ Len(ran) < Len(predictions)
  /\ LET i == Len(ran) + 1 IN
       /\ \E list \in {"list"} \cup
                      IF "null_list" \in Environment THEN {"null"} ELSE {} :
            predictions' =
              [predictions EXCEPT ![i] = [base |-> @.base, last_prediction |-> list]]
       /\ ran' = Append(ran, predictions[i].base)
  /\ UNCHANGED <<models, config_mutex, flowgraph_exec_count, engine, cancelling,
                 di_live, executed, di, dim_sel, calls, outside>>

PredictionsDone == engine = "predict" /\ Len(ran) >= Len(predictions)

\* pred_count = 0: a warning, and a return with config_mutex held and the
\* decision input allocated.
NothingToExecute ==
  /\ PredictionsDone
  /\ ran = << >>
  /\ engine' = "count"
  /\ UNCHANGED <<config, config_mutex, flowgraph_exec_count, cancelling, tick,
                 calls, outside>>

GoOnToModels ==
  /\ PredictionsDone
  /\ ran # << >>
  /\ engine' = "model"
  /\ UNCHANGED <<config, config_mutex, flowgraph_exec_count, cancelling, tick,
                 calls, outside>>

NullList ==
  \E i \in 1..Len(predictions) : predictions[i].last_prediction = "null"

\* The next model gets a copy of all the lists; copying NULL crashes.  A
\* model without an output is left out of the decision input.
ExecuteModel ==
  /\ engine = "model"
  /\ Len(executed) < Len(models)
  /\ LET i == Len(executed) + 1 IN
       \/ /\ ~NullList
          /\ executed' = Append(executed, models[i])
          /\ di' \in {di, di \cup {i}}
          /\ UNCHANGED crashed
       \/ /\ NullList
          /\ crashed' = TRUE
          /\ UNCHANGED <<executed, di>>
  /\ UNCHANGED <<config, config_mutex, flowgraph_exec_count, engine, cancelling,
                 di_live, ran, dim_sel, calls, csv, call, owner>>

\* scoring_exec and decision_exec: one of the models with an output, or none.
TakeDecision ==
  /\ engine = "model"
  /\ Len(executed) >= Len(models)
  /\ dim_sel' \in di \cup {0}
  /\ engine' = "callback"
  /\ UNCHANGED <<config, config_mutex, flowgraph_exec_count, cancelling, di_live,
                 ran, executed, di, calls, outside>>

CallUser ==
  /\ engine = "callback"
  /\ report' = [ran |-> ran, executed |-> executed, offered |-> di, chosen |-> dim_sel]
  /\ reported' = TRUE
  /\ engine' = "user"
  /\ UNCHANGED <<config, config_mutex, flowgraph_exec_count, cancelling, tick, outside>>

\* user_cb runs with config_mutex held: a callback that attaches or detaches
\* waits for itself.
UserReturns ==
  /\ engine = "user"
  /\ \/ engine' = "csv_prediction" /\ report' = NoReport
     \/ "reenter" \in Environment /\ engine' = "stuck" /\ UNCHANGED report
  /\ UNCHANGED <<config, config_mutex, flowgraph_exec_count, cancelling, tick,
                 reported, outside>>

\* csv_log_pred and csv_log_models.  The first lists the predictions again,
\* NULL or not; both repeat for ever when a file cannot be created; a format
\* that was freed meanwhile may crash them.
Logs(o) == engine = o /\ csv[o] # "null"

LogCsv(o, next) ==
  /\ engine = o
  /\ \/ /\ Logs(o) => ~(o = "csv_prediction" /\ NullList)
        /\ engine' = next
        /\ UNCHANGED crashed
     \/ /\ Logs(o) /\ "fopen_fails" \in Environment
        /\ o = "csv_model" => di # {}
        /\ engine' = "stuck"
        /\ UNCHANGED crashed
     \/ /\ Logs(o)
        /\ csv[o] = "dangling" \/ (o = "csv_prediction" /\ NullList)
        /\ crashed' = TRUE
        /\ UNCHANGED engine
  /\ UNCHANGED <<config, config_mutex, flowgraph_exec_count, cancelling, tick,
                 calls, csv, call, owner>>

LogPredictions == LogCsv("csv_prediction", "csv_model")

LogModels == LogCsv("csv_model", "free")

\* Mutant: the list is deleted but the pointer to it stays.
Cleared_Dangling(fp) ==
  [base |-> fp.base,
   last_prediction |-> IF fp.last_prediction = "null" THEN "null" ELSE "freed"]

Cleared(fp) == [base |-> fp.base, last_prediction |-> "null"]

\* Mutant: the mutex is not released.
MutexAfterTick_Kept == Engine

MutexAfterTick == NoThread

\* The end of execute_flow_graph.
EndTick ==
  /\ engine = "free"
  /\ di_live' = FALSE
  /\ predictions' = [i \in 1..Len(predictions) |-> Cleared(predictions[i])]
  /\ config_mutex' = MutexAfterTick
  /\ engine' = "count"
  /\ ran' = << >>
  /\ executed' = << >>
  /\ di' = {}
  /\ dim_sel' = 0
  /\ UNCHANGED <<models, flowgraph_exec_count, cancelling, calls, outside>>

CountExecution ==
  /\ engine = "count"
  /\ flowgraph_exec_count' = IF flowgraph_exec_count < ExecCap
                             THEN flowgraph_exec_count + 1 ELSE ExecCap
  /\ engine' = "enable"
  /\ UNCHANGED <<config, config_mutex, cancelling, tick, calls, outside>>

\* Mutant: the one-time run goes on like the others.
AfterTick_Repeats == "sleep"

AfterTick == IF one_time THEN "exited" ELSE "sleep"

EnableCancel ==
  /\ engine = "enable"
  /\ cancel_disabled' = CancelStateAfterTick
  /\ engine' = AfterTick
  /\ UNCHANGED <<config, config_mutex, flowgraph_exec_count, cancel_pending, tick,
                 calls, outside>>

EngineStep ==
  \/ EngineWakes \/ EngineCancelled \/ EngineLocks \/ ExecutePrediction
  \/ NothingToExecute \/ GoOnToModels \/ ExecuteModel \/ TakeDecision \/ CallUser
  \/ UserReturns \/ LogPredictions \/ LogModels \/ EndTick \/ CountExecution \/ EnableCancel

(***************************************************************************)
(* The whole program, until it crashes or has nothing left to do.          *)
(***************************************************************************)
Finished == main = "freed" /\ UNCHANGED vars

Next ==
  /\ ~crashed
  /\ \/ \E a \in Apps : Call(a) \/ LockedCall(a) \/ CsvCall(a)
     \/ \E b \in BOOLEAN : rtgde_start(b) \/ rtgde_stop(b)
     \/ MainStep
     \/ EngineStep
     \/ Finished

Spec == Init /\ [][Next]_vars

(***************************************************************************)
(* Every thread goes on: the period ends, the predictions, models and      *)
(* callbacks return.  A thread that waits for config_mutex gets it if it   *)
(* is free again and again: the engine sleeps between two executions, for  *)
(* much longer than a call lasts.  Nothing obliges the application to call,*)
(* or the main thread to start, stop or tear down.                         *)
(***************************************************************************)
Fairness ==
  /\ SF_vars(~crashed /\ EngineStep)
  /\ WF_vars(~crashed /\ MainStep)
  /\ \A a \in Apps : /\ SF_vars(~crashed /\ LockedCall(a))
                     /\ WF_vars(~crashed /\ CsvCall(a))

FairSpec == Spec /\ Fairness
--------------------------------------------------------------------------------
(***************************************************************************)
(* Properties.                                                             *)
(***************************************************************************)
Entries == [base : Predictions, last_prediction : {"null", "list", "freed"}]

\* Type correctness, with the owner of config_mutex.
TypeOK ==
  /\ predictions \in Seq(Entries)
  /\ models \in Seq(Models)
  /\ config_mutex \in {NoThread, Engine, Main}
  /\ csv \in [Outputs -> {"null", "set", "dangling"}]
  /\ one_time \in BOOLEAN
  /\ flowgraph_exec_count \in 0 .. ExecCap
  /\ call \in [Apps -> Calls \cup {NoCall}]
  /\ main \in {"ready", "wait_first", "cancel", "join", "teardown", "freed"}
  /\ tearing \in BOOLEAN
  /\ engine \in Places
  /\ cancel_disabled \in BOOLEAN
  /\ cancel_pending \in BOOLEAN
  /\ di_live \in BOOLEAN
  /\ ran \in Seq(Predictions)
  /\ executed \in Seq(Models)
  /\ di \subseteq 1..Len(executed)
  /\ dim_sel \in di \cup {0}
  /\ reported \in BOOLEAN
  /\ crashed \in BOOLEAN

Bases == [i \in 1..Len(predictions) |-> predictions[i].base]

InTick == engine \in Holding

\* Once flowgraph_teardown has freed the flowgraph, no thread touches it: the
\* engine is gone and no call of the application is under way.
NoUseAfterFree ==
  main = "freed" => ThreadGone /\ \A a \in Apps : call[a] = NoCall

\* While the engine executes the graph, nobody attaches or detaches: it walks
\* both lists several times and every time sees the same entries.
ConfigStable ==
  [][InTick /\ InTick' => Bases' = Bases /\ models' = models]_vars

\* A list of predictions lives within the tick that made it; outside of it
\* every last_prediction is NULL, so that detaching an entry leaks nothing
\* and the teardown deletes nothing twice.
NoListOutlivesTick ==
  ~InTick => \A i \in 1..Len(predictions) : predictions[i].last_prediction = "null"

\* Every way out of execute_flow_graph releases what it took: the lists, the
\* mutex and the decision input.
TickReleases ==
  /\ NoListOutlivesTick
  /\ ~InTick /\ engine # "lock" => config_mutex # Engine /\ ~di_live

\* A program that keeps to the library's contract does not crash.
NoCrash == ~crashed

\* A one-time flowgraph is not stopped before it has taken its decision.
OneTimeServed == one_time /\ engine = "exited" => reported

\* flowgraph_teardown returns: the engine notices the cancellation and leaves
\* the mutex free.
TeardownReturns == tearing ~> main = "freed"

\* The application's calls return although the engine keeps the mutex while
\* it executes the graph, and so does the teardown.
CallsReturn ==
  /\ \A a \in Apps : call[a] # NoCall ~> call[a] = NoCall
  /\ TeardownReturns

\* A started flowgraph takes decisions until it is stopped, or has taken the
\* one it was started for.
KeepsDeciding ==
  engine = "sleep" ~> (engine = "callback" \/ main # "ready")

(***************************************************************************)
(* The flowgraph keeps its promise to the application: a report is made    *)
(* from one configuration, by a flowgraph that is running.  A decision     *)
(* takes effect when user_cb is called.                                    *)
(***************************************************************************)
Api ==
  INSTANCE FlowgraphApi WITH
    predictions <- Bases,
    phase <- IF main = "freed" THEN "down"
             ELSE IF ThreadGone THEN "idle" ELSE "running",
    once <- one_time

ApiSpec == Api!Spec
================================================================================

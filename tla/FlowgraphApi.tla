----------------------------- MODULE FlowgraphApi -----------------------------
(***************************************************************************)
(* What a flowgraph promises to the application (include/rtgde.h): its      *)
(* configuration changes one call at a time; while it runs, it takes        *)
(* decisions, each from ONE configuration: every attached prediction ran,   *)
(* in order, then every attached model, in order, and the choice is one of  *)
(* the models that had an output.  A one-time run reports at most once, and *)
(* a flowgraph that is not running reports nothing, let alone one that was  *)
(* torn down.  There is no thread here, no mutex and no loop: a decision is *)
(* one step.                                                                *)
(***************************************************************************)
EXTENDS Integers, Sequences, SequencesExt

CONSTANTS Predictions,  \* What can be attached
          Models

VARIABLES predictions,  \* The attached predictions, in order
          models,       \* The attached models, in order
          phase,        \* "idle", "running" or "down"
          once,         \* Whether the run is a one-time run
          reported,     \* Whether the current run has reported
          report        \* The report the application is looking at, if any

vars == <<predictions, models, phase, once, reported, report>>

(***************************************************************************)
(* A report names the predictions and the models that were executed, the   *)
(* positions of the models that had an output, and the position that was   *)
(* selected, 0 if none was.                                                *)
(***************************************************************************)
NoReport == [ran |-> << >>, executed |-> << >>, offered |-> {}, chosen |-> 0]

Init ==
  /\ predictions = << >>
  /\ models = << >>
  /\ phase = "idle"
  /\ once \in BOOLEAN
  /\ reported = FALSE
  /\ report = NoReport

\* The list less the first entry equal to x.
WithoutFirst(list, x, rest) ==
  \E i \in 1..Len(list) : /\ list[i] = x
                          /\ \A j \in 1 .. i - 1 : list[j] # x
                          /\ rest = RemoveAt(list, i)

AttachPrediction(p) ==
  /\ phase # "down"
  /\ predictions' = Append(predictions, p)
  /\ UNCHANGED <<models, phase, once, reported, report>>

DetachPrediction(p) ==
  /\ phase # "down"
  /\ WithoutFirst(predictions, p, predictions')
  /\ UNCHANGED <<models, phase, once, reported, report>>

AttachModel(m) ==
  /\ phase # "down"
  /\ models' = Append(models, m)
  /\ UNCHANGED <<predictions, phase, once, reported, report>>

DetachModel(m) ==
  /\ phase # "down"
  /\ WithoutFirst(models, m, models')
  /\ UNCHANGED <<predictions, phase, once, reported, report>>

\* The start may fail, but the previous run is forgotten.
Start ==
  /\ phase = "idle"
  /\ phase' \in {"idle", "running"}
  /\ once' \in BOOLEAN
  /\ reported' = FALSE
  /\ UNCHANGED <<predictions, models, report>>

Decide ==
  /\ phase = "running"
  /\ predictions # << >>
  /\ ~(once /\ reported)
  /\ report = NoReport
  /\ \E offered \in SUBSET (1..Len(models)) :
       \E chosen \in offered \cup {0} :
         report' = [ran      |-> predictions,
                    executed |-> models,
                    offered  |-> offered,
                    chosen   |-> chosen]
  /\ reported' = TRUE
  /\ UNCHANGED <<predictions, models, phase, once>>

\* The application's callback returns.
Acknowledge ==
  /\ report # NoReport
  /\ report' = NoReport
  /\ UNCHANGED <<predictions, models, phase, once, reported>>

Halt ==
  /\ phase = "running"
  /\ report = NoReport
  /\ phase' = "idle"
  /\ UNCHANGED <<predictions, models, once, reported, report>>

Teardown ==
  /\ phase = "idle"
  /\ phase' = "down"
  /\ predictions' = << >>
  /\ models' = << >>
  /\ UNCHANGED <<once, reported, report>>

Next ==
  \/ \E p \in Predictions : AttachPrediction(p) \/ DetachPrediction(p)
  \/ \E m \in Models : AttachModel(m) \/ DetachModel(m)
  \/ Start \/ Decide \/ Acknowledge \/ Halt \/ Teardown

Spec == Init /\ [][Next]_vars
===============================================================================

------------------------------- MODULE Pipeline -------------------------------
(***************************************************************************)
(* What flows through one tick, and who owns it: the results of the        *)
(* predictions (prediction_metric_result_t, lib/prediction.c), the copies  *)
(* that each model gets, the decision input that the models fill           *)
(* (lib/decision_input.c, lib/models/dummy.c), its scores (lib/scoring.c)  *)
(* and the model that decision_simple_calc selects.  Flowgraph is about    *)
(* the same tick and its mutex; here nothing is concurrent.                *)
(*                                                                         *)
(* A result is a number, its rank in the order of allocation, and has a    *)
(* name; its graphs and its history are allocated and freed with it.  A    *)
(* score is a number of steps of 1/MaxScore, and a mean of scores is kept  *)
(* as a sum and a sum of weights: what the code does in floating point is  *)
(* exact here.  What score_simple_calc returns is between 0 and 1.0, as it *)
(* is in Curves for predictions whose values are less than 2^31 apart.  A  *)
(* flowgraph without a scoring selects nothing, like one whose scoring has *)
(* no metrics.                                                             *)
(*                                                                         *)
(* Between two ticks the application puts predictions and a scoring        *)
(* together: the metrics of each, and the CSV files of the scoring, none   *)
(* of which is protected by a mutex.                                       *)
(***************************************************************************)
EXTENDS Integers, Sequences, SequencesExt

CONSTANTS Names,        \* Names of metrics and of constraints
          Predictions,
          Constraint,   \* The name that each constraint prediction gives
          Attachable,   \* The metrics that may be attached to the others
          Models,
          Dummies,      \* The models that take every result
          Needs,        \* The results that each other model looks for, in order,
                        \* and its outputs, one for each of them
          Weight,       \* The weight of each name that may be registered
          MaxScore,     \* A score of 1.0
          MaxLength     \* Bound: how many predictions, and models, are attached

ASSUME NamesAssumption ==
  /\ DOMAIN Constraint \subseteq Predictions
  /\ Constraint \in [DOMAIN Constraint -> Names]
  /\ Attachable \in [Predictions \ DOMAIN Constraint -> SUBSET Names]
  /\ Dummies \subseteq Models
  /\ Needs \in [Models \ Dummies -> Seq([result : Names, output : Names])]
  /\ \A m \in Models \ Dummies :
       IsInjective([i \in 1..Len(Needs[m]) |-> Needs[m][i].output])

ASSUME ScoreAssumption ==
  /\ DOMAIN Weight \subseteq Names
  /\ Weight \in [DOMAIN Weight -> Nat \ {0}]
  /\ MaxScore \in Nat \ {0}
  /\ MaxLength \in Nat

VARIABLES metrics,          \* The metrics attached to each prediction
          registered,       \* The metrics of the scoring, each with its file
          csv,              \* The format and the global file of the scoring
          late,             \* Names registered when there were files already
          predictions,      \* What is attached in this tick
          models,
          results,          \* The name of each result, and how often it was freed
          last_prediction,  \* The results of the predictions executed so far
          executed,         \* How many models were executed
          input,            \* The list of results a model was called with
          dim,              \* What the running model has put together
          refused,          \* Results that decision_input_model_add_metric refused
          di,               \* The models of the decision input
          score,            \* Of each of them, a sum and its weights
          dim_sel,
          pc

vars == <<metrics, registered, csv, late, predictions, models, results, last_prediction,
          executed, input, dim, refused, di, score, dim_sel, pc>>

scoring == <<registered, csv, late>>
config == <<metrics, predictions, models>>
chosen == <<score, dim_sel>>
tick == <<predictions, models, results, last_prediction, executed, input, dim,
          refused, di, score, dim_sel, pc>>

NoScoring == [registered |-> << >>, csv |-> [format |-> FALSE, global |-> FALSE]]

Init ==
  /\ metrics = [p \in Predictions |-> << >>]
  /\ registered = NoScoring.registered /\ csv = NoScoring.csv
  /\ late = {}
  /\ predictions = << >> /\ models = << >>
  /\ results = << >>
  /\ last_prediction = << >>
  /\ executed = 0
  /\ input = << >>
  /\ dim = << >>
  /\ refused = {}
  /\ di = << >>
  /\ score = << >>
  /\ dim_sel = 0
  /\ pc = "idle"

(***************************************************************************)
(* What the application does while no tick is under way.                   *)
(***************************************************************************)
\* A metric is found by its name; a new one becomes the first.
Attached(p, n) ==
  IF Contains(metrics[p], n) THEN metrics[p] ELSE <<n>> \o metrics[p]

prediction_attach_metric ==
  /\ pc = "idle"
  /\ \E p \in DOMAIN Attachable : \E n \in Attachable[p] :
       metrics' = [metrics EXCEPT ![p] = Attached(p, n)]
  /\ UNCHANGED <<scoring, tick>>

\* Followed by prediction_create.
prediction_delete ==
  /\ pc = "idle"
  /\ \E p \in Predictions : metrics' = [metrics EXCEPT ![p] = << >>]
  /\ UNCHANGED <<scoring, tick>>

\* The entries of s that are in S, in their order.
Kept(s, S) ==
  LET kept[i \in 0 .. Len(s)] ==
        IF i = 0 THEN << >>
        ELSE IF s[i] \in S THEN Append(kept[i - 1], s[i]) ELSE kept[i - 1]
  IN kept[Len(s)]

Registered == {registered[i].name : i \in 1..Len(registered)}

\* A name that is registered already is refused.
scoring_metric_create ==
  /\ pc = "idle"
  /\ \E n \in DOMAIN Weight \ Registered :
       /\ registered' = <<[name |-> n, file |-> FALSE]>> \o registered
       /\ late' = IF csv.global THEN late \cup {n} ELSE late
  /\ UNCHANGED <<csv, metrics, tick>>

scoring_metric_delete ==
  /\ pc = "idle"
  /\ \E n \in Registered :
       /\ registered' = Kept(registered, {sm \in ToSet(registered) : sm.name # n})
       /\ late' = late \ {n}
  /\ UNCHANGED <<csv, metrics, tick>>

scoring_output_csv ==
  /\ pc = "idle"
  /\ csv' = [csv EXCEPT !.format = TRUE]
  /\ UNCHANGED <<registered, late, metrics, tick>>

\* Followed by scoring_create; all files are closed.
scoring_delete ==
  /\ pc = "idle"
  /\ registered' = NoScoring.registered /\ csv' = NoScoring.csv
  /\ late' = {}
  /\ UNCHANGED <<metrics, tick>>

(***************************************************************************)
(* The results.                                                            *)
(***************************************************************************)
\* prediction_metric_result_create and _copy.
New(names) == [i \in 1..Len(names) |-> [name |-> names[i], freed |-> 0]]

Allocated(names) == results \o New(names)

Fresh(names) == [i \in 1..Len(names) |-> Len(results) + i]

\* prediction_metric_result_delete of each of them.
Deleted(ids) ==
  [i \in 1..Len(results) |->
     IF i \in ids THEN [results[i] EXCEPT !.freed = @ + 1] ELSE results[i]]

NamesOf(ids) == [i \in 1..Len(ids) |-> results[ids[i]].name]

(***************************************************************************)
(* The tick.  Between two ticks anything may be attached and detached; a   *)
(* tick without predictions is in Flowgraph.                               *)
(***************************************************************************)
StartTick ==
  /\ pc = "idle"
  /\ predictions' \in SeqOf(Predictions, MaxLength) \ {<< >>}
  /\ models' \in SeqOf(Models, MaxLength)
  /\ pc' = "predict"
  /\ UNCHANGED <<metrics, scoring, results, last_prediction, executed, input, dim,
                 refused, di, chosen>>

Produces(p) ==
  IF p \in DOMAIN Constraint THEN <<Constraint[p]>> ELSE metrics[p]

\* A prediction has one result for each of its metrics that is not empty
\* (prediction_simple_exec), or one for its constraint.
ExecutePrediction ==
  /\ pc = "predict"
  /\ Len(last_prediction) < Len(predictions)
  /\ LET p == predictions[Len(last_prediction) + 1] IN
       \E empty \in IF p \in DOMAIN Constraint THEN {{}} ELSE SUBSET ToSet(metrics[p]) :
         LET names == Kept(Produces(p), Names \ empty) IN
         /\ results' = Allocated(names)
         /\ last_prediction' = Append(last_prediction, Fresh(names))
  /\ UNCHANGED <<config, scoring, executed, input, dim, refused, di, chosen, pc>>

PredictionsDone ==
  /\ pc = "predict"
  /\ Len(last_prediction) = Len(predictions)
  /\ pc' = "model"
  /\ UNCHANGED <<config, scoring, results, last_prediction, executed, input, dim, refused,
                 di, chosen>>

\* Mutants: the model gets the results themselves, or the first list only.
Union_Shared == [results |-> results, ids |-> FlattenSeq(last_prediction)]

Union_First ==
  LET names == NamesOf(Head(last_prediction)) IN
  [results |-> Allocated(names), ids |-> Fresh(names)]

\* prediction_list_append_list_copy of every list.
Union ==
  LET names == NamesOf(FlattenSeq(last_prediction)) IN
  [results |-> Allocated(names), ids |-> Fresh(names)]

StartModel ==
  /\ pc = "model"
  /\ executed < Len(models)
  /\ executed' = executed + 1
  /\ results' = Union.results
  /\ input' = Union.ids
  /\ dim' = << >>
  /\ pc' = "exec"
  /\ UNCHANGED <<config, scoring, last_prediction, refused, di, chosen>>

model == models[executed]

Has(outputs, name) == \E i \in 1..Len(outputs) : outputs[i].name = name

Metric(name, id) == [name |-> name, prediction |-> id]

\* The loop of model_dummy_exec: the head of the list moves to the decision
\* input, unless decision_input_model_add_metric finds its name there.
TakeHead ==
  /\ pc = "exec" /\ model \in Dummies
  /\ input # << >>
  /\ LET name == results[Head(input)].name IN
       IF Has(dim, name)
       THEN /\ refused' = refused \cup {Head(input)}
            /\ UNCHANGED dim
       ELSE /\ dim' = Append(dim, Metric(name, Head(input)))
            /\ UNCHANGED refused
  /\ input' = Tail(input)
  /\ UNCHANGED <<config, scoring, results, last_prediction, executed, di, chosen, pc>>

\* Mutant: model_exec does not delete what the model left in the list.
Unused_Kept == {}

Unused == ToSet(input)

\* model_exec ends and decision_input_add_model begins.
DummyReturns ==
  /\ pc = "exec" /\ model \in Dummies
  /\ input = << >>
  /\ di' = Append(di, [model |-> model, metrics |-> dim])
  /\ dim' = << >>
  /\ pc' = "model"
  /\ UNCHANGED <<config, scoring, results, last_prediction, executed, input, refused,
                 chosen>>

\* A model that looks for results by name (tests/dvfs/model_perflvl.c,
\* tests/pcap/model_simple_radio.c) puts copies of them next to its outputs,
\* and returns NULL when one is missing.
ResultsFor(m) == [i \in 1..Len(Needs[m]) |-> Needs[m][i].result]

Finds(m, names) == ToSet(ResultsFor(m)) \subseteq names

FindResults ==
  /\ pc = "exec" /\ model \notin Dummies
  /\ \/ /\ Finds(model, ToSet(NamesOf(input)))
        /\ LET names == ResultsFor(model) IN
             /\ results' = Deleted(Unused) \o New(names)
             /\ di' = Append(di,
                  [model   |-> model,
                   metrics |-> [i \in 1..Len(names) |->
                                  Metric(Needs[model][i].output, Fresh(names)[i])]])
     \/ /\ ~Finds(model, ToSet(NamesOf(input)))
        /\ results' = Deleted(Unused)
        /\ UNCHANGED di
  /\ input' = << >>
  /\ pc' = "model"
  /\ UNCHANGED <<config, scoring, last_prediction, executed, dim, refused, chosen>>

(***************************************************************************)
(* scoring_exec: every model's mean over the registered metrics it has.    *)
(* score_simple_calc is any number from 0 to 1.  With a format it opens    *)
(* the files when there is none, and writes a row into each; a file that   *)
(* is not open, and a model without an output for one of the metrics, are  *)
(* dereferenced like any other.  (Every file can be created.)              *)
(***************************************************************************)
\* Mutant: the header of the first metric only is written.
csv_write_header_First ==
  IF csv.format /\ ~csv.global
  THEN [i \in 1..Len(registered) |-> [registered[i] EXCEPT !.file = @ \/ i = 1]]
  ELSE registered

csv_write_header ==
  IF csv.format /\ ~csv.global
  THEN [i \in 1..Len(registered) |-> [registered[i] EXCEPT !.file = TRUE]]
  ELSE registered

csv_write_metric_Fails ==
  csv.format /\ \E i \in 1..Len(registered) :
    \/ ~registered'[i].file
    \/ \E d \in 1..Len(di) : ~Has(di[d].metrics, registered[i].name)

Scored(outputs) == {n \in Registered : Has(outputs, n)}

MeanOf(outputs, calc) ==
  [sum     |-> SumFunction([n \in Scored(outputs) |-> calc[n] * Weight[n]]),
   weights |-> SumFunctionOnSet(Weight, Scored(outputs))]

scoring_exec ==
  /\ pc = "model"
  /\ executed = Len(models)
  /\ registered' = csv_write_header
  /\ csv' = [csv EXCEPT !.global = csv.global \/ csv.format]
  /\ \E calc \in [1..Len(di) -> [Registered -> 0 .. MaxScore]] :
       score' = [d \in 1..Len(di) |-> MeanOf(di[d].metrics, calc[d])]
  /\ pc' = IF csv_write_metric_Fails THEN "crashed" ELSE "decide"
  /\ UNCHANGED <<config, late, results, last_prediction, executed, input, dim, refused,
                 di, dim_sel>>

\* Mutant: the sums are compared, not the means.
Beats_Sum(d, best) == score[d].sum > IF best = 0 THEN 0 ELSE score[best].sum

\* dim->score > best_score.  A mean without weights is NaN and beats nothing;
\* the best score starts at 0.
Beats(d, best) ==
  /\ score[d].weights > 0
  /\ IF best = 0 THEN score[d].sum > 0
     ELSE score[d].sum * score[best].weights > score[best].sum * score[d].weights

\* Mutant: the model after the selected one.
Selected_Next(best) == best + 1

Selected(best) == best

\* decision_simple_calc.
decision_simple_calc ==
  LET best[d \in 0..Len(di)] ==
        IF d = 0 THEN 0
        ELSE IF Beats(d, best[d - 1]) THEN d ELSE best[d - 1]
  IN best[Len(di)]

TakeDecision ==
  /\ pc = "decide"
  /\ dim_sel' = Selected(decision_simple_calc)
  /\ pc' = "report"
  /\ UNCHANGED <<config, scoring, results, last_prediction, executed, input, dim, refused,
                 di, score>>

(***************************************************************************)
(* After the report: decision_input_delete, then the lists.                *)
(***************************************************************************)
OwnedBy(outputs) == {outputs[i].prediction : i \in 1..Len(outputs)}

decision_input_delete ==
  /\ pc = "report"
  /\ results' = Deleted(UNION {OwnedBy(di[d].metrics) : d \in 1..Len(di)})
  /\ di' = << >>
  /\ score' = << >>
  /\ dim_sel' = 0
  /\ pc' = "free"
  /\ UNCHANGED <<config, scoring, last_prediction, executed, input, dim, refused>>

prediction_list_delete ==
  /\ pc = "free"
  /\ results' = Deleted(ToSet(FlattenSeq(last_prediction)))
  /\ last_prediction' = << >>
  /\ pc' = "ended"
  /\ UNCHANGED <<config, scoring, executed, input, dim, refused, di, chosen>>

\* execute_flow_graph returns; what was lost in the tick is lost.
EndTick ==
  /\ pc = "ended"
  /\ predictions' = << >> /\ models' = << >>
  /\ results' = << >>
  /\ refused' = {}
  /\ executed' = 0
  /\ pc' = "idle"
  /\ UNCHANGED <<metrics, scoring, last_prediction, input, dim, di, chosen>>

Next ==
  \/ prediction_attach_metric \/ prediction_delete
  \/ scoring_metric_create \/ scoring_metric_delete
  \/ scoring_output_csv \/ scoring_delete
  \/ StartTick \/ ExecutePrediction \/ PredictionsDone
  \/ StartModel \/ TakeHead \/ DummyReturns \/ FindResults
  \/ scoring_exec \/ TakeDecision
  \/ decision_input_delete \/ prediction_list_delete \/ EndTick

Spec == Init /\ [][Next]_vars
--------------------------------------------------------------------------------
(***************************************************************************)
(* Properties.                                                             *)
(***************************************************************************)
Ids == 1 .. Len(results)

Metrics == [name : Names, prediction : Ids]

TypeOK ==
  /\ metrics \in [Predictions -> Seq(Names)]
  /\ registered \in Seq([name : DOMAIN Weight, file : BOOLEAN])
  /\ csv \in [format : BOOLEAN, global : BOOLEAN]
  /\ late \subseteq Registered
  /\ predictions \in Seq(Predictions)
  /\ models \in Seq(Models)
  /\ results \in Seq([name : Names, freed : {0, 1}])
  /\ last_prediction \in Seq(Seq(Ids))
  /\ Len(last_prediction) <= Len(predictions)
  /\ executed \in 0 .. Len(models)
  /\ input \in Seq(Ids)
  /\ dim \in Seq(Metrics)
  /\ refused \subseteq Ids
  /\ di \in Seq([model : Models, metrics : Seq(Metrics)])
  /\ score \in Seq([sum : Nat, weights : Nat])
  /\ dim_sel \in 0 .. Len(di)
  /\ pc \in {"idle", "predict", "model", "exec", "decide", "report", "free",
            "ended", "crashed"}

PredictionsOf(outputs) == [i \in 1..Len(outputs) |-> outputs[i].prediction]

\* The pointers to results: the lists of the predictions, the list of the
\* running model, what it has put together, and the decision input.
Pointers ==
  FlattenSeq(last_prediction) \o input \o PredictionsOf(dim)
    \o FlattenSeq([d \in 1..Len(di) |-> PredictionsOf(di[d].metrics)])

\* A result has one owner until it is freed, once; nobody else points to it,
\* and nobody points to it afterwards.  (Nobody owns a result that
\* decision_input_model_add_metric refused.)
OneOwner ==
  /\ IsInjective(Pointers)
  /\ \A i \in Ids :
       IF i \in refused THEN results[i].freed = 0 /\ ~Contains(Pointers, i)
       ELSE results[i].freed = IF Contains(Pointers, i) THEN 0 ELSE 1

Produced == ToSet(NamesOf(FlattenSeq(last_prediction)))

NothingShared ==
  \A i, j \in 1..Len(predictions) : i # j =>
    ToSet(Produces(predictions[i])) \cap ToSet(Produces(predictions[j])) = {}

\* The comment of rtgde.c:337, that what a tick allocates is freed with the
\* decision input, is true as long as no two predictions have a metric in
\* common; a dummy model loses the second result of the same name.  One
\* prediction never has two results of the same name.
OnlyDuplicatesLeak ==
  pc = "ended" /\ NothingShared => \A i \in Ids : results[i].freed = 1

\* A model sees the results of all predictions, whatever the models before
\* it took out of their lists: it has an output if it finds what it needs.
ModelsSeeAll ==
  pc = "decide" =>
    /\ [d \in 1..Len(di) |-> di[d].model]
         = Kept(models, {m \in Models : m \in Dummies \/ Finds(m, Produced)})
    /\ \A d \in 1..Len(di) :
         ToSet(NamesOf(PredictionsOf(di[d].metrics)))
           = IF di[d].model \in Dummies THEN Produced ELSE ToSet(ResultsFor(di[d].model))

\* The selected model has the highest mean, be it over fewer metrics than
\* another's; a model without a registered metric is never selected, and one
\* with a mean above 0 always leads to a selection.
BestSelected ==
  pc = "report" =>
    /\ dim_sel # 0 =>
         /\ score[dim_sel].weights > 0
         /\ \A d \in 1..Len(di) :
              score[d].sum * score[dim_sel].weights
                <= score[dim_sel].sum * score[d].weights
    /\ dim_sel = 0 => \A d \in 1..Len(di) : score[d].sum = 0

\* The CSV output of the scoring dereferences NULL for a model without an
\* output for a registered metric, and for a metric that was registered after
\* the first tick with output, and for no other reason.
CsvCrashExplained ==
  pc = "crashed" =>
    \/ late # {}
    \/ \E d \in 1..Len(di) : Scored(di[d].metrics) # Registered
================================================================================

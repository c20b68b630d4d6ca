\* One or two predictions and up to two models, in any order and twice the
\* same, over several ticks.
CONSTANTS
  average = average
  simple = simple
  constraint = constraint
  dummy = dummy
  perflvl = perflvl
  radio = radio
  usage = usage
  latency = latency
  power = power
  consumption = consumption
  Names = {usage, latency, power, consumption}
  Predictions <- PredictionKinds
  Constraint <- ConstraintNames
  Attachable <- AttachableNames
  Models = {dummy, perflvl, radio}
  Dummies = {dummy}
  Needs <- NeededNames
  Weight <- Weights
  MaxScore = 2
  MaxLength = 2
SPECIFICATION Spec
INVARIANTS
  TypeOK
  OneOwner
  OnlyDuplicatesLeak
  ModelsSeeAll
  BestSelected
  CsvCrashExplained
CHECK_DEADLOCK FALSE

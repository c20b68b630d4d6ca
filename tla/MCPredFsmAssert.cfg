\* One metric, whose history is read again at the next tick.
CONSTANTS
  UserStates = {a, b}
  NoState = NoState
  TimeModulus = 10
  prediction_length_us = 4
  transition_resolution_us = 2
  MaxTime = 6
  MetricCount = 1
  HistorySize = 3
  Feeds <- OnlySpaced
SPECIFICATION PredSpec
INVARIANT
  SamplesComeLater

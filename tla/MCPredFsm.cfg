\* Two metrics that hold two samples each: four samples at most, more than a
\* microsecond apart, or any number that share two timestamps.
CONSTANTS
  UserStates = {a, b}
  NoState = NoState
  TimeModulus = 10
  prediction_length_us = 4
  transition_resolution_us = 2
  MaxTime = 6
  MetricCount = 2
  HistorySize = 3
  Feeds <- SpacedOrEqual
SPECIFICATION FairPredSpec
INVARIANTS
  ReadsInBounds
  MergeOrdered
  FollowsMetrics
  ChangesCountedOnce
  NothingLeftBehind
PROPERTY
  TickEnds

\* The same, for the bounds of the histograms.
CONSTANTS
  UserStates = {a, b, c}
  NoState = NoState
  TimeModulus = 16
  prediction_length_us = 8
  transition_resolution_us = 2
  MaxTime = 12
SPECIFICATION Spec
INVARIANT
  WritesInBounds

\* Three states, histograms of four entries of two microseconds each, and
\* stays from two microseconds to longer than the histogram.
CONSTANTS
  UserStates = {a, b, c}
  NoState = NoState
  TimeModulus = 16
  prediction_length_us = 8
  transition_resolution_us = 2
  MaxTime = 12
SPECIFICATION Spec
INVARIANTS
  GraphComplete
  TotalsAddUp
  DensitiesReadable
PROPERTIES
  DwellSpec

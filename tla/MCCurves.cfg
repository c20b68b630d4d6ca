\* Curves of up to three points between the times 0 and 3, with values up to 2.
CONSTANTS
  ValueModulus = 16384
  SumModulus = 32768
  Unit = 5040
  Lengths = {1, 2, 3}
  Factors = {1, 2, 3}
  Dumps <- Histories
  Constraints <- SomeConstraints
  UserCurves <- SomeCurves
  UserOutputs <- AnyOutput
  Delay = 1
  Precision = 128
  One = 1024
  Steps <- SomeSteps
  Moments <- SomeMoments
SPECIFICATION Spec
INVARIANTS
  ScoreInRange
  ScoreIsMean
  OnlyBadCurvesAbort
  RowsFollowCurves
  AverageInside
  IntegralExact
CHECK_DEADLOCK FALSE

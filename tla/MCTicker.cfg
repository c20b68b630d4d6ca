\* Ticks of two microseconds over seven, started twice; sums of four bits.
CONSTANTS
  update_period_us = 2
  SumModulus = 16
  Horizon = 7
  MaxStarts = 2
SPECIFICATION Spec
INVARIANTS
  KeepsSchedule
  MissesArePaid
  MissesAreTicks
  StatisticsSound
CHECK_DEADLOCK FALSE

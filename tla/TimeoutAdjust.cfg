SPECIFICATION Spec
CONSTANTS
  None = None
  Timers = {1, 2}
  WordSize = 16
  Time64Size = 32
  SystemTimeKept = TRUE
  DurationMax = 7
  UserHeadroom = 2
  HardHeadroom = 4
  MaxTickCount = 9
  MaxTimeout = 6
  MaxLatency = 1
  MaxBusy = 1
  InitActive = {1, 2}
  InitDelay <- MCInitDelay
  InitPeriod <- MCInitPeriod
  Services = {"early_tick"}
  Delays = {}
  Periods = {15}
  Deltas <- MCBothWays
  SysTimes = {17}
INVARIANTS
  DistanceExact
  ArrivalBounded
PROPERTIES
  TimeSteady

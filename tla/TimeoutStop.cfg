SPECIFICATION FairSpec
CONSTANTS
  None = None
  Timers = {1, 2}
  WordSize = 9
  Time64Size = 18
  SystemTimeKept = FALSE
  DurationMax = 3
  UserHeadroom = 1
  HardHeadroom = 3
  MaxTickCount = 8
  MaxTimeout = 2
  MaxLatency = 1
  MaxBusy = 1
  InitActive = {1, 2}
  InitDelay <- MCInitDelay
  InitPeriod <- MCInitPeriod
  Services = {"start", "stop", "fall_silent"}
  Delays = {3, 8}
  Periods = {}
  Deltas = {}
  SysTimes = {}
INVARIANTS
  TickInTime
  TimerLinked
PROPERTIES
  NeverEarly
  TimerFires

SPECIFICATION Spec
CONSTANTS
  None = None
  Timers = {1}
  WordSize = 16
  Time64Size = 32
  SystemTimeKept = TRUE
  DurationMax = 7
  UserHeadroom = 2
  HardHeadroom = 4
  MaxTickCount = 9
  MaxTimeout = 6
  MaxLatency = 0
  MaxBusy = 0
  InitActive = {1}
  InitDelay <- MCInitDelay
  InitPeriod <- MCOneShot
  Services = {}
  Delays = {7}
  Periods = {}
  Deltas = {}
  SysTimes = {}
PROPERTIES
  TimeSteady

SPECIFICATION SuiteSpec
CONSTANTS
  None = None
  Isr = Isr
  Tasks = {1, 10, 11, 12, 20, 21, 22, 23, 30, 40, 150}
  InitActive = {}
  Mutexes = {"m0", "m1", "m2", "c0", "c1", "c2", "c3"}
  Semaphores = {"s01", "s02", "s11", "s12"}
  EventGroups = {"ef", "ep"}
  Objects = {"m0", "m1", "m2", "c0", "c1", "c2", "c3", "s01", "s02", "s11", "s12", "ef", "ep"}
  Bits = {0, 1, 2, 3, 4, 5}
  NumPrio = 16
  InitPrio <- MCInitPrio
  QueueOrder <- MCQueueOrder
  Ceiling <- MCCeiling
  MaxValue <- MCMaxValue
  InitValue <- MCInitValue
  SignalCounts = {}
  Conditions = {}
  SetArguments = {}
  SettablePrio = {}
  Services = {}
INVARIANTS
  SuitePasses
  ResultsDeclared
PROPERTIES
  SuiteSucceeds

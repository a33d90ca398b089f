SPECIFICATION MCFairSpec
CONSTANTS
  m1 = m1
  m2 = m2
  None = None
  Isr = Isr
  QueueOrder <- MCQueueOrder
  Ceiling <- MCCeiling
  InitPrio <- MCInitPrio
  Tasks = {1, 2, 3}
  InitActive = {1, 2}
  Objects = {m2}
  Mutexes = {m2}
  NumPrio = 3
  SettablePrio = {0, 2}
  Services = {"activate", "exit", "set_priority", "boost", "handler", "cpu_lock"}
PROPERTIES
  HighestDispatched

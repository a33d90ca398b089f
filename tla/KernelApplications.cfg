SPECIFICATION MCSpec
CONSTANTS
  m1 = m1
  m2 = m2
  None = None
  Isr = Isr
  QueueOrder <- MCQueueOrder
  Ceiling <- MCCeiling
  InitPrio <- MCInitPrio
  Tasks = {1, 2, 3}
  InitActive = {1, 2}
  Objects = {m1, m2}
  Mutexes = {m1, m2}
  NumPrio = 3
  SettablePrio = {0, 2}
  Services = {"activate", "exit", "set_priority", "lock", "try_lock", "unlock", "mark_consistent", "handler"}
INVARIANTS
  TypeOK
  ReadyQueueExact
  NoLostPreemption
  RunningTaskUnique
  ParkTokenConsumed
  WaitQueueSorted
  MutexOwnership
  EffectivePriorityLaw
  WaitQueueExact
  WaitResultLegal
  LockResultExact
PROPERTIES
  DispatchLegal
  HandoverLegal

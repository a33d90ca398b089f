SPECIFICATION MCSpec
CONSTANTS
  s1 = s1
  e1 = e1
  bitA = bitA
  bitB = bitB
  None = None
  Isr = Isr
  Tasks = {1, 2, 3}
  InitActive = {1, 2, 3}
  Objects = {s1, e1}
  Mutexes = {}
  Semaphores = {s1}
  EventGroups = {e1}
  Bits = {bitA, bitB}
  NumPrio = 2
  InitPrio <- MCInitPrio
  QueueOrder <- MCQueueOrder
  Ceiling <- MCCeiling
  MaxValue <- MCMaxValue
  InitValue <- MCInitValue
  SignalCounts = {1, 2}
  Conditions <- MCConditions
  SetArguments <- MCSetArguments
  SettablePrio = {}
  MaxDefined = 2
  MaxExecutables = 0
  MaxUses = 2
  SyTasks = {1, 2, 3}
  Plain = {"plain"}
  Recursive = {"recursive"}
  LevelWord = 8
  StTasks = {1, 2, 3}
  WordLen = 2
  Groups = 2
  Arrival <- MCArrival
  BitmapLens = {0, 1, 2, 3, 4, 7, 12, 20}
  MaxOnes = 3
  MarkedBy = "holder"
  NoOne = NoOne
  Services = {"timed", "handler"}
INVARIANTS
  BorrowRules

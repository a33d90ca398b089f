------------------------------ MODULE MCSuite ------------------------------
(***************************************************************************)
(* Suite for TLC: the objects that the tests configure.                    *)
(***************************************************************************)
EXTENDS Suite

MCInitPrio == [t \in Tasks |-> t \div 10]
MCQueueOrder == [o \in Objects |-> IF o = "ef" THEN "Fifo" ELSE "TaskPriority"]
MCCeiling == [m \in Mutexes |->
  CASE m = "c0" -> 0 [] m = "c1" -> 1 [] m = "c2" -> 2 [] m = "c3" -> 3
    [] OTHER -> NumPrio]
MCMaxValue == [s \in Semaphores |-> IF s \in {"s01", "s11"} THEN 1 ELSE 2]
MCInitValue == [s \in Semaphores |-> IF s \in {"s01", "s02"} THEN 0 ELSE 1]
=============================================================================

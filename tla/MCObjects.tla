----------------------------- MODULE MCObjects -----------------------------
(***************************************************************************)
(* For TLC: applications that use a semaphore, an event group, bindings,   *)
(* and mutexes with data, and the data structures under the kernel.  The   *)
(* second one waits without timeouts.                                      *)
(***************************************************************************)
EXTENDS Semaphore, EventGroup, Bind, Sync, Structures

CONSTANTS s1, e1, bitA, bitB

VARIABLE application

MCInitPrio == [t \in Tasks |-> IF t = 1 THEN 0 ELSE 1]
MCQueueOrder == [o \in Objects |-> IF o = s1 THEN "TaskPriority" ELSE "Fifo"]
MCCeiling == [m \in Mutexes |-> NumPrio]
MCMaxValue == [s \in Semaphores |-> 2]
MCInitValue == [s \in Semaphores |-> 0]

\* Any of two bits, both of them, and none, which is never satisfied without
\* ALL; clearing and not.
MCConditions ==
  { [bits |-> {bitA, bitB}, all |-> FALSE, clear |-> TRUE],
    [bits |-> {bitA, bitB}, all |-> TRUE,  clear |-> FALSE],
    [bits |-> {},     all |-> FALSE, clear |-> FALSE] }

MCSetArguments == {{bitA}, {bitA, bitB}}

\* Two timeouts arrive at the same time.
MCArrival == <<1, 2, 3, 3, 4, 5, 6>>

MCInit == /\ SemInit /\ GroupInit /\ BindInit /\ SyncInit /\ StInit
          /\ application \in {"semaphore", "event group", "bindings", "data", "structures"}
          /\ application # "structures" => stPart.kind = "sort"

MCNext ==
  /\ UNCHANGED application
  /\ \/ /\ application = "semaphore" /\ SemNext
        /\ UNCHANGED <<groupVars, bdVars, syVars, stVars>>
     \/ /\ application = "event group" /\ GroupNext
        /\ UNCHANGED <<semVars, bdVars, syVars, stVars>>
        /\ \A t \in Tasks : ~timeout'[t]
     \/ /\ application = "bindings" /\ BindNext
        /\ UNCHANGED <<vars, semVars, groupVars, syVars, stVars>>
     \/ /\ application = "data" /\ SyncNext
        /\ UNCHANGED <<vars, semVars, groupVars, bdVars, stVars>>
     \/ /\ application = "structures" /\ StNext
        /\ UNCHANGED <<vars, semVars, groupVars, bdVars, syVars>>

\* A panic, a refused configuration, a system without executables, a bitmap of
\* no bits, and a slice that is full.
MCStopped ==
  /\ \/ application = "bindings" /\ bdPhase \in {"panicked", "refused"}
     \/ application = "bindings" /\ bdPhase = "running" /\ Executables \cap DOMAIN bdFuncs = {}
     \/ application = "data" /\ syPanic # "none"
     \/ application = "structures" /\ stPart.kind = "word" /\ stPart.len = 0
     \/ application = "structures" /\ stPart.kind = "sort" /\ Len(stVec) = 5
  /\ UNCHANGED <<vars, semVars, groupVars, bdVars, syVars, stVars, application>>

MCSpec == MCInit /\ [][MCNext \/ MCStopped]_<<vars, semVars, groupVars, bdVars, syVars, stVars, application>>
=============================================================================

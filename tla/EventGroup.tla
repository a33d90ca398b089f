----------------------------- MODULE EventGroup -----------------------------
(***************************************************************************)
(* Event groups (event_group.rs) over the tasks and wait queues of Kernel. *)
(*                                                                         *)
(* set offers the new bits to the waiters one after the other; a waiter    *)
(* whose condition they satisfy is woken up and may clear bits before the  *)
(* next one sees them.  The loop of wake_up_all_conditional is one step    *)
(* per waiter, with CPU Lock held; the bits it works on are a local copy   *)
(* that is stored when the loop ends.                                      *)
(***************************************************************************)
EXTENDS Kernel

CONSTANTS
  EventGroups,
  Bits,           \* the bits of EventGroupBits in use
  Conditions,     \* the wait conditions to consider
  SetArguments    \* the arguments of set and clear to consider

\* A wait condition: bits, and the flags ALL and CLEAR
Condition == [bits : SUBSET Bits, all : BOOLEAN, clear : BOOLEAN]

ASSUME EventGroupAssumption ==
  /\ EventGroups \subseteq Objects
  /\ EventGroups \cap Mutexes = {}
  /\ Conditions \subseteq Condition
  /\ SetArguments \subseteq SUBSET Bits

VARIABLES
  bits,           \* EventGroupCb::bits
  payload,        \* WaitPayload::EventGroupBits: the condition ...
  orig_bits,      \* ... and the value returned
  setting         \* the local variables of the call of set under way: its copy
                  \* of the bits, the next position to look at, whether it woke
                  \* up a task, and who calls it

Setting == [group : EventGroups, bits : SUBSET Bits, next : Nat, woke : BOOLEAN,
            by : Context]

ASSUME SettingAssumption == None \notin Setting

groupVars == <<bits, payload, orig_bits, setting>>
groupAllVars == <<vars, groupVars>>

GroupInit ==
  /\ Init
  /\ bits = [e \in EventGroups |-> {}]
  /\ payload = [t \in Tasks |-> None]
  /\ orig_bits = [t \in Tasks |-> {}]
  /\ setting = None

-----------------------------------------------------------------------------
\* The two halves of poll_core: whether the bits b satisfy a condition, and
\* what is left of them then.
Satisfies(b, cond) ==
  IF cond.all THEN cond.bits \subseteq b ELSE b \cap cond.bits # {}

Remaining(b, cond) == IF cond.clear THEN b \ cond.bits ELSE b

\* wait, wait_timeout and poll with a condition that holds
PollGroup(c, e, cond) ==
  /\ InContext(c)
  /\ Satisfies(bits[e], cond)
  /\ bits' = [bits EXCEPT ![e] = Remaining(@, cond)]
  /\ UNCHANGED <<vars, payload, orig_bits, setting>>

\* wait and wait_timeout with one that does not
WaitGroup(t, e, cond, timed) ==
  /\ WaitableContext(t)
  /\ ~Satisfies(bits[e], cond)
  /\ BeginWait(t, e, timed)
  /\ payload' = [payload EXCEPT ![t] = cond]
  /\ orig_bits' = [orig_bits EXCEPT ![t] = {}]
  /\ UNCHANGED <<park_token, cpuVars, yield_pending, mutexVars, bits, setting>>

\* set; nothing happens if the bits are all set already
SetBits(c, e, added) ==
  /\ InContext(c)
  /\ ~(added \subseteq bits[e])
  /\ setting' = [group |-> e, bits |-> bits[e] \cup added, next |-> 1,
                 woke |-> FALSE, by |-> c]
  /\ cpu_lock' = "service"
  /\ UNCHANGED <<taskVars, prioVars, park_token, waitVars, stackVars, pc,
                 priority_boost, interrupt, yield_pending, mutexVars, bits,
                 payload, orig_bits>>

\* The waiter that the loop of wake_up_all_conditional looks at
Candidate == wait_queue[setting.group][setting.next]

\* Mutant: the waiter is told the bits that are left.
SetWakeUpLeft ==
  /\ setting # None
  /\ setting.next <= Len(wait_queue[setting.group])
  /\ Satisfies(setting.bits, payload[Candidate])
  /\ UNCHANGED prioVars
  /\ wait_queue' = [wait_queue EXCEPT ![setting.group] = RemoveAt(@, setting.next)]
  /\ CompleteWait(Candidate, "Ok")
  /\ orig_bits' = [orig_bits EXCEPT
                     ![Candidate] = Remaining(setting.bits, payload[Candidate])]
  /\ setting' = [setting EXCEPT !.woke = TRUE,
                                !.bits = Remaining(@, payload[Candidate])]
  /\ UNCHANGED <<running_task, park_token, stackVars, pc, cpuVars,
                 yield_pending, mutexVars, bits, payload>>

SetWakeUp ==
  /\ setting # None
  /\ setting.next <= Len(wait_queue[setting.group])
  /\ Satisfies(setting.bits, payload[Candidate])
  /\ UNCHANGED prioVars
  /\ wait_queue' = [wait_queue EXCEPT ![setting.group] = RemoveAt(@, setting.next)]
  /\ CompleteWait(Candidate, "Ok")
  /\ orig_bits' = [orig_bits EXCEPT ![Candidate] = setting.bits]
  /\ setting' = [setting EXCEPT !.woke = TRUE,
                                !.bits = Remaining(@, payload[Candidate])]
  /\ UNCHANGED <<running_task, park_token, stackVars, pc, cpuVars,
                 yield_pending, mutexVars, bits, payload>>

\* Mutant: the search stops at the first waiter that cannot go on.
SetSkipRest ==
  /\ setting # None
  /\ setting.next <= Len(wait_queue[setting.group])
  /\ ~Satisfies(setting.bits, payload[Candidate])
  /\ setting' = [setting EXCEPT !.next = Len(wait_queue[setting.group]) + 1]
  /\ UNCHANGED <<vars, bits, payload, orig_bits>>

SetSkip ==
  /\ setting # None
  /\ setting.next <= Len(wait_queue[setting.group])
  /\ ~Satisfies(setting.bits, payload[Candidate])
  /\ setting' = [setting EXCEPT !.next = @ + 1]
  /\ UNCHANGED <<vars, bits, payload, orig_bits>>

SetEnd ==
  /\ setting # None
  /\ setting.next > Len(wait_queue[setting.group])
  /\ bits' = [bits EXCEPT ![setting.group] = setting.bits]
  /\ setting' = None
  /\ cpu_lock' = "free"
  /\ UNCHANGED <<taskVars, prioVars, park_token, waitVars, stackVars,
                 priority_boost, interrupt, mutexVars, payload, orig_bits>>
  /\ IF setting.woke THEN UnlockCpuAndCheckPreemption(setting.by, pc)
                     ELSE UNCHANGED <<pc, yield_pending>>

ClearBits(c, e, removed) ==
  /\ InContext(c)
  /\ bits' = [bits EXCEPT ![e] = @ \ removed]
  /\ UNCHANGED <<vars, payload, orig_bits, setting>>

EventGroupService ==
  \/ \E c \in Context, e \in EventGroups :
       \/ \E cond \in Conditions : PollGroup(c, e, cond)
       \/ \E b \in SetArguments : SetBits(c, e, b) \/ ClearBits(c, e, b)
  \/ \E t \in Tasks, e \in EventGroups, cond \in Conditions, timed \in Timed :
       WaitGroup(t, e, cond, timed)
  \/ SetWakeUp
  \/ SetSkip
  \/ SetEnd

GroupNext ==
  \/ Next /\ UNCHANGED groupVars
  \/ EventGroupService

GroupSpec == GroupInit /\ [][GroupNext]_groupAllVars

-----------------------------------------------------------------------------
(* Properties *)

\* No wake-up is lost: outside the loop of set, no task waits for a condition
\* that the bits satisfy, although set returns early when no bit is new and
\* looks at every waiter once while the bits shrink.
NoSatisfiedWaiter ==
  \A e \in EventGroups : setting = None \/ setting.group # e =>
    \A i \in DOMAIN wait_queue[e] : ~Satisfies(bits[e], payload[wait_queue[e][i]])

\* A wait on an event group that succeeded returns bits that satisfied its
\* condition.
WokenBySatisfyingBits ==
  \A t \in Tasks :
    WaitCompleted(t) /\ frame[t].on \in EventGroups /\ wait_result[t] = "Ok" =>
      Satisfies(orig_bits[t], payload[t])

=============================================================================

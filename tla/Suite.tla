-------------------------------- MODULE Suite --------------------------------
(***************************************************************************)
(* The programs of Scripts on the kernel of Kernel, Semaphore and          *)
(* EventGroup: what each call returns, in the order in which the code      *)
(* checks for errors, which tasks run and which handlers are active.       *)
(*                                                                         *)
(* Pended interrupt lines are taken before anything else when the current  *)
(* handler, CPU Lock and their own state allow it.  The timer interrupt    *)
(* and interrupts of other devices come at any time, but time advances     *)
(* only while no task runs or the running task spins: the tests assume     *)
(* that computing takes no time on the scale of their delays.              *)
(***************************************************************************)
EXTENDS Semaphore, EventGroup, Scripts, Errors

VARIABLES
  test,        \* the test: its name, its configuration and its programs
  ip,          \* the next instruction of every program
  cell,        \* the SeqTrackers and other memory cells of the test
  verdict,     \* Driver::success or a panic
  line,        \* the interrupt lines
  active,      \* the stack of the active interrupt handlers
  now, due     \* the time, and when the timeout of a task expires

suiteVars == <<test, ip, cell, verdict, line, active, now, due>>
allVars == <<vars, semVars, groupVars, suiteVars>>

Lines == {Line0, Line1}
Programs == Tasks \cup Lines \cup {Hook}
Cells == {"seq", "state", "data0", "data1", "level0"}

\* The handlers of one line are called one after the other; CPU Lock is released
\* before the next one if the last one left it active.
Chain(parts) ==
  FlattenSeq([n \in DOMAIN parts |->
    IF n = Len(parts) THEN parts[n] ELSE Append(parts[n], Do("relinquish", 0))])

\* Mutant: the handlers are called in the order of their definition.
CombinedUnsorted(handlers, l) ==
  LET own == SelectSeq(handlers, LAMBDA h : h.line = l)
  IN  Chain([n \in DOMAIN own |-> own[n].prog])

\* Handlers are sorted by line and priority, those of one priority in the order
\* of their definition.
Combined(handlers, l) ==
  LET own   == SelectSeq(handlers, LAMBDA h : h.line = l)
      before(i, j) == \/ own[i].pri < own[j].pri
                      \/ own[i].pri = own[j].pri /\ i < j
      order == SortSeq([i \in DOMAIN own |-> i], before)
  IN  Chain([n \in DOMAIN order |-> own[order[n]].prog])

\* The start-up hooks, sorted in the same way, run one after the other with CPU
\* Lock active.
SortedHooks(hooks) ==
  SelectSeq(Combined(hooks, Hook), LAMBDA i : i.f # "relinquish")

\* App::new of the test of this name
Configured(name) ==
  LET t == Tests[name] IN
  [name |-> name, active |-> t.active, lines |-> t.lines,
   prog |-> [c \in Programs |->
     IF c \in DOMAIN t.tasks THEN t.tasks[c]
     ELSE IF c = Hook THEN SortedHooks(t.hooks) ELSE Combined(t.handlers, c)]]

SuiteInit ==
  /\ SemInit
  /\ bits = [e \in EventGroups |-> {}]
  /\ payload = [t \in Tasks |-> None]
  /\ orig_bits = [t \in Tasks |-> {}]
  /\ setting = None
  /\ test \in {Configured(name) : name \in DOMAIN Tests}
  /\ ip = [c \in Programs |-> 0]
  /\ cell = [k \in Cells |-> 0]
  /\ verdict = "configure"
  /\ line = [l \in Lines |-> [pri |-> 0, enabled |-> FALSE, pended |-> FALSE]]
  /\ active = <<>>
  /\ now = 0
  /\ due = [t \in Tasks |-> 0]

\* The rest of the boot, with InterruptAttr::init: the active tasks will be
\* activated, and the configured lines get their priorities and are enabled.
Configure ==
  /\ verdict = "configure"
  /\ verdict' = "running"
  /\ st' = [t \in Tasks |-> IF t \in test.active THEN "PendingActivation"
                                                        ELSE "Dormant"]
  /\ line' = [l \in Lines |->
       IF l \in DOMAIN test.lines
         THEN [pri |-> test.lines[l].pri, enabled |-> test.lines[l].enabled,
               pended |-> FALSE]
         ELSE line[l]]
  /\ ip' = [c \in Programs |-> 1]
  /\ UNCHANGED <<running_task, prioVars, park_token, queueVars, waitVars, stackVars, pc,
                 cpuVars, yield_pending, mutexVars, semVars, groupVars, test, cell,
                 active, now, due>>

-----------------------------------------------------------------------------
(* Contexts *)

\* The line is pended and may interrupt what executes.  Lines with a negative
\* priority are unmanaged: CPU Lock does not mask them.
Deliverable(l) ==
  /\ line[l].pended /\ line[l].enabled
  /\ (active # <<>> => line[l].pri < line[Last(active)].pri)
  /\ IF line[l].pri < 0 THEN cpu_lock \in {"free", "app"} ELSE cpu_lock = "free"
  /\ active # <<>> \/ interrupt = "none"

Undisturbed == verdict = "running" /\ \A l \in Lines : ~Deliverable(l)

\* c executes its program.
InControl(c) ==
  /\ Undisturbed
  /\ IF active # <<>> THEN c = Last(active) /\ cpu_lock \in {"free", "app"}
     ELSE IF cpu_lock = "boot"
       THEN c = Hook /\ \A t \in Tasks : st[t] # "PendingActivation"
       ELSE /\ cpu_lock \in {"free", "app"} /\ interrupt = "none"
            /\ c = running_task /\ pc[c] = "run"

AtEnd(c) == ip[c] > Len(test.prog[c])
Now(c) == test.prog[c][ip[c]]

\* The context as the kernel sees it
Caller(c) == IF c \in Tasks THEN c ELSE Isr

-----------------------------------------------------------------------------
(* The results of the services *)

\* Allowed everywhere; allowed in a task only; allowed in a task that may wait
AnywhereServices == {"has_cpu_lock", "is_priority_boost_active", "is_task_context",
  "is_interrupt_context", "is_boot_complete", "pend", "line_clear", "enable", "disable",
  "is_pending", "relinquish"}
TaskServices == {"boost_priority", "unboost_priority", "current", "try_lock",
  "line_set_priority", "line_set_priority_unchecked"}
WaitableServices == {"park", "sleep", "lock", "unlock", "wait", "wait_one"}

BadContext(c, i) ==
  /\ i.f \notin AnywhereServices
  /\ IF i.f = "release_cpu_lock" THEN cpu_lock # "app"
     ELSE IF i.f = "exit_task" THEN c \notin Tasks
     ELSE \/ cpu_lock # "free"
          \/ i.f \in TaskServices /\ c \notin Tasks
          \/ i.f \in WaitableServices /\ (c \notin Tasks \/ priority_boost)
          \/ i.f = "boost_priority" /\ priority_boost
          \/ i.f = "unboost_priority" /\ ~priority_boost

\* set_priority of a task and of a line check their argument first, and so do
\* the services with a timeout: time32_from_duration refuses a negative one.
ManagedPriorities == {0, 1}
Negative == -2
BadParam(i) ==
  \/ i.delay = Negative
  \/ i.f = "set_priority" /\ i.arg \notin Prio
  \/ i.f = "line_set_priority" /\ i.arg \notin ManagedPriorities

\* The kernel looks at the object.
LockResult(t, m, otherwise) ==
  IF owning_task[m] = t THEN "WouldDeadlock"
  ELSE IF ~CeilingAllows(m, base_priority[t]) THEN "BadParam"
  ELSE IF owning_task[m] # None THEN otherwise
  ELSE IF inconsistent[m] THEN "Abandoned" ELSE "Ok"

UnlockResult(t, m) ==
  IF owning_task[m] # t THEN "NotOwner"
  ELSE IF Last(held[t]) # m THEN "BadObjectState" ELSE "Ok"

UnparkExactResult(t) ==
  IF st[t] = "Dormant" THEN "BadObjectState"
  ELSE IF park_token[t] THEN "QueueOverflow" ELSE "Ok"

SetPriorityResult(t, p) ==
  IF st[t] = "Dormant" THEN "BadObjectState"
  ELSE IF p = base_priority[t] \/ SetPriorityAllowed(t, p) THEN "Ok" ELSE "BadParam"

ObjectResult(c, i) ==
  LET x == i.x
      Unless(good, error) == IF good THEN "Ok" ELSE error
  IN CASE i.f = "activate"     -> Unless(st[x] = "Dormant", "QueueOverflow")
       [] i.f = "interrupt"    -> Unless(st[x] = "Waiting", "BadObjectState")
       [] i.f = "unpark_exact" -> UnparkExactResult(x)
       [] i.f = "unpark"       -> Unless(st[x] # "Dormant", "BadObjectState")
       [] i.f \in {"priority", "effective_priority"} ->
                                  Unless(st[x] # "Dormant", "BadObjectState")
       [] i.f = "set_priority" -> SetPriorityResult(x, i.arg)
       [] i.f = "park"         -> Unless(park_token[c], "Block")
       [] i.f = "sleep"        -> "Block"
       [] i.f = "lock"         -> LockResult(c, x, "Block")
       [] i.f = "try_lock"     -> LockResult(c, x, "Timeout")
       [] i.f = "unlock"       -> UnlockResult(c, x)
       [] i.f = "mark_consistent" -> Unless(inconsistent[x], "BadObjectState")
       [] i.f = "signal"       -> Unless(i.arg <= MaxValue[x] - value[x], "QueueOverflow")
       [] i.f = "poll_one"     -> Unless(value[x] > 0, "Timeout")
       [] i.f = "wait_one"     -> Unless(value[x] > 0, "Block")
       [] i.f = "poll"         -> Unless(Satisfies(bits[x], i.arg), "Timeout")
       [] i.f = "wait"         -> Unless(Satisfies(bits[x], i.arg), "Block")
       [] OTHER                -> "Ok"

Result(c, i) ==
  IF BadParam(i) THEN "BadParam"
  ELSE IF BadContext(c, i) THEN "BadContext"
  ELSE ObjectResult(c, i)

\* What a query returns
Value(c, i) ==
  CASE i.f = "has_cpu_lock"             -> cpu_lock # "free"
    [] i.f = "is_priority_boost_active" -> priority_boost
    [] i.f = "is_task_context"          -> c \in Tasks
    [] i.f = "is_interrupt_context"     -> c \in Lines
    [] i.f = "is_boot_complete"         -> cpu_lock # "boot"
    [] i.f = "is_pending"               -> line[i.x].pended
    [] i.f = "current"                  -> running_task
    [] i.f = "priority"                 -> base_priority[i.x]
    [] i.f = "effective_priority"       -> effective_priority[i.x]
    [] i.f = "is_locked"                -> owning_task[i.x] # None
    [] i.f = "get"                      -> value[i.x]
    [] i.f = "get_bits"                 -> bits[i.x]

Queries == {"has_cpu_lock", "is_priority_boost_active", "is_task_context",
  "is_interrupt_context", "is_boot_complete", "is_pending", "current", "priority",
  "effective_priority", "is_locked", "get", "get_bits"}

-----------------------------------------------------------------------------
(* The effects of the services that succeed *)

KernelUnchanged == UNCHANGED <<vars, semVars, groupVars>>

\* The kernel actions of a call that returns Ok or Abandoned at once
TaskEffect(k, i) ==
  \/ i.f = "activate" /\ Activate(k, i.x)
  \/ i.f = "interrupt" /\ TaskInterrupt(k, i.x)
  \/ i.f \in {"unpark", "unpark_exact"} /\ UnparkParked(k, i.x)
  \/ i.f \in {"unpark", "unpark_exact"} /\ UnparkToken(k, i.x)
  \/ i.f = "set_priority" /\ SetTaskBasePriority(k, i.x, i.arg)
  \/ i.f = "park" /\ ParkWithToken(k)
  \/ i.f = "exit_task" /\ ExitTask(k)
  \/ i.f = "acquire_cpu_lock" /\ AcquireCpuLock(k)
  \/ i.f \in {"release_cpu_lock", "relinquish"} /\ ReleaseCpuLock
  \/ i.f = "boost_priority" /\ BoostPriority(k)
  \/ i.f = "unboost_priority" /\ UnboostPriority(k)
  \/ i.f \in {"lock", "try_lock"} /\ TryLockMutex(k, i.x)
  \/ i.f = "unlock" /\ UnlockMutex(k, i.x)
  \/ i.f = "mark_consistent" /\ MarkConsistentMutex(k, i.x)

SemaphoreEffect(k, i) ==
  \/ i.f \in {"wait_one", "poll_one"} /\ PollOne(k, i.x)
  \/ i.f = "signal" /\ Signal(k, i.x, i.arg)
  \/ i.f = "drain" /\ Drain(k, i.x)

EventGroupEffect(k, i) ==
  \/ i.f \in {"wait", "poll"} /\ PollGroup(k, i.x, i.arg)
  \/ i.f = "set" /\ SetBits(k, i.x, i.arg)
  \/ i.f = "clear" /\ ClearBits(k, i.x, i.arg)

\* A call that succeeds and changes nothing
NoEffect(i) ==
  \/ i.f \in Queries
  \/ i.f = "relinquish" /\ cpu_lock # "app"
  \/ i.f = "unpark" /\ park_token[i.x]
  \/ i.f = "set_priority" /\ base_priority[i.x] = i.arg
  \/ i.f = "set" /\ i.arg \subseteq bits[i.x]

\* The services of interrupt lines
LineServices == {"pend", "line_clear", "enable", "disable", "line_set_priority",
                 "line_set_priority_unchecked"}
LineEffect(i) ==
  line' = CASE i.f = "pend"    -> [line EXCEPT ![i.x].pended = TRUE]
            [] i.f = "line_clear" -> [line EXCEPT ![i.x].pended = FALSE]
            [] i.f = "enable"  -> [line EXCEPT ![i.x].enabled = TRUE]
            [] i.f = "disable" -> [line EXCEPT ![i.x].enabled = FALSE]
            [] OTHER           -> [line EXCEPT ![i.x].pri = i.arg]

\* The test goes on after an instruction, or fails.
Continue(good) == verdict' = IF good THEN verdict ELSE "failed"
Advance(c) == ip' = [ip EXCEPT ![c] = @ + 1]

Calls(i) == i.f \notin {"track", "put", "holds", "spin", "unless", "jump", "nest", "unnest",
                       "success", "unreachable"}

\* A call that fails
CallFails(c) ==
  LET i == Now(c) IN
  /\ InControl(c) /\ ~AtEnd(c) /\ Calls(i)
  /\ Result(c, i) \notin {"Ok", "Abandoned", "Block"}
  /\ KernelUnchanged
  /\ Continue(Result(c, i) = i.res)
  /\ Advance(c)
  /\ UNCHANGED <<test, cell, line, active, now, due>>

\* A call that succeeds.  An activated task starts at its first instruction.
CallSucceeds(c) ==
  LET i == Now(c) IN
  /\ InControl(c) /\ ~AtEnd(c) /\ Calls(i)
  /\ Result(c, i) \in {"Ok", "Abandoned"}
  /\ \/ TaskEffect(Caller(c), i) /\ UNCHANGED <<semVars, groupVars, line>>
     \/ SemaphoreEffect(Caller(c), i) /\ UNCHANGED <<groupVars, line>>
     \/ EventGroupEffect(Caller(c), i) /\ UNCHANGED <<semVars, line>>
     \/ NoEffect(i) /\ KernelUnchanged /\ UNCHANGED line
     \/ i.f \in LineServices /\ LineEffect(i) /\ KernelUnchanged
  /\ Continue(Result(c, i) = i.res /\ (i.value = Unchecked \/ i.value = <<Value(c, i)>>))
  /\ ip' = IF i.f = "activate" THEN [ip EXCEPT ![c] = @ + 1, ![i.x] = 1]
                               ELSE [ip EXCEPT ![c] = @ + 1]
  /\ UNCHANGED <<test, cell, active, now, due>>

\* A call that blocks the task t
CallBlocks(t) ==
  LET i     == Now(t)
      timed == i.delay # Forever
  IN
  /\ InControl(t) /\ ~AtEnd(t) /\ Calls(i)
  /\ Result(t, i) = "Block"
  /\ \/ i.f = "park" /\ Park(t, timed) /\ UNCHANGED <<semVars, groupVars>>
     \/ i.f = "sleep" /\ Sleep(t) /\ UNCHANGED <<semVars, groupVars>>
     \/ i.f = "lock" /\ LockMutex(t, i.x, timed) /\ UNCHANGED <<semVars, groupVars>>
     \/ i.f = "wait_one" /\ WaitOne(t, i.x, timed) /\ UNCHANGED groupVars
     \/ i.f = "wait" /\ WaitGroup(t, i.x, i.arg, timed) /\ UNCHANGED semVars
  /\ due' = IF timed THEN [due EXCEPT ![t] = now + i.delay] ELSE due
  /\ UNCHANGED <<test, ip, cell, verdict, line, active, now>>

\* Mutant: sleep returns the result of its wait.
WaitOutcomeRaw(t, i) ==
  IF i.f = "lock" /\ wait_result[t] = "Ok" /\ inconsistent[i.x] THEN "Abandoned"
  ELSE wait_result[t]

\* What the blocking call returns when the wait is over
WaitOutcome(t, i) ==
  IF i.f = "sleep" /\ wait_result[t] = "Timeout" THEN "Ok"
  ELSE IF i.f = "lock" /\ wait_result[t] = "Ok" /\ inconsistent[i.x] THEN "Abandoned"
  ELSE wait_result[t]

CallReturns(t) ==
  /\ Undisturbed
  /\ FinishWait(t)
  /\ Continue(WaitOutcome(t, Now(t)) = Now(t).res)
  /\ Advance(t)
  /\ UNCHANGED <<semVars, groupVars, test, cell, line, active, now, due>>

-----------------------------------------------------------------------------
(* The other instructions *)

\* A step of the test itself
TestStep(c) ==
  LET i == Now(c) IN
  /\ InControl(c) /\ ~AtEnd(c)
  /\ \/ /\ i.f = "track"
        /\ Continue(cell[i.x] = i.arg)
        /\ cell' = [cell EXCEPT ![i.x] = i.arg + 1]
        /\ Advance(c)
     \/ /\ i.f = "put"
        /\ cell' = [cell EXCEPT ![i.x] = i.arg]
        /\ Advance(c)
        /\ UNCHANGED verdict
     \/ /\ i.f = "holds"
        /\ Continue(cell[i.x] = i.arg)
        /\ Advance(c)
        /\ UNCHANGED cell
     \/ /\ i.f = "spin" /\ cell[i.x] = i.arg
        /\ Advance(c)
        /\ UNCHANGED <<cell, verdict>>
     \/ /\ i.f = "unless"
        /\ ip' = [ip EXCEPT ![c] = @ + 1 + (IF cell[i.x] = i.arg[1] THEN 0 ELSE i.arg[2])]
        /\ UNCHANGED <<cell, verdict>>
     \/ /\ i.f = "jump"
        /\ ip' = [ip EXCEPT ![c] = @ + 1 + i.arg]
        /\ UNCHANGED <<cell, verdict>>
     \/ /\ i.f \in {"success", "unreachable"}
        /\ verdict' = IF i.f = "success" THEN "success" ELSE "failed"
        /\ UNCHANGED <<ip, cell>>
  /\ KernelUnchanged
  /\ UNCHANGED <<test, line, active, now, due>>

\* The random nestings of mutex_misc: the task locks a mutex of the set that it
\* does not hold, to a depth of 3, or unlocks the one it locked last; the last
\* iteration only unlocks.  The assertions hold before each step.
NestDepth == 3
NestAssertions(t) ==
  /\ \A n \in DOMAIN held[t] : LockResult(t, held[t][n], "Block") = "WouldDeadlock"
  /\ \A n \in 1 .. Len(held[t]) - 1 : UnlockResult(t, held[t][n]) = "BadObjectState"

Nest(t) ==
  /\ InControl(t) /\ ~AtEnd(t) /\ Now(t).f \in {"nest", "unnest"}
  /\ \E m \in Now(t).arg :
       \/ Now(t).f = "nest" /\ Len(held[t]) < NestDepth /\ TryLockMutex(t, m)
       \/ UnlockMutex(t, m)
  /\ Continue(NestAssertions(t))
  /\ UNCHANGED <<semVars, groupVars, test, ip, cell, line, active, now, due>>

NestEnds(t) ==
  /\ InControl(t) /\ ~AtEnd(t)
  /\ Now(t).f = "nest" \/ (Now(t).f = "unnest" /\ held[t] = <<>>)
  /\ KernelUnchanged
  /\ Advance(t)
  /\ UNCHANGED <<test, cell, verdict, line, active, now, due>>

\* A task body that returns exits the task.
TaskReturns(t) ==
  /\ InControl(t) /\ AtEnd(t)
  /\ ExitTask(t)
  /\ UNCHANGED <<semVars, groupVars, suiteVars>>

-----------------------------------------------------------------------------
(* Interrupts and time *)

Managed(l) == line[l].pri >= 0

TakeInterrupt(l) ==
  /\ verdict = "running"
  /\ Deliverable(l)
  /\ IF active = <<>> /\ Managed(l) THEN EnterInterrupt /\ UNCHANGED <<semVars, groupVars>>
                                    ELSE KernelUnchanged
  /\ line' = [line EXCEPT ![l].pended = FALSE]
  /\ active' = Append(active, l)
  /\ ip' = [ip EXCEPT ![l] = 1]
  /\ UNCHANGED <<test, cell, verdict, now, due>>

ReturnFromInterrupt ==
  /\ active # <<>> /\ InControl(Last(active)) /\ AtEnd(Last(active))
  /\ IF Len(active) = 1 /\ Managed(Last(active))
       THEN LeaveInterrupt /\ UNCHANGED <<semVars, groupVars>>
       ELSE KernelUnchanged
  /\ active' = Front(active)
  /\ UNCHANGED <<test, ip, cell, verdict, line, now, due>>

\* Nothing executes, or the running task spins.
Idle == /\ Undisturbed /\ active = <<>> /\ cpu_lock = "free" /\ interrupt = "none"
        /\ running_task = None
Spinning == \E t \in Tasks :
  InControl(t) /\ ~AtEnd(t) /\ Now(t).f = "spin" /\ cell[Now(t).x] # Now(t).arg

Expired(t) == timeout[t] /\ due[t] <= now

\* The timer interrupt at the time of the next timeout
TimerInterrupt ==
  /\ Idle \/ Spinning
  /\ \E t \in Tasks : timeout[t]
  /\ now' = Max({now, Min({due[t] : t \in {u \in Tasks : timeout[u]}})})
  /\ EnterInterrupt
  /\ UNCHANGED <<semVars, groupVars, test, ip, cell, verdict, line, active, due>>

\* timer_tick expires the timeouts that are due.
TimerTick ==
  /\ Undisturbed /\ active = <<>>
  /\ \/ TickBegin /\ \E t \in Tasks : Expired(t)
     \/ \E t \in Tasks : TickExpire(t) /\ Expired(t)
     \/ TickEnd /\ \A t \in Tasks : ~Expired(t)
  /\ UNCHANGED <<semVars, groupVars, suiteVars>>

\* An interrupt of another device, or a tick for which nothing is due, at a
\* point where a task or nothing executes; and the end of both kinds
OtherInterrupt ==
  /\ Undisturbed /\ active = <<>>
  /\ EnterInterrupt
  /\ UNCHANGED <<semVars, groupVars, suiteVars>>

OtherReturns ==
  /\ Undisturbed /\ active = <<>>
  /\ \A t \in Tasks : ~Expired(t)
  /\ LeaveInterrupt
  /\ UNCHANGED <<semVars, groupVars, suiteVars>>

-----------------------------------------------------------------------------
\* The kernel's own steps.  Start-up hooks run before the first dispatch.
KernelStep ==
  /\ Undisturbed
  /\ \/ \E t \in Tasks : InitTask(t) \/ YieldCpu(t)
     \/ AtEnd(Hook) /\ DispatchFirstTask
     \/ AbandonHeldMutex
     \/ ExitAndDispatch
  /\ UNCHANGED <<semVars, groupVars, suiteVars>>

ServiceStep ==
  \/ (SignalWakeUpOne \/ SignalEnd) /\ UNCHANGED <<groupVars, suiteVars>>
  \/ (SetWakeUp \/ SetSkip \/ SetEnd) /\ UNCHANGED <<semVars, suiteVars>>

Finished == verdict \in {"success", "failed"} /\ UNCHANGED allVars

Work ==
  \/ Configure
  \/ KernelStep
  \/ ServiceStep
  \/ \E c \in Programs : CallFails(c) \/ CallSucceeds(c) \/ TestStep(c)
  \/ \E t \in Tasks : CallBlocks(t) \/ CallReturns(t) \/ Nest(t) \/ TaskReturns(t)
  \/ \E l \in Lines : TakeInterrupt(l)
  \/ ReturnFromInterrupt
  \/ TimerInterrupt
  \/ TimerTick

SuiteNext ==
  \/ Work
  \/ \E t \in Tasks : NestEnds(t)
  \/ OtherInterrupt
  \/ OtherReturns
  \/ Finished

\* Interrupt handlers return, the nestings of mutex_misc end, and what
\* executes goes on however often it is interrupted.
SuiteFairness ==
  /\ SF_allVars(Work)
  /\ \A t \in Tasks : SF_allVars(NestEnds(t))
  /\ WF_allVars(OtherReturns)

SuiteSpec == SuiteInit /\ [][SuiteNext]_allVars /\ SuiteFairness

-----------------------------------------------------------------------------
(* Properties *)

\* No test fails: every service returns what its test expects, in the order
\* that the test's SeqTracker prescribes, wherever interrupts come between.
SuitePasses == verdict # "failed"

Declared(i) ==
  DeclaredErrors[i.f] \cup (IF i.f \in TimedServices /\ i.delay # Forever
                              THEN TimedErrors ELSE {})

\* The services of a table, called by c on the objects with and without a
\* timeout and with an argument in and out of range
Sound(c, services, objects) ==
  \A f \in services, x \in objects, arg \in {0, NumPrio}, delay \in {Forever, 0, Negative} :
    LET i == Within(Instr(f, x, arg, "Ok"), delay) IN
    delay = Forever \/ f \in TimedServices \cup {"sleep"} =>
      Result(c, i) \in Declared(i) \cup {"Ok", "Block"}

\* Wherever a service is called, and however a wait ends, the error is one that
\* the error type of the service declares: a wait without a timeout never
\* reports Timeout, and no state of an object has a code of its own.
ResultsDeclared ==
  /\ \A c \in Programs : InControl(c) =>
       /\ Sound(c, DOMAIN TaskErrors \cup DOMAIN LockErrors \cup DOMAIN ParkErrors, Tasks)
       /\ Sound(c, DOMAIN SemaphoreErrors, Semaphores)
       /\ Sound(c, DOMAIN MutexErrors, Mutexes)
       /\ Sound(c, DOMAIN InterruptLineErrors, Lines)
  /\ \A t \in Tasks : WaitCompleted(t) =>
       WaitOutcome(t, Now(t)) \in Declared(Now(t)) \cup {"Ok"}

\* Every test comes to its call of Driver::success.
SuiteSucceeds == <>(verdict = "success")

=============================================================================

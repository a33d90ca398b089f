# Verification of the R3 kernel

TLA+ modules that model [R3](../src/README.md): its kernel (`src/src/r3_kernel`), the
ports and timer drivers below it, the bindings and mutexes with data above it, and its
test suite as programs that run on the model. TLC configurations check them on small
instances, and proofs, checked by TLAPS, hold for any number of tasks, objects, threads
and priority levels, and for any width of the words that hold times.

R3 is a static real-time operating system in Rust. All kernel objects are
configured at compile time; at run time tasks, interrupt handlers and timer
callbacks call system services that share one set of kernel structures, which
CPU Lock protects on a single processor. The kernel is what every port and
application depends on, so it was modelled first, and the theorems are about it.

Paths below are relative to `src/src/` unless they start with `src/`.

## 1. Inventory

### Components of the kernel

| Component | State | Operations | What makes it correct |
|---|---|---|---|
| Tasks and scheduler (`r3_kernel/src/task.rs`, `task/readyqueue.rs`) | `State::running_task`; per task `st`, `base_priority`, `effective_priority`, `park_token`; the ready queues and their bitmap | activate, exit, interrupt, park, unpark, sleep, set_priority; `make_ready`, `choose_next_running_task`, `unlock_cpu_and_check_preemption` | a task is in exactly the list its state says; the highest Ready task runs, at the latest when the current obstacle (lock, boost, handler) ends |
| Wait objects (`wait.rs`) | a list of `Wait` per object; per task `current_wait`, `wait_result`; the `Wait` and the `Timeout` on the waiting task's stack | begin a wait, wake up one or all that satisfy a condition, interrupt, reorder, time out | one and only one event ends a wait and decides its result; no link outlives the stack frame it points into |
| Mutexes (`mutex.rs`) | owner, inconsistent flag, ceiling; per task the list of held mutexes | lock, lock_timeout, try_lock, unlock, mark_consistent; abandonment at exit | ownership and held lists agree; effective priority is the base priority raised to the ceilings held |
| Semaphores (`semaphore.rs`) | value, maximum | poll_one, wait_one, wait_one_timeout, signal, signal_one, drain, get | permits are neither lost nor invented; no permit lies idle while a task waits |
| Event groups (`event_group.rs`) | bits; condition and result in the `Wait` | set, clear, poll, wait, wait_timeout, get | no task waits for a condition that holds; a woken task saw bits that satisfied its condition |
| Timekeeping (`timeout.rs`) | `last_tick_count`, `last_tick_time` (32 bits), `last_tick_sys_time` (64 bits, with the feature `system_time`), `frontier_gap`, the heap of timeouts | time, set_time, adjust_time, insert and remove a timeout, `handle_tick` | 32-bit event times keep their chronological order across wrap-arounds, and the 64-bit system time keeps step with them; a tick is always scheduled in time |
| Timers (`timer.rs`) | `active`, `period`, delay or timeout | start, stop, set_delay, set_period, the handler | callbacks are called when the timeout has arrived, not before, and eventually |
| Contexts (`state.rs`, `klock.rs`, `lib.rs`) | CPU Lock, Priority Boost, task or interrupt context | acquire, release, boost, unboost, boot | services run only where they may; deferred preemptions happen |
| Interrupt lines (`interrupt.rs`) | none in the kernel | enable, disable, pend, clear, set_priority | checks the context and the range, and forwards to the port |
| Utilities (`utils/*.rs`, `r3_core/src/utils`) | links of circular lists, words of a bitmap tree, a heap with positions | insert, remove, set, clear, find, push, pop, sort | agree with the sequences and sets that stand for them in `Sched` and `Timeout` |

### Above and below the kernel

| Component | State | Operations | What makes it correct |
|---|---|---|---|
| Target ports (`r3_port_riscv`, `r3_port_arm`, `r3_port_arm_m`, threading and interrupt controllers) | register banks, saved frames, nesting, dispatch flag, enable bits, threshold | take, nest and leave an interrupt, `yield_cpu`, dispatch, idle, CPU Lock | nobody's registers or reservations leak; a dispatch asked for happens; priorities and locks are those of the processor |
| Simulator port (`r3_port_std`) | the scheduler state, threads of tasks and handlers; tokens, requests and signals of host threads | pend, enable, `yield_cpu`, dispatch, CPU Lock; park, unpark, preempt | as above, and only the chosen host thread executes |
| Timer drivers (`r3_portkit` and the `imp.rs` of mtime, sbi_timer, sp804, os_timer, systick_tickful) | reference point or tick count; registers of the timer | `tick_count`, `pend_tick`, `pend_tick_after`, `handle_tick` | the count is real time, without drift; the interrupt comes when asked for, or at once |
| Bindings (`r3_core/src/bind.rs`, `bind/sorter.rs`) | the registry of bindings and their uses; storage | define, divide, borrow and take in five ways, order the initialisers, refuse | every borrow is of initialised storage and none aliases; no needless refusal |
| Mutexes with data (`r3/src/sync`) | nesting level with a flag of abandonment; guards | lock, try_lock, drop, mark_consistent | guards only for the owner; `Ok` only for consistent data |
| Handler combination (`r3_core/src/kernel/interrupt.rs`, `hook.rs`) | sorted tables | call the handlers of a line, the hooks at startup | by priority, then definition; CPU Lock is inactive for each |
| Error types (`r3_core/src/kernel/error.rs`) | | conversion | a service fails only with codes its type declares |
| Test suite (`r3_test_suite`) | sequence counters | the tests | each comes to its end whatever interrupts come between |

`r3_core` holds the API besides: type-level wrappers around the raw services and the
compile-time configuration. `r3_support_*` are drivers of boards, `r3_test_runner`
builds and flashes images.

### Interactions

* Services call `make_ready` and wake-up functions under CPU Lock, and then
  `unlock_cpu_and_check_preemption`, which compares priorities, releases CPU Lock
  and calls the port's `yield_cpu`. The port calls back `choose_running_task`.
* In an interrupt handler `yield_cpu` is deferred to the return of the last handler.
* A wait puts a `Wait` (and, if timed, a `Timeout`) on the stack of the task, links
  it into kernel lists and loops over `yield_cpu` until it is not `Waiting` any more.
* Task exit abandons mutexes, which wakes up tasks. `set_priority` moves a task in
  the ready queue or in a wait queue, and asks the mutexes whether it may.
* `handle_tick` expires timeouts. Those of waits end the wait; those of timers call
  application code with CPU Lock released.
* The kernel asks the timer driver for the count and for the next tick; the driver's
  interrupt handler marks a reference point and calls the kernel's `timer_tick`.
* A host thread of the simulator that pends an interrupt preempts the worker thread
  that runs, with a signal, and starts a thread for the handler.

### What is hard here

Everything between the release of CPU Lock and the next acquisition can be
interleaved with interrupts: the decision to yield, the entry to and the return
from a wait, the loop around callbacks. A wait can end in three ways at nearly the
same time. Priorities change while tasks are queued by priority. Preemption is
held back by handlers, CPU Lock and Priority Boost, and must not be forgotten. Time
is a 32-bit word that wraps, over a hardware counter that wraps elsewhere. In the ports
handlers nest inside context switches, and each processor masks in its own way; in the
simulator park requests, tokens and signals overtake each other. A guard outlives the
task that exits, and a critical section ends in the middle of a method of `r3::sync`.
`PROJECT.json` lists these hazards with their lines and the properties for them.

## 2. Modules

| Module | Models | Extends |
|---|---|---|
| `Sched` | scheduling core: task control blocks, ready queue, wait objects, contexts | |
| `Kernel` | boot, dispatch, CPU Lock, boost, task services, mutexes, tick | `Sched` |
| `Semaphore` | semaphores | `Kernel` |
| `Permits` | abstract: what a counting semaphore promises | |
| `EventGroup` | event groups | `Kernel` |
| `Timeout` | timekeeping and timers with arithmetic of words | |
| `Structures` | lists, bitmaps, count of trailing zeros, ready and wait queue over them, heap, sort | |
| `Errors` | the codes each service declares | |
| `Scripts` | the kernel tests and benchmarks as programs | |
| `Suite` | the programs on the kernel, with interrupt lines and combined handlers | `Semaphore`, `EventGroup`, `Scripts`, `Errors` |
| `Bind` | bindings: configuration, boot and run time | |
| `Sync` | mutexes with data | |
| `PortBase` | whose values a register bank holds, frames | |
| `PortContract` | abstract: what a port promises the kernel | `PortBase` |
| `Plic` | the interrupt controller of RISC-V | |
| `PortRiscv`, `PortArm`, `PortArmM` | the target ports by groups of instructions | `PortBase` (`Plic`) |
| `SimPort` | the simulator's interrupt controller, scheduler and threads | `PortBase` |
| `Ports` | the four ports side by side, and what each has to guarantee | `PortRiscv`, `PortArm`, `PortArmM`, `SimPort` |
| `Ums` | host threads under the simulator | |
| `Tickless` | the algorithms of `r3_portkit` | |
| `TimerDriver` | the timers, their drivers and the kernel as their client | `Tickless` |
| `MCKernel`, `MCTimeout`, `MCSuite` | constants for TLC | the module named |
| `MCApplications` | one application of three on the kernel: preemption, mutexes, timed waits | `MCKernel` |
| `MCProgress` | one application of two on the kernel, under fair scheduling | `MCKernel` |
| `MCObjects` | one application of several: semaphore, event group, bindings, data, structures | those modules |
| `MCPlatform` | one platform of several: a port, host threads, timers | `Ports`, `Ums`, `TimerDriver` |
| `ListLemmas` | facts about `Min`, `Max`, `RemoveAt`, `InsertAt`, `ToSet`, `IsInjective`; induction and iterated functions | |
| `KernelProofs` | type correctness, the structural invariant and its consequences | `Kernel`, `ListLemmas` |
| `ObjectProofs` | mutexes, results of waits, effective priorities; the order of wait queues, hand-over, preemption, dispatch; semaphores with their refinement of `Permits`; event groups; guards of mutexes with data | `KernelProofs`, `Semaphore`, `EventGroup`, `Sync` |
| `TimeoutProofs` | timekeeping and timers | `Timeout`, `ListLemmas` |
| `RiscvProofs` | the RISC-V port | `PortRiscv` |
| `SimProofs` | the simulator's port | `SimPort`, `ListLemmas` |
| `DriverProofs` | the algorithms of `r3_portkit`, and the timer drivers | `TimerDriver`, `ListLemmas` |
| `PlatformProofs` | host threads of the simulator, the Arm-M and Arm ports, the four ports together | `Ums`, `Ports`, `RiscvProofs`, `SimProofs` |

The parts of `MCObjects` and of `MCPlatform` share no state: a variable (`part`) says
which one a behaviour is about, and the others keep their initial values. The applications
of `MCApplications` and `MCProgress` are instances of `Kernel` with other constants over
the same variables; `application` says which one runs. TLC's statistics therefore count
these next-state relations as one action each. Run one at a time, as `MCKernel` with the
constants of one application, the applications fire every action of `Kernel` and every
disjunct of its `Next`. The properties that all ports must have (`ContextIntact` and so on)
are stated in `Ports` by cases.

### How state and actions correspond to the code

Variables have the names of the fields they model; the comment on each declaration
gives the type it belongs to. Four variables stand for what Rust keeps implicitly:
`pc` for where the thread of a task is, `frame` for the `Wait` on its stack, `timeout`
for whether the `Timeout` beside it is linked, and `cpu_lock` for who holds the lock
between two steps.

**Atomicity.** A service locks the CPU before its first access and releases it after
its last one, and on the single processor nothing runs meanwhile. So a service is one
step. What follows the release is a step of its own: `YieldCpu` (the call at the end
of `unlock_cpu_and_check_preemption`, or in the loop of `wait_until_woken_up`) and
`FinishWait` (return from the loop, results, drop of the `TimeoutGuard`). `signal`,
`set` and `exit_task` loop over tasks or mutexes; each iteration is a step during
which `cpu_lock` is `"service"` or `"exit"`, so nothing else is enabled.
`handle_tick` holds the lock and drops it around every timer callback: the values of
`interrupt` tell its phases.

**Contexts.** `Context` is a task or `Isr`. `InContext`, `TaskContext` and
`WaitableContext` translate `lock_cpu`, `expect_task_context` and
`expect_waitable_context`. A service that fails changes nothing, so it is a step the
model does not need: the guard of an action is the conjunction of the conditions
under which the code does not return an error. Services that only read are left out.

**Port.** In `Kernel`, `EnterInterrupt`, `LeaveInterrupt`, `YieldCpu` and
`DispatchFirstTask` follow the contract in the documentation of `PortThreading` in
`lib.rs`. Handlers that nest are one context, because the contract defers dispatching to
the last of them. `PortContract` states that contract for nested handlers, and
`KeepsContract` shows that the code of the four ports implements it.

**Ports.** A step is a group of instructions between two points at which an interrupt
can be taken with a different effect. A register bank (caller-saved, callee-saved,
floating point) is modelled by whose values it holds; a save pushes that owner, a
restore pops it, and code that runs makes the bank its own. So a wrong bank, a stack that
is out of balance and a stale reservation are all the same kind of error: somebody
executes with values of somebody else. The kernel appears as `choose_running_task` (any
choice) and as calls of `yield_cpu` in tasks and handlers.

**Simulator.** `SimPort` has one step per critical section of the scheduler's lock. Boot
code, tasks and activations of handlers are threads with an id and a place (`smPc`); any
number of handlers can be active. The loop of `check_preemption_by_interrupt` is a function
of the number of its turns (`Activations`), of which it makes at most one per pended line.
`Ums` has one step per atomic access to the counters of a thread, since signal handlers
come between any two.

**Timers.** `TimerDriver` counts hardware ticks without wrapping as a history
(`tdNow`) and derives from it the registers, which wrap; a driver that reads the counter,
computes and writes the comparator does so in three steps with time passing between.

**Bindings.** One behaviour is one program: definitions one after another, `finalize`,
which sorts or refuses, the boot with the initialisers in the computed order, and
executables that hold their references. The successor iterator of the sorter is a set of
edges; the order is any the depth-first search can produce. A program may use a binding
several times in one function, compatibly or not, as the tuples of binders allow: an
element of `bdFuncs` is a binding, a binder and a number, so that a duplicate counts.

**Tests.** `Scripts` has one program per test, an instruction per call with the result
the test asserts. `Suite` computes the result with the checks in the order of the code and
takes the step of `Kernel`, `Semaphore` or `EventGroup` if it is `Ok`.

**Data.** Intrusive lists are sequences, bitmaps are sets, the heap is the set of its
elements. The priority of no task is `UsizeMax`, that of an empty queue `EmptyPrio`,
above all others as in the code. `Ceiling[m] = NumPrio` stands for no protocol.
`Kernel` lets a linked timeout expire in any tick; `Timeout` models when. It has two
words: `WordSize` values for `Time32` and the counter, and `Time64Size` values for the
system time. `Time32FromDuration` and `Time64FromDuration` widen a signed duration to
them, and `SystemTimeKept` is the feature `system_time`, without which `set_time` does
nothing and the system time is not kept. The port calls `timer_tick` when it was asked to,
up to `MaxLatency` late, or (`"early_tick"`) at any time. In
`Timeout`, `due` is a history variable that counts the real ticks until a timeout
arrives; no other variable and no guard depends on it.

`Services` and the sets of arguments restrict what an application calls. They are
parameters of the environment and have no counterpart in the code.

Operators whose comment begins with "Mutant" are not part of the model. Each one is
a plausible mistake in one definition (a dropped check, a stale copy, a wrong order).
TLC must find the property named beside it in `PROJECT.json` violated when it
replaces the definition.

## 3. What is checked

| Run | Instance | Shows |
|---|---|---|
| `KernelApplications` | three applications: 3 tasks, 3 priorities with activate, exit, park, unpark, set_priority, boost, handlers; the same tasks with a ceiling mutex and one without protocol, activate, exit, set_priority, all mutex services, handlers; 2 tasks, 1 mutex, timed waits, park, sleep, interrupt, ticks with callbacks | `TypeOK`, `ReadyQueueExact`, `NoLostPreemption`, `RunningTaskUnique`, `ParkTokenConsumed`, `DispatchLegal`, `WaitQueueSorted`, `MutexOwnership`, `EffectivePriorityLaw`, `HandoverLegal`, `WaitQueueExact`, `WaitResultLegal`, `LockResultExact` |
| `KernelProgress` | two applications, under fairness: 3 tasks, 3 priorities with activate, exit, set_priority, boost, CPU Lock, handlers; 2 tasks with park, unpark, a mutex, timeouts, interrupt, exit, handlers | `HighestDispatched` |
| `Objects` | a semaphore with 3 tasks, value up to 2; an event group with 2 bits and 3 conditions; programs of up to 3 bindings; a plain and a recursive mutex with 3 tasks; every structure | `NoIdlePermit`, `NoSatisfiedWaiter`, `WokenBySatisfyingBits`, `BorrowCheckExact`, `GuardsSound`, `StructuresExact`, `PermitsKept` (refinement) |
| `Suite` | the tests with the tasks, objects and lines they configure, interrupts of other devices anywhere, fairness | `SuitePasses`, `ResultsDeclared`, `SuiteSucceeds` |
| `TimeoutStop` | 2 timers, start, stop, set_delay, an application that falls silent at any time, words of 9 and 18, no system time, fairness | `TickInTime`, `TimerLinked`, `NeverEarly`, `TimerFires` |
| `TimeoutAdjust` | 2 timers, adjust_time both ways, set_time, late and early ticks, words of 16 and 32 | `DistanceExact`, `ArrivalBounded`, `TimeSteady` |
| `Platform` | each port with 2 tasks and 2 lines of different priority; 2 host threads and one outside; 10 timer configurations of 5 drivers | `ContextIntact`, `PriorityOrder`, `NoLostDispatch`, `LockHonoured`, `UmsExclusive`, `UmsNeverStuck`, `TickCountExact`, `AlarmInTime`, `KeepsContract` (refinement) |
| `TimeoutPostponed`, `TimeoutCallback`, `BorrowTwice`, `TimerRace`, `MarkRace` | see Findings | violated |

The comment above each property says what it states and of which code. In short:

* *Lists.* `ReadyQueueExact` and `WaitQueueExact` say that lists, states and stack
  frames agree. `WaitQueueSorted` says that a queue by priority stays sorted when
  priorities change.
* *Scheduling.* `RunningTaskUnique`; `DispatchLegal` (only to the highest, and never
  among equals); `NoLostPreemption` (a higher Ready task is always on its way to the
  processor) and its liveness form `HighestDispatched`.
* *Waits.* `WaitResultLegal` covers the panics and `unreachable!` of the code.
  `ParkTokenConsumed` excludes a lost unpark. `LockResultExact` says that a lock
  succeeds exactly if the task owns the mutex, whichever of hand-over, timeout and
  interruption came first.
* *Mutexes.* `MutexOwnership`, `EffectivePriorityLaw`, `HandoverLegal`.
* *Semaphores.* While `signal` is in its loop, the refinement mapping counts as released
  the waiters it is going to reach, because `Permits` signals in one step.
* *Time.* `DistanceExact` compares 32-bit arithmetic with real distances.
  `TimeSteady` says that both clocks advance one by one, that an adjustment moves both by
  the same signed amount although one word is wider (a sign that is not extended, or a
  lost 2^32 µs, violates it), that `set_time` sets what it was given, and that bookkeeping
  (`mark_tick`) cannot be observed.

* *Structures.* `StructuresExact` compares links with sequences, words with sets of bits
  and slices with sorted bags, and the positions the heap reports with where elements are.
* *Ports.* `ContextIntact`, `PriorityOrder`, `NoLostDispatch`, `LockHonoured` and the
  refinement `KeepsContract`. `UmsExclusive` is what `SimPort` takes for granted of its
  threads. `UmsNeverStuck` is the safety side of progress: whoever was chosen has a step.
* *Drivers.* `TickCountExact` compares with the real time in exact fractions.
  `AlarmInTime` says that no comparator is set to a moment that has passed or is a
  revolution away. Together they are what `Timeout` assumes of a port.
* *Around the kernel.* `BorrowCheckExact` is soundness and completeness of the borrow
  check up to its precondition: what is accepted never aliases or reads uninitialised
  storage, except where one initialiser itself borrows a binding twice in conflict, which
  the check does not look for; what is refused has no order. `BorrowRules` has no such
  exception, and is violated (see Findings); `GuardsSound` that of guards. `SuitePasses`, `SuiteSucceeds` and
  `ResultsDeclared` are about the kernel with real programs on it.

### Bounds, and why they are enough

Three tasks with three priorities are the least in which a task is preempted, a
second one is woken meanwhile and a third, of another priority, competes with both;
two of equal priority show the order within a queue. Two mutexes are the least in
which releases happen out of order and ceilings interact. Timeouts race with
hand-over and interruption in a single wait, for which two tasks are enough: the one
that waits and the one that unlocks. A maximum value of 2 with three tasks lets one
signal wake one waiter and deposit the rest, and fail at the limit. Two bits and four
conditions give waiters that consume bits others wait for, and the empty set. In
`Timeout` the word keeps the division of the 32-bit one (hard headroom, twice the
user headroom, durations), the counter of `TimeoutAdjust` wraps at another modulus than
the word, and all behaviours wrap around both. The word of the system time is twice that of
event times, so the two differ in one bit: zero and sign extension of a negative adjustment
are different values, and so are times that are one round of the smaller word apart.
`TimeoutAdjust` sets the system time to a value beyond the smaller word.

*Structures.* Four priorities in two words of two bits are the least with two levels and
more than one bit in each. Seven timeouts, two of them equal: with fewer than six no
removal has to sift up. One-level bitmaps have 0, 1, 2, 3, 4, 7, 12 and 20 bits, on both
sides of each threshold in the algorithms, with up to three ones; all five algorithms of
`ctz.rs`. Slices of up to five elements with three keys.

*Bindings.* `MaxUses` is 3 because a cycle through a borrow and a take needs three uses.
*Data.* `LevelWord = 8` gives a count of four levels, so it overflows.

*Ports.* Two tasks and two lines, one above the other, give nesting of two with a
dispatch asked for at either level; `RvMaxRaises` and the like bound how many interrupts
devices raise in a behaviour: three or four, one more than can be active at once. RISC-V
uses nesting in the PLIC, emulated LR/SC and floating point; the second line of the
Arm-M port and of the simulator is unmanaged. *Host threads.* `MaxRequests = 2` lets a
second park request arrive before the first is accepted. *Timers.* A word of 8 values and
a horizon of 18 hardware ticks make both counts wrap; frequencies are faster and slower
than the OS tick, with and without a whole ratio, and some must be refused.

*Tests* run with the configuration of the test; nothing is scaled down but the delays,
which are in units of 100 ms. Where a bound cuts behaviours off (`RvMaxRaises`,
`TdHorizon` and so on), it is a guard of the action it bounds.

`CHECK_DEADLOCK` is on except in `Platform` and `TimerRace`, where a behaviour ends when
the devices have raised their interrupts, the horizon is reached or a configuration is
refused. `MCStopped` in `MCObjects` lists where an application may stop. Symmetry is used
only in `Platform`, over tasks and over host threads, which no module tells apart.

### Fairness

`Kernel!Fairness`: boot code runs to its end (weak). Strong fairness for `LeaveInterrupt`,
`TickEnd`, `TimerCallbackEnd`, and for the thread of the running task where it has
something to finish (`YieldCpu`, `FinishWait` or `UnboostPriority` of any task, taken
together), because CPU Lock, other handlers and callbacks disable these steps again and
again while the code behind them is still going to be executed: handlers and callbacks
return, `handle_tick` runs out of expired timeouts, a task that has the processor executes
its next instruction, and an application does not keep Priority Boost for ever. Weak
fairness for `ReleaseCpuLock` (an application gives CPU Lock back, as its documentation
demands) and for the loop of task exit. Services called by the application, and further
interrupts, are not fair, and no task is favoured over another.

`Timeout!FairSpec`: time passes, a pending tick interrupt is taken, and `handle_tick`
and callbacks run to their ends, all weakly. `TimerFires` is about what follows when the
application has fallen silent, in whatever state: while it goes on re-arming timers it
can postpone a tick for ever (see Findings).

`Suite!SuiteFairness`: strong for `Work`, the next step of whatever executes, because an
interrupt disables it and gives it back, and there may be infinitely many; strong for the
end of the loop of `mutex_misc` that nests locks; weak for the return of other handlers.
Nothing is assumed of any single task, so `SuiteSucceeds` needs that the kernel itself
chooses the right one.

The ports, host threads and drivers are checked for safety only. Liveness of `Ums` would
need fairness of host threads and of signals; `UmsNeverStuck` says instead that nobody
waits for something that does not come.

### Findings

Each has a run that is expected to be violated, with the shortest behaviour as its
counterexample.

* `TimeoutPostponed`: the documentation of `PortTimer` has the difference of
  `MAX_TICK_COUNT` and `MAX_TIMEOUT` as the resilience against overdue interrupts. A
  timer re-armed again and again moves the next tick away each time without a
  `mark_tick`; after a full period of the counter the clock jumps back although the
  port was never late. `TimeoutAdjust`, which has no re-arming, satisfies it. A counter of
  32 bits does not help: event time, which has 32 bits, then survives the round, but the
  system time of 64 bits falls back by 2^32 µs, because the time since the last tick is a
  `u32` (`timeout.rs:668`, `855`). The same run with `MaxTickCount = 15` shows it.
* `TimeoutCallback`: `handle_tick` reads the time once, before the first callback. If that
  callback moves the clock back, a second timer that was due in the same tick is called
  though it is not due any more: before its delay, which
  `r3_core/src/kernel/timer.rs:70` documents as a minimum. If it moves the clock forward,
  the next tick is scheduled by the stale time, so `DistanceExact` fails as well. The
  passing runs and the theorems have no such callback (`Undisturbed`).
* `BorrowTwice`: `bind.rs:33` has static checks ensure the borrowing rules. An initialiser
  that is given `BorrowMut` and `Borrow`, or `BorrowMut` twice, of one binding is accepted
  and holds aliasing references: the tuples of binders (`bind.rs:1730`) register each
  source by itself, and the sorter takes the absence of such conflicts for granted
  (`sorter.rs:10`). For executables the same uses are takes, and are refused.
* `TimerRace`: the interrupt handlers of mtime, the SBI timer, SP804 and the RZ/A1 timer
  update the reference point "protected by CPU Lock", which they do not hold. A handler of
  a higher priority that uses timers comes between the read of the counter and the
  update, which then rewinds the reference. The SysTick driver takes CPU Lock. `Platform`
  leaves such handlers out for the Stateful algorithm (`TdNested`).
* `MarkRace`: `mark_consistent` of a recursive mutex needs no guard, and resets the
  nesting level after the kernel call. Another task that locks and nests in between
  loses its count. `Objects` assumes that the holder of a guard calls it (`MarkedBy`).

One more deviation of `Timeout` is known and has no run of its own. `timeout.rs:102`
documents that arrival times are bounded by `frontier + DURATION_MAX`. `stop` after a
backward `adjust_time` saves a remaining time larger than any `Duration`, and `start` adds
all of it to a later current time. One one-shot timer with `Services = {"start", "stop"}`,
`Delays = {7}` and `Deltas` in both ways, on the words of `TimeoutAdjust`, exceeds
`ArrivalBounded`. Without `start` or without `adjust_time` it holds, which is why
`TimeoutAdjust` has no services and `TimeoutStop` no deltas: no passing run exercises this
sequence, and the theorems exclude it (`Undisturbed`).

Remarks from modelling, for whoever maintains the code:

* In the simulator a line that is taken stays in `pended` contrary to the comment on
  `pended_lines` (`sched.rs:15`), so that enabling it again delivers it again; lines of
  equal priority nest; `initialize_task_state` of the running task is a `todo!`.
* In the Arm port IRQs are unmasked between the end of an interrupt and the `cpsid` at
  the tail of the entry code, so IRQs of equal priority can nest there, one frame each.
* The RISC-V features `maintain-pie` and `emulate-lr-sc` together would enable
  interrupts after an emulated instruction under CPU Lock; the model has
  `emulate-lr-sc` only.

## 4. What is proved

Each theorem holds for every value of the constants that the named `ASSUME`s of the
modules allow: any finite set of tasks, any objects, ceilings, queue orders, numbers of
priorities and permits, bits and conditions, words and zones, threads, mutexes with data,
frequencies and headrooms.

| Theorem | Statement |
|---|---|
| `KernelProofs!TypeCorrect` | `Spec => []TypeOK` |
| `KernelProofs!ReadyQueueCorrect` | `Spec => []ReadyQueueExact` |
| `KernelProofs!WaitQueueCorrect` | `Spec => []WaitQueueExact` |
| `KernelProofs!RunningTaskCorrect` | `Spec => []RunningTaskUnique` |
| `KernelProofs!ParkTokenCorrect` | `Spec => []ParkTokenConsumed` |
| `ObjectProofs!MutexOwnershipCorrect` | `Spec => []MutexOwnership` |
| `ObjectProofs!LockResultCorrect` | `Spec => []LockResultExact` |
| `ObjectProofs!WaitResultCorrect` | `Spec => []WaitResultLegal` |
| `ObjectProofs!EffectivePriorityCorrect` | `Spec => []EffectivePriorityLaw` |
| `ObjectProofs!WaitQueueSortedCorrect` | `Spec => []WaitQueueSorted` |
| `ObjectProofs!HandoverCorrect` | `Spec => HandoverLegal` (action property) |
| `ObjectProofs!NoLostPreemptionCorrect` | `Spec => []NoLostPreemption` |
| `ObjectProofs!DispatchCorrect` | `Spec => DispatchLegal` (action property) |
| `ObjectProofs!NoIdlePermitCorrect` | `SemSpec => []NoIdlePermit` |
| `ObjectProofs!PermitsRefined` | `SemSpec => PermitsKept` (refinement) |
| `ObjectProofs!NoSatisfiedWaiterCorrect` | `GroupSpec => []NoSatisfiedWaiter` |
| `ObjectProofs!WokenBySatisfyingBitsCorrect` | `GroupSpec => []WokenBySatisfyingBits` |
| `ObjectProofs!SemaphoresSafe`, `EventGroupsSafe` | the same specifications `=> [](StructInv /\ NoLostPreemption)` |
| `TimeoutProofs!TimerLinkedCorrect` | `Spec => []TimerLinked` |
| `TimeoutProofs!TimeSteadyCorrect` | `Spec /\ CounterNeverRound => TimeSteady` (action property) |
| `TimeoutProofs!CounterSuffices` | `TimersFixed => (Spec => CounterNeverRound)` |
| `TimeoutProofs!DistanceExactCorrect`, `ArrivalBoundedCorrect`, `TickInTimeCorrect`, `NeverEarlyCorrect` | `Undisturbed => (Spec /\ CounterLasts => ...)` |
| `TimeoutProofs!TimekeepingSafe` | from assumptions on constants alone: these four, if `TimersFixed` or the counter fills the word; `TimeSteady`, if `TimersFixed` |
| `ObjectProofs!GuardsSoundCorrect` | `MarkedBy = "holder" => (SyncSpec => []GuardsSound)` |
| `PlatformProofs!UmsExclusiveCorrect` | `UmsSpec => []UmsExclusive` |
| `PlatformProofs!ArmMContextCorrect` | `AmSpec => [](AmContextIntact /\ AmMainStackBalanced)` |
| `PlatformProofs!ArmMNoLostDispatchCorrect` | `AmSpec => []AmNoLostDispatch` |
| `PlatformProofs!ArmMKeepsContract` | `AmSpec => AmKeepsContract` (refinement) |
| `PlatformProofs!ArmContextCorrect`, `ArmMonitorCorrect` | `ArSpec => []ArContextIntact`, `[]ArMonitorSound` |
| `PlatformProofs!ArmNoLostDispatchCorrect`, `ArmLockHonouredCorrect`, `ArmPriorityOrderCorrect` | `ArSpec => []ArNoLostDispatch`, `[]ArLockHonoured`, `[]ArPriorityOrder` |
| `PlatformProofs!ArmKeepsContract` | `ArSpec => ArKeepsContract` (refinement) |
| `RiscvProofs!RiscvContextCorrect` | `RvSpec => [](RvContextIntact /\ RvReservationSound)` |
| `RiscvProofs!RiscvNoLostDispatchCorrect`, `RiscvLockHonouredCorrect` | `RvSpec => []RvNoLostDispatch`, `[]RvLockHonoured` |
| `RiscvProofs!RiscvPriorityOrderCorrect` | `RvSpec => [](RvPriorityOrder /\ RvEnableRestored)` |
| `RiscvProofs!RiscvKeepsContract` | `RvSpec => RvKeepsContract` (refinement) |
| `SimProofs!SmInvariant` | `SmSpec => []SmInv` |
| `SimProofs!SimContextCorrect`, `SimPriorityOrderCorrect` | `SmSpec => []SmContextIntact`, `[]SmPriorityOrder` |
| `SimProofs!SimNoLostDispatchCorrect`, `SimLockHonouredCorrect` | `SmSpec => []SmNoLostDispatch`, `[]SmLockHonoured` |
| `SimProofs!SimKeepsContract` | `SmSpec => SmKeepsContract` (refinement) |
| `PlatformProofs!PortsContextIntact`, `PortsPriorityOrder` | `PortsSpec => []ContextIntact`, `[]PriorityOrder` |
| `PlatformProofs!PortsNoLostDispatch`, `PortsLockHonoured` | `PortsSpec => []NoLostDispatch`, `[]LockHonoured` |
| `PlatformProofs!PortsKeepContract` | `PortsSpec => KeepsContract` (refinement) |
| `PlatformProofs!UmsReadyCorrect` | `UmsSpec => []UmsReady` |
| `DriverProofs!TdInvariant` | `"Stateful" \notin TdNested => (TdSpec => []TdInv)` |
| `DriverProofs!TickCountExactCorrect`, `AlarmInTimeCorrect` | `"Stateful" \notin TdNested => (TdSpec => []TickCountExact)`, `[]AlarmInTime` |

**Assumptions.** Those of `Sched` and `Kernel`: tasks are finitely many numbers, `None`
and `Isr` are no tasks, objects or frames, there is at least one priority, initial
priorities and ceilings are in range. `Semaphore` and `EventGroup` add that `None` is no
value of a local variable. The ports ask that the names the models use for other things
(the boot thread, the idle and main stacks, PendSV) are no tasks or lines, that the
priorities of lines are those the controller has and that the PLIC and the simulator have
finitely many lines. In the simulator lines are numbers and the dispatcher has the lowest
priority, as in `lib.rs`, and tasks are not numbers, which stand for other threads. The
timer drivers ask that the options are natural numbers and flags, zeros included, and
that the OS timer is configured with the full period of its counter, as its driver does
(`TimerDriverAssumption`). TLC evaluates them in every run that uses their modules. Some
theorems have hypotheses besides, because the code does not promise the conclusion without
them:

* `CounterNeverRound`: the counter of the port advances only while less than one full
  period has passed since the last mark. The code leaves this to the port and to
  `MAX_TIMEOUT`. `CounterSuffices` shows when they are enough: when services do not start,
  stop or re-arm timers (`TimersFixed`). Otherwise they are not, as the run
  `TimeoutPostponed` shows.
* `CounterLasts`: the same, or the counter is a full word. This is enough for event times
  (`EventTimeLasts`), which have the same word, and not for the system time.
* `Undisturbed`: no callback adjusts the clock; where stopped timers are started again,
  the clock is not moved back; the callbacks of one tick take no longer than the user
  headroom. The first two exclude exactly two deviations of `Timeout` under Findings, that
  of the run `TimeoutCallback` and the one without a run, where the conclusion is false. `MaxBusy` is the bound of the model on callbacks, and
  `timeout.rs` allows an overdue timeout the headroom and nothing more.
* `MarkedBy = "holder"`: only who has a guard calls `mark_consistent`, without which the
  run `MarkRace` violates `NestingExact`, a part of `GuardsSound`.
* `"Stateful" \notin TdNested`: where the stateful algorithm is chosen, no handler that uses
  timers preempts the timer's own. Without it the run `TimerRace` violates
  `TickCountExact`.

### Inductive invariants

**Types.** Type correctness is not inductive alone: the dispatcher takes the head of the
queue of the lowest bit set, which is a task only if that queue is not empty, and the
exit loop takes the last mutex of the running task. So
`TypeInv == TypeOK /\ BitmapSound /\ ExitRunning`.

**Structure.** `StructInv` joins the properties of lists and threads and what makes them
inductive. `ReadyQueueExact` needs to know that whoever is made Ready was not: a task
that is woken was Waiting (`WaitLinked`) and a task that the dispatcher pushes back
was Running (`OneRunning`). `WaitLinked` needs that a task that begins a wait is
Running, i.e. that the caller of a service is not in a wait itself: `ThreadRuns` and
`StackFrame` tie the state of a task to its thread. `Inactive` keeps `frame` empty
at activation. `BoostRuns`, `ExitRuns` and `BootIdle` say who can be interrupted
where; without `ExitRuns`, the task that exit makes Dormant could be another one than
the one that runs.

**Ownership.** `OwnerInv` adds to `MutexOwnership` that what a task waits for is owned by
another (`WaitsForOwner`): a timeout or an interruption then leaves the mutex where it is,
and only a hand-over ends a wait with `Ok`, so results and ownership agree from the
wake-up to the return from `lock`. Some forty actions change waits and mutexes in nine
ways; `StepKind` lists them, `StepKinds` shows that each step is one of them, and the
invariants of mutexes are proved about the kinds.

**Priorities.** `LawInv` follows the effective priority of every task that is not
Dormant, except of one in the loop of exit, which releases all mutexes and computes its
priority never again; a task that is Dormant holds nothing, so the next activation begins
well. Sortedness of wait queues is inductive with `StructInv`, because `set_priority`, a
lock and an unlock change the priority of one task and move that task.

**Preemption.** `NoLostPreemption` is inductive with `StructInv`. `DispatchLegal` and
`HandoverLegal` are about steps and follow from the invariants before the step; the
hand-over needs sortedness and that exit is not interrupted.

**Semaphores and event groups.** Their services loop with CPU Lock held. `LoopInv` says
that a preemption that was due before the loop is still on its way, unless the loop has
woken a task, after which its last step makes the check. `SemInv` bounds what `signal` has
left to give away by the room that the check at the start found. `GroupInv` says that no
waiter the scan of `set` has passed is satisfied by the bits that are left; it is
inductive because bits only shrink during the scan.

**Refinement.** `Permits` signals in one step what `Semaphore` does in several. `View`
computes the refinement mapping from the state of the loop: while `n` permits are to be
given away, the first `n` waiters are no longer blocked. Each action is mapped to an
action of `Permits` or a stutter in a lemma of its own.

**Time.** `TimeInv` relates the wrapped arrival times to the distances that the history
variable counts (`Congruent`), bounds the distances from above (`ArrivalBounded`) and from
below by the tick that is pended (`NearIdle`) or by the time the handler has been busy
(`NearTick`). Together they keep every arrival time in the zones where the comparisons of
`timeout.rs` are right. `DistanceExact` and `NeverEarly` follow.

**Guards.** `SyInv` says where the owner of each mutex can be (`Placed`), and how many
guards there are and which level it is about to store at each of these places (`Nested`).
After a panic nothing moves, so then only what guards promise is left of it.

**Host threads.** `UmsInv` counts tokens: the requests a thread has still to answer are as
many as its tokens, and one more unless it is the current thread (`UmsBalanced`).

**Ports.** `AmInv` and `ArInv` say what the stacks hold while the registers are on them:
which saved context each task that does not run has (`AmParked`, `ArCurrent`), and what
each level of nesting has stacked (`AmNested`, `ArNested`). On Arm-M the main stack is
shared by all handlers, so `AmMainStack` says that there is a stack `b[i]` that each level
`i` found and has to leave behind, and how the next one is built on it. PendSV saves,
chooses and restores in steps that can be interrupted, and in between the registers
belong to nobody (`AmSwitching`). On Arm the same is done with IRQs masked, but a task can
be interrupted in the middle of `yield_cpu`, with its first frame already pushed; its saved
context then has two first-level states, which `ArSaved` tells apart. `AmRequested` and
`ArRequested` follow a request for a dispatch to where it is made, `ArLocking` the mask
of IRQs through the levels. `HandlerValue` names six levels of nesting apart; the proofs
do not use that names of different levels differ.

`RvInv` does the same for the RISC-V port (`RvNested`, `RvCurrent`), where the trap handler
saves the first-level state at every level and the second-level state only when it
dispatches. `PriorityOrder` needs more there, because the code polls the lines in loops and
enables the higher ones around each handler. `RvMasked` says which lines each level has
found enabled, which it has enabled in the phase of the loops it is in, and which it has
still to put back; each level has found what the one below it had enabled. `RvClaimed` has
a threshold `th[i]` for each level, which grows where a handler of the PLIC runs, and so
says what the end of a handler restores it to. From the third level on, only external lines
nest, each of a higher priority than the one before. `RvDepth` maps these levels to
priorities one to one, which bounds the depth and with it the main stack.

`SmInv` has to say less about registers and more about threads: `SmStack` that each active
handler has a thread of its own, `SmThreads` that a task has one exactly while its state
machine says so, `SmEnding` that at most one thread is in `zombies`, the one at its end. `SmSound`
follows a dispatch: `SmChosen` has the request pended until a dispatch handler is active
that has not chosen yet, and the task of the scheduler differ from `running_task` only
while a handler is about to set it. `SmLocking` finds the owner of CPU Lock among the levels
of handlers, above which there are only unmanaged ones. `SmPriorityOrder` is about
`check_preemption_by_interrupt`: each turn of its loop takes a line out of
`pended_lines`, so by induction on the turns (`NatSet`, the principle for a set of numbers)
nothing is left to take after as many turns as there were lines.
A dispatch handler can be preempted by a second one of the same priority; `SmDepth` counts
the innermost that has begun, since the others find that the task has been chosen anew.

**Timer drivers.** `TdInv` says that the reference point is an OS tick exactly: with
the stateful algorithm `CoreAt` ties the hardware tick, the OS tick and the fraction
between them to the OS time `tdSeen` that was last marked, and so no error accumulates.
`TdTimes` has the counter at most the headroom behind the hardware tick `tdDue` that the
kernel asked for, and that one at most the longest timeout away from the reference point.
So the counter is less than a revolution of either count away from the reference
point (`WithinReach`), where differences of wrapped counts are the real ones. `TdAlarm` has the timer
set to `tdDue`, or the interrupt pending. `TdBoot` begins with what `TicklessCfg::new`
guarantees (`CfgFits`): the frequency is reduced by a common divisor (`GcdDivides`: that it
divides both numbers is all that is needed), and the longest timeout plus the headroom fits.
The tickful algorithm needs only that its fraction stays below the denominator
(`TdTickful`). The provers find little about division, so lemmas about quotients and remainders
come first, each from the equation `x = q * y + r`.

`PortsSpec` is a behaviour of each port, of which three do nothing, so the theorems about
`Ports` combine those about the four.

TLC checked each invariant, on the instances of the runs, before it was proved.

**Layout.** Lemmas about lists come first (`ListLemmas`). Then each building block of the
services (`MakeReady`, `ReorderTask`, `ChooseNextRunningTask`, `BeginWait`,
`CompleteWait`, `WakeUpOne`, `InterruptTask`, `ReorderWaitOfTask`,
`UnlockMutexUnchecked`) has a lemma about the lists it changes. Threads are treated apart:
`SameThread`, `AwakenedThread` and `ChooseThread` cover the three ways in which steps
affect them. Each disjunct of `Next` has a lemma with a step per action. For mutexes with data,
`LocalStep` reduces a step of one task and one mutex to what it does to these two.

### Only model-checked

* Liveness (`HighestDispatched`, `TimerFires`, `SuiteSucceeds`), and `UmsNeverStuck`,
  which is about `ENABLED`: out of the prover's reach. `UmsReady`, its counterpart with
  the guards of the steps written out, is proved.
* `StructuresExact` and `BorrowCheckExact`: they compare recursive operators (loops over
  heaps, lists and graphs of borrows) with definitions, for every input within bounds. For
  all inputs this is induction over data.
* `SuitePasses` and `ResultsDeclared`: they are about given programs.

## 5. What is not modelled

* In `Kernel`: calls that fail, and services that only read. `Suite` has both.
* Bad object identifiers, equality and hashes of handles, and the calling of services
  where the API forbids it with `unsafe`.
* Compile-time configuration, apart from bindings and the order of handlers and hooks:
  its result is the constants. `ComptimeVec`, allocators and closures belong to it.
* Ports: startup code, exceptions that panic, LR/SC sequences in handlers, priorities of
  PLIC lines that change at run time. Floating-point registers with a clean status are
  nobody's (`Junk`), as the ABI has it.
* Simulator: shutdown (a late `pend` then panics), the channel of the timer thread, and
  threads on Windows.
* `Suite`: tests that measure time alone (`time_*`, `timer_*`), the round-robin
  computations, and fallbacks for targets without interrupt lines. Time advances only
  while no task runs or the running one spins.
* `Structures`: `push_front`, `pop_back` and the third level of the bitmap, which repeats
  the second.
* `Sync`: guards that are leaked with `mem::forget`.
* `r3_test_runner`, test drivers, examples and most of `r3_support_*`: host tools and
  device registers.
* Debug formatting, logging and the memory of stacks.
* In `Timeout`, the tick that `init` pends is pended in the initial state: no time passes
  between reading the counter at boot and the first request for a tick. In `TimerDriver`
  SysTick has no longest period: the driver refuses at compile time one that its register
  of 24 bits cannot hold, and the model allows it as well.
* In `Timeout`, the order in which `handle_tick` expires timeouts of equal arrival time:
  any.

## 6. Plan

Done: every module of section 2 and the theorems of section 4.

Left: the two comparisons above for unbounded inputs, and liveness, for which the provers
have no rule; both stay with TLC.

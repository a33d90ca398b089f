------------------------------- MODULE Scripts -------------------------------
(***************************************************************************)
(* The kernel tests of r3_test_suite as programs.                          *)
(*                                                                         *)
(* A test configures tasks, start-up hooks and interrupt handlers; each    *)
(* has a program, a sequence of calls of system services with the result   *)
(* the test expects, of steps of the test's SeqTracker, and of jumps.      *)
(* Tasks are numbered so that InitPrio[t] = t \div 10 is their priority    *)
(* and the order of definition is kept within a priority; Hook stands for  *)
(* the start-up hooks and numbers from 1000 for interrupt lines.           *)
(*                                                                         *)
(* Delays are in units of 100 milliseconds.  What a test does to handles   *)
(* only (equality, hashes, identifiers of objects that do not exist) and   *)
(* its fallback for targets without interrupt lines are left out.          *)
(***************************************************************************)
EXTENDS Integers, Sequences, SequencesExt, TLC

\* A call of the service f on the object x with the argument arg and the
\* timeout delay (Forever: the variant without one), the expected result res
\* and the value the service is expected to return (Unchecked: not looked at).
Forever == -1
Unchecked == <<>>
Instr(f, x, arg, res) ==
  [f |-> f, x |-> x, arg |-> arg, delay |-> Forever, res |-> res, value |-> Unchecked]

Do(f, x) == Instr(f, x, 0, "Ok")
DoWith(f, x, arg) == Instr(f, x, arg, "Ok")
Fails(f, x, res) == Instr(f, x, 0, res)
FailsWith(f, x, arg, res) == Instr(f, x, arg, res)
Within(i, delay) == [i EXCEPT !.delay = delay]
Returns(i, v) == [i EXCEPT !.value = <<v>>]
Is(f, x, v) == Returns(Do(f, x), v)

\* SeqTracker::expect_and_replace(n, n + 1) of the tracker k
Track(k, n) == Instr("track", k, n, "Ok")
Step(n) == Track("seq", n)

\* A memory cell k is assigned, and found to hold, n.
Put(k, n) == Instr("put", k, n, "Ok")
Holds(k, n) == Instr("holds", k, n, "Ok")

\* `while seq.get() != n {}`
SpinUntil(n) == Instr("spin", "seq", n, "Ok")

Success == Do("success", 0)
Unreachable == Do("unreachable", 0)
Sleep100(n) == Within(Do("sleep", 0), n)

\* if tracker k is at n then yes else no: a conditional and a plain jump over
\* the instructions not taken
IfAt(k, n, yes, no) ==
  <<Instr("unless", k, <<n, Len(yes) + 1>>, "Ok")>> \o yes
    \o <<Instr("jump", k, Len(no), "Ok")>> \o no

\* What a test configures.  tasks: the programs of the tasks; hooks and
\* handlers: sequences of [line, pri, prog] in the order of definition; lines:
\* the configured lines with their priorities; a managed priority is not
\* negative.
Test(tasks, initial) ==
  [tasks |-> tasks, active |-> initial, hooks |-> <<>>, handlers |-> <<>>,
   lines |-> <<>>]
Hooked(case, hooks) == [case EXCEPT !.hooks = hooks]
Handled(case, lines, handlers) ==
  [case EXCEPT !.lines = lines, !.handlers = handlers]

\* A start-up hook and an interrupt handler; their default priority is 0.
At(l, pri, prog) == [line |-> l, pri |-> pri, prog |-> prog]
Hook == 999
Line0 == 1000
Line1 == 1001

\* The line most tests configure: D::INTERRUPT_LINES[0], enabled, with
\* D::INTERRUPT_PRIORITIES[0]
OneLine == Line0 :> [pri |-> 0, enabled |-> TRUE]
WithIsr(case, prog) == Handled(case, OneLine, <<At(Line0, 0, prog)>>)

\* Event group wait flags
Cond(b, flags) == [bits |-> b, all |-> "ALL" \in flags, clear |-> "CLEAR" \in flags]

\* A sequence of programs, one for each of the values
ForEach(values, Prog(_)) == FlattenSeq([i \in DOMAIN values |-> Prog(values[i])])

-----------------------------------------------------------------------------
(* Tasks *)

basic == Test(1 :> <<Success>>, {1})

test_cpu_lock == Test(1 :>
  << Is("has_cpu_lock", 0, FALSE), Do("acquire_cpu_lock", 0),
     Is("has_cpu_lock", 0, TRUE), Fails("acquire_cpu_lock", 0, "BadContext"),
     Is("has_cpu_lock", 0, TRUE), Do("release_cpu_lock", 0),
     Is("has_cpu_lock", 0, FALSE), Fails("release_cpu_lock", 0, "BadContext"),
     Is("has_cpu_lock", 0, FALSE), Success >>, {1})

test_priority_boost == Test(1 :>
  << Is("is_priority_boost_active", 0, FALSE), Do("boost_priority", 0),
     Is("is_priority_boost_active", 0, TRUE), Fails("boost_priority", 0, "BadContext"),
     Is("is_priority_boost_active", 0, TRUE),
     Do("acquire_cpu_lock", 0), Is("has_cpu_lock", 0, TRUE), Do("release_cpu_lock", 0),
     Fails("park", 0, "BadContext"), Do("unboost_priority", 0),
     Is("is_priority_boost_active", 0, FALSE), Fails("unboost_priority", 0, "BadContext"),
     Is("is_priority_boost_active", 0, FALSE),
     Do("acquire_cpu_lock", 0), Fails("boost_priority", 0, "BadContext"),
     Do("release_cpu_lock", 0), Is("is_priority_boost_active", 0, FALSE),
     Success >>, {1})

task_activate_and_dispatch == Test(
     20 :> <<Step(0), Do("activate", 10), Step(2), Success>>
  @@ 10 :> <<Step(1), Do("exit_task", 0), Unreachable>>, {20})

task_activate_and_do_not_dispatch == Test(
     20 :> <<Step(0), Do("activate", 21), Fails("activate", 21, "QueueOverflow"), Step(1)>>
  @@ 21 :> <<Step(2), Success>>, {20})

task_queue_fifo == Test(
     20 :> <<Step(0), Do("activate", 21), Do("activate", 22), Do("activate", 23), Step(1)>>
  @@ 21 :> <<Step(2)>>
  @@ 22 :> <<Step(3)>>
  @@ 23 :> <<Step(4), Success>>, {20})

task_park == Test(
     20 :> <<Step(1), Do("unpark_exact", 10), Step(3), Do("interrupt", 10)>>
  @@ 10 :> <<Step(0), Do("park", 0), Step(2), Fails("park", 0, "Interrupted"), Step(4),
             Do("unpark_exact", 10), Do("park", 0), Do("unpark_exact", 10),
             Fails("unpark_exact", 10, "QueueOverflow"), Success>>, {20, 10})

task_park_priority_boost == Test(
     20 :> <<Step(1), Do("boost_priority", 0), Do("unpark_exact", 10), Step(2),
             Do("unboost_priority", 0), Step(4), Success>>
  @@ 10 :> <<Step(0), Do("park", 0), Step(3)>>, {20, 10})

\* A task body is entered twice; what the first entry leaves must be reset.
TwoEntries(prog) == Test(
     20 :> <<Do("activate", 10), Do("activate", 10), Success>>
  @@ 10 :> prog, {20})

task_park_reset == TwoEntries(<<Do("unpark_exact", 10)>>)
task_cpu_lock_reset == TwoEntries(<<Do("acquire_cpu_lock", 0)>>)
task_priority_boost_reset == TwoEntries(<<Do("boost_priority", 0)>>)

\* Both priorities of the task
Priorities(t, base, effective) ==
  <<Is("priority", t, base), Is("effective_priority", t, effective)>>

task_set_priority == Test(
     10 :> <<Step(0)>> \o Priorities(20, 2, 2) \o <<DoWith("set_priority", 20, 0), Step(2)>>
             \o Priorities(20, 2, 2)
  @@ 20 :> <<Step(1)>> \o Priorities(20, 0, 0) \o <<DoWith("set_priority", 20, 2),
             Step(3), Success>>, {10, 20})

task_priority_reset == Test(
     10 :> <<Step(0)>> \o Priorities(20, 2, 2) \o <<DoWith("set_priority", 20, 0), Step(2),
             Do("activate", 20), Step(3)>> \o Priorities(20, 2, 2)
  @@ 20 :> IfAt("seq", 1, <<Step(1)>> \o Priorities(20, 0, 0), <<Step(4), Success>>),
  {10, 20})

task_misc == Hooked(Test(
     20 :> << Fails("activate", 20, "QueueOverflow"),
              Fails("interrupt", 10, "BadObjectState"),
              FailsWith("set_priority", 10, 1, "BadObjectState"),
              Fails("priority", 10, "BadObjectState"),
              Fails("effective_priority", 10, "BadObjectState"),
              Fails("interrupt", 20, "BadObjectState") >>
            \o Priorities(20, 2, 2)
            \o <<FailsWith("set_priority", 20, 99, "BadParam")>>
            \o Priorities(20, 2, 2)
            \o << Is("current", 0, 20), Is("is_task_context", 0, TRUE),
              Is("is_interrupt_context", 0, FALSE), Is("is_boot_complete", 0, TRUE),
              Do("acquire_cpu_lock", 0),
              Fails("activate", 20, "BadContext"), Fails("interrupt", 20, "BadContext"),
              Fails("unpark", 20, "BadContext"), Fails("park", 0, "BadContext"),
              FailsWith("set_priority", 20, 2, "BadContext"),
              Fails("priority", 20, "BadContext"),
              Fails("effective_priority", 20, "BadContext"),
              Do("release_cpu_lock", 0), Do("activate", 11) >>
  @@ 10 :> <<Unreachable>>
  @@ 11 :> <<Is("current", 0, 11), Success>>, {20}),
  <<At(Hook, 0, <<Fails("current", 0, "BadContext")>>)>>)

task_take_interrupt_at_return == WithIsr(Test(20 :>
  IfAt("state", 0,
    <<Track("state", 0), Do("acquire_cpu_lock", 0), Step(0), Do("pend", Line0), Step(1)>>,
    <<Step(4), Success>>), {20}),
  <<Step(2), Do("activate", 20), Step(3)>>)

-----------------------------------------------------------------------------
(* Mutexes: "m0" to "m3" have no protocol, "c0" to "c3" these ceilings. *)

mutex_unlock_and_dispatch == Test(
     20 :> <<Step(0), Do("lock", "m0"), Step(1), Do("activate", 10), Step(3),
             Do("activate", 1), Step(5), Do("unlock", "m0"), Step(8), Success>>
  @@ 10 :> <<Step(2), Do("lock", "m0"), Step(7)>>
  @@ 1  :> <<Step(4), Do("lock", "m0"), Step(6), Do("unlock", "m0")>>, {20})

mutex_nesting == LET task == 150 IN Test(task :>
     Priorities(task, 15, 15)
  \o <<Do("lock", "c3")>> \o Priorities(task, 15, 3)
  \o <<Do("lock", "c2")>> \o Priorities(task, 15, 2)
  \o <<Do("lock", "c1")>> \o Priorities(task, 15, 1)
  \o <<Do("lock", "c0")>> \o Priorities(task, 15, 0)
  \o <<DoWith("set_priority", task, 12)>>
  \o <<Do("unlock", "c0")>> \o Priorities(task, 12, 1)
  \o <<Do("unlock", "c1")>> \o Priorities(task, 12, 2)
  \o <<Do("unlock", "c2")>> \o Priorities(task, 12, 3)
  \o <<Do("unlock", "c3")>> \o Priorities(task, 12, 12) \o <<Success>>, {task})

mutex_timeout == Test(
     20 :> <<Step(0), Do("lock", "m0"), Do("activate", 10), Step(2), Sleep100(3), Step(4),
             Do("unlock", "m0"), Step(7), Within(Fails("lock", "m0", "Abandoned"), 5),
             Step(9), Success>>
  @@ 10 :> <<Step(1), Within(Fails("lock", "m0", "Timeout"), 2), Step(3),
             Within(Do("lock", "m0"), 2), Step(5), Do("unlock", "m0"),
             Within(Do("lock", "m0"), 2), Step(6), Sleep100(2), Step(8)>>, {20})

mutex_protect_priority_by_ceiling == Test(
     1  :> <<Step(2), Do("activate", 10), Step(3), Do("lock", "c0"), Step(6),
             Do("unlock", "c0")>>
  @@ 10 :> <<Step(4), SpinUntil(7), Success>>
  @@ 20 :> <<Is("effective_priority", 20, 2), Is("priority", 20, 2), Step(0),
             Do("lock", "c0"), Is("effective_priority", 20, 0), Is("priority", 20, 2),
             Step(1), Do("activate", 1), Sleep100(2), Step(5), Do("unlock", "c0"),
             Is("effective_priority", 20, 2), Is("priority", 20, 2)>>, {20})

\* The four ways of locking m all fail with res.
LockFails(m, res) ==
  <<Fails("lock", m, res), Fails("try_lock", m, res), Within(Fails("lock", m, res), 0)>>

\* mutex_misc, the services in the wrong context: in task1 ...
mutex_misc_contexts ==
     <<Step(0), Do("pend", Line0), Do("acquire_cpu_lock", 0),
       Fails("is_locked", "m0", "BadContext"), Fails("unlock", "m0", "BadContext")>>
  \o LockFails("m0", "BadContext")
  \o <<Fails("mark_consistent", "m0", "BadContext"), Do("release_cpu_lock", 0),
       Do("boost_priority", 0), Fails("unlock", "m0", "BadContext"),
       Fails("lock", "m0", "BadContext"), Within(Fails("lock", "m0", "BadContext"), 0),
       Do("try_lock", "m0"), Is("is_locked", "m0", TRUE),
       Fails("mark_consistent", "m0", "BadObjectState"), Do("unboost_priority", 0),
       Do("unlock", "m0"), Fails("unlock", "m0", "NotOwner"), Do("lock", "m0")>>
  \o LockFails("m0", "WouldDeadlock") \o <<Do("unlock", "m0")>>

\* ... and in its interrupt handler
mutex_misc_isr ==
  <<Step(1), Is("is_locked", "m0", FALSE), Fails("mark_consistent", "m0", "BadObjectState"),
    Fails("unlock", "m0", "BadContext")>> \o LockFails("m0", "BadContext")

\* Random nestings of the mutexes; see Nest in Suite.
mutex_misc_nesting == <<DoWith("nest", 20, {"m0", "c1", "m1", "m2"}),
                        DoWith("unnest", 20, {"m0", "c1", "m1", "m2"}),
                        Fails("mark_consistent", "m0", "BadObjectState")>>

\* The priority of the current task against the ceiling of the mutex
mutex_misc_ceiling ==
  ForEach(<<0, 1, 2, 3>>, LAMBDA pri :
    <<DoWith("set_priority", 20, pri)>> \o Priorities(20, pri, pri) \o
    IF pri < 1 THEN LockFails("c1", "BadParam")
    ELSE <<Do("lock", "c1")>> \o Priorities(20, pri, 1)
         \o <<Do("unlock", "c1"), Do("try_lock", "c1"), Do("unlock", "c1"),
              Within(Do("lock", "c1"), 0)>>
         \o ForEach(<<0, 1, 2, 3>>, LAMBDA pri2 :
              IF pri2 < 1 THEN <<FailsWith("set_priority", 20, pri2, "BadParam")>>
              ELSE <<DoWith("set_priority", 20, pri2)>> \o Priorities(20, pri2, 1))
         \o <<Do("unlock", "c1")>> \o Priorities(20, 3, 3))
  \o <<DoWith("set_priority", 20, 2)>>

\* The priority of a waiting task against the ceiling, and abandonment
mutex_misc_waiting ==
     <<Do("activate", 21), Do("lock", "c1"), Sleep100(2)>> \o Priorities(21, 2, 2)
  \o ForEach(<<3, 2, 1, 0>>, LAMBDA pri :
       IF pri < 1 THEN <<FailsWith("set_priority", 21, pri, "BadParam")>>
       ELSE <<DoWith("set_priority", 21, pri)>> \o Priorities(21, pri, pri))
  \o <<Do("unlock", "c1"), Do("mark_consistent", "c1"),
       Do("activate", 21), Sleep100(2), Do("mark_consistent", "c1"),
       Do("lock", "m0"), Step(2), Do("activate", 30)>>

mutex_misc == WithIsr(Test(
     20 :> mutex_misc_contexts \o mutex_misc_nesting \o mutex_misc_ceiling
             \o mutex_misc_waiting
  @@ 30 :> <<Step(3), Is("is_locked", "m0", FALSE), Fails("lock", "m0", "Abandoned"),
             Is("is_locked", "m0", TRUE), Do("unlock", "m0"),
             Fails("lock", "m0", "Abandoned"), Do("unlock", "m0"),
             Fails("try_lock", "m0", "Abandoned"), Do("unlock", "m0"),
             Within(Fails("lock", "m0", "Abandoned"), 0), Do("unlock", "m0"),
             Do("mark_consistent", "m0"), Do("lock", "m0"), Success>>
  @@ 21 :> Priorities(21, 2, 2) \o <<Do("lock", "c1")>>, {20}),
  mutex_misc_isr)

-----------------------------------------------------------------------------
(* Semaphores: "s02" starts with 0 permits and holds 2 at most, and so on. *)

semaphore_signal_and_dispatch == Test(
     20 :> <<Step(2), Is("get", "s02", 0), DoWith("signal", "s02", 2), Step(5),
             Is("get", "s02", 0), DoWith("signal", "s02", 2), Is("get", "s02", 1),
             Step(7), Success>>
  @@ 10 :> <<Step(0), Do("wait_one", "s02"), Step(3), Do("wait_one", "s02"), Step(6)>>
  @@ 11 :> <<Step(1), Do("wait_one", "s02"), Step(4)>>, {20, 10, 11})

semaphore_timeout == Test(
     20 :> <<Step(1), Sleep100(3), Step(3), DoWith("signal", "s01", 1), Step(6), Success>>
  @@ 10 :> <<Step(0), Within(Fails("wait_one", "s01", "Timeout"), 2), Step(2),
             Within(Do("wait_one", "s01"), 2), Step(4), DoWith("signal", "s01", 1),
             Within(Do("wait_one", "s01"), 2), Step(5)>>, {20, 10})

semaphore_interrupt_handler == WithIsr(Test(
     20 :> <<Step(1), Do("pend", Line0)>>
  @@ 10 :> <<Step(0), Do("wait_one", "s02"), Step(3), Is("get", "s02", 0), Success>>,
  {20, 10}),
  <<Step(2), Fails("poll_one", "s02", "Timeout"), Fails("wait_one", "s02", "BadContext"),
    DoWith("signal", "s02", 1)>>)

semaphore_misc == Test(20 :>
  << Do("acquire_cpu_lock", 0), Fails("get", "s11", "BadContext"),
     Fails("drain", "s11", "BadContext"), FailsWith("signal", "s11", 1, "BadContext"),
     Fails("wait_one", "s11", "BadContext"), Fails("poll_one", "s11", "BadContext"),
     Do("release_cpu_lock", 0),
     Is("get", "s12", 1), FailsWith("signal", "s12", 2, "QueueOverflow"),
     Is("get", "s12", 1), DoWith("signal", "s12", 1),
     Is("get", "s12", 2), FailsWith("signal", "s12", 1, "QueueOverflow"),
     FailsWith("signal", "s12", 99, "QueueOverflow"),
     Is("get", "s12", 2), DoWith("signal", "s12", 0),
     Is("get", "s12", 2), Do("poll_one", "s12"),
     Is("get", "s12", 1), Do("poll_one", "s12"),
     Is("get", "s12", 0), Fails("poll_one", "s12", "Timeout"), Is("get", "s12", 0),
     DoWith("signal", "s12", 2), Is("get", "s12", 2), Do("drain", "s12"),
     Is("get", "s12", 0), Success >>, {20})

-----------------------------------------------------------------------------
(* Event groups: "ef" is in Fifo, "ep" in TaskPriority order. *)

\* A bit of a group
Set1(e) == DoWith("set", e, {0})
Wait1(e) == DoWith("wait", e, Cond({0}, {"CLEAR"}))
WaitNoClear(e) == DoWith("wait", e, Cond({0}, {}))

event_group_misc == Test(20 :>
  << Do("acquire_cpu_lock", 0), Fails("get_bits", "ep", "BadContext"),
     FailsWith("set", "ep", {}, "BadContext"), FailsWith("clear", "ep", {}, "BadContext"),
     FailsWith("wait", "ep", Cond({}, {}), "BadContext"), Do("release_cpu_lock", 0),
     Success >>, {20})

event_group_poll == Hooked(WithIsr(Test(<<>>, {}),
  << FailsWith("poll", "ep", Cond({0}, {"CLEAR"}), "Timeout"), DoWith("set", "ep", {0, 1}),
     DoWith("poll", "ep", Cond({1, 2}, {"CLEAR"})), Is("get_bits", "ep", {0}),
     FailsWith("wait", "ep", Cond({0}, {"CLEAR"}), "BadContext"), Success >>),
  <<At(Hook, 0, <<Do("enable", Line0), Do("pend", Line0)>>)>>)

event_group_set_and_dispatch == Test(
     20 :> <<Step(3), DoWith("set", "ep", {0, 1, 2, 3}), Step(7),
             Is("get_bits", "ep", {2, 3}), Success>>
  @@ 10 :> <<Step(0), Wait1("ep"), Step(4)>>
  @@ 11 :> <<Step(1), DoWith("wait", "ep", Cond({1}, {"CLEAR"})), Step(5)>>
  @@ 12 :> <<Step(2), DoWith("wait", "ep", Cond({2, 3}, {"ALL"})), Step(6)>>,
  {20, 10, 11, 12})

event_group_interrupt == Test(
     20 :> <<Step(1), Do("interrupt", 10), Step(3), Do("interrupt", 10)>>
  @@ 10 :> <<Step(0), FailsWith("wait", "ef", Cond({0}, {"CLEAR"}), "Interrupted"), Step(2),
             Within(FailsWith("wait", "ef", Cond({0}, {"CLEAR"}), "Interrupted"), 1),
             Step(4), Success>>, {20, 10})

event_group_timeout == Test(
     20 :> <<Step(1), Sleep100(3), Step(3), Set1("ef"), Step(6), Success>>
  @@ 10 :> <<Step(0), Within(FailsWith("wait", "ef", Cond({0}, {}), "Timeout"), 2), Step(2),
             Within(WaitNoClear("ef"), 2), Step(4), Within(WaitNoClear("ef"), 2),
             Step(5)>>, {20, 10})

\* Four tasks wait for one bit, which task 0 sets four times.
FourWaiters(e, task0, order, n, middle) == Test(
     task0 :> <<Step(0)>> \o ForEach(order, LAMBDA t : <<Do("activate", t)>>) \o middle
              \o <<Set1(e), Set1(e), Set1(e), Set1(e), Step(9), Success>>
  @@ [t \in DOMAIN n |-> <<Step(n[t][1]), Wait1(e), Step(n[t][2])>>], {task0})

event_group_order_fifo == FourWaiters("ef", 30, <<20, 10, 11, 21>>,
  10 :> <<2, 6>> @@ 11 :> <<3, 7>> @@ 20 :> <<1, 5>> @@ 21 :> <<4, 8>>,
  <<DoWith("set_priority", 11, 0), DoWith("set_priority", 21, 0)>>)

event_group_order_task_priority == FourWaiters("ep", 30, <<20, 10, 11, 21>>,
  10 :> <<2, 5>> @@ 11 :> <<3, 6>> @@ 20 :> <<1, 7>> @@ 21 :> <<4, 8>>, <<>>)

event_group_reorder_task_priority == FourWaiters("ep", 40, <<11, 10, 20, 21>>,
  10 :> <<2, 5>> @@ 20 :> <<3, 6>> @@ 11 :> <<1, 7>> @@ 21 :> <<4, 8>>,
  <<DoWith("set_priority", 10, 1), DoWith("set_priority", 11, 2),
    DoWith("set_priority", 21, 3)>>)

event_group_wait_types == LET all == {0, 1, 2, 3, 4} IN Test(20 :>
  << DoWith("set", "ep", {0, 1, 5}), DoWith("clear", "ep", {5}),
     DoWith("wait", "ep", Cond(all, {"CLEAR"})), Is("get_bits", "ep", {}),
     DoWith("set", "ep", {0, 1}), DoWith("wait", "ep", Cond(all, {})),
     Is("get_bits", "ep", {0, 1}), DoWith("set", "ep", {0, 1}),
     DoWith("wait", "ep", Cond({0}, {"ALL", "CLEAR"})), Is("get_bits", "ep", {1}),
     Success >>, {20})

-----------------------------------------------------------------------------
(* Interrupt lines and start-up hooks *)

interrupt_task_activate == WithIsr(Test(
  10 :> <<Do("pend", Line0)>> @@ 1 :> <<Success>>, {10}), <<Do("activate", 1)>>)

interrupt_disallowed_services == WithIsr(Test(1 :> <<Do("pend", Line0)>>, {1}),
  << FailsWith("line_set_priority", Line0, 0, "BadContext"),
     FailsWith("line_set_priority_unchecked", Line0, 0, "BadContext"),
     Fails("boost_priority", 0, "BadContext"), Fails("exit_task", 0, "BadContext"),
     Fails("park", 0, "BadContext"), Success >>)

interrupt_during_boot == Hooked(
  Handled(Test(<<>>, {}), Line0 :> [pri |-> 0, enabled |-> FALSE],
          <<At(Line0, 0, <<Step(2), Success>>)>>),
  <<At(Hook, 0, <<Step(0), Is("has_cpu_lock", 0, TRUE), Do("enable", Line0),
                  Do("pend", Line0), Step(1)>>)>>)

\* The line is pended and cleared while its handler cannot run.
PendAndClear ==
  <<Do("pend", Line0), Is("is_pending", Line0, TRUE), Do("line_clear", Line0)>>

interrupt_misc == Hooked(
  Handled(Test(1 :>
       <<DoWith("line_set_priority", Line0, 0), DoWith("line_set_priority", Line0, 1),
         DoWith("line_set_priority_unchecked", Line0, 0),
         DoWith("line_set_priority_unchecked", Line0, 1), Do("acquire_cpu_lock", 0),
         FailsWith("line_set_priority", Line0, 0, "BadContext"),
         FailsWith("line_set_priority_unchecked", Line0, 0, "BadContext"),
         Do("release_cpu_lock", 0),
         FailsWith("line_set_priority", Line0, -1, "BadParam"),
         FailsWith("line_set_priority", Line0, 2, "BadParam"),
         Do("enable", Line0), Do("line_clear", Line0), Do("acquire_cpu_lock", 0)>>
       \o PendAndClear \o <<Do("release_cpu_lock", 0), Do("disable", Line0)>>
       \o PendAndClear \o <<Do("enable", Line0), Is("is_pending", Line0, FALSE),
         Step(0), DoWith("line_set_priority", Line0, 0), Do("pend", Line0)>>, {1}),
     Line0 :> [pri |-> -1, enabled |-> FALSE],
     <<At(Line0, 0, <<Step(1), Is("is_task_context", 0, FALSE),
          Is("is_interrupt_context", 0, TRUE), Is("is_boot_complete", 0, TRUE), Success>>)>>),
  <<At(Hook, 0, <<FailsWith("line_set_priority", Line0, 0, "BadContext"),
                  Do("enable", Line0), Do("disable", Line0), Is("is_pending", Line0, FALSE),
                  Do("line_clear", Line0)>> \o PendAndClear)>>)

interrupt_priority == Handled(Test(1 :>
    <<Step(0), Do("acquire_cpu_lock", 0), Do("pend", Line1), Do("pend", Line0),
      Do("release_cpu_lock", 0)>>, {1}),
  OneLine @@ Line1 :> [pri |-> 1, enabled |-> TRUE],
  <<At(Line0, 0, <<Step(1)>>), At(Line1, 0, <<Step(2), Success>>)>>)

interrupt_handler_priority == Handled(Test(1 :> <<Step(0), Do("pend", Line0)>>, {1}), OneLine,
  LET isr(i) == At(Line0, 10 * i, IF i = 10 THEN <<Step(i), Success>> ELSE <<Step(i)>>)
  IN  <<isr(3), isr(1), isr(7), isr(5), isr(4), isr(10), isr(9), isr(8), isr(2), isr(6)>>)

interrupt_unmanaged == Handled(Test(1 :>
    <<Step(0), Do("acquire_cpu_lock", 0), Step(1), Do("pend", Line0), Step(3),
      Do("release_cpu_lock", 0), Step(4), Success>>, {1}),
  Line0 :> [pri |-> -1, enabled |-> TRUE], <<At(Line0, 0, <<Step(2)>>)>>)

startup_hook_misc == Hooked(Test(<<>>, {}), <<At(Hook, 0,
  <<Is("is_task_context", 0, FALSE), Is("is_interrupt_context", 0, FALSE),
    Is("is_boot_complete", 0, FALSE), Success>>)>>)

startup_hook_disallowed_services == Hooked(Test(<<>>, {}), <<At(Hook, 0,
  <<Is("has_cpu_lock", 0, TRUE), Fails("boost_priority", 0, "BadContext"),
    Fails("exit_task", 0, "BadContext"), Fails("park", 0, "BadContext"), Success>>)>>)

startup_hook_pend_interrupt == Hooked(
  WithIsr(Test(1 :> <<Step(4), Success>>, {}), <<Step(2), Do("activate", 1), Step(3)>>),
  <<At(Hook, 0, <<Step(0), Do("pend", Line0), Step(1)>>)>>)

startup_hook_priority == Hooked(Test(<<>>, {}),
  LET hook(i, pri) == At(Hook, pri, IF i = 18 THEN <<Step(i), Success>> ELSE <<Step(i)>>)
  IN  << hook(0, 5), hook(11, 30), hook(9, 10), hook(1, 5), hook(15, 70), hook(13, 50),
         hook(2, 5), hook(12, 40), hook(3, 5), hook(4, 5), hook(5, 5), hook(18, 100),
         hook(6, 5), hook(17, 90), hook(7, 5), hook(16, 80), hook(10, 20), hook(14, 60),
         hook(8, 5) >>)

-----------------------------------------------------------------------------
(* Mutexes with data.  A guard is dropped where its scope ends, and the      *)
(* recursive mutex counts the guards of the owner beyond the first in level. *)

\* An access to the data within one guard
Guarded(lock, m, prog) == <<Do(lock, m)>> \o prog \o <<Do("unlock", m)>>

sync_mutex_lock_and_dispatch == Test(
     20 :> <<Step(0)>>
           \o Guarded("lock", "m0", <<Do("activate", 10), Step(2), Put("data0", 42)>>)
           \o <<Step(5)>> \o Guarded("lock", "m0", <<Holds("data0", 56)>>) \o <<Success>>
  @@ 10 :> <<Step(1), Fails("try_lock", "m0", "Timeout")>>
           \o Guarded("lock", "m0", <<Step(3), Holds("data0", 42), Put("data0", 56)>>)
           \o <<Step(4)>>, {20})

SyncWrongContext == <<Fails("lock", "m0", "BadContext"), Fails("try_lock", "m0", "BadContext")>>

\* Both misc tests, but for what a second guard does
SyncMisc(double) == WithIsr(Test(20 :>
     <<Step(0), Do("pend", Line0), Do("acquire_cpu_lock", 0)>> \o SyncWrongContext
  \o <<Do("release_cpu_lock", 0)>>
  \o Guarded("lock", "m0", <<>>) \o Guarded("lock", "m0", <<>>)
  \o Guarded("lock", "m0", Guarded("lock", "m1", <<>>) \o Guarded("lock", "m1", <<>>))
  \o Guarded("try_lock", "m0", <<>>) \o Guarded("try_lock", "m0", <<>>)
  \o Guarded("lock", "m0", double)
  \o Guarded("lock", "m0", <<Put("data0", 8)>>)
  \o Guarded("try_lock", "m0", <<Holds("data0", 8), Put("data0", 9)>>)
  \o Guarded("lock", "m1", <<Put("data1", 1)>>)
  \o Guarded("try_lock", "m1", <<Holds("data1", 1), Put("data1", 0)>>)
  \o Guarded("lock", "m0", <<Holds("data0", 9)>>)
  \o Guarded("lock", "m1", <<Holds("data1", 0)>>)
  \o <<Holds("data0", 9), Holds("data1", 0), Success>>, {20}),
  <<Step(1)>> \o SyncWrongContext)

sync_mutex_misc == SyncMisc(
  <<Fails("try_lock", "m0", "WouldDeadlock"), Fails("try_lock", "m0", "WouldDeadlock")>>)

\* lock and try_lock turn WouldDeadlock into a deeper nesting, drop undoes it.
sync_recursive_mutex_misc == SyncMisc(
  << Fails("try_lock", "m0", "WouldDeadlock"), Put("level0", 1),
     Fails("try_lock", "m0", "WouldDeadlock"), Put("level0", 2),
     Put("level0", 1), Put("level0", 0) >>)

sync_recursive_mutex_lock_and_dispatch == sync_mutex_lock_and_dispatch

-----------------------------------------------------------------------------
(* Benchmarks: the main task repeats an iteration, here twice, until every   *)
(* interval has enough samples.  The clock readings are left out.            *)

Benchmark(iter, tasks) == Test(30 :> iter \o iter \o <<Success>> @@ tasks, {30})

bench_mutex(m) == Benchmark(
  <<Do("lock", m), Do("activate", 10), Do("park", 0), Do("unlock", m)>>,
  10 :> <<Do("unpark", 30), Do("lock", m), Do("unlock", m)>>)
bench_mutex_none == bench_mutex("m0")
bench_mutex_ceiling == bench_mutex("c1")

bench_semaphore == Benchmark(
  <<Do("wait_one", "s11"), Do("activate", 10), DoWith("signal", "s11", 1)>>,
  10 :> <<Do("wait_one", "s11"), DoWith("signal", "s11", 1)>>)

bench_task_lifecycle == Benchmark(<<Do("activate", 10)>>,
  10 :> <<Do("activate", 20)>> @@ 20 :> <<Do("exit_task", 0), Unreachable>>)

-----------------------------------------------------------------------------
\* The tests and the benchmarks, by name
Tests == [
  basic |-> basic, cpu_lock |-> test_cpu_lock, priority_boost |-> test_priority_boost,
  task_activate_and_dispatch |-> task_activate_and_dispatch,
  task_activate_and_do_not_dispatch |-> task_activate_and_do_not_dispatch,
  task_queue_fifo |-> task_queue_fifo,
  task_park |-> task_park,
  task_park_priority_boost |-> task_park_priority_boost,
  task_park_reset |-> task_park_reset,
  task_cpu_lock_reset |-> task_cpu_lock_reset,
  task_priority_boost_reset |-> task_priority_boost_reset,
  task_set_priority |-> task_set_priority,
  task_priority_reset |-> task_priority_reset,
  task_misc |-> task_misc,
  task_take_interrupt_at_return |-> task_take_interrupt_at_return,
  mutex_unlock_and_dispatch |-> mutex_unlock_and_dispatch,
  mutex_nesting |-> mutex_nesting,
  mutex_timeout |-> mutex_timeout,
  mutex_protect_priority_by_ceiling |-> mutex_protect_priority_by_ceiling,
  mutex_misc |-> mutex_misc,
  semaphore_signal_and_dispatch |-> semaphore_signal_and_dispatch,
  semaphore_timeout |-> semaphore_timeout,
  semaphore_interrupt_handler |-> semaphore_interrupt_handler,
  semaphore_misc |-> semaphore_misc,
  event_group_misc |-> event_group_misc,
  event_group_poll |-> event_group_poll,
  event_group_set_and_dispatch |-> event_group_set_and_dispatch,
  event_group_interrupt |-> event_group_interrupt,
  event_group_timeout |-> event_group_timeout,
  event_group_order_fifo |-> event_group_order_fifo,
  event_group_order_task_priority |-> event_group_order_task_priority,
  event_group_reorder_task_priority |-> event_group_reorder_task_priority,
  event_group_wait_types |-> event_group_wait_types,
  interrupt_task_activate |-> interrupt_task_activate,
  interrupt_disallowed_services |-> interrupt_disallowed_services,
  interrupt_during_boot |-> interrupt_during_boot,
  interrupt_misc |-> interrupt_misc,
  interrupt_priority |-> interrupt_priority,
  interrupt_handler_priority |-> interrupt_handler_priority,
  interrupt_unmanaged |-> interrupt_unmanaged,
  startup_hook_misc |-> startup_hook_misc,
  startup_hook_disallowed_services |-> startup_hook_disallowed_services,
  startup_hook_pend_interrupt |-> startup_hook_pend_interrupt,
  startup_hook_priority |-> startup_hook_priority,
  sync_mutex_lock_and_dispatch |-> sync_mutex_lock_and_dispatch,
  sync_mutex_misc |-> sync_mutex_misc,
  sync_recursive_mutex_misc |-> sync_recursive_mutex_misc,
  sync_recursive_mutex_lock_and_dispatch |-> sync_recursive_mutex_lock_and_dispatch,
  bench_mutex_none |-> bench_mutex_none,
  bench_mutex_ceiling |-> bench_mutex_ceiling,
  bench_semaphore |-> bench_semaphore,
  bench_task_lifecycle |-> bench_task_lifecycle
]

=============================================================================

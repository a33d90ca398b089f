------------------------------- MODULE Errors -------------------------------
(***************************************************************************)
(* The error types of the system services (r3_core/src/kernel/error.rs).   *)
(*                                                                         *)
(* Each table gives, by the name of the service, the codes that a call can *)
(* fail with.  The services with and without a timeout have types of their *)
(* own: a code of TimedErrors is declared only by the variant that has a   *)
(* timeout.  NotSupported and NoAccess, which depend on the port and on    *)
(* the identifier, are left out: the model calls services that the port    *)
(* has, on objects that exist.                                             *)
(***************************************************************************)
EXTENDS TLC

TaskErrors == [
  activate           |-> {"BadContext", "QueueOverflow"},
  current            |-> {"BadContext"},
  interrupt          |-> {"BadContext", "BadObjectState"},
  set_priority       |-> {"BadContext", "BadParam", "BadObjectState"},
  priority           |-> {"BadContext", "BadObjectState"},
  effective_priority |-> {"BadContext", "BadObjectState"},
  exit_task          |-> {"BadContext"} ]

\* CpuLockError and BoostPriorityError
LockErrors == [
  acquire_cpu_lock |-> {"BadContext"},
  release_cpu_lock |-> {"BadContext"},
  boost_priority   |-> {"BadContext"},
  unboost_priority |-> {"BadContext"} ]

\* WaitTimeoutError converts into the errors of every wait with a timeout, to
\* which a negative timeout adds BadParam.
TimedErrors == {"Timeout", "BadParam"}

ParkErrors == [
  park         |-> {"BadContext", "Interrupted"},
  unpark       |-> {"BadContext", "BadObjectState"},
  unpark_exact |-> {"BadContext", "QueueOverflow", "BadObjectState"},
  sleep        |-> {"BadContext", "Interrupted", "BadParam"} ]

EventGroupErrors == [
  set      |-> {"BadContext"},
  clear    |-> {"BadContext"},
  get_bits |-> {"BadContext"},
  poll     |-> {"BadContext", "Timeout"},
  wait     |-> {"BadContext", "Interrupted"} ]

SemaphoreErrors == [
  get      |-> {"BadContext"},
  drain    |-> {"BadContext"},
  signal   |-> {"BadContext", "QueueOverflow"},
  poll_one |-> {"BadContext", "Timeout"},
  wait_one |-> {"BadContext", "Interrupted"} ]

MutexErrors == [
  is_locked       |-> {"BadContext"},
  unlock          |-> {"BadContext", "NotOwner", "BadObjectState"},
  try_lock        |-> {"BadContext", "Timeout", "WouldDeadlock", "BadParam", "Abandoned"},
  lock            |-> {"BadContext", "Interrupted", "WouldDeadlock", "BadParam",
                       "Abandoned"},
  mark_consistent |-> {"BadContext", "BadObjectState"} ]

InterruptLineErrors == [
  line_set_priority           |-> {"BadContext", "BadParam"},
  line_set_priority_unchecked |-> {"BadContext", "BadParam"},
  enable     |-> {"BadParam"},
  disable    |-> {"BadParam"},
  pend       |-> {"BadParam", "BadObjectState"},
  line_clear |-> {"BadParam", "BadObjectState"},
  is_pending |-> {"BadParam"} ]

DeclaredErrors == TaskErrors @@ LockErrors @@ ParkErrors @@ EventGroupErrors
                    @@ SemaphoreErrors @@ MutexErrors @@ InterruptLineErrors

\* The services with a variant that has a timeout
TimedServices == {"park", "wait", "wait_one", "lock"}
=============================================================================

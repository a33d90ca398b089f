-------------------------------- MODULE Sync --------------------------------
(***************************************************************************)
(* Mutexes with data: the guards of r3::sync::mutex and of                 *)
(* r3::sync::recursive_mutex, over mutexes of the kernel.                  *)
(*                                                                         *)
(* A call into the kernel is one step: it holds CPU Lock.  Between the     *)
(* steps of a method any other task may run, since interrupt handlers wake *)
(* up tasks and priorities change.  The kernel's mutex is what these       *)
(* modules use of it: an owner, a flag of inconsistency, waiters, and the  *)
(* order in which a task locked its mutexes; Kernel models the rest.       *)
(***************************************************************************)
EXTENDS Naturals, Sequences, SequencesExt

CONSTANTS SyTasks,      \* the tasks
          Plain,        \* the GenericMutexes
          Recursive,    \* the GenericRecursiveMutexes
          LevelWord,    \* the number of values of MutexInner::level
          MarkedBy,     \* who calls mark_consistent: "holder" or "anyone"
          NoOne

ASSUME SyncAssumption == /\ Plain \cap Recursive = {} /\ NoOne \notin SyTasks
                         /\ LevelWord \in Nat \ {0, 1} /\ MarkedBy \in {"holder", "anyone"}

VARIABLES
    syOwner,         \* the kernel: owner of each mutex
    syInconsistent,  \* the kernel: the inconsistency flags
    syHeld,          \* the kernel: the mutexes each task owns, in order
    syLevel,         \* MutexInner::level of each recursive mutex
    syGuards,        \* the guards of each task to each mutex: what came with them
    syPc,            \* where each task is: a place, a mutex and a value read
    syDirty,         \* the mutexes whose data an exit left inconsistent
    syPanic          \* why the system stopped

syVars == <<syOwner, syInconsistent, syHeld, syLevel, syGuards, syPc, syDirty, syPanic>>
kernelMutex == <<syOwner, syInconsistent, syHeld>>

SyMutexes == Plain \cup Recursive

\* level: bit 0 is LEVEL_ABANDONED, the rest is the nesting count.
Count(level) == level \div 2
AbandonedBit(level) == level % 2

At(at, m, x) == [at |-> at, m |-> m, x |-> x]
Running == At("run", NoOne, 0)
Goes(t, at, m, x) == syPc' = [syPc EXCEPT ![t] = At(at, m, x)]
Returns(t) == syPc' = [syPc EXCEPT ![t] = Running]

\* Another task or a later call may begin.
Calls(t) == syPanic = "none" /\ syPc[t].at = "run"
Continues(t, at) == syPanic = "none" /\ syPc[t].at = at

Guard(t, m, as) == syGuards' = [syGuards EXCEPT ![t][m] = Append(@, as)]
HasGuard(t, m) == syGuards[t][m] # <<>>

SyncInit ==
    /\ syOwner = [m \in SyMutexes |-> NoOne] /\ syInconsistent = {}
    /\ syHeld = [t \in SyTasks |-> <<>>]
    /\ syLevel = [m \in Recursive |-> 0]
    /\ syGuards = [t \in SyTasks |-> [m \in SyMutexes |-> <<>>]]
    /\ syPc = [t \in SyTasks |-> Running]
    /\ syDirty = {} /\ syPanic = "none"

-----------------------------------------------------------------------------
(* The kernel's mutexes.                                                   *)

KernelLock(t, m) ==
    /\ syOwner[m] = NoOne
    /\ syOwner' = [syOwner EXCEPT ![m] = t]
    /\ syHeld' = [syHeld EXCEPT ![t] = Append(@, m)]
    /\ UNCHANGED syInconsistent

\* To nobody or to one of the waiters.
Heir(m) == LET waiters == {t \in SyTasks : syPc[t].at = "blocked" /\ syPc[t].m = m}
           IN IF waiters = {} THEN {NoOne} ELSE waiters

-----------------------------------------------------------------------------
(* lock and try_lock.                                                      *)

\* What the kernel returned to t, now the owner of m: Ok, or Abandoned with
\* the lock.  The methods of a plain mutex return it with a guard.
Locked(t, m) ==
    IF m \in Plain
    THEN Guard(t, m, IF m \in syInconsistent THEN "Abandoned" ELSE "Ok") /\ Returns(t)
    ELSE /\ Goes(t, IF m \in syInconsistent THEN "abandoned" ELSE "locked", m, 0)
         /\ UNCHANGED syGuards

\* The lock is free.
LockFree(t, m) ==
    /\ Calls(t) /\ KernelLock(t, m) /\ Locked(t, m)
    /\ UNCHANGED <<syLevel, syDirty, syPanic>>

\* lock waits; try_lock returns WouldBlock and changes nothing, like the errors
\* BadContext and BadParam.
LockWaits(t, m) ==
    /\ Calls(t) /\ syOwner[m] \notin {NoOne, t}
    /\ Goes(t, "blocked", m, 0)
    /\ UNCHANGED <<kernelMutex, syLevel, syGuards, syDirty, syPanic>>

\* Task::interrupt.
LockInterrupted(t) ==
    /\ Continues(t, "blocked") /\ syOwner[syPc[t].m] # t
    /\ Returns(t)
    /\ UNCHANGED <<kernelMutex, syLevel, syGuards, syDirty, syPanic>>

\* The owner unlocked m, or exited, and t got it.
LockGranted(t) ==
    /\ Continues(t, "blocked") /\ syOwner[syPc[t].m] = t
    /\ Locked(t, syPc[t].m)
    /\ UNCHANGED <<kernelMutex, syLevel, syDirty, syPanic>>

\* WouldDeadlock: t has the lock.  A plain mutex returns the error.
Nest(t, m) ==
    /\ Calls(t) /\ syOwner[m] = t /\ m \in Recursive
    /\ IF syLevel[m] + 2 >= LevelWord
       THEN syPanic' = "nesting count overflow" /\ UNCHANGED syPc
       ELSE Goes(t, "nested", m, syLevel[m] + 2) /\ UNCHANGED syPanic
    /\ UNCHANGED <<kernelMutex, syLevel, syGuards, syDirty>>

\* ... and level.update stores what it computed.
NestStores(t) ==
    /\ Continues(t, "nested")
    /\ syLevel' = [syLevel EXCEPT ![syPc[t].m] = syPc[t].x]
    /\ Goes(t, "locked", syPc[t].m, 0)
    /\ UNCHANGED <<kernelMutex, syGuards, syDirty, syPanic>>

\* Mutant: the nesting count of the task that exited is kept.
AbandonedStoresBit(t) ==
    LET m == syPc[t].m IN
    /\ Continues(t, "abandoned")
    /\ syLevel' = [syLevel EXCEPT ![m] = 2 * Count(@) + 1]
    /\ Goes(t, "level set", m, 0)
    /\ UNCHANGED <<kernelMutex, syGuards, syDirty, syPanic>>

\* Abandoned: the nesting count is made consistent ...
AbandonedStores(t) ==
    LET m == syPc[t].m IN
    /\ Continues(t, "abandoned")
    /\ syLevel' = [syLevel EXCEPT ![m] = 1]
    /\ Goes(t, "level set", m, 0)
    /\ UNCHANGED <<kernelMutex, syGuards, syDirty, syPanic>>

\* ... and the kernel is told so.
AbandonedMarks(t) ==
    LET m == syPc[t].m IN
    /\ Continues(t, "level set")
    /\ IF m \in syInconsistent
       THEN /\ syInconsistent' = syInconsistent \ {m}
            /\ Goes(t, "locked", m, 0) /\ UNCHANGED syPanic
       ELSE syPanic' = "mark_consistent" /\ UNCHANGED <<syInconsistent, syPc>>
    /\ UNCHANGED <<syOwner, syHeld, syLevel, syGuards, syDirty>>

\* The flag decides what comes with the guard.
LockReturns(t) ==
    LET m == syPc[t].m IN
    /\ Continues(t, "locked")
    /\ Guard(t, m, IF AbandonedBit(syLevel[m]) = 1 THEN "Abandoned" ELSE "Ok")
    /\ Returns(t)
    /\ UNCHANGED <<kernelMutex, syLevel, syDirty, syPanic>>

-----------------------------------------------------------------------------
(* mark_consistent, a method of the mutex and not of its guard.            *)

MayMark(t, m) == Calls(t) /\ (MarkedBy = "holder" => HasGuard(t, m))

\* The kernel's flag is all there is.
MarkConsistentPlain(t, m) ==
    /\ MayMark(t, m) /\ m \in Plain
    /\ syInconsistent' = syInconsistent \ {m}
    /\ syDirty' = syDirty \ {m}
    /\ UNCHANGED <<syOwner, syHeld, syLevel, syGuards, syPc, syPanic>>

\* The kernel's flag and the flag in level, of which the second is still to be
\* reset when this step is over.
MarkConsistent(t, m) ==
    /\ MayMark(t, m) /\ m \in Recursive
    /\ m \in syInconsistent \/ AbandonedBit(syLevel[m]) = 1
    /\ syInconsistent' = syInconsistent \ {m}
    /\ Goes(t, "marked", m, IF m \in syInconsistent THEN 0 ELSE syLevel[m] - 1)
    /\ UNCHANGED <<syOwner, syHeld, syLevel, syGuards, syDirty, syPanic>>

\* The level is stored: zero, or what it was without the flag.
MarkStores(t) ==
    LET m == syPc[t].m IN
    /\ Continues(t, "marked")
    /\ syLevel' = [syLevel EXCEPT ![m] = syPc[t].x]
    /\ syDirty' = syDirty \ {m}
    /\ Returns(t)
    /\ UNCHANGED <<kernelMutex, syGuards, syPanic>>

-----------------------------------------------------------------------------
(* The destructor of a guard, and a task that exits with guards.           *)

\* The kernel's mutex is unlocked, which the kernel refuses unless it is the
\* last one locked.
UnlockUnwrapped(t, m) ==
    IF syHeld[t] = <<>> \/ Last(syHeld[t]) # m
    THEN /\ syPanic' = IF syOwner[m] = t THEN "unlock order" ELSE "not the owner"
         /\ UNCHANGED kernelMutex
    ELSE /\ \E heir \in Heir(m) :
              /\ syOwner' = [syOwner EXCEPT ![m] = heir]
              /\ syHeld' = [u \in SyTasks |-> IF u = t THEN Front(syHeld[t])
                                              ELSE IF u = heir THEN Append(syHeld[u], m)
                                              ELSE syHeld[u]]
         /\ UNCHANGED <<syInconsistent, syPanic>>

\* The guard is gone; what is left is the lock or a level.
Drop(t, m) ==
    /\ Calls(t) /\ HasGuard(t, m)
    /\ syGuards' = [syGuards EXCEPT ![t][m] = Front(@)]
    /\ IF m \in Recursive /\ Count(syLevel[m]) > 0
       THEN Goes(t, "unnest", m, syLevel[m] - 2) /\ UNCHANGED <<kernelMutex, syPanic>>
       ELSE UnlockUnwrapped(t, m) /\ UNCHANGED syPc
    /\ UNCHANGED <<syLevel, syDirty>>

UnnestStores(t) ==
    /\ Continues(t, "unnest")
    /\ syLevel' = [syLevel EXCEPT ![syPc[t].m] = syPc[t].x]
    /\ Returns(t)
    /\ UNCHANGED <<kernelMutex, syGuards, syDirty, syPanic>>

\* exit_task does not run destructors.  Each mutex is handed over as
\* inconsistent; then the task may be activated again.
ExitWithGuards(t) ==
    LET held == ToSet(syHeld[t]) IN
    /\ Calls(t) /\ held # {}
    /\ \E heirs \in {h \in [held -> SyTasks \cup {NoOne}] : \A m \in held : h[m] \in Heir(m)} :
         /\ syOwner' = [m \in SyMutexes |-> IF m \in held THEN heirs[m] ELSE syOwner[m]]
         /\ syHeld' = [u \in SyTasks |->
                         IF u = t THEN <<>>
                         ELSE syHeld[u] \o SetToSeq({m \in held : heirs[m] = u})]
    /\ syInconsistent' = syInconsistent \cup held
    /\ syDirty' = syDirty \cup held
    /\ syGuards' = [syGuards EXCEPT ![t] = [m \in SyMutexes |-> <<>>]]
    /\ UNCHANGED <<syLevel, syPc, syPanic>>

SyncNext == \E t \in SyTasks :
    \/ \E m \in SyMutexes : \/ LockFree(t, m) \/ LockWaits(t, m) \/ Nest(t, m)
                            \/ MarkConsistentPlain(t, m) \/ MarkConsistent(t, m) \/ Drop(t, m)
    \/ LockInterrupted(t) \/ LockGranted(t) \/ NestStores(t)
    \/ AbandonedStores(t) \/ AbandonedMarks(t) \/ LockReturns(t)
    \/ MarkStores(t) \/ UnnestStores(t) \/ ExitWithGuards(t)

SyncSpec == SyncInit /\ [][SyncNext]_syVars

-----------------------------------------------------------------------------
(* Properties.                                                             *)

\* No method of m is under way; a task that waits in lock is not past it.
Quiet(m) == \A t \in SyTasks : syPc[t].m = m => syPc[t].at = "blocked" /\ syOwner[m] # t

\* A nesting count i says that the mutex has been locked i + 1 times, and it is
\* zero if the mutex is not locked, unless all of it is inconsistent: the
\* documentation of MutexInner::level, when no method is under way.
NestingExact ==
    \A m \in Recursive :
        LET t == syOwner[m] IN
        syPanic = "none" /\ m \notin syInconsistent /\ Quiet(m) =>
            IF t = NoOne THEN Count(syLevel[m]) = 0
            ELSE Len(syGuards[t][m]) = Count(syLevel[m]) + 1

\* A guard is a permission: only the owner of the lock has guards to it, no
\* guard that came with Ok gives access to data that the exit of a task left
\* inconsistent and nobody has marked consistent, the nesting count follows the
\* guards, and no method panics but for too deep a nesting or a wrong order of
\* unlocking by the application.
GuardsSound ==
    /\ \A t \in SyTasks, m \in SyMutexes : HasGuard(t, m) =>
         /\ syOwner[m] = t
         /\ m \in syDirty => "Ok" \notin ToSet(syGuards[t][m])
    /\ syPanic \in {"none", "nesting count overflow", "unlock order"}
    /\ NestingExact
=============================================================================

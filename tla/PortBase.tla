------------------------------ MODULE PortBase ------------------------------
(***************************************************************************)
(* What the models of the three target ports share: the tasks, the values  *)
(* a register bank can hold and the frames of a saved context.             *)
(*                                                                         *)
(* A register bank (caller-saved, callee-saved, floating point) is         *)
(* modelled by WHOSE values it holds: a task, an interrupt handler of some *)
(* nesting level, or nobody's in particular (Junk).  A saved context is a  *)
(* stack of frames, the most recently pushed one first.                    *)
(***************************************************************************)
EXTENDS Naturals, Integers, Sequences, FiniteSets

CONSTANTS Tasks,      \* the task control blocks of the kernel
          NoTask      \* running_task = None

\* "boot" stands for the thread that boots the system.
ASSUME TasksAssumption == NoTask \notin Tasks /\ "boot" \notin Tasks \cup {NoTask}

Junk == "junk"

\* The values that belong to the handler of nesting level k = 1, 2, ...
HandlerValue(k) == <<"h1", "h2", "h3", "h4", "h5", "h6">>[k]

Frame(kind, val) == [kind |-> kind, val |-> val]

Push(frames, kind, val) == <<Frame(kind, val)>> \o frames

\* What a load finds at the stack pointer when it expects a frame of a kind.
OnTop(frames, kind, default) ==
    IF frames # <<>> /\ Head(frames).kind = kind THEN Head(frames).val ELSE default

Drop(frames) == IF frames = <<>> THEN <<>> ELSE Tail(frames)
=============================================================================

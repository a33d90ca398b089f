---------------------------- MODULE RiscvProofs -----------------------------
(***************************************************************************)
(* The RISC-V port saves and restores every context, forgets no dispatch,  *)
(* honours CPU Lock and the priorities of lines, and implements            *)
(* PortContract.                                                           *)
(***************************************************************************)
EXTENDS PortRiscv, SequenceTheorems, FiniteSetTheorems, TLAPS

-----------------------------------------------------------------------------
(* The inductive invariant *)

RvValues == Tasks \cup {Junk} \cup {HandlerValue(k) : k \in Nat} \cup BOOLEAN

RvFrames == [kind : {"FLS.X", "FLS.F", "SLS.X", "SLS.F", "HDR"}, val : RvValues]

RvStacks == [on : Tasks \cup {"zero", "main"}, frames : Seq(RvFrames)]

RvRegisters == [x : RvValues, s : RvValues, f : RvValues, fs : RvValues, fp : BOOLEAN,
                sp : RvStacks]

RvLevelType == [sp : RvStacks, part : BOOLEAN, old : SUBSET RvUsed, pend : SUBSET RvUsed,
                xip : SUBSET {"E", "S", "T"}, phase : {"E", "S", "T", "end"},
                run : {"none", "body"}, token : {<<>>} \cup [line : PlicLines, old : Nat],
                usesFp : BOOLEAN]

RvTypes ==
  /\ rvCpu \in RvRegisters /\ rvTaskSp \in [Tasks -> Seq(RvFrames)]
  /\ rvXie \subseteq RvUsed /\ rvXip \subseteq {"S", "T"}
  /\ rvGlobal \in BOOLEAN /\ rvPending \in BOOLEAN /\ rvNesting \in Int /\ rvMain \in BOOLEAN
  /\ rvRunning \in Tasks \cup {NoTask} /\ rvActive \subseteq Tasks /\ rvFpUsers \subseteq Tasks
  /\ rvLevels \in Seq(RvLevelType) /\ rvPc \in [Tasks -> {"code", "yield", "lrsc"}]
  /\ rvReserved \in Tasks \cup {NoTask}
  /\ rvLocked \in BOOLEAN /\ rvWanted \in BOOLEAN /\ rvDisturbed \in BOOLEAN
  /\ plPending \subseteq PlicLines /\ plInService \subseteq PlicLines
  /\ plEnabled \subseteq PlicLines /\ plThreshold \in Nat

\* The stack of a task that is, or is not, in the middle of yield_cpu, with a
\* first-level state on it, and the context that not_shortcutting leaves.
RvStack(t, yields) == IF yields THEN Push(<<>>, "FLS.X", t) ELSE <<>>

RvFls(frames, v, part, w) ==
  IF part THEN Push(Push(frames, "FLS.X", v), "FLS.F", w) ELSE Push(frames, "FLS.X", v)

RvSls(frames, t, part) ==
  LET sls == Push(frames, "SLS.X", t)
  IN  Push(IF part THEN Push(sls, "SLS.F", t) ELSE sls, "HDR", part)

RvSaved(t, yields, part) == RvSls(RvFls(RvStack(t, yields), t, part, t), t, part)

\* The stack of the thread the CPU is in, below all handlers.
RvBase == IF rvLevels = <<>> THEN rvCpu.sp.on ELSE rvLevels[1].sp.on

\* What the trap handler has saved at each level of nesting.
RvNested ==
  /\ ~rvMain => /\ rvLevels = <<>> /\ rvCpu.sp.on = "main" /\ rvRunning = NoTask
                /\ rvActive = {} /\ rvFpUsers = {} /\ rvReserved = NoTask
                /\ \A t \in Tasks : rvPc[t] = "code"
  /\ rvMain => /\ rvNesting = RvLevel - 1
               /\ RvBase \in rvActive \cup {"zero"}
               /\ rvRunning = IF RvBase = "zero" THEN NoTask ELSE RvBase
  /\ rvLevels # <<>> /\ RvBase # "zero" =>
        /\ rvLevels[1].part = (RvBase \in rvFpUsers)
        /\ rvLevels[1].sp.frames = RvFls(RvStack(RvBase, rvPc[RvBase] = "yield"), RvBase,
                                         rvLevels[1].part, RvBase)
  /\ \A i \in 2 .. RvLevel :
        /\ rvLevels[i].sp.on = "main"
        /\ \E w \in RvValues :
              /\ rvLevels[i].sp.frames = RvFls(<<>>, HandlerValue(i - 1), rvLevels[i].part, w)
              /\ rvLevels[i - 1].usesFp => rvLevels[i].part /\ w = HandlerValue(i - 1)

\* The thread the CPU is in, the innermost handler, and the other threads.
RvCurrent ==
  /\ rvMain /\ RvBase # "zero" =>
        /\ rvCpu.s = RvBase /\ (RvBase \in rvFpUsers => rvCpu.fs = RvBase)
        /\ rvLevels = <<>> => /\ rvCpu.x = RvBase /\ rvCpu.fp = (RvBase \in rvFpUsers)
                              /\ rvCpu.fp => rvCpu.f = RvBase
                              /\ rvCpu.sp.frames = RvStack(RvBase, rvPc[RvBase] = "yield")
  /\ rvLevels # <<>> =>
        /\ rvCpu.x = HandlerValue(RvLevel) /\ rvCpu.sp = MainStack
        /\ RvTop.usesFp => rvCpu.fp /\ rvCpu.f = HandlerValue(RvLevel)
  /\ \A t \in rvActive \ {RvBase} : rvTaskSp[t] = RvSaved(t, rvPc[t] = "yield", t \in rvFpUsers)

\* A dispatch that has been asked for is pending for the end of the handlers, or the
\* task is about to make it.
RvRequested ==
  /\ rvWanted => rvPending \/ (rvMain /\ RvBase # "zero" /\ rvPc[RvBase] = "yield")
  /\ rvPending => rvLevels # <<>>

\* What the code believes of CPU Lock, also where no code of the kernel runs.
RvLocking ==
  /\ rvMain => rvLocked = ~rvGlobal
  /\ rvMain /\ rvLocked => IF rvLevels = <<>>
                           THEN RvBase # "zero" /\ rvPc[RvBase] # "yield"
                           ELSE RvTop.run = "body"

RvReserving ==
  rvLevels = <<>> =>
     rvReserved = NoTask \/ /\ rvMain /\ rvReserved = RvBase /\ rvPc[RvBase] = "lrsc"
                            /\ ~rvDisturbed

\* The lines that can interrupt a level of handle_interrupt in each of its loops.
RvEnabledIn(lv) ==
  CASE lv.phase = "E" -> IF UseNesting /\ lv.run = "body" THEN {"E"} ELSE {}
    [] lv.phase = "S" -> IF "S" \in lv.old THEN RvUsed \cap {"E"} ELSE {}
    [] OTHER -> (IF "S" \in lv.old THEN RvUsed \cap {"E"} ELSE {})
                 \cup (IF "T" \in lv.old THEN Above("T") ELSE {})

\* What a level has found enabled, and which of it the end of its loops still has to enable.
RvRestores(lv) ==
  /\ lv.old # {}
  /\ "T" \in lv.old => lv.old = RvUsed
  /\ "S" \in lv.old => RvUsed \cap {"E"} \subseteq lv.old
  /\ lv.run = "body" => lv.phase \in lv.old
  /\ CASE lv.phase = "E" -> lv.pend = {}
       [] lv.phase = "S" -> lv.pend = lv.old \cap {"E"}
       [] lv.phase = "T" -> lv.pend = IF "S" \in lv.old THEN {"S"} ELSE lv.old \cap {"E"}
       [] lv.phase = "end" -> RvEnabledIn(lv) \cup lv.pend = lv.old

RvMasked ==
  /\ rvMain => rvXie = IF rvLevels = <<>> THEN RvUsed ELSE RvEnabledIn(RvTop)
  /\ \A i \in 1 .. RvLevel :
       /\ RvRestores(rvLevels[i])
       /\ rvLevels[i].old = IF i = 1 THEN RvUsed ELSE RvEnabledIn(rvLevels[i - 1])
  /\ \A i, j \in 1 .. RvLevel : j < i => rvLevels[i].old \subseteq RvEnabledIn(rvLevels[j])

\* A handler of the external line runs; with nesting, it has raised the threshold.
RvServes(lv) == lv.phase = "E" /\ lv.run = "body"

\* th[i] is the threshold while level i is the innermost one.
RvThresholds(th) ==
  /\ th[0] = 0 /\ plThreshold = th[RvLevel]
  /\ \A i, j \in 0 .. RvLevel : i <= j => th[i] <= th[j]
  /\ \A i \in 1 .. RvLevel :
       /\ IF UseNesting /\ RvServes(rvLevels[i])
          THEN /\ rvLevels[i].token.old = th[i - 1]
               /\ th[i] = PlicPriority[rvLevels[i].token.line]
               /\ th[i - 1] < th[i]
          ELSE th[i] = th[i - 1]
       /\ rvLevels[i].old = {"E"} => \E l \in PlicLines : th[i - 1] < PlicPriority[l]

RvClaimed ==
  /\ \E th \in [0 .. RvLevel -> Nat] : RvThresholds(th)
  /\ \A i \in 1 .. RvLevel : RvServes(rvLevels[i]) => rvLevels[i].token # <<>>
  /\ plInService = IF ~UseNesting /\ rvLevels # <<>> /\ RvServes(RvTop) THEN {RvTop.token.line}
                   ELSE {}
  /\ rvLevels # <<>> /\ RvTop.phase = "E" /\ RvTop.run = "none" /\ "E" \in RvTop.xip => PlicAsserted

RvInv == /\ RvTypes /\ RvNested /\ RvCurrent /\ RvRequested /\ RvLocking /\ RvReserving
         /\ RvMasked /\ RvClaimed

-----------------------------------------------------------------------------
(* Frames and stacks *)

\* Pushing a frame can be undone, and what was pushed is on top.
LEMMA PushDrop ==
  ASSUME NEW S, NEW s \in Seq(S), NEW k, NEW v, Frame(k, v) \in S
  PROVE  /\ Push(s, k, v) \in Seq(S) /\ Push(s, k, v) # <<>>
         /\ Len(Push(s, k, v)) = Len(s) + 1 /\ Push(s, k, v)[1].kind = k
         /\ \A i \in 1 .. Len(s) : Push(s, k, v)[i + 1] = s[i]
         /\ Drop(Push(s, k, v)) = s
         /\ \A d : OnTop(Push(s, k, v), k, d) = v
<1> DEFINE e == Frame(k, v)
           p == Push(s, k, v)
<1>1. <<e>> \in Seq(S) /\ Len(<<e>>) = 1 /\ <<e>>[1] = e /\ Len(s) \in Nat
  OBVIOUS
<1>2. p = <<e>> \o s
  BY DEF Push
<1>3. p \in Seq(S) /\ Len(p) = 1 + Len(s)
      /\ \A i \in 1 .. 1 + Len(s) : p[i] = IF i <= 1 THEN <<e>>[i] ELSE s[i - 1]
  BY <1>1, <1>2, ConcatProperties
<1>4. p[1] = e /\ \A i \in 1 .. Len(s) : p[i + 1] = s[i]
  BY <1>1, <1>3
<1>5. e.kind = k /\ e.val = v
  BY DEF Frame
<1> HIDE DEF p, e
<1>6. p # <<>> /\ Head(p) = p[1] /\ Tail(p) \in Seq(S) /\ Len(Tail(p)) = Len(s)
      /\ \A i \in 1 .. Len(s) : Tail(p)[i] = p[i + 1]
  BY <1>1, <1>3
<1>7. Tail(p) = s
  BY <1>1, <1>4, <1>6, SeqEqual
<1>8. Drop(p) = s
  BY <1>6, <1>7 DEF Drop
<1>9. \A d : OnTop(p, k, d) = v
  BY <1>4, <1>5, <1>6 DEF OnTop
<1> QED
  BY <1>1, <1>3, <1>4, <1>5, <1>6, <1>8, <1>9 DEF p

\* Only the empty stack has the length 0.
LEMMA LenEmpty ==
  ASSUME NEW S, NEW s \in Seq(S)
  PROVE  s = <<>> <=> Len(s) = 0
OBVIOUS

\* Membership is TRUE or FALSE, which a quantifier over BOOLEAN needs to be told.
LEMMA TruthOfMembership ==
  ASSUME NEW e, NEW S
  PROVE  \E u \in BOOLEAN : u = (e \in S)
<1>1. (e \in S) \in BOOLEAN
  OBVIOUS
<1> QED
  BY <1>1

\* The values that saves store.
LEMMA RvValueTypes ==
  /\ Junk \in RvValues /\ Tasks \subseteq RvValues /\ \A k \in Nat : HandlerValue(k) \in RvValues
  /\ BOOLEAN \subseteq RvValues
BY DEF RvValues

\* Push and Drop for the frames of this port.
LEMMA RvPushFrame ==
  ASSUME NEW s \in Seq(RvFrames), NEW k \in {"FLS.X", "FLS.F", "SLS.X", "SLS.F", "HDR"},
         NEW v \in RvValues
  PROVE  /\ Push(s, k, v) \in Seq(RvFrames) /\ Drop(Push(s, k, v)) = s
         /\ \A d : OnTop(Push(s, k, v), k, d) = v
<1>1. Frame(k, v) \in RvFrames
  BY DEF Frame, RvFrames
<1> QED
  BY <1>1, PushDrop

\* The types of what first-level saves, ...
LEMMA RvFlsType ==
  ASSUME NEW s \in Seq(RvFrames), NEW v \in RvValues, NEW part, NEW w \in RvValues
  PROVE  RvFls(s, v, part, w) \in Seq(RvFrames)
<1>1. PICK a \in Seq(RvFrames) : a = Push(s, "FLS.X", v)
  BY RvPushFrame
<1>2. Push(a, "FLS.F", w) \in Seq(RvFrames)
  BY RvPushFrame
<1> QED
  BY <1>1, <1>2 DEF RvFls

\* ... second-level saves, frame by frame, ...
LEMMA RvSlsIs ==
  ASSUME NEW s \in Seq(RvFrames), NEW t \in RvValues
  PROVE  /\ RvSls(s, t, FALSE) \in Seq(RvFrames) /\ Drop(RvSls(s, t, FALSE)) \in Seq(RvFrames)
         /\ OnTop(RvSls(s, t, FALSE), "HDR", FALSE) = FALSE
         /\ OnTop(Drop(RvSls(s, t, FALSE)), "SLS.X", Junk) = t
         /\ Drop(Drop(RvSls(s, t, FALSE))) = s
         /\ RvSls(s, t, TRUE) \in Seq(RvFrames) /\ Drop(RvSls(s, t, TRUE)) \in Seq(RvFrames)
         /\ OnTop(RvSls(s, t, TRUE), "HDR", FALSE) = TRUE
         /\ OnTop(Drop(RvSls(s, t, TRUE)), "SLS.F", Junk) = t
         /\ Drop(Drop(RvSls(s, t, TRUE))) = Drop(RvSls(s, t, FALSE))
<1>1. PICK a \in Seq(RvFrames) : a = Push(s, "SLS.X", t)
  BY RvPushFrame
<1>2. Drop(a) = s /\ OnTop(a, "SLS.X", Junk) = t
  BY <1>1, RvPushFrame
<1>3. PICK b \in Seq(RvFrames) : b = Push(a, "SLS.F", t)
  BY RvPushFrame
<1>4. Drop(b) = a /\ OnTop(b, "SLS.F", Junk) = t
  BY <1>3, RvPushFrame
<1>5. PICK p, q, d : p = TRUE /\ q = FALSE /\ d = FALSE
  OBVIOUS
<1>6. p \in RvValues /\ q \in RvValues
  BY <1>5, RvValueTypes
<1>7. RvSls(s, t, TRUE) = Push(b, "HDR", p) /\ RvSls(s, t, FALSE) = Push(a, "HDR", q)
  BY <1>1, <1>3, <1>5 DEF RvSls
<1>8. /\ Push(b, "HDR", p) \in Seq(RvFrames) /\ Drop(Push(b, "HDR", p)) = b
      /\ OnTop(Push(b, "HDR", p), "HDR", d) = p
  BY <1>6, RvPushFrame
<1>9. /\ Push(a, "HDR", q) \in Seq(RvFrames) /\ Drop(Push(a, "HDR", q)) = a
      /\ OnTop(Push(a, "HDR", q), "HDR", d) = q
  BY <1>6, RvPushFrame
<1> QED
  BY <1>2, <1>4, <1>5, <1>7, <1>8, <1>9

\* ... second-level saves, ...
LEMMA RvSlsType ==
  ASSUME NEW s \in Seq(RvFrames), NEW t \in RvValues, NEW part \in BOOLEAN
  PROVE  RvSls(s, t, part) \in Seq(RvFrames)
<1>1. CASE part
  <2>1. RvSls(s, t, part) = RvSls(s, t, TRUE)
    BY <1>1 DEF RvSls
  <2> QED
    BY <2>1, RvSlsIs
<1>2. CASE ~part
  <2>1. RvSls(s, t, part) = RvSls(s, t, FALSE)
    BY <1>2 DEF RvSls
  <2> QED
    BY <2>1, RvSlsIs
<1> QED
  BY <1>1, <1>2

\* ... a call of yield_cpu, ...
LEMMA RvStackType ==
  ASSUME NEW t \in Tasks, NEW y
  PROVE  RvStack(t, y) \in Seq(RvFrames)
<1>0. <<>> \in Seq(RvFrames)
  OBVIOUS
<1>1. PICK e \in Seq(RvFrames) : e = <<>>
  BY <1>0
<1>2. Push(e, "FLS.X", t) \in Seq(RvFrames)
  BY RvPushFrame, RvValueTypes
<1> QED
  BY <1>1, <1>2 DEF RvStack

\* ... and all of them leave on a stack.
LEMMA RvSavedType ==
  ASSUME NEW t \in Tasks, NEW y, NEW part \in BOOLEAN
  PROVE  RvSaved(t, y, part) \in Seq(RvFrames)
BY RvStackType, RvFlsType, RvSlsType, RvValueTypes DEF RvSaved

\* The operations on the registers, field by field.
LEMMA RvPushIs ==
  ASSUME NEW c, c \in RvRegisters, NEW v \in RvValues,
         NEW k \in {"FLS.X", "FLS.F", "SLS.X", "SLS.F", "HDR"}
  PROVE  /\ PushReg(c, k, v) \in RvRegisters
         /\ PushReg(c, k, v).x = c.x /\ PushReg(c, k, v).s = c.s /\ PushReg(c, k, v).f = c.f
         /\ PushReg(c, k, v).fs = c.fs /\ PushReg(c, k, v).fp = c.fp
         /\ PushReg(c, k, v).sp.on = c.sp.on
         /\ PushReg(c, k, v).sp.frames = Push(c.sp.frames, k, v)
<1>1. Push(c.sp.frames, k, v) \in Seq(RvFrames)
  BY RvPushFrame DEF RvRegisters, RvStacks
<1> QED
  BY <1>1 DEF PushReg, RvRegisters, RvStacks

\* The macros that save: the rest of the first-level state, ...
LEMMA RvPushFlsFIs ==
  ASSUME NEW c, c \in RvRegisters, NEW s, NEW v, c.sp.frames = Push(s, "FLS.X", v)
  PROVE  /\ PushFlsF(c) \in RvRegisters
         /\ PushFlsF(c).x = c.x /\ PushFlsF(c).s = c.s /\ PushFlsF(c).f = c.f
         /\ PushFlsF(c).fs = c.fs /\ PushFlsF(c).fp = c.fp
         /\ PushFlsF(c).sp.on = c.sp.on
         /\ PushFlsF(c).sp.frames = RvFls(s, v, c.fp, c.f)
<1>1. c.f \in RvValues /\ c.fp \in BOOLEAN
  BY DEF RvRegisters
<1>2. CASE c.fp
  <2>1. PushFlsF(c) = PushReg(c, "FLS.F", c.f)
    BY <1>2 DEF PushFlsF
  <2>2. RvFls(s, v, c.fp, c.f) = Push(c.sp.frames, "FLS.F", c.f)
    BY <1>2 DEF RvFls
  <2>3. PICK d : d = PushReg(c, "FLS.F", c.f)
    OBVIOUS
  <2>4. /\ d \in RvRegisters /\ d.x = c.x /\ d.s = c.s /\ d.f = c.f /\ d.fs = c.fs /\ d.fp = c.fp
        /\ d.sp.on = c.sp.on /\ d.sp.frames = Push(c.sp.frames, "FLS.F", c.f)
    BY <1>1, <2>3, RvPushIs
  <2> QED
    BY <2>1, <2>2, <2>3, <2>4
<1>3. CASE ~c.fp
  BY <1>3 DEF PushFlsF, RvFls
<1> QED
  BY <1>1, <1>2, <1>3

\* ... and the second-level state with its header.
LEMMA RvPushSlsIs ==
  ASSUME NEW c, c \in RvRegisters, NEW t \in Tasks, c.s = t, NEW part \in BOOLEAN,
         part => c.fs = t
  PROVE  /\ PushSls(c, part) \in RvRegisters
         /\ PushSls(c, part).sp.frames = RvSls(c.sp.frames, t, part)
<1>0. t \in RvValues /\ part \in RvValues
  BY RvValueTypes
<1>1. PICK a \in RvRegisters : a = PushReg(c, "SLS.X", t)
  BY <1>0, RvPushIs
<1>2. a.sp.frames = Push(c.sp.frames, "SLS.X", t)
  BY <1>0, <1>1, RvPushIs
<1>3. PICK b \in RvRegisters : b = IF part THEN PushReg(a, "SLS.F", t) ELSE a
  BY <1>0, RvPushIs
<1>4. b.sp.frames = IF part THEN Push(a.sp.frames, "SLS.F", t) ELSE a.sp.frames
  <2>1. PushReg(a, "SLS.F", t).sp.frames = Push(a.sp.frames, "SLS.F", t)
    BY <1>0, RvPushIs
  <2> QED
    BY <1>3, <2>1
<1>5. PushSls(c, part) = PushReg(b, "HDR", part)
  BY <1>1, <1>3 DEF PushSls
<1>6. PushReg(b, "HDR", part) \in RvRegisters
      /\ PushReg(b, "HDR", part).sp.frames = Push(b.sp.frames, "HDR", part)
  BY <1>0, RvPushIs
<1>7. RvSls(c.sp.frames, t, part) = Push(b.sp.frames, "HDR", part)
  BY <1>2, <1>4 DEF RvSls
<1> QED
  BY <1>5, <1>6, <1>7

\* What the macros that restore the first-level state load, ...
LEMMA RvPopFlsIs ==
  ASSUME NEW c, c \in RvRegisters, NEW s \in Seq(RvFrames), NEW v \in RvValues,
         NEW part \in BOOLEAN, NEW w \in RvValues, c.sp.frames = RvFls(s, v, part, w)
  PROVE  /\ PopFls(c, part) \in RvRegisters
         /\ PopFls(c, part).x = v /\ PopFls(c, part).fp = part
         /\ part => PopFls(c, part).f = w
         /\ PopFls(c, part).s = c.s /\ PopFls(c, part).fs = c.fs
         /\ PopFls(c, part).sp.on = c.sp.on /\ PopFls(c, part).sp.frames = s
<1>1. PICK a \in Seq(RvFrames) : a = Push(s, "FLS.X", v)
  BY RvPushFrame
<1>2. OnTop(a, "FLS.X", Junk) = v /\ Drop(a) = s
  BY <1>1, RvPushFrame
<1>3. PICK d : d = PopFlsF(c, part)
  OBVIOUS
<1>4. /\ d \in RvRegisters /\ d.s = c.s /\ d.fs = c.fs /\ d.fp = part /\ (part => d.f = w)
      /\ d.sp.on = c.sp.on /\ d.sp.frames = a
  <2>1. CASE part
    <3>1. PICK b : b = Push(a, "FLS.F", w)
      OBVIOUS
    <3>2. b = c.sp.frames
      BY <1>1, <2>1, <3>1 DEF RvFls
    <3>3. OnTop(b, "FLS.F", Junk) = w /\ Drop(b) = a
      BY <3>1, RvPushFrame
    <3> QED
      BY <1>3, <2>1, <3>2, <3>3 DEF PopFlsF, RvRegisters, RvStacks
  <2>2. CASE ~part
    <3>1. a = c.sp.frames
      BY <1>1, <2>2 DEF RvFls
    <3> QED
      BY <1>3, <2>2, <3>1, RvValueTypes DEF PopFlsF, RvRegisters, RvStacks
  <2> QED
    BY <2>1, <2>2
<1>5. PICK e : e = PopFlsX(d)
  OBVIOUS
<1>6. /\ e \in RvRegisters /\ e.x = v /\ e.fp = d.fp /\ e.f = d.f /\ e.s = d.s /\ e.fs = d.fs
      /\ e.sp.on = d.sp.on /\ e.sp.frames = s
  BY <1>2, <1>4, <1>5 DEF PopFlsX, RvRegisters, RvStacks
<1>7. PopFls(c, part) = e
  BY <1>3, <1>5 DEF PopFls
<1> QED
  BY <1>4, <1>6, <1>7

\* ... what resuming a task loads, which gives it its own registers and stack, ...
LEMMA RvResumeIs ==
  ASSUME NEW c, c \in RvRegisters, NEW n \in Tasks, NEW y, NEW part \in BOOLEAN
  PROVE  \E r \in RvRegisters :
            /\ r = Resume(c, n, RvSaved(n, y, part))
            /\ r.x = n /\ r.s = n /\ r.fp = part /\ (part => r.f = n /\ r.fs = n)
            /\ r.sp.on = n /\ r.sp.frames = RvStack(n, y)
<1>0. n \in RvValues /\ RvStack(n, y) \in Seq(RvFrames)
  BY RvValueTypes, RvStackType
<1>1. PICK fls \in Seq(RvFrames) : fls = RvFls(RvStack(n, y), n, part, n)
  BY <1>0, RvFlsType
<1>2. PICK a \in Seq(RvFrames) : a = Drop(RvSls(fls, n, FALSE))
  BY <1>0, RvSlsIs
<1>3. OnTop(a, "SLS.X", Junk) = n /\ Drop(a) = fls
  BY <1>0, <1>2, RvSlsIs
<1>4. PICK saved : saved = RvSaved(n, y, part)
  OBVIOUS
<1>5. saved = RvSls(fls, n, part)
  BY <1>1, <1>4 DEF RvSaved
<1>6. PICK d : d = [c EXCEPT !.x = Junk, !.sp = TaskStack(n, Drop(saved))]
  OBVIOUS
<1>7. PICK g : g = PopSlsF(d, part)
  OBVIOUS
<1>8. /\ g \in RvRegisters /\ g.sp.on = n /\ g.sp.frames = a /\ (part => g.fs = n)
      /\ OnTop(saved, "HDR", FALSE) = part
  <2>1. CASE part
    <3>1. saved = RvSls(fls, n, TRUE)
      BY <1>5, <2>1 DEF RvSls
    <3>2. PICK b \in Seq(RvFrames) : b = Drop(saved)
      BY <1>0, <3>1, RvSlsIs
    <3>3. OnTop(b, "SLS.F", Junk) = n /\ Drop(b) = a /\ OnTop(saved, "HDR", FALSE) = TRUE
      BY <1>0, <1>2, <3>1, <3>2, RvSlsIs
    <3>4. d \in RvRegisters /\ d.sp.on = n /\ d.sp.frames = b
      BY <1>6, <3>2, RvValueTypes DEF RvRegisters, RvStacks, TaskStack
    <3>5. g \in RvRegisters /\ g.sp.on = n /\ g.sp.frames = a /\ g.fs = n
      BY <1>0, <1>7, <2>1, <3>3, <3>4 DEF PopSlsF, RvRegisters, RvStacks
    <3> QED
      BY <2>1, <3>3, <3>5
  <2>2. CASE ~part
    <3>1. saved = RvSls(fls, n, FALSE)
      BY <1>5, <2>2 DEF RvSls
    <3>2. a = Drop(saved) /\ OnTop(saved, "HDR", FALSE) = FALSE
      BY <1>0, <1>2, <3>1, RvSlsIs
    <3>3. d \in RvRegisters /\ d.sp.on = n /\ d.sp.frames = a
      BY <1>6, <3>2, RvValueTypes DEF RvRegisters, RvStacks, TaskStack
    <3>4. g \in RvRegisters /\ g.sp.on = n /\ g.sp.frames = a
      BY <1>7, <2>2, <3>3, RvValueTypes DEF PopSlsF, RvRegisters, RvStacks
    <3> QED
      BY <2>2, <3>2, <3>4
  <2> QED
    BY <2>1, <2>2
<1>9. PICK e : e = PopSlsX(g)
  OBVIOUS
<1>10. e \in RvRegisters /\ e.sp.on = n /\ e.sp.frames = fls /\ e.s = n /\ e.fs = g.fs
  BY <1>0, <1>3, <1>8, <1>9 DEF PopSlsX, RvRegisters, RvStacks
<1>11. PICK r : r = PopFls(e, part)
  OBVIOUS
<1>12. /\ r \in RvRegisters /\ r.x = n /\ r.fp = part /\ (part => r.f = n)
       /\ r.s = e.s /\ r.fs = e.fs /\ r.sp.on = e.sp.on /\ r.sp.frames = RvStack(n, y)
  BY <1>0, <1>1, <1>10, <1>11, RvPopFlsIs
<1>13. Resume(c, n, saved) = r
  BY <1>6, <1>7, <1>8, <1>9, <1>11 DEF Resume
<1>14. (part => r.f = n /\ r.fs = n) /\ r.s = n /\ r.sp.on = n
  BY <1>8, <1>10, <1>12
<1> QED
  BY <1>4, <1>12, <1>13, <1>14

\* ... and what the idle loop starts with.
LEMMA RvIdleIs ==
  ASSUME NEW c, c \in RvRegisters
  PROVE  IdleTask(c) \in RvRegisters /\ IdleTask(c).sp.on = "zero"
<1>1. <<>> \in Seq(RvFrames)
  OBVIOUS
<1> QED
  BY <1>1, RvValueTypes DEF IdleTask, NoStack, RvRegisters, RvStacks

-----------------------------------------------------------------------------
(* Levels, and the ways out of handlers *)

\* The levels after an interrupt has been taken, after something of the innermost level
\* has changed, and after the innermost level has returned.
LEMMA RvTopLevel ==
  ASSUME RvTypes, rvLevels # <<>>
  PROVE  /\ RvLevel \in Nat /\ RvLevel > 0 /\ RvLevel \in 1 .. RvLevel /\ 1 \in 1 .. RvLevel
         /\ RvTop \in RvLevelType /\ RvTop = rvLevels[RvLevel]
         /\ \A i \in 1 .. RvLevel : rvLevels[i] \in RvLevelType
<1>1. rvLevels \in Seq(RvLevelType) /\ RvLevel = Len(rvLevels) /\ RvTop = rvLevels[RvLevel]
  BY DEF RvTypes, RvLevel, RvTop
<1>2. Len(rvLevels) \in Nat /\ Len(rvLevels) # 0
  BY <1>1, LenEmpty
<1>3. \A i \in 1 .. Len(rvLevels) : rvLevels[i] \in RvLevelType
  BY <1>1
<1> QED
  BY <1>1, <1>2, <1>3

\* Taking an interrupt adds a level, ...
LEMMA RvPushLevel ==
  ASSUME RvTypes, NEW lv \in RvLevelType, rvLevels' = Append(rvLevels, lv)
  PROVE  /\ rvLevels' \in Seq(RvLevelType) /\ RvLevel' = RvLevel + 1 /\ RvLevel \in Nat
         /\ \A i \in 1 .. RvLevel : rvLevels'[i] = rvLevels[i]
         /\ rvLevels'[RvLevel + 1] = lv /\ RvTop' = lv
         /\ rvLevels' # <<>> /\ (rvLevels = <<>> <=> RvLevel = 0)
<1>1. rvLevels \in Seq(RvLevelType) /\ RvLevel = Len(rvLevels) /\ Len(rvLevels) \in Nat
  BY DEF RvTypes, RvLevel
<1>2. /\ rvLevels' \in Seq(RvLevelType) /\ Len(rvLevels') = Len(rvLevels) + 1
      /\ \A i \in 1 .. Len(rvLevels) : rvLevels'[i] = rvLevels[i]
      /\ rvLevels'[Len(rvLevels) + 1] = lv
  BY <1>1, AppendProperties
<1>3. rvLevels' # <<>> /\ (rvLevels = <<>> <=> Len(rvLevels) = 0)
  BY <1>1, <1>2, LenEmpty
<1> QED
  BY <1>1, <1>2, <1>3 DEF RvLevel, RvTop

\* ... a loop changes the innermost one, ...
LEMMA RvSetTopLevel ==
  ASSUME RvTypes, rvLevels # <<>>, NEW lv \in RvLevelType, rvLevels' = SetTop(lv)
  PROVE  /\ rvLevels' \in Seq(RvLevelType) /\ RvLevel' = RvLevel
         /\ \A i \in 1 .. RvLevel : rvLevels'[i] = IF i = RvLevel THEN lv ELSE rvLevels[i]
         /\ RvTop' = lv /\ rvLevels' # <<>>
<1>1. rvLevels \in Seq(RvLevelType) /\ RvLevel = Len(rvLevels) /\ Len(rvLevels) \in Nat
  BY DEF RvTypes, RvLevel
<1>2. rvLevels' = [rvLevels EXCEPT ![Len(rvLevels)] = lv] /\ Len(rvLevels) \in 1 .. Len(rvLevels)
  BY <1>1, RvTopLevel DEF SetTop
<1>3. /\ rvLevels' \in Seq(RvLevelType) /\ Len(rvLevels') = Len(rvLevels)
      /\ \A i \in 1 .. Len(rvLevels) : rvLevels'[i] = IF i = Len(rvLevels) THEN lv ELSE rvLevels[i]
  BY <1>1, <1>2, ExceptSeq
<1>4. rvLevels' # <<>>
  BY <1>1, <1>2, <1>3, LenEmpty
<1>5. rvLevels'[Len(rvLevels)] = lv
  BY <1>2, <1>3
<1> QED
  BY <1>1, <1>3, <1>4, <1>5 DEF RvLevel, RvTop

\* ... and the end of a handler removes it.
LEMMA RvPopLevel ==
  ASSUME RvTypes, rvLevels # <<>>, rvLevels' = SubSeq(rvLevels, 1, RvLevel - 1)
  PROVE  /\ rvLevels' \in Seq(RvLevelType) /\ RvLevel' = RvLevel - 1
         /\ \A i \in 1 .. RvLevel - 1 : rvLevels'[i] = rvLevels[i]
         /\ (rvLevels' = <<>> <=> RvLevel = 1)
<1> DEFINE n == RvLevel - 1
<1>1. rvLevels \in Seq(RvLevelType) /\ RvLevel = Len(rvLevels) /\ Len(rvLevels) \in Nat
  BY DEF RvTypes, RvLevel
<1>2. n \in Nat /\ n <= Len(rvLevels)
  BY <1>1, RvTopLevel
<1>3. \A i \in 1 .. n : rvLevels[i] \in RvLevelType
  <2> SUFFICES ASSUME NEW i \in 1 .. n PROVE rvLevels[i] \in RvLevelType
    OBVIOUS
  <2>1. i \in 1 .. Len(rvLevels)
    BY <1>1, <1>2
  <2> QED
    BY <1>1, <2>1
<1>4. rvLevels' = [i \in 1 .. n |-> rvLevels[i]]
  BY <1>1, <1>2
<1>5. /\ rvLevels' \in Seq(RvLevelType) /\ Len(rvLevels') = n
      /\ \A i \in 1 .. n : rvLevels'[i] = rvLevels[i]
  BY <1>2, <1>3, <1>4
<1>6. rvLevels' = <<>> <=> n = 0
  BY <1>5, LenEmpty
<1> QED
  BY <1>1, <1>2, <1>5, <1>6 DEF RvLevel

\* The registers and stack of the thread below the handlers, with the first-level state
\* of it that the trap handler or yield_cpu_in_task has pushed.
RvInterrupted(c, part, pc) ==
  /\ c \in RvRegisters /\ part \in BOOLEAN /\ c.sp.on = RvBase
  /\ RvBase # "zero" =>
        /\ c.s = RvBase /\ part = (RvBase \in rvFpUsers) /\ (part => c.fs = RvBase)
        /\ c.sp.frames = RvFls(RvStack(RvBase, pc[RvBase] = "yield"), RvBase, part, RvBase)

\* What is true again when the CPU is back in a thread.
RvResumed == /\ rvCpu \in RvRegisters /\ rvTaskSp \in [Tasks -> Seq(RvFrames)]
             /\ rvRunning \in Tasks \cup {NoTask}
             /\ RvNested /\ RvCurrent

\* A dispatch with the registers c, where every active task has its context saved.
RvDispatches(c, sps, active, users, pc) ==
  /\ c \in RvRegisters /\ sps \in [Tasks -> Seq(RvFrames)]
  /\ active \in SUBSET Tasks /\ users \in SUBSET Tasks
  /\ pc \in [Tasks -> {"code", "yield", "lrsc"}]
  /\ \A t \in active : sps[t] = RvSaved(t, pc[t] = "yield", t \in users)
  /\ Dispatch(c, sps, active)
  /\ rvPc' = pc /\ rvActive' = active /\ rvFpUsers' = users /\ rvLevels' = <<>> /\ rvMain'
  /\ rvNesting' = -1

\* It resumes a thread.
LEMMA RvDispatched ==
  ASSUME NEW c, NEW sps, NEW active, NEW users, NEW pc, RvDispatches(c, sps, active, users, pc)
  PROVE  RvResumed' /\ rvGlobal' = TRUE /\ rvWanted' = FALSE
<1>0. /\ c \in RvRegisters /\ sps \in [Tasks -> Seq(RvFrames)]
      /\ active \in SUBSET Tasks /\ users \in SUBSET Tasks
      /\ pc \in [Tasks -> {"code", "yield", "lrsc"}]
      /\ \A t \in active : sps[t] = RvSaved(t, pc[t] = "yield", t \in users)
      /\ Dispatch(c, sps, active)
      /\ rvPc' = pc /\ rvActive' = active /\ rvFpUsers' = users /\ rvLevels' = <<>> /\ rvMain'
      /\ rvNesting' = -1
  BY DEF RvDispatches
<1>1. PICK n \in active \cup {NoTask} :
        /\ rvRunning' = n
        /\ rvCpu' = IF n = NoTask THEN IdleTask(c) ELSE Resume(c, n, sps[n])
        /\ rvTaskSp' = [t \in Tasks |-> IF t = n THEN <<>> ELSE sps[t]]
        /\ rvGlobal' = TRUE
        /\ rvWanted' = FALSE
  BY <1>0 DEF Dispatch
<1>2. rvTaskSp' \in [Tasks -> Seq(RvFrames)] /\ \A t \in active \ {n} : rvTaskSp'[t] = sps[t]
  <2>1. <<>> \in Seq(RvFrames)
    OBVIOUS
  <2> QED
    BY <1>0, <1>1, <2>1
<1>3. RvLevel' = 0 /\ RvBase' = rvCpu'.sp.on
  BY <1>0 DEF RvLevel, RvBase
<1>4. CASE n = NoTask
  <2>1. rvCpu' = IdleTask(c)
    BY <1>1, <1>4
  <2>2. rvCpu' \in RvRegisters /\ rvCpu'.sp.on = "zero"
    BY <1>0, <2>1, RvIdleIs
  <2>3. RvNested'
    BY <1>0, <1>1, <1>3, <1>4, <2>2 DEF RvNested
  <2>4. RvCurrent'
    BY <1>0, <1>2, <1>3, <1>4, <2>2, TasksAssumption DEF RvCurrent
  <2> QED
    BY <1>1, <1>2, <1>4, <2>2, <2>3, <2>4 DEF RvResumed
<1>5. CASE n # NoTask
  <2>1. n \in active /\ n \in Tasks /\ n # "zero"
    BY <1>0, <1>5, RvAssumption
  <2>2. PICK p \in BOOLEAN : p = (n \in users)
    BY TruthOfMembership
  <2>3. sps[n] = RvSaved(n, pc[n] = "yield", p)
    BY <1>0, <2>1, <2>2
  <2>4. /\ rvCpu' \in RvRegisters /\ rvCpu'.x = n /\ rvCpu'.s = n /\ rvCpu'.fp = p
        /\ (p => rvCpu'.f = n /\ rvCpu'.fs = n)
        /\ rvCpu'.sp.on = n /\ rvCpu'.sp.frames = RvStack(n, pc[n] = "yield")
    <3>1. PICK r \in RvRegisters :
            /\ r = Resume(c, n, RvSaved(n, pc[n] = "yield", p))
            /\ r.x = n /\ r.s = n /\ r.fp = p /\ (p => r.f = n /\ r.fs = n)
            /\ r.sp.on = n /\ r.sp.frames = RvStack(n, pc[n] = "yield")
      BY <1>0, <2>1, RvResumeIs
    <3>2. rvCpu' = r
      BY <1>1, <1>5, <2>3, <3>1
    <3> QED
      BY <3>1, <3>2
  <2>5. RvNested'
    BY <1>0, <1>1, <1>3, <2>1, <2>4 DEF RvNested
  <2>6. RvCurrent'
    <3>1. \A t \in rvActive' \ {RvBase'} :
            rvTaskSp'[t] = RvSaved(t, rvPc'[t] = "yield", t \in rvFpUsers')
      BY <1>0, <1>2, <1>3, <2>4
    <3>2. /\ rvCpu'.s = RvBase' /\ (RvBase' \in rvFpUsers' => rvCpu'.fs = RvBase')
          /\ rvCpu'.x = RvBase' /\ rvCpu'.fp = (RvBase' \in rvFpUsers')
          /\ (rvCpu'.fp => rvCpu'.f = RvBase')
          /\ rvCpu'.sp.frames = RvStack(RvBase', rvPc'[RvBase'] = "yield")
      BY <1>0, <1>3, <2>2, <2>4
    <3> QED
      BY <1>0, <3>1, <3>2 DEF RvCurrent
  <2> QED
    BY <1>1, <1>2, <2>1, <2>4, <2>5, <2>6 DEF RvResumed
<1> QED
  BY <1>1, <1>4, <1>5

\* ... and when it is entered from the thread the CPU is in.
LEMMA RvSwitched ==
  ASSUME RvInv, NEW c, NEW part, NEW pc \in [Tasks -> {"code", "yield", "lrsc"}],
         RvInterrupted(c, part, pc), NotShortcutting(c, part), rvMain,
         rvPc' = pc, \A t \in rvActive \ {RvBase} : pc[t] = rvPc[t],
         rvActive' = rvActive, rvFpUsers' = rvFpUsers, rvLevels' = <<>>, rvMain', rvNesting' = -1
  PROVE  RvResumed' /\ rvGlobal' = TRUE /\ rvWanted' = FALSE
<1>0. /\ rvTaskSp \in [Tasks -> Seq(RvFrames)] /\ rvActive \in SUBSET Tasks
      /\ rvFpUsers \in SUBSET Tasks /\ RvBase \in rvActive \cup {"zero"}
      /\ c \in RvRegisters /\ part \in BOOLEAN /\ c.sp.on = RvBase
      /\ \A t \in rvActive \ {RvBase} : rvTaskSp[t] = RvSaved(t, pc[t] = "yield", t \in rvFpUsers)
  BY DEF RvInv, RvTypes, RvNested, RvCurrent, RvInterrupted
<1>1. CASE RvBase = "zero"
  <2>1. PICK d : d = [c EXCEPT !.sp = MainStack]
    OBVIOUS
  <2>2. d \in RvRegisters
    <3>1. <<>> \in Seq(RvFrames)
      OBVIOUS
    <3> QED
      BY <1>0, <2>1, <3>1 DEF RvRegisters, RvStacks, MainStack
  <2>3. Dispatch(d, rvTaskSp, rvActive)
    BY <1>0, <1>1, <2>1 DEF NotShortcutting
  <2>4. \A t \in rvActive : rvTaskSp[t] = RvSaved(t, pc[t] = "yield", t \in rvFpUsers)
    BY <1>0, <1>1, RvAssumption
  <2>5. RvDispatches(d, rvTaskSp, rvActive, rvFpUsers, pc)
    BY <1>0, <2>2, <2>3, <2>4 DEF RvDispatches
  <2> QED
    BY <2>5, RvDispatched
<1>2. CASE RvBase # "zero"
  <2>1. PICK n \in rvActive : n = RvBase
    BY <1>0, <1>2
  <2>2. n \in Tasks /\ rvRunning = n /\ n # NoTask
    BY <1>0, <1>2, <2>1, TasksAssumption DEF RvInv, RvNested
  <2>3. /\ c.s = n /\ part = (n \in rvFpUsers) /\ (part => c.fs = n)
        /\ c.sp.frames = RvFls(RvStack(n, pc[n] = "yield"), n, part, n)
    BY <1>2, <2>1 DEF RvInterrupted
  <2>4. PICK d : d = PushSls(c, part)
    OBVIOUS
  <2>5. d \in RvRegisters /\ d.sp.frames = RvSaved(n, pc[n] = "yield", part)
    <3>1. d \in RvRegisters /\ d.sp.frames = RvSls(c.sp.frames, n, part)
      BY <1>0, <2>2, <2>3, <2>4, RvPushSlsIs
    <3> QED
      BY <2>3, <3>1 DEF RvSaved
  <2>6. PICK sps : sps = [rvTaskSp EXCEPT ![n] = d.sp.frames]
    OBVIOUS
  <2>7. sps \in [Tasks -> Seq(RvFrames)] /\ sps[n] = RvSaved(n, pc[n] = "yield", n \in rvFpUsers)
        /\ \A t \in Tasks \ {n} : sps[t] = rvTaskSp[t]
    <3>1. d.sp.frames \in Seq(RvFrames)
      BY <2>5 DEF RvRegisters, RvStacks
    <3>2. d.sp.frames = RvSaved(n, pc[n] = "yield", n \in rvFpUsers)
      BY <2>3, <2>5
    <3> QED
      BY <1>0, <2>2, <2>6, <3>1, <3>2
  <2>8. Dispatch(d, sps, rvActive)
    BY <1>0, <1>2, <2>1, <2>2, <2>4, <2>6 DEF NotShortcutting
  <2>9. \A t \in rvActive : sps[t] = RvSaved(t, pc[t] = "yield", t \in rvFpUsers)
    <3> SUFFICES ASSUME NEW t \in rvActive
                 PROVE  sps[t] = RvSaved(t, pc[t] = "yield", t \in rvFpUsers)
      OBVIOUS
    <3>1. CASE t = n
      BY <2>7, <3>1
    <3>2. CASE t # n
      BY <1>0, <2>1, <2>7, <3>2
    <3> QED
      BY <3>1, <3>2
  <2>10. /\ d \in RvRegisters /\ sps \in [Tasks -> Seq(RvFrames)]
         /\ rvActive \in SUBSET Tasks /\ rvFpUsers \in SUBSET Tasks
    BY <1>0, <2>5, <2>7
  <2>11. RvDispatches(d, sps, rvActive, rvFpUsers, pc)
    BY <2>8, <2>9, <2>10 DEF RvDispatches
  <2> QED
    BY <2>11, RvDispatched
<1> QED
  BY <1>1, <1>2

\* The shortcut returns to the thread that was interrupted.
LEMMA RvShortcut ==
  ASSUME RvInv, NEW c, NEW part, NEW pc \in [Tasks -> {"code", "yield", "lrsc"}],
         RvInterrupted(c, part, pc), rvMain,
         rvCpu' = IF c.sp.on = "zero" THEN IdleTask(c) ELSE PopFls(c, part),
         rvPc' = pc, \A t \in rvActive \ {RvBase} : pc[t] = rvPc[t],
         UNCHANGED <<rvTaskSp, rvRunning, rvActive, rvFpUsers>>,
         rvLevels' = <<>>, rvMain', rvNesting' = -1
  PROVE  RvResumed' /\ RvBase' = RvBase
<1>0. /\ rvTaskSp \in [Tasks -> Seq(RvFrames)] /\ rvActive \in SUBSET Tasks
      /\ rvFpUsers \in SUBSET Tasks /\ RvBase \in rvActive \cup {"zero"}
      /\ rvRunning \in Tasks \cup {NoTask}
      /\ rvRunning = (IF RvBase = "zero" THEN NoTask ELSE RvBase)
      /\ c \in RvRegisters /\ part \in BOOLEAN /\ c.sp.on = RvBase
      /\ \A t \in rvActive \ {RvBase} : rvTaskSp[t] = RvSaved(t, pc[t] = "yield", t \in rvFpUsers)
  BY DEF RvInv, RvTypes, RvNested, RvCurrent, RvInterrupted
<1>1. RvLevel' = 0 /\ RvBase' = rvCpu'.sp.on
  BY DEF RvLevel, RvBase
<1>2. CASE RvBase = "zero"
  <2>1. rvCpu' = IdleTask(c)
    BY <1>0, <1>2
  <2>2. rvCpu' \in RvRegisters /\ rvCpu'.sp.on = "zero"
    BY <1>0, <2>1, RvIdleIs
  <2>3. RvNested'
    BY <1>0, <1>1, <1>2, <2>2 DEF RvNested
  <2>4. RvCurrent'
    BY <1>0, <1>1, <1>2, <2>2 DEF RvCurrent
  <2> QED
    BY <1>0, <1>1, <1>2, <2>2, <2>3, <2>4 DEF RvResumed
<1>3. CASE RvBase # "zero"
  <2>1. PICK n \in rvActive : n = RvBase
    BY <1>0, <1>3
  <2>2. /\ n \in Tasks /\ c.s = n /\ part = (n \in rvFpUsers) /\ (part => c.fs = n)
        /\ c.sp.frames = RvFls(RvStack(n, pc[n] = "yield"), n, part, n)
    BY <1>0, <1>3, <2>1 DEF RvInterrupted
  <2>3. PICK r : r = PopFls(c, part)
    OBVIOUS
  <2>4. /\ r \in RvRegisters /\ r.x = n /\ r.fp = part /\ (part => r.f = n)
        /\ r.s = c.s /\ r.fs = c.fs /\ r.sp.on = c.sp.on
        /\ r.sp.frames = RvStack(n, pc[n] = "yield")
    <3>1. n \in RvValues /\ c \in RvRegisters /\ part \in BOOLEAN
      BY <1>0, <2>2, RvValueTypes
    <3>2. PICK st \in Seq(RvFrames) : st = RvStack(n, pc[n] = "yield")
      BY <2>2, RvStackType
    <3>3. c.sp.frames = RvFls(st, n, part, n)
      BY <2>2, <3>2
    <3>4. /\ r \in RvRegisters /\ r.x = n /\ r.fp = part /\ (part => r.f = n)
          /\ r.s = c.s /\ r.fs = c.fs /\ r.sp.on = c.sp.on /\ r.sp.frames = st
      BY <2>3, <3>1, <3>3, RvPopFlsIs
    <3> QED
      BY <3>2, <3>4
  <2>5. rvCpu' = r
    BY <1>0, <1>3, <2>3
  <2>6. RvBase' = n /\ n # "zero"
    BY <1>0, <1>1, <1>3, <2>1, <2>4, <2>5
  <2>7. RvNested'
    BY <1>0, <1>1, <1>3, <2>1, <2>6 DEF RvNested
  <2>8. RvCurrent'
    BY <1>0, <1>1, <2>1, <2>2, <2>4, <2>5, <2>6 DEF RvCurrent
  <2> QED
    BY <1>0, <2>1, <2>4, <2>5, <2>6, <2>7, <2>8 DEF RvResumed
<1> QED
  BY <1>2, <1>3

-----------------------------------------------------------------------------
(* Steps that keep parts of the invariant *)

\* What the trap handler has saved, and where handle_interrupt is, at each level.
RvSameSaved ==
  /\ RvLevel' = RvLevel /\ (rvLevels' = <<>> <=> rvLevels = <<>>)
  /\ \A i \in 1 .. RvLevel : /\ rvLevels'[i].sp = rvLevels[i].sp
                             /\ rvLevels'[i].part = rvLevels[i].part
                             /\ rvLevels'[i].usesFp = rvLevels[i].usesFp

RvSameLoops ==
  /\ RvLevel' = RvLevel /\ (rvLevels' = <<>> <=> rvLevels = <<>>)
  /\ \A i \in 1 .. RvLevel : /\ rvLevels'[i].old = rvLevels[i].old
                             /\ rvLevels'[i].pend = rvLevels[i].pend
                             /\ rvLevels'[i].phase = rvLevels[i].phase
                             /\ rvLevels'[i].run = rvLevels[i].run
                             /\ rvLevels'[i].token = rvLevels[i].token
                             /\ rvLevels'[i].xip = rvLevels[i].xip

\* The levels do not change, ...
LEMMA RvSameLevels ==
  ASSUME rvLevels' = rvLevels
  PROVE  RvSameSaved /\ RvSameLoops
BY DEF RvSameSaved, RvSameLoops, RvLevel

\* ... or nothing that concerns saved contexts does, ...
LEMMA RvKeepsSaved ==
  ASSUME RvTypes, RvNested, RvCurrent, RvSameSaved,
         UNCHANGED <<rvCpu, rvNesting, rvMain, rvTaskSp, rvRunning, rvActive, rvPc, rvReserved,
                     rvFpUsers>>
  PROVE  RvNested' /\ RvCurrent' /\ RvBase' = RvBase
<1>0. RvLevel' = RvLevel /\ (rvLevels' = <<>> <=> rvLevels = <<>>)
  BY DEF RvSameSaved
<1>1. CASE rvLevels = <<>>
  <2>1. rvLevels' = rvLevels /\ RvBase' = RvBase /\ RvLevel = 0
    BY <1>0, <1>1 DEF RvBase, RvLevel
  <2>2. RvNested'
    BY <1>0, <2>1 DEF RvNested
  <2>3. RvCurrent'
    BY <1>0, <1>1, <2>1 DEF RvCurrent
  <2> QED
    BY <2>1, <2>2, <2>3
<1>2. CASE rvLevels # <<>>
  <2>0. /\ RvLevel \in Nat /\ RvLevel \in 1 .. RvLevel /\ 1 \in 1 .. RvLevel
        /\ RvTop = rvLevels[RvLevel] /\ RvTop' = rvLevels'[RvLevel]
    BY <1>0, <1>2, RvTopLevel DEF RvTop
  <2>1. RvBase' = RvBase /\ RvTop'.usesFp = RvTop.usesFp
        /\ rvLevels'[1].part = rvLevels[1].part /\ rvLevels'[1].sp = rvLevels[1].sp
    BY <1>0, <1>2, <2>0 DEF RvBase, RvSameSaved
  <2>2. RvNested'
    <3>1. \A i \in 2 .. RvLevel :
            /\ rvLevels'[i].sp.on = "main"
            /\ \E w \in RvValues :
                 /\ rvLevels'[i].sp.frames = RvFls(<<>>, HandlerValue(i - 1), rvLevels'[i].part, w)
                 /\ rvLevels'[i - 1].usesFp => rvLevels'[i].part /\ w = HandlerValue(i - 1)
      <4> SUFFICES ASSUME NEW i \in 2 .. RvLevel
                   PROVE  /\ rvLevels'[i].sp.on = "main"
                          /\ \E w \in RvValues :
                                /\ rvLevels'[i].sp.frames
                                     = RvFls(<<>>, HandlerValue(i - 1), rvLevels'[i].part, w)
                                /\ rvLevels'[i - 1].usesFp =>
                                     rvLevels'[i].part /\ w = HandlerValue(i - 1)
        OBVIOUS
      <4>1. i \in 1 .. RvLevel /\ i - 1 \in 1 .. RvLevel
        BY <2>0
      <4>2. /\ rvLevels'[i].sp = rvLevels[i].sp /\ rvLevels'[i].part = rvLevels[i].part
            /\ rvLevels'[i - 1].usesFp = rvLevels[i - 1].usesFp
        BY <4>1 DEF RvSameSaved
      <4> QED
        BY <4>2 DEF RvNested
    <3> QED
      BY <1>0, <1>2, <2>1, <3>1 DEF RvNested
  <2>3. RvCurrent'
    BY <1>0, <1>2, <2>1 DEF RvCurrent
  <2> QED
    BY <2>1, <2>2, <2>3
<1> QED
  BY <1>1, <1>2

\* ... or nothing that concerns the loops does.
LEMMA RvKeepsLoops ==
  ASSUME RvTypes, RvMasked, RvClaimed, RvSameLoops,
         UNCHANGED <<rvXie, rvMain, plInService, plThreshold>>,
         rvLevels = <<>> \/ (PlicAsserted => PlicAsserted')
  PROVE  RvMasked' /\ RvClaimed'
<1>0. RvLevel' = RvLevel /\ (rvLevels' = <<>> <=> rvLevels = <<>>)
  BY DEF RvSameLoops
<1>1. CASE rvLevels = <<>>
  <2>1. rvLevels' = rvLevels
    BY <1>0, <1>1
  <2>2. RvMasked'
    BY <1>0, <1>1, <2>1 DEF RvMasked
  <2>3. RvClaimed'
    BY <1>0, <1>1, <2>1 DEF RvClaimed, RvThresholds
  <2> QED
    BY <2>2, <2>3
<1>2. CASE rvLevels # <<>>
  <2>0. /\ RvLevel \in Nat /\ RvLevel \in 1 .. RvLevel
        /\ RvTop = rvLevels[RvLevel] /\ RvTop' = rvLevels'[RvLevel]
    BY <1>0, <1>2, RvTopLevel DEF RvTop
  <2>1. /\ RvTop'.old = RvTop.old /\ RvTop'.phase = RvTop.phase /\ RvTop'.run = RvTop.run
        /\ RvTop'.token = RvTop.token /\ RvTop'.xip = RvTop.xip
    BY <2>0 DEF RvSameLoops
  <2>2. \A i \in 1 .. RvLevel :
          /\ RvEnabledIn(rvLevels'[i]) = RvEnabledIn(rvLevels[i])
          /\ RvRestores(rvLevels[i]) => RvRestores(rvLevels'[i])
          /\ RvServes(rvLevels'[i]) = RvServes(rvLevels[i])
    <3> SUFFICES ASSUME NEW i \in 1 .. RvLevel
                 PROVE  /\ RvEnabledIn(rvLevels'[i]) = RvEnabledIn(rvLevels[i])
                        /\ RvRestores(rvLevels[i]) => RvRestores(rvLevels'[i])
                        /\ RvServes(rvLevels'[i]) = RvServes(rvLevels[i])
      OBVIOUS
    <3>1. /\ rvLevels'[i].old = rvLevels[i].old /\ rvLevels'[i].pend = rvLevels[i].pend
          /\ rvLevels'[i].phase = rvLevels[i].phase /\ rvLevels'[i].run = rvLevels[i].run
      BY DEF RvSameLoops
    <3>2. RvEnabledIn(rvLevels'[i]) = RvEnabledIn(rvLevels[i])
      BY <3>1 DEF RvEnabledIn
    <3> QED
      BY <3>1, <3>2 DEF RvRestores, RvServes
  <2>3. RvMasked'
    <3>1. rvMain' => rvXie' = RvEnabledIn(RvTop')
      BY <1>2, <2>0, <2>2 DEF RvMasked
    <3>2. \A i \in 1 .. RvLevel :
            /\ RvRestores(rvLevels'[i])
            /\ rvLevels'[i].old = IF i = 1 THEN RvUsed ELSE RvEnabledIn(rvLevels'[i - 1])
      <4> SUFFICES ASSUME NEW i \in 1 .. RvLevel
                   PROVE  /\ RvRestores(rvLevels'[i])
                          /\ rvLevels'[i].old = IF i = 1 THEN RvUsed
                                                ELSE RvEnabledIn(rvLevels'[i - 1])
        OBVIOUS
      <4>1. rvLevels'[i].old = rvLevels[i].old /\ RvRestores(rvLevels'[i])
        BY <2>2 DEF RvMasked, RvSameLoops
      <4>2. i # 1 => i - 1 \in 1 .. RvLevel
        BY <2>0
      <4> QED
        BY <2>2, <4>1, <4>2 DEF RvMasked
    <3>3. \A i, j \in 1 .. RvLevel : j < i => rvLevels'[i].old \subseteq RvEnabledIn(rvLevels'[j])
      BY <2>2 DEF RvMasked, RvSameLoops
    <3> QED
      BY <1>0, <1>2, <3>1, <3>2, <3>3 DEF RvMasked
  <2>4. RvClaimed'
    <3>1. ASSUME NEW th \in [0 .. RvLevel -> Nat], RvThresholds(th)
          PROVE  RvThresholds(th)'
      <4>1. \A i \in 1 .. RvLevel :
              /\ IF UseNesting /\ RvServes(rvLevels'[i])
                 THEN /\ rvLevels'[i].token.old = th[i - 1]
                      /\ th[i] = PlicPriority[rvLevels'[i].token.line]
                      /\ th[i - 1] < th[i]
                 ELSE th[i] = th[i - 1]
              /\ rvLevels'[i].old = {"E"} => \E l \in PlicLines : th[i - 1] < PlicPriority[l]
        BY <2>2, <3>1 DEF RvThresholds, RvSameLoops
      <4> QED
        BY <1>0, <3>1, <4>1 DEF RvThresholds
    <3>2. \E th \in [0 .. RvLevel' -> Nat] : RvThresholds(th)'
      BY <1>0, <3>1 DEF RvClaimed
    <3>3. \A i \in 1 .. RvLevel : RvServes(rvLevels'[i]) => rvLevels'[i].token # <<>>
      BY <2>2 DEF RvClaimed, RvSameLoops
    <3>4. plInService' = IF ~UseNesting /\ RvServes(RvTop') THEN {RvTop'.token.line} ELSE {}
      BY <1>2, <2>0, <2>1, <2>2 DEF RvClaimed
    <3>5. RvTop'.phase = "E" /\ RvTop'.run = "none" /\ "E" \in RvTop'.xip => PlicAsserted'
      BY <1>2, <2>1 DEF RvClaimed
    <3> QED
      BY <1>0, <1>2, <3>2, <3>3, <3>4, <3>5 DEF RvClaimed
  <2> QED
    BY <2>3, <2>4
<1> QED
  BY <1>1, <1>2

-----------------------------------------------------------------------------
(* Steps of threads *)

\* Which code runs.
LEMMA RvThreadIs ==
  ASSUME RvInv
  PROVE  /\ RvInThread <=> rvMain /\ rvLevels = <<>>
         /\ rvMain => (rvNesting >= 0 <=> rvLevels # <<>>)
         /\ rvLevels = <<>> => RvLevel = 0 /\ RvBase = rvCpu.sp.on
                               /\ RvThread = IF RvBase = "zero" THEN NoTask ELSE RvBase
         /\ RvInBody <=> rvLevels # <<>> /\ RvTop.run = "body"
<1>1. rvLevels # <<>> => RvLevel \in Nat /\ RvLevel > 0 /\ RvTop \in RvLevelType
  BY RvTopLevel DEF RvInv
<1>2. rvLevels = <<>> => RvLevel = 0 /\ RvBase = rvCpu.sp.on
  BY DEF RvLevel, RvBase
<1>3. (rvMain => rvNesting = RvLevel - 1) /\ (rvLevels # <<>> => rvMain)
  BY DEF RvInv, RvNested, RvTypes
<1>4. rvMain => (rvNesting >= 0 <=> rvLevels # <<>>) /\ (rvNesting < 0 <=> rvLevels = <<>>)
  BY <1>1, <1>2, <1>3
<1>5. rvLevels # <<>> => RvTop.run \in {"none", "body"}
  BY <1>1 DEF RvLevelType
<1> QED
  BY <1>2, <1>3, <1>4, <1>5 DEF RvInThread, RvThread, RvInBody

\* A task that executes is the running one, and no handler is.
LEMMA RvTaskIs ==
  ASSUME RvInv, NEW t \in Tasks, RvInTask(t)
  PROVE  /\ rvMain /\ rvLevels = <<>> /\ RvBase = t /\ t # "zero" /\ t \in rvActive
         /\ rvRunning = t /\ RvLevel = 0 /\ rvNesting = -1 /\ rvCpu.sp.on = t
<1>1. t # "zero" /\ t # NoTask
  BY RvAssumption, TasksAssumption
<1> QED
  BY <1>1, RvThreadIs DEF RvInTask, RvInv, RvNested

\* Code that makes calls of the kernel is a task or the body of a handler.
LEMMA RvCodeIs ==
  ASSUME RvInv, RvInCode
  PROVE  /\ rvMain /\ RvBase \in rvActive \cup {"zero"}
         /\ rvLevels = <<>> => RvBase \in rvActive /\ RvBase # "zero" /\ rvPc[RvBase] = "code"
         /\ rvLevels # <<>> => RvTop.run = "body"
<1>1. rvMain
  BY DEF RvInCode, RvInBody, RvInThread
<1>2. RvBase \in rvActive \cup {"zero"}
  BY <1>1 DEF RvInv, RvNested
<1> QED
  BY <1>1, <1>2, RvThreadIs, TasksAssumption DEF RvInCode

\* Only the lines and their enable bits change, and no interrupt that a loop of
\* handle_interrupt has seen goes away.
RvOnlyLines ==
  /\ UNCHANGED <<rvCpu, rvXie, rvGlobal, rvPending, rvNesting, rvMain, rvTaskSp, rvRunning,
                 rvActive, rvLevels, rvPc, rvReserved, rvFpUsers, rvLocked, rvWanted,
                 rvDisturbed, plInService, plThreshold>>
  /\ rvXip' \subseteq {"S", "T"} /\ plPending' \subseteq PlicLines /\ plEnabled' \subseteq PlicLines
  /\ rvLevels = <<>> \/ (PlicAsserted => PlicAsserted')

\* A device raises a line, or a driver enables one.
LEMMA RvLinesKeep ==
  ASSUME RvInv, \/ \E l \in {"S", "T"} : RvRaise(l)
                \/ \E l \in PlicLines : RvRaiseExternal(l) \/ RvEnableLine(l)
  PROVE  RvInv'
<1>1. RvOnlyLines
  <2>0. rvXip \subseteq {"S", "T"} /\ plPending \subseteq PlicLines /\ plEnabled \subseteq PlicLines
    BY DEF RvInv, RvTypes
  <2>1. CASE \E l \in {"S", "T"} : RvRaise(l)
    BY <2>0, <2>1 DEF RvOnlyLines, RvRaise, plVars, PlicAsserted
  <2>2. ASSUME NEW l \in PlicLines, RvRaiseExternal(l)
        PROVE  RvOnlyLines
    BY <2>0, <2>2 DEF RvOnlyLines, RvRaiseExternal, PlicRaise, PlicAsserted
  <2>3. ASSUME NEW l \in PlicLines, RvEnableLine(l)
        PROVE  RvOnlyLines
    <3>1. rvLevels = <<>>
      BY <2>3, RvThreadIs DEF RvEnableLine
    <3> QED
      BY <2>0, <2>3, <3>1 DEF RvOnlyLines, RvEnableLine, rvVars, PlicEnableLine, PlicDisableLine
  <2> QED
    BY <2>1, <2>2, <2>3
<1>2. RvTypes'
  BY <1>1 DEF RvOnlyLines, RvInv, RvTypes
<1>3. RvNested' /\ RvCurrent' /\ RvBase' = RvBase
  BY <1>1, RvSameLevels, RvKeepsSaved DEF RvOnlyLines, RvInv
<1>4. RvMasked' /\ RvClaimed'
  BY <1>1, RvSameLevels, RvKeepsLoops DEF RvOnlyLines, RvInv
<1>5. RvRequested' /\ RvLocking' /\ RvReserving'
  BY <1>1, <1>3 DEF RvOnlyLines, RvInv, RvRequested, RvLocking, RvReserving, RvTop, RvLevel
<1> QED
  BY <1>2, <1>3, <1>4, <1>5 DEF RvInv

\* initialize_task_state stores a context that can be resumed.
LEMMA RvInitializeIs ==
  ASSUME NEW t \in Tasks
  PROVE  InitializeTaskState(t) = RvSaved(t, FALSE, FALSE)
BY DEF InitializeTaskState, RvSaved, RvSls, RvFls, RvStack

\* A task is activated, ...
LEMMA RvActivateKeeps ==
  ASSUME RvInv, NEW t \in Tasks, RvActivate(t)
  PROVE  RvInv'
<1>0. /\ UNCHANGED <<rvCpu, rvXie, rvXip, rvGlobal, rvPending, rvNesting, rvMain, rvRunning,
                     rvLevels, rvReserved, rvLocked, rvWanted, rvDisturbed, plVars>>
      /\ rvActive' = rvActive \cup {t} /\ t \notin rvActive
      /\ rvTaskSp' = [rvTaskSp EXCEPT ![t] = InitializeTaskState(t)]
      /\ rvPc' = [rvPc EXCEPT ![t] = "code"]
      /\ rvFpUsers' = rvFpUsers \ {t}
      /\ RvTypes /\ RvInCode /\ RvNested /\ RvCurrent
  BY DEF RvActivate, RvInv
<1>1. rvMain /\ RvBase \in rvActive \cup {"zero"} /\ RvBase # t /\ t # "zero" /\ rvMain'
  BY <1>0, RvCodeIs, RvAssumption
<1>2. RvTypes'
  <2>1. InitializeTaskState(t) \in Seq(RvFrames)
    BY RvInitializeIs, RvSavedType
  <2> QED
    BY <1>0, <2>1 DEF RvTypes, plVars
<1>3. RvBase' = RvBase /\ RvLevel' = RvLevel /\ RvTop' = RvTop
  BY <1>0 DEF RvBase, RvLevel, RvTop
<1>4. /\ rvPc'[t] = "code" /\ rvTaskSp'[t] = RvSaved(t, FALSE, FALSE)
      /\ \A u \in Tasks \ {t} : rvPc'[u] = rvPc[u] /\ rvTaskSp'[u] = rvTaskSp[u]
  BY <1>0, RvInitializeIs DEF RvTypes
<1>5. RvBase # "zero" => RvBase \in Tasks /\ rvPc'[RvBase] = rvPc[RvBase]
                         /\ (RvBase \in rvFpUsers') = (RvBase \in rvFpUsers)
  BY <1>0, <1>1, <1>4 DEF RvTypes
<1>6. RvNested'
  BY <1>0, <1>1, <1>3, <1>5 DEF RvNested
<1>7. RvCurrent'
  <2>1. \A u \in rvActive' \ {RvBase} :
           rvTaskSp'[u] = RvSaved(u, rvPc'[u] = "yield", u \in rvFpUsers')
    <3> SUFFICES ASSUME NEW u \in rvActive' \ {RvBase}
                 PROVE  rvTaskSp'[u] = RvSaved(u, rvPc'[u] = "yield", u \in rvFpUsers')
      OBVIOUS
    <3>1. CASE u = t
      <4>1. (rvPc'[u] = "yield") = FALSE /\ (u \in rvFpUsers') = FALSE
        BY <1>0, <1>4, <3>1
      <4> QED
        BY <1>4, <3>1, <4>1
    <3>2. CASE u # t
      <4>1. /\ u \in rvActive \ {RvBase} /\ u \in Tasks
            /\ (u \in rvFpUsers') = (u \in rvFpUsers)
        BY <1>0, <3>2 DEF RvTypes
      <4> QED
        BY <1>0, <1>4, <3>2, <4>1 DEF RvCurrent
    <3> QED
      BY <3>1, <3>2
  <2> QED
    BY <1>0, <1>3, <1>5, <2>1 DEF RvCurrent
<1>8. RvMasked' /\ RvClaimed'
  BY <1>0, RvSameLevels, RvKeepsLoops DEF RvInv, plVars, PlicAsserted
<1>9. RvRequested' /\ RvLocking'
  BY <1>0, <1>3, <1>5 DEF RvInv, RvRequested, RvLocking
<1>10. RvReserving'
  <2>1. ASSUME rvLevels = <<>> PROVE rvReserved = NoTask
    BY <1>0, <2>1, RvCodeIs DEF RvInv, RvReserving
  <2> QED
    BY <1>0, <2>1 DEF RvReserving
<1> QED
  BY <1>2, <1>6, <1>7, <1>8, <1>9, <1>10 DEF RvInv

\* ... a handler calls yield_cpu, ...
LEMMA RvYieldInHandlerKeeps ==
  ASSUME RvInv, RvYieldInHandler
  PROVE  RvInv'
<1>0. /\ UNCHANGED <<rvCpu, rvXie, rvXip, rvGlobal, rvNesting, rvMain, rvTaskSp, rvRunning,
                     rvActive, rvLevels, rvPc, rvReserved, rvFpUsers, rvLocked, rvDisturbed, plVars>>
      /\ rvPending' = TRUE /\ rvWanted' = TRUE /\ rvLevels # <<>>
  BY RvThreadIs DEF RvYieldInHandler
<1>1. RvTypes'
  BY <1>0 DEF RvInv, RvTypes, plVars
<1>2. RvNested' /\ RvCurrent' /\ RvBase' = RvBase
  BY <1>0, RvSameLevels, RvKeepsSaved DEF RvInv
<1>3. RvMasked' /\ RvClaimed'
  BY <1>0, RvSameLevels, RvKeepsLoops DEF RvInv, plVars, PlicAsserted
<1>4. RvRequested' /\ RvLocking' /\ RvReserving'
  BY <1>0, <1>2 DEF RvInv, RvRequested, RvLocking, RvReserving, RvTop, RvLevel
<1> QED
  BY <1>1, <1>2, <1>3, <1>4 DEF RvInv

\* ... CPU Lock is acquired or released, ...
LEMMA RvCpuLockKeeps ==
  ASSUME RvInv, RvCpuLock
  PROVE  RvInv'
<1>0. /\ UNCHANGED <<rvCpu, rvXie, rvXip, rvPending, rvNesting, rvMain, rvTaskSp, rvRunning,
                     rvActive, rvLevels, rvPc, rvReserved, rvFpUsers, rvWanted, rvDisturbed, plVars>>
      /\ \/ ~rvLocked /\ rvLocked' = rvGlobal /\ rvGlobal' = FALSE
         \/ rvLocked /\ rvLocked' = FALSE /\ rvGlobal' = TRUE
      /\ rvLocked \in BOOLEAN /\ rvGlobal \in BOOLEAN
  BY DEF RvCpuLock, RvInv, RvTypes
<1>1. RvTypes'
  BY <1>0 DEF RvInv, RvTypes, plVars
<1>2. RvNested' /\ RvCurrent' /\ RvBase' = RvBase
  BY <1>0, RvSameLevels, RvKeepsSaved DEF RvInv
<1>3. RvMasked' /\ RvClaimed'
  BY <1>0, RvSameLevels, RvKeepsLoops DEF RvInv, plVars, PlicAsserted
<1>4. RvRequested' /\ RvReserving'
  BY <1>0, <1>2 DEF RvInv, RvRequested, RvReserving
<1>5. RvLocking'
  <2>1. /\ rvMain
        /\ rvLevels = <<>> => RvBase # "zero" /\ rvPc[RvBase] = "code"
        /\ rvLevels # <<>> => RvTop.run = "body"
    BY RvCodeIs DEF RvCpuLock
  <2>2. RvTop' = RvTop
    BY <1>0 DEF RvTop, RvLevel
  <2>3. rvLocked = ~rvGlobal
    BY <2>1 DEF RvInv, RvLocking
  <2>4. rvLocked' = ~rvGlobal'
    BY <1>0, <2>3
  <2> QED
    BY <1>0, <1>2, <2>1, <2>2, <2>4 DEF RvLocking
<1> QED
  BY <1>1, <1>2, <1>3, <1>4, <1>5 DEF RvInv

\* ... floating-point registers are used for the first time, ...
LEMMA RvUseFpKeeps ==
  ASSUME RvInv, RvUseFp
  PROVE  RvInv'
<1>0. /\ UNCHANGED <<rvXie, rvXip, rvGlobal, rvPending, rvNesting, rvMain, rvTaskSp, rvRunning,
                     rvActive, rvPc, rvReserved, rvLocked, rvWanted, rvDisturbed, plVars>>
      /\ RvTypes /\ RvNested /\ RvCurrent /\ RvInCode /\ rvMain /\ rvMain'
  BY RvCodeIs DEF RvUseFp, RvInv
<1>1. CASE rvLevels = <<>>
  <2>1. RvBase \in rvActive /\ RvBase # "zero" /\ RvBase \in Tasks /\ RvThread = RvBase
        /\ RvBase = rvCpu.sp.on /\ RvInThread
    BY <1>0, <1>1, RvCodeIs, RvThreadIs DEF RvTypes
  <2>2. PICK n \in Tasks : n = RvBase
    BY <2>1
  <2>3. /\ rvCpu' = [rvCpu EXCEPT !.fp = TRUE, !.f = n, !.fs = n]
        /\ rvFpUsers' = rvFpUsers \cup {n} /\ rvLevels' = rvLevels
    BY <2>1, <2>2 DEF RvUseFp
  <2>4. /\ rvCpu' \in RvRegisters /\ rvCpu'.x = rvCpu.x /\ rvCpu'.s = rvCpu.s /\ rvCpu'.fp = TRUE
        /\ rvCpu'.f = n /\ rvCpu'.fs = n /\ rvCpu'.sp = rvCpu.sp
    BY <1>0, <2>3, RvValueTypes DEF RvTypes, RvRegisters
  <2>5. RvBase' = RvBase /\ RvLevel' = RvLevel /\ RvLevel = 0
    BY <1>1, <2>3, <2>4 DEF RvBase, RvLevel
  <2>6. RvTypes'
    BY <1>0, <2>3, <2>4 DEF RvTypes, plVars
  <2>7. RvNested'
    BY <1>0, <1>1, <2>3, <2>5 DEF RvNested
  <2>8. RvCurrent'
    <3>1. \A u \in rvActive \ {n} : (u \in rvFpUsers') = (u \in rvFpUsers)
      BY <2>3
    <3>2. (n \in rvFpUsers') = TRUE
      BY <2>3
    <3>3. \A u \in rvActive \ {n} :
             rvTaskSp'[u] = RvSaved(u, rvPc'[u] = "yield", u \in rvFpUsers')
      BY <1>0, <2>2, <3>1 DEF RvCurrent
    <3>4. /\ rvCpu'.s = n /\ rvCpu'.x = n
          /\ rvCpu'.sp.frames = RvStack(n, rvPc'[n] = "yield")
      BY <1>0, <1>1, <2>1, <2>2, <2>4 DEF RvCurrent
    <3> QED
      BY <1>0, <1>1, <2>2, <2>3, <2>4, <2>5, <3>2, <3>3, <3>4 DEF RvCurrent
  <2>9. RvMasked' /\ RvClaimed'
    BY <1>0, <2>3, RvSameLevels, RvKeepsLoops DEF RvInv, plVars, PlicAsserted
  <2>10. RvRequested' /\ RvLocking' /\ RvReserving'
    BY <1>0, <1>1, <2>3, <2>5 DEF RvInv, RvRequested, RvLocking, RvReserving
  <2> QED
    BY <2>6, <2>7, <2>8, <2>9, <2>10 DEF RvInv
<1>2. CASE rvLevels # <<>>
  <2>1. ~RvInThread /\ RvTop \in RvLevelType /\ RvLevel \in 1 .. RvLevel /\ RvLevel \in Nat
        /\ 1 \in 1 .. RvLevel /\ RvTop = rvLevels[RvLevel]
    BY <1>0, <1>2, RvThreadIs, RvTopLevel
  <2>2. /\ rvCpu' = [rvCpu EXCEPT !.fp = TRUE, !.f = HandlerValue(RvLevel)]
        /\ rvFpUsers' = rvFpUsers /\ rvLevels' = SetTop([RvTop EXCEPT !.usesFp = TRUE])
    BY <2>1 DEF RvUseFp
  <2>3. PICK lv \in RvLevelType :
           /\ lv = [RvTop EXCEPT !.usesFp = TRUE]
           /\ lv.sp = RvTop.sp /\ lv.part = RvTop.part /\ lv.old = RvTop.old /\ lv.pend = RvTop.pend
           /\ lv.phase = RvTop.phase /\ lv.run = RvTop.run /\ lv.token = RvTop.token
           /\ lv.xip = RvTop.xip
    <3>1. PICK lv : lv = [RvTop EXCEPT !.usesFp = TRUE]
      OBVIOUS
    <3>2. /\ lv \in RvLevelType
          /\ lv.sp = RvTop.sp /\ lv.part = RvTop.part /\ lv.old = RvTop.old /\ lv.pend = RvTop.pend
          /\ lv.phase = RvTop.phase /\ lv.run = RvTop.run /\ lv.token = RvTop.token
          /\ lv.xip = RvTop.xip
      BY <2>1, <3>1 DEF RvLevelType
    <3> QED
      BY <3>1, <3>2
  <2>4. /\ rvLevels' \in Seq(RvLevelType) /\ RvLevel' = RvLevel
        /\ \A i \in 1 .. RvLevel : rvLevels'[i] = IF i = RvLevel THEN lv ELSE rvLevels[i]
        /\ RvTop' = lv /\ rvLevels' # <<>>
    BY <1>0, <1>2, <2>2, <2>3, RvSetTopLevel
  <2>5. /\ rvCpu' \in RvRegisters /\ rvCpu'.x = rvCpu.x /\ rvCpu'.s = rvCpu.s /\ rvCpu'.fp = TRUE
        /\ rvCpu'.f = HandlerValue(RvLevel) /\ rvCpu'.fs = rvCpu.fs /\ rvCpu'.sp = rvCpu.sp
    BY <1>0, <2>1, <2>2, RvValueTypes DEF RvTypes, RvRegisters
  <2>6. RvTypes'
    BY <1>0, <2>2, <2>4, <2>5 DEF RvTypes, plVars
  <2>7. \A i \in 1 .. RvLevel :
          /\ rvLevels'[i].sp = rvLevels[i].sp /\ rvLevels'[i].part = rvLevels[i].part
          /\ i # RvLevel => rvLevels'[i].usesFp = rvLevels[i].usesFp
    BY <2>1, <2>3, <2>4
  <2>8. RvBase' = RvBase
    BY <1>2, <2>1, <2>4, <2>7 DEF RvBase
  <2>9. RvNested'
    <3>1. \A i \in 2 .. RvLevel :
            /\ rvLevels'[i].sp.on = "main"
            /\ \E w \in RvValues :
                 /\ rvLevels'[i].sp.frames = RvFls(<<>>, HandlerValue(i - 1), rvLevels'[i].part, w)
                 /\ rvLevels'[i - 1].usesFp => rvLevels'[i].part /\ w = HandlerValue(i - 1)
      <4> SUFFICES ASSUME NEW i \in 2 .. RvLevel
                   PROVE  /\ rvLevels'[i].sp.on = "main"
                          /\ \E w \in RvValues :
                                /\ rvLevels'[i].sp.frames
                                     = RvFls(<<>>, HandlerValue(i - 1), rvLevels'[i].part, w)
                                /\ rvLevels'[i - 1].usesFp =>
                                     rvLevels'[i].part /\ w = HandlerValue(i - 1)
        OBVIOUS
      <4>1. i \in 1 .. RvLevel /\ i - 1 \in 1 .. RvLevel /\ i - 1 # RvLevel
        BY <2>1
      <4>2. /\ rvLevels'[i].sp = rvLevels[i].sp /\ rvLevels'[i].part = rvLevels[i].part
            /\ rvLevels'[i - 1].usesFp = rvLevels[i - 1].usesFp
        BY <2>7, <4>1
      <4> QED
        BY <1>0, <4>2 DEF RvNested
    <3>2. rvLevels'[1].part = rvLevels[1].part /\ rvLevels'[1].sp = rvLevels[1].sp
      BY <2>1, <2>7
    <3> QED
      BY <1>0, <1>2, <2>2, <2>4, <2>8, <3>1, <3>2 DEF RvNested
  <2>10. RvCurrent'
    BY <1>0, <1>2, <2>2, <2>4, <2>5, <2>8 DEF RvCurrent
  <2>11. RvSameLoops
    BY <1>2, <2>1, <2>3, <2>4 DEF RvSameLoops
  <2>12. RvMasked' /\ RvClaimed'
    BY <1>0, <2>11, RvKeepsLoops DEF RvInv, plVars, PlicAsserted
  <2>13. RvRequested' /\ RvLocking' /\ RvReserving'
    BY <1>0, <1>2, <2>3, <2>4, <2>8 DEF RvInv, RvRequested, RvLocking, RvReserving
  <2> QED
    BY <2>6, <2>9, <2>10, <2>12, <2>13 DEF RvInv
<1> QED
  BY <1>1, <1>2

\* ... a task calls yield_cpu, ...
LEMMA RvYieldBeginKeeps ==
  ASSUME RvInv, NEW t \in Tasks, RvYieldBegin(t)
  PROVE  RvInv'
<1>0. /\ UNCHANGED <<rvXie, rvXip, rvGlobal, rvPending, rvNesting, rvMain, rvTaskSp, rvRunning,
                     rvActive, rvLevels, rvReserved, rvFpUsers, rvLocked, rvDisturbed, plVars>>
      /\ rvCpu' = PushReg(rvCpu, "FLS.X", rvCpu.x) /\ rvPc' = [rvPc EXCEPT ![t] = "yield"]
      /\ rvWanted' = TRUE /\ rvPc[t] = "code" /\ ~rvLocked /\ RvInTask(t)
      /\ RvTypes /\ RvNested /\ RvCurrent
  BY DEF RvYieldBegin, RvInv
<1>1. /\ rvMain /\ rvLevels = <<>> /\ RvBase = t /\ t # "zero" /\ t \in rvActive /\ RvLevel = 0
      /\ rvCpu.sp.on = t
  BY <1>0, RvTaskIs
<1>2. rvCpu \in RvRegisters /\ rvCpu.x \in RvValues
  BY <1>0 DEF RvTypes, RvRegisters
<1>3. /\ rvCpu' \in RvRegisters /\ rvCpu'.x = rvCpu.x /\ rvCpu'.s = rvCpu.s /\ rvCpu'.f = rvCpu.f
      /\ rvCpu'.fs = rvCpu.fs /\ rvCpu'.fp = rvCpu.fp /\ rvCpu'.sp.on = rvCpu.sp.on
      /\ rvCpu'.sp.frames = Push(rvCpu.sp.frames, "FLS.X", rvCpu.x)
  BY <1>0, <1>2, RvPushIs
<1>4. RvTypes'
  BY <1>0, <1>3 DEF RvTypes, plVars
<1>5. RvBase' = t /\ RvLevel' = 0 /\ rvPc'[t] = "yield" /\ \A u \in Tasks \ {t} : rvPc'[u] = rvPc[u]
  BY <1>0, <1>1, <1>3 DEF RvBase, RvLevel, RvTypes
<1>6. RvNested'
  BY <1>0, <1>1, <1>5 DEF RvNested
<1>7. RvCurrent'
  <2>1. rvCpu.x = t /\ rvCpu.sp.frames = RvStack(t, rvPc[t] = "yield")
    BY <1>0, <1>1 DEF RvCurrent
  <2>2. RvStack(t, rvPc[t] = "yield") = <<>> /\ RvStack(t, rvPc'[t] = "yield") = Push(<<>>, "FLS.X", t)
    BY <1>0, <1>5 DEF RvStack
  <2>3. rvCpu'.sp.frames = RvStack(t, rvPc'[t] = "yield")
    BY <1>3, <2>1, <2>2
  <2>4. \A u \in rvActive \ {t} : rvTaskSp'[u] = RvSaved(u, rvPc'[u] = "yield", u \in rvFpUsers')
    BY <1>0, <1>1, <1>5 DEF RvCurrent, RvTypes
  <2> QED
    BY <1>0, <1>1, <1>3, <1>5, <2>3, <2>4 DEF RvCurrent
<1>8. RvMasked' /\ RvClaimed'
  BY <1>0, RvSameLevels, RvKeepsLoops DEF RvInv, plVars, PlicAsserted
<1>9. RvRequested' /\ RvLocking' /\ RvReserving'
  BY <1>0, <1>1, <1>5, TasksAssumption DEF RvInv, RvRequested, RvLocking, RvReserving
<1> QED
  BY <1>4, <1>6, <1>7, <1>8, <1>9 DEF RvInv

\* ... saves the rest and dispatches, ...
LEMMA RvYieldDispatchKeeps ==
  ASSUME RvInv, NEW t \in Tasks, RvYieldDispatch(t)
  PROVE  RvInv' /\ rvWanted' = FALSE
<1>0. /\ UNCHANGED <<rvXie, rvXip, rvPending, rvNesting, rvMain, rvActive, rvLevels, rvReserved,
                     rvFpUsers, rvLocked, rvDisturbed, plVars>>
      /\ NotShortcutting(PushFlsF(rvCpu), rvCpu.fp) /\ rvPc' = [rvPc EXCEPT ![t] = "code"]
      /\ rvPc[t] = "yield" /\ rvGlobal /\ RvInTask(t)
      /\ RvTypes /\ RvNested /\ RvCurrent
  BY DEF RvYieldDispatch, RvInv
<1>1. /\ rvMain /\ rvLevels = <<>> /\ RvBase = t /\ t # "zero" /\ t \in rvActive
      /\ rvNesting = -1 /\ rvCpu.sp.on = t
  BY <1>0, RvTaskIs
<1>2. /\ rvCpu.s = t /\ rvCpu.x = t /\ rvCpu.fp = (t \in rvFpUsers)
      /\ (rvCpu.fp => rvCpu.f = t /\ rvCpu.fs = t)
      /\ rvCpu.sp.frames = RvStack(t, rvPc[t] = "yield") /\ rvCpu \in RvRegisters
      /\ rvCpu.fp \in BOOLEAN
  BY <1>0, <1>1 DEF RvCurrent, RvTypes, RvRegisters
<1>3. /\ rvPc' \in [Tasks -> {"code", "yield", "lrsc"}]
      /\ rvPc'[t] = "code" /\ \A u \in Tasks \ {t} : rvPc'[u] = rvPc[u]
  BY <1>0 DEF RvTypes
<1>4. PICK c : c = PushFlsF(rvCpu)
  OBVIOUS
<1>5. /\ c \in RvRegisters /\ c.s = t /\ c.fs = rvCpu.fs /\ c.sp.on = t
      /\ c.sp.frames = RvFls(<<>>, t, rvCpu.fp, rvCpu.f)
  <2>1. rvCpu.sp.frames = Push(<<>>, "FLS.X", t)
    BY <1>0, <1>2 DEF RvStack
  <2> QED
    BY <1>1, <1>2, <1>4, <2>1, RvPushFlsFIs
<1>6. RvInterrupted(c, rvCpu.fp, rvPc')
  <2>1. RvFls(<<>>, t, rvCpu.fp, rvCpu.f) = RvFls(<<>>, t, rvCpu.fp, t)
    BY <1>2 DEF RvFls
  <2>2. RvStack(t, rvPc'[t] = "yield") = <<>>
    BY <1>3 DEF RvStack
  <2> QED
    BY <1>1, <1>2, <1>5, <2>1, <2>2 DEF RvInterrupted
<1>7. NotShortcutting(c, rvCpu.fp)
  BY <1>0, <1>4
<1>8. \A u \in rvActive \ {RvBase} : rvPc'[u] = rvPc[u]
  BY <1>0, <1>1, <1>3 DEF RvTypes
<1>9. RvResumed' /\ rvGlobal' = TRUE /\ rvWanted' = FALSE
  <2>1. rvLevels' = <<>> /\ rvMain' /\ rvNesting' = -1
    BY <1>0, <1>1
  <2> QED
    BY <1>0, <1>1, <1>3, <1>6, <1>7, <1>8, <2>1, RvSwitched, ZenonT(30)
<1>10. RvTypes'
  BY <1>0, <1>3, <1>9 DEF RvTypes, RvResumed, plVars
<1>11. RvMasked' /\ RvClaimed'
  BY <1>0, RvSameLevels, RvKeepsLoops DEF RvInv, plVars, PlicAsserted
<1>12. RvRequested' /\ RvLocking' /\ RvReserving'
  <2>1. ~rvPending /\ ~rvLocked /\ rvReserved = NoTask
    BY <1>0, <1>1 DEF RvInv, RvTypes, RvRequested, RvLocking, RvReserving
  <2>2. rvLocked' = FALSE /\ rvReserved' = NoTask /\ rvPending' = FALSE /\ rvLevels' = <<>>
    BY <1>0, <1>1, <2>1 DEF RvTypes
  <2> QED
    BY <1>9, <2>2 DEF RvRequested, RvLocking, RvReserving
<1> QED
  BY <1>9, <1>10, <1>11, <1>12 DEF RvInv, RvResumed

\* ... or exits.
LEMMA RvExitKeeps ==
  ASSUME RvInv, NEW t \in Tasks, RvExit(t)
  PROVE  RvInv' /\ rvWanted' = FALSE
<1>0. /\ UNCHANGED <<rvXie, rvXip, rvPending, rvNesting, rvMain, rvLevels, rvPc, rvReserved,
                     rvFpUsers, rvDisturbed, plVars>>
      /\ rvActive' = rvActive \ {t} /\ Dispatch(rvCpu, rvTaskSp, rvActive')
      /\ rvLocked' = FALSE /\ rvPc[t] = "code" /\ RvInTask(t)
      /\ RvTypes /\ RvNested /\ RvCurrent
  BY DEF RvExit, RvInv
<1>1. /\ rvMain /\ rvLevels = <<>> /\ RvBase = t /\ t # "zero" /\ t \in rvActive /\ rvNesting = -1
  BY <1>0, RvTaskIs
<1>2. /\ rvCpu \in RvRegisters /\ rvTaskSp \in [Tasks -> Seq(RvFrames)]
      /\ rvActive' \in SUBSET Tasks /\ rvFpUsers \in SUBSET Tasks
      /\ rvPc \in [Tasks -> {"code", "yield", "lrsc"}]
  BY <1>0 DEF RvTypes
<1>3. \A u \in rvActive' : rvTaskSp[u] = RvSaved(u, rvPc[u] = "yield", u \in rvFpUsers)
  BY <1>0, <1>1 DEF RvCurrent
<1>4. RvResumed' /\ rvGlobal' = TRUE /\ rvWanted' = FALSE
  <2>1. rvLevels' = <<>> /\ rvMain' /\ rvNesting' = -1
    BY <1>0, <1>1
  <2>2. PICK active \in SUBSET Tasks, users \in SUBSET Tasks,
             pc \in [Tasks -> {"code", "yield", "lrsc"}], sps \in [Tasks -> Seq(RvFrames)] :
                active = rvActive' /\ users = rvFpUsers /\ pc = rvPc /\ sps = rvTaskSp
    BY <1>2
  <2>3. rvCpu \in RvRegisters /\ Dispatch(rvCpu, sps, active)
    BY <1>0, <1>2, <2>2
  <2>4. \A u \in active : sps[u] = RvSaved(u, pc[u] = "yield", u \in users)
    BY <1>3, <2>2
  <2>5. rvPc' = pc /\ rvFpUsers' = users /\ rvActive' = active
    BY <1>0, <2>2
  <2>6. RvDispatches(rvCpu, sps, active, users, pc)
    BY <2>1, <2>3, <2>4, <2>5 DEF RvDispatches
  <2> QED
    BY <2>6, RvDispatched
<1>5. RvTypes'
  BY <1>0, <1>2, <1>4 DEF RvTypes, RvResumed, plVars
<1>6. RvMasked' /\ RvClaimed'
  BY <1>0, RvSameLevels, RvKeepsLoops DEF RvInv, plVars, PlicAsserted
<1>7. RvRequested' /\ RvLocking' /\ RvReserving'
  <2>1. ~rvPending /\ rvReserved = NoTask
    BY <1>0, <1>1 DEF RvInv, RvTypes, RvRequested, RvReserving
  <2> QED
    BY <1>0, <1>1, <1>4, <2>1 DEF RvRequested, RvLocking, RvReserving
<1> QED
  BY <1>4, <1>5, <1>6, <1>7 DEF RvInv, RvResumed

\* What the trap handler pushes, and where it starts.
LEMMA RvEnterTrapIs ==
  ASSUME RvTypes, RvLevel \in Nat
  PROVE  /\ EnterTrap.cpu \in RvRegisters /\ EnterTrap.cpu.x = HandlerValue(RvLevel + 1)
         /\ EnterTrap.cpu.s = rvCpu.s /\ EnterTrap.cpu.fs = rvCpu.fs
         /\ EnterTrap.cpu.sp = MainStack
         /\ EnterTrap.level.sp \in RvStacks /\ EnterTrap.level.part \in BOOLEAN
         /\ EnterTrap.level.sp.on = rvCpu.sp.on
         /\ rvCpu.sp.on = "zero" => EnterTrap.nesting = 0 /\ EnterTrap.switch = TRUE
         /\ rvCpu.sp.on # "zero" =>
               /\ EnterTrap.nesting = rvNesting + 1
               /\ EnterTrap.switch = (rvNesting + 1 = 0)
               /\ EnterTrap.level.part = rvCpu.fp
               /\ EnterTrap.level.sp.frames = RvFls(rvCpu.sp.frames, rvCpu.x, rvCpu.fp, rvCpu.f)
<1>0. /\ rvCpu \in RvRegisters /\ rvCpu.x \in RvValues /\ rvCpu.fp \in BOOLEAN
      /\ HandlerValue(RvLevel + 1) \in RvValues /\ <<>> \in Seq(RvFrames)
  <2>1. RvLevel + 1 \in Nat
    OBVIOUS
  <2> QED
    BY <2>1, RvValueTypes DEF RvTypes, RvRegisters
<1>1. PICK h \in RvValues : h = HandlerValue(RvLevel + 1)
  BY <1>0
<1>2. MainStack \in RvStacks
  BY <1>0 DEF MainStack, RvStacks
<1>3. CASE rvCpu.sp.on = "zero"
  <2>1. EnterTrap = [cpu |-> [rvCpu EXCEPT !.sp = MainStack, !.x = h, !.f = Junk, !.fp = rvCpu.fp],
                     level |-> [sp |-> rvCpu.sp, part |-> FALSE], nesting |-> 0, switch |-> TRUE]
    BY <1>1, <1>3 DEF EnterTrap
  <2>2. PICK d : d = [rvCpu EXCEPT !.sp = MainStack, !.x = h, !.f = Junk, !.fp = rvCpu.fp]
    OBVIOUS
  <2>3. d \in RvRegisters /\ d.x = h /\ d.s = rvCpu.s /\ d.fs = rvCpu.fs /\ d.sp = MainStack
    BY <1>0, <1>2, <2>2, RvValueTypes DEF RvRegisters
  <2>4. rvCpu.sp \in RvStacks
    BY <1>0 DEF RvRegisters
  <2>5. /\ EnterTrap.cpu = d /\ EnterTrap.level.sp = rvCpu.sp /\ EnterTrap.level.part = FALSE
        /\ EnterTrap.nesting = 0 /\ EnterTrap.switch = TRUE
    BY <2>1, <2>2
  <2> QED
    BY <1>1, <1>3, <2>3, <2>4, <2>5
<1>4. CASE rvCpu.sp.on # "zero"
  <2>1. PICK g : g = PushReg(rvCpu, "FLS.X", rvCpu.x)
    OBVIOUS
  <2>2. /\ g \in RvRegisters /\ g.s = rvCpu.s /\ g.f = rvCpu.f /\ g.fs = rvCpu.fs /\ g.fp = rvCpu.fp
        /\ g.sp.on = rvCpu.sp.on /\ g.sp.frames = Push(rvCpu.sp.frames, "FLS.X", rvCpu.x)
    <3>1. rvCpu \in RvRegisters /\ rvCpu.x \in RvValues
      BY <1>0 DEF RvRegisters
    <3>2. PICK v \in RvValues : v = rvCpu.x
      BY <3>1
    <3>3. g = PushReg(rvCpu, "FLS.X", v)
      BY <2>1, <3>2
    <3>4. g \in RvRegisters /\ g.sp.on = rvCpu.sp.on
      BY <3>1, <3>3, RvPushIs
    <3>5. g.s = rvCpu.s /\ g.f = rvCpu.f /\ g.fs = rvCpu.fs /\ g.fp = rvCpu.fp
      BY <3>1, <3>3, RvPushIs
    <3>6. g.sp.frames = Push(rvCpu.sp.frames, "FLS.X", v)
      BY <3>1, <3>3, RvPushIs
    <3> QED
      BY <3>2, <3>4, <3>5, <3>6
  <2>3. PICK d : d = PushFlsF(g)
    OBVIOUS
  <2>4. /\ d \in RvRegisters /\ d.s = rvCpu.s /\ d.fs = rvCpu.fs /\ d.sp.on = rvCpu.sp.on
        /\ d.sp.frames = RvFls(rvCpu.sp.frames, rvCpu.x, rvCpu.fp, rvCpu.f)
    BY <2>2, <2>3, RvPushFlsFIs
  <2>5. PICK e : e = [d EXCEPT !.sp = MainStack, !.x = h, !.f = Junk, !.fp = FALSE]
    OBVIOUS
  <2>6. e \in RvRegisters /\ e.x = h /\ e.s = d.s /\ e.fs = d.fs /\ e.sp = MainStack
    BY <1>2, <2>4, <2>5, RvValueTypes DEF RvRegisters
  <2>7. d.sp \in RvStacks
    BY <2>4 DEF RvRegisters
  <2>8. /\ EnterTrap.cpu = e /\ EnterTrap.level.sp = d.sp /\ EnterTrap.level.part = rvCpu.fp
        /\ EnterTrap.nesting = rvNesting + 1 /\ EnterTrap.switch = (rvNesting + 1 = 0)
    BY <1>0, <1>1, <1>4, <2>1, <2>3, <2>5 DEF EnterTrap
  <2> QED
    BY <1>0, <1>1, <1>4, <2>4, <2>6, <2>7, <2>8
<1> QED
  BY <1>3, <1>4

\* LR and SC are executed or emulated.
LEMMA RvEmulateKeeps ==
  ASSUME RvInv, NEW t \in Tasks, RvEmulate(t)
  PROVE  RvInv' /\ UNCHANGED <<rvRunning, rvWanted, rvMain, rvLevels>>
<1> DEFINE c == [EnterTrap.cpu EXCEPT !.sp = EnterTrap.level.sp]
           part == EnterTrap.level.part
<1>0. /\ UNCHANGED <<rvXie, rvXip, rvNesting, rvMain, rvActive, rvLevels, rvFpUsers, rvLocked, plVars>>
      /\ PushSecondLevelStateAndDispatch(c, part, rvGlobal)
      /\ rvReserved' = IF rvPc[t] = "code" THEN t ELSE NoTask
      /\ rvPc' = [rvPc EXCEPT ![t] = IF @ = "code" THEN "lrsc" ELSE "code"]
      /\ rvDisturbed' = FALSE /\ rvPc[t] # "yield" /\ RvInTask(t)
      /\ RvTypes /\ RvNested /\ RvCurrent
  BY DEF RvEmulate, RvInv
<1>1. /\ rvMain /\ rvLevels = <<>> /\ RvBase = t /\ t # "zero" /\ t \in rvActive
      /\ rvNesting = -1 /\ rvCpu.sp.on = t /\ RvLevel = 0
  BY <1>0, RvTaskIs
<1>2. /\ rvCpu.s = t /\ rvCpu.x = t /\ rvCpu.fp = (t \in rvFpUsers)
      /\ (rvCpu.fp => rvCpu.f = t /\ rvCpu.fs = t)
      /\ rvCpu.sp.frames = RvStack(t, rvPc[t] = "yield") /\ rvCpu \in RvRegisters
      /\ rvCpu.fp \in BOOLEAN
  BY <1>0, <1>1 DEF RvCurrent, RvTypes, RvRegisters
<1>3. /\ c \in RvRegisters /\ c.s = t /\ c.fs = rvCpu.fs /\ c.sp.on = t
      /\ c.sp.frames = RvFls(rvCpu.sp.frames, t, rvCpu.fp, rvCpu.f)
      /\ part = rvCpu.fp
  <2>1. PICK e, lv : e = EnterTrap.cpu /\ lv = EnterTrap.level
    OBVIOUS
  <2>2. /\ e \in RvRegisters /\ e.s = rvCpu.s /\ e.fs = rvCpu.fs
        /\ lv.sp \in RvStacks /\ lv.part = rvCpu.fp /\ lv.sp.on = rvCpu.sp.on
        /\ lv.sp.frames = RvFls(rvCpu.sp.frames, rvCpu.x, rvCpu.fp, rvCpu.f)
    BY <1>0, <1>1, <2>1, RvEnterTrapIs
  <2>3. c = [e EXCEPT !.sp = lv.sp] /\ part = lv.part
    BY <2>1
  <2>4. /\ [e EXCEPT !.sp = lv.sp] \in RvRegisters /\ [e EXCEPT !.sp = lv.sp].s = e.s
        /\ [e EXCEPT !.sp = lv.sp].fs = e.fs /\ [e EXCEPT !.sp = lv.sp].sp = lv.sp
    BY <2>2 DEF RvRegisters
  <2> HIDE DEF c, part
  <2> QED
    BY <1>1, <1>2, <2>2, <2>3, <2>4
<1> HIDE DEF c, part
<1>4. /\ rvPc' \in [Tasks -> {"code", "yield", "lrsc"}] /\ rvPc'[t] # "yield"
      /\ rvPc[t] = "code" => rvPc'[t] = "lrsc"
      /\ \A u \in Tasks \ {t} : rvPc'[u] = rvPc[u]
  BY <1>0 DEF RvTypes
<1>5. RvInterrupted(c, part, rvPc')
  <2>1. RvFls(RvStack(t, rvPc[t] = "yield"), t, rvCpu.fp, rvCpu.f)
          = RvFls(RvStack(t, rvPc'[t] = "yield"), t, part, t)
    <3>1. RvStack(t, rvPc[t] = "yield") = RvStack(t, rvPc'[t] = "yield")
      BY <1>0, <1>4 DEF RvStack
    <3> QED
      BY <1>2, <1>3, <3>1 DEF RvFls
  <2>2. c.sp.frames = RvFls(RvStack(t, rvPc'[t] = "yield"), t, part, t)
    BY <1>2, <1>3, <2>1
  <2> QED
    BY <1>1, <1>2, <1>3, <2>2 DEF RvInterrupted
<1>6. ~rvPending
  BY <1>0, <1>1 DEF RvInv, RvRequested
<1>7. /\ rvCpu' = IF c.sp.on = "zero" THEN IdleTask(c) ELSE PopFls(c, part)
      /\ rvGlobal' = (rvGlobal \/ c.sp.on = "zero")
      /\ UNCHANGED <<rvPending, rvRunning, rvTaskSp, rvWanted>>
  BY <1>0, <1>6 DEF PushSecondLevelStateAndDispatch
<1>8. RvResumed' /\ RvBase' = RvBase
  <2>1. \A u \in rvActive \ {RvBase} : rvPc'[u] = rvPc[u]
    BY <1>0, <1>1, <1>4 DEF RvTypes
  <2>2. rvLevels' = <<>> /\ rvMain' /\ rvNesting' = -1
    BY <1>0, <1>1
  <2> QED
    BY <1>0, <1>1, <1>4, <1>5, <1>7, <2>1, <2>2, RvShortcut
<1>9. rvGlobal' = rvGlobal
  BY <1>0, <1>1, <1>3, <1>7 DEF RvTypes
<1>10. RvTypes'
  <2>1. rvReserved' \in Tasks \cup {NoTask}
    BY <1>0
  <2> QED
    BY <1>0, <1>4, <1>7, <1>8, <1>9, <2>1 DEF RvTypes, RvResumed, plVars
<1>11. RvMasked' /\ RvClaimed'
  BY <1>0, RvSameLevels, RvKeepsLoops DEF RvInv, plVars, PlicAsserted
<1>12. RvRequested'
  BY <1>0, <1>1, <1>6, <1>7 DEF RvInv, RvRequested
<1>13. RvLocking'
  <2>1. rvLocked = ~rvGlobal
    BY <1>1 DEF RvInv, RvLocking
  <2> QED
    BY <1>0, <1>1, <1>4, <1>8, <1>9, <2>1 DEF RvLocking
<1>14. RvReserving'
  BY <1>0, <1>1, <1>4, <1>8 DEF RvReserving
<1> QED
  BY <1>0, <1>7, <1>8, <1>10, <1>11, <1>12, <1>13, <1>14 DEF RvInv, RvResumed

\* The first dispatch.
LEMMA RvPortBootKeeps ==
  ASSUME RvInv, NEW active \in SUBSET Tasks, RvPortBoot(active)
  PROVE  RvInv' /\ rvWanted' = FALSE
<1>0. /\ ~rvMain /\ rvXie' = RvUsed /\ plEnabled' = {} /\ plThreshold' = 0
      /\ rvNesting' = -1 /\ rvMain' = TRUE /\ rvActive' = active /\ rvLocked' = FALSE
      /\ Dispatch(rvCpu, [t \in Tasks |-> IF t \in active THEN InitializeTaskState(t) ELSE <<>>],
                  active)
      /\ UNCHANGED <<rvXip, rvPending, rvLevels, rvPc, rvReserved, rvFpUsers, rvDisturbed,
                     plPending, plInService>>
      /\ RvTypes /\ RvNested
  BY DEF RvPortBoot, PlicInit, RvInv
<1>1. /\ rvLevels = <<>> /\ rvFpUsers = {} /\ rvReserved = NoTask
      /\ \A t \in Tasks : rvPc[t] = "code"
  BY <1>0 DEF RvNested
<1>2. PICK sps : sps = [t \in Tasks |-> IF t \in active THEN InitializeTaskState(t) ELSE <<>>]
  OBVIOUS
<1>3. sps \in [Tasks -> Seq(RvFrames)] /\ \A t \in active : sps[t] = RvSaved(t, FALSE, FALSE)
  <2>1. <<>> \in Seq(RvFrames)
    OBVIOUS
  <2>2. \A t \in Tasks : InitializeTaskState(t) = RvSaved(t, FALSE, FALSE)
                         /\ InitializeTaskState(t) \in Seq(RvFrames)
    BY RvInitializeIs, RvSavedType
  <2> QED
    BY <1>2, <2>1, <2>2
<1>4. \A t \in active : sps[t] = RvSaved(t, rvPc[t] = "yield", t \in rvFpUsers)
  <2> SUFFICES ASSUME NEW t \in active
               PROVE  sps[t] = RvSaved(t, rvPc[t] = "yield", t \in rvFpUsers)
    OBVIOUS
  <2>1. (rvPc[t] = "yield") = FALSE /\ (t \in rvFpUsers) = FALSE
    BY <1>1
  <2> QED
    BY <1>3, <2>1
<1>5. RvResumed' /\ rvGlobal' = TRUE /\ rvWanted' = FALSE
  <2>1. /\ rvLevels' = <<>> /\ rvMain' /\ rvNesting' = -1 /\ rvActive' = active /\ rvPc' = rvPc
        /\ rvFpUsers' = rvFpUsers /\ Dispatch(rvCpu, sps, active)
    BY <1>0, <1>1, <1>2
  <2>2. /\ rvCpu \in RvRegisters /\ rvPc \in [Tasks -> {"code", "yield", "lrsc"}]
        /\ rvFpUsers \in SUBSET Tasks
    BY <1>0 DEF RvTypes
  <2>3. RvDispatches(rvCpu, sps, active, rvFpUsers, rvPc)
    BY <1>3, <1>4, <2>1, <2>2 DEF RvDispatches
  <2> QED
    BY <2>3, RvDispatched
<1>6. RvTypes'
  <2>1. /\ rvXie' \subseteq RvUsed /\ plEnabled' \subseteq PlicLines /\ plThreshold' \in Nat
        /\ rvNesting' \in Int /\ rvActive' \subseteq Tasks
    <3>1. {} \subseteq PlicLines /\ 0 \in Nat /\ -1 \in Int
      OBVIOUS
    <3> QED
      BY <1>0, <3>1
  <2>2. /\ rvGlobal' \in BOOLEAN /\ rvWanted' \in BOOLEAN /\ rvMain' \in BOOLEAN
        /\ rvLocked' \in BOOLEAN
        /\ rvCpu' \in RvRegisters /\ rvTaskSp' \in [Tasks -> Seq(RvFrames)]
        /\ rvRunning' \in Tasks \cup {NoTask}
    BY <1>0, <1>5 DEF RvResumed
  <2>3. /\ rvXip' \subseteq {"S", "T"} /\ rvPending' \in BOOLEAN /\ rvFpUsers' \subseteq Tasks
        /\ rvLevels' \in Seq(RvLevelType) /\ rvPc' \in [Tasks -> {"code", "yield", "lrsc"}]
        /\ rvReserved' \in Tasks \cup {NoTask} /\ rvDisturbed' \in BOOLEAN
        /\ plPending' \subseteq PlicLines /\ plInService' \subseteq PlicLines
    BY <1>0 DEF RvTypes
  <2> QED
    BY <2>1, <2>2, <2>3 DEF RvTypes
<1>7. RvLevel' = 0 /\ RvLevel = 0 /\ rvLevels' = <<>>
  BY <1>0, <1>1 DEF RvLevel
<1>8. RvMasked'
  BY <1>0, <1>7 DEF RvMasked
<1>9. RvClaimed'
  <2>1. PICK th : th = [i \in 0 .. 0 |-> 0]
    OBVIOUS
  <2>2. th \in [0 .. 0 -> Nat] /\ th[0] = 0
    BY <2>1
  <2>3. RvThresholds(th)'
    BY <1>0, <1>7, <2>2 DEF RvThresholds
  <2>4. plInService' = {}
    BY <1>0, <1>1 DEF RvInv, RvClaimed
  <2> QED
    BY <1>7, <2>2, <2>3, <2>4 DEF RvClaimed
<1>10. RvRequested' /\ RvLocking' /\ RvReserving'
  <2>1. rvPending' = FALSE /\ rvLocked' = FALSE /\ rvReserved' = NoTask
    BY <1>0, <1>1 DEF RvInv, RvTypes, RvRequested
  <2> QED
    BY <1>5, <1>7, <2>1 DEF RvRequested, RvLocking, RvReserving
<1> QED
  BY <1>5, <1>6, <1>8, <1>9, <1>10 DEF RvInv, RvResumed

-----------------------------------------------------------------------------
(* The loops of handle_interrupt *)

\* handle_interrupt goes on in the innermost level.
LEMMA RvEnabledWasOld ==
  ASSUME NEW lv, RvRestores(lv)
  PROVE  RvEnabledIn(lv) \subseteq lv.old
<1>1. CASE lv.phase = "E"
  BY <1>1 DEF RvRestores, RvEnabledIn
<1>2. CASE lv.phase = "S"
  BY <1>2 DEF RvRestores, RvEnabledIn
<1>3. CASE lv.phase # "E" /\ lv.phase # "S"
  <2>1. "S" \in lv.old => RvUsed \cap {"E"} \subseteq lv.old
    BY DEF RvRestores
  <2>2. "T" \in lv.old => Above("T") \subseteq lv.old
    BY DEF RvRestores, Above
  <2>3. RvEnabledIn(lv) = (IF "S" \in lv.old THEN RvUsed \cap {"E"} ELSE {})
                          \cup (IF "T" \in lv.old THEN Above("T") ELSE {})
    BY <1>3 DEF RvEnabledIn
  <2> QED
    BY <2>1, <2>2, <2>3
<1> QED
  BY <1>1, <1>2, <1>3

\* A step of the innermost handler keeps contexts and what lines are enabled, ...
LEMMA RvTopChanges ==
  ASSUME RvInv, rvLevels # <<>>, NEW lv \in RvLevelType, rvLevels' = SetTop(lv),
         lv.sp = RvTop.sp, lv.part = RvTop.part, lv.usesFp = RvTop.usesFp, lv.old = RvTop.old,
         RvRestores(lv), rvXie' = RvEnabledIn(lv), ~rvLocked,
         UNCHANGED <<rvCpu, rvGlobal, rvPending, rvNesting, rvMain, rvTaskSp, rvRunning,
                     rvActive, rvPc, rvReserved, rvFpUsers, rvLocked, rvWanted, rvDisturbed>>
  PROVE  /\ RvNested' /\ RvCurrent' /\ RvRequested' /\ RvLocking' /\ RvReserving' /\ RvMasked'
         /\ rvLevels' \in Seq(RvLevelType)
<1>0. RvTypes /\ RvNested /\ RvCurrent /\ RvMasked
  BY DEF RvInv
<1>1. /\ RvLevel \in Nat /\ RvLevel \in 1 .. RvLevel
      /\ rvLevels' \in Seq(RvLevelType) /\ RvLevel' = RvLevel
      /\ \A i \in 1 .. RvLevel : rvLevels'[i] = IF i = RvLevel THEN lv ELSE rvLevels[i]
      /\ RvTop' = lv /\ rvLevels' # <<>> /\ RvTop = rvLevels[RvLevel]
  BY <1>0, RvSetTopLevel, RvTopLevel
<1>2. RvSameSaved
  BY <1>1 DEF RvSameSaved
<1>3. RvNested' /\ RvCurrent' /\ RvBase' = RvBase
  BY <1>0, <1>2, RvKeepsSaved
<1>4. RvRequested' /\ RvLocking' /\ RvReserving'
  BY <1>1, <1>3 DEF RvInv, RvRequested, RvLocking, RvReserving
<1>5. RvMasked'
  <2>1. \A i \in 1 .. RvLevel :
          /\ RvRestores(rvLevels'[i]) /\ rvLevels'[i].old = rvLevels[i].old
    BY <1>0, <1>1 DEF RvMasked
  <2>2. \A i, j \in 1 .. RvLevel : j < i => rvLevels'[j] = rvLevels[j]
    BY <1>1
  <2>3. \A i \in 1 .. RvLevel :
          rvLevels'[i].old = IF i = 1 THEN RvUsed ELSE RvEnabledIn(rvLevels'[i - 1])
    <3> SUFFICES ASSUME NEW i \in 1 .. RvLevel
                 PROVE  rvLevels'[i].old = IF i = 1 THEN RvUsed ELSE RvEnabledIn(rvLevels'[i - 1])
      OBVIOUS
    <3>1. rvLevels[i].old = IF i = 1 THEN RvUsed ELSE RvEnabledIn(rvLevels[i - 1])
      BY <1>0 DEF RvMasked
    <3>2. i # 1 => i - 1 \in 1 .. RvLevel /\ i - 1 < i
      BY <1>1
    <3> QED
      BY <2>1, <2>2, <3>1, <3>2
  <2>4. \A i, j \in 1 .. RvLevel : j < i => rvLevels'[i].old \subseteq RvEnabledIn(rvLevels'[j])
    BY <1>0, <2>1, <2>2 DEF RvMasked
  <2> QED
    BY <1>1, <2>1, <2>3, <2>4 DEF RvMasked
<1> QED
  BY <1>1, <1>3, <1>4, <1>5

\* ... and the thresholds, in the steps that neither begin nor end the handler of an
\* external interrupt, and in those that do.
LEMMA RvTopThresholds ==
  ASSUME RvTypes, rvLevels # <<>>, NEW lv \in RvLevelType, rvLevels' = SetTop(lv),
         lv.old = RvTop.old, NEW th \in [0 .. RvLevel -> Nat], RvThresholds(th), NEW h \in Nat,
         plThreshold' = h,
         IF UseNesting /\ RvServes(lv)
         THEN lv.token.old = th[RvLevel - 1] /\ h = PlicPriority[lv.token.line]
              /\ th[RvLevel - 1] < h
         ELSE h = th[RvLevel - 1]
  PROVE  \E ti \in [0 .. RvLevel' -> Nat] : RvThresholds(ti)'
<1>1. /\ RvLevel \in Nat /\ RvLevel \in 1 .. RvLevel /\ RvLevel' = RvLevel
      /\ \A i \in 1 .. RvLevel : rvLevels'[i] = IF i = RvLevel THEN lv ELSE rvLevels[i]
      /\ RvTop = rvLevels[RvLevel]
  BY RvSetTopLevel, RvTopLevel
<1>2. PICK n \in Nat : n = RvLevel /\ n > 0
  BY <1>1
<1>3. PICK ti \in [0 .. n -> Nat] : ti = [th EXCEPT ![n] = h]
  BY <1>2
<1>4. ti[n] = h /\ \A i \in 0 .. n : i # n => ti[i] = th[i]
  BY <1>2, <1>3
<1>5. th[0] = 0 /\ \A i, j \in 0 .. n : i <= j => th[i] <= th[j]
  BY <1>2 DEF RvThresholds
<1>6. ti[0] = 0 /\ plThreshold' = ti[n]
  BY <1>2, <1>4, <1>5
<1>7. n - 1 \in 0 .. n /\ th[n - 1] <= h
  BY <1>2
<1>8. \A i, j \in 0 .. n : i <= j => ti[i] <= ti[j]
  <2> SUFFICES ASSUME NEW i \in 0 .. n, NEW j \in 0 .. n, i <= j PROVE ti[i] <= ti[j]
    OBVIOUS
  <2>1. CASE j # n
    <3>1. i # n
      BY <2>1
    <3> QED
      BY <1>4, <1>5, <2>1, <3>1
  <2>2. CASE j = n /\ i = n
    BY <1>4, <2>2
  <2>3. CASE j = n /\ i # n
    <3>1. i <= n - 1
      BY <1>2, <2>3
    <3>2. th[i] <= th[n - 1] /\ ti[i] = th[i] /\ ti[j] = h /\ th[i] \in Nat /\ th[n - 1] \in Nat
      BY <1>2, <1>4, <1>5, <1>7, <2>3, <3>1
    <3> QED
      BY <1>7, <3>2
  <2> QED
    BY <2>1, <2>2, <2>3
<1>9. \A i \in 1 .. n :
        /\ IF UseNesting /\ RvServes(rvLevels'[i])
           THEN /\ rvLevels'[i].token.old = ti[i - 1]
                /\ ti[i] = PlicPriority[rvLevels'[i].token.line]
                /\ ti[i - 1] < ti[i]
           ELSE ti[i] = ti[i - 1]
        /\ rvLevels'[i].old = {"E"} => \E l \in PlicLines : ti[i - 1] < PlicPriority[l]
  <2> SUFFICES ASSUME NEW i \in 1 .. n
               PROVE  /\ IF UseNesting /\ RvServes(rvLevels'[i])
                         THEN /\ rvLevels'[i].token.old = ti[i - 1]
                              /\ ti[i] = PlicPriority[rvLevels'[i].token.line]
                              /\ ti[i - 1] < ti[i]
                         ELSE ti[i] = ti[i - 1]
                      /\ rvLevels'[i].old = {"E"} => \E l \in PlicLines : ti[i - 1] < PlicPriority[l]
    OBVIOUS
  <2>1. i - 1 \in 0 .. n /\ i - 1 # n /\ ti[i - 1] = th[i - 1]
    BY <1>2, <1>4
  <2>2. rvLevels'[i].old = {"E"} => \E l \in PlicLines : ti[i - 1] < PlicPriority[l]
    <3>1. rvLevels'[i].old = rvLevels[i].old
      BY <1>1, <1>2
    <3>2. rvLevels[i].old = {"E"} => \E l \in PlicLines : th[i - 1] < PlicPriority[l]
      BY <1>2 DEF RvThresholds
    <3> QED
      BY <2>1, <3>1, <3>2
  <2>3. CASE i = n
    <3>1. rvLevels'[i] = lv /\ ti[i] = h /\ ti[i - 1] = th[RvLevel - 1]
      BY <1>1, <1>2, <1>4, <2>1, <2>3
    <3> QED
      BY <2>2, <3>1
  <2>4. CASE i # n
    <3>1. rvLevels'[i] = rvLevels[i] /\ ti[i] = th[i]
      BY <1>1, <1>2, <1>4, <2>4
    <3>2. IF UseNesting /\ RvServes(rvLevels[i])
          THEN /\ rvLevels[i].token.old = th[i - 1]
               /\ th[i] = PlicPriority[rvLevels[i].token.line]
               /\ th[i - 1] < th[i]
          ELSE th[i] = th[i - 1]
      BY <1>2 DEF RvThresholds
    <3> QED
      BY <2>1, <2>2, <3>1, <3>2
  <2> QED
    BY <2>3, <2>4
<1>10. RvThresholds(ti)'
  BY <1>1, <1>2, <1>6, <1>8, <1>9 DEF RvThresholds
<1> QED
  BY <1>1, <1>2, <1>10

\* ... and the lines in service.
LEMMA RvTopClaims ==
  ASSUME RvTypes, RvClaimed, rvLevels # <<>>, NEW lv \in RvLevelType, rvLevels' = SetTop(lv),
         lv.old = RvTop.old, plThreshold' \in Nat,
         \A th \in [0 .. RvLevel -> Nat] : RvThresholds(th) =>
            IF UseNesting /\ RvServes(lv)
            THEN lv.token.old = th[RvLevel - 1] /\ plThreshold' = PlicPriority[lv.token.line]
                 /\ th[RvLevel - 1] < plThreshold'
            ELSE plThreshold' = th[RvLevel - 1],
         RvServes(lv) => lv.token # <<>>,
         plInService' = IF ~UseNesting /\ RvServes(lv) THEN {lv.token.line} ELSE {},
         lv.phase = "E" /\ lv.run = "none" /\ "E" \in lv.xip => PlicAsserted'
  PROVE  RvClaimed'
<1>1. /\ RvLevel \in Nat /\ RvLevel \in 1 .. RvLevel /\ RvLevel' = RvLevel
      /\ \A i \in 1 .. RvLevel : rvLevels'[i] = IF i = RvLevel THEN lv ELSE rvLevels[i]
      /\ RvTop' = lv /\ rvLevels' # <<>>
  BY RvSetTopLevel, RvTopLevel
<1>2. \E ti \in [0 .. RvLevel' -> Nat] : RvThresholds(ti)'
  <2>1. PICK th \in [0 .. RvLevel -> Nat] : RvThresholds(th)
    BY DEF RvClaimed
  <2>2. PICK h \in Nat : h = plThreshold'
    OBVIOUS
  <2>3. IF UseNesting /\ RvServes(lv)
        THEN lv.token.old = th[RvLevel - 1] /\ h = PlicPriority[lv.token.line]
             /\ th[RvLevel - 1] < h
        ELSE h = th[RvLevel - 1]
    BY <2>1, <2>2
  <2> QED
    BY <2>1, <2>2, <2>3, RvTopThresholds
<1>3. \A i \in 1 .. RvLevel' : RvServes(rvLevels'[i]) => rvLevels'[i].token # <<>>
  BY <1>1 DEF RvClaimed
<1> QED
  BY <1>1, <1>2, <1>3 DEF RvClaimed

\* A step that begins or ends no handler of an external interrupt.
LEMMA RvTopClaimsSame ==
  ASSUME RvTypes, RvClaimed, rvLevels # <<>>, NEW lv \in RvLevelType, rvLevels' = SetTop(lv),
         lv.old = RvTop.old, UNCHANGED plVars, ~RvServes(RvTop), ~RvServes(lv),
         lv.phase = "E" /\ lv.run = "none" /\ "E" \in lv.xip => PlicAsserted
  PROVE  RvClaimed'
<1>1. RvLevel \in 1 .. RvLevel /\ RvTop = rvLevels[RvLevel]
  BY RvTopLevel
<1>2. /\ plThreshold' = plThreshold /\ plInService' = plInService /\ plPending' = plPending
      /\ plEnabled' = plEnabled /\ plThreshold \in Nat
  BY DEF plVars, RvTypes
<1>3. \A th \in [0 .. RvLevel -> Nat] : RvThresholds(th) => plThreshold' = th[RvLevel - 1]
  BY <1>1, <1>2 DEF RvThresholds
<1>4. plInService' = {}
  BY <1>2 DEF RvClaimed
<1>5. PlicAsserted' = PlicAsserted
  BY <1>2 DEF PlicAsserted
<1> QED
  BY <1>2, <1>3, <1>4, <1>5, RvTopClaims

\* The innermost level between two handlers.
LEMMA RvLoopIs ==
  ASSUME RvInv, NEW l, InLoop(l)
  PROVE  /\ rvMain /\ rvLevels # <<>> /\ RvTop.phase = l /\ RvTop.run = "none" /\ ~rvLocked
         /\ rvXie = RvEnabledIn(RvTop) /\ RvRestores(RvTop) /\ RvTop \in RvLevelType
         /\ ~RvServes(RvTop)
<1>1. rvMain /\ RvTop.phase = l /\ RvTop.run = "none" /\ rvLevels # <<>>
  BY RvThreadIs DEF InLoop
<1>2. RvLevel \in 1 .. RvLevel /\ RvTop = rvLevels[RvLevel] /\ RvTop \in RvLevelType
  BY <1>1, RvTopLevel DEF RvInv
<1> QED
  BY <1>1, <1>2 DEF RvInv, RvLocking, RvMasked, RvServes

\* The handler of the software or timer line is called, ...
LEMMA RvCallLocalKeeps ==
  ASSUME RvInv, NEW l \in {"S", "T"}, RvCallLocal(l)
  PROVE  RvInv'
<1>0. /\ UNCHANGED <<rvCpu, rvXie, rvGlobal, rvPending, rvNesting, rvMain, rvTaskSp, rvRunning,
                     rvActive, rvPc, rvReserved, rvFpUsers, rvLocked, rvWanted, rvDisturbed, plVars>>
      /\ InLoop(l) /\ HasWork(l) /\ rvXip' = rvXip \ {l}
      /\ rvLevels' = SetTop([RvTop EXCEPT !.run = "body"]) /\ RvTypes
  BY DEF RvCallLocal, RvInv
<1>1. /\ rvMain /\ rvLevels # <<>> /\ RvTop.phase = l /\ RvTop.run = "none" /\ ~rvLocked
      /\ rvXie = RvEnabledIn(RvTop) /\ RvRestores(RvTop) /\ RvTop \in RvLevelType
      /\ ~RvServes(RvTop)
  BY <1>0, RvLoopIs
<1>2. PICK lv \in RvLevelType :
         /\ lv = [RvTop EXCEPT !.run = "body"] /\ lv.run = "body"
         /\ lv.sp = RvTop.sp /\ lv.part = RvTop.part /\ lv.old = RvTop.old /\ lv.pend = RvTop.pend
         /\ lv.phase = RvTop.phase /\ lv.token = RvTop.token /\ lv.usesFp = RvTop.usesFp
         /\ lv.xip = RvTop.xip
  <2>1. PICK lv : lv = [RvTop EXCEPT !.run = "body"]
    OBVIOUS
  <2>2. /\ lv \in RvLevelType /\ lv.run = "body"
        /\ lv.sp = RvTop.sp /\ lv.part = RvTop.part /\ lv.old = RvTop.old /\ lv.pend = RvTop.pend
        /\ lv.phase = RvTop.phase /\ lv.token = RvTop.token /\ lv.usesFp = RvTop.usesFp
        /\ lv.xip = RvTop.xip
    BY <1>1, <2>1 DEF RvLevelType
  <2> QED
    BY <2>1, <2>2
<1>3. RvEnabledIn(lv) = RvEnabledIn(RvTop)
  BY <1>1, <1>2 DEF RvEnabledIn
<1>4. RvRestores(lv)
  BY <1>0, <1>1, <1>2, <1>3 DEF RvRestores, HasWork
<1>5. /\ RvNested' /\ RvCurrent' /\ RvRequested' /\ RvLocking' /\ RvReserving' /\ RvMasked'
      /\ rvLevels' \in Seq(RvLevelType)
  <2>1. rvLevels' = SetTop(lv) /\ rvXie' = RvEnabledIn(lv)
    BY <1>0, <1>1, <1>2, <1>3
  <2> QED
    BY <1>0, <1>1, <1>2, <1>4, <2>1, RvTopChanges
<1>6. RvClaimed'
  <2>1. rvLevels' = SetTop(lv) /\ ~RvServes(lv) /\ lv.phase # "E"
    BY <1>0, <1>1, <1>2 DEF RvServes
  <2> QED
    BY <1>0, <1>1, <1>2, <2>1, RvTopClaimsSame DEF RvInv
<1>7. RvTypes'
  BY <1>0, <1>5 DEF RvTypes, plVars
<1> QED
  BY <1>5, <1>6, <1>7 DEF RvInv

\* ... a loop ends, ...
LEMMA RvNextLoopKeeps ==
  ASSUME RvInv, NEW l \in {"E", "S", "T"}, RvNextLoop(l)
  PROVE  RvInv'
<1> DEFINE pend == IF l \in RvUsed \cap RvTop.old THEN {l} ELSE RvTop.pend
<1>0. /\ UNCHANGED <<rvCpu, rvXip, rvGlobal, rvPending, rvNesting, rvMain, rvTaskSp, rvRunning,
                     rvActive, rvPc, rvReserved, rvFpUsers, rvLocked, rvWanted, rvDisturbed, plVars>>
      /\ InLoop(l) /\ RvTypes
      /\ rvXie' = IF NextLine(l) \in RvUsed \cap RvTop.old THEN rvXie \cup Above(NextLine(l))
                  ELSE rvXie
      /\ rvLevels' = SetTop([RvTop EXCEPT !.phase = NextLine(l), !.pend = pend])
  BY DEF RvNextLoop, RvInv
<1>1. /\ rvMain /\ rvLevels # <<>> /\ RvTop.phase = l /\ RvTop.run = "none" /\ ~rvLocked
      /\ rvXie = RvEnabledIn(RvTop) /\ RvRestores(RvTop) /\ RvTop \in RvLevelType
      /\ ~RvServes(RvTop) /\ RvTop.old \subseteq RvUsed
  <2>1. RvTop \in RvLevelType
    BY <1>0, RvLoopIs
  <2>2. RvTop.old \subseteq RvUsed
    BY <2>1 DEF RvLevelType
  <2> QED
    BY <1>0, <2>2, RvLoopIs
<1>2. PICK lv \in RvLevelType :
         /\ lv = [RvTop EXCEPT !.phase = NextLine(l), !.pend = pend]
         /\ lv.phase = NextLine(l) /\ lv.pend = pend /\ lv.run = RvTop.run
         /\ lv.sp = RvTop.sp /\ lv.part = RvTop.part /\ lv.old = RvTop.old
         /\ lv.token = RvTop.token /\ lv.usesFp = RvTop.usesFp
  <2>1. PICK lv : lv = [RvTop EXCEPT !.phase = NextLine(l), !.pend = pend]
    OBVIOUS
  <2>2. NextLine(l) \in {"E", "S", "T", "end"}
    BY DEF NextLine
  <2>3. pend \subseteq RvUsed
    BY <1>1 DEF RvLevelType
  <2>4. /\ lv \in RvLevelType
        /\ lv.phase = NextLine(l) /\ lv.pend = pend /\ lv.run = RvTop.run
        /\ lv.sp = RvTop.sp /\ lv.part = RvTop.part /\ lv.old = RvTop.old
        /\ lv.token = RvTop.token /\ lv.usesFp = RvTop.usesFp
    <3> HIDE DEF pend
    <3> QED
      BY <1>1, <2>1, <2>2, <2>3 DEF RvLevelType
  <2> QED
    BY <2>1, <2>4
<1>3. rvXie' = RvEnabledIn(lv)
  <2>1. CASE l = "E"
    BY <1>0, <1>1, <1>2, <2>1 DEF RvEnabledIn, NextLine, Above
  <2>2. CASE l = "S"
    BY <1>0, <1>1, <1>2, <2>2 DEF RvEnabledIn, NextLine, Above
  <2>3. CASE l = "T"
    BY <1>0, <1>1, <1>2, <2>3, RvAssumption DEF RvEnabledIn, NextLine
  <2> QED
    BY <2>1, <2>2, <2>3
<1>4. RvRestores(lv)
  <2>0. /\ lv.old # {} /\ ("T" \in lv.old => lv.old = RvUsed)
        /\ ("S" \in lv.old => RvUsed \cap {"E"} \subseteq lv.old) /\ lv.run = "none"
    BY <1>1, <1>2 DEF RvRestores
  <2>1. CASE l = "E"
    <3>1. lv.phase = "S" /\ lv.pend = lv.old \cap {"E"}
      BY <1>1, <1>2, <2>1 DEF RvRestores, NextLine
    <3> QED
      BY <2>0, <3>1 DEF RvRestores
  <2>2. CASE l = "S"
    <3>1. lv.phase = "T" /\ lv.pend = IF "S" \in lv.old THEN {"S"} ELSE lv.old \cap {"E"}
      BY <1>1, <1>2, <2>2 DEF RvRestores, NextLine
    <3> QED
      BY <2>0, <3>1 DEF RvRestores
  <2>3. CASE l = "T"
    <3>1. lv.phase = "end"
          /\ lv.pend = IF "T" \in lv.old THEN {"T"}
                       ELSE IF "S" \in lv.old THEN {"S"} ELSE lv.old \cap {"E"}
      BY <1>1, <1>2, <2>3 DEF RvRestores, NextLine
    <3>2. lv.old \subseteq {"E", "S", "T"} /\ lv.old \subseteq RvUsed
      BY <1>1, <1>2, RvAssumption
    <3>3. RvEnabledIn(lv) = (IF "S" \in lv.old THEN RvUsed \cap {"E"} ELSE {})
                            \cup (IF "T" \in lv.old THEN Above("T") ELSE {})
      BY <3>1 DEF RvEnabledIn
    <3>4. RvEnabledIn(lv) \cup lv.pend = lv.old
      <4>1. CASE "T" \in lv.old
        BY <2>0, <3>1, <3>2, <3>3, <4>1 DEF Above
      <4>2. CASE "T" \notin lv.old
        BY <2>0, <3>1, <3>2, <3>3, <4>2
      <4> QED
        BY <4>1, <4>2
    <3> QED
      BY <2>0, <3>1, <3>4 DEF RvRestores
  <2> QED
    BY <2>1, <2>2, <2>3
<1>5. /\ RvNested' /\ RvCurrent' /\ RvRequested' /\ RvLocking' /\ RvReserving' /\ RvMasked'
      /\ rvLevels' \in Seq(RvLevelType)
  <2>1. rvLevels' = SetTop(lv)
    BY <1>0, <1>2
  <2> HIDE DEF pend
  <2> QED
    BY <1>0, <1>1, <1>2, <1>3, <1>4, <2>1, RvTopChanges
<1>6. RvClaimed'
  <2>1. rvLevels' = SetTop(lv) /\ ~RvServes(lv) /\ lv.phase # "E"
    BY <1>0, <1>1, <1>2 DEF RvServes, NextLine
  <2> HIDE DEF pend
  <2> QED
    BY <1>0, <1>1, <1>2, <2>1, RvTopClaimsSame DEF RvInv
<1>7. RvTypes'
  <2>1. rvXie' \subseteq RvUsed
    <3>1. rvXie \subseteq RvUsed
      BY <1>0 DEF RvTypes
    <3>2. lv.old \subseteq RvUsed
      BY <1>1, <1>2
    <3>3. RvEnabledIn(lv) \subseteq lv.old
      BY <1>4, RvEnabledWasOld
    <3> QED
      BY <1>3, <3>2, <3>3
  <2> HIDE DEF pend
  <2> QED
    BY <1>0, <1>5, <2>1 DEF RvTypes, plVars
<1> QED
  BY <1>5, <1>6, <1>7 DEF RvInv

\* The pending lines, which the code reads once per iteration.
LEMMA RvXipIs ==
  ASSUME RvTypes
  PROVE  /\ Xip \subseteq {"E", "S", "T"} /\ ("E" \in Xip <=> PlicAsserted)
BY DEF Xip, RvTypes

\* The line that is claimed is above the threshold.
LEMMA RvClaimableIs ==
  ASSUME RvTypes, PlicAsserted, NEW l \in Claimable
  PROVE  l \in PlicLines /\ PlicPriority[l] \in Nat /\ plThreshold < PlicPriority[l]
<1>1. l \in plPending \cap plEnabled
      /\ \A m \in plPending \cap plEnabled : PlicPriority[m] <= PlicPriority[l]
  BY DEF Claimable
<1>2. PICK m \in plPending \cap plEnabled : PlicPriority[m] > plThreshold
  BY DEF PlicAsserted
<1>3. l \in PlicLines /\ m \in PlicLines /\ plThreshold \in Nat
  BY <1>1, <1>2 DEF RvTypes
<1>4. PlicPriority[l] \in Nat /\ PlicPriority[m] \in Nat
  BY <1>3, PlicAssumption
<1> QED
  BY <1>1, <1>2, <1>3, <1>4

\* A line of the PLIC is claimed and its handler called, ...
LEMMA RvCallExternalKeeps ==
  ASSUME RvInv, RvCallExternal
  PROVE  RvInv'
<1>0. /\ UNCHANGED <<rvCpu, rvXip, rvGlobal, rvPending, rvNesting, rvMain, rvTaskSp, rvRunning,
                     rvActive, rvPc, rvReserved, rvFpUsers, rvLocked, rvWanted, rvDisturbed>>
      /\ InLoop("E") /\ HasWork("E") /\ RvTypes /\ RvClaimed
  BY DEF RvCallExternal, RvInv
<1>1. /\ rvMain /\ rvLevels # <<>> /\ RvTop.phase = "E" /\ RvTop.run = "none" /\ ~rvLocked
      /\ rvXie = {} /\ RvRestores(RvTop) /\ RvTop \in RvLevelType
      /\ ~RvServes(RvTop) /\ RvTop.pend = {} /\ "E" \in RvTop.old
  BY <1>0, RvLoopIs DEF RvEnabledIn, RvRestores, HasWork
<1>2. PlicAsserted /\ plInService = {}
  BY <1>0, <1>1 DEF RvClaimed, HasWork
<1>3. RvLevel \in 1 .. RvLevel /\ RvLevel \in Nat /\ RvTop = rvLevels[RvLevel]
  BY <1>0, <1>1, RvTopLevel
<1>4. CASE /\ Claimable = {} /\ rvLevels' = SetTop([RvTop EXCEPT !.xip = Xip])
           /\ UNCHANGED <<rvXie, plVars>>
  <2>1. PICK x \in SUBSET {"E", "S", "T"} : x = Xip
    BY <1>0, RvXipIs
  <2>2. PICK lv \in RvLevelType :
           /\ lv = [RvTop EXCEPT !.xip = x] /\ lv.xip = x
           /\ lv.phase = "E" /\ lv.pend = {} /\ lv.run = "none"
           /\ lv.sp = RvTop.sp /\ lv.part = RvTop.part /\ lv.old = RvTop.old
           /\ lv.token = RvTop.token /\ lv.usesFp = RvTop.usesFp
    <3>1. PICK lv : lv = [RvTop EXCEPT !.xip = x]
      OBVIOUS
    <3>2. /\ lv \in RvLevelType /\ lv.xip = x
          /\ lv.phase = "E" /\ lv.pend = {} /\ lv.run = "none"
          /\ lv.sp = RvTop.sp /\ lv.part = RvTop.part /\ lv.old = RvTop.old
          /\ lv.token = RvTop.token /\ lv.usesFp = RvTop.usesFp
      BY <1>1, <3>1 DEF RvLevelType
    <3> QED
      BY <3>1, <3>2
  <2>3. rvLevels' = SetTop(lv) /\ rvXie' = rvXie /\ UNCHANGED plVars
    BY <1>4, <2>1, <2>2
  <2>4. RvEnabledIn(lv) = {} /\ RvRestores(lv) /\ ~RvServes(lv)
    BY <1>1, <2>2 DEF RvEnabledIn, RvRestores, RvServes
  <2>5. /\ RvNested' /\ RvCurrent' /\ RvRequested' /\ RvLocking' /\ RvReserving' /\ RvMasked'
        /\ rvLevels' \in Seq(RvLevelType)
    BY <1>0, <1>1, <2>2, <2>3, <2>4, RvTopChanges
  <2>6. RvClaimed'
    BY <1>0, <1>1, <1>2, <2>2, <2>3, <2>4, RvTopClaimsSame
  <2>7. RvTypes'
    BY <1>0, <2>3, <2>5 DEF RvTypes, plVars
  <2> QED
    BY <2>5, <2>6, <2>7 DEF RvInv
<1>5. ASSUME NEW l \in Claimable, PlicClaim(l),
             rvXie' = IF UseNesting THEN rvXie \cup {"E"} ELSE rvXie,
             rvLevels' = SetTop([RvTop EXCEPT !.run = "body", !.token = PlicToken(l)])
      PROVE  RvInv'
  <2>1. l \in PlicLines /\ PlicPriority[l] \in Nat /\ plThreshold < PlicPriority[l]
        /\ plThreshold \in Nat
    BY <1>0, <1>2, <1>5, RvClaimableIs DEF RvTypes
  <2>2. PICK tk : tk = PlicToken(l)
    OBVIOUS
  <2>3. tk \in {<<>>} \cup [line : PlicLines, old : Nat] /\ tk.line = l /\ tk.old = plThreshold
        /\ tk # <<>>
    <3>1. tk = [line |-> l, old |-> plThreshold]
      BY <2>2 DEF PlicToken
    <3>2. DOMAIN tk = {"line", "old"} /\ DOMAIN <<>> = {}
      BY <3>1
    <3>3. tk # <<>>
      BY <3>2
    <3> QED
      BY <2>1, <3>1, <3>3
  <2>4. PICK lv \in RvLevelType :
           /\ lv = [RvTop EXCEPT !.run = "body", !.token = tk] /\ lv.token = tk
           /\ lv.phase = "E" /\ lv.pend = {} /\ lv.run = "body"
           /\ lv.sp = RvTop.sp /\ lv.part = RvTop.part /\ lv.old = RvTop.old
           /\ lv.usesFp = RvTop.usesFp
    <3>1. PICK lv : lv = [RvTop EXCEPT !.run = "body", !.token = tk]
      OBVIOUS
    <3>2. /\ lv \in RvLevelType /\ lv.token = tk
          /\ lv.phase = "E" /\ lv.pend = {} /\ lv.run = "body"
          /\ lv.sp = RvTop.sp /\ lv.part = RvTop.part /\ lv.old = RvTop.old
          /\ lv.usesFp = RvTop.usesFp
      BY <1>1, <2>3, <3>1 DEF RvLevelType
    <3> QED
      BY <3>1, <3>2
  <2>5. rvLevels' = SetTop(lv) /\ rvXie' = RvEnabledIn(lv) /\ RvServes(lv)
    BY <1>1, <1>5, <2>2, <2>4 DEF RvEnabledIn, RvServes
  <2>6. RvRestores(lv)
    BY <1>1, <2>4 DEF RvRestores
  <2>7. /\ RvNested' /\ RvCurrent' /\ RvRequested' /\ RvLocking' /\ RvReserving' /\ RvMasked'
        /\ rvLevels' \in Seq(RvLevelType)
    BY <1>0, <1>1, <2>4, <2>5, <2>6, RvTopChanges
  <2>8. /\ plPending' = plPending \ {l} /\ plEnabled' = plEnabled
        /\ IF UseNesting THEN plThreshold' = PlicPriority[l] /\ plInService' = plInService
                         ELSE plInService' = plInService \cup {l} /\ plThreshold' = plThreshold
        /\ plThreshold' \in Nat
    BY <1>5, <2>1, PlicAssumption DEF PlicClaim
  <2>9. RvClaimed'
    <3>1. ASSUME NEW th \in [0 .. RvLevel -> Nat], RvThresholds(th)
          PROVE  IF UseNesting /\ RvServes(lv)
                 THEN lv.token.old = th[RvLevel - 1] /\ plThreshold' = PlicPriority[lv.token.line]
                      /\ th[RvLevel - 1] < plThreshold'
                 ELSE plThreshold' = th[RvLevel - 1]
      <4>1. plThreshold = th[RvLevel] /\ th[RvLevel] = th[RvLevel - 1]
        BY <1>1, <1>3, <3>1 DEF RvThresholds
      <4> QED
        BY <2>1, <2>3, <2>4, <2>5, <2>8, <4>1
    <3>2. plInService' = IF ~UseNesting /\ RvServes(lv) THEN {lv.token.line} ELSE {}
      BY <1>2, <2>3, <2>4, <2>5, <2>8
    <3>3. lv.token # <<>> /\ ~(lv.phase = "E" /\ lv.run = "none" /\ "E" \in lv.xip)
      BY <2>3, <2>4
    <3>4. lv.old = RvTop.old /\ rvLevels' = SetTop(lv) /\ plThreshold' \in Nat
      BY <2>4, <2>5, <2>8
    <3> QED
      BY <1>0, <1>1, <3>1, <3>2, <3>3, <3>4, RvTopClaims
  <2>10. RvTypes'
    <3>1. rvXie' \subseteq RvUsed
      <4>1. RvEnabledIn(lv) \subseteq lv.old /\ lv.old \subseteq RvUsed
        BY <2>6, RvEnabledWasOld DEF RvLevelType
      <4> QED
        BY <2>5, <4>1
    <3>2. plPending' \subseteq PlicLines /\ plInService' \subseteq PlicLines
          /\ plEnabled' \subseteq PlicLines
      BY <1>0, <1>2, <2>1, <2>8 DEF RvTypes
    <3> QED
      BY <1>0, <2>7, <2>8, <3>1, <3>2 DEF RvTypes
  <2> QED
    BY <2>7, <2>9, <2>10 DEF RvInv
<1>6. \/ \E l \in Claimable :
           /\ PlicClaim(l)
           /\ rvXie' = IF UseNesting THEN rvXie \cup {"E"} ELSE rvXie
           /\ rvLevels' = SetTop([RvTop EXCEPT !.run = "body", !.token = PlicToken(l)])
      \/ /\ Claimable = {} /\ rvLevels' = SetTop([RvTop EXCEPT !.xip = Xip])
         /\ UNCHANGED <<rvXie, plVars>>
  BY DEF RvCallExternal
<1> QED
  BY <1>4, <1>5, <1>6

\* ... or a handler returns, and the line is completed.
LEMMA RvHandlerReturnsKeeps ==
  ASSUME RvInv, RvHandlerReturns
  PROVE  RvInv'
<1> DEFINE seen == rvXip \cup (IF PlicAsserted' THEN {"E"} ELSE {})
<1>0. /\ UNCHANGED <<rvCpu, rvXip, rvGlobal, rvPending, rvNesting, rvMain, rvTaskSp, rvRunning,
                     rvActive, rvPc, rvReserved, rvFpUsers, rvLocked, rvWanted, rvDisturbed>>
      /\ rvLevels' = SetTop([RvTop EXCEPT !.run = "none", !.token = <<>>, !.xip = seen])
      /\ RvInBody /\ ~rvLocked /\ RvTypes /\ RvMasked /\ RvClaimed
  BY DEF RvHandlerReturns, RvInv
<1>1. /\ rvLevels # <<>> /\ RvTop.run = "body" /\ rvMain
  BY <1>0, RvThreadIs DEF RvInBody
<1>2. /\ RvLevel \in 1 .. RvLevel /\ RvLevel \in Nat /\ RvTop = rvLevels[RvLevel]
      /\ RvTop \in RvLevelType /\ rvXie = RvEnabledIn(RvTop) /\ RvRestores(RvTop)
  BY <1>0, <1>1, RvTopLevel DEF RvMasked
<1>3. PICK x \in SUBSET {"E", "S", "T"} : x = seen /\ ("E" \in x => PlicAsserted')
  <2>1. rvXip \subseteq {"S", "T"}
    BY <1>0 DEF RvTypes
  <2>2. CASE PlicAsserted'
    <3>1. seen = rvXip \cup {"E"}
      BY <2>2
    <3> HIDE DEF seen
    <3> QED
      BY <2>1, <2>2, <3>1
  <2>3. CASE ~PlicAsserted'
    <3>1. seen = rvXip
      BY <2>3
    <3> HIDE DEF seen
    <3> QED
      BY <2>1, <2>3, <3>1
  <2> QED
    BY <2>2, <2>3
<1>4. PICK lv \in RvLevelType :
         /\ lv = [RvTop EXCEPT !.run = "none", !.token = <<>>, !.xip = x] /\ lv.xip = x
         /\ lv.phase = RvTop.phase /\ lv.pend = RvTop.pend /\ lv.run = "none"
         /\ lv.sp = RvTop.sp /\ lv.part = RvTop.part /\ lv.old = RvTop.old
         /\ lv.usesFp = RvTop.usesFp
  <2>1. PICK lv : lv = [RvTop EXCEPT !.run = "none", !.token = <<>>, !.xip = x]
    OBVIOUS
  <2>2. /\ lv \in RvLevelType /\ lv.xip = x
        /\ lv.phase = RvTop.phase /\ lv.pend = RvTop.pend /\ lv.run = "none"
        /\ lv.sp = RvTop.sp /\ lv.part = RvTop.part /\ lv.old = RvTop.old
        /\ lv.usesFp = RvTop.usesFp
    BY <1>2, <2>1 DEF RvLevelType
  <2> QED
    BY <2>1, <2>2
<1>5. rvLevels' = SetTop(lv) /\ ~RvServes(lv)
  BY <1>0, <1>3, <1>4 DEF RvServes
<1> HIDE DEF seen
<1>6. /\ rvXie' = RvEnabledIn(lv) /\ RvRestores(lv) /\ rvXie' \subseteq RvUsed
      /\ RvTop.phase # "E" => UNCHANGED plVars
  <2>1. CASE RvTop.phase = "E"
    <3>1. rvXie' = IF UseNesting THEN rvXie \ {"E"} ELSE rvXie
      BY <2>1 DEF RvHandlerReturns
    <3>2. rvXie = IF UseNesting THEN {"E"} ELSE {}
      BY <1>1, <1>2, <2>1 DEF RvEnabledIn
    <3>3. rvXie' = {} /\ RvEnabledIn(lv) = {}
      BY <1>4, <2>1, <3>1, <3>2 DEF RvEnabledIn
    <3>4. RvRestores(lv)
      BY <1>2, <1>4, <2>1 DEF RvRestores
    <3> QED
      BY <2>1, <3>3, <3>4
  <2>2. CASE RvTop.phase # "E"
    <3>1. rvXie' = rvXie /\ UNCHANGED plVars
      BY <2>2 DEF RvHandlerReturns
    <3>2. RvEnabledIn(lv) = RvEnabledIn(RvTop)
      BY <1>4, <2>2 DEF RvEnabledIn
    <3>3. RvRestores(lv)
      BY <1>2, <1>4, <2>2, <3>2 DEF RvRestores
    <3>4. rvXie \subseteq RvUsed
      BY <1>0 DEF RvTypes
    <3> QED
      BY <1>2, <2>2, <3>1, <3>2, <3>3, <3>4
  <2> QED
    BY <2>1, <2>2
<1>7. /\ RvNested' /\ RvCurrent' /\ RvRequested' /\ RvLocking' /\ RvReserving' /\ RvMasked'
      /\ rvLevels' \in Seq(RvLevelType)
  BY <1>0, <1>1, <1>4, <1>5, <1>6, RvTopChanges
<1>8. /\ RvClaimed' /\ plThreshold' \in Nat
      /\ plPending' \subseteq PlicLines /\ plInService' \subseteq PlicLines
      /\ plEnabled' \subseteq PlicLines
  <2>0. /\ plPending \subseteq PlicLines /\ plInService \subseteq PlicLines
        /\ plEnabled \subseteq PlicLines /\ plThreshold \in Nat
    BY <1>0 DEF RvTypes
  <2>1. CASE RvTop.phase # "E"
    <3>1. UNCHANGED plVars /\ ~RvServes(RvTop) /\ lv.phase # "E"
      BY <1>4, <1>6, <2>1 DEF RvServes
    <3>2. RvClaimed'
      BY <1>0, <1>1, <1>4, <1>5, <3>1, RvTopClaimsSame
    <3> QED
      BY <2>0, <3>1, <3>2 DEF plVars
  <2>2. CASE RvTop.phase = "E"
    <3>1. /\ IF UseNesting THEN plThreshold' = RvTop.token.old /\ plInService' = plInService
             ELSE plInService' = plInService \ {RvTop.token.line} /\ plThreshold' = plThreshold
          /\ plPending' = plPending /\ plEnabled' = plEnabled
      BY <2>2 DEF RvHandlerReturns, PlicEnd
    <3>2. RvServes(RvTop) /\ RvTop.token # <<>>
      BY <1>0, <1>1, <1>2, <2>2 DEF RvServes, RvClaimed
    <3>3. RvTop.token.old \in Nat
      BY <1>2, <3>2 DEF RvLevelType
    <3>4. plInService = IF ~UseNesting THEN {RvTop.token.line} ELSE {}
      BY <1>0, <1>1, <3>2 DEF RvClaimed
    <3>5. plInService' = {} /\ plThreshold' \in Nat
      BY <2>0, <3>1, <3>3, <3>4, PlicAssumption
    <3>6. ASSUME NEW th \in [0 .. RvLevel -> Nat], RvThresholds(th)
          PROVE  plThreshold' = th[RvLevel - 1]
      BY <1>2, <3>1, <3>2, <3>6 DEF RvThresholds
    <3>7. RvClaimed'
      BY <1>0, <1>1, <1>3, <1>4, <1>5, <3>5, <3>6, RvTopClaims
    <3> QED
      BY <2>0, <3>1, <3>5, <3>7
  <2> QED
    BY <2>1, <2>2
<1>9. RvTypes'
  BY <1>0, <1>6, <1>7, <1>8 DEF RvTypes
<1> QED
  BY <1>7, <1>8, <1>9 DEF RvInv

-----------------------------------------------------------------------------
(* Taking an interrupt *)

\* A level that is interrupted leaves only lines enabled that are above its own, and with
\* the software line the external one.
LEMMA RvEnabledAbove ==
  ASSUME NEW lv, RvRestores(lv)
  PROVE  /\ "T" \notin RvEnabledIn(lv)
         /\ "S" \in RvEnabledIn(lv) => RvUsed \cap {"E"} \subseteq RvEnabledIn(lv)
<1>1. CASE lv.phase = "E"
  BY <1>1 DEF RvEnabledIn
<1>2. CASE lv.phase = "S"
  BY <1>2 DEF RvEnabledIn
<1>3. CASE lv.phase # "E" /\ lv.phase # "S"
  <2>1. RvEnabledIn(lv) = (IF "S" \in lv.old THEN RvUsed \cap {"E"} ELSE {})
                          \cup (IF "T" \in lv.old THEN Above("T") ELSE {})
    BY <1>3 DEF RvEnabledIn
  <2>2. Above("T") = IF "S" \in RvUsed THEN {"S"} ELSE RvUsed \cap {"E"}
    BY DEF Above
  <2>3. "T" \in lv.old => lv.old = RvUsed
    BY DEF RvRestores
  <2> QED
    BY <2>1, <2>2, <2>3
<1> QED
  BY <1>1, <1>2, <1>3

\* The new level begins with the threshold of the one it interrupts.
LEMMA RvPushedThresholds ==
  ASSUME RvTypes, NEW lv \in RvLevelType, rvLevels' = Append(rvLevels, lv), ~RvServes(lv),
         lv.old = {"E"} => \E l \in PlicLines : plThreshold < PlicPriority[l],
         NEW th \in [0 .. RvLevel -> Nat], RvThresholds(th), plThreshold' = plThreshold
  PROVE  \E ti \in [0 .. RvLevel' -> Nat] : RvThresholds(ti)'
<1>1. /\ RvLevel' = RvLevel + 1 /\ RvLevel \in Nat
      /\ \A i \in 1 .. RvLevel : rvLevels'[i] = rvLevels[i]
      /\ rvLevels'[RvLevel + 1] = lv
  BY RvPushLevel
<1>2. PICK n \in Nat : n = RvLevel
  BY <1>1
<1>3. PICK ti : ti = [i \in 0 .. n + 1 |-> IF i = n + 1 THEN th[n] ELSE th[i]]
  OBVIOUS
<1>4. /\ ti \in [0 .. n + 1 -> Nat] /\ ti[n + 1] = th[n] /\ ti[n] = th[n]
      /\ \A i \in 0 .. n : ti[i] = th[i]
  BY <1>2, <1>3
<1>5. /\ th[0] = 0 /\ plThreshold = th[n] /\ \A i, j \in 0 .. n : i <= j => th[i] <= th[j]
      /\ \A i \in 0 .. n : th[i] \in Nat
  BY <1>2 DEF RvThresholds
<1>6. ti[0] = 0 /\ plThreshold' = ti[n + 1]
  BY <1>2, <1>4, <1>5
<1>7. \A i, j \in 0 .. n + 1 : i <= j => ti[i] <= ti[j]
  <2> SUFFICES ASSUME NEW i \in 0 .. n + 1, NEW j \in 0 .. n + 1, i <= j PROVE ti[i] <= ti[j]
    OBVIOUS
  <2>1. CASE i = n + 1
    <3>1. i = j /\ ti[n + 1] \in Nat
      BY <1>2, <1>4, <2>1
    <3> QED
      BY <2>1, <3>1
  <2>2. CASE i # n + 1 /\ j = n + 1
    <3>1. i \in 0 .. n /\ n \in 0 .. n /\ i <= n
      BY <1>2, <2>2
    <3>2. ti[i] = th[i] /\ ti[j] = th[n] /\ th[i] <= th[n]
      BY <1>4, <1>5, <2>2, <3>1
    <3> QED
      BY <3>2
  <2>3. CASE i # n + 1 /\ j # n + 1
    <3>1. i \in 0 .. n /\ j \in 0 .. n
      BY <1>2, <2>3
    <3> QED
      BY <1>4, <1>5, <3>1
  <2> QED
    BY <2>1, <2>2, <2>3
<1>8. \A i \in 1 .. n + 1 :
        /\ IF UseNesting /\ RvServes(rvLevels'[i])
           THEN /\ rvLevels'[i].token.old = ti[i - 1]
                /\ ti[i] = PlicPriority[rvLevels'[i].token.line]
                /\ ti[i - 1] < ti[i]
           ELSE ti[i] = ti[i - 1]
        /\ rvLevels'[i].old = {"E"} => \E l \in PlicLines : ti[i - 1] < PlicPriority[l]
  <2> SUFFICES ASSUME NEW i \in 1 .. n + 1
               PROVE  /\ IF UseNesting /\ RvServes(rvLevels'[i])
                         THEN /\ rvLevels'[i].token.old = ti[i - 1]
                              /\ ti[i] = PlicPriority[rvLevels'[i].token.line]
                              /\ ti[i - 1] < ti[i]
                         ELSE ti[i] = ti[i - 1]
                      /\ rvLevels'[i].old = {"E"} => \E l \in PlicLines : ti[i - 1] < PlicPriority[l]
    OBVIOUS
  <2>1. CASE i = n + 1
    <3>1. i - 1 = n
      BY <2>1
    <3>2. rvLevels'[i] = lv
      BY <1>1, <1>2, <2>1
    <3>3. ti[i] = th[n] /\ ti[i - 1] = th[n]
      BY <1>4, <2>1, <3>1
    <3> QED
      BY <1>5, <3>2, <3>3
  <2>2. CASE i # n + 1
    <3>1. i \in 1 .. n /\ i - 1 \in 0 .. n /\ i \in 0 .. n
      BY <1>2, <2>2
    <3>2. rvLevels'[i] = rvLevels[i] /\ ti[i] = th[i] /\ ti[i - 1] = th[i - 1]
      BY <1>1, <1>2, <1>4, <3>1
    <3>3. /\ IF UseNesting /\ RvServes(rvLevels[i])
             THEN /\ rvLevels[i].token.old = th[i - 1]
                  /\ th[i] = PlicPriority[rvLevels[i].token.line]
                  /\ th[i - 1] < th[i]
             ELSE th[i] = th[i - 1]
          /\ rvLevels[i].old = {"E"} => \E l \in PlicLines : th[i - 1] < PlicPriority[l]
      BY <1>2, <3>1 DEF RvThresholds
    <3> QED
      BY <3>2, <3>3
  <2> QED
    BY <2>1, <2>2
<1>9. RvThresholds(ti)'
  BY <1>1, <1>2, <1>6, <1>7, <1>8 DEF RvThresholds
<1> QED
  BY <1>1, <1>2, <1>4, <1>9

\* Taking an interrupt, as far as the levels are concerned.
LEMMA RvTakeInterruptIs ==
  ASSUME RvInv, RvTakeInterrupt
  PROVE  /\ UNCHANGED <<rvXip, rvGlobal, rvPending, rvMain, rvTaskSp, rvRunning, rvActive, rvPc,
                        rvReserved, rvFpUsers, rvLocked, rvWanted, plVars>>
         /\ rvMain /\ rvGlobal /\ Xip \cap rvXie # {} /\ rvXie' = {} /\ rvXie \subseteq RvUsed
         /\ rvDisturbed' = (rvReserved # NoTask)
         /\ rvCpu' = EnterTrap.cpu /\ rvNesting' = RvLevel /\ RvLevel \in Nat
         /\ \E lv \in RvLevelType :
               /\ rvLevels' = Append(rvLevels, lv)
               /\ lv.sp = EnterTrap.level.sp /\ lv.part = EnterTrap.level.part
               /\ lv.old = rvXie /\ lv.pend = {} /\ lv.xip = Xip /\ lv.phase = "E"
               /\ lv.run = "none" /\ lv.usesFp = FALSE
<1> DEFINE new == [sp |-> EnterTrap.level.sp, part |-> EnterTrap.level.part,
                   old |-> rvXie \cap RvUsed, pend |-> {}, xip |-> Xip, phase |-> "E",
                   run |-> "none", token |-> <<>>, usesFp |-> FALSE]
<1>0. /\ UNCHANGED <<rvXip, rvGlobal, rvPending, rvMain, rvTaskSp, rvRunning, rvActive, rvPc,
                     rvReserved, rvFpUsers, rvLocked, rvWanted, plVars>>
      /\ rvMain /\ rvGlobal /\ Xip \cap rvXie # {} /\ rvXie' = rvXie \ RvUsed
      /\ rvDisturbed' = (rvReserved # NoTask)
      /\ rvCpu' = EnterTrap.cpu /\ rvNesting' = EnterTrap.nesting
      /\ rvLevels' = Append(IF EnterTrap.switch THEN <<>> ELSE rvLevels, new)
  BY DEF RvTakeInterrupt
<1>1. RvTypes /\ rvXie \subseteq RvUsed /\ rvXie \cap RvUsed = rvXie /\ rvXie \ RvUsed = {}
      /\ rvLevels \in Seq(RvLevelType) /\ RvLevel = Len(rvLevels)
  BY DEF RvInv, RvTypes, RvLevel
<1>2. RvLevel \in Nat /\ (rvLevels = <<>> <=> RvLevel = 0)
  BY <1>1, LenEmpty
<1>3. rvNesting = RvLevel - 1 /\ (rvCpu.sp.on = "zero" => rvLevels = <<>>)
  <2>1. rvLevels # <<>> => rvCpu.sp.on = "main"
    BY DEF RvInv, RvCurrent, MainStack
  <2> QED
    BY <1>0, <2>1 DEF RvInv, RvNested
<1>4. EnterTrap.nesting = RvLevel /\ (EnterTrap.switch => rvLevels = <<>>)
  <2>1. CASE rvCpu.sp.on = "zero"
    BY <1>1, <1>2, <1>3, <2>1, RvEnterTrapIs
  <2>2. CASE rvCpu.sp.on # "zero"
    <3>1. EnterTrap.nesting = rvNesting + 1 /\ (EnterTrap.switch = (rvNesting + 1 = 0))
      BY <1>1, <1>2, <2>2, RvEnterTrapIs
    <3>2. rvNesting + 1 = RvLevel
      BY <1>2, <1>3
    <3> QED
      BY <1>2, <3>1, <3>2
  <2> QED
    BY <2>1, <2>2
<1>5. PICK sp \in RvStacks, part \in BOOLEAN, x \in SUBSET {"E", "S", "T"}, old \in SUBSET RvUsed :
         /\ sp = EnterTrap.level.sp /\ part = EnterTrap.level.part /\ x = Xip
         /\ old = rvXie
  BY <1>1, <1>2, RvEnterTrapIs, RvXipIs
<1>6. PICK lv : lv = [sp |-> sp, part |-> part, old |-> old, pend |-> {}, xip |-> x,
                      phase |-> "E", run |-> "none", token |-> <<>>, usesFp |-> FALSE]
  OBVIOUS
<1>7. lv = new
  BY <1>1, <1>5, <1>6
<1>8. /\ lv \in RvLevelType /\ lv.sp = sp /\ lv.part = part /\ lv.old = old /\ lv.pend = {}
      /\ lv.xip = x /\ lv.phase = "E" /\ lv.run = "none" /\ lv.usesFp = FALSE
  BY <1>6 DEF RvLevelType
<1>9. rvLevels' = Append(rvLevels, lv)
  <2> HIDE DEF new
  <2> QED
    BY <1>0, <1>4, <1>7
<1> HIDE DEF new
<1>10. \E l2 \in RvLevelType :
               /\ rvLevels' = Append(rvLevels, l2)
               /\ l2.sp = EnterTrap.level.sp /\ l2.part = EnterTrap.level.part
               /\ l2.old = rvXie /\ l2.pend = {} /\ l2.xip = Xip /\ l2.phase = "E"
               /\ l2.run = "none" /\ l2.usesFp = FALSE
  BY <1>5, <1>8, <1>9
<1> QED
  BY <1>0, <1>1, <1>2, <1>4, <1>10

\* Taking an interrupt keeps the invariant.
LEMMA RvTakeInterruptKeeps ==
  ASSUME RvInv, RvTakeInterrupt
  PROVE  RvInv' /\ RvBase' = RvBase
<1>0. /\ UNCHANGED <<rvXip, rvGlobal, rvPending, rvMain, rvTaskSp, rvRunning, rvActive, rvPc,
                     rvReserved, rvFpUsers, rvLocked, rvWanted, plVars>>
      /\ rvMain /\ rvGlobal /\ Xip \cap rvXie # {} /\ rvXie' = {} /\ rvXie \subseteq RvUsed
      /\ rvDisturbed' = (rvReserved # NoTask)
      /\ rvCpu' = EnterTrap.cpu /\ rvNesting' = RvLevel /\ RvLevel \in Nat
  BY RvTakeInterruptIs
<1>1. PICK lv \in RvLevelType :
         /\ rvLevels' = Append(rvLevels, lv)
         /\ lv.sp = EnterTrap.level.sp /\ lv.part = EnterTrap.level.part
         /\ lv.old = rvXie /\ lv.pend = {} /\ lv.xip = Xip /\ lv.phase = "E"
         /\ lv.run = "none" /\ lv.usesFp = FALSE
  BY RvTakeInterruptIs
<1>2. RvTypes /\ RvNested /\ RvCurrent /\ RvMasked /\ RvClaimed /\ rvMain'
  BY <1>0 DEF RvInv
<1>3. PICK n \in Nat : n = RvLevel
  BY <1>0
<1>4. /\ rvLevels' \in Seq(RvLevelType) /\ RvLevel' = n + 1
      /\ \A i \in 1 .. n : rvLevels'[i] = rvLevels[i]
      /\ rvLevels'[n + 1] = lv /\ RvTop' = lv
      /\ rvLevels' # <<>> /\ (rvLevels = <<>> <=> n = 0)
  BY <1>1, <1>2, <1>3, RvPushLevel
<1>5. n > 0 => n \in 1 .. n /\ 1 \in 1 .. n /\ RvTop = rvLevels[n] /\ rvLevels # <<>>
  BY <1>3, <1>4 DEF RvTop
<1>6. /\ rvCpu' \in RvRegisters /\ rvCpu'.x = HandlerValue(n + 1) /\ rvCpu'.s = rvCpu.s
      /\ rvCpu'.fs = rvCpu.fs /\ rvCpu'.sp = MainStack /\ lv.sp.on = rvCpu.sp.on
  BY <1>0, <1>1, <1>2, <1>3, RvEnterTrapIs
<1>7. rvCpu.sp.on # "zero" =>
         /\ lv.part = rvCpu.fp
         /\ lv.sp.frames = RvFls(rvCpu.sp.frames, rvCpu.x, rvCpu.fp, rvCpu.f)
  BY <1>0, <1>1, <1>2, RvEnterTrapIs
<1>8. RvBase' = RvBase
  <2>1. CASE n = 0
    BY <1>4, <1>6, <2>1 DEF RvBase
  <2>2. CASE n # 0
    BY <1>4, <1>5, <2>2 DEF RvBase
  <2> QED
    BY <2>1, <2>2
<1>9. RvTypes'
  <2>1. rvXie' \subseteq RvUsed /\ rvNesting' \in Int /\ rvDisturbed' \in BOOLEAN
    BY <1>0
  <2> QED
    BY <1>0, <1>2, <1>4, <1>6, <2>1 DEF RvTypes, plVars
<1>10. RvNested'
  <2>1. rvNesting' = RvLevel' - 1
    BY <1>0, <1>3, <1>4
  <2>2. RvBase' \in rvActive' \cup {"zero"}
        /\ rvRunning' = IF RvBase' = "zero" THEN NoTask ELSE RvBase'
    BY <1>0, <1>2, <1>8 DEF RvNested
  <2>3. ASSUME RvBase # "zero"
        PROVE  /\ rvLevels'[1].part = (RvBase \in rvFpUsers)
               /\ rvLevels'[1].sp.frames = RvFls(RvStack(RvBase, rvPc[RvBase] = "yield"), RvBase,
                                                 rvLevels'[1].part, RvBase)
    <3>1. CASE n = 0
      <4>1. rvLevels'[1] = lv /\ rvLevels = <<>> /\ rvCpu.sp.on = RvBase
        BY <1>4, <3>1 DEF RvBase
      <4>2. /\ rvCpu.x = RvBase /\ rvCpu.fp = (RvBase \in rvFpUsers) /\ (rvCpu.fp => rvCpu.f = RvBase)
            /\ rvCpu.sp.frames = RvStack(RvBase, rvPc[RvBase] = "yield")
        BY <1>0, <1>2, <2>3, <4>1 DEF RvCurrent
      <4>3. lv.part = rvCpu.fp
            /\ lv.sp.frames = RvFls(rvCpu.sp.frames, RvBase, rvCpu.fp, rvCpu.f)
        BY <1>7, <2>3, <4>1, <4>2
      <4>4. RvFls(rvCpu.sp.frames, RvBase, rvCpu.fp, rvCpu.f)
              = RvFls(rvCpu.sp.frames, RvBase, rvCpu.fp, RvBase)
        BY <4>2 DEF RvFls
      <4> QED
        BY <4>1, <4>2, <4>3, <4>4
    <3>2. CASE n # 0
      <4>1. rvLevels'[1] = rvLevels[1] /\ rvLevels # <<>>
        BY <1>4, <1>5, <3>2
      <4> QED
        BY <1>2, <2>3, <4>1 DEF RvNested
    <3> QED
      BY <3>1, <3>2
  <2>4. ASSUME NEW i \in 2 .. n + 1
        PROVE  /\ rvLevels'[i].sp.on = "main"
               /\ \E w \in RvValues :
                     /\ rvLevels'[i].sp.frames = RvFls(<<>>, HandlerValue(i - 1), rvLevels'[i].part, w)
                     /\ rvLevels'[i - 1].usesFp => rvLevels'[i].part /\ w = HandlerValue(i - 1)
    <3>1. CASE i = n + 1
      <4>1. n > 0 /\ i - 1 = n /\ n \in 1 .. n
        BY <3>1
      <4>2. /\ rvCpu.x = HandlerValue(n) /\ rvCpu.sp = MainStack
            /\ RvTop.usesFp => rvCpu.fp /\ rvCpu.f = HandlerValue(n)
        BY <1>2, <1>3, <1>5, <4>1 DEF RvCurrent
      <4>3. rvCpu.sp.on = "main" /\ rvCpu.sp.frames = <<>> /\ rvCpu.f \in RvValues
        BY <1>2, <4>2 DEF MainStack, RvTypes, RvRegisters
      <4>4. rvLevels'[i] = lv /\ rvLevels'[i - 1] = RvTop
        BY <1>4, <1>5, <3>1, <4>1
      <4>5. lv.part = rvCpu.fp /\ lv.sp.frames = RvFls(<<>>, HandlerValue(n), lv.part, rvCpu.f)
        BY <1>7, <4>2, <4>3
      <4> QED
        BY <1>6, <4>1, <4>2, <4>3, <4>4, <4>5
    <3>2. CASE i # n + 1
      <4>1. i \in 2 .. n /\ i \in 1 .. n /\ i - 1 \in 1 .. n
        BY <3>2
      <4>2. rvLevels'[i] = rvLevels[i] /\ rvLevels'[i - 1] = rvLevels[i - 1]
        BY <1>4, <4>1
      <4> QED
        BY <1>2, <1>3, <4>1, <4>2 DEF RvNested
    <3> QED
      BY <3>1, <3>2
  <2> QED
    BY <1>0, <1>2, <1>4, <1>8, <2>1, <2>2, <2>3, <2>4 DEF RvNested
<1>11. RvCurrent'
  <2>1. RvBase # "zero" => rvCpu'.s = RvBase /\ (RvBase \in rvFpUsers => rvCpu'.fs = RvBase)
    BY <1>0, <1>2, <1>6 DEF RvCurrent
  <2>2. \A t \in rvActive \ {RvBase} : rvTaskSp[t] = RvSaved(t, rvPc[t] = "yield", t \in rvFpUsers)
    BY <1>2 DEF RvCurrent
  <2> QED
    BY <1>0, <1>1, <1>4, <1>6, <1>8, <2>1, <2>2 DEF RvCurrent
<1>12. RvRequested' /\ RvLocking' /\ RvReserving'
  <2>1. ~rvLocked
    BY <1>0 DEF RvInv, RvLocking
  <2> QED
    BY <1>0, <1>2, <1>4, <1>8, <2>1 DEF RvInv, RvRequested, RvLocking, RvReserving
<1>13. /\ n = 0 => rvXie = RvUsed
       /\ n # 0 => rvXie = RvEnabledIn(rvLevels[n])
  BY <1>0, <1>2, <1>4, <1>5 DEF RvMasked
<1>14. RvEnabledIn(lv) = {} /\ RvRestores(lv) /\ ~RvServes(lv)
  <2>1. rvXie # {}
    BY <1>0
  <2>2. ("T" \in rvXie => rvXie = RvUsed) /\ ("S" \in rvXie => RvUsed \cap {"E"} \subseteq rvXie)
    <3>1. CASE n = 0
      BY <1>13, <3>1
    <3>2. CASE n # 0
      <4>1. RvRestores(rvLevels[n])
        BY <1>2, <1>3, <1>5, <3>2 DEF RvMasked
      <4> QED
        BY <1>13, <3>2, <4>1, RvEnabledAbove
    <3> QED
      BY <3>1, <3>2
  <2> QED
    BY <1>1, <2>1, <2>2 DEF RvEnabledIn, RvRestores, RvServes
<1>15. RvMasked'
  <2>1. \A i \in 1 .. n + 1 :
          /\ RvRestores(rvLevels'[i])
          /\ rvLevels'[i].old = IF i = 1 THEN RvUsed ELSE RvEnabledIn(rvLevels'[i - 1])
    <3> SUFFICES ASSUME NEW i \in 1 .. n + 1
                 PROVE  /\ RvRestores(rvLevels'[i])
                        /\ rvLevels'[i].old = IF i = 1 THEN RvUsed
                                              ELSE RvEnabledIn(rvLevels'[i - 1])
      OBVIOUS
    <3>1. CASE i = n + 1
      <4>1. rvLevels'[i] = lv /\ lv.old = rvXie
        BY <1>1, <1>4, <3>1
      <4>2. i # 1 => n # 0 /\ i - 1 = n /\ rvLevels'[i - 1] = rvLevels[n]
        BY <1>4, <1>5, <3>1
      <4>3. i = 1 => n = 0
        BY <3>1
      <4> QED
        BY <1>13, <1>14, <4>1, <4>2, <4>3
    <3>2. CASE i # n + 1
      <4>1. i \in 1 .. n /\ (i # 1 => i - 1 \in 1 .. n)
        BY <3>2
      <4>2. rvLevels'[i] = rvLevels[i] /\ (i # 1 => rvLevels'[i - 1] = rvLevels[i - 1])
        BY <1>4, <4>1
      <4>3. RvRestores(rvLevels[i])
            /\ rvLevels[i].old = IF i = 1 THEN RvUsed ELSE RvEnabledIn(rvLevels[i - 1])
        BY <1>2, <1>3, <4>1 DEF RvMasked
      <4> QED
        BY <4>2, <4>3
    <3> QED
      BY <3>1, <3>2
  <2>2. \A i, j \in 1 .. n + 1 : j < i => rvLevels'[i].old \subseteq RvEnabledIn(rvLevels'[j])
    <3> SUFFICES ASSUME NEW i \in 1 .. n + 1, NEW j \in 1 .. n + 1, j < i
                 PROVE  rvLevels'[i].old \subseteq RvEnabledIn(rvLevels'[j])
      OBVIOUS
    <3>1. j \in 1 .. n /\ n # 0 /\ n \in 1 .. n
      OBVIOUS
    <3>2. rvLevels'[j] = rvLevels[j]
      BY <1>4, <3>1
    <3>3. \A k, m \in 1 .. n : m < k => rvLevels[k].old \subseteq RvEnabledIn(rvLevels[m])
      BY <1>2, <1>3 DEF RvMasked
    <3>4. CASE i = n + 1 /\ j = n
      BY <1>1, <1>4, <1>13, <3>1, <3>2, <3>4
    <3>5. CASE i = n + 1 /\ j # n
      <4>1. rvLevels[n].old \subseteq RvEnabledIn(rvLevels[j])
        BY <3>1, <3>3, <3>5
      <4>2. RvRestores(rvLevels[n])
        BY <1>2, <1>3, <3>1 DEF RvMasked
      <4>3. RvEnabledIn(rvLevels[n]) \subseteq rvLevels[n].old
        BY <4>2, RvEnabledWasOld
      <4> QED
        BY <1>1, <1>4, <1>13, <3>1, <3>2, <3>5, <4>1, <4>3
    <3>6. CASE i # n + 1
      <4>1. i \in 1 .. n /\ rvLevels'[i] = rvLevels[i]
        BY <1>4, <3>6
      <4> QED
        BY <3>1, <3>2, <3>3, <4>1
    <3> QED
      BY <3>4, <3>5, <3>6
  <2> QED
    BY <1>0, <1>4, <1>14, <2>1, <2>2 DEF RvMasked
<1>16. RvClaimed'
  <2>1. /\ plThreshold' = plThreshold /\ plInService' = plInService /\ PlicAsserted' = PlicAsserted
        /\ plThreshold \in Nat
    BY <1>0, <1>2 DEF plVars, PlicAsserted, RvTypes
  <2>2. lv.old = {"E"} => \E l \in PlicLines : plThreshold < PlicPriority[l]
    <3>1. ASSUME rvXie = {"E"} PROVE \E l \in PlicLines : plThreshold < PlicPriority[l]
      <4>1. PlicAsserted
        BY <1>0, <1>2, <3>1, RvXipIs
      <4>2. PICK l \in plPending \cap plEnabled : PlicPriority[l] > plThreshold
        BY <4>1 DEF PlicAsserted
      <4>3. l \in PlicLines /\ PlicPriority[l] \in Nat
        BY <1>2, <4>2, PlicAssumption DEF RvTypes
      <4> QED
        BY <2>1, <4>2, <4>3
    <3> QED
      BY <1>1, <3>1
  <2>3. \E ti \in [0 .. RvLevel' -> Nat] : RvThresholds(ti)'
    <3>1. PICK th \in [0 .. RvLevel -> Nat] : RvThresholds(th)
      BY <1>2 DEF RvClaimed
    <3> QED
      BY <1>1, <1>2, <1>14, <2>1, <2>2, <3>1, RvPushedThresholds
  <2>4. ASSUME NEW i \in 1 .. n + 1, RvServes(rvLevels'[i])
        PROVE  rvLevels'[i].token # <<>>
    <3>1. i \in 1 .. n
      <4>1. i # n + 1
        BY <1>4, <1>14, <2>4
      <4> QED
        BY <4>1
    <3>2. rvLevels'[i] = rvLevels[i]
      BY <1>4, <3>1
    <3> QED
      BY <1>2, <1>3, <2>4, <3>1, <3>2 DEF RvClaimed
  <2>5. plInService = {}
    <3>1. ASSUME ~UseNesting, rvLevels # <<>>, RvServes(RvTop)
          PROVE  FALSE
      <4>1. rvXie = RvEnabledIn(RvTop)
        BY <1>0, <1>2, <3>1 DEF RvMasked
      <4>2. RvEnabledIn(RvTop) = {}
        BY <3>1 DEF RvServes, RvEnabledIn
      <4> QED
        BY <1>0, <4>1, <4>2
    <3> QED
      BY <1>2, <3>1 DEF RvClaimed
  <2>6. "E" \in lv.xip => PlicAsserted
    BY <1>1, <1>2, RvXipIs
  <2> QED
    BY <1>4, <1>14, <2>1, <2>3, <2>4, <2>5, <2>6 DEF RvClaimed
<1> QED
  BY <1>8, <1>9, <1>10, <1>11, <1>12, <1>15, <1>16 DEF RvInv

-----------------------------------------------------------------------------
(* Leaving an interrupt *)

\* The end of a handler: the enables and the thresholds are those of the level below.
LEMMA RvPoppedClaims ==
  ASSUME RvInv, rvLevels # <<>>, rvLevels' = SubSeq(rvLevels, 1, RvLevel - 1), UNCHANGED plVars,
         RvTop.phase = "end"
  PROVE  RvClaimed'
<1>1. PICK n \in Nat : n = RvLevel /\ n > 0 /\ RvTop = rvLevels[n] /\ n \in 1 .. n
  BY RvTopLevel DEF RvInv
<1>2. /\ RvLevel' = n - 1 /\ \A i \in 1 .. n - 1 : rvLevels'[i] = rvLevels[i]
      /\ (rvLevels' = <<>> <=> n = 1)
  BY <1>1, RvPopLevel DEF RvInv
<1>3. plThreshold' = plThreshold /\ plInService' = plInService /\ RvClaimed /\ RvMasked
  BY DEF plVars, RvInv
<1>4. ~RvServes(rvLevels[n])
  BY <1>1 DEF RvServes
<1>5. \E ti \in [0 .. RvLevel' -> Nat] : RvThresholds(ti)'
  <2>1. PICK th \in [0 .. n -> Nat] : RvThresholds(th)
    BY <1>1, <1>3 DEF RvClaimed
  <2>2. PICK ti : ti = [i \in 0 .. n - 1 |-> th[i]]
    OBVIOUS
  <2>3. ti \in [0 .. n - 1 -> Nat] /\ \A i \in 0 .. n - 1 : ti[i] = th[i]
    BY <1>1, <2>2
  <2>4. /\ th[0] = 0 /\ plThreshold = th[n] /\ th[n] = th[n - 1]
        /\ \A i, j \in 0 .. n : i <= j => th[i] <= th[j]
    BY <1>1, <1>4, <2>1 DEF RvThresholds
  <2>5. ti[0] = 0 /\ plThreshold' = ti[n - 1]
    BY <1>1, <1>3, <2>3, <2>4
  <2>6. \A i, j \in 0 .. n - 1 : i <= j => ti[i] <= ti[j]
    BY <1>1, <2>3, <2>4
  <2>7. \A i \in 1 .. n - 1 :
          /\ IF UseNesting /\ RvServes(rvLevels'[i])
             THEN /\ rvLevels'[i].token.old = ti[i - 1]
                  /\ ti[i] = PlicPriority[rvLevels'[i].token.line]
                  /\ ti[i - 1] < ti[i]
             ELSE ti[i] = ti[i - 1]
          /\ rvLevels'[i].old = {"E"} => \E l \in PlicLines : ti[i - 1] < PlicPriority[l]
    <3> SUFFICES ASSUME NEW i \in 1 .. n - 1
                 PROVE  /\ IF UseNesting /\ RvServes(rvLevels'[i])
                           THEN /\ rvLevels'[i].token.old = ti[i - 1]
                                /\ ti[i] = PlicPriority[rvLevels'[i].token.line]
                                /\ ti[i - 1] < ti[i]
                           ELSE ti[i] = ti[i - 1]
                        /\ rvLevels'[i].old = {"E"} =>
                              \E l \in PlicLines : ti[i - 1] < PlicPriority[l]
      OBVIOUS
    <3>1. i \in 1 .. n /\ i \in 0 .. n - 1 /\ i - 1 \in 0 .. n - 1
      BY <1>1
    <3>2. rvLevels'[i] = rvLevels[i] /\ ti[i] = th[i] /\ ti[i - 1] = th[i - 1]
      BY <1>2, <2>3, <3>1
    <3>3. /\ IF UseNesting /\ RvServes(rvLevels[i])
             THEN /\ rvLevels[i].token.old = th[i - 1]
                  /\ th[i] = PlicPriority[rvLevels[i].token.line]
                  /\ th[i - 1] < th[i]
             ELSE th[i] = th[i - 1]
          /\ rvLevels[i].old = {"E"} => \E l \in PlicLines : th[i - 1] < PlicPriority[l]
      BY <1>1, <2>1, <3>1 DEF RvThresholds
    <3> QED
      BY <3>2, <3>3
  <2>8. RvThresholds(ti)'
    BY <1>2, <2>5, <2>6, <2>7 DEF RvThresholds
  <2> QED
    BY <1>2, <2>3, <2>8
<1>6. \A i \in 1 .. RvLevel' : RvServes(rvLevels'[i]) => rvLevels'[i].token # <<>>
  <2> SUFFICES ASSUME NEW i \in 1 .. n - 1 PROVE RvServes(rvLevels'[i]) => rvLevels'[i].token # <<>>
    BY <1>2
  <2>1. i \in 1 .. n /\ rvLevels'[i] = rvLevels[i]
    BY <1>1, <1>2
  <2> QED
    BY <1>1, <1>3, <2>1 DEF RvClaimed
<1>7. plInService = {}
  BY <1>1, <1>3, <1>4 DEF RvClaimed
<1>8. ASSUME rvLevels' # <<>>
      PROVE  /\ RvTop' = rvLevels[n - 1] /\ RvEnabledIn(RvTop') # {}
  <2>1. n - 1 \in 1 .. n - 1 /\ n # 1
    BY <1>1, <1>2, <1>8
  <2>2. RvTop' = rvLevels[n - 1]
    BY <1>2, <2>1 DEF RvTop
  <2>3. RvRestores(rvLevels[n]) /\ rvLevels[n].old = RvEnabledIn(rvLevels[n - 1])
    BY <1>1, <1>3, <2>1 DEF RvMasked
  <2>4. rvLevels[n].old # {}
    BY <2>3 DEF RvRestores
  <2> QED
    BY <2>2, <2>3, <2>4
<1>9. rvLevels' # <<>> => ~(RvTop'.phase = "E" /\ RvTop'.run = "none")
  BY <1>8 DEF RvEnabledIn
<1>10. rvLevels' # <<>> => ~(~UseNesting /\ RvServes(RvTop'))
  BY <1>8 DEF RvEnabledIn, RvServes
<1> QED
  BY <1>3, <1>5, <1>6, <1>7, <1>9, <1>10 DEF RvClaimed

\* The level below finds the lines enabled that it had enabled.
LEMMA RvPoppedMasks ==
  ASSUME RvInv, InLoop("end"), rvLevels' = SubSeq(rvLevels, 1, RvLevel - 1), UNCHANGED rvMain,
         rvXie' = rvXie \cup RvTop.pend
  PROVE  RvMasked' /\ rvXie' \subseteq RvUsed
<1>0. /\ rvMain /\ rvLevels # <<>> /\ RvTop.phase = "end" /\ rvXie = RvEnabledIn(RvTop)
      /\ RvRestores(RvTop)
  BY RvLoopIs
<1>1. PICK n \in Nat : n = RvLevel /\ n > 0 /\ RvTop = rvLevels[n] /\ n \in 1 .. n
                       /\ RvTop \in RvLevelType
  BY <1>0, RvTopLevel DEF RvInv
<1>2. /\ RvLevel' = n - 1 /\ \A i \in 1 .. n - 1 : rvLevels'[i] = rvLevels[i]
      /\ (rvLevels' = <<>> <=> n = 1)
  BY <1>0, <1>1, RvPopLevel DEF RvInv
<1>3. rvXie' = rvLevels[n].old /\ rvLevels[n].old \subseteq RvUsed
  BY <1>0, <1>1 DEF RvRestores, RvLevelType
<1>4. \A i \in 1 .. n : rvLevels[i].old = IF i = 1 THEN RvUsed ELSE RvEnabledIn(rvLevels[i - 1])
  BY <1>1 DEF RvInv, RvMasked
<1>5. rvXie' = IF rvLevels' = <<>> THEN RvUsed ELSE RvEnabledIn(RvTop')
  <2>1. CASE n = 1
    BY <1>1, <1>2, <1>3, <1>4, <2>1
  <2>2. CASE n # 1
    <3>1. n - 1 \in 1 .. n - 1
      BY <1>1, <2>2
    <3>2. RvTop' = rvLevels[n - 1]
      BY <1>2, <3>1 DEF RvTop
    <3> QED
      BY <1>1, <1>2, <1>3, <1>4, <2>2, <3>2
  <2> QED
    BY <2>1, <2>2
<1>6. \A i \in 1 .. n - 1 :
        /\ RvRestores(rvLevels'[i])
        /\ rvLevels'[i].old = IF i = 1 THEN RvUsed ELSE RvEnabledIn(rvLevels'[i - 1])
  <2> SUFFICES ASSUME NEW i \in 1 .. n - 1
               PROVE  /\ RvRestores(rvLevels'[i])
                      /\ rvLevels'[i].old = IF i = 1 THEN RvUsed ELSE RvEnabledIn(rvLevels'[i - 1])
    OBVIOUS
  <2>1. i \in 1 .. n /\ (i # 1 => i - 1 \in 1 .. n - 1)
    BY <1>1
  <2>2. rvLevels'[i] = rvLevels[i] /\ (i # 1 => rvLevels'[i - 1] = rvLevels[i - 1])
    BY <1>2, <2>1
  <2>3. RvRestores(rvLevels[i])
    BY <1>1, <2>1 DEF RvInv, RvMasked
  <2> QED
    BY <1>4, <2>1, <2>2, <2>3
<1>7. \A i, j \in 1 .. n - 1 : j < i => rvLevels'[i].old \subseteq RvEnabledIn(rvLevels'[j])
  <2> SUFFICES ASSUME NEW i \in 1 .. n - 1, NEW j \in 1 .. n - 1, j < i
               PROVE  rvLevels'[i].old \subseteq RvEnabledIn(rvLevels'[j])
    OBVIOUS
  <2>1. i \in 1 .. n /\ j \in 1 .. n /\ rvLevels'[i] = rvLevels[i] /\ rvLevels'[j] = rvLevels[j]
    BY <1>1, <1>2
  <2> QED
    BY <1>1, <2>1 DEF RvInv, RvMasked
<1> QED
  BY <1>2, <1>3, <1>5, <1>6, <1>7 DEF RvMasked

\* A handler returns to the one it interrupted, ...
LEMMA RvLeaveNestedKeeps ==
  ASSUME RvInv, RvLeaveInterrupt, RvLevel # 1
  PROVE  /\ RvResumed' /\ RvBase' = RvBase /\ rvGlobal' = TRUE /\ rvLevels' # <<>>
         /\ UNCHANGED <<rvPending, rvRunning, rvTaskSp, rvWanted>>
<1> DEFINE d == [rvCpu EXCEPT !.sp = RvTop.sp, !.x = Junk]
<1>0. /\ InLoop("end") /\ rvXie' = rvXie \cup RvTop.pend /\ rvReserved' = NoTask
      /\ rvLevels' = SubSeq(rvLevels, 1, RvLevel - 1) /\ rvNesting' = rvNesting - 1
      /\ rvNesting' >= 0 => /\ rvCpu' = PopFls(d, RvTop.part) /\ rvGlobal' = TRUE
                            /\ UNCHANGED <<rvPending, rvRunning, rvTaskSp, rvWanted>>
      /\ UNCHANGED <<rvXip, rvMain, rvActive, rvPc, rvFpUsers, rvLocked, plVars>>
  BY DEF RvLeaveInterrupt, LeaveTrap
<1>1. /\ RvTypes /\ RvNested /\ RvCurrent /\ rvMain /\ rvMain' /\ rvLevels # <<>>
  BY <1>0, RvLoopIs DEF RvInv
<1>2. PICK n \in Nat : n = RvLevel /\ n > 1 /\ RvTop = rvLevels[n] /\ n \in 2 .. n
                       /\ RvTop \in RvLevelType /\ 1 \in 1 .. n - 1 /\ n - 1 \in 1 .. n - 1
  BY <1>1, RvTopLevel
<1>3. /\ RvLevel' = n - 1 /\ \A i \in 1 .. n - 1 : rvLevels'[i] = rvLevels[i]
      /\ rvLevels' # <<>>
  BY <1>0, <1>1, <1>2, RvPopLevel
<1>4. rvNesting' = RvLevel' - 1 /\ rvNesting' >= 0
  BY <1>0, <1>1, <1>2, <1>3 DEF RvNested
<1>5. PICK w \in RvValues :
         /\ rvLevels[n].sp.frames = RvFls(<<>>, HandlerValue(n - 1), rvLevels[n].part, w)
         /\ rvLevels[n - 1].usesFp => rvLevels[n].part /\ w = HandlerValue(n - 1)
  BY <1>1, <1>2 DEF RvNested
<1>6. rvLevels[n].sp.on = "main" /\ rvLevels[n].sp \in RvStacks /\ rvLevels[n].part \in BOOLEAN
  BY <1>1, <1>2 DEF RvNested, RvLevelType
<1>7. PICK c : c = d
  OBVIOUS
<1>8. c \in RvRegisters /\ c.s = rvCpu.s /\ c.fs = rvCpu.fs /\ c.sp = rvLevels[n].sp
  BY <1>1, <1>2, <1>6, <1>7, RvValueTypes DEF RvTypes, RvRegisters
<1>9. PICK part \in BOOLEAN : part = rvLevels[n].part
  BY <1>6
<1>10. PICK r : r = PopFls(c, part)
  OBVIOUS
<1>11. /\ r \in RvRegisters /\ r.x = HandlerValue(n - 1) /\ r.fp = part /\ (part => r.f = w)
       /\ r.s = c.s /\ r.fs = c.fs /\ r.sp.on = "main" /\ r.sp.frames = <<>>
  <2>1. PICK e \in Seq(RvFrames) : e = <<>>
    <3>1. <<>> \in Seq(RvFrames)
      OBVIOUS
    <3> QED
      BY <3>1
  <2>2. PICK v \in RvValues : v = HandlerValue(n - 1)
    <3>1. n - 1 \in Nat
      BY <1>2
    <3> QED
      BY <3>1, RvValueTypes
  <2>3. c.sp.frames = RvFls(e, v, part, w)
    BY <1>5, <1>8, <1>9, <2>1, <2>2
  <2>4. /\ r \in RvRegisters /\ r.x = v /\ r.fp = part /\ (part => r.f = w)
        /\ r.s = c.s /\ r.fs = c.fs /\ r.sp.on = c.sp.on /\ r.sp.frames = e
    BY <1>8, <1>10, <2>3, RvPopFlsIs
  <2> QED
    BY <1>6, <1>8, <2>1, <2>2, <2>4
<1>12. /\ rvCpu' = r /\ rvGlobal' = TRUE
       /\ UNCHANGED <<rvPending, rvRunning, rvTaskSp, rvWanted>>
  BY <1>0, <1>2, <1>4, <1>7, <1>9, <1>10
<1>13. r.sp = MainStack
  <2>1. r.sp = [on |-> r.sp.on, frames |-> r.sp.frames]
    BY <1>11 DEF RvRegisters, RvStacks
  <2> QED
    BY <1>11, <2>1 DEF MainStack
<1> HIDE DEF d
<1>14. RvBase' = RvBase /\ rvLevels'[1] = rvLevels[1]
  BY <1>1, <1>2, <1>3 DEF RvBase
<1>15. RvTop' = rvLevels[n - 1]
  BY <1>2, <1>3 DEF RvTop
<1>16. RvNested'
  <2>1. ASSUME NEW i \in 2 .. n - 1
        PROVE  /\ rvLevels'[i].sp.on = "main"
               /\ \E v \in RvValues :
                     /\ rvLevels'[i].sp.frames = RvFls(<<>>, HandlerValue(i - 1), rvLevels'[i].part, v)
                     /\ rvLevels'[i - 1].usesFp => rvLevels'[i].part /\ v = HandlerValue(i - 1)
    <3>1. i \in 2 .. n /\ rvLevels'[i] = rvLevels[i] /\ rvLevels'[i - 1] = rvLevels[i - 1]
      BY <1>2, <1>3
    <3> QED
      BY <1>1, <1>2, <3>1 DEF RvNested
  <2>2. RvBase' \in rvActive' \cup {"zero"}
        /\ rvRunning' = IF RvBase' = "zero" THEN NoTask ELSE RvBase'
    BY <1>0, <1>1, <1>12, <1>14 DEF RvNested
  <2>3. RvBase' # "zero" =>
        /\ rvLevels'[1].part = (RvBase' \in rvFpUsers')
        /\ rvLevels'[1].sp.frames = RvFls(RvStack(RvBase', rvPc'[RvBase'] = "yield"), RvBase',
                                         rvLevels'[1].part, RvBase')
    BY <1>0, <1>1, <1>14 DEF RvNested
  <2> QED
    BY <1>1, <1>3, <1>4, <2>1, <2>2, <2>3 DEF RvNested
<1>17. RvCurrent'
  <2>1. RvBase # "zero" => rvCpu'.s = RvBase /\ (RvBase \in rvFpUsers => rvCpu'.fs = RvBase)
    BY <1>1, <1>8, <1>11, <1>12 DEF RvCurrent
  <2>2. rvCpu'.x = HandlerValue(RvLevel') /\ rvCpu'.sp = MainStack
    BY <1>3, <1>11, <1>12, <1>13
  <2>3. RvTop'.usesFp => rvCpu'.fp /\ rvCpu'.f = HandlerValue(RvLevel')
    BY <1>3, <1>5, <1>9, <1>11, <1>12, <1>15
  <2>4. \A t \in rvActive \ {RvBase} : rvTaskSp[t] = RvSaved(t, rvPc[t] = "yield", t \in rvFpUsers)
    BY <1>1 DEF RvCurrent
  <2> QED
    BY <1>0, <1>3, <1>12, <1>14, <2>1, <2>2, <2>3, <2>4 DEF RvCurrent
<1>18. /\ rvTaskSp' \in [Tasks -> Seq(RvFrames)] /\ rvRunning' \in Tasks \cup {NoTask}
  BY <1>1, <1>12 DEF RvTypes
<1> QED
  BY <1>3, <1>11, <1>12, <1>14, <1>16, <1>17, <1>18 DEF RvResumed

\* ... or to a thread, with a dispatch if one is pending.
LEMMA RvLeaveToThreadKeeps ==
  ASSUME RvInv, RvLeaveInterrupt, RvLevel = 1
  PROVE  /\ RvResumed' /\ rvGlobal' = TRUE /\ rvLevels' = <<>> /\ rvPending' = FALSE
         /\ \/ ~rvPending /\ RvBase' = RvBase /\ UNCHANGED <<rvWanted, rvRunning>>
            \/ rvPending /\ rvWanted' = FALSE
<1> DEFINE d == [rvCpu EXCEPT !.sp = RvTop.sp, !.x = Junk]
<1>0. /\ InLoop("end") /\ rvReserved' = NoTask
      /\ rvLevels' = SubSeq(rvLevels, 1, RvLevel - 1) /\ rvNesting' = rvNesting - 1
      /\ ~(rvNesting' >= 0) => PushSecondLevelStateAndDispatch(d, RvTop.part, TRUE)
      /\ UNCHANGED <<rvMain, rvActive, rvPc, rvFpUsers>>
  BY DEF RvLeaveInterrupt, LeaveTrap
<1>1. /\ RvTypes /\ RvNested /\ RvCurrent /\ rvMain /\ rvMain' /\ rvLevels # <<>>
  BY <1>0, RvLoopIs DEF RvInv
<1>2. /\ RvTop = rvLevels[1] /\ RvTop \in RvLevelType /\ rvLevels' = <<>> /\ RvBase = RvTop.sp.on
      /\ rvNesting' = -1 /\ ~(rvNesting' >= 0)
  <2>1. RvTop = rvLevels[1] /\ RvTop \in RvLevelType
    BY <1>1, RvTopLevel DEF RvTop
  <2>2. rvLevels' = <<>>
    BY <1>0, <1>1, RvPopLevel
  <2>3. rvNesting = 0 /\ RvBase = RvTop.sp.on
    BY <1>1, <2>1 DEF RvNested, RvBase
  <2> QED
    BY <1>0, <2>1, <2>2, <2>3
<1>3. PICK c : c = d
  OBVIOUS
<1>4. c \in RvRegisters /\ c.s = rvCpu.s /\ c.fs = rvCpu.fs /\ c.sp = RvTop.sp
  BY <1>1, <1>2, <1>3, RvValueTypes DEF RvTypes, RvRegisters, RvLevelType
<1>5. PICK part \in BOOLEAN : part = RvTop.part
  BY <1>2 DEF RvLevelType
<1>6. PushSecondLevelStateAndDispatch(c, part, TRUE)
  BY <1>0, <1>2, <1>3, <1>5
<1> HIDE DEF d
<1>7. PICK pc \in [Tasks -> {"code", "yield", "lrsc"}] : pc = rvPc
  BY <1>1 DEF RvTypes
<1>8. RvInterrupted(c, part, pc)
  <2>1. RvBase # "zero" =>
          /\ rvCpu.s = RvBase /\ part = (RvBase \in rvFpUsers)
          /\ (RvBase \in rvFpUsers => rvCpu.fs = RvBase)
          /\ RvTop.sp.frames = RvFls(RvStack(RvBase, pc[RvBase] = "yield"), RvBase, part, RvBase)
    BY <1>1, <1>2, <1>5, <1>7 DEF RvNested, RvCurrent
  <2> QED
    BY <1>2, <1>4, <2>1 DEF RvInterrupted
<1>9. rvPc' = pc /\ \A t \in rvActive \ {RvBase} : pc[t] = rvPc[t]
  BY <1>0, <1>7
<1>10. rvPending \in BOOLEAN /\ rvActive' = rvActive /\ rvFpUsers' = rvFpUsers
  BY <1>0, <1>1 DEF RvTypes
<1>11. CASE ~rvPending
  <2>1. /\ rvCpu' = IF c.sp.on = "zero" THEN IdleTask(c) ELSE PopFls(c, part)
        /\ rvGlobal' = TRUE /\ UNCHANGED <<rvPending, rvRunning, rvTaskSp, rvWanted>>
    BY <1>6, <1>11 DEF PushSecondLevelStateAndDispatch
  <2>2. RvResumed' /\ RvBase' = RvBase
    BY <1>1, <1>2, <1>8, <1>9, <1>10, <2>1, RvShortcut
  <2>3. rvPending' = FALSE
    BY <1>10, <1>11, <2>1
  <2> QED
    BY <1>2, <1>11, <2>1, <2>2, <2>3
<1>12. CASE rvPending
  <2>1. rvPending' = FALSE /\ NotShortcutting(c, part)
    BY <1>6, <1>12 DEF PushSecondLevelStateAndDispatch
  <2>2. RvResumed' /\ rvGlobal' = TRUE /\ rvWanted' = FALSE
    BY <1>1, <1>2, <1>8, <1>9, <1>10, <2>1, RvSwitched
  <2> QED
    BY <1>2, <1>12, <2>1, <2>2
<1> QED
  BY <1>11, <1>12

\* Both ways together.
LEMMA RvLeaveInterruptKeeps ==
  ASSUME RvInv, RvLeaveInterrupt
  PROVE  RvInv'
<1>0. /\ InLoop("end") /\ rvXie' = rvXie \cup RvTop.pend /\ rvReserved' = NoTask
      /\ rvLevels' = SubSeq(rvLevels, 1, RvLevel - 1) /\ rvNesting' = rvNesting - 1
      /\ rvDisturbed' = (rvDisturbed /\ rvReserved' # NoTask)
      /\ UNCHANGED <<rvXip, rvMain, rvActive, rvPc, rvFpUsers, rvLocked, plVars>>
  BY DEF RvLeaveInterrupt, LeaveTrap
<1>1. /\ rvMain /\ rvLevels # <<>> /\ RvTop.phase = "end" /\ ~rvLocked /\ RvTypes
  BY <1>0, RvLoopIs DEF RvInv
<1>2. RvClaimed' /\ RvMasked' /\ rvXie' \subseteq RvUsed
  BY <1>0, <1>1, RvPoppedClaims, RvPoppedMasks
<1>3. /\ RvResumed' /\ rvGlobal' = TRUE
      /\ rvPending' \in BOOLEAN /\ rvWanted' \in BOOLEAN
      /\ rvPending' => rvLevels' # <<>>
      /\ rvWanted' => \/ rvPending'
                      \/ rvMain /\ RvBase' # "zero" /\ rvPc[RvBase'] = "yield"
  <2>0. rvPending \in BOOLEAN /\ rvWanted \in BOOLEAN
        /\ (rvWanted => rvPending \/ (rvMain /\ RvBase # "zero" /\ rvPc[RvBase] = "yield"))
    BY <1>1 DEF RvTypes, RvInv, RvRequested
  <2>1. CASE RvLevel # 1
    BY <2>0, <2>1, RvLeaveNestedKeeps
  <2>2. CASE RvLevel = 1
    <3>1. RvResumed' /\ rvGlobal' = TRUE /\ rvPending' = FALSE
          /\ \/ ~rvPending /\ RvBase' = RvBase /\ rvWanted' = rvWanted
             \/ rvPending /\ rvWanted' = FALSE
      BY <2>2, RvLeaveToThreadKeeps
    <3>2. CASE ~rvPending /\ RvBase' = RvBase /\ rvWanted' = rvWanted
      BY <2>0, <3>1, <3>2
    <3>3. CASE rvPending /\ rvWanted' = FALSE
      BY <3>1, <3>3
    <3> QED
      BY <3>1, <3>2, <3>3
  <2> QED
    BY <2>1, <2>2
<1>4. RvTypes'
  <2>1. rvLevels' \in Seq(RvLevelType)
    BY <1>0, <1>1, RvPopLevel
  <2>2. rvNesting' \in Int /\ rvReserved' \in Tasks \cup {NoTask} /\ rvDisturbed' \in BOOLEAN
        /\ rvGlobal' \in BOOLEAN
    BY <1>0, <1>1, <1>3 DEF RvTypes
  <2> QED
    BY <1>0, <1>1, <1>2, <1>3, <2>1, <2>2 DEF RvTypes, RvResumed, plVars
<1>5. RvRequested' /\ RvLocking' /\ RvReserving'
  <2>1. rvLocked' = FALSE
    BY <1>0, <1>1 DEF RvTypes
  <2> QED
    BY <1>0, <1>1, <1>3, <2>1 DEF RvRequested, RvLocking, RvReserving
<1> QED
  BY <1>2, <1>3, <1>4, <1>5 DEF RvInv, RvResumed

-----------------------------------------------------------------------------
(* The invariant *)

\* The boot thread begins in the invariant.
LEMMA RvInitKeeps ==
  ASSUME RvInit
  PROVE  RvInv
<1>1. /\ rvCpu = [x |-> Junk, s |-> Junk, f |-> Junk, fs |-> Junk, fp |-> FALSE, sp |-> MainStack]
      /\ rvXie = {} /\ rvXip = {}
      /\ rvGlobal = FALSE /\ rvPending = FALSE /\ rvNesting = 0 /\ rvMain = FALSE
      /\ rvTaskSp = [t \in Tasks |-> <<>>] /\ rvRunning = NoTask /\ rvActive = {}
      /\ rvLevels = <<>> /\ rvPc = [t \in Tasks |-> "code"] /\ rvReserved = NoTask
      /\ rvFpUsers = {} /\ rvLocked = TRUE /\ rvWanted = FALSE /\ rvDisturbed = FALSE
      /\ plPending = {} /\ plInService = {} /\ plEnabled = PlicLines /\ plThreshold = 0
  BY DEF RvInit, PlicReset
<1>2. rvCpu \in RvRegisters /\ rvTaskSp \in [Tasks -> Seq(RvFrames)]
      /\ rvLevels \in Seq(RvLevelType)
  <2>1. <<>> \in Seq(RvFrames) /\ <<>> \in Seq(RvLevelType)
    OBVIOUS
  <2> QED
    BY <1>1, <2>1, RvValueTypes DEF RvRegisters, RvStacks, MainStack
<1>3. RvTypes
  <2>1. /\ rvXie \subseteq RvUsed /\ rvXip \subseteq {"S", "T"} /\ rvActive \subseteq Tasks
        /\ rvFpUsers \subseteq Tasks /\ plPending \subseteq PlicLines
        /\ plInService \subseteq PlicLines /\ plEnabled \subseteq PlicLines /\ plThreshold \in Nat
        /\ rvNesting \in Int /\ rvRunning \in Tasks \cup {NoTask}
        /\ rvReserved \in Tasks \cup {NoTask} /\ rvPc \in [Tasks -> {"code", "yield", "lrsc"}]
    BY <1>1
  <2>2. /\ rvGlobal \in BOOLEAN /\ rvPending \in BOOLEAN /\ rvMain \in BOOLEAN
        /\ rvLocked \in BOOLEAN /\ rvWanted \in BOOLEAN /\ rvDisturbed \in BOOLEAN
    BY <1>1
  <2> QED
    BY <1>2, <2>1, <2>2 DEF RvTypes
<1>4. RvLevel = 0 /\ RvBase = "main" /\ rvCpu.sp.on = "main"
  BY <1>1 DEF RvLevel, RvBase, MainStack
<1>5. RvNested
  BY <1>1, <1>4 DEF RvNested
<1>6. RvCurrent
  BY <1>1, <1>4 DEF RvCurrent
<1>7. RvRequested /\ RvLocking /\ RvReserving
  BY <1>1 DEF RvRequested, RvLocking, RvReserving
<1>8. RvMasked
  BY <1>1, <1>4 DEF RvMasked
<1>9. RvClaimed
  <2>1. PICK th : th = [i \in 0 .. 0 |-> 0]
    OBVIOUS
  <2>2. th \in [0 .. 0 -> Nat] /\ th[0] = 0
    BY <2>1
  <2>3. RvThresholds(th)
    BY <1>1, <1>4, <2>2 DEF RvThresholds
  <2> QED
    BY <1>1, <1>4, <2>2, <2>3 DEF RvClaimed
<1> QED
  BY <1>3, <1>5, <1>6, <1>7, <1>8, <1>9 DEF RvInv

\* A step that changes nothing keeps it.
LEMMA RvStutterKeeps ==
  ASSUME RvInv, UNCHANGED <<rvVars, plVars>>
  PROVE  RvInv'
<1>1. RvTypes'
  BY DEF RvInv, RvTypes, rvVars, plVars
<1>2. RvNested' /\ RvCurrent' /\ RvBase' = RvBase
  BY RvSameLevels, RvKeepsSaved DEF RvInv, rvVars
<1>3. RvMasked' /\ RvClaimed'
  BY RvSameLevels, RvKeepsLoops DEF RvInv, rvVars, plVars, PlicAsserted
<1>4. RvRequested' /\ RvLocking' /\ RvReserving'
  BY <1>2 DEF RvInv, RvRequested, RvLocking, RvReserving, RvTop, RvLevel, rvVars
<1> QED
  BY <1>1, <1>2, <1>3, <1>4 DEF RvInv

\* Each action keeps it.
LEMMA RvStep ==
  ASSUME RvInv, [RvNext]_<<rvVars, plVars>>
  PROVE  RvInv'
<1>1. CASE \E active \in SUBSET Tasks : RvPortBoot(active)
  BY <1>1, RvPortBootKeeps
<1>2. ASSUME NEW t \in Tasks,
             RvActivate(t) \/ RvYieldBegin(t) \/ RvYieldDispatch(t) \/ RvExit(t) \/ RvEmulate(t)
      PROVE  RvInv'
  BY <1>2, RvActivateKeeps, RvYieldBeginKeeps, RvYieldDispatchKeeps, RvExitKeeps, RvEmulateKeeps
<1>3. CASE RvYieldInHandler \/ RvCpuLock \/ RvUseFp
  BY <1>3, RvYieldInHandlerKeeps, RvCpuLockKeeps, RvUseFpKeeps
<1>4. ASSUME NEW l \in {"S", "T"}, RvRaise(l) \/ RvCallLocal(l)
      PROVE  RvInv'
  BY <1>4, RvLinesKeep, RvCallLocalKeeps
<1>5. ASSUME NEW l \in PlicLines, RvRaiseExternal(l) \/ RvEnableLine(l)
      PROVE  RvInv'
  BY <1>5, RvLinesKeep
<1>6. CASE RvTakeInterrupt \/ RvCallExternal \/ RvHandlerReturns \/ RvLeaveInterrupt
  BY <1>6, RvTakeInterruptKeeps, RvCallExternalKeeps, RvHandlerReturnsKeeps, RvLeaveInterruptKeeps
<1>7. ASSUME NEW l \in {"E", "S", "T"}, RvNextLoop(l)
      PROVE  RvInv'
  BY <1>7, RvNextLoopKeeps
<1>8. CASE UNCHANGED <<rvVars, plVars>>
  BY <1>8, RvStutterKeeps
<1> QED
  BY <1>1, <1>2, <1>3, <1>4, <1>5, <1>6, <1>7, <1>8 DEF RvNext

\* So it always holds.
LEMMA RvInductive ==
  RvSpec => []RvInv
<1>1. RvInit => RvInv
  BY RvInitKeeps
<1>2. RvInv /\ [RvNext]_<<rvVars, plVars>> => RvInv'
  BY RvStep
<1> QED
  BY <1>1, <1>2, PTL DEF RvSpec

-----------------------------------------------------------------------------
(* What the port promises *)

\* It implies that each register bank is that of the code that executes.
LEMMA RvContextHolds ==
  ASSUME RvInv
  PROVE  RvContextIntact
<1>1. RvInThread => rvRunning = RvThread
  BY RvThreadIs DEF RvInv, RvNested
<1>2. ASSUME NEW t \in Tasks, RvInTask(t)
      PROVE  /\ rvCpu.x = t /\ rvCpu.s = t /\ rvCpu.fp = (t \in rvFpUsers)
             /\ rvCpu.fp => rvCpu.f = t /\ rvCpu.fs = t
             /\ rvCpu.sp.frames = IF rvPc[t] = "yield" THEN Push(<<>>, "FLS.X", t) ELSE <<>>
  <2>1. rvMain /\ rvLevels = <<>> /\ RvBase = t /\ t # "zero"
    BY <1>2, RvTaskIs
  <2> QED
    BY <2>1 DEF RvInv, RvCurrent, RvStack
<1>3. ASSUME RvInBody
      PROVE  /\ rvCpu.x = HandlerValue(RvLevel)
             /\ RvTop.usesFp => rvCpu.fp /\ rvCpu.f = HandlerValue(RvLevel)
             /\ rvRunning # NoTask => rvCpu.s = rvRunning
             /\ rvRunning \in rvFpUsers => rvCpu.fs = rvRunning
  <2>1. rvMain /\ rvLevels # <<>>
    BY <1>3, RvThreadIs DEF RvInBody
  <2>2. /\ rvRunning = (IF RvBase = "zero" THEN NoTask ELSE RvBase)
        /\ RvBase # "zero" => rvCpu.s = RvBase /\ (RvBase \in rvFpUsers => rvCpu.fs = RvBase)
    BY <2>1 DEF RvInv, RvNested, RvCurrent
  <2>3. NoTask \notin rvFpUsers
    BY TasksAssumption DEF RvInv, RvTypes
  <2> QED
    BY <2>1, <2>2, <2>3 DEF RvInv, RvCurrent
<1> QED
  BY <1>1, <1>2, <1>3 DEF RvContextIntact

\* What the thread and the handlers of the RISC-V port find in the registers is theirs,
\* and a reservation they hold has not been overlapped by an interrupt.
THEOREM RiscvContextCorrect == RvSpec => [](RvContextIntact /\ RvReservationSound)
<1>1. RvInv => RvReservationSound
  <2> SUFFICES ASSUME RvInv, RvInThread
               PROVE  rvReserved = NoTask \/ (rvReserved = RvThread /\ ~rvDisturbed)
    BY DEF RvReservationSound
  <2>1. rvLevels = <<>> /\ (RvBase # "zero" => RvThread = RvBase)
    BY RvThreadIs
  <2>2. rvReserved = NoTask \/ (rvReserved = RvBase /\ ~rvDisturbed)
    BY <2>1 DEF RvInv, RvReserving
  <2>3. rvReserved # "zero"
    BY RvAssumption DEF RvInv, RvTypes
  <2> QED
    BY <2>1, <2>2, <2>3
<1>2. RvInv => RvContextIntact /\ RvReservationSound
  BY <1>1, RvContextHolds
<1> QED
  BY <1>2, RvInductive, PTL

\* A dispatch that yield_cpu has asked for is made before task code or the idle loop of
\* the RISC-V port runs again.
THEOREM RiscvNoLostDispatchCorrect == RvSpec => []RvNoLostDispatch
<1>1. RvInv => RvNoLostDispatch
  <2> SUFFICES ASSUME RvInv, RvInThread, RvThread = NoTask \/ rvPc[RvThread] # "yield"
               PROVE  ~rvWanted
    BY DEF RvNoLostDispatch
  <2>1. rvMain /\ rvLevels = <<>> /\ RvThread = IF RvBase = "zero" THEN NoTask ELSE RvBase
    BY RvThreadIs
  <2>2. RvBase \in Tasks \cup {"zero"}
    BY <2>1 DEF RvInv, RvTypes, RvNested
  <2>3. ~rvPending
    BY <2>1 DEF RvInv, RvRequested
  <2> QED
    BY <2>1, <2>2, <2>3, TasksAssumption DEF RvInv, RvRequested
<1> QED
  BY <1>1, RvInductive, PTL

\* CPU Lock of the RISC-V port is active exactly when the running code believes it is.
THEOREM RiscvLockHonouredCorrect == RvSpec => []RvLockHonoured
<1>1. RvInv => RvLockHonoured
  <2> SUFFICES ASSUME RvInv, rvMain PROVE rvLocked <=> ~rvGlobal
    BY DEF RvLockHonoured
  <2>1. rvLocked = ~rvGlobal
    BY DEF RvInv, RvLocking
  <2> QED
    BY <2>1
<1> QED
  BY <1>1, RvInductive, PTL

\* Of two handlers the inner one has the higher rank.
LEMMA RvRanks ==
  ASSUME RvInv, NEW i \in 1 .. RvLevel, NEW j \in 1 .. RvLevel, i < j,
         rvLevels[i].run = "body", rvLevels[j].run = "body"
  PROVE  RvRank(rvLevels[i]) < RvRank(rvLevels[j])
<1>0. PICK n \in Nat : n = RvLevel
  <2>1. rvLevels # <<>>
    BY DEF RvLevel
  <2> QED
    BY <2>1, RvTopLevel DEF RvInv
<1>1. rvLevels[i] \in RvLevelType /\ rvLevels[j] \in RvLevelType
  BY DEF RvInv, RvTypes, RvLevel
<1>2. /\ RvRestores(rvLevels[i]) /\ RvRestores(rvLevels[j])
      /\ rvLevels[j].old \subseteq RvEnabledIn(rvLevels[i])
  BY DEF RvInv, RvMasked
<1>3. rvLevels[i].phase \in {"E", "S", "T"} /\ rvLevels[j].phase \in {"E", "S", "T"}
  <2>1. rvLevels[i].phase \in rvLevels[i].old /\ rvLevels[j].phase \in rvLevels[j].old
    BY <1>2 DEF RvRestores
  <2>2. rvLevels[i].old \subseteq RvUsed /\ rvLevels[j].old \subseteq RvUsed
    BY <1>1 DEF RvLevelType
  <2> QED
    BY <2>1, <2>2, RvAssumption
<1>4. rvLevels[j].phase \in RvEnabledIn(rvLevels[i])
  BY <1>2 DEF RvRestores
<1>5. rvLevels[j].phase # "T"
  BY <1>2, <1>4, RvEnabledAbove
<1>6. ASSUME NEW k \in 1 .. RvLevel, rvLevels[k].run = "body", rvLevels[k].phase = "E"
      PROVE  /\ RvServes(rvLevels[k]) /\ RvRank(rvLevels[k]) = 2 + PlicPriority[rvLevels[k].token.line]
             /\ PlicPriority[rvLevels[k].token.line] \in Nat \ {0}
  <2>1. RvServes(rvLevels[k])
    BY <1>6 DEF RvServes
  <2>2. rvLevels[k].token # <<>>
    BY <2>1 DEF RvInv, RvClaimed
  <2>3. rvLevels[k] \in RvLevelType
    BY DEF RvInv, RvTypes, RvLevel
  <2>4. rvLevels[k].token.line \in PlicLines
    BY <2>2, <2>3 DEF RvLevelType
  <2> QED
    BY <1>6, <2>1, <2>4, PlicAssumption DEF RvRank
<1>7. CASE rvLevels[i].phase = "T"
  <2>1. RvRank(rvLevels[i]) = 1
    BY <1>7 DEF RvRank
  <2>2. CASE rvLevels[j].phase = "S"
    <3>1. RvRank(rvLevels[j]) = 2
      BY <2>2 DEF RvRank
    <3> QED
      BY <2>1, <3>1
  <2>3. CASE rvLevels[j].phase = "E"
    BY <1>6, <2>1, <2>3
  <2> QED
    BY <1>3, <1>5, <2>2, <2>3
<1>8. CASE rvLevels[i].phase = "S"
  <2>1. RvRank(rvLevels[i]) = 2
    BY <1>8 DEF RvRank
  <2>2. rvLevels[j].phase = "E"
    BY <1>4, <1>8 DEF RvEnabledIn
  <2> QED
    BY <1>6, <2>1, <2>2
<1>9. CASE rvLevels[i].phase = "E"
  <2>1. rvLevels[j].phase = "E" /\ UseNesting
    BY <1>4, <1>9 DEF RvEnabledIn
  <2>2. PICK th \in [0 .. n -> Nat] : RvThresholds(th)
    BY <1>0 DEF RvInv, RvClaimed
  <2>3. /\ th[i] = PlicPriority[rvLevels[i].token.line]
        /\ th[j] = PlicPriority[rvLevels[j].token.line] /\ th[j - 1] < th[j]
    BY <1>6, <1>9, <2>1, <2>2 DEF RvThresholds
  <2>4. i \in 0 .. n /\ j - 1 \in 0 .. n /\ i <= j - 1 /\ j \in 0 .. n
    BY <1>0
  <2>5. th[i] <= th[j - 1]
    BY <1>0, <2>2, <2>4 DEF RvThresholds
  <2>6. th[i] < th[j]
    BY <2>2, <2>3, <2>4, <2>5
  <2>7. /\ RvRank(rvLevels[i]) = 2 + th[i] /\ RvRank(rvLevels[j]) = 2 + th[j]
        /\ th[i] \in Nat /\ th[j] \in Nat
    BY <1>6, <1>9, <2>1, <2>2, <2>3, <2>4
  <2> QED
    BY <2>6, <2>7
<1> QED
  BY <1>3, <1>7, <1>8, <1>9

\* Beyond the second level only the external line nests, each time for a line of the PLIC
\* of a higher priority.
LEMMA RvDeepLevels ==
  ASSUME RvInv, NEW n \in Nat, n = RvLevel, n > 2
  PROVE  /\ \A i \in 3 .. n : rvLevels[i].old = {"E"}
         /\ \A i \in 3 .. n - 1 : RvServes(rvLevels[i]) /\ UseNesting
<1>1. RvMasked /\ \A i \in 1 .. n : rvLevels[i] \in RvLevelType
  BY DEF RvInv, RvTypes, RvLevel
<1>2. 1 \in 1 .. n /\ 2 \in 1 .. n
  OBVIOUS
<1>3. RvRestores(rvLevels[1]) /\ rvLevels[2].old \subseteq RvEnabledIn(rvLevels[1])
  <2>1. 1 < 2
    OBVIOUS
  <2> QED
    BY <1>1, <1>2, <2>1 DEF RvMasked
<1>4. "T" \notin rvLevels[2].old
  BY <1>3, RvEnabledAbove
<1>5. RvEnabledIn(rvLevels[2]) \subseteq {"E"}
  BY <1>4 DEF RvEnabledIn
<1>6. ASSUME NEW i \in 3 .. n
      PROVE  rvLevels[i].old = {"E"}
  <2>1. i \in 1 .. n /\ 2 < i
    OBVIOUS
  <2>2. RvRestores(rvLevels[i]) /\ rvLevels[i].old \subseteq RvEnabledIn(rvLevels[2])
    BY <1>1, <1>2, <2>1 DEF RvMasked
  <2> QED
    BY <1>5, <2>2 DEF RvRestores
<1>7. ASSUME NEW i \in 3 .. n - 1
      PROVE  RvServes(rvLevels[i]) /\ UseNesting
  <2>1. i \in 3 .. n /\ i + 1 \in 3 .. n /\ i \in 1 .. n /\ i + 1 \in 1 .. n /\ i < i + 1
    OBVIOUS
  <2>2. rvLevels[i].old = {"E"} /\ rvLevels[i + 1].old = {"E"}
    BY <1>6, <2>1
  <2>3. "E" \in RvEnabledIn(rvLevels[i])
    BY <1>1, <2>1, <2>2 DEF RvMasked
  <2> QED
    BY <2>2, <2>3 DEF RvEnabledIn, RvServes
<1> QED
  BY <1>6, <1>7

\* So the depth of nesting, and with it the main stack, is bounded.
LEMMA RvDepth ==
  ASSUME RvInv
  PROVE  RvLevel <= 2 + Cardinality({PlicPriority[l] : l \in PlicLines})
<1> DEFINE P == {PlicPriority[l] : l \in PlicLines}
<1>1. IsFiniteSet(P) /\ Cardinality(P) \in Nat
  <2>1. PICK f : f = [l \in PlicLines |-> PlicPriority[l]]
    OBVIOUS
  <2>2. f \in Surjection(PlicLines, P)
    BY <2>1 DEF Surjection
  <2> QED
    BY <2>2, PlicAssumption, FS_Surjection, FS_CardinalityType
<1>2. PICK n \in Nat : n = RvLevel
  BY DEF RvInv, RvTypes, RvLevel
<1>3. CASE n <= 2
  BY <1>1, <1>2, <1>3
<1>4. CASE n > 2
  <2>1. PICK th \in [0 .. n -> Nat] : RvThresholds(th)
    BY <1>2 DEF RvInv, RvClaimed
  <2>2. \A i, j \in 0 .. n : i <= j => th[i] <= th[j]
    BY <1>2, <2>1 DEF RvThresholds
  <2>3. PICK top \in P : top \in Nat /\ th[n - 1] < top
    <3>1. n \in 1 .. n /\ n \in 3 .. n
      BY <1>4
    <3>2. rvLevels[n].old = {"E"}
      BY <1>2, <1>4, <3>1, RvDeepLevels
    <3>3. PICK l \in PlicLines : th[n - 1] < PlicPriority[l]
      BY <1>2, <2>1, <3>1, <3>2 DEF RvThresholds
    <3> QED
      BY <3>3, PlicAssumption
  <2>4. ASSUME NEW i \in 3 .. n - 1
        PROVE  th[i] \in P /\ th[i - 1] < th[i]
    <3>1. i \in 1 .. n
      BY <1>4
    <3>2. RvServes(rvLevels[i]) /\ UseNesting
      BY <1>2, <1>4, RvDeepLevels
    <3>3. th[i] = PlicPriority[rvLevels[i].token.line] /\ th[i - 1] < th[i]
      BY <1>2, <2>1, <3>1, <3>2 DEF RvThresholds
    <3>4. rvLevels[i].token # <<>> /\ rvLevels[i] \in RvLevelType
      BY <1>2, <3>1, <3>2 DEF RvInv, RvClaimed, RvTypes, RvLevel
    <3>5. rvLevels[i].token.line \in PlicLines
      BY <3>4 DEF RvLevelType
    <3> QED
      BY <3>3, <3>5
  <2>5. PICK g : g = [i \in 3 .. n |-> IF i = n THEN top ELSE th[i]]
    OBVIOUS
  <2>6. \A i \in 3 .. n : g[i] \in P /\ g[i] \in Nat
    <3> SUFFICES ASSUME NEW i \in 3 .. n PROVE g[i] \in P /\ g[i] \in Nat
      OBVIOUS
    <3>1. CASE i = n
      BY <2>3, <2>5, <3>1
    <3>2. CASE i # n
      <4>1. i \in 3 .. n - 1 /\ i \in 0 .. n
        BY <3>2
      <4> QED
        BY <2>1, <2>4, <2>5, <3>2, <4>1
    <3> QED
      BY <3>1, <3>2
  <2>7. ASSUME NEW i \in 3 .. n, NEW j \in 3 .. n, i < j
        PROVE  g[i] < g[j]
    <3>1. i \in 3 .. n - 1 /\ i # n /\ g[i] = th[i] /\ i <= j - 1 /\ i \in 0 .. n /\ j - 1 \in 0 .. n
      BY <2>5, <2>7
    <3>2. th[i] <= th[j - 1] /\ th[i] \in Nat /\ th[j - 1] \in Nat
      BY <2>1, <2>2, <3>1
    <3>3. CASE j = n
      BY <2>3, <2>5, <3>1, <3>2, <3>3
    <3>4. CASE j # n
      <4>1. j \in 3 .. n - 1 /\ j \in 0 .. n /\ g[j] = th[j] /\ th[j] \in Nat
        BY <2>1, <2>5, <3>4
      <4> QED
        BY <2>4, <3>1, <3>2, <4>1
    <3> QED
      BY <3>3, <3>4
  <2>8. g \in Injection(3 .. n, P)
    <3>1. g \in [3 .. n -> P]
      BY <2>5, <2>6
    <3>2. \A i, j \in 3 .. n : g[i] = g[j] => i = j
      <4> SUFFICES ASSUME NEW i \in 3 .. n, NEW j \in 3 .. n, g[i] = g[j], i # j PROVE FALSE
        OBVIOUS
      <4>1. g[i] \in Nat /\ g[j] \in Nat
        BY <2>6
      <4>2. CASE i < j
        <5>1. g[i] < g[j]
          BY <2>7, <4>2
        <5> QED
          BY <4>1, <5>1
      <4>3. CASE j < i
        <5>1. g[j] < g[i]
          BY <2>7, <4>3
        <5> QED
          BY <4>1, <5>1
      <4> QED
        BY <4>2, <4>3
    <3> HIDE DEF P
    <3> QED
      BY <3>1, <3>2 DEF Injection, IsInjective
  <2>9. Cardinality(3 .. n) = n - 2
    <3>1. 3 \in Int /\ n \in Int /\ ~(3 > n) /\ n - 3 + 1 = n - 2
      BY <1>4
    <3> QED
      BY <3>1, FS_Interval
  <2>10. Cardinality(3 .. n) <= Cardinality(P)
    <3> HIDE DEF P
    <3> QED
      BY <1>1, <2>8, FS_Injection
  <2> HIDE DEF P
  <2>11. n <= 2 + Cardinality(P)
    BY <1>1, <2>9, <2>10
  <2> QED
    BY <1>2, <2>11 DEF P
<1> QED
  BY <1>2, <1>3, <1>4

\* Handlers of the RISC-V port are only interrupted by handlers of higher priority, which
\* bounds the main stack; all that they mask or claim is back when a thread runs.
THEOREM RiscvPriorityOrderCorrect == RvSpec => [](RvPriorityOrder /\ RvEnableRestored)
<1>1. ASSUME RvInv PROVE RvPriorityOrder
  <2>1. rvMain => rvNesting = RvLevel - 1
    BY <1>1 DEF RvInv, RvNested
  <2>2. RvLevel <= 2 + Cardinality({PlicPriority[l] : l \in PlicLines})
    BY <1>1, RvDepth
  <2>3. \A i, j \in 1 .. RvLevel :
          i < j /\ rvLevels[i].run = "body" /\ rvLevels[j].run = "body" =>
              RvRank(rvLevels[i]) < RvRank(rvLevels[j])
    BY <1>1, RvRanks
  <2> QED
    BY <2>1, <2>2, <2>3 DEF RvPriorityOrder
<1>2. ASSUME RvInv PROVE RvEnableRestored
  <2> SUFFICES ASSUME RvInThread PROVE rvXie = RvUsed /\ plThreshold = 0 /\ plInService = {}
    BY DEF RvEnableRestored
  <2>1. rvMain /\ rvLevels = <<>> /\ RvLevel = 0
    BY <1>2, RvThreadIs
  <2>2. rvXie = RvUsed /\ plInService = {}
    BY <1>2, <2>1 DEF RvInv, RvMasked, RvClaimed
  <2>3. plThreshold = 0
    BY <1>2, <2>1 DEF RvInv, RvClaimed, RvThresholds
  <2> QED
    BY <2>2, <2>3
<1>3. RvInv => RvPriorityOrder /\ RvEnableRestored
  BY <1>1, <1>2
<1> QED
  BY <1>3, RvInductive, PTL

-----------------------------------------------------------------------------
(* The refinement of PortContract *)

\* The contract: whose callee-saved registers the CPU holds.
RvHolds ==
  /\ rvMain => RvHeld = rvRunning /\ RvLevel = rvNesting + 1
  /\ ~rvMain => RvHeld = "boot" /\ RvLevel = 0
  /\ RvHeld = "boot" <=> ~rvMain
  /\ RvLevel \in Nat /\ rvRunning \in Tasks \cup {NoTask} /\ rvNesting \in Int

\* The types of what the contract sees, and where the handlers are none.
LEMMA RvHeldIs ==
  RvInv => RvHolds
<1> SUFFICES ASSUME RvInv PROVE RvHolds
  OBVIOUS
<1>1. RvLevel \in Nat /\ rvRunning \in Tasks \cup {NoTask} /\ (rvLevels = <<>> <=> RvLevel = 0)
      /\ rvNesting \in Int
  <2>1. rvLevels \in Seq(RvLevelType) /\ RvLevel = Len(rvLevels)
    BY DEF RvInv, RvTypes, RvLevel
  <2>2. RvLevel \in Nat /\ (rvLevels = <<>> <=> RvLevel = 0)
    BY <2>1, LenEmpty
  <2> QED
    BY <2>2 DEF RvInv, RvTypes
<1>2. ~rvMain => RvHeld = "boot" /\ RvLevel = 0
  BY <1>1 DEF RvHeld, RvInv, RvNested
<1>3. ASSUME rvMain
      PROVE  RvHeld = rvRunning /\ RvLevel = rvNesting + 1
  <2>1. RvHeld = IF RvBase = "zero" THEN NoTask ELSE rvCpu.s
    BY <1>1, <1>3 DEF RvHeld, RvBase
  <2>2. /\ rvRunning = (IF RvBase = "zero" THEN NoTask ELSE RvBase)
        /\ RvBase # "zero" => rvCpu.s = RvBase
        /\ rvNesting = RvLevel - 1
    BY <1>3 DEF RvInv, RvNested, RvCurrent
  <2> QED
    BY <1>1, <2>1, <2>2
<1> QED
  BY <1>1, <1>2, <1>3, TasksAssumption DEF RvHolds

\* The same after a step.
LEMMA RvHeldNext ==
  RvInv' => RvHolds'
<1>1. RvInv => RvHolds
  BY RvHeldIs
<1> QED
  BY <1>1, PTL

\* Calls of choose_running_task are steps of the contract.
LEMMA RvContractChooses ==
  ASSUME RvInv, RvInv', rvMain, rvMain', RvLevel = 0 \/ RvLevel = 1, rvLevels' = <<>>,
         rvWanted' = FALSE
  PROVE  RvContract!ContractNext
<1>1. /\ RvHeld # "boot" /\ RvHeld' = rvRunning' /\ RvLevel' = 0
      /\ rvRunning' \in Tasks \cup {NoTask}
  BY RvHeldIs, RvHeldNext DEF RvHolds, RvLevel
<1>2. RvContract!Choose
  <2>1. PICK n \in Tasks \cup {NoTask} : n = rvRunning'
    BY <1>1
  <2> QED
    BY <1>1, <2>1 DEF RvContract!Choose, RvContract!Threads
<1> QED
  BY <1>2 DEF RvContract!ContractNext

\* Steps that change nothing of it are stutters, ...
LEMMA RvContractStutters ==
  ASSUME RvInv, RvInv', UNCHANGED <<rvMain, rvNesting, rvRunning, rvWanted>>
  PROVE  UNCHANGED RvContract!contractVars
<1>1. RvHeld' = RvHeld /\ RvLevel' = RvLevel
  <2>1. CASE rvMain
    BY <2>1, RvHeldIs, RvHeldNext DEF RvHolds
  <2>2. CASE ~rvMain
    BY <2>2, RvHeldIs, RvHeldNext DEF RvHolds
  <2> QED
    BY <2>1, <2>2
<1> QED
  BY <1>1 DEF RvContract!contractVars

\* ... and each step is a step of the contract or a stutter.
LEMMA RvContractStep ==
  ASSUME RvInv, RvNext
  PROVE  [RvContract!ContractNext]_(RvContract!contractVars)
<1>0. RvInv'
  BY RvStep
<1>1. ASSUME NEW active \in SUBSET Tasks, RvPortBoot(active)
      PROVE  RvContract!ContractNext
  <2>1. ~rvMain /\ rvMain' /\ rvLevels' = rvLevels /\ rvWanted' = FALSE
    BY <1>1, RvPortBootKeeps DEF RvPortBoot
  <2>2. /\ RvHeld = "boot" /\ RvHeld' = rvRunning' /\ RvLevel' = RvLevel
        /\ rvRunning' \in Tasks \cup {NoTask}
    BY <1>0, <2>1, RvHeldIs, RvHeldNext DEF RvHolds, RvLevel
  <2>3. RvContract!Start
    <3>1. PICK n \in Tasks \cup {NoTask} : n = rvRunning'
      BY <2>2
    <3> QED
      BY <2>1, <2>2, <3>1 DEF RvContract!Start, RvContract!Threads
  <2> QED
    BY <2>3 DEF RvContract!ContractNext
<1>2. ASSUME NEW t \in Tasks, RvYieldDispatch(t) \/ RvExit(t)
      PROVE  RvContract!ContractNext
  <2>1. RvInTask(t) /\ rvLevels' = rvLevels /\ rvMain' = rvMain /\ rvWanted' = FALSE
    <3>1. CASE RvYieldDispatch(t)
      BY <3>1, RvYieldDispatchKeeps DEF RvYieldDispatch
    <3>2. CASE RvExit(t)
      BY <3>2, RvExitKeeps DEF RvExit
    <3> QED
      BY <1>2, <3>1, <3>2
  <2>2. rvMain /\ rvMain' /\ rvLevels' = <<>> /\ RvLevel = 0
    BY <2>1, RvTaskIs
  <2> QED
    BY <1>0, <2>1, <2>2, RvContractChooses
<1>3. ASSUME RvYieldInHandler \/ \E t \in Tasks : RvYieldBegin(t)
      PROVE  RvContract!ContractNext
  <2>1. rvMain /\ UNCHANGED <<rvMain, rvNesting, rvRunning>> /\ rvWanted' = TRUE
    <3>1. CASE RvYieldInHandler
      BY <3>1, RvThreadIs DEF RvYieldInHandler, RvInBody
    <3>2. ASSUME NEW t \in Tasks, RvYieldBegin(t)
          PROVE  rvMain /\ UNCHANGED <<rvMain, rvNesting, rvRunning>> /\ rvWanted' = TRUE
      BY <3>2, RvTaskIs DEF RvYieldBegin
    <3> QED
      BY <1>3, <3>1, <3>2
  <2>2. RvHeld' = RvHeld /\ RvLevel' = RvLevel /\ RvHeld # "boot"
    BY <1>0, <2>1, RvHeldIs, RvHeldNext DEF RvHolds
  <2>3. RvContract!Request
    BY <2>1, <2>2 DEF RvContract!Request
  <2> QED
    BY <2>3 DEF RvContract!ContractNext
<1>4. ASSUME RvTakeInterrupt
      PROVE  RvContract!ContractNext
  <2>1. rvMain /\ UNCHANGED <<rvMain, rvRunning, rvWanted>> /\ rvNesting' = RvLevel /\ RvLevel \in Nat
    BY <1>4, RvTakeInterruptIs
  <2>2. RvHeld' = RvHeld /\ RvLevel' = RvLevel + 1 /\ RvHeld # "boot"
    BY <1>0, <2>1, RvHeldIs, RvHeldNext DEF RvHolds
  <2>3. RvContract!TakeInterrupt
    BY <2>1, <2>2 DEF RvContract!TakeInterrupt
  <2> QED
    BY <2>3 DEF RvContract!ContractNext
<1>5. ASSUME RvLeaveInterrupt
      PROVE  RvContract!ContractNext
  <2>1. rvMain /\ rvMain' /\ rvLevels # <<>> /\ rvNesting' = rvNesting - 1
    BY <1>5, RvLoopIs DEF RvLeaveInterrupt, LeaveTrap
  <2>2. /\ RvHeld = rvRunning /\ RvHeld' = rvRunning' /\ RvLevel' = RvLevel - 1 /\ RvLevel \in Nat
        /\ RvLevel > 0 /\ rvNesting' = RvLevel' - 1
    <3>1. RvLevel > 0 /\ RvLevel \in Nat
      BY <2>1, RvTopLevel DEF RvInv
    <3>2. /\ RvHeld = rvRunning /\ RvHeld' = rvRunning' /\ RvLevel = rvNesting + 1
          /\ RvLevel' = rvNesting' + 1 /\ RvLevel' \in Nat
      BY <1>0, <2>1, RvHeldIs, RvHeldNext DEF RvHolds
    <3>3. rvNesting \in Int /\ rvNesting' \in Int
      BY <1>0 DEF RvInv, RvTypes
    <3> QED
      BY <2>1, <3>1, <3>2, <3>3
  <2>3. CASE RvLevel # 1
    <3>1. UNCHANGED <<rvRunning, rvWanted>>
      BY <1>5, <2>3, RvLeaveNestedKeeps
    <3>2. RvContract!LeaveInterrupt
      BY <2>2, <2>3, <3>1 DEF RvContract!LeaveInterrupt
    <3> QED
      BY <3>2 DEF RvContract!ContractNext
  <2>4. CASE RvLevel = 1
    <3>1. /\ rvLevels' = <<>>
          /\ UNCHANGED <<rvWanted, rvRunning>> \/ rvWanted' = FALSE
      BY <1>5, <2>4, RvLeaveToThreadKeeps
    <3>2. CASE UNCHANGED <<rvWanted, rvRunning>>
      <4>1. RvContract!LeaveInterrupt
        BY <2>2, <2>4, <3>2 DEF RvContract!LeaveInterrupt
      <4> QED
        BY <4>1 DEF RvContract!ContractNext
    <3>3. CASE rvWanted' = FALSE
      BY <1>0, <2>1, <2>4, <3>1, <3>3, RvContractChooses
    <3> QED
      BY <3>1, <3>2, <3>3
  <2> QED
    BY <2>3, <2>4
<1>6. ASSUME NEW t \in Tasks, RvActivate(t) \/ RvEmulate(t)
      PROVE  UNCHANGED RvContract!contractVars
  <2>1. UNCHANGED <<rvMain, rvNesting, rvRunning, rvWanted>>
    <3>1. CASE RvActivate(t)
      BY <3>1 DEF RvActivate
    <3>2. CASE RvEmulate(t)
      BY <3>2, RvEmulateKeeps DEF RvEmulate
    <3> QED
      BY <1>6, <3>1, <3>2
  <2> QED
    BY <1>0, <2>1, RvContractStutters
<1>7. ASSUME RvCpuLock \/ RvUseFp \/ RvCallExternal \/ RvHandlerReturns
      PROVE  UNCHANGED RvContract!contractVars
  <2>1. UNCHANGED <<rvMain, rvNesting, rvRunning, rvWanted>>
    BY <1>7 DEF RvCpuLock, RvUseFp, RvCallExternal, RvHandlerReturns
  <2> QED
    BY <1>0, <2>1, RvContractStutters
<1>8. ASSUME NEW l \in {"S", "T"}, RvRaise(l) \/ RvCallLocal(l)
      PROVE  UNCHANGED RvContract!contractVars
  <2>1. UNCHANGED <<rvMain, rvNesting, rvRunning, rvWanted>>
    BY <1>8 DEF RvRaise, RvCallLocal
  <2> QED
    BY <1>0, <2>1, RvContractStutters
<1>9. ASSUME NEW l \in PlicLines, RvRaiseExternal(l) \/ RvEnableLine(l)
      PROVE  UNCHANGED RvContract!contractVars
  <2>1. UNCHANGED <<rvMain, rvNesting, rvRunning, rvWanted>>
    BY <1>9 DEF RvRaiseExternal, RvEnableLine, rvVars
  <2> QED
    BY <1>0, <2>1, RvContractStutters
<1>10. ASSUME NEW l \in {"E", "S", "T"}, RvNextLoop(l)
       PROVE  UNCHANGED RvContract!contractVars
  <2>1. UNCHANGED <<rvMain, rvNesting, rvRunning, rvWanted>>
    BY <1>10 DEF RvNextLoop
  <2> QED
    BY <1>0, <2>1, RvContractStutters
<1> QED
  BY <1>1, <1>2, <1>3, <1>4, <1>5, <1>6, <1>7, <1>8, <1>9, <1>10 DEF RvNext

\* Contexts of the RISC-V port change hands only in choose_running_task, with no handler
\* left to resume: the port keeps the contract the kernel is written against.
THEOREM RiscvKeepsContract == RvSpec => RvKeepsContract
<1>1. RvInit => RvContract!ContractInit
  <2> SUFFICES ASSUME RvInit PROVE RvContract!ContractInit
    OBVIOUS
  <2>1. RvHeld = "boot" /\ RvLevel = 0
    BY RvInitKeeps, RvHeldIs DEF RvInit, RvHolds
  <2> QED
    BY <2>1 DEF RvInit, RvContract!ContractInit
<1>2. RvInv /\ [RvNext]_<<rvVars, plVars>> => [RvContract!ContractNext]_(RvContract!contractVars)
  <2> SUFFICES ASSUME RvInv, [RvNext]_<<rvVars, plVars>>
               PROVE  [RvContract!ContractNext]_(RvContract!contractVars)
    OBVIOUS
  <2>1. CASE UNCHANGED <<rvVars, plVars>>
    BY <2>1, RvStutterKeeps, RvContractStutters DEF rvVars
  <2> QED
    BY <2>1, RvContractStep
<1> QED
  BY <1>1, <1>2, RvInitKeeps, RvStep, PTL DEF RvSpec, RvKeepsContract, RvContract!ContractSpec
=============================================================================

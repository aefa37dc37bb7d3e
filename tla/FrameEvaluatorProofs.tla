------------------------ MODULE FrameEvaluatorProofs ------------------------
(***************************************************************************)
(* Theorems about FrameEvaluator, for any threads, functions, generators,  *)
(* breakpoints and bounds, with function breakpoints and with exception    *)
(* breakpoints or without.                                                 *)
(***************************************************************************)
EXTENDS FrameEvaluator, SequenceTheorems, TLAPS

USE FrameEvaluatorAssumption

-----------------------------------------------------------------------------
(***************************************************************************)
(* Types: what TypeOK says, and what a step needs to keep it.  A thread    *)
(* that is not evaluating has nothing in ev, a trace function works for a  *)
(* frame, and a line of it is under way where "line" or "needs" is.        *)
(***************************************************************************)
Evaluating == {"evaluate", "lookup", "insert", "enter"}
AtLine     == {"line", "needs"}
FuncCodeInfo == [skip : BOOLEAN, found : BOOLEAN, new : CodeObjects \cup {NoCode}]
EvaluationType == [frame : FrameType \cup {NoFrame}, current : BOOLEAN, paused : BOOLEAN,
                   lines : SUBSET Lines]

StackTypes ==
    /\ stack \in [Threads -> Seq(FrameType)]
    /\ \A t \in Threads : Depth(t) <= MaxDepth
ThreadTypes ==
    /\ pc \in [Threads -> Evaluating \cup AtLine \cup {"run", "call", "wait", "raised"}]
    /\ ev \in [Threads -> EvaluationType]
    /\ state \in [Threads -> {"run", "suspend"}] /\ step \in [Threads -> BOOLEAN]
    /\ marks = [t \in Threads |-> marks[t]]
DebuggerTypes ==
    /\ parked \in FrameType \cup {NoFrame}
    /\ bps \subseteq BreakLocations /\ settled \subseteq bps /\ listed \in BOOLEAN
    /\ extra \in [CodeObjects -> FuncCodeInfo]
    /\ fresh \subseteq CodeObjects /\ generated \subseteq CodeObjects
    /\ cmd \in {"idle", "added", "trace"}
PlaceOf(t) ==
    /\ pc[t] \in Evaluating => Depth(t) < MaxDepth /\ ev[t].frame \in FrameType
    /\ pc[t] \notin Evaluating => ev[t] = NoEvaluation
    /\ pc[t] \in AtLine \cup {"call", "wait"} => Depth(t) > 0
PlaceInv == \A t \in Threads : PlaceOf(t)

TypeInv == StackTypes /\ ThreadTypes /\ DebuggerTypes /\ PlaceInv

(***************************************************************************)
(* Breakpoints, steps and pauses.                                          *)
(***************************************************************************)
\* The frame f is traced, or calls pydevd at the lines of locations.
Covered(f, locations) ==
    f.trace = "dispatch" \/ LinesOf(f.code.fn, locations) \subseteq f.code.breaks
\* The doubts about a frame are the cases in which nothing is promised for it.
Right(f, locations, stepping, pausing) ==
    f.code.fn \notin Internal =>
        /\ f.doubts \cap {"moved", "thrown", "blind"} = {} => Covered(f, locations)
        /\ stepping /\ f.doubts \cap {"moved", "thrown"} = {} => f.trace = "dispatch"
        /\ pausing /\ f.doubts \cap {"moved", "thrown", "late"} = {} => f.trace = "dispatch"
Stepping(t) == step[t] /\ state[t] = "run"
Pausing(t)  == state[t] = "suspend" /\ pc[t] # "wait"
FrameOf(t, f) == Right(f, settled, Stepping(t), Pausing(t))
StackInv == \A t \in Threads : \A d \in 1 .. Depth(t) : FrameOf(t, stack[t][d])

\* A FuncCodeInfo that counts as fresh knows all breakpoints, and so does an
\* evaluation during which the mtime has not changed.
Knows(o, info) ==
    /\ info.skip => o.fn \in Internal
    /\ ~info.skip /\ ~info.found => LinesOf(o.fn, bps) = {}
    /\ info.new # NoCode => info.new.fn = o.fn /\ LinesOf(o.fn, bps) \subseteq info.new.breaks
CacheInv == \A o \in fresh : Knows(o, extra[o])

LatePause(t) == ev[t].paused /\ state[t] = "suspend"
EvaluationOf(t) ==
    LET e == ev[t] IN
    /\ pc[t] \in {"lookup", "insert"} => (step[t] => LatePause(t))
    /\ pc[t] = "insert" =>
           /\ e.frame.code.fn \notin Internal
           /\ e.current => e.lines = LinesOf(e.frame.code.fn, bps)
    /\ pc[t] = "enter" /\ e.frame.code.fn \notin Internal =>
           /\ e.current /\ "moved" \notin e.frame.doubts => Covered(e.frame, bps)
           /\ step[t] /\ ~LatePause(t) => e.frame.trace = "dispatch"
EvaluationInv == \A t \in Threads : EvaluationOf(t)

\* A thread that has to stop where it is has come to the trace function, or to the
\* inserted call that leads there, and what it has to stop for is still there.
MarkOf(t) ==
    /\ marks[t] \cap {"breakpoint", "step", "pause"} # {} => Depth(t) > 0 /\ Top(t).code.fn \notin Internal
    /\ "breakpoint" \in marks[t] => pc[t] \in AtLine /\ LocationOf(Top(t)) \in bps
    /\ "step" \in marks[t] => pc[t] = "line" /\ step[t]
    /\ "pause" \in marks[t] => pc[t] = "line" /\ state[t] = "suspend"
    /\ state[t] = "suspend" => step[t]
MarkInv == \A t \in Threads : MarkOf(t)

StopInv == TypeInv /\ StackInv /\ CacheInv /\ EvaluationInv /\ MarkInv

LEMMA TypeInvImpliesTypeOK == TypeInv => TypeOK
<1> SUFFICES ASSUME TypeInv PROVE TypeOK
    OBVIOUS
<1>1. ASSUME NEW t \in Threads
      PROVE  /\ Depth(t) <= MaxDepth /\ \A d \in 1 .. Depth(t) : stack[t][d] \in FrameType
             /\ pc[t] \in Evaluating <=> ev[t] # NoEvaluation
  <2>1. Depth(t) <= MaxDepth /\ \A d \in 1 .. Depth(t) : stack[t][d] \in FrameType
    BY DEF TypeInv, StackTypes, Depth
  <2>2. NoFrame \notin FrameType
    BY DEF NoFrame, FrameType, NoCode, CodeObjects
  <2>3. PlaceOf(t)
    BY DEF TypeInv, PlaceInv
  <2> QED
    BY <2>1, <2>2, <2>3 DEF PlaceOf, NoEvaluation
<1>2. /\ parked \in FrameType \cup {NoFrame}
      /\ settled \subseteq bps /\ bps \subseteq BreakLocations
      /\ fresh \subseteq CodeObjects /\ generated \subseteq CodeObjects
    BY DEF TypeInv, DebuggerTypes
<1>3. /\ pc \in [Threads -> {"run", "evaluate", "lookup", "insert", "enter", "call", "line",
                             "needs", "wait", "raised"}]
      /\ state \in [Threads -> {"run", "suspend"}] /\ step \in [Threads -> BOOLEAN]
    BY DEF TypeInv, ThreadTypes, Evaluating, AtLine
<1> QED
    BY <1>1, <1>2, <1>3 DEF TypeOK, Evaluating

-----------------------------------------------------------------------------
(***************************************************************************)
(* What the steps do to the stacks.                                        *)
(***************************************************************************)
LEMMA StackFacts ==
    ASSUME StackTypes, NEW t \in Threads
    PROVE  /\ stack[t] \in Seq(FrameType) /\ Depth(t) \in Nat /\ Depth(t) <= MaxDepth
           /\ DOMAIN stack[t] = 1 .. Depth(t)
           /\ \A d \in 1 .. Depth(t) : stack[t][d] \in FrameType
           /\ Depth(t) > 0 => Top(t) \in FrameType
BY DEF StackTypes, Depth, Top

\* the stacks of the other threads are as they were
OthersKept(t) == \A u \in Threads : u # t => stack'[u] = stack[u] /\ Depth(u)' = Depth(u)
\* and the frames of t up to the depth n
CallersKept(t, n) == \A d \in 1 .. n : stack'[t][d] = stack[t][d]

LEMMA Changed ==
    ASSUME StackTypes, NEW t \in Threads, NEW s \in Seq(FrameType), Len(s) <= MaxDepth,
           stack' = [stack EXCEPT ![t] = s]
    PROVE  StackTypes' /\ OthersKept(t) /\ stack'[t] = s /\ Depth(t)' = Len(s)
<1>1. stack \in [Threads -> Seq(FrameType)] /\ \A u \in Threads : Depth(u) <= MaxDepth
    BY DEF StackTypes
<1>2. /\ stack' \in [Threads -> Seq(FrameType)] /\ stack'[t] = s
      /\ \A u \in Threads : u # t => stack'[u] = stack[u]
    BY <1>1
<1>3. /\ Depth(t)' = Len(s)
      /\ \A u \in Threads : u # t => Depth(u)' = Depth(u)
    BY <1>2 DEF Depth
<1>4. \A u \in Threads : Depth(u)' <= MaxDepth
    BY <1>1, <1>3
<1> QED
    BY <1>2, <1>3, <1>4 DEF StackTypes, OthersKept

\* a frame comes on top
LEMMA Pushed ==
    ASSUME StackTypes, NEW t \in Threads, NEW f \in FrameType, Depth(t) < MaxDepth,
           stack' = [stack EXCEPT ![t] = Append(@, f)]
    PROVE  /\ StackTypes' /\ OthersKept(t) /\ CallersKept(t, Depth(t))
           /\ Depth(t)' = Depth(t) + 1 /\ Top(t)' = f
<1> DEFINE s == Append(stack[t], f)
<1>1. stack[t] \in Seq(FrameType) /\ Depth(t) \in Nat
    BY StackFacts
<1>2. /\ s \in Seq(FrameType) /\ Len(s) = Depth(t) + 1 /\ s[Len(s)] = f
      /\ \A d \in 1 .. Depth(t) : s[d] = stack[t][d]
    BY <1>1 DEF Depth
<1>3. stack' = [stack EXCEPT ![t] = s] /\ Len(s) <= MaxDepth
    BY <1>1, <1>2
<1> HIDE DEF s
<1>4. StackTypes' /\ OthersKept(t) /\ stack'[t] = s /\ Depth(t)' = Len(s)
    BY <1>2, <1>3, Changed
<1> QED
    BY <1>2, <1>4 DEF CallersKept, Top

\* the innermost frame is left
LEMMA Popped ==
    ASSUME StackTypes, NEW t \in Threads, Depth(t) > 0,
           stack' = [stack EXCEPT ![t] = SubSeq(@, 1, Depth(t) - 1)]
    PROVE  /\ StackTypes' /\ OthersKept(t) /\ CallersKept(t, Depth(t) - 1)
           /\ Depth(t)' = Depth(t) - 1
<1> DEFINE s == SubSeq(stack[t], 1, Depth(t) - 1)
<1>1. stack[t] \in Seq(FrameType) /\ Depth(t) \in Nat /\ Depth(t) <= MaxDepth
    BY StackFacts
<1>2. /\ s \in Seq(FrameType) /\ Len(s) = Depth(t) - 1
      /\ \A d \in 1 .. Depth(t) - 1 : s[d] = stack[t][d]
    BY <1>1 DEF Depth
<1>3. Len(s) <= MaxDepth /\ stack' = [stack EXCEPT ![t] = s]
    BY <1>1, <1>2
<1> HIDE DEF s
<1>4. StackTypes' /\ OthersKept(t) /\ stack'[t] = s /\ Depth(t)' = Len(s)
    BY <1>2, <1>3, Changed
<1> QED
    BY <1>2, <1>4 DEF CallersKept

\* the innermost frame becomes f
LEMMA TopSet ==
    ASSUME StackTypes, NEW t \in Threads, Depth(t) > 0, NEW f \in FrameType,
           stack' = [stack EXCEPT ![t] = [stack[t] EXCEPT ![Depth(t)] = f]]
    PROVE  /\ StackTypes' /\ OthersKept(t) /\ CallersKept(t, Depth(t) - 1)
           /\ Depth(t)' = Depth(t) /\ Top(t)' = f
<1> DEFINE s == [stack[t] EXCEPT ![Depth(t)] = f]
<1>1. /\ stack[t] \in Seq(FrameType) /\ Depth(t) \in Nat /\ Depth(t) <= MaxDepth
      /\ Depth(t) \in 1 .. Len(stack[t]) /\ DOMAIN stack[t] = 1 .. Depth(t)
    BY StackFacts DEF Depth
<1>2. s \in Seq(FrameType) /\ Len(s) = Depth(t)
    BY <1>1, ExceptSeq DEF Depth
<1>3. /\ s[Depth(t)] = f
      /\ \A d \in 1 .. Depth(t) - 1 : s[d] = stack[t][d]
    BY <1>1
<1> HIDE DEF s
<1>4. StackTypes' /\ OthersKept(t) /\ stack'[t] = s /\ Depth(t)' = Len(s)
    BY <1>1, <1>2, Changed DEF s
<1> QED
    BY <1>2, <1>3, <1>4 DEF CallersKept, Top

\* set_trace_for_frame_and_parents()
TracedFrame(f) ==
    IF f.code.fn \in Internal THEN f
    ELSE [f EXCEPT !.trace = "dispatch", !.doubts = @ \cap {"moved"}]

LEMMA TracedFacts ==
    ASSUME NEW frames \in Seq(FrameType)
    PROVE  /\ Traced(frames) \in Seq(FrameType) /\ Len(Traced(frames)) = Len(frames)
           /\ \A d \in 1 .. Len(frames) : Traced(frames)[d] = TracedFrame(frames[d])
<1>1. /\ DOMAIN frames = 1 .. Len(frames) /\ Len(frames) \in Nat
      /\ \A d \in 1 .. Len(frames) : frames[d] \in FrameType
    OBVIOUS
<1>2. Traced(frames) = [d \in 1 .. Len(frames) |-> TracedFrame(frames[d])]
    BY <1>1 DEF Traced, TracedFrame
<1>3. \A d \in 1 .. Len(frames) : TracedFrame(frames[d]) \in FrameType
    BY <1>1 DEF TracedFrame, FrameType
<1>4. Traced(frames) \in Seq(FrameType) /\ Len(Traced(frames)) = Len(frames)
    BY <1>1, <1>2, <1>3
<1> QED
    BY <1>1, <1>2, <1>4

\* the frames of the threads in S are traced
LEMMA TracedStacks ==
    ASSUME StackTypes, NEW S \in SUBSET Threads,
           stack' = [t \in Threads |-> IF t \in S THEN Traced(stack[t]) ELSE stack[t]]
    PROVE  /\ StackTypes'
           /\ \A t \in Threads :
                 /\ Depth(t)' = Depth(t)
                 /\ t \notin S => stack'[t] = stack[t]
                 /\ t \in S => \A d \in 1 .. Depth(t) : stack'[t][d] = TracedFrame(stack[t][d])
                 /\ t \in S /\ Depth(t) > 0 => Top(t)' = TracedFrame(Top(t))
<1>1. ASSUME NEW t \in Threads
      PROVE  /\ stack'[t] \in Seq(FrameType) /\ Depth(t)' = Depth(t) /\ Depth(t)' <= MaxDepth
             /\ t \notin S => stack'[t] = stack[t]
             /\ t \in S => \A d \in 1 .. Depth(t) : stack'[t][d] = TracedFrame(stack[t][d])
             /\ t \in S /\ Depth(t) > 0 => Top(t)' = TracedFrame(Top(t))
  <2>1. stack[t] \in Seq(FrameType) /\ Depth(t) \in Nat /\ Depth(t) <= MaxDepth
    BY StackFacts
  <2>2. stack'[t] = IF t \in S THEN Traced(stack[t]) ELSE stack[t]
    OBVIOUS
  <2>3. /\ stack'[t] \in Seq(FrameType) /\ Depth(t)' = Depth(t)
        /\ t \in S => \A d \in 1 .. Depth(t) : stack'[t][d] = TracedFrame(stack[t][d])
    BY <2>1, <2>2, TracedFacts DEF Depth
  <2> QED
    BY <2>1, <2>2, <2>3 DEF Top
<1>2. stack' \in [Threads -> Seq(FrameType)]
    BY <1>1
<1> QED
    BY <1>1, <1>2 DEF StackTypes

-----------------------------------------------------------------------------
(***************************************************************************)
(* Every step keeps the types.                                             *)
(***************************************************************************)
\* what the other threads are doing is as it was
OthersRest(t) == \A u \in Threads : u # t => pc'[u] = pc[u] /\ ev'[u] = ev[u]

LEMMA PlaceKept ==
    ASSUME TypeInv, NEW t \in Threads, OthersKept(t), OthersRest(t), PlaceOf(t)'
    PROVE  PlaceInv'
<1> SUFFICES ASSUME NEW u \in Threads PROVE PlaceOf(u)'
    BY DEF PlaceInv
<1>1. PlaceOf(u)
    BY DEF TypeInv, PlaceInv
<1> QED
    BY <1>1 DEF PlaceOf, OthersKept, OthersRest

\* one thread goes to p
LEMMA Gone ==
    ASSUME TypeInv, NEW t \in Threads,
           NEW p \in Evaluating \cup AtLine \cup {"run", "call", "wait", "raised"}, Go(t, p)
    PROVE  /\ pc' \in [Threads -> Evaluating \cup AtLine \cup {"run", "call", "wait", "raised"}]
           /\ pc'[t] = p /\ \A u \in Threads : u # t => pc'[u] = pc[u]
BY DEF TypeInv, ThreadTypes, Go

\* the frame that t evaluates becomes f
LEMMA EvaluationSet ==
    ASSUME TypeInv, NEW t \in Threads, NEW f \in FrameType, ev' = [ev EXCEPT ![t].frame = f]
    PROVE  /\ ev' \in [Threads -> EvaluationType] /\ ev'[t] = [ev[t] EXCEPT !.frame = f]
           /\ \A u \in Threads : u # t => ev'[u] = ev[u]
<1>1. ev \in [Threads -> EvaluationType] /\ ev[t] \in EvaluationType
    BY DEF TypeInv, ThreadTypes
<1>2. [ev[t] EXCEPT !.frame = f] \in EvaluationType
    BY <1>1 DEF EvaluationType
<1>3. ev' = [ev EXCEPT ![t] = [ev[t] EXCEPT !.frame = f]]
    BY <1>1
<1> HIDE DEF EvaluationType
<1> QED
    BY <1>1, <1>2, <1>3

\* the evaluation of t is over, or was none
LEMMA NoEvaluationTyped == NoEvaluation \in EvaluationType
BY DEF NoEvaluation, EvaluationType, NoFrame

LEMMA Begins ==
    ASSUME TypeInv, NEW t \in Threads, pc[t] = "run", Depth(t) < MaxDepth, NEW f \in FrameType,
           ev' = [ev EXCEPT ![t].frame = f], Go(t, "evaluate"),
           marks' = [marks EXCEPT ![t] = {}], UNCHANGED <<stack, state, step>>
    PROVE  StackTypes' /\ ThreadTypes' /\ PlaceInv'
<1>1. /\ ev' \in [Threads -> EvaluationType] /\ ev'[t].frame = f
      /\ \A u \in Threads : u # t => ev'[u] = ev[u]
  <2>1. ev[t] \in EvaluationType
    BY DEF TypeInv, ThreadTypes
  <2>2. [ev[t] EXCEPT !.frame = f].frame = f
    BY <2>1 DEF EvaluationType
  <2> QED
    BY <2>2, EvaluationSet
<1>2. /\ pc' \in [Threads -> Evaluating \cup AtLine \cup {"run", "call", "wait", "raised"}]
      /\ pc'[t] = "evaluate" /\ \A u \in Threads : u # t => pc'[u] = pc[u]
    BY Gone DEF Evaluating
<1>3. StackTypes' /\ OthersKept(t) /\ Depth(t)' = Depth(t)
    BY DEF TypeInv, StackTypes, OthersKept, Depth
<1>4. ThreadTypes'
    BY <1>1, <1>2 DEF TypeInv, ThreadTypes
<1>5. PlaceOf(t)'
    BY <1>1, <1>2, <1>3 DEF PlaceOf, Evaluating, AtLine
<1> QED
    BY <1>1, <1>2, <1>3, <1>4, <1>5, PlaceKept DEF OthersRest

LEMMA OriginalTyped ==
    ASSUME NEW c \in Functions
    PROVE  [NoFrame EXCEPT !.code = Original(c)] \in FrameType
BY DEF NoFrame, Original, FrameType, CodeObjects

LEMMA CallTypes == \A t \in Threads, c \in Functions : TypeInv /\ Call(t, c) => TypeInv'
<1> SUFFICES ASSUME NEW t \in Threads, NEW c \in Functions, TypeInv, Call(t, c) PROVE TypeInv'
    OBVIOUS
<1>1. StackTypes' /\ ThreadTypes' /\ PlaceInv'
    BY OriginalTyped, Begins DEF Call
<1>2. DebuggerTypes'
    BY DEF TypeInv, DebuggerTypes, Call, codes
<1> QED
    BY <1>1, <1>2 DEF TypeInv

LEMMA ResumeTypes == \A t \in Threads : TypeInv /\ Resume(t) => TypeInv'
<1> SUFFICES ASSUME NEW t \in Threads, TypeInv, Resume(t) PROVE TypeInv'
    OBVIOUS
<1>1. parked \in FrameType
    BY DEF TypeInv, DebuggerTypes, Resume
<1>2. StackTypes' /\ ThreadTypes' /\ PlaceInv'
    BY <1>1, Begins DEF Resume
<1>3. DebuggerTypes'
    BY DEF TypeInv, DebuggerTypes, Resume, codes
<1> QED
    BY <1>2, <1>3 DEF TypeInv

\* the frame is on the stack, with the trace function it had
Entered(f) == [f EXCEPT !.trace = IF @ = "off" THEN "none" ELSE @]

LEMMA EnteredTyped ==
    ASSUME NEW f \in FrameType
    PROVE  /\ Entered(f) \in FrameType /\ Entered(f).code = f.code /\ Entered(f).line = f.line
           /\ Entered(f).doubts = f.doubts
           /\ Entered(f).trace = "dispatch" <=> f.trace = "dispatch"
BY DEF Entered, FrameType

LEMMA ExecuteFacts ==
    ASSUME TypeInv, NEW t \in Threads, NEW f \in FrameType, Depth(t) < MaxDepth, Execute(t, f)
    PROVE  /\ StackTypes' /\ OthersKept(t) /\ CallersKept(t, Depth(t))
           /\ Depth(t)' = Depth(t) + 1 /\ Top(t)' = Entered(f)
           /\ pc' \in [Threads -> Evaluating \cup AtLine \cup {"run", "call", "wait", "raised"}]
           /\ ev' \in [Threads -> EvaluationType]
           /\ pc'[t] = (IF f.trace = "dispatch" THEN "call" ELSE "run") /\ ev'[t] = NoEvaluation
           /\ OthersRest(t) /\ PlaceInv'
<1>1. StackTypes /\ ev \in [Threads -> EvaluationType] /\ Depth(t) \in Nat
    BY StackFacts DEF TypeInv, ThreadTypes
<1>2. /\ StackTypes' /\ OthersKept(t) /\ CallersKept(t, Depth(t))
      /\ Depth(t)' = Depth(t) + 1 /\ Top(t)' = Entered(f)
  <2>1. Entered(f) \in FrameType
    BY EnteredTyped
  <2>2. stack' = [stack EXCEPT ![t] = Append(@, Entered(f))]
    BY DEF Execute, Entered
  <2> HIDE DEF Entered
  <2> QED
    BY <1>1, <2>1, <2>2, Pushed
<1>3. /\ pc' \in [Threads -> Evaluating \cup AtLine \cup {"run", "call", "wait", "raised"}]
      /\ pc'[t] = (IF f.trace = "dispatch" THEN "call" ELSE "run")
      /\ \A u \in Threads : u # t => pc'[u] = pc[u]
    BY Gone DEF Execute
<1>4. /\ ev' \in [Threads -> EvaluationType] /\ ev'[t] = NoEvaluation
      /\ \A u \in Threads : u # t => ev'[u] = ev[u]
  <2> HIDE DEF EvaluationType
  <2> QED
    BY <1>1, NoEvaluationTyped DEF Execute
<1>5. PlaceOf(t)'
    BY <1>1, <1>2, <1>3, <1>4 DEF PlaceOf, Evaluating, AtLine
<1> QED
    BY <1>2, <1>3, <1>4, <1>5, PlaceKept DEF OthersRest

LEMMA ThrowTypes == \A t \in Threads : TypeInv /\ Throw(t) => TypeInv'
<1> SUFFICES ASSUME NEW t \in Threads, TypeInv, Throw(t) PROVE TypeInv'
    OBVIOUS
<1>1. [parked EXCEPT !.doubts = @ \cup {"thrown"}] \in FrameType
    BY DEF TypeInv, DebuggerTypes, Throw, FrameType
<1>2. /\ StackTypes' /\ PlaceInv' /\ ev' \in [Threads -> EvaluationType]
      /\ pc' \in [Threads -> Evaluating \cup AtLine \cup {"run", "call", "wait", "raised"}]
    BY <1>1, ExecuteFacts DEF Throw
<1>3. ThreadTypes'
    BY <1>2 DEF TypeInv, ThreadTypes, Throw
<1>4. DebuggerTypes'
    BY DEF TypeInv, DebuggerTypes, Throw, codes
<1> QED
    BY <1>2, <1>3, <1>4 DEF TypeInv

\* the frame that is executed after its evaluation
Evaluated(t) ==
    [ev[t].frame EXCEPT !.doubts =
        (@ \cap {"moved"}) \cup (IF ev[t].current THEN {} ELSE {"blind"})
                           \cup (IF ev[t].paused THEN {"late"} ELSE {})]

LEMMA EvaluatedTyped ==
    ASSUME TypeInv, NEW t \in Threads, pc[t] = "enter"
    PROVE  /\ Evaluated(t) \in FrameType /\ ev[t].frame \in FrameType /\ Depth(t) < MaxDepth
           /\ Evaluated(t).code = ev[t].frame.code /\ Evaluated(t).trace = ev[t].frame.trace
           /\ Evaluated(t).doubts = (ev[t].frame.doubts \cap {"moved"})
                  \cup (IF ev[t].current THEN {} ELSE {"blind"})
                  \cup (IF ev[t].paused THEN {"late"} ELSE {})
<1>1. ev[t].frame \in FrameType /\ Depth(t) < MaxDepth
    BY DEF TypeInv, PlaceInv, PlaceOf, Evaluating
<1> QED
    BY <1>1 DEF Evaluated, FrameType

LEMMA EnterTypes == \A t \in Threads : TypeInv /\ Enter(t) => TypeInv'
<1> SUFFICES ASSUME NEW t \in Threads, TypeInv, Enter(t) PROVE TypeInv'
    OBVIOUS
<1>1. Execute(t, Evaluated(t)) /\ pc[t] = "enter"
    BY DEF Enter, Evaluated
<1>2. /\ StackTypes' /\ PlaceInv' /\ ev' \in [Threads -> EvaluationType]
      /\ pc' \in [Threads -> Evaluating \cup AtLine \cup {"run", "call", "wait", "raised"}]
    BY <1>1, EvaluatedTyped, ExecuteFacts
<1>3. ThreadTypes'
    BY <1>2 DEF TypeInv, ThreadTypes, Enter, history
<1>4. DebuggerTypes'
    BY DEF TypeInv, DebuggerTypes, Enter, codes, history
<1> QED
    BY <1>2, <1>3, <1>4 DEF TypeInv

\* the frame at line l
AtLineOf(f, l) == [f EXCEPT !.line = l, !.trace = IF @ = "off" THEN "none" ELSE @]

LEMMA AtLineTyped ==
    ASSUME NEW f \in FrameType, NEW l \in Lines
    PROVE  /\ AtLineOf(f, l) \in FrameType
           /\ AtLineOf(f, l).code = f.code /\ AtLineOf(f, l).line = l
           /\ AtLineOf(f, l).doubts = f.doubts
           /\ AtLineOf(f, l).trace = "dispatch" <=> f.trace = "dispatch"
<1>1. l \in 0 .. LastLine
    BY DEF Lines
<1> QED
    BY <1>1 DEF AtLineOf, FrameType

LEMMA AdvanceFacts ==
    ASSUME TypeInv, NEW t \in Threads, NEW l \in Lines, Advance(t, l)
    PROVE  /\ StackTypes' /\ OthersKept(t) /\ CallersKept(t, Depth(t) - 1) /\ Depth(t) > 0
           /\ Depth(t)' = Depth(t) /\ Top(t)' = AtLineOf(Top(t), l) /\ Top(t) \in FrameType
           /\ AtLineOf(Top(t), l) \in FrameType
           /\ AtLineOf(Top(t), l).code = Top(t).code /\ AtLineOf(Top(t), l).line = l
           /\ AtLineOf(Top(t), l).doubts = Top(t).doubts
           /\ AtLineOf(Top(t), l).trace = "dispatch" <=> Top(t).trace = "dispatch"
           /\ pc'[t] = (IF Top(t).trace = "dispatch" THEN "line"
                        ELSE IF l \in Top(t).code.breaks THEN "needs" ELSE "run")
           /\ \A u \in Threads : u # t => pc'[u] = pc[u]
<1>1. StackTypes /\ Depth(t) > 0
    BY DEF TypeInv, Advance
<1>2. Top(t) \in FrameType
    BY <1>1, StackFacts
<1>3. /\ AtLineOf(Top(t), l) \in FrameType
      /\ AtLineOf(Top(t), l).code = Top(t).code /\ AtLineOf(Top(t), l).line = l
      /\ AtLineOf(Top(t), l).doubts = Top(t).doubts
      /\ AtLineOf(Top(t), l).trace = "dispatch" <=> Top(t).trace = "dispatch"
    BY <1>2, AtLineTyped
<1>4. stack' = [stack EXCEPT ![t] = [stack[t] EXCEPT ![Depth(t)] = AtLineOf(Top(t), l)]]
    BY <1>1 DEF Advance, AtLineOf, StackTypes
<1> DEFINE p == IF Top(t).trace = "dispatch" THEN "line"
                ELSE IF l \in Top(t).code.breaks THEN "needs" ELSE "run"
<1>5. Go(t, p) /\ p \in AtLine \cup {"run"}
    BY DEF Advance, AtLine
<1>6. pc'[t] = p /\ \A u \in Threads : u # t => pc'[u] = pc[u]
  <2> HIDE DEF p
  <2> QED
    BY <1>5, Gone
<1> HIDE DEF AtLineOf
<1>7. /\ StackTypes' /\ OthersKept(t) /\ CallersKept(t, Depth(t) - 1)
      /\ Depth(t)' = Depth(t) /\ Top(t)' = AtLineOf(Top(t), l)
    BY <1>1, <1>3, <1>4, TopSet
<1> QED
    BY <1>1, <1>2, <1>3, <1>6, <1>7

LEMMA AdvanceTypes == \A t \in Threads, l \in Lines : TypeInv /\ Advance(t, l) => TypeInv'
<1> SUFFICES ASSUME NEW t \in Threads, NEW l \in Lines, TypeInv, Advance(t, l) PROVE TypeInv'
    OBVIOUS
<1>1. /\ StackTypes' /\ OthersKept(t) /\ Depth(t) > 0 /\ Depth(t)' = Depth(t)
      /\ pc'[t] = "line" \/ pc'[t] = "needs" \/ pc'[t] = "run"
      /\ \A u \in Threads : u # t => pc'[u] = pc[u]
    BY AdvanceFacts
<1>2. pc \in [Threads -> Evaluating \cup AtLine \cup {"run", "call", "wait", "raised"}]
      /\ ev' = ev /\ pc[t] = "run"
    BY DEF TypeInv, ThreadTypes, Advance
<1>3. pc' \in [Threads -> Evaluating \cup AtLine \cup {"run", "call", "wait", "raised"}]
    BY <1>1, <1>2 DEF Advance, Go, AtLine
<1>4. ThreadTypes'
    BY <1>3 DEF TypeInv, ThreadTypes, Advance
<1>5. PlaceOf(t)'
    BY <1>1, <1>2 DEF TypeInv, PlaceInv, PlaceOf, Evaluating, AtLine
<1>6. PlaceInv'
    BY <1>1, <1>2, <1>5, PlaceKept DEF OthersRest
<1>7. DebuggerTypes'
    BY DEF TypeInv, DebuggerTypes, Advance, codes
<1> QED
    BY <1>1, <1>4, <1>6, <1>7 DEF TypeInv

LEMMA LeaveTypes == \A t \in Threads : TypeInv /\ Leave(t) => TypeInv'
<1> SUFFICES ASSUME NEW t \in Threads, TypeInv, Leave(t) PROVE TypeInv'
    OBVIOUS
<1>1. StackTypes /\ Depth(t) > 0 /\ Top(t) \in FrameType /\ Depth(t) \in Nat
    BY StackFacts DEF TypeInv, Leave
<1>2. StackTypes' /\ OthersKept(t)
    BY <1>1, Popped DEF Leave
<1>3. OthersRest(t) /\ PlaceOf(t)'
    BY DEF TypeInv, PlaceInv, PlaceOf, Leave, Evaluating, AtLine, OthersRest
<1>4. ThreadTypes'
    BY DEF TypeInv, ThreadTypes, Leave
<1>5. parked' \in FrameType \cup {NoFrame}
  <2>1. [Top(t) EXCEPT !.doubts = @ \cap {"moved"}] \in FrameType
    BY <1>1 DEF FrameType
  <2> QED
    BY <2>1 DEF TypeInv, DebuggerTypes, Leave
<1>6. DebuggerTypes'
    BY <1>5 DEF TypeInv, DebuggerTypes, Leave, codes
<1> QED
    BY <1>2, <1>3, <1>4, <1>6, PlaceKept DEF TypeInv

\* The decision for the frame of t is made, or put off: the stacks are as they were.
LEMMA DecidedTypes ==
    ASSUME TypeInv, NEW t \in Threads, pc[t] \in Evaluating, NEW f \in FrameType, Decided(t, f),
           UNCHANGED <<stack, state, step, marks>>
    PROVE  /\ StackTypes' /\ ThreadTypes' /\ PlaceInv'
           /\ pc'[t] = "enter" /\ ev'[t] = [ev[t] EXCEPT !.frame = f] /\ OthersRest(t)
<1>1. /\ ev' \in [Threads -> EvaluationType] /\ ev'[t] = [ev[t] EXCEPT !.frame = f]
      /\ \A u \in Threads : u # t => ev'[u] = ev[u]
    BY EvaluationSet DEF Decided
<1>2. ev'[t].frame = f
  <2>1. ev[t] \in EvaluationType
    BY DEF TypeInv, ThreadTypes
  <2> QED
    BY <1>1, <2>1 DEF EvaluationType
<1>3. /\ pc' \in [Threads -> Evaluating \cup AtLine \cup {"run", "call", "wait", "raised"}]
      /\ pc'[t] = "enter" /\ \A u \in Threads : u # t => pc'[u] = pc[u]
    BY Gone DEF Decided, Evaluating
<1>4. StackTypes' /\ OthersKept(t) /\ Depth(t)' = Depth(t)
    BY DEF TypeInv, StackTypes, OthersKept, Depth
<1>5. ThreadTypes'
    BY <1>1, <1>3 DEF TypeInv, ThreadTypes
<1>6. PlaceOf(t)'
    BY <1>2, <1>3, <1>4 DEF TypeInv, PlaceInv, PlaceOf, Evaluating, AtLine
<1> QED
    BY <1>1, <1>3, <1>4, <1>5, <1>6, PlaceKept DEF OthersRest

\* what the FuncCodeInfo info makes of the frame f
Decision(f, info, force) ==
    IF info.skip \/ ~info.found \/ force THEN f
    ELSE IF info.new = NoCode THEN [f EXCEPT !.trace = "dispatch"]
    ELSE Replace(f, info.new)

LEMMA DecisionTyped ==
    ASSUME NEW f \in FrameType, NEW info \in FuncCodeInfo, NEW force
    PROVE  /\ Decision(f, info, force) \in FrameType
           /\ Decision(f, info, force).trace = f.trace \/ Decision(f, info, force).trace = "dispatch"
           /\ "moved" \in f.doubts => "moved" \in Decision(f, info, force).doubts
           /\ \/ Decision(f, info, force).code = f.code
              \/ info.new # NoCode /\ Decision(f, info, force).code = info.new
<1>1. f \in [code : CodeObjects, line : 0 .. LastLine, trace : {"none", "dispatch", "off"},
             doubts : SUBSET {"blind", "late", "thrown", "moved"}]
      /\ info.new \in CodeObjects \cup {NoCode}
    BY DEF FrameType, FuncCodeInfo
<1>2. CASE info.new = NoCode
  <2>1. Decision(f, info, force) = f \/ Decision(f, info, force) = [f EXCEPT !.trace = "dispatch"]
    BY <1>2 DEF Decision
  <2>2. /\ [f EXCEPT !.trace = "dispatch"] \in FrameType
        /\ [f EXCEPT !.trace = "dispatch"].trace = "dispatch"
        /\ [f EXCEPT !.trace = "dispatch"].doubts = f.doubts
        /\ [f EXCEPT !.trace = "dispatch"].code = f.code
    BY DEF FrameType
  <2> QED
    BY <2>1, <2>2
<1>3. CASE info.new # NoCode
  <2>1. info.new \in CodeObjects
    BY <1>1, <1>3
  <2> HIDE DEF CodeObjects
  <2> DEFINE doubts == IF f.line # 0 THEN f.doubts \cup {"moved"} ELSE f.doubts
  <2>2. doubts \in SUBSET {"blind", "late", "thrown", "moved"}
    BY <1>1
  <2>3. Replace(f, info.new) = [f EXCEPT !.code = info.new, !.doubts = doubts]
    BY DEF Replace
  <2>4. f.doubts \subseteq doubts
    OBVIOUS
  <2> HIDE DEF doubts
  <2>5. /\ Replace(f, info.new) \in FrameType /\ Replace(f, info.new).trace = f.trace
        /\ Replace(f, info.new).doubts = doubts /\ Replace(f, info.new).code = info.new
    BY <1>1, <2>1, <2>2, <2>3 DEF FrameType
  <2>6. Decision(f, info, force) = f \/ Decision(f, info, force) = Replace(f, info.new)
    BY <1>3 DEF Decision
  <2> QED
    BY <1>3, <2>4, <2>5, <2>6
<1> QED
    BY <1>2, <1>3

\* the FuncCodeInfo is used, or stored and used
LEMMA DecideTypes ==
    ASSUME TypeInv, NEW t \in Threads, pc[t] \in Evaluating, NEW info \in FuncCodeInfo,
           NEW force, Decide(t, info, force), UNCHANGED <<stack, state, step, marks>>
    PROVE  /\ StackTypes' /\ ThreadTypes' /\ PlaceInv' /\ pc'[t] = "enter" /\ OthersRest(t)
           /\ ev[t].frame \in FrameType
           /\ ev'[t] = [ev[t] EXCEPT !.frame = Decision(ev[t].frame, info, force)]
<1> DEFINE f == ev[t].frame
<1>1. f \in FrameType
    BY DEF TypeInv, PlaceInv, PlaceOf
<1>2. Decision(f, info, force) \in FrameType
    BY <1>1, DecisionTyped
<1>3. Decided(t, Decision(f, info, force))
    BY DEF Decide, Decision
<1> HIDE DEF f
<1>4. /\ StackTypes' /\ ThreadTypes' /\ PlaceInv' /\ pc'[t] = "enter" /\ OthersRest(t)
      /\ ev'[t] = [ev[t] EXCEPT !.frame = Decision(f, info, force)]
    BY <1>2, <1>3, DecidedTypes
<1> QED
    BY <1>1, <1>4 DEF f

LEMMA StoredTypes ==
    ASSUME TypeInv, NEW t \in Threads, pc[t] \in Evaluating, NEW info \in FuncCodeInfo,
           NEW force, Stored(t, info, force), generated' \subseteq CodeObjects
    PROVE  TypeInv'
<1>1. StackTypes' /\ ThreadTypes' /\ PlaceInv'
    BY DecideTypes DEF Stored, history
<1>2. ev[t].frame.code \in CodeObjects
    BY DEF TypeInv, PlaceInv, PlaceOf, FrameType
<1>3. NoInfo \in FuncCodeInfo
    BY DEF NoInfo, FuncCodeInfo
<1>4. extra' \in [CodeObjects -> FuncCodeInfo] /\ fresh' \subseteq CodeObjects
  <2> HIDE DEF FuncCodeInfo, CodeObjects
  <2> QED
    BY <1>2, <1>3 DEF TypeInv, DebuggerTypes, Stored, SetExtra
<1>5. DebuggerTypes'
    BY <1>4 DEF TypeInv, DebuggerTypes, Stored, history
<1> QED
    BY <1>1, <1>5 DEF TypeInv

\* what the branches of get_func_code_info() store
LEMMA InfoTyped ==
    /\ NoInfo \in FuncCodeInfo /\ [NoInfo EXCEPT !.skip = TRUE] \in FuncCodeInfo
    /\ \A found \in BOOLEAN : [NoInfo EXCEPT !.found = found] \in FuncCodeInfo
    /\ \A found \in BOOLEAN, new \in CodeObjects \cup {NoCode} :
           [NoInfo EXCEPT !.found = found, !.new = new] \in FuncCodeInfo
BY DEF NoInfo, FuncCodeInfo

\* t goes on with the evaluation; what it has read may be noted
LEMMA GoesToTypes ==
    ASSUME TypeInv, NEW t \in Threads, NEW p \in Evaluating, pc[t] \in Evaluating, Go(t, p),
           ev' \in [Threads -> EvaluationType], ev'[t].frame = ev[t].frame,
           \A u \in Threads : u # t => ev'[u] = ev[u],
           UNCHANGED <<stack, parked, state, step, bps, listed, codes, cmd, history>>
    PROVE  TypeInv'
<1>1. /\ pc' \in [Threads -> Evaluating \cup AtLine \cup {"run", "call", "wait", "raised"}]
      /\ pc'[t] = p /\ \A u \in Threads : u # t => pc'[u] = pc[u]
    BY Gone
<1>2. StackTypes' /\ OthersKept(t) /\ Depth(t)' = Depth(t)
    BY DEF TypeInv, StackTypes, OthersKept, Depth
<1>3. ThreadTypes' /\ DebuggerTypes'
    BY <1>1 DEF TypeInv, ThreadTypes, DebuggerTypes, codes, history
<1>4. PlaceOf(t)'
    BY <1>1, <1>2 DEF TypeInv, PlaceInv, PlaceOf, Evaluating, AtLine
<1> QED
    BY <1>1, <1>2, <1>3, <1>4, PlaceKept DEF OthersRest, TypeInv

\* t leaves the evaluation, or goes on in a frame: neither stack nor ev has more to say
LEMMA BackTypes ==
    ASSUME TypeInv, NEW t \in Threads, NEW p \in {"run", "raised", "line", "wait"}, Go(t, p),
           p \in {"line", "wait"} => Depth(t) > 0,
           ev' \in [Threads -> EvaluationType], ev'[t] = NoEvaluation,
           \A u \in Threads : u # t => ev'[u] = ev[u],
           state' \in [Threads -> {"run", "suspend"}], step' \in [Threads -> BOOLEAN],
           marks' = [u \in Threads |-> marks'[u]],
           StackTypes', OthersKept(t), Depth(t)' = Depth(t),
           UNCHANGED <<parked, bps, listed, codes, cmd, settled>>
    PROVE  TypeInv'
<1>1. /\ pc' \in [Threads -> Evaluating \cup AtLine \cup {"run", "call", "wait", "raised"}]
      /\ pc'[t] = p /\ \A u \in Threads : u # t => pc'[u] = pc[u]
    BY Gone DEF AtLine
<1>2. ThreadTypes' /\ DebuggerTypes'
    BY <1>1 DEF TypeInv, ThreadTypes, DebuggerTypes, codes
<1>3. PlaceOf(t)'
    BY <1>1 DEF PlaceOf, Evaluating, AtLine
<1> QED
    BY <1>1, <1>2, <1>3, PlaceKept DEF OthersRest, TypeInv

LEMMA LookupTypes == \A t \in Threads : TypeInv /\ Lookup(t) => TypeInv'
<1> SUFFICES ASSUME NEW t \in Threads, TypeInv, Lookup(t) PROVE TypeInv'
    OBVIOUS
<1>1. /\ pc[t] = "lookup" /\ pc[t] \in Evaluating /\ generated \subseteq CodeObjects
      /\ ev \in [Threads -> EvaluationType] /\ ev[t] \in EvaluationType
    BY DEF Lookup, Evaluating, TypeInv, ThreadTypes, DebuggerTypes
<1>2. CASE AlwaysSkipCode(t)
    BY <1>1, <1>2, InfoTyped, StoredTypes DEF AlwaysSkipCode
<1>3. CASE GeneratedBefore(t)
  <2>1. PICK found \in BOOLEAN :
            \E force : Stored(t, [NoInfo EXCEPT !.found = found], force) /\ UNCHANGED generated
    BY <1>3 DEF GeneratedBefore
  <2> QED
    BY <1>1, <2>1, InfoTyped, StoredTypes
<1>4. CASE NothingToInsert(t)
  <2>1. PICK found \in BOOLEAN :
            Stored(t, [NoInfo EXCEPT !.found = found], FALSE) /\ UNCHANGED generated
  <3> DEFINE function == <<ev[t].frame.code.fn, 0>> \in bps
  <3>1. Stored(t, [NoInfo EXCEPT !.found = function], FALSE) /\ UNCHANGED generated
    BY <1>4 DEF NothingToInsert
  <3>2. function \in BOOLEAN
    OBVIOUS
  <3> HIDE DEF function
  <3> QED
    BY <3>1, <3>2
  <2> QED
    BY <1>1, <2>1, InfoTyped, StoredTypes
<1>5. CASE BreakpointsMissing(t)
  <2>1. ev' \in [Threads -> EvaluationType] /\ ev'[t] = NoEvaluation
        /\ \A u \in Threads : u # t => ev'[u] = ev[u]
    <3> HIDE DEF EvaluationType
    <3> QED
      BY <1>1, <1>5, NoEvaluationTyped DEF BreakpointsMissing
  <2>2. StackTypes' /\ OthersKept(t) /\ Depth(t)' = Depth(t)
    BY <1>5 DEF TypeInv, StackTypes, OthersKept, Depth, BreakpointsMissing
  <2>3. /\ state' \in [Threads -> {"run", "suspend"}] /\ step' \in [Threads -> BOOLEAN]
        /\ marks' = [u \in Threads |-> marks'[u]] /\ Go(t, "raised")
        /\ UNCHANGED <<parked, bps, listed, codes, cmd, settled>>
    BY <1>5 DEF TypeInv, ThreadTypes, BreakpointsMissing, history
  <2> QED
    BY <2>1, <2>2, <2>3, BackTypes
<1>6. CASE BeginToInsert(t)
  <2> DEFINE lines == LinesOf(ev[t].frame.code.fn, bps)
  <2>1. lines \subseteq Lines
  <3>1. \A b \in bps : b[2] \in 0 .. LastLine
    BY DEF TypeInv, DebuggerTypes
  <3> QED
    BY <3>1 DEF LinesOf, Lines
  <2>2. ev' = [ev EXCEPT ![t] = [ev[t] EXCEPT !.lines = lines]]
    BY <1>1, <1>6 DEF BeginToInsert
  <2> HIDE DEF lines
  <2>3. [ev[t] EXCEPT !.lines = lines] \in EvaluationType
        /\ [ev[t] EXCEPT !.lines = lines].frame = ev[t].frame
    BY <1>1, <2>1 DEF EvaluationType
  <2>4. ev' \in [Threads -> EvaluationType] /\ ev'[t].frame = ev[t].frame
        /\ \A u \in Threads : u # t => ev'[u] = ev[u]
    <3> HIDE DEF EvaluationType
    <3> QED
      BY <1>1, <2>2, <2>3
  <2> QED
    BY <1>1, <1>6, <2>4, GoesToTypes DEF BeginToInsert, Evaluating
<1> QED
    BY <1>2, <1>3, <1>4, <1>5, <1>6 DEF Lookup

\* the code that is generated for the breakpoints at hit
NewCode(t) == [fn |-> ev[t].frame.code.fn, breaks |-> ev[t].lines]
Inserted(t) == ev[t].lines # {} /\ ev[t].frame.code.fn \notin Unmodifiable
InsertedInfo(t) ==
    [NoInfo EXCEPT !.found = ev[t].lines # {}, !.new = IF Inserted(t) THEN NewCode(t) ELSE NoCode]

LEMMA InsertFacts ==
    ASSUME TypeInv, NEW t \in Threads, InsertPydevdBreaks(t)
    PROVE  /\ pc[t] = "insert" /\ Stored(t, InsertedInfo(t), FALSE)
           /\ generated' = (IF Inserted(t) THEN generated \cup {NewCode(t)} ELSE generated)
           /\ InsertedInfo(t) \in FuncCodeInfo /\ NewCode(t) \in CodeObjects /\ NewCode(t) # NoCode
<1>1. /\ pc[t] = "insert" /\ Stored(t, InsertedInfo(t), FALSE)
      /\ generated' = (IF Inserted(t) THEN generated \cup {NewCode(t)} ELSE generated)
    BY DEF InsertPydevdBreaks, InsertedInfo, Inserted, NewCode
<1>2. ev[t].frame.code.fn \in Functions /\ ev[t].lines \subseteq Lines
  <2>1. ev[t] \in EvaluationType /\ ev[t].frame \in FrameType
    BY <1>1 DEF TypeInv, ThreadTypes, PlaceInv, PlaceOf, Evaluating
  <2> QED
    BY <2>1 DEF EvaluationType, FrameType, CodeObjects
<1>3. NewCode(t) \in CodeObjects /\ NewCode(t) # NoCode
    BY <1>2 DEF NewCode, CodeObjects, NoCode
<1>4. InsertedInfo(t) \in FuncCodeInfo
  <2>1. (ev[t].lines # {}) \in BOOLEAN
    OBVIOUS
  <2>2. (IF Inserted(t) THEN NewCode(t) ELSE NoCode) \in CodeObjects \cup {NoCode}
    BY <1>3
  <2> QED
    BY <2>1, <2>2, InfoTyped DEF InsertedInfo
<1> QED
    BY <1>1, <1>3, <1>4

LEMMA EvaluationTypes == \A t \in Threads : TypeInv /\ Evaluation(t) => TypeInv'
<1> SUFFICES ASSUME NEW t \in Threads, TypeInv, Evaluation(t) PROVE TypeInv'
    OBVIOUS
<1>1. CASE EvaluateTraced(t)
  <2>1. pc[t] \in Evaluating
    BY <1>1 DEF EvaluateTraced, Evaluating
  <2>2. [ev[t].frame EXCEPT !.trace = "dispatch"] \in FrameType
    BY <2>1 DEF TypeInv, PlaceInv, PlaceOf, FrameType
  <2>3. StackTypes' /\ ThreadTypes' /\ PlaceInv'
    BY <1>1, <2>1, <2>2, DecidedTypes DEF EvaluateTraced, history
  <2>4. DebuggerTypes'
    BY <1>1 DEF TypeInv, DebuggerTypes, EvaluateTraced, codes, history
  <2> QED
    BY <2>3, <2>4 DEF TypeInv
<1>2. CASE CodeInfoCurrent(t)
  <2>1. pc[t] \in Evaluating /\ extra[ev[t].frame.code] \in FuncCodeInfo
    BY <1>2 DEF CodeInfoCurrent, Evaluating, TypeInv, DebuggerTypes
  <2>2. StackTypes' /\ ThreadTypes' /\ PlaceInv'
    BY <1>2, <2>1, DecideTypes DEF CodeInfoCurrent, history
  <2>3. DebuggerTypes'
    BY <1>2 DEF TypeInv, DebuggerTypes, CodeInfoCurrent, codes, history
  <2> QED
    BY <2>2, <2>3 DEF TypeInv
<1>3. CASE CodeInfoOutdated(t)
    BY <1>3, GoesToTypes DEF CodeInfoOutdated, Evaluating, TypeInv, ThreadTypes
<1>4. CASE InsertPydevdBreaks(t)
  <2>1. pc[t] \in Evaluating /\ generated' \subseteq CodeObjects
    BY <1>4, InsertFacts DEF Evaluating, TypeInv, DebuggerTypes
  <2> QED
    BY <1>4, <2>1, InsertFacts, StoredTypes
<1>5. CASE EvaluationFailed(t)
  <2>1. /\ ev' \in [Threads -> EvaluationType] /\ ev'[t] = NoEvaluation
        /\ \A u \in Threads : u # t => ev'[u] = ev[u]
    BY <1>5 DEF EvaluationFailed, TypeInv, ThreadTypes, PlaceInv, PlaceOf, Evaluating
  <2>2. StackTypes' /\ OthersKept(t) /\ Depth(t)' = Depth(t)
    BY <1>5 DEF TypeInv, StackTypes, OthersKept, Depth, EvaluationFailed
  <2>3. /\ state' \in [Threads -> {"run", "suspend"}] /\ step' \in [Threads -> BOOLEAN]
        /\ marks' = [u \in Threads |-> marks'[u]] /\ Go(t, "run")
        /\ UNCHANGED <<parked, bps, listed, codes, cmd, settled>>
    BY <1>5 DEF TypeInv, ThreadTypes, EvaluationFailed, history
  <2> QED
    BY <2>1, <2>2, <2>3, BackTypes
<1> QED
    BY <1>1, <1>2, <1>3, <1>4, <1>5, LookupTypes, EnterTypes DEF Evaluation

\* A frame that is traced or not any more.
LEMMA TraceSet ==
    ASSUME NEW f \in FrameType, NEW trace \in {"none", "dispatch", "off"}
    PROVE  /\ [f EXCEPT !.trace = trace] \in FrameType /\ [f EXCEPT !.trace = trace].trace = trace
           /\ [f EXCEPT !.trace = trace].code = f.code /\ [f EXCEPT !.trace = trace].line = f.line
           /\ [f EXCEPT !.trace = trace].doubts = f.doubts
BY DEF FrameType

LEMMA TopTraced ==
    ASSUME TypeInv, NEW t \in Threads, Depth(t) > 0, NEW trace \in {"none", "dispatch", "off"},
           stack' = [stack EXCEPT ![t][Depth(t)].trace = trace]
    PROVE  /\ StackTypes' /\ OthersKept(t) /\ CallersKept(t, Depth(t) - 1)
           /\ Depth(t)' = Depth(t) /\ Top(t)' = [Top(t) EXCEPT !.trace = trace]
           /\ Top(t) \in FrameType
<1> DEFINE f == [Top(t) EXCEPT !.trace = trace]
<1>1. StackTypes /\ Top(t) \in FrameType
    BY StackFacts DEF TypeInv
<1>2. f \in FrameType
    BY <1>1, TraceSet
<1>3. stack' = [stack EXCEPT ![t] = [stack[t] EXCEPT ![Depth(t)] = f]]
    BY <1>1 DEF StackTypes, Top
<1> HIDE DEF f
<1>4. /\ StackTypes' /\ OthersKept(t) /\ CallersKept(t, Depth(t) - 1)
      /\ Depth(t)' = Depth(t) /\ Top(t)' = f
    BY <1>1, <1>2, <1>3, TopSet
<1> QED
    BY <1>1, <1>4 DEF f

LEMMA TracingTypes == \A t \in Threads : TypeInv /\ Tracing(t) => TypeInv'
<1> SUFFICES ASSUME NEW t \in Threads, TypeInv, Tracing(t) PROVE TypeInv'
    OBVIOUS
<1>a. pc[t] \in {"needs", "call", "line", "wait"}
    BY DEF Tracing, InsertedCall, Suspend, GoesOn, ResumeThread
<1>b. /\ Depth(t) > 0 /\ ev[t] = NoEvaluation /\ ev \in [Threads -> EvaluationType]
      /\ state \in [Threads -> {"run", "suspend"}] /\ step \in [Threads -> BOOLEAN]
      /\ marks = [u \in Threads |-> marks[u]] /\ StackTypes
    BY <1>a DEF TypeInv, ThreadTypes, PlaceInv, PlaceOf, Evaluating, AtLine
<1>c. stack' = stack => StackTypes' /\ OthersKept(t) /\ Depth(t)' = Depth(t)
    BY <1>b DEF StackTypes, OthersKept, Depth
<1>1. CASE InsertedCall(t)
  <2>1. StackTypes' /\ OthersKept(t) /\ Depth(t)' = Depth(t)
    BY <1>b, <1>c, <1>1, TopTraced DEF InsertedCall
  <2>2. PICK p \in {"run", "line"} : Go(t, p)
    BY <1>1 DEF InsertedCall
  <2> QED
    BY <1>b, <1>1, <2>1, <2>2, BackTypes DEF InsertedCall, history
<1>2. CASE Suspend(t)
  <2>1. /\ state' \in [Threads -> {"run", "suspend"}] /\ step' \in [Threads -> BOOLEAN]
        /\ marks' = [u \in Threads |-> marks'[u]]
    BY <1>b, <1>2 DEF Suspend
  <2> QED
    BY <1>b, <1>c, <1>2, <2>1, BackTypes DEF Suspend
<1>3. CASE GoesOn(t)
  <2>1. StackTypes' /\ OthersKept(t) /\ Depth(t)' = Depth(t)
    BY <1>b, <1>c, <1>3, TopTraced DEF GoesOn
  <2> QED
    BY <1>b, <1>3, <2>1, BackTypes DEF GoesOn, history
<1>4. ASSUME NEW into \in BOOLEAN, ResumeThread(t, into) PROVE TypeInv'
  <2>1. StackTypes' /\ OthersKept(t) /\ Depth(t)' = Depth(t)
    <3>1. CASE ~into
      <4>1. stack' = stack
        BY <1>b, <1>4, <3>1 DEF ResumeThread, StackTypes
      <4> QED
        BY <1>c, <4>1
    <3>2. CASE into
      <4>1. stack[t] \in Seq(FrameType) /\ Len(stack[t]) <= MaxDepth
        BY <1>b DEF StackTypes, Depth
      <4>2. Traced(stack[t]) \in Seq(FrameType) /\ Len(Traced(stack[t])) = Depth(t)
        BY <4>1, TracedFacts DEF Depth
      <4>3. stack' = [stack EXCEPT ![t] = Traced(stack[t])]
        BY <1>4, <3>2 DEF ResumeThread
      <4> QED
        BY <1>b, <4>1, <4>2, <4>3, Changed DEF Depth
    <3> QED
      BY <3>1, <3>2
  <2>2. state' \in [Threads -> {"run", "suspend"}] /\ step' \in [Threads -> BOOLEAN]
    BY <1>b, <1>4 DEF ResumeThread
  <2> QED
    BY <1>b, <1>4, <2>1, <2>2, BackTypes DEF ResumeThread, history
<1> QED
    BY <1>1, <1>2, <1>3, <1>4 DEF Tracing

\* The mtime changes: what is being evaluated is out of date.
LEMMA MtimeFacts ==
    ASSUME TypeInv, NewMtime
    PROVE  /\ ev' \in [Threads -> EvaluationType]
           /\ \A t \in Threads :
                 /\ ev'[t].frame = ev[t].frame /\ ev'[t].lines = ev[t].lines
                 /\ ev'[t].paused = ev[t].paused
                 /\ pc[t] \in {"lookup", "insert", "enter"} => ~ev'[t].current
                 /\ pc[t] \notin Evaluating => ev'[t] = NoEvaluation
           /\ fresh' = {} /\ extra' \in [CodeObjects -> FuncCodeInfo]
           /\ \A o \in CodeObjects : extra'[o].new = NoCode
<1>1. ASSUME NEW t \in Threads
      PROVE  /\ ev'[t] \in EvaluationType
             /\ ev'[t].frame = ev[t].frame /\ ev'[t].lines = ev[t].lines
             /\ ev'[t].paused = ev[t].paused
             /\ pc[t] \in {"lookup", "insert", "enter"} => ~ev'[t].current
             /\ pc[t] \notin Evaluating => ev'[t] = NoEvaluation
  <2>1. ev[t] \in EvaluationType /\ PlaceOf(t)
    BY DEF TypeInv, ThreadTypes, PlaceInv
  <2>2. ev'[t] = IF pc[t] \in {"lookup", "insert", "enter"}
                 THEN [ev[t] EXCEPT !.current = FALSE] ELSE ev[t]
    BY DEF NewMtime
  <2> QED
    BY <2>1, <2>2 DEF EvaluationType, PlaceOf, Evaluating
<1>2. ev' \in [Threads -> EvaluationType]
  <2> HIDE DEF EvaluationType
  <2>1. ev' = [t \in Threads |-> ev'[t]]
    BY DEF NewMtime
  <2> QED
    BY <1>1, <2>1
<1>3. extra' \in [CodeObjects -> FuncCodeInfo] /\ \A o \in CodeObjects : extra'[o].new = NoCode
  <2>1. NoInfo \in FuncCodeInfo /\ NoInfo.new = NoCode
    BY InfoTyped DEF NoInfo
  <2> HIDE DEF FuncCodeInfo, NoInfo, CodeObjects
  <2> QED
    BY <2>1 DEF NewMtime
<1> QED
    BY <1>1, <1>2, <1>3 DEF NewMtime

\* what a command may do: the threads go on where they are
LEMMA CommandTypes ==
    ASSUME TypeInv, StackTypes', \A t \in Threads : Depth(t)' = Depth(t),
           ev' \in [Threads -> EvaluationType],
           \A t \in Threads : /\ ev'[t].frame = ev[t].frame
                              /\ pc[t] \notin Evaluating => ev'[t] = NoEvaluation,
           state' \in [Threads -> {"run", "suspend"}], step' \in [Threads -> BOOLEAN],
           marks' = [u \in Threads |-> marks'[u]],
           bps' \subseteq BreakLocations, settled' \subseteq bps', listed' \in BOOLEAN,
           extra' \in [CodeObjects -> FuncCodeInfo], fresh' \subseteq CodeObjects,
           cmd' \in {"idle", "added", "trace"}, UNCHANGED <<parked, pc, generated>>
    PROVE  TypeInv'
<1>1. ThreadTypes' /\ DebuggerTypes'
    BY DEF TypeInv, ThreadTypes, DebuggerTypes
<1>2. ASSUME NEW t \in Threads PROVE PlaceOf(t)'
  <2>1. PlaceOf(t)
    BY DEF TypeInv, PlaceInv
  <2> QED
    BY <2>1 DEF PlaceOf
<1> QED
    BY <1>1, <1>2 DEF TypeInv, PlaceInv

\* the mtime changes, or nothing that depends on it
Mtime == NewMtime \/ UNCHANGED <<ev, extra, fresh>>

LEMMA BreakpointTypes ==
    ASSUME TypeInv, Mtime, UNCHANGED <<stack, parked, pc, state, step, generated>>,
           marks' = [u \in Threads |-> marks'[u]],
           bps' \subseteq BreakLocations, settled' \subseteq bps', listed' \in BOOLEAN,
           cmd' \in {"idle", "added", "trace"}
    PROVE  TypeInv'
<1>1. /\ ev' \in [Threads -> EvaluationType]
      /\ \A t \in Threads : /\ ev'[t].frame = ev[t].frame
                            /\ pc[t] \notin Evaluating => ev'[t] = NoEvaluation
      /\ extra' \in [CodeObjects -> FuncCodeInfo] /\ fresh' \subseteq CodeObjects
  <2>1. CASE NewMtime
    BY <2>1, MtimeFacts
  <2>2. CASE UNCHANGED <<ev, extra, fresh>>
    BY <2>2 DEF TypeInv, ThreadTypes, DebuggerTypes, PlaceInv, PlaceOf
  <2> QED
    BY <2>1, <2>2 DEF Mtime
<1>2. StackTypes' /\ \A t \in Threads : Depth(t)' = Depth(t)
    BY DEF TypeInv, StackTypes, Depth
<1> QED
    BY <1>1, <1>2, CommandTypes DEF TypeInv, ThreadTypes

\* set_suspend() of t
PauseOf(t) == [ev[t] EXCEPT !.paused = pc[t] \in {"lookup", "insert", "enter"}]

LEMMA PauseFacts ==
    ASSUME TypeInv, NEW t \in Threads, Pause(t)
    PROVE  /\ StackTypes' /\ \A u \in Threads : Depth(u)' = Depth(u)
           /\ \A u \in Threads \ {t} : stack'[u] = stack[u]
           /\ \A d \in 1 .. Depth(t) : stack'[t][d] = TracedFrame(stack[t][d])
           /\ Depth(t) > 0 => Top(t)' = TracedFrame(Top(t))
           /\ ev' \in [Threads -> EvaluationType] /\ \A u \in Threads \ {t} : ev'[u] = ev[u]
           /\ ev'[t].frame = ev[t].frame /\ ev'[t].lines = ev[t].lines
           /\ ev'[t].current = ev[t].current
           /\ ev'[t].paused = (pc[t] \in {"lookup", "insert", "enter"})
           /\ pc[t] \notin Evaluating => ev'[t] = NoEvaluation
<1>1. StackTypes /\ ev \in [Threads -> EvaluationType] /\ ev[t] \in EvaluationType /\ PlaceOf(t)
    BY DEF TypeInv, ThreadTypes, PlaceInv
<1>2. stack' = [u \in Threads |-> IF u \in {t} THEN Traced(stack[u]) ELSE stack[u]]
    BY <1>1 DEF Pause, StackTypes
<1>3. /\ StackTypes' /\ \A u \in Threads : Depth(u)' = Depth(u)
      /\ \A u \in Threads \ {t} : stack'[u] = stack[u]
      /\ \A d \in 1 .. Depth(t) : stack'[t][d] = TracedFrame(stack[t][d])
      /\ Depth(t) > 0 => Top(t)' = TracedFrame(Top(t))
    BY <1>1, <1>2, TracedStacks
<1>4. /\ PauseOf(t) \in EvaluationType /\ PauseOf(t).frame = ev[t].frame
      /\ PauseOf(t).lines = ev[t].lines /\ PauseOf(t).current = ev[t].current
      /\ PauseOf(t).paused = (pc[t] \in {"lookup", "insert", "enter"})
      /\ pc[t] \notin Evaluating => PauseOf(t) = NoEvaluation
  <2> DEFINE late == pc[t] \in {"lookup", "insert", "enter"}
  <2>1. PauseOf(t) = [ev[t] EXCEPT !.paused = late] /\ late \in BOOLEAN
    BY DEF PauseOf
  <2>2. pc[t] \notin Evaluating => ev[t] = NoEvaluation /\ late = FALSE
    BY <1>1 DEF PlaceOf, Evaluating
  <2> HIDE DEF late
  <2>3. /\ PauseOf(t) \in EvaluationType /\ PauseOf(t).frame = ev[t].frame
        /\ PauseOf(t).lines = ev[t].lines /\ PauseOf(t).current = ev[t].current
        /\ PauseOf(t).paused = late
    BY <1>1, <2>1 DEF EvaluationType
  <2>4. pc[t] \notin Evaluating => PauseOf(t) = NoEvaluation
    <3>1. [NoEvaluation EXCEPT !.paused = FALSE] = NoEvaluation
      <4>1. NoEvaluation \in EvaluationType /\ NoEvaluation.paused = FALSE
        BY NoEvaluationTyped DEF NoEvaluation
      <4> QED
        BY <4>1 DEF EvaluationType
    <3>2. ASSUME pc[t] \notin Evaluating PROVE PauseOf(t) = NoEvaluation
      <4>1. PauseOf(t) = [NoEvaluation EXCEPT !.paused = FALSE]
        BY <2>1, <2>2, <3>2
      <4> QED
        BY <3>1, <4>1
    <3> QED
      BY <3>2
  <2> QED
    BY <2>3, <2>4 DEF late
<1>5. ev' = [ev EXCEPT ![t] = PauseOf(t)]
    BY <1>1 DEF Pause, PauseOf
<1>6. /\ ev' \in [Threads -> EvaluationType] /\ ev'[t] = PauseOf(t)
      /\ \A u \in Threads \ {t} : ev'[u] = ev[u]
  <2> HIDE DEF EvaluationType, PauseOf
  <2> QED
    BY <1>1, <1>4, <1>5
<1> QED
    BY <1>3, <1>4, <1>6

LEMMA CommandStepTypes == TypeInv /\ Command => TypeInv'
<1> SUFFICES ASSUME TypeInv, Command PROVE TypeInv'
    OBVIOUS
<1>a. /\ marks = [u \in Threads |-> marks[u]] /\ bps \subseteq BreakLocations
      /\ settled \subseteq bps /\ listed \in BOOLEAN
    BY DEF TypeInv, ThreadTypes, DebuggerTypes
<1>1. ASSUME NEW loc \in BreakLocations, AddBreakpoint(loc) PROVE TypeInv'
  <2>1. Mtime /\ bps' \subseteq BreakLocations /\ settled' \subseteq bps' /\ listed' \in BOOLEAN
    BY <1>a, <1>1 DEF AddBreakpoint, Mtime, history
  <2> QED
    BY <1>a, <1>1, <2>1, BreakpointTypes DEF AddBreakpoint, history
<1>2. ASSUME NEW loc \in BreakLocations, RemoveBreakpoint(loc) PROVE TypeInv'
  <2>1. /\ Mtime /\ bps' \subseteq BreakLocations /\ settled' \subseteq bps' /\ listed' \in BOOLEAN
        /\ marks' = [u \in Threads |-> marks'[u]] /\ cmd' \in {"idle", "added", "trace"}
    BY <1>a, <1>2 DEF RemoveBreakpoint, Left, Mtime
  <2> QED
    BY <1>2, <2>1, BreakpointTypes DEF RemoveBreakpoint, Left
<1>3. CASE RemoveAllBreakpoints
  <2>1. /\ Mtime /\ bps' \subseteq BreakLocations /\ settled' \subseteq bps' /\ listed' \in BOOLEAN
        /\ marks' = [u \in Threads |-> marks'[u]] /\ cmd' \in {"idle", "added", "trace"}
    BY <1>a, <1>3 DEF RemoveAllBreakpoints, Left, Mtime
  <2> QED
    BY <1>3, <2>1, BreakpointTypes DEF RemoveAllBreakpoints, Left
<1>4. CASE BreakpointsChanged
  <2>1. /\ Mtime /\ bps' \subseteq BreakLocations /\ settled' \subseteq bps' /\ listed' \in BOOLEAN
        /\ marks' = [u \in Threads |-> marks'[u]] /\ cmd' \in {"idle", "added", "trace"}
    BY <1>a, <1>4 DEF BreakpointsChanged, Mtime, history
  <2> QED
    BY <1>4, <2>1, BreakpointTypes DEF BreakpointsChanged
<1>5. CASE TraceExistingFrames
  <2>1. StackTypes' /\ \A t \in Threads : Depth(t)' = Depth(t)
    <3>1. stack' = [t \in Threads |-> IF t \in Threads THEN Traced(stack[t]) ELSE stack[t]]
      BY <1>5 DEF TraceExistingFrames
    <3> QED
      BY <3>1, TracedStacks DEF TypeInv
  <2>2. /\ ev' \in [Threads -> EvaluationType]
        /\ \A t \in Threads : /\ ev'[t].frame = ev[t].frame
                              /\ pc[t] \notin Evaluating => ev'[t] = NoEvaluation
        /\ state' \in [Threads -> {"run", "suspend"}] /\ step' \in [Threads -> BOOLEAN]
        /\ marks' = [u \in Threads |-> marks'[u]]
    BY <1>a, <1>5 DEF TypeInv, ThreadTypes, PlaceInv, PlaceOf, TraceExistingFrames
  <2>3. /\ bps' \subseteq BreakLocations /\ settled' \subseteq bps' /\ listed' \in BOOLEAN
        /\ extra' \in [CodeObjects -> FuncCodeInfo] /\ fresh' \subseteq CodeObjects
        /\ cmd' \in {"idle", "added", "trace"} /\ UNCHANGED <<parked, pc, generated>>
    BY <1>a, <1>5 DEF TypeInv, DebuggerTypes, TraceExistingFrames, codes
  <2> QED
    BY <2>1, <2>2, <2>3, CommandTypes
<1>6. ASSUME NEW t \in Threads, Pause(t) PROVE TypeInv'
  <2>1. /\ StackTypes' /\ \A u \in Threads : Depth(u)' = Depth(u)
        /\ ev' \in [Threads -> EvaluationType]
        /\ \A u \in Threads : /\ ev'[u].frame = ev[u].frame
                              /\ pc[u] \notin Evaluating => ev'[u] = NoEvaluation
    BY <1>6, PauseFacts DEF TypeInv, PlaceInv, PlaceOf
  <2>2. /\ state' \in [Threads -> {"run", "suspend"}] /\ step' \in [Threads -> BOOLEAN]
        /\ marks' = [u \in Threads |-> marks'[u]]
    BY <1>a, <1>6 DEF TypeInv, ThreadTypes, Pause, history
  <2>3. /\ bps' \subseteq BreakLocations /\ settled' \subseteq bps' /\ listed' \in BOOLEAN
        /\ extra' \in [CodeObjects -> FuncCodeInfo] /\ fresh' \subseteq CodeObjects
        /\ cmd' \in {"idle", "added", "trace"} /\ UNCHANGED <<parked, pc, generated>>
    BY <1>a, <1>6 DEF TypeInv, DebuggerTypes, Pause, codes, history
  <2> QED
    BY <2>1, <2>2, <2>3, CommandTypes
<1> QED
    BY <1>1, <1>2, <1>3, <1>4, <1>5, <1>6 DEF Command

LEMMA StutterTypes == TypeInv /\ UNCHANGED vars => TypeInv'
BY DEF TypeInv, StackTypes, ThreadTypes, DebuggerTypes, PlaceInv, PlaceOf, Depth, vars, program,
       codes, history

LEMMA TypesStep == TypeInv /\ [Next]_vars => TypeInv'
<1> SUFFICES ASSUME TypeInv, [Next]_vars PROVE TypeInv'
    OBVIOUS
<1>1. ASSUME NEW t \in Threads, Program(t) PROVE TypeInv'
    BY <1>1, CallTypes, AdvanceTypes, ResumeTypes, ThrowTypes, LeaveTypes DEF Program
<1> QED
    BY <1>1, EvaluationTypes, TracingTypes, CommandStepTypes, StutterTypes DEF Next

LEMMA TypesInit == Init => TypeInv
<1> SUFFICES ASSUME Init PROVE TypeInv
    OBVIOUS
<1>1. \A t \in Threads : stack[t] = <<>> /\ Depth(t) = 0
    BY DEF Init, Depth
<1>2. StackTypes
  <2>1. stack \in [Threads -> Seq(FrameType)]
    BY DEF Init
  <2> QED
    BY <1>1, <2>1 DEF StackTypes
<1>3. ThreadTypes
    BY NoEvaluationTyped DEF Init, ThreadTypes
<1>4. DebuggerTypes
    BY InfoTyped DEF Init, DebuggerTypes
<1>5. PlaceInv
    BY DEF Init, PlaceInv, PlaceOf, Evaluating, AtLine
<1> QED
    BY <1>2, <1>3, <1>4, <1>5 DEF TypeInv

\* What the evaluation, the trace function and the commands store is well typed, and
\* a thread has an evaluation exactly while it is in one.
THEOREM TypesAreKept == Spec => []TypeOK
BY TypesInit, TypesStep, TypeInvImpliesTypeOK, PTL DEF Spec

-----------------------------------------------------------------------------
(***************************************************************************)
(* Every step keeps what is said of breakpoints, steps and pauses.         *)
(***************************************************************************)
LEMMA LinesGrow ==
    ASSUME NEW c, NEW S, NEW T, S \subseteq T
    PROVE  LinesOf(c, S) \subseteq LinesOf(c, T)
BY DEF LinesOf

\* a function breakpoint has no line
LEMMA LinesSame ==
    ASSUME NEW c, NEW S, NEW loc, loc[2] = 0
    PROVE  LinesOf(c, S \cup {loc}) = LinesOf(c, S) /\ LinesOf(c, S \ {loc}) = LinesOf(c, S)
BY DEF LinesOf

LEMMA HasLine ==
    ASSUME NEW c, NEW l \in Lines, NEW S, <<c, l>> \in S
    PROVE  l \in LinesOf(c, S)
<1>1. l # 0 /\ <<c, l>>[1] = c /\ <<c, l>>[2] = l
    BY DEF Lines
<1> QED
    BY <1>1 DEF LinesOf

\* less is promised of a frame
LEMMA RightWeakens ==
    ASSUME NEW f, NEW S, NEW T, T \subseteq S, NEW p, NEW q, NEW p1, NEW q1,
           Right(f, S, p, q), p1 => p, q1 => q
    PROVE  Right(f, T, p1, q1)
<1>1. LinesOf(f.code.fn, T) \subseteq LinesOf(f.code.fn, S)
    BY LinesGrow
<1> QED
    BY <1>1 DEF Right, Covered

\* a frame is as right as one that is like it, but for the line
LEMMA RightAlike ==
    ASSUME NEW f, NEW g, NEW S, NEW p, NEW q, Right(f, S, p, q),
           g.code = f.code, g.doubts = f.doubts, g.trace = "dispatch" <=> f.trace = "dispatch"
    PROVE  Right(g, S, p, q)
BY DEF Right, Covered

LEMMA DispatchIsRight ==
    ASSUME NEW f, f.trace = "dispatch" \/ f.code.fn \in Internal
    PROVE  \A S, p, q : Right(f, S, p, q)
BY DEF Right, Covered

LEMMA TracedIsRight ==
    ASSUME NEW f \in FrameType
    PROVE  /\ \A S, p, q : Right(TracedFrame(f), S, p, q)
           /\ TracedFrame(f).code = f.code /\ TracedFrame(f).line = f.line
<1>1. /\ TracedFrame(f).trace = "dispatch" \/ TracedFrame(f).code.fn \in Internal
      /\ TracedFrame(f).code = f.code /\ TracedFrame(f).line = f.line
    BY DEF TracedFrame, FrameType
<1> QED
    BY <1>1, DispatchIsRight

\* the other threads in a step of t
Alone(t) ==
    /\ OthersKept(t) /\ OthersRest(t) /\ UNCHANGED <<bps, settled>>
    /\ \A u \in Threads : u # t =>
           state'[u] = state[u] /\ step'[u] = step[u] /\ marks'[u] = marks[u]
FramesOf(t) == \A d \in 1 .. Depth(t) : FrameOf(t, stack[t][d])

LEMMA StopsOfThread ==
    ASSUME StopInv, TypeInv', NEW t \in Threads, Alone(t), CacheInv',
           FramesOf(t)', EvaluationOf(t)', MarkOf(t)'
    PROVE  StopInv'
<1>1. ASSUME NEW u \in Threads, u # t PROVE FramesOf(u)' /\ EvaluationOf(u)' /\ MarkOf(u)'
  <2>1. FramesOf(u) /\ EvaluationOf(u) /\ MarkOf(u)
    BY DEF StopInv, StackInv, FramesOf, EvaluationInv, MarkInv
  <2>2. /\ stack'[u] = stack[u] /\ Depth(u)' = Depth(u) /\ pc'[u] = pc[u] /\ ev'[u] = ev[u]
        /\ state'[u] = state[u] /\ step'[u] = step[u] /\ marks'[u] = marks[u]
        /\ bps' = bps /\ settled' = settled
    BY <1>1 DEF Alone, OthersKept, OthersRest
  <2>3. FramesOf(u)'
    BY <2>1, <2>2 DEF FramesOf, FrameOf, Right, Covered, Stepping, Pausing
  <2>4. EvaluationOf(u)'
    BY <2>1, <2>2 DEF EvaluationOf, LatePause, Covered
  <2>5. MarkOf(u)'
    BY <2>1, <2>2 DEF MarkOf, LocationOf, Top
  <2> QED
    BY <2>3, <2>4, <2>5
<1>2. \A u \in Threads : FramesOf(u)' /\ EvaluationOf(u)' /\ MarkOf(u)'
    BY <1>1
<1> QED
    BY <1>2 DEF StopInv, StackInv, FramesOf, EvaluationInv, MarkInv

\* the breakpoints and what is known of them are as they were
LEMMA CacheKept ==
    ASSUME CacheInv, UNCHANGED <<bps, fresh, extra>>
    PROVE  CacheInv'
BY DEF CacheInv, Knows

\* the frames of t are as they were, and no more is promised
LEMMA FramesKept ==
    ASSUME StopInv, NEW t \in Threads, stack'[t] = stack[t], Depth(t)' = Depth(t),
           settled' \subseteq settled, Stepping(t)' => Stepping(t), Pausing(t)' => Pausing(t)
    PROVE  FramesOf(t)'
<1> SUFFICES ASSUME NEW d \in 1 .. Depth(t) PROVE FrameOf(t, stack[t][d])'
    BY DEF FramesOf
<1>1. Right(stack[t][d], settled, Stepping(t), Pausing(t))
    BY DEF StopInv, StackInv, FrameOf
<1>2. Right(stack[t][d], settled', Stepping(t)', Pausing(t)')
    BY <1>1, RightWeakens
<1>3. Right(stack'[t][d], settled', Stepping(t)', Pausing(t)')
    BY <1>2
<1> QED
    BY <1>3 DEF FrameOf, Right, Covered

\* the callers are, and the innermost frame is right
LEMMA CallersRight ==
    ASSUME StopInv, NEW t \in Threads, NEW n \in Nat, n <= Depth(t), CallersKept(t, n),
           Depth(t)' = n \/ (Depth(t)' = n + 1 /\ FrameOf(t, Top(t))'),
           settled' = settled, Stepping(t)' => Stepping(t), Pausing(t)' => Pausing(t)
    PROVE  FramesOf(t)'
<1>1. Depth(t) \in Nat
    BY StackFacts DEF StopInv, TypeInv
<1>2. ASSUME NEW d \in 1 .. n PROVE FrameOf(t, stack[t][d])'
  <2>1. stack'[t][d] = stack[t][d] /\ d \in 1 .. Depth(t)
    BY <1>1 DEF CallersKept
  <2>2. Right(stack[t][d], settled, Stepping(t), Pausing(t))
    BY <2>1 DEF StopInv, StackInv, FrameOf
  <2>3. Right(stack'[t][d], settled', Stepping(t)', Pausing(t)')
    BY <2>1, <2>2, RightWeakens
  <2> QED
    BY <2>3 DEF FrameOf, Right, Covered
<1>3. \A d \in 1 .. Depth(t)' : d \in 1 .. n \/ (d = n + 1 /\ d = Depth(t)')
    BY <1>1
<1>4. ASSUME NEW d \in 1 .. Depth(t)', d = Depth(t)', Depth(t)' = n + 1
      PROVE  FrameOf(t, stack[t][d])'
  <2>1. FrameOf(t, Top(t))'
    BY <1>4
  <2> QED
    BY <1>4, <2>1 DEF Top
<1> QED
    BY <1>2, <1>3, <1>4 DEF FramesOf

\* A thread that is to be evaluated, with its frames as they were and nothing to stop for.
LEMMA BeginsStops ==
    ASSUME StopInv, TypeInv', NEW t \in Threads, pc[t] = "run", pc'[t] = "evaluate",
           Alone(t), CacheInv', stack' = stack, marks'[t] = {}, UNCHANGED <<state, step>>
    PROVE  StopInv'
<1>1. FramesOf(t)'
    BY FramesKept DEF Depth, Stepping, Pausing, Alone
<1>2. EvaluationOf(t)'
    BY DEF EvaluationOf
<1>3. MarkOf(t)'
    BY DEF StopInv, MarkInv, MarkOf
<1> QED
    BY <1>1, <1>2, <1>3, StopsOfThread

LEMMA CallStops == \A t \in Threads, c \in Functions : StopInv /\ TypeInv' /\ Call(t, c) => StopInv'
<1> SUFFICES ASSUME NEW t \in Threads, NEW c \in Functions, StopInv, TypeInv', Call(t, c)
             PROVE  StopInv'
    OBVIOUS
<1>1. /\ pc[t] = "run" /\ pc'[t] = "evaluate" /\ marks'[t] = {}
      /\ \A u \in Threads : u # t => pc'[u] = pc[u] /\ ev'[u] = ev[u] /\ marks'[u] = marks[u]
    BY DEF StopInv, TypeInv, ThreadTypes, Call, Go
<1>2. Alone(t) /\ CacheInv'
    BY <1>1, CacheKept DEF StopInv, Alone, OthersKept, OthersRest, Depth, Call, codes
<1> QED
    BY <1>1, <1>2, BeginsStops DEF Call

LEMMA ResumeStops == \A t \in Threads : StopInv /\ TypeInv' /\ Resume(t) => StopInv'
<1> SUFFICES ASSUME NEW t \in Threads, StopInv, TypeInv', Resume(t) PROVE StopInv'
    OBVIOUS
<1>1. /\ pc[t] = "run" /\ pc'[t] = "evaluate" /\ marks'[t] = {}
      /\ \A u \in Threads : u # t => pc'[u] = pc[u] /\ ev'[u] = ev[u] /\ marks'[u] = marks[u]
    BY DEF StopInv, TypeInv, ThreadTypes, Resume, Go
<1>2. Alone(t) /\ CacheInv'
    BY <1>1, CacheKept DEF StopInv, Alone, OthersKept, OthersRest, Depth, Resume, codes
<1> QED
    BY <1>1, <1>2, BeginsStops DEF Resume

\* The frame f is executed.
LEMMA ExecuteStops ==
    ASSUME StopInv, TypeInv', NEW t \in Threads, NEW f \in FrameType, Depth(t) < MaxDepth,
           Execute(t, f), FrameOf(t, f), pc[t] # "wait",
           \A u \in Threads : u # t => marks'[u] = marks[u],
           marks'[t] \cap {"breakpoint", "step", "pause"} = {},
           UNCHANGED <<state, step, bps, fresh, extra, settled>>
    PROVE  StopInv'
<1>1. /\ OthersKept(t) /\ CallersKept(t, Depth(t)) /\ OthersRest(t)
      /\ Depth(t)' = Depth(t) + 1 /\ Top(t)' = Entered(f)
      /\ pc'[t] \in {"call", "run"}
    BY ExecuteFacts DEF StopInv
<1>2. Alone(t) /\ CacheInv'
    BY <1>1, CacheKept DEF Alone, StopInv
<1>3. FrameOf(t, Top(t))'
  <2>1. Right(Entered(f), settled, Stepping(t), Pausing(t))
    BY EnteredTyped, RightAlike DEF FrameOf
  <2>2. Right(Top(t)', settled', Stepping(t)', Pausing(t)')
    BY <1>1, <2>1, RightWeakens DEF Stepping, Pausing
  <2> QED
    BY <2>2 DEF FrameOf, Right, Covered
<1>4. FramesOf(t)'
  <2>1. Depth(t) \in Nat
    BY StackFacts DEF StopInv, TypeInv
  <2> QED
    BY <1>1, <1>3, <2>1, CallersRight DEF Stepping, Pausing
<1>5. EvaluationOf(t)'
    BY <1>1 DEF EvaluationOf
<1>6. MarkOf(t)'
    BY <1>1 DEF StopInv, MarkInv, MarkOf
<1> QED
    BY <1>2, <1>4, <1>5, <1>6, StopsOfThread

LEMMA ThrowStops == \A t \in Threads : StopInv /\ TypeInv' /\ Throw(t) => StopInv'
<1> SUFFICES ASSUME NEW t \in Threads, StopInv, TypeInv', Throw(t) PROVE StopInv'
    OBVIOUS
<1> DEFINE f == [parked EXCEPT !.doubts = @ \cup {"thrown"}]
<1>1. f \in FrameType /\ "thrown" \in f.doubts
    BY DEF StopInv, TypeInv, DebuggerTypes, Throw, FrameType
<1>2. Execute(t, f) /\ pc[t] = "run" /\ Depth(t) < MaxDepth
    BY DEF Throw
<1>3. marks'[t] = {} /\ \A u \in Threads : u # t => marks'[u] = marks[u]
    BY DEF StopInv, TypeInv, ThreadTypes, Throw
<1>4. UNCHANGED <<state, step, bps, fresh, extra, settled>>
    BY DEF Throw, codes
<1> HIDE DEF f
<1>5. FrameOf(t, f)
    BY <1>1 DEF FrameOf, Right
<1> QED
    BY <1>1, <1>2, <1>3, <1>4, <1>5, ExecuteStops

LEMMA EnterStops == \A t \in Threads : StopInv /\ TypeInv' /\ Enter(t) => StopInv'
<1> SUFFICES ASSUME NEW t \in Threads, StopInv, TypeInv', Enter(t) PROVE StopInv'
    OBVIOUS
<1> DEFINE f == Evaluated(t)
           g == ev[t].frame
<1>1. Execute(t, f) /\ pc[t] = "enter"
    BY DEF Enter, Evaluated
<1>2. /\ f \in FrameType /\ Depth(t) < MaxDepth /\ f.code = g.code /\ f.trace = g.trace
      /\ f.doubts = (g.doubts \cap {"moved"}) \cup (IF ev[t].current THEN {} ELSE {"blind"})
                                             \cup (IF ev[t].paused THEN {"late"} ELSE {})
    BY <1>1, EvaluatedTyped DEF StopInv
<1>3. /\ marks'[t] \cap {"breakpoint", "step", "pause"} = {}
      /\ \A u \in Threads : u # t => marks'[u] = marks[u]
    BY <1>1 DEF StopInv, MarkInv, MarkOf, AtLine, Enter, history
<1>4. UNCHANGED <<state, step, bps, fresh, extra, settled>>
    BY DEF Enter, codes, history
<1> HIDE DEF f
<1>5. FrameOf(t, f)
  <2> SUFFICES ASSUME g.code.fn \notin Internal
               PROVE  /\ f.doubts \cap {"moved", "thrown", "blind"} = {} => Covered(f, settled)
                      /\ Stepping(t) => f.trace = "dispatch"
                      /\ Pausing(t) /\ "late" \notin f.doubts => f.trace = "dispatch"
    BY <1>2 DEF FrameOf, Right
  <2>1. /\ ev[t].current /\ "moved" \notin g.doubts => Covered(g, bps)
        /\ step[t] /\ ~LatePause(t) => g.trace = "dispatch"
    BY <1>1 DEF StopInv, EvaluationInv, EvaluationOf
  <2>2. f.doubts \cap {"moved", "thrown", "blind"} = {} => Covered(f, settled)
    <3>1. LinesOf(g.code.fn, settled) \subseteq LinesOf(g.code.fn, bps)
      BY LinesGrow DEF StopInv, TypeInv, DebuggerTypes
    <3>2. f.doubts \cap {"moved", "thrown", "blind"} = {} => Covered(g, bps)
      BY <1>2, <2>1
    <3> QED
      BY <1>2, <3>1, <3>2 DEF Covered
  <2>3. Stepping(t) => f.trace = "dispatch"
    BY <1>2, <2>1 DEF Stepping, LatePause
  <2>4. Pausing(t) /\ "late" \notin f.doubts => f.trace = "dispatch"
    <3>1. state[t] = "suspend" => step[t]
      BY DEF StopInv, MarkInv, MarkOf
    <3> QED
      BY <1>2, <2>1, <3>1 DEF Pausing, LatePause
  <2> QED
    BY <2>2, <2>3, <2>4
<1> QED
    BY <1>1, <1>2, <1>3, <1>4, <1>5, ExecuteStops

\* What the thread has to stop for at line l: then its frame is traced, or calls pydevd.
LEMMA MarksMean ==
    ASSUME StopInv, NEW t \in Threads, NEW l \in Lines, Depth(t) > 0
    PROVE  /\ Marks(t, Top(t), l) \cap {"breakpoint", "step", "pause"} # {} =>
                  Top(t).code.fn \notin Internal
           /\ "breakpoint" \in Marks(t, Top(t), l) =>
                  /\ <<Top(t).code.fn, l>> \in bps
                  /\ Top(t).trace = "dispatch" \/ l \in Top(t).code.breaks
           /\ "step" \in Marks(t, Top(t), l) => step[t] /\ Top(t).trace = "dispatch"
           /\ "pause" \in Marks(t, Top(t), l) =>
                  state[t] = "suspend" /\ (pc[t] # "wait" => Top(t).trace = "dispatch")
<1> DEFINE f == Top(t)
<1>1. f \in FrameType /\ Depth(t) \in 1 .. Depth(t)
    BY StackFacts DEF StopInv, TypeInv
<1>2. Right(f, settled, Stepping(t), Pausing(t))
    BY <1>1 DEF StopInv, StackInv, FrameOf, Top
<1> DEFINE breakpoint == f.doubts \cap {"moved", "thrown", "blind"}
           stepping   == f.doubts \cap {"moved", "thrown"}
           pausing    == f.doubts \cap {"moved", "thrown", "late"}
           Given(condition, reason, found) ==
               IF f.code.fn \in Internal \/ ~condition THEN {}
               ELSE IF found = {} THEN {reason} ELSE found
<1>3. Marks(t, f, l) = UNION {
          Given(<<f.code.fn, l>> \in settled, "breakpoint", breakpoint),
          Given(step[t] /\ state[t] = "run", "step", stepping),
          Given(state[t] = "suspend", "pause", pausing)}
    BY DEF Marks
<1>4. /\ breakpoint \cap {"breakpoint", "step", "pause"} = {}
      /\ stepping \cap {"breakpoint", "step", "pause"} = {}
      /\ pausing \cap {"breakpoint", "step", "pause"} = {}
    OBVIOUS
<1> HIDE DEF f
<1>5. \A m \in {"breakpoint", "step", "pause"} : m \in Marks(t, f, l) =>
          /\ f.code.fn \notin Internal
          /\ \/ m = "breakpoint" /\ <<f.code.fn, l>> \in settled /\ breakpoint = {}
             \/ m = "step" /\ step[t] /\ state[t] = "run" /\ stepping = {}
             \/ m = "pause" /\ state[t] = "suspend" /\ pausing = {}
  <2> HIDE DEF breakpoint, stepping, pausing
  <2> QED
    BY <1>3, <1>4
<1>6. "breakpoint" \in Marks(t, f, l) =>
          <<f.code.fn, l>> \in bps /\ (f.trace = "dispatch" \/ l \in f.code.breaks)
  <2> SUFFICES ASSUME "breakpoint" \in Marks(t, f, l)
               PROVE  <<f.code.fn, l>> \in bps /\ (f.trace = "dispatch" \/ l \in f.code.breaks)
    OBVIOUS
  <2>1. f.code.fn \notin Internal /\ <<f.code.fn, l>> \in settled /\ breakpoint = {}
    BY <1>5
  <2>2. Covered(f, settled)
    BY <1>2, <2>1 DEF Right
  <2>3. l \in LinesOf(f.code.fn, settled) /\ settled \subseteq bps
    BY <2>1, HasLine DEF StopInv, TypeInv, DebuggerTypes
  <2> QED
    BY <2>1, <2>2, <2>3 DEF Covered
<1> QED
  BY <1>2, <1>5, <1>6 DEF f, Right, Stepping, Pausing

LEMMA AdvanceStops ==
    \A t \in Threads, l \in Lines : StopInv /\ TypeInv' /\ Advance(t, l) => StopInv'
<1> SUFFICES ASSUME NEW t \in Threads, NEW l \in Lines, StopInv, TypeInv', Advance(t, l)
             PROVE  StopInv'
    OBVIOUS
<1> DEFINE f == Top(t)
           g == AtLineOf(Top(t), l)
<1>1. /\ OthersKept(t) /\ CallersKept(t, Depth(t) - 1) /\ Depth(t) > 0
      /\ Depth(t)' = Depth(t) /\ Top(t)' = g /\ f \in FrameType
      /\ g.code = f.code /\ g.line = l /\ g.doubts = f.doubts
      /\ g.trace = "dispatch" <=> f.trace = "dispatch"
      /\ pc'[t] = (IF f.trace = "dispatch" THEN "line"
                   ELSE IF l \in f.code.breaks THEN "needs" ELSE "run")
      /\ \A u \in Threads : u # t => pc'[u] = pc[u]
    BY AdvanceFacts DEF StopInv
<1>2. /\ marks'[t] = Marks(t, f, l) /\ \A u \in Threads : u # t => marks'[u] = marks[u]
      /\ pc[t] = "run" /\ UNCHANGED <<ev, state, step, bps, settled, fresh, extra>>
    BY DEF StopInv, TypeInv, ThreadTypes, Advance, codes
<1> HIDE DEF g
<1>3. Alone(t) /\ CacheInv'
    BY <1>1, <1>2, CacheKept DEF Alone, OthersRest, StopInv
<1>4. FramesOf(t)'
  <2>1. Depth(t) \in Nat /\ Depth(t) \in 1 .. Depth(t) /\ Depth(t) - 1 \in Nat
    BY <1>1, StackFacts DEF StopInv, TypeInv
  <2>2. Right(f, settled, Stepping(t), Pausing(t))
    BY <2>1 DEF StopInv, StackInv, FrameOf, Top
  <2>3. Right(g, settled, Stepping(t), Pausing(t))
    BY <1>1, <2>2, RightAlike
  <2>4. Right(Top(t)', settled', Stepping(t)', Pausing(t)')
    BY <1>1, <1>2, <2>3, RightWeakens DEF Stepping, Pausing
  <2>5. FrameOf(t, Top(t))'
    BY <2>4 DEF FrameOf, Right, Covered
  <2>6. Depth(t)' = (Depth(t) - 1) + 1
    BY <1>1, <2>1
  <2>7. Depth(t) - 1 <= Depth(t) /\ settled' = settled
    BY <1>2, <2>1
  <2>8. (Stepping(t)' => Stepping(t)) /\ (Pausing(t)' => Pausing(t))
    BY <1>2 DEF Stepping, Pausing
  <2>9. CallersKept(t, Depth(t) - 1)
    BY <1>1
  <2> QED
    BY <2>1, <2>5, <2>6, <1>1, <2>7, <2>8, <2>9, CallersRight
<1>5. EvaluationOf(t)'
    BY <1>1 DEF EvaluationOf
<1>6. MarkOf(t)'
  <2>1. Top(t)'.code = f.code /\ LocationOf(Top(t))' = <<f.code.fn, l>>
    BY <1>1 DEF LocationOf
  <2>2. state[t] = "suspend" => step[t]
    BY DEF StopInv, MarkInv, MarkOf
  <2> QED
    BY <1>1, <1>2, <2>1, <2>2, MarksMean DEF MarkOf, AtLine
<1> QED
    BY <1>3, <1>4, <1>5, <1>6, StopsOfThread

LEMMA LeaveStops == \A t \in Threads : StopInv /\ TypeInv' /\ Leave(t) => StopInv'
<1> SUFFICES ASSUME NEW t \in Threads, StopInv, TypeInv', Leave(t) PROVE StopInv'
    OBVIOUS
<1>1. Depth(t) \in Nat /\ Depth(t) > 0 /\ Depth(t) - 1 \in Nat /\ pc[t] = "run"
    BY StackFacts DEF StopInv, TypeInv, Leave
<1>2. OthersKept(t) /\ CallersKept(t, Depth(t) - 1) /\ Depth(t)' = Depth(t) - 1
    BY <1>1, Popped DEF Leave, StopInv, TypeInv
<1>3. /\ marks'[t] = {} /\ \A u \in Threads : u # t => marks'[u] = marks[u]
      /\ UNCHANGED <<pc, ev, state, step, bps, settled, fresh, extra>>
    BY DEF StopInv, TypeInv, ThreadTypes, Leave, codes
<1>4. Alone(t) /\ CacheInv'
    BY <1>2, <1>3, CacheKept DEF Alone, OthersRest, StopInv
<1>5. FramesOf(t)'
    BY <1>1, <1>2, <1>3, CallersRight DEF Stepping, Pausing
<1>6. EvaluationOf(t)' /\ MarkOf(t)'
    BY <1>1, <1>3 DEF EvaluationOf, StopInv, MarkInv, MarkOf
<1> QED
    BY <1>4, <1>5, <1>6, StopsOfThread

\* A step of an evaluation: the frames are as they were, and there is nothing to stop for.
LEMMA EvaluationStops ==
    ASSUME StopInv, TypeInv', NEW t \in Threads, pc[t] \notin AtLine \cup {"wait"},
           OthersRest(t), CacheInv', EvaluationOf(t)', pc'[t] # "wait",
           UNCHANGED <<stack, state, step, bps, settled, marks>>
    PROVE  StopInv'
<1>1. Alone(t)
    BY DEF Alone, OthersKept, Depth
<1>2. FramesOf(t)'
    BY FramesKept DEF Depth, Stepping, Pausing
<1>3. MarkOf(t)'
    BY DEF StopInv, MarkInv, MarkOf, AtLine
<1> QED
    BY <1>1, <1>2, <1>3, StopsOfThread

\* The decision is made with a FuncCodeInfo that knows the breakpoints, or while nothing
\* is promised.
LEMMA DecisionIsRight ==
    ASSUME NEW f \in FrameType, NEW info \in FuncCodeInfo, NEW force,
           Knows(f.code, info), force => LinesOf(f.code.fn, bps) \subseteq f.code.breaks,
           Decision(f, info, force).code.fn \notin Internal
    PROVE  Covered(Decision(f, info, force), bps)
<1> DEFINE g == Decision(f, info, force)
<1>1. /\ info.skip => f.code.fn \in Internal
      /\ ~info.skip /\ ~info.found => LinesOf(f.code.fn, bps) = {}
      /\ info.new # NoCode =>
             info.new.fn = f.code.fn /\ LinesOf(f.code.fn, bps) \subseteq info.new.breaks
    BY DEF Knows
<1>2. g.code = f.code \/ (info.new # NoCode /\ g.code = info.new)
    BY DecisionTyped
<1>3. g.code.fn = f.code.fn /\ f.code.fn \notin Internal
    BY <1>1, <1>2
<1>4. CASE g = f /\ (~info.found \/ force)
    BY <1>1, <1>3, <1>4 DEF Covered
<1>5. CASE info.new = NoCode /\ g = [f EXCEPT !.trace = "dispatch"]
  <2>1. g.trace = "dispatch"
    BY <1>5 DEF FrameType
  <2> QED
    BY <2>1 DEF Covered
<1>6. CASE info.new # NoCode /\ g = Replace(f, info.new)
  <2>1. g.code = info.new
    BY <1>6 DEF Replace, FrameType
  <2> QED
    BY <1>1, <1>6, <2>1 DEF Covered
<1> QED
    BY <1>1, <1>3, <1>4, <1>5, <1>6 DEF Decision

\* A FuncCodeInfo is used, in an evaluation that has a current one only if it knows the
\* breakpoints.
LEMMA DecideStops ==
    ASSUME StopInv, TypeInv', NEW t \in Threads, pc[t] \in Evaluating,
           NEW info \in FuncCodeInfo, NEW force, Decide(t, info, force),
           step[t] => LatePause(t), CacheInv',
           ev[t].current =>
               /\ Knows(ev[t].frame.code, info)
               /\ force => LinesOf(ev[t].frame.code.fn, bps) \subseteq ev[t].frame.code.breaks,
           UNCHANGED <<stack, state, step, bps, settled, marks>>
    PROVE  StopInv'
<1> DEFINE f == ev[t].frame
           g == Decision(f, info, force)
<1>1. /\ pc'[t] = "enter" /\ OthersRest(t) /\ f \in FrameType
      /\ ev'[t] = [ev[t] EXCEPT !.frame = g]
    BY DecideTypes DEF StopInv
<1>2. /\ ev'[t].frame = g /\ ev'[t].current = ev[t].current /\ ev'[t].paused = ev[t].paused
  <2>1. ev[t] \in EvaluationType
    BY DEF StopInv, TypeInv, ThreadTypes
  <2> HIDE DEF g
  <2> QED
    BY <1>1, <2>1 DEF EvaluationType
<1>3. ev[t].current /\ g.code.fn \notin Internal => Covered(g, bps)
    BY <1>1, DecisionIsRight
<1> HIDE DEF g
<1>4. EvaluationOf(t)'
  <2>1. LatePause(t)' = LatePause(t)
    BY <1>2 DEF LatePause
  <2>2. ev'[t].current /\ ev'[t].frame.code.fn \notin Internal => Covered(ev[t].frame, bps)'
    BY <1>2, <1>3 DEF Covered
  <2>3. step'[t] => LatePause(t)'
    BY <2>1
  <2> QED
    BY <1>1, <2>2, <2>3 DEF EvaluationOf
<1> QED
    BY <1>1, <1>4, EvaluationStops DEF Evaluating, AtLine

LEMMA StoredStops ==
    ASSUME StopInv, TypeInv', NEW t \in Threads, pc[t] \in {"lookup", "insert"},
           NEW info \in FuncCodeInfo, NEW force, Stored(t, info, force),
           ev[t].current => Knows(ev[t].frame.code, info),
           force => LinesOf(ev[t].frame.code.fn, bps) \subseteq ev[t].frame.code.breaks
    PROVE  StopInv'
<1> DEFINE o == ev[t].frame.code
<1>1. /\ pc[t] \in Evaluating /\ (step[t] => LatePause(t)) /\ Decide(t, info, force)
      /\ UNCHANGED <<stack, state, step, bps, settled, marks>>
    BY DEF StopInv, EvaluationInv, EvaluationOf, Stored, history, Evaluating
<1>2. o \in CodeObjects /\ extra \in [CodeObjects -> FuncCodeInfo] /\ fresh \subseteq CodeObjects
    BY <1>1 DEF StopInv, TypeInv, DebuggerTypes, PlaceInv, PlaceOf, FrameType
<1>3. CacheInv'
  <2> SUFFICES ASSUME NEW x \in fresh' PROVE Knows(x, extra[x])'
    BY DEF CacheInv
  <2>1. extra' = [extra EXCEPT ![o] = IF ev[t].current THEN info ELSE NoInfo]
        /\ fresh' = IF ev[t].current THEN fresh \cup {o} ELSE fresh \ {o}
    BY DEF Stored, SetExtra
  <2>2. x = o => ev[t].current /\ extra'[x] = info
    BY <1>2, <2>1
  <2>3. x # o => x \in fresh /\ extra'[x] = extra[x]
    BY <1>2, <2>1
  <2>4. CASE x = o
    BY <1>1, <2>2, <2>4 DEF Knows
  <2>5. CASE x # o
    <3>1. Knows(x, extra[x])
      BY <2>3, <2>5 DEF StopInv, CacheInv
    <3> QED
      BY <1>1, <2>3, <2>5, <3>1 DEF Knows
  <2> QED
    BY <2>4, <2>5
<1> QED
    BY <1>1, <1>3, DecideStops

LEMMA LookupStops == \A t \in Threads : StopInv /\ TypeInv' /\ Lookup(t) => StopInv'
<1> SUFFICES ASSUME NEW t \in Threads, StopInv, TypeInv', Lookup(t) PROVE StopInv'
    OBVIOUS
<1> DEFINE o == ev[t].frame.code
           e == ev[t]
<1>1. /\ pc[t] = "lookup" /\ pc[t] \in Evaluating /\ pc[t] \notin AtLine \cup {"wait"}
      /\ step[t] => LatePause(t)
    BY DEF Lookup, Evaluating, AtLine, StopInv, EvaluationInv, EvaluationOf
<1>2. \A found \in BOOLEAN : /\ [NoInfo EXCEPT !.found = found].found = found
                             /\ [NoInfo EXCEPT !.found = found].skip = FALSE
                             /\ [NoInfo EXCEPT !.found = found].new = NoCode
    BY DEF NoInfo
<1>3. CASE AlwaysSkipCode(t)
  <2>1. Knows(o, [NoInfo EXCEPT !.skip = TRUE])
    BY <1>3 DEF AlwaysSkipCode, Knows, NoInfo
  <2> QED
    BY <1>1, <1>3, <2>1, InfoTyped, StoredStops DEF AlwaysSkipCode
<1>4. CASE GeneratedBefore(t)
  <2>1. PICK found \in BOOLEAN :
            /\ found <=> LinesOf(o.fn, bps) # {}
            /\ Stored(t, [NoInfo EXCEPT !.found = found], found => ForceStayInUntracedMode(o))
    BY <1>4 DEF GeneratedBefore
  <2>2. Knows(o, [NoInfo EXCEPT !.found = found])
    BY <1>2, <2>1 DEF Knows
  <2>3. ForceStayInUntracedMode(o) => LinesOf(o.fn, bps) \subseteq o.breaks
    BY DEF ForceStayInUntracedMode, LineBreakpoints, LinesOf
  <2> QED
    BY <1>1, <2>1, <2>2, <2>3, InfoTyped, StoredStops
<1>5. CASE NothingToInsert(t)
  <2>1. PICK found \in BOOLEAN :
            /\ found <=> <<o.fn, 0>> \in bps
            /\ Stored(t, [NoInfo EXCEPT !.found = found], FALSE)
    <3> DEFINE function == <<o.fn, 0>> \in bps
    <3>1. Stored(t, [NoInfo EXCEPT !.found = function], FALSE)
      BY <1>5 DEF NothingToInsert
    <3>2. function \in BOOLEAN
      OBVIOUS
    <3> WITNESS function \in BOOLEAN
    <3> QED
      BY <3>1
  <2>2. ~found => LinesOf(o.fn, bps) = {}
    BY <1>5, <2>1 DEF NothingToInsert, LineBreakpoints, LinesOf
  <2>3. Knows(o, [NoInfo EXCEPT !.found = found])
    BY <1>2, <2>2 DEF Knows
  <2> QED
    BY <1>1, <2>1, <2>3, InfoTyped, StoredStops
<1>6. CASE BreakpointsMissing(t)
  <2>1. pc'[t] = "raised" /\ OthersRest(t)
    BY <1>6 DEF StopInv, TypeInv, ThreadTypes, BreakpointsMissing, Go, OthersRest
  <2>2. /\ UNCHANGED <<stack, state, step, bps, settled, marks, fresh, extra>>
    BY <1>6 DEF BreakpointsMissing, codes, history
  <2>3. EvaluationOf(t)' /\ CacheInv'
    BY <2>1, <2>2, CacheKept DEF EvaluationOf, StopInv
  <2> QED
    BY <1>1, <2>1, <2>2, <2>3, EvaluationStops
<1>7. CASE BeginToInsert(t)
  <2>1. /\ pc'[t] = "insert" /\ OthersRest(t)
        /\ ev'[t] = [e EXCEPT !.lines = LinesOf(o.fn, bps)]
    BY <1>7 DEF StopInv, TypeInv, ThreadTypes, BeginToInsert, Go, OthersRest
  <2>2. ev'[t].frame = e.frame /\ ev'[t].lines = LinesOf(o.fn, bps) /\ ev'[t].paused = e.paused
    <3>1. e \in EvaluationType
      BY DEF StopInv, TypeInv, ThreadTypes
    <3> QED
      BY <2>1, <3>1 DEF EvaluationType
  <2>3. /\ UNCHANGED <<stack, state, step, bps, settled, marks, fresh, extra>>
        /\ o.fn \notin Internal
    BY <1>7 DEF BeginToInsert, codes, history
  <2>4. EvaluationOf(t)' /\ CacheInv'
    BY <1>1, <2>1, <2>2, <2>3, CacheKept DEF EvaluationOf, StopInv, LatePause
  <2> QED
    BY <1>1, <2>1, <2>3, <2>4, EvaluationStops
<1> QED
    BY <1>3, <1>4, <1>5, <1>6, <1>7 DEF Lookup

LEMMA EvaluationStepStops == \A t \in Threads : StopInv /\ TypeInv' /\ Evaluation(t) => StopInv'
<1> SUFFICES ASSUME NEW t \in Threads, StopInv, TypeInv', Evaluation(t) PROVE StopInv'
    OBVIOUS
<1> DEFINE f == ev[t].frame
<1>1. CASE EvaluateTraced(t)
  <2> DEFINE g == [f EXCEPT !.trace = "dispatch"]
  <2>1. pc[t] = "evaluate" /\ pc[t] \in Evaluating /\ f \in FrameType
    BY <1>1 DEF EvaluateTraced, Evaluating, StopInv, TypeInv, PlaceInv, PlaceOf
  <2>2. g \in FrameType /\ g.trace = "dispatch"
    BY <2>1, TraceSet
  <2>3. Decided(t, g) /\ UNCHANGED <<stack, state, step, bps, settled, marks, fresh, extra>>
    BY <1>1 DEF EvaluateTraced, codes, history
  <2> HIDE DEF g
  <2>4. pc'[t] = "enter" /\ ev'[t] = [ev[t] EXCEPT !.frame = g] /\ OthersRest(t)
    BY <2>1, <2>2, <2>3, DecidedTypes DEF StopInv
  <2>5. ev'[t].frame = g
    <3>1. ev[t] \in EvaluationType
      BY DEF StopInv, TypeInv, ThreadTypes
    <3> QED
      BY <2>4, <3>1 DEF EvaluationType
  <2>6. EvaluationOf(t)' /\ CacheInv'
    BY <2>2, <2>3, <2>4, <2>5, CacheKept DEF EvaluationOf, Covered, StopInv
  <2> QED
    BY <2>1, <2>3, <2>4, <2>6, EvaluationStops DEF AtLine
<1>2. CASE CodeInfoCurrent(t)
  <2>1. /\ pc[t] \in Evaluating /\ ~step[t] /\ f.code \in fresh
        /\ Decide(t, extra[f.code], FALSE)
        /\ UNCHANGED <<stack, state, step, bps, settled, marks, fresh, extra>>
    BY <1>2 DEF CodeInfoCurrent, Evaluating, TraceEveryFrame, codes, history
  <2>2. extra[f.code] \in FuncCodeInfo /\ Knows(f.code, extra[f.code]) /\ CacheInv'
    BY <2>1, CacheKept DEF StopInv, TypeInv, DebuggerTypes, CacheInv
  <2> QED
    BY <2>1, <2>2, DecideStops
<1>3. CASE CodeInfoOutdated(t)
  <2>1. /\ pc[t] = "evaluate" /\ pc'[t] = "lookup" /\ OthersRest(t) /\ ~step[t]
        /\ UNCHANGED <<stack, ev, state, step, bps, settled, marks, fresh, extra>>
    BY <1>3 DEF CodeInfoOutdated, TraceEveryFrame, codes, history, StopInv, TypeInv, ThreadTypes,
                Go, OthersRest
  <2>2. EvaluationOf(t)' /\ CacheInv'
    BY <2>1, CacheKept DEF EvaluationOf, StopInv
  <2> QED
    BY <2>1, <2>2, EvaluationStops DEF AtLine
<1>4. CASE InsertPydevdBreaks(t)
  <2>1. /\ pc[t] = "insert" /\ Stored(t, InsertedInfo(t), FALSE)
        /\ InsertedInfo(t) \in FuncCodeInfo
    BY <1>4, InsertFacts DEF StopInv
  <2>2. /\ f.code.fn \notin Internal
        /\ ev[t].current => ev[t].lines = LinesOf(f.code.fn, bps)
    BY <2>1 DEF StopInv, EvaluationInv, EvaluationOf
  <2>3. /\ InsertedInfo(t).skip = FALSE
        /\ InsertedInfo(t).found <=> ev[t].lines # {}
        /\ InsertedInfo(t).new = IF Inserted(t) THEN NewCode(t) ELSE NoCode
    BY DEF InsertedInfo, NoInfo
  <2>4. NewCode(t).fn = f.code.fn /\ NewCode(t).breaks = ev[t].lines
    BY DEF NewCode
  <2>5. ev[t].current => Knows(f.code, InsertedInfo(t))
    BY <2>2, <2>3, <2>4 DEF Knows
  <2> QED
    BY <2>1, <2>5, StoredStops
<1>5. CASE EvaluationFailed(t)
  <2>1. /\ pc[t] = "raised" /\ pc'[t] = "run" /\ OthersRest(t)
        /\ UNCHANGED <<stack, ev, state, step, bps, settled, marks, fresh, extra>>
    BY <1>5 DEF EvaluationFailed, codes, history, StopInv, TypeInv, ThreadTypes, Go, OthersRest
  <2>2. EvaluationOf(t)' /\ CacheInv'
    BY <2>1, CacheKept DEF EvaluationOf, StopInv
  <2> QED
    BY <2>1, <2>2, EvaluationStops DEF AtLine
<1> QED
    BY <1>1, <1>2, <1>3, <1>4, <1>5, LookupStops, EnterStops DEF Evaluation

LEMMA TracingStops == \A t \in Threads : StopInv /\ TypeInv' /\ Tracing(t) => StopInv'
<1> SUFFICES ASSUME NEW t \in Threads, StopInv, TypeInv', Tracing(t) PROVE StopInv'
    OBVIOUS
<1>a. pc[t] \in {"needs", "call", "line", "wait"}
    BY DEF Tracing, InsertedCall, Suspend, GoesOn, ResumeThread
<1>b. /\ Depth(t) > 0 /\ Depth(t) \in Nat /\ Depth(t) - 1 \in Nat /\ Depth(t) \in 1 .. Depth(t)
      /\ MarkOf(t) /\ FramesOf(t) /\ Top(t) \in FrameType /\ TypeInv
    BY <1>a, StackFacts DEF StopInv, TypeInv, PlaceInv, PlaceOf, AtLine, MarkInv, StackInv, FramesOf
<1>c. Right(Top(t), settled, Stepping(t), Pausing(t))
    BY <1>b DEF FramesOf, FrameOf, Top
<1>d. pc' = [pc EXCEPT ![t] = pc'[t]] /\ ev' = ev /\ UNCHANGED <<bps, settled, fresh, extra>>
    BY DEF Tracing, InsertedCall, Suspend, GoesOn, ResumeThread, Go, codes, history, StopInv,
           TypeInv, ThreadTypes
<1>e. OthersRest(t) /\ CacheInv'
  <2>1. pc \in [Threads -> Evaluating \cup AtLine \cup {"run", "call", "wait", "raised"}]
    BY <1>b DEF TypeInv, ThreadTypes
  <2>2. OthersRest(t)
    BY <1>d, <2>1 DEF OthersRest
  <2>3. CacheInv'
    BY <1>d, CacheKept DEF StopInv
  <2> QED
    BY <2>2, <2>3
<1>f. pc'[t] \notin Evaluating => EvaluationOf(t)'
    BY DEF EvaluationOf, Evaluating
<1>g. stack' = stack => OthersKept(t) /\ Depth(t)' = Depth(t)
    BY DEF OthersKept, Depth
<1>h. pc' = [pc EXCEPT ![t] = "run"] \/ pc' = [pc EXCEPT ![t] = "line"]
          \/ pc' = [pc EXCEPT ![t] = "wait"] => EvaluationOf(t)'
    BY <1>f DEF Evaluating, StopInv, TypeInv, ThreadTypes
<1>1. CASE InsertedCall(t) /\ NeedsStopAtBreak(t)
  <2>1. /\ pc[t] = "needs" /\ stack' = [stack EXCEPT ![t][Depth(t)].trace = "dispatch"]
        /\ UNCHANGED <<state, step, marks>> /\ Go(t, "line")
    BY <1>1 DEF InsertedCall, history
  <2>2. pc'[t] = "line" /\ EvaluationOf(t)'
    BY <1>h, <2>1 DEF Go, StopInv, TypeInv, ThreadTypes
  <2>3. /\ OthersKept(t) /\ CallersKept(t, Depth(t) - 1) /\ Depth(t)' = Depth(t)
        /\ Top(t)' = [Top(t) EXCEPT !.trace = "dispatch"]
    BY <1>b, <2>1, TopTraced
  <2>4. /\ Top(t)'.trace = "dispatch" /\ Top(t)'.code = Top(t).code /\ Top(t)'.line = Top(t).line
    BY <1>b, <2>3, TraceSet
  <2>5. FrameOf(t, Top(t))'
    BY <2>4, DispatchIsRight DEF FrameOf, Right, Covered
  <2>6. FramesOf(t)'
    <3>1. Depth(t)' = (Depth(t) - 1) + 1 /\ Depth(t) - 1 <= Depth(t) /\ settled' = settled
      BY <1>b, <1>d, <2>3
    <3>2. (Stepping(t)' => Stepping(t)) /\ (Pausing(t)' => Pausing(t))
      BY <2>1 DEF Stepping, Pausing
    <3> QED
      BY <1>b, <2>3, <2>5, <3>1, <3>2, CallersRight
  <2>7. MarkOf(t)'
    BY <1>b, <1>d, <2>1, <2>2, <2>3, <2>4 DEF MarkOf, AtLine, LocationOf
  <2>8. Alone(t)
    BY <1>d, <1>e, <2>1, <2>3 DEF Alone
  <2> QED
    BY <1>e, <2>2, <2>6, <2>7, <2>8, StopsOfThread
<1>2. CASE InsertedCall(t) /\ ~NeedsStopAtBreak(t)
  <2>1. pc[t] = "needs" /\ Go(t, "run") /\ UNCHANGED <<stack, state, step, marks>>
    BY <1>2 DEF InsertedCall, history
  <2>2. pc'[t] = "run" /\ EvaluationOf(t)'
    BY <1>h, <2>1 DEF Go, StopInv, TypeInv, ThreadTypes
  <2>3. FramesOf(t)'
    BY <1>d, <2>1, FramesKept DEF Depth, Stepping, Pausing
  <2>4. MarkOf(t)'
    BY <1>b, <1>2, <2>1 DEF MarkOf, NeedsStopAtBreak
  <2>5. Alone(t)
    BY <1>d, <1>e, <1>g, <2>1 DEF Alone
  <2> QED
    BY <1>e, <2>2, <2>3, <2>4, <2>5, StopsOfThread
<1>3. CASE Suspend(t)
  <2>1. /\ Go(t, "wait") /\ stack' = stack /\ marks' = [marks EXCEPT ![t] = {}]
        /\ state' = [state EXCEPT ![t] = "suspend"] /\ step' = [step EXCEPT ![t] = TRUE]
    BY <1>3 DEF Suspend
  <2>2. /\ pc'[t] = "wait" /\ EvaluationOf(t)' /\ marks'[t] = {} /\ state'[t] = "suspend"
        /\ step'[t] = TRUE
        /\ \A u \in Threads : u # t =>
               state'[u] = state[u] /\ step'[u] = step[u] /\ marks'[u] = marks[u]
    BY <1>h, <2>1 DEF Go, StopInv, TypeInv, ThreadTypes
  <2>3. FramesOf(t)'
    BY <1>d, <2>1, <2>2, FramesKept DEF Depth, Stepping, Pausing
  <2>4. MarkOf(t)'
    BY <2>2 DEF MarkOf
  <2>5. Alone(t)
    BY <1>d, <1>e, <1>g, <2>1, <2>2 DEF Alone
  <2> QED
    BY <1>e, <2>2, <2>3, <2>4, <2>5, StopsOfThread
<1>4. CASE GoesOn(t)
  <2>1. /\ Go(t, "run") /\ ~Stops(t) /\ pc[t] \in {"call", "line"}
        /\ UNCHANGED <<state, step, marks>>
    BY <1>4 DEF GoesOn, history
  <2>2. pc'[t] = "run" /\ EvaluationOf(t)'
    BY <1>h, <2>1 DEF Go, StopInv, TypeInv, ThreadTypes
  <2>3. marks[t] \cap {"breakpoint", "step", "pause"} = {}
    BY <1>b, <2>1 DEF MarkOf, AtLine, Stops
  <2>4. MarkOf(t)'
    BY <1>b, <2>1, <2>3 DEF MarkOf
  <2>5. CASE stack' = stack
    <3>1. FramesOf(t)'
      BY <1>d, <2>1, <2>2, <2>5, FramesKept DEF Depth, Stepping, Pausing
    <3>2. Alone(t)
      BY <1>d, <1>e, <1>g, <2>1, <2>5 DEF Alone
    <3> QED
      BY <1>e, <2>2, <2>4, <3>1, <3>2, StopsOfThread
  <2>6. CASE stack' # stack
    <3>1. /\ ~step[t] /\ state[t] = "run" /\ {b \in bps : b[1] = Top(t).code.fn} = {}
          /\ stack' = [stack EXCEPT ![t][Depth(t)].trace = "off"]
      BY <1>4, <2>6 DEF GoesOn
    <3>2. /\ OthersKept(t) /\ CallersKept(t, Depth(t) - 1) /\ Depth(t)' = Depth(t)
          /\ Top(t)' = [Top(t) EXCEPT !.trace = "off"]
      BY <1>b, <3>1, TopTraced
    <3>3. Top(t)'.code = Top(t).code
      BY <1>b, <3>2, TraceSet
    <3>4. LinesOf(Top(t).code.fn, settled) = {}
      BY <3>1 DEF LinesOf, StopInv, TypeInv, DebuggerTypes
    <3>5. FrameOf(t, Top(t))'
      BY <1>d, <2>1, <3>1, <3>3, <3>4 DEF FrameOf, Right, Covered, Stepping, Pausing
    <3>6. FramesOf(t)'
      <4>1. Depth(t)' = (Depth(t) - 1) + 1 /\ Depth(t) - 1 <= Depth(t) /\ settled' = settled
        BY <1>b, <1>d, <3>2
      <4>2. (Stepping(t)' => Stepping(t)) /\ (Pausing(t)' => Pausing(t))
        BY <2>1, <3>1 DEF Stepping, Pausing
      <4> QED
        BY <1>b, <3>2, <3>5, <4>1, <4>2, CallersRight
    <3>7. Alone(t)
      BY <1>d, <1>e, <2>1, <3>2 DEF Alone
    <3> QED
      BY <1>e, <2>2, <2>4, <3>6, <3>7, StopsOfThread
  <2> QED
    BY <2>5, <2>6
<1>5. ASSUME NEW into \in BOOLEAN, ResumeThread(t, into) PROVE StopInv'
  <2>1. /\ pc[t] = "wait" /\ Go(t, "run") /\ state' = [state EXCEPT ![t] = "run"]
        /\ step' = [step EXCEPT ![t] = into] /\ marks' = marks
        /\ stack' = [stack EXCEPT ![t] = IF into THEN Traced(stack[t]) ELSE stack[t]]
    BY <1>5 DEF ResumeThread, history
  <2>2. /\ pc'[t] = "run" /\ EvaluationOf(t)' /\ state'[t] = "run" /\ step'[t] = into
        /\ \A u \in Threads : u # t => state'[u] = state[u] /\ step'[u] = step[u]
    BY <1>h, <2>1 DEF Go, StopInv, TypeInv, ThreadTypes
  <2>3. MarkOf(t)'
    BY <1>b, <2>1, <2>2 DEF MarkOf, AtLine
  <2>4. CASE ~into
    <3>1. stack' = stack
      BY <2>1, <2>4 DEF StopInv, TypeInv, StackTypes
    <3>2. FramesOf(t)'
      BY <1>d, <2>2, <2>4, <3>1, FramesKept DEF Depth, Stepping, Pausing
    <3>3. Alone(t)
      BY <1>d, <1>e, <1>g, <2>1, <2>2, <3>1 DEF Alone
    <3> QED
      BY <1>e, <2>2, <2>3, <3>2, <3>3, StopsOfThread
  <2>5. CASE into
    <3>1. stack' = [u \in Threads |-> IF u \in {t} THEN Traced(stack[u]) ELSE stack[u]]
      BY <2>1, <2>5 DEF StopInv, TypeInv, StackTypes
    <3>2. /\ \A u \in Threads : Depth(u)' = Depth(u) /\ (u # t => stack'[u] = stack[u])
          /\ \A d \in 1 .. Depth(t) : stack'[t][d] = TracedFrame(stack[t][d])
      BY <1>b, <3>1, TracedStacks DEF TypeInv
    <3>3. FramesOf(t)'
      <4> SUFFICES ASSUME NEW d \in 1 .. Depth(t) PROVE FrameOf(t, stack[t][d])'
        BY <3>2 DEF FramesOf
      <4>1. stack[t][d] \in FrameType /\ stack'[t][d] = TracedFrame(stack[t][d])
        BY <1>b, <3>2, StackFacts DEF TypeInv
      <4>2. Right(stack'[t][d], settled', Stepping(t)', Pausing(t)')
        BY <4>1, TracedIsRight
      <4> QED
        BY <4>2 DEF FrameOf, Right, Covered
    <3>4. Alone(t)
      BY <1>d, <1>e, <2>1, <2>2, <3>2 DEF Alone, OthersKept
    <3> QED
      BY <1>e, <2>2, <2>3, <3>3, <3>4, StopsOfThread
  <2> QED
    BY <2>4, <2>5
<1> QED
  BY <1>1, <1>2, <1>3, <1>4, <1>5 DEF Tracing

\* What a command has to keep.  The thread of the client does not move the others.
LEMMA StopsOfThreads ==
    ASSUME StopInv, TypeInv', CacheInv',
           \A t \in Threads : FramesOf(t)' /\ EvaluationOf(t)' /\ MarkOf(t)'
    PROVE  StopInv'
BY DEF StopInv, StackInv, FramesOf, EvaluationInv, MarkInv

\* The breakpoints change: no FuncCodeInfo counts any more, or the lines are the same.
LEMMA BreakpointStops ==
    ASSUME StopInv, TypeInv', UNCHANGED <<stack, pc, state, step>>, settled' \subseteq settled,
           \/ NewMtime
           \/ UNCHANGED <<ev, extra, fresh>> /\ \A c : LinesOf(c, bps') = LinesOf(c, bps),
           \A t \in Threads : /\ marks'[t] \subseteq marks[t]
                              /\ "breakpoint" \in marks'[t] => LocationOf(Top(t)) \in bps'
    PROVE  StopInv'
<1>1. CacheInv'
  <2>1. CASE NewMtime
    BY <2>1 DEF NewMtime, CacheInv
  <2>2. CASE UNCHANGED <<ev, extra, fresh>> /\ \A c : LinesOf(c, bps') = LinesOf(c, bps)
    <3>1. \A c : LinesOf(c, bps)' = LinesOf(c, bps')
      BY DEF LinesOf
    <3>2. \A o \in fresh : Knows(o, extra[o])'
      BY <2>2, <3>1 DEF StopInv, CacheInv, Knows
    <3> QED
      BY <2>2, <3>2 DEF CacheInv
  <2> QED
    BY <2>1, <2>2
<1>2. ASSUME NEW t \in Threads PROVE FramesOf(t)' /\ EvaluationOf(t)' /\ MarkOf(t)'
  <2>1. FramesOf(t)'
    BY FramesKept DEF Depth, Stepping, Pausing
  <2>2. EvaluationOf(t)'
    <3>0. EvaluationOf(t) /\ TypeInv
      BY DEF StopInv, EvaluationInv
    <3>1. CASE NewMtime
      <4>1. /\ ev'[t].frame = ev[t].frame /\ ev'[t].paused = ev[t].paused
            /\ pc[t] \in {"lookup", "insert", "enter"} => ~ev'[t].current
        BY <3>0, <3>1, MtimeFacts
      <4> QED
        BY <3>0, <4>1 DEF EvaluationOf, LatePause
    <3>2. CASE UNCHANGED <<ev, extra, fresh>> /\ \A c : LinesOf(c, bps') = LinesOf(c, bps)
      <4>1. \A c : LinesOf(c, bps)' = LinesOf(c, bps)
        BY <3>2 DEF LinesOf
      <4>2. Covered(ev[t].frame, bps)' <=> Covered(ev[t].frame, bps)
        BY <3>2 DEF Covered
      <4> QED
        BY <3>0, <3>2, <4>1, <4>2 DEF EvaluationOf, LatePause
    <3> QED
      BY <3>1, <3>2
  <2>3. MarkOf(t)'
    <3>1. MarkOf(t) /\ Top(t)' = Top(t) /\ Depth(t)' = Depth(t) /\ marks'[t] \subseteq marks[t]
      BY DEF StopInv, MarkInv, Top, Depth
    <3> QED
      BY <3>1 DEF MarkOf, LocationOf
  <2> QED
    BY <2>1, <2>2, <2>3
<1> QED
    BY <1>1, <1>2, StopsOfThreads

\* A breakpoint that is removed is no reason to stop any more.
LEMMA LeftStops ==
    ASSUME StopInv, NEW left, Left(left), NEW t \in Threads
    PROVE  /\ marks'[t] \subseteq marks[t]
           /\ "breakpoint" \in marks'[t] => LocationOf(Top(t)) \in bps'
<1>1. marks'[t] = IF Depth(t) > 0 /\ LocationOf(Top(t)) \notin left
                  THEN marks[t] \cap {"step", "pause"} ELSE marks[t]
    BY DEF Left
<1>2. MarkOf(t) /\ bps' = left
    BY DEF StopInv, MarkInv, Left
<1> QED
    BY <1>1, <1>2 DEF MarkOf

LEMMA AddStops ==
    \A loc \in BreakLocations : StopInv /\ TypeInv' /\ AddBreakpoint(loc) => StopInv'
<1> SUFFICES ASSUME NEW loc \in BreakLocations, StopInv, TypeInv', AddBreakpoint(loc)
             PROVE  StopInv'
    OBVIOUS
<1>1. /\ bps' = bps \cup {loc} /\ settled' = settled /\ marks' = marks
      /\ UNCHANGED <<stack, pc, state, step>>
      /\ IF loc[2] # 0 THEN NewMtime ELSE UNCHANGED <<ev, extra, fresh>>
    BY DEF AddBreakpoint, history
<1>2. NewMtime \/ (UNCHANGED <<ev, extra, fresh>> /\ \A c : LinesOf(c, bps') = LinesOf(c, bps))
    BY <1>1, LinesSame
<1>3. ASSUME NEW t \in Threads
      PROVE  /\ marks'[t] \subseteq marks[t]
             /\ "breakpoint" \in marks'[t] => LocationOf(Top(t)) \in bps'
    BY <1>1 DEF StopInv, MarkInv, MarkOf
<1> QED
    BY <1>1, <1>2, <1>3, BreakpointStops

LEMMA RemoveStops ==
    \A loc \in BreakLocations : StopInv /\ TypeInv' /\ RemoveBreakpoint(loc) => StopInv'
<1> SUFFICES ASSUME NEW loc \in BreakLocations, StopInv, TypeInv', RemoveBreakpoint(loc)
             PROVE  StopInv'
    OBVIOUS
<1>1. /\ Left(bps \ {loc}) /\ bps' = bps \ {loc} /\ settled' \subseteq settled
      /\ UNCHANGED <<stack, pc, state, step>>
      /\ IF loc[2] # 0 THEN NewMtime ELSE UNCHANGED <<ev, extra, fresh>>
    BY DEF RemoveBreakpoint, Left
<1>2. NewMtime \/ (UNCHANGED <<ev, extra, fresh>> /\ \A c : LinesOf(c, bps') = LinesOf(c, bps))
    BY <1>1, LinesSame
<1>3. ASSUME NEW t \in Threads
      PROVE  /\ marks'[t] \subseteq marks[t]
             /\ "breakpoint" \in marks'[t] => LocationOf(Top(t)) \in bps'
    BY <1>1, LeftStops
<1> QED
    BY <1>1, <1>2, <1>3, BreakpointStops

LEMMA RemoveAllStops == StopInv /\ TypeInv' /\ RemoveAllBreakpoints => StopInv'
<1> SUFFICES ASSUME StopInv, TypeInv', RemoveAllBreakpoints PROVE StopInv'
    OBVIOUS
<1>1. /\ Left(bps \ LineBreakpoints) /\ NewMtime /\ settled' \subseteq settled
      /\ UNCHANGED <<stack, pc, state, step>>
    BY DEF RemoveAllBreakpoints, Left
<1>2. ASSUME NEW t \in Threads
      PROVE  /\ marks'[t] \subseteq marks[t]
             /\ "breakpoint" \in marks'[t] => LocationOf(Top(t)) \in bps'
    BY <1>1, LeftStops
<1> QED
    BY <1>1, <1>2, BreakpointStops

LEMMA ChangedStops == StopInv /\ TypeInv' /\ BreakpointsChanged => StopInv'
<1> SUFFICES ASSUME StopInv, TypeInv', BreakpointsChanged PROVE StopInv'
    OBVIOUS
<1>1. /\ NewMtime /\ settled' = settled /\ marks' = marks /\ bps' = bps
      /\ UNCHANGED <<stack, pc, state, step>>
    BY DEF BreakpointsChanged, history
<1>2. ASSUME NEW t \in Threads
      PROVE  /\ marks'[t] \subseteq marks[t]
             /\ "breakpoint" \in marks'[t] => LocationOf(Top(t)) \in bps'
    BY <1>1 DEF StopInv, MarkInv, MarkOf
<1> QED
    BY <1>1, <1>2, BreakpointStops

\* The installation is complete: every frame that exists is traced, or never is.
LEMMA TraceExistingStops == StopInv /\ TypeInv' /\ TraceExistingFrames => StopInv'
<1> SUFFICES ASSUME StopInv, TypeInv', TraceExistingFrames PROVE StopInv'
    OBVIOUS
<1>1. UNCHANGED <<pc, ev, state, step, bps, extra, fresh, marks>> /\ settled' = bps
    BY DEF TraceExistingFrames, codes
<1>2. CacheInv'
    BY <1>1, CacheKept DEF StopInv
<1>3. ASSUME NEW t \in Threads PROVE FramesOf(t)' /\ EvaluationOf(t)' /\ MarkOf(t)'
  <2>1. /\ StackTypes /\ Depth(t)' = Depth(t) /\ (Depth(t) > 0 => Top(t)' = TracedFrame(Top(t)))
        /\ \A d \in 1 .. Depth(t) : stack'[t][d] = TracedFrame(stack[t][d])
    <3>1. stack' = [u \in Threads |-> IF u \in Threads THEN Traced(stack[u]) ELSE stack[u]]
      BY DEF TraceExistingFrames
    <3>2. StackTypes
      BY DEF StopInv, TypeInv
    <3> QED
      BY <3>1, <3>2, TracedStacks
  <2>2. FramesOf(t)'
    <3>1. ASSUME NEW d \in 1 .. Depth(t) PROVE FrameOf(t, stack[t][d])'
      <4>1. stack[t][d] \in FrameType /\ stack'[t][d] = TracedFrame(stack[t][d])
        BY <2>1, StackFacts
      <4>2. Right(stack'[t][d], settled', Stepping(t)', Pausing(t)')
        BY <4>1, TracedIsRight
      <4> QED
        BY <4>2 DEF FrameOf, Right, Covered
    <3> QED
      BY <2>1, <3>1 DEF FramesOf
  <2>3. EvaluationOf(t)'
    BY <1>1 DEF StopInv, EvaluationInv, EvaluationOf, LatePause, Covered
  <2>4. MarkOf(t)'
    <3>1. ASSUME Depth(t) > 0 PROVE Top(t)'.code = Top(t).code /\ Top(t)'.line = Top(t).line
      BY <2>1, <3>1, StackFacts, TracedIsRight
    <3>2. MarkOf(t)
      BY DEF StopInv, MarkInv
    <3> QED
      BY <1>1, <2>1, <3>1, <3>2 DEF MarkOf, LocationOf
  <2> QED
    BY <2>2, <2>3, <2>4
<1> QED
    BY <1>2, <1>3, StopsOfThreads

\* A pause: what t executes is traced, and what it is about to execute is, or is late.
LEMMA PauseStops == \A t \in Threads : StopInv /\ TypeInv' /\ Pause(t) => StopInv'
<1> SUFFICES ASSUME NEW t \in Threads, StopInv, TypeInv', Pause(t) PROVE StopInv'
    OBVIOUS
<1>1. /\ UNCHANGED <<pc, bps, settled, extra, fresh, marks>> /\ state[t] = "run"
      /\ state' = [state EXCEPT ![t] = "suspend"] /\ step' = [step EXCEPT ![t] = TRUE]
    BY DEF Pause, codes, history
<1>2. /\ TypeInv /\ StackTypes /\ state'[t] = "suspend" /\ step'[t] = TRUE
      /\ \A u \in Threads : u # t => state'[u] = state[u] /\ step'[u] = step[u]
    BY <1>1 DEF StopInv, TypeInv, ThreadTypes
<1>3. CacheInv'
    BY <1>1, CacheKept DEF StopInv
<1>4. Alone(t)
    BY <1>1, <1>2, PauseFacts DEF Alone, OthersKept, OthersRest
<1>5. FramesOf(t)'
  <2>1. ASSUME NEW d \in 1 .. Depth(t) PROVE FrameOf(t, stack[t][d])'
    <3>1. stack[t][d] \in FrameType /\ stack'[t][d] = TracedFrame(stack[t][d])
      BY <1>2, PauseFacts, StackFacts
    <3>2. Right(stack'[t][d], settled', Stepping(t)', Pausing(t)')
      BY <3>1, TracedIsRight
    <3> QED
      BY <3>2 DEF FrameOf, Right, Covered
  <2> QED
    BY <1>2, <2>1, PauseFacts DEF FramesOf
<1>6. EvaluationOf(t)'
  <2>1. /\ ev'[t].frame = ev[t].frame /\ ev'[t].lines = ev[t].lines
        /\ ev'[t].current = ev[t].current
        /\ pc[t] \in {"lookup", "insert", "enter"} => ev'[t].paused
    BY <1>2, PauseFacts
  <2>2. EvaluationOf(t)
    BY DEF StopInv, EvaluationInv
  <2> QED
    BY <1>1, <1>2, <2>1, <2>2 DEF EvaluationOf, LatePause, Covered
<1>7. MarkOf(t)'
  <2>1. MarkOf(t) /\ Depth(t)' = Depth(t)
    BY <1>2, PauseFacts DEF StopInv, MarkInv
  <2>2. ASSUME Depth(t) > 0 PROVE Top(t)'.code = Top(t).code /\ Top(t)'.line = Top(t).line
    BY <1>2, <2>2, PauseFacts, StackFacts, TracedIsRight
  <2> QED
    BY <1>1, <1>2, <2>1, <2>2 DEF MarkOf, LocationOf
<1> QED
    BY <1>3, <1>4, <1>5, <1>6, <1>7, StopsOfThread

LEMMA StutterStops == StopInv /\ UNCHANGED vars => StopInv'
<1> SUFFICES ASSUME StopInv, UNCHANGED vars PROVE StopInv'
    OBVIOUS
<1>1. /\ UNCHANGED <<stack, pc, ev, state, step, bps, settled, marks, extra, fresh>>
      /\ TypeInv'
    BY StutterTypes DEF StopInv, vars, program, codes, history
<1>2. CacheInv'
    BY <1>1, CacheKept DEF StopInv
<1>3. ASSUME NEW t \in Threads PROVE FramesOf(t)' /\ EvaluationOf(t)' /\ MarkOf(t)'
  <2>1. FramesOf(t)'
    BY <1>1, FramesKept DEF Depth, Stepping, Pausing
  <2>2. EvaluationOf(t)'
    BY <1>1 DEF StopInv, EvaluationInv, EvaluationOf, LatePause, Covered
  <2>3. MarkOf(t)'
    BY <1>1 DEF StopInv, MarkInv, MarkOf, LocationOf, Top, Depth
  <2> QED
    BY <2>1, <2>2, <2>3
<1> QED
    BY <1>1, <1>2, <1>3, StopsOfThreads

LEMMA StopsStep == StopInv /\ [Next]_vars => StopInv'
<1> SUFFICES ASSUME StopInv, [Next]_vars PROVE StopInv'
    OBVIOUS
<1>1. TypeInv'
    BY TypesStep DEF StopInv
<1>2. ASSUME NEW t \in Threads, Program(t) PROVE StopInv'
    BY <1>1, <1>2, CallStops, AdvanceStops, ResumeStops, ThrowStops, LeaveStops DEF Program
<1>3. CASE Command
    BY <1>1, <1>3, AddStops, RemoveStops, RemoveAllStops, ChangedStops, TraceExistingStops,
       PauseStops DEF Command
<1> QED
    BY <1>1, <1>2, <1>3, EvaluationStepStops, TracingStops, StutterStops DEF Next

LEMMA StopsInit == Init => StopInv
<1> SUFFICES ASSUME Init PROVE StopInv
    OBVIOUS
<1>1. TypeInv
    BY TypesInit
<1>2. \A t \in Threads : Depth(t) = 0 /\ pc[t] = "run" /\ marks[t] = {} /\ state[t] = "run"
    BY DEF Init, Depth
<1>3. StackInv /\ EvaluationInv /\ MarkInv
    BY <1>2 DEF StackInv, EvaluationInv, EvaluationOf, MarkInv, MarkOf
<1>4. CacheInv
    BY DEF Init, CacheInv
<1> QED
    BY <1>1, <1>3, <1>4 DEF StopInv

LEMMA NoneIsOverrun == StopInv => BreakpointsHit /\ StepsStop /\ PausesStop
BY DEF StopInv, MarkInv, MarkOf, AtLine, BreakpointsHit, StepsStop, PausesStop, Overrun

\* No thread goes past a line with a breakpoint whose installation was complete when it
\* came to the line, in a frame about which there is no doubt: whatever frames were being
\* evaluated, and whatever generators were suspended, while breakpoints came and went.
THEOREM BreakpointsStop == Spec => []BreakpointsHit
BY StopsInit, StopsStep, NoneIsOverrun, PTL DEF Spec

\* A step into stops at the next line, in the frame itself, in its caller, in a function
\* that is called or in a generator that is resumed.
THEOREM StepsAreKept == Spec => []StepsStop
BY StopsInit, StopsStep, NoneIsOverrun, PTL DEF Spec

\* A pause stops at the next line, unless it comes while the frame is being evaluated.
THEOREM PausesAreKept == Spec => []PausesStop
BY StopsInit, StopsStep, NoneIsOverrun, PTL DEF Spec

-----------------------------------------------------------------------------
(***************************************************************************)
(* Code that was generated.  Only original code is modified, so that a     *)
(* FuncCodeInfo with new code belongs to an original, which is never found *)
(* among the generated ones.                                               *)
(***************************************************************************)
Known(f) == f.code.breaks # {} => f.code \in generated
CodesOf(t) ==
    /\ \A d \in 1 .. Depth(t) : Known(stack[t][d])
    /\ Known(ev[t].frame)
    /\ pc[t] = "insert" => ev[t].frame.code.breaks = {}
CodesInv ==
    /\ Known(parked)
    /\ \A o \in generated : o.breaks # {}
    /\ \A o \in CodeObjects : extra[o].new # NoCode => o.breaks = {} /\ extra[o].new \in generated
GeneratedInv == CodesInv /\ \A t \in Threads : CodesOf(t)

LEMMA GeneratedImpliesOnce == TypeInv /\ GeneratedInv => GeneratedOnce
BY DEF TypeInv, DebuggerTypes, GeneratedInv, CodesOf, CodesInv, Known, GeneratedOnce

\* the frames execute the code they executed
SameCodes ==
    \A t \in Threads :
        /\ Depth(t)' = Depth(t)
        /\ \A d \in 1 .. Depth(t) : stack'[t][d].code = stack[t][d].code

LEMMA GeneratedKept ==
    ASSUME GeneratedInv, SameCodes, UNCHANGED <<parked, generated>>,
           \A t \in Threads : /\ pc'[t] = "insert" => pc[t] = "insert"
                              /\ ev'[t].frame = ev[t].frame,
           \A o \in CodeObjects : extra'[o].new = NoCode \/ extra'[o].new = extra[o].new
    PROVE  GeneratedInv'
<1>1. ASSUME NEW t \in Threads PROVE CodesOf(t)'
  <2>1. CodesOf(t)
    BY DEF GeneratedInv
  <2> QED
    BY <2>1 DEF CodesOf, Known, SameCodes
<1>2. CodesInv'
    BY DEF GeneratedInv, CodesInv, Known
<1> QED
    BY <1>1, <1>2 DEF GeneratedInv

LEMMA SameStack ==
    ASSUME stack' = stack
    PROVE  SameCodes
BY DEF SameCodes, Depth

LEMMA SameTop ==
    ASSUME TypeInv, NEW t \in Threads, OthersKept(t), CallersKept(t, Depth(t) - 1),
           Depth(t)' = Depth(t), Top(t)'.code = Top(t).code
    PROVE  SameCodes
<1>1. Depth(t) \in Nat
    BY StackFacts DEF TypeInv
<1>2. ASSUME NEW d \in 1 .. Depth(t) PROVE stack'[t][d].code = stack[t][d].code
  <2>1. d \in 1 .. (Depth(t) - 1) \/ d = Depth(t)
    BY <1>1
  <2> QED
    BY <2>1 DEF CallersKept, Top
<1> QED
    BY <1>2 DEF SameCodes, OthersKept

\* a step of t, and what it has to keep
LEMMA GeneratedOfThread ==
    ASSUME GeneratedInv, NEW t \in Threads, OthersKept(t), OthersRest(t),
           generated \subseteq generated', CodesInv', CodesOf(t)'
    PROVE  GeneratedInv'
<1>1. ASSUME NEW u \in Threads, u # t PROVE CodesOf(u)'
  <2>1. CodesOf(u)
    BY DEF GeneratedInv
  <2> QED
    BY <1>1, <2>1 DEF CodesOf, Known, OthersKept, OthersRest
<1> QED
    BY <1>1 DEF GeneratedInv

LEMMA FramesKnown ==
    ASSUME TypeInv, GeneratedInv, NEW t \in Threads, NEW n \in Nat, n <= Depth(t),
           CallersKept(t, n), Depth(t)' = n \/ (Depth(t)' = n + 1 /\ Known(Top(t))'),
           generated \subseteq generated'
    PROVE  \A d \in 1 .. Depth(t)' : Known(stack[t][d])'
<1>1. Depth(t) \in Nat /\ CodesOf(t)
    BY StackFacts DEF TypeInv, GeneratedInv
<1>2. ASSUME NEW d \in 1 .. n PROVE Known(stack[t][d])'
  <2>1. stack'[t][d] = stack[t][d] /\ d \in 1 .. Depth(t)
    BY <1>1 DEF CallersKept
  <2> QED
    BY <1>1, <2>1 DEF CodesOf, Known
<1>3. \A d \in 1 .. Depth(t)' : d \in 1 .. n \/ (d = n + 1 /\ d = Depth(t)')
    BY <1>1
<1>4. ASSUME NEW d \in 1 .. Depth(t)', d = Depth(t)', Depth(t)' = n + 1
      PROVE  Known(stack[t][d])'
    BY <1>4 DEF Top
<1> QED
    BY <1>2, <1>3, <1>4

\* the evaluation of the frame f begins
LEMMA BeginsGenerated ==
    ASSUME TypeInv, GeneratedInv, NEW t \in Threads, NEW f \in FrameType, Known(f),
           ev' = [ev EXCEPT ![t].frame = f], Go(t, "evaluate"), Known(parked)',
           UNCHANGED <<stack, generated, extra>>
    PROVE  GeneratedInv'
<1>1. ev'[t].frame = f /\ \A u \in Threads : u # t => ev'[u] = ev[u]
  <2>1. ev[t] \in EvaluationType
    BY DEF TypeInv, ThreadTypes
  <2> QED
    BY <2>1, EvaluationSet DEF EvaluationType
<1>2. pc'[t] = "evaluate" /\ \A u \in Threads : u # t => pc'[u] = pc[u]
    BY Gone DEF Evaluating
<1>3. OthersKept(t) /\ OthersRest(t)
    BY <1>1, <1>2 DEF OthersKept, OthersRest, Depth
<1>4. CodesOf(t)'
  <2>1. CodesOf(t) /\ Depth(t)' = Depth(t)
    BY DEF GeneratedInv, Depth
  <2> QED
    BY <1>1, <1>2, <2>1 DEF CodesOf, Known
<1>5. CodesInv'
    BY DEF GeneratedInv, CodesInv
<1> QED
    BY <1>3, <1>4, <1>5, GeneratedOfThread

LEMMA NoFrameKnown == NoFrame.code = NoCode /\ NoCode.breaks = {}
BY DEF NoFrame, NoCode

\* the frame f is executed
LEMMA ExecuteGenerated ==
    ASSUME TypeInv, GeneratedInv, NEW t \in Threads, NEW f \in FrameType, Depth(t) < MaxDepth,
           Known(f), Execute(t, f), Known(parked)', UNCHANGED <<generated, extra>>
    PROVE  GeneratedInv'
<1>1. /\ OthersKept(t) /\ CallersKept(t, Depth(t)) /\ Depth(t)' = Depth(t) + 1
      /\ Top(t)' = Entered(f) /\ OthersRest(t) /\ ev'[t] = NoEvaluation
      /\ pc'[t] # "insert" /\ Depth(t) \in Nat
    BY ExecuteFacts, StackFacts DEF TypeInv
<1>2. Known(Top(t))'
    BY <1>1, EnteredTyped DEF Known
<1>3. \A d \in 1 .. Depth(t)' : Known(stack[t][d])'
    BY <1>1, <1>2, FramesKnown
<1>4. CodesOf(t)'
    BY <1>1, <1>3, NoFrameKnown DEF CodesOf, Known, NoEvaluation
<1>5. CodesInv'
    BY DEF GeneratedInv, CodesInv
<1> QED
    BY <1>1, <1>4, <1>5, GeneratedOfThread

LEMMA ProgramGenerated == \A t \in Threads : TypeInv /\ GeneratedInv /\ Program(t) => GeneratedInv'
<1> SUFFICES ASSUME NEW t \in Threads, TypeInv, GeneratedInv, Program(t) PROVE GeneratedInv'
    OBVIOUS
<1>a. CodesInv /\ CodesOf(t) /\ StackTypes /\ Depth(t) \in Nat
    BY StackFacts DEF GeneratedInv, TypeInv
<1>1. ASSUME NEW c \in Functions, Call(t, c) PROVE GeneratedInv'
  <2>1. [NoFrame EXCEPT !.code = Original(c)].code.breaks = {}
    BY DEF NoFrame, Original
  <2>2. Known(parked)' /\ UNCHANGED <<stack, generated, extra>>
    BY <1>a, <1>1 DEF Call, CodesInv, Known, codes
  <2> QED
    BY <1>1, <2>1, <2>2, OriginalTyped, BeginsGenerated DEF Call, Known
<1>2. ASSUME NEW l \in Lines, Advance(t, l) PROVE GeneratedInv'
  <2>1. SameCodes /\ pc'[t] # "insert" /\ \A u \in Threads : u # t => pc'[u] = pc[u]
    BY <1>2, AdvanceFacts, SameTop
  <2> QED
    BY <1>2, <2>1, GeneratedKept DEF Advance, codes
<1>3. CASE Resume(t)
  <2>1. parked \in FrameType /\ Known(parked)
    BY <1>a, <1>3 DEF TypeInv, DebuggerTypes, Resume, CodesInv
  <2>2. Known(parked)' /\ UNCHANGED <<stack, generated, extra>>
    BY <1>3, NoFrameKnown DEF Resume, Known, codes
  <2> QED
    BY <1>3, <2>1, <2>2, BeginsGenerated DEF Resume
<1>4. CASE Throw(t)
  <2> DEFINE f == [parked EXCEPT !.doubts = @ \cup {"thrown"}]
  <2>1. f \in FrameType /\ f.code = parked.code
    BY <1>4 DEF TypeInv, DebuggerTypes, Throw, FrameType
  <2>2. Known(f) /\ Execute(t, f) /\ Depth(t) < MaxDepth
    BY <1>a, <1>4, <2>1 DEF CodesInv, Known, Throw
  <2>3. Known(parked)' /\ UNCHANGED <<generated, extra>>
    BY <1>4, NoFrameKnown DEF Throw, Known, codes
  <2> HIDE DEF f
  <2> QED
    BY <2>1, <2>2, <2>3, ExecuteGenerated
<1>5. CASE Leave(t)
  <2>1. /\ OthersKept(t) /\ CallersKept(t, Depth(t) - 1) /\ Depth(t)' = Depth(t) - 1
        /\ Depth(t) - 1 \in Nat /\ Depth(t) > 0
    <3>1. Depth(t) > 0 /\ stack' = [stack EXCEPT ![t] = SubSeq(@, 1, Depth(t) - 1)]
      BY <1>5 DEF Leave
    <3>2. OthersKept(t) /\ CallersKept(t, Depth(t) - 1) /\ Depth(t)' = Depth(t) - 1
      BY <1>a, <3>1, Popped
    <3> QED
      BY <1>a, <3>1, <3>2
  <2>2. UNCHANGED <<pc, ev, generated, extra>> /\ OthersRest(t)
    BY <1>5 DEF Leave, codes, OthersRest
  <2>3. \A d \in 1 .. Depth(t)' : Known(stack[t][d])'
    BY <1>a, <2>1, <2>2, FramesKnown
  <2>4. CodesOf(t)'
    BY <1>a, <2>2, <2>3 DEF CodesOf, Known
  <2>5. Known(parked)'
    <3>1. Top(t) \in FrameType /\ Known(Top(t))
      BY <1>a, <2>1, StackFacts DEF CodesOf, Top
    <3>2. [Top(t) EXCEPT !.doubts = @ \cap {"moved"}].code = Top(t).code
      BY <3>1 DEF FrameType
    <3> QED
      BY <1>a, <1>5, <2>2, <3>1, <3>2 DEF Leave, Known, CodesInv
  <2>6. CodesInv'
    BY <1>a, <2>2, <2>5 DEF CodesInv
  <2> QED
    BY <2>1, <2>2, <2>4, <2>6, GeneratedOfThread
<1> QED
    BY <1>1, <1>2, <1>3, <1>4, <1>5 DEF Program

\* A FuncCodeInfo is used: its new code is generated, if it has any.
LEMMA DecideGenerated ==
    ASSUME TypeInv, GeneratedInv, NEW t \in Threads, pc[t] \in Evaluating,
           NEW info \in FuncCodeInfo, NEW force, Decide(t, info, force),
           UNCHANGED <<stack, state, step, marks>>, generated \subseteq generated',
           info.new # NoCode => info.new \in generated', CodesInv'
    PROVE  GeneratedInv'
<1>1. /\ pc'[t] = "enter" /\ OthersRest(t) /\ ev[t].frame \in FrameType
      /\ ev'[t] = [ev[t] EXCEPT !.frame = Decision(ev[t].frame, info, force)]
      /\ ev[t] \in EvaluationType
    BY DecideTypes DEF TypeInv, ThreadTypes
<1>2. ev'[t].frame = Decision(ev[t].frame, info, force)
    BY <1>1 DEF EvaluationType
<1>3. /\ CodesOf(t) /\ OthersKept(t) /\ Depth(t)' = Depth(t)
    BY DEF GeneratedInv, OthersKept, Depth
<1>4. Known(ev[t].frame)'
    BY <1>1, <1>2, <1>3, DecisionTyped DEF Known, CodesOf
<1>5. CodesOf(t)'
    BY <1>1, <1>3, <1>4 DEF CodesOf, Known
<1> QED
    BY <1>1, <1>3, <1>5, GeneratedOfThread

LEMMA StoredGenerated ==
    ASSUME TypeInv, GeneratedInv, NEW t \in Threads, pc[t] \in Evaluating,
           NEW info \in FuncCodeInfo, NEW force, Stored(t, info, force),
           generated \subseteq generated', \A o \in generated' : o.breaks # {},
           info.new # NoCode => info.new \in generated' /\ ev[t].frame.code.breaks = {}
    PROVE  GeneratedInv'
<1>1. ev[t].frame.code \in CodeObjects /\ extra \in [CodeObjects -> FuncCodeInfo]
    BY DEF TypeInv, DebuggerTypes, PlaceInv, PlaceOf, FrameType
<1>2. ASSUME NEW o \in CodeObjects, extra'[o].new # NoCode
      PROVE  o.breaks = {} /\ extra'[o].new \in generated'
  <2>1. extra'[o] = extra[o] \/ extra'[o] = NoInfo \/ (o = ev[t].frame.code /\ extra'[o] = info)
    <3> HIDE DEF CodeObjects, FuncCodeInfo
    <3> QED
      BY <1>1 DEF Stored, SetExtra
  <2>2. NoInfo.new = NoCode
    BY DEF NoInfo
  <2> QED
    BY <1>2, <2>1, <2>2 DEF GeneratedInv, CodesInv
<1>3. CodesInv'
    BY <1>2 DEF GeneratedInv, CodesInv, Known, Stored
<1> QED
    BY <1>3, DecideGenerated DEF Stored, history

LEMMA LookupGenerated == \A t \in Threads : TypeInv /\ GeneratedInv /\ Lookup(t) => GeneratedInv'
<1> SUFFICES ASSUME NEW t \in Threads, TypeInv, GeneratedInv, Lookup(t) PROVE GeneratedInv'
    OBVIOUS
<1>1. /\ pc[t] = "lookup" /\ pc[t] \in Evaluating /\ CodesOf(t) /\ CodesInv
      /\ ev \in [Threads -> EvaluationType] /\ ev[t] \in EvaluationType
    BY DEF Lookup, Evaluating, TypeInv, ThreadTypes, GeneratedInv
<1>2. ASSUME NEW info \in FuncCodeInfo, NEW force, info.new = NoCode, Stored(t, info, force),
             UNCHANGED generated
      PROVE  GeneratedInv'
    BY <1>1, <1>2, StoredGenerated DEF CodesInv
<1>3. CASE AlwaysSkipCode(t)
  <2>1. [NoInfo EXCEPT !.skip = TRUE].new = NoCode
    BY DEF NoInfo
  <2> QED
    BY <1>2, <1>3, <2>1, InfoTyped DEF AlwaysSkipCode
<1>4. ASSUME NEW found \in BOOLEAN, NEW force,
             Stored(t, [NoInfo EXCEPT !.found = found], force), UNCHANGED generated
      PROVE  GeneratedInv'
  <2>1. [NoInfo EXCEPT !.found = found].new = NoCode
    BY DEF NoInfo
  <2> QED
    BY <1>2, <1>4, <2>1, InfoTyped
<1>5. CASE GeneratedBefore(t)
    BY <1>4, <1>5 DEF GeneratedBefore
<1>6. CASE NothingToInsert(t)
  <2> DEFINE function == <<ev[t].frame.code.fn, 0>> \in bps
  <2>1. Stored(t, [NoInfo EXCEPT !.found = function], FALSE) /\ UNCHANGED generated
    BY <1>6 DEF NothingToInsert
  <2>2. function \in BOOLEAN
    OBVIOUS
  <2> HIDE DEF function
  <2> QED
    BY <1>4, <2>1, <2>2
<1>7. ASSUME UNCHANGED <<stack, parked, codes>>, OthersRest(t), Known(ev[t].frame)',
             pc'[t] = "insert" => ev'[t].frame.code.breaks = {}
      PROVE  GeneratedInv'
  <2>1. OthersKept(t) /\ Depth(t)' = Depth(t) /\ UNCHANGED <<generated, extra>>
    BY <1>7 DEF OthersKept, Depth, codes
  <2>2. CodesOf(t)' /\ CodesInv'
    BY <1>1, <1>7, <2>1 DEF CodesOf, CodesInv, Known
  <2> QED
    BY <1>7, <2>1, <2>2, GeneratedOfThread
<1>8. CASE BreakpointsMissing(t)
  <2>1. ev'[t] = NoEvaluation /\ pc'[t] = "raised" /\ OthersRest(t)
    BY <1>8 DEF BreakpointsMissing, Go, OthersRest, TypeInv, ThreadTypes
  <2> QED
    BY <1>7, <1>8, <2>1, NoFrameKnown DEF BreakpointsMissing, Known, NoEvaluation
<1>9. CASE BeginToInsert(t)
  <2>1. /\ ev'[t].frame = ev[t].frame /\ ev[t].frame.code.breaks = {} /\ OthersRest(t)
    <3>1. ev[t].frame.code.breaks = {}
      BY <1>1, <1>9 DEF BeginToInsert, CodesOf, Known
    <3>2. ev'[t].frame = ev[t].frame /\ OthersRest(t)
      BY <1>1, <1>9 DEF BeginToInsert, EvaluationType, Go, OthersRest, TypeInv, ThreadTypes
    <3> QED
      BY <3>1, <3>2
  <2> QED
    BY <1>7, <1>9, <2>1 DEF BeginToInsert, Known
<1> QED
    BY <1>3, <1>5, <1>6, <1>8, <1>9 DEF Lookup

LEMMA EvaluationGenerated ==
    \A t \in Threads : TypeInv /\ GeneratedInv /\ Evaluation(t) => GeneratedInv'
<1> SUFFICES ASSUME NEW t \in Threads, TypeInv, GeneratedInv, Evaluation(t) PROVE GeneratedInv'
    OBVIOUS
<1>a. CodesInv /\ CodesOf(t)
    BY DEF GeneratedInv
<1>1. CASE EvaluateTraced(t)
  <2> DEFINE g == [ev[t].frame EXCEPT !.trace = "dispatch"]
  <2>1. pc[t] \in Evaluating /\ ev[t] \in EvaluationType
    BY <1>1 DEF EvaluateTraced, Evaluating, TypeInv, ThreadTypes
  <2>2. g \in FrameType /\ g.code = ev[t].frame.code
    BY <2>1 DEF TypeInv, PlaceInv, PlaceOf, FrameType
  <2>3. Decided(t, g) /\ UNCHANGED <<stack, parked, state, step, marks, generated, extra>>
    BY <1>1 DEF EvaluateTraced, codes, history
  <2> HIDE DEF g
  <2>4. pc'[t] = "enter" /\ ev'[t] = [ev[t] EXCEPT !.frame = g] /\ OthersRest(t)
    BY <2>1, <2>2, <2>3, DecidedTypes
  <2>5. ev'[t].frame = g
    BY <2>1, <2>4 DEF EvaluationType
  <2>6. OthersKept(t) /\ Depth(t)' = Depth(t)
    BY <2>3 DEF OthersKept, Depth
  <2>7. CodesOf(t)' /\ CodesInv'
    BY <1>a, <2>2, <2>3, <2>4, <2>5, <2>6 DEF CodesOf, CodesInv, Known
  <2> QED
    BY <2>3, <2>4, <2>6, <2>7, GeneratedOfThread
<1>2. CASE CodeInfoCurrent(t)
  <2> DEFINE info == extra[ev[t].frame.code]
  <2>1. /\ pc[t] \in Evaluating /\ info \in FuncCodeInfo /\ ev[t].frame.code \in CodeObjects
    BY <1>2 DEF CodeInfoCurrent, Evaluating, TypeInv, DebuggerTypes
  <2>2. /\ Decide(t, info, FALSE)
        /\ UNCHANGED <<stack, parked, state, step, marks, generated, extra>>
    BY <1>2 DEF CodeInfoCurrent, codes, history
  <2>3. info.new # NoCode => info.new \in generated'
    BY <1>a, <2>1, <2>2 DEF CodesInv
  <2>4. CodesInv'
    BY <1>a, <2>2 DEF CodesInv, Known
  <2> HIDE DEF info
  <2> QED
    BY <2>1, <2>2, <2>3, <2>4, DecideGenerated
<1>3. CASE CodeInfoOutdated(t)
  <2>1. \A u \in Threads : pc'[u] = "insert" => pc[u] = "insert"
    BY <1>3 DEF CodeInfoOutdated, Go, TypeInv, ThreadTypes
  <2> QED
    BY <1>3, <2>1, SameStack, GeneratedKept DEF CodeInfoOutdated, codes
<1>4. CASE InsertPydevdBreaks(t)
  <2>1. /\ pc[t] = "insert" /\ Stored(t, InsertedInfo(t), FALSE)
        /\ generated' = (IF Inserted(t) THEN generated \cup {NewCode(t)} ELSE generated)
        /\ InsertedInfo(t) \in FuncCodeInfo
    BY <1>4, InsertFacts
  <2>2. InsertedInfo(t).new = IF Inserted(t) THEN NewCode(t) ELSE NoCode
    BY DEF InsertedInfo, NoInfo
  <2>3. Inserted(t) => NewCode(t).breaks # {}
    BY DEF Inserted, NewCode
  <2>4. generated \subseteq generated' /\ \A o \in generated' : o.breaks # {}
    BY <1>a, <2>1, <2>3 DEF CodesInv
  <2>5. InsertedInfo(t).new # NoCode => InsertedInfo(t).new \in generated'
                                        /\ ev[t].frame.code.breaks = {}
    BY <1>a, <2>1, <2>2 DEF CodesOf
  <2>6. pc[t] \in Evaluating
    BY <2>1 DEF Evaluating
  <2> QED
    BY <2>1, <2>4, <2>5, <2>6, StoredGenerated
<1>5. CASE EvaluationFailed(t)
  <2>1. \A u \in Threads : pc'[u] = "insert" => pc[u] = "insert"
    BY <1>5 DEF EvaluationFailed, Go, TypeInv, ThreadTypes
  <2> QED
    BY <1>5, <2>1, SameStack, GeneratedKept DEF EvaluationFailed, codes
<1>6. CASE Enter(t)
  <2>1. Execute(t, Evaluated(t)) /\ pc[t] = "enter"
    BY <1>6 DEF Enter, Evaluated
  <2>2. /\ Evaluated(t) \in FrameType /\ Depth(t) < MaxDepth
        /\ Evaluated(t).code = ev[t].frame.code
    BY <2>1, EvaluatedTyped
  <2>3. Known(Evaluated(t)) /\ Known(parked)' /\ UNCHANGED <<generated, extra>>
    BY <1>a, <1>6, <2>2 DEF CodesOf, CodesInv, Known, Enter, codes
  <2> QED
    BY <2>1, <2>2, <2>3, ExecuteGenerated
<1> QED
    BY <1>1, <1>2, <1>3, <1>4, <1>5, <1>6, LookupGenerated DEF Evaluation

LEMMA TracingGenerated ==
    \A t \in Threads : TypeInv /\ GeneratedInv /\ Tracing(t) => GeneratedInv'
<1> SUFFICES ASSUME NEW t \in Threads, TypeInv, GeneratedInv, Tracing(t) PROVE GeneratedInv'
    OBVIOUS
<1>1. Depth(t) > 0 /\ StackTypes
    BY DEF Tracing, InsertedCall, Suspend, GoesOn, ResumeThread, TypeInv, PlaceInv, PlaceOf, AtLine
<1>2. /\ UNCHANGED <<parked, ev, generated, extra>>
      /\ \A u \in Threads : pc'[u] = "insert" => pc[u] = "insert"
    BY DEF Tracing, InsertedCall, Suspend, GoesOn, ResumeThread, Go, codes, history, TypeInv,
           ThreadTypes
<1>3. SameCodes
  <2>1. ASSUME NEW trace \in {"dispatch", "off"},
               stack' = [stack EXCEPT ![t][Depth(t)].trace = trace]
        PROVE  SameCodes
    <3>1. /\ OthersKept(t) /\ CallersKept(t, Depth(t) - 1) /\ Depth(t)' = Depth(t)
          /\ Top(t)' = [Top(t) EXCEPT !.trace = trace] /\ Top(t) \in FrameType
      BY <1>1, <2>1, TopTraced
    <3>2. Top(t)'.code = Top(t).code
      BY <3>1, TraceSet
    <3> QED
      BY <3>1, <3>2, SameTop
  <2>2. CASE InsertedCall(t)
    BY <2>1, <2>2, SameStack DEF InsertedCall
  <2>3. CASE Suspend(t)
    BY <2>3, SameStack DEF Suspend
  <2>4. CASE GoesOn(t)
    BY <2>1, <2>4, SameStack DEF GoesOn
  <2>5. ASSUME NEW into \in BOOLEAN, ResumeThread(t, into) PROVE SameCodes
    <3>1. CASE ~into
      <4>1. stack' = stack
        BY <1>1, <2>5, <3>1 DEF ResumeThread, StackTypes
      <4> QED
        BY <4>1, SameStack
    <3>2. CASE into
      <4>1. stack' = [u \in Threads |-> IF u \in {t} THEN Traced(stack[u]) ELSE stack[u]]
        BY <1>1, <2>5, <3>2 DEF ResumeThread, StackTypes
      <4>2. \A u \in Threads :
               /\ Depth(u)' = Depth(u)
               /\ u \notin {t} => stack'[u] = stack[u]
               /\ u \in {t} => \A d \in 1 .. Depth(u) : stack'[u][d] = TracedFrame(stack[u][d])
        BY <1>1, <4>1, TracedStacks
      <4>3. \A d \in 1 .. Depth(t) : TracedFrame(stack[t][d]).code = stack[t][d].code
        BY <1>1, StackFacts, TracedIsRight
      <4> QED
        BY <4>2, <4>3 DEF SameCodes
    <3> QED
      BY <3>1, <3>2
  <2> QED
    BY <2>2, <2>3, <2>4, <2>5 DEF Tracing
<1> QED
    BY <1>2, <1>3, GeneratedKept

LEMMA CommandGenerated == TypeInv /\ GeneratedInv /\ Command => GeneratedInv'
<1> SUFFICES ASSUME TypeInv, GeneratedInv, Command PROVE GeneratedInv'
    OBVIOUS
<1>1. ASSUME Mtime, UNCHANGED <<stack, parked, pc, generated>> PROVE GeneratedInv'
  <2>1. /\ \A t \in Threads : ev'[t].frame = ev[t].frame
        /\ \A o \in CodeObjects : extra'[o].new = NoCode \/ extra'[o].new = extra[o].new
    BY <1>1, MtimeFacts DEF Mtime
  <2> QED
    BY <1>1, <2>1, SameStack, GeneratedKept
<1>2. ASSUME NEW loc \in BreakLocations, AddBreakpoint(loc) \/ RemoveBreakpoint(loc)
      PROVE  GeneratedInv'
    BY <1>1, <1>2 DEF AddBreakpoint, RemoveBreakpoint, Left, Mtime
<1>3. CASE BreakpointsChanged \/ RemoveAllBreakpoints
    BY <1>1, <1>3 DEF BreakpointsChanged, RemoveAllBreakpoints, Left, Mtime
<1>4. ASSUME NEW t \in Threads, NEW d \in 1 .. Depth(t)
      PROVE  TracedFrame(stack[t][d]).code = stack[t][d].code
    BY StackFacts, TracedIsRight DEF TypeInv
<1>5. CASE TraceExistingFrames
  <2>1. \A t \in Threads : /\ Depth(t)' = Depth(t)
                           /\ \A d \in 1 .. Depth(t) : stack'[t][d] = TracedFrame(stack[t][d])
    <3>1. stack' = [u \in Threads |-> IF u \in Threads THEN Traced(stack[u]) ELSE stack[u]]
      BY <1>5 DEF TraceExistingFrames
    <3> QED
      BY <3>1, TracedStacks DEF TypeInv
  <2>2. SameCodes
    BY <1>4, <2>1 DEF SameCodes
  <2> QED
    BY <1>5, <2>2, GeneratedKept DEF TraceExistingFrames, codes
<1>6. ASSUME NEW t \in Threads, Pause(t) PROVE GeneratedInv'
  <2>1. /\ \A u \in Threads : Depth(u)' = Depth(u) /\ ev'[u].frame = ev[u].frame
        /\ \A u \in Threads \ {t} : stack'[u] = stack[u]
        /\ \A d \in 1 .. Depth(t) : stack'[t][d] = TracedFrame(stack[t][d])
    BY <1>6, PauseFacts
  <2>2. SameCodes
    BY <1>4, <2>1 DEF SameCodes
  <2> QED
    BY <1>6, <2>1, <2>2, GeneratedKept DEF Pause, codes
<1> QED
    BY <1>2, <1>3, <1>5, <1>6 DEF Command

LEMMA GeneratedStep == TypeInv /\ GeneratedInv /\ [Next]_vars => GeneratedInv'
<1> SUFFICES ASSUME TypeInv, GeneratedInv, [Next]_vars PROVE GeneratedInv'
    OBVIOUS
<1>1. CASE UNCHANGED vars
    BY <1>1, SameStack, GeneratedKept DEF vars, program, codes
<1> QED
    BY <1>1, ProgramGenerated, EvaluationGenerated, TracingGenerated, CommandGenerated DEF Next

LEMMA GeneratedInit == Init => GeneratedInv
<1> SUFFICES ASSUME Init PROVE GeneratedInv
    OBVIOUS
<1>1. /\ parked = NoFrame /\ generated = {}
      /\ \A t \in Threads : Depth(t) = 0 /\ ev[t].frame = NoFrame /\ pc[t] = "run"
    BY DEF Init, Depth, NoEvaluation
<1>2. \A o \in CodeObjects : extra[o].new = NoCode
    BY DEF Init, NoInfo
<1> QED
    BY <1>1, <1>2, NoFrameKnown DEF GeneratedInv, CodesInv, CodesOf, Known

\* Code that was generated is never modified again, and a FuncCodeInfo that counts as fresh
\* never holds new code for it: a generator that is resumed in generated code keeps it.
THEOREM ModifiedOnce == Spec => []GeneratedOnce
<1>1. Init => TypeInv /\ GeneratedInv
    BY TypesInit, GeneratedInit
<1>2. TypeInv /\ GeneratedInv /\ [Next]_vars => (TypeInv /\ GeneratedInv)'
    BY TypesStep, GeneratedStep
<1> QED
    BY <1>1, <1>2, GeneratedImpliesOnce, PTL DEF Spec
=============================================================================

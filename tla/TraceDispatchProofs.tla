------------------------ MODULE TraceDispatchProofs ------------------------
(***************************************************************************)
(* Theorems about TraceDispatch, for any threads, codes, files, filters,   *)
(* breakpoints and step commands, and any bounds.                          *)
(***************************************************************************)
EXTENDS TraceDispatch, SequenceTheorems, WellFoundedInduction, TLAPS

-----------------------------------------------------------------------------
(***************************************************************************)
(* Types: what TypeOK says, and what a step needs to keep it.              *)
(***************************************************************************)
Lines0 == 0 .. LastLine
FrameType == [code : Codes, line : Lines0, blind : BOOLEAN, left : BOOLEAN,
              trace : {"none", "global", "dispatch", "exception"}]
ViewType == [lines : SUBSET Lines0, any : BOOLEAN, skip : BOOLEAN,
             step : Steps \cup {None}, stop : Gone .. MaxDepth]
Infos == InfoType(LastLine, MaxDepth)
CmdType == [phase : {"idle", "added", "trace"}, loc : BreakLocations \cup {NoLocation}]

StackTypes ==
    /\ stack \in [Threads -> Seq(FrameType)]
    /\ \A t \in Threads : Depth(t) <= MaxDepth
ThreadTypes ==
    /\ pc \in [Threads -> {"run", "fetch", "decide", "wait"}]
    /\ event \in [Threads -> {None, "call", "line", "exception", "return"}]
    /\ view \in [Threads -> ViewType]
    /\ at \in [Threads -> Nat]
    /\ info \in [Threads -> Infos]
    /\ DOMAIN promise = Threads /\ DOMAIN marks = Threads
    /\ promise = [t \in Threads |-> promise[t]] /\ marks = [t \in Threads |-> marks[t]]
DebuggerTypes ==
    /\ bps \subseteq BreakLocations /\ settled \subseteq bps /\ cmd \in CmdType
    /\ skips \in [Codes -> 0 .. 2] /\ hasBreaks \in [Codes -> -1 .. 1]
    /\ skipLines \subseteq Codes \X Lines0
    /\ dirty \subseteq Threads /\ stale \subseteq Codes
\* A trace function works for a frame, and a suspended thread is suspended at one.
PlaceInv ==
    \A t \in Threads :
        /\ pc[t] # "run" => Depth(t) > 0
        /\ at[t] <= Depth(t)
        /\ pc[t] = "wait" => at[t] > 0
        /\ pc[t] # "wait" => at[t] = 0

TypeInv == StackTypes /\ ThreadTypes /\ DebuggerTypes /\ PlaceInv

LEMMA TypeInvImpliesTypeOK == TypeInv => TypeOK
<1> SUFFICES ASSUME TypeInv PROVE TypeOK
    OBVIOUS
<1>1. ASSUME NEW t \in Threads
      PROVE  /\ Depth(t) <= MaxDepth
             /\ \A d \in 1 .. Depth(t) : stack[t][d] \in FrameType
             /\ at[t] \in 0 .. Depth(t)
    BY DEF TypeInv, StackTypes, ThreadTypes, PlaceInv, Depth
<1>2. /\ pc \in [Threads -> {"run", "fetch", "decide", "wait"}]
      /\ event \in [Threads -> {None, "call", "line", "exception", "return"}]
      /\ info \in [Threads -> InfoType(LastLine, MaxDepth)]
    BY DEF TypeInv, ThreadTypes, Infos
<1>3. /\ bps \subseteq BreakLocations /\ settled \subseteq bps
      /\ skips \in [Codes -> 0 .. 2] /\ hasBreaks \in [Codes -> -1 .. 1]
      /\ skipLines \subseteq Codes \X (0 .. LastLine)
      /\ dirty \subseteq Threads /\ stale \subseteq Codes
    BY DEF TypeInv, DebuggerTypes, Lines0
<1> QED
    BY <1>1, <1>2, <1>3 DEF TypeOK, FrameType, Lines0

\* The largest of some numbers that are bounded.
LEMMA MaxExists ==
    ASSUME NEW n \in Nat, NEW S, S \subseteq 1 .. n, S # {}
    PROVE  \E m \in S : \A x \in S : x <= m
<1> DEFINE R == OpToRel(<, Nat)
           T == {n - e : e \in S}
<1>1. T \subseteq Nat /\ T # {}
  <2>1. \A e \in S : n - e \in Nat
    OBVIOUS
  <2> QED
    BY <2>1
<1>2. \E x \in T : \A y \in T : <<y, x>> \notin R
  <2>1. IsWellFoundedOn(R, Nat)
    BY NatLessThanWellFounded
  <2> QED
    BY <1>1, <2>1, WFMin
<1>3. PICK x \in T : \A y \in T : <<y, x>> \notin R
    BY <1>2
<1>4. \A y \in T : ~(y < x)
    BY <1>1, <1>3 DEF OpToRel
<1>5. PICK m \in S : x = n - m
    BY DEF T
<1>6. ASSUME NEW y \in S PROVE y <= m
  <2>1. ~(n - y < n - m)
    BY <1>4, <1>5
  <2> QED
    BY <2>1
<1> QED
    BY <1>6

-----------------------------------------------------------------------------
(***************************************************************************)
(* What the steps do to the stacks.                                        *)
(***************************************************************************)
LEMMA StackFacts ==
    ASSUME StackTypes, NEW t \in Threads
    PROVE  /\ Depth(t) \in Nat /\ DOMAIN stack[t] = 1 .. Depth(t)
           /\ \A d \in 1 .. Depth(t) : stack[t][d] \in FrameType
           /\ Depth(t) > 0 => Top(t) \in FrameType
<1>1. stack[t] \in Seq(FrameType)
    BY DEF StackTypes
<1>2. /\ Depth(t) \in Nat /\ DOMAIN stack[t] = 1 .. Depth(t)
      /\ \A d \in 1 .. Depth(t) : stack[t][d] \in FrameType
    BY <1>1 DEF Depth
<1> QED
    BY <1>2 DEF Top

\* the stacks of the other threads are as they were
OthersKept(t) == \A u \in Threads : u # t => stack'[u] = stack[u] /\ Depth(u)' = Depth(u)
\* and the frames of t below its depth n
CallersKept(t, n) == \A d \in 1 .. n : stack'[t][d] = stack[t][d]

LEMMA Changed ==
    ASSUME StackTypes, NEW t \in Threads, NEW s \in Seq(FrameType), Len(s) <= MaxDepth,
           stack' = [stack EXCEPT ![t] = s]
    PROVE  StackTypes' /\ OthersKept(t) /\ stack'[t] = s /\ Depth(t)' = Len(s)
<1>1. stack \in [Threads -> Seq(FrameType)] /\ \A u \in Threads : Depth(u) <= MaxDepth
    BY DEF StackTypes
<1>2. /\ stack' \in [Threads -> Seq(FrameType)] /\ stack'[t] = s
      /\ \A u \in Threads : u # t => stack'[u] = stack[u]
    BY <1>1
<1>3. /\ Depth(t)' = Len(s)
      /\ \A u \in Threads : u # t => Depth(u)' = Depth(u)
    BY <1>2 DEF Depth
<1>4. \A u \in Threads : Depth(u)' <= MaxDepth
    BY <1>1, <1>3
<1> QED
    BY <1>2, <1>3, <1>4 DEF StackTypes, OthersKept

LEMMA Pushed ==
    ASSUME StackTypes, NEW t \in Threads, NEW f \in FrameType, Depth(t) + 1 <= MaxDepth,
           stack' = [stack EXCEPT ![t] = Append(@, f)]
    PROVE  /\ StackTypes' /\ OthersKept(t) /\ CallersKept(t, Depth(t))
           /\ Depth(t)' = Depth(t) + 1 /\ Top(t)' = f
<1> DEFINE s == Append(stack[t], f)
<1>1. stack[t] \in Seq(FrameType)
    BY DEF StackTypes
<1>2. /\ s \in Seq(FrameType) /\ Len(s) = Depth(t) + 1 /\ s[Len(s)] = f
      /\ \A d \in 1 .. Depth(t) : s[d] = stack[t][d]
    BY <1>1 DEF Depth
<1>3. stack' = [stack EXCEPT ![t] = s]
    OBVIOUS
<1> HIDE DEF s
<1>4. StackTypes' /\ OthersKept(t) /\ stack'[t] = s /\ Depth(t)' = Len(s)
    BY <1>2, <1>3, Changed
<1> QED
    BY <1>2, <1>4 DEF CallersKept, Top

LEMMA Popped ==
    ASSUME StackTypes, NEW t \in Threads, Depth(t) > 0,
           stack' = [stack EXCEPT ![t] = SubSeq(stack[t], 1, Depth(t) - 1)]
    PROVE  /\ StackTypes' /\ OthersKept(t) /\ CallersKept(t, Depth(t) - 1)
           /\ Depth(t)' = Depth(t) - 1
<1> DEFINE s == SubSeq(stack[t], 1, Depth(t) - 1)
<1>1. stack[t] \in Seq(FrameType) /\ Depth(t) \in Nat /\ Depth(t) <= MaxDepth
    BY StackFacts DEF StackTypes
<1>2. /\ s \in Seq(FrameType) /\ Len(s) = Depth(t) - 1
      /\ \A d \in 1 .. Depth(t) - 1 : s[d] = stack[t][d]
    BY <1>1 DEF Depth
<1>3. Len(s) <= MaxDepth
    BY <1>1, <1>2, TraceDispatchAssumption
<1> HIDE DEF s
<1>4. StackTypes' /\ OthersKept(t) /\ stack'[t] = s /\ Depth(t)' = Len(s)
    BY <1>2, <1>3, Changed DEF s
<1> QED
    BY <1>2, <1>4 DEF CallersKept

LEMMA TopSet ==
    ASSUME StackTypes, NEW t \in Threads, Depth(t) > 0, NEW f \in FrameType,
           stack' = [stack EXCEPT ![t] = [stack[t] EXCEPT ![Depth(t)] = f]]
    PROVE  /\ StackTypes' /\ OthersKept(t) /\ CallersKept(t, Depth(t) - 1)
           /\ Depth(t)' = Depth(t) /\ Top(t)' = f
<1> DEFINE s == [stack[t] EXCEPT ![Depth(t)] = f]
<1>1. /\ stack[t] \in Seq(FrameType) /\ Depth(t) \in Nat /\ Depth(t) <= MaxDepth
      /\ Depth(t) \in 1 .. Len(stack[t]) /\ DOMAIN stack[t] = 1 .. Depth(t)
    BY StackFacts DEF StackTypes, Depth
<1>2. s \in Seq(FrameType) /\ Len(s) = Depth(t)
    BY <1>1, ExceptSeq DEF Depth
<1>3. /\ s[Depth(t)] = f
      /\ \A d \in 1 .. Depth(t) - 1 : s[d] = stack[t][d]
    BY <1>1
<1> HIDE DEF s
<1>4. StackTypes' /\ OthersKept(t) /\ stack'[t] = s /\ Depth(t)' = Len(s)
    BY <1>1, <1>2, Changed DEF s
<1> QED
    BY <1>2, <1>3, <1>4 DEF CallersKept, Top

\* SetTrace() keeps the depths, and what a frame is but for its trace function.
Traced_(f) == [f EXCEPT !.trace = "global", !.blind = FALSE, !.left = FALSE]
LEMMA SetTraceFacts ==
    ASSUME StackTypes, NEW S, NEW upto, stack' = SetTrace(stack, S, upto)
    PROVE  /\ StackTypes'
           /\ \A t \in Threads :
                 /\ Depth(t)' = Depth(t)
                 /\ \A d \in 1 .. Depth(t) : stack'[t][d] =
                       IF t \in S /\ d <= upto[t] /\ stack[t][d].code \notin Internal
                       THEN Traced_(stack[t][d]) ELSE stack[t][d]
<1>1. ASSUME NEW t \in Threads
      PROVE  /\ stack'[t] \in Seq(FrameType) /\ Depth(t)' = Depth(t) /\ Depth(t) <= MaxDepth
             /\ \A d \in 1 .. Depth(t) : stack'[t][d] =
                       IF t \in S /\ d <= upto[t] /\ stack[t][d].code \notin Internal
                       THEN Traced_(stack[t][d]) ELSE stack[t][d]
  <2> DEFINE g(d) == IF t \in S /\ d <= upto[t] /\ stack[t][d].code \notin Internal
                     THEN Traced_(stack[t][d]) ELSE stack[t][d]
  <2>1. /\ stack[t] \in Seq(FrameType) /\ Depth(t) \in Nat /\ DOMAIN stack[t] = 1 .. Depth(t)
        /\ Depth(t) <= MaxDepth /\ \A d \in 1 .. Depth(t) : stack[t][d] \in FrameType
    BY StackFacts DEF StackTypes
  <2>2. stack'[t] = [d \in 1 .. Depth(t) |-> g(d)]
    BY <2>1 DEF SetTrace, Traced_
  <2>3. \A d \in 1 .. Depth(t) : g(d) \in FrameType
    BY <2>1 DEF FrameType, Traced_
  <2> HIDE DEF g
  <2>4. stack'[t] \in Seq(FrameType) /\ Len(stack'[t]) = Depth(t)
    BY <2>1, <2>2, <2>3
  <2> QED
    BY <2>1, <2>2, <2>4 DEF g, Depth
<1>2. stack' = [t \in Threads |-> stack'[t]]
    BY DEF SetTrace
<1> QED
    BY <1>1, <1>2 DEF StackTypes

-----------------------------------------------------------------------------
(***************************************************************************)
(* The step state of a thread keeps its type.                              *)
(***************************************************************************)
LEMMA StepKinds ==
    /\ Into \subseteq Steps /\ Over \subseteq Steps /\ Return \subseteq Steps
    /\ "smart" \in Steps /\ None \notin Steps
    /\ \A step \in Steps : step \in Into \cup Over \cup Return \cup {"smart"}
BY DEF Into, Over, Return, Steps, None

LEMMA InfoChanges ==
    ASSUME NEW i \in Infos
    PROVE  /\ MarkThreadSuspended(i) \in Infos /\ RunThread(i) \in Infos
           /\ [i EXCEPT !.initial = NoLocation] \in Infos
           /\ [MarkThreadSuspended(i) EXCEPT !.initial = NoLocation] \in Infos
           /\ \A d \in Nat : ForgetFrame(i, d) \in Infos
           /\ \A step \in Steps, x \in (Codes \X Lines0) \cup {NoLocation} :
                 StepInThread(i, step, x) \in Infos
<1>1. MaxDepth \in Nat /\ LastLine \in Nat
    BY TraceDispatchAssumption
<1> DEFINE Places == (Codes \X Lines0) \cup {NoLocation}
           Starts == (0 .. MaxDepth) \X Lines0
<1>2. Infos = [state : {"run", "suspend"}, step : Steps \cup {None}, stop : Gone .. MaxDepth,
               target : Places, initial : Starts, wait : BOOLEAN]
    BY DEF Infos, InfoType, Lines0
<1>3. /\ NoLocation \in Places /\ NoLocation \in Starts
      /\ 0 \in Gone .. MaxDepth /\ Gone \in Gone .. MaxDepth
      /\ "into" \in Steps
    BY <1>1 DEF NoLocation, Lines0, Gone, Steps, Into
<1> HIDE DEF Places, Starts
<1>4. RunThread(i) \in Infos
    BY <1>2, <1>3 DEF RunThread
<1>5. MarkThreadSuspended(i) \in Infos
  <2> DEFINE step == IF i.step = None THEN "into" ELSE i.step
             stop == IF i.step = None THEN 0 ELSE i.stop
  <2>1. step \in Steps \cup {None} /\ stop \in Gone .. MaxDepth
    BY <1>2, <1>3
  <2>2. MarkThreadSuspended(i) = [i EXCEPT !.state = "suspend", !.step = step, !.stop = stop]
    BY DEF MarkThreadSuspended
  <2> HIDE DEF step, stop
  <2> QED
    BY <1>2, <2>1, <2>2
<1>6. \A j \in Infos : [j EXCEPT !.initial = NoLocation] \in Infos
    BY <1>2, <1>3
<1>7. ASSUME NEW d \in Nat PROVE ForgetFrame(i, d) \in Infos
  <2> DEFINE stop == IF i.stop = d THEN Gone ELSE i.stop
             initial == IF i.initial[1] = d THEN NoLocation ELSE i.initial
  <2>1. stop \in Gone .. MaxDepth /\ initial \in Starts
    BY <1>2, <1>3
  <2>2. ForgetFrame(i, d) = [i EXCEPT !.stop = stop, !.initial = initial]
    BY DEF ForgetFrame
  <2> HIDE DEF stop, initial
  <2> QED
    BY <1>2, <2>1, <2>2
<1>8. ASSUME NEW step \in Steps, NEW x \in (Codes \X Lines0) \cup {NoLocation}
      PROVE  StepInThread(i, step, x) \in Infos
  <2>1. x \in Places
    BY DEF Places
  <2> QED
    BY <1>2, <1>3, <2>1 DEF StepInThread
<1> QED
    BY <1>4, <1>5, <1>6, <1>7, <1>8

\* The frame of a step return is there.
LEMMA StepReturnFrameType ==
    ASSUME NEW frames, NEW d \in Nat \ {0}, NEW step
    PROVE  StepReturnFrame(frames, d, step) \in 0 .. d
<1> DEFINE filtering == JustMyCode \/ ForceCheckProjectScope(step)
           callers == {e \in 1 .. d - 1 : filtering => ~Excluded(frames[e].code, step)}
           last == CHOOSE e \in callers : \A x \in callers : x <= e
<1>1. StepReturnFrame(frames, d, step) =
          IF callers # {} THEN last + 1 ELSE IF filtering THEN 0 ELSE 1
    BY DEF StepReturnFrame
<1>2. callers \subseteq 1 .. d - 1 /\ d - 1 \in Nat
    OBVIOUS
<1>3. ASSUME callers # {} PROVE last \in 1 .. d - 1
  <2> HIDE DEF callers
  <2>1. \E e \in callers : \A x \in callers : x <= e
    BY <1>2, <1>3, MaxExists
  <2>2. last \in callers
    BY <2>1
  <2> QED
    BY <1>2, <2>2
<1> HIDE DEF last, callers, filtering
<1> QED
    BY <1>1, <1>3

LEMMA PrepareStepType ==
    ASSUME NEW i \in Infos, NEW frames, NEW d \in 1 .. MaxDepth, frames[d].line \in Lines0
    PROVE  /\ PrepareStep(i, frames, d) \in Infos
           /\ PrepareStep(i, frames, d).stop \in 0 .. d \/ PrepareStep(i, frames, d).step = None
           /\ PrepareStep(i, frames, d).state = i.state \/ PrepareStep(i, frames, d).state = "run"
<1> DEFINE back == StepReturnFrame(frames, d, i.step)
           p == PrepareStep(i, frames, d)
<1>1. MaxDepth \in Nat /\ LastLine \in Nat /\ d \in Nat \ {0} /\ d <= MaxDepth
    BY TraceDispatchAssumption
<1>2. back \in 0 .. d
    BY <1>1, StepReturnFrameType
<1>3. p = CASE i.step \in Into -> [i EXCEPT !.initial = <<d, frames[d].line>>, !.stop = 0]
            [] i.step \in Over \cup {"smart"} -> [i EXCEPT !.stop = d]
            [] i.step \in Return /\ back > 0 -> [i EXCEPT !.stop = back]
            [] i.step \in Return /\ back = 0 -> RunThread(i)
            [] OTHER -> i
    BY DEF PrepareStep
<1> HIDE DEF back, p
<1>4. i.step \in Steps \cup {None} /\ i.step # None => i.step \in Into \cup Over \cup Return \cup {"smart"}
    BY StepKinds DEF Infos, InfoType
<1>5. CASE i.step \in Into
  <2> DEFINE initial == <<d, frames[d].line>>
  <2>0. i.step \notin Over \cup {"smart"} /\ i.step \notin Return
    BY <1>5 DEF Into, Over, Return
  <2>1. p = [i EXCEPT !.initial = initial, !.stop = 0]
    BY <1>3, <1>5, <2>0
  <2>2. initial \in (0 .. MaxDepth) \X (0 .. LastLine) /\ 0 \in Gone .. MaxDepth
    BY <1>1 DEF Lines0, Gone
  <2> HIDE DEF initial
  <2>3. p \in Infos /\ p.stop = 0 /\ p.state = i.state
    BY <2>1, <2>2 DEF Infos, InfoType
  <2> QED
    BY <1>1, <2>3 DEF p
<1>6. CASE i.step \in Over \cup {"smart"}
  <2>0. i.step \notin Into /\ i.step \notin Return
    BY <1>6 DEF Into, Over, Return
  <2>1. p = [i EXCEPT !.stop = d]
    BY <1>3, <1>6, <2>0
  <2> QED
    BY <1>1, <2>1 DEF Infos, InfoType, Gone, p
<1>7. CASE i.step \in Return /\ back > 0
  <2>1. p = [i EXCEPT !.stop = back]
    BY <1>1, <1>2, <1>3, <1>7 DEF Into, Over, Return
  <2> QED
    BY <1>1, <1>2, <2>1 DEF Infos, InfoType, Gone, p
<1>8. CASE i.step \in Return /\ back = 0
  <2>1. p = RunThread(i)
    BY <1>3, <1>8 DEF Into, Over, Return
  <2>2. p.step = None /\ p.state = "run"
    BY <2>1 DEF RunThread, Infos, InfoType
  <2> QED
    BY <2>1, <2>2, InfoChanges DEF p
<1>9. CASE i.step = None
  <2>1. p = i
    BY <1>3, <1>9 DEF Into, Over, Return, None
  <2> QED
    BY <1>9, <2>1 DEF p
<1>10. back > 0 \/ back = 0
    BY <1>1, <1>2
<1>11. i.step \in Steps \cup {None}
    BY DEF Infos, InfoType
<1> QED
    BY <1>4, <1>5, <1>6, <1>7, <1>8, <1>9, <1>10, <1>11 DEF p

-----------------------------------------------------------------------------
(***************************************************************************)
(* Every step keeps the types.                                             *)
(***************************************************************************)
TraceKinds == {"none", "global", "dispatch", "exception"}

\* Initially nothing runs.
LEMMA InitTypes == Init => TypeInv
<1> SUFFICES ASSUME Init PROVE TypeInv
    OBVIOUS
<1>1. MaxDepth \in Nat /\ LastLine \in Nat
    BY TraceDispatchAssumption
<1>2. StackTypes
    BY <1>1 DEF Init, StackTypes, Depth
<1>3. ThreadTypes
  <2>1. NoView \in ViewType
    BY <1>1 DEF NoView, ViewType, Gone
  <2>2. NewInfo \in Infos
    BY <1>1 DEF NewInfo, Infos, InfoType, Gone, NoLocation
  <2> QED
    BY <2>1, <2>2 DEF Init, ThreadTypes
<1>4. DebuggerTypes
    BY DEF Init, DebuggerTypes, CmdType
<1>5. PlaceInv
    BY DEF Init, PlaceInv, Depth
<1> QED
    BY <1>2, <1>3, <1>4, <1>5 DEF TypeInv

\* what a thread is about, unless a step changes it
LEMMA ThreadFacts ==
    ASSUME TypeInv, NEW t \in Threads
    PROVE  /\ pc[t] \in {"run", "fetch", "decide", "wait"}
           /\ event[t] \in {None, "call", "line", "exception", "return"}
           /\ view[t] \in ViewType /\ at[t] \in Nat /\ info[t] \in Infos
           /\ Depth(t) \in Nat /\ Depth(t) <= MaxDepth /\ DOMAIN stack[t] = 1 .. Depth(t)
           /\ \A d \in 1 .. Depth(t) : stack[t][d] \in FrameType
           /\ Depth(t) > 0 => Top(t) \in FrameType
           /\ pc[t] # "run" => Depth(t) > 0
           /\ at[t] <= Depth(t) /\ (IF pc[t] = "wait" THEN at[t] > 0 ELSE at[t] = 0)
<1>1. /\ Depth(t) \in Nat /\ DOMAIN stack[t] = 1 .. Depth(t)
      /\ \A d \in 1 .. Depth(t) : stack[t][d] \in FrameType
      /\ Depth(t) > 0 => Top(t) \in FrameType
      /\ Depth(t) <= MaxDepth
    BY StackFacts DEF TypeInv, StackTypes
<1> QED
    BY <1>1 DEF TypeInv, ThreadTypes, PlaceInv

\* the state of the other threads but for their stacks and step states
OthersRest(t) == \A u \in Threads : u # t =>
    pc'[u] = pc[u] /\ event'[u] = event[u] /\ view'[u] = view[u] /\ at'[u] = at[u]

\* Places: a step of t that keeps the depths of the others.
LEMMA PlaceStep ==
    ASSUME TypeInv, NEW t \in Threads,
           \A u \in Threads : u # t => Depth(u)' = Depth(u),
           \A u \in Threads : u # t => pc'[u] = pc[u] /\ at'[u] = at[u],
           /\ pc'[t] # "run" => Depth(t)' > 0
           /\ at'[t] <= Depth(t)'
           /\ pc'[t] = "wait" => at'[t] > 0
           /\ pc'[t] # "wait" => at'[t] = 0
    PROVE  PlaceInv'
BY DEF TypeInv, PlaceInv

LEMMA EndCallbackFacts ==
    ASSUME TypeInv, NEW t \in Threads, EndCallback(t)
    PROVE  /\ pc' \in [Threads -> {"run", "fetch", "decide", "wait"}]
           /\ event' \in [Threads -> {None, "call", "line", "exception", "return"}]
           /\ view' \in [Threads -> ViewType]
           /\ at' \in [Threads -> Nat]
           /\ dirty' = dirty \ {t} /\ dirty' \subseteq Threads
           /\ pc'[t] = "run" /\ event'[t] = None /\ at'[t] = 0
           /\ OthersRest(t)
<1>1. NoView \in ViewType
    BY TraceDispatchAssumption DEF NoView, ViewType, Gone
<1> QED
    BY <1>1 DEF TypeInv, ThreadTypes, DebuggerTypes, EndCallback, OthersRest

\* what FrameGoesOn() leaves in the frame
FrameIs(t, trace, left) ==
    [Top(t) EXCEPT !.trace = trace, !.left = left,
        !.blind = @ \/ (trace \in {"none", "exception"} /\ (t \in dirty \/ Top(t).code \in stale))]
LEMMA FrameGoesOnFacts ==
    ASSUME TypeInv, NEW t \in Threads, pc[t] # "run", NEW trace \in TraceKinds,
           NEW left \in BOOLEAN, FrameGoesOn(t, trace, left)
    PROVE  /\ EndCallback(t)
           /\ StackTypes' /\ OthersKept(t) /\ CallersKept(t, Depth(t) - 1)
           /\ event[t] = "return" => Depth(t)' = Depth(t) - 1
           /\ event[t] # "return" => Depth(t)' = Depth(t) /\ Top(t)' = FrameIs(t, trace, left)
           /\ PlaceInv'
<1> DEFINE f == FrameIs(t, trace, left)
<1>1. /\ Depth(t) \in Nat /\ Depth(t) > 0 /\ StackTypes /\ Top(t) \in FrameType
    BY ThreadFacts DEF TypeInv
<1>2. f \in FrameType
    BY <1>1 DEF FrameIs, FrameType, TraceKinds
<1>3. /\ EndCallback(t)
      /\ event[t] = "return" =>
             stack' = [stack EXCEPT ![t] = SubSeq(stack[t], 1, Depth(t) - 1)]
      /\ event[t] # "return" =>
             stack' = [stack EXCEPT ![t] = [stack[t] EXCEPT ![Depth(t)] = f]]
    BY DEF FrameGoesOn, FrameIs
<1> HIDE DEF f
<1>4. CASE event[t] = "return"
  <2>1. /\ StackTypes' /\ OthersKept(t) /\ CallersKept(t, Depth(t) - 1)
        /\ Depth(t)' = Depth(t) - 1
    BY <1>1, <1>3, <1>4, Popped
  <2>2. PlaceInv'
    BY <1>1, <1>3, <2>1, EndCallbackFacts, PlaceStep DEF OthersKept, OthersRest
  <2> QED
    BY <1>3, <1>4, <2>1, <2>2
<1>5. CASE event[t] # "return"
  <2>1. /\ StackTypes' /\ OthersKept(t) /\ CallersKept(t, Depth(t) - 1)
        /\ Depth(t)' = Depth(t) /\ Top(t)' = f
    BY <1>1, <1>2, <1>3, <1>5, TopSet
  <2>2. PlaceInv'
    BY <1>1, <1>3, <2>1, EndCallbackFacts, PlaceStep DEF OthersKept, OthersRest
  <2> QED
    BY <1>3, <1>5, <2>1, <2>2 DEF f
<1> QED
    BY <1>4, <1>5

LEMMA FiredFacts ==
    ASSUME TypeInv, NEW t \in Threads, NEW ev \in {"call", "line", "exception", "return"},
           Fire(t, ev)
    PROVE  /\ pc' \in [Threads -> {"run", "fetch", "decide", "wait"}]
           /\ event' \in [Threads -> {None, "call", "line", "exception", "return"}]
           /\ pc'[t] = "fetch" /\ event'[t] = ev
           /\ \A u \in Threads : u # t => pc'[u] = pc[u] /\ event'[u] = event[u]
BY DEF TypeInv, ThreadTypes, Fire

CacheTypes ==
    /\ skips \in [Codes -> 0 .. 2] /\ hasBreaks \in [Codes -> -1 .. 1]
    /\ skipLines \subseteq Codes \X Lines0 /\ stale \subseteq Codes

LEMMA CacheFacts ==
    ASSUME TypeInv
    PROVE  CacheTypes /\ bps \subseteq BreakLocations /\ settled \subseteq bps
           /\ cmd \in CmdType /\ dirty \subseteq Threads
           /\ promise = [t \in Threads |-> promise[t]] /\ marks = [t \in Threads |-> marks[t]]
BY DEF TypeInv, DebuggerTypes, CacheTypes, ThreadTypes

\* The history of promises and marks keeps its domain.
LEMMA MapsKept ==
    ASSUME TypeInv, NEW t \in Threads, NEW x
    PROVE  /\ [promise EXCEPT ![t] = x] = [u \in Threads |-> [promise EXCEPT ![t] = x][u]]
           /\ DOMAIN [promise EXCEPT ![t] = x] = Threads
           /\ [marks EXCEPT ![t] = x] = [u \in Threads |-> [marks EXCEPT ![t] = x][u]]
           /\ DOMAIN [marks EXCEPT ![t] = x] = Threads
BY DEF TypeInv, ThreadTypes

MapTypes ==
    /\ DOMAIN promise = Threads /\ DOMAIN marks = Threads
    /\ promise = [t \in Threads |-> promise[t]] /\ marks = [t \in Threads |-> marks[t]]

LEMMA TypeParts ==
    ASSUME StackTypes', PlaceInv', CacheTypes', MapTypes',
           pc' \in [Threads -> {"run", "fetch", "decide", "wait"}],
           event' \in [Threads -> {None, "call", "line", "exception", "return"}],
           view' \in [Threads -> ViewType], at' \in [Threads -> Nat],
           info' \in [Threads -> Infos],
           bps' \subseteq BreakLocations, settled' \subseteq bps', cmd' \in CmdType,
           dirty' \subseteq Threads
    PROVE  TypeInv'
BY DEF TypeInv, ThreadTypes, DebuggerTypes, CacheTypes, MapTypes

LEMMA OldParts ==
    ASSUME TypeInv
    PROVE  /\ StackTypes /\ PlaceInv /\ CacheTypes /\ MapTypes
           /\ pc \in [Threads -> {"run", "fetch", "decide", "wait"}]
           /\ event \in [Threads -> {None, "call", "line", "exception", "return"}]
           /\ view \in [Threads -> ViewType] /\ at \in [Threads -> Nat]
           /\ info \in [Threads -> Infos]
           /\ bps \subseteq BreakLocations /\ settled \subseteq bps /\ cmd \in CmdType
           /\ dirty \subseteq Threads
BY DEF TypeInv, ThreadTypes, DebuggerTypes, CacheTypes, MapTypes

LEMMA KeptMaps ==
    ASSUME TypeInv, promise' = promise, marks' = marks
    PROVE  MapTypes'
BY OldParts DEF MapTypes
LEMMA KeptCaches ==
    ASSUME TypeInv, skips' = skips, hasBreaks' = hasBreaks, skipLines' = skipLines, stale' = stale
    PROVE  CacheTypes'
BY OldParts DEF CacheTypes

-----------------------------------------------------------------------------
(* The program *)

LEMMA CallFacts ==
    ASSUME TypeInv, NEW t \in Threads, NEW c \in Codes, Call(t, c)
    PROVE  LET f == [code |-> c, line |-> 0, trace |-> "none", blind |-> FALSE, left |-> FALSE]
           IN  /\ StackTypes' /\ OthersKept(t) /\ CallersKept(t, Depth(t))
               /\ Depth(t)' = Depth(t) + 1 /\ Top(t)' = f
<1> DEFINE f == [code |-> c, line |-> 0, trace |-> "none", blind |-> FALSE, left |-> FALSE]
<1>1. f \in FrameType
    BY TraceDispatchAssumption DEF FrameType, Lines0
<1>2. Depth(t) + 1 <= MaxDepth /\ stack' = [stack EXCEPT ![t] = Append(@, f)]
    BY DEF Call
<1>3. StackTypes
    BY DEF TypeInv
<1> HIDE DEF f
<1> QED
    BY <1>1, <1>2, <1>3, Pushed DEF f

LEMMA CallTypes ==
    ASSUME TypeInv, NEW t \in Threads, NEW c \in Codes, Call(t, c)
    PROVE  TypeInv'
<1>1. StackTypes' /\ OthersKept(t) /\ Depth(t)' = Depth(t) + 1
    BY CallFacts
<1>2. /\ Fire(t, "call") /\ UNCHANGED <<view, at, info, bps, caches, cmd, settled, dirty, stale, promise>>
      /\ \E x : marks' = [marks EXCEPT ![t] = x]
      /\ pc[t] = "run"
    BY DEF Call
<1>3. /\ pc' \in [Threads -> {"run", "fetch", "decide", "wait"}]
      /\ event' \in [Threads -> {None, "call", "line", "exception", "return"}]
      /\ pc'[t] = "fetch"
      /\ \A u \in Threads : u # t => pc'[u] = pc[u]
    BY <1>2, FiredFacts
<1>4. Depth(t) \in Nat /\ at[t] \in Nat /\ at[t] <= Depth(t) /\ (pc[t] # "wait" => at[t] = 0)
    BY ThreadFacts
<1>5. PlaceInv'
    BY <1>1, <1>2, <1>3, <1>4, PlaceStep DEF OthersKept
<1>6. MapTypes'
    BY <1>2, MapsKept, OldParts DEF MapTypes
<1>7. CacheTypes'
    BY <1>2, KeptCaches DEF caches
<1> QED
    BY <1>1, <1>2, <1>3, <1>5, <1>6, <1>7, OldParts, TypeParts

LEMMA AdvanceFacts ==
    ASSUME TypeInv, NEW t \in Threads, NEW l \in 1 .. LastLine, Advance(t, l)
    PROVE  /\ StackTypes' /\ OthersKept(t) /\ CallersKept(t, Depth(t) - 1)
           /\ Depth(t)' = Depth(t) /\ Depth(t) > 0 /\ Top(t)' = [Top(t) EXCEPT !.line = l]
<1> DEFINE f == [Top(t) EXCEPT !.line = l]
<1>1. Depth(t) > 0 /\ StackTypes /\ Top(t) \in FrameType
    BY ThreadFacts DEF Advance, TypeInv
<1>2. f \in FrameType
    BY <1>1, TraceDispatchAssumption DEF FrameType, Lines0
<1>3. stack' = [stack EXCEPT ![t] = [stack[t] EXCEPT ![Depth(t)] = f]]
    BY DEF Advance, Top
<1> HIDE DEF f
<1> QED
    BY <1>1, <1>2, <1>3, TopSet DEF f

LEMMA AdvanceTypes ==
    ASSUME TypeInv, NEW t \in Threads, NEW l \in 1 .. LastLine, Advance(t, l)
    PROVE  TypeInv'
<1>1. StackTypes' /\ OthersKept(t) /\ Depth(t)' = Depth(t) /\ Depth(t) > 0
    BY AdvanceFacts
<1>2. /\ Fire(t, "line") \/ UNCHANGED <<pc, event>>
      /\ UNCHANGED <<view, at, info, bps, caches, cmd, settled, dirty, stale, promise>>
      /\ \E x : marks' = [marks EXCEPT ![t] = x]
      /\ pc[t] = "run"
    BY DEF Advance
<1>3. /\ pc' \in [Threads -> {"run", "fetch", "decide", "wait"}]
      /\ event' \in [Threads -> {None, "call", "line", "exception", "return"}]
      /\ pc'[t] \in {"run", "fetch"}
      /\ \A u \in Threads : u # t => pc'[u] = pc[u]
    BY <1>2, FiredFacts, OldParts
<1>4. Depth(t) \in Nat /\ at[t] \in Nat /\ at[t] <= Depth(t) /\ (pc[t] # "wait" => at[t] = 0)
    BY ThreadFacts
<1>5. PlaceInv'
    BY <1>1, <1>2, <1>3, <1>4, PlaceStep DEF OthersKept
<1>6. MapTypes'
    BY <1>2, MapsKept, OldParts DEF MapTypes
<1>7. CacheTypes'
    BY <1>2, KeptCaches DEF caches
<1> QED
    BY <1>1, <1>2, <1>3, <1>5, <1>6, <1>7, OldParts, TypeParts

LEMMA RaiseTypes ==
    ASSUME TypeInv, NEW t \in Threads, Raise(t)
    PROVE  TypeInv'
<1>2. /\ Fire(t, "exception")
      /\ UNCHANGED <<stack, view, at, info, bps, caches, cmd, settled, dirty, stale, promise>>
      /\ \E x : marks' = [marks EXCEPT ![t] = x]
      /\ Depth(t) > 0 /\ pc[t] = "run"
    BY DEF Raise
<1>1. StackTypes' /\ \A u \in Threads : Depth(u)' = Depth(u)
    BY <1>2, OldParts DEF StackTypes, Depth
<1>3. /\ pc' \in [Threads -> {"run", "fetch", "decide", "wait"}]
      /\ event' \in [Threads -> {None, "call", "line", "exception", "return"}]
      /\ pc'[t] = "fetch"
      /\ \A u \in Threads : u # t => pc'[u] = pc[u]
    BY <1>2, FiredFacts, OldParts
<1>4. Depth(t) \in Nat /\ at[t] \in Nat /\ at[t] <= Depth(t) /\ (pc[t] # "wait" => at[t] = 0)
    BY ThreadFacts
<1>5. PlaceInv'
    BY <1>1, <1>2, <1>3, <1>4, PlaceStep
<1>6. MapTypes'
    BY <1>2, MapsKept, OldParts DEF MapTypes
<1>7. CacheTypes'
    BY <1>2, KeptCaches DEF caches
<1> QED
    BY <1>1, <1>2, <1>3, <1>5, <1>6, <1>7, OldParts, TypeParts

\* a frame that is not traced is left without a trace function
LeftSilently(t) == pc[t] = "run" /\ ~Traced(t) /\ Pop(t, stack, info) /\ UNCHANGED <<pc, event>>
LEMMA LeaveFacts ==
    ASSUME TypeInv, NEW t \in Threads, Leave(t)
    PROVE  /\ Depth(t) > 0 /\ StackTypes' /\ OthersKept(t) /\ CallersKept(t, Depth(t) - 1)
           /\ \/ LeftSilently(t) /\ Depth(t)' = Depth(t) - 1
              \/ Traced(t) /\ Fire(t, "return") /\ UNCHANGED <<stack, info>>
<1>1. Depth(t) > 0 /\ StackTypes
    BY OldParts DEF Leave
<1>2. CASE Traced(t)
  <2>1. Fire(t, "return") /\ UNCHANGED <<stack, info>>
    BY <1>2 DEF Leave
  <2> QED
    BY <1>1, <1>2, <2>1 DEF StackTypes, OthersKept, CallersKept, Depth
<1>3. CASE ~Traced(t)
  <2>1. LeftSilently(t)
    BY <1>3 DEF Leave, LeftSilently
  <2>2. stack' = [stack EXCEPT ![t] = SubSeq(stack[t], 1, Depth(t) - 1)]
    BY <2>1 DEF LeftSilently, Pop
  <2> QED
    BY <1>1, <2>1, <2>2, Popped
<1> QED
    BY <1>2, <1>3

LEMMA LeaveTypes ==
    ASSUME TypeInv, NEW t \in Threads, Leave(t)
    PROVE  TypeInv'
<1>1. /\ Depth(t) > 0 /\ StackTypes' /\ OthersKept(t)
      /\ \/ LeftSilently(t) /\ Depth(t)' = Depth(t) - 1
         \/ Traced(t) /\ Fire(t, "return") /\ UNCHANGED <<stack, info>>
    BY LeaveFacts
<1>2. /\ UNCHANGED <<view, at, bps, caches, cmd, settled, dirty, stale, promise>>
      /\ \E x : marks' = [marks EXCEPT ![t] = x]
      /\ pc[t] = "run"
    BY DEF Leave
<1>4. Depth(t) \in Nat /\ at[t] \in Nat /\ at[t] <= Depth(t) /\ info[t] \in Infos
    BY ThreadFacts
<1>6. MapTypes'
    BY <1>2, MapsKept, OldParts DEF MapTypes
<1>7. CacheTypes'
    BY <1>2, KeptCaches DEF caches
<1>a. at[t] = 0
    BY <1>2, ThreadFacts
<1>8. CASE LeftSilently(t) /\ Depth(t)' = Depth(t) - 1
  <2>1. info' \in [Threads -> Infos]
    BY <1>4, <1>8, InfoChanges, OldParts DEF LeftSilently, Pop
  <2>2. pc' = pc /\ event' = event
    BY <1>8 DEF LeftSilently
  <2>3. PlaceInv'
    BY <1>1, <1>2, <1>4, <1>8, <2>2, <1>a, PlaceStep DEF OthersKept
  <2> QED
    BY <1>1, <1>2, <1>6, <1>7, <2>1, <2>2, <2>3, OldParts, TypeParts
<1>9. CASE Traced(t) /\ Fire(t, "return") /\ UNCHANGED <<stack, info>>
  <2>1. /\ pc' \in [Threads -> {"run", "fetch", "decide", "wait"}]
        /\ event' \in [Threads -> {None, "call", "line", "exception", "return"}]
        /\ pc'[t] = "fetch"
        /\ \A u \in Threads : u # t => pc'[u] = pc[u]
    BY <1>9, FiredFacts
  <2>2. \A u \in Threads : Depth(u)' = Depth(u)
    BY <1>9 DEF Depth
  <2>3. PlaceInv'
    BY <1>1, <1>2, <1>4, <1>a, <2>1, <2>2, PlaceStep
  <2> QED
    BY <1>1, <1>2, <1>6, <1>7, <1>9, <2>1, <2>3, OldParts, TypeParts
<1> QED
    BY <1>1, <1>8, <1>9

-----------------------------------------------------------------------------
(* The trace functions *)

\* a trace function that ends: the caches are what the action says
LEMMA GoesOnTypes ==
    ASSUME TypeInv, NEW t \in Threads, pc[t] # "run", NEW trace \in TraceKinds,
           NEW left \in BOOLEAN, FrameGoesOn(t, trace, left),
           info' = [info EXCEPT ![t] = Forget(t, @)],
           UNCHANGED <<bps, cmd, settled, promise, marks>>, CacheTypes'
    PROVE  TypeInv'
<1>1. EndCallback(t) /\ StackTypes' /\ PlaceInv'
    BY FrameGoesOnFacts
<1>2. Depth(t) \in Nat /\ info[t] \in Infos
    BY ThreadFacts
<1>3. info' \in [Threads -> Infos]
    BY <1>2, InfoChanges, OldParts DEF Forget
<1>4. MapTypes'
    BY KeptMaps
<1> QED
    BY <1>1, <1>3, <1>4, EndCallbackFacts, OldParts, TypeParts

LEMMA UntracedKind ==
    ASSUME TypeInv, NEW t \in Threads, pc[t] # "run"
    PROVE  Untraced(t) \in TraceKinds
           /\ (IF ExceptionBreaks THEN "exception" ELSE Untraced(t)) \in TraceKinds
<1>1. Top(t) \in FrameType
    BY ThreadFacts
<1> QED
    BY <1>1 DEF Untraced, FrameType, TraceKinds

LEMMA TracerSkipsTypes ==
    ASSUME TypeInv, NEW t \in Threads, pc[t] = "fetch", TracerSkips(t)
    PROVE  TypeInv'
<1>1. /\ FrameGoesOn(t, Untraced(t), FALSE)
      /\ info' = [info EXCEPT ![t] = Forget(t, @)]
      /\ UNCHANGED <<bps, hasBreaks, skipLines, cmd, settled, stale, promise, marks>>
      /\ skips' = [c \in Codes |->
             IF ~SkippedByCache(t) /\ c \in FilteredNow(t) THEN 1 ELSE skips[c]]
    BY DEF TracerSkips, BackToProgram
<1>2. CacheTypes'
    BY <1>1, OldParts DEF CacheTypes
<1> QED
    BY <1>1, <1>2, UntracedKind, GoesOnTypes

LEMMA StepBecomesIntoType ==
    ASSUME TypeInv, NEW t \in Threads
    PROVE  StepBecomesInto(t) \in Infos
<1>1. info[t] \in Infos /\ 0 \in Gone .. MaxDepth
    BY ThreadFacts, TraceDispatchAssumption DEF Gone
<1> DEFINE step == IF info[t].step \in {"over", "return", "smart"} THEN "into" ELSE "into_my"
<1>2. step \in Steps
    BY DEF Steps, Into
<1>3. StepBecomesInto(t) \in {info[t], [info[t] EXCEPT !.step = step, !.stop = 0]}
    BY DEF StepBecomesInto
<1> HIDE DEF step
<1>4. [info[t] EXCEPT !.step = step, !.stop = 0] \in Infos
    BY <1>1, <1>2 DEF Infos, InfoType
<1> QED
    BY <1>1, <1>3, <1>4

LEMMA TracerDispatchesTypes ==
    ASSUME TypeInv, NEW t \in Threads, pc[t] = "fetch", TracerDispatches(t)
    PROVE  TypeInv'
<1> DEFINE v == [lines |-> BreakpointLines(Top(t).code), any |-> BreakpointsForFile(Top(t).code),
                 skip |-> CanSkip(t), step |-> info[t].step, stop |-> info[t].stop]
<1>1. /\ pc' = [pc EXCEPT ![t] = "decide"]
      /\ view' = [view EXCEPT ![t] = v]
      /\ info' = [info EXCEPT ![t] = StepBecomesInto(t)]
      /\ skips' = [x \in Codes |->
             IF InThreadTracer(t) /\ x \in FilteredNow(t) THEN 1 ELSE skips[x]]
      /\ UNCHANGED <<stack, event, at, bps, hasBreaks, skipLines, cmd, settled, dirty, stale,
                     promise, marks>>
    BY DEF TracerDispatches, history
<1>2. v \in ViewType
  <2>1. BreakpointLines(Top(t).code) \subseteq Lines0
    BY OldParts, TraceDispatchAssumption DEF BreakpointLines, Lines0
  <2>2. BreakpointsForFile(Top(t).code) \in BOOLEAN /\ CanSkip(t) \in BOOLEAN
    BY DEF BreakpointsForFile, CanSkip
  <2>3. info[t].step \in Steps \cup {None} /\ info[t].stop \in Gone .. MaxDepth
    BY ThreadFacts DEF Infos, InfoType
  <2> QED
    BY <2>1, <2>2, <2>3 DEF ViewType
<1> HIDE DEF v
<1>3. /\ pc' \in [Threads -> {"run", "fetch", "decide", "wait"}]
      /\ view' \in [Threads -> ViewType] /\ info' \in [Threads -> Infos]
    BY <1>1, <1>2, StepBecomesIntoType, OldParts
<1>4. StackTypes' /\ \A u \in Threads : Depth(u)' = Depth(u)
    BY <1>1, OldParts DEF StackTypes, Depth
<1>5. PlaceInv'
    BY <1>1, <1>4, OldParts, ThreadFacts, PlaceStep
<1>6. MapTypes' /\ CacheTypes'
    BY <1>1, OldParts, KeptMaps DEF CacheTypes
<1> QED
    BY <1>1, <1>3, <1>4, <1>5, <1>6, OldParts, TypeParts

\* what the caches may become in trace_dispatch()
LEMMA CacheUpdates ==
    ASSUME TypeInv, NEW t \in Threads, pc[t] # "run",
           skips' = skips \/ \E x \in {1, 2, skips[Top(t).code]} :
                                 skips' = [skips EXCEPT ![Top(t).code] = x],
           hasBreaks' = hasBreaks \/ CacheHasBreakpoint(t),
           skipLines' = skipLines \/ CacheLine(t),
           stale' = stale \/ StaleIf(t)
    PROVE  CacheTypes'
<1>1. Top(t) \in FrameType
    BY ThreadFacts
<1>2. Top(t).code \in Codes /\ Top(t).line \in Lines0
    BY <1>1 DEF FrameType
<1>3. skips' \in [Codes -> 0 .. 2]
    BY <1>2, OldParts DEF CacheTypes
<1>4. hasBreaks' \in [Codes -> -1 .. 1]
    BY <1>2, OldParts DEF CacheTypes, CacheHasBreakpoint
<1>5. skipLines' \subseteq Codes \X Lines0
    BY <1>2, OldParts DEF CacheTypes, CacheLine
<1>6. stale' \subseteq Codes
    BY <1>2, OldParts DEF CacheTypes, StaleIf
<1> QED
    BY <1>3, <1>4, <1>5, <1>6 DEF CacheTypes

\* The four ends of trace_dispatch() that do not suspend the thread.
LEMMA SkipTypes ==
    ASSUME TypeInv, NEW t \in Threads, pc[t] = "decide",
           SkipFile(t) \/ SkipLine(t) \/ SkipFunction(t) \/ GoesOn(t)
    PROVE  TypeInv'
<1> DEFINE kind == IF ExceptionBreaks THEN "exception" ELSE Untraced(t)
           left == event[t] = "line" /\ (SmartChild(t) \/ SmartGrandchild(t))
<1>1. CASE SkipFile(t) \/ SkipFunction(t)
  <2>1. /\ FrameGoesOn(t, kind, FALSE)
        /\ skips' = [skips EXCEPT ![Top(t).code] =
               IF event[t] = "call" /\ ~ExceptionBreaks THEN 2 ELSE @]
        /\ info' = [info EXCEPT ![t] = Forget(t, @)]
        /\ UNCHANGED <<bps, skipLines, cmd, settled, promise, marks>>
        /\ hasBreaks' = hasBreaks \/ CacheHasBreakpoint(t)
        /\ StaleIf(t)
    BY <1>1 DEF SkipFile, SkipFunction, FrameSkipped, BackToProgram
  <2>2. CacheTypes'
    BY <2>1, CacheUpdates
  <2>3. kind \in TraceKinds
    BY UntracedKind
  <2> HIDE DEF kind
  <2> QED
    BY <2>1, <2>2, <2>3, GoesOnTypes
<1>2. CASE SkipLine(t)
  <2>1. /\ FrameGoesOn(t, "dispatch", FALSE)
        /\ info' = [info EXCEPT ![t] = Forget(t, @)]
        /\ UNCHANGED <<bps, caches, cmd, settled, stale, promise, marks>>
    BY <1>2 DEF SkipLine, BackToProgram
  <2>2. CacheTypes'
    BY <2>1, KeptCaches DEF caches
  <2> QED
    BY <2>1, <2>2, GoesOnTypes DEF TraceKinds
<1>3. CASE GoesOn(t)
  <2>1. /\ FrameGoesOn(t, IF left THEN "none" ELSE "dispatch", left)
        /\ info' = [info EXCEPT ![t] = Forget(t, @)]
        /\ UNCHANGED <<bps, skips, cmd, settled, promise, marks>>
        /\ hasBreaks' = hasBreaks \/ CacheHasBreakpoint(t)
        /\ StaleIf(t) /\ CacheLine(t)
    BY <1>3 DEF GoesOn, Examined
  <2>2. CacheTypes'
    BY <2>1, CacheUpdates
  <2>3. left \in BOOLEAN /\ (IF left THEN "none" ELSE "dispatch") \in TraceKinds
    BY DEF TraceKinds
  <2> HIDE DEF left
  <2> QED
    BY <2>1, <2>2, <2>3, GoesOnTypes
<1> QED
    BY <1>1, <1>2, <1>3

\* A thread that suspends itself waits at a frame.
LEMMA WaitTypes ==
    ASSUME TypeInv, NEW t \in Threads, pc[t] = "decide", NEW d \in 1 .. Depth(t),
           StackTypes', \A u \in Threads : Depth(u)' = Depth(u),
           pc' = [pc EXCEPT ![t] = "wait"], at' = [at EXCEPT ![t] = d],
           \A u \in Threads : info'[u] \in Infos, info' = [u \in Threads |-> info'[u]],
           dirty' \subseteq Threads, CacheTypes', MapTypes',
           UNCHANGED <<event, view, bps, cmd, settled>>
    PROVE  TypeInv'
<1>1. Depth(t) \in Nat /\ d \in Nat /\ d > 0 /\ d <= Depth(t)
    BY ThreadFacts
<1>2. /\ pc' \in [Threads -> {"run", "fetch", "decide", "wait"}]
      /\ at' \in [Threads -> Nat] /\ info' \in [Threads -> Infos]
      /\ pc'[t] = "wait" /\ at'[t] = d
      /\ \A u \in Threads : u # t => pc'[u] = pc[u] /\ at'[u] = at[u]
    BY <1>1, OldParts
<1>3. PlaceInv'
    BY <1>1, <1>2, PlaceStep
<1> QED
    BY <1>2, <1>3, OldParts, TypeParts

LEMMA SetSuspendTypes ==
    ASSUME TypeInv, NEW t \in Threads, pc[t] = "decide", NEW d \in 1 .. Depth(t),
           SetSuspend(t, d), CacheTypes', NEW x, marks' = [marks EXCEPT ![t] = x]
    PROVE  TypeInv'
<1> DEFINE others == IF SingleNotification THEN Threads \ {t} ELSE {}
<1>1. /\ info' = [u \in Threads |->
             IF u = t THEN [MarkThreadSuspended(info[u]) EXCEPT !.initial = NoLocation]
             ELSE IF u \in others THEN MarkThreadSuspended(info[u]) ELSE info[u]]
      /\ stack' = SetTrace(stack, others, Depths)
      /\ dirty' = dirty \cup {u \in others : pc[u] = "decide"}
      /\ pc' = [pc EXCEPT ![t] = "wait"]
      /\ at' = [at EXCEPT ![t] = d]
      /\ promise' = [promise EXCEPT ![t] = NoPromise]
      /\ UNCHANGED <<event, view, bps, cmd, settled>>
    BY DEF SetSuspend
<1>2. others \subseteq Threads
    OBVIOUS
<1> HIDE DEF others
<1>3. StackTypes' /\ \A u \in Threads : Depth(u)' = Depth(u)
    BY <1>1, OldParts, SetTraceFacts
<1>4. \A u \in Threads : info'[u] \in Infos
    BY <1>1, ThreadFacts, InfoChanges
<1>5. MapTypes'
    BY <1>1, MapsKept DEF MapTypes
<1>6. dirty' \subseteq Threads
    BY <1>1, <1>2, OldParts
<1>7. info' = [u \in Threads |-> info'[u]]
    BY <1>1
<1> QED
    BY <1>1, <1>3, <1>4, <1>5, <1>6, <1>7, WaitTypes

LEMMA StopTypes ==
    ASSUME TypeInv, NEW t \in Threads, pc[t] = "decide",
           StopOnBreakpoint(t) \/ WaitSuspended(t) \/ StopForStep(t)
    PROVE  TypeInv'
<1>1. Depth(t) \in Nat /\ Depth(t) > 0
    BY ThreadFacts
<1>2. CASE StopOnBreakpoint(t)
  <2>1. /\ SetSuspend(t, Depth(t)) /\ \E x : marks' = [marks EXCEPT ![t] = x]
        /\ UNCHANGED <<skips, skipLines>> /\ StaleIf(t)
        /\ hasBreaks' = hasBreaks \/ CacheHasBreakpoint(t)
    BY <1>2 DEF StopOnBreakpoint, Examined
  <2>2. CacheTypes'
    BY <2>1, CacheUpdates
  <2>3. Depth(t) \in 1 .. Depth(t)
    BY <1>1
  <2> QED
    BY <2>1, <2>2, <2>3, SetSuspendTypes
<1>3. CASE StopForStep(t)
  <2> DEFINE d == IF event[t] = "return" THEN Depth(t) - 1 ELSE Depth(t)
  <2>1. /\ SetSuspend(t, d) /\ \E x : marks' = [marks EXCEPT ![t] = x]
        /\ UNCHANGED skips /\ StaleIf(t) /\ CacheLine(t)
        /\ hasBreaks' = hasBreaks \/ CacheHasBreakpoint(t)
        /\ EndsAtLine(t) \/ EndsAtReturn(t)
    BY <1>3 DEF StopForStep, Examined
  <2>2. CacheTypes'
    BY <2>1, CacheUpdates
  <2>3. d \in 1 .. Depth(t)
    BY <1>1, <2>1 DEF EndsAtLine, EndsAtReturn
  <2> HIDE DEF d
  <2> QED
    BY <2>1, <2>2, <2>3, SetSuspendTypes
<1>4. CASE WaitSuspended(t)
  <2>1. /\ \E x : marks' = [marks EXCEPT ![t] = x]
        /\ promise' = [promise EXCEPT ![t] = NoPromise]
        /\ info' = [info EXCEPT ![t].initial = NoLocation]
        /\ pc' = [pc EXCEPT ![t] = "wait"] /\ at' = [at EXCEPT ![t] = Depth(t)]
        /\ UNCHANGED <<stack, event, view, bps, skips, skipLines, cmd, settled, dirty>>
        /\ StaleIf(t)
        /\ hasBreaks' = hasBreaks \/ CacheHasBreakpoint(t)
    BY <1>4 DEF WaitSuspended, Examined
  <2>2. CacheTypes' /\ MapTypes'
    BY <2>1, CacheUpdates, MapsKept DEF MapTypes
  <2>3. Depth(t) \in 1 .. Depth(t) /\ dirty' \subseteq Threads
    BY <1>1, <2>1, OldParts
  <2>4. StackTypes' /\ \A u \in Threads : Depth(u)' = Depth(u)
    BY <2>1, OldParts DEF StackTypes, Depth
  <2>5. info' = [info EXCEPT ![t] = [info[t] EXCEPT !.initial = NoLocation]]
    BY <2>1
  <2>6. [info[t] EXCEPT !.initial = NoLocation] \in Infos
    BY ThreadFacts, InfoChanges
  <2>7. info' \in [Threads -> Infos]
    BY <2>5, <2>6, OldParts
  <2> QED
    BY <2>1, <2>2, <2>3, <2>4, <2>7, WaitTypes
<1> QED
    BY <1>2, <1>3, <1>4

LEMMA ReleasedMaps ==
    ASSUME NEW S, Released(S)
    PROVE  MapTypes'
BY DEF Released, MapTypes

LEMMA StepRequestTypes ==
    ASSUME TypeInv, NEW t \in Threads, NEW step \in Steps,
           NEW target \in (Codes \X Lines0) \cup {NoLocation}, StepRequest(t, step, target)
    PROVE  TypeInv'
<1>1. /\ info' = [u \in Threads |-> IF u = t THEN StepInThread(info[u], step, target)
                                           ELSE RunThread(info[u])]
      /\ Released(Threads \ {t})
      /\ UNCHANGED <<stack, pc, event, view, at, bps, skips, hasBreaks, skipLines, cmd, settled,
                     dirty, stale>>
    BY DEF StepRequest, program, caches
<1>2. info' \in [Threads -> Infos]
    BY <1>1, ThreadFacts, InfoChanges
<1>3. MapTypes' /\ CacheTypes'
    BY <1>1, ReleasedMaps, KeptCaches
<1>4. StackTypes' /\ PlaceInv'
    BY <1>1, OldParts DEF StackTypes, PlaceInv, Depth
<1> QED
    BY <1>1, <1>2, <1>3, <1>4, OldParts, TypeParts

\* A step request of a smart step names a function and a line of the frame.
LEMMA RequestTypes ==
    ASSUME TypeInv, NEW t \in Threads,
           \/ \E step \in StepCmds \ {"smart"} : StepRequest(t, step, NoLocation)
           \/ \E c \in Codes : /\ "smart" \in StepCmds /\ at[t] > 0
                               /\ StepRequest(t, "smart", <<c, stack[t][at[t]].line>>)
    PROVE  TypeInv'
<1>1. CASE \E step \in StepCmds \ {"smart"} : StepRequest(t, step, NoLocation)
    BY <1>1, StepRequestTypes, TraceDispatchAssumption
<1>2. CASE \E c \in Codes : /\ at[t] > 0 /\ StepRequest(t, "smart", <<c, stack[t][at[t]].line>>)
  <2>1. PICK c \in Codes : at[t] > 0 /\ StepRequest(t, "smart", <<c, stack[t][at[t]].line>>)
    BY <1>2
  <2>2. at[t] \in 1 .. Depth(t)
    BY <2>1, ThreadFacts
  <2>3. stack[t][at[t]] \in FrameType
    BY <2>2, ThreadFacts
  <2>4. stack[t][at[t]].line \in Lines0
    BY <2>3 DEF FrameType
  <2>5. <<c, stack[t][at[t]].line>> \in (Codes \X Lines0) \cup {NoLocation} /\ "smart" \in Steps
    BY <2>4, StepKinds
  <2> QED
    BY <2>1, <2>5, StepRequestTypes
<1> QED
    BY <1>1, <1>2

-----------------------------------------------------------------------------
(* A suspended thread is resumed *)

Resumed(t) == PrepareStep(info[t], stack[t], at[t])
BaseOf(t) == IF Resumed(t).step \in Into \cup {None} THEN at[t] ELSE Resumed(t).stop
\* what resuming t makes of its frame at depth d
ResumedFrame(t, d) ==
    IF Resumed(t).step # None /\ d <= BaseOf(t) /\ stack[t][d].code \notin Internal
    THEN Traced_(stack[t][d]) ELSE stack[t][d]

LEMMA ResumedFacts ==
    ASSUME TypeInv, NEW t \in Threads, pc[t] = "wait", info[t].state = "run"
    PROVE  /\ Resumed(t) \in Infos /\ Resumed(t).state = "run"
           /\ at[t] \in 1 .. Depth(t) /\ at[t] \in 1 .. MaxDepth
           /\ Depth(t) > 0 /\ StackTypes
           /\ Resumed(t).stop \in 0 .. at[t] \/ Resumed(t).step = None
<1>1. at[t] \in 1 .. Depth(t) /\ Depth(t) <= MaxDepth /\ info[t] \in Infos /\ Depth(t) > 0
    BY ThreadFacts
<1>2. stack[t][at[t]] \in FrameType /\ MaxDepth \in Nat /\ Depth(t) \in Nat
    BY <1>1, ThreadFacts, TraceDispatchAssumption
<1>3. stack[t][at[t]].line \in Lines0 /\ at[t] \in 1 .. MaxDepth
    BY <1>1, <1>2 DEF FrameType
<1>4. /\ Resumed(t) \in Infos
      /\ Resumed(t).stop \in 0 .. at[t] \/ Resumed(t).step = None
      /\ Resumed(t).state = info[t].state \/ Resumed(t).state = "run"
    BY <1>1, <1>3, PrepareStepType DEF Resumed
<1> QED
    BY <1>1, <1>3, <1>4, OldParts

LEMMA LeaveWaitFacts ==
    ASSUME TypeInv, NEW t \in Threads, LeaveWait(t)
    PROVE  /\ StackTypes' /\ OthersKept(t) /\ EndCallback(t)
           /\ \A d \in 1 .. Depth(t) - 1 : stack'[t][d] = ResumedFrame(t, d)
           /\ event[t] = "return" => Depth(t)' = Depth(t) - 1
           /\ event[t] # "return" =>
                  /\ Depth(t)' = Depth(t)
                  /\ Top(t)' = [ResumedFrame(t, Depth(t)) EXCEPT !.trace = "dispatch"]
           /\ info' = [info EXCEPT ![t] = IF event[t] = "return"
                            THEN ForgetFrame(Resumed(t), Depth(t)) ELSE Resumed(t)]
           /\ marks' = [marks EXCEPT ![t] = {}]
           /\ \E x : promise' = [promise EXCEPT ![t] = x]
           /\ UNCHANGED <<bps, caches, cmd, settled, stale>>
           /\ PlaceInv'
<1> DEFINE n == Depth(t)
           r == [d \in 1 .. n |-> ResumedFrame(t, d)]
           traced == IF Resumed(t).step = None THEN stack
                     ELSE SetTrace(stack, {t}, [Depths EXCEPT ![t] = BaseOf(t)])
           s == IF event[t] = "return" THEN SubSeq(r, 1, n - 1)
                ELSE [r EXCEPT ![n].trace = "dispatch"]
<1>1. /\ pc[t] = "wait" /\ info[t].state = "run"
      /\ stack' = [traced EXCEPT ![t] = IF event[t] = "return" THEN SubSeq(@, 1, n - 1)
                                        ELSE [@ EXCEPT ![n].trace = "dispatch"]]
      /\ info' = [info EXCEPT ![t] = IF event[t] = "return"
                            THEN ForgetFrame(Resumed(t), Depth(t)) ELSE Resumed(t)]
      /\ marks' = [marks EXCEPT ![t] = {}]
      /\ \E x : promise' = [promise EXCEPT ![t] = x]
      /\ UNCHANGED <<bps, caches, cmd, settled, stale>>
      /\ EndCallback(t)
    BY DEF LeaveWait, Resumed, BaseOf
<1>2. /\ StackTypes /\ n \in Nat /\ n > 0 /\ n <= MaxDepth
      /\ stack \in [Threads -> Seq(FrameType)]
      /\ stack[t] = [d \in 1 .. n |-> stack[t][d]]
      /\ \A d \in 1 .. n : stack[t][d] \in FrameType
  <2>1. /\ stack[t] \in Seq(FrameType) /\ DOMAIN stack[t] = 1 .. n
        /\ StackTypes /\ stack \in [Threads -> Seq(FrameType)]
    BY OldParts, ThreadFacts DEF StackTypes
  <2>2. n \in Nat /\ n > 0 /\ n <= MaxDepth /\ \A d \in 1 .. n : stack[t][d] \in FrameType
    BY <1>1, ThreadFacts
  <2>3. stack[t] = [d \in 1 .. n |-> stack[t][d]]
    BY <2>1
  <2> QED
    BY <2>1, <2>2, <2>3
<1>3. traced = [stack EXCEPT ![t] = r]
  <2>1. CASE Resumed(t).step = None
    <3>1. r = stack[t]
      BY <1>2, <2>1 DEF ResumedFrame
    <3> HIDE DEF r
    <3> QED
      BY <1>2, <2>1, <3>1
  <2>2. CASE Resumed(t).step # None
    <3>1. \A u \in Threads : stack[u] = [d \in DOMAIN stack[u] |-> stack[u][d]]
      <4> TAKE u \in Threads
      <4>1. stack[u] \in Seq(FrameType)
        BY <1>2
      <4> QED
        BY <4>1
    <3>2. \A u \in Threads : u # t => traced[u] = stack[u]
      BY <2>2, <3>1 DEF SetTrace
    <3>3. traced[t] = r
      BY <1>2, <2>2, ThreadFacts DEF SetTrace, ResumedFrame, Traced_, Depths
    <3>4. traced = [u \in Threads |-> traced[u]]
      BY <2>2 DEF SetTrace
    <3> HIDE DEF traced, r
    <3> QED
      BY <1>2, <3>2, <3>3, <3>4
  <2> QED
    BY <2>1, <2>2
<1>4. stack' = [stack EXCEPT ![t] = s]
  <2> HIDE DEF r, traced
  <2>1. traced[t] = r
    BY <1>2, <1>3
  <2> QED
    BY <1>1, <1>2, <1>3, <2>1 DEF s
<1>5. \A d \in 1 .. n : r[d] = ResumedFrame(t, d) /\ r[d] \in FrameType
  <2>1. \A d \in 1 .. n : Traced_(stack[t][d]) \in FrameType
    BY <1>2 DEF FrameType, Traced_
  <2> QED
    BY <1>2, <2>1 DEF ResumedFrame
<1>6. r \in Seq(FrameType) /\ Len(r) = n
    BY <1>2, <1>5
<1> HIDE DEF r
<1>7. CASE event[t] = "return"
  <2>1. /\ s \in Seq(FrameType) /\ Len(s) = n - 1
        /\ \A d \in 1 .. n - 1 : s[d] = r[d]
    BY <1>2, <1>6, <1>7
  <2> HIDE DEF s, n
  <2>2. Len(s) <= MaxDepth
    BY <1>2, <2>1, TraceDispatchAssumption
  <2>3. StackTypes' /\ OthersKept(t) /\ stack'[t] = s /\ Depth(t)' = n - 1
    BY <1>2, <1>4, <2>1, <2>2, Changed
  <2>4. \A d \in 1 .. n - 1 : stack'[t][d] = ResumedFrame(t, d)
    BY <1>2, <1>5, <2>1, <2>3
  <2>5. PlaceInv'
    <3>1. pc'[t] = "run" /\ at'[t] = 0 /\ OthersRest(t)
      BY <1>1, EndCallbackFacts
    <3>2. 0 <= Depth(t)'
      BY <1>2, <2>3
    <3> QED
      BY <3>1, <3>2, <2>3, PlaceStep DEF OthersKept, OthersRest
  <2> QED
    BY <1>1, <1>7, <2>3, <2>4, <2>5 DEF n
<1>8. CASE event[t] # "return"
  <2> DEFINE f == [r[n] EXCEPT !.trace = "dispatch"]
  <2>1. s = [r EXCEPT ![n] = f]
    BY <1>8
  <2>2. f \in FrameType
    BY <1>2, <1>5 DEF FrameType
  <2> HIDE DEF f, s, n
  <2>3. n \in 1 .. Len(r)
    BY <1>2, <1>6
  <2>4. /\ s \in Seq(FrameType) /\ Len(s) = n /\ s[n] = f
        /\ \A d \in 1 .. n - 1 : s[d] = r[d]
    BY <1>2, <1>6, <2>1, <2>2, <2>3, ExceptSeq
  <2>5. StackTypes' /\ OthersKept(t) /\ stack'[t] = s /\ Depth(t)' = n
    BY <1>2, <1>4, <2>4, Changed
  <2>6. Top(t)' = [ResumedFrame(t, n) EXCEPT !.trace = "dispatch"]
    BY <1>2, <1>5, <2>4, <2>5 DEF Top, f
  <2>7. \A d \in 1 .. n - 1 : stack'[t][d] = ResumedFrame(t, d)
    BY <1>2, <1>5, <2>4, <2>5
  <2>8. PlaceInv'
    <3>1. pc'[t] = "run" /\ at'[t] = 0 /\ OthersRest(t)
      BY <1>1, EndCallbackFacts
    <3>2. 0 <= Depth(t)'
      BY <1>2, <2>5
    <3> QED
      BY <3>1, <3>2, <2>5, PlaceStep DEF OthersKept, OthersRest
  <2> QED
    BY <1>1, <1>8, <2>5, <2>6, <2>7, <2>8 DEF n
<1> QED
    BY <1>7, <1>8

LEMMA LeaveWaitTypes ==
    ASSUME TypeInv, NEW t \in Threads, LeaveWait(t)
    PROVE  TypeInv'
<1>1. /\ StackTypes' /\ EndCallback(t) /\ PlaceInv'
      /\ info' = [info EXCEPT ![t] = IF event[t] = "return"
                            THEN ForgetFrame(Resumed(t), Depth(t)) ELSE Resumed(t)]
      /\ marks' = [marks EXCEPT ![t] = {}]
      /\ \E x : promise' = [promise EXCEPT ![t] = x]
      /\ UNCHANGED <<bps, caches, cmd, settled, stale>>
    BY LeaveWaitFacts
<1>2. Resumed(t) \in Infos /\ Depth(t) \in Nat
    BY ResumedFacts, ThreadFacts DEF LeaveWait
<1>3. info' \in [Threads -> Infos]
    BY <1>1, <1>2, InfoChanges, OldParts
<1>4. MapTypes' /\ CacheTypes'
    BY <1>1, MapsKept, KeptCaches DEF MapTypes, caches
<1> QED
    BY <1>1, <1>3, <1>4, EndCallbackFacts, OldParts, TypeParts

-----------------------------------------------------------------------------
(* Commands *)

LEMMA ClearedCaches ==
    ASSUME ClearCaches
    PROVE  CacheTypes'
BY DEF ClearCaches, CacheTypes

\* a command that leaves the threads where they are
LEMMA CommandTypes ==
    ASSUME TypeInv, StackTypes', \A u \in Threads : Depth(u)' = Depth(u),
           UNCHANGED <<pc, event, view, at>>, info' \in [Threads -> Infos],
           bps' \subseteq BreakLocations, settled' \subseteq bps', cmd' \in CmdType,
           dirty' \subseteq Threads, CacheTypes', MapTypes'
    PROVE  TypeInv'
<1>1. PlaceInv'
    BY OldParts DEF PlaceInv
<1> QED
    BY <1>1, OldParts, TypeParts

LEMMA SameStacks ==
    ASSUME TypeInv, stack' = stack
    PROVE  StackTypes' /\ \A u \in Threads : Depth(u)' = Depth(u)
BY OldParts DEF StackTypes, Depth

LEMMA CommandsTypes ==
    ASSUME TypeInv, Command
    PROVE  TypeInv'
<1>1. ASSUME NEW loc \in BreakLocations, AddBreakpoint(loc) PROVE TypeInv'
  <2>1. /\ bps' = bps \cup {loc} /\ cmd' = [phase |-> "added", loc |-> loc]
        /\ UNCHANGED <<stack, pc, event, view, at, info, settled, promise>>
        /\ dirty' = {t \in Threads : pc[t] = "decide"}
        /\ marks' = [t \in Threads |-> IF IsAt(t, loc) THEN marks[t] \cup {"armed"} ELSE marks[t]]
        /\ ClearCaches \/ UNCHANGED <<caches, stale>>
    BY <1>1 DEF AddBreakpoint, program, Outdate
  <2>2. CacheTypes'
    BY <2>1, ClearedCaches, KeptCaches DEF caches
  <2>3. MapTypes'
    BY <2>1, OldParts DEF MapTypes
  <2>4. cmd' \in CmdType
    BY <2>1 DEF CmdType
  <2>5. dirty' \subseteq Threads /\ bps' \subseteq BreakLocations /\ settled' \subseteq bps'
    BY <2>1, OldParts
  <2> QED
    BY <2>1, <2>2, <2>3, <2>4, <2>5, SameStacks, CommandTypes, OldParts
<1>2. ASSUME NEW loc \in BreakLocations, RemoveBreakpoint(loc) PROVE TypeInv'
  <2>1. /\ bps' = bps \ {loc} /\ settled' = settled \ {loc}
        /\ cmd' = [phase |-> "added", loc |-> loc] \/ cmd' = cmd
        /\ UNCHANGED <<stack, pc, event, view, at, info, dirty, promise>>
        /\ marks' = [t \in Threads |-> IF IsAt(t, loc)
                                   THEN marks[t] \ {"breakpoint", "stale", "blind", "left"}
                                   ELSE marks[t]]
        /\ ClearCaches \/ UNCHANGED <<caches, stale>>
    BY <1>2 DEF RemoveBreakpoint, program
  <2>2. CacheTypes'
    BY <2>1, ClearedCaches, KeptCaches DEF caches
  <2>3. MapTypes'
    BY <2>1, OldParts DEF MapTypes
  <2>4. cmd' \in CmdType
    BY <2>1, OldParts DEF CmdType
  <2>5. dirty' \subseteq Threads /\ bps' \subseteq BreakLocations /\ settled' \subseteq bps'
    BY <2>1, OldParts
  <2> QED
    BY <2>1, <2>2, <2>3, <2>4, <2>5, SameStacks, CommandTypes, OldParts
<1>3. ASSUME BreakpointAdded PROVE TypeInv'
  <2>1. /\ ClearCaches /\ cmd' = [cmd EXCEPT !.phase = "trace"]
        /\ UNCHANGED <<stack, pc, event, view, at, info, bps, settled, dirty, promise, marks>>
    BY <1>3 DEF BreakpointAdded, program
  <2>2. cmd' \in CmdType
    BY <2>1, OldParts DEF CmdType
  <2> QED
    BY <2>1, <2>2, SameStacks, ClearedCaches, KeptMaps, CommandTypes, OldParts
<1>4. ASSUME TraceExistingFrames PROVE TypeInv'
  <2>1. /\ stack' = SetTrace(stack, Threads, Depths)
        /\ settled' = settled \cup ({cmd.loc} \cap bps)
        /\ cmd' = [phase |-> "idle", loc |-> NoLocation]
        /\ UNCHANGED <<pc, event, view, at, info, bps, skips, hasBreaks, skipLines, dirty, stale,
                       promise, marks>>
    BY <1>4 DEF TraceExistingFrames, caches
  <2>2. StackTypes' /\ \A u \in Threads : Depth(u)' = Depth(u)
    BY <2>1, OldParts, SetTraceFacts
  <2>3. cmd' \in CmdType /\ settled' \subseteq bps'
    BY <2>1, OldParts DEF CmdType
  <2> QED
    BY <2>1, <2>2, <2>3, KeptCaches, KeptMaps, CommandTypes, OldParts
<1>5. ASSUME ClearFilters PROVE TypeInv'
  <2>1. /\ ClearCaches
        /\ UNCHANGED <<stack, pc, event, view, at, info, bps, cmd, settled, dirty, promise, marks>>
    BY <1>5 DEF ClearFilters, program
  <2> QED
    BY <2>1, SameStacks, ClearedCaches, KeptMaps, CommandTypes, OldParts
<1>6. ASSUME NEW t \in Threads, Pause(t) PROVE TypeInv'
  <2> DEFINE threads == IF SingleNotification THEN Threads ELSE {t}
  <2>1. /\ info' = [u \in Threads |-> IF u \in threads THEN MarkThreadSuspended(info[u])
                                                       ELSE info[u]]
        /\ stack' = SetTrace(stack, threads, Depths)
        /\ dirty' = dirty \cup {u \in threads : pc[u] = "decide"}
        /\ UNCHANGED <<pc, event, view, at, bps, skips, hasBreaks, skipLines, cmd, settled, stale,
                       promise, marks>>
    BY <1>6 DEF Pause, caches
  <2>2. threads \subseteq Threads
    OBVIOUS
  <2> HIDE DEF threads
  <2>3. StackTypes' /\ \A u \in Threads : Depth(u)' = Depth(u)
    BY <2>1, OldParts, SetTraceFacts
  <2>4. info' \in [Threads -> Infos]
    BY <2>1, ThreadFacts, InfoChanges
  <2>5. dirty' \subseteq Threads
    BY <2>1, <2>2, OldParts
  <2> QED
    BY <2>1, <2>3, <2>4, <2>5, KeptCaches, KeptMaps, CommandTypes, OldParts
<1>7. ASSUME NEW S, Continue(S) PROVE TypeInv'
  <2>1. /\ info' = [t \in Threads |-> IF t \in S THEN RunThread(info[t]) ELSE info[t]]
        /\ Released(S)
        /\ UNCHANGED <<stack, pc, event, view, at, bps, skips, hasBreaks, skipLines, cmd, settled,
                       dirty, stale>>
    BY <1>7 DEF Continue, program, caches
  <2>2. info' \in [Threads -> Infos]
    BY <2>1, ThreadFacts, InfoChanges
  <2> QED
    BY <2>1, <2>2, SameStacks, ReleasedMaps, KeptCaches, CommandTypes, OldParts
<1> QED
    BY <1>1, <1>2, <1>3, <1>4, <1>5, <1>6, <1>7 DEF Command

LEMMA TypeStep == TypeInv /\ [Next]_vars => TypeInv'
<1> SUFFICES ASSUME TypeInv, [Next]_vars PROVE TypeInv'
    OBVIOUS
<1>1. CASE Command
    BY <1>1, CommandsTypes
<1>2. ASSUME NEW t \in Threads, Program(t) PROVE TypeInv'
    BY <1>2, CallTypes, AdvanceTypes, RaiseTypes, LeaveTypes DEF Program
<1>3. ASSUME NEW t \in Threads, Callback(t) PROVE TypeInv'
  <2>1. CASE TraceCall(t)
    BY <2>1, TracerSkipsTypes, TracerDispatchesTypes DEF TraceCall
  <2>2. CASE Dispatch(t)
    BY <2>2, SkipTypes, StopTypes DEF Dispatch
  <2>3. CASE LeaveWait(t)
    BY <2>3, LeaveWaitTypes
  <2>4. CASE \/ \E step \in StepCmds \ {"smart"} : StepRequest(t, step, NoLocation)
             \/ \E c \in Codes : /\ "smart" \in StepCmds /\ at[t] > 0
                                 /\ StepRequest(t, "smart", <<c, stack[t][at[t]].line>>)
    BY <2>4, RequestTypes
  <2> QED
    BY <1>3, <2>1, <2>2, <2>3, <2>4 DEF Callback
<1>4. CASE UNCHANGED vars
    BY <1>4 DEF vars, program, caches, history, TypeInv, StackTypes, ThreadTypes,
       DebuggerTypes, PlaceInv, Depth
<1> QED
    BY <1>1, <1>2, <1>3, <1>4 DEF Next

LEMMA TypeAlways == Spec => []TypeInv
<1>1. Init => TypeInv
    BY InitTypes
<1>2. TypeInv /\ [Next]_vars => TypeInv'
    BY TypeStep
<1> QED
    BY <1>1, <1>2, PTL DEF Spec

\* The trace functions and the commands store what is of its type, and a thread is
\* suspended at a frame that exists, whatever the interleaving.
THEOREM TypesAreKept == Spec => []TypeOK
BY TypeAlways, TypeInvImpliesTypeOK, PTL

-----------------------------------------------------------------------------
(***************************************************************************)
(* Breakpoints and pauses.  A trace function skips an event on the         *)
(* strength of what it has read and of the caches, so the invariant says   *)
(* what these cover; that a frame that has been left untraced has nothing  *)
(* to stop at; and that a thread which came to a line where it has to stop *)
(* is in a trace function that will see it.                                *)
(***************************************************************************)
Filtered(c) == ApplyFilesFilter(c, FALSE)
HasLine(c) == \E l \in 1 .. LastLine : <<c, l>> \in bps

\* what t has read covers the breakpoints and a pause, unless a command came since
ViewOf(t) ==
    pc[t] = "decide" /\ t \notin dirty =>
        /\ \A l \in Lines0 : <<Top(t).code, l>> \in bps => l \in view[t].lines
        /\ BreakpointsForFile(Top(t).code) => view[t].any
        /\ info[t].state = "suspend" => ~view[t].skip

\* what the caches hold of c is so, unless it was made from an outdated view
CacheOf(c) ==
    /\ c \notin stale =>
           /\ hasBreaks[c] = 0 => ~HasLine(c)
           /\ skips[c] = 2 => ~HasLine(c) /\ (cmd.phase # "added" => <<c, 0>> \notin bps)
           /\ \A l \in Lines0 : <<c, l>> \in bps /\ (l # 0 \/ cmd.phase # "added") =>
                  <<c, l>> \notin skipLines
    /\ skips[c] = 1 => Filtered(c)

\* the trace function has been called for the frame of t at depth d, and has ended
Decided(t, d) == d \in 1 .. Depth(t) /\ (pc[t] = "run" \/ d < Depth(t))
\* the frame of user code is not traced, though not for what a command outdated
Asleep(f) == f.trace \in {"none", "exception"} /\ ~f.blind /\ ~Filtered(f.code)

SleepOf(t) ==
    \A d \in 1 .. Depth(t) :
        Decided(t, d) /\ Asleep(stack[t][d]) /\ ~stack[t][d].left =>
            \A l \in 1 .. LastLine : <<stack[t][d].code, l>> \notin settled
PauseOf(t) ==
    /\ info[t].state = "suspend" => info[t].step # None
    /\ pc[t] # "wait" /\ info[t].state = "suspend" =>
           \A d \in 1 .. Depth(t) : Decided(t, d) => ~Asleep(stack[t][d])

\* nothing that a trace function looks at hides the breakpoint at line l of c
SeenBy(t, c, l) == pc[t] = "decide" /\ Top(t).code = c => l \in view[t].lines /\ view[t].any
Stored(c, l) ==
    <<c, l>> \in bps /\ hasBreaks[c] # 0 /\ skips[c] = 0 /\ <<c, l>> \notin skipLines
NotHidden(c, l) == Stored(c, l) /\ \A u \in Threads : SeenBy(u, c, l)

MarkOf(t) ==
    /\ "breakpoint" \in marks[t] =>
           /\ pc[t] \in {"fetch", "decide"} /\ event[t] = "line"
           /\ Top(t).line # 0 /\ ~Filtered(Top(t).code)
           /\ <<Top(t).code, Top(t).line>> \notin Conditional
           /\ NotHidden(Top(t).code, Top(t).line)
    /\ "pause" \in marks[t] =>
           /\ pc[t] \in {"fetch", "decide"} /\ event[t] = "line"
           /\ ~Filtered(Top(t).code) /\ info[t].state = "suspend"
           /\ pc[t] = "decide" => ~view[t].skip

ViewInv  == \A t \in Threads : ViewOf(t)
CacheInv == \A c \in Codes : CacheOf(c)
SleepInv == \A t \in Threads : SleepOf(t)
PauseInv == \A t \in Threads : PauseOf(t)
MarkInv  == \A t \in Threads : MarkOf(t)
SkipInv  == TypeInv /\ ViewInv /\ CacheInv /\ SleepInv /\ PauseInv /\ MarkInv

LEMMA TracedIs ==
    ASSUME NEW f \in FrameType
    PROVE  /\ Traced_(f).code = f.code /\ Traced_(f).line = f.line /\ Traced_(f).trace = "global"
           /\ ~Asleep(Traced_(f))
BY DEF FrameType, Traced_, Asleep

LEMMA InternalSleeps ==
    ASSUME NEW f, f.code \in Internal
    PROVE  ~Asleep(f)
BY DEF Asleep, Filtered, ApplyFilesFilter

\* A thread that is not the one which takes the step.
AllTraced(u) == \A d \in 1 .. Depth(u) :
    stack'[u][d] = Traced_(stack[u][d]) \/ (stack'[u][d] = stack[u][d] /\ stack[u][d].code \in Internal)
FramesKept(u) == Depth(u)' = Depth(u) /\ \A d \in 1 .. Depth(u) :
    stack'[u][d] = stack[u][d] \/ stack'[u][d] = Traced_(stack[u][d])
Bystander(u) ==
    /\ FramesKept(u)
    /\ pc'[u] = pc[u] /\ event'[u] = event[u] /\ view'[u] = view[u]
    /\ pc[u] = "decide" /\ u \in dirty => u \in dirty'
    /\ \/ info'[u].state = info[u].state /\ info'[u].step = info[u].step
       \/ info'[u].state = "run"
       \/ /\ info'[u].step # None /\ AllTraced(u)
          /\ pc[u] = "decide" => u \in dirty'
    /\ "breakpoint" \in marks'[u] => "breakpoint" \in marks[u]
    /\ "pause" \in marks'[u] => "pause" \in marks[u] /\ 
           (info[u].state = "suspend" => info'[u].state = "suspend")

LEMMA FramesKeptFacts ==
    ASSUME TypeInv, NEW u \in Threads, FramesKept(u)
    PROVE  /\ Depth(u)' = Depth(u)
           /\ \A d \in 1 .. Depth(u) :
                  /\ stack'[u][d].code = stack[u][d].code
                  /\ stack'[u][d].line = stack[u][d].line
                  /\ Asleep(stack'[u][d]) => stack'[u][d] = stack[u][d]
           /\ Depth(u) > 0 => Top(u)'.code = Top(u).code /\ Top(u)'.line = Top(u).line
<1>1. Depth(u)' = Depth(u) /\ Depth(u) \in Nat
    BY ThreadFacts DEF FramesKept
<1>2. ASSUME NEW d \in 1 .. Depth(u)
      PROVE  /\ stack'[u][d].code = stack[u][d].code
             /\ stack'[u][d].line = stack[u][d].line
             /\ Asleep(stack'[u][d]) => stack'[u][d] = stack[u][d]
  <2>1. stack[u][d] \in FrameType
    BY ThreadFacts
  <2>2. stack'[u][d] = stack[u][d] \/ stack'[u][d] = Traced_(stack[u][d])
    BY DEF FramesKept
  <2> QED
    BY <2>1, <2>2, TracedIs
<1>3. Depth(u) > 0 => Top(u)'.code = Top(u).code /\ Top(u)'.line = Top(u).line
    BY <1>1, <1>2 DEF Top
<1> QED
    BY <1>1, <1>2, <1>3

LEMMA BystanderView ==
    ASSUME TypeInv, NEW u \in Threads, Bystander(u), ViewOf(u),
           bps' \subseteq bps \/ (pc[u] = "decide" => u \in dirty')
    PROVE  ViewOf(u)'
<1> SUFFICES ASSUME pc[u] = "decide", u \notin dirty'
             PROVE  /\ \A l \in Lines0 : <<Top(u)'.code, l>> \in bps' => l \in view'[u].lines
                    /\ BreakpointsForFile(Top(u).code)' => view'[u].any
                    /\ info'[u].state = "suspend" => ~view'[u].skip
    BY DEF ViewOf, Bystander
<1>1. Top(u)'.code = Top(u).code /\ view'[u] = view[u] /\ u \notin dirty /\ bps' \subseteq bps
    BY FramesKeptFacts, ThreadFacts DEF Bystander
<1>2. BreakpointsForFile(Top(u).code)' => BreakpointsForFile(Top(u).code)
    BY <1>1 DEF BreakpointsForFile
<1>3. info'[u].state = "suspend" => info[u].state = "suspend"
    BY DEF Bystander
<1> QED
    BY <1>1, <1>2, <1>3 DEF ViewOf

LEMMA BystanderSleep ==
    ASSUME TypeInv, NEW u \in Threads, Bystander(u), SleepOf(u),
           settled' \subseteq settled
    PROVE  SleepOf(u)'
<1> SUFFICES ASSUME NEW d \in 1 .. Depth(u)', Decided(u, d)', Asleep(stack'[u][d]),
                    ~stack'[u][d].left, NEW l \in 1 .. LastLine
             PROVE  <<stack'[u][d].code, l>> \notin settled'
    BY DEF SleepOf, Asleep
<1>1. d \in 1 .. Depth(u) /\ stack'[u][d] = stack[u][d]
    BY FramesKeptFacts DEF Bystander
<1>2. Decided(u, d)
    BY FramesKeptFacts DEF Decided, Bystander
<1> QED
    BY <1>1, <1>2 DEF SleepOf

LEMMA BystanderPause ==
    ASSUME TypeInv, NEW u \in Threads, Bystander(u), PauseOf(u)
    PROVE  PauseOf(u)'
<1>1. CASE info'[u].state = "run"
    BY <1>1 DEF PauseOf
<1>2. CASE info'[u].state = info[u].state /\ info'[u].step = info[u].step
  <2>1. ASSUME pc'[u] # "wait", info'[u].state = "suspend", NEW d \in 1 .. Depth(u)', Decided(u, d)',
               Asleep(stack'[u][d])
        PROVE  FALSE
    <3>1. d \in 1 .. Depth(u) /\ stack'[u][d] = stack[u][d]
      BY <2>1, FramesKeptFacts DEF Bystander
    <3>2. Decided(u, d)
      BY <2>1, FramesKeptFacts DEF Decided, Bystander
    <3> QED
      BY <1>2, <2>1, <3>1, <3>2 DEF PauseOf, Bystander
  <2> QED
    BY <1>2, <2>1 DEF PauseOf, Asleep
<1>3. CASE info'[u].step # None /\ AllTraced(u)
  <2>1. ASSUME NEW d \in 1 .. Depth(u)', Asleep(stack'[u][d])
        PROVE  FALSE
    <3>1. d \in 1 .. Depth(u)
      BY FramesKeptFacts DEF Bystander
    <3>2. stack[u][d] \in FrameType
      BY <3>1, ThreadFacts
    <3> QED
      BY <1>3, <2>1, <3>1, <3>2, TracedIs, InternalSleeps DEF AllTraced
  <2> QED
    BY <1>3, <2>1 DEF PauseOf, Asleep
<1> QED
    BY <1>1, <1>2, <1>3 DEF Bystander

LEMMA BystanderMark ==
    ASSUME TypeInv, NEW u \in Threads, Bystander(u), MarkOf(u),
           "breakpoint" \in marks'[u] /\ "breakpoint" \in marks[u] =>
               NotHidden(Top(u).code, Top(u).line)'
    PROVE  MarkOf(u)'
<1>1. ASSUME "breakpoint" \in marks'[u]
      PROVE  /\ pc'[u] \in {"fetch", "decide"} /\ event'[u] = "line"
             /\ Top(u)'.line # 0 /\ ~Filtered(Top(u)'.code)
             /\ <<Top(u)'.code, Top(u)'.line>> \notin Conditional
             /\ NotHidden(Top(u).code, Top(u).line)'
    BY <1>1, FramesKeptFacts, ThreadFacts DEF Bystander, MarkOf
<1>2. ASSUME "pause" \in marks'[u]
      PROVE  /\ pc'[u] \in {"fetch", "decide"} /\ event'[u] = "line"
             /\ ~Filtered(Top(u)'.code) /\ info'[u].state = "suspend"
             /\ pc'[u] = "decide" => ~view'[u].skip
    BY <1>2, FramesKeptFacts, ThreadFacts DEF Bystander, MarkOf
<1> QED
    BY <1>1, <1>2 DEF MarkOf, Filtered, ApplyFilesFilter

LEMMA BystanderSees ==
    ASSUME TypeInv, NEW u \in Threads, Bystander(u), NEW c, NEW l, SeenBy(u, c, l)
    PROVE  SeenBy(u, c, l)'
BY FramesKeptFacts, ThreadFacts DEF Bystander, SeenBy

-----------------------------------------------------------------------------
(* The caches *)

\* t decides that its event can be skipped, other than by the cache of lines
Skipping(t) == pc[t] = "decide" /\ MaySkip(t) /\ (~view[t].any \/ ~HasBreakpointInFrame(t))

\* what a trace function of t may do to the caches
SkipsStep(t) == \A c \in Codes :
    skips'[c] = skips[c] \/ (skips'[c] = 1 /\ Filtered(c))
CacheStep(t) ==
    LET c == Top(t).code
        l == Top(t).line
    IN  /\ stale \subseteq stale'
        /\ \/ SkipsStep(t) /\ UNCHANGED <<hasBreaks, skipLines>>
           \/ /\ pc[t] = "decide" /\ (t \in dirty => c \in stale')
              /\ skips' = skips \/ (skips' = [skips EXCEPT ![c] = 2] /\ Skipping(t) /\ event[t] = "call")
              /\ hasBreaks' = hasBreaks \/ CacheHasBreakpoint(t)
              /\ \/ skipLines' = skipLines
                 \/ /\ skipLines' = skipLines \cup {<<c, l>>}
                    /\ event[t] = "line" /\ l \notin view[t].lines

\* Without a breakpoint in what it has read, or in the cache, the function has none.
LEMMA NoneInFrame ==
    ASSUME TypeInv, NEW t \in Threads, pc[t] = "decide", t \notin dirty,
           ViewOf(t), CacheOf(Top(t).code), Top(t).code \notin stale,
           ~view[t].any \/ ~HasBreakpointInFrame(t)
    PROVE  ~HasLine(Top(t).code)
<1> DEFINE c == Top(t).code
<1>1. \A l \in Lines0 : <<c, l>> \in bps => l \in view[t].lines
    BY DEF ViewOf
<1>2. CASE ~view[t].any
  <2>1. ~BreakpointsForFile(c)
    BY <1>2 DEF ViewOf
  <2>2. ASSUME NEW l \in 1 .. LastLine, <<c, l>> \in bps PROVE FALSE
    <3>1. <<c, l>>[2] # 0 /\ <<c, l>>[1] = c
      BY TraceDispatchAssumption
    <3> QED
      BY <2>1, <2>2, <3>1 DEF BreakpointsForFile
  <2> QED
    BY <2>2 DEF HasLine
<1>3. CASE ~HasBreakpointInFrame(t)
  <2>1. c \in Codes
    BY ThreadFacts DEF FrameType
  <2>2. hasBreaks[c] \in {-1, 0, 1}
    BY <2>1, OldParts DEF CacheTypes
  <2>3. CASE hasBreaks[c] = 0
    BY <2>3 DEF CacheOf
  <2>4. CASE hasBreaks[c] = -1
    <3>1. view[t].lines \ {0} = {}
      BY <1>3, <2>4 DEF HasBreakpointInFrame
    <3>2. ASSUME NEW l \in 1 .. LastLine, <<c, l>> \in bps PROVE FALSE
      BY <1>1, <3>1, <3>2, TraceDispatchAssumption DEF Lines0
    <3> QED
      BY <3>2 DEF HasLine
  <2>5. hasBreaks[c] # 1
    BY <1>3 DEF HasBreakpointInFrame
  <2> QED
    BY <2>2, <2>3, <2>4, <2>5
<1> QED
    BY <1>2, <1>3

LEMMA CacheStepInv ==
    ASSUME TypeInv, NEW t \in Threads, ViewOf(t), CacheInv, CacheStep(t), UNCHANGED <<bps, cmd>>
    PROVE  CacheInv'
<1> SUFFICES ASSUME NEW c \in Codes PROVE CacheOf(c)'
    BY DEF CacheInv
<1> DEFINE x == Top(t).code
           l0 == Top(t).line
<1>1. CacheOf(c) /\ stale \subseteq stale' /\ HasLine(c)' = HasLine(c)
    BY DEF CacheInv, CacheStep, HasLine
<1>2. /\ skips \in [Codes -> 0 .. 2] /\ hasBreaks \in [Codes -> -1 .. 1]
    BY OldParts DEF CacheTypes
<1>3. CASE SkipsStep(t) /\ UNCHANGED <<hasBreaks, skipLines>>
  <2>1. skips'[c] = skips[c] \/ (skips'[c] = 1 /\ Filtered(c))
    BY <1>3 DEF SkipsStep
  <2> QED
    BY <1>1, <1>3, <2>1 DEF CacheOf, HasLine, Filtered, ApplyFilesFilter
<1>4. CASE /\ pc[t] = "decide" /\ (t \in dirty => x \in stale')
           /\ skips' = skips \/ (skips' = [skips EXCEPT ![x] = 2] /\ Skipping(t) /\ event[t] = "call")
           /\ hasBreaks' = hasBreaks \/ CacheHasBreakpoint(t)
           /\ \/ skipLines' = skipLines
              \/ /\ skipLines' = skipLines \cup {<<x, l0>>}
                 /\ event[t] = "line" /\ l0 \notin view[t].lines
  <2>1. CASE c # x
    <3>1. skips'[c] = skips[c] /\ hasBreaks'[c] = hasBreaks[c]
      BY <1>2, <1>4, <2>1 DEF CacheHasBreakpoint
    <3>2. \A l : <<c, l>> \in skipLines' => <<c, l>> \in skipLines
      BY <1>4, <2>1
    <3> QED
      BY <1>1, <3>1, <3>2 DEF CacheOf, HasLine, Filtered, ApplyFilesFilter
  <2>2. CASE c = x /\ c \in stale'
    <3>1. skips'[c] = skips[c] \/ skips'[c] = 2
      BY <1>2, <1>4
    <3> QED
      BY <1>1, <2>2, <3>1 DEF CacheOf, Filtered, ApplyFilesFilter
  <2>3. CASE c = x /\ c \notin stale'
    <3>1. t \notin dirty /\ c \notin stale /\ pc[t] = "decide"
      BY <1>1, <1>4, <2>3
    <3>2. ~view[t].any \/ ~HasBreakpointInFrame(t) => ~HasLine(c)
      BY <1>1, <2>3, <3>1, NoneInFrame
    <3>3. hasBreaks'[c] = 0 => ~HasLine(c)
      <4>1. CASE hasBreaks' = hasBreaks
        BY <1>1, <3>1, <4>1 DEF CacheOf
      <4>2. CASE CacheHasBreakpoint(t)
        BY <1>2, <2>3, <3>2, <4>2 DEF CacheHasBreakpoint
      <4> QED
        BY <1>4, <4>1, <4>2
    <3>4. skips'[c] = 2 => ~HasLine(c) /\ (cmd.phase # "added" => <<c, 0>> \notin bps)
      <4>1. CASE skips' = skips
        BY <1>1, <3>1, <4>1 DEF CacheOf
      <4>2. CASE Skipping(t) /\ event[t] = "call"
        <5>1. 0 \notin view[t].lines /\ ~HasLine(c)
          BY <3>2, <4>2 DEF Skipping, MaySkip, FunctionBreakpoint
        <5>2. 0 \in Lines0
          BY TraceDispatchAssumption DEF Lines0
        <5> QED
          BY <2>3, <3>1, <5>1, <5>2 DEF ViewOf
      <4> QED
        BY <1>4, <4>1, <4>2
    <3>5. \A l \in Lines0 : <<c, l>> \in bps /\ (l # 0 \/ cmd.phase # "added") =>
              <<c, l>> \notin skipLines'
      BY <1>1, <1>4, <2>3, <3>1 DEF CacheOf, ViewOf
    <3>6. skips'[c] = 1 => Filtered(c)
      BY <1>1, <1>2, <1>4 DEF CacheOf
    <3> QED
      BY <1>1, <3>3, <3>4, <3>5, <3>6 DEF CacheOf, HasLine, Filtered, ApplyFilesFilter
  <2> QED
    BY <2>1, <2>2, <2>3
<1> QED
    BY <1>3, <1>4 DEF CacheStep

\* What all see, no trace function hides.
LEMMA CacheStepStored ==
    ASSUME TypeInv, NEW t \in Threads, CacheStep(t), UNCHANGED bps, NEW c \in Codes,
           NEW l \in 1 .. LastLine, ~Filtered(c), Stored(c, l), SeenBy(t, c, l)
    PROVE  Stored(c, l)'
<1> DEFINE x == Top(t).code
           l0 == Top(t).line
<1>1. <<c, l>> \in bps /\ hasBreaks[c] # 0 /\ skips[c] = 0 /\ <<c, l>> \notin skipLines
    BY DEF Stored
<1>2. /\ skips \in [Codes -> 0 .. 2] /\ hasBreaks \in [Codes -> -1 .. 1]
    BY OldParts DEF CacheTypes
<1>3. CASE SkipsStep(t) /\ UNCHANGED <<hasBreaks, skipLines>>
    BY <1>1, <1>3 DEF SkipsStep, Stored
<1>4. CASE /\ pc[t] = "decide" /\ (t \in dirty => x \in stale')
           /\ skips' = skips \/ (skips' = [skips EXCEPT ![x] = 2] /\ Skipping(t) /\ event[t] = "call")
           /\ hasBreaks' = hasBreaks \/ CacheHasBreakpoint(t)
           /\ \/ skipLines' = skipLines
              \/ /\ skipLines' = skipLines \cup {<<x, l0>>}
                 /\ event[t] = "line" /\ l0 \notin view[t].lines
  <2>1. CASE c # x
    <3>1. skips'[c] = skips[c] /\ hasBreaks'[c] = hasBreaks[c] /\ <<c, l>> \notin skipLines'
      BY <1>1, <1>2, <1>4, <2>1 DEF CacheHasBreakpoint
    <3> QED
      BY <1>1, <3>1 DEF Stored
  <2>2. CASE c = x
    <3>1. l \in view[t].lines /\ view[t].any
      BY <1>4, <2>2 DEF SeenBy
    <3>2. HasBreakpointInFrame(t)
      <4>1. hasBreaks[c] \in {-1, 1} /\ l # 0
        BY <1>1, <1>2, TraceDispatchAssumption
      <4> QED
        BY <2>2, <3>1, <4>1 DEF HasBreakpointInFrame
    <3>3. skips' = skips
      BY <1>4, <3>1, <3>2 DEF Skipping
    <3>4. hasBreaks'[c] # 0
      BY <1>1, <1>2, <1>4, <2>2, <3>2 DEF CacheHasBreakpoint
    <3>5. <<c, l>> \notin skipLines'
      BY <1>1, <1>4, <2>2, <3>1
    <3> QED
      BY <1>1, <3>3, <3>4, <3>5 DEF Stored
  <2> QED
    BY <2>1, <2>2
<1> QED
    BY <1>3, <1>4 DEF CacheStep

-----------------------------------------------------------------------------
(* The steps of a thread *)

Others(t) == \A u \in Threads : u # t => Bystander(u)
\* if t is at a decision, it has just read the breakpoints
Fresh(t) == \A c \in Codes, l \in 1 .. LastLine : <<c, l>> \in bps => SeenBy(t, c, l)'

LEMMA Alone ==
    ASSUME TypeInv, NEW t \in Threads, OthersKept(t),
           \A u \in Threads : u # t =>
               /\ pc'[u] = pc[u] /\ event'[u] = event[u] /\ view'[u] = view[u]
               /\ info'[u] = info[u] /\ marks'[u] = marks[u]
               /\ u \in dirty => u \in dirty'
    PROVE  Others(t)
BY DEF Others, Bystander, FramesKept, OthersKept

LEMMA TopLine ==
    ASSUME TypeInv, NEW u \in Threads, pc[u] # "run"
    PROVE  /\ Top(u).code \in Codes
           /\ Top(u).line # 0 => Top(u).line \in 1 .. LastLine
BY ThreadFacts, TraceDispatchAssumption DEF FrameType, Lines0

LEMMA HiddenStep ==
    ASSUME SkipInv, NEW t \in Threads, Others(t), CacheStep(t), UNCHANGED bps, Fresh(t),
           NEW c \in Codes, NEW l \in 1 .. LastLine, ~Filtered(c), NotHidden(c, l)
    PROVE  NotHidden(c, l)'
<1>1. TypeInv /\ Stored(c, l) /\ (\A u \in Threads : SeenBy(u, c, l)) /\ <<c, l>> \in bps
    BY DEF SkipInv, NotHidden, Stored
<1>2. Stored(c, l)'
    BY <1>1, CacheStepStored
<1>3. \A u \in Threads : u # t => SeenBy(u, c, l)'
    BY <1>1, BystanderSees DEF Others
<1>4. SeenBy(t, c, l)'
    BY <1>1 DEF Fresh
<1> QED
    BY <1>2, <1>3, <1>4 DEF NotHidden

\* A step of t that keeps the invariant for t keeps it for all.
LEMMA ThreadStep ==
    ASSUME SkipInv, TypeInv', NEW t \in Threads, Others(t), CacheStep(t),
           UNCHANGED <<bps, cmd, settled>>, Fresh(t),
           ViewOf(t)', SleepOf(t)', PauseOf(t)', MarkOf(t)'
    PROVE  SkipInv'
<1>1. TypeInv /\ ViewInv /\ CacheInv /\ SleepInv /\ PauseInv /\ MarkInv
    BY DEF SkipInv
<1>2. CacheInv'
    BY <1>1, CacheStepInv DEF ViewInv
<1>3. ASSUME NEW u \in Threads, u # t
      PROVE  ViewOf(u)' /\ SleepOf(u)' /\ PauseOf(u)' /\ MarkOf(u)'
  <2>1. Bystander(u) /\ ViewOf(u) /\ SleepOf(u) /\ PauseOf(u) /\ MarkOf(u)
    BY <1>1, <1>3 DEF Others, ViewInv, SleepInv, PauseInv, MarkInv
  <2>2. ViewOf(u)' /\ SleepOf(u)' /\ PauseOf(u)'
    BY <1>1, <2>1, BystanderView, BystanderSleep, BystanderPause
  <2>3. ASSUME "breakpoint" \in marks[u]
        PROVE  NotHidden(Top(u).code, Top(u).line)'
    <3>1. /\ ~Filtered(Top(u).code) /\ NotHidden(Top(u).code, Top(u).line)
          /\ Top(u).code \in Codes /\ Top(u).line \in 1 .. LastLine /\ Depth(u) > 0
      BY <1>1, <2>1, <2>3, TopLine, ThreadFacts DEF MarkOf
    <3>2. Top(u)'.code = Top(u).code /\ Top(u)'.line = Top(u).line
      BY <1>1, <2>1, <3>1, FramesKeptFacts DEF Bystander
    <3>3. \A c \in Codes, l \in 1 .. LastLine : ~Filtered(c) /\ NotHidden(c, l) => NotHidden(c, l)'
      BY HiddenStep
    <3>4. \A c \in Codes, l \in 1 .. LastLine : ~Filtered(c) /\ NotHidden(c, l) =>
              /\ <<c, l>> \in bps' /\ hasBreaks'[c] # 0 /\ skips'[c] = 0 /\ <<c, l>> \notin skipLines'
              /\ \A v \in Threads : pc'[v] = "decide" /\ Top(v)'.code = c =>
                     l \in view'[v].lines /\ view'[v].any
      BY <3>3 DEF NotHidden, Stored, SeenBy
    <3> DEFINE c == Top(u).code
               l == Top(u).line
    <3>5. /\ <<c, l>> \in bps' /\ hasBreaks'[c] # 0 /\ skips'[c] = 0 /\ <<c, l>> \notin skipLines'
          /\ \A v \in Threads : pc'[v] = "decide" /\ Top(v)'.code = c =>
                     l \in view'[v].lines /\ view'[v].any
      BY <3>1, <3>4
    <3> QED
      BY <3>2, <3>5 DEF NotHidden, Stored, SeenBy
  <2> QED
    BY <1>1, <2>1, <2>2, <2>3, BystanderMark
<1> QED
    BY <1>1, <1>2, <1>3 DEF SkipInv, ViewInv, SleepInv, PauseInv, MarkInv

\* what a step does to t, if it is not at a decision and at no line afterwards
LEMMA NotDeciding ==
    ASSUME NEW t \in Threads, pc'[t] # "decide"
    PROVE  ViewOf(t)' /\ Fresh(t)
BY DEF ViewOf, Fresh, SeenBy

LEMMA NoMarks ==
    ASSUME NEW t \in Threads, "breakpoint" \notin marks'[t], "pause" \notin marks'[t]
    PROVE  MarkOf(t)'
BY DEF MarkOf

\* The frames of t that were decided on are left as they were, but for the top.
LEMMA CallersDecided ==
    ASSUME SkipInv, NEW t \in Threads, NEW n \in Nat, n <= Depth(t), CallersKept(t, n),
           pc[t] = "run" \/ n < Depth(t), settled' = settled, pc[t] # "wait"
    PROVE  \A d \in 1 .. n :
               /\ Asleep(stack'[t][d]) /\ ~stack'[t][d].left =>
                      \A l \in 1 .. LastLine : <<stack'[t][d].code, l>> \notin settled'
               /\ info[t].state = "suspend" => ~Asleep(stack'[t][d])
<1> SUFFICES ASSUME NEW d \in 1 .. n
             PROVE  /\ Asleep(stack'[t][d]) /\ ~stack'[t][d].left =>
                           \A l \in 1 .. LastLine : <<stack'[t][d].code, l>> \notin settled'
                    /\ info[t].state = "suspend" => ~Asleep(stack'[t][d])
    OBVIOUS
<1>1. TypeInv /\ SleepOf(t) /\ PauseOf(t)
    BY DEF SkipInv, SleepInv, PauseInv
<1>2. Depth(t) \in Nat
    BY <1>1, ThreadFacts
<1>3. Decided(t, d) /\ d \in 1 .. Depth(t) /\ stack'[t][d] = stack[t][d]
    BY <1>2 DEF Decided, CallersKept
<1> QED
    BY <1>1, <1>3 DEF SleepOf, PauseOf

\* Nothing is cached.
LEMMA NoCacheStep ==
    ASSUME NEW t \in Threads, UNCHANGED <<skips, hasBreaks, skipLines, stale>>
    PROVE  CacheStep(t)
BY DEF CacheStep, SkipsStep

LEMMA CallKeeps ==
    ASSUME SkipInv, NEW t \in Threads, NEW c \in Codes, Call(t, c)
    PROVE  SkipInv'
<1>1. TypeInv /\ PauseOf(t)
    BY DEF SkipInv, PauseInv
<1>2. /\ OthersKept(t) /\ CallersKept(t, Depth(t))
      /\ Depth(t)' = Depth(t) + 1 /\ Depth(t) \in Nat
    BY <1>1, CallFacts, ThreadFacts
<1>3. /\ Fire(t, "call") /\ pc[t] = "run"
      /\ UNCHANGED <<view, at, info, bps, skips, hasBreaks, skipLines, cmd, settled, dirty, stale, promise>>
      /\ marks' = [marks EXCEPT ![t] = IF <<c, 0>> \in bps \/ <<c, 0>> = cmd.loc
                                       THEN {"armed"} ELSE {}]
    BY DEF Call, caches
<1>4. /\ pc'[t] = "fetch" /\ \A u \in Threads : u # t => pc'[u] = pc[u] /\ event'[u] = event[u]
      /\ "breakpoint" \notin marks'[t] /\ "pause" \notin marks'[t]
      /\ \A u \in Threads : u # t => marks'[u] = marks[u]
    BY <1>1, <1>3, FiredFacts, OldParts DEF MapTypes
<1>5. Others(t)
    BY <1>1, <1>2, <1>3, <1>4, Alone
<1>6. \A d \in 1 .. Depth(t) :
          /\ Asleep(stack'[t][d]) /\ ~stack'[t][d].left =>
                 \A l \in 1 .. LastLine : <<stack'[t][d].code, l>> \notin settled'
          /\ info[t].state = "suspend" => ~Asleep(stack'[t][d])
    BY <1>2, <1>3, CallersDecided
<1>7. \A d : Decided(t, d)' => d \in 1 .. Depth(t)
    BY <1>2, <1>4 DEF Decided
<1>8. SleepOf(t)' /\ PauseOf(t)'
    BY <1>1, <1>3, <1>6, <1>7 DEF SleepOf, PauseOf, Asleep
<1> QED
    BY <1>1, <1>3, <1>4, <1>5, <1>8, NotDeciding, NoMarks, NoCacheStep, CallTypes, ThreadStep

LEMMA RaiseKeeps ==
    ASSUME SkipInv, NEW t \in Threads, Raise(t)
    PROVE  SkipInv'
<1>1. TypeInv /\ PauseOf(t) /\ Depth(t) \in Nat
    BY ThreadFacts DEF SkipInv, PauseInv
<1>2. /\ Fire(t, "exception") /\ pc[t] = "run"
      /\ UNCHANGED <<stack, view, at, info, bps, skips, hasBreaks, skipLines, cmd, settled, dirty, stale, promise>>
      /\ marks' = [marks EXCEPT ![t] = {}]
    BY DEF Raise, caches
<1>3. OthersKept(t) /\ CallersKept(t, Depth(t)) /\ Depth(t)' = Depth(t)
    BY <1>2 DEF OthersKept, CallersKept, Depth
<1>4. /\ pc'[t] = "fetch" /\ \A u \in Threads : u # t => pc'[u] = pc[u] /\ event'[u] = event[u]
      /\ marks'[t] = {} /\ \A u \in Threads : u # t => marks'[u] = marks[u]
    BY <1>1, <1>2, FiredFacts, OldParts DEF MapTypes
<1>5. Others(t)
    BY <1>1, <1>2, <1>3, <1>4, Alone
<1>6. \A d \in 1 .. Depth(t) :
          /\ Asleep(stack'[t][d]) /\ ~stack'[t][d].left =>
                 \A l \in 1 .. LastLine : <<stack'[t][d].code, l>> \notin settled'
          /\ info[t].state = "suspend" => ~Asleep(stack'[t][d])
    BY <1>1, <1>2, <1>3, CallersDecided
<1>7. \A d : Decided(t, d)' => d \in 1 .. Depth(t)
    BY <1>3 DEF Decided
<1>8. SleepOf(t)' /\ PauseOf(t)'
    BY <1>1, <1>2, <1>6, <1>7 DEF SleepOf, PauseOf, Asleep
<1> QED
    BY <1>1, <1>2, <1>4, <1>5, <1>8, NotDeciding, NoMarks, NoCacheStep, RaiseTypes, ThreadStep

LEMMA LeaveKeeps ==
    ASSUME SkipInv, NEW t \in Threads, Leave(t)
    PROVE  SkipInv'
<1>1. TypeInv /\ PauseOf(t) /\ Depth(t) \in Nat /\ info[t] \in Infos
    BY ThreadFacts DEF SkipInv, PauseInv
<1>2. /\ pc[t] = "run" /\ Depth(t) > 0
      /\ UNCHANGED <<view, at, bps, skips, hasBreaks, skipLines, cmd, settled, dirty, stale, promise>>
      /\ marks' = [marks EXCEPT ![t] = {}]
    BY DEF Leave, caches
<1>3. marks'[t] = {} /\ \A u \in Threads : u # t => marks'[u] = marks[u]
    BY <1>1, <1>2, OldParts DEF MapTypes
<1>4. /\ OthersKept(t) /\ CallersKept(t, Depth(t) - 1)
      /\ \/ LeftSilently(t) /\ Depth(t)' = Depth(t) - 1
         \/ Fire(t, "return") /\ UNCHANGED <<stack, info>>
    BY <1>1, LeaveFacts
<1>5. \A d \in 1 .. Depth(t) - 1 :
          /\ Asleep(stack'[t][d]) /\ ~stack'[t][d].left =>
                 \A l \in 1 .. LastLine : <<stack'[t][d].code, l>> \notin settled'
          /\ info[t].state = "suspend" => ~Asleep(stack'[t][d])
    BY <1>1, <1>2, <1>4, CallersDecided
<1>6. /\ pc'[t] # "decide"
      /\ \A u \in Threads : u # t => pc'[u] = pc[u] /\ event'[u] = event[u] /\ info'[u] = info[u]
      /\ info'[t].state = info[t].state /\ info'[t].step = info[t].step
      /\ \A d : Decided(t, d)' => d \in 1 .. Depth(t) - 1
  <2>1. CASE LeftSilently(t) /\ Depth(t)' = Depth(t) - 1
    <3>1. pc' = pc /\ event' = event /\ info' = [info EXCEPT ![t] = ForgetFrame(@, Depth(t))]
      BY <2>1 DEF LeftSilently, Pop
    <3>2. /\ ForgetFrame(info[t], Depth(t)).state = info[t].state
          /\ ForgetFrame(info[t], Depth(t)).step = info[t].step
      BY <1>1 DEF ForgetFrame, Infos, InfoType
    <3>3. info'[t] = ForgetFrame(info[t], Depth(t)) /\ \A u \in Threads : u # t => info'[u] = info[u]
      BY <1>1, <3>1, OldParts
    <3> QED
      BY <1>2, <2>1, <3>1, <3>2, <3>3 DEF Decided
  <2>2. CASE Fire(t, "return") /\ UNCHANGED <<stack, info>>
    <3>1. pc'[t] = "fetch" /\ \A u \in Threads : u # t => pc'[u] = pc[u] /\ event'[u] = event[u]
      BY <1>1, <2>2, FiredFacts
    <3>2. Depth(t)' = Depth(t)
      BY <2>2 DEF Depth
    <3> QED
      BY <1>1, <2>2, <3>1, <3>2 DEF Decided
  <2> QED
    BY <1>4, <2>1, <2>2
<1>7. Others(t)
    BY <1>1, <1>2, <1>3, <1>4, <1>6, Alone
<1>8. SleepOf(t)' /\ PauseOf(t)'
    BY <1>1, <1>2, <1>5, <1>6 DEF SleepOf, PauseOf, Asleep
<1> QED
    BY <1>1, <1>2, <1>3, <1>6, <1>7, <1>8, NotDeciding, NoMarks, NoCacheStep, LeaveTypes, ThreadStep

\* A thread that comes to a line with a breakpoint, or is to pause there, is in
\* its trace function: the frame has not been left untraced.
LEMMA AdvanceMarks ==
    ASSUME SkipInv, NEW t \in Threads, NEW l \in 1 .. LastLine, Advance(t, l)
    PROVE  /\ "breakpoint" \in marks'[t] =>
                  /\ Traced(t) /\ ~Filtered(Top(t).code) /\ <<Top(t).code, l>> \notin Conditional
                  /\ NotHidden(Top(t).code, l)
           /\ "pause" \in marks'[t] =>
                  Traced(t) /\ ~Filtered(Top(t).code) /\ info[t].state = "suspend"
<1> DEFINE f == Top(t)
           c == Top(t).code
           d == Depth(t)
           suspect == c \in stale \/ \E u \in dirty : Top(u).code = c
<1>1. /\ TypeInv /\ CacheInv /\ SleepOf(t) /\ PauseOf(t) /\ ViewInv
      /\ d \in Nat /\ d > 0 /\ pc[t] = "run" /\ f \in FrameType
    BY ThreadFacts DEF SkipInv, SleepInv, PauseInv, Advance
<1>2. marks'[t] = Marks(t, f, l, d)
    BY <1>1, OldParts DEF Advance, MapTypes
<1>3. /\ "breakpoint" \in Marks(t, f, l, d) => BrokenAt(f, <<c, l>>) /\ ~f.blind /\ ~suspect /\ ~f.left
      /\ "pause" \in Marks(t, f, l, d) => PausedAt(t, f) /\ ~f.blind
    BY DEF Marks
<1>4. Decided(t, d) /\ stack[t][d] = f /\ d \in 1 .. Depth(t)
    BY <1>1 DEF Decided, Top
<1>5. f.trace \in {"none", "exception"} \/ Traced(t)
    BY <1>1 DEF FrameType, Traced
<1>6. ASSUME "breakpoint" \in marks'[t]
      PROVE  /\ Traced(t) /\ ~Filtered(c) /\ <<c, l>> \notin Conditional
             /\ NotHidden(c, l)
  <2>1. /\ <<c, l>> \in settled /\ <<c, l>> \notin Conditional /\ ~Filtered(c)
        /\ ~f.blind /\ ~f.left /\ c \notin stale /\ \A u \in dirty : Top(u).code # c
    BY <1>2, <1>3, <1>6 DEF BrokenAt, Filtered
  <2>2. Traced(t)
    BY <1>1, <1>4, <1>5, <2>1 DEF SleepOf, Asleep
  <2>3. c \in Codes /\ <<c, l>> \in bps /\ l # 0 /\ l \in Lines0
    BY <1>1, <2>1, OldParts, TraceDispatchAssumption DEF FrameType, Lines0
  <2>4. CacheOf(c) /\ HasLine(c)
    BY <1>1, <2>3 DEF CacheInv, HasLine
  <2>5. hasBreaks[c] # 0 /\ skips[c] = 0 /\ <<c, l>> \notin skipLines
    <3>1. skips[c] \in 0 .. 2
      BY <1>1, <2>3, OldParts DEF CacheTypes
    <3> QED
      BY <2>1, <2>3, <2>4, <3>1 DEF CacheOf
  <2>6. BreakpointsForFile(c)
    BY <2>3 DEF BreakpointsForFile
  <2>7. ASSUME NEW u \in Threads PROVE SeenBy(u, c, l)
    <3>1. ViewOf(u)
      BY <1>1 DEF ViewInv
    <3> QED
      BY <2>1, <2>3, <2>6, <3>1 DEF SeenBy, ViewOf
  <2> QED
    BY <2>1, <2>2, <2>3, <2>5, <2>7 DEF NotHidden, Stored
<1>7. ASSUME "pause" \in marks'[t]
      PROVE  Traced(t) /\ ~Filtered(c) /\ info[t].state = "suspend"
  <2>1. info[t].state = "suspend" /\ ~Filtered(c) /\ ~f.blind
    BY <1>2, <1>3, <1>7 DEF PausedAt, Filtered
  <2> QED
    BY <1>1, <1>4, <1>5, <2>1 DEF PauseOf, Asleep
<1> QED
    BY <1>6, <1>7

LEMMA AdvanceKeeps ==
    ASSUME SkipInv, NEW t \in Threads, NEW l \in 1 .. LastLine, Advance(t, l)
    PROVE  SkipInv'
<1> DEFINE c == Top(t).code
           d == Depth(t)
<1>1. TypeInv /\ SleepOf(t) /\ PauseOf(t) /\ d \in Nat
    BY ThreadFacts DEF SkipInv, SleepInv, PauseInv
<1>2. /\ OthersKept(t) /\ CallersKept(t, d - 1)
      /\ Depth(t)' = d /\ d > 0 /\ Top(t)' = [Top(t) EXCEPT !.line = l] /\ Top(t) \in FrameType
    BY <1>1, AdvanceFacts, ThreadFacts
<1>3. /\ pc[t] = "run"
      /\ IF Traced(t) THEN Fire(t, "line") ELSE UNCHANGED <<pc, event>>
      /\ UNCHANGED <<view, at, info, bps, skips, hasBreaks, skipLines, cmd, settled, dirty, stale, promise>>
      /\ marks' = [marks EXCEPT ![t] = Marks(t, Top(t), l, d)]
    BY DEF Advance, caches
<1>4. /\ Traced(t) => pc'[t] = "fetch" /\ event'[t] = "line"
      /\ ~Traced(t) => pc'[t] = "run"
      /\ \A u \in Threads : u # t => pc'[u] = pc[u] /\ event'[u] = event[u] /\ marks'[u] = marks[u]
    BY <1>1, <1>3, FiredFacts, OldParts DEF MapTypes
<1>5. Others(t)
    BY <1>1, <1>2, <1>3, <1>4, Alone
<1>6. /\ "breakpoint" \in marks'[t] =>
             /\ Traced(t) /\ ~Filtered(c) /\ <<c, l>> \notin Conditional
             /\ NotHidden(c, l)
      /\ "pause" \in marks'[t] => Traced(t) /\ ~Filtered(c) /\ info[t].state = "suspend"
    BY AdvanceMarks
<1>7. Top(t)'.code = c /\ Top(t)'.line = l /\ l # 0 /\ c \in Codes
    BY <1>2, TraceDispatchAssumption DEF FrameType
<1>8. CacheStep(t) /\ pc'[t] # "decide" /\ ViewOf(t)' /\ Fresh(t)
    BY <1>3, <1>4, NoCacheStep, NotDeciding
<1>9. MarkOf(t)'
  <2>1. ASSUME "breakpoint" \in marks'[t]
        PROVE  NotHidden(Top(t).code, Top(t).line)'
    <3>1. \A cc \in Codes, ll \in 1 .. LastLine : ~Filtered(cc) /\ NotHidden(cc, ll) => NotHidden(cc, ll)'
      BY <1>3, <1>5, <1>8, HiddenStep
    <3>2. \A cc \in Codes, ll \in 1 .. LastLine : ~Filtered(cc) /\ NotHidden(cc, ll) =>
              /\ <<cc, ll>> \in bps' /\ hasBreaks'[cc] # 0 /\ skips'[cc] = 0 /\ <<cc, ll>> \notin skipLines'
              /\ \A v \in Threads : pc'[v] = "decide" /\ Top(v)'.code = cc =>
                     ll \in view'[v].lines /\ view'[v].any
      BY <3>1 DEF NotHidden, Stored, SeenBy
    <3>3. /\ <<c, l>> \in bps' /\ hasBreaks'[c] # 0 /\ skips'[c] = 0 /\ <<c, l>> \notin skipLines'
          /\ \A v \in Threads : pc'[v] = "decide" /\ Top(v)'.code = c =>
                 l \in view'[v].lines /\ view'[v].any
      BY <1>6, <1>7, <2>1, <3>2
    <3> QED
      BY <1>7, <3>3 DEF NotHidden, Stored, SeenBy
  <2> QED
    BY <1>3, <1>4, <1>6, <1>7, <2>1 DEF MarkOf, Filtered, ApplyFilesFilter
<1>10. /\ \A e \in 1 .. d - 1 : stack'[t][e] = stack[t][e]
       /\ stack'[t][d] = [stack[t][d] EXCEPT !.line = l] /\ stack[t][d] \in FrameType
    BY <1>1, <1>2 DEF CallersKept, Top
<1>11. \A e \in 1 .. d : /\ stack'[t][e].code = stack[t][e].code
                         /\ Asleep(stack'[t][e]) => Asleep(stack[t][e])
                         /\ stack'[t][e].left = stack[t][e].left
  <2>1. \A e \in 1 .. d : e \in 1 .. d - 1 \/ e = d
    BY <1>1
  <2> QED
    BY <1>10, <2>1 DEF FrameType, Asleep
<1>12. \A e : Decided(t, e)' => Decided(t, e) /\ e \in 1 .. d
    BY <1>2, <1>3 DEF Decided
<1>13. SleepOf(t)' /\ PauseOf(t)'
  <2>1. ASSUME NEW e \in 1 .. Depth(t)', Decided(t, e)', Asleep(stack'[t][e]), ~stack'[t][e].left,
               NEW k \in 1 .. LastLine
        PROVE  <<stack'[t][e].code, k>> \notin settled'
    BY <1>1, <1>3, <1>11, <1>12, <2>1 DEF SleepOf
  <2>2. ASSUME info'[t].state = "suspend", NEW e \in 1 .. Depth(t)', Decided(t, e)', Asleep(stack'[t][e])
        PROVE  FALSE
    BY <1>1, <1>3, <1>11, <1>12, <2>2 DEF PauseOf
  <2>3. SleepOf(t)'
    BY <2>1 DEF SleepOf, Asleep
  <2>4. PauseOf(t)'
    BY <1>1, <1>3, <2>2 DEF PauseOf, Asleep
  <2> QED
    BY <2>3, <2>4
<1> QED
    BY <1>1, <1>3, <1>5, <1>8, <1>9, <1>13, AdvanceTypes, ThreadStep

-----------------------------------------------------------------------------
(* The ends of a trace function *)

LEMMA ForgetKeeps ==
    ASSUME NEW i \in Infos, NEW d
    PROVE  ForgetFrame(i, d).state = i.state /\ ForgetFrame(i, d).step = i.step
BY DEF ForgetFrame, Infos, InfoType

\* Of a frame that is left untraced it is enough that it has no breakpoint and that
\* the thread is not to pause, unless a command came since.
LEMMA GoesOnKeeps ==
    ASSUME SkipInv, TypeInv', NEW t \in Threads, pc[t] \in {"fetch", "decide"},
           NEW trace \in TraceKinds, NEW left \in BOOLEAN, FrameGoesOn(t, trace, left),
           info' = [info EXCEPT ![t] = Forget(t, @)],
           UNCHANGED <<bps, cmd, settled, marks>>, CacheStep(t),
           "breakpoint" \notin marks[t], "pause" \notin marks[t],
           trace \in {"none", "exception"} /\ t \notin dirty /\ Top(t).code \notin stale
               /\ ~Filtered(Top(t).code) =>
                   /\ left \/ ~HasLine(Top(t).code)
                   /\ info[t].state # "suspend"
    PROVE  SkipInv'
<1> DEFINE d == Depth(t)
           f == FrameIs(t, trace, left)
<1>1. /\ TypeInv /\ PauseOf(t) /\ d \in Nat /\ d > 0 /\ info[t] \in Infos /\ Top(t) \in FrameType
      /\ settled \subseteq bps
    BY ThreadFacts, OldParts DEF SkipInv, PauseInv
<1>2. /\ EndCallback(t) /\ OthersKept(t) /\ CallersKept(t, d - 1)
      /\ event[t] = "return" => Depth(t)' = d - 1
      /\ event[t] # "return" => Depth(t)' = d /\ Top(t)' = f
    BY <1>1, FrameGoesOnFacts
<1>3. pc'[t] = "run" /\ OthersRest(t) /\ dirty' = dirty \ {t}
    BY <1>1, <1>2, EndCallbackFacts
<1>4. /\ info'[t].state = info[t].state /\ info'[t].step = info[t].step
      /\ \A u \in Threads : u # t => info'[u] = info[u]
  <2>1. info'[t] = Forget(t, info[t]) /\ \A u \in Threads : u # t => info'[u] = info[u]
    BY <1>1, OldParts
  <2> QED
    BY <1>1, <2>1, ForgetKeeps DEF Forget
<1>5. Others(t)
    BY <1>1, <1>2, <1>3, <1>4, Alone DEF OthersRest
<1>6. \A e \in 1 .. d - 1 :
          /\ Asleep(stack'[t][e]) /\ ~stack'[t][e].left =>
                 \A l \in 1 .. LastLine : <<stack'[t][e].code, l>> \notin settled'
          /\ info[t].state = "suspend" => ~Asleep(stack'[t][e])
    BY <1>1, <1>2, CallersDecided
<1>7. f.code = Top(t).code /\ f.left = left /\ f.trace = trace
      /\ (~f.blind /\ trace \in {"none", "exception"} => t \notin dirty /\ Top(t).code \notin stale)
    BY <1>1 DEF FrameIs, FrameType
<1>8. ASSUME event[t] # "return"
      PROVE  /\ Asleep(f) /\ ~f.left => \A l \in 1 .. LastLine : <<f.code, l>> \notin settled
             /\ info[t].state = "suspend" => ~Asleep(f)
    BY <1>1, <1>7 DEF Asleep, HasLine
<1>9. ASSUME NEW e \in 1 .. Depth(t)'
      PROVE  /\ Asleep(stack'[t][e]) /\ ~stack'[t][e].left =>
                    \A l \in 1 .. LastLine : <<stack'[t][e].code, l>> \notin settled'
             /\ info[t].state = "suspend" => ~Asleep(stack'[t][e])
  <2>1. CASE e \in 1 .. d - 1
    BY <1>6, <2>1
  <2>2. CASE e \notin 1 .. d - 1
    <3>1. event[t] # "return" /\ e = d /\ Depth(t)' = d
      BY <1>1, <1>2, <2>2
    <3>2. stack'[t][e] = f
      BY <1>2, <3>1 DEF Top
    <3> HIDE DEF f
    <3> QED
      BY <1>8, <3>1, <3>2
  <2> QED
    BY <2>1, <2>2
<1>10. SleepOf(t)' /\ PauseOf(t)'
  <2>1. SleepOf(t)'
    BY <1>9 DEF SleepOf, Asleep
  <2>2. PauseOf(t)'
    BY <1>1, <1>4, <1>9 DEF PauseOf, Asleep
  <2> QED
    BY <2>1, <2>2
<1>11. MarkOf(t)'
    BY NoMarks
<1> QED
    BY <1>1, <1>3, <1>5, <1>10, <1>11, NotDeciding, ThreadStep

\* What the filters exclude is what is remembered of them.
LEMMA FilteredNowFacts ==
    ASSUME NEW t \in Threads
    PROVE  \A c \in FilteredNow(t) : Filtered(c)
BY DEF FilteredNow, BackFiltered, Filtered, ApplyFilesFilter

\* ThreadTracer leaves alone what is filtered out and, if there is no step, what
\* the cache says has no breakpoint.
LEMMA TracerSkipsWhy ==
    ASSUME SkipInv, NEW t \in Threads, pc[t] = "fetch", TracerSkips(t)
    PROVE  \/ Filtered(Top(t).code)
           \/ /\ info[t].step = None /\ skips[Top(t).code] = 2
<1> DEFINE c == Top(t).code
<1>1. TypeInv /\ c \in Codes
    BY TopLine DEF SkipInv
<1>2. CacheOf(c) /\ skips[c] \in 0 .. 2
    BY <1>1, OldParts DEF SkipInv, CacheInv, CacheTypes
<1>3. CASE SkippedByFilter(t)
    BY <1>3 DEF SkippedByFilter, Filtered, ApplyFilesFilter
<1>4. CASE SkippedByCache(t)
  <2>1. skips[c] = 1 \/ (info[t].step = None /\ skips[c] # 0)
    BY <1>4 DEF SkippedByCache
  <2> QED
    BY <1>2, <2>1 DEF CacheOf
<1> QED
    BY <1>3, <1>4 DEF TracerSkips

LEMMA TracerSkipsKeeps ==
    ASSUME SkipInv, NEW t \in Threads, pc[t] = "fetch", TracerSkips(t)
    PROVE  SkipInv'
<1> DEFINE c == Top(t).code
           kind == Untraced(t)
<1>1. TypeInv /\ MarkOf(t) /\ PauseOf(t) /\ c \in Codes /\ CacheOf(c)
    BY TopLine DEF SkipInv, MarkInv, PauseInv, CacheInv
<1>2. /\ FrameGoesOn(t, kind, FALSE)
      /\ info' = [info EXCEPT ![t] = Forget(t, @)]
      /\ UNCHANGED <<bps, hasBreaks, skipLines, cmd, settled, stale, promise, marks>>
      /\ skips' = [x \in Codes |->
             IF ~SkippedByCache(t) /\ x \in FilteredNow(t) THEN 1 ELSE skips[x]]
    BY DEF TracerSkips, BackToProgram
<1>3. Filtered(c) \/ (info[t].step = None /\ skips[c] = 2)
    BY TracerSkipsWhy
<1>4. CacheStep(t)
    BY <1>2, FilteredNowFacts DEF CacheStep, SkipsStep
<1>5. "breakpoint" \notin marks[t] /\ "pause" \notin marks[t]
    BY <1>1, <1>3 DEF MarkOf, NotHidden, Stored, PauseOf
<1>6. c \notin stale /\ ~Filtered(c) => ~HasLine(c) /\ info[t].state # "suspend"
    BY <1>1, <1>3 DEF CacheOf, PauseOf
<1>7. kind \in TraceKinds
    BY <1>1, UntracedKind
<1> HIDE DEF kind
<1> QED
    BY <1>1, <1>2, <1>4, <1>5, <1>6, <1>7, TracerSkipsTypes, GoesOnKeeps

LEMMA TracerDispatchesKeeps ==
    ASSUME SkipInv, NEW t \in Threads, pc[t] = "fetch", TracerDispatches(t)
    PROVE  SkipInv'
<1> DEFINE c == Top(t).code
           v == [lines |-> BreakpointLines(c), any |-> BreakpointsForFile(c),
                 skip |-> CanSkip(t), step |-> info[t].step, stop |-> info[t].stop]
<1>1. /\ TypeInv /\ MarkOf(t) /\ PauseOf(t) /\ SleepOf(t) /\ c \in Codes /\ info[t] \in Infos
      /\ bps \subseteq BreakLocations
    BY TopLine, ThreadFacts, OldParts DEF SkipInv, MarkInv, PauseInv, SleepInv
<1>2. /\ pc' = [pc EXCEPT ![t] = "decide"]
      /\ view' = [view EXCEPT ![t] = v]
      /\ info' = [info EXCEPT ![t] = StepBecomesInto(t)]
      /\ skips' = [x \in Codes |->
             IF InThreadTracer(t) /\ x \in FilteredNow(t) THEN 1 ELSE skips[x]]
      /\ UNCHANGED <<stack, event, at, bps, hasBreaks, skipLines, cmd, settled, dirty, stale,
                     promise, marks>>
    BY DEF TracerDispatches, history
<1>3. /\ pc'[t] = "decide" /\ view'[t] = v /\ info'[t] = StepBecomesInto(t)
      /\ \A u \in Threads : u # t => pc'[u] = pc[u] /\ view'[u] = view[u] /\ info'[u] = info[u]
    BY <1>1, <1>2, OldParts
<1>4. OthersKept(t) /\ Depth(t)' = Depth(t) /\ Top(t)' = Top(t)
    BY <1>2 DEF OthersKept, Depth, Top
<1>5. Others(t)
    BY <1>1, <1>2, <1>3, <1>4, Alone
<1>6. CacheStep(t)
    BY <1>2, FilteredNowFacts DEF CacheStep, SkipsStep
<1>7. \A l : <<c, l>> \in bps => l \in v.lines
    BY DEF BreakpointLines
<1>8. \A l \in 1 .. LastLine : <<c, l>> \in bps => v.any
    BY TraceDispatchAssumption DEF BreakpointsForFile
<1>9. v.skip => info[t].state = "run"
    BY DEF CanSkip
<1>10. /\ info'[t].state = info[t].state
       /\ info[t].step # None => info'[t].step # None
  <2>1. /\ StepBecomesInto(t).state = info[t].state
        /\ StepBecomesInto(t).step \in {info[t].step, "into", "into_my"}
    BY <1>1 DEF StepBecomesInto, Infos, InfoType
  <2> QED
    BY <1>3, <2>1 DEF None
<1> HIDE DEF v
<1>11. ViewOf(t)'
  <2>1. BreakpointsForFile(c) => v.any
    BY DEF v
  <2>2. BreakpointsForFile(Top(t).code)' => BreakpointsForFile(c)
    BY <1>2, <1>4 DEF BreakpointsForFile
  <2> QED
    BY <1>2, <1>3, <1>4, <1>7, <1>9, <1>10, <2>1, <2>2 DEF ViewOf
<1>12. Fresh(t)
    BY <1>3, <1>4, <1>7, <1>8 DEF Fresh, SeenBy
<1>13. \A e : Decided(t, e)' => Decided(t, e)
    BY <1>3, <1>4 DEF Decided
<1>14. SleepOf(t)'
    BY <1>1, <1>2, <1>4, <1>13 DEF SleepOf, Asleep
<1>15. PauseOf(t)'
    BY <1>1, <1>2, <1>4, <1>10, <1>13 DEF PauseOf, Asleep
<1>16. MarkOf(t)'
  <2>1. ASSUME "breakpoint" \in marks'[t]
        PROVE  NotHidden(Top(t).code, Top(t).line)'
    <3> DEFINE l == Top(t).line
    <3>1. /\ "breakpoint" \in marks[t] /\ ~Filtered(c) /\ NotHidden(c, l)
          /\ l \in 1 .. LastLine
      BY <1>1, <1>2, <2>1, TopLine DEF MarkOf
    <3>2. \A cc \in Codes, ll \in 1 .. LastLine : ~Filtered(cc) /\ NotHidden(cc, ll) => NotHidden(cc, ll)'
      BY <1>2, <1>5, <1>6, <1>12, HiddenStep
    <3>3. \A cc \in Codes, ll \in 1 .. LastLine : ~Filtered(cc) /\ NotHidden(cc, ll) =>
              /\ <<cc, ll>> \in bps' /\ hasBreaks'[cc] # 0 /\ skips'[cc] = 0 /\ <<cc, ll>> \notin skipLines'
              /\ \A u \in Threads : pc'[u] = "decide" /\ Top(u)'.code = cc =>
                     ll \in view'[u].lines /\ view'[u].any
      BY <3>2 DEF NotHidden, Stored, SeenBy
    <3>4. /\ <<c, l>> \in bps' /\ hasBreaks'[c] # 0 /\ skips'[c] = 0 /\ <<c, l>> \notin skipLines'
          /\ \A u \in Threads : pc'[u] = "decide" /\ Top(u)'.code = c =>
                 l \in view'[u].lines /\ view'[u].any
      BY <1>1, <3>1, <3>3
    <3> QED
      BY <1>4, <3>4 DEF NotHidden, Stored, SeenBy
  <2>2. ASSUME "pause" \in marks'[t]
        PROVE  ~view'[t].skip /\ info[t].state = "suspend"
    <3>1. info[t].state = "suspend"
      BY <1>1, <1>2, <2>2 DEF MarkOf
    <3> QED
      BY <1>3, <1>9, <3>1
  <2> QED
    BY <1>1, <1>2, <1>3, <1>4, <1>10, <2>1, <2>2 DEF MarkOf, Filtered, ApplyFilesFilter
<1> QED
    BY <1>1, <1>2, <1>5, <1>6, <1>11, <1>12, <1>14, <1>15, <1>16, TracerDispatchesTypes, ThreadStep

\* At a decision, what the thread has to stop for is not hidden from it.
LEMMA MarkedSees ==
    ASSUME SkipInv, NEW t \in Threads, pc[t] = "decide"
    PROVE  /\ "breakpoint" \in marks[t] =>
                  /\ Top(t).line \in view[t].lines /\ Top(t).line # 0 /\ view[t].any
                  /\ HasBreakpointInFrame(t) /\ <<Top(t).code, Top(t).line>> \notin skipLines
                  /\ <<Top(t).code, Top(t).line>> \notin Conditional /\ event[t] = "line"
           /\ "pause" \in marks[t] => ~view[t].skip /\ info[t].state = "suspend"
<1> DEFINE c == Top(t).code
           l == Top(t).line
<1>1. TypeInv /\ MarkOf(t)
    BY DEF SkipInv, MarkInv
<1>2. c \in Codes /\ (l # 0 => l \in 1 .. LastLine)
    BY <1>1, TopLine
<1>3. hasBreaks[c] \in {-1, 0, 1}
    BY <1>1, <1>2, OldParts DEF CacheTypes
<1>4. ASSUME "breakpoint" \in marks[t]
      PROVE  /\ l \in view[t].lines /\ l # 0 /\ view[t].any
             /\ HasBreakpointInFrame(t) /\ <<c, l>> \notin skipLines
             /\ <<c, l>> \notin Conditional /\ event[t] = "line"
  <2>1. /\ l # 0 /\ <<c, l>> \notin Conditional /\ event[t] = "line" /\ NotHidden(c, l)
    BY <1>1, <1>4 DEF MarkOf
  <2>2. /\ hasBreaks[c] # 0 /\ <<c, l>> \notin skipLines /\ l \in view[t].lines /\ view[t].any
    BY <2>1 DEF NotHidden, Stored, SeenBy
  <2>3. HasBreakpointInFrame(t)
    BY <1>3, <2>1, <2>2 DEF HasBreakpointInFrame
  <2> QED
    BY <2>1, <2>2, <2>3
<1>5. ASSUME "pause" \in marks[t] PROVE ~view[t].skip /\ info[t].state = "suspend"
    BY <1>1, <1>5 DEF MarkOf
<1> QED
    BY <1>4, <1>5

LEMMA SkipKeeps ==
    ASSUME SkipInv, NEW t \in Threads, pc[t] = "decide", SkipFile(t) \/ SkipFunction(t)
    PROVE  SkipInv'
<1> DEFINE c == Top(t).code
           kind == IF ExceptionBreaks THEN "exception" ELSE Untraced(t)
<1>1. TypeInv /\ ViewOf(t) /\ c \in Codes /\ CacheOf(c)
    BY TopLine DEF SkipInv, ViewInv, CacheInv
<1>2. /\ FrameGoesOn(t, kind, FALSE)
      /\ skips' = [skips EXCEPT ![c] = IF event[t] = "call" /\ ~ExceptionBreaks THEN 2 ELSE @]
      /\ info' = [info EXCEPT ![t] = Forget(t, @)]
      /\ UNCHANGED <<bps, skipLines, cmd, settled, promise, marks>>
      /\ hasBreaks' = hasBreaks \/ CacheHasBreakpoint(t)
      /\ StaleIf(t)
      /\ MaySkip(t) /\ (~view[t].any \/ ~HasBreakpointInFrame(t))
    BY DEF SkipFile, SkipFunction, FrameSkipped, BackToProgram
<1>3. CacheStep(t)
  <2>1. skips' = skips \/ (skips' = [skips EXCEPT ![c] = 2] /\ event[t] = "call")
    BY <1>1, <1>2, OldParts DEF CacheTypes
  <2>2. stale \subseteq stale' /\ (t \in dirty => c \in stale')
    BY <1>2 DEF StaleIf
  <2> QED
    BY <1>2, <2>1, <2>2 DEF CacheStep, Skipping
<1>4. "breakpoint" \notin marks[t] /\ "pause" \notin marks[t]
    BY <1>2, MarkedSees DEF MaySkip
<1>5. t \notin dirty /\ c \notin stale => ~HasLine(c) /\ info[t].state # "suspend"
    BY <1>1, <1>2, NoneInFrame DEF MaySkip, ViewOf
<1>6. kind \in TraceKinds
    BY <1>1, UntracedKind
<1> HIDE DEF kind
<1> QED
    BY <1>1, <1>2, <1>3, <1>4, <1>5, <1>6, SkipTypes, GoesOnKeeps

LEMMA SkipLineKeeps ==
    ASSUME SkipInv, NEW t \in Threads, pc[t] = "decide", SkipLine(t)
    PROVE  SkipInv'
<1>1. TypeInv
    BY DEF SkipInv
<1>2. /\ FrameGoesOn(t, "dispatch", FALSE)
      /\ info' = [info EXCEPT ![t] = Forget(t, @)]
      /\ UNCHANGED <<bps, skips, hasBreaks, skipLines, cmd, settled, stale, promise, marks>>
      /\ MaySkip(t) /\ KnownLine(t)
    BY DEF SkipLine, BackToProgram, caches
<1>3. "breakpoint" \notin marks[t] /\ "pause" \notin marks[t]
    BY <1>2, MarkedSees DEF MaySkip, KnownLine
<1>4. CacheStep(t)
    BY <1>2, NoCacheStep
<1>5. "dispatch" \in TraceKinds /\ "dispatch" \notin {"none", "exception"}
    BY DEF TraceKinds
<1> QED
    BY <1>1, <1>2, <1>3, <1>4, <1>5, SkipTypes, GoesOnKeeps

\* the cache of the function and of the line, when the event is not skipped
LEMMA ExaminedCaches ==
    ASSUME TypeInv, NEW t \in Threads, pc[t] = "decide", Examined(t), skips' = skips,
           skipLines' = skipLines \/ (CacheLine(t) /\ info[t].state = "run")
    PROVE  CacheStep(t)
<1>1. /\ stale \subseteq stale' /\ (t \in dirty => Top(t).code \in stale')
      /\ hasBreaks' = hasBreaks \/ CacheHasBreakpoint(t)
    BY DEF Examined, StaleIf
<1>2. \/ skipLines' = skipLines
      \/ /\ skipLines' = skipLines \cup {<<Top(t).code, Top(t).line>>}
         /\ event[t] = "line" /\ Top(t).line \notin view[t].lines
    BY DEF CacheLine, Breakpoint
<1> QED
    BY <1>1, <1>2 DEF CacheStep

LEMMA GoesOnActionKeeps ==
    ASSUME SkipInv, NEW t \in Threads, pc[t] = "decide", GoesOn(t)
    PROVE  SkipInv'
<1> DEFINE left == event[t] = "line" /\ (SmartChild(t) \/ SmartGrandchild(t))
           kind == IF left THEN "none" ELSE "dispatch"
<1>1. TypeInv
    BY DEF SkipInv
<1>2. /\ FrameGoesOn(t, kind, left)
      /\ info' = [info EXCEPT ![t] = Forget(t, @)]
      /\ UNCHANGED <<bps, skips, cmd, settled, promise, marks>>
      /\ Examined(t) /\ CacheLine(t) /\ info[t].state = "run" /\ Passes(t)
    BY DEF GoesOn
<1>3. CacheStep(t)
    BY <1>1, <1>2, ExaminedCaches
<1>4. "breakpoint" \notin marks[t] /\ "pause" \notin marks[t]
    BY <1>2, MarkedSees DEF Passes, Breakpoint
<1>5. left \in BOOLEAN /\ kind \in TraceKinds /\ (kind \in {"none", "exception"} => left)
    BY DEF TraceKinds
<1> HIDE DEF left, kind
<1> QED
    BY <1>1, <1>2, <1>3, <1>4, <1>5, SkipTypes, GoesOnKeeps

\* A thread that waits: only its callers have been decided on, and it has not gone on.
LEMMA WaitKeeps ==
    ASSUME SkipInv, TypeInv', NEW t \in Threads, pc[t] = "decide", pc'[t] = "wait",
           FramesKept(t), Others(t), CacheStep(t), UNCHANGED <<bps, cmd, settled>>,
           info'[t].state = "suspend" => info'[t].step # None,
           "breakpoint" \notin marks'[t], "pause" \notin marks'[t]
    PROVE  SkipInv'
<1>1. TypeInv /\ SleepOf(t)
    BY DEF SkipInv, SleepInv
<1>2. SleepOf(t)'
  <2> SUFFICES ASSUME NEW d \in 1 .. Depth(t)', Decided(t, d)', Asleep(stack'[t][d]),
                      ~stack'[t][d].left, NEW l \in 1 .. LastLine
               PROVE  <<stack'[t][d].code, l>> \notin settled'
    BY DEF SleepOf, Asleep
  <2>1. d \in 1 .. Depth(t) /\ stack'[t][d] = stack[t][d]
    BY <1>1, FramesKeptFacts
  <2>2. Decided(t, d)
    BY <1>1, FramesKeptFacts DEF Decided
  <2> QED
    BY <1>1, <2>1, <2>2 DEF SleepOf
<1>3. PauseOf(t)'
    BY DEF PauseOf
<1>4. MarkOf(t)'
    BY NoMarks
<1> QED
    BY <1>2, <1>3, <1>4, NotDeciding, ThreadStep

\* The others that are suspended with it are all traced.
LEMMA TracedAll ==
    ASSUME TypeInv, NEW S, S \subseteq Threads, stack' = SetTrace(stack, S, Depths)
    PROVE  /\ \A u \in Threads : FramesKept(u)
           /\ \A u \in S : AllTraced(u)
           /\ \A u \in Threads \ S : \A d \in 1 .. Depth(u) : stack'[u][d] = stack[u][d]
<1>1. StackTypes
    BY OldParts
<1>2. \A u \in Threads :
          /\ Depth(u)' = Depth(u)
          /\ \A d \in 1 .. Depth(u) : stack'[u][d] =
                IF u \in S /\ d <= Depths[u] /\ stack[u][d].code \notin Internal
                THEN Traced_(stack[u][d]) ELSE stack[u][d]
    BY <1>1, SetTraceFacts
<1>3. \A u \in Threads : Depths[u] = Depth(u) /\ Depth(u) \in Nat
    BY ThreadFacts DEF Depths
<1> QED
    BY <1>2, <1>3 DEF FramesKept, AllTraced

LEMMA SuspendedState ==
    ASSUME NEW i \in Infos
    PROVE  MarkThreadSuspended(i).state = "suspend" /\ MarkThreadSuspended(i).step # None
BY DEF MarkThreadSuspended, Infos, InfoType, None

LEMMA SetSuspendKeeps ==
    ASSUME SkipInv, TypeInv', NEW t \in Threads, pc[t] = "decide", NEW d, SetSuspend(t, d),
           CacheStep(t), NEW m, marks' = [marks EXCEPT ![t] = m],
           "breakpoint" \notin m, "pause" \notin m
    PROVE  SkipInv'
<1> DEFINE others == IF SingleNotification THEN Threads \ {t} ELSE {}
<1>1. TypeInv /\ info[t] \in Infos
    BY ThreadFacts DEF SkipInv
<1>2. /\ info' = [u \in Threads |->
             IF u = t THEN [MarkThreadSuspended(info[u]) EXCEPT !.initial = NoLocation]
             ELSE IF u \in others THEN MarkThreadSuspended(info[u]) ELSE info[u]]
      /\ stack' = SetTrace(stack, others, Depths)
      /\ dirty' = dirty \cup {u \in others : pc[u] = "decide"}
      /\ pc' = [pc EXCEPT ![t] = "wait"]
      /\ UNCHANGED <<event, view, bps, cmd, settled>>
    BY DEF SetSuspend
<1>3. others \subseteq Threads
    OBVIOUS
<1> HIDE DEF others
<1>4. /\ \A u \in Threads : FramesKept(u)
      /\ \A u \in others : AllTraced(u)
    BY <1>1, <1>2, <1>3, TracedAll
<1>5. /\ pc'[t] = "wait" /\ marks'[t] = m
      /\ \A u \in Threads : u # t => pc'[u] = pc[u] /\ marks'[u] = marks[u]
    BY <1>1, <1>2, OldParts DEF MapTypes
<1>6. Others(t)
  <2> SUFFICES ASSUME NEW u \in Threads, u # t PROVE Bystander(u)
    BY DEF Others
  <2>1. info[u] \in Infos
    BY <1>1, ThreadFacts
  <2>2. CASE u \in others
    <3>1. info'[u].state = "suspend" /\ info'[u].step # None
      BY <1>2, <2>1, <2>2, SuspendedState
    <3> QED
      BY <1>2, <1>4, <1>5, <2>2, <3>1 DEF Bystander
  <2>3. CASE u \notin others
    BY <1>2, <1>4, <1>5, <2>3 DEF Bystander
  <2> QED
    BY <2>2, <2>3
<1>7. info'[t].step # None
  <2>1. [MarkThreadSuspended(info[t]) EXCEPT !.initial = NoLocation].step =
            MarkThreadSuspended(info[t]).step
    BY <1>1, InfoChanges DEF Infos, InfoType
  <2> QED
    BY <1>1, <1>2, <2>1, SuspendedState
<1> QED
    BY <1>1, <1>2, <1>4, <1>5, <1>6, <1>7, WaitKeeps

LEMMA StopKeeps ==
    ASSUME SkipInv, NEW t \in Threads, pc[t] = "decide", StopOnBreakpoint(t) \/ StopForStep(t)
    PROVE  SkipInv'
<1>1. TypeInv
    BY DEF SkipInv
<1>2. CASE StopOnBreakpoint(t)
  <2>1. /\ Examined(t) /\ SetSuspend(t, Depth(t)) /\ skips' = skips /\ skipLines' = skipLines
        /\ \E m : marks' = [marks EXCEPT ![t] = m] /\ "breakpoint" \notin m /\ "pause" \notin m
    <3> DEFINE m == IF "armed" \in marks[t] \/ <<Top(t).code, Top(t).line>> \in bps THEN {} ELSE {"removed"}
    <3>1. /\ Examined(t) /\ SetSuspend(t, Depth(t)) /\ skips' = skips /\ skipLines' = skipLines
          /\ marks' = [marks EXCEPT ![t] = m]
      BY <1>2 DEF StopOnBreakpoint
    <3>2. "breakpoint" \notin m /\ "pause" \notin m
      OBVIOUS
    <3> HIDE DEF m
    <3> QED
      BY <3>1, <3>2
  <2> QED
    BY <1>1, <1>2, <2>1, ExaminedCaches, StopTypes, SetSuspendKeeps
<1>3. CASE StopForStep(t)
  <2>1. /\ Examined(t) /\ CacheLine(t) /\ info[t].state = "run" /\ skips' = skips
        /\ \E d : SetSuspend(t, d)
        /\ \E m : marks' = [marks EXCEPT ![t] = m] /\ "breakpoint" \notin m /\ "pause" \notin m
    BY <1>3 DEF StopForStep
  <2> QED
    BY <1>1, <1>3, <2>1, ExaminedCaches, StopTypes, SetSuspendKeeps
<1> QED
    BY <1>2, <1>3

LEMMA WaitSuspendedKeeps ==
    ASSUME SkipInv, NEW t \in Threads, pc[t] = "decide", WaitSuspended(t)
    PROVE  SkipInv'
<1>1. TypeInv /\ PauseOf(t) /\ info[t] \in Infos
    BY ThreadFacts DEF SkipInv, PauseInv
<1>2. /\ Examined(t) /\ info[t].state = "suspend"
      /\ pc' = [pc EXCEPT ![t] = "wait"]
      /\ info' = [info EXCEPT ![t].initial = NoLocation]
      /\ marks' = [marks EXCEPT ![t] = {}]
      /\ UNCHANGED <<stack, event, view, bps, skips, skipLines, cmd, settled, dirty>>
    BY DEF WaitSuspended
<1>3. /\ pc'[t] = "wait" /\ marks'[t] = {} /\ info'[t].step = info[t].step
      /\ \A u \in Threads : u # t => pc'[u] = pc[u] /\ marks'[u] = marks[u] /\ info'[u] = info[u]
  <2>1. info' = [info EXCEPT ![t] = [info[t] EXCEPT !.initial = NoLocation]]
    BY <1>2
  <2>2. [info[t] EXCEPT !.initial = NoLocation].step = info[t].step
    BY <1>1 DEF Infos, InfoType
  <2>3. info'[t].step = info[t].step /\ \A u \in Threads : u # t => info'[u] = info[u]
    BY <1>1, <2>1, <2>2, OldParts
  <2> QED
    BY <1>1, <1>2, <2>3, OldParts DEF MapTypes
<1>4. FramesKept(t) /\ OthersKept(t)
    BY <1>2 DEF FramesKept, OthersKept, Depth
<1>5. Others(t)
    BY <1>1, <1>2, <1>3, <1>4, Alone
<1>6. CacheStep(t) /\ info'[t].step # None
    BY <1>1, <1>2, <1>3, ExaminedCaches DEF PauseOf
<1> QED
    BY <1>1, <1>2, <1>3, <1>4, <1>5, <1>6, StopTypes, WaitKeeps

-----------------------------------------------------------------------------
(* Waiting threads and commands *)

LEMMA LeaveWaitKeeps ==
    ASSUME SkipInv, NEW t \in Threads, LeaveWait(t)
    PROVE  SkipInv'
<1> DEFINE d == Depth(t)
<1>1. /\ TypeInv /\ SleepOf(t) /\ d \in Nat /\ d > 0 /\ pc[t] = "wait" /\ info[t].state = "run"
      /\ \A e \in 1 .. d : stack[t][e] \in FrameType
    BY ThreadFacts DEF SkipInv, SleepInv, LeaveWait
<1>2. /\ OthersKept(t) /\ EndCallback(t)
      /\ \A e \in 1 .. d - 1 : stack'[t][e] = ResumedFrame(t, e)
      /\ event[t] = "return" => Depth(t)' = d - 1
      /\ event[t] # "return" =>
             Depth(t)' = d /\ Top(t)' = [ResumedFrame(t, d) EXCEPT !.trace = "dispatch"]
      /\ info' = [info EXCEPT ![t] = IF event[t] = "return"
                            THEN ForgetFrame(Resumed(t), d) ELSE Resumed(t)]
      /\ marks' = [marks EXCEPT ![t] = {}]
      /\ UNCHANGED <<bps, skips, hasBreaks, skipLines, cmd, settled, stale>>
    BY <1>1, LeaveWaitFacts DEF caches
<1>3. pc'[t] = "run" /\ OthersRest(t) /\ dirty' = dirty \ {t}
    BY <1>1, <1>2, EndCallbackFacts
<1>4. /\ marks'[t] = {} /\ info'[t].state = "run"
      /\ \A u \in Threads : u # t => marks'[u] = marks[u] /\ info'[u] = info[u]
  <2>1. Resumed(t) \in Infos /\ Resumed(t).state = "run"
    BY <1>1, ResumedFacts
  <2>2. ForgetFrame(Resumed(t), d).state = "run"
    BY <2>1, ForgetKeeps
  <2> QED
    BY <1>1, <1>2, <2>1, <2>2, OldParts DEF MapTypes
<1>5. Others(t)
    BY <1>1, <1>2, <1>3, <1>4, Alone DEF OthersRest
<1>6. \A e \in 1 .. d : ResumedFrame(t, e) = stack[t][e] \/ ResumedFrame(t, e) = Traced_(stack[t][e])
    BY DEF ResumedFrame
<1>7. SleepOf(t)'
  <2> SUFFICES ASSUME NEW e \in 1 .. Depth(t)', Asleep(stack'[t][e]), ~stack'[t][e].left,
                      NEW l \in 1 .. LastLine
               PROVE  <<stack'[t][e].code, l>> \notin settled
    BY <1>2 DEF SleepOf, Asleep
  <2>1. CASE e \in 1 .. d - 1
    <3>1. stack'[t][e] = stack[t][e]
      BY <1>1, <1>2, <1>6, <2>1, TracedIs
    <3>2. Decided(t, e) /\ e \in 1 .. d
      BY <1>1, <2>1 DEF Decided
    <3> QED
      BY <1>1, <3>1, <3>2 DEF SleepOf
  <2>2. CASE e \notin 1 .. d - 1
    <3>1. event[t] # "return" /\ e = d /\ Depth(t)' = d
      BY <1>1, <1>2, <2>2
    <3>2. stack'[t][e] = [ResumedFrame(t, d) EXCEPT !.trace = "dispatch"]
      BY <1>2, <3>1 DEF Top
    <3>3. ResumedFrame(t, d) \in FrameType
      <4>1. d \in 1 .. d /\ stack[t][d] \in FrameType
        BY <1>1
      <4>2. Traced_(stack[t][d]) \in FrameType
        BY <4>1 DEF FrameType, Traced_
      <4> QED
        BY <1>6, <4>1, <4>2
    <3> QED
      BY <3>2, <3>3 DEF FrameType, Asleep
  <2> QED
    BY <2>1, <2>2
<1>8. PauseOf(t)'
    BY <1>4 DEF PauseOf
<1>9. CacheStep(t) /\ MarkOf(t)'
    BY <1>2, <1>4, NoCacheStep, NoMarks
<1> QED
    BY <1>1, <1>2, <1>3, <1>5, <1>7, <1>8, <1>9, NotDeciding, LeaveWaitTypes, ThreadStep

\* the caches are cleared, or left alone
Cleared == ClearCaches \/ UNCHANGED <<skips, hasBreaks, skipLines, stale>>

LEMMA ClearedInv ==
    ASSUME CacheInv, Cleared,
           ~ClearCaches =>
               /\ \A c \in Codes, l \in 1 .. LastLine : <<c, l>> \in bps' => <<c, l>> \in bps
               /\ cmd'.phase # "added" => cmd.phase # "added" /\ bps' \subseteq bps
    PROVE  CacheInv'
<1> SUFFICES ASSUME NEW c \in Codes PROVE CacheOf(c)'
    BY DEF CacheInv
<1>1. CASE ClearCaches
    BY <1>1 DEF ClearCaches, CacheOf, HasLine
<1>2. CASE ~ClearCaches
  <2>1. /\ UNCHANGED <<skips, hasBreaks, skipLines, stale>> /\ CacheOf(c)
        /\ \A l \in 1 .. LastLine : <<c, l>> \in bps' => <<c, l>> \in bps
        /\ cmd'.phase # "added" => cmd.phase # "added" /\ bps' \subseteq bps
    BY <1>2 DEF Cleared, CacheInv
  <2>2. HasLine(c)' => HasLine(c)
    BY <2>1 DEF HasLine
  <2>3. \A l \in Lines0 : l # 0 => l \in 1 .. LastLine
    BY TraceDispatchAssumption DEF Lines0
  <2>4. c \notin stale' =>
           /\ hasBreaks'[c] = 0 => ~HasLine(c)'
           /\ skips'[c] = 2 => ~HasLine(c)' /\ (cmd'.phase # "added" => <<c, 0>> \notin bps')
           /\ \A l \in Lines0 : <<c, l>> \in bps' /\ (l # 0 \/ cmd'.phase # "added") =>
                  <<c, l>> \notin skipLines'
    BY <2>1, <2>2, <2>3 DEF CacheOf
  <2> QED
    BY <2>1, <2>4 DEF CacheOf, Filtered, ApplyFilesFilter, HasLine
<1> QED
    BY <1>1, <1>2

LEMMA TracedSleep ==
    ASSUME TypeInv, NEW u \in Threads, FramesKept(u), AllTraced(u)
    PROVE  SleepOf(u)'
<1>1. ASSUME NEW d \in 1 .. Depth(u)', Asleep(stack'[u][d])
      PROVE  FALSE
  <2>1. d \in 1 .. Depth(u)
    BY FramesKeptFacts
  <2>2. stack[u][d] \in FrameType
    BY <2>1, ThreadFacts
  <2> QED
    BY <1>1, <2>1, <2>2, TracedIs, InternalSleeps DEF AllTraced
<1> QED
    BY <1>1 DEF SleepOf, Asleep

\* A step that no thread takes.
LEMMA CommandStep ==
    ASSUME SkipInv, TypeInv', \A u \in Threads : Bystander(u), Cleared, CacheInv',
           settled' \subseteq settled \/ \A u \in Threads : AllTraced(u),
           bps' \subseteq bps \/ \A u \in Threads : pc[u] = "decide" => u \in dirty',
           \A u \in Threads : "breakpoint" \in marks'[u] /\ <<Top(u).code, Top(u).line>> \in bps =>
               <<Top(u).code, Top(u).line>> \in bps'
    PROVE  SkipInv'
<1>1. TypeInv /\ ViewInv /\ CacheInv /\ SleepInv /\ PauseInv /\ MarkInv
    BY DEF SkipInv
<1>2. ASSUME NEW u \in Threads
      PROVE  ViewOf(u)' /\ SleepOf(u)' /\ PauseOf(u)' /\ MarkOf(u)'
  <2>1. Bystander(u) /\ ViewOf(u) /\ SleepOf(u) /\ PauseOf(u) /\ MarkOf(u)
    BY <1>1 DEF ViewInv, SleepInv, PauseInv, MarkInv
  <2>2. ViewOf(u)' /\ PauseOf(u)'
    BY <1>1, <2>1, BystanderView, BystanderPause
  <2>3. SleepOf(u)'
    BY <1>1, <2>1, BystanderSleep, TracedSleep DEF Bystander
  <2>4. ASSUME "breakpoint" \in marks'[u], "breakpoint" \in marks[u]
        PROVE  NotHidden(Top(u).code, Top(u).line)'
    <3> DEFINE c == Top(u).code
               l == Top(u).line
    <3>1. NotHidden(c, l) /\ c \in Codes /\ Depth(u) > 0
      BY <1>1, <2>1, <2>4, TopLine, ThreadFacts DEF MarkOf
    <3>2. Top(u)'.code = c /\ Top(u)'.line = l
      BY <1>1, <2>1, <3>1, FramesKeptFacts DEF Bystander
    <3>3. <<c, l>> \in bps' /\ hasBreaks'[c] # 0 /\ skips'[c] = 0 /\ <<c, l>> \notin skipLines'
      BY <2>4, <3>1 DEF NotHidden, Stored, Cleared, ClearCaches
    <3>4. \A cc, ll : \A v \in Threads : SeenBy(v, cc, ll) => SeenBy(v, cc, ll)'
      BY <1>1, BystanderSees
    <3>5. \A cc, ll : \A v \in Threads : SeenBy(v, cc, ll) =>
              (pc'[v] = "decide" /\ Top(v)'.code = cc => ll \in view'[v].lines /\ view'[v].any)
      BY <3>4 DEF SeenBy
    <3>6. \A v \in Threads : pc'[v] = "decide" /\ Top(v)'.code = c =>
              l \in view'[v].lines /\ view'[v].any
      BY <3>1, <3>5 DEF NotHidden
    <3> QED
      BY <3>2, <3>3, <3>6 DEF NotHidden, Stored, SeenBy
  <2> QED
    BY <1>1, <2>1, <2>2, <2>3, <2>4, BystanderMark
<1> QED
    BY <1>2 DEF SkipInv, ViewInv, SleepInv, PauseInv, MarkInv

\* The threads that are resumed have nothing to pause for any more.
LEMMA ReleasedMarks ==
    ASSUME TypeInv, NEW S \in SUBSET Threads, Released(S), NEW u \in Threads
    PROVE  /\ "breakpoint" \in marks'[u] => "breakpoint" \in marks[u]
           /\ "pause" \in marks'[u] => "pause" \in marks[u] /\ u \notin S
BY DEF Released

LEMMA RunState ==
    ASSUME NEW i \in Infos, NEW step, NEW x
    PROVE  RunThread(i).state = "run" /\ StepInThread(i, step, x).state = "run"
BY DEF RunThread, StepInThread, Infos, InfoType

LEMMA StepRequestKeeps ==
    ASSUME SkipInv, TypeInv', NEW t \in Threads, NEW step, NEW target,
           StepRequest(t, step, target)
    PROVE  SkipInv'
<1>1. TypeInv /\ MarkOf(t) /\ pc[t] = "wait"
    BY DEF SkipInv, MarkInv, StepRequest
<1>2. /\ info' = [u \in Threads |-> IF u = t THEN StepInThread(info[u], step, target)
                                             ELSE RunThread(info[u])]
      /\ Released(Threads \ {t})
      /\ UNCHANGED <<stack, pc, event, view, at, bps, skips, hasBreaks, skipLines, cmd, settled,
                     dirty, stale>>
    BY DEF StepRequest, program, caches
<1>3. Threads \ {t} \in SUBSET Threads
    OBVIOUS
<1>4. ASSUME NEW u \in Threads PROVE Bystander(u)
  <2>1. info'[u].state = "run"
    BY <1>1, <1>2, ThreadFacts, RunState
  <2>2. /\ "breakpoint" \in marks'[u] => "breakpoint" \in marks[u]
        /\ "pause" \in marks'[u] => "pause" \in marks[u] /\ u = t
    BY <1>1, <1>2, <1>3, ReleasedMarks
  <2>3. "pause" \notin marks[t]
    BY <1>1 DEF MarkOf
  <2>4. FramesKept(u)
    BY <1>2 DEF FramesKept, Depth
  <2> QED
    BY <1>2, <2>1, <2>2, <2>3, <2>4 DEF Bystander
<1>5. Cleared /\ CacheInv'
    BY <1>2, ClearedInv DEF Cleared, SkipInv
<1> QED
    BY <1>2, <1>4, <1>5, CommandStep

LEMMA ContinueKeeps ==
    ASSUME SkipInv, TypeInv', NEW S \in SUBSET Threads, Continue(S)
    PROVE  SkipInv'
<1>1. TypeInv
    BY DEF SkipInv
<1>2. /\ info' = [t \in Threads |-> IF t \in S THEN RunThread(info[t]) ELSE info[t]]
      /\ Released(S)
      /\ UNCHANGED <<stack, pc, event, view, at, bps, skips, hasBreaks, skipLines, cmd, settled,
                     dirty, stale>>
    BY DEF Continue, program, caches
<1>3. ASSUME NEW u \in Threads PROVE Bystander(u)
  <2>1. IF u \in S THEN info'[u].state = "run" ELSE info'[u] = info[u]
    BY <1>1, <1>2, ThreadFacts, RunState
  <2>2. /\ "breakpoint" \in marks'[u] => "breakpoint" \in marks[u]
        /\ "pause" \in marks'[u] => "pause" \in marks[u] /\ u \notin S
    BY <1>1, <1>2, ReleasedMarks
  <2>3. FramesKept(u)
    BY <1>2 DEF FramesKept, Depth
  <2> QED
    BY <1>2, <2>1, <2>2, <2>3 DEF Bystander
<1>4. Cleared /\ CacheInv'
    BY <1>2, ClearedInv DEF Cleared, SkipInv
<1> QED
    BY <1>2, <1>3, <1>4, CommandStep

LEMMA PauseKeeps ==
    ASSUME SkipInv, TypeInv', NEW t \in Threads, Pause(t)
    PROVE  SkipInv'
<1> DEFINE threads == IF SingleNotification THEN Threads ELSE {t}
<1>1. TypeInv
    BY DEF SkipInv
<1>2. /\ info' = [u \in Threads |-> IF u \in threads THEN MarkThreadSuspended(info[u])
                                                     ELSE info[u]]
      /\ stack' = SetTrace(stack, threads, Depths)
      /\ dirty' = dirty \cup {u \in threads : pc[u] = "decide"}
      /\ UNCHANGED <<pc, event, view, at, bps, skips, hasBreaks, skipLines, cmd, settled, stale,
                     promise, marks>>
    BY DEF Pause, caches
<1>3. threads \subseteq Threads
    OBVIOUS
<1> HIDE DEF threads
<1>4. /\ \A u \in Threads : FramesKept(u)
      /\ \A u \in threads : AllTraced(u)
    BY <1>1, <1>2, <1>3, TracedAll
<1>5. ASSUME NEW u \in Threads PROVE Bystander(u)
  <2>1. CASE u \in threads
    <3>1. info'[u].state = "suspend" /\ info'[u].step # None
      BY <1>1, <1>2, <2>1, ThreadFacts, SuspendedState
    <3> QED
      BY <1>2, <1>4, <2>1, <3>1 DEF Bystander
  <2>2. CASE u \notin threads
    BY <1>2, <1>4, <2>2 DEF Bystander
  <2> QED
    BY <2>1, <2>2
<1>6. Cleared /\ CacheInv'
    BY <1>2, ClearedInv DEF Cleared, SkipInv
<1> QED
    BY <1>2, <1>5, <1>6, CommandStep

\* a command that leaves the threads alone, but for what is remembered of them
LEMMA QuietThreads ==
    ASSUME TypeInv, UNCHANGED <<stack, pc, event, view, info>>,
           \A u \in Threads : pc[u] = "decide" /\ u \in dirty => u \in dirty',
           \A u \in Threads :
               /\ "breakpoint" \in marks'[u] => "breakpoint" \in marks[u]
               /\ "pause" \in marks'[u] => "pause" \in marks[u]
    PROVE  \A u \in Threads : Bystander(u)
BY DEF Bystander, FramesKept, Depth

LEMMA AddBreakpointKeeps ==
    ASSUME SkipInv, TypeInv', NEW loc \in BreakLocations, AddBreakpoint(loc)
    PROVE  SkipInv'
<1>1. TypeInv
    BY DEF SkipInv
<1>2. /\ bps' = bps \cup {loc} /\ cmd' = [phase |-> "added", loc |-> loc]
      /\ IF loc[2] = 0 THEN UNCHANGED <<skips, hasBreaks, skipLines, stale>> ELSE ClearCaches
      /\ UNCHANGED <<stack, pc, event, view, info, settled>>
      /\ dirty' = {t \in Threads : pc[t] = "decide"}
      /\ marks' = [t \in Threads |-> IF IsAt(t, loc) THEN marks[t] \cup {"armed"} ELSE marks[t]]
    BY DEF AddBreakpoint, program, caches, Outdate
<1>3. \A u \in Threads : Bystander(u)
    BY <1>1, <1>2, QuietThreads
<1>4. Cleared /\ CacheInv'
  <2>1. ASSUME ~ClearCaches, NEW c \in Codes, NEW l \in 1 .. LastLine, <<c, l>> \in bps'
        PROVE  <<c, l>> \in bps
    <3>1. loc[2] = 0 /\ l # 0
      BY <1>2, <2>1, TraceDispatchAssumption
    <3> QED
      BY <1>2, <2>1, <3>1
  <2>2. cmd'.phase = "added"
    BY <1>2
  <2> QED
    BY <1>2, <2>1, <2>2, ClearedInv DEF Cleared, SkipInv
<1> QED
    BY <1>2, <1>3, <1>4, CommandStep

LEMMA RemoveBreakpointKeeps ==
    ASSUME SkipInv, TypeInv', NEW loc \in BreakLocations, RemoveBreakpoint(loc)
    PROVE  SkipInv'
<1>1. TypeInv /\ \A u \in Threads : Depth(u) \in Nat
    BY ThreadFacts DEF SkipInv
<1>2. /\ bps' = bps \ {loc} /\ settled' = settled \ {loc} /\ Cleared
      /\ cmd' = [phase |-> "added", loc |-> loc] \/ cmd' = cmd
      /\ UNCHANGED <<stack, pc, event, view, info, dirty>>
      /\ marks' = [t \in Threads |-> IF IsAt(t, loc)
                                     THEN marks[t] \ {"breakpoint", "stale", "blind", "left"}
                                     ELSE marks[t]]
    BY DEF RemoveBreakpoint, program, caches, Cleared
<1>3. \A u \in Threads : Bystander(u)
    BY <1>1, <1>2, QuietThreads
<1>4. CacheInv'
    BY <1>2, ClearedInv DEF SkipInv
<1>5. ASSUME NEW u \in Threads, "breakpoint" \in marks'[u], <<Top(u).code, Top(u).line>> \in bps
      PROVE  <<Top(u).code, Top(u).line>> \in bps'
  <2>1. ~IsAt(u, loc) /\ "breakpoint" \in marks[u]
    BY <1>2, <1>5
  <2>2. Depth(u) > 0
    BY <1>1, <2>1, ThreadFacts DEF SkipInv, MarkInv, MarkOf
  <2> QED
    BY <1>2, <1>5, <2>1, <2>2 DEF IsAt
<1> QED
    BY <1>2, <1>3, <1>4, <1>5, CommandStep

LEMMA QuietKeeps ==
    ASSUME SkipInv, TypeInv', BreakpointAdded \/ ClearFilters
    PROVE  SkipInv'
<1>1. TypeInv
    BY DEF SkipInv
<1>2. ClearCaches /\ UNCHANGED <<stack, pc, event, view, info, bps, settled, dirty, marks>>
    BY DEF BreakpointAdded, ClearFilters, program
<1>3. \A u \in Threads : Bystander(u)
    BY <1>1, <1>2, QuietThreads
<1>4. Cleared /\ CacheInv'
    BY <1>2, ClearedInv DEF Cleared, SkipInv
<1> QED
    BY <1>2, <1>3, <1>4, CommandStep

LEMMA TraceExistingKeeps ==
    ASSUME SkipInv, TypeInv', TraceExistingFrames
    PROVE  SkipInv'
<1>1. TypeInv
    BY DEF SkipInv
<1>2. /\ stack' = SetTrace(stack, Threads, Depths) /\ cmd.phase = "trace"
      /\ UNCHANGED <<pc, event, view, at, info, bps, skips, hasBreaks, skipLines, dirty, stale, marks>>
    BY DEF TraceExistingFrames, caches
<1>3. \A u \in Threads : FramesKept(u) /\ AllTraced(u)
    BY <1>1, <1>2, TracedAll
<1>4. \A u \in Threads : Bystander(u)
    BY <1>2, <1>3 DEF Bystander
<1>5. Cleared /\ CacheInv'
    BY <1>2, ClearedInv DEF Cleared, SkipInv
<1> QED
    BY <1>2, <1>3, <1>4, <1>5, CommandStep

-----------------------------------------------------------------------------
LEMMA SkipInit == Init => SkipInv
<1> SUFFICES ASSUME Init PROVE SkipInv
    OBVIOUS
<1>1. TypeInv
    BY InitTypes
<1>2. ViewInv /\ CacheInv /\ MarkInv
    BY DEF Init, ViewInv, ViewOf, CacheInv, CacheOf, HasLine, MarkInv, MarkOf
<1>3. SleepInv
    BY DEF Init, SleepInv, SleepOf
<1>4. PauseInv
    BY DEF Init, PauseInv, PauseOf, NewInfo
<1> QED
    BY <1>1, <1>2, <1>3, <1>4 DEF SkipInv

LEMMA SkipStep == SkipInv /\ [Next]_vars => SkipInv'
<1> SUFFICES ASSUME SkipInv, [Next]_vars PROVE SkipInv'
    OBVIOUS
<1>1. TypeInv /\ TypeInv'
    BY TypeStep DEF SkipInv
<1>2. CASE Command
  <2>1. ASSUME NEW S \in {Threads} \cup {{t} : t \in Threads}, Continue(S) PROVE SkipInv'
    <3>1. S \in SUBSET Threads
      OBVIOUS
    <3> QED
      BY <1>1, <2>1, <3>1, ContinueKeeps
  <2> QED
    BY <1>1, <1>2, <2>1, AddBreakpointKeeps, RemoveBreakpointKeeps, QuietKeeps,
       TraceExistingKeeps, PauseKeeps DEF Command
<1>3. ASSUME NEW t \in Threads, Program(t) PROVE SkipInv'
    BY <1>3, CallKeeps, AdvanceKeeps, RaiseKeeps, LeaveKeeps DEF Program
<1>4. ASSUME NEW t \in Threads, Callback(t) PROVE SkipInv'
  <2>1. CASE TraceCall(t)
    BY <2>1, TracerSkipsKeeps, TracerDispatchesKeeps DEF TraceCall
  <2>2. CASE Dispatch(t)
    BY <2>2, SkipKeeps, SkipLineKeeps, GoesOnActionKeeps, StopKeeps, WaitSuspendedKeeps DEF Dispatch
  <2>3. CASE LeaveWait(t)
    BY <2>3, LeaveWaitKeeps
  <2>4. CASE \E step, target : StepRequest(t, step, target)
    BY <1>1, <2>4, StepRequestKeeps
  <2> QED
    BY <1>4, <2>1, <2>2, <2>3, <2>4 DEF Callback
<1>5. CASE UNCHANGED vars
  <2>1. /\ UNCHANGED <<stack, pc, event, view, info, bps, skips, hasBreaks, skipLines, cmd,
                       settled, dirty, stale, marks>>
    BY <1>5 DEF vars, program, caches, history
  <2>2. \A u \in Threads : Bystander(u)
    BY <1>1, <2>1, QuietThreads
  <2>3. Cleared /\ CacheInv'
    BY <2>1, ClearedInv DEF Cleared, SkipInv
  <2> QED
    BY <1>1, <2>1, <2>2, <2>3, CommandStep
<1> QED
    BY <1>2, <1>3, <1>4, <1>5 DEF Next

LEMMA SkipAlways == Spec => []SkipInv
<1>1. SkipInv /\ [Next]_vars => SkipInv'
    BY SkipStep
<1> QED
    BY SkipInit, <1>1, PTL DEF Spec

\* No thread goes past a line with a breakpoint whose installation is complete.
THEOREM BreakpointsStop == Spec => []BreakpointsHit
<1>1. SkipInv => BreakpointsHit
    BY DEF SkipInv, MarkInv, MarkOf, BreakpointsHit, Overrun
<1> QED
    BY <1>1, SkipAlways, PTL

\* A thread that was asked to pause does not go past another line of user code.
THEOREM PausesAreKept == Spec => []PausesStop
<1>1. SkipInv => PausesStop
    BY DEF SkipInv, MarkInv, MarkOf, PausesStop, Overrun
<1> QED
    BY <1>1, SkipAlways, PTL

\* What the caches say of a code is so, but for what was stored from an outdated view.
THEOREM CachesAreRight == Spec => []CachesAgree
<1>1. SkipInv => CachesAgree
  <2> SUFFICES ASSUME SkipInv, cmd.phase # "added", NEW c \in Codes, c \notin stale
               PROVE  /\ hasBreaks[c] = 0 => BreakpointLines(c) \ {0} = {}
                      /\ skips[c] = 2 => BreakpointLines(c) = {}
                      /\ \A l \in BreakpointLines(c) : <<c, l>> \notin skipLines
    BY DEF CachesAgree
  <2>1. CacheOf(c) /\ bps \subseteq BreakLocations
    BY OldParts DEF SkipInv, CacheInv
  <2>2. \A l \in BreakpointLines(c) : <<c, l>> \in bps /\ l \in Lines0 /\ (l # 0 => l \in 1 .. LastLine)
    BY <2>1, TraceDispatchAssumption DEF BreakpointLines, Lines0
  <2> QED
    BY <2>1, <2>2 DEF CacheOf, HasLine
<1> QED
    BY <1>1, SkipAlways, PTL

-----------------------------------------------------------------------------
(***************************************************************************)
(* Stops have a reason: a thread that is in a trace function for a place   *)
(* where no breakpoint was since it came there has not read one either.    *)
(***************************************************************************)
ArmOf(t) ==
    /\ pc[t] \in {"fetch", "decide"} /\ event[t] = "call" => Top(t).line = 0
    /\ pc[t] \in {"fetch", "decide"} /\ event[t] \in {"call", "line"} /\ "armed" \notin marks[t] =>
           /\ <<Top(t).code, Top(t).line>> \notin bps
           /\ pc[t] = "decide" => Top(t).line \notin view[t].lines
    /\ "removed" \notin marks[t]
ArmInv == TypeInv /\ \A t \in Threads : ArmOf(t)

\* u stays where it is, and what it is told of a breakpoint it is told of in time
Unmoved(u) ==
    /\ FramesKept(u) /\ pc'[u] = pc[u] /\ event'[u] = event[u] /\ view'[u] = view[u]
    /\ "armed" \in marks[u] => "armed" \in marks'[u]
    /\ "removed" \in marks'[u] => "removed" \in marks[u]
    /\ pc[u] # "run" /\ <<Top(u).code, Top(u).line>> \in bps' \ bps => "armed" \in marks'[u]

LEMMA UnmovedKeeps ==
    ASSUME TypeInv, NEW u \in Threads, ArmOf(u), Unmoved(u)
    PROVE  ArmOf(u)'
<1>1. ASSUME pc[u] \in {"fetch", "decide"}
      PROVE  Top(u)'.code = Top(u).code /\ Top(u)'.line = Top(u).line
    BY <1>1, FramesKeptFacts, ThreadFacts DEF Unmoved
<1> QED
    BY <1>1 DEF ArmOf, Unmoved

LEMMA UnmovedOthers ==
    ASSUME TypeInv, NEW t \in Threads, OthersKept(t), bps' = bps,
           \A u \in Threads : u # t =>
               pc'[u] = pc[u] /\ event'[u] = event[u] /\ view'[u] = view[u] /\ marks'[u] = marks[u]
    PROVE  \A u \in Threads : u # t => Unmoved(u)
BY DEF Unmoved, FramesKept, OthersKept

\* A thread that is not in a trace function, or that handles an exception or a return.
LEMMA ArmIdle ==
    ASSUME NEW t \in Threads, "removed" \notin marks'[t],
           pc'[t] \in {"run", "wait"} \/ event'[t] \in {"exception", "return"}
    PROVE  ArmOf(t)'
BY DEF ArmOf

LEMMA ArmProgram ==
    ASSUME TypeInv, \A u \in Threads : ArmOf(u), NEW t \in Threads, Program(t)
    PROVE  \A u \in Threads : ArmOf(u)'
<1>1. ASSUME NEW c \in Codes, Call(t, c)
      PROVE  (\A u \in Threads : u # t => Unmoved(u)) /\ ArmOf(t)'
  <2>1. OthersKept(t) /\ Top(t)'.code = c /\ Top(t)'.line = 0
    BY <1>1, CallFacts
  <2>2. /\ Fire(t, "call") /\ UNCHANGED <<view, bps>>
        /\ marks' = [marks EXCEPT ![t] = IF <<c, 0>> \in bps \/ <<c, 0>> = cmd.loc
                                         THEN {"armed"} ELSE {}]
    BY <1>1 DEF Call
  <2>3. /\ pc'[t] = "fetch" /\ \A u \in Threads : u # t => pc'[u] = pc[u] /\ event'[u] = event[u]
    BY <2>2, FiredFacts
  <2>4. /\ <<c, 0>> \in bps => "armed" \in marks'[t]
        /\ "removed" \notin marks'[t]
        /\ \A u \in Threads : u # t => marks'[u] = marks[u]
    BY <2>2, OldParts DEF MapTypes
  <2> QED
    BY <2>1, <2>2, <2>3, <2>4, UnmovedOthers DEF ArmOf
<1>2. ASSUME NEW l \in 1 .. LastLine, Advance(t, l)
      PROVE  (\A u \in Threads : u # t => Unmoved(u)) /\ ArmOf(t)'
  <2> DEFINE m == Marks(t, Top(t), l, Depth(t))
  <2>1. OthersKept(t) /\ Top(t)' = [Top(t) EXCEPT !.line = l] /\ Top(t) \in FrameType
    BY <1>2, AdvanceFacts, ThreadFacts
  <2>2. Top(t)'.code = Top(t).code /\ Top(t)'.line = l
    BY <2>1 DEF FrameType
  <2>3. /\ pc[t] = "run"
        /\ IF Traced(t) THEN Fire(t, "line") ELSE UNCHANGED <<pc, event>>
        /\ UNCHANGED <<view, bps>> /\ marks' = [marks EXCEPT ![t] = m]
    BY <1>2 DEF Advance
  <2>4. "removed" \notin m /\ (<<Top(t).code, l>> \in bps => "armed" \in m)
    BY DEF Marks
  <2> HIDE DEF m
  <2>5. /\ Traced(t) => pc'[t] = "fetch" /\ event'[t] = "line"
        /\ ~Traced(t) => pc'[t] = "run"
        /\ \A u \in Threads : u # t => pc'[u] = pc[u] /\ event'[u] = event[u] /\ marks'[u] = marks[u]
        /\ marks'[t] = m
    BY <2>3, FiredFacts, OldParts DEF MapTypes
  <2> QED
    BY <2>1, <2>2, <2>3, <2>4, <2>5, UnmovedOthers DEF ArmOf
<1>3. ASSUME Raise(t) \/ Leave(t)
      PROVE  (\A u \in Threads : u # t => Unmoved(u)) /\ ArmOf(t)'
  <2>1. UNCHANGED <<view, bps>> /\ marks' = [marks EXCEPT ![t] = {}] /\ pc[t] = "run"
    BY <1>3 DEF Raise, Leave
  <2>2. OthersKept(t)
    BY <1>3, LeaveFacts DEF Raise, OthersKept, Depth
  <2>3. \/ \E ev \in {"exception", "return"} : Fire(t, ev)
        \/ UNCHANGED <<pc, event>>
    BY <1>3 DEF Raise, Leave
  <2>4. /\ \A u \in Threads : u # t => pc'[u] = pc[u] /\ event'[u] = event[u]
        /\ pc'[t] = "run" \/ event'[t] \in {"exception", "return"}
    BY <2>1, <2>3, FiredFacts
  <2>5. marks'[t] = {} /\ \A u \in Threads : u # t => marks'[u] = marks[u]
    BY <2>1, OldParts DEF MapTypes
  <2> QED
    BY <2>1, <2>2, <2>4, <2>5, UnmovedOthers, ArmIdle
<1>4. (\A u \in Threads : u # t => Unmoved(u)) /\ ArmOf(t)'
    BY <1>1, <1>2, <1>3 DEF Program
<1> QED
    BY <1>4, UnmovedKeeps

\* The end of a trace function.
LEMMA ArmEnds ==
    ASSUME TypeInv, \A u \in Threads : ArmOf(u), NEW t \in Threads, OthersKept(t), EndCallback(t),
           bps' = bps, marks' = marks \/ marks' = [marks EXCEPT ![t] = {}]
    PROVE  \A u \in Threads : ArmOf(u)'
<1>1. pc'[t] = "run" /\ OthersRest(t)
    BY EndCallbackFacts
<1>2. "removed" \notin marks'[t] /\ \A u \in Threads : u # t => marks'[u] = marks[u]
    BY OldParts DEF MapTypes, ArmOf
<1> QED
    BY <1>1, <1>2, UnmovedOthers, UnmovedKeeps, ArmIdle DEF OthersRest

LEMMA ArmGoesOn ==
    ASSUME TypeInv, \A u \in Threads : ArmOf(u), NEW t \in Threads, pc[t] # "run",
           NEW trace \in TraceKinds, NEW left \in BOOLEAN, FrameGoesOn(t, trace, left),
           UNCHANGED <<bps, marks>>
    PROVE  \A u \in Threads : ArmOf(u)'
<1>1. OthersKept(t) /\ EndCallback(t)
    BY FrameGoesOnFacts
<1> QED
    BY <1>1, ArmEnds

LEMMA ArmStops ==
    ASSUME TypeInv, \A u \in Threads : ArmOf(u), NEW t \in Threads, pc[t] = "decide",
           NEW d, SetSuspend(t, d), NEW m, marks' = [marks EXCEPT ![t] = m], "removed" \notin m
    PROVE  \A u \in Threads : ArmOf(u)'
<1>1. /\ \E S \in SUBSET Threads : stack' = SetTrace(stack, S, Depths)
      /\ pc' = [pc EXCEPT ![t] = "wait"] /\ UNCHANGED <<event, view, bps>>
    BY DEF SetSuspend
<1>2. \A u \in Threads : FramesKept(u)
    BY <1>1, TracedAll
<1>3. /\ pc'[t] = "wait" /\ marks'[t] = m
      /\ \A u \in Threads : u # t => pc'[u] = pc[u] /\ marks'[u] = marks[u]
    BY <1>1, OldParts DEF MapTypes
<1>4. \A u \in Threads : u # t => Unmoved(u)
    BY <1>1, <1>2, <1>3 DEF Unmoved
<1> QED
    BY <1>3, <1>4, UnmovedKeeps, ArmIdle

LEMMA ArmCallback ==
    ASSUME TypeInv, \A u \in Threads : ArmOf(u), NEW t \in Threads,
           TraceCall(t) \/ Dispatch(t) \/ LeaveWait(t)
    PROVE  \A u \in Threads : ArmOf(u)'
<1>1. CASE pc[t] = "fetch" /\ TracerSkips(t)
  <2>1. FrameGoesOn(t, Untraced(t), FALSE) /\ UNCHANGED <<bps, marks>>
    BY <1>1 DEF TracerSkips, BackToProgram
  <2> QED
    BY <1>1, <2>1, UntracedKind, ArmGoesOn
<1>2. CASE pc[t] = "fetch" /\ TracerDispatches(t)
  <2> DEFINE v == [lines |-> BreakpointLines(Top(t).code), any |-> BreakpointsForFile(Top(t).code),
                   skip |-> CanSkip(t), step |-> info[t].step, stop |-> info[t].stop]
  <2>1. /\ pc' = [pc EXCEPT ![t] = "decide"] /\ view' = [view EXCEPT ![t] = v]
        /\ UNCHANGED <<stack, event, bps, marks>>
    BY <1>2 DEF TracerDispatches, history
  <2>2. /\ pc'[t] = "decide" /\ view'[t] = v
        /\ \A u \in Threads : u # t => pc'[u] = pc[u] /\ view'[u] = view[u]
    BY <2>1, OldParts
  <2>3. OthersKept(t) /\ Top(t)' = Top(t)
    BY <2>1 DEF OthersKept, Depth, Top
  <2>4. Top(t).line \in v.lines => <<Top(t).code, Top(t).line>> \in bps
    <3>1. \A b \in bps : b = <<b[1], b[2]>>
      BY OldParts, TraceDispatchAssumption
    <3> QED
      BY <3>1 DEF BreakpointLines
  <2> HIDE DEF v
  <2>5. ArmOf(t)'
    BY <1>2, <2>1, <2>2, <2>3, <2>4 DEF ArmOf
  <2> QED
    BY <2>1, <2>2, <2>3, <2>5, UnmovedOthers, UnmovedKeeps
<1>3. CASE pc[t] = "decide" /\ (SkipFile(t) \/ SkipFunction(t) \/ SkipLine(t) \/ GoesOn(t))
  <2>1. /\ \E trace \in TraceKinds, left \in BOOLEAN : FrameGoesOn(t, trace, left)
        /\ UNCHANGED <<bps, marks>>
    <3>1. CASE SkipFile(t) \/ SkipFunction(t)
      BY <1>3, <3>1, UntracedKind DEF SkipFile, SkipFunction, FrameSkipped, BackToProgram
    <3>2. CASE SkipLine(t)
      BY <3>2 DEF SkipLine, BackToProgram, TraceKinds
    <3>3. CASE GoesOn(t)
      BY <3>3 DEF GoesOn, TraceKinds
    <3> QED
      BY <1>3, <3>1, <3>2, <3>3
  <2> QED
    BY <1>3, <2>1, ArmGoesOn
<1>4. CASE pc[t] = "decide" /\ StopOnBreakpoint(t)
  <2> DEFINE m == IF "armed" \in marks[t] \/ <<Top(t).code, Top(t).line>> \in bps
                  THEN {} ELSE {"removed"}
  <2>1. SetSuspend(t, Depth(t)) /\ marks' = [marks EXCEPT ![t] = m] /\ Breakpoint(t)
    BY <1>4 DEF StopOnBreakpoint
  <2>2. "armed" \in marks[t]
    BY <1>4, <2>1 DEF Breakpoint, FunctionBreakpoint, ArmOf
  <2>3. m = {}
    BY <2>2
  <2> QED
    BY <1>4, <2>1, <2>3, ArmStops
<1>5. CASE pc[t] = "decide" /\ StopForStep(t)
  <2>1. (\E d : SetSuspend(t, d)) /\ marks' = [marks EXCEPT ![t] = {}]
    BY <1>5 DEF StopForStep
  <2> QED
    BY <1>5, <2>1, ArmStops
<1>6. CASE pc[t] = "decide" /\ WaitSuspended(t)
  <2>1. /\ pc' = [pc EXCEPT ![t] = "wait"] /\ marks' = [marks EXCEPT ![t] = {}]
        /\ UNCHANGED <<stack, event, view, bps>>
    BY <1>6 DEF WaitSuspended
  <2>2. /\ pc'[t] = "wait" /\ marks'[t] = {} /\ OthersKept(t)
        /\ \A u \in Threads : u # t => pc'[u] = pc[u] /\ marks'[u] = marks[u]
    BY <2>1, OldParts DEF MapTypes, OthersKept, Depth
  <2> QED
    BY <2>1, <2>2, UnmovedOthers, UnmovedKeeps, ArmIdle
<1>7. CASE LeaveWait(t)
  <2>1. OthersKept(t) /\ EndCallback(t) /\ bps' = bps /\ marks' = [marks EXCEPT ![t] = {}]
    BY <1>7, LeaveWaitFacts
  <2> QED
    BY <2>1, ArmEnds
<1> QED
    BY <1>1, <1>2, <1>3, <1>4, <1>5, <1>6, <1>7 DEF TraceCall, Dispatch

\* Commands do not move a thread, and say so when they set a breakpoint where it is.
LEMMA ArmCommand ==
    ASSUME TypeInv, \A u \in Threads : ArmOf(u),
           Command \/ \E t \in Threads : \E step, target : StepRequest(t, step, target)
    PROVE  \A u \in Threads : ArmOf(u)'
<1>1. UNCHANGED <<pc, event, view>>
    BY DEF Command, AddBreakpoint, RemoveBreakpoint, BreakpointAdded, TraceExistingFrames,
           ClearFilters, Pause, Continue, StepRequest, program
<1>2. stack' = stack \/ \E S \in SUBSET Threads : stack' = SetTrace(stack, S, Depths)
    BY DEF Command, AddBreakpoint, RemoveBreakpoint, BreakpointAdded, TraceExistingFrames,
           ClearFilters, Pause, Continue, StepRequest, program
<1>3. \A u \in Threads : FramesKept(u)
    BY <1>2, TracedAll DEF FramesKept, Depth
<1>4. ASSUME NEW u \in Threads
      PROVE  /\ "armed" \in marks[u] => "armed" \in marks'[u]
             /\ "removed" \in marks'[u] => "removed" \in marks[u]
             /\ pc[u] # "run" /\ <<Top(u).code, Top(u).line>> \in bps' \ bps => "armed" \in marks'[u]
  <2>1. ASSUME NEW loc \in BreakLocations, AddBreakpoint(loc)
        PROVE  /\ "armed" \in marks[u] => "armed" \in marks'[u]
               /\ "removed" \in marks'[u] => "removed" \in marks[u]
               /\ pc[u] # "run" /\ <<Top(u).code, Top(u).line>> \in bps' \ bps => "armed" \in marks'[u]
    <3>1. pc[u] # "run" => Depth(u) > 0
      BY ThreadFacts
    <3> QED
      BY <2>1, <3>1 DEF AddBreakpoint, IsAt
  <2>2. ASSUME NEW loc \in BreakLocations, RemoveBreakpoint(loc)
        PROVE  /\ bps' \subseteq bps /\ ("armed" \in marks[u] => "armed" \in marks'[u])
               /\ "removed" \in marks'[u] => "removed" \in marks[u]
    BY <2>2 DEF RemoveBreakpoint
  <2>3. ASSUME NEW S, Released(S)
        PROVE  /\ "armed" \in marks[u] => "armed" \in marks'[u]
               /\ "removed" \in marks'[u] => "removed" \in marks[u]
    BY <2>3 DEF Released
  <2>4. ASSUME (\E S : Continue(S)) \/ \E t \in Threads : \E step, target : StepRequest(t, step, target)
        PROVE  bps' = bps /\ \E S : Released(S)
    BY <2>4 DEF Continue, StepRequest
  <2>5. ASSUME BreakpointAdded \/ TraceExistingFrames \/ ClearFilters \/ \E t \in Threads : Pause(t)
        PROVE  UNCHANGED <<bps, marks>>
    BY <2>5 DEF BreakpointAdded, TraceExistingFrames, ClearFilters, Pause
  <2> QED
    BY <2>1, <2>2, <2>3, <2>4, <2>5 DEF Command
<1>5. \A u \in Threads : Unmoved(u)
    BY <1>1, <1>3, <1>4 DEF Unmoved
<1> QED
    BY <1>5, UnmovedKeeps

\* Nobody stops for a breakpoint that is not there, or was removed before it was reached.
THEOREM RemovedAreNotHit == Spec => []RemovedNotHit
<1>1. Init => ArmInv
  <2> SUFFICES ASSUME Init PROVE ArmInv
    OBVIOUS
  <2>1. \A t \in Threads : ArmOf(t)
    BY DEF Init, ArmOf
  <2> QED
    BY <2>1, InitTypes DEF ArmInv
<1>2. ArmInv /\ [Next]_vars => ArmInv'
  <2> SUFFICES ASSUME ArmInv, [Next]_vars PROVE ArmInv'
    OBVIOUS
  <2>1. TypeInv /\ (\A u \in Threads : ArmOf(u)) /\ TypeInv'
    BY TypeStep DEF ArmInv
  <2>2. ASSUME NEW t \in Threads, Callback(t)
        PROVE  \/ TraceCall(t) \/ Dispatch(t) \/ LeaveWait(t)
               \/ \E step, target : StepRequest(t, step, target)
    BY <2>2 DEF Callback
  <2>3. CASE Next
    BY <2>1, <2>2, <2>3, ArmProgram, ArmCallback, ArmCommand DEF Next, ArmInv
  <2>4. CASE UNCHANGED vars
    <3>1. \A u \in Threads : Unmoved(u)
      BY <2>4 DEF vars, program, history, Unmoved, FramesKept, Depth
    <3> QED
      BY <2>1, <3>1, UnmovedKeeps DEF ArmInv
  <2> QED
    BY <2>3, <2>4
<1>3. ArmInv => RemovedNotHit
    BY DEF ArmInv, ArmOf, RemovedNotHit
<1> QED
    BY <1>1, <1>2, <1>3, PTL DEF Spec

-----------------------------------------------------------------------------
(***************************************************************************)
(* Steps.  While the promise of a step holds, either the frame it waits    *)
(* for is there, traced, and seen by ThreadTracer, or the step looks for   *)
(* any line and the frames it may stop in are traced.  A thread that came  *)
(* to a line where its step has to stop is in a trace function that has    *)
(* read a step which ends there, and may not skip the line.                *)
(***************************************************************************)
Stepping(t) == info[t].state = "run" /\ promise[t].step # None /\ ~promise[t].lost
Awake(f, step) == f.trace \in {"global", "dispatch"} \/ Excluded(f.code, step)

\* the step has become a step into, or was one
Seeks(t) ==
    /\ info[t].step \in Into
    /\ ForceCheckProjectScope(info[t].step) <=> ForceCheckProjectScope(promise[t].step)
    /\ \A d \in 1 .. Depth(t) : Decided(t, d) => Awake(stack[t][d], info[t].step)
    /\ pc[t] = "decide" /\ event[t] # "return" =>
           /\ view[t].step = info[t].step
           /\ view[t].skip => Excluded(Top(t).code, info[t].step)

\* the target of a smart step is not the function of the frame at depth d, called from
\* where it was called
NoTarget(t, d) == info[t].target # <<stack[t][d].code, stack[t][d - 1].line>>
\* the step waits for the frame at the depth of its promise
Awaits(t, b) ==
    /\ info[t].step \notin Into /\ info[t].step = promise[t].step
    /\ info[t].stop = b /\ b \in 1 .. Depth(t)
    /\ stack[t][b].code \notin Internal /\ stack[t][b].trace \in {"global", "dispatch"}
    /\ info[t].step \notin Return => ~Filtered(stack[t][b].code)
    /\ info[t].step \in Return /\ JustMyCode => b > 1 /\ ~Filtered(stack[t][b - 1].code)
    /\ \A d \in 1 .. b - 1 : Awake(stack[t][d], info[t].step)
    /\ info[t].step = "smart" /\ Decided(t, b + 1) =>
           Awake(stack[t][b + 1], "smart") \/ NoTarget(t, b + 1)
    /\ pc[t] = "decide" =>
           /\ Depth(t) = b => event[t] # "return" /\ ~view[t].skip
           /\ event[t] # "return" => view[t].step = info[t].step /\ view[t].stop = b
           /\ event[t] # "return" /\ info[t].step = "smart" /\ Depth(t) = b + 1 => ~view[t].skip
Waits(t) == Awaits(t, promise[t].base)
StepOf(t) == pc[t] # "wait" /\ Stepping(t) => Seeks(t) \/ Waits(t)

\* a step that ends at the line at which t is
StopsAt(t, step, stop) ==
    \/ step \in Into /\ ~Excluded(Top(t).code, step)
    \/ step \in Over /\ stop = Depth(t)
    \/ step = "smart" /\ stop = Depth(t) - 1 /\ Depth(t) > 1 /\ ~NoTarget(t, Depth(t))
StopOf(t) ==
    "step" \in marks[t] =>
        /\ pc[t] \in {"fetch", "decide"} /\ event[t] = "line" /\ ~Filtered(Top(t).code)
        /\ \/ info[t].state = "suspend"
           \/ pc[t] = "fetch" /\ StopsAt(t, info[t].step, info[t].stop)
           \/ pc[t] = "decide" /\ StopsAt(t, view[t].step, view[t].stop)
        /\ pc[t] = "decide" => ~view[t].skip
WaitOf(t) == pc[t] = "wait" => at[t] >= Depth(t) - 1

StepInv == SkipInv /\ \A t \in Threads : StepOf(t) /\ StopOf(t) /\ WaitOf(t)

\* A thread that is at the most suspended, or resumed, by what another one does.
Aside(u) ==
    /\ FramesKept(u)
    /\ pc'[u] = pc[u] /\ event'[u] = event[u] /\ view'[u] = view[u] /\ at'[u] = at[u]
    /\ "step" \in marks'[u] => "step" \in marks[u]
    /\ \/ info'[u] = info[u] /\ promise'[u] = promise[u]
       \/ info'[u].state = "suspend"
       \/ "step" \notin marks'[u] /\ (pc[u] = "wait" \/ promise'[u].step = None)

LEMMA KeptFrames ==
    ASSUME TypeInv, NEW u \in Threads, FramesKept(u)
    PROVE  \A d \in 1 .. Depth(u) :
               /\ stack'[u][d].code = stack[u][d].code /\ stack'[u][d].line = stack[u][d].line
               /\ stack[u][d].trace \in {"global", "dispatch"} =>
                      stack'[u][d].trace \in {"global", "dispatch"}
               /\ \A step : Awake(stack[u][d], step) => Awake(stack'[u][d], step)
<1> SUFFICES ASSUME NEW d \in 1 .. Depth(u)
             PROVE  /\ stack'[u][d].code = stack[u][d].code /\ stack'[u][d].line = stack[u][d].line
                    /\ stack[u][d].trace \in {"global", "dispatch"} =>
                           stack'[u][d].trace \in {"global", "dispatch"}
                    /\ \A step : Awake(stack[u][d], step) => Awake(stack'[u][d], step)
    OBVIOUS
<1>1. stack[u][d] \in FrameType
    BY ThreadFacts
<1>2. stack'[u][d] = stack[u][d] \/ stack'[u][d] = Traced_(stack[u][d])
    BY DEF FramesKept
<1> QED
    BY <1>1, <1>2, TracedIs DEF Awake

LEMMA AsideSeeks ==
    ASSUME TypeInv, NEW u \in Threads, Aside(u), info'[u] = info[u], promise'[u] = promise[u],
           Seeks(u)
    PROVE  Seeks(u)'
<1>1. Depth(u)' = Depth(u) /\ pc'[u] = pc[u] /\ event'[u] = event[u] /\ view'[u] = view[u]
    BY DEF Aside, FramesKept
<1>2. \A d \in 1 .. Depth(u)' : Decided(u, d)' => Awake(stack'[u][d], info[u].step)
    BY <1>1, KeptFrames DEF Seeks, Decided, Aside
<1>3. Depth(u) > 0 => Top(u)'.code = Top(u).code
    BY FramesKeptFacts DEF Aside
<1>4. pc[u] = "decide" => Depth(u) > 0
    BY ThreadFacts
<1> QED
    BY <1>1, <1>2, <1>3, <1>4 DEF Seeks, Excluded, ApplyFilesFilter, ForceCheckProjectScope

LEMMA AsideWaits ==
    ASSUME TypeInv, NEW u \in Threads, Aside(u), info'[u] = info[u], promise'[u] = promise[u],
           Waits(u)
    PROVE  Waits(u)'
<1> PICK b : b = promise[u].base
    OBVIOUS
<1> DEFINE i == info[u]
<1>1. /\ Depth(u)' = Depth(u) /\ pc'[u] = pc[u] /\ event'[u] = event[u] /\ view'[u] = view[u]
      /\ Depth(u) \in Nat
    BY ThreadFacts DEF Aside, FramesKept
<1>2. Awaits(u, b)
    BY DEF Waits
<1>3. \A d \in 1 .. Depth(u) :
          /\ stack'[u][d].code = stack[u][d].code /\ stack'[u][d].line = stack[u][d].line
          /\ stack[u][d].trace \in {"global", "dispatch"} =>
                 stack'[u][d].trace \in {"global", "dispatch"}
          /\ \A step : Awake(stack[u][d], step) => Awake(stack'[u][d], step)
    BY KeptFrames DEF Aside
<1>4. b \in 1 .. Depth(u) /\ (b > 1 => b - 1 \in 1 .. Depth(u))
    BY <1>1, <1>2 DEF Awaits
<1>5. /\ stack'[u][b].code \notin Internal /\ stack'[u][b].trace \in {"global", "dispatch"}
      /\ i.step \notin Return => ~Filtered(stack'[u][b].code)
      /\ i.step \in Return /\ JustMyCode => b > 1 /\ ~Filtered(stack'[u][b - 1].code)
    BY <1>2, <1>3, <1>4 DEF Awaits
<1>6. ASSUME NEW d \in 1 .. b - 1 PROVE Awake(stack'[u][d], i.step)
  <2>1. d \in 1 .. Depth(u)
    BY <1>1, <1>4
  <2>2. Awake(stack[u][d], i.step)
    BY <1>2 DEF Awaits
  <2> QED
    BY <1>3, <2>1, <2>2
<1>7. i.step = "smart" /\ Decided(u, b + 1)' =>
          Awake(stack'[u][b + 1], "smart") \/ NoTarget(u, b + 1)'
  <2> SUFFICES ASSUME i.step = "smart", Decided(u, b + 1)'
               PROVE  Awake(stack'[u][b + 1], "smart") \/ NoTarget(u, b + 1)'
    OBVIOUS
  <2>1. Decided(u, b + 1) /\ b + 1 \in 1 .. Depth(u) /\ (b + 1) - 1 = b
    BY <1>1, <1>4 DEF Decided
  <2>2. Awake(stack[u][b + 1], "smart") \/ NoTarget(u, b + 1)
    BY <1>2, <2>1 DEF Awaits
  <2> QED
    BY <1>3, <1>4, <2>1, <2>2 DEF NoTarget
<1>8. Awaits(u, b)'
    BY <1>1, <1>2, <1>5, <1>6, <1>7 DEF Awaits, Filtered, ApplyFilesFilter
<1> QED
    BY <1>8 DEF Waits

LEMMA AsideKeeps ==
    ASSUME StepInv, NEW u \in Threads, Aside(u)
    PROVE  StepOf(u)' /\ StopOf(u)' /\ WaitOf(u)'
<1>1. TypeInv /\ StepOf(u) /\ StopOf(u) /\ WaitOf(u) /\ Depth(u) \in Nat
    BY ThreadFacts DEF StepInv, SkipInv
<1>2. /\ Depth(u)' = Depth(u) /\ pc'[u] = pc[u] /\ event'[u] = event[u] /\ view'[u] = view[u]
      /\ at'[u] = at[u]
    BY DEF Aside, FramesKept
<1>3. WaitOf(u)'
    BY <1>1, <1>2 DEF WaitOf
<1>4. StepOf(u)'
  <2> SUFFICES ASSUME pc'[u] # "wait", Stepping(u)' PROVE Seeks(u)' \/ Waits(u)'
    BY DEF StepOf
  <2>1. info'[u] = info[u] /\ promise'[u] = promise[u]
    BY <1>2 DEF Aside, Stepping
  <2>2. Seeks(u) \/ Waits(u)
    BY <1>1, <1>2, <2>1 DEF StepOf, Stepping
  <2> QED
    BY <1>1, <2>1, <2>2, AsideSeeks, AsideWaits
<1>5. StopOf(u)'
  <2> SUFFICES ASSUME "step" \in marks'[u]
               PROVE  /\ pc'[u] \in {"fetch", "decide"} /\ event'[u] = "line" /\ ~Filtered(Top(u)'.code)
                      /\ \/ info'[u].state = "suspend"
                         \/ pc'[u] = "fetch" /\ StopsAt(u, info[u].step, info[u].stop)'
                         \/ pc'[u] = "decide" /\ StopsAt(u, view[u].step, view[u].stop)'
                      /\ pc'[u] = "decide" => ~view'[u].skip
    BY DEF StopOf, Filtered, ApplyFilesFilter
  <2>1. /\ pc[u] \in {"fetch", "decide"} /\ event[u] = "line" /\ ~Filtered(Top(u).code)
        /\ \/ info[u].state = "suspend"
           \/ pc[u] = "fetch" /\ StopsAt(u, info[u].step, info[u].stop)
           \/ pc[u] = "decide" /\ StopsAt(u, view[u].step, view[u].stop)
        /\ pc[u] = "decide" => ~view[u].skip
    BY <1>1 DEF Aside, StopOf
  <2>2. Depth(u) > 0 /\ Top(u)'.code = Top(u).code
    BY <1>1, <2>1, ThreadFacts, FramesKeptFacts DEF Aside
  <2>3. CASE info'[u].state = "suspend"
    BY <1>2, <2>1, <2>2, <2>3
  <2>4. CASE info'[u] = info[u]
    <3>1. Depth(u) > 1 => NoTarget(u, Depth(u))' = NoTarget(u, Depth(u))
      <4>1. Depth(u) > 1 => /\ stack'[u][Depth(u)].code = stack[u][Depth(u)].code
                            /\ stack'[u][Depth(u) - 1].line = stack[u][Depth(u) - 1].line
        BY <1>1, KeptFrames DEF Aside
      <4> QED
        BY <1>2, <2>4, <4>1 DEF NoTarget
    <3>2. ASSUME NEW step, NEW stop, StopsAt(u, step, stop)
          PROVE  \/ step \in Into /\ ~Excluded(Top(u)'.code, step)
                 \/ step \in Over /\ stop = Depth(u)'
                 \/ step = "smart" /\ stop = Depth(u)' - 1 /\ Depth(u)' > 1 /\ ~NoTarget(u, Depth(u))'
      BY <1>2, <2>2, <3>1, <3>2 DEF StopsAt
    <3>3. /\ StopsAt(u, info[u].step, info[u].stop) => StopsAt(u, info[u].step, info[u].stop)'
          /\ StopsAt(u, view[u].step, view[u].stop) => StopsAt(u, view[u].step, view[u].stop)'
      BY <1>2, <2>4, <3>2 DEF StopsAt
    <3> QED
      BY <1>2, <2>1, <2>2, <2>4, <3>3
  <2> QED
    BY <2>1, <2>3, <2>4 DEF Aside
<1> QED
    BY <1>3, <1>4, <1>5

\* A step of t alone.
LEMMA AsideAlone ==
    ASSUME TypeInv, NEW t \in Threads, OthersKept(t), OthersRest(t),
           \A u \in Threads : u # t =>
               info'[u] = info[u] /\ promise'[u] = promise[u] /\ marks'[u] = marks[u]
    PROVE  \A u \in Threads : u # t => Aside(u)
BY DEF Aside, FramesKept, OthersKept, OthersRest

LEMMA StepOfThread ==
    ASSUME StepInv, SkipInv', NEW t \in Threads, \A u \in Threads : u # t => Aside(u),
           StepOf(t)', StopOf(t)', WaitOf(t)'
    PROVE  StepInv'
<1>1. \A u \in Threads : u # t => StepOf(u)' /\ StopOf(u)' /\ WaitOf(u)'
    BY AsideKeeps
<1> QED
    BY <1>1 DEF StepInv

\* the frames of t up to its depth n are what they were, but for the line of the last one
FramesAre(t, n) == \A d \in 1 .. n :
    /\ stack'[t][d].code = stack[t][d].code /\ stack'[t][d].trace = stack[t][d].trace
    /\ d < n => stack'[t][d].line = stack[t][d].line

LEMMA AwaitsKept ==
    ASSUME TypeInv, NEW t \in Threads, NEW b, Awaits(t, b), NEW n \in Nat, b <= n,
           Depth(t)' \in Nat, n <= Depth(t)', n <= Depth(t), FramesAre(t, n), pc'[t] # "decide",
           info'[t].step = info[t].step, info'[t].stop = b, info'[t].target = info[t].target,
           promise'[t] = promise[t],
           info[t].step = "smart" /\ Decided(t, b + 1)' =>
               \/ b + 1 <= n /\ Decided(t, b + 1)
               \/ Awake(stack'[t][b + 1], "smart")
    PROVE  Awaits(t, b)'
<1>1. /\ Depth(t) \in Nat /\ b \in 1 .. Depth(t) /\ b \in 1 .. n /\ b \in 1 .. Depth(t)'
      /\ b > 1 => b - 1 \in 1 .. n
    BY ThreadFacts DEF Awaits
<1>2. \A d \in 1 .. n : /\ stack'[t][d].code = stack[t][d].code
                        /\ stack'[t][d].trace = stack[t][d].trace
                        /\ \A step : Awake(stack[t][d], step) => Awake(stack'[t][d], step)
    BY DEF FramesAre, Awake
<1>3. /\ stack'[t][b].code \notin Internal /\ stack'[t][b].trace \in {"global", "dispatch"}
      /\ info[t].step \notin Return => ~Filtered(stack'[t][b].code)
      /\ info[t].step \in Return /\ JustMyCode => b > 1 /\ ~Filtered(stack'[t][b - 1].code)
    BY <1>1, <1>2 DEF Awaits
<1>4. ASSUME NEW d \in 1 .. b - 1 PROVE Awake(stack'[t][d], info[t].step)
  <2>1. d \in 1 .. n /\ Awake(stack[t][d], info[t].step)
    BY <1>1 DEF Awaits
  <2> QED
    BY <1>2, <2>1
<1>5. ASSUME info[t].step = "smart", Decided(t, b + 1)'
      PROVE  Awake(stack'[t][b + 1], "smart") \/ NoTarget(t, b + 1)'
  <2>1. CASE b + 1 <= n /\ Decided(t, b + 1)
    <3>1. b + 1 \in 1 .. n /\ (b + 1) - 1 = b
      BY <1>1, <2>1
    <3>2. Awake(stack[t][b + 1], "smart") \/ NoTarget(t, b + 1)
      BY <1>5, <2>1 DEF Awaits
    <3>3. stack'[t][b].line = stack[t][b].line /\ stack'[t][b + 1].code = stack[t][b + 1].code
      BY <1>1, <3>1 DEF FramesAre
    <3> QED
      BY <1>2, <3>1, <3>2, <3>3 DEF NoTarget
  <2> QED
    BY <1>5, <2>1
<1> QED
    BY <1>1, <1>3, <1>4, <1>5 DEF Awaits, Filtered, ApplyFilesFilter

\* what the program does outside of the trace functions
LEMMA ProgramSteps ==
    ASSUME TypeInv, NEW t \in Threads, pc[t] = "run", pc'[t] \in {"run", "fetch"}, StepOf(t),
           NEW n \in Nat, n <= Depth(t), Depth(t)' \in Nat, n <= Depth(t)', FramesAre(t, n),
           \A d : Decided(t, d)' => d <= n,
           info'[t].state = info[t].state, info'[t].step = info[t].step,
           info'[t].target = info[t].target, promise'[t] = promise[t],
           \A b : Awaits(t, b) => b <= n /\ info'[t].stop = b
    PROVE  StepOf(t)'
<1> SUFFICES ASSUME Stepping(t)' PROVE Seeks(t)' \/ Waits(t)'
    BY DEF StepOf
<1>1. Depth(t) \in Nat /\ (Seeks(t) \/ Waits(t))
    BY ThreadFacts DEF StepOf, Stepping
<1>2. CASE Seeks(t)
  <2>1. ASSUME NEW d \in 1 .. Depth(t)', Decided(t, d)'
        PROVE  Awake(stack'[t][d], info[t].step)
    <3>1. d \in 1 .. n /\ d \in 1 .. Depth(t)
      BY <1>1, <2>1
    <3>2. Awake(stack[t][d], info[t].step)
      BY <1>2, <3>1 DEF Seeks, Decided
    <3> QED
      BY <3>1, <3>2 DEF FramesAre, Awake
  <2>2. Seeks(t)'
    BY <1>2, <2>1 DEF Seeks, ForceCheckProjectScope
  <2> QED
    BY <2>2
<1>3. CASE Waits(t)
  <2> PICK b : b = promise[t].base
    OBVIOUS
  <2>1. Awaits(t, b) /\ b <= n /\ info'[t].stop = b /\ b \in 1 .. Depth(t)
    BY <1>3 DEF Waits, Awaits
  <2>2. Decided(t, b + 1)' => b + 1 <= n /\ Decided(t, b + 1)
    BY <1>1, <2>1 DEF Decided
  <2>3. Awaits(t, b)'
    BY <2>1, <2>2, AwaitsKept
  <2> QED
    BY <2>3 DEF Waits
<1> QED
    BY <1>1, <1>2, <1>3

LEMMA NoStop ==
    ASSUME NEW t \in Threads, "step" \notin marks'[t], pc'[t] # "wait"
    PROVE  StopOf(t)' /\ WaitOf(t)'
BY DEF StopOf, WaitOf

LEMMA CallSteps ==
    ASSUME StepInv, SkipInv', NEW t \in Threads, NEW c \in Codes, Call(t, c)
    PROVE  StepInv'
<1>1. TypeInv /\ StepOf(t) /\ Depth(t) \in Nat
    BY ThreadFacts DEF StepInv, SkipInv
<1>2. /\ OthersKept(t) /\ CallersKept(t, Depth(t)) /\ Depth(t)' = Depth(t) + 1
    BY <1>1, CallFacts
<1>3. /\ Fire(t, "call") /\ pc[t] = "run"
      /\ UNCHANGED <<view, at, info, promise>>
      /\ marks' = [marks EXCEPT ![t] = IF <<c, 0>> \in bps \/ <<c, 0>> = cmd.loc
                                       THEN {"armed"} ELSE {}]
    BY DEF Call
<1>4. /\ pc'[t] = "fetch" /\ \A u \in Threads : u # t => pc'[u] = pc[u] /\ event'[u] = event[u]
      /\ "step" \notin marks'[t] /\ \A u \in Threads : u # t => marks'[u] = marks[u]
    BY <1>1, <1>3, FiredFacts, OldParts DEF MapTypes
<1>5. \A u \in Threads : u # t => Aside(u)
    BY <1>1, <1>2, <1>3, <1>4, AsideAlone DEF OthersRest
<1>6. FramesAre(t, Depth(t)) /\ \A d : Decided(t, d)' => d <= Depth(t)
    BY <1>1, <1>2, <1>4 DEF FramesAre, CallersKept, Decided
<1>7. StepOf(t)'
    BY <1>1, <1>2, <1>3, <1>4, <1>6, ProgramSteps DEF Awaits
<1> QED
    BY <1>4, <1>5, <1>7, NoStop, StepOfThread

LEMMA RaiseSteps ==
    ASSUME StepInv, SkipInv', NEW t \in Threads, Raise(t)
    PROVE  StepInv'
<1>1. TypeInv /\ StepOf(t) /\ Depth(t) \in Nat
    BY ThreadFacts DEF StepInv, SkipInv
<1>2. /\ Fire(t, "exception") /\ pc[t] = "run"
      /\ UNCHANGED <<stack, view, at, info, promise>>
      /\ marks' = [marks EXCEPT ![t] = {}]
    BY DEF Raise
<1>3. /\ OthersKept(t) /\ FramesAre(t, Depth(t)) /\ Depth(t)' = Depth(t)
      /\ \A d : Decided(t, d)' => d <= Depth(t)
    BY <1>1, <1>2 DEF OthersKept, FramesAre, Depth, Decided
<1>4. /\ pc'[t] = "fetch" /\ \A u \in Threads : u # t => pc'[u] = pc[u] /\ event'[u] = event[u]
      /\ marks'[t] = {} /\ \A u \in Threads : u # t => marks'[u] = marks[u]
    BY <1>1, <1>2, FiredFacts, OldParts DEF MapTypes
<1>5. \A u \in Threads : u # t => Aside(u)
    BY <1>1, <1>2, <1>3, <1>4, AsideAlone DEF OthersRest
<1>6. StepOf(t)'
    BY <1>1, <1>2, <1>3, <1>4, ProgramSteps DEF Awaits
<1> QED
    BY <1>4, <1>5, <1>6, NoStop, StepOfThread

LEMMA LeaveSteps ==
    ASSUME StepInv, SkipInv', NEW t \in Threads, Leave(t)
    PROVE  StepInv'
<1>1. TypeInv /\ StepOf(t) /\ Depth(t) \in Nat /\ info[t] \in Infos
    BY ThreadFacts DEF StepInv, SkipInv
<1>2. /\ pc[t] = "run" /\ Depth(t) > 0 /\ UNCHANGED <<view, at, promise>>
      /\ marks' = [marks EXCEPT ![t] = {}]
    BY DEF Leave
<1>3. marks'[t] = {} /\ \A u \in Threads : u # t => marks'[u] = marks[u]
    BY <1>1, <1>2, OldParts DEF MapTypes
<1>4. /\ OthersKept(t) /\ CallersKept(t, Depth(t) - 1)
      /\ \/ LeftSilently(t) /\ Depth(t)' = Depth(t) - 1
         \/ Fire(t, "return") /\ UNCHANGED <<stack, info>>
    BY <1>1, LeaveFacts
<1>5. CASE LeftSilently(t) /\ Depth(t)' = Depth(t) - 1
  <2>1. /\ ~Traced(t) /\ pc' = pc /\ event' = event
        /\ info' = [info EXCEPT ![t] = ForgetFrame(@, Depth(t))]
    BY <1>5 DEF LeftSilently, Pop
  <2>2. /\ info'[t] = ForgetFrame(info[t], Depth(t))
        /\ \A u \in Threads : u # t => info'[u] = info[u]
    BY <1>1, <2>1, OldParts
  <2>3. /\ info'[t].state = info[t].state /\ info'[t].step = info[t].step
        /\ info'[t].target = info[t].target
        /\ info[t].stop # Depth(t) => info'[t].stop = info[t].stop
    BY <1>1, <2>2 DEF ForgetFrame, Infos, InfoType
  <2>4. \A b : Awaits(t, b) => b <= Depth(t) - 1 /\ info'[t].stop = b
    BY <1>1, <1>2, <2>1, <2>3 DEF Awaits, Traced, Top
  <2>5. FramesAre(t, Depth(t) - 1) /\ \A d : Decided(t, d)' => d <= Depth(t) - 1
    BY <1>1, <1>4, <1>5 DEF FramesAre, CallersKept, Decided
  <2>6. Depth(t) - 1 \in Nat
    BY <1>1, <1>2
  <2>7. StepOf(t)'
    BY <1>1, <1>2, <1>5, <2>1, <2>3, <2>4, <2>5, <2>6, ProgramSteps
  <2>8. \A u \in Threads : u # t => Aside(u)
    BY <1>1, <1>2, <1>3, <1>4, <2>1, <2>2, AsideAlone DEF OthersRest
  <2> QED
    BY <1>2, <1>3, <2>1, <2>7, <2>8, NoStop, StepOfThread
<1>6. CASE Fire(t, "return") /\ UNCHANGED <<stack, info>>
  <2>1. pc'[t] = "fetch" /\ \A u \in Threads : u # t => pc'[u] = pc[u] /\ event'[u] = event[u]
    BY <1>1, <1>6, FiredFacts
  <2>2. FramesAre(t, Depth(t)) /\ Depth(t)' = Depth(t) /\ \A d : Decided(t, d)' => d <= Depth(t)
    BY <1>1, <1>6 DEF FramesAre, Depth, Decided
  <2>3. StepOf(t)'
    BY <1>1, <1>2, <1>6, <2>1, <2>2, ProgramSteps DEF Awaits
  <2>4. \A u \in Threads : u # t => Aside(u)
    BY <1>1, <1>2, <1>3, <1>4, <1>6, <2>1, AsideAlone DEF OthersRest
  <2> QED
    BY <1>3, <2>1, <2>3, <2>4, NoStop, StepOfThread
<1> QED
    BY <1>4, <1>5, <1>6

LEMMA FilteredExcluded ==
    ASSUME NEW c, NEW step
    PROVE  /\ Filtered(c) => Excluded(c, step)
           /\ step \in Over \cup Return \cup {"smart"} =>
                  step \notin Into /\ step # None /\ ~(step \in Over /\ step \in Return)
           /\ step = "smart" => step \notin Over /\ step \notin Return /\ step # None
           /\ step \in Into => step # None /\ step # "smart"
BY DEF Filtered, Excluded, ApplyFilesFilter, Into, Over, Return, None

\* A thread that comes to a line where its step has to stop is in its trace function.
LEMMA AdvanceStops ==
    ASSUME StepInv, NEW t \in Threads, NEW l \in 1 .. LastLine, Advance(t, l),
           "step" \in marks'[t]
    PROVE  /\ Traced(t) /\ ~Filtered(Top(t).code)
           /\ StopsAt(t, info[t].step, info[t].stop)
<1> DEFINE f == Top(t)
           d == Depth(t)
           p == promise[t]
           i == info[t]
<1>1. /\ TypeInv /\ StepOf(t) /\ d \in Nat /\ d > 0 /\ pc[t] = "run" /\ stack[t][d] = f
      /\ i \in Infos
    BY ThreadFacts DEF StepInv, SkipInv, Advance, Top
<1>2. SteppedAt(t, f, d) /\ ~p.lost
  <2>1. marks'[t] = Marks(t, f, l, d)
    BY <1>1, OldParts DEF Advance, MapTypes
  <2>2. "step" \in Marks(t, f, l, d) => SteppedAt(t, f, d) /\ ~p.lost
    BY DEF Marks
  <2> QED
    BY <2>1, <2>2
<1>3. /\ i.state = "run" /\ ~Excluded(f.code, p.step)
      /\ \/ p.step \in Into
         \/ p.step \in Over /\ d <= p.base
         \/ p.step \in Return /\ d < p.base
         \/ p.step = "smart" /\ d = p.base + 1 /\ i.target = <<f.code, stack[t][d - 1].line>>
    BY <1>2 DEF SteppedAt
<1>4. p.step # None /\ ~Filtered(f.code)
    BY <1>3, FilteredExcluded
<1>5. Seeks(t) \/ Waits(t)
    BY <1>1, <1>2, <1>3, <1>4 DEF StepOf, Stepping
<1>6. CASE Seeks(t)
  <2>1. ~Excluded(f.code, i.step) /\ i.step \in Into
    BY <1>3, <1>6 DEF Seeks, Excluded, ApplyFilesFilter
  <2>2. Awake(f, i.step)
    BY <1>1, <1>6 DEF Seeks, Decided
  <2> QED
    BY <1>4, <2>1, <2>2 DEF Awake, Traced, StopsAt
<1>7. CASE Waits(t)
  <2> PICK b : b = p.base
    OBVIOUS
  <2>1. Awaits(t, b) /\ b \in 1 .. d /\ i.step = p.step /\ i.step \notin Into /\ i.stop = b
        /\ i.step # None
    BY <1>4, <1>7 DEF Waits, Awaits
  <2>2. CASE p.step \in Over /\ d <= b
    <3>1. d = b
      BY <1>1, <2>1, <2>2
    <3> QED
      BY <1>1, <1>4, <2>1, <2>2, <3>1 DEF Awaits, Traced, StopsAt
  <2>3. CASE p.step \in Return /\ d < b
    BY <1>1, <2>1, <2>3
  <2>4. CASE p.step = "smart" /\ d = b + 1 /\ i.target = <<f.code, stack[t][d - 1].line>>
    <3>1. Decided(t, b + 1) /\ ~NoTarget(t, b + 1) /\ stack[t][b + 1] = f
      BY <1>1, <2>1, <2>4 DEF Decided, NoTarget
    <3>2. Awake(f, "smart") /\ i.step = "smart"
      BY <2>1, <2>4, <3>1 DEF Awaits
    <3>3. Traced(t)
      BY <1>3, <2>4, <3>2 DEF Awake, Traced
    <3> QED
      BY <1>1, <1>4, <2>1, <2>4, <3>1, <3>2, <3>3 DEF StopsAt
  <2> QED
    BY <1>3, <2>1, <2>2, <2>3, <2>4
<1> QED
    BY <1>5, <1>6, <1>7

LEMMA AdvanceSteps ==
    ASSUME StepInv, SkipInv', NEW t \in Threads, NEW l \in 1 .. LastLine, Advance(t, l)
    PROVE  StepInv'
<1> DEFINE d == Depth(t)
<1>2. TypeInv /\ StepOf(t) /\ d \in Nat
    BY ThreadFacts DEF StepInv, SkipInv
<1>3. /\ OthersKept(t) /\ CallersKept(t, d - 1)
      /\ Depth(t)' = d /\ d > 0 /\ Top(t)' = [Top(t) EXCEPT !.line = l] /\ Top(t) \in FrameType
    BY <1>2, AdvanceFacts, ThreadFacts
<1>4. /\ pc[t] = "run"
      /\ IF Traced(t) THEN Fire(t, "line") ELSE UNCHANGED <<pc, event>>
      /\ UNCHANGED <<view, at, info, promise>>
      /\ marks' = [marks EXCEPT ![t] = Marks(t, Top(t), l, d)]
    BY DEF Advance
<1>5. /\ Traced(t) => pc'[t] = "fetch" /\ event'[t] = "line"
      /\ ~Traced(t) => pc'[t] = "run"
      /\ \A u \in Threads : u # t => pc'[u] = pc[u] /\ event'[u] = event[u]
    BY <1>2, <1>4, FiredFacts
<1>6. \A u \in Threads : u # t => marks'[u] = marks[u]
    BY <1>2, <1>4, OldParts DEF MapTypes
<1>7. \A u \in Threads : u # t => Aside(u)
    BY <1>2, <1>3, <1>4, <1>5, <1>6, AsideAlone DEF OthersRest
<1>8. Top(t)'.code = Top(t).code /\ Top(t)'.trace = Top(t).trace
    BY <1>3 DEF FrameType
<1>9. FramesAre(t, d) /\ \A e : Decided(t, e)' => e <= d
  <2>1. ASSUME NEW e \in 1 .. d
        PROVE  /\ stack'[t][e].code = stack[t][e].code /\ stack'[t][e].trace = stack[t][e].trace
               /\ e < d => stack'[t][e].line = stack[t][e].line
    <3>1. CASE e = d
      <4>1. stack'[t][d] = Top(t)' /\ stack[t][d] = Top(t)
        BY <1>3 DEF Top
      <4> QED
        BY <1>2, <1>8, <3>1, <4>1
    <3>2. CASE e \in 1 .. d - 1
      BY <1>3, <3>2 DEF CallersKept
    <3> QED
      BY <1>2, <3>1, <3>2
  <2> QED
    BY <1>2, <1>3, <2>1 DEF FramesAre, Decided
<1>10. StepOf(t)'
    BY <1>2, <1>3, <1>4, <1>5, <1>9, ProgramSteps DEF Awaits
<1>11. StopOf(t)'
  <2> SUFFICES ASSUME "step" \in marks'[t]
               PROVE  /\ pc'[t] = "fetch" /\ event'[t] = "line" /\ ~Filtered(Top(t)'.code)
                      /\ StopsAt(t, info[t].step, info[t].stop)'
    BY DEF StopOf, Filtered, ApplyFilesFilter
  <2>1. /\ Traced(t) /\ ~Filtered(Top(t).code)
        /\ StopsAt(t, info[t].step, info[t].stop)
    BY AdvanceStops
  <2>2. d > 1 => (NoTarget(t, Depth(t))' <=> NoTarget(t, d))
    <3>1. d > 1 => stack'[t][d].code = stack[t][d].code /\ stack'[t][d - 1].line = stack[t][d - 1].line
      BY <1>2, <1>9 DEF FramesAre
    <3> QED
      BY <1>3, <1>4, <3>1 DEF NoTarget
  <2>3. StopsAt(t, info[t].step, info[t].stop)'
    BY <1>3, <1>4, <1>8, <2>1, <2>2 DEF StopsAt
  <2> QED
    BY <1>5, <1>8, <2>1, <2>3
<1>12. WaitOf(t)'
    BY <1>5 DEF WaitOf
<1> QED
    BY <1>7, <1>10, <1>11, <1>12, StepOfThread

-----------------------------------------------------------------------------
(* The ends of a trace function *)

\* A frame in which the step may stop is not left untraced.
LEMMA GoesOnSteps ==
    ASSUME StepInv, SkipInv', NEW t \in Threads, pc[t] \in {"fetch", "decide"},
           NEW trace \in TraceKinds, NEW left \in BOOLEAN, FrameGoesOn(t, trace, left),
           info' = [info EXCEPT ![t] = Forget(t, @)], UNCHANGED <<promise, marks>>,
           "step" \notin marks[t],
           Stepping(t) /\ Seeks(t) /\ event[t] # "return" =>
               Awake([Top(t) EXCEPT !.trace = trace], info[t].step),
           \A b : Stepping(t) /\ Awaits(t, b) =>
               /\ event[t] = "return" => Depth(t) # b
               /\ event[t] # "return" /\ Depth(t) = b => trace \in {"global", "dispatch"}
               /\ event[t] # "return" /\ info[t].step = "smart" /\ Depth(t) = b + 1 =>
                      Awake([Top(t) EXCEPT !.trace = trace], "smart") \/ NoTarget(t, b + 1)
    PROVE  StepInv'
<1> DEFINE d == Depth(t)
           f == FrameIs(t, trace, left)
           g == [Top(t) EXCEPT !.trace = trace]
<1>1. /\ TypeInv /\ StepOf(t) /\ d \in Nat /\ d > 0 /\ info[t] \in Infos /\ Top(t) \in FrameType
    BY ThreadFacts DEF StepInv, SkipInv
<1>2. /\ EndCallback(t) /\ OthersKept(t) /\ CallersKept(t, d - 1)
      /\ event[t] = "return" => Depth(t)' = d - 1
      /\ event[t] # "return" => Depth(t)' = d /\ Top(t)' = f
    BY <1>1, FrameGoesOnFacts
<1>3. pc'[t] = "run" /\ OthersRest(t)
    BY <1>1, <1>2, EndCallbackFacts
<1>4. /\ info'[t].state = info[t].state /\ info'[t].step = info[t].step
      /\ info'[t].target = info[t].target
      /\ info'[t].stop = info[t].stop \/ (event[t] = "return" /\ info[t].stop = d)
      /\ \A u \in Threads : u # t => info'[u] = info[u]
  <2>1. info'[t] = Forget(t, info[t]) /\ \A u \in Threads : u # t => info'[u] = info[u]
    BY <1>1, OldParts
  <2>2. /\ Forget(t, info[t]).state = info[t].state /\ Forget(t, info[t]).step = info[t].step
        /\ Forget(t, info[t]).target = info[t].target
        /\ Forget(t, info[t]).stop = info[t].stop \/ (event[t] = "return" /\ info[t].stop = d)
    BY <1>1 DEF Forget, ForgetFrame, Infos, InfoType
  <2> QED
    BY <2>1, <2>2
<1>5. \A u \in Threads : u # t => Aside(u)
    BY <1>1, <1>2, <1>3, <1>4, AsideAlone
<1>6. /\ f.code = Top(t).code /\ f.line = Top(t).line /\ f.trace = trace
      /\ g.code = Top(t).code /\ g.trace = trace
      /\ \A step : Awake(g, step) => Awake(f, step)
    BY <1>1 DEF FrameIs, FrameType, Awake
<1> HIDE DEF f, g
<1>7. /\ \A e \in 1 .. d - 1 : stack'[t][e] = stack[t][e]
      /\ event[t] # "return" => stack'[t][d] = f /\ stack[t][d] = Top(t)
    BY <1>2 DEF CallersKept, Top
<1>8. StepOf(t)'
  <2> SUFFICES ASSUME Stepping(t)' PROVE Seeks(t)' \/ Waits(t)'
    BY DEF StepOf
  <2>1. Stepping(t) /\ (Seeks(t) \/ Waits(t))
    BY <1>1, <1>4 DEF StepOf, Stepping
  <2>2. CASE Seeks(t)
    <3>1. ASSUME NEW e \in 1 .. Depth(t)' PROVE Awake(stack'[t][e], info[t].step)
      <4>1. CASE e \in 1 .. d - 1
        <5>1. Decided(t, e) /\ e \in 1 .. d
          BY <1>1, <4>1 DEF Decided
        <5> QED
          BY <1>7, <2>2, <4>1, <5>1 DEF Seeks
      <4>2. CASE e \notin 1 .. d - 1
        <5>1. e = d /\ event[t] # "return"
          BY <1>1, <1>2, <4>2
        <5>2. Awake(g, info[t].step)
          BY <2>1, <2>2, <5>1 DEF g
        <5> QED
          BY <1>6, <1>7, <5>1, <5>2
      <4> QED
        BY <4>1, <4>2
    <3>2. Seeks(t)'
      BY <1>3, <1>4, <2>2, <3>1 DEF Seeks, ForceCheckProjectScope
    <3> QED
      BY <3>2
  <2>3. CASE Waits(t)
    <3> PICK b : b = promise[t].base
      OBVIOUS
    <3>1. Awaits(t, b) /\ b \in 1 .. d /\ info[t].stop = b
      BY <2>3 DEF Waits, Awaits
    <3>2. /\ event[t] = "return" => d # b
          /\ event[t] # "return" /\ d = b => trace \in {"global", "dispatch"}
          /\ event[t] # "return" /\ info[t].step = "smart" /\ d = b + 1 =>
                 Awake(g, "smart") \/ NoTarget(t, b + 1)
      BY <2>1, <3>1 DEF g
    <3>3. b \in 1 .. Depth(t)' /\ info'[t].stop = b /\ Depth(t)' \in Nat
      BY <1>1, <1>2, <1>4, <3>1, <3>2
    <3>4. ASSUME b # d PROVE Awaits(t, b)'
      <4>1. b <= d - 1 /\ d - 1 \in Nat /\ d - 1 <= Depth(t)' /\ FramesAre(t, d - 1)
        BY <1>1, <1>2, <1>7, <3>1, <3>4 DEF FramesAre
      <4>2. ASSUME info[t].step = "smart", Decided(t, b + 1)', b + 1 = d,
                   ~Awake(stack'[t][b + 1], "smart")
            PROVE  NoTarget(t, b + 1)'
        <5>1. event[t] # "return" /\ NoTarget(t, d)
          BY <1>1, <1>2, <1>6, <1>7, <3>2, <4>2 DEF Decided
        <5>2. stack'[t][d].code = stack[t][d].code /\ stack'[t][d - 1].line = stack[t][d - 1].line
          BY <1>1, <1>6, <1>7, <3>1, <4>2, <5>1
        <5> QED
          BY <1>4, <4>2, <5>1, <5>2 DEF NoTarget
      <4>3. b + 1 # d => (Decided(t, b + 1)' => b + 1 <= d - 1 /\ Decided(t, b + 1))
        BY <1>1, <1>2, <3>1, <4>1 DEF Decided
      <4>4. CASE b + 1 # d \/ info[t].step # "smart" \/ ~Decided(t, b + 1)' \/ Awake(stack'[t][b + 1], "smart")
        BY <1>1, <1>3, <1>4, <3>1, <3>3, <4>1, <4>3, <4>4, AwaitsKept
      <4>5. CASE NoTarget(t, b + 1)'
        <5>1. b - 1 \in Nat /\ (b > 1 => b - 1 \in 1 .. d - 1) /\ b \in 1 .. d - 1
              /\ 1 .. b - 1 \subseteq 1 .. d - 1
          BY <1>1, <3>1, <4>1
        <5> QED
          BY <1>3, <1>4, <1>7, <3>1, <3>3, <4>5, <5>1 DEF Awaits, Filtered, ApplyFilesFilter
      <4> QED
        BY <4>2, <4>4, <4>5
    <3>5. ASSUME b = d PROVE Awaits(t, b)'
      <4>1. /\ event[t] # "return" /\ Depth(t)' = d /\ stack'[t][b] = f
            /\ f.trace \in {"global", "dispatch"} /\ f.code = stack[t][b].code
        BY <1>2, <1>6, <1>7, <3>2, <3>5
      <4>2. ~Decided(t, b + 1)' /\ (b > 1 => b - 1 \in 1 .. d - 1)
        BY <1>1, <3>5, <4>1 DEF Decided
      <4> QED
        BY <1>3, <1>4, <1>7, <3>1, <3>3, <3>5, <4>1, <4>2 DEF Awaits, Filtered, ApplyFilesFilter
    <3> QED
      BY <3>4, <3>5 DEF Waits
  <2> QED
    BY <2>1, <2>2, <2>3
<1> QED
    BY <1>3, <1>5, <1>8, NoStop, StepOfThread

\* ThreadTracer sees the frame that a step waits for.
LEMMA AwaitedSeen ==
    ASSUME SkipInv, NEW t \in Threads, pc[t] = "fetch", NEW b, Awaits(t, b), Depth(t) = b,
           info[t].step # None
    PROVE  ~SkippedByCache(t) /\ ~SkippedByFilter(t)
<1> DEFINE c == Top(t).code
           step == info[t].step
           back == stack[t][b - 1].code
<1>1. /\ TypeInv /\ c \in Codes /\ CacheOf(c) /\ stack[t][b] = Top(t) /\ b \in Nat /\ b > 0
    BY TopLine, ThreadFacts DEF SkipInv, CacheInv, Top
<1>2. /\ step \notin Into /\ c \notin Internal
      /\ step \notin Return => ~Filtered(c)
      /\ step \in Return /\ JustMyCode => b > 1 /\ ~Filtered(back)
    BY <1>1 DEF Awaits
<1>3. b > 1 => back \in Codes /\ CacheOf(back)
  <2>1. b > 1 => b - 1 \in 1 .. Depth(t)
    BY <1>1
  <2> QED
    BY <1>1, <2>1, ThreadFacts DEF SkipInv, CacheInv, FrameType
<1>4. ~JustMyCode => ~Filtered(c)
    BY <1>2 DEF Filtered, ApplyFilesFilter
<1>5. ~SkippedByCache(t)
  <2> SUFFICES ASSUME SkippedByCache(t) PROVE FALSE
    OBVIOUS
  <2>1. skips[c] = 1 /\ (StopsInBack(step) /\ b > 1 => skips[back] = 1)
    BY DEF SkippedByCache
  <2>2. Filtered(c) /\ (StopsInBack(step) /\ b > 1 => Filtered(back))
    BY <1>1, <1>3, <2>1 DEF CacheOf
  <2> QED
    BY <1>2, <1>4, <2>2 DEF StopsInBack
<1>6. ~SkippedByFilter(t)
  <2> SUFFICES ASSUME SkippedByFilter(t) PROVE FALSE
    OBVIOUS
  <2>1. JustMyCode /\ Filtered(c) /\ (StopsInBack(step) => BackFiltered(t, FALSE))
    BY <1>2 DEF SkippedByFilter, Filtered
  <2>2. b > 1 /\ ~Filtered(back) /\ step \in Return
    BY <1>2, <2>1
  <2> QED
    BY <2>1, <2>2 DEF StopsInBack, BackFiltered, Filtered
<1> QED
    BY <1>5, <1>6

LEMMA TracerSkipsSteps ==
    ASSUME StepInv, SkipInv', NEW t \in Threads, pc[t] = "fetch", TracerSkips(t)
    PROVE  StepInv'
<1> DEFINE c == Top(t).code
           kind == Untraced(t)
           g == [Top(t) EXCEPT !.trace = kind]
<1>1. /\ TypeInv /\ SkipInv /\ StopOf(t) /\ PauseOf(t) /\ Depth(t) \in Nat /\ Depth(t) > 0
      /\ Top(t) \in FrameType /\ stack[t][Depth(t)] = Top(t)
    BY ThreadFacts DEF StepInv, SkipInv, PauseInv, Top
<1>2. /\ FrameGoesOn(t, kind, FALSE)
      /\ info' = [info EXCEPT ![t] = Forget(t, @)]
      /\ UNCHANGED <<promise, marks>>
      /\ SkippedByCache(t) \/ SkippedByFilter(t)
    BY DEF TracerSkips, BackToProgram
<1>3. Filtered(c) \/ info[t].step = None
    BY <1>1, TracerSkipsWhy
<1>4. "step" \notin marks[t]
    BY <1>1, <1>3, FilteredExcluded DEF StopOf, StopsAt, PauseOf
<1>5. g.code = c
    BY <1>1 DEF FrameType
<1>6. Seeks(t) => Awake(g, info[t].step)
    BY <1>3, <1>5, FilteredExcluded DEF Seeks, Awake
<1>7. ASSUME NEW b, Stepping(t), Awaits(t, b)
      PROVE  Depth(t) # b /\ (info[t].step = "smart" => Awake(g, "smart"))
  <2>1. info[t].step # None \/ promise[t].step = None
    BY <1>7 DEF Awaits
  <2>2. info[t].step # None
    BY <1>7, <2>1 DEF Stepping
  <2>3. Depth(t) # b
    BY <1>1, <1>2, <1>7, <2>2, AwaitedSeen
  <2>4. Awake(g, "smart")
    BY <1>3, <1>5, <2>2, FilteredExcluded DEF Awake
  <2> QED
    BY <2>3, <2>4
<1>8. kind \in TraceKinds
    BY <1>1, UntracedKind
<1> HIDE DEF kind
<1> QED
    BY <1>1, <1>2, <1>4, <1>6, <1>7, <1>8, GoesOnSteps

\* What is read at an event covers the step of the thread.
LEMMA BecomesIntoFacts ==
    ASSUME NEW t \in Threads, info[t] \in Infos
    PROVE  LET i == info[t]
               j == StepBecomesInto(t)
           IN  /\ j.state = i.state /\ j.target = i.target
               /\ \/ j = i
                     /\ (event[t] # "return" \/ i.stop # Depth(t) \/ i.step \in Into \cup {None})
                  \/ /\ event[t] = "return" /\ i.stop = Depth(t)
                     /\ i.step \notin Into /\ j.step \in Into
                     /\ ForceCheckProjectScope(j.step) <=> ForceCheckProjectScope(i.step)
<1> DEFINE i == info[t]
           step == IF i.step \in {"over", "return", "smart"} THEN "into" ELSE "into_my"
           k == [i EXCEPT !.step = step, !.stop = 0]
<1>1. k.state = i.state /\ k.target = i.target /\ k.step = step
    BY DEF Infos, InfoType
<1>2. i.step \in Steps \cup {None}
    BY DEF Infos, InfoType
<1>3. CASE event[t] = "return" /\ i.stop = Depth(t) /\ i.step \in Over \cup Return \cup {"smart"}
  <2>1. StepBecomesInto(t) = k
    BY <1>3 DEF StepBecomesInto
  <2>2. step \in Into /\ (ForceCheckProjectScope(step) <=> ForceCheckProjectScope(i.step))
    BY <1>3 DEF Into, Over, Return, ForceCheckProjectScope
  <2> HIDE DEF k, step
  <2> QED
    BY <1>1, <1>3, <2>1, <2>2, FilteredExcluded
<1>4. CASE ~(event[t] = "return" /\ i.stop = Depth(t) /\ i.step \in Over \cup Return \cup {"smart"})
  <2>1. StepBecomesInto(t) = i
    BY <1>4 DEF StepBecomesInto
  <2> QED
    BY <1>2, <1>4, <2>1, StepKinds
<1> QED
    BY <1>3, <1>4

LEMMA TracerDispatchesSteps ==
    ASSUME StepInv, SkipInv', NEW t \in Threads, pc[t] = "fetch", TracerDispatches(t)
    PROVE  StepInv'
<1> DEFINE c == Top(t).code
           d == Depth(t)
           i == info[t]
           j == StepBecomesInto(t)
           v == [lines |-> BreakpointLines(c), any |-> BreakpointsForFile(c),
                 skip |-> CanSkip(t), step |-> info[t].step, stop |-> info[t].stop]
<1>1. /\ TypeInv /\ StepOf(t) /\ StopOf(t) /\ d \in Nat /\ d > 0 /\ i \in Infos
    BY ThreadFacts DEF StepInv, SkipInv
<1>2. /\ pc' = [pc EXCEPT ![t] = "decide"]
      /\ view' = [view EXCEPT ![t] = v]
      /\ info' = [info EXCEPT ![t] = j]
      /\ UNCHANGED <<stack, event, at, promise, marks>>
    BY DEF TracerDispatches, history
<1>3. /\ pc'[t] = "decide" /\ view'[t] = v /\ info'[t] = j
      /\ \A u \in Threads : u # t => pc'[u] = pc[u] /\ view'[u] = view[u] /\ info'[u] = info[u]
    BY <1>1, <1>2, OldParts
<1>4. /\ OthersKept(t) /\ Depth(t)' = d /\ Top(t)' = Top(t) /\ stack'[t] = stack[t]
      /\ Stepping(t)' = Stepping(t)
  <2>1. j.state = i.state
    BY <1>1, BecomesIntoFacts
  <2> QED
    BY <1>2, <1>3, <2>1 DEF OthersKept, Depth, Top, Stepping
<1>5. \A u \in Threads : u # t => Aside(u)
    BY <1>1, <1>2, <1>3, <1>4, AsideAlone DEF OthersRest
<1>6. /\ v.step = i.step /\ v.stop = i.stop
      /\ v.skip => i.state = "run"
      /\ v.skip /\ i.step \in Into => Excluded(c, i.step)
      /\ v.skip /\ i.step \in Over \cup Return => i.stop # d
      /\ v.skip /\ i.step = "smart" => i.stop \notin {d, d - 1}
  <2>1. v.step = i.step /\ v.stop = i.stop /\ v.skip = CanSkip(t)
    OBVIOUS
  <2>2. CanSkip(t) => i.state = "run"
    BY DEF CanSkip
  <2>3. CanSkip(t) /\ i.step \in Into => Excluded(c, i.step)
    BY FilteredExcluded DEF CanSkip, Into, Over, Return, Excluded, ForceCheckProjectScope, None
  <2>4. CanSkip(t) /\ i.step \in Over \cup Return => i.stop # d
    BY DEF CanSkip, Over, Return, None
  <2>5. CanSkip(t) /\ i.step = "smart" => i.stop \notin {d, d - 1}
    BY DEF CanSkip, Over, Return, None
  <2> HIDE DEF v
  <2> QED
    BY <2>1, <2>2, <2>3, <2>4, <2>5
<1>7. j.target = i.target /\ (event[t] # "return" => j = i)
    BY <1>1, BecomesIntoFacts
<1> HIDE DEF v
<1>8. \A e : Decided(t, e)' => Decided(t, e) /\ e \in 1 .. d /\ e # d
    BY <1>1, <1>2, <1>3, <1>4 DEF Decided
<1>9. StepOf(t)'
  <2> SUFFICES ASSUME Stepping(t) PROVE Seeks(t)' \/ Waits(t)'
    BY <1>4 DEF StepOf
  <2>1. (Seeks(t) \/ Waits(t)) /\ promise[t].step # None
    BY <1>1 DEF StepOf, Stepping
  <2>2. CASE Seeks(t)
    <3>1. i.step \in Into /\ j = i
      BY <1>1, <2>2, BecomesIntoFacts DEF Seeks
    <3>2. \A e \in 1 .. Depth(t)' : Decided(t, e)' => Awake(stack'[t][e], i.step)
      BY <1>4, <1>8, <2>2 DEF Seeks
    <3> HIDE DEF j
    <3>3. Seeks(t)'
      BY <1>2, <1>3, <1>4, <1>6, <2>2, <3>1, <3>2 DEF Seeks, ForceCheckProjectScope
    <3> QED
      BY <3>3
  <2>3. CASE Waits(t)
    <3> PICK b : b = promise[t].base
      OBVIOUS
    <3>1. /\ Awaits(t, b) /\ b \in 1 .. d /\ i.stop = b /\ i.step = promise[t].step
          /\ i.step \notin Into
      BY <2>3 DEF Waits, Awaits
    <3>2. CASE j # i
      <4>1. /\ event[t] = "return" /\ b = d /\ j.step \in Into
            /\ ForceCheckProjectScope(j.step) <=> ForceCheckProjectScope(i.step)
        BY <1>1, <3>1, <3>2, BecomesIntoFacts
      <4>2. \A f : Awake(f, i.step) => Awake(f, j.step)
        BY <4>1 DEF Awake, Excluded, ApplyFilesFilter
      <4>3. ASSUME NEW e \in 1 .. Depth(t)', Decided(t, e)' PROVE Awake(stack'[t][e], j.step)
        <5>1. e \in 1 .. b - 1
          BY <1>1, <1>8, <4>1, <4>3
        <5> QED
          BY <1>4, <3>1, <4>2, <5>1 DEF Awaits
      <4> HIDE DEF j
      <4>4. Seeks(t)'
        BY <1>2, <1>3, <3>1, <4>1, <4>3 DEF Seeks, ForceCheckProjectScope
      <4> QED
        BY <4>4
    <3>3. CASE j = i
      <4>1. d = b => event[t] # "return"
        <5>1. i.step # None
          BY <2>1, <3>1
        <5> QED
          BY <1>1, <3>1, <3>3, <5>1, BecomesIntoFacts
      <4>2. i.step \in Over \cup Return \cup {"smart"}
        <5>1. i.step \in Steps
          BY <1>1, <2>1, <3>1 DEF Infos, InfoType
        <5> QED
          BY <3>1, <5>1, StepKinds
      <4>3. /\ d = b => ~v.skip
            /\ i.step = "smart" /\ d = b + 1 => ~v.skip
        BY <1>1, <1>6, <3>1, <4>2
      <4>4. ASSUME i.step = "smart", Decided(t, b + 1)'
            PROVE  Awake(stack'[t][b + 1], "smart") \/ NoTarget(t, b + 1)'
        <5>1. Decided(t, b + 1)
          BY <1>8, <4>4
        <5> QED
          BY <1>3, <1>4, <3>1, <3>3, <4>4, <5>1 DEF Awaits, NoTarget
      <4> HIDE DEF j
      <4>5. Awaits(t, b)'
        BY <1>2, <1>3, <1>4, <1>6, <3>1, <3>3, <4>1, <4>3, <4>4 DEF Awaits, Filtered, ApplyFilesFilter
      <4> QED
        BY <1>2, <4>5 DEF Waits
    <3> QED
      BY <3>2, <3>3
  <2> QED
    BY <2>1, <2>2, <2>3
<1>10. StopOf(t)'
  <2> SUFFICES ASSUME "step" \in marks[t]
               PROVE  /\ event[t] = "line" /\ ~Filtered(c)
                      /\ j.state = "suspend" \/ StopsAt(t, view[t].step, view[t].stop)'
                      /\ ~v.skip
    BY <1>2, <1>3, <1>4 DEF StopOf, Filtered, ApplyFilesFilter
  <2>1. /\ event[t] = "line" /\ ~Filtered(c)
        /\ i.state = "suspend" \/ StopsAt(t, i.step, i.stop)
    BY <1>1 DEF StopOf
  <2>2. j = i
    BY <1>7, <2>1
  <2>3. CASE i.state = "suspend"
    BY <1>6, <2>1, <2>2, <2>3
  <2>4. CASE StopsAt(t, i.step, i.stop)
    <3>1. ~v.skip
      BY <1>1, <1>6, <2>4 DEF StopsAt
    <3>2. NoTarget(t, Depth(t))' = NoTarget(t, Depth(t))
      BY <1>3, <1>4, <2>2 DEF NoTarget
    <3>3. view'[t].step = i.step /\ view'[t].stop = i.stop
      BY <1>3, <1>6
    <3>4. StopsAt(t, view[t].step, view[t].stop)'
      BY <1>4, <2>4, <3>2, <3>3 DEF StopsAt
    <3> QED
      BY <2>1, <3>1, <3>4
  <2> QED
    BY <2>1, <2>3, <2>4
<1>11. WaitOf(t)'
    BY <1>3 DEF WaitOf
<1> QED
    BY <1>5, <1>9, <1>10, <1>11, StepOfThread

\* What is skipped is no line at which a step ends, nor in the frame it waits for.
LEMMA SkipSteps ==
    ASSUME StepInv, SkipInv', NEW t \in Threads, pc[t] = "decide",
           SkipFile(t) \/ SkipFunction(t) \/ SkipLine(t)
    PROVE  StepInv'
<1>1. /\ TypeInv /\ StopOf(t) /\ Depth(t) \in Nat /\ Depth(t) > 0 /\ Top(t) \in FrameType
    BY ThreadFacts DEF StepInv, SkipInv
<1>2. \E kind \in TraceKinds : FrameGoesOn(t, kind, FALSE)
  <2>1. (IF ExceptionBreaks THEN "exception" ELSE Untraced(t)) \in TraceKinds /\ "dispatch" \in TraceKinds
    BY <1>1, UntracedKind DEF TraceKinds
  <2>2. CASE SkipFile(t) \/ SkipFunction(t)
    <3>1. FrameGoesOn(t, IF ExceptionBreaks THEN "exception" ELSE Untraced(t), FALSE)
      BY <2>2 DEF SkipFile, SkipFunction, FrameSkipped, BackToProgram
    <3> QED
      BY <2>1, <3>1
  <2>3. CASE SkipLine(t)
    BY <2>1, <2>3 DEF SkipLine, BackToProgram
  <2> QED
    BY <2>2, <2>3
<1>3. /\ info' = [info EXCEPT ![t] = Forget(t, @)]
      /\ UNCHANGED <<promise, marks>> /\ view[t].skip
    BY DEF SkipFile, SkipFunction, SkipLine, FrameSkipped, MaySkip
<1>4. PICK kind \in TraceKinds : FrameGoesOn(t, kind, FALSE)
    BY <1>2
<1> DEFINE g == [Top(t) EXCEPT !.trace = kind]
<1>5. g.code = Top(t).code
    BY <1>1 DEF FrameType
<1>6. "step" \notin marks[t]
    BY <1>1, <1>3 DEF StopOf
<1>7. Seeks(t) /\ event[t] # "return" => Awake(g, info[t].step)
    BY <1>3, <1>5 DEF Seeks, Awake
<1>8. ASSUME NEW b, Stepping(t), Awaits(t, b)
      PROVE  /\ Depth(t) # b
             /\ event[t] # "return" /\ info[t].step = "smart" => Depth(t) # b + 1
    BY <1>3, <1>8 DEF Awaits
<1> QED
    BY <1>3, <1>4, <1>6, <1>7, <1>8, GoesOnSteps

LEMMA GoesOnActionSteps ==
    ASSUME StepInv, SkipInv', NEW t \in Threads, pc[t] = "decide", GoesOn(t)
    PROVE  StepInv'
<1> DEFINE left == event[t] = "line" /\ (SmartChild(t) \/ SmartGrandchild(t))
           kind == IF left THEN "none" ELSE "dispatch"
           g == [Top(t) EXCEPT !.trace = kind]
           d == Depth(t)
<1>1. /\ TypeInv /\ StopOf(t) /\ d \in Nat /\ d > 0 /\ Top(t) \in FrameType
      /\ stack[t][d] = Top(t)
    BY ThreadFacts DEF StepInv, SkipInv, Top
<1>2. /\ FrameGoesOn(t, kind, left)
      /\ info' = [info EXCEPT ![t] = Forget(t, @)]
      /\ UNCHANGED <<promise, marks>>
      /\ info[t].state = "run" /\ ~EndsAtLine(t)
    BY DEF GoesOn
<1>3. "step" \notin marks[t]
  <2> SUFFICES ASSUME "step" \in marks[t] PROVE FALSE
    OBVIOUS
  <2>1. event[t] = "line" /\ StopsAt(t, view[t].step, view[t].stop)
    BY <1>2 DEF StopOf, StepInv
  <2>2. ~NoTarget(t, d) => info[t].target = <<Top(t).code, stack[t][d - 1].line>>
    BY <1>1 DEF NoTarget
  <2> QED
    BY <1>2, <2>1, <2>2 DEF EndsAtLine, StopsAt, IntoEndsAtLine, OverEndsAtLine,
       SmartEndsAtLine, SmartChild
<1>4. left \in BOOLEAN /\ kind \in TraceKinds /\ (kind # "dispatch" => left)
    BY DEF TraceKinds
<1>5. g.trace = kind
    BY <1>1 DEF FrameType
<1>6. left => event[t] = "line" /\ view[t].step = "smart"
      /\ ((view[t].stop = d - 1 /\ d > 1) \/ (view[t].stop = d - 2 /\ d > 2))
    BY DEF SmartChild, SmartGrandchild
<1>7. left /\ view[t].stop = d - 1 => info[t].target # <<Top(t).code, stack[t][d - 1].line>>
    BY <1>1, <1>2, <1>6 DEF EndsAtLine, SmartEndsAtLine, SmartChild
<1> HIDE DEF left, kind, g
<1>8. Seeks(t) /\ event[t] # "return" => Awake(g, info[t].step)
  <2> SUFFICES ASSUME Seeks(t), event[t] # "return" PROVE ~left
    BY <1>4, <1>5 DEF Awake
  <2>1. view[t].step \in Into
    BY DEF Seeks
  <2> QED
    BY <1>6, <2>1, FilteredExcluded
<1>9. ASSUME NEW b, Awaits(t, b)
      PROVE  /\ event[t] = "return" => d # b
             /\ event[t] # "return" /\ d = b => kind \in {"global", "dispatch"}
             /\ event[t] # "return" /\ info[t].step = "smart" /\ d = b + 1 =>
                    Awake(g, "smart") \/ NoTarget(t, b + 1)
  <2>1. /\ event[t] = "return" => d # b
        /\ event[t] # "return" => view[t].stop = b
        /\ b \in 1 .. d
    BY <1>9 DEF Awaits
  <2>2. left => d # b
    BY <1>1, <1>6, <2>1
  <2>3. left /\ d = b + 1 => NoTarget(t, b + 1)
    BY <1>1, <1>6, <1>7, <2>1 DEF NoTarget
  <2> QED
    BY <1>4, <1>5, <2>1, <2>2, <2>3 DEF Awake
<1> QED
    BY <1>2, <1>3, <1>4, <1>8, <1>9, GoesOnSteps DEF g

\* A thread that waits has no step to keep.
LEMMA WaitSteps ==
    ASSUME StepInv, SkipInv', NEW t \in Threads, pc'[t] = "wait", at'[t] >= Depth(t)' - 1,
           "step" \notin marks'[t], \A u \in Threads : u # t => Aside(u)
    PROVE  StepInv'
BY StepOfThread DEF StepOf, StopOf, WaitOf

LEMMA SetSuspendSteps ==
    ASSUME StepInv, SkipInv', NEW t \in Threads, pc[t] = "decide", NEW d,
           d \in {Depth(t), Depth(t) - 1}, SetSuspend(t, d),
           NEW m, marks' = [marks EXCEPT ![t] = m], "step" \notin m
    PROVE  StepInv'
<1> DEFINE others == IF SingleNotification THEN Threads \ {t} ELSE {}
<1>1. TypeInv /\ info[t] \in Infos /\ Depth(t) \in Nat
    BY ThreadFacts DEF StepInv, SkipInv
<1>2. /\ info' = [u \in Threads |->
             IF u = t THEN [MarkThreadSuspended(info[u]) EXCEPT !.initial = NoLocation]
             ELSE IF u \in others THEN MarkThreadSuspended(info[u]) ELSE info[u]]
      /\ stack' = SetTrace(stack, others, Depths)
      /\ pc' = [pc EXCEPT ![t] = "wait"] /\ at' = [at EXCEPT ![t] = d]
      /\ promise' = [promise EXCEPT ![t] = NoPromise]
      /\ UNCHANGED <<event, view>>
    BY DEF SetSuspend
<1>3. others \subseteq Threads
    OBVIOUS
<1> HIDE DEF others
<1>4. \A u \in Threads : FramesKept(u)
    BY <1>1, <1>2, <1>3, TracedAll
<1>5. /\ pc'[t] = "wait" /\ at'[t] = d /\ marks'[t] = m
      /\ \A u \in Threads : u # t =>
             /\ pc'[u] = pc[u] /\ at'[u] = at[u] /\ marks'[u] = marks[u]
             /\ promise'[u] = promise[u]
    BY <1>1, <1>2, OldParts DEF MapTypes
<1>6. ASSUME NEW u \in Threads, u # t PROVE Aside(u)
  <2>1. info'[u] = info[u] \/ info'[u].state = "suspend"
    BY <1>1, <1>2, <1>6, ThreadFacts, SuspendedState
  <2> QED
    BY <1>2, <1>4, <1>5, <1>6, <2>1 DEF Aside
<1>7. at'[t] >= Depth(t)' - 1
    BY <1>1, <1>4, <1>5 DEF FramesKept
<1> QED
    BY <1>5, <1>6, <1>7, WaitSteps

LEMMA StopSteps ==
    ASSUME StepInv, SkipInv', NEW t \in Threads, pc[t] = "decide",
           StopOnBreakpoint(t) \/ StopForStep(t)
    PROVE  StepInv'
<1>1. CASE StopOnBreakpoint(t)
  <2> DEFINE m == IF "armed" \in marks[t] \/ <<Top(t).code, Top(t).line>> \in bps THEN {} ELSE {"removed"}
  <2>1. SetSuspend(t, Depth(t)) /\ marks' = [marks EXCEPT ![t] = m]
    BY <1>1 DEF StopOnBreakpoint
  <2>2. "step" \notin m
    OBVIOUS
  <2> HIDE DEF m
  <2> QED
    BY <2>1, <2>2, SetSuspendSteps
<1>2. CASE StopForStep(t)
  <2>1. /\ SetSuspend(t, IF event[t] = "return" THEN Depth(t) - 1 ELSE Depth(t))
        /\ marks' = [marks EXCEPT ![t] = {}]
    BY <1>2 DEF StopForStep
  <2> QED
    BY <2>1, SetSuspendSteps
<1> QED
    BY <1>1, <1>2

LEMMA WaitSuspendedSteps ==
    ASSUME StepInv, SkipInv', NEW t \in Threads, pc[t] = "decide", WaitSuspended(t)
    PROVE  StepInv'
<1>1. TypeInv /\ Depth(t) \in Nat
    BY ThreadFacts DEF StepInv, SkipInv
<1>2. /\ pc' = [pc EXCEPT ![t] = "wait"] /\ at' = [at EXCEPT ![t] = Depth(t)]
      /\ \E x : info' = [info EXCEPT ![t] = x]
      /\ promise' = [promise EXCEPT ![t] = NoPromise] /\ marks' = [marks EXCEPT ![t] = {}]
      /\ UNCHANGED <<stack, event, view>>
    BY DEF WaitSuspended
<1>3. /\ pc'[t] = "wait" /\ at'[t] = Depth(t) /\ marks'[t] = {}
      /\ \A u \in Threads : u # t =>
             /\ pc'[u] = pc[u] /\ at'[u] = at[u] /\ marks'[u] = marks[u] /\ info'[u] = info[u]
             /\ promise'[u] = promise[u]
    BY <1>1, <1>2, OldParts DEF MapTypes
<1>4. OthersKept(t) /\ Depth(t)' = Depth(t)
    BY <1>2 DEF OthersKept, Depth
<1>5. \A u \in Threads : u # t => Aside(u)
    BY <1>1, <1>2, <1>3, <1>4, AsideAlone DEF OthersRest
<1> QED
    BY <1>1, <1>3, <1>4, <1>5, WaitSteps

-----------------------------------------------------------------------------
(* Waiting threads and commands *)

\* The preparation of a step names a frame that is not deeper than where the thread
\* is; the caller of the one that a step return waits for is not filtered out.
LEMMA PreparedStep ==
    ASSUME NEW i \in Infos, NEW frames, NEW d \in Nat \ {0}
    PROVE  LET j == PrepareStep(i, frames, d)
           IN  \/ j.step = None
               \/ j.step \in Into
               \/ j.step \in Over \cup {"smart"} /\ j.stop = d
               \/ /\ j.step \in Return /\ j.stop \in 1 .. d
                  /\ JustMyCode => j.stop > 1 /\ ~Filtered(frames[j.stop - 1].code)
<1> DEFINE back == StepReturnFrame(frames, d, i.step)
           j == PrepareStep(i, frames, d)
           filtering == JustMyCode \/ ForceCheckProjectScope(i.step)
           callers == {e \in 1 .. d - 1 : filtering => ~Excluded(frames[e].code, i.step)}
           last == CHOOSE e \in callers : \A x \in callers : x <= e
<1>1. /\ j = CASE i.step \in Into -> [i EXCEPT !.initial = <<d, frames[d].line>>, !.stop = 0]
                [] i.step \in Over \cup {"smart"} -> [i EXCEPT !.stop = d]
                [] i.step \in Return /\ back > 0 -> [i EXCEPT !.stop = back]
                [] i.step \in Return /\ back = 0 -> RunThread(i)
                [] OTHER -> i
      /\ back \in 0 .. d
    BY StepReturnFrameType DEF PrepareStep
<1>2. CASE i.step \in Into
  <2>1. j = [i EXCEPT !.initial = <<d, frames[d].line>>, !.stop = 0]
    BY <1>1, <1>2, FilteredExcluded
  <2>2. j.step = i.step
    BY <2>1 DEF Infos, InfoType
  <2> QED
    BY <1>2, <2>2
<1>3. CASE i.step \in Over \cup {"smart"}
  <2>1. j = [i EXCEPT !.stop = d]
    BY <1>1, <1>3, FilteredExcluded
  <2>2. j.step = i.step /\ j.stop = d
    BY <2>1 DEF Infos, InfoType
  <2> QED
    BY <1>3, <2>2
<1>4. CASE i.step \in Return
  <2>1. i.step \notin Into /\ i.step \notin Over \cup {"smart"}
    BY <1>4, FilteredExcluded
  <2>2. CASE back = 0
    <3>1. j = RunThread(i)
      BY <1>1, <1>4, <2>1, <2>2
    <3>2. j.step = None
      BY <3>1 DEF RunThread, Infos, InfoType
    <3> QED
      BY <3>2
  <2>3. CASE back > 0
    <3>1. j = [i EXCEPT !.stop = back]
      BY <1>1, <1>4, <2>1, <2>3
    <3>2. j.step = i.step /\ j.stop = back
      BY <3>1 DEF Infos, InfoType
    <3>3. back = IF callers # {} THEN last + 1 ELSE IF filtering THEN 0 ELSE 1
      BY DEF StepReturnFrame
    <3>4. callers \subseteq 1 .. d - 1 /\ d - 1 \in Nat
      OBVIOUS
    <3>5. ASSUME callers # {} PROVE last \in callers
      <4> HIDE DEF callers
      <4>1. \E e \in callers : \A x \in callers : x <= e
        BY <3>4, <3>5, MaxExists
      <4> QED
        BY <4>1
    <3>6. \A e \in callers : JustMyCode => ~Filtered(frames[e].code)
      BY FilteredExcluded
    <3> HIDE DEF last, callers
    <3>7. JustMyCode => callers # {} /\ back = last + 1 /\ last \in callers /\ last \in 1 .. d - 1
      <4>1. JustMyCode => callers # {}
        BY <2>3, <3>3
      <4>2. callers # {} => back = last + 1 /\ last \in 1 .. d - 1
        BY <3>3, <3>4, <3>5
      <4> QED
        BY <3>5, <4>1, <4>2
    <3>8. JustMyCode => back > 1 /\ back - 1 = last
      BY <3>7
    <3>9. JustMyCode => ~Filtered(frames[back - 1].code)
      BY <3>6, <3>7, <3>8
    <3> QED
      BY <1>1, <1>4, <2>3, <3>2, <3>8, <3>9
  <2> QED
    BY <1>1, <2>2, <2>3
<1>5. CASE i.step = None
  <2>1. j = i
    BY <1>1, <1>5, FilteredExcluded
  <2> QED
    BY <1>5, <2>1
<1>6. i.step \in Steps \cup {None}
    BY DEF Infos, InfoType
<1> QED
    BY <1>2, <1>3, <1>4, <1>5, <1>6, StepKinds

\* what resuming a thread with a step makes of its frames
LEMMA ResumedFrames ==
    ASSUME TypeInv, NEW t \in Threads, LeaveWait(t), Resumed(t).step # None
    PROVE  /\ \A e \in 1 .. Depth(t)' :
                  /\ stack'[t][e].code = stack[t][e].code
                  /\ e = Depth(t) => stack'[t][e].trace = "dispatch"
                  /\ e < Depth(t) /\ e <= BaseOf(t) =>
                         stack'[t][e].trace = "global" \/ stack[t][e].code \in Internal
           /\ Depth(t)' = IF event[t] = "return" THEN Depth(t) - 1 ELSE Depth(t)
<1> DEFINE d == Depth(t)
<1>1. d \in Nat /\ d > 0 /\ \A e \in 1 .. d : stack[t][e] \in FrameType
    BY ThreadFacts DEF LeaveWait
<1>2. /\ \A e \in 1 .. d - 1 : stack'[t][e] = ResumedFrame(t, e)
      /\ event[t] = "return" => Depth(t)' = d - 1
      /\ event[t] # "return" =>
             Depth(t)' = d /\ Top(t)' = [ResumedFrame(t, d) EXCEPT !.trace = "dispatch"]
    BY LeaveWaitFacts
<1>3. ASSUME NEW e \in 1 .. d
      PROVE  /\ ResumedFrame(t, e).code = stack[t][e].code
             /\ ResumedFrame(t, e) \in FrameType
             /\ e <= BaseOf(t) =>
                    ResumedFrame(t, e).trace = "global" \/ stack[t][e].code \in Internal
  <2>1. stack[t][e] \in FrameType
    BY <1>1
  <2>2. Traced_(stack[t][e]) \in FrameType
    BY <2>1 DEF Traced_, FrameType
  <2> QED
    BY <2>1, <2>2, TracedIs DEF ResumedFrame
<1>4. ASSUME NEW e \in 1 .. Depth(t)'
      PROVE  /\ stack'[t][e].code = stack[t][e].code
             /\ e = d => stack'[t][e].trace = "dispatch"
             /\ e < d /\ e <= BaseOf(t) =>
                    stack'[t][e].trace = "global" \/ stack[t][e].code \in Internal
  <2>1. CASE e \in 1 .. d - 1
    <3>1. stack'[t][e] = ResumedFrame(t, e) /\ e \in 1 .. d /\ e # d
      BY <1>1, <1>2, <2>1
    <3> QED
      BY <1>3, <3>1
  <2>2. CASE e \notin 1 .. d - 1
    <3>1. e = d /\ event[t] # "return" /\ Depth(t)' = d /\ d \in 1 .. d
      BY <1>1, <1>2, <2>2
    <3>2. stack'[t][e] = [ResumedFrame(t, d) EXCEPT !.trace = "dispatch"]
      BY <1>2, <3>1 DEF Top
    <3>3. ResumedFrame(t, d) \in FrameType /\ ResumedFrame(t, d).code = stack[t][d].code
      BY <1>3, <3>1
    <3>4. stack'[t][e].code = ResumedFrame(t, d).code /\ stack'[t][e].trace = "dispatch"
      BY <3>2, <3>3 DEF FrameType
    <3> QED
      BY <1>1, <3>1, <3>3, <3>4
  <2> QED
    BY <2>1, <2>2
<1> QED
    BY <1>2, <1>4

LEMMA LeaveWaitSteps ==
    ASSUME StepInv, SkipInv', NEW t \in Threads, LeaveWait(t)
    PROVE  StepInv'
<1> DEFINE d == Depth(t)
           j == Resumed(t)
           left == event[t] = "return"
<1> PICK b : b = BaseOf(t)
    OBVIOUS
<1>1. /\ TypeInv /\ d \in Nat /\ d > 0 /\ pc[t] = "wait" /\ info[t].state = "run"
      /\ at[t] >= d - 1 /\ at[t] \in 1 .. d /\ info[t] \in Infos
    BY ThreadFacts DEF StepInv, SkipInv, LeaveWait, WaitOf
<1>2. /\ OthersKept(t) /\ EndCallback(t)
      /\ info' = [info EXCEPT ![t] = IF left THEN ForgetFrame(j, d) ELSE j]
      /\ marks' = [marks EXCEPT ![t] = {}]
    BY <1>1, LeaveWaitFacts
<1>3. promise' = [promise EXCEPT ![t] =
          IF j.step = None THEN NoPromise
          ELSE [step |-> j.step, base |-> b,
                lost |-> \/ \/ j.step \notin Into /\ stack[t][b].code \in Internal
                            \/ j.step \in Over \cup {"smart"} /\ ApplyFilesFilter(stack[t][b].code, FALSE)
                         \/ left /\ j.stop = d]]
    BY DEF LeaveWait, Resumed, BaseOf
<1>4. /\ pc'[t] = "run" /\ OthersRest(t) /\ marks'[t] = {}
      /\ \A u \in Threads : u # t =>
             info'[u] = info[u] /\ promise'[u] = promise[u] /\ marks'[u] = marks[u]
    BY <1>1, <1>2, <1>3, EndCallbackFacts, OldParts DEF MapTypes
<1>5. \A u \in Threads : u # t => Aside(u)
    BY <1>1, <1>2, <1>4, AsideAlone
<1>6. j \in Infos /\ info'[t] = IF left THEN ForgetFrame(j, d) ELSE j
    BY <1>1, <1>2, ResumedFacts, OldParts
<1> HIDE DEF left
<1>7. StepOf(t)'
  <2> SUFFICES ASSUME Stepping(t)' PROVE Seeks(t)' \/ Waits(t)'
    BY DEF StepOf
  <2>1. CASE j.step = None
    <3>1. promise'[t] = NoPromise
      BY <1>1, <1>3, <2>1, OldParts DEF MapTypes
    <3> QED
      BY <3>1 DEF Stepping, NoPromise, None
  <2>2. CASE j.step # None
    <3>1. /\ promise'[t].step = j.step /\ promise'[t].base = b
          /\ promise'[t].lost <=>
                \/ j.step \notin Into /\ stack[t][b].code \in Internal
                \/ j.step \in Over \cup {"smart"} /\ Filtered(stack[t][b].code)
                \/ left /\ j.stop = d
      BY <1>1, <1>3, <2>2, OldParts DEF MapTypes, Filtered
    <3>2. /\ j.step \notin Into => stack[t][b].code \notin Internal
          /\ j.step \in Over \cup {"smart"} => ~Filtered(stack[t][b].code)
          /\ left => j.stop # d
      BY <3>1 DEF Stepping
    <3>3. info'[t].step = j.step /\ info'[t].stop = j.stop
      BY <1>6, <3>2 DEF ForgetFrame, Infos, InfoType
    <3>4. /\ \A e \in 1 .. Depth(t)' :
                 /\ stack'[t][e].code = stack[t][e].code
                 /\ e = d => stack'[t][e].trace = "dispatch"
                 /\ e < d /\ e <= b =>
                        stack'[t][e].trace = "global" \/ stack[t][e].code \in Internal
          /\ Depth(t)' = IF left THEN d - 1 ELSE d
      BY <1>1, <2>2, ResumedFrames DEF left
    <3> HIDE DEF j
    <3>5. ASSUME NEW e \in 1 .. Depth(t)', e <= b \/ e = d, NEW step
          PROVE  Awake(stack'[t][e], step)
      <4>1. e = d \/ e < d
        BY <1>1, <3>4
      <4> QED
        BY <3>4, <3>5, <4>1 DEF Awake, Excluded, ApplyFilesFilter
    <3>6. CASE j.step \in Into
      <4>1. b = at[t]
        BY <3>6 DEF BaseOf, j
      <4>2. \A e \in 1 .. Depth(t)' : e <= b \/ e = d
        BY <1>1, <3>4, <4>1
      <4>3. \A e \in 1 .. Depth(t)' : Awake(stack'[t][e], j.step)
        BY <3>5, <4>2
      <4>4. Seeks(t)'
        BY <1>4, <3>1, <3>3, <3>6, <4>3 DEF Seeks
      <4> QED
        BY <4>4
    <3>7. CASE j.step \notin Into
      <4>1. /\ j.stop = b
            /\ \/ j.step \in Over \cup {"smart"} /\ b = at[t]
               \/ /\ j.step \in Return /\ b \in 1 .. at[t]
                  /\ JustMyCode => b > 1 /\ ~Filtered(stack[t][b - 1].code)
        <5>1. j.stop = b
          BY <2>2, <3>7 DEF BaseOf, j
        <5>2. \/ j.step \in Over \cup {"smart"} /\ j.stop = at[t]
              \/ /\ j.step \in Return /\ j.stop \in 1 .. at[t]
                 /\ JustMyCode => j.stop > 1 /\ ~Filtered(stack[t][j.stop - 1].code)
          <6>1. at[t] \in Nat \ {0}
            BY <1>1
          <6> QED
            BY <1>1, <2>2, <3>7, <6>1, PreparedStep DEF j, Resumed
        <5> QED
          BY <5>1, <5>2
      <4>2. b \in 1 .. Depth(t)' /\ b \in 1 .. d /\ Depth(t)' \in Nat
        BY <1>1, <3>2, <3>4, <4>1
      <4>3. /\ stack'[t][b].code = stack[t][b].code /\ stack[t][b].code \notin Internal
            /\ stack'[t][b].trace \in {"global", "dispatch"}
        <5>1. b = d \/ (b < d /\ b <= b)
          BY <1>1, <4>2
        <5> QED
          BY <3>2, <3>4, <3>7, <4>2, <5>1
      <4>4. /\ j.step \notin Return => ~Filtered(stack'[t][b].code)
            /\ j.step \in Return /\ JustMyCode => b > 1 /\ ~Filtered(stack'[t][b - 1].code)
        <5>1. j.step \notin Return => ~Filtered(stack'[t][b].code)
          BY <3>2, <4>1, <4>3
        <5>2. b > 1 => b - 1 \in 1 .. Depth(t)'
          BY <4>2
        <5>3. j.step \in Return /\ JustMyCode => b > 1 /\ ~Filtered(stack[t][b - 1].code)
          BY <4>1, FilteredExcluded
        <5> QED
          BY <3>4, <5>1, <5>2, <5>3
      <4>5. \A e \in 1 .. b - 1 : Awake(stack'[t][e], j.step)
        <5>1. \A e \in 1 .. b - 1 : e \in 1 .. Depth(t)' /\ e <= b
          BY <4>2
        <5> QED
          BY <3>5, <5>1
      <4>6. ASSUME j.step = "smart", Decided(t, b + 1)' PROVE Awake(stack'[t][b + 1], "smart")
        <5>1. b = at[t] /\ b + 1 \in 1 .. Depth(t)'
          BY <4>1, <4>6, FilteredExcluded DEF Decided
        <5>2. b + 1 = d
          BY <1>1, <3>4, <5>1
        <5> QED
          BY <3>5, <5>1, <5>2
      <4>7. Awaits(t, b)'
        BY <1>4, <3>1, <3>3, <3>7, <4>1, <4>2, <4>3, <4>4, <4>5, <4>6
           DEF Awaits, Filtered, ApplyFilesFilter
      <4> QED
        BY <3>1, <4>7 DEF Waits
    <3> QED
      BY <3>6, <3>7
  <2> QED
    BY <2>1, <2>2
<1> QED
    BY <1>4, <1>5, <1>7, NoStop, StepOfThread

\* what no thread does by itself
LEMMA AsideAll ==
    ASSUME StepInv, SkipInv', \A u \in Threads : Aside(u)
    PROVE  StepInv'
<1>1. \A u \in Threads : StepOf(u)' /\ StopOf(u)' /\ WaitOf(u)'
    BY AsideKeeps
<1> QED
    BY <1>1 DEF StepInv

LEMMA StepReleased ==
    ASSUME TypeInv, NEW S \in SUBSET Threads, Released(S), NEW u \in Threads
    PROVE  /\ "step" \in marks'[u] => "step" \in marks[u]
           /\ u \in S => "step" \notin marks'[u] /\ promise'[u].step = None
           /\ u \notin S => promise'[u] = promise[u]
BY DEF Released, NoPromise

LEMMA StepRequestSteps ==
    ASSUME StepInv, SkipInv', NEW t \in Threads, NEW step, NEW target,
           StepRequest(t, step, target)
    PROVE  StepInv'
<1>1. TypeInv /\ StopOf(t) /\ pc[t] = "wait" /\ Threads \ {t} \in SUBSET Threads
    BY DEF StepInv, SkipInv, StepRequest
<1>2. /\ Released(Threads \ {t})
      /\ UNCHANGED <<stack, pc, event, view, at>>
    BY DEF StepRequest, program
<1>3. "step" \notin marks[t]
    BY <1>1 DEF StopOf
<1>4. ASSUME NEW u \in Threads PROVE Aside(u)
  <2>1. FramesKept(u)
    BY <1>2 DEF FramesKept, Depth
  <2>2. "step" \notin marks'[u] /\ (u = t \/ promise'[u].step = None)
    BY <1>1, <1>2, <1>3, StepReleased
  <2> QED
    BY <1>1, <1>2, <2>1, <2>2 DEF Aside
<1> QED
    BY <1>4, AsideAll

LEMMA ContinueSteps ==
    ASSUME StepInv, SkipInv', NEW S \in SUBSET Threads, Continue(S)
    PROVE  StepInv'
<1>1. TypeInv
    BY DEF StepInv, SkipInv
<1>2. /\ info' = [t \in Threads |-> IF t \in S THEN RunThread(info[t]) ELSE info[t]]
      /\ Released(S) /\ UNCHANGED <<stack, pc, event, view, at>>
    BY DEF Continue, program
<1>3. ASSUME NEW u \in Threads PROVE Aside(u)
  <2>1. FramesKept(u)
    BY <1>2 DEF FramesKept, Depth
  <2>2. /\ "step" \in marks'[u] => "step" \in marks[u]
        /\ u \in S => "step" \notin marks'[u] /\ promise'[u].step = None
        /\ u \notin S => promise'[u] = promise[u] /\ info'[u] = info[u]
    BY <1>1, <1>2, StepReleased
  <2> QED
    BY <1>2, <2>1, <2>2 DEF Aside
<1> QED
    BY <1>3, AsideAll

LEMMA PauseSteps ==
    ASSUME StepInv, SkipInv', NEW t \in Threads, Pause(t)
    PROVE  StepInv'
<1> DEFINE threads == IF SingleNotification THEN Threads ELSE {t}
<1>1. TypeInv
    BY DEF StepInv, SkipInv
<1>2. /\ info' = [u \in Threads |-> IF u \in threads THEN MarkThreadSuspended(info[u])
                                                     ELSE info[u]]
      /\ stack' = SetTrace(stack, threads, Depths)
      /\ UNCHANGED <<pc, event, view, at, promise, marks>>
    BY DEF Pause
<1>3. threads \subseteq Threads
    OBVIOUS
<1> HIDE DEF threads
<1>4. \A u \in Threads : FramesKept(u)
    BY <1>1, <1>2, <1>3, TracedAll
<1>5. \A u \in Threads : info'[u] = info[u] \/ info'[u].state = "suspend"
    BY <1>1, <1>2, ThreadFacts, SuspendedState
<1>6. \A u \in Threads : Aside(u)
    BY <1>2, <1>4, <1>5 DEF Aside
<1> QED
    BY <1>6, AsideAll

\* the commands that leave the steps alone
LEMMA QuietSteps ==
    ASSUME StepInv, SkipInv',
           \/ \E loc \in BreakLocations : AddBreakpoint(loc) \/ RemoveBreakpoint(loc)
           \/ BreakpointAdded \/ TraceExistingFrames \/ ClearFilters \/ UNCHANGED vars
    PROVE  StepInv'
<1>1. TypeInv
    BY DEF StepInv, SkipInv
<1>2. /\ UNCHANGED <<pc, event, view, at, info, promise>>
      /\ \A u \in Threads : "step" \in marks'[u] => "step" \in marks[u]
      /\ stack' = stack \/ stack' = SetTrace(stack, Threads, Depths)
  <2>1. CASE \E loc \in BreakLocations : AddBreakpoint(loc)
    BY <2>1 DEF AddBreakpoint, program
  <2>2. CASE \E loc \in BreakLocations : RemoveBreakpoint(loc)
    BY <2>2 DEF RemoveBreakpoint, program
  <2>3. CASE BreakpointAdded \/ TraceExistingFrames \/ ClearFilters \/ UNCHANGED vars
    BY <2>3 DEF BreakpointAdded, TraceExistingFrames, ClearFilters, program, vars, history
  <2> QED
    BY <2>1, <2>2, <2>3
<1>3. \A u \in Threads : FramesKept(u)
    BY <1>1, <1>2, TracedAll DEF FramesKept, Depth
<1>4. \A u \in Threads : Aside(u)
    BY <1>2, <1>3 DEF Aside
<1> QED
    BY <1>4, AsideAll

-----------------------------------------------------------------------------
LEMMA StepsInit == Init => StepInv
<1> SUFFICES ASSUME Init PROVE StepInv
    OBVIOUS
<1>1. SkipInv
    BY SkipInit
<1>2. \A t \in Threads : StepOf(t) /\ StopOf(t) /\ WaitOf(t)
    BY DEF Init, StepOf, StopOf, WaitOf, Stepping, NoPromise
<1> QED
    BY <1>1, <1>2 DEF StepInv

LEMMA StepsStep == StepInv /\ [Next]_vars => StepInv'
<1> SUFFICES ASSUME StepInv, [Next]_vars PROVE StepInv'
    OBVIOUS
<1>1. SkipInv'
    BY SkipStep DEF StepInv
<1>2. CASE Command
  <2>1. ASSUME NEW S \in {Threads} \cup {{t} : t \in Threads}, Continue(S) PROVE StepInv'
    <3>1. S \in SUBSET Threads
      OBVIOUS
    <3> QED
      BY <1>1, <2>1, <3>1, ContinueSteps
  <2> QED
    BY <1>1, <1>2, <2>1, QuietSteps, PauseSteps DEF Command
<1>3. ASSUME NEW t \in Threads, Program(t) PROVE StepInv'
    BY <1>1, <1>3, CallSteps, AdvanceSteps, RaiseSteps, LeaveSteps DEF Program
<1>4. ASSUME NEW t \in Threads, Callback(t) PROVE StepInv'
  <2>1. CASE TraceCall(t)
    BY <1>1, <2>1, TracerSkipsSteps, TracerDispatchesSteps DEF TraceCall
  <2>2. CASE Dispatch(t)
    BY <1>1, <2>2, SkipSteps, GoesOnActionSteps, StopSteps, WaitSuspendedSteps DEF Dispatch
  <2>3. CASE LeaveWait(t)
    BY <1>1, <2>3, LeaveWaitSteps
  <2>4. CASE \E step, target : StepRequest(t, step, target)
    BY <1>1, <2>4, StepRequestSteps
  <2> QED
    BY <1>4, <2>1, <2>2, <2>3, <2>4 DEF Callback
<1>5. CASE UNCHANGED vars
    BY <1>1, <1>5, QuietSteps
<1> QED
    BY <1>2, <1>3, <1>4, <1>5 DEF Next

\* A thread that is stepping does not go past the line its step has to stop at.
THEOREM StepsAreKept == Spec => []StepsStop
<1>1. StepInv => StepsStop
    BY DEF StepInv, StopOf, StepsStop, Overrun
<1>2. StepInv /\ [Next]_vars => StepInv'
    BY StepsStep
<1> QED
    BY StepsInit, <1>1, <1>2, PTL DEF Spec
=============================================================================

------------------------ MODULE SysMonitoringProofs ------------------------
(***************************************************************************)
(* Theorems about SysMonitoring, for any threads, codes, filters,          *)
(* breakpoints and step commands, and any bounds.                          *)
(***************************************************************************)
EXTENDS SysMonitoring, SequenceTheorems, WellFoundedInduction, TLAPS

-----------------------------------------------------------------------------
(***************************************************************************)
(* Types: what TypeOK says, and what a step needs to keep it.              *)
(***************************************************************************)
Lines0 == 0 .. LastLine
FrameType == [code : Codes, line : Lines0, blind : BOOLEAN, skipped : BOOLEAN]
Infos == InfoType(LastLine, MaxDepth)
CmdType == [phase : {"idle", "added", "trace", "restart", "removed"},
            loc : BreakLocations \cup {NoLocation}]
Running == {"run", "fetch", "decide"}
Waiting == {"restart", "enter", "wait"}
Events == {None, "start", "line", "return"}
Kinds == {"LINE", "RETURN"}

StackTypes ==
    /\ stack \in [Threads -> Seq(FrameType)]
    /\ \A t \in Threads : Depth(t) <= MaxDepth
ThreadTypes ==
    /\ pc \in [Threads -> Running \cup Waiting] /\ event \in [Threads -> Events]
    /\ seen \in [Threads -> SUBSET Lines0] /\ at \in [Threads -> Nat]
MapTypes ==
    /\ DOMAIN promise = Threads /\ DOMAIN marks = Threads
    /\ promise = [t \in Threads |-> promise[t]] /\ marks = [t \in Threads |-> marks[t]]
CacheTypes == cache \in [Codes -> SUBSET Lines0] /\ fresh \subseteq Codes
EventTypes ==
    /\ local \in [Codes -> SUBSET Kinds] /\ tracking \in BOOLEAN
    /\ disabled \subseteq Codes \X Lines0 /\ late \subseteq disabled /\ foreign \subseteq disabled
DebuggerTypes ==
    /\ bps \subseteq BreakLocations /\ settled \subseteq bps /\ cmd \in CmdType
    /\ info \in [Threads -> Infos] /\ stepping \subseteq Threads
\* A callback works for a frame, and a suspended thread is suspended at one.
PlaceInv ==
    \A t \in Threads :
        /\ pc[t] # "run" => Depth(t) > 0
        /\ at[t] <= Depth(t)
        /\ pc[t] \in Waiting =>
               /\ at[t] > 0
               /\ at[t] = Depth(t) \/ (event[t] = "return" /\ at[t] = Depth(t) - 1)
        /\ pc[t] \in Running => at[t] = 0

TypeInv ==
    /\ StackTypes /\ ThreadTypes /\ MapTypes /\ CacheTypes /\ EventTypes /\ DebuggerTypes
    /\ PlaceInv

LEMMA TypeInvImpliesTypeOK == TypeInv => TypeOK
<1> SUFFICES ASSUME TypeInv PROVE TypeOK
    OBVIOUS
<1>1. ASSUME NEW t \in Threads
      PROVE  /\ Depth(t) <= MaxDepth
             /\ \A d \in 1 .. Depth(t) : stack[t][d] \in FrameType
             /\ at[t] \in 0 .. Depth(t)
    BY DEF TypeInv, StackTypes, ThreadTypes, PlaceInv, Depth
<1> QED
    BY <1>1 DEF TypeInv, ThreadTypes, CacheTypes, EventTypes, DebuggerTypes, TypeOK, FrameType,
                Lines0, Infos, Running, Waiting, Events, Kinds, Locations

\* The largest of some numbers that are bounded.
LEMMA MaxExists ==
    ASSUME NEW n \in Nat, NEW S, S \subseteq 1 .. n, S # {}
    PROVE  \E m \in S : \A x \in S : x <= m
<1> DEFINE R == OpToRel(<, Nat)
           T == {n - e : e \in S}
<1>1. T \subseteq Nat /\ T # {}
  <2>1. \A e \in S : n - e \in Nat
    OBVIOUS
  <2> QED
    BY <2>1
<1>2. \E x \in T : \A y \in T : <<y, x>> \notin R
  <2>1. IsWellFoundedOn(R, Nat)
    BY NatLessThanWellFounded
  <2> QED
    BY <1>1, <2>1, WFMin
<1>3. PICK x \in T : \A y \in T : <<y, x>> \notin R
    BY <1>2
<1>4. \A y \in T : ~(y < x)
    BY <1>1, <1>3 DEF OpToRel
<1>5. PICK m \in S : x = n - m
    BY DEF T
<1>6. ASSUME NEW y \in S PROVE y <= m
  <2>1. ~(n - y < n - m)
    BY <1>4, <1>5
  <2> QED
    BY <2>1
<1> QED
    BY <1>6

-----------------------------------------------------------------------------
(***************************************************************************)
(* What the steps do to the stacks.                                        *)
(***************************************************************************)
LEMMA StackFacts ==
    ASSUME StackTypes, NEW t \in Threads
    PROVE  /\ Depth(t) \in Nat /\ DOMAIN stack[t] = 1 .. Depth(t)
           /\ \A d \in 1 .. Depth(t) : stack[t][d] \in FrameType
           /\ Depth(t) > 0 => Top(t) \in FrameType
<1>1. stack[t] \in Seq(FrameType)
    BY DEF StackTypes
<1>2. /\ Depth(t) \in Nat /\ DOMAIN stack[t] = 1 .. Depth(t)
      /\ \A d \in 1 .. Depth(t) : stack[t][d] \in FrameType
    BY <1>1 DEF Depth
<1> QED
    BY <1>2 DEF Top

\* the stacks of the other threads are as they were
OthersKept(t) == \A u \in Threads : u # t => stack'[u] = stack[u] /\ Depth(u)' = Depth(u)
\* and the frames of t below its depth n
CallersKept(t, n) == \A d \in 1 .. n : stack'[t][d] = stack[t][d]

LEMMA Changed ==
    ASSUME StackTypes, NEW t \in Threads, NEW s \in Seq(FrameType), Len(s) <= MaxDepth,
           stack' = [stack EXCEPT ![t] = s]
    PROVE  StackTypes' /\ OthersKept(t) /\ stack'[t] = s /\ Depth(t)' = Len(s)
<1>1. stack \in [Threads -> Seq(FrameType)] /\ \A u \in Threads : Depth(u) <= MaxDepth
    BY DEF StackTypes
<1>2. /\ stack' \in [Threads -> Seq(FrameType)] /\ stack'[t] = s
      /\ \A u \in Threads : u # t => stack'[u] = stack[u]
    BY <1>1
<1>3. /\ Depth(t)' = Len(s)
      /\ \A u \in Threads : u # t => Depth(u)' = Depth(u)
    BY <1>2 DEF Depth
<1>4. \A u \in Threads : Depth(u)' <= MaxDepth
    BY <1>1, <1>3
<1> QED
    BY <1>2, <1>3, <1>4 DEF StackTypes, OthersKept

LEMMA Pushed ==
    ASSUME StackTypes, NEW t \in Threads, NEW f \in FrameType, Depth(t) + 1 <= MaxDepth,
           stack' = [stack EXCEPT ![t] = Append(@, f)]
    PROVE  /\ StackTypes' /\ OthersKept(t) /\ CallersKept(t, Depth(t))
           /\ Depth(t)' = Depth(t) + 1 /\ Top(t)' = f
<1> DEFINE s == Append(stack[t], f)
<1>1. stack[t] \in Seq(FrameType)
    BY DEF StackTypes
<1>2. /\ s \in Seq(FrameType) /\ Len(s) = Depth(t) + 1 /\ s[Len(s)] = f
      /\ \A d \in 1 .. Depth(t) : s[d] = stack[t][d]
    BY <1>1 DEF Depth
<1>3. stack' = [stack EXCEPT ![t] = s]
    OBVIOUS
<1> HIDE DEF s
<1>4. StackTypes' /\ OthersKept(t) /\ stack'[t] = s /\ Depth(t)' = Len(s)
    BY <1>2, <1>3, Changed
<1> QED
    BY <1>2, <1>4 DEF CallersKept, Top

LEMMA Popped ==
    ASSUME StackTypes, NEW t \in Threads, Depth(t) > 0,
           stack' = [stack EXCEPT ![t] = SubSeq(stack[t], 1, Depth(t) - 1)]
    PROVE  /\ StackTypes' /\ OthersKept(t) /\ CallersKept(t, Depth(t) - 1)
           /\ Depth(t)' = Depth(t) - 1
<1> DEFINE s == SubSeq(stack[t], 1, Depth(t) - 1)
<1>1. stack[t] \in Seq(FrameType) /\ Depth(t) \in Nat /\ Depth(t) <= MaxDepth
    BY StackFacts DEF StackTypes
<1>2. /\ s \in Seq(FrameType) /\ Len(s) = Depth(t) - 1
      /\ \A d \in 1 .. Depth(t) - 1 : s[d] = stack[t][d]
    BY <1>1 DEF Depth
<1>3. Len(s) <= MaxDepth
    BY <1>1, <1>2, SysMonitoringAssumption
<1> HIDE DEF s
<1>4. StackTypes' /\ OthersKept(t) /\ stack'[t] = s /\ Depth(t)' = Len(s)
    BY <1>2, <1>3, Changed DEF s
<1> QED
    BY <1>2, <1>4 DEF CallersKept

LEMMA TopSet ==
    ASSUME StackTypes, NEW t \in Threads, Depth(t) > 0, NEW f \in FrameType,
           stack' = [stack EXCEPT ![t] = [stack[t] EXCEPT ![Depth(t)] = f]]
    PROVE  /\ StackTypes' /\ OthersKept(t) /\ CallersKept(t, Depth(t) - 1)
           /\ Depth(t)' = Depth(t) /\ Top(t)' = f
<1> DEFINE s == [stack[t] EXCEPT ![Depth(t)] = f]
<1>1. /\ stack[t] \in Seq(FrameType) /\ Depth(t) \in Nat /\ Depth(t) <= MaxDepth
      /\ Depth(t) \in 1 .. Len(stack[t]) /\ DOMAIN stack[t] = 1 .. Depth(t)
    BY StackFacts DEF StackTypes, Depth
<1>2. s \in Seq(FrameType) /\ Len(s) = Depth(t)
    BY <1>1, ExceptSeq DEF Depth
<1>3. /\ s[Depth(t)] = f
      /\ \A d \in 1 .. Depth(t) - 1 : s[d] = stack[t][d]
    BY <1>1
<1> HIDE DEF s
<1>4. StackTypes' /\ OthersKept(t) /\ stack'[t] = s /\ Depth(t)' = Len(s)
    BY <1>1, <1>2, Changed DEF s
<1> QED
    BY <1>2, <1>3, <1>4 DEF CallersKept, Top

-----------------------------------------------------------------------------
(***************************************************************************)
(* The step state of a thread keeps its type.                              *)
(***************************************************************************)
LEMMA StepKinds ==
    /\ Into \subseteq Steps /\ Over \subseteq Steps /\ Return \subseteq Steps
    /\ "smart" \in Steps /\ None \notin Steps
    /\ \A step \in Steps : step \in Into \cup Over \cup Return \cup {"smart"}
BY DEF Into, Over, Return, Steps, None

LEMMA InfoChanges ==
    ASSUME NEW i \in Infos
    PROVE  /\ MarkThreadSuspended(i) \in Infos /\ RunThread(i) \in Infos
           /\ [i EXCEPT !.initial = NoLocation] \in Infos
           /\ [MarkThreadSuspended(i) EXCEPT !.initial = NoLocation] \in Infos
           /\ \A d \in Nat : ForgetFrame(i, d) \in Infos
           /\ \A step \in Steps, x \in (Codes \X Lines0) \cup {NoLocation} :
                 StepInThread(i, step, x) \in Infos
<1>1. MaxDepth \in Nat /\ LastLine \in Nat
    BY SysMonitoringAssumption
<1> DEFINE Places == (Codes \X Lines0) \cup {NoLocation}
           Starts == (0 .. MaxDepth) \X Lines0
<1>2. Infos = [state : {"run", "suspend"}, step : Steps \cup {None}, stop : Gone .. MaxDepth,
               target : Places, initial : Starts, wait : BOOLEAN]
    BY DEF Infos, InfoType, Lines0
<1>3. /\ NoLocation \in Places /\ NoLocation \in Starts
      /\ 0 \in Gone .. MaxDepth /\ Gone \in Gone .. MaxDepth
      /\ "into" \in Steps
    BY <1>1 DEF NoLocation, Lines0, Gone, Steps, Into
<1> HIDE DEF Places, Starts
<1>4. RunThread(i) \in Infos
    BY <1>2, <1>3 DEF RunThread
<1>5. MarkThreadSuspended(i) \in Infos
  <2> DEFINE step == IF i.step = None THEN "into" ELSE i.step
             stop == IF i.step = None THEN 0 ELSE i.stop
  <2>1. step \in Steps \cup {None} /\ stop \in Gone .. MaxDepth
    BY <1>2, <1>3
  <2>2. MarkThreadSuspended(i) = [i EXCEPT !.state = "suspend", !.step = step, !.stop = stop]
    BY DEF MarkThreadSuspended
  <2> HIDE DEF step, stop
  <2> QED
    BY <1>2, <2>1, <2>2
<1>6. \A j \in Infos : [j EXCEPT !.initial = NoLocation] \in Infos
    BY <1>2, <1>3
<1>7. ASSUME NEW d \in Nat PROVE ForgetFrame(i, d) \in Infos
  <2> DEFINE stop == IF i.stop = d THEN Gone ELSE i.stop
             initial == IF i.initial[1] = d THEN NoLocation ELSE i.initial
  <2>1. stop \in Gone .. MaxDepth /\ initial \in Starts
    BY <1>2, <1>3
  <2>2. ForgetFrame(i, d) = [i EXCEPT !.stop = stop, !.initial = initial]
    BY DEF ForgetFrame
  <2> HIDE DEF stop, initial
  <2> QED
    BY <1>2, <2>1, <2>2
<1>8. ASSUME NEW step \in Steps, NEW x \in (Codes \X Lines0) \cup {NoLocation}
      PROVE  StepInThread(i, step, x) \in Infos
  <2>1. x \in Places
    BY DEF Places
  <2> QED
    BY <1>2, <1>3, <2>1 DEF StepInThread
<1> QED
    BY <1>4, <1>5, <1>6, <1>7, <1>8

\* The frame of a step return is there.
LEMMA StepReturnFrameType ==
    ASSUME NEW frames, NEW d \in Nat \ {0}, NEW step
    PROVE  StepReturnFrame(frames, d, step) \in 0 .. d
<1> DEFINE filtering == JustMyCode \/ ForceCheckProjectScope(step)
           callers == {e \in 1 .. d - 1 : filtering => ~Excluded(frames[e].code, step)}
           last == CHOOSE e \in callers : \A x \in callers : x <= e
<1>1. StepReturnFrame(frames, d, step) =
          IF callers # {} THEN last + 1 ELSE IF filtering THEN 0 ELSE 1
    BY DEF StepReturnFrame
<1>2. callers \subseteq 1 .. d - 1 /\ d - 1 \in Nat
    OBVIOUS
<1>3. ASSUME callers # {} PROVE last \in 1 .. d - 1
  <2> HIDE DEF callers
  <2>1. \E e \in callers : \A x \in callers : x <= e
    BY <1>2, <1>3, MaxExists
  <2>2. last \in callers
    BY <2>1
  <2> QED
    BY <1>2, <2>2
<1> HIDE DEF last, callers, filtering
<1> QED
    BY <1>1, <1>3

LEMMA PrepareStepType ==
    ASSUME NEW i \in Infos, NEW frames, NEW d \in 1 .. MaxDepth, frames[d].line \in Lines0
    PROVE  /\ PrepareStep(i, frames, d) \in Infos
           /\ PrepareStep(i, frames, d).stop \in 0 .. d \/ PrepareStep(i, frames, d).step = None
           /\ PrepareStep(i, frames, d).state = i.state \/ PrepareStep(i, frames, d).state = "run"
<1> DEFINE back == StepReturnFrame(frames, d, i.step)
           p == PrepareStep(i, frames, d)
<1>1. MaxDepth \in Nat /\ LastLine \in Nat /\ d \in Nat \ {0} /\ d <= MaxDepth
    BY SysMonitoringAssumption
<1>2. back \in 0 .. d
    BY <1>1, StepReturnFrameType
<1>3. p = CASE i.step \in Into -> [i EXCEPT !.initial = <<d, frames[d].line>>, !.stop = 0]
            [] i.step \in Over \cup {"smart"} -> [i EXCEPT !.stop = d]
            [] i.step \in Return /\ back > 0 -> [i EXCEPT !.stop = back]
            [] i.step \in Return /\ back = 0 -> RunThread(i)
            [] OTHER -> i
    BY DEF PrepareStep
<1> HIDE DEF back, p
<1>4. i.step \in Steps \cup {None} /\ i.step # None => i.step \in Into \cup Over \cup Return \cup {"smart"}
    BY StepKinds DEF Infos, InfoType
<1>5. CASE i.step \in Into
  <2> DEFINE initial == <<d, frames[d].line>>
  <2>0. i.step \notin Over \cup {"smart"} /\ i.step \notin Return
    BY <1>5 DEF Into, Over, Return
  <2>1. p = [i EXCEPT !.initial = initial, !.stop = 0]
    BY <1>3, <1>5, <2>0
  <2>2. initial \in (0 .. MaxDepth) \X (0 .. LastLine) /\ 0 \in Gone .. MaxDepth
    BY <1>1 DEF Lines0, Gone
  <2> HIDE DEF initial
  <2>3. p \in Infos /\ p.stop = 0 /\ p.state = i.state
    BY <2>1, <2>2 DEF Infos, InfoType
  <2> QED
    BY <1>1, <2>3 DEF p
<1>6. CASE i.step \in Over \cup {"smart"}
  <2>0. i.step \notin Into /\ i.step \notin Return
    BY <1>6 DEF Into, Over, Return
  <2>1. p = [i EXCEPT !.stop = d]
    BY <1>3, <1>6, <2>0
  <2> QED
    BY <1>1, <2>1 DEF Infos, InfoType, Gone, p
<1>7. CASE i.step \in Return /\ back > 0
  <2>1. p = [i EXCEPT !.stop = back]
    BY <1>1, <1>2, <1>3, <1>7 DEF Into, Over, Return
  <2> QED
    BY <1>1, <1>2, <2>1 DEF Infos, InfoType, Gone, p
<1>8. CASE i.step \in Return /\ back = 0
  <2>1. p = RunThread(i)
    BY <1>3, <1>8 DEF Into, Over, Return
  <2>2. p.step = None /\ p.state = "run"
    BY <2>1 DEF RunThread, Infos, InfoType
  <2> QED
    BY <2>1, <2>2, InfoChanges DEF p
<1>9. CASE i.step = None
  <2>1. p = i
    BY <1>3, <1>9 DEF Into, Over, Return, None
  <2> QED
    BY <1>9, <2>1 DEF p
<1>10. back > 0 \/ back = 0
    BY <1>1, <1>2
<1>11. i.step \in Steps \cup {None}
    BY DEF Infos, InfoType
<1> QED
    BY <1>4, <1>5, <1>6, <1>7, <1>8, <1>9, <1>10, <1>11 DEF p


-----------------------------------------------------------------------------
(***************************************************************************)
(* Every step keeps the types.                                             *)
(***************************************************************************)

\* Initially nothing runs.
LEMMA InitTypes == Init => TypeInv
<1> SUFFICES ASSUME Init PROVE TypeInv
    OBVIOUS
<1>1. MaxDepth \in Nat /\ LastLine \in Nat
    BY SysMonitoringAssumption
<1>2. StackTypes
    BY <1>1 DEF Init, StackTypes, Depth
<1>3. ThreadTypes /\ MapTypes /\ CacheTypes /\ EventTypes
    BY DEF Init, ThreadTypes, MapTypes, CacheTypes, EventTypes, Running, Events
<1>4. DebuggerTypes
  <2>1. NewInfo \in Infos
    BY <1>1 DEF NewInfo, Infos, InfoType, Gone, NoLocation
  <2> QED
    BY <2>1 DEF Init, DebuggerTypes, CmdType
<1>5. PlaceInv
    BY DEF Init, PlaceInv, Depth, Running, Waiting
<1> QED
    BY <1>2, <1>3, <1>4, <1>5 DEF TypeInv

\* what a thread is about, unless a step changes it
LEMMA ThreadFacts ==
    ASSUME TypeInv, NEW t \in Threads
    PROVE  /\ pc[t] \in Running \cup Waiting /\ event[t] \in Events
           /\ seen[t] \in SUBSET Lines0 /\ at[t] \in Nat /\ info[t] \in Infos
           /\ Depth(t) \in Nat /\ Depth(t) <= MaxDepth /\ DOMAIN stack[t] = 1 .. Depth(t)
           /\ \A d \in 1 .. Depth(t) : stack[t][d] \in FrameType
           /\ Depth(t) > 0 => Top(t) \in FrameType
           /\ pc[t] # "run" => Depth(t) > 0
           /\ at[t] <= Depth(t)
           /\ pc[t] \in Running => at[t] = 0
           /\ pc[t] \in Waiting =>
                  at[t] > 0 /\ (at[t] = Depth(t) \/ (event[t] = "return" /\ at[t] = Depth(t) - 1))
<1>1. /\ Depth(t) \in Nat /\ DOMAIN stack[t] = 1 .. Depth(t)
      /\ \A d \in 1 .. Depth(t) : stack[t][d] \in FrameType
      /\ Depth(t) > 0 => Top(t) \in FrameType
      /\ Depth(t) <= MaxDepth
    BY StackFacts DEF TypeInv, StackTypes
<1>2. pc[t] # "run" => Depth(t) > 0
    BY DEF TypeInv, PlaceInv
<1>3. /\ at[t] <= Depth(t)
      /\ pc[t] \in Running => at[t] = 0
      /\ pc[t] \in Waiting =>
             at[t] > 0 /\ (at[t] = Depth(t) \/ (event[t] = "return" /\ at[t] = Depth(t) - 1))
    BY DEF TypeInv, PlaceInv
<1> QED
    BY <1>1, <1>2, <1>3 DEF TypeInv, ThreadTypes, DebuggerTypes

LEMMA CodeFacts ==
    ASSUME TypeInv, NEW t \in Threads
    PROVE  /\ \A d \in 1 .. Depth(t) : stack[t][d].code \in Codes /\ stack[t][d].line \in Lines0
           /\ Depth(t) > 0 => Top(t).code \in Codes /\ Top(t).line \in Lines0
BY ThreadFacts DEF FrameType

\* the state of the other threads but for their stacks and step states
OthersRest(t) == \A u \in Threads : u # t =>
    pc'[u] = pc[u] /\ event'[u] = event[u] /\ seen'[u] = seen[u] /\ at'[u] = at[u]

\* Places: a step of t that keeps the depths of the others.
LEMMA PlaceStep ==
    ASSUME TypeInv, NEW t \in Threads,
           \A u \in Threads : u # t => Depth(u)' = Depth(u),
           OthersRest(t),
           /\ pc'[t] # "run" => Depth(t)' > 0
           /\ at'[t] <= Depth(t)'
           /\ pc'[t] \in Waiting =>
                  /\ at'[t] > 0
                  /\ at'[t] = Depth(t)' \/ (event'[t] = "return" /\ at'[t] = Depth(t)' - 1)
           /\ pc'[t] \in Running => at'[t] = 0
    PROVE  PlaceInv'
<1> SUFFICES ASSUME NEW u \in Threads
             PROVE  /\ pc'[u] # "run" => Depth(u)' > 0
                    /\ at'[u] <= Depth(u)'
                    /\ pc'[u] \in Waiting =>
                           /\ at'[u] > 0
                           /\ at'[u] = Depth(u)' \/ (event'[u] = "return" /\ at'[u] = Depth(u)' - 1)
                    /\ pc'[u] \in Running => at'[u] = 0
    BY DEF PlaceInv
<1> QED
    BY ThreadFacts DEF OthersRest

LEMMA EndCallbackFacts ==
    ASSUME TypeInv, NEW t \in Threads, BackToProgram(t)
    PROVE  /\ ThreadTypes' /\ OthersRest(t)
           /\ pc'[t] = "run" /\ event'[t] = None /\ seen'[t] = {} /\ at'[t] = 0
BY DEF TypeInv, ThreadTypes, BackToProgram, OthersRest, Running, Events

LEMMA BackPlace ==
    ASSUME TypeInv, NEW t \in Threads, BackToProgram(t), OthersKept(t), Depth(t)' \in Nat
    PROVE  PlaceInv'
<1>1. /\ OthersRest(t) /\ pc'[t] = "run" /\ at'[t] = 0
      /\ \A u \in Threads : u # t => Depth(u)' = Depth(u)
    BY EndCallbackFacts DEF OthersKept
<1>2. pc'[t] \notin Waiting /\ at'[t] <= Depth(t)'
    BY <1>1 DEF Waiting
<1> QED
    BY <1>1, <1>2, PlaceStep

LEMMA FiredFacts ==
    ASSUME TypeInv, NEW t \in Threads, NEW ev \in {"start", "line", "return"},
           Fire(t, ev), seen' = seen, at' = at
    PROVE  ThreadTypes' /\ OthersRest(t) /\ pc'[t] = "fetch" /\ event'[t] = ev
BY DEF TypeInv, ThreadTypes, Fire, OthersRest, Running, Events

\* The parts that a step leaves alone.
LEMMA KeptMaps ==
    ASSUME TypeInv, promise' = promise, marks' = marks
    PROVE  MapTypes'
BY DEF TypeInv, MapTypes
LEMMA MapsKept ==
    ASSUME TypeInv, NEW t \in Threads,
           promise' = promise \/ \E x : promise' = [promise EXCEPT ![t] = x],
           marks' = marks \/ \E y : marks' = [marks EXCEPT ![t] = y]
    PROVE  MapTypes'
BY DEF TypeInv, MapTypes
LEMMA KeptThreads ==
    ASSUME TypeInv, UNCHANGED <<pc, event, seen, at>>
    PROVE  ThreadTypes' /\ \A t \in Threads : OthersRest(t)
BY DEF TypeInv, ThreadTypes, OthersRest
LEMMA KeptStacks ==
    ASSUME TypeInv, stack' = stack
    PROVE  StackTypes' /\ \A t \in Threads : OthersKept(t) /\ Depth(t)' = Depth(t)
BY DEF TypeInv, StackTypes, OthersKept, Depth
LEMMA KeptCaches ==
    ASSUME TypeInv, cache' = cache, fresh' = fresh
    PROVE  CacheTypes'
BY DEF TypeInv, CacheTypes
LEMMA KeptEvents ==
    ASSUME TypeInv, UNCHANGED <<local, disabled, late, foreign, tracking>>
    PROVE  EventTypes'
BY DEF TypeInv, EventTypes
LEMMA KeptDebugger ==
    ASSUME TypeInv, info' \in [Threads -> Infos], stepping' \subseteq Threads,
           UNCHANGED <<bps, settled, cmd>>
    PROVE  DebuggerTypes'
BY DEF TypeInv, DebuggerTypes
LEMMA OldParts ==
    ASSUME TypeInv
    PROVE  /\ StackTypes /\ ThreadTypes /\ MapTypes /\ CacheTypes /\ EventTypes /\ DebuggerTypes
           /\ PlaceInv /\ info \in [Threads -> Infos] /\ stepping \subseteq Threads
           /\ bps \subseteq BreakLocations /\ settled \subseteq bps /\ cmd \in CmdType
BY DEF TypeInv, DebuggerTypes
LEMMA NewParts ==
    ASSUME StackTypes', ThreadTypes', MapTypes', CacheTypes', EventTypes', DebuggerTypes', PlaceInv'
    PROVE  TypeInv'
BY DEF TypeInv

-----------------------------------------------------------------------------
(* What is known of a code, and the events asked for *)

LEMMA LinesOf ==
    ASSUME TypeInv, NEW c \in Codes
    PROVE  /\ BreakpointLines(c) \subseteq Lines0 /\ FuncCodeInfo(c) \subseteq Lines0
           /\ \A l : l \in BreakpointLines(c) <=> <<c, l>> \in bps
<1>1. \A b \in bps : b[2] \in Lines0 /\ b = <<b[1], b[2]>>
    BY SysMonitoringAssumption DEF TypeInv, DebuggerTypes, Lines0
<1>2. BreakpointLines(c) \subseteq Lines0 /\ \A l : l \in BreakpointLines(c) <=> <<c, l>> \in bps
    BY <1>1 DEF BreakpointLines
<1> QED
    BY <1>2 DEF TypeInv, CacheTypes, FuncCodeInfo, NewFuncCodeInfo

LEMMA FilledTypes ==
    ASSUME TypeInv, NEW C \in SUBSET Codes, FillCache(C)
    PROVE  CacheTypes'
<1>1. \A c \in Codes : FuncCodeInfo(c) \subseteq Lines0
    BY LinesOf
<1> QED
    BY <1>1 DEF TypeInv, CacheTypes, FillCache

LEMMA TracingKinds ==
    ASSUME NEW i, NEW c, NEW d, NEW lines
    PROVE  CodeTracing(i, c, d, lines) \subseteq Kinds
<1>1. StepTracing(i, d) \subseteq Kinds
    BY DEF StepTracing, Kinds
<1> QED
    BY <1>1 DEF CodeTracing, Kinds

\* The frames of the threads in S have the events they need, and no event is lost.
LEMMA EnabledFacts ==
    ASSUME TypeInv, NEW events \in [Codes -> SUBSET Kinds], NEW infos, NEW S \in SUBSET Threads,
           NEW upto, \A t \in S : upto[t] <= Depth(t) /\ upto[t] \in Int,
           EnableFrames(events, infos, S, upto)
    PROVE  /\ local' \in [Codes -> SUBSET Kinds]
           /\ \A c \in Codes : events[c] \subseteq local'[c]
           /\ \A t \in S : \A d \in 1 .. Depth(t) :
                  d <= upto[t] /\ ~AlwaysSkipCode(stack[t][d].code) =>
                      CodeTracing(infos[t], stack[t][d].code, d, FuncCodeInfo(stack[t][d].code))
                          \subseteq local'[stack[t][d].code]
           /\ CacheTypes' /\ \E C \in SUBSET Codes : FillCache(C)
<1> DEFINE frames == TracedFrames(S, upto)
           CodeOf(f) == stack[f[1]][f[2]].code
           Added(c, f) == CodeTracing(infos[f[1]], c, f[2], FuncCodeInfo(c))
           AllAdded(c) == UNION {Added(c, f) : f \in {g \in frames : CodeOf(g) = c}}
<1>1. local' = [c \in Codes |-> events[c] \cup AllAdded(c)] /\ FillCache({CodeOf(f) : f \in frames})
    BY DEF EnableFrames
<1>2. \A c \in Codes : AllAdded(c) \subseteq Kinds
  <2>1. \A c, f : Added(c, f) \subseteq Kinds
    BY TracingKinds
  <2> HIDE DEF Added
  <2> QED
    BY <2>1
<1>3. \A f \in frames : CodeOf(f) \in Codes
  <2> TAKE f \in frames
  <2>1. f[1] \in Threads /\ f[2] \in 1 .. Depth(f[1])
    BY ThreadFacts DEF TracedFrames
  <2> QED
    BY <2>1, CodeFacts
<1>4. ASSUME NEW t \in S, NEW d \in 1 .. Depth(t), d <= upto[t], ~AlwaysSkipCode(stack[t][d].code)
      PROVE  Added(stack[t][d].code, <<t, d>>) \subseteq local'[stack[t][d].code]
  <2>1. d \in 1 .. MaxDepth
    BY ThreadFacts, SysMonitoringAssumption
  <2>2. <<t, d>> \in frames /\ CodeOf(<<t, d>>) = stack[t][d].code
    BY <1>4, <2>1 DEF TracedFrames
  <2>3. stack[t][d].code \in Codes
    BY <1>3, <2>2
  <2> HIDE DEF frames, CodeOf, Added
  <2>4. Added(stack[t][d].code, <<t, d>>) \subseteq AllAdded(stack[t][d].code)
    BY <2>2
  <2> QED
    BY <1>1, <2>3, <2>4
<1>5. {CodeOf(f) : f \in frames} \in SUBSET Codes
    BY <1>3
<1> HIDE DEF frames, CodeOf, AllAdded
<1>6. CacheTypes' /\ \E C \in SUBSET Codes : FillCache(C)
    BY <1>1, <1>5, FilledTypes
<1>7. local' \in [Codes -> SUBSET Kinds] /\ \A c \in Codes : events[c] \subseteq local'[c]
    BY <1>1, <1>2
<1> QED
    BY <1>4, <1>6, <1>7

-----------------------------------------------------------------------------
(* The program *)

LEMMA CallFacts ==
    ASSUME TypeInv, NEW t \in Threads, NEW c \in Codes, Call(t, c)
    PROVE  /\ StackTypes' /\ OthersKept(t) /\ CallersKept(t, Depth(t))
           /\ Depth(t)' = Depth(t) + 1
           /\ Top(t)' = [code |-> c, line |-> 0, blind |-> RestartPending,
                         skipped |-> <<c, 0>> \in foreign]
<1> DEFINE f == [code |-> c, line |-> 0, blind |-> RestartPending, skipped |-> <<c, 0>> \in foreign]
<1>1. f \in FrameType
  <2>1. RestartPending \in BOOLEAN
    BY DEF RestartPending
  <2> QED
    BY <2>1, SysMonitoringAssumption DEF FrameType, Lines0
<1>2. Depth(t) + 1 <= MaxDepth /\ stack' = [stack EXCEPT ![t] = Append(@, f)] /\ StackTypes
    BY DEF Call, TypeInv
<1> HIDE DEF f
<1> QED
    BY <1>1, <1>2, Pushed DEF f

LEMMA AdvanceFacts ==
    ASSUME TypeInv, NEW t \in Threads, NEW l \in 1 .. LastLine, Advance(t, l)
    PROVE  /\ StackTypes' /\ OthersKept(t) /\ CallersKept(t, Depth(t) - 1)
           /\ Depth(t)' = Depth(t) /\ Depth(t) > 0 /\ Top(t)' = [Top(t) EXCEPT !.line = l]
<1> DEFINE f == [Top(t) EXCEPT !.line = l]
<1>1. Depth(t) > 0 /\ StackTypes /\ Top(t) \in FrameType
    BY ThreadFacts DEF Advance, TypeInv
<1>2. f \in FrameType
    BY <1>1, SysMonitoringAssumption DEF FrameType, Lines0
<1>3. stack' = [stack EXCEPT ![t] = [stack[t] EXCEPT ![Depth(t)] = f]]
    BY DEF Advance, Top
<1> HIDE DEF f
<1> QED
    BY <1>1, <1>2, <1>3, TopSet DEF f

LEMMA PopFacts ==
    ASSUME TypeInv, NEW t \in Threads, Depth(t) > 0, NEW infos \in [Threads -> Infos], Pop(t, infos)
    PROVE  /\ StackTypes' /\ OthersKept(t) /\ CallersKept(t, Depth(t) - 1)
           /\ Depth(t)' = Depth(t) - 1 /\ Depth(t)' \in Nat
           /\ info' = [infos EXCEPT ![t] = ForgetFrame(infos[t], Depth(t))]
           /\ info' \in [Threads -> Infos]
<1>1. /\ stack' = [stack EXCEPT ![t] = SubSeq(stack[t], 1, Depth(t) - 1)] /\ StackTypes
      /\ info' = [infos EXCEPT ![t] = ForgetFrame(infos[t], Depth(t))]
    BY DEF Pop, TypeInv
<1>2. Depth(t) \in Nat
    BY ThreadFacts
<1>3. ForgetFrame(infos[t], Depth(t)) \in Infos
    BY <1>2, InfoChanges
<1>4. /\ StackTypes' /\ OthersKept(t) /\ CallersKept(t, Depth(t) - 1)
      /\ Depth(t)' = Depth(t) - 1
    BY <1>1, Popped
<1>5. info' \in [Threads -> Infos]
    BY <1>1, <1>3
<1> QED
    BY <1>1, <1>2, <1>4, <1>5

\* A step of the program: the stack changes, or the interpreter calls pydevd.
LEMMA ProgramTypes ==
    ASSUME TypeInv, NEW t \in Threads, Program(t)
    PROVE  TypeInv'
<1>1. ASSUME NEW ev \in {"start", "line", "return"}, StackTypes', OthersKept(t), pc[t] = "run",
             Depth(t)' > 0, Depth(t)' \in Nat, Fire(t, ev) \/ UNCHANGED <<pc, event>>,
             UNCHANGED <<seen, at>>
      PROVE  PlaceInv' /\ ThreadTypes'
  <2>1. ThreadTypes' /\ OthersRest(t) /\ pc'[t] \in {"run", "fetch"}
    BY <1>1, FiredFacts, KeptThreads
  <2>2. at'[t] = 0 /\ pc'[t] \notin Waiting
    BY <1>1, <2>1, ThreadFacts DEF Running, Waiting
  <2> QED
    BY <1>1, <2>1, <2>2, PlaceStep DEF OthersKept
<1>2. ASSUME NEW c \in Codes, Call(t, c) PROVE TypeInv'
  <2>1. /\ Fire(t, "start") \/ UNCHANGED <<pc, event>>
        /\ pc[t] = "run" /\ (\E y : marks' = [marks EXCEPT ![t] = y])
        /\ UNCHANGED <<seen, at, info, stepping, bps, cache, fresh, local, disabled, tracking,
                       cmd, settled, late, foreign, promise>>
    BY <1>2 DEF Call, monitors
  <2>2. StackTypes' /\ OthersKept(t) /\ Depth(t)' = Depth(t) + 1
    BY <1>2, CallFacts
  <2>3. Depth(t)' > 0 /\ Depth(t)' \in Nat
    BY <2>2, ThreadFacts
  <2> QED
    BY <1>1, <2>1, <2>2, <2>3, OldParts, MapsKept, KeptCaches, KeptEvents, KeptDebugger, NewParts
<1>3. ASSUME NEW l \in 1 .. LastLine, Advance(t, l) PROVE TypeInv'
  <2>1. /\ Fire(t, "line") \/ UNCHANGED <<pc, event>>
        /\ pc[t] = "run" /\ (\E y : marks' = [marks EXCEPT ![t] = y])
        /\ UNCHANGED <<seen, at, info, stepping, bps, cache, fresh, local, disabled, tracking,
                       cmd, settled, late, foreign, promise>>
    BY <1>3 DEF Advance, monitors
  <2>2. StackTypes' /\ OthersKept(t) /\ Depth(t)' > 0 /\ Depth(t)' \in Nat
    BY <1>3, AdvanceFacts, ThreadFacts
  <2> QED
    BY <1>1, <2>1, <2>2, OldParts, MapsKept, KeptCaches, KeptEvents, KeptDebugger, NewParts
<1>4. ASSUME Pop(t, info), Depth(t) > 0, pc[t] = "run", UNCHANGED <<pc, event, seen, at>>,
             \E y : marks' = [marks EXCEPT ![t] = y],
             promise' = promise \/ \E x : promise' = [promise EXCEPT ![t] = x],
             UNCHANGED <<stepping, bps, cache, fresh, local, disabled, tracking, cmd, settled,
                         late, foreign>>
      PROVE  TypeInv'
  <2>1. /\ StackTypes' /\ OthersKept(t) /\ Depth(t)' \in Nat /\ info' \in [Threads -> Infos]
    BY <1>4, PopFacts, OldParts
  <2>2. PlaceInv' /\ ThreadTypes'
    <3>1. /\ ThreadTypes' /\ OthersRest(t) /\ pc'[t] = "run" /\ at'[t] = 0
          /\ pc'[t] \notin Waiting
      BY <1>4, KeptThreads, ThreadFacts DEF Running, Waiting
    <3>2. at'[t] <= Depth(t)'
      BY <2>1, <3>1
    <3> QED
      BY <2>1, <3>1, <3>2, PlaceStep DEF OthersKept
  <2> QED
    BY <1>4, <2>1, <2>2, OldParts, MapsKept, KeptCaches, KeptEvents, KeptDebugger, NewParts
<1>5. ASSUME Return_(t) PROVE TypeInv'
  <2>1. /\ pc[t] = "run" /\ Depth(t) > 0 /\ (\E y : marks' = [marks EXCEPT ![t] = y])
        /\ \/ Fire(t, "return") /\ UNCHANGED <<stack, info>>
           \/ Pop(t, info) /\ UNCHANGED <<pc, event>>
        /\ UNCHANGED <<seen, at, stepping, bps, cache, fresh, local, disabled, tracking,
                       cmd, settled, late, foreign, promise>>
    BY <1>5 DEF Return_, monitors
  <2>2. CASE Fire(t, "return") /\ UNCHANGED <<stack, info>>
    <3>1. StackTypes' /\ OthersKept(t) /\ Depth(t)' > 0 /\ Depth(t)' \in Nat
      BY <2>1, <2>2, KeptStacks, ThreadFacts
    <3> QED
      BY <1>1, <2>1, <2>2, <3>1, OldParts, MapsKept, KeptCaches, KeptEvents, KeptDebugger, NewParts
  <2> QED
    BY <1>4, <2>1, <2>2
<1>6. ASSUME Unwind(t) PROVE TypeInv'
  <2>1. /\ pc[t] = "run" /\ Depth(t) > 0 /\ marks' = [marks EXCEPT ![t] = {}]
        /\ Pop(t, info) /\ (\E x : promise' = [promise EXCEPT ![t] = x])
        /\ UNCHANGED <<pc, event, seen, at, stepping, bps, cache, fresh, local, disabled, tracking,
                       cmd, settled, late, foreign>>
    <3>1. PopUnnoticed(t, info, promise)
      BY <1>6 DEF Unwind
    <3>2. \E x : promise' = [promise EXCEPT ![t] = x]
      BY <3>1 DEF PopUnnoticed
    <3> QED
      BY <1>6, <3>1, <3>2 DEF Unwind, PopUnnoticed, monitors
  <2> QED
    BY <1>4, <2>1
<1> QED
    BY <1>2, <1>3, <1>5, <1>6 DEF Program

-----------------------------------------------------------------------------
(* Callbacks *)

LEMMA SteppingType ==
    ASSUME UpdateSteppingInfo
    PROVE  stepping' \subseteq Threads
BY DEF UpdateSteppingInfo

LEMMA FetchTypes ==
    ASSUME TypeInv, NEW t \in Threads, Fetch(t)
    PROVE  TypeInv'
<1>1. /\ pc[t] = "fetch" /\ pc' = [pc EXCEPT ![t] = "decide"]
      /\ seen' = [seen EXCEPT ![t] = FuncCodeInfo(Top(t).code)] /\ FillCache({Top(t).code})
      /\ UNCHANGED <<stack, event, at, info, stepping, bps, local, disabled, tracking, cmd,
                     settled, late, foreign, promise, marks>>
    BY DEF Fetch, history
<1>2. Top(t).code \in Codes /\ Depth(t) > 0 /\ at[t] = 0 /\ Depth(t) \in Nat
    BY <1>1, ThreadFacts, CodeFacts DEF Running
<1>3. FuncCodeInfo(Top(t).code) \subseteq Lines0 /\ CacheTypes'
    BY <1>1, <1>2, LinesOf, FilledTypes
<1>4. ThreadTypes' /\ OthersRest(t) /\ pc'[t] = "decide" /\ at'[t] = 0
    BY <1>1, <1>2, <1>3 DEF TypeInv, ThreadTypes, OthersRest, Running
<1>5. PlaceInv'
    BY <1>1, <1>2, <1>4, KeptStacks, PlaceStep DEF Waiting
<1> QED
    BY <1>1, <1>3, <1>4, <1>5, KeptStacks, KeptMaps, KeptEvents, KeptDebugger, OldParts, NewParts

\* The events that a callback of PY_START asks for.
LEMMA StartEventsFacts ==
    ASSUME TypeInv, NEW t \in Threads, pc[t] # "run"
    PROVE  /\ StartEvents(t) \in [Codes -> SUBSET Kinds]
           /\ \A c \in Codes : local[c] \subseteq StartEvents(t)[c]
           /\ StartEvents(t)[Top(t).code] =
                  local[Top(t).code] \cup CodeTracing(info[t], Top(t).code, Depth(t), seen[t])
<1> DEFINE added == CodeTracing(info[t], Top(t).code, Depth(t), seen[t])
<1>1. Top(t).code \in Codes /\ added \subseteq Kinds /\ local \in [Codes -> SUBSET Kinds]
    BY ThreadFacts, CodeFacts, TracingKinds DEF TypeInv, EventTypes
<1>2. StartEvents(t) = [local EXCEPT ![Top(t).code] = local[Top(t).code] \cup added]
    BY DEF StartEvents
<1> HIDE DEF added
<1>3. /\ StartEvents(t) \in [Codes -> SUBSET Kinds]
      /\ \A c \in Codes : local[c] \subseteq StartEvents(t)[c]
      /\ StartEvents(t)[Top(t).code] = local[Top(t).code] \cup added
    BY <1>1, <1>2
<1> QED
    BY <1>3 DEF added

\* The end of a callback that leaves everything but the events as it is.
LEMMA QuietTypes ==
    ASSUME TypeInv, NEW t \in Threads, BackToProgram(t), EventTypes',
           UNCHANGED <<stack, info, stepping, bps, cache, fresh, cmd, settled, promise, marks>>
    PROVE  TypeInv'
<1>1. StackTypes' /\ OthersKept(t) /\ Depth(t)' \in Nat
    BY KeptStacks, ThreadFacts
<1>2. PlaceInv' /\ ThreadTypes'
    BY <1>1, BackPlace, EndCallbackFacts
<1> QED
    BY <1>1, <1>2, KeptMaps, KeptCaches, KeptDebugger, OldParts, NewParts

LEMMA ProceedTypes ==
    ASSUME TypeInv, NEW t \in Threads, Proceed(t), local' \in [Codes -> SUBSET Kinds]
    PROVE  TypeInv'
<1>1. /\ BackToProgram(t)
      /\ UNCHANGED <<stack, info, stepping, bps, cache, fresh, disabled, tracking, cmd,
                     settled, late, foreign, promise, marks>>
    BY DEF Proceed, history
<1>2. EventTypes'
    BY <1>1, OldParts DEF EventTypes
<1> QED
    BY <1>1, <1>2, QuietTypes

LEMMA DisableTypes ==
    ASSUME TypeInv, NEW t \in Threads, NEW loc \in Codes \X Lines0, Disable(t, loc),
           local' \in [Codes -> SUBSET Kinds]
    PROVE  TypeInv'
<1>1. /\ BackToProgram(t) /\ disabled' = disabled \cup {loc}
      /\ late' = late \/ late' = late \cup {loc}
      /\ foreign' = foreign \/ foreign' = foreign \cup {loc}
      /\ UNCHANGED <<stack, info, stepping, bps, cache, fresh, tracking, cmd,
                     settled, promise, marks>>
    BY DEF Disable
<1>2. EventTypes'
    BY <1>1, OldParts DEF EventTypes
<1> QED
    BY <1>1, <1>2, QuietTypes

\* who is marked as suspended when t suspends itself
Suspending(t) == IF SingleNotification THEN Threads ELSE {t}
Suspended(S) == [u \in Threads |-> IF u \in S THEN MarkThreadSuspended(info[u]) ELSE info[u]]

LEMMA SuspendedTypes ==
    ASSUME TypeInv, NEW S
    PROVE  Suspended(S) \in [Threads -> Infos]
BY ThreadFacts, InfoChanges DEF Suspended

LEMMA SetSuspendFacts ==
    ASSUME TypeInv, NEW t \in Threads, NEW d, NEW events \in [Codes -> SUBSET Kinds],
           SetSuspend(t, d, events)
    PROVE  /\ info' = Suspended(Suspending(t)) /\ UpdateSteppingInfo
           /\ EnableFrames(events, Suspended(Suspending(t)), Suspending(t) \ {t}, Depths)
           /\ local' \in [Codes -> SUBSET Kinds] /\ \A c \in Codes : events[c] \subseteq local'[c]
           /\ tracking' = (tracking \/ SingleNotification)
           /\ pc' = [pc EXCEPT ![t] = "restart"] /\ at' = [at EXCEPT ![t] = d]
           /\ CacheTypes' /\ \E C \in SUBSET Codes : FillCache(C)
           /\ UNCHANGED <<stack, event, seen, bps, disabled, cmd, settled, late, foreign, promise>>
<1> DEFINE others == IF SingleNotification THEN Threads \ {t} ELSE {}
<1>1. others = Suspending(t) \ {t} /\ others \cup {t} = Suspending(t)
    BY DEF Suspending
<1>2. /\ info' = [u \in Threads |-> IF u \in others \cup {t}
                                    THEN MarkThreadSuspended(info[u]) ELSE info[u]]
      /\ UpdateSteppingInfo
      /\ EnableFrames(events, [u \in Threads |-> IF u \in others \cup {t}
                                    THEN MarkThreadSuspended(info[u]) ELSE info[u]], others, Depths)
      /\ tracking' = (tracking \/ SingleNotification)
      /\ pc' = [pc EXCEPT ![t] = "restart"] /\ at' = [at EXCEPT ![t] = d]
      /\ UNCHANGED <<stack, event, seen, bps, disabled, cmd, settled, late, foreign, promise>>
    BY DEF SetSuspend
<1> HIDE DEF others
<1>3. /\ info' = Suspended(Suspending(t))
      /\ EnableFrames(events, Suspended(Suspending(t)), Suspending(t) \ {t}, Depths)
    BY <1>1, <1>2 DEF Suspended
<1>4. Suspending(t) \ {t} \in SUBSET Threads
    BY DEF Suspending
<1>5. \A u \in Suspending(t) \ {t} : Depths[u] <= Depth(u) /\ Depths[u] \in Int
    BY <1>4, ThreadFacts DEF Depths
<1>6. /\ local' \in [Codes -> SUBSET Kinds] /\ \A c \in Codes : events[c] \subseteq local'[c]
      /\ CacheTypes' /\ \E C \in SUBSET Codes : FillCache(C)
    BY <1>3, <1>4, <1>5, EnabledFacts
<1> QED
    BY <1>2, <1>3, <1>6

\* A thread that is to wait at its frame at depth d.
LEMMA WaitTypes ==
    ASSUME TypeInv, NEW t \in Threads, pc[t] = "decide", NEW d \in 1 .. Depth(t),
           d = Depth(t) \/ (event[t] = "return" /\ d = Depth(t) - 1),
           pc' = [pc EXCEPT ![t] = "restart"] \/ pc' = [pc EXCEPT ![t] = "enter"],
           at' = [at EXCEPT ![t] = d], UNCHANGED <<stack, event, seen>>
    PROVE  StackTypes' /\ ThreadTypes' /\ PlaceInv'
<1>1. /\ StackTypes' /\ OthersKept(t) /\ Depth(t)' = Depth(t) /\ Depth(t) \in Nat
    BY KeptStacks, ThreadFacts
<1>2. ThreadTypes' /\ OthersRest(t) /\ pc'[t] \in Waiting /\ at'[t] = d /\ event'[t] = event[t]
    BY <1>1, OldParts DEF ThreadTypes, OthersRest, Waiting
<1>3. d > 0 /\ d <= Depth(t) /\ pc'[t] \notin Running
    BY <1>1, <1>2 DEF Running, Waiting
<1>4. PlaceInv'
    BY <1>1, <1>2, <1>3, PlaceStep DEF OthersKept
<1> QED
    BY <1>1, <1>2, <1>4

LEMMA SetSuspendTypes ==
    ASSUME TypeInv, NEW t \in Threads, pc[t] = "decide", NEW d \in 1 .. Depth(t),
           d = Depth(t) \/ (event[t] = "return" /\ d = Depth(t) - 1),
           NEW events \in [Codes -> SUBSET Kinds], SetSuspend(t, d, events),
           NEW x, marks' = [marks EXCEPT ![t] = x]
    PROVE  TypeInv'
<1>1. /\ info' = Suspended(Suspending(t)) /\ UpdateSteppingInfo
      /\ local' \in [Codes -> SUBSET Kinds]
      /\ tracking' = (tracking \/ SingleNotification)
      /\ pc' = [pc EXCEPT ![t] = "restart"] /\ at' = [at EXCEPT ![t] = d] /\ CacheTypes'
      /\ UNCHANGED <<stack, event, seen, bps, disabled, cmd, settled, late, foreign, promise>>
    BY SetSuspendFacts
<1>2. StackTypes' /\ ThreadTypes' /\ PlaceInv'
    BY <1>1, WaitTypes
<1>3. info' \in [Threads -> Infos] /\ stepping' \subseteq Threads
    BY <1>1, SuspendedTypes, SteppingType
<1>4. EventTypes'
  <2>1. tracking \in BOOLEAN /\ SingleNotification \in BOOLEAN
    BY SysMonitoringAssumption, OldParts DEF EventTypes
  <2>2. tracking' \in BOOLEAN
    BY <1>1, <2>1
  <2> QED
    BY <1>1, <2>2, OldParts DEF EventTypes
<1> QED
    BY <1>1, <1>2, <1>3, <1>4, MapsKept, KeptDebugger, NewParts

LEMMA WaitSuspendedTypes ==
    ASSUME TypeInv, NEW t \in Threads, pc[t] = "decide", WaitSuspended(t)
    PROVE  TypeInv'
<1>1. /\ pc' = [pc EXCEPT ![t] = "enter"] /\ at' = [at EXCEPT ![t] = Depth(t)]
      /\ marks' = [marks EXCEPT ![t] = {}]
      /\ UNCHANGED <<stack, event, seen, info, stepping, bps, cache, fresh, local, disabled,
                     tracking, cmd, settled, late, foreign, promise>>
    BY DEF WaitSuspended, monitors
<1>2. Depth(t) \in 1 .. Depth(t)
    BY ThreadFacts
<1>3. StackTypes' /\ ThreadTypes' /\ PlaceInv'
    BY <1>1, <1>2, WaitTypes
<1> QED
    BY <1>1, <1>3, OldParts, MapsKept, KeptCaches, KeptEvents, KeptDebugger, NewParts

LEMMA StartTypes ==
    ASSUME TypeInv, NEW t \in Threads, StartMethodEvent(t)
    PROVE  TypeInv'
<1> DEFINE loc == <<Top(t).code, 0>>
<1>1. /\ pc[t] = "decide" /\ Depth(t) \in 1 .. Depth(t)
      /\ loc \in Codes \X Lines0 /\ local \in [Codes -> SUBSET Kinds]
    BY ThreadFacts, CodeFacts, SysMonitoringAssumption DEF StartMethodEvent, TypeInv, EventTypes,
       Lines0
<1>2. StartEvents(t) \in [Codes -> SUBSET Kinds]
    BY <1>1, StartEventsFacts
<1> HIDE DEF loc
<1>3. CASE StartSkipped(t)
    BY <1>1, <1>3, DisableTypes DEF StartSkipped, loc
<1>4. CASE StartAtFunctionBreakpoint(t)
  <2>1. CASE StopOnBreakpoint(t, loc, StartEvents(t))
    <3>1. SetSuspend(t, Depth(t), StartEvents(t)) /\ \E x : marks' = [marks EXCEPT ![t] = x]
      BY <2>1 DEF StopOnBreakpoint
    <3> QED
      BY <1>1, <1>2, <3>1, SetSuspendTypes
  <2>2. CASE Proceed(t) /\ local' = StartEvents(t)
    BY <1>2, <2>2, ProceedTypes
  <2> QED
    BY <1>4, <2>1, <2>2 DEF StartAtFunctionBreakpoint, loc
<1>5. CASE StartTraced(t)
    BY <1>2, <1>5, ProceedTypes DEF StartTraced
<1>6. CASE StartNotTraced(t)
    BY <1>1, <1>2, <1>6, DisableTypes DEF StartNotTraced, loc
<1> QED
    BY <1>3, <1>4, <1>5, <1>6 DEF StartMethodEvent

LEMMA LineTypes ==
    ASSUME TypeInv, NEW t \in Threads, LineEvent(t)
    PROVE  TypeInv'
<1> DEFINE loc == <<Top(t).code, Top(t).line>>
<1>1. /\ pc[t] = "decide" /\ Depth(t) \in 1 .. Depth(t)
      /\ loc \in Codes \X Lines0 /\ local \in [Codes -> SUBSET Kinds]
    BY ThreadFacts, CodeFacts DEF LineEvent, TypeInv, EventTypes
<1> HIDE DEF loc
<1>2. CASE LineFilteredOut(t)
    BY <1>1, <1>2, DisableTypes DEF LineFilteredOut, loc
<1>3. CASE LineWithBreakpoint(t)
  <2>1. SetSuspend(t, Depth(t), local) /\ \E x : marks' = [marks EXCEPT ![t] = x]
    BY <1>3 DEF LineWithBreakpoint, StopOnBreakpoint
  <2> QED
    BY <1>1, <2>1, SetSuspendTypes
<1>4. CASE LinePaused(t)
    BY <1>1, <1>4, WaitSuspendedTypes DEF LinePaused
<1>5. CASE LineNotStepping(t)
    BY <1>1, <1>5, ProceedTypes, DisableTypes DEF LineNotStepping, loc
<1>6. CASE LineStepping(t)
  <2>1. CASE StopForStep(t, Depth(t))
    <3>1. SetSuspend(t, Depth(t), local) /\ marks' = [marks EXCEPT ![t] = {}]
      BY <2>1 DEF StopForStep
    <3> QED
      BY <1>1, <3>1, SetSuspendTypes
  <2>2. CASE Proceed(t) /\ UNCHANGED local
    BY <1>1, <2>2, ProceedTypes
  <2> QED
    BY <1>6, <2>1, <2>2 DEF LineStepping
<1> QED
    BY <1>2, <1>3, <1>4, <1>5, <1>6 DEF LineEvent

\* A frame is left at the end of its callback.
LEMMA PoppedTypes ==
    ASSUME TypeInv, NEW t \in Threads, Depth(t) > 0, NEW infos \in [Threads -> Infos],
           Pop(t, infos), BackToProgram(t), stepping' \subseteq Threads,
           promise' = promise \/ \E x : promise' = [promise EXCEPT ![t] = x],
           marks' = marks \/ \E y : marks' = [marks EXCEPT ![t] = y],
           CacheTypes', local' \in [Codes -> SUBSET Kinds],
           UNCHANGED <<bps, disabled, tracking, cmd, settled, late, foreign>>
    PROVE  TypeInv'
<1>1. /\ StackTypes' /\ OthersKept(t) /\ Depth(t)' \in Nat /\ info' \in [Threads -> Infos]
    BY PopFacts
<1>2. PlaceInv' /\ ThreadTypes'
    BY <1>1, BackPlace, EndCallbackFacts
<1>3. EventTypes'
    BY OldParts DEF EventTypes
<1> QED
    BY <1>1, <1>2, <1>3, MapsKept, KeptDebugger, NewParts

\* what the step of t becomes when its frame returns
AsInto(t) ==
    [info EXCEPT ![t].step = IF info[t].step \in {"over", "return", "smart"} THEN "into"
                             ELSE "into_my",
                 ![t].stop = 0]
LEMMA AsIntoFacts ==
    ASSUME TypeInv, NEW t \in Threads
    PROVE  /\ AsInto(t) \in [Threads -> Infos]
           /\ AsInto(t)[t].step \in Into /\ AsInto(t)[t].state = info[t].state
           /\ AsInto(t)[t].stop = 0
           /\ \A u \in Threads : u # t => AsInto(t)[u] = info[u]
           /\ info[t].step = "over" => AsInto(t)[t].step = "into"
           /\ info[t].step = "over_my" => AsInto(t)[t].step = "into_my"
<1> DEFINE step == IF info[t].step \in {"over", "return", "smart"} THEN "into" ELSE "into_my"
<1>1. MaxDepth \in Nat /\ info \in [Threads -> Infos]
    BY SysMonitoringAssumption, OldParts
<1>2. AsInto(t) = [info EXCEPT ![t] = [info[t] EXCEPT !.step = step, !.stop = 0]]
    BY <1>1 DEF AsInto, Infos, InfoType
<1>3. /\ step \in Into /\ step \in Steps /\ 0 \in Gone .. MaxDepth
      /\ info[t].step = "over" => step = "into"
      /\ info[t].step = "over_my" => step = "into_my"
    BY <1>1 DEF Into, Steps, Gone
<1> HIDE DEF step
<1>4. [info[t] EXCEPT !.step = step, !.stop = 0] \in Infos
  <2> DEFINE Places == (Codes \X Lines0) \cup {NoLocation}
             Starts == (0 .. MaxDepth) \X Lines0
             Stops == Gone .. MaxDepth
             Steps_ == Steps \cup {None}
  <2>1. Infos = [state : {"run", "suspend"}, step : Steps_, stop : Stops,
                 target : Places, initial : Starts, wait : BOOLEAN]
    BY DEF Infos, InfoType, Lines0
  <2>2. info[t] \in Infos /\ step \in Steps_ /\ 0 \in Stops
    BY <1>1, <1>3
  <2> HIDE DEF Places, Starts, Stops, Steps_
  <2> QED
    BY <2>1, <2>2
<1>5. info[t] \in Infos
    BY <1>1
<1> QED
    BY <1>1, <1>2, <1>3, <1>4, <1>5 DEF Infos, InfoType

LEMMA StepBecomesIntoFacts ==
    ASSUME TypeInv, NEW t \in Threads, pc[t] # "run", StepBecomesInto(t)
    PROVE  /\ Pop(t, AsInto(t))
           /\ EnableFrames(local, AsInto(t), {t}, [Depths EXCEPT ![t] = Depth(t) - 1])
           /\ local' \in [Codes -> SUBSET Kinds] /\ \A c \in Codes : local[c] \subseteq local'[c]
           /\ \A d \in 1 .. Depth(t) - 1 : ~AlwaysSkipCode(stack[t][d].code) =>
                  CodeTracing(AsInto(t)[t], stack[t][d].code, d, FuncCodeInfo(stack[t][d].code))
                      \subseteq local'[stack[t][d].code]
           /\ CacheTypes' /\ \E C \in SUBSET Codes : FillCache(C)
           /\ UNCHANGED <<disabled, tracking>>
<1> DEFINE upto == [Depths EXCEPT ![t] = Depth(t) - 1]
<1>1. /\ Pop(t, AsInto(t)) /\ UNCHANGED <<disabled, tracking>>
      /\ EnableFrames(local, AsInto(t), {t}, upto)
    BY DEF StepBecomesInto, AsInto, Depths
<1>2. Depth(t) \in Nat /\ Depth(t) > 0 /\ upto[t] = Depth(t) - 1
    BY ThreadFacts DEF Depths
<1>3. /\ local \in [Codes -> SUBSET Kinds] /\ {t} \in SUBSET Threads
      /\ \A u \in {t} : upto[u] <= Depth(u) /\ upto[u] \in Int
    BY <1>2, OldParts DEF EventTypes
<1>4. \A d \in 1 .. Depth(t) - 1 : d \in 1 .. Depth(t) /\ d <= upto[t]
    BY <1>2
<1> HIDE DEF upto
<1>5. /\ local' \in [Codes -> SUBSET Kinds] /\ \A c \in Codes : local[c] \subseteq local'[c]
      /\ \A u \in {t} : \A d \in 1 .. Depth(u) :
             d <= upto[u] /\ ~AlwaysSkipCode(stack[u][d].code) =>
                 CodeTracing(AsInto(t)[u], stack[u][d].code, d, FuncCodeInfo(stack[u][d].code))
                     \subseteq local'[stack[u][d].code]
      /\ CacheTypes' /\ \E C \in SUBSET Codes : FillCache(C)
    BY <1>1, <1>3, EnabledFacts
<1> QED
    BY <1>1, <1>4, <1>5 DEF upto

LEMMA ReturnTypes ==
    ASSUME TypeInv, NEW t \in Threads, ReturnEvent(t)
    PROVE  TypeInv'
<1>1. /\ pc[t] = "decide" /\ event[t] = "return" /\ Depth(t) \in Nat /\ Depth(t) > 0
      /\ local \in [Codes -> SUBSET Kinds] /\ CacheTypes /\ info \in [Threads -> Infos]
    BY ThreadFacts DEF ReturnEvent, TypeInv, EventTypes, DebuggerTypes
<1>2. CASE ReturnPaused(t)
    BY <1>1, <1>2, WaitSuspendedTypes DEF ReturnPaused
<1>3. CASE ReturnEndsStep(t)
  <2>1. CASE Depth(t) > 1
    <3>1. SetSuspend(t, Depth(t) - 1, local) /\ marks' = [marks EXCEPT ![t] = {}]
      BY <1>3, <2>1 DEF ReturnEndsStep, StopOnReturn, StopForStep
    <3>2. Depth(t) - 1 \in 1 .. Depth(t)
      BY <1>1, <2>1
    <3> QED
      BY <1>1, <3>1, <3>2, SetSuspendTypes
  <2>2. CASE ~(Depth(t) > 1)
    <3> DEFINE infos == [info EXCEPT ![t] = RunThread(info[t])]
    <3>1. /\ Pop(t, infos) /\ promise' = [promise EXCEPT ![t] = NoPromise] /\ UpdateSteppingInfo
          /\ BackToProgram(t) /\ marks' = [marks EXCEPT ![t] = {}]
          /\ UNCHANGED <<bps, cache, fresh, local, disabled, tracking, cmd, settled, late, foreign>>
      BY <1>3, <2>2 DEF ReturnEndsStep, StopOnReturn, monitors
    <3>2. infos \in [Threads -> Infos]
      BY <1>1, InfoChanges
    <3> HIDE DEF infos
    <3>3. stepping' \subseteq Threads /\ CacheTypes' /\ local' \in [Codes -> SUBSET Kinds]
      BY <1>1, <3>1, SteppingType, KeptCaches
    <3> QED
      BY <1>1, <3>1, <3>2, <3>3, PoppedTypes
  <2> QED
    BY <2>1, <2>2
<1>4. CASE ReturnOfStepFrame(t)
  <2>1. /\ StepBecomesInto(t) /\ BackToProgram(t)
        /\ UNCHANGED <<stepping, bps, cmd, settled, late, foreign, promise, marks>>
    BY <1>4 DEF ReturnOfStepFrame, history
  <2>2. /\ Pop(t, AsInto(t)) /\ local' \in [Codes -> SUBSET Kinds] /\ CacheTypes'
        /\ UNCHANGED <<disabled, tracking>> /\ AsInto(t) \in [Threads -> Infos]
    BY <1>1, <2>1, StepBecomesIntoFacts, AsIntoFacts
  <2>3. stepping' \subseteq Threads
    BY <2>1, OldParts
  <2> QED
    BY <1>1, <2>1, <2>2, <2>3, PoppedTypes
<1>5. CASE ReturnOfOther(t)
  <2>1. /\ Pop(t, info) /\ BackToProgram(t)
        /\ UNCHANGED <<stepping, bps, cache, fresh, local, disabled, tracking, cmd,
                       settled, late, foreign, promise, marks>>
    BY <1>5 DEF ReturnOfOther, monitors, history
  <2>2. stepping' \subseteq Threads /\ CacheTypes' /\ local' \in [Codes -> SUBSET Kinds]
    BY <1>1, <2>1, KeptCaches, OldParts
  <2> QED
    BY <1>1, <2>1, <2>2, PoppedTypes
<1> QED
    BY <1>2, <1>3, <1>4, <1>5 DEF ReturnEvent

-----------------------------------------------------------------------------
(* A thread suspends itself, waits, and is resumed *)

LEMMA RestartTypes ==
    ASSUME TypeInv, NEW t \in Threads, RestartAfterSuspend(t) \/ EnterWait(t)
    PROVE  TypeInv'
<1>1. /\ pc[t] \in Waiting
      /\ pc' = [pc EXCEPT ![t] = "enter"] \/ pc' = [pc EXCEPT ![t] = "wait"]
      /\ UNCHANGED <<stack, event, seen, at, bps, cache, fresh, local, tracking, cmd, settled, marks>>
      /\ promise' = promise \/ promise' = [promise EXCEPT ![t] = NoPromise]
      /\ \/ UNCHANGED <<info, stepping>>
         \/ info' = [info EXCEPT ![t].wait = TRUE, ![t].initial = NoLocation] /\ UpdateSteppingInfo
      /\ RestartEvents \/ UNCHANGED <<disabled, late, foreign>>
    BY DEF RestartAfterSuspend, EnterWait, Waiting, monitors
<1>2. ThreadTypes' /\ OthersRest(t) /\ pc'[t] \in Waiting
    BY <1>1, OldParts DEF ThreadTypes, OthersRest, Waiting
<1>3. /\ StackTypes' /\ Depth(t)' = Depth(t) /\ pc'[t] # "run" /\ pc'[t] \notin Running
      /\ \A u \in Threads : Depth(u)' = Depth(u)
    BY <1>1, <1>2, KeptStacks DEF Running, Waiting
<1>4. PlaceInv'
  <2>1. /\ Depth(t) > 0 /\ at[t] <= Depth(t) /\ at[t] > 0
        /\ at[t] = Depth(t) \/ (event[t] = "return" /\ at[t] = Depth(t) - 1)
    BY <1>1, ThreadFacts DEF Waiting
  <2> QED
    BY <1>1, <1>2, <1>3, <2>1, PlaceStep
<1>5. EventTypes'
    BY <1>1, OldParts DEF EventTypes, RestartEvents
<1>6. info' \in [Threads -> Infos] /\ stepping' \subseteq Threads
  <2>1. CASE UNCHANGED <<info, stepping>>
    BY <2>1, OldParts
  <2>2. CASE info' = [info EXCEPT ![t].wait = TRUE, ![t].initial = NoLocation] /\ UpdateSteppingInfo
    <3>1. \A i \in Infos : [i EXCEPT !.wait = TRUE] \in Infos
      BY DEF Infos, InfoType
    <3>2. info' = [info EXCEPT ![t] = [[info[t] EXCEPT !.wait = TRUE] EXCEPT !.initial = NoLocation]]
      BY <2>2, OldParts DEF Infos, InfoType
    <3> DEFINE i == [info[t] EXCEPT !.wait = TRUE]
    <3>3. i \in Infos
      BY <3>1, ThreadFacts
    <3> HIDE DEF i
    <3>4. [i EXCEPT !.initial = NoLocation] \in Infos
      BY <3>3, InfoChanges
    <3>5. info' = [info EXCEPT ![t] = [i EXCEPT !.initial = NoLocation]]
      BY <3>2 DEF i
    <3> QED
      BY <2>2, <3>4, <3>5, SteppingType, OldParts
  <2> QED
    BY <1>1, <2>1, <2>2
<1> QED
    BY <1>1, <1>2, <1>3, <1>4, <1>5, <1>6, MapsKept, KeptCaches, KeptDebugger, NewParts

LEMMA ReleasedMaps ==
    ASSUME NEW S, Released(S)
    PROVE  MapTypes'
BY DEF Released, MapTypes

LEMMA RequestTypes ==
    ASSUME TypeInv, NEW t \in Threads, NEW step \in Steps,
           NEW target \in (Codes \X Lines0) \cup {NoLocation}, StepRequest(t, step, target)
    PROVE  TypeInv'
<1>1. /\ info' = [u \in Threads |-> IF u = t THEN StepInThread(info[u], step, target)
                                           ELSE RunThread(info[u])]
      /\ UpdateSteppingInfo /\ Released(Threads \ {t})
      /\ UNCHANGED <<stack, pc, event, seen, at, bps, cache, fresh, local, disabled, tracking,
                     cmd, settled, late, foreign>>
    BY DEF StepRequest, program, monitors
<1>2. info' \in [Threads -> Infos] /\ stepping' \subseteq Threads
    BY <1>1, ThreadFacts, InfoChanges, SteppingType
<1>3. PlaceInv'
    BY <1>1, OldParts DEF PlaceInv, Depth
<1> QED
    BY <1>1, <1>2, <1>3, KeptStacks, KeptThreads, ReleasedMaps, KeptCaches, KeptEvents,
       KeptDebugger, NewParts

\* A step request of a smart step names a function and a line of the frame.
LEMMA RequestsAre ==
    ASSUME TypeInv, NEW t \in Threads, Callback(t)
    PROVE  \/ Fetch(t) \/ StartMethodEvent(t) \/ LineEvent(t) \/ ReturnEvent(t)
           \/ RestartAfterSuspend(t) \/ EnterWait(t) \/ LeaveWait(t)
           \/ \E step \in Steps, target \in (Codes \X Lines0) \cup {NoLocation} :
                  StepRequest(t, step, target)
<1>1. ASSUME NEW step \in StepCmds \ {"smart"}, StepRequest(t, step, NoLocation)
      PROVE  step \in Steps /\ NoLocation \in (Codes \X Lines0) \cup {NoLocation}
    BY SysMonitoringAssumption
<1>2. ASSUME NEW c \in Codes, at[t] > 0, StepRequest(t, "smart", <<c, stack[t][at[t]].line>>)
      PROVE  "smart" \in Steps /\ <<c, stack[t][at[t]].line>> \in (Codes \X Lines0) \cup {NoLocation}
  <2>1. at[t] \in 1 .. Depth(t)
    BY <1>2, ThreadFacts
  <2>2. stack[t][at[t]].line \in Lines0
    BY <2>1, CodeFacts
  <2> QED
    BY <2>2, StepKinds
<1> QED
    BY <1>1, <1>2 DEF Callback

\* what the step of t is when it is resumed, and the frame it is for
Resumed(t) == PrepareStep([info[t] EXCEPT !.wait = FALSE], stack[t], at[t])
BaseOf(t) == IF Resumed(t).step \in Into \cup {None} THEN at[t] ELSE Resumed(t).stop
LostAtOnce(t) ==
    ~tracking \/ (Resumed(t).step \notin Into /\ AlwaysSkipCode(stack[t][BaseOf(t)].code))
PromiseFor(t) ==
    IF Resumed(t).step = None THEN NoPromise
    ELSE [step |-> Resumed(t).step, base |-> BaseOf(t), lost |-> LostAtOnce(t)]

LEMMA ResumedFacts ==
    ASSUME TypeInv, NEW t \in Threads, pc[t] = "wait", info[t].state = "run"
    PROVE  /\ Resumed(t) \in Infos /\ Resumed(t).state = "run"
           /\ at[t] \in 1 .. Depth(t) /\ Depth(t) > 0
           /\ Resumed(t).stop \in 0 .. at[t] \/ Resumed(t).step = None
           /\ BaseOf(t) \in 0 .. at[t]
<1>1. at[t] \in 1 .. Depth(t) /\ Depth(t) <= MaxDepth /\ info[t] \in Infos /\ Depth(t) > 0
    BY ThreadFacts DEF Waiting
<1>2. stack[t][at[t]].line \in Lines0 /\ MaxDepth \in Nat /\ Depth(t) \in Nat
    BY <1>1, CodeFacts, ThreadFacts, SysMonitoringAssumption
<1>3. at[t] \in 1 .. MaxDepth
    BY <1>1, <1>2
<1> DEFINE i == [info[t] EXCEPT !.wait = FALSE]
<1>4. i \in Infos /\ i.state = "run"
    BY <1>1 DEF Infos, InfoType
<1> HIDE DEF i
<1>5. /\ Resumed(t) \in Infos
      /\ Resumed(t).stop \in 0 .. at[t] \/ Resumed(t).step = None
      /\ Resumed(t).state = i.state \/ Resumed(t).state = "run"
    BY <1>2, <1>3, <1>4, PrepareStepType DEF Resumed, i
<1>6. BaseOf(t) \in 0 .. at[t]
    BY <1>1, <1>2, <1>5 DEF BaseOf
<1> QED
    BY <1>1, <1>4, <1>5, <1>6

LEMMA LeaveWaitFacts ==
    ASSUME TypeInv, NEW t \in Threads, LeaveWait(t)
    PROVE  /\ pc[t] = "wait" /\ info[t].state = "run" /\ BackToProgram(t)
           /\ \/ /\ event[t] = "return" /\ Pop(t, [info EXCEPT ![t] = Resumed(t)])
                 /\ promise' = [promise EXCEPT ![t] =
                        [PromiseFor(t) EXCEPT !.lost = @ \/ Resumed(t).stop = Depth(t)]]
              \/ /\ event[t] # "return" /\ stack' = stack
                 /\ info' = [info EXCEPT ![t] = Resumed(t)]
                 /\ promise' = [promise EXCEPT ![t] = PromiseFor(t)]
           /\ stepping' \subseteq Threads
           /\ local' \in [Codes -> SUBSET Kinds] /\ \A c \in Codes : local[c] \subseteq local'[c]
           /\ Resumed(t).step # None =>
                  \A d \in 1 .. Depth(t) :
                      d <= BaseOf(t) /\ ~AlwaysSkipCode(stack[t][d].code) =>
                          CodeTracing(Resumed(t), stack[t][d].code, d,
                                      FuncCodeInfo(stack[t][d].code))
                              \subseteq local'[stack[t][d].code]
           /\ CacheTypes' /\ \E C \in SUBSET Codes : FillCache(C)
           /\ marks' = [marks EXCEPT ![t] = {}]
           /\ UNCHANGED <<bps, disabled, tracking, cmd, settled, late, foreign>>
<1> DEFINE infos == [info EXCEPT ![t] = Resumed(t)]
           upto == [Depths EXCEPT ![t] = BaseOf(t)]
<1>1. /\ pc[t] = "wait" /\ info[t].state = "run" /\ BackToProgram(t)
      /\ IF event[t] = "return"
         THEN PopUnnoticed(t, infos, [promise EXCEPT ![t] = PromiseFor(t)])
         ELSE /\ info' = infos /\ promise' = [promise EXCEPT ![t] = PromiseFor(t)]
              /\ UNCHANGED stack
      /\ stepping' \subseteq Threads
      /\ IF Resumed(t).step = None THEN UNCHANGED <<local, cache, fresh>>
                                   ELSE EnableFrames(local, infos, {t}, upto)
      /\ marks' = [marks EXCEPT ![t] = {}]
      /\ UNCHANGED <<bps, disabled, tracking, cmd, settled, late, foreign>>
    BY DEF LeaveWait, Resumed, BaseOf, LostAtOnce, PromiseFor
<1>2. /\ info \in [Threads -> Infos] /\ DOMAIN promise = Threads
      /\ local \in [Codes -> SUBSET Kinds] /\ CacheTypes /\ cache \in [Codes -> SUBSET Lines0]
    BY DEF TypeInv, MapTypes, EventTypes, DebuggerTypes, CacheTypes
<1>3. /\ infos[t] = Resumed(t) /\ BaseOf(t) \in 0 .. at[t] /\ at[t] \in 1 .. Depth(t)
    BY <1>1, <1>2, ResumedFacts
<1>4. \/ /\ event[t] = "return" /\ Pop(t, infos)
         /\ promise' = [promise EXCEPT ![t] =
                [PromiseFor(t) EXCEPT !.lost = @ \/ Resumed(t).stop = Depth(t)]]
      \/ /\ event[t] # "return" /\ stack' = stack /\ info' = infos
         /\ promise' = [promise EXCEPT ![t] = PromiseFor(t)]
  <2>1. CASE event[t] = "return"
    <3>1. /\ Pop(t, infos)
          /\ promise' = [[promise EXCEPT ![t] = PromiseFor(t)] EXCEPT
                             ![t].lost = @ \/ infos[t].stop = Depth(t)]
      BY <1>1, <2>1 DEF PopUnnoticed
    <3>2. promise' = [promise EXCEPT ![t] =
                [PromiseFor(t) EXCEPT !.lost = @ \/ Resumed(t).stop = Depth(t)]]
      BY <1>2, <1>3, <3>1
    <3> QED
      BY <2>1, <3>1, <3>2
  <2>2. CASE event[t] # "return"
    BY <1>1, <2>2
  <2> QED
    BY <2>1, <2>2
<1>5. /\ {t} \in SUBSET Threads /\ upto[t] = BaseOf(t)
      /\ \A u \in {t} : upto[u] <= Depth(u) /\ upto[u] \in Int
  <2>1. upto[t] = BaseOf(t)
    BY DEF Depths
  <2> HIDE DEF upto
  <2> QED
    BY <1>3, <2>1, ThreadFacts
<1>6. /\ local' \in [Codes -> SUBSET Kinds] /\ \A c \in Codes : local[c] \subseteq local'[c]
      /\ Resumed(t).step # None =>
             \A d \in 1 .. Depth(t) :
                 d <= BaseOf(t) /\ ~AlwaysSkipCode(stack[t][d].code) =>
                     CodeTracing(Resumed(t), stack[t][d].code, d, FuncCodeInfo(stack[t][d].code))
                         \subseteq local'[stack[t][d].code]
      /\ CacheTypes' /\ \E C \in SUBSET Codes : FillCache(C)
  <2>1. CASE Resumed(t).step = None
    <3>1. UNCHANGED <<local, cache, fresh>>
      BY <1>1, <2>1
    <3>2. FillCache({})
      BY <1>2, <3>1 DEF FillCache
    <3> QED
      BY <1>2, <2>1, <3>1, <3>2, KeptCaches
  <2>2. CASE Resumed(t).step # None
    <3>1. EnableFrames(local, infos, {t}, upto)
      BY <1>1, <2>2
    <3> HIDE DEF upto, infos
    <3>2. /\ local' \in [Codes -> SUBSET Kinds] /\ \A c \in Codes : local[c] \subseteq local'[c]
          /\ \A u \in {t} : \A d \in 1 .. Depth(u) :
                 d <= upto[u] /\ ~AlwaysSkipCode(stack[u][d].code) =>
                     CodeTracing(infos[u], stack[u][d].code, d, FuncCodeInfo(stack[u][d].code))
                         \subseteq local'[stack[u][d].code]
          /\ CacheTypes' /\ \E C \in SUBSET Codes : FillCache(C)
      BY <1>2, <1>5, <3>1, EnabledFacts
    <3> QED
      BY <1>3, <1>5, <3>2
  <2> QED
    BY <2>1, <2>2
<1> HIDE DEF infos
<1> QED
    BY <1>1, <1>4, <1>6 DEF infos

LEMMA LeaveWaitTypes ==
    ASSUME TypeInv, NEW t \in Threads, LeaveWait(t)
    PROVE  TypeInv'
<1> DEFINE infos == [info EXCEPT ![t] = Resumed(t)]
<1>1. /\ pc[t] = "wait" /\ info[t].state = "run" /\ BackToProgram(t)
      /\ Pop(t, infos) \/ (stack' = stack /\ info' = infos)
      /\ \E x : promise' = [promise EXCEPT ![t] = x]
      /\ stepping' \subseteq Threads /\ local' \in [Codes -> SUBSET Kinds] /\ CacheTypes'
      /\ marks' = [marks EXCEPT ![t] = {}]
      /\ UNCHANGED <<bps, disabled, tracking, cmd, settled, late, foreign>>
    BY LeaveWaitFacts
<1>2. infos \in [Threads -> Infos] /\ Depth(t) > 0
    BY <1>1, ResumedFacts, OldParts
<1> HIDE DEF infos
<1>3. CASE Pop(t, infos)
    BY <1>1, <1>2, <1>3, PoppedTypes
<1>4. CASE stack' = stack /\ info' = infos
  <2>1. StackTypes' /\ OthersKept(t) /\ Depth(t)' \in Nat
    BY <1>4, KeptStacks, ThreadFacts
  <2>2. PlaceInv' /\ ThreadTypes'
    BY <1>1, <2>1, BackPlace, EndCallbackFacts
  <2>3. EventTypes'
    BY <1>1, OldParts DEF EventTypes
  <2> QED
    BY <1>1, <1>2, <1>4, <2>1, <2>2, <2>3, MapsKept, KeptDebugger, NewParts
<1> QED
    BY <1>1, <1>3, <1>4

-----------------------------------------------------------------------------
(* Commands *)

\* A command leaves the threads where they are.
LEMMA CommandTypes ==
    ASSUME TypeInv, UNCHANGED <<stack, pc, event, seen, at>>,
           MapTypes', CacheTypes', EventTypes', DebuggerTypes'
    PROVE  TypeInv'
<1>1. PlaceInv'
    BY OldParts DEF PlaceInv, Depth
<1> QED
    BY <1>1, KeptStacks, KeptThreads, NewParts

LEMMA ClearedTypes ==
    ASSUME TypeInv, NewMtime, tracking' \in BOOLEAN,
           RestartEvents \/ UNCHANGED <<disabled, late, foreign>>, local' = local
    PROVE  CacheTypes' /\ EventTypes'
BY OldParts DEF NewMtime, RestartEvents, CacheTypes, EventTypes

LEMMA ClearCachesIs ==
    ASSUME ClearCaches
    PROVE  NewMtime /\ RestartEvents /\ tracking' \in BOOLEAN /\ tracking' = (bps # {} \/ SuspendRequested)
BY DEF ClearCaches, UpdateMonitorEvents, HasBreaks

LEMMA PauseFacts ==
    ASSUME TypeInv, NEW t \in Threads, Pause(t)
    PROVE  /\ info' = Suspended(Suspending(t)) /\ UpdateSteppingInfo /\ tracking' = TRUE
           /\ EnableFrames(local, Suspended(Suspending(t)), Suspending(t), Depths)
           /\ local' \in [Codes -> SUBSET Kinds] /\ \A c \in Codes : local[c] \subseteq local'[c]
           /\ CacheTypes' /\ \E C \in SUBSET Codes : FillCache(C)
           /\ cmd.phase = "idle" /\ cmd' = [phase |-> "restart", loc |-> NoLocation]
           /\ UNCHANGED <<stack, pc, event, seen, at, bps, disabled, settled, late, foreign,
                          promise, marks>>
<1>1. /\ info' = Suspended(Suspending(t)) /\ UpdateSteppingInfo /\ tracking' = TRUE
      /\ EnableFrames(local, Suspended(Suspending(t)), Suspending(t), Depths)
      /\ cmd.phase = "idle" /\ cmd' = [phase |-> "restart", loc |-> NoLocation]
      /\ UNCHANGED <<stack, pc, event, seen, at, bps, disabled, settled, late, foreign,
                     promise, marks>>
    BY DEF Pause, Suspended, Suspending, program, history
<1>2. Suspending(t) \in SUBSET Threads /\ local \in [Codes -> SUBSET Kinds]
    BY OldParts DEF Suspending, EventTypes
<1>3. \A u \in Suspending(t) : Depths[u] <= Depth(u) /\ Depths[u] \in Int
    BY <1>2, ThreadFacts DEF Depths
<1>4. /\ local' \in [Codes -> SUBSET Kinds] /\ \A c \in Codes : local[c] \subseteq local'[c]
      /\ CacheTypes' /\ \E C \in SUBSET Codes : FillCache(C)
    BY <1>1, <1>2, <1>3, EnabledFacts
<1> QED
    BY <1>1, <1>4

LEMMA TraceExistingFacts ==
    ASSUME TypeInv, TraceExistingFrames
    PROVE  /\ local' \in [Codes -> SUBSET Kinds] /\ \A c \in Codes : local[c] \subseteq local'[c]
           /\ \A t \in Threads : \A d \in 1 .. Depth(t) : ~AlwaysSkipCode(stack[t][d].code) =>
                  CodeTracing(info[t], stack[t][d].code, d, FuncCodeInfo(stack[t][d].code))
                      \subseteq local'[stack[t][d].code]
           /\ CacheTypes' /\ \E C \in SUBSET Codes : FillCache(C)
           /\ cmd.phase = "trace" /\ cmd' = [cmd EXCEPT !.phase = "restart"]
           /\ UNCHANGED <<stack, pc, event, seen, at, info, stepping, bps, disabled, tracking,
                          settled, late, foreign, promise, marks>>
<1>1. /\ EnableFrames(local, info, Threads, Depths)
      /\ cmd.phase = "trace" /\ cmd' = [cmd EXCEPT !.phase = "restart"]
      /\ UNCHANGED <<stack, pc, event, seen, at, info, stepping, bps, disabled, tracking,
                     settled, late, foreign, promise, marks>>
    BY DEF TraceExistingFrames, program, history
<1>2. Threads \in SUBSET Threads /\ local \in [Codes -> SUBSET Kinds]
    BY OldParts DEF EventTypes
<1>3. \A u \in Threads : Depths[u] = Depth(u) /\ Depths[u] <= Depth(u) /\ Depths[u] \in Int
    BY ThreadFacts DEF Depths
<1>4. /\ local' \in [Codes -> SUBSET Kinds] /\ \A c \in Codes : local[c] \subseteq local'[c]
      /\ \A t \in Threads : \A d \in 1 .. Depth(t) :
             d <= Depths[t] /\ ~AlwaysSkipCode(stack[t][d].code) =>
                 CodeTracing(info[t], stack[t][d].code, d, FuncCodeInfo(stack[t][d].code))
                     \subseteq local'[stack[t][d].code]
      /\ CacheTypes' /\ \E C \in SUBSET Codes : FillCache(C)
    BY <1>1, <1>2, <1>3, EnabledFacts
<1>5. \A t \in Threads : \A d \in 1 .. Depth(t) : d <= Depths[t]
    BY <1>3, ThreadFacts
<1> QED
    BY <1>1, <1>4, <1>5

LEMMA CommandsTypes ==
    ASSUME TypeInv, Command
    PROVE  TypeInv'
<1>1. ASSUME NEW loc \in BreakLocations, AddBreakpoint(loc) PROVE TypeInv'
  <2>1. /\ bps' = bps \cup {loc} /\ cmd' = [phase |-> "added", loc |-> loc]
        /\ marks' = [t \in Threads |-> IF IsAt(t, loc) THEN marks[t] \cup {"armed"} ELSE marks[t]]
        /\ UNCHANGED <<stack, pc, event, seen, at, info, stepping, cache, fresh, local, disabled,
                       tracking, settled, late, foreign, promise>>
    BY <1>1 DEF AddBreakpoint, program, monitors
  <2>2. DebuggerTypes'
    BY <2>1, OldParts DEF DebuggerTypes, CmdType
  <2>3. MapTypes'
    BY <2>1, OldParts DEF MapTypes
  <2> QED
    BY <2>1, <2>2, <2>3, KeptCaches, KeptEvents, CommandTypes
<1>2. ASSUME NEW loc \in BreakLocations, RemoveBreakpoint(loc) PROVE TypeInv'
  <2>1. /\ bps' = bps \ {loc} /\ settled' = settled \ {loc}
        /\ cmd' = [phase |-> "added", loc |-> loc] \/ cmd' = [phase |-> "removed", loc |-> loc]
        /\ marks' = [t \in Threads |-> IF IsAt(t, loc)
                                       THEN marks[t] \ {"breakpoint", "late", "blind"} ELSE marks[t]]
        /\ UNCHANGED <<stack, pc, event, seen, at, info, stepping, cache, fresh, local, disabled,
                       tracking, late, foreign, promise>>
    BY <1>2 DEF RemoveBreakpoint, program, monitors
  <2>2. DebuggerTypes'
    BY <2>1, OldParts DEF DebuggerTypes, CmdType
  <2>3. MapTypes'
    BY <2>1, OldParts DEF MapTypes
  <2> QED
    BY <2>1, <2>2, <2>3, KeptCaches, KeptEvents, CommandTypes
<1>3. ASSUME BreakpointAdded \/ ClearFilters PROVE TypeInv'
  <2>1. /\ ClearCaches
        /\ cmd' = [cmd EXCEPT !.phase = "trace"] \/ cmd' = cmd
        /\ UNCHANGED <<stack, pc, event, seen, at, info, stepping, bps, local, settled, promise, marks>>
    BY <1>3 DEF BreakpointAdded, ClearFilters, program
  <2>2. DebuggerTypes'
    BY <2>1, OldParts DEF DebuggerTypes, CmdType
  <2>3. CacheTypes' /\ EventTypes'
    BY <2>1, ClearCachesIs, ClearedTypes
  <2> QED
    BY <2>1, <2>2, <2>3, KeptMaps, CommandTypes
<1>4. ASSUME BreakpointRemoved PROVE TypeInv'
  <2>1. /\ ClearCaches \/ (NewMtime /\ UNCHANGED <<tracking, disabled, late, foreign>>)
        /\ cmd' = [phase |-> "idle", loc |-> NoLocation]
        /\ UNCHANGED <<stack, pc, event, seen, at, info, stepping, bps, local, settled, promise, marks>>
    BY <1>4 DEF BreakpointRemoved, program
  <2>2. DebuggerTypes'
    BY <2>1, OldParts DEF DebuggerTypes, CmdType
  <2>3. CacheTypes' /\ EventTypes'
    BY <2>1, ClearCachesIs, ClearedTypes, OldParts DEF EventTypes
  <2> QED
    BY <2>1, <2>2, <2>3, KeptMaps, CommandTypes
<1>5. ASSUME TraceExistingFrames PROVE TypeInv'
  <2>1. /\ local' \in [Codes -> SUBSET Kinds] /\ CacheTypes' /\ cmd' = [cmd EXCEPT !.phase = "restart"]
        /\ UNCHANGED <<stack, pc, event, seen, at, info, stepping, bps, disabled, tracking,
                       settled, late, foreign, promise, marks>>
    BY <1>5, TraceExistingFacts
  <2>2. DebuggerTypes' /\ EventTypes'
    BY <2>1, OldParts DEF DebuggerTypes, CmdType, EventTypes
  <2> QED
    BY <2>1, <2>2, KeptMaps, CommandTypes
<1>6. ASSUME RestartAfterCommand PROVE TypeInv'
  <2>1. /\ RestartEvents /\ settled' = settled \cup ({cmd.loc} \cap bps)
        /\ cmd' = [phase |-> "idle", loc |-> NoLocation]
        /\ UNCHANGED <<stack, pc, event, seen, at, info, stepping, bps, cache, fresh, local,
                       tracking, promise, marks>>
    BY <1>6 DEF RestartAfterCommand, program
  <2>2. DebuggerTypes' /\ EventTypes'
    BY <2>1, OldParts DEF DebuggerTypes, CmdType, EventTypes, RestartEvents
  <2> QED
    BY <2>1, <2>2, KeptMaps, KeptCaches, CommandTypes
<1>7. ASSUME NEW t \in Threads, Pause(t) PROVE TypeInv'
  <2>1. /\ info' = Suspended(Suspending(t)) /\ UpdateSteppingInfo /\ tracking' = TRUE
        /\ local' \in [Codes -> SUBSET Kinds] /\ CacheTypes'
        /\ cmd' = [phase |-> "restart", loc |-> NoLocation]
        /\ UNCHANGED <<stack, pc, event, seen, at, bps, disabled, settled, late, foreign,
                       promise, marks>>
    BY <1>7, PauseFacts
  <2>2. info' \in [Threads -> Infos] /\ stepping' \subseteq Threads
    BY <2>1, SuspendedTypes, SteppingType
  <2>3. DebuggerTypes' /\ EventTypes'
    BY <2>1, <2>2, OldParts DEF DebuggerTypes, CmdType, EventTypes
  <2> QED
    BY <2>1, <2>3, KeptMaps, CommandTypes
<1>8. ASSUME NEW S, Continue(S) PROVE TypeInv'
  <2>1. /\ info' = [t \in Threads |-> IF t \in S THEN RunThread(info[t]) ELSE info[t]]
        /\ UpdateSteppingInfo /\ Released(S)
        /\ UNCHANGED <<stack, pc, event, seen, at, bps, cache, fresh, local, disabled, tracking,
                       cmd, settled, late, foreign>>
    BY <1>8 DEF Continue, program, monitors
  <2>2. info' \in [Threads -> Infos] /\ stepping' \subseteq Threads
    BY <2>1, ThreadFacts, InfoChanges, SteppingType
  <2> QED
    BY <2>1, <2>2, ReleasedMaps, KeptCaches, KeptEvents, KeptDebugger, CommandTypes
<1> QED
    BY <1>1, <1>2, <1>3, <1>4, <1>5, <1>6, <1>7, <1>8 DEF Command

LEMMA TypeStep == TypeInv /\ [Next]_vars => TypeInv'
<1> SUFFICES ASSUME TypeInv, [Next]_vars PROVE TypeInv'
    OBVIOUS
<1>1. CASE Command
    BY <1>1, CommandsTypes
<1>2. ASSUME NEW t \in Threads, Program(t) PROVE TypeInv'
    BY <1>2, ProgramTypes
<1>3. ASSUME NEW t \in Threads, Callback(t) PROVE TypeInv'
    BY <1>3, RequestsAre, FetchTypes, StartTypes, LineTypes, ReturnTypes, RestartTypes,
       LeaveWaitTypes, RequestTypes
<1>4. CASE UNCHANGED vars
    BY <1>4 DEF vars, program, monitors, history, TypeInv, StackTypes, ThreadTypes, MapTypes,
       CacheTypes, EventTypes, DebuggerTypes, PlaceInv, Depth
<1> QED
    BY <1>1, <1>2, <1>3, <1>4 DEF Next

LEMMA TypeAlways == Spec => []TypeInv
<1>1. Init => TypeInv
    BY InitTypes
<1>2. TypeInv /\ [Next]_vars => TypeInv'
    BY TypeStep
<1> QED
    BY <1>1, <1>2, PTL DEF Spec

\* The callbacks and the commands store what is of its type, and a thread is
\* suspended at a frame that exists, whatever the interleaving.
THEOREM TypesAreKept == Spec => []TypeOK
BY TypeAlways, TypeInvImpliesTypeOK, PTL

-----------------------------------------------------------------------------
(***************************************************************************)
(* What a step of one thread leaves alone.                                 *)
(***************************************************************************)
InCallback == {"fetch", "decide"}

\* the step of t is none of a breakpoint command, and moves no other thread
Effects(t) ==
    /\ UNCHANGED <<bps, cmd, settled>>
    /\ \E C \in SUBSET Codes : FillCache(C)
    /\ local \in [Codes -> SUBSET Kinds] /\ local' \in [Codes -> SUBSET Kinds]
    /\ \A c \in Codes : local[c] \subseteq local'[c]
    /\ tracking => tracking'
    /\ OthersKept(t) /\ OthersRest(t)
    /\ \A u \in Threads : u # t =>
           marks'[u] \subseteq marks[u] /\ marks[u] \cap {"armed", "breakpoint"} \subseteq marks'[u]
\* and t is not in a callback afterwards
Ends(t) ==
    /\ Effects(t) /\ pc'[t] \notin InCallback
    /\ Depth(t)' \in {Depth(t), Depth(t) - 1} /\ CallersKept(t, Depth(t)')

LEMMA NoneFilled ==
    ASSUME TypeInv, UNCHANGED <<cache, fresh>>
    PROVE  \E C \in SUBSET Codes : FillCache(C)
<1>1. FillCache({})
    BY DEF FillCache, TypeInv, CacheTypes
<1> QED
    BY <1>1

LEMMA QuietEnds ==
    ASSUME TypeInv, NEW t \in Threads, BackToProgram(t), local' \in [Codes -> SUBSET Kinds],
           \A c \in Codes : local[c] \subseteq local'[c],
           UNCHANGED <<stack, bps, cache, fresh, tracking, cmd, settled, marks>>
    PROVE  Ends(t)
<1>1. OthersRest(t) /\ pc'[t] = "run"
    BY EndCallbackFacts
<1>2. OthersKept(t) /\ Depth(t)' = Depth(t) /\ CallersKept(t, Depth(t))
    BY KeptStacks DEF CallersKept
<1> QED
    BY <1>1, <1>2, NoneFilled, OldParts DEF Ends, Effects, InCallback, EventTypes

LEMMA ProceedEnds ==
    ASSUME TypeInv, NEW t \in Threads, Proceed(t), local' \in [Codes -> SUBSET Kinds],
           \A c \in Codes : local[c] \subseteq local'[c]
    PROVE  Ends(t)
BY QuietEnds DEF Proceed, history

LEMMA DisableEnds ==
    ASSUME TypeInv, NEW t \in Threads, NEW loc, Disable(t, loc), local' \in [Codes -> SUBSET Kinds],
           \A c \in Codes : local[c] \subseteq local'[c]
    PROVE  Ends(t)
BY QuietEnds DEF Disable

LEMMA SuspendEnds ==
    ASSUME TypeInv, NEW t \in Threads, NEW d, NEW events \in [Codes -> SUBSET Kinds],
           \A c \in Codes : local[c] \subseteq events[c],
           SetSuspend(t, d, events), NEW x, marks' = [marks EXCEPT ![t] = x]
    PROVE  Ends(t) /\ pc'[t] = "restart"
<1>1. /\ local' \in [Codes -> SUBSET Kinds] /\ \A c \in Codes : events[c] \subseteq local'[c]
      /\ tracking' = (tracking \/ SingleNotification)
      /\ pc' = [pc EXCEPT ![t] = "restart"] /\ at' = [at EXCEPT ![t] = d]
      /\ \E C \in SUBSET Codes : FillCache(C)
      /\ UNCHANGED <<stack, event, seen, bps, cmd, settled>>
    BY SetSuspendFacts
<1>2. OthersRest(t) /\ pc'[t] = "restart"
    BY <1>1, OldParts DEF OthersRest, ThreadTypes
<1>3. OthersKept(t) /\ Depth(t)' = Depth(t) /\ CallersKept(t, Depth(t))
    BY <1>1, KeptStacks DEF CallersKept
<1>4. \A u \in Threads : u # t => marks'[u] = marks[u]
    BY OldParts DEF MapTypes
<1> QED
    BY <1>1, <1>2, <1>3, <1>4, OldParts DEF Ends, Effects, InCallback, EventTypes

LEMMA WaitEnds ==
    ASSUME TypeInv, NEW t \in Threads,
           WaitSuspended(t) \/ RestartAfterSuspend(t) \/ EnterWait(t)
    PROVE  Ends(t) /\ pc'[t] \in {"enter", "wait"}
<1>1. /\ pc' = [pc EXCEPT ![t] = "enter"] \/ pc' = [pc EXCEPT ![t] = "wait"]
      /\ at' = at \/ at' = [at EXCEPT ![t] = Depth(t)]
      /\ marks' = marks \/ marks' = [marks EXCEPT ![t] = {}]
      /\ UNCHANGED <<stack, event, seen, bps, cache, fresh, local, tracking, cmd, settled>>
    BY DEF WaitSuspended, RestartAfterSuspend, EnterWait, monitors
<1>2. OthersRest(t) /\ pc'[t] \in {"enter", "wait"}
    BY <1>1, OldParts DEF OthersRest, ThreadTypes
<1>3. OthersKept(t) /\ Depth(t)' = Depth(t) /\ CallersKept(t, Depth(t))
    BY <1>1, KeptStacks DEF CallersKept
<1>4. \A u \in Threads : u # t => marks'[u] = marks[u]
    BY <1>1, OldParts DEF MapTypes
<1> QED
    BY <1>1, <1>2, <1>3, <1>4, NoneFilled, OldParts DEF Ends, Effects, InCallback, EventTypes

LEMMA PopEnds ==
    ASSUME TypeInv, NEW t \in Threads, pc[t] # "run", NEW infos \in [Threads -> Infos],
           Pop(t, infos), BackToProgram(t), local' \in [Codes -> SUBSET Kinds],
           \A c \in Codes : local[c] \subseteq local'[c], \E C \in SUBSET Codes : FillCache(C),
           marks' = marks \/ \E y : marks' = [marks EXCEPT ![t] = y],
           UNCHANGED <<bps, tracking, cmd, settled>>
    PROVE  Ends(t) /\ Depth(t)' = Depth(t) - 1
<1>1. OthersRest(t) /\ pc'[t] = "run"
    BY EndCallbackFacts
<1>2. OthersKept(t) /\ Depth(t)' = Depth(t) - 1 /\ CallersKept(t, Depth(t) - 1)
    BY PopFacts, ThreadFacts
<1>3. \A u \in Threads : u # t => marks'[u] = marks[u]
    BY OldParts DEF MapTypes
<1> QED
    BY <1>1, <1>2, <1>3, OldParts DEF Ends, Effects, InCallback, EventTypes

LEMMA LeaveWaitEnds ==
    ASSUME TypeInv, NEW t \in Threads, LeaveWait(t)
    PROVE  Ends(t)
<1> DEFINE infos == [info EXCEPT ![t] = Resumed(t)]
<1>1. /\ pc[t] # "run" /\ pc[t] = "wait" /\ info[t].state = "run" /\ BackToProgram(t)
      /\ Pop(t, infos) \/ (stack' = stack /\ info' = infos)
      /\ local' \in [Codes -> SUBSET Kinds] /\ \A c \in Codes : local[c] \subseteq local'[c]
      /\ \E C \in SUBSET Codes : FillCache(C)
      /\ marks' = [marks EXCEPT ![t] = {}]
      /\ UNCHANGED <<bps, tracking, cmd, settled>>
    BY LeaveWaitFacts
<1>2. infos \in [Threads -> Infos]
    BY <1>1, ResumedFacts, OldParts
<1> HIDE DEF infos
<1>3. CASE Pop(t, infos)
    BY <1>1, <1>2, <1>3, PopEnds
<1>4. CASE stack' = stack
  <2>1. OthersRest(t) /\ pc'[t] = "run"
    BY <1>1, EndCallbackFacts
  <2>2. OthersKept(t) /\ Depth(t)' = Depth(t) /\ CallersKept(t, Depth(t))
    BY <1>4, KeptStacks DEF CallersKept
  <2>3. \A u \in Threads : u # t => marks'[u] = marks[u]
    BY <1>1, OldParts DEF MapTypes
  <2> QED
    BY <1>1, <2>1, <2>2, <2>3, OldParts DEF Ends, Effects, InCallback, EventTypes
<1> QED
    BY <1>1, <1>3, <1>4

LEMMA StartEnds ==
    ASSUME TypeInv, NEW t \in Threads, StartMethodEvent(t)
    PROVE  Ends(t)
<1>1. /\ pc[t] = "decide" /\ local \in [Codes -> SUBSET Kinds]
      /\ StartEvents(t) \in [Codes -> SUBSET Kinds]
      /\ \A c \in Codes : local[c] \subseteq StartEvents(t)[c]
    BY StartEventsFacts, OldParts DEF StartMethodEvent, EventTypes
<1>2. CASE StartSkipped(t)
    BY <1>1, <1>2, DisableEnds DEF StartSkipped
<1>3. CASE StartAtFunctionBreakpoint(t)
    BY <1>1, <1>3, SuspendEnds, ProceedEnds DEF StartAtFunctionBreakpoint, StopOnBreakpoint
<1>4. CASE StartTraced(t)
    BY <1>1, <1>4, ProceedEnds DEF StartTraced
<1>5. CASE StartNotTraced(t)
    BY <1>1, <1>5, DisableEnds DEF StartNotTraced
<1> QED
    BY <1>2, <1>3, <1>4, <1>5 DEF StartMethodEvent

LEMMA LineEnds ==
    ASSUME TypeInv, NEW t \in Threads, LineEvent(t)
    PROVE  Ends(t)
<1>1. pc[t] = "decide" /\ local \in [Codes -> SUBSET Kinds]
    BY OldParts DEF LineEvent, EventTypes
<1>2. CASE LineFilteredOut(t)
    BY <1>1, <1>2, DisableEnds DEF LineFilteredOut
<1>3. CASE LineWithBreakpoint(t)
    BY <1>1, <1>3, SuspendEnds DEF LineWithBreakpoint, StopOnBreakpoint
<1>4. CASE LinePaused(t)
    BY <1>4, WaitEnds DEF LinePaused
<1>5. CASE LineNotStepping(t)
    BY <1>1, <1>5, ProceedEnds, DisableEnds DEF LineNotStepping
<1>6. CASE LineStepping(t)
    BY <1>1, <1>6, ProceedEnds, SuspendEnds DEF LineStepping, StopForStep
<1> QED
    BY <1>2, <1>3, <1>4, <1>5, <1>6 DEF LineEvent

LEMMA ReturnEnds ==
    ASSUME TypeInv, NEW t \in Threads, ReturnEvent(t)
    PROVE  Ends(t)
<1>1. /\ pc[t] = "decide" /\ pc[t] # "run"
      /\ local \in [Codes -> SUBSET Kinds] /\ info \in [Threads -> Infos]
    BY OldParts DEF ReturnEvent, EventTypes
<1>2. CASE ReturnPaused(t)
    BY <1>2, WaitEnds DEF ReturnPaused
<1>3. CASE ReturnEndsStep(t)
  <2>1. CASE Depth(t) > 1
    BY <1>1, <1>3, <2>1, SuspendEnds DEF ReturnEndsStep, StopOnReturn, StopForStep
  <2>2. CASE ~(Depth(t) > 1)
    <3> DEFINE infos == [info EXCEPT ![t] = RunThread(info[t])]
    <3>1. /\ Pop(t, infos) /\ BackToProgram(t) /\ marks' = [marks EXCEPT ![t] = {}]
          /\ UNCHANGED <<bps, cache, fresh, local, tracking, cmd, settled>>
      BY <1>3, <2>2 DEF ReturnEndsStep, StopOnReturn, monitors
    <3>2. infos \in [Threads -> Infos]
      BY <1>1, InfoChanges
    <3> HIDE DEF infos
    <3>3. \E C \in SUBSET Codes : FillCache(C)
      BY <3>1, NoneFilled
    <3> QED
      BY <1>1, <3>1, <3>2, <3>3, PopEnds
  <2> QED
    BY <2>1, <2>2
<1>4. CASE ReturnOfStepFrame(t)
  <2>1. StepBecomesInto(t) /\ BackToProgram(t) /\ UNCHANGED <<bps, cmd, settled, marks>>
    BY <1>4 DEF ReturnOfStepFrame, history
  <2>2. /\ Pop(t, AsInto(t)) /\ local' \in [Codes -> SUBSET Kinds] /\ tracking' = tracking
        /\ \A c \in Codes : local[c] \subseteq local'[c]
        /\ (\E C \in SUBSET Codes : FillCache(C)) /\ AsInto(t) \in [Threads -> Infos]
    BY <1>1, <2>1, StepBecomesIntoFacts, AsIntoFacts
  <2> QED
    BY <1>1, <2>1, <2>2, PopEnds
<1>5. CASE ReturnOfOther(t)
  <2>1. /\ Pop(t, info) /\ BackToProgram(t)
        /\ UNCHANGED <<bps, cache, fresh, local, tracking, cmd, settled, marks>>
    BY <1>5 DEF ReturnOfOther, monitors, history
  <2>2. \E C \in SUBSET Codes : FillCache(C)
    BY <2>1, NoneFilled
  <2> QED
    BY <1>1, <2>1, <2>2, PopEnds
<1> QED
    BY <1>2, <1>3, <1>4, <1>5 DEF ReturnEvent

\* A step request changes the step states and marks only.
LEMMA RequestEffects ==
    ASSUME TypeInv, NEW t \in Threads, NEW step, NEW target, StepRequest(t, step, target)
    PROVE  Ends(t) /\ Depth(t)' = Depth(t)
<1>1. /\ pc[t] = "wait" /\ Released(Threads \ {t})
      /\ UNCHANGED <<stack, pc, event, seen, at, bps, cache, fresh, local, tracking, cmd, settled>>
    BY DEF StepRequest, program, monitors
<1>2. /\ OthersRest(t) /\ OthersKept(t) /\ Depth(t)' = Depth(t) /\ CallersKept(t, Depth(t))
    BY <1>1, KeptStacks, KeptThreads DEF CallersKept
<1>3. \A u \in Threads : u # t =>
          marks'[u] \subseteq marks[u] /\ marks[u] \cap {"armed", "breakpoint"} \subseteq marks'[u]
    BY <1>1 DEF Released
<1> QED
    BY <1>1, <1>2, <1>3, NoneFilled, OldParts DEF Ends, Effects, InCallback, EventTypes

LEMMA FetchEffects ==
    ASSUME TypeInv, NEW t \in Threads, Fetch(t)
    PROVE  /\ Effects(t) /\ stack' = stack /\ Depth(t)' = Depth(t) /\ event' = event /\ marks' = marks
           /\ pc[t] = "fetch" /\ pc'[t] = "decide" /\ seen'[t] = FuncCodeInfo(Top(t).code)
           /\ Top(t).code \in Codes
           /\ UNCHANGED <<info, local, disabled, tracking, late, foreign, promise>>
<1>1. /\ pc[t] = "fetch" /\ pc' = [pc EXCEPT ![t] = "decide"]
      /\ seen' = [seen EXCEPT ![t] = FuncCodeInfo(Top(t).code)] /\ FillCache({Top(t).code})
      /\ UNCHANGED <<stack, event, at, info, bps, local, disabled, tracking, cmd,
                     settled, late, foreign, promise, marks>>
    BY DEF Fetch, history
<1>2. Top(t).code \in Codes
    BY <1>1, ThreadFacts, CodeFacts
<1>3. \E C \in SUBSET Codes : FillCache(C)
    BY <1>1, <1>2
<1>4. OthersRest(t) /\ pc'[t] = "decide" /\ seen'[t] = FuncCodeInfo(Top(t).code)
    BY <1>1, OldParts DEF OthersRest, ThreadTypes
<1> QED
    BY <1>1, <1>2, <1>3, <1>4, KeptStacks, OldParts DEF Effects, EventTypes

LEMMA CallbackEffects ==
    ASSUME TypeInv, NEW t \in Threads, Callback(t)
    PROVE  Fetch(t) \/ Ends(t)
BY RequestsAre, StartEnds, LineEnds, ReturnEnds, WaitEnds, LeaveWaitEnds, RequestEffects

\* A step of the program changes nothing that pydevd has stored, but for the stack.
LEMMA ProgramEffects ==
    ASSUME TypeInv, NEW t \in Threads, Program(t)
    PROVE  /\ Effects(t) /\ pc[t] = "run"
           /\ UNCHANGED <<cache, fresh, local, disabled, tracking, late, foreign>>
<1>1. /\ pc[t] = "run"
      /\ UNCHANGED <<seen, at, bps, cache, fresh, local, disabled, tracking, cmd, settled,
                     late, foreign>>
      /\ UNCHANGED <<pc, event>> \/ \E ev \in {"start", "line", "return"} : Fire(t, ev)
      /\ \E y : marks' = [marks EXCEPT ![t] = y]
    BY DEF Program, Call, Advance, Return_, Unwind, monitors
<1>2. OthersKept(t)
  <2>1. ASSUME NEW c \in Codes, Call(t, c) PROVE OthersKept(t)
    BY <2>1, CallFacts
  <2>2. ASSUME NEW l \in 1 .. LastLine, Advance(t, l) PROVE OthersKept(t)
    BY <2>2, AdvanceFacts
  <2>3. ASSUME Pop(t, info), Depth(t) > 0 PROVE OthersKept(t)
    BY <2>3, PopFacts, OldParts
  <2>4. CASE Return_(t)
    BY <2>3, <2>4, KeptStacks DEF Return_
  <2>5. CASE Unwind(t)
    BY <2>3, <2>5 DEF Unwind, PopUnnoticed
  <2> QED
    BY <2>1, <2>2, <2>4, <2>5 DEF Program
<1>3. OthersRest(t)
    BY <1>1, FiredFacts, KeptThreads
<1>4. \A u \in Threads : u # t => marks'[u] = marks[u]
    BY <1>1, OldParts DEF MapTypes
<1> QED
    BY <1>1, <1>2, <1>3, <1>4, NoneFilled, OldParts DEF Effects, EventTypes

-----------------------------------------------------------------------------
(***************************************************************************)
(* Stops have a reason: a cached FuncCodeInfo with the current mtime has   *)
(* the breakpoints, but for the one that a command is adding or removing;  *)
(* and a callback for a place that had no breakpoint when the thread came  *)
(* there, and was not given one since, has not read one either.            *)
(***************************************************************************)
CacheInv ==
    \A c \in fresh, l \in Lines0 :
        /\ <<c, l>> \in bps /\ ~AlwaysFilteredOut(c) =>
               l \in cache[c] \/ (cmd.phase = "added" /\ cmd.loc = <<c, l>>)
        /\ l \in cache[c] =>
               <<c, l>> \in bps \/ (cmd.phase \in {"added", "removed"} /\ cmd.loc = <<c, l>>)

ArmOf(t) ==
    LET here == <<Top(t).code, Top(t).line>> IN
    /\ "removed" \notin marks[t]
    /\ pc[t] \in InCallback /\ event[t] \in {"start", "line"} =>
           /\ event[t] = "start" => Top(t).line = 0
           /\ "armed" \notin marks[t] =>
                  /\ here \notin bps
                  /\ cmd.phase \in {"added", "removed"} => cmd.loc # here
                  /\ pc[t] = "decide" => Top(t).line \notin seen[t]
ArmInv == TypeInv /\ CacheInv /\ \A t \in Threads : ArmOf(t)

\* What a FuncCodeInfo has is what is cached, or what is so.
LEMMA InfoLines ==
    ASSUME TypeInv, CacheInv, NEW c \in Codes, NEW l \in Lines0
    PROVE  /\ <<c, l>> \in bps /\ ~AlwaysFilteredOut(c) =>
                  l \in FuncCodeInfo(c) \/ (cmd.phase = "added" /\ cmd.loc = <<c, l>>)
           /\ l \in FuncCodeInfo(c) =>
                  <<c, l>> \in bps \/ (cmd.phase \in {"added", "removed"} /\ cmd.loc = <<c, l>>)
<1>1. CASE c \in fresh
    BY <1>1 DEF CacheInv, FuncCodeInfo
<1>2. CASE c \notin fresh
    BY <1>2, LinesOf DEF FuncCodeInfo, NewFuncCodeInfo
<1> QED
    BY <1>1, <1>2

\* the step leaves the breakpoints as they are, and goes on with the command that
\* changes them
SameBreakpoints == bps' = bps /\ (cmd.phase \in {"added", "removed"} => cmd' = cmd)

LEMMA CacheStep ==
    ASSUME TypeInv, CacheInv, SameBreakpoints, NEW C \in SUBSET Codes, FillCache(C)
    PROVE  CacheInv'
<1> SUFFICES ASSUME NEW c \in fresh', NEW l \in Lines0
             PROVE  /\ <<c, l>> \in bps' /\ ~AlwaysFilteredOut(c) =>
                           l \in cache'[c] \/ (cmd'.phase = "added" /\ cmd'.loc = <<c, l>>)
                    /\ l \in cache'[c] =>
                           \/ <<c, l>> \in bps'
                           \/ cmd'.phase \in {"added", "removed"} /\ cmd'.loc = <<c, l>>
    BY DEF CacheInv, Lines0, AlwaysFilteredOut
<1>1. c \in Codes /\ (c \in C \/ c \in fresh)
    BY OldParts DEF FillCache, CacheTypes
<1>2. cache'[c] = FuncCodeInfo(c)
    BY <1>1 DEF FillCache, FuncCodeInfo
<1> QED
    BY <1>1, <1>2, InfoLines DEF SameBreakpoints

LEMMA CacheThread ==
    ASSUME TypeInv, CacheInv, NEW t \in Threads, Effects(t)
    PROVE  CacheInv'
<1>1. SameBreakpoints /\ \E C \in SUBSET Codes : FillCache(C)
    BY DEF Effects, SameBreakpoints
<1> QED
    BY <1>1, CacheStep

LEMMA CacheCommand ==
    ASSUME TypeInv, CacheInv, Command
    PROVE  CacheInv'
<1>1. CASE fresh' = {}
    BY <1>1 DEF CacheInv
<1>2. CASE SameBreakpoints /\ \E C \in SUBSET Codes : FillCache(C)
    BY <1>2, CacheStep
<1>3. ASSUME NEW loc \in BreakLocations, AddBreakpoint(loc) PROVE CacheInv'
  <2>1. /\ bps' = bps \cup {loc} /\ cmd.phase = "idle" /\ UNCHANGED <<cache, fresh>>
        /\ cmd'.phase = "added" /\ cmd'.loc = loc
    BY <1>3 DEF AddBreakpoint, monitors
  <2> QED
    BY <2>1 DEF CacheInv, Lines0, AlwaysFilteredOut
<1>4. ASSUME NEW loc \in BreakLocations, RemoveBreakpoint(loc) PROVE CacheInv'
  <2>1. /\ bps' = bps \ {loc} /\ cmd.phase = "idle" /\ UNCHANGED <<cache, fresh>>
        /\ cmd'.phase \in {"added", "removed"} /\ cmd'.loc = loc
    BY <1>4 DEF RemoveBreakpoint, monitors
  <2> QED
    BY <2>1 DEF CacheInv, Lines0, AlwaysFilteredOut
<1>5. ASSUME BreakpointAdded \/ BreakpointRemoved \/ ClearFilters PROVE fresh' = {}
    BY <1>5 DEF BreakpointAdded, BreakpointRemoved, ClearFilters, ClearCaches, NewMtime
<1>6. ASSUME TraceExistingFrames PROVE SameBreakpoints /\ \E C \in SUBSET Codes : FillCache(C)
    BY <1>6, TraceExistingFacts DEF SameBreakpoints
<1>7. ASSUME NEW t \in Threads, Pause(t)
      PROVE  SameBreakpoints /\ \E C \in SUBSET Codes : FillCache(C)
    BY <1>7, PauseFacts DEF SameBreakpoints
<1>8. ASSUME RestartAfterCommand \/ \E S : Continue(S)
      PROVE  SameBreakpoints /\ \E C \in SUBSET Codes : FillCache(C)
    BY <1>8, NoneFilled DEF RestartAfterCommand, Continue, SameBreakpoints, monitors
<1> QED
    BY <1>1, <1>2, <1>3, <1>4, <1>5, <1>6, <1>7, <1>8 DEF Command

\* u stays in the callback it is in
Unmoved(u) ==
    /\ Depth(u)' = Depth(u) /\ stack'[u] = stack[u]
    /\ pc'[u] = pc[u] /\ event'[u] = event[u] /\ seen'[u] = seen[u]

LEMMA EffectsOthers ==
    ASSUME TypeInv, NEW t \in Threads, Effects(t)
    PROVE  \A u \in Threads : u # t => Unmoved(u)
BY DEF Effects, OthersKept, OthersRest, Unmoved

LEMMA UnmovedTop ==
    ASSUME TypeInv, NEW u \in Threads, Unmoved(u)
    PROVE  Top(u)' = Top(u)
BY DEF Unmoved, Top

\* A thread that is told in time of a breakpoint at its place.
LEMMA UnmovedArm ==
    ASSUME TypeInv, NEW u \in Threads, ArmOf(u), Unmoved(u), "removed" \notin marks'[u],
           "armed" \in marks[u] => "armed" \in marks'[u],
           LET here == <<Top(u).code, Top(u).line>> IN
           "armed" \in marks'[u] \/ pc[u] = "run" \/
               /\ here \in bps' => here \in bps
               /\ cmd'.phase \in {"added", "removed"} /\ cmd'.loc = here =>
                      here \in bps \/ cmd' = cmd
    PROVE  ArmOf(u)'
<1>1. Top(u)' = Top(u)
    BY UnmovedTop
<1> QED
    BY <1>1 DEF ArmOf, Unmoved, InCallback

LEMMA ArmThread ==
    ASSUME TypeInv, CacheInv, \A u \in Threads : ArmOf(u), NEW t \in Threads, Effects(t), ArmOf(t)'
    PROVE  \A u \in Threads : ArmOf(u)'
<1>1. ASSUME NEW u \in Threads, u # t PROVE ArmOf(u)'
  <2>1. /\ Unmoved(u) /\ marks'[u] \subseteq marks[u] /\ bps' = bps /\ cmd' = cmd
        /\ "armed" \in marks[u] => "armed" \in marks'[u]
    BY <1>1, EffectsOthers DEF Effects
  <2>2. "removed" \notin marks'[u]
    BY <2>1 DEF ArmOf
  <2> QED
    BY <2>1, <2>2, UnmovedArm
<1> QED
    BY <1>1

LEMMA ArmProgram ==
    ASSUME TypeInv, NEW t \in Threads, Program(t)
    PROVE  ArmOf(t)'
<1>1. ASSUME NEW c \in Codes, Call(t, c) PROVE ArmOf(t)'
  <2>0. PICK b, x : Top(t)' = [code |-> c, line |-> 0, blind |-> b, skipped |-> x]
    BY <1>1, CallFacts
  <2>1. Top(t)'.code = c /\ Top(t)'.line = 0
    BY <2>0
  <2>2. /\ pc[t] = "run" /\ bps' = bps /\ cmd' = cmd
        /\ Fire(t, "start") \/ UNCHANGED <<pc, event>>
        /\ seen' = seen /\ at' = at
        /\ marks' = [marks EXCEPT ![t] = IF <<c, 0>> \in bps \/ <<c, 0>> = cmd.loc
                                         THEN {"armed"} ELSE {}]
    BY <1>1 DEF Call
  <2>3. /\ pc'[t] = "run" \/ (pc'[t] = "fetch" /\ event'[t] = "start")
        /\ marks'[t] = IF <<c, 0>> \in bps \/ <<c, 0>> = cmd.loc THEN {"armed"} ELSE {}
    BY <2>2, FiredFacts, OldParts DEF MapTypes
  <2> QED
    BY <2>1, <2>2, <2>3 DEF ArmOf, InCallback
<1>2. ASSUME NEW l \in 1 .. LastLine, Advance(t, l) PROVE ArmOf(t)'
  <2> DEFINE m == Marks(t, Top(t), l, Depth(t))
  <2>1. Top(t)' = [Top(t) EXCEPT !.line = l] /\ Top(t) \in FrameType
    BY <1>2, AdvanceFacts, ThreadFacts
  <2>2. Top(t)'.code = Top(t).code /\ Top(t)'.line = l
    BY <2>1 DEF FrameType
  <2>3. /\ pc[t] = "run" /\ bps' = bps /\ cmd' = cmd
        /\ Fire(t, "line") \/ UNCHANGED <<pc, event>>
        /\ seen' = seen /\ at' = at /\ marks' = [marks EXCEPT ![t] = m]
    BY <1>2 DEF Advance
  <2>4. /\ "removed" \notin m
        /\ <<Top(t).code, l>> \in bps \/ <<Top(t).code, l>> = cmd.loc => "armed" \in m
    BY DEF Marks
  <2> HIDE DEF m
  <2>5. /\ pc'[t] = "run" \/ (pc'[t] = "fetch" /\ event'[t] = "line")
        /\ marks'[t] = m
    BY <2>3, FiredFacts, OldParts DEF MapTypes
  <2> QED
    BY <2>2, <2>3, <2>4, <2>5 DEF ArmOf, InCallback
<1>3. ASSUME Return_(t) \/ Unwind(t) PROVE ArmOf(t)'
  <2>1. /\ pc[t] = "run" /\ marks' = [marks EXCEPT ![t] = {}] /\ seen' = seen /\ at' = at
        /\ Fire(t, "return") \/ UNCHANGED <<pc, event>>
    BY <1>3 DEF Return_, Unwind
  <2>2. /\ pc'[t] = "run" \/ event'[t] = "return"
        /\ marks'[t] = {}
    BY <2>1, FiredFacts, OldParts DEF MapTypes
  <2> QED
    BY <2>2 DEF ArmOf, InCallback
<1> QED
    BY <1>1, <1>2, <1>3 DEF Program

\* A callback ends with a stop at a breakpoint only where it has read one.
LEMMA StopsAreArmed ==
    ASSUME TypeInv, NEW t \in Threads, ArmOf(t), Callback(t)
    PROVE  "removed" \notin marks'[t]
<1>1. ASSUME marks' = marks \/ marks' = [marks EXCEPT ![t] = {}]
      PROVE  "removed" \notin marks'[t]
    BY <1>1, OldParts DEF ArmOf, MapTypes
<1>2. ASSUME NEW events, pc[t] = "decide", event[t] \in {"start", "line"},
             Top(t).line \in seen[t], StopOnBreakpoint(t, <<Top(t).code, Top(t).line>>, events)
      PROVE  "removed" \notin marks'[t]
  <2>1. "armed" \in marks[t]
    BY <1>2 DEF ArmOf, InCallback
  <2>2. marks' = [marks EXCEPT ![t] = {}]
    BY <1>2, <2>1 DEF StopOnBreakpoint
  <2> QED
    BY <1>1, <2>2
<1>3. ASSUME StartMethodEvent(t) PROVE "removed" \notin marks'[t]
  <2>1. pc[t] = "decide" /\ event[t] = "start" /\ Top(t).line = 0
    BY <1>3 DEF StartMethodEvent, ArmOf, InCallback
  <2>2. \/ marks' = marks
        \/ 0 \in seen[t] /\ StopOnBreakpoint(t, <<Top(t).code, 0>>, StartEvents(t))
    BY <1>3 DEF StartMethodEvent, StartSkipped, StartAtFunctionBreakpoint, StartTraced,
       StartNotTraced, Proceed, Disable, history
  <2> QED
    BY <1>1, <1>2, <2>1, <2>2
<1>4. ASSUME LineEvent(t) PROVE "removed" \notin marks'[t]
  <2>1. pc[t] = "decide" /\ event[t] = "line"
    BY <1>4 DEF LineEvent
  <2>2. \/ marks' = marks \/ marks' = [marks EXCEPT ![t] = {}]
        \/ Top(t).line \in seen[t] /\ StopOnBreakpoint(t, <<Top(t).code, Top(t).line>>, local)
    BY <1>4 DEF LineEvent, LineFilteredOut, LineWithBreakpoint, LinePaused, LineNotStepping,
       LineStepping, StopForStep, WaitSuspended, Proceed, Disable, history
  <2> QED
    BY <1>1, <1>2, <2>1, <2>2
<1>5. ASSUME ReturnEvent(t) PROVE "removed" \notin marks'[t]
  <2>1. marks' = marks \/ marks' = [marks EXCEPT ![t] = {}]
    BY <1>5 DEF ReturnEvent, ReturnPaused, ReturnEndsStep, ReturnOfStepFrame, ReturnOfOther,
       StopOnReturn, StopForStep, WaitSuspended, history
  <2> QED
    BY <1>1, <2>1
<1>6. ASSUME Fetch(t) \/ RestartAfterSuspend(t) \/ EnterWait(t) PROVE "removed" \notin marks'[t]
    BY <1>1, <1>6 DEF Fetch, RestartAfterSuspend, EnterWait, history
<1>7. ASSUME LeaveWait(t) PROVE "removed" \notin marks'[t]
    BY <1>1, <1>7 DEF LeaveWait
<1>8. ASSUME NEW step, NEW target, StepRequest(t, step, target) PROVE "removed" \notin marks'[t]
    BY <1>1, <1>8 DEF StepRequest, Released, ArmOf
<1> QED
    BY <1>3, <1>4, <1>5, <1>6, <1>7, <1>8, RequestsAre

LEMMA ArmCallback ==
    ASSUME TypeInv, CacheInv, NEW t \in Threads, ArmOf(t), Callback(t)
    PROVE  ArmOf(t)'
<1>1. CASE Ends(t)
    BY <1>1, StopsAreArmed DEF ArmOf, Ends
<1>2. CASE Fetch(t)
  <2>1. /\ pc[t] = "fetch" /\ pc'[t] = "decide" /\ stack' = stack /\ Depth(t)' = Depth(t)
        /\ event' = event /\ marks' = marks /\ seen'[t] = FuncCodeInfo(Top(t).code)
        /\ bps' = bps /\ cmd' = cmd /\ Top(t).code \in Codes
    BY <1>2, FetchEffects DEF Effects
  <2>2. Top(t)' = Top(t) /\ Top(t).line \in Lines0
    BY <2>1, ThreadFacts, CodeFacts DEF Top
  <2>3. Top(t).line \in seen'[t] =>
            \/ <<Top(t).code, Top(t).line>> \in bps
            \/ cmd.phase \in {"added", "removed"} /\ cmd.loc = <<Top(t).code, Top(t).line>>
    BY <2>1, <2>2, InfoLines
  <2> QED
    BY <2>1, <2>2, <2>3 DEF ArmOf, InCallback
<1> QED
    BY <1>1, <1>2, CallbackEffects

\* Commands do not move a thread, and say so when they set a breakpoint where it is.
LEMMA ArmCommand ==
    ASSUME TypeInv, \A u \in Threads : ArmOf(u), Command
    PROVE  \A u \in Threads : ArmOf(u)'
<1>1. UNCHANGED <<stack, pc, event, seen>>
    BY DEF Command, AddBreakpoint, RemoveBreakpoint, BreakpointAdded, TraceExistingFrames,
           RestartAfterCommand, BreakpointRemoved, ClearFilters, Pause, Continue, program
<1>2. \A u \in Threads : Unmoved(u)
    BY <1>1 DEF Unmoved, Depth
<1> SUFFICES ASSUME NEW u \in Threads PROVE ArmOf(u)'
    OBVIOUS
<1> DEFINE here == <<Top(u).code, Top(u).line>>
<1>3. ASSUME NEW loc \in BreakLocations, AddBreakpoint(loc) PROVE ArmOf(u)'
  <2>1. pc[u] # "run" => Depth(u) > 0
    BY ThreadFacts
  <2>2. /\ bps' = bps \cup {loc} /\ cmd'.loc = loc
        /\ marks' = [t \in Threads |-> IF IsAt(t, loc) THEN marks[t] \cup {"armed"} ELSE marks[t]]
    BY <1>3 DEF AddBreakpoint
  <2>3. /\ "removed" \notin marks'[u] /\ ("armed" \in marks[u] => "armed" \in marks'[u])
        /\ pc[u] # "run" /\ here = loc => "armed" \in marks'[u]
    BY <2>1, <2>2 DEF IsAt, ArmOf
  <2> QED
    BY <1>2, <2>2, <2>3, UnmovedArm
<1>4. ASSUME NEW loc \in BreakLocations, RemoveBreakpoint(loc) PROVE ArmOf(u)'
  <2>1. /\ bps' = bps \ {loc} /\ loc \in bps /\ cmd'.loc = loc
        /\ "removed" \notin marks'[u] /\ ("armed" \in marks[u] => "armed" \in marks'[u])
    BY <1>4 DEF RemoveBreakpoint, ArmOf
  <2> QED
    BY <1>2, <2>1, UnmovedArm
<1>5. ASSUME bps' = bps, cmd'.phase \notin {"added", "removed"} \/ cmd' = cmd,
             marks' = marks \/ \E S : Released(S)
      PROVE  ArmOf(u)'
  <2>1. "removed" \notin marks'[u] /\ ("armed" \in marks[u] => "armed" \in marks'[u])
    BY <1>5 DEF Released, ArmOf
  <2> QED
    BY <1>2, <1>5, <2>1, UnmovedArm
<1>6. \A x : [cmd EXCEPT !.phase = x].phase = x
    BY OldParts DEF CmdType
<1>8. ASSUME BreakpointAdded \/ BreakpointRemoved \/ ClearFilters
      PROVE  bps' = bps /\ marks' = marks /\ (cmd'.phase \notin {"added", "removed"} \/ cmd' = cmd)
  <2>1. CASE BreakpointAdded
    <3>1. cmd' = [cmd EXCEPT !.phase = "trace"] /\ UNCHANGED <<bps, marks>>
      BY <2>1 DEF BreakpointAdded
    <3> QED
      BY <1>6, <3>1
  <2>2. CASE BreakpointRemoved \/ ClearFilters
    BY <2>2 DEF BreakpointRemoved, ClearFilters
  <2> QED
    BY <1>8, <2>1, <2>2
<1>9. ASSUME TraceExistingFrames \/ RestartAfterCommand \/ \E t \in Threads : Pause(t)
      PROVE  bps' = bps /\ marks' = marks /\ cmd'.phase \notin {"added", "removed"}
  <2>1. UNCHANGED <<bps, marks>>
    BY <1>9 DEF TraceExistingFrames, RestartAfterCommand, Pause, history
  <2>2. CASE TraceExistingFrames
    <3>1. cmd' = [cmd EXCEPT !.phase = "restart"]
      BY <2>2 DEF TraceExistingFrames
    <3> QED
      BY <1>6, <2>1, <3>1
  <2>3. CASE RestartAfterCommand
    BY <2>1, <2>3 DEF RestartAfterCommand
  <2>4. CASE \E t \in Threads : Pause(t)
    BY <2>1, <2>4 DEF Pause
  <2> QED
    BY <1>9, <2>2, <2>3, <2>4
<1>10. ASSUME NEW S, Continue(S)
       PROVE  bps' = bps /\ Released(S) /\ cmd' = cmd
    BY <1>10 DEF Continue
<1> QED
    BY <1>3, <1>4, <1>5, <1>8, <1>9, <1>10 DEF Command

LEMMA ArmAlways == Spec => []ArmInv
<1>1. Init => ArmInv
  <2> SUFFICES ASSUME Init PROVE ArmInv
    OBVIOUS
  <2>1. CacheInv /\ \A t \in Threads : ArmOf(t)
    BY DEF Init, CacheInv, ArmOf, InCallback
  <2> QED
    BY <2>1, InitTypes DEF ArmInv
<1>2. ArmInv /\ [Next]_vars => ArmInv'
  <2> SUFFICES ASSUME ArmInv, [Next]_vars PROVE ArmInv'
    OBVIOUS
  <2>1. TypeInv /\ CacheInv /\ (\A u \in Threads : ArmOf(u)) /\ TypeInv'
    BY TypeStep DEF ArmInv
  <2>2. ASSUME NEW t \in Threads, Program(t) PROVE CacheInv' /\ \A u \in Threads : ArmOf(u)'
    BY <2>1, <2>2, ProgramEffects, ArmProgram, ArmThread, CacheThread
  <2>3. ASSUME NEW t \in Threads, Callback(t) PROVE CacheInv' /\ \A u \in Threads : ArmOf(u)'
    <3>1. Effects(t)
      BY <2>1, <2>3, CallbackEffects, FetchEffects DEF Ends
    <3> QED
      BY <2>1, <2>3, <3>1, ArmCallback, ArmThread, CacheThread
  <2>4. ASSUME Command PROVE CacheInv' /\ \A u \in Threads : ArmOf(u)'
    BY <2>1, <2>4, CacheCommand, ArmCommand
  <2>5. ASSUME UNCHANGED vars PROVE CacheInv' /\ \A u \in Threads : ArmOf(u)'
    BY <2>1, <2>5 DEF vars, program, monitors, history, CacheInv, ArmOf, Top, Depth, AlwaysFilteredOut
  <2> QED
    BY <2>1, <2>2, <2>3, <2>4, <2>5 DEF Next, ArmInv
<1> QED
    BY <1>1, <1>2, PTL DEF Spec

\* Nobody stops for a breakpoint that is not there, or was removed before it was reached.
THEOREM RemovedAreNotHit == Spec => []RemovedNotHit
<1>1. ArmInv => RemovedNotHit
    BY DEF ArmInv, ArmOf, RemovedNotHit
<1> QED
    BY <1>1, ArmAlways, PTL

-----------------------------------------------------------------------------
(***************************************************************************)
(* Breakpoints: where the installation of one is complete, the events of   *)
(* its code are on, unless no frame of the code has gone past its PY_START *)
(* yet and none will without seeing the breakpoint; and no callback that   *)
(* knew of the breakpoint has disabled its line.                           *)
(***************************************************************************)
\* t is in the callback of PY_START for its frame at depth d
Starting(t, d) == d = Depth(t) /\ pc[t] \in InCallback /\ event[t] = "start"
\* the breakpoint has been installed in the frames that exist
Known(c, l) ==
    <<c, l>> \in settled \/ (cmd.phase = "restart" /\ cmd.loc = <<c, l>> /\ <<c, l>> \in bps)
\* t has gone past no PY_START of c, and will not without seeing line l
NotIn(t, c, l) ==
    /\ \A d \in 1 .. Depth(t) : stack[t][d].code = c => stack[t][d].blind \/ Starting(t, d)
    /\ pc[t] = "decide" /\ event[t] = "start" /\ Top(t).code = c => l \in seen[t]
Unentered(c, l) ==
    /\ \A t \in Threads : NotIn(t, c, l)
    /\ <<c, l>> \in settled => <<c, 0>> \notin disabled
LinesOn(c, l) ==
    /\ "LINE" \in local[c] \/ Unentered(c, l)
    /\ <<c, l>> \in settled \cap disabled => <<c, l>> \in late
Lines1 == 1 .. LastLine
InstallInv ==
    /\ cmd.phase = "added" => cmd.loc \notin settled
    /\ settled # {} \/ (cmd.phase \in {"trace", "restart"} /\ cmd.loc \in bps) => tracking
    /\ \A c \in Codes : ~AlwaysFilteredOut(c) =>
           \A l \in Lines1 : Known(c, l) => LinesOn(c, l)

\* a thread at a line where it has to stop is in the callback that will stop it
BreakOf(t) ==
    LET here == <<Top(t).code, Top(t).line>> IN
    /\ pc[t] \in InCallback /\ event[t] = "line" => Top(t).line \in Lines1
    /\ "breakpoint" \in marks[t] =>
           /\ pc[t] \in InCallback /\ event[t] = "line" /\ ~AlwaysFilteredOut(Top(t).code)
           /\ here \in settled \ Conditional /\ (pc[t] = "decide" => Top(t).line \in seen[t])
BreakInv == TypeInv /\ CacheInv /\ InstallInv /\ \A t \in Threads : BreakOf(t)

LEMMA Line1 ==
    /\ Lines1 \subseteq Lines0 /\ 0 \notin Lines1 /\ \A l \in Lines0 : l # 0 => l \in Lines1
    /\ \A c \in Codes : AlwaysSkipCode(c) => AlwaysFilteredOut(c)
BY SysMonitoringAssumption DEF Lines1, Lines0, AlwaysSkipCode, AlwaysFilteredOut, ApplyFilesFilter

LEMMA LineTraced ==
    ASSUME NEW i, NEW c, NEW d, NEW lines, NEW l \in Lines1, l \in lines
    PROVE  "LINE" \in CodeTracing(i, c, d, lines) /\ BreakpointFound(lines)
BY Line1 DEF CodeTracing, BreakpointFound

\* A breakpoint that has been installed is in what a callback fetches.
LEMMA KnownFetched ==
    ASSUME TypeInv, CacheInv, InstallInv, NEW c \in Codes, NEW l \in Lines1,
           Known(c, l), ~AlwaysFilteredOut(c)
    PROVE  l \in FuncCodeInfo(c) /\ <<c, l>> \in bps
<1>1. <<c, l>> \in bps /\ ~(cmd.phase = "added" /\ cmd.loc = <<c, l>>)
    BY OldParts DEF Known, InstallInv
<1> QED
    BY <1>1, InfoLines, Line1

\* How a callback changes what is disabled.
LEMMA DisabledBy ==
    ASSUME TypeInv, NEW t \in Threads, Callback(t)
    PROVE  \/ UNCHANGED <<disabled, late, foreign>>
           \/ RestartAfterSuspend(t) /\ RestartEvents
           \/ /\ StartMethodEvent(t) /\ (StartSkipped(t) \/ StartNotTraced(t))
              /\ Disable(t, <<Top(t).code, 0>>)
           \/ /\ LineEvent(t) /\ Disable(t, <<Top(t).code, Top(t).line>>)
              /\ \/ AlwaysFilteredOut(Top(t).code)
                 \/ /\ NoBreakpointStops(t) /\ info[t].state = "run" /\ info[t].step = None
                    /\ ~BreakpointFound(seen[t]) /\ stepping = {}
<1>1. ASSUME NEW d, NEW events, SetSuspend(t, d, events) PROVE UNCHANGED <<disabled, late, foreign>>
    BY <1>1 DEF SetSuspend
<1>2. ASSUME Proceed(t) \/ WaitSuspended(t) PROVE UNCHANGED <<disabled, late, foreign>>
    BY <1>2 DEF Proceed, WaitSuspended, monitors, history
<1>3. CASE StartMethodEvent(t)
  <2>1. CASE StartSkipped(t) \/ StartNotTraced(t)
    BY <1>3, <2>1 DEF StartSkipped, StartNotTraced
  <2>2. CASE StartAtFunctionBreakpoint(t) \/ StartTraced(t)
    BY <1>1, <1>2, <2>2 DEF StartAtFunctionBreakpoint, StartTraced, StopOnBreakpoint
  <2> QED
    BY <1>3, <2>1, <2>2 DEF StartMethodEvent
<1>4. CASE LineEvent(t)
  <2>1. CASE LineFilteredOut(t) \/ LineNotStepping(t)
    BY <1>2, <1>4, <2>1 DEF LineFilteredOut, LineNotStepping
  <2>2. CASE LineWithBreakpoint(t) \/ LinePaused(t) \/ LineStepping(t)
    BY <1>1, <1>2, <2>2 DEF LineWithBreakpoint, LinePaused, LineStepping, StopOnBreakpoint, StopForStep
  <2> QED
    BY <1>4, <2>1, <2>2 DEF LineEvent
<1>5. CASE ReturnEvent(t)
    BY <1>1, <1>2, <1>5 DEF ReturnEvent, ReturnPaused, ReturnEndsStep, ReturnOfStepFrame,
       ReturnOfOther, StopOnReturn, StopForStep, StepBecomesInto, monitors, history
<1>6. CASE RestartAfterSuspend(t)
    BY <1>6 DEF RestartAfterSuspend
<1>7. CASE Fetch(t) \/ EnterWait(t) \/ LeaveWait(t) \/ \E step, target : StepRequest(t, step, target)
    BY <1>7 DEF Fetch, EnterWait, LeaveWait, StepRequest, monitors, history
<1> QED
    BY <1>3, <1>4, <1>5, <1>6, <1>7, RequestsAre

\* A callback takes marks away, but for the one that a property excludes.
LEMMA MarksAfter ==
    ASSUME TypeInv, NEW t \in Threads, Callback(t)
    PROVE  marks'[t] \subseteq marks[t] \cup {"removed"}
<1>1. ASSUME NEW x, marks' = [marks EXCEPT ![t] = x] PROVE marks'[t] = x
    BY <1>1, OldParts DEF MapTypes
<1>2. ASSUME NEW loc, NEW events, StopOnBreakpoint(t, loc, events)
      PROVE  marks'[t] \subseteq {"removed"}
    BY <1>1, <1>2 DEF StopOnBreakpoint
<1>3. ASSUME (\E d : StopForStep(t, d)) \/ WaitSuspended(t) PROVE marks'[t] = {}
    BY <1>1, <1>3 DEF StopForStep, WaitSuspended
<1>4. ASSUME Proceed(t) \/ \E loc : Disable(t, loc) PROVE marks' = marks
    BY <1>4 DEF Proceed, Disable, history
<1>5. CASE StartMethodEvent(t)
    BY <1>2, <1>4, <1>5 DEF StartMethodEvent, StartSkipped, StartAtFunctionBreakpoint, StartTraced,
       StartNotTraced
<1>6. CASE LineEvent(t)
    BY <1>2, <1>3, <1>4, <1>6 DEF LineEvent, LineFilteredOut, LineWithBreakpoint, LinePaused,
       LineNotStepping, LineStepping
<1>7. CASE ReturnEvent(t)
    BY <1>1, <1>3, <1>7 DEF ReturnEvent, ReturnPaused, ReturnEndsStep, ReturnOfStepFrame,
       ReturnOfOther, StopOnReturn, history
<1>8. CASE Fetch(t) \/ RestartAfterSuspend(t) \/ EnterWait(t)
    BY <1>8 DEF Fetch, RestartAfterSuspend, EnterWait, history
<1>9. CASE LeaveWait(t)
    BY <1>1, <1>9 DEF LeaveWait
<1>10. CASE \E step, target : StepRequest(t, step, target)
    BY <1>10 DEF StepRequest, Released
<1> QED
    BY <1>5, <1>6, <1>7, <1>8, <1>9, <1>10, RequestsAre

\* What a step of t has to do for the breakpoints that are installed.
Installs(t) ==
    \A c \in Codes : ~AlwaysFilteredOut(c) => \A l \in Lines1 : Known(c, l) =>
        /\ LinesOn(c, l) =>
               \/ "LINE" \in local'[c]
               \/ NotIn(t, c, l)' /\ (<<c, l>> \in settled => <<c, 0>> \notin disabled')
        /\ LinesOn(c, l) /\ <<c, l>> \in settled \cap disabled' => <<c, l>> \in late'

LEMMA NotInKept ==
    ASSUME TypeInv, NEW u \in Threads, Unmoved(u), NEW c, NEW l, NotIn(u, c, l)
    PROVE  NotIn(u, c, l)'
<1>1. Top(u)' = Top(u)
    BY UnmovedTop
<1>2. ASSUME NEW d \in 1 .. Depth(u)', (stack[u][d].code = c)' PROVE (stack[u][d].blind \/ Starting(u, d))'
    BY <1>2 DEF NotIn, Unmoved, Starting, InCallback
<1> QED
    BY <1>1, <1>2 DEF NotIn, Unmoved

LEMMA InstallThread ==
    ASSUME TypeInv, InstallInv, NEW t \in Threads, Effects(t), Installs(t)
    PROVE  InstallInv'
<1>1. UNCHANGED <<bps, cmd, settled>> /\ (tracking => tracking')
      /\ \A c \in Codes : local[c] \subseteq local'[c]
    BY DEF Effects
<1>2. /\ cmd'.phase = "added" => cmd'.loc \notin settled'
      /\ settled' # {} \/ (cmd'.phase \in {"trace", "restart"} /\ cmd'.loc \in bps') => tracking'
    BY <1>1 DEF InstallInv
<1>3. ASSUME NEW c \in Codes, ~AlwaysFilteredOut(c), NEW l \in Lines1, Known(c, l)'
      PROVE  LinesOn(c, l)'
  <2>1. Known(c, l) /\ LinesOn(c, l)
    BY <1>1, <1>3 DEF Known, InstallInv
  <2>2. /\ \/ "LINE" \in local'[c]
           \/ NotIn(t, c, l)' /\ (<<c, l>> \in settled => <<c, 0>> \notin disabled')
        /\ <<c, l>> \in settled \cap disabled' => <<c, l>> \in late'
    BY <1>3, <2>1 DEF Installs
  <2>3. ASSUME NotIn(t, c, l)', "LINE" \notin local'[c] PROVE \A u \in Threads : NotIn(u, c, l)'
    <3>1. \A u \in Threads : NotIn(u, c, l)
      BY <1>1, <2>1, <2>3 DEF LinesOn, Unentered
    <3>2. \A u \in Threads : u # t => Unmoved(u)
      BY EffectsOthers
    <3> QED
      BY <2>3, <3>1, <3>2, NotInKept
  <2> QED
    BY <1>1, <2>2, <2>3 DEF LinesOn, Unentered
<1>4. \A c \in Codes : AlwaysFilteredOut(c)' = AlwaysFilteredOut(c)
    BY DEF AlwaysFilteredOut
<1> QED
    BY <1>2, <1>3, <1>4 DEF InstallInv, Lines1

\* A function that is called while a breakpoint is there: its PY_START is seen, or the
\* frame is one of those that restart_events() comes too late for.
LEMMA InstallProgram ==
    ASSUME TypeInv, InstallInv, NEW t \in Threads, Program(t)
    PROVE  Installs(t)
<1>1. Effects(t) /\ pc[t] = "run" /\ UNCHANGED <<local, disabled, late, bps, cmd, settled>>
    BY ProgramEffects DEF Effects
<1> SUFFICES ASSUME NEW c \in Codes, NEW l \in Lines1, ~AlwaysFilteredOut(c), Known(c, l),
                    LinesOn(c, l), "LINE" \notin local[c]
             PROVE  NotIn(t, c, l)'
    BY <1>1 DEF Installs, LinesOn, Unentered
<1>2. /\ \A d \in 1 .. Depth(t) : stack[t][d].code = c => stack[t][d].blind
      /\ <<c, l>> \in settled => <<c, 0>> \notin disabled
    BY <1>1 DEF LinesOn, Unentered, NotIn, Starting, InCallback
<1>3. ASSUME CallersKept(t, Depth(t)'), Depth(t)' <= Depth(t), Depth(t)' \in Nat
      PROVE  \A d \in 1 .. Depth(t)' : stack'[t][d].code = c => stack'[t][d].blind
  <2> SUFFICES ASSUME NEW d \in 1 .. Depth(t)' PROVE stack'[t][d].code = c => stack'[t][d].blind
    OBVIOUS
  <2>1. d \in 1 .. Depth(t) /\ stack'[t][d] = stack[t][d]
    BY <1>3, ThreadFacts DEF CallersKept
  <2> QED
    BY <1>2, <2>1
<1>4. ASSUME NEW x \in Codes, Call(t, x) PROVE NotIn(t, c, l)'
  <2>1. PICK z : /\ Top(t)' = [code |-> x, line |-> 0, blind |-> RestartPending, skipped |-> z]
                 /\ CallersKept(t, Depth(t)) /\ Depth(t)' = Depth(t) + 1
    BY <1>4, CallFacts
  <2>2. Top(t)'.code = x /\ Top(t)'.blind = RestartPending
    BY <2>1
  <2>3. /\ seen' = seen /\ at' = at
        /\ IF tracking /\ <<x, 0>> \notin disabled THEN Fire(t, "start") ELSE UNCHANGED <<pc, event>>
    BY <1>4 DEF Call
  <2>4. pc'[t] # "decide"
    BY <1>1, <2>3, FiredFacts
  <2>5. ASSUME x = c, ~RestartPending PROVE pc'[t] = "fetch" /\ event'[t] = "start"
    <3>1. <<c, l>> \in settled
      BY <2>5 DEF Known, RestartPending
    <3>2. tracking /\ <<x, 0>> \notin disabled
      BY <1>2, <2>5, <3>1 DEF InstallInv
    <3> QED
      BY <2>3, <3>2, FiredFacts
  <2>6. ASSUME NEW d \in 1 .. Depth(t)', stack'[t][d].code = c
        PROVE  stack'[t][d].blind \/ (d = Depth(t)' /\ pc'[t] \in InCallback /\ event'[t] = "start")
    <3>1. CASE d = Depth(t)'
      <4>1. stack'[t][d].code = x /\ stack'[t][d].blind = RestartPending
        BY <2>2, <3>1 DEF Top
      <4> QED
        BY <2>5, <2>6, <3>1, <4>1 DEF InCallback
    <3>2. CASE d # Depth(t)'
      <4>1. d \in 1 .. Depth(t) /\ stack'[t][d] = stack[t][d]
        BY <2>1, <3>2, ThreadFacts DEF CallersKept
      <4> QED
        BY <1>2, <2>6, <4>1
    <3> QED
      BY <3>1, <3>2
  <2> QED
    BY <2>4, <2>6 DEF NotIn, Starting
<1>5. ASSUME NEW k \in 1 .. LastLine, Advance(t, k) PROVE NotIn(t, c, l)'
  <2>1. /\ Top(t)' = [Top(t) EXCEPT !.line = k] /\ CallersKept(t, Depth(t) - 1)
        /\ Depth(t)' = Depth(t) /\ Depth(t) > 0 /\ Top(t) \in FrameType /\ Depth(t) \in Nat
    BY <1>5, AdvanceFacts, ThreadFacts
  <2>2. Top(t)'.code = Top(t).code /\ Top(t)'.blind = Top(t).blind
    BY <2>1 DEF FrameType
  <2>3. pc'[t] # "decide"
    BY <1>1, <1>5, FiredFacts DEF Advance
  <2>4. ASSUME NEW d \in 1 .. Depth(t)', stack'[t][d].code = c PROVE stack'[t][d].blind
    <3>1. CASE d = Depth(t)
      <4>1. stack'[t][d].code = stack[t][d].code /\ stack'[t][d].blind = stack[t][d].blind
        BY <2>1, <2>2, <3>1 DEF Top
      <4> QED
        BY <1>2, <2>1, <2>4, <4>1
    <3>2. CASE d # Depth(t)
      <4>1. d \in 1 .. Depth(t) /\ stack'[t][d] = stack[t][d]
        BY <2>1, <3>2 DEF CallersKept
      <4> QED
        BY <1>2, <2>4, <4>1
    <3> QED
      BY <3>1, <3>2
  <2> QED
    BY <2>3, <2>4 DEF NotIn
<1>6. ASSUME Return_(t) \/ Unwind(t) PROVE NotIn(t, c, l)'
  <2>1. /\ Depth(t) > 0 /\ seen' = seen /\ at' = at
        /\ Pop(t, info) \/ stack' = stack
        /\ Fire(t, "return") \/ UNCHANGED <<pc, event>>
    BY <1>6 DEF Return_, Unwind, PopUnnoticed
  <2>2. CallersKept(t, Depth(t)') /\ Depth(t)' <= Depth(t) /\ Depth(t)' \in Nat
    BY <2>1, PopFacts, KeptStacks, ThreadFacts, OldParts DEF CallersKept
  <2>3. pc'[t] # "decide"
    BY <1>1, <2>1, FiredFacts
  <2> QED
    BY <1>3, <2>2, <2>3 DEF NotIn
<1> QED
    BY <1>4, <1>5, <1>6 DEF Program

\* A callback that begins fetches what is installed.
LEMMA InstallFetch ==
    ASSUME TypeInv, CacheInv, InstallInv, NEW t \in Threads, Fetch(t)
    PROVE  Installs(t)
<1>1. /\ stack' = stack /\ Depth(t)' = Depth(t) /\ event' = event
      /\ pc[t] = "fetch" /\ pc'[t] = "decide" /\ seen'[t] = FuncCodeInfo(Top(t).code)
      /\ UNCHANGED <<local, disabled, late, settled>>
    BY FetchEffects DEF Effects
<1>2. Top(t)' = Top(t)
    BY <1>1 DEF Top
<1> SUFFICES ASSUME NEW c \in Codes, NEW l \in Lines1, ~AlwaysFilteredOut(c), Known(c, l),
                    NotIn(t, c, l)
             PROVE  NotIn(t, c, l)'
    BY <1>1 DEF Installs, LinesOn, Unentered
<1>3. l \in FuncCodeInfo(c)
    BY KnownFetched
<1>4. ASSUME NEW d \in 1 .. Depth(t)', (stack[t][d].code = c)' PROVE (stack[t][d].blind \/ Starting(t, d))'
    BY <1>1, <1>4 DEF NotIn, Starting, InCallback
<1> QED
    BY <1>1, <1>2, <1>3, <1>4 DEF NotIn

\* A callback of PY_START asks for the line events of a code with a breakpoint.
LEMMA StartAsks ==
    ASSUME TypeInv, NEW t \in Threads, StartMethodEvent(t), NEW l \in Lines1, l \in seen[t]
    PROVE  AlwaysSkipCode(Top(t).code) \/ "LINE" \in local'[Top(t).code]
<1>1. /\ pc[t] # "run" /\ Top(t).code \in Codes
      /\ StartEvents(t)[Top(t).code] =
             local[Top(t).code] \cup CodeTracing(info[t], Top(t).code, Depth(t), seen[t])
      /\ StartEvents(t) \in [Codes -> SUBSET Kinds]
    BY ThreadFacts, CodeFacts, StartEventsFacts DEF StartMethodEvent
<1>2. "LINE" \in StartEvents(t)[Top(t).code]
    BY <1>1, LineTraced
<1>3. ASSUME NEW d, SetSuspend(t, d, StartEvents(t)) PROVE "LINE" \in local'[Top(t).code]
    BY <1>1, <1>2, <1>3, SetSuspendFacts
<1>4. CASE StartSkipped(t)
    BY <1>4 DEF StartSkipped
<1>5. CASE StartAtFunctionBreakpoint(t)
    BY <1>2, <1>3, <1>5 DEF StartAtFunctionBreakpoint, StopOnBreakpoint
<1>6. CASE StartTraced(t) \/ StartNotTraced(t)
    BY <1>2, <1>6 DEF StartTraced, StartNotTraced
<1> QED
    BY <1>4, <1>5, <1>6 DEF StartMethodEvent

LEMMA InstallEnds ==
    ASSUME TypeInv, CacheInv, InstallInv, NEW t \in Threads, BreakOf(t), Callback(t), Ends(t)
    PROVE  Installs(t)
<1>1. /\ pc'[t] \notin InCallback /\ Depth(t)' <= Depth(t) /\ Depth(t)' \in Nat
      /\ CallersKept(t, Depth(t)') /\ (\A c \in Codes : local[c] \subseteq local'[c])
      /\ settled' = settled
  <2>1. Depth(t) \in Nat /\ (pc[t] # "run" => Depth(t) > 0)
    BY ThreadFacts
  <2>2. pc[t] # "run"
    BY DEF Callback, Fetch, StartMethodEvent, LineEvent, ReturnEvent, RestartAfterSuspend,
           EnterWait, LeaveWait, StepRequest
  <2> QED
    BY <2>1, <2>2 DEF Ends, Effects
<1> SUFFICES ASSUME NEW c \in Codes, NEW l \in Lines1, ~AlwaysFilteredOut(c), Known(c, l), LinesOn(c, l)
             PROVE  /\ \/ "LINE" \in local'[c]
                       \/ NotIn(t, c, l)' /\ (<<c, l>> \in settled => <<c, 0>> \notin disabled')
                    /\ <<c, l>> \in settled \cap disabled' => <<c, l>> \in late'
    BY DEF Installs
\* t leaves the callback of PY_START for a frame of c: it has seen l
<1>2. ASSUME StartMethodEvent(t), Top(t).code = c, NotIn(t, c, l) PROVE "LINE" \in local'[c]
    BY <1>2, StartAsks, Line1 DEF NotIn, StartMethodEvent
<1>3. ASSUME NotIn(t, c, l), "LINE" \notin local'[c] PROVE NotIn(t, c, l)'
  <2>1. ASSUME NEW d \in 1 .. Depth(t)', stack'[t][d].code = c PROVE stack'[t][d].blind
    <3>1. d \in 1 .. Depth(t) /\ stack'[t][d] = stack[t][d]
      BY <1>1, ThreadFacts DEF CallersKept
    <3>2. stack[t][d].blind \/ Starting(t, d)
      BY <1>3, <2>1, <3>1 DEF NotIn
    <3>3. Starting(t, d) => StartMethodEvent(t) /\ Top(t).code = c
      <4>1. ~Fetch(t)
        BY <1>1, FetchEffects DEF InCallback
      <4>2. \/ StartMethodEvent(t) \/ (LineEvent(t) /\ event[t] = "line")
            \/ (ReturnEvent(t) /\ event[t] = "return") \/ pc[t] \in Waiting
        BY <4>1, RequestsAre DEF LineEvent, ReturnEvent, RestartAfterSuspend, EnterWait, LeaveWait,
           StepRequest, Waiting
      <4> QED
        BY <2>1, <3>1, <4>2 DEF Starting, InCallback, Waiting, Top
    <3> QED
      BY <1>2, <1>3, <3>1, <3>2, <3>3
  <2> QED
    BY <1>1, <2>1 DEF NotIn, InCallback
<1>4. CASE UNCHANGED <<disabled, late, foreign>>
    BY <1>1, <1>3, <1>4 DEF LinesOn, Unentered
<1>5. CASE RestartEvents
    BY <1>1, <1>3, <1>5 DEF LinesOn, Unentered, RestartEvents
<1>6. CASE StartMethodEvent(t) /\ Disable(t, <<Top(t).code, 0>>)
  <2>1. /\ disabled' = disabled \cup {<<Top(t).code, 0>>} /\ late \subseteq late'
    BY <1>6 DEF Disable
  <2>2. <<c, l>> \in settled \cap disabled' => <<c, l>> \in late'
    BY <2>1, Line1 DEF LinesOn
  <2>3. ASSUME "LINE" \notin local'[c] PROVE <<c, l>> \in settled => <<c, 0>> \notin disabled'
    BY <1>1, <1>2, <1>6, <2>1, <2>3 DEF LinesOn, Unentered
  <2> QED
    BY <1>1, <1>3, <2>2, <2>3 DEF LinesOn, Unentered
<1>7. CASE /\ LineEvent(t) /\ Disable(t, <<Top(t).code, Top(t).line>>)
           /\ AlwaysFilteredOut(Top(t).code) \/ ~BreakpointFound(seen[t])
  <2>1. /\ disabled' = disabled \cup {<<Top(t).code, Top(t).line>>} /\ late \subseteq late'
        /\ \/ <<Top(t).code, Top(t).line>> \in late' \/ AlwaysFilteredOut(Top(t).code)
           \/ seen[t] = BreakpointLines(Top(t).code)
    BY <1>7 DEF Disable
  <2>2. Top(t).line \in Lines1 /\ Top(t).code \in Codes
    BY <1>7, ThreadFacts, CodeFacts DEF BreakOf, LineEvent, InCallback
  <2>3. ASSUME <<c, l>> = <<Top(t).code, Top(t).line>> PROVE <<c, l>> \in late'
    <3>1. <<c, l>> \in bps
      BY KnownFetched
    <3>2. l \in BreakpointLines(c) /\ c = Top(t).code
      BY <2>3, <3>1, LinesOf
    <3>3. seen[t] # BreakpointLines(Top(t).code)
      BY <1>7, <3>2, LineTraced
    <3> QED
      BY <2>1, <2>3, <3>2, <3>3
  <2>4. <<c, l>> \in settled \cap disabled' => <<c, l>> \in late'
    BY <2>1, <2>3 DEF LinesOn
  <2>5. <<c, 0>> \in disabled' => <<c, 0>> \in disabled
    BY <2>1, <2>2, Line1
  <2> QED
    BY <1>1, <1>3, <2>4, <2>5 DEF LinesOn, Unentered
<1> QED
    BY <1>4, <1>5, <1>6, <1>7, DisabledBy

\* A thread that comes to a line with an installed breakpoint gets the event for it.
LEMMA BreakProgram ==
    ASSUME TypeInv, InstallInv, NEW t \in Threads, Program(t)
    PROVE  BreakOf(t)'
<1>1. ASSUME NEW c \in Codes, Call(t, c) PROVE BreakOf(t)'
  <2>1. /\ pc[t] = "run" /\ seen' = seen /\ at' = at
        /\ Fire(t, "start") \/ UNCHANGED <<pc, event>>
        /\ marks' = [marks EXCEPT ![t] = IF <<c, 0>> \in bps \/ <<c, 0>> = cmd.loc
                                         THEN {"armed"} ELSE {}]
    BY <1>1 DEF Call
  <2>2. /\ pc'[t] = "run" \/ event'[t] = "start"
        /\ "breakpoint" \notin marks'[t]
    BY <2>1, FiredFacts, OldParts DEF MapTypes
  <2> QED
    BY <2>2 DEF BreakOf, InCallback
<1>2. ASSUME Return_(t) \/ Unwind(t) PROVE BreakOf(t)'
  <2>1. /\ pc[t] = "run" /\ marks' = [marks EXCEPT ![t] = {}] /\ seen' = seen /\ at' = at
        /\ Fire(t, "return") \/ UNCHANGED <<pc, event>>
    BY <1>2 DEF Return_, Unwind
  <2>2. /\ pc'[t] = "run" \/ event'[t] = "return"
        /\ "breakpoint" \notin marks'[t]
    BY <2>1, FiredFacts, OldParts DEF MapTypes
  <2> QED
    BY <2>2 DEF BreakOf, InCallback
<1>3. ASSUME NEW l \in 1 .. LastLine, Advance(t, l) PROVE BreakOf(t)'
  <2> DEFINE f == Top(t)
             m == Marks(t, f, l, Depth(t))
  <2>1. /\ Top(t)' = [f EXCEPT !.line = l] /\ f \in FrameType /\ Depth(t) > 0
        /\ Depth(t) \in Nat /\ f = stack[t][Depth(t)]
    BY <1>3, AdvanceFacts, ThreadFacts DEF Top
  <2>2. Top(t)'.code = f.code /\ Top(t)'.line = l /\ f.code \in Codes
    BY <2>1 DEF FrameType
  <2>3. /\ pc[t] = "run" /\ settled' = settled /\ seen' = seen /\ at' = at
        /\ IF tracking /\ "LINE" \in local[f.code] /\ <<f.code, l>> \notin disabled
           THEN Fire(t, "line") ELSE UNCHANGED <<pc, event>>
        /\ marks' = [marks EXCEPT ![t] = m]
    BY <1>3 DEF Advance
  <2>4. "breakpoint" \in m =>
            /\ <<f.code, l>> \in settled \ Conditional /\ ~AlwaysFilteredOut(f.code)
            /\ ~f.blind /\ <<f.code, l>> \notin late
    BY DEF Marks, BrokenAt
  <2> HIDE DEF m
  <2>5. ASSUME "breakpoint" \in m
        PROVE  tracking /\ "LINE" \in local[f.code] /\ <<f.code, l>> \notin disabled
    <3>1. LinesOn(f.code, l) /\ tracking
      BY <2>2, <2>4, <2>5 DEF InstallInv, Known, Lines1
    <3>2. ~Unentered(f.code, l)
      BY <2>1, <2>3, <2>4, <2>5 DEF Unentered, NotIn, Starting, InCallback
    <3> QED
      BY <2>4, <2>5, <3>1, <3>2 DEF LinesOn
  <2>6. /\ pc'[t] = "run" \/ (pc'[t] = "fetch" /\ event'[t] = "line")
        /\ "breakpoint" \in m => pc'[t] = "fetch" /\ event'[t] = "line"
        /\ marks'[t] = m
    BY <2>3, <2>5, FiredFacts, OldParts DEF MapTypes
  <2> QED
    BY <2>2, <2>3, <2>4, <2>6 DEF BreakOf, InCallback, Lines1, AlwaysFilteredOut
<1> QED
    BY <1>1, <1>2, <1>3 DEF Program

\* The callback that began at the line of a breakpoint stops the thread.
LEMMA BreakCallback ==
    ASSUME TypeInv, CacheInv, InstallInv, NEW t \in Threads, BreakOf(t), Callback(t)
    PROVE  BreakOf(t)'
<1>1. CASE Fetch(t)
  <2>1. /\ pc[t] = "fetch" /\ pc'[t] = "decide" /\ stack' = stack /\ Depth(t)' = Depth(t)
        /\ event' = event /\ marks' = marks /\ seen'[t] = FuncCodeInfo(Top(t).code)
        /\ settled' = settled /\ Top(t).code \in Codes
    BY <1>1, FetchEffects DEF Effects
  <2>2. Top(t)' = Top(t)
    BY <2>1 DEF Top
  <2>3. "breakpoint" \in marks[t] => Top(t).line \in seen'[t]
    BY <2>1, KnownFetched DEF BreakOf, Known
  <2> QED
    BY <2>1, <2>2, <2>3 DEF BreakOf, InCallback, AlwaysFilteredOut
<1>2. CASE Ends(t)
  <2>1. pc'[t] \notin InCallback /\ marks'[t] \subseteq marks[t] \cup {"removed"}
    BY <1>2, MarksAfter DEF Ends
  <2>2. ASSUME "breakpoint" \in marks[t] PROVE "breakpoint" \notin marks'[t]
    <3>1. /\ pc[t] \in InCallback /\ event[t] = "line" /\ ~AlwaysFilteredOut(Top(t).code)
          /\ <<Top(t).code, Top(t).line>> \notin Conditional
          /\ pc[t] = "decide" => Top(t).line \in seen[t]
      BY <2>2 DEF BreakOf
    <3>2. ~Fetch(t)
      BY <2>1, FetchEffects DEF InCallback
    <3>3. LineEvent(t)
      BY <3>1, <3>2, RequestsAre DEF InCallback, StartMethodEvent, ReturnEvent,
         RestartAfterSuspend, EnterWait, LeaveWait, StepRequest
    <3>4. LineWithBreakpoint(t)
      BY <3>1, <3>3 DEF LineEvent, LineFilteredOut, LinePaused, LineNotStepping, LineStepping,
         NoBreakpointStops
    <3> DEFINE here == <<Top(t).code, Top(t).line>>
               x == IF "armed" \in marks[t] \/ here \in bps THEN {} ELSE {"removed"}
    <3>5. marks' = [marks EXCEPT ![t] = x] /\ "breakpoint" \notin x
      BY <3>1, <3>4 DEF LineWithBreakpoint, StopOnBreakpoint
    <3> HIDE DEF x
    <3> QED
      BY <3>5, OldParts DEF MapTypes
  <2> QED
    BY <2>1, <2>2 DEF BreakOf
<1> QED
    BY <1>1, <1>2, CallbackEffects

LEMMA BreakOthers ==
    ASSUME TypeInv, NEW t \in Threads, Effects(t), NEW u \in Threads, u # t, BreakOf(u)
    PROVE  BreakOf(u)'
<1>1. Unmoved(u) /\ Top(u)' = Top(u) /\ settled' = settled /\ marks'[u] \subseteq marks[u]
    BY EffectsOthers, UnmovedTop DEF Effects
<1> QED
    BY <1>1 DEF BreakOf, Unmoved, AlwaysFilteredOut

-----------------------------------------------------------------------------
(* Commands that add and remove breakpoints *)

\* A command that leaves the threads, and what is installed, as they are.
LEMMA InstallKept ==
    ASSUME TypeInv, InstallInv, UNCHANGED <<stack, pc, event, seen>>, settled' \subseteq settled,
           local' \in [Codes -> SUBSET Kinds], \A c \in Codes : local[c] \subseteq local'[c],
           UNCHANGED <<disabled, late>> \/ RestartEvents,
           cmd'.phase # "restart" \/ UNCHANGED <<cmd, bps>> \/ cmd'.loc = NoLocation,
           cmd'.phase = "added" => cmd'.loc \notin settled',
           tracking' \/ (settled' = {} /\ ~(cmd'.phase \in {"trace", "restart"} /\ cmd'.loc \in bps'))
    PROVE  InstallInv'
<1>1. \A u \in Threads : Unmoved(u)
    BY DEF Unmoved, Depth
<1>2. ASSUME NEW c \in Codes, ~AlwaysFilteredOut(c), NEW l \in Lines1, Known(c, l)'
      PROVE  LinesOn(c, l)'
  <2>1. <<c, l>> # NoLocation
    BY Line1 DEF NoLocation
  <2>2. Known(c, l)
    BY <1>2, <2>1 DEF Known
  <2>3. LinesOn(c, l)
    BY <1>2, <2>2 DEF InstallInv
  <2>4. ASSUME Unentered(c, l) PROVE Unentered(c, l)'
    <3>1. \A u \in Threads : NotIn(u, c, l)'
      BY <1>1, <2>4, NotInKept DEF Unentered
    <3> QED
      BY <2>4, <3>1 DEF Unentered, RestartEvents
  <2> QED
    BY <2>3, <2>4 DEF LinesOn, RestartEvents
<1> QED
    BY <1>2 DEF InstallInv, Lines1, AlwaysFilteredOut

LEMMA InstallCommand ==
    ASSUME TypeInv, CacheInv, InstallInv, Command
    PROVE  InstallInv'
<1>1. /\ cmd \in CmdType /\ settled \subseteq bps /\ local \in [Codes -> SUBSET Kinds]
      /\ \A x : [cmd EXCEPT !.phase = x].phase = x /\ [cmd EXCEPT !.phase = x].loc = cmd.loc
    BY OldParts DEF EventTypes, CmdType
<1>2. /\ cmd.phase = "added" => cmd.loc \notin settled
      /\ settled # {} \/ (cmd.phase \in {"trace", "restart"} /\ cmd.loc \in bps) => tracking
    BY DEF InstallInv
<1>3. ASSUME NEW loc \in BreakLocations, AddBreakpoint(loc) PROVE InstallInv'
  <2>1. /\ loc \notin bps /\ cmd' = [phase |-> "added", loc |-> loc]
        /\ UNCHANGED <<stack, pc, event, seen, local, disabled, late, tracking, settled>>
    BY <1>3 DEF AddBreakpoint, program, monitors
  <2>2. cmd'.phase = "added" /\ cmd'.loc = loc
    BY <2>1
  <2> QED
    BY <1>1, <1>2, <2>1, <2>2, InstallKept
<1>4. ASSUME NEW loc \in BreakLocations, RemoveBreakpoint(loc) PROVE InstallInv'
  <2>1. /\ cmd'.phase \in {"added", "removed"} /\ cmd'.loc = loc /\ settled' = settled \ {loc}
        /\ UNCHANGED <<stack, pc, event, seen, local, disabled, late, tracking>>
    BY <1>4 DEF RemoveBreakpoint, program, monitors
  <2> QED
    BY <1>1, <1>2, <2>1, InstallKept
<1>5. ASSUME BreakpointAdded PROVE InstallInv'
  <2>1. /\ cmd' = [cmd EXCEPT !.phase = "trace"] /\ ClearCaches
        /\ UNCHANGED <<stack, pc, event, seen, local, settled, bps>>
    BY <1>5 DEF BreakpointAdded, program
  <2>2. cmd'.phase = "trace" /\ RestartEvents /\ tracking' = (bps # {} \/ SuspendRequested)
    BY <1>1, <2>1, ClearCachesIs
  <2>3. tracking' \/ (settled' = {} /\ cmd'.loc \notin bps')
    BY <1>1, <2>1, <2>2
  <2> QED
    BY <1>1, <2>1, <2>2, <2>3, InstallKept
<1>6. ASSUME BreakpointRemoved PROVE InstallInv'
  <2>1. /\ cmd' = [phase |-> "idle", loc |-> NoLocation]
        /\ ClearCaches \/ UNCHANGED <<tracking, disabled, late, foreign>>
        /\ UNCHANGED <<stack, pc, event, seen, local, settled, bps>>
    BY <1>6 DEF BreakpointRemoved, program
  <2>2. cmd'.phase = "idle" /\ (UNCHANGED <<disabled, late>> \/ RestartEvents)
    BY <2>1, ClearCachesIs
  <2>3. tracking' \/ settled' = {}
    BY <1>1, <1>2, <2>1, ClearCachesIs
  <2> QED
    BY <1>1, <2>1, <2>2, <2>3, InstallKept
<1>7. ASSUME ClearFilters PROVE InstallInv'
  <2>1. /\ ClearCaches /\ cmd.phase = "idle"
        /\ UNCHANGED <<stack, pc, event, seen, local, settled, bps, cmd>>
    BY <1>7 DEF ClearFilters, program
  <2>2. RestartEvents /\ (tracking' \/ settled' = {})
    BY <1>1, <2>1, ClearCachesIs
  <2> QED
    BY <1>1, <2>1, <2>2, InstallKept
<1>8. ASSUME NEW t \in Threads, Pause(t) PROVE InstallInv'
  <2>1. /\ local' \in [Codes -> SUBSET Kinds] /\ (\A c \in Codes : local[c] \subseteq local'[c])
        /\ cmd' = [phase |-> "restart", loc |-> NoLocation] /\ tracking' = TRUE
        /\ UNCHANGED <<stack, pc, event, seen, disabled, late, settled, bps>>
    BY <1>8, PauseFacts
  <2>2. cmd'.phase = "restart" /\ cmd'.loc = NoLocation
    BY <2>1
  <2> QED
    BY <2>1, <2>2, InstallKept
<1>9. ASSUME NEW S, Continue(S) PROVE InstallInv'
  <2>1. UNCHANGED <<stack, pc, event, seen, local, disabled, late, tracking, settled, bps, cmd>>
    BY <1>9 DEF Continue, program, monitors
  <2> QED
    BY <1>1, <1>2, <2>1, InstallKept
\* the frames that exist get the events of the breakpoint
<1>10. ASSUME TraceExistingFrames PROVE InstallInv'
  <2>1. /\ local' \in [Codes -> SUBSET Kinds] /\ (\A c \in Codes : local[c] \subseteq local'[c])
        /\ \A u \in Threads : \A d \in 1 .. Depth(u) : ~AlwaysSkipCode(stack[u][d].code) =>
               CodeTracing(info[u], stack[u][d].code, d, FuncCodeInfo(stack[u][d].code))
                   \subseteq local'[stack[u][d].code]
        /\ cmd.phase = "trace" /\ cmd' = [cmd EXCEPT !.phase = "restart"]
        /\ UNCHANGED <<stack, pc, event, seen, disabled, late, settled, tracking, bps>>
    BY <1>10, TraceExistingFacts
  <2>2. cmd'.phase = "restart" /\ cmd'.loc = cmd.loc
    BY <1>1, <2>1
  <2>3. \A u \in Threads : Unmoved(u)
    BY <2>1 DEF Unmoved, Depth
  <2>4. ASSUME NEW c \in Codes, ~AlwaysFilteredOut(c), NEW l \in Lines1, Known(c, l)'
        PROVE  LinesOn(c, l)'
    <3>1. CASE <<c, l>> \in settled
      <4>1. LinesOn(c, l)
        BY <2>4, <3>1 DEF InstallInv, Known
      <4>2. Unentered(c, l) => Unentered(c, l)'
        BY <2>1, <2>3, NotInKept DEF Unentered
      <4> QED
        BY <2>1, <4>1, <4>2 DEF LinesOn
    <3>2. CASE <<c, l>> \notin settled
      <4>1. <<c, l>> \in bps /\ l \in FuncCodeInfo(c) /\ ~AlwaysSkipCode(c)
        BY <2>1, <2>2, <2>4, <3>2, InfoLines, Line1 DEF Known
      <4>2. ASSUME NEW u \in Threads, NEW d \in 1 .. Depth(u), stack[u][d].code = c
            PROVE  "LINE" \in local'[c]
        BY <2>1, <4>1, <4>2, LineTraced
      <4>3. ASSUME "LINE" \notin local'[c], NEW u \in Threads PROVE NotIn(u, c, l)'
        <5>1. \A d \in 1 .. Depth(u) : stack[u][d].code # c
          BY <4>2, <4>3
        <5>2. pc[u] = "decide" => Depth(u) \in 1 .. Depth(u)
          BY ThreadFacts
        <5>3. NotIn(u, c, l)
          BY <5>1, <5>2 DEF NotIn, Top
        <5> QED
          BY <2>3, <5>3, NotInKept
      <4> QED
        BY <2>1, <3>2, <4>3 DEF LinesOn, Unentered
    <3> QED
      BY <3>1, <3>2
  <2>5. settled' # {} \/ (cmd'.phase \in {"trace", "restart"} /\ cmd'.loc \in bps') => tracking'
    BY <1>2, <2>1, <2>2
  <2>6. cmd'.phase # "added"
    BY <2>2
  <2> QED
    BY <2>4, <2>5, <2>6 DEF InstallInv, Lines1, AlwaysFilteredOut
\* and from now on the breakpoint is there
<1>11. ASSUME RestartAfterCommand PROVE InstallInv'
  <2>1. /\ RestartEvents /\ settled' = settled \cup ({cmd.loc} \cap bps)
        /\ cmd' = [phase |-> "idle", loc |-> NoLocation] /\ cmd.phase = "restart"
        /\ UNCHANGED <<stack, pc, event, seen, bps, local, tracking>>
    BY <1>11 DEF RestartAfterCommand, program
  <2>2. cmd'.phase = "idle"
    BY <2>1
  <2>3. \A u \in Threads : Unmoved(u)
    BY <2>1 DEF Unmoved, Depth
  <2>4. ASSUME NEW c \in Codes, ~AlwaysFilteredOut(c), NEW l \in Lines1, Known(c, l)'
        PROVE  LinesOn(c, l)'
    <3>1. Known(c, l) /\ LinesOn(c, l)
      BY <2>1, <2>2, <2>4 DEF Known, InstallInv
    <3>2. Unentered(c, l) => Unentered(c, l)'
      BY <2>1, <2>3, NotInKept DEF Unentered, RestartEvents
    <3> QED
      BY <2>1, <3>1, <3>2 DEF LinesOn, RestartEvents
  <2>5. settled' # {} => tracking'
    BY <1>2, <2>1
  <2> QED
    BY <2>2, <2>4, <2>5 DEF InstallInv, Lines1, AlwaysFilteredOut
<1> QED
    BY <1>3, <1>4, <1>5, <1>6, <1>7, <1>8, <1>9, <1>10, <1>11 DEF Command

\* A command takes a breakpoint from a line only where it removes the breakpoint.
LEMMA BreakCommand ==
    ASSUME TypeInv, Command, NEW u \in Threads, BreakOf(u)
    PROVE  BreakOf(u)'
<1>1. DOMAIN marks = Threads /\ stack \in [Threads -> Seq(FrameType)]
    BY OldParts DEF MapTypes, StackTypes
<1>2. ASSUME UNCHANGED <<stack, pc, event, seen>>,
             "breakpoint" \in marks'[u] => "breakpoint" \in marks[u],
             settled \subseteq settled' \/ \E loc \in settled : 
                 settled' = settled \ {loc} /\ (IsAt(u, loc) => "breakpoint" \notin marks'[u])
      PROVE  BreakOf(u)'
  <2>1. Top(u)' = Top(u) /\ Depth(u)' = Depth(u)
    BY <1>2 DEF Top, Depth
  <2>2. pc[u] # "run" => Depth(u) > 0
    BY ThreadFacts
  <2> QED
    BY <1>2, <2>1, <2>2 DEF BreakOf, InCallback, IsAt, AlwaysFilteredOut
<1>3. ASSUME NEW loc \in BreakLocations, AddBreakpoint(loc) PROVE BreakOf(u)'
  <2>1. /\ marks' = [t \in Threads |-> IF IsAt(t, loc) THEN marks[t] \cup {"armed"} ELSE marks[t]]
        /\ UNCHANGED <<stack, pc, event, seen, settled>>
    BY <1>3 DEF AddBreakpoint, program
  <2> QED
    BY <1>2, <2>1
<1>4. ASSUME NEW loc \in BreakLocations, RemoveBreakpoint(loc) PROVE BreakOf(u)'
  <2>1. /\ marks' = [t \in Threads |-> IF IsAt(t, loc)
                                       THEN marks[t] \ {"breakpoint", "late", "blind"} ELSE marks[t]]
        /\ settled' = settled \ {loc} /\ UNCHANGED <<stack, pc, event, seen>>
    BY <1>4 DEF RemoveBreakpoint, program
  <2>2. CASE loc \in settled
    BY <1>2, <2>1, <2>2
  <2>3. CASE loc \notin settled
    BY <1>2, <2>1, <2>3
  <2> QED
    BY <2>2, <2>3
<1>5. ASSUME NEW S, Continue(S) PROVE BreakOf(u)'
  <2>1. /\ marks' = [t \in Threads |->
               IF t \in S THEN marks[t] \ {"pause", "step", "paused step", "exit", "other"}
                          ELSE marks[t]]
        /\ UNCHANGED <<stack, pc, event, seen, settled>>
    BY <1>5 DEF Continue, Released, program
  <2> QED
    BY <1>2, <2>1
<1>6. ASSUME BreakpointAdded \/ TraceExistingFrames \/ RestartAfterCommand \/ BreakpointRemoved
             \/ ClearFilters \/ \E t \in Threads : Pause(t)
      PROVE  BreakOf(u)'
  <2>1. UNCHANGED <<stack, pc, event, seen, marks>> /\ settled \subseteq settled'
    BY <1>6 DEF BreakpointAdded, TraceExistingFrames, RestartAfterCommand, BreakpointRemoved,
       ClearFilters, Pause, program, history
  <2> QED
    BY <1>2, <2>1
<1> QED
    BY <1>3, <1>4, <1>5, <1>6 DEF Command

LEMMA BreakAlways == Spec => []BreakInv
<1>1. Init => BreakInv
  <2> SUFFICES ASSUME Init PROVE BreakInv
    OBVIOUS
  <2>1. CacheInv /\ InstallInv /\ \A t \in Threads : BreakOf(t)
    BY DEF Init, CacheInv, InstallInv, Known, BreakOf, InCallback
  <2> QED
    BY <2>1, InitTypes DEF BreakInv
<1>2. BreakInv /\ [Next]_vars => BreakInv'
  <2> SUFFICES ASSUME BreakInv, [Next]_vars PROVE BreakInv'
    OBVIOUS
  <2> DEFINE Kept == CacheInv' /\ InstallInv' /\ \A u \in Threads : BreakOf(u)'
  <2>1. TypeInv /\ CacheInv /\ InstallInv /\ (\A u \in Threads : BreakOf(u)) /\ TypeInv'
    BY TypeStep DEF BreakInv
  <2>2. ASSUME NEW t \in Threads, Program(t) PROVE Kept
    <3>1. Effects(t) /\ Installs(t)
      BY <2>1, <2>2, ProgramEffects, InstallProgram
    <3>2. \A u \in Threads : BreakOf(u)'
      BY <2>1, <2>2, <3>1, BreakProgram, BreakOthers
    <3> QED
      BY <2>1, <3>1, <3>2, CacheThread, InstallThread
  <2>3. ASSUME NEW t \in Threads, Callback(t) PROVE Kept
    <3>1. Effects(t)
      BY <2>1, <2>3, CallbackEffects, FetchEffects DEF Ends
    <3>2. Installs(t)
      BY <2>1, <2>3, CallbackEffects, InstallFetch, InstallEnds
    <3>3. \A u \in Threads : BreakOf(u)'
      BY <2>1, <2>3, <3>1, BreakCallback, BreakOthers
    <3> QED
      BY <2>1, <3>1, <3>2, <3>3, CacheThread, InstallThread
  <2>4. ASSUME Command PROVE Kept
    BY <2>1, <2>4, CacheCommand, InstallCommand, BreakCommand
  <2>5. ASSUME UNCHANGED vars PROVE Kept
    <3>1. /\ UNCHANGED <<stack, pc, event, seen, bps, cache, fresh, local, disabled, tracking, cmd,
                         settled, late, marks>>
          /\ \A u \in Threads : Unmoved(u)
      BY <2>5 DEF vars, program, monitors, history, Unmoved, Depth
    <3>2. CacheInv'
      BY <2>1, <3>1 DEF CacheInv, AlwaysFilteredOut
    <3>3. InstallInv'
      <4>1. ASSUME NEW c \in Codes, NEW l \in Lines1, LinesOn(c, l) PROVE LinesOn(c, l)'
        BY <2>1, <3>1, <4>1, NotInKept DEF LinesOn, Unentered
      <4> QED
        BY <2>1, <3>1, <4>1 DEF InstallInv, Known, Lines1, AlwaysFilteredOut
    <3>4. \A u \in Threads : BreakOf(u)'
      BY <2>1, <3>1, UnmovedTop DEF BreakOf, AlwaysFilteredOut
    <3> QED
      BY <3>2, <3>3, <3>4
  <2> QED
    BY <2>1, <2>2, <2>3, <2>4, <2>5 DEF Next, BreakInv
<1> QED
    BY <1>1, <1>2, PTL DEF Spec

\* A thread that comes to a line with a breakpoint whose installation is complete does
\* not leave the line without stopping.
THEOREM BreakpointsStop == Spec => []BreakpointsHit
<1>1. BreakInv => BreakpointsHit
    BY DEF BreakInv, BreakOf, InCallback, BreakpointsHit, Overrun
<1> QED
    BY <1>1, BreakAlways, PTL

-----------------------------------------------------------------------------
(***************************************************************************)
(* Steps and pauses: while a thread has to stop, the callbacks are         *)
(* registered, the frames it can stop in have their events, and what is    *)
(* disabled was disabled by a callback of a thread that went on.  The      *)
(* frame that a step waits for is there until the step has ended, or the   *)
(* step has become a step into.                                            *)
(***************************************************************************)
DisabledInv ==
    /\ \A t \in Threads : info[t].state = "suspend" => info[t].step # None
    /\ ~RestartPending /\ (\E t \in Threads : info[t].step # None) =>
           \A loc \in disabled : loc \in foreign \/ AlwaysFilteredOut(loc[1])

\* t has to stop, and pydevd can know
Watched(t) ==
    pc[t] \in Running /\ info[t].step # None /\ (info[t].state = "suspend" \/ ~promise[t].lost)
Traced(t, d) ==
    LET f == stack[t][d] IN
    Starting(t, d) \/ f.blind \/ f.skipped \/ AlwaysFilteredOut(f.code) \/ "LINE" \in local[f.code]
WatchOf(t) ==
    Watched(t) =>
        /\ tracking
        /\ info[t].step \in Into \cup {"smart"} => \A d \in 1 .. Depth(t) : Traced(t, d)

\* the frame that the step of t waits for is there, with its events
Waits(t) ==
    LET base == promise[t].base IN
    /\ info[t].step = promise[t].step /\ info[t].stop = base /\ base \in 1 .. Depth(t)
    /\ "RETURN" \in local[stack[t][base].code]
    /\ promise[t].step \in Over => "LINE" \in local[stack[t][base].code]
\* t is in the program, with a step to end
Promised(t) ==
    pc[t] \in Running /\ info[t].state = "run" /\ promise[t].step # None /\ ~promise[t].lost
PromiseType == [step : Steps \cup {None}, base : Nat, lost : BOOLEAN]
PromiseOf(t) ==
    /\ promise[t] \in PromiseType
    /\ Promised(t) =>
           \/ promise[t].step \in Into /\ info[t].step = promise[t].step
           \/ promise[t].step = "over" /\ info[t].step = "into"
           \/ promise[t].step = "over_my" /\ info[t].step = "into_my"
           \/ promise[t].step \notin Into /\ Waits(t)

\* a thread at a line where it has to stop is in the callback that will stop it
StopMarkOf(t) ==
    /\ marks[t] \cap {"pause", "step"} # {} =>
           pc[t] \in InCallback /\ event[t] = "line" /\ ~AlwaysFilteredOut(Top(t).code)
    /\ "pause" \in marks[t] => info[t].state = "suspend"
    /\ "step" \in marks[t] =>
           \/ info[t].state = "suspend"
           \/ IntoEndsAtLine(t) \/ OverEndsAtLine(t) \/ SmartEndsAtLine(t)

StopOf(t) == WatchOf(t) /\ PromiseOf(t) /\ StopMarkOf(t)
StopInv == TypeInv /\ DisabledInv /\ \A t \in Threads : StopOf(t)

\* what the changes of a step state do
LEMMA StepStates ==
    ASSUME NEW i \in Infos
    PROVE  /\ i.state \in {"run", "suspend"} /\ i.step \in Steps \cup {None}
           /\ MarkThreadSuspended(i).step # None /\ MarkThreadSuspended(i).state = "suspend"
           /\ RunThread(i).step = None /\ RunThread(i).state = "run"
           /\ \A step, x : StepInThread(i, step, x).state = "run"
           /\ \A d : /\ ForgetFrame(i, d).step = i.step /\ ForgetFrame(i, d).state = i.state
                     /\ i.stop # d => ForgetFrame(i, d).stop = i.stop
           /\ [i EXCEPT !.wait = TRUE, !.initial = NoLocation].step = i.step
           /\ [i EXCEPT !.wait = TRUE, !.initial = NoLocation].state = i.state
BY DEF Infos, InfoType, MarkThreadSuspended, RunThread, StepInThread, ForgetFrame, None, Steps, Into

\* How a callback ends.
Goes(t) ==
    /\ pc[t] = "decide" /\ BackToProgram(t) /\ UNCHANGED <<stack, info, tracking, cmd, promise>>
    /\ event[t] = "start" /\ ~AlwaysSkipCode(Top(t).code) =>
           CodeTracing(info[t], Top(t).code, Depth(t), seen[t]) \subseteq local'[Top(t).code]
LeavesLast(t) ==
    /\ pc[t] = "decide" /\ event[t] = "return" /\ BackToProgram(t)
    /\ Pop(t, [info EXCEPT ![t] = RunThread(info[t])])
    /\ promise' = [promise EXCEPT ![t] = NoPromise]
    /\ UNCHANGED <<cmd, disabled, local, tracking, foreign>>
LEMMA CallbackCases ==
    ASSUME TypeInv, NEW t \in Threads, Callback(t)
    PROVE  \/ Fetch(t) \/ Goes(t)
           \/ \E d \in Nat, events \in [Codes -> SUBSET Kinds] : SetSuspend(t, d, events)
           \/ LeavesLast(t)
           \/ pc[t] = "decide" /\ event[t] = "return" /\ (ReturnOfStepFrame(t) \/ ReturnOfOther(t))
           \/ (pc[t] = "decide" /\ WaitSuspended(t)) \/ RestartAfterSuspend(t) \/ EnterWait(t)
           \/ LeaveWait(t)
           \/ \E step \in Steps, target \in (Codes \X Lines0) \cup {NoLocation} :
                  StepRequest(t, step, target)
<1>2. /\ local \in [Codes -> SUBSET Kinds] /\ Depth(t) \in Nat
      /\ Depth(t) > 1 => Depth(t) - 1 \in Nat
    BY ThreadFacts, OldParts DEF EventTypes
<1>3. ASSUME StartMethodEvent(t)
      PROVE  Goes(t) \/ \E d \in Nat, events \in [Codes -> SUBSET Kinds] : SetSuspend(t, d, events)
  <2>1. /\ pc[t] = "decide" /\ event[t] = "start" /\ StartEvents(t) \in [Codes -> SUBSET Kinds]
        /\ StartEvents(t)[Top(t).code] =
               local[Top(t).code] \cup CodeTracing(info[t], Top(t).code, Depth(t), seen[t])
    BY <1>3, StartEventsFacts DEF StartMethodEvent
  <2>2. CASE StartSkipped(t)
    BY <2>1, <2>2 DEF StartSkipped, Disable, Goes
  <2>3. ASSUME local' = StartEvents(t), Proceed(t) \/ Disable(t, <<Top(t).code, 0>>)
        PROVE  Goes(t)
    <3>1. /\ BackToProgram(t) /\ UNCHANGED <<stack, info, tracking, cmd, promise>>
      BY <2>3 DEF Proceed, Disable, history
    <3>2. CodeTracing(info[t], Top(t).code, Depth(t), seen[t]) \subseteq local'[Top(t).code]
      BY <2>1, <2>3
    <3> QED
      BY <2>1, <3>1, <3>2 DEF Goes
  <2>4. CASE StartAtFunctionBreakpoint(t)
    BY <1>2, <2>1, <2>3, <2>4 DEF StartAtFunctionBreakpoint, StopOnBreakpoint
  <2> QED
    BY <1>3, <2>2, <2>3, <2>4 DEF StartMethodEvent, StartTraced, StartNotTraced
<1>4. ASSUME LineEvent(t)
      PROVE  \/ Goes(t) \/ (pc[t] = "decide" /\ WaitSuspended(t))
             \/ \E d \in Nat, events \in [Codes -> SUBSET Kinds] : SetSuspend(t, d, events)
  <2>1. ASSUME Proceed(t) \/ \E loc : Disable(t, loc) PROVE Goes(t)
    BY <1>4, <2>1 DEF LineEvent, Proceed, Disable, Goes, history
  <2>2. CASE LineWithBreakpoint(t)
    BY <1>2, <2>2 DEF LineWithBreakpoint, StopOnBreakpoint
  <2>3. ASSUME StopForStep(t, Depth(t))
        PROVE  \E d \in Nat, events \in [Codes -> SUBSET Kinds] : SetSuspend(t, d, events)
    BY <1>2, <2>3 DEF StopForStep
  <2> QED
    BY <1>4, <2>1, <2>2, <2>3 DEF LineEvent, LineFilteredOut, LinePaused, LineNotStepping, LineStepping
<1>5. ASSUME ReturnEvent(t)
      PROVE  \/ (pc[t] = "decide" /\ WaitSuspended(t)) \/ LeavesLast(t)
             \/ pc[t] = "decide" /\ event[t] = "return" /\ (ReturnOfStepFrame(t) \/ ReturnOfOther(t))
             \/ \E d \in Nat, events \in [Codes -> SUBSET Kinds] : SetSuspend(t, d, events)
  <2>1. pc[t] = "decide" /\ event[t] = "return"
    BY <1>5 DEF ReturnEvent
  <2>2. CASE ReturnEndsStep(t) /\ Depth(t) > 1
    <3>1. SetSuspend(t, Depth(t) - 1, local) /\ Depth(t) - 1 \in Nat
      BY <1>2, <2>2 DEF ReturnEndsStep, StopOnReturn, StopForStep
    <3> QED
      BY <1>2, <3>1
  <2>3. CASE ReturnEndsStep(t) /\ ~(Depth(t) > 1)
    BY <2>1, <2>3 DEF ReturnEndsStep, StopOnReturn, LeavesLast, monitors
  <2> QED
    BY <1>5, <2>1, <2>2, <2>3 DEF ReturnEvent, ReturnPaused
<1> QED
    BY <1>3, <1>4, <1>5, RequestsAre

-----------------------------------------------------------------------------
(* What is disabled *)

HasSteps == \E t \in Threads : info[t].step # None

LEMMA DisabledStep ==
    ASSUME TypeInv, DisabledInv,
           \A u \in Threads : info'[u].state = "suspend" => info'[u].step # None,
           \/ disabled' = {}
           \/ RestartPending'
           \/ /\ RestartPending => RestartPending'
              /\ HasSteps' =>
                     /\ HasSteps /\ foreign \subseteq foreign'
                     /\ \A loc \in disabled' :
                            loc \in disabled \/ loc \in foreign' \/ AlwaysFilteredOut(loc[1])
    PROVE  DisabledInv'
BY DEF DisabledInv, HasSteps, AlwaysFilteredOut

\* steps that leave what is disabled as it is, and give no thread a step
LEMMA DisabledKept ==
    ASSUME TypeInv, DisabledInv, UNCHANGED <<disabled, foreign>>,
           RestartPending => RestartPending',
           \A u \in Threads : info'[u].state = "suspend" => info'[u].step # None,
           HasSteps' => HasSteps
    PROVE  DisabledInv'
BY DisabledStep

\* a thread that gets to be in the program, or in a callback, again
LEMMA PendingKept ==
    ASSUME TypeInv, NEW t \in Threads, pc[t] # "restart", cmd' = cmd,
           pc' = pc \/ \E x : pc' = [pc EXCEPT ![t] = x]
    PROVE  RestartPending => RestartPending'
<1>1. \A u \in Threads : u # t => pc'[u] = pc[u]
    BY OldParts DEF ThreadTypes
<1> QED
    BY <1>1 DEF RestartPending

\* one thread's step state changes, with the step as it was, or gone
LEMMA OneInfo ==
    ASSUME TypeInv, DisabledInv, NEW t \in Threads, NEW i, info' = [info EXCEPT ![t] = i],
           i.step # None => info[t].step # None, i.state = "suspend" => i.step # None
    PROVE  /\ \A u \in Threads : info'[u].state = "suspend" => info'[u].step # None
           /\ HasSteps' => HasSteps
<1>1. info'[t] = i /\ \A u \in Threads : u # t => info'[u] = info[u]
    BY OldParts
<1> QED
    BY <1>1 DEF DisabledInv, HasSteps

LEMMA DisabledProgram ==
    ASSUME TypeInv, DisabledInv, NEW t \in Threads, Program(t)
    PROVE  DisabledInv'
<1>1. /\ pc[t] = "run" /\ UNCHANGED <<disabled, foreign, cmd>>
      /\ UNCHANGED <<pc, event>> \/ \E ev : Fire(t, ev)
      /\ info' = info \/ (Depth(t) > 0 /\ Pop(t, info))
    BY DEF Program, Call, Advance, Return_, Unwind, PopUnnoticed, monitors
<1>2. RestartPending => RestartPending'
    BY <1>1, PendingKept DEF Fire
<1>3. /\ \A u \in Threads : info'[u].state = "suspend" => info'[u].step # None
      /\ HasSteps' => HasSteps
  <2>1. CASE info' = info
    BY <2>1 DEF DisabledInv, HasSteps
  <2>2. CASE Depth(t) > 0 /\ Pop(t, info)
    <3>1. info' = [info EXCEPT ![t] = ForgetFrame(info[t], Depth(t))]
      BY <2>2, PopFacts, OldParts
    <3>2. /\ ForgetFrame(info[t], Depth(t)).step = info[t].step
          /\ ForgetFrame(info[t], Depth(t)).state = info[t].state
      BY StepStates, ThreadFacts
    <3> QED
      BY <3>1, <3>2, OneInfo DEF DisabledInv
  <2> QED
    BY <1>1, <2>1, <2>2
<1> QED
    BY <1>1, <1>2, <1>3, DisabledKept

\* What a callback disables while a thread has to stop is remembered as foreign.
LEMMA DisabledGoes ==
    ASSUME TypeInv, DisabledInv, NEW t \in Threads, Callback(t), info' = info,
           RestartPending => RestartPending'
    PROVE  DisabledInv'
<1>1. \A u \in Threads : info'[u].state = "suspend" => info'[u].step # None
    BY DEF DisabledInv
<1>2. HasSteps' => HasSteps /\ SuspendRequested
    BY DEF HasSteps, SuspendRequested
<1>3. CASE UNCHANGED <<disabled, late, foreign>>
    BY <1>1, <1>2, <1>3, DisabledKept
<1>4. CASE RestartEvents
    BY <1>1, <1>4, DisabledStep DEF RestartEvents
<1>5. ASSUME NEW loc, Disable(t, loc) PROVE DisabledInv'
  <2>1. /\ disabled' = disabled \cup {loc}
        /\ foreign' = IF SuspendRequested /\ ~AlwaysFilteredOut(loc[1])
                      THEN foreign \cup {loc} ELSE foreign
    BY <1>5 DEF Disable
  <2>2. foreign \subseteq foreign'
    BY <2>1
  <2>3. SuspendRequested => \A x \in disabled' :
            x \in disabled \/ x \in foreign' \/ AlwaysFilteredOut(x[1])
    BY <2>1
  <2> QED
    BY <1>1, <1>2, <2>2, <2>3, DisabledStep
<1> QED
    BY <1>3, <1>4, <1>5, DisabledBy

\* The step that a thread is resumed with is the one that was asked for, or none.
LEMMA ResumedStep ==
    ASSUME TypeInv, NEW t \in Threads, pc[t] = "wait", info[t].state = "run"
    PROVE  /\ Resumed(t).step \in {info[t].step, None}
           /\ Resumed(t).step \notin Into \cup {None} => Resumed(t).stop \in 1 .. at[t]
           /\ Resumed(t).step \in Over \cup {"smart"} => Resumed(t).stop = at[t]
<1> DEFINE i == [info[t] EXCEPT !.wait = FALSE]
           back == StepReturnFrame(stack[t], at[t], i.step)
           line == stack[t][at[t]].line
<1>1. at[t] \in Nat \ {0} /\ info[t] \in Infos
    BY ResumedFacts, ThreadFacts
<1>2. i \in Infos /\ i.step = info[t].step
    BY <1>1 DEF Infos, InfoType
<1>3. back \in 0 .. at[t]
    BY <1>1, StepReturnFrameType
<1>4. Resumed(t) =
          CASE i.step \in Into -> [i EXCEPT !.initial = <<at[t], line>>, !.stop = 0]
            [] i.step \in Over \cup {"smart"} -> [i EXCEPT !.stop = at[t]]
            [] i.step \in Return /\ back > 0 -> [i EXCEPT !.stop = back]
            [] i.step \in Return /\ back = 0 -> RunThread(i)
            [] OTHER -> i
    BY DEF Resumed, PrepareStep
<1>5. i.step \in Steps \cup {None}
    BY <1>2, StepStates
<1> HIDE DEF back, line, i
<1>6. CASE i.step \in Into
  <2>1. i.step \notin Over \cup {"smart"} /\ i.step \notin Return
    BY <1>6 DEF Into, Over, Return
  <2>2. Resumed(t) = [i EXCEPT !.initial = <<at[t], line>>, !.stop = 0]
    BY <1>4, <1>6, <2>1
  <2>3. Resumed(t).step = i.step
    BY <1>2, <2>2 DEF Infos, InfoType
  <2> QED
    BY <1>2, <1>6, <2>1, <2>3
<1>7. CASE i.step \in Over \cup {"smart"}
  <2>1. i.step \notin Into /\ i.step \notin Return
    BY <1>7 DEF Into, Over, Return
  <2>2. Resumed(t) = [i EXCEPT !.stop = at[t]]
    BY <1>4, <1>7, <2>1
  <2>3. Resumed(t).step = i.step /\ Resumed(t).stop = at[t]
    BY <1>2, <2>2 DEF Infos, InfoType
  <2> QED
    BY <1>1, <1>2, <2>3
<1>8. CASE i.step \in Return /\ back > 0
  <2>1. i.step \notin Into /\ i.step \notin Over \cup {"smart"}
    BY <1>8 DEF Into, Over, Return
  <2>2. Resumed(t) = [i EXCEPT !.stop = back]
    BY <1>3, <1>4, <1>8, <2>1
  <2>3. Resumed(t).step = i.step /\ Resumed(t).stop = back
    BY <1>2, <2>2 DEF Infos, InfoType
  <2> QED
    BY <1>1, <1>2, <1>3, <1>8, <2>1, <2>3
<1>9. CASE i.step \in Return /\ back = 0
  <2>1. i.step \notin Into /\ i.step \notin Over \cup {"smart"}
    BY <1>9 DEF Into, Over, Return
  <2>2. Resumed(t) = RunThread(i)
    BY <1>3, <1>4, <1>9, <2>1
  <2>3. Resumed(t).step = None
    BY <1>2, <2>2, StepStates
  <2> QED
    BY <2>3, StepKinds DEF Into, Over, Return, None
<1>10. CASE i.step = None
  <2>1. i.step \notin Into /\ i.step \notin Over \cup {"smart"} /\ i.step \notin Return
    BY <1>10 DEF Into, Over, Return, None
  <2>2. Resumed(t) = i
    BY <1>4, <2>1
  <2> QED
    BY <1>2, <1>10, <2>1, <2>2
<1>11. back > 0 \/ back = 0
    BY <1>3
<1> QED
    BY <1>5, <1>6, <1>7, <1>8, <1>9, <1>10, <1>11, StepKinds

LEMMA DisabledCallback ==
    ASSUME TypeInv, DisabledInv, NEW t \in Threads, Callback(t)
    PROVE  DisabledInv'
<1>1. /\ info \in [Threads -> Infos] /\ Depth(t) \in Nat
      /\ info[t].state = "suspend" => info[t].step # None
      /\ pc[t] # "run" => Depth(t) > 0
    BY ThreadFacts DEF DisabledInv, TypeInv, DebuggerTypes
<1>2. CASE Fetch(t)
  <2>1. pc[t] # "restart" /\ cmd' = cmd /\ (\E x : pc' = [pc EXCEPT ![t] = x]) /\ info' = info
    BY <1>2 DEF Fetch
  <2> QED
    BY <2>1, PendingKept, DisabledGoes
<1>3. CASE Goes(t) \/ (pc[t] = "decide" /\ WaitSuspended(t))
  <2>1. pc[t] # "restart" /\ cmd' = cmd /\ (\E x : pc' = [pc EXCEPT ![t] = x]) /\ info' = info
    BY <1>3 DEF Goes, BackToProgram, WaitSuspended
  <2> QED
    BY <2>1, PendingKept, DisabledGoes
<1>4. ASSUME NEW d \in Nat, NEW events \in [Codes -> SUBSET Kinds], SetSuspend(t, d, events)
      PROVE  DisabledInv'
  <2>1. info' = Suspended(Suspending(t)) /\ pc' = [pc EXCEPT ![t] = "restart"]
    BY <1>4, SetSuspendFacts
  <2>2. \A u \in Threads : info'[u].state = "suspend" => info'[u].step # None
    BY <1>1, <2>1, StepStates DEF Suspended, DisabledInv
  <2>3. RestartPending'
    BY <2>1, OldParts DEF RestartPending, ThreadTypes
  <2> QED
    BY <2>2, <2>3, DisabledStep
\* the frame of t is left
<1>5. ASSUME pc[t] = "decide", BackToProgram(t), UNCHANGED <<disabled, foreign, cmd>>,
             NEW infos \in [Threads -> Infos], Pop(t, infos),
             \A u \in Threads : u # t => infos[u] = info[u],
             infos[t].step # None => info[t].step # None,
             infos[t].state = "suspend" => infos[t].step # None
      PROVE  DisabledInv'
  <2>1. info' = [infos EXCEPT ![t] = ForgetFrame(infos[t], Depth(t))]
    BY <1>1, <1>5, PopFacts
  <2>2. info' = [info EXCEPT ![t] = ForgetFrame(infos[t], Depth(t))]
    BY <1>1, <1>5, <2>1
  <2>3. /\ ForgetFrame(infos[t], Depth(t)).step = infos[t].step
        /\ ForgetFrame(infos[t], Depth(t)).state = infos[t].state
    BY <1>5, StepStates
  <2>4. /\ \A u \in Threads : info'[u].state = "suspend" => info'[u].step # None
        /\ HasSteps' => HasSteps
    BY <1>5, <2>2, <2>3, OneInfo
  <2> QED
    BY <1>5, <2>4, PendingKept, DisabledKept DEF BackToProgram
<1>6. CASE LeavesLast(t)
  <2> DEFINE infos == [info EXCEPT ![t] = RunThread(info[t])]
  <2>1. /\ RunThread(info[t]) \in Infos
        /\ RunThread(info[t]).step = None /\ RunThread(info[t]).state = "run"
    BY <1>1, InfoChanges, StepStates
  <2>2. /\ infos \in [Threads -> Infos] /\ infos[t] = RunThread(info[t])
        /\ \A u \in Threads : u # t => infos[u] = info[u]
    BY <1>1, <2>1
  <2>3. pc[t] = "decide" /\ BackToProgram(t) /\ UNCHANGED <<disabled, foreign, cmd>> /\ Pop(t, infos)
    BY <1>6 DEF LeavesLast
  <2> HIDE DEF infos
  <2> QED
    BY <1>5, <2>1, <2>2, <2>3
<1>7. CASE pc[t] = "decide" /\ ReturnOfStepFrame(t)
  <2>1. /\ StepBecomesInto(t) /\ BackToProgram(t) /\ UNCHANGED <<cmd, foreign>>
        /\ info[t].step # None /\ info[t].state = "run"
    BY <1>7 DEF ReturnOfStepFrame, LeavesStepFrame, history, Over, None
  <2>2. Pop(t, AsInto(t)) /\ UNCHANGED disabled
    BY <1>7, <2>1, StepBecomesIntoFacts
  <2> QED
    BY <1>5, <1>7, <2>1, <2>2, AsIntoFacts
<1>8. CASE pc[t] = "decide" /\ ReturnOfOther(t)
  <2>1. /\ Pop(t, info) /\ BackToProgram(t) /\ UNCHANGED <<cmd, disabled, foreign>>
    BY <1>8 DEF ReturnOfOther, history, monitors
  <2> QED
    BY <1>1, <1>5, <1>8, <2>1
<1>9. CASE RestartAfterSuspend(t)
  <2>1. RestartEvents /\ info' = info
    BY <1>9 DEF RestartAfterSuspend
  <2> QED
    BY <2>1, DisabledStep DEF RestartEvents, DisabledInv
<1>10. CASE EnterWait(t)
  <2> DEFINE i == [info[t] EXCEPT !.wait = TRUE, !.initial = NoLocation]
  <2>1. /\ info' = [info EXCEPT ![t].wait = TRUE, ![t].initial = NoLocation]
        /\ pc[t] # "restart" /\ pc' = [pc EXCEPT ![t] = "wait"]
        /\ UNCHANGED <<disabled, foreign, cmd>>
    BY <1>10 DEF EnterWait, monitors
  <2>2. info' = [info EXCEPT ![t] = i]
    BY <1>1, <2>1
  <2>3. i.step = info[t].step /\ i.state = info[t].state
    BY <1>1, StepStates
  <2> HIDE DEF i
  <2>4. /\ \A u \in Threads : info'[u].state = "suspend" => info'[u].step # None
        /\ HasSteps' => HasSteps
    BY <1>1, <2>2, <2>3, OneInfo
  <2> QED
    BY <2>1, <2>4, PendingKept, DisabledKept
<1>11. CASE LeaveWait(t)
  <2>1. /\ pc[t] = "wait" /\ info[t].state = "run" /\ BackToProgram(t)
        /\ Pop(t, [info EXCEPT ![t] = Resumed(t)]) \/ info' = [info EXCEPT ![t] = Resumed(t)]
        /\ UNCHANGED <<disabled, cmd, foreign>>
    BY <1>11, LeaveWaitFacts
  <2>2. /\ Resumed(t) \in Infos /\ Resumed(t).state = "run"
        /\ Resumed(t).step # None => info[t].step # None
    BY <2>1, ResumedFacts, ResumedStep
  <2> DEFINE infos == [info EXCEPT ![t] = Resumed(t)]
  <2>3. infos \in [Threads -> Infos] /\ infos[t] = Resumed(t)
    BY <1>1, <2>2
  <2>4. \E i : /\ info' = [info EXCEPT ![t] = i] /\ i.step = Resumed(t).step /\ i.state = "run"
    <3>1. CASE Pop(t, infos)
      <4>1. info' = [infos EXCEPT ![t] = ForgetFrame(infos[t], Depth(t))]
        BY <1>1, <2>1, <2>3, <3>1, PopFacts
      <4>2. info' = [info EXCEPT ![t] = ForgetFrame(Resumed(t), Depth(t))]
        BY <1>1, <2>3, <4>1
      <4>3. /\ ForgetFrame(Resumed(t), Depth(t)).step = Resumed(t).step
            /\ ForgetFrame(Resumed(t), Depth(t)).state = Resumed(t).state
        BY <2>2, StepStates
      <4> QED
        BY <2>2, <4>2, <4>3
    <3>2. CASE info' = infos
      BY <2>2, <3>2
    <3> QED
      BY <2>1, <3>1, <3>2
  <2>5. /\ \A u \in Threads : info'[u].state = "suspend" => info'[u].step # None
        /\ HasSteps' => HasSteps
    BY <2>2, <2>4, OneInfo
  <2> QED
    BY <2>1, <2>5, PendingKept, DisabledKept DEF BackToProgram
<1>12. ASSUME NEW step \in Steps, NEW target \in (Codes \X Lines0) \cup {NoLocation},
              StepRequest(t, step, target)
       PROVE  DisabledInv'
  <2>1. /\ pc[t] = "wait" /\ info[t].state = "suspend" /\ UNCHANGED <<pc, cmd, disabled, foreign>>
        /\ info' = [u \in Threads |-> IF u = t THEN StepInThread(info[u], step, target)
                                               ELSE RunThread(info[u])]
    BY <1>12 DEF StepRequest, program, monitors
  <2>2. \A u \in Threads : info'[u].state = "run"
    BY <1>1, <2>1, StepStates
  <2>3. HasSteps
    BY <1>1, <2>1 DEF HasSteps
  <2> QED
    BY <2>1, <2>2, <2>3, PendingKept, DisabledKept
<1> QED
    BY <1>2, <1>3, <1>4, <1>6, <1>7, <1>8, <1>9, <1>10, <1>11, <1>12, CallbackCases

LEMMA DisabledCommand ==
    ASSUME TypeInv, DisabledInv, Command
    PROVE  DisabledInv'
<1>1. /\ info \in [Threads -> Infos] /\ UNCHANGED pc
      /\ \A x : [cmd EXCEPT !.phase = x].phase = x
  <2>1. UNCHANGED pc
    BY DEF Command, AddBreakpoint, RemoveBreakpoint, BreakpointAdded, TraceExistingFrames,
           RestartAfterCommand, BreakpointRemoved, ClearFilters, Pause, Continue, program
  <2> QED
    BY <2>1, OldParts DEF CmdType
<1>2. \A u \in Threads : info[u].state = "suspend" => info[u].step # None
    BY DEF DisabledInv
<1>3. ASSUME cmd.phase # "restart" PROVE RestartPending => RestartPending'
    BY <1>1, <1>3 DEF RestartPending
<1>4. ASSUME info' = info, RestartEvents PROVE DisabledInv'
    BY <1>2, <1>4, DisabledStep DEF RestartEvents
<1>5. ASSUME info' = info, UNCHANGED <<disabled, foreign>>, cmd.phase # "restart" PROVE DisabledInv'
    BY <1>2, <1>3, <1>5, DisabledKept DEF HasSteps
<1>6. CASE \E loc \in BreakLocations : AddBreakpoint(loc) \/ RemoveBreakpoint(loc)
    BY <1>5, <1>6 DEF AddBreakpoint, RemoveBreakpoint, monitors
<1>7. CASE BreakpointAdded \/ ClearFilters \/ RestartAfterCommand
    BY <1>4, <1>7, ClearCachesIs DEF BreakpointAdded, ClearFilters, RestartAfterCommand
<1>8. CASE BreakpointRemoved
    BY <1>4, <1>5, <1>8, ClearCachesIs DEF BreakpointRemoved
<1>9. CASE TraceExistingFrames
  <2>1. cmd' = [cmd EXCEPT !.phase = "restart"] /\ info' = info
    BY <1>9, TraceExistingFacts
  <2>2. RestartPending'
    BY <1>1, <2>1 DEF RestartPending
  <2> QED
    BY <1>2, <2>1, <2>2, DisabledStep
<1>10. ASSUME NEW t \in Threads, Pause(t) PROVE DisabledInv'
  <2>1. info' = Suspended(Suspending(t)) /\ cmd' = [phase |-> "restart", loc |-> NoLocation]
    BY <1>10, PauseFacts
  <2>2. \A u \in Threads : info'[u].state = "suspend" => info'[u].step # None
    BY <1>1, <1>2, <2>1, StepStates DEF Suspended
  <2>3. RestartPending'
    BY <2>1 DEF RestartPending
  <2> QED
    BY <2>2, <2>3, DisabledStep
<1>11. ASSUME NEW S, Continue(S) PROVE DisabledInv'
  <2>1. /\ cmd.phase = "idle" /\ UNCHANGED <<disabled, foreign>>
        /\ info' = [t \in Threads |-> IF t \in S THEN RunThread(info[t]) ELSE info[t]]
    BY <1>11 DEF Continue, monitors
  <2>2. \A u \in Threads : \/ info'[u] = info[u]
                           \/ info'[u].state = "run" /\ info'[u].step = None
    BY <1>1, <2>1, StepStates
  <2>3. HasSteps' => HasSteps
    BY <2>2 DEF HasSteps
  <2> QED
    BY <1>2, <1>3, <2>1, <2>2, <2>3, DisabledKept
<1> QED
    BY <1>6, <1>7, <1>8, <1>9, <1>10, <1>11 DEF Command

-----------------------------------------------------------------------------
(* The threads that do not act *)

LEMMA TracingHas ==
    ASSUME NEW i, NEW c, NEW d, NEW lines
    PROVE  /\ i.step \in Into \cup {"smart"} => Kinds \subseteq CodeTracing(i, c, d, lines)
           /\ i.step \in Over /\ i.stop = d => Kinds \subseteq CodeTracing(i, c, d, lines)
           /\ i.step \in Return /\ i.stop = d => "RETURN" \in CodeTracing(i, c, d, lines)
<1>1. i.step \in Into \cup {"smart"} => i.step \notin Return /\ i.step \notin Over
    BY DEF Into, Over, Return
<1>2. i.step \in Over => i.step \notin Return /\ i.step \notin Into \cup {"smart"}
    BY DEF Into, Over, Return
<1>3. i.step \in Return => i.step \notin Over /\ i.step \notin Into \cup {"smart"}
    BY DEF Into, Over, Return
<1> QED
    BY <1>1, <1>2, <1>3 DEF CodeTracing, StepTracing, Kinds

Same(u) == info'[u] = info[u] /\ promise'[u] = promise[u]
\* u is asked to stop, and its frames get the events for it
MadeToStop(u) ==
    /\ info'[u] = MarkThreadSuspended(info[u]) /\ promise'[u] = promise[u] /\ tracking'
    /\ \A d \in 1 .. Depth(u) : ~AlwaysSkipCode(stack[u][d].code) =>
           CodeTracing(info'[u], stack[u][d].code, d, FuncCodeInfo(stack[u][d].code))
               \subseteq local'[stack[u][d].code]
\* u no longer has to stop
LetGo(u) ==
    /\ info'[u] = RunThread(info[u]) /\ promise'[u] = NoPromise
    /\ marks'[u] \cap {"pause", "step"} = {}

LEMMA StopOthers ==
    ASSUME TypeInv, NEW u \in Threads, StopOf(u), Unmoved(u),
           \A c \in Codes : local[c] \subseteq local'[c],
           marks'[u] \cap {"pause", "step"} \subseteq marks[u],
           tracking /\ info[u].step # None => tracking',
           Same(u) \/ MadeToStop(u) \/ LetGo(u)
    PROVE  StopOf(u)'
<1>1. /\ Top(u)' = Top(u) /\ Depth(u)' = Depth(u) /\ stack'[u] = stack[u] /\ pc'[u] = pc[u]
      /\ event'[u] = event[u] /\ info[u] \in Infos
    BY UnmovedTop, ThreadFacts DEF Unmoved
<1>2. /\ pc[u] # "run" => Depth(u) > 0
      /\ \A d \in 1 .. Depth(u) : stack[u][d].code \in Codes
    BY ThreadFacts, CodeFacts
<1>3. CASE Same(u)
  <2>1. WatchOf(u)'
    <3>1. ASSUME NEW d \in 1 .. Depth(u), Traced(u, d) PROVE Traced(u, d)'
      BY <1>1, <1>2, <3>1 DEF Traced, Starting, AlwaysFilteredOut
    <3> QED
      BY <1>1, <1>3, <3>1 DEF StopOf, WatchOf, Watched, Same
  <2>2. PromiseOf(u)'
    <3>1. Waits(u) => Waits(u)'
      BY <1>1, <1>2, <1>3 DEF Waits, Same
    <3> QED
      BY <1>1, <1>3, <3>1 DEF StopOf, PromiseOf, Promised, Same
  <2>3. StopMarkOf(u)'
    BY <1>1, <1>3 DEF StopOf, StopMarkOf, Same, IntoEndsAtLine, OverEndsAtLine, SmartEndsAtLine,
       AlwaysFilteredOut, Excluded
  <2> QED
    BY <2>1, <2>2, <2>3 DEF StopOf
<1>4. CASE MadeToStop(u)
  <2>1. info'[u].state = "suspend"
    BY <1>1, <1>4, StepStates DEF MadeToStop
  <2>2. ASSUME info'[u].step \in Into \cup {"smart"}, NEW d \in 1 .. Depth(u) PROVE Traced(u, d)'
    <3> DEFINE f == stack[u][d]
    <3>1. ~AlwaysSkipCode(f.code) => "LINE" \in local'[f.code]
      BY <1>4, <2>2, TracingHas DEF MadeToStop, Kinds
    <3>2. AlwaysSkipCode(f.code) => AlwaysFilteredOut(f.code)
      BY DEF AlwaysSkipCode, AlwaysFilteredOut, ApplyFilesFilter
    <3> QED
      BY <1>1, <3>1, <3>2 DEF Traced, AlwaysFilteredOut
  <2>3. WatchOf(u)'
    BY <1>1, <1>4, <2>2 DEF WatchOf, MadeToStop
  <2>4. PromiseOf(u)'
    BY <1>4, <2>1 DEF PromiseOf, Promised, StopOf, MadeToStop
  <2>5. StopMarkOf(u)'
    BY <1>1, <2>1 DEF StopOf, StopMarkOf, AlwaysFilteredOut
  <2> QED
    BY <2>3, <2>4, <2>5 DEF StopOf
<1>5. CASE LetGo(u)
  <2>1. info'[u].step = None
    BY <1>1, <1>5, StepStates DEF LetGo
  <2>2. NoPromise \in PromiseType /\ NoPromise.step = None
    BY DEF NoPromise, PromiseType
  <2> QED
    BY <1>5, <2>1, <2>2 DEF StopOf, WatchOf, Watched, PromiseOf, Promised, StopMarkOf, LetGo
<1> QED
    BY <1>3, <1>4, <1>5

LEMMA AreMadeToStop ==
    ASSUME TypeInv, NEW events \in [Codes -> SUBSET Kinds], NEW S \in SUBSET Threads, NEW T,
           info' = Suspended(T), EnableFrames(events, Suspended(T), S, Depths), tracking',
           promise' = promise,
           NEW u \in S, u \in T
    PROVE  MadeToStop(u)
<1>1. \A v \in S : Depths[v] = Depth(v) /\ Depths[v] <= Depth(v) /\ Depths[v] \in Int
    BY ThreadFacts DEF Depths
<1>2. \A v \in S : \A d \in 1 .. Depth(v) :
          d <= Depths[v] /\ ~AlwaysSkipCode(stack[v][d].code) =>
              CodeTracing(info'[v], stack[v][d].code, d, FuncCodeInfo(stack[v][d].code))
                  \subseteq local'[stack[v][d].code]
    BY <1>1, EnabledFacts
<1>3. \A d \in 1 .. Depth(u) : d <= Depths[u]
    BY <1>1, ThreadFacts
<1>4. info'[u] = MarkThreadSuspended(info[u])
    BY DEF Suspended
<1> QED
    BY <1>2, <1>3, <1>4 DEF MadeToStop

\* What a thread does to the step states of the others.
LEMMA StopsOfOthers ==
    ASSUME TypeInv, NEW t \in Threads, Program(t) \/ Callback(t), NEW u \in Threads, u # t
    PROVE  Same(u) \/ MadeToStop(u) \/ LetGo(u)
<1>1. /\ info \in [Threads -> Infos] /\ DOMAIN promise = Threads
      /\ Depth(t) \in Nat /\ (pc[t] # "run" => Depth(t) > 0)
    BY ThreadFacts, OldParts DEF MapTypes
<1>2. ASSUME NEW infos \in [Threads -> Infos], Depth(t) > 0, Pop(t, infos), infos[u] = info[u]
      PROVE  info'[u] = info[u]
    BY <1>2, PopFacts
<1>3. CASE Program(t)
  <2>1. info' = info \/ (Depth(t) > 0 /\ Pop(t, info))
    BY <1>3 DEF Program, Call, Advance, Return_, Unwind, PopUnnoticed
  <2>2. promise' = promise \/ \E x : promise' = [promise EXCEPT ![t].lost = x]
    BY <1>3 DEF Program, Call, Advance, Return_, Unwind, PopUnnoticed
  <2> QED
    BY <1>1, <1>2, <2>1, <2>2 DEF Same
<1>4. CASE Fetch(t) \/ Goes(t) \/ WaitSuspended(t) \/ RestartAfterSuspend(t)
    BY <1>4 DEF Fetch, Goes, WaitSuspended, RestartAfterSuspend, Same, history
<1>5. ASSUME NEW d \in Nat, NEW events \in [Codes -> SUBSET Kinds], SetSuspend(t, d, events)
      PROVE  Same(u) \/ MadeToStop(u)
  <2>1. /\ info' = Suspended(Suspending(t)) /\ promise' = promise
        /\ EnableFrames(events, Suspended(Suspending(t)), Suspending(t) \ {t}, Depths)
        /\ tracking' = (tracking \/ SingleNotification)
    BY <1>5, SetSuspendFacts
  <2>2. CASE u \in Suspending(t)
    <3>1. tracking' /\ u \in Suspending(t) \ {t} /\ Suspending(t) \ {t} \in SUBSET Threads
      BY <2>1, <2>2 DEF Suspending
    <3> QED
      BY <2>1, <2>2, <3>1, AreMadeToStop
  <2>3. CASE u \notin Suspending(t)
    BY <2>1, <2>3 DEF Suspended, Same
  <2> QED
    BY <2>2, <2>3
<1>6. CASE LeavesLast(t)
  <2> DEFINE infos == [info EXCEPT ![t] = RunThread(info[t])]
  <2>1. /\ pc[t] = "decide" /\ Pop(t, infos) /\ promise' = [promise EXCEPT ![t] = NoPromise]
    BY <1>6 DEF LeavesLast
  <2>2. infos \in [Threads -> Infos] /\ infos[u] = info[u]
    BY <1>1, InfoChanges
  <2> HIDE DEF infos
  <2> QED
    BY <1>1, <1>2, <2>1, <2>2 DEF Same
<1>7. CASE pc[t] = "decide" /\ ReturnOfStepFrame(t)
  <2>1. Pop(t, AsInto(t)) /\ promise' = promise
    BY <1>7, StepBecomesIntoFacts DEF ReturnOfStepFrame, history
  <2> QED
    BY <1>1, <1>2, <1>7, <2>1, AsIntoFacts DEF Same
<1>8. CASE pc[t] = "decide" /\ ReturnOfOther(t)
  <2>1. Pop(t, info) /\ promise' = promise
    BY <1>8 DEF ReturnOfOther, history
  <2> QED
    BY <1>1, <1>2, <1>8, <2>1 DEF Same
<1>9. CASE EnterWait(t)
    BY <1>1, <1>9 DEF EnterWait, Same
<1>10. CASE LeaveWait(t)
  <2> DEFINE infos == [info EXCEPT ![t] = Resumed(t)]
  <2>1. /\ pc[t] = "wait" /\ info[t].state = "run"
        /\ Pop(t, infos) \/ info' = infos
        /\ \E x : promise' = [promise EXCEPT ![t] = x]
    BY <1>10, LeaveWaitFacts
  <2>2. infos \in [Threads -> Infos] /\ infos[u] = info[u]
    BY <1>1, <2>1, ResumedFacts
  <2> HIDE DEF infos
  <2> QED
    BY <1>1, <1>2, <2>1, <2>2 DEF Same
<1>11. ASSUME NEW step \in Steps, NEW target \in (Codes \X Lines0) \cup {NoLocation},
              StepRequest(t, step, target)
       PROVE  LetGo(u)
    BY <1>11 DEF StepRequest, Released, LetGo
<1> QED
    BY <1>3, <1>4, <1>5, <1>6, <1>7, <1>8, <1>9, <1>10, <1>11, CallbackCases

LEMMA OthersStop ==
    ASSUME TypeInv, NEW t \in Threads, Program(t) \/ Callback(t), NEW u \in Threads, u # t, StopOf(u)
    PROVE  StopOf(u)'
<1>1. Effects(t)
    BY ProgramEffects, CallbackEffects, FetchEffects DEF Ends
<1>2. /\ Unmoved(u) /\ (\A c \in Codes : local[c] \subseteq local'[c])
      /\ marks'[u] \subseteq marks[u] /\ (tracking => tracking')
    BY <1>1, EffectsOthers DEF Effects
<1> QED
    BY <1>2, StopsOfOthers, StopOthers

-----------------------------------------------------------------------------
(* The commands *)

LEMMA StopsOfCommands ==
    ASSUME TypeInv, Command, NEW u \in Threads
    PROVE  /\ Same(u) \/ MadeToStop(u) \/ LetGo(u)
           /\ Unmoved(u) /\ (\A c \in Codes : local[c] \subseteq local'[c])
           /\ marks'[u] \cap {"pause", "step"} \subseteq marks[u]
           /\ tracking /\ info[u].step # None => tracking'
<1> DEFINE Kept == /\ Unmoved(u) /\ (\A c \in Codes : local[c] \subseteq local'[c])
                   /\ marks'[u] \cap {"pause", "step"} \subseteq marks[u]
                   /\ tracking /\ info[u].step # None => tracking'
           All == (Same(u) \/ MadeToStop(u) \/ LetGo(u)) /\ Kept
<1>1. UNCHANGED <<stack, pc, event, seen>>
    BY DEF Command, AddBreakpoint, RemoveBreakpoint, BreakpointAdded, TraceExistingFrames,
           RestartAfterCommand, BreakpointRemoved, ClearFilters, Pause, Continue, program
<1>2. Unmoved(u)
    BY <1>1 DEF Unmoved, Depth
<1>3. ASSUME UNCHANGED <<info, local, promise>>, marks'[u] \cap {"pause", "step"} \subseteq marks[u],
             tracking' = tracking \/ tracking' = (bps # {} \/ SuspendRequested)
      PROVE  All
  <2>1. info[u].step # None => SuspendRequested
    BY DEF SuspendRequested
  <2>2. tracking /\ info[u].step # None => tracking'
    BY <1>3, <2>1
  <2>3. Same(u) /\ \A c \in Codes : local[c] \subseteq local'[c]
    BY <1>3 DEF Same
  <2> QED
    BY <1>2, <1>3, <2>2, <2>3
<1>4. CASE \E loc \in BreakLocations : AddBreakpoint(loc) \/ RemoveBreakpoint(loc)
    BY <1>3, <1>4 DEF AddBreakpoint, RemoveBreakpoint, monitors
<1>5. CASE BreakpointAdded \/ BreakpointRemoved \/ ClearFilters \/ RestartAfterCommand
    BY <1>3, <1>5, ClearCachesIs DEF BreakpointAdded, BreakpointRemoved, ClearFilters,
       RestartAfterCommand
<1>6. CASE TraceExistingFrames
    BY <1>2, <1>6, TraceExistingFacts DEF Same
<1>7. ASSUME NEW t \in Threads, Pause(t) PROVE All
  <2>1. /\ info' = Suspended(Suspending(t)) /\ tracking' = TRUE
        /\ EnableFrames(local, Suspended(Suspending(t)), Suspending(t), Depths)
        /\ (\A c \in Codes : local[c] \subseteq local'[c]) /\ UNCHANGED <<promise, marks>>
    BY <1>7, PauseFacts
  <2>2. Same(u) \/ MadeToStop(u)
    <3>1. CASE u \in Suspending(t)
      <4>1. Suspending(t) \in SUBSET Threads /\ local \in [Codes -> SUBSET Kinds]
        BY OldParts DEF Suspending, EventTypes
      <4> QED
        BY <2>1, <3>1, <4>1, AreMadeToStop
    <3>2. CASE u \notin Suspending(t)
      BY <2>1, <3>2 DEF Suspended, Same
    <3> QED
      BY <3>1, <3>2
  <2> QED
    BY <1>2, <2>1, <2>2
<1>8. ASSUME NEW S, Continue(S) PROVE All
  <2>1. /\ info' = [t \in Threads |-> IF t \in S THEN RunThread(info[t]) ELSE info[t]]
        /\ Released(S) /\ UNCHANGED <<local, tracking>>
    BY <1>8 DEF Continue, monitors
  <2>2. Same(u) \/ LetGo(u)
    BY <2>1 DEF Released, Same, LetGo
  <2>3. marks'[u] \subseteq marks[u]
    BY <2>1 DEF Released
  <2> QED
    BY <1>2, <2>1, <2>2, <2>3
<1> QED
    BY <1>4, <1>5, <1>6, <1>7, <1>8 DEF Command

LEMMA CommandsStop ==
    ASSUME TypeInv, Command, NEW u \in Threads, StopOf(u)
    PROVE  StopOf(u)'
BY StopsOfCommands, StopOthers

-----------------------------------------------------------------------------
(* The thread that acts: in the program *)

FrameKept(t, d) ==
    /\ stack'[t][d].code = stack[t][d].code
    /\ stack'[t][d].blind = stack[t][d].blind /\ stack'[t][d].skipped = stack[t][d].skipped

LEMMA KeptTraced ==
    ASSUME TypeInv, NEW t \in Threads, NEW d \in 1 .. Depth(t), ~Starting(t, d), Traced(t, d),
           FrameKept(t, d), \A c \in Codes : local[c] \subseteq local'[c]
    PROVE  Traced(t, d)'
<1>1. stack[t][d].code \in Codes
    BY CodeFacts
<1> QED
    BY <1>1 DEF Traced, FrameKept, AlwaysFilteredOut

\* a step of a thread that leaves its step as it is
LEMMA KeepsStop ==
    ASSUME TypeInv, NEW t \in Threads, StopOf(t), pc[t] \in Running,
           \A c \in Codes : local[c] \subseteq local'[c], tracking => tracking',
           info'[t].step = info[t].step, info'[t].state = info[t].state,
           promise'[t] \in PromiseType, promise'[t].step = promise[t].step,
           promise'[t].base = promise[t].base, promise[t].lost => promise'[t].lost,
           Depth(t)' \in Nat, \A d \in 1 .. Depth(t)' : d <= Depth(t) => FrameKept(t, d),
           tracking /\ info[t].step \in Into \cup {"smart"} =>
               \A d \in 1 .. Depth(t)' : (d <= Depth(t) => Traced(t, d)) => Traced(t, d)',
           Promised(t) /\ Promised(t)' /\ Waits(t) /\ promise[t].step \notin Into =>
               info'[t].stop = info[t].stop /\ promise[t].base <= Depth(t)'
    PROVE  WatchOf(t)' /\ PromiseOf(t)'
<1>1. Depth(t) \in Nat
    BY ThreadFacts
<1>2. Watched(t)' => Watched(t)
    BY DEF Watched
<1>3. WatchOf(t)'
  <2>1. ASSUME Watched(t)' PROVE Watched(t) /\ tracking /\ tracking' /\ info[t].step # None
    BY <1>2, <2>1 DEF StopOf, WatchOf, Watched
  <2>2. ASSUME Watched(t)', info'[t].step \in Into \cup {"smart"}, NEW d \in 1 .. Depth(t)'
        PROVE  Traced(t, d)'
    <3>1. d <= Depth(t) => Traced(t, d)
      BY <1>1, <2>1, <2>2 DEF StopOf, WatchOf
    <3> QED
      BY <2>1, <2>2, <3>1
  <2> QED
    BY <2>1, <2>2 DEF WatchOf
<1>4. Promised(t)' => Promised(t)
    BY DEF Promised
<1>5. ASSUME Promised(t)', Waits(t), promise[t].step \notin Into PROVE Waits(t)'
  <2> DEFINE base == promise[t].base
  <2>1. base \in 1 .. Depth(t) /\ base <= Depth(t)' /\ info'[t].stop = info[t].stop
    BY <1>4, <1>5 DEF Waits
  <2>2. base \in 1 .. Depth(t)' /\ stack'[t][base].code = stack[t][base].code
    BY <1>1, <2>1 DEF FrameKept
  <2>3. stack[t][base].code \in Codes
    BY <2>1, CodeFacts
  <2> QED
    BY <1>5, <2>1, <2>2, <2>3 DEF Waits
<1>6. PromiseOf(t)'
    BY <1>4, <1>5 DEF StopOf, PromiseOf
<1> QED
    BY <1>3, <1>6

\* no mark, no thread to stop
LEMMA Unmarked ==
    ASSUME NEW t \in Threads, marks'[t] \cap {"pause", "step"} = {}
    PROVE  StopMarkOf(t)'
BY DEF StopMarkOf

LEMMA StopCall ==
    ASSUME TypeInv, DisabledInv, NEW t \in Threads, StopOf(t), NEW c \in Codes, Call(t, c)
    PROVE  StopOf(t)'
<1>1. /\ pc[t] = "run" /\ UNCHANGED <<info, local, disabled, tracking, foreign, promise, cmd, seen, at>>
      /\ IF tracking /\ <<c, 0>> \notin disabled THEN Fire(t, "start") ELSE UNCHANGED <<pc, event>>
      /\ \E x \in {{"armed"}, {}} : marks' = [marks EXCEPT ![t] = x]
    BY DEF Call, monitors
<1>2. /\ Depth(t) \in Nat /\ Depth(t)' = Depth(t) + 1 /\ CallersKept(t, Depth(t))
      /\ Top(t)' = [code |-> c, line |-> 0, blind |-> RestartPending, skipped |-> <<c, 0>> \in foreign]
    BY CallFacts, ThreadFacts
<1>3. \A d \in 1 .. Depth(t) : FrameKept(t, d) /\ ~Starting(t, d)
    BY <1>1, <1>2 DEF CallersKept, FrameKept, Starting, InCallback
<1>4. ASSUME tracking, info[t].step # None, NEW d \in 1 .. Depth(t)', d > Depth(t) PROVE Traced(t, d)'
  <2>1. d = Depth(t)' /\ stack'[t][d] = Top(t)'
    BY <1>2, <1>4 DEF Top
  <2>2. CASE <<c, 0>> \notin disabled
    <3>1. pc'[t] = "fetch" /\ event'[t] = "start"
      BY <1>1, <1>4, <2>2, FiredFacts
    <3> QED
      BY <2>1, <3>1 DEF Traced, Starting, InCallback
  <2>3. CASE <<c, 0>> \in disabled
    <3>1. RestartPending \/ <<c, 0>> \in foreign \/ AlwaysFilteredOut(c)
      BY <1>4, <2>3 DEF DisabledInv
    <3>2. PICK x, y : /\ stack'[t][d] = [code |-> c, line |-> 0, blind |-> x, skipped |-> y]
                      /\ x = RestartPending /\ y = (<<c, 0>> \in foreign)
      BY <1>2, <2>1
    <3>3. stack'[t][d].code = c /\ stack'[t][d].blind = x /\ stack'[t][d].skipped = y
      BY <3>2
    <3>4. (RestartPending => x) /\ (<<c, 0>> \in foreign => y)
      BY <3>2
    <3>5. /\ RestartPending => stack'[t][d].blind
          /\ <<c, 0>> \in foreign => stack'[t][d].skipped
      BY <3>3, <3>4
    <3> QED
      BY <3>1, <3>3, <3>5 DEF Traced, AlwaysFilteredOut
  <2> QED
    BY <2>2, <2>3
<1>5. WatchOf(t)' /\ PromiseOf(t)'
  <2>1. pc[t] \in Running /\ (tracking => tracking') /\ \A e \in Codes : local[e] \subseteq local'[e]
    BY <1>1 DEF Running
  <2>2. tracking /\ info[t].step # None =>
            \A d \in 1 .. Depth(t)' : (d <= Depth(t) => Traced(t, d)) => Traced(t, d)'
    BY <1>2, <1>3, <1>4, <2>1, KeptTraced
  <2>5. info[t].step \in Into \cup {"smart"} => info[t].step # None
    BY StepKinds
  <2>3. promise'[t] = promise[t] /\ promise[t] \in PromiseType /\ info'[t] = info[t]
    BY <1>1 DEF StopOf, PromiseOf
  <2>4. /\ Depth(t)' \in Nat /\ (\A d \in 1 .. Depth(t)' : d <= Depth(t) => FrameKept(t, d))
        /\ Waits(t) => promise[t].base <= Depth(t)'
    BY <1>2, <1>3 DEF Waits
  <2> QED
    BY <2>1, <2>2, <2>3, <2>4, <2>5, KeepsStop
<1>6. StopMarkOf(t)'
  <2>1. marks'[t] \cap {"pause", "step"} = {}
    BY <1>1, OldParts DEF MapTypes
  <2> QED
    BY <2>1, Unmarked
<1> QED
    BY <1>5, <1>6 DEF StopOf

\* A frame returns, or is left by an exception.
LEMMA StopExit ==
    ASSUME TypeInv, NEW t \in Threads, StopOf(t), Return_(t) \/ Unwind(t)
    PROVE  StopOf(t)'
<1>1. /\ pc[t] = "run" /\ Depth(t) > 0 /\ marks' = [marks EXCEPT ![t] = {}]
      /\ UNCHANGED <<local, disabled, tracking, foreign, cmd>>
    BY DEF Return_, Unwind, monitors
<1>2. /\ pc[t] \in Running /\ (\A d \in 1 .. Depth(t) : ~Starting(t, d)) /\ Depth(t) \in Nat
      /\ promise[t] \in PromiseType /\ info \in [Threads -> Infos] /\ DOMAIN promise = Threads
      /\ (tracking => tracking') /\ \A c \in Codes : local[c] \subseteq local'[c]
    BY <1>1, ThreadFacts, OldParts DEF Running, Starting, InCallback, StopOf, PromiseOf, MapTypes
<1>3. StopMarkOf(t)'
  <2>1. marks'[t] = {}
    BY <1>1, OldParts DEF MapTypes
  <2> QED
    BY <2>1, Unmarked
<1>4. CASE UNCHANGED <<stack, info, promise>>
  <2>1. Depth(t)' = Depth(t) /\ \A d \in 1 .. Depth(t) : FrameKept(t, d)
    BY <1>4 DEF Depth, FrameKept
  <2>2. \A d \in 1 .. Depth(t) : Traced(t, d) => Traced(t, d)'
    BY <1>2, <2>1, KeptTraced
  <2>3. promise'[t] = promise[t] /\ info'[t] = info[t] /\ (Waits(t) => promise[t].base <= Depth(t)')
    BY <1>2, <1>4, <2>1 DEF Waits
  <2>4. /\ Depth(t)' \in Nat /\ (\A d \in 1 .. Depth(t)' : d <= Depth(t) => FrameKept(t, d))
        /\ \A d \in 1 .. Depth(t)' : (d <= Depth(t) => Traced(t, d)) => Traced(t, d)'
    BY <1>2, <2>1, <2>2
  <2> QED
    BY <1>2, <1>3, <2>3, <2>4, KeepsStop DEF StopOf
<1>5. CASE Pop(t, info)
  <2>1. /\ CallersKept(t, Depth(t) - 1) /\ Depth(t)' = Depth(t) - 1 /\ Depth(t)' \in Nat
        /\ info'[t] = ForgetFrame(info[t], Depth(t))
    BY <1>1, <1>2, <1>5, PopFacts
  <2>2. \A d \in 1 .. Depth(t)' : d \in 1 .. Depth(t) /\ FrameKept(t, d)
    BY <1>2, <2>1 DEF CallersKept, FrameKept
  <2>3. \A d \in 1 .. Depth(t)' : Traced(t, d) => Traced(t, d)'
    BY <1>2, <2>2, KeptTraced
  <2>4. /\ info'[t].step = info[t].step /\ info'[t].state = info[t].state
        /\ info[t].stop # Depth(t) => info'[t].stop = info[t].stop
    BY <1>2, <2>1, StepStates
  <2>5. ASSUME Promised(t), Promised(t)', Waits(t) PROVE info[t].stop # Depth(t)
    <3>1. CASE Return_(t)
      <4>1. ~(tracking /\ "RETURN" \in local[Top(t).code]) 
        <5>1. ASSUME tracking, "RETURN" \in local[Top(t).code] PROVE stack' = stack
          BY <3>1, <5>1 DEF Return_
        <5>2. stack' = stack => Depth(t)' = Depth(t)
          BY DEF Depth
        <5> QED
          BY <1>2, <2>1, <5>1, <5>2
      <4>2. tracking
        BY <1>2, <2>5 DEF Promised, Waits, StopOf, WatchOf, Watched
      <4> QED
        BY <2>5, <4>1, <4>2 DEF Waits, Top
    <3>2. CASE Unwind(t)
      <4>1. promise' = [promise EXCEPT ![t].lost = promise[t].lost \/ info[t].stop = Depth(t)]
        BY <3>2 DEF Unwind, PopUnnoticed
      <4>2. promise'[t].lost = (promise[t].lost \/ info[t].stop = Depth(t))
        BY <1>2, <4>1 DEF PromiseType
      <4> QED
        BY <2>5, <4>2 DEF Promised
    <3> QED
      BY <3>1, <3>2
  <2>6. /\ promise'[t] \in PromiseType /\ promise'[t].step = promise[t].step
        /\ promise'[t].base = promise[t].base /\ (promise[t].lost => promise'[t].lost)
    <3>1. CASE Return_(t)
      BY <1>2, <3>1 DEF Return_
    <3>2. CASE Unwind(t)
      <4> DEFINE lost == promise[t].lost \/ info[t].stop = Depth(t)
      <4>1. promise' = [promise EXCEPT ![t].lost = lost] /\ lost \in BOOLEAN
        BY <3>2 DEF Unwind, PopUnnoticed
      <4>2. promise[t].lost => lost
        OBVIOUS
      <4> HIDE DEF lost
      <4> QED
        BY <1>2, <4>1, <4>2 DEF PromiseType
    <3> QED
      BY <3>1, <3>2
  <2>7. Promised(t) /\ Promised(t)' /\ Waits(t) =>
            info'[t].stop = info[t].stop /\ promise[t].base <= Depth(t)'
    BY <1>2, <2>1, <2>4, <2>5 DEF Waits
  <2>8. /\ (\A d \in 1 .. Depth(t)' : d <= Depth(t) => FrameKept(t, d))
        /\ \A d \in 1 .. Depth(t)' : (d <= Depth(t) => Traced(t, d)) => Traced(t, d)'
    BY <1>2, <2>1, <2>2, <2>3
  <2> QED
    BY <1>2, <1>3, <2>1, <2>4, <2>6, <2>7, <2>8, KeepsStop DEF StopOf
<1>6. UNCHANGED <<stack, info, promise>> \/ Pop(t, info)
    BY DEF Return_, Unwind, PopUnnoticed
<1> QED
    BY <1>4, <1>5, <1>6

\* A thread that comes to a line where it has to stop gets the event for it.
LEMMA StopAdvance ==
    ASSUME TypeInv, DisabledInv, NEW t \in Threads, StopOf(t), NEW l \in 1 .. LastLine, Advance(t, l)
    PROVE  StopOf(t)'
<1> DEFINE f == Top(t)
           c == Top(t).code
           m == Marks(t, Top(t), l, Depth(t))
           p == promise[t]
<1>1. /\ pc[t] = "run" /\ marks' = [marks EXCEPT ![t] = m]
      /\ UNCHANGED <<info, local, disabled, tracking, foreign, promise, cmd, seen, at>>
      /\ IF tracking /\ "LINE" \in local[c] /\ <<c, l>> \notin disabled
         THEN Fire(t, "line") ELSE UNCHANGED <<pc, event>>
    BY DEF Advance, monitors
<1>2. /\ Depth(t)' = Depth(t) /\ Depth(t) > 0 /\ Depth(t) \in Nat /\ CallersKept(t, Depth(t) - 1)
      /\ Top(t)' = [f EXCEPT !.line = l] /\ f \in FrameType /\ f = stack[t][Depth(t)]
      /\ stack'[t][Depth(t)] = Top(t)'
    BY AdvanceFacts, ThreadFacts DEF Top
<1>3. \A d \in 1 .. Depth(t) : FrameKept(t, d) /\ ~Starting(t, d)
  <2> SUFFICES ASSUME NEW d \in 1 .. Depth(t) PROVE FrameKept(t, d)
    BY <1>1 DEF Starting, InCallback
  <2>1. CASE d = Depth(t)
    BY <1>2, <2>1 DEF FrameKept, FrameType
  <2>2. CASE d # Depth(t)
    BY <1>2, <2>2 DEF FrameKept, CallersKept
  <2> QED
    BY <2>1, <2>2
<1>4. WatchOf(t)' /\ PromiseOf(t)'
  <2>1. pc[t] \in Running /\ (tracking => tracking') /\ \A e \in Codes : local[e] \subseteq local'[e]
    BY <1>1 DEF Running
  <2>2. \A d \in 1 .. Depth(t)' : (d <= Depth(t) => Traced(t, d)) => Traced(t, d)'
    BY <1>2, <1>3, <2>1, KeptTraced
  <2>3. p' = p /\ p \in PromiseType /\ info'[t] = info[t]
    BY <1>1 DEF StopOf, PromiseOf
  <2>4. /\ Depth(t)' \in Nat /\ (\A d \in 1 .. Depth(t)' : d <= Depth(t) => FrameKept(t, d))
        /\ Waits(t) => p.base <= Depth(t)'
    BY <1>2, <1>3 DEF Waits
  <2> QED
    BY <2>1, <2>2, <2>3, <2>4, KeepsStop
<1>5. c \in Codes /\ marks'[t] = m /\ Top(t)'.code = c
    BY <1>1, <1>2, OldParts DEF FrameType, MapTypes
<1>6. /\ "pause" \in m => /\ PausedAt(t, f) /\ info[t].step \in Into
                          /\ ~f.blind /\ ~f.skipped /\ <<c, l>> \notin foreign
      /\ "step" \in m => /\ SteppedAt(t, f, Depth(t)) /\ ~p.lost
                         /\ ~f.blind /\ ~f.skipped /\ <<c, l>> \notin foreign
    BY DEF Marks
<1> HIDE DEF m
\* what is needed for the event
<1>7. ASSUME ~f.blind, ~f.skipped, <<c, l>> \notin foreign, ~AlwaysFilteredOut(c), ~RestartPending,
             Watched(t), info[t].step \in Into \cup {"smart"} \/ "LINE" \in local[c]
      PROVE  pc'[t] = "fetch" /\ event'[t] = "line"
  <2>1. tracking
    BY <1>7 DEF StopOf, WatchOf
  <2>2. "LINE" \in local[c]
    <3>1. CASE info[t].step \in Into \cup {"smart"}
      <4>1. Depth(t) \in 1 .. Depth(t)
        BY <1>2
      <4>2. Traced(t, Depth(t)) /\ ~Starting(t, Depth(t))
        BY <1>3, <1>7, <3>1, <4>1 DEF StopOf, WatchOf
      <4> QED
        BY <1>2, <1>7, <4>2 DEF Traced
    <3> QED
      BY <1>7, <3>1
  <2>3. <<c, l>> \notin disabled
    <3>1. \E u \in Threads : info[u].step # None
      BY <1>7 DEF Watched
    <3> QED
      BY <1>7, <3>1 DEF DisabledInv
  <2>4. Fire(t, "line")
    BY <1>1, <2>1, <2>2, <2>3
  <2> QED
    BY <1>1, <2>4, FiredFacts
<1>8. ASSUME "pause" \in m
      PROVE  /\ pc'[t] = "fetch" /\ event'[t] = "line" /\ ~AlwaysFilteredOut(c)
             /\ info[t].state = "suspend"
  <2>1. /\ info[t].state = "suspend" /\ ~AlwaysFilteredOut(c) /\ ~RestartPending
        /\ info[t].step # None /\ pc[t] \in Running
    BY <1>1, <1>6, <1>8 DEF PausedAt, DisabledInv, Running
  <2> QED
    BY <1>6, <1>7, <1>8, <2>1 DEF Watched
<1>9. ASSUME "step" \in m
      PROVE  /\ pc'[t] = "fetch" /\ event'[t] = "line" /\ ~AlwaysFilteredOut(c)
             /\ (IntoEndsAtLine(t) \/ OverEndsAtLine(t) \/ SmartEndsAtLine(t))'
  <2>1. /\ info[t].state = "run" /\ ~Excluded(c, p.step) /\ ~RestartPending /\ ~p.lost
        /\ \/ p.step \in Into
           \/ p.step \in Over /\ Depth(t) <= p.base
           \/ p.step \in Return /\ Depth(t) < p.base
           \/ /\ p.step = "smart" /\ Depth(t) = p.base + 1
              /\ info[t].target = <<c, stack[t][Depth(t) - 1].line>>
    BY <1>6, <1>9 DEF SteppedAt
  <2>2. p.step # None /\ Promised(t) /\ ~AlwaysFilteredOut(c)
    BY <1>1, <2>1 DEF Promised, Into, Over, Return, None, Running, Excluded, AlwaysFilteredOut,
       ApplyFilesFilter
  <2>3. \/ p.step \in Into /\ info[t].step = p.step
        \/ p.step = "over" /\ info[t].step = "into"
        \/ p.step = "over_my" /\ info[t].step = "into_my"
        \/ p.step \notin Into /\ Waits(t)
    BY <2>2 DEF StopOf, PromiseOf
  <2>4. info[t].step # None /\ Watched(t)
    BY <1>1, <2>1, <2>2, <2>3 DEF Waits, None, Watched, Running
  <2>5. CASE p.step \notin Into /\ Waits(t)
    <3>1. /\ info[t].step = p.step /\ info[t].stop = p.base /\ p.base \in 1 .. Depth(t)
          /\ p.step \in Over => "LINE" \in local[stack[t][p.base].code]
      BY <2>5 DEF Waits
    <3>2. CASE p.step \in Over
      <4>1. p.step \notin Return /\ p.step # "smart"
        BY <3>2 DEF Over, Return
      <4>2. p.base = Depth(t)
        BY <1>2, <2>1, <2>5, <3>1, <4>1
      <4>3. "LINE" \in local[c]
        BY <1>2, <3>1, <3>2, <4>2
      <4>4. pc'[t] = "fetch" /\ event'[t] = "line"
        BY <1>6, <1>7, <1>9, <2>1, <2>2, <2>4, <4>3
      <4>5. OverEndsAtLine(t)'
        BY <1>1, <1>2, <3>1, <3>2, <4>2 DEF OverEndsAtLine
      <4> QED
        BY <2>2, <4>4, <4>5
    <3>3. CASE p.step = "smart"
      <4>1. p.step \notin Return /\ p.step \notin Over /\ p.step \notin Into
        BY <3>3 DEF Over, Return, Into
      <4>2. /\ Depth(t) = p.base + 1 /\ info[t].target = <<c, stack[t][Depth(t) - 1].line>>
            /\ info[t].step = "smart" /\ info[t].stop = Depth(t) - 1
            /\ Depth(t) - 1 \in 1 .. Depth(t) - 1
        BY <1>2, <2>1, <2>5, <3>1, <3>3, <4>1
      <4>3. pc'[t] = "fetch" /\ event'[t] = "line"
        BY <1>6, <1>7, <1>9, <2>1, <2>2, <2>4, <4>2
      <4>4. stack'[t][Depth(t) - 1] = stack[t][Depth(t) - 1]
        BY <1>2, <4>2 DEF CallersKept
      <4>5. SmartEndsAtLine(t)'
        BY <1>1, <1>2, <1>5, <4>2, <4>4 DEF SmartEndsAtLine
      <4> QED
        BY <2>2, <4>3, <4>5
    <3> QED
      BY <1>2, <2>1, <2>5, <3>1, <3>2, <3>3
  <2>6. CASE ~(p.step \notin Into /\ Waits(t))
    <3>1. info[t].step \in Into /\ ~Excluded(c, info[t].step)
      BY <2>1, <2>3, <2>6 DEF Into, Excluded, ForceCheckProjectScope
    <3>2. pc'[t] = "fetch" /\ event'[t] = "line"
      BY <1>6, <1>7, <1>9, <2>1, <2>2, <2>4, <3>1
    <3>3. IntoEndsAtLine(t)'
      BY <1>1, <1>5, <3>1 DEF IntoEndsAtLine, Excluded
    <3> QED
      BY <2>2, <3>2, <3>3
  <2> QED
    BY <2>5, <2>6
<1>10. StopMarkOf(t)'
  <2>1. AlwaysFilteredOut(Top(t).code)' <=> AlwaysFilteredOut(c)
    BY <1>5 DEF AlwaysFilteredOut
  <2>2. info' = info /\ "fetch" \in InCallback
    BY <1>1 DEF InCallback
  <2> QED
    BY <1>5, <1>8, <1>9, <2>1, <2>2 DEF StopMarkOf
<1> QED
    BY <1>4, <1>10 DEF StopOf

LEMMA StopProgram ==
    ASSUME TypeInv, DisabledInv, NEW t \in Threads, StopOf(t), Program(t)
    PROVE  StopOf(t)'
BY StopCall, StopAdvance, StopExit DEF Program

-----------------------------------------------------------------------------
(* The thread that acts: in a callback *)

\* The callback for a line where the thread has to stop does stop it.
LEMMA StopMarksEnd ==
    ASSUME TypeInv, NEW t \in Threads, StopMarkOf(t), Callback(t), pc'[t] \notin InCallback
    PROVE  StopMarkOf(t)'
<1> SUFFICES ASSUME marks[t] \cap {"pause", "step"} # {}
             PROVE  marks'[t] \cap {"pause", "step"} = {}
  <2>1. marks'[t] \subseteq marks[t] \cup {"removed"}
    BY MarksAfter
  <2> QED
    BY <2>1, Unmarked
<1>1. pc[t] \in InCallback /\ event[t] = "line" /\ ~AlwaysFilteredOut(Top(t).code)
    BY DEF StopMarkOf
<1>2. LineEvent(t)
  <2>1. ~Fetch(t)
    BY FetchEffects DEF InCallback
  <2> QED
    BY <1>1, <2>1, RequestsAre DEF InCallback, StartMethodEvent, ReturnEvent, RestartAfterSuspend,
       EnterWait, LeaveWait, StepRequest
<1>3. \/ info[t].state = "suspend"
      \/ IntoEndsAtLine(t) \/ OverEndsAtLine(t) \/ SmartEndsAtLine(t)
    BY DEF StopMarkOf
<1>4. ASSUME NEW x, x \subseteq {"removed"}, marks' = [marks EXCEPT ![t] = x]
      PROVE  marks'[t] \cap {"pause", "step"} = {}
    BY <1>4, OldParts DEF MapTypes
<1>5. CASE LineWithBreakpoint(t)
  <2> DEFINE here == <<Top(t).code, Top(t).line>>
             x == IF "armed" \in marks[t] \/ here \in bps THEN {} ELSE {"removed"}
  <2>1. marks' = [marks EXCEPT ![t] = x] /\ x \subseteq {"removed"}
    BY <1>5 DEF LineWithBreakpoint, StopOnBreakpoint
  <2> QED
    BY <1>4, <2>1
<1>6. CASE LinePaused(t)
  <2>1. marks' = [marks EXCEPT ![t] = {}]
    BY <1>6 DEF LinePaused, WaitSuspended
  <2> QED
    BY <1>4, <2>1
<1>7. CASE LineStepping(t)
  <2>1. marks' = [marks EXCEPT ![t] = {}]
    BY <1>3, <1>7 DEF LineStepping, StopForStep
  <2> QED
    BY <1>4, <2>1
<1>8. ~LineNotStepping(t)
    BY <1>3 DEF LineNotStepping, IntoEndsAtLine, OverEndsAtLine, SmartEndsAtLine, Into, Over, None
<1>9. ~LineFilteredOut(t)
    BY <1>1 DEF LineFilteredOut
<1> QED
    BY <1>2, <1>5, <1>6, <1>7, <1>8, <1>9 DEF LineEvent

LEMMA StopFetch ==
    ASSUME TypeInv, NEW t \in Threads, StopOf(t), Fetch(t)
    PROVE  StopOf(t)'
<1>1. /\ stack' = stack /\ Depth(t)' = Depth(t) /\ event' = event /\ marks' = marks
      /\ pc[t] = "fetch" /\ pc'[t] = "decide"
      /\ UNCHANGED <<info, local, tracking, promise>>
    BY FetchEffects
<1>2. Top(t)' = Top(t) /\ pc[t] \in InCallback \cap Running /\ pc'[t] \in InCallback \cap Running
    BY <1>1 DEF Top, InCallback, Running
<1>3. \A d : Traced(t, d)' <=> Traced(t, d)
    BY <1>1, <1>2 DEF Traced, Starting, AlwaysFilteredOut
<1>4. WatchOf(t)'
    BY <1>1, <1>2, <1>3 DEF StopOf, WatchOf, Watched
<1>5. PromiseOf(t)'
    BY <1>1, <1>2 DEF StopOf, PromiseOf, Promised, Waits
<1>6. StopMarkOf(t)'
    BY <1>1, <1>2 DEF StopOf, StopMarkOf, IntoEndsAtLine, OverEndsAtLine, SmartEndsAtLine,
       AlwaysFilteredOut, Excluded
<1> QED
    BY <1>4, <1>5, <1>6 DEF StopOf

LEMMA StopGoes ==
    ASSUME TypeInv, NEW t \in Threads, StopOf(t), Callback(t), Goes(t)
    PROVE  WatchOf(t)' /\ PromiseOf(t)'
<1>1. /\ pc[t] = "decide" /\ BackToProgram(t) /\ UNCHANGED <<stack, info, tracking, cmd, promise>>
      /\ event[t] = "start" /\ ~AlwaysSkipCode(Top(t).code) =>
             CodeTracing(info[t], Top(t).code, Depth(t), seen[t]) \subseteq local'[Top(t).code]
    BY DEF Goes
<1>2. /\ Depth(t)' = Depth(t) /\ Depth(t) \in Nat /\ pc[t] \in Running
      /\ \A c \in Codes : local[c] \subseteq local'[c]
  <2>1. Effects(t)
    BY CallbackEffects, FetchEffects DEF Ends
  <2> QED
    BY <1>1, <2>1, ThreadFacts DEF Depth, Effects, Running
<1>3. ASSUME info[t].step \in Into \cup {"smart"}, NEW d \in 1 .. Depth(t), Traced(t, d)
      PROVE  Traced(t, d)'
  <2>1. FrameKept(t, d)
    BY <1>1 DEF FrameKept
  <2>2. CASE Starting(t, d)
    <3>1. stack'[t][d] = Top(t) /\ event[t] = "start"
      BY <1>1, <2>2 DEF Starting, Top
    <3>2. ~AlwaysSkipCode(Top(t).code) => "LINE" \in local'[Top(t).code]
      BY <1>1, <1>3, <3>1, TracingHas DEF Kinds
    <3>3. AlwaysSkipCode(Top(t).code) => AlwaysFilteredOut(Top(t).code)
      BY DEF AlwaysSkipCode, AlwaysFilteredOut, ApplyFilesFilter
    <3> QED
      BY <3>1, <3>2, <3>3 DEF Traced, AlwaysFilteredOut
  <2>3. CASE ~Starting(t, d)
    BY <1>2, <1>3, <2>1, <2>3, KeptTraced
  <2> QED
    BY <2>2, <2>3
<1>4. /\ Depth(t)' \in Nat /\ \A d \in 1 .. Depth(t)' : d <= Depth(t) => FrameKept(t, d)
    BY <1>1, <1>2 DEF FrameKept
<1>5. info[t].step \in Into \cup {"smart"} =>
          \A d \in 1 .. Depth(t)' : (d <= Depth(t) => Traced(t, d)) => Traced(t, d)'
    BY <1>2, <1>3
<1>6. promise'[t] = promise[t] /\ promise[t] \in PromiseType /\ info'[t] = info[t]
    BY <1>1 DEF StopOf, PromiseOf
<1>7. Waits(t) => promise[t].base <= Depth(t)'
    BY <1>2 DEF Waits
<1> QED
    BY <1>1, <1>2, <1>4, <1>5, <1>6, <1>7, KeepsStop

\* a thread that waits, and one that has no step
LEMMA StopWaiting ==
    ASSUME NEW t \in Threads, pc'[t] \in Waiting, promise'[t] \in PromiseType
    PROVE  WatchOf(t)' /\ PromiseOf(t)'
<1>1. pc'[t] \notin Running
    BY DEF Waiting, Running
<1> QED
    BY <1>1 DEF WatchOf, Watched, PromiseOf, Promised
LEMMA StopReleased ==
    ASSUME NEW t \in Threads, info'[t].step = None, promise'[t].step = None,
           promise'[t] \in PromiseType
    PROVE  WatchOf(t)' /\ PromiseOf(t)'
BY DEF WatchOf, Watched, PromiseOf, Promised

\* A step ends before its frame is gone, ...
LEMMA StopReturnOfOther ==
    ASSUME TypeInv, NEW t \in Threads, StopOf(t), pc[t] = "decide", event[t] = "return",
           ReturnOfOther(t)
    PROVE  WatchOf(t)' /\ PromiseOf(t)'
<1>1. /\ info[t].state = "run" /\ ~StepEndsAtReturn(t) /\ ~LeavesStepFrame(t) /\ Pop(t, info)
      /\ UNCHANGED <<local, tracking, promise>>
    BY DEF ReturnOfOther, monitors, history
<1>2. /\ pc[t] \in Running /\ Depth(t) \in Nat /\ Depth(t) > 0 /\ info \in [Threads -> Infos]
      /\ promise[t] \in PromiseType /\ \A d \in 1 .. Depth(t) : ~Starting(t, d)
    BY ThreadFacts, OldParts DEF Running, Starting, StopOf, PromiseOf
<1>3. /\ CallersKept(t, Depth(t) - 1) /\ Depth(t)' = Depth(t) - 1 /\ Depth(t)' \in Nat
      /\ info'[t] = ForgetFrame(info[t], Depth(t))
    BY <1>1, <1>2, PopFacts
<1>4. \A d \in 1 .. Depth(t)' : d \in 1 .. Depth(t) /\ FrameKept(t, d)
    BY <1>2, <1>3 DEF CallersKept, FrameKept
<1>5. \A d \in 1 .. Depth(t)' : Traced(t, d) => Traced(t, d)'
    BY <1>1, <1>2, <1>4, KeptTraced
<1>6. /\ info'[t].step = info[t].step /\ info'[t].state = info[t].state
      /\ info[t].stop # Depth(t) => info'[t].stop = info[t].stop
    BY <1>2, <1>3, StepStates
<1>7. ASSUME Promised(t), Waits(t), promise[t].step \notin Into PROVE info[t].stop # Depth(t)
  <2>1. info[t].step \in Over \cup Return \cup {"smart"}
    BY <1>2, <1>7, StepKinds DEF Promised, Waits, PromiseType
  <2> QED
    BY <1>1, <2>1 DEF LeavesStepFrame, StepEndsAtReturn, ReturnEndsAtReturn, SmartEndsAtReturn
<1>8. Promised(t) /\ Waits(t) /\ promise[t].step \notin Into =>
          info'[t].stop = info[t].stop /\ promise[t].base <= Depth(t)'
    BY <1>2, <1>3, <1>6, <1>7 DEF Waits
<1>9. /\ (\A d \in 1 .. Depth(t)' : d <= Depth(t) => FrameKept(t, d))
      /\ \A d \in 1 .. Depth(t)' : (d <= Depth(t) => Traced(t, d)) => Traced(t, d)'
    BY <1>2, <1>3, <1>4, <1>5
<1> QED
    BY <1>1, <1>2, <1>3, <1>6, <1>8, <1>9, KeepsStop

\* ... or becomes a step into.
LEMMA StopReturnOfStepFrame ==
    ASSUME TypeInv, NEW t \in Threads, StopOf(t), pc[t] = "decide", event[t] = "return",
           ReturnOfStepFrame(t)
    PROVE  WatchOf(t)' /\ PromiseOf(t)'
<1>1. /\ StepBecomesInto(t) /\ info[t].state = "run" /\ info[t].step \in Over
      /\ promise' = promise /\ pc[t] \in Running /\ promise[t] \in PromiseType
    BY DEF ReturnOfStepFrame, LeavesStepFrame, history, Running, StopOf, PromiseOf
<1>2. /\ Pop(t, AsInto(t)) /\ tracking' = tracking
      /\ \A d \in 1 .. Depth(t) - 1 : ~AlwaysSkipCode(stack[t][d].code) =>
             CodeTracing(AsInto(t)[t], stack[t][d].code, d, FuncCodeInfo(stack[t][d].code))
                 \subseteq local'[stack[t][d].code]
    BY <1>1, StepBecomesIntoFacts
<1>3. /\ AsInto(t) \in [Threads -> Infos] /\ AsInto(t)[t].step \in Into
      /\ AsInto(t)[t].state = info[t].state
      /\ info[t].step = "over" => AsInto(t)[t].step = "into"
      /\ info[t].step = "over_my" => AsInto(t)[t].step = "into_my"
    BY AsIntoFacts
<1>4. /\ CallersKept(t, Depth(t) - 1) /\ Depth(t)' = Depth(t) - 1
      /\ info'[t] = ForgetFrame(AsInto(t)[t], Depth(t))
    BY <1>2, <1>3, ThreadFacts, PopFacts
<1>5. info'[t].step = AsInto(t)[t].step /\ info'[t].state = "run" /\ info[t].step # None
    BY <1>1, <1>3, <1>4, StepStates DEF Over, None
<1>6. WatchOf(t)'
  <2>1. Watched(t)' => tracking'
    BY <1>1, <1>2, <1>5 DEF Watched, StopOf, WatchOf
  <2>2. ASSUME NEW d \in 1 .. Depth(t)' PROVE Traced(t, d)'
    <3> DEFINE c == stack[t][d].code
    <3>1. d \in 1 .. Depth(t) - 1 /\ stack'[t][d].code = c
      BY <1>4 DEF CallersKept
    <3>2. ~AlwaysSkipCode(c) => "LINE" \in local'[c]
      BY <1>2, <1>3, <3>1, TracingHas DEF Kinds
    <3>3. AlwaysSkipCode(c) => AlwaysFilteredOut(c)
      BY DEF AlwaysSkipCode, AlwaysFilteredOut, ApplyFilesFilter
    <3> QED
      BY <3>1, <3>2, <3>3 DEF Traced, AlwaysFilteredOut
  <2> QED
    BY <2>1, <2>2 DEF WatchOf
<1>7. PromiseOf(t)'
  <2>1. ASSUME Promised(t)' PROVE info[t].step = promise[t].step
    <3>1. Promised(t)
      BY <1>1, <2>1 DEF Promised
    <3>2. info[t].step # "into" /\ info[t].step # "into_my"
      BY <1>1 DEF Over
    <3> QED
      BY <3>1, <3>2 DEF StopOf, PromiseOf, Waits
  <2>2. info[t].step = "over" \/ info[t].step = "over_my"
    BY <1>1 DEF Over
  <2> QED
    BY <1>1, <1>3, <1>5, <2>1, <2>2 DEF PromiseOf
<1> QED
    BY <1>6, <1>7

\* A thread that is resumed with a step: the frame of the step is there, and the frames it
\* can stop in have their events.
LEMMA StopLeaveWait ==
    ASSUME TypeInv, NEW t \in Threads, LeaveWait(t)
    PROVE  WatchOf(t)' /\ PromiseOf(t)'
<1> DEFINE r == Resumed(t)
<1>1. /\ pc[t] = "wait" /\ info[t].state = "run" /\ BackToProgram(t) /\ tracking' = tracking
      /\ \/ /\ event[t] = "return" /\ Pop(t, [info EXCEPT ![t] = r])
            /\ promise' = [promise EXCEPT ![t] =
                   [PromiseFor(t) EXCEPT !.lost = @ \/ r.stop = Depth(t)]]
         \/ /\ event[t] # "return" /\ stack' = stack /\ info' = [info EXCEPT ![t] = r]
            /\ promise' = [promise EXCEPT ![t] = PromiseFor(t)]
      /\ r.step # None =>
             \A d \in 1 .. Depth(t) :
                 d <= BaseOf(t) /\ ~AlwaysSkipCode(stack[t][d].code) =>
                     CodeTracing(r, stack[t][d].code, d, FuncCodeInfo(stack[t][d].code))
                         \subseteq local'[stack[t][d].code]
    BY LeaveWaitFacts
<1>2. /\ r \in Infos /\ r.state = "run" /\ r.step \in Steps \cup {None}
      /\ BaseOf(t) \in 0 .. at[t] /\ at[t] \in 1 .. Depth(t) /\ Depth(t) \in Nat /\ Depth(t) > 0
      /\ r.step \notin Into \cup {None} => r.stop \in 1 .. at[t]
      /\ r.step \in Over \cup {"smart"} => r.stop = at[t]
    BY <1>1, ResumedFacts, ResumedStep, StepStates, ThreadFacts
<1>3. /\ event[t] = "return" => at[t] >= Depth(t) - 1
      /\ event[t] # "return" => at[t] = Depth(t)
    BY <1>1, ThreadFacts DEF Waiting
<1>4. /\ info \in [Threads -> Infos] /\ DOMAIN promise = Threads
    BY OldParts DEF MapTypes
<1>5. PromiseFor(t) \in PromiseType
    BY <1>2 DEF PromiseFor, PromiseType, LostAtOnce, NoPromise
<1>6. /\ PromiseFor(t).step = r.step
      /\ r.step # None => PromiseFor(t).base = BaseOf(t) /\ PromiseFor(t).lost = LostAtOnce(t)
    BY DEF PromiseFor, NoPromise
<1> DEFINE Resumes ==
        /\ promise'[t] \in PromiseType
        /\ promise'[t].step = r.step
        /\ r.step # None =>
               /\ promise'[t].base = BaseOf(t)
               /\ ~promise'[t].lost => ~LostAtOnce(t)
        /\ info'[t].step = r.step
        /\ Depth(t)' \in Nat /\ Depth(t)' <= Depth(t) /\ Depth(t)' <= at[t]
        /\ \A d \in 1 .. Depth(t)' : stack'[t][d].code = stack[t][d].code
        /\ ~promise'[t].lost /\ r.step \notin Into \cup {None} =>
               info'[t].stop = r.stop /\ r.stop \in 1 .. Depth(t)'
<1>7. Resumes
  <2>1. CASE event[t] = "return"
    <3> DEFINE infos == [info EXCEPT ![t] = r]
               lost == PromiseFor(t).lost \/ r.stop = Depth(t)
    <3>1. infos \in [Threads -> Infos] /\ infos[t] = r /\ Pop(t, infos)
      BY <1>1, <1>2, <1>4, <2>1
    <3>2. promise' = [promise EXCEPT ![t] = [PromiseFor(t) EXCEPT !.lost = lost]]
      BY <1>1, <2>1
    <3>3. /\ lost \in BOOLEAN
          /\ ~lost => r.stop # Depth(t) /\ (r.step # None => ~LostAtOnce(t))
      BY <1>6
    <3> HIDE DEF infos, lost
    <3>4. /\ CallersKept(t, Depth(t) - 1) /\ Depth(t)' = Depth(t) - 1
          /\ info'[t] = ForgetFrame(r, Depth(t))
      BY <1>2, <3>1, PopFacts
    <3>5. /\ info'[t].step = r.step
          /\ r.stop # Depth(t) => info'[t].stop = r.stop
      BY <1>2, <3>4, StepStates
    <3>6. /\ promise'[t] \in PromiseType /\ promise'[t].step = r.step
          /\ (r.step # None => promise'[t].base = BaseOf(t)) /\ promise'[t].lost = lost
      <4> DEFINE p == [PromiseFor(t) EXCEPT !.lost = lost]
      <4>1. p \in PromiseType /\ p.step = PromiseFor(t).step /\ p.base = PromiseFor(t).base /\ p.lost = lost
        BY <1>5, <3>3 DEF PromiseType
      <4>2. promise' = [promise EXCEPT ![t] = p]
        BY <3>2
      <4> HIDE DEF p
      <4>3. promise'[t] = p
        BY <1>4, <4>2
      <4> QED
        BY <1>6, <4>1, <4>3
    <3>7. \A d \in 1 .. Depth(t)' : stack'[t][d].code = stack[t][d].code
      BY <3>4 DEF CallersKept
    <3>8. /\ Depth(t)' \in Nat /\ Depth(t)' <= Depth(t) /\ Depth(t)' <= at[t]
      BY <1>2, <1>3, <2>1, <3>4
    <3>9. ~lost /\ r.step \notin Into \cup {None} => r.stop \in 1 .. Depth(t)'
      <4> SUFFICES ASSUME ~lost, r.step \notin Into \cup {None} PROVE r.stop \in 1 .. Depth(t)'
        OBVIOUS
      <4>1. r.stop \in 1 .. at[t] /\ r.stop # Depth(t)
        BY <1>2, <3>3
      <4> QED
        BY <1>2, <3>4, <4>1
    <3> QED
      BY <3>3, <3>5, <3>6, <3>7, <3>8, <3>9
  <2>2. CASE event[t] # "return"
    <3>1. stack' = stack /\ info'[t] = r /\ promise'[t] = PromiseFor(t)
      BY <1>1, <1>4, <2>2
    <3>2. Depth(t)' = Depth(t)
      BY <3>1 DEF Depth
    <3> QED
      BY <1>2, <1>3, <1>5, <1>6, <2>2, <3>1, <3>2
  <2> QED
    BY <2>1, <2>2
<1>8. ~LostAtOnce(t) =>
          /\ tracking
          /\ r.step \notin Into \cup {None} => ~AlwaysSkipCode(stack[t][BaseOf(t)].code)
    BY DEF LostAtOnce
<1>9. /\ r.step \in Into \cup {"smart"} => BaseOf(t) = at[t]
      /\ r.step \notin Into \cup {None} => BaseOf(t) = r.stop
    BY <1>2 DEF BaseOf
<1>10. info'[t].state = "run"
  <2> DEFINE infos == [info EXCEPT ![t] = r]
  <2>1. infos \in [Threads -> Infos] /\ infos[t] = r
    BY <1>2, <1>4
  <2>2. Pop(t, infos) \/ info' = infos
    BY <1>1
  <2> HIDE DEF infos
  <2>3. ASSUME Pop(t, infos) PROVE info'[t] = ForgetFrame(r, Depth(t))
    BY <1>2, <2>1, <2>3, PopFacts
  <2> QED
    BY <1>2, <2>1, <2>2, <2>3, StepStates
<1> HIDE DEF r
<1>11. WatchOf(t)'
  <2> SUFFICES ASSUME Watched(t)'
               PROVE  /\ tracking'
                      /\ info'[t].step \in Into \cup {"smart"} => \A d \in 1 .. Depth(t)' : Traced(t, d)'
    BY DEF WatchOf
  <2>1. r.step # None /\ ~LostAtOnce(t)
    BY <1>7, <1>10 DEF Watched
  <2>2. ASSUME r.step \in Into \cup {"smart"}, NEW d \in 1 .. Depth(t)' PROVE Traced(t, d)'
    <3> DEFINE c == stack[t][d].code
    <3>1. d \in 1 .. Depth(t) /\ d <= BaseOf(t) /\ stack'[t][d].code = c
      BY <1>2, <1>7, <1>9, <2>2
    <3>2. ~AlwaysSkipCode(c) => "LINE" \in local'[c]
      BY <1>1, <2>1, <2>2, <3>1, TracingHas DEF Kinds, r
    <3>3. AlwaysSkipCode(c) => AlwaysFilteredOut(c)
      BY DEF AlwaysSkipCode, AlwaysFilteredOut, ApplyFilesFilter
    <3> QED
      BY <3>1, <3>2, <3>3 DEF Traced, AlwaysFilteredOut
  <2> QED
    BY <1>1, <1>7, <1>8, <2>1, <2>2
<1>12. PromiseOf(t)'
  <2> SUFFICES ASSUME Promised(t)', r.step \notin Into PROVE Waits(t)'
    BY <1>7 DEF PromiseOf
  <2> DEFINE c == stack[t][BaseOf(t)].code
  <2>1. ~promise'[t].lost /\ r.step # None /\ ~LostAtOnce(t)
    BY <1>7 DEF Promised
  <2>2. /\ info'[t].stop = BaseOf(t) /\ BaseOf(t) \in 1 .. Depth(t)' /\ BaseOf(t) = r.stop
        /\ BaseOf(t) \in 1 .. Depth(t) /\ ~AlwaysSkipCode(c)
        /\ stack'[t][BaseOf(t)].code = c
    BY <1>2, <1>7, <1>8, <1>9, <2>1
  <2>3. CodeTracing(r, c, BaseOf(t), FuncCodeInfo(c)) \subseteq local'[c]
    <3>1. BaseOf(t) <= BaseOf(t)
      BY <1>2
    <3> QED
      BY <1>1, <2>1, <2>2, <3>1 DEF r
  <2>4. r.step \in Over \cup Return \cup {"smart"}
    BY <1>2, <2>1, StepKinds
  <2>5. "RETURN" \in local'[c] /\ (r.step \in Over => "LINE" \in local'[c])
    BY <2>2, <2>3, <2>4, TracingHas DEF Kinds
  <2> QED
    BY <1>7, <2>1, <2>2, <2>5 DEF Waits
<1> QED
    BY <1>11, <1>12

\* Whatever a callback ends with, a step or a pause that is not over is still served.
LEMMA StopCallback ==
    ASSUME TypeInv, NEW t \in Threads, StopOf(t), Callback(t)
    PROVE  StopOf(t)'
<1>1. promise[t] \in PromiseType /\ DOMAIN promise = Threads /\ info \in [Threads -> Infos]
    BY OldParts DEF StopOf, PromiseOf, MapTypes
<1>2. CASE Fetch(t)
    BY <1>2, StopFetch
<1>3. CASE ~Fetch(t)
  <2>1. StopMarkOf(t)'
    <3>1. Ends(t)
      BY <1>3, CallbackEffects
    <3> QED
      BY <3>1, StopMarksEnd DEF StopOf, Ends
  <2>2. CASE Goes(t)
    BY <2>1, <2>2, StopGoes DEF StopOf
  <2>3. ASSUME NEW d \in Nat, NEW events \in [Codes -> SUBSET Kinds], SetSuspend(t, d, events)
        PROVE  WatchOf(t)' /\ PromiseOf(t)'
    <3>1. pc' = [pc EXCEPT ![t] = "restart"] /\ promise' = promise
      BY <2>3, SetSuspendFacts
    <3>2. pc'[t] \in Waiting
      BY <3>1, OldParts DEF ThreadTypes, Waiting
    <3> QED
      BY <1>1, <3>1, <3>2, StopWaiting
  <2>4. CASE LeavesLast(t)
    <3> DEFINE infos == [info EXCEPT ![t] = RunThread(info[t])]
    <3>1. Pop(t, infos) /\ promise' = [promise EXCEPT ![t] = NoPromise] /\ Depth(t) > 0
      BY <2>4, ThreadFacts DEF LeavesLast
    <3>2. infos \in [Threads -> Infos] /\ infos[t] = RunThread(info[t])
      BY <1>1, InfoChanges
    <3> HIDE DEF infos
    <3>3. info'[t] = ForgetFrame(RunThread(info[t]), Depth(t)) /\ RunThread(info[t]) \in Infos
      BY <3>1, <3>2, PopFacts
    <3>4. info'[t].step = None
      BY <1>1, <3>3, StepStates
    <3>5. promise'[t].step = None /\ promise'[t] \in PromiseType
      BY <1>1, <3>1 DEF NoPromise, PromiseType
    <3> QED
      BY <2>1, <3>4, <3>5, StopReleased DEF StopOf
  <2>5. CASE pc[t] = "decide" /\ event[t] = "return" /\ (ReturnOfStepFrame(t) \/ ReturnOfOther(t))
    BY <2>1, <2>5, StopReturnOfStepFrame, StopReturnOfOther DEF StopOf
  <2>6. CASE (pc[t] = "decide" /\ WaitSuspended(t)) \/ RestartAfterSuspend(t) \/ EnterWait(t)
    <3>1. /\ pc' = [pc EXCEPT ![t] = "enter"] \/ pc' = [pc EXCEPT ![t] = "wait"]
          /\ promise' = promise \/ promise' = [promise EXCEPT ![t] = NoPromise]
      BY <2>6 DEF WaitSuspended, RestartAfterSuspend, EnterWait
    <3>2. pc'[t] \in Waiting
      BY <3>1, OldParts DEF ThreadTypes, Waiting
    <3>3. promise'[t] \in PromiseType
      <4>1. NoPromise \in PromiseType
        BY DEF NoPromise, PromiseType
      <4> HIDE DEF NoPromise, PromiseType
      <4> QED
        BY <1>1, <3>1, <4>1
    <3> QED
      BY <2>1, <3>2, <3>3, StopWaiting DEF StopOf
  <2>7. CASE LeaveWait(t)
    BY <2>1, <2>7, StopLeaveWait DEF StopOf
  <2>8. ASSUME NEW step, NEW target, StepRequest(t, step, target)
        PROVE  WatchOf(t)' /\ PromiseOf(t)'
    <3>1. pc[t] = "wait" /\ pc' = pc /\ promise'[t] = promise[t]
      BY <2>8 DEF StepRequest, program, Released
    <3> QED
      BY <1>1, <3>1, StopWaiting DEF Waiting
  <2> QED
    BY <1>3, <2>1, <2>2, <2>3, <2>4, <2>5, <2>6, <2>7, <2>8, CallbackCases DEF StopOf
<1> QED
    BY <1>2, <1>3

LEMMA StopAlways == Spec => []StopInv
<1>1. Init => StopInv
  <2> SUFFICES ASSUME Init PROVE StopInv
    OBVIOUS
  <2>1. \A t \in Threads : info[t].step = None /\ info[t].state = "run" /\ promise[t] = NoPromise
                           /\ marks[t] = {}
    BY DEF Init, NewInfo
  <2>2. DisabledInv
    BY <2>1 DEF DisabledInv
  <2>3. ASSUME NEW t \in Threads PROVE StopOf(t)
    <3>1. NoPromise \in PromiseType /\ NoPromise.step = None
      BY DEF NoPromise, PromiseType
    <3> QED
      BY <2>1, <3>1 DEF StopOf, WatchOf, Watched, PromiseOf, Promised, StopMarkOf
  <2> QED
    BY <2>2, <2>3, InitTypes DEF StopInv
<1>2. StopInv /\ [Next]_vars => StopInv'
  <2> SUFFICES ASSUME StopInv, [Next]_vars PROVE StopInv'
    OBVIOUS
  <2> DEFINE Kept == DisabledInv' /\ \A u \in Threads : StopOf(u)'
  <2>1. TypeInv /\ DisabledInv /\ (\A u \in Threads : StopOf(u)) /\ TypeInv'
    BY TypeStep DEF StopInv
  <2>2. ASSUME NEW t \in Threads, Program(t) PROVE Kept
    BY <2>1, <2>2, DisabledProgram, StopProgram, OthersStop
  <2>3. ASSUME NEW t \in Threads, Callback(t) PROVE Kept
    BY <2>1, <2>3, DisabledCallback, StopCallback, OthersStop
  <2>4. ASSUME Command PROVE Kept
    BY <2>1, <2>4, DisabledCommand, CommandsStop
  <2>5. ASSUME UNCHANGED vars PROVE Kept
    <3>1. /\ UNCHANGED <<stack, pc, event, seen, at, info, local, disabled, tracking, cmd, foreign,
                         promise, marks>>
          /\ \A u \in Threads : Unmoved(u) /\ Same(u)
      BY <2>5 DEF vars, program, monitors, history, Unmoved, Same, Depth
    <3>2. DisabledInv'
      BY <2>1, <3>1, DisabledKept DEF RestartPending, HasSteps, DisabledInv
    <3>3. \A u \in Threads : StopOf(u)'
      BY <2>1, <3>1, StopOthers
    <3> QED
      BY <3>2, <3>3
  <2> QED
    BY <2>1, <2>2, <2>3, <2>4, <2>5 DEF Next, StopInv
<1> QED
    BY <1>1, <1>2, PTL DEF Spec

\* A thread that has been resumed with a step does not go past the line where the step has
\* to stop: the events of the frames are on, and the callback for the line ends the step.
THEOREM StepsAreKept == Spec => []StepsStop
<1>1. StopInv => StepsStop
    BY DEF StopInv, StopOf, StopMarkOf, InCallback, StepsStop, Overrun
<1> QED
    BY <1>1, StopAlways, PTL

\* A thread that was asked to pause, by the client or because another thread stopped, does
\* not go past another line of user code.
THEOREM PausesAreKept == Spec => []PausesStop
<1>1. StopInv => PausesStop
    BY DEF StopInv, StopOf, StopMarkOf, InCallback, PausesStop, Overrun
<1> QED
    BY <1>1, StopAlways, PTL
=============================================================================

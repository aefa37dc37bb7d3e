------------------------ MODULE ExceptionStopsProofs ------------------------
(***************************************************************************)
(* Theorems about ExceptionStops, for any codes, exceptions, filters,      *)
(* options, and any bounds on the stack and on tracebacks.                 *)
(***************************************************************************)
EXTENDS ExceptionStops, SequenceTheorems, TLAPS

-----------------------------------------------------------------------------
(***************************************************************************)
(* Types: what TypeOK says, and what a step needs to keep it.              *)
(***************************************************************************)
Traces == {"none", "exception", "dispatch"}
FrameType == [code : Codes, line : 1 .. 4, exc : Excs \cup {None},
              steady : SUBSET Filters, info : NotedType, trace : Traces]
Location == Codes \X (1 .. 4)
FlightType == [exc : Excs \cup {None}, none : BOOLEAN,
               phase : {"run", "raise", "search", "leave", "top", "pop", "boot", "gone"}]
CmdType == [phase : {"idle", "removed", "added", "trace"}, filters : SUBSET Filters]
UnhandledType == [exc : Excs \cup {None}, frame : {0, 1, Gone}]
CountType == [handled : Nat, unhandled : {0, 1}, twice : BOOLEAN]

StackTypes == stack \in Seq(FrameType) /\ Len(stack) <= MaxDepth
TracebackTypes ==
    /\ tb \in [Excs -> Seq(Location)]
    /\ \A e \in Excs : Len(tb[e]) <= MaxTrace
StopTypes ==
    /\ state \in {"run", "suspend"}
    /\ stop \in {None, "pause", "handled", "user", "unhandled"}
    /\ stop # None => state = "suspend"
    /\ count \in CountType
DebuggerTypes ==
    /\ breaks \subseteq Filters /\ events \subseteq {"RAISE", "PY_UNWIND"}
    /\ cmd \in CmdType /\ steady \subseteq Filters
LocalTypes == unhandled \in UnhandledType /\ suspendedAt \in BOOLEAN /\ top \in NotedType

\* What is in flight, and where the frame is that it is in.
FlightInv ==
    /\ flight.phase \in {"raise", "search", "leave", "top", "pop"} => Depth > 0
    /\ flight.phase \in {"boot", "gone"} => Depth = 0
    /\ flight.phase \in {"raise", "search"} =>
         /\ flight.exc # None
         /\ Len(tb[flight.exc]) > 0 /\ tb[flight.exc][1] = Here
    /\ flight.phase = "run" => flight.exc = None
    /\ flight.exc # None => flight.none

TypeInv ==
    /\ config \in Configs
    /\ flight \in FlightType
    /\ StackTypes /\ TracebackTypes /\ StopTypes /\ DebuggerTypes /\ LocalTypes
    /\ FlightInv

LEMMA TypeInvImpliesTypeOK == TypeInv => TypeOK
<1> SUFFICES ASSUME TypeInv PROVE TypeOK
    OBVIOUS
<1>1. \A d \in 1 .. Depth : stack[d] \in FrameType
    BY DEF TypeInv, StackTypes, Depth
<1>2. Depth <= MaxDepth
    BY DEF TypeInv, StackTypes, Depth
<1>3. flight.phase \in {"raise", "search"} => flight.exc # None /\ tb[flight.exc][1] = Here
    BY DEF TypeInv, FlightInv
<1> QED
    BY <1>1, <1>2, <1>3 DEF TypeOK, TypeInv, FrameType, Traces, FlightType, TracebackTypes,
       StopTypes, DebuggerTypes, LocalTypes, UnhandledType

LEMMA ConfigFacts ==
    ASSUME TypeInv
    PROVE  config \in ConfigType
BY ExceptionAssumption DEF TypeInv

LEMMA StackFacts ==
    ASSUME StackTypes
    PROVE  /\ Depth \in Nat
           /\ \A d \in 1 .. Depth : stack[d] \in FrameType
           /\ Depth > 0 => Top \in FrameType /\ Here \in Location
<1>1. Depth \in Nat /\ \A d \in 1 .. Depth : stack[d] \in FrameType
    BY DEF StackTypes, Depth
<1>2. ASSUME Depth > 0 PROVE Top \in FrameType /\ Here \in Location
  <2>1. Top \in FrameType
    BY <1>1, <1>2 DEF Top
  <2> QED
    BY <2>1 DEF Here, Location, FrameType
<1> QED
    BY <1>1, <1>2

\* A step that gives every frame a new value, and one that gives it to the top one.
LEMMA FramesChanged ==
    ASSUME StackTypes, NEW r,
           r = [d \in DOMAIN stack |-> r[d]],
           \A d \in 1 .. Depth : r[d] \in FrameType
    PROVE  r \in Seq(FrameType) /\ Len(r) = Depth /\ Len(r) <= MaxDepth
<1>1. DOMAIN stack = 1 .. Depth /\ Depth \in Nat
    BY DEF StackTypes, Depth
<1>2. r \in Seq(FrameType) /\ Len(r) = Depth
    BY <1>1
<1> QED
    BY <1>1, <1>2 DEF StackTypes, Depth

LEMMA TopChanged ==
    ASSUME StackTypes, Depth > 0, NEW f \in FrameType,
           stack' = [stack EXCEPT ![Depth] = f]
    PROVE  /\ StackTypes' /\ Depth' = Depth /\ Top' = f
           /\ \A d \in 1 .. Depth : d # Depth => stack'[d] = stack[d]
<1>1. Depth \in 1 .. Len(stack) /\ stack \in Seq(FrameType) /\ DOMAIN stack = 1 .. Depth
    BY DEF StackTypes, Depth
<1>2. stack' \in Seq(FrameType) /\ Len(stack') = Len(stack)
    BY <1>1, ExceptSeq
<1> QED
    BY <1>1, <1>2 DEF StackTypes, Depth, Top

\* What the top frame is after its line, its exception and its history changed.
TopIs(l, x, y) ==
    /\ Top'.line = l /\ Top'.exc = x /\ Top'.steady = y
    /\ Top'.code = Top.code /\ Top'.info = Top.info /\ Top'.trace = Top.trace
CallersKept == \A d \in 1 .. Depth : d # Depth => stack'[d] = stack[d]

LEMMA TopChangedThrice ==
    ASSUME StackTypes, Depth > 0,
           NEW l \in 1 .. 4, NEW x \in Excs \cup {None}, NEW y \in SUBSET Filters,
           stack' = [stack EXCEPT ![Depth].line = l, ![Depth].exc = x, ![Depth].steady = y]
    PROVE  StackTypes' /\ Depth' = Depth /\ TopIs(l, x, y) /\ CallersKept
<1> DEFINE f1 == [Top EXCEPT !.line = l]
           f2 == [f1 EXCEPT !.exc = x]
           f == [f2 EXCEPT !.steady = y]
<1>1. Top \in FrameType
    BY StackFacts
<1>2. f1 \in FrameType /\ f1.line = l /\ f1.code = Top.code /\ f1.info = Top.info
      /\ f1.trace = Top.trace
    BY <1>1 DEF FrameType
<1>3. f2 \in FrameType /\ f2.line = l /\ f2.exc = x /\ f2.code = Top.code /\ f2.info = Top.info
      /\ f2.trace = Top.trace
  <2> HIDE DEF f1
  <2> QED
    BY <1>2 DEF FrameType
<1>4. f \in FrameType /\ f.line = l /\ f.exc = x /\ f.steady = y /\ f.code = Top.code
      /\ f.info = Top.info /\ f.trace = Top.trace
  <2> HIDE DEF f2
  <2> QED
    BY <1>3 DEF FrameType
<1>5. stack' = [stack EXCEPT ![Depth] = f]
  <2>1. stack \in Seq(FrameType) /\ Depth \in 1 .. Len(stack)
    BY StackFacts DEF StackTypes, Depth
  <2> DEFINE s1 == [stack EXCEPT ![Depth] = f1]
             s2 == [s1 EXCEPT ![Depth] = f2]
             s3 == [s2 EXCEPT ![Depth] = f]
  <2>2. s1[Depth] = f1 /\ s2[Depth] = f2
    <3> HIDE DEF f1, f2
    <3> QED
      BY <2>1
  <2>3. s3 = [stack EXCEPT ![Depth] = f]
    <3> HIDE DEF f1, f2, f
    <3> QED
      BY <2>1
  <2>4. f1 = [stack[Depth] EXCEPT !.line = l]
    BY DEF Top
  <2>5. stack' = [[s1 EXCEPT ![Depth] = [s1[Depth] EXCEPT !.exc = x]]
          EXCEPT ![Depth] = [[s1 EXCEPT ![Depth] = [s1[Depth] EXCEPT !.exc = x]][Depth]
                              EXCEPT !.steady = y]]
    BY <2>4, Zenon
  <2> QED
    BY <2>2, <2>3, <2>5, Zenon
<1> HIDE DEF f
<1>6. StackTypes' /\ Depth' = Depth /\ Top' = f /\ CallersKept
    BY <1>4, <1>5, TopChanged DEF CallersKept
<1> QED
    BY <1>4, <1>6 DEF TopIs

LEMMA AdvanceFrame ==
    ASSUME StackTypes, NEW l \in {1, 4}, Advance(l)
    PROVE  StackTypes' /\ Depth' = Depth /\ TopIs(l, None, {}) /\ CallersKept
<1>1. Depth > 0 /\ l \in 1 .. 4 /\ None \in Excs \cup {None} /\ {} \in SUBSET Filters
    BY DEF Advance
<1>2. stack' = [stack EXCEPT ![Depth].line = l, ![Depth].exc = None, ![Depth].steady = {}]
    BY DEF Advance
<1> QED
    BY <1>1, <1>2, TopChangedThrice

LEMMA CatchFrame ==
    ASSUME StackTypes, FlightInv, flight \in FlightType, steady \subseteq Filters, Catch
    PROVE  /\ StackTypes' /\ Depth' = Depth /\ CallersKept
           /\ TopIs(3, flight.exc, IF here \cap {"retraced", "paused"} = {} THEN steady ELSE {})
<1> DEFINE y == IF here \cap {"retraced", "paused"} = {} THEN steady ELSE {}
<1>1. Depth > 0 /\ 3 \in 1 .. 4 /\ flight.exc \in Excs \cup {None} /\ y \in SUBSET Filters
    BY DEF Catch, FlightInv, FlightType
<1>2. stack' = [stack EXCEPT ![Depth].line = 3, ![Depth].exc = flight.exc, ![Depth].steady = y]
    BY DEF Catch
<1> HIDE DEF y
<1>3. StackTypes' /\ Depth' = Depth /\ TopIs(3, flight.exc, y) /\ CallersKept
    BY <1>1, <1>2, TopChangedThrice
<1> QED
    BY <1>3 DEF y

LEMMA PassFrame ==
    ASSUME StackTypes, FlightInv, Pass
    PROVE  /\ StackTypes' /\ Depth' = Depth /\ CallersKept
           /\ TopIs(IF Top.line = 1 THEN 2 ELSE Top.line, Top.exc, Top.steady)
<1> DEFINE l == IF Top.line = 1 THEN 2 ELSE Top.line
           f == [Top EXCEPT !.line = l]
<1>1. Depth > 0 /\ Top \in FrameType
    BY StackFacts DEF Pass, FlightInv
<1>2. l \in 1 .. 4
    BY <1>1 DEF FrameType
<1>3. stack' = [stack EXCEPT ![Depth] = f]
    BY DEF Pass, Top
<1>4. f \in FrameType /\ f.line = l /\ f.exc = Top.exc /\ f.steady = Top.steady
      /\ f.code = Top.code /\ f.info = Top.info /\ f.trace = Top.trace
  <2> HIDE DEF l
  <2> QED
    BY <1>1, <1>2 DEF FrameType
<1> HIDE DEF f
<1>5. StackTypes' /\ Depth' = Depth /\ Top' = f /\ CallersKept
    BY <1>1, <1>3, <1>4, TopChanged DEF CallersKept
<1> QED
    BY <1>4, <1>5 DEF TopIs, l

LEMMA CallFrame ==
    ASSUME StackTypes, NEW c \in Codes, Call(c)
    PROVE  /\ StackTypes' /\ Depth' = Depth + 1
           /\ \A d \in 1 .. Depth : stack'[d] = stack[d]
           /\ Top'.code = c /\ Top'.exc = None /\ Top'.info = NoInfo /\ Top'.steady = {}
           /\ Top'.trace \in NewTrace(c)
<1>1. PICK trace \in NewTrace(c) :
        stack' = Append(stack, [code |-> c, line |-> 1, exc |-> None, info |-> NoInfo,
                                trace |-> trace, steady |-> {}])
    BY DEF Call
<1> DEFINE f == [code |-> c, line |-> 1, exc |-> None, info |-> NoInfo,
                 trace |-> trace, steady |-> {}]
<1>2. f \in FrameType
  <2>1. trace \in Traces
    BY DEF NewTrace, Traces
  <2>2. NoInfo \in NotedType
    BY DEF NoInfo, NotedType
  <2> QED
    BY <2>1, <2>2 DEF FrameType
<1>3. stack \in Seq(FrameType) /\ Len(stack) < MaxDepth /\ MaxDepth \in Nat /\ Len(stack) \in Nat
    BY ExceptionAssumption DEF StackTypes, Call, Depth
<1>4. f.code = c /\ f.exc = None /\ f.info = NoInfo /\ f.steady = {} /\ f.trace \in NewTrace(c)
    OBVIOUS
<1>5. stack' = Append(stack, f)
    BY <1>1
<1> HIDE DEF f
<1>6. stack' \in Seq(FrameType) /\ Len(stack') = Len(stack) + 1 /\ stack'[Len(stack) + 1] = f
      /\ \A d \in 1 .. Len(stack) : stack'[d] = stack[d]
    BY <1>2, <1>3, <1>5
<1>7. Depth' = Depth + 1 /\ Top' = f /\ StackTypes'
    BY <1>3, <1>6 DEF StackTypes, Depth, Top
<1> QED
    BY <1>4, <1>6, <1>7 DEF Depth

LEMMA PopFrame ==
    ASSUME StackTypes, FlightInv, Pop
    PROVE  /\ StackTypes' /\ Depth' = Depth - 1 /\ Depth > 0
           /\ \A d \in 1 .. Depth - 1 : stack'[d] = stack[d]
<1>1. Depth > 0 /\ Depth \in Nat /\ \A d \in 1 .. Depth - 1 : stack[d] \in FrameType
    BY StackFacts DEF Pop, FlightInv
<1>2. stack' = SubSeq(stack, 1, Depth - 1)
    BY DEF Pop
<1>3. Depth - 1 \in Int /\ 1 \in Int
    BY <1>1
<1>4. /\ stack' \in Seq(FrameType)
      /\ Len(stack') = IF 1 <= Depth - 1 THEN Depth - 1 - 1 + 1 ELSE 0
      /\ \A i \in 1 .. Depth - 1 - 1 + 1 : stack'[i] = stack[1 + i - 1]
    BY <1>1, <1>2, <1>3, SubSeqProperties
<1>5. Len(stack') = Depth - 1
    BY <1>1, <1>4
<1>6. \A d \in 1 .. Depth - 1 : stack'[d] = stack[d]
    BY <1>1, <1>4
<1>7. Len(stack) <= MaxDepth /\ Len(stack) = Depth /\ MaxDepth \in Nat
    BY ExceptionAssumption DEF StackTypes, Depth
<1> QED
    BY <1>1, <1>4, <1>5, <1>6, <1>7 DEF StackTypes, Depth

\* A frame that is traced anew.
Renewed(f, g) ==
    /\ g.code = f.code /\ g.line = f.line /\ g.exc = f.exc
    /\ g.info = NoInfo /\ g.steady = {}
    /\ g.trace = IF ApplyFilesFilter(f.code, FALSE) THEN "none" ELSE "dispatch"

LEMMA RetracedFacts ==
    ASSUME NEW s \in Seq(FrameType), NEW k
    PROVE  /\ Retraced(s, k) \in Seq(FrameType) /\ Len(Retraced(s, k)) = Len(s)
           /\ \A d \in 1 .. Len(s) :
                IF d <= k /\ ~config.monitoring
                THEN Renewed(s[d], Retraced(s, k)[d])
                ELSE Retraced(s, k)[d] = s[d]
<1> DEFINE Trace(f) == IF ApplyFilesFilter(f.code, FALSE) THEN "none" ELSE "dispatch"
           Anew(f) == [[[f EXCEPT !.info = NoInfo] EXCEPT !.steady = {}] EXCEPT !.trace = Trace(f)]
           r == Retraced(s, k)
<1>1. NoInfo \in NotedType
    BY DEF NoInfo, NotedType
<1>2. ASSUME NEW f \in FrameType PROVE Anew(f) \in FrameType /\ Renewed(f, Anew(f))
  <2> DEFINE f1 == [f EXCEPT !.info = NoInfo]
             f2 == [f1 EXCEPT !.steady = {}]
             f3 == [f2 EXCEPT !.trace = Trace(f)]
  <2>1. f1 \in FrameType /\ f1.info = NoInfo /\ f1.code = f.code /\ f1.line = f.line
        /\ f1.exc = f.exc
    BY <1>1 DEF FrameType
  <2>2. f2 \in FrameType /\ f2.info = NoInfo /\ f2.steady = {} /\ f2.code = f.code
        /\ f2.line = f.line /\ f2.exc = f.exc
    <3> HIDE DEF f1
    <3> QED
      BY <2>1 DEF FrameType
  <2>3. Trace(f) \in Traces
    BY DEF Traces
  <2>4. f3 \in FrameType /\ f3.info = NoInfo /\ f3.steady = {} /\ f3.trace = Trace(f)
        /\ f3.code = f.code /\ f3.line = f.line /\ f3.exc = f.exc
    <3> HIDE DEF f2, Trace
    <3> QED
      BY <2>2, <2>3 DEF FrameType
  <2> QED
    BY <2>4 DEF Renewed
<1>3. r = [d \in DOMAIN s |-> IF d <= k /\ ~config.monitoring THEN Anew(s[d]) ELSE s[d]]
    BY DEF Retraced
<1>4. \A d \in DOMAIN s : s[d] \in FrameType
    OBVIOUS
<1>5. DOMAIN s = 1 .. Len(s)
    OBVIOUS
<1> HIDE DEF r, Anew
<1>6. \A d \in 1 .. Len(s) :
        /\ r[d] \in FrameType
        /\ IF d <= k /\ ~config.monitoring THEN Renewed(s[d], r[d]) ELSE r[d] = s[d]
    BY <1>2, <1>3, <1>4, <1>5
<1>7. r \in Seq(FrameType) /\ Len(r) = Len(s)
  <2>1. Len(s) \in Nat
    OBVIOUS
  <2>2. r = [d \in 1 .. Len(s) |-> r[d]]
    BY <1>3, <1>5
  <2> QED
    BY <1>6, <2>1, <2>2
<1> QED
    BY <1>6, <1>7 DEF r

LEMMA NotedIsTyped ==
    ASSUME flight.exc \in Excs, NEW i \in NotedType, NEW l \in 1 .. 4
    PROVE  /\ Noted(i, l) \in NotedType /\ Noted(i, l) # NoInfo
           /\ Noted(i, l).exc = flight.exc /\ Noted(i, l).last = l
           /\ Noted(i, l).lines = i.lines \cup {l}
BY ExceptionAssumption DEF Noted, NotedType, NoInfo

\* An exception is noted in the frame it came to; and a stop for it traces the
\* frames below anew.
Notes == Top.trace # "none" /\ UserUncaught
Retraces == Top.trace # "none" /\ StopOnCaught /\ ~IgnoredInLine(flight.exc, Here)

LEMMA ExceptionFrame ==
    ASSUME StackTypes, FlightInv, flight \in FlightType, ExceptionEvent
    PROVE  /\ StackTypes' /\ Depth' = Depth /\ Depth > 0
           /\ Top'.code = Top.code /\ Top'.line = Top.line /\ Top'.exc = Top.exc
           /\ Top'.steady = Top.steady
           /\ Top'.info = IF Notes THEN Noted(Top.info, Top.line) ELSE Top.info
           /\ Top'.trace = IF Retraces THEN "dispatch" ELSE Top.trace
           /\ \A d \in 1 .. Depth - 1 :
                IF Retraces THEN Renewed(stack[d], stack'[d]) ELSE stack'[d] = stack[d]
<1> DEFINE f1 == [Top EXCEPT !.info = Noted(Top.info, Top.line)]
           noted == IF Notes THEN [stack EXCEPT ![Depth] = f1] ELSE stack
           again == Retraced(noted, Depth - 1)
           f2 == [again[Depth] EXCEPT !.trace = "dispatch"]
<1>1. /\ stack \in Seq(FrameType) /\ Depth = Len(stack) /\ Depth \in 1 .. Len(stack)
      /\ Depth <= MaxDepth /\ Top \in FrameType /\ ~config.monitoring
      /\ flight.exc \in Excs
    BY StackFacts DEF StackTypes, FlightInv, ExceptionEvent, Depth, FlightType
<1>2. stack' = IF Retraces THEN [again EXCEPT ![Depth] = f2] ELSE noted
    BY DEF ExceptionEvent, Retraces, Notes, Top
<1>3. Noted(Top.info, Top.line) \in NotedType
  <2>1. Top.info \in NotedType /\ Top.line \in 1 .. 4
    BY <1>1 DEF FrameType
  <2> QED
    BY <1>1, <2>1, NotedIsTyped
<1>4. f1 \in FrameType /\ f1.info = Noted(Top.info, Top.line) /\ f1.code = Top.code
      /\ f1.line = Top.line /\ f1.exc = Top.exc /\ f1.steady = Top.steady /\ f1.trace = Top.trace
    BY <1>1, <1>3 DEF FrameType
<1> HIDE DEF f1
<1>5. /\ noted \in Seq(FrameType) /\ Len(noted) = Depth
      /\ noted[Depth].info = IF Notes THEN Noted(Top.info, Top.line) ELSE Top.info
      /\ noted[Depth].code = Top.code /\ noted[Depth].line = Top.line
      /\ noted[Depth].exc = Top.exc /\ noted[Depth].steady = Top.steady
      /\ noted[Depth].trace = Top.trace
      /\ \A d \in 1 .. Depth - 1 : noted[d] = stack[d]
  <2>1. CASE Notes
    <3>1. noted = [stack EXCEPT ![Depth] = f1]
      BY <2>1
    <3>2. noted \in Seq(FrameType) /\ Len(noted) = Depth
      BY <3>1, <1>1, <1>4, ExceptSeq
    <3>3. noted[Depth] = f1 /\ \A d \in 1 .. Depth - 1 : noted[d] = stack[d]
      BY <3>1, <1>1
    <3> QED
      BY <2>1, <3>2, <3>3, <1>4
  <2>2. CASE ~Notes
    BY <2>2, <1>1 DEF Top
  <2> QED
    BY <2>1, <2>2
<1> HIDE DEF noted
<1>6. /\ again \in Seq(FrameType) /\ Len(again) = Depth /\ again[Depth] = noted[Depth]
      /\ \A d \in 1 .. Depth - 1 : Renewed(stack[d], again[d])
    BY <1>1, <1>5, RetracedFacts
<1>7. f2 \in FrameType /\ f2.trace = "dispatch" /\ f2.info = again[Depth].info
      /\ f2.code = again[Depth].code /\ f2.line = again[Depth].line
      /\ f2.exc = again[Depth].exc /\ f2.steady = again[Depth].steady
  <2>1. again[Depth] \in FrameType
    BY <1>6, <1>1
  <2> HIDE DEF again
  <2> QED
    BY <2>1 DEF FrameType, Traces
<1> HIDE DEF again, f2
<1>8. CASE Retraces
  <2>1. stack' = [again EXCEPT ![Depth] = f2]
    BY <1>2, <1>8
  <2>2. stack' \in Seq(FrameType) /\ Len(stack') = Depth
    BY <2>1, <1>1, <1>6, <1>7, ExceptSeq
  <2>3. stack'[Depth] = f2 /\ \A d \in 1 .. Depth - 1 : stack'[d] = again[d]
    BY <2>1, <1>1, <1>6
  <2>4. Depth' = Depth /\ Top' = f2 /\ StackTypes'
    BY <2>2, <2>3, <1>1 DEF Depth, Top, StackTypes
  <2> QED
    BY <1>8, <2>3, <2>4, <1>1, <1>5, <1>6, <1>7
<1>9. CASE ~Retraces
  <2>1. stack' = noted
    BY <1>2, <1>9
  <2>2. Depth' = Depth /\ Top' = noted[Depth] /\ StackTypes'
    BY <2>1, <1>1, <1>5 DEF Depth, Top, StackTypes
  <2> QED
    BY <1>9, <2>1, <2>2, <1>1, <1>5
<1> QED
    BY <1>8, <1>9

\* The frame returns for an exception that it noted, and the report is not ignored.
Reason ==
    /\ Top.info # NoInfo
    /\ \/ Top.trace = "dispatch"
       \/ Top.trace = "exception" /\ flight.none /\ IsUnhandled(Top.info)
Reports == Reason /\ ~IgnoredInLine(Top.info.exc, <<Top.code, Top.info.last>>)

LEMMA ReturnFrame ==
    ASSUME StackTypes, FlightInv, ReturnEvent
    PROVE  /\ StackTypes' /\ Depth' = Depth /\ Depth > 0 /\ Top' = Top
           /\ \A d \in 1 .. Depth - 1 :
                IF Reports THEN Renewed(stack[d], stack'[d]) ELSE stack'[d] = stack[d]
<1>1. /\ stack \in Seq(FrameType) /\ Depth = Len(stack) /\ Depth \in 1 .. Len(stack)
      /\ Depth <= MaxDepth /\ ~config.monitoring
    BY StackFacts DEF StackTypes, FlightInv, ReturnEvent, Depth
<1>2. stack' = IF Reports THEN Retraced(stack, Depth - 1) ELSE stack
    BY DEF ReturnEvent, Reports, Reason
<1>3. CASE Reports
  <2>1. /\ stack' \in Seq(FrameType) /\ Len(stack') = Depth /\ stack'[Depth] = stack[Depth]
        /\ \A d \in 1 .. Depth - 1 : Renewed(stack[d], stack'[d])
    BY <1>1, <1>2, <1>3, RetracedFacts
  <2> QED
    BY <2>1, <1>1, <1>3 DEF StackTypes, Depth, Top
<1>4. CASE ~Reports
    BY <1>1, <1>2, <1>4 DEF StackTypes, Depth, Top
<1> QED
    BY <1>3, <1>4

LEMMA RetraceFrame ==
    ASSUME StackTypes, stack' = Retraced(stack, Depth)
    PROVE  /\ StackTypes' /\ Depth' = Depth
           /\ \A d \in 1 .. Depth :
                IF config.monitoring THEN stack'[d] = stack[d] ELSE Renewed(stack[d], stack'[d])
<1>1. stack \in Seq(FrameType) /\ Depth = Len(stack) /\ Len(stack) <= MaxDepth /\ Depth \in Nat
    BY StackFacts DEF StackTypes, Depth
<1>2. /\ stack' \in Seq(FrameType) /\ Len(stack') = Depth
      /\ \A d \in 1 .. Depth :
           IF config.monitoring THEN stack'[d] = stack[d] ELSE Renewed(stack[d], stack'[d])
    BY <1>1, RetracedFacts
<1> QED
    BY <1>1, <1>2 DEF StackTypes, Depth

LEMMA UnsteadyFrame ==
    ASSUME StackTypes, NEW filters, RemoveAllExceptionBreakpoints(filters)
    PROVE  /\ StackTypes' /\ Depth' = Depth
           /\ \A d \in 1 .. Depth :
                /\ stack'[d].code = stack[d].code /\ stack'[d].line = stack[d].line
                /\ stack'[d].exc = stack[d].exc /\ stack'[d].info = stack[d].info
                /\ stack'[d].trace = stack[d].trace /\ stack'[d].steady = {}
<1>1. /\ stack \in Seq(FrameType) /\ Depth = Len(stack) /\ Len(stack) <= MaxDepth
      /\ Depth \in Nat /\ DOMAIN stack = 1 .. Depth
      /\ \A d \in 1 .. Depth : stack[d] \in FrameType
    BY StackFacts DEF StackTypes, Depth
<1>2. stack' = [d \in DOMAIN stack |-> [stack[d] EXCEPT !.steady = {}]]
    BY DEF RemoveAllExceptionBreakpoints
<1>3. ASSUME NEW f \in FrameType
      PROVE  /\ [f EXCEPT !.steady = {}] \in FrameType
             /\ [f EXCEPT !.steady = {}].code = f.code /\ [f EXCEPT !.steady = {}].line = f.line
             /\ [f EXCEPT !.steady = {}].exc = f.exc /\ [f EXCEPT !.steady = {}].info = f.info
             /\ [f EXCEPT !.steady = {}].trace = f.trace /\ [f EXCEPT !.steady = {}].steady = {}
    BY DEF FrameType
<1>4. \A d \in 1 .. Depth :
        /\ stack'[d] \in FrameType
        /\ stack'[d].code = stack[d].code /\ stack'[d].line = stack[d].line
        /\ stack'[d].exc = stack[d].exc /\ stack'[d].info = stack[d].info
        /\ stack'[d].trace = stack[d].trace /\ stack'[d].steady = {}
    BY <1>1, <1>2, <1>3
<1>5. stack' \in Seq(FrameType) /\ Len(stack') = Depth
    BY <1>1, <1>2, <1>4
<1> QED
    BY <1>1, <1>4, <1>5 DEF StackTypes, Depth

LEMMA ToFacts ==
    ASSUME flight \in FlightType, NEW p \in {"run", "raise", "search", "leave", "top", "pop", "boot", "gone"},
           To(p)
    PROVE  /\ flight' \in FlightType /\ flight'.phase = p
           /\ flight'.exc = flight.exc /\ flight'.none = flight.none
BY DEF To, FlightType

LEMMA TakeOffFacts ==
    ASSUME NEW e \in Excs, NEW p \in {"raise", "leave"}, TakeOff(e, p)
    PROVE  /\ flight' \in FlightType /\ flight'.phase = p /\ flight'.exc = e /\ flight'.none
           /\ here' = {} /\ count' = NoCount
BY DEF TakeOff, FlightType

\* An event stops the thread, or does not.
Reporting ==
    \/ UNCHANGED <<state, stop, count>>
    \/ \E type \in {"handled", "user", "unhandled"} : Suspend(type)

LEMMA EventsReport == Event => Reporting
<1>1. RaiseEvent => Reporting
    BY DEF RaiseEvent, HandleException, NoStop, Reporting
<1>2. UnwindEvent => Reporting
    BY DEF UnwindEvent, UnwindUser, UnwindUncaught, UnwindNothing, HandleException, NoStop, Reporting
<1>3. ExceptionEvent => Reporting
    BY DEF ExceptionEvent, HandleException, NoStop, Reporting
<1>4. ReturnEvent => Reporting
    BY DEF ReturnEvent, HandleException, NoStop, Reporting
<1>5. TopLevelReturn => Reporting
    BY DEF TopLevelReturn, Reporting
<1>6. TopLevelException => Reporting
    BY DEF TopLevelException, Reporting
<1> QED
    BY <1>1, <1>2, <1>3, <1>4, <1>5, <1>6 DEF Event

LEMMA ReportingTyped == StopTypes /\ Reporting => StopTypes'
<1> SUFFICES ASSUME StopTypes, Reporting PROVE StopTypes'
    OBVIOUS
<1>1. CASE UNCHANGED <<state, stop, count>>
    BY <1>1 DEF StopTypes
<1>2. ASSUME NEW type \in {"handled", "user", "unhandled"}, Suspend(type) PROVE StopTypes'
  <2>1. count.handled \in Nat /\ count.unhandled \in {0, 1} /\ count.twice \in BOOLEAN
    BY DEF StopTypes, CountType
  <2>2. count' \in CountType
    <3> DEFINE h == IF type = "handled" /\ count.handled < 2
                    THEN count.handled + 1 ELSE count.handled
               n == IF type = "unhandled" THEN 1 ELSE count.unhandled
               t == \/ count.twice
                    \/ type = "unhandled" /\ (count.unhandled = 1 \/ "user" \in here)
    <3>1. h \in Nat /\ n \in {0, 1}
      BY <2>1
    <3>2. t \in BOOLEAN
      OBVIOUS
    <3>3. count' = [handled |-> h, unhandled |-> n, twice |-> t]
      BY <1>2 DEF Suspend
    <3> HIDE DEF h, n, t
    <3> QED
      BY <3>1, <3>2, <3>3 DEF CountType
  <2> QED
    BY <1>2, <2>2 DEF Suspend, StopTypes
<1> QED
    BY <1>1, <1>2 DEF Reporting

LEMMA StopTyped == TypeInv /\ Next => StopTypes'
<1> SUFFICES ASSUME TypeInv, Next PROVE StopTypes'
    OBVIOUS
<1>t. StopTypes /\ NoCount \in CountType
    BY DEF TypeInv, NoCount, CountType
<1>1. ASSUME NEW c \in Codes, Call(c) PROVE StopTypes'
    BY <1>1, <1>t DEF Call, StopTypes
<1>2. ASSUME NEW l \in {1, 4}, Advance(l) PROVE StopTypes'
    BY <1>2, <1>t DEF Advance, StopTypes
<1>3. ASSUME NEW e \in Excs, RaiseNew(e) \/ RaiseOld(e) PROVE StopTypes'
    BY <1>3, <1>t DEF RaiseNew, RaiseOld, TakeOff, StopTypes
<1>4. CASE Reraise \/ Catch \/ Pass \/ Pop \/ Restart
    BY <1>4, <1>t DEF Reraise, Catch, Pass, Pop, Restart, TakeOff, StopTypes
<1>5. ASSUME NEW none \in BOOLEAN, ReturnFrom(none) PROVE StopTypes'
    BY <1>5, <1>t DEF ReturnFrom, StopTypes
<1>6. CASE Event
    BY <1>6, <1>t, EventsReport, ReportingTyped
<1>7. CASE Command
  <2>1. UNCHANGED <<state, stop, count>> \/ Pause \/ Resume
    BY <1>7 DEF Command, RemoveAllExceptionBreakpoints, AddBreakOnException,
       UpdateMonitorEvents, TraceExistingFrames, LineBreakpointAdded
  <2> QED
    BY <2>1, <1>t DEF StopTypes, Pause, Resume
<1> QED
    BY <1>1, <1>2, <1>3, <1>4, <1>5, <1>6, <1>7 DEF Next, Program

LEMMA FlightTyped == TypeInv /\ Next => flight' \in FlightType
<1> SUFFICES ASSUME TypeInv, Next PROVE flight' \in FlightType
    OBVIOUS
<1>t. flight \in FlightType /\ Running \in FlightType
    BY DEF TypeInv, Running, FlightType
<1>1. ASSUME NEW e \in Excs, RaiseNew(e) \/ RaiseOld(e) PROVE flight' \in FlightType
    BY <1>1, TakeOffFacts DEF RaiseNew, RaiseOld
<1>2. CASE Reraise
  <2>1. Top.exc \in Excs
    BY <1>2, StackFacts DEF Reraise, TypeInv, FrameType
  <2> QED
    BY <1>2, <2>1, TakeOffFacts DEF Reraise
<1>3. CASE Catch \/ Restart
    BY <1>3, <1>t DEF Catch, Restart
<1>4. CASE Pass
    BY <1>4, <1>t, ToFacts DEF Pass, To
<1>5. ASSUME NEW none \in BOOLEAN, ReturnFrom(none) PROVE flight' \in FlightType
    BY <1>5 DEF ReturnFrom, FlightType
<1>6. CASE Pop
  <2>1. flight' = Running \/ To("boot") \/ To("raise")
    BY <1>6 DEF Pop, To
  <2> QED
    BY <2>1, <1>t, ToFacts
<1>7. CASE Event
  <2>1. To("search") \/ To("pop") \/ To("top") \/ To("gone")
    BY <1>7 DEF Event, RaiseEvent, UnwindEvent, ExceptionEvent, ReturnEvent, TopLevelReturn,
       TopLevelException
  <2> QED
    BY <2>1, <1>t, ToFacts
<1>8. CASE Command
    BY <1>8, <1>t DEF Command, RemoveAllExceptionBreakpoints, AddBreakOnException,
       UpdateMonitorEvents, TraceExistingFrames, LineBreakpointAdded, Pause, Resume
<1>9. CASE \/ \E c \in Codes : Call(c)
           \/ \E l \in {1, 4} : Advance(l)
    BY <1>9, <1>t DEF Call, Advance
<1> QED
    BY <1>1, <1>2, <1>3, <1>4, <1>5, <1>6, <1>7, <1>8, <1>9 DEF Next, Program

LEMMA StackTyped == TypeInv /\ Next => StackTypes'
<1> SUFFICES ASSUME TypeInv, Next PROVE StackTypes'
    OBVIOUS
<1>t. StackTypes /\ FlightInv /\ flight \in FlightType /\ steady \subseteq Filters
    BY DEF TypeInv, DebuggerTypes
<1>1. ASSUME NEW c \in Codes, Call(c) PROVE StackTypes'
    BY <1>1, <1>t, CallFrame
<1>2. ASSUME NEW l \in {1, 4}, Advance(l) PROVE StackTypes'
    BY <1>2, <1>t, AdvanceFrame
<1>3. CASE Catch
    BY <1>3, <1>t, CatchFrame
<1>4. CASE Pass
    BY <1>4, <1>t, PassFrame
<1>5. CASE Pop
    BY <1>5, <1>t, PopFrame
<1>6. CASE ExceptionEvent
    BY <1>6, <1>t, ExceptionFrame
<1>7. CASE ReturnEvent
    BY <1>7, <1>t, ReturnFrame
<1>8. CASE TraceExistingFrames \/ LineBreakpointAdded
    BY <1>8, <1>t, RetraceFrame DEF TraceExistingFrames, LineBreakpointAdded
<1>9. ASSUME NEW filters \in FilterSets, RemoveAllExceptionBreakpoints(filters)
      PROVE  StackTypes'
    BY <1>9, <1>t, UnsteadyFrame
<1>10. CASE \/ \E e \in Excs : RaiseNew(e) \/ RaiseOld(e)
            \/ Reraise \/ Restart
            \/ \E none \in BOOLEAN : ReturnFrom(none)
    BY <1>10, <1>t DEF RaiseNew, RaiseOld, Reraise, Restart, ReturnFrom, StackTypes
<1>11. CASE \/ RaiseEvent \/ UnwindEvent \/ TopLevelReturn \/ TopLevelException
            \/ AddBreakOnException \/ UpdateMonitorEvents \/ Pause \/ Resume
    BY <1>11, <1>t DEF RaiseEvent, UnwindEvent, TopLevelReturn, TopLevelException,
       AddBreakOnException, UpdateMonitorEvents, Pause, Resume, StackTypes
<1> QED
    BY <1>1, <1>2, <1>3, <1>4, <1>5, <1>6, <1>7, <1>8, <1>9, <1>10, <1>11
       DEF Next, Program, Event, Command

\* An entry is put in front of a traceback.
LEMMA TracebackLonger ==
    ASSUME TracebackTypes, NEW e \in Excs, NEW loc \in Location, Len(tb[e]) < MaxTrace,
           tb' = [tb EXCEPT ![e] = <<loc>> \o @]
    PROVE  /\ TracebackTypes'
           /\ Len(tb'[e]) = Len(tb[e]) + 1 /\ tb'[e][1] = loc
<1>1. tb[e] \in Seq(Location) /\ <<loc>> \in Seq(Location) /\ Len(tb[e]) \in Nat
    BY DEF TracebackTypes
<1>2. /\ <<loc>> \o tb[e] \in Seq(Location) /\ Len(<<loc>> \o tb[e]) = Len(tb[e]) + 1
      /\ (<<loc>> \o tb[e])[1] = loc
    BY <1>1
<1>3. tb'[e] = <<loc>> \o tb[e] /\ \A x \in Excs \ {e} : tb'[x] = tb[x]
    BY DEF TracebackTypes
<1>4. tb' \in [Excs -> Seq(Location)]
    BY <1>2 DEF TracebackTypes
<1>5. \A x \in Excs : Len(tb'[x]) <= MaxTrace
    BY <1>1, <1>2, <1>3, ExceptionAssumption DEF TracebackTypes
<1> QED
    BY <1>2, <1>3, <1>4, <1>5 DEF TracebackTypes

LEMMA TracebackNew ==
    ASSUME TypeInv, NEW e \in Excs, RaiseNew(e)
    PROVE  TracebackTypes' /\ Len(tb'[e]) = 1 /\ tb'[e][1] = Here
<1>1. Here \in Location
    BY StackFacts DEF RaiseNew, TypeInv
<1>2. <<Here>> \in Seq(Location) /\ Len(<<Here>>) = 1 /\ <<Here>>[1] = Here
    BY <1>1
<1>3. tb' = [tb EXCEPT ![e] = <<Here>>] /\ tb \in [Excs -> Seq(Location)]
    BY DEF RaiseNew, TypeInv, TracebackTypes
<1>4. tb'[e] = <<Here>> /\ \A x \in Excs \ {e} : tb'[x] = tb[x]
    BY <1>3
<1>5. tb' \in [Excs -> Seq(Location)]
    BY <1>2, <1>3
<1>6. \A x \in Excs : Len(tb'[x]) <= MaxTrace
  <2>1. \A x \in Excs : Len(tb[x]) <= MaxTrace
    BY DEF TypeInv, TracebackTypes
  <2>2. 1 <= MaxTrace
    BY ExceptionAssumption
  <2> QED
    BY <1>2, <1>4, <2>1, <2>2
<1> QED
    BY <1>2, <1>4, <1>5, <1>6 DEF TracebackTypes

LEMMA TracebackOld ==
    ASSUME TypeInv, NEW e \in Excs, RaiseOld(e)
    PROVE  TracebackTypes' /\ Len(tb'[e]) = Len(tb[e]) + 1 /\ tb'[e][1] = Here
<1>1. Here \in Location
    BY StackFacts DEF RaiseOld, TypeInv
<1> QED
    BY <1>1, TracebackLonger DEF RaiseOld, TypeInv

\* The exception comes to the caller, or there is none.
LEMMA TracebackPop ==
    ASSUME TypeInv, Pop
    PROVE  /\ TracebackTypes'
           /\ IF flight.exc # None /\ Depth > 1
              THEN /\ Len(tb'[flight.exc]) = Len(tb[flight.exc]) + 1
                   /\ tb'[flight.exc][1] = Here'
              ELSE tb' = tb
<1>1. CASE flight.exc # None /\ Depth > 1
  <2>1. flight.exc \in Excs /\ Len(tb[flight.exc]) < MaxTrace
    BY <1>1 DEF TypeInv, FlightType, Pop
  <2>2. /\ Depth \in Nat /\ Depth' = Depth - 1 /\ stack'[Depth - 1] = stack[Depth - 1]
        /\ stack[Depth - 1] \in FrameType
    BY <1>1, StackFacts, PopFrame DEF TypeInv
  <2> DEFINE loc == <<stack[Depth - 1].code, stack[Depth - 1].line>>
  <2>3. loc \in Location
    BY <2>2 DEF FrameType, Location
  <2>4. loc = Here'
    BY <2>2 DEF Here, Top
  <2>5. tb' = [tb EXCEPT ![flight.exc] = <<loc>> \o @]
    BY <1>1 DEF Pop
  <2>6. TracebackTypes
    BY DEF TypeInv
  <2> HIDE DEF loc
  <2> QED
    BY <1>1, <2>1, <2>3, <2>4, <2>5, <2>6, TracebackLonger
<1>2. CASE ~(flight.exc # None /\ Depth > 1)
  <2>1. tb' = tb
    BY <1>2 DEF Pop
  <2> QED
    BY <1>2, <2>1 DEF TypeInv, TracebackTypes
<1> QED
    BY <1>1, <1>2

LEMMA TracebackKept ==
    ASSUME Next
    PROVE  UNCHANGED tb \/ (\E e \in Excs : RaiseNew(e) \/ RaiseOld(e)) \/ Pop
BY DEF Next, Program, Event, Command, Call, Advance, Reraise, Catch, Pass, ReturnFrom, Restart,
   RaiseEvent, UnwindEvent, ExceptionEvent, ReturnEvent, TopLevelReturn, TopLevelException,
   RemoveAllExceptionBreakpoints, AddBreakOnException, UpdateMonitorEvents,
   TraceExistingFrames, LineBreakpointAdded, Pause, Resume

LEMMA TracebackTyped == TypeInv /\ Next => TracebackTypes'
<1> SUFFICES ASSUME TypeInv, Next PROVE TracebackTypes'
    OBVIOUS
<1>1. CASE UNCHANGED tb
    BY <1>1 DEF TypeInv, TracebackTypes
<1> QED
    BY <1>1, TracebackKept, TracebackNew, TracebackOld, TracebackPop

LEMMA DebuggerTyped == TypeInv /\ Next => DebuggerTypes'
<1> SUFFICES ASSUME TypeInv, Next PROVE DebuggerTypes'
    OBVIOUS
<1>t. DebuggerTypes /\ flight \in FlightType
    BY DEF TypeInv
<1>1. CASE \/ \E c \in Codes : Call(c)
           \/ \E l \in {1, 4} : Advance(l)
           \/ Catch \/ Pass \/ Pop \/ Restart
           \/ \E none \in BOOLEAN : ReturnFrom(none)
    BY <1>1, <1>t DEF Call, Advance, Catch, Pass, Pop, Restart, ReturnFrom, debugger, DebuggerTypes
<1>2. ASSUME NEW e \in Excs, RaiseNew(e) \/ RaiseOld(e) PROVE DebuggerTypes'
    BY <1>2, <1>t DEF RaiseNew, RaiseOld, Steady, debugger, DebuggerTypes
<1>3. CASE Reraise
  <2>1. Top.steady \subseteq Filters
    BY <1>3, StackFacts DEF Reraise, TypeInv, FrameType
  <2> QED
    BY <1>3, <2>1, <1>t DEF Reraise, debugger, DebuggerTypes
<1>4. CASE Event
    BY <1>4, <1>t DEF Event, RaiseEvent, UnwindEvent, ExceptionEvent, ReturnEvent,
       TopLevelReturn, TopLevelException, debugger, DebuggerTypes
<1>5. ASSUME NEW filters \in FilterSets, RemoveAllExceptionBreakpoints(filters)
      PROVE  DebuggerTypes'
  <2>1. filters \in SUBSET Filters
    BY ExceptionAssumption
  <2> QED
    BY <1>5, <2>1, <1>t DEF RemoveAllExceptionBreakpoints, DebuggerTypes, CmdType
<1>6. CASE AddBreakOnException
    BY <1>6, <1>t DEF AddBreakOnException, DebuggerTypes, CmdType
<1>7. CASE UpdateMonitorEvents
  <2>1. RequiredEvents \subseteq {"RAISE", "PY_UNWIND"}
    BY DEF RequiredEvents
  <2> QED
    BY <1>7, <2>1, <1>t DEF UpdateMonitorEvents, DebuggerTypes, CmdType
<1>8. CASE TraceExistingFrames
    BY <1>8, <1>t DEF TraceExistingFrames, DebuggerTypes, CmdType
<1>9. CASE LineBreakpointAdded \/ Pause \/ Resume
    BY <1>9, <1>t DEF LineBreakpointAdded, Pause, Resume, debugger, DebuggerTypes
<1> QED
    BY <1>1, <1>2, <1>3, <1>4, <1>5, <1>6, <1>7, <1>8, <1>9 DEF Next, Program, Command

LEMMA LocalTyped == TypeInv /\ Next => LocalTypes'
<1> SUFFICES ASSUME TypeInv, Next PROVE LocalTypes'
    OBVIOUS
<1>t. /\ LocalTypes /\ flight \in FlightType /\ StackTypes /\ FlightInv
      /\ NoInfo \in NotedType /\ top \in NotedType
      /\ unhandled \in UnhandledType /\ suspendedAt \in BOOLEAN
    BY DEF TypeInv, LocalTypes, NoInfo, NotedType
<1>r. \A d : RetracedTop(d) \in NotedType
    BY <1>t DEF RetracedTop
<1>1. ASSUME NEW c \in Codes, Call(c) PROVE LocalTypes'
    BY <1>1, <1>t DEF Call, LocalTypes
<1>2. ASSUME NEW e \in Excs, RaiseNew(e) PROVE LocalTypes'
    BY <1>2, <1>t DEF RaiseNew, LocalTypes, UnhandledType
<1>3. CASE \/ \E l \in {1, 4} : Advance(l)
           \/ \E e \in Excs : RaiseOld(e)
           \/ Reraise \/ Catch \/ Pass \/ Restart
           \/ \E none \in BOOLEAN : ReturnFrom(none)
    BY <1>3, <1>t DEF Advance, RaiseOld, Reraise, Catch, Pass, Restart, ReturnFrom, local, LocalTypes
<1>4. CASE Pop
    BY <1>4, <1>t DEF Pop, LocalTypes, UnhandledType
<1>5. CASE RaiseEvent
    BY <1>5, <1>t DEF RaiseEvent, local, LocalTypes
<1>6. CASE UnwindEvent
  <2>1. UnhandledFrame \in {0, 1, Gone} /\ flight.exc \in Excs \cup {None}
    BY <1>t DEF UnhandledFrame, UnhandledType, FlightType
  <2>2. unhandled' = unhandled \/ unhandled' = [exc |-> flight.exc, frame |-> UnhandledFrame]
    BY <1>6 DEF UnwindEvent, UnwindUser, UnwindUncaught, UnwindNothing
  <2>3. unhandled' \in UnhandledType
    BY <2>1, <2>2, <1>t DEF UnhandledType
  <2> QED
    BY <1>6, <2>3, <1>t DEF UnwindEvent, LocalTypes
<1>7. CASE ExceptionEvent
  <2>1. Noted(top, Top.line) \in NotedType
    <3>1. flight.exc \in Excs /\ Top.line \in 1 .. 4
      BY <1>7, <1>t, StackFacts DEF ExceptionEvent, FlightInv, FlightType, FrameType
    <3> QED
      BY <3>1, <1>t, NotedIsTyped
  <2>2. top' \in {Noted(top, Top.line), RetracedTop(Depth - 1), top}
    BY <1>7 DEF ExceptionEvent
  <2> QED
    BY <1>7, <2>1, <2>2, <1>r, <1>t DEF ExceptionEvent, LocalTypes
<1>8. CASE ReturnEvent
  <2>1. top' \in {RetracedTop(Depth - 1), top}
    BY <1>8 DEF ReturnEvent
  <2> QED
    BY <1>8, <2>1, <1>r, <1>t DEF ReturnEvent, LocalTypes
<1>9. CASE TopLevelReturn
  <2>1. top' \in NotedType
    <3>1. top' \in {[top EXCEPT !.exc = None], top}
      BY <1>9 DEF TopLevelReturn
    <3>2. [top EXCEPT !.exc = None] \in NotedType
      BY <1>t DEF NotedType
    <3> QED
      BY <3>1, <3>2, <1>t
  <2> QED
    BY <1>9, <2>1, <1>t DEF TopLevelReturn, LocalTypes
<1>10. CASE TopLevelException
  <2>1. suspendedAt' \in BOOLEAN
    BY <1>10, <1>t DEF TopLevelException
  <2> QED
    BY <1>10, <2>1, <1>t DEF TopLevelException, LocalTypes
<1>11. CASE TraceExistingFrames \/ LineBreakpointAdded
    BY <1>11, <1>r, <1>t DEF TraceExistingFrames, LineBreakpointAdded, LocalTypes
<1>12. CASE \/ \E filters \in FilterSets : RemoveAllExceptionBreakpoints(filters)
            \/ AddBreakOnException \/ UpdateMonitorEvents \/ Pause \/ Resume
    BY <1>12, <1>t DEF RemoveAllExceptionBreakpoints, AddBreakOnException, UpdateMonitorEvents,
       Pause, Resume, local, LocalTypes
<1> QED
    BY <1>1, <1>2, <1>3, <1>4, <1>5, <1>6, <1>7, <1>8, <1>9, <1>10, <1>11, <1>12
       DEF Next, Program, Event, Command

LEMMA FlightKept == TypeInv /\ Next => FlightInv'
<1> SUFFICES ASSUME TypeInv, Next PROVE FlightInv'
    OBVIOUS
<1>t. /\ flight \in FlightType /\ StackTypes /\ FlightInv /\ Depth \in Nat
      /\ steady \subseteq Filters
    BY StackFacts DEF TypeInv, DebuggerTypes
<1>n. NoInfo.exc = None /\ Running.phase = "run" /\ Running.exc = None
    BY DEF NoInfo, Running
<1>1. ASSUME NEW c \in Codes, Call(c) PROVE FlightInv'
  <2>1. flight' = flight /\ flight.phase = "run"
    BY <1>1 DEF Call, Free
  <2> QED
    BY <2>1, <1>t DEF FlightInv
<1>2. ASSUME NEW l \in {1, 4}, Advance(l) PROVE FlightInv'
  <2>1. flight' = flight /\ flight.phase = "run"
    BY <1>2 DEF Advance, Free
  <2> QED
    BY <2>1, <1>t DEF FlightInv
<1>3. ASSUME NEW e \in Excs, RaiseNew(e) \/ RaiseOld(e) PROVE FlightInv'
  <2>1. flight'.phase = "raise" /\ flight'.exc = e /\ flight'.none /\ e # None
    BY <1>3, TakeOffFacts, ExceptionAssumption DEF RaiseNew, RaiseOld
  <2>2. Depth' = Depth /\ Depth > 0 /\ Here' = Here
    BY <1>3 DEF RaiseNew, RaiseOld, Depth, Here, Top
  <2>3. Len(tb'[e]) > 0 /\ tb'[e][1] = Here
    <3>1. CASE RaiseNew(e)
      BY <3>1, TracebackNew
    <3>2. CASE RaiseOld(e)
      <4>1. Len(tb[e]) \in Nat
        BY DEF TypeInv, TracebackTypes
      <4> QED
        BY <3>2, <4>1, TracebackOld
    <3> QED
      BY <1>3, <3>1, <3>2
  <2> QED
    BY <2>1, <2>2, <2>3 DEF FlightInv
<1>4. CASE Reraise
  <2>1. Top.exc \in Excs /\ Depth' = Depth /\ Depth > 0
    BY <1>4, <1>t, StackFacts DEF Reraise, FrameType, Depth
  <2>2. flight'.phase = "leave" /\ flight'.exc = Top.exc /\ flight'.none
    BY <1>4, <2>1, TakeOffFacts DEF Reraise
  <2> QED
    BY <2>1, <2>2 DEF FlightInv
<1>5. CASE Catch \/ Restart
  <2>1. flight' = Running
    BY <1>5 DEF Catch, Restart
  <2> QED
    BY <2>1, <1>n DEF FlightInv
<1>6. CASE Pass
  <2>1. To("leave") /\ Depth' = Depth /\ Depth > 0
    BY <1>6, <1>t, PassFrame DEF Pass, To, FlightInv
  <2>2. flight'.phase = "leave" /\ flight'.exc = flight.exc /\ flight'.none = flight.none
    BY <2>1, <1>t, ToFacts
  <2> QED
    BY <2>1, <2>2, <1>t DEF FlightInv
<1>7. ASSUME NEW none \in BOOLEAN, ReturnFrom(none) PROVE FlightInv'
  <2>1. flight' = [exc |-> None, phase |-> "leave", none |-> none] /\ Depth' = Depth /\ Depth > 0
    BY <1>7 DEF ReturnFrom, Depth
  <2> QED
    BY <2>1 DEF FlightInv
<1>8. CASE Pop
  <2>1. Depth' = Depth - 1 /\ Depth > 0
    BY <1>8, <1>t, PopFrame
  <2>2. CASE Depth > 1 /\ flight.exc # None
    <3>1. To("raise")
      BY <1>8, <2>2 DEF Pop, To
    <3>2. flight'.phase = "raise" /\ flight'.exc = flight.exc /\ flight'.none = flight.none
      BY <3>1, <1>t, ToFacts
    <3>3. Len(tb[flight.exc]) \in Nat
      BY <2>2, <1>t DEF TypeInv, TracebackTypes, FlightType
    <3>4. Len(tb'[flight.exc]) > 0 /\ tb'[flight.exc][1] = Here'
      BY <1>8, <2>2, <3>3, TracebackPop
    <3> QED
      BY <2>1, <2>2, <3>2, <3>4, <1>t DEF FlightInv
  <2>3. CASE Depth > 1 /\ flight.exc = None
    <3>1. flight' = Running
      BY <1>8, <2>3 DEF Pop
    <3> QED
      BY <3>1, <1>n DEF FlightInv
  <2>4. CASE Depth = 1
    <3>1. To("boot")
      BY <1>8, <2>4 DEF Pop, To
    <3>2. flight'.phase = "boot" /\ flight'.exc = flight.exc /\ flight'.none = flight.none
      BY <3>1, <1>t, ToFacts
    <3> QED
      BY <2>1, <2>4, <3>2, <1>t DEF FlightInv
  <2> QED
    BY <2>1, <2>2, <2>3, <2>4, <1>t
<1>9. CASE RaiseEvent \/ ExceptionEvent
  <2>1. To("search") /\ flight.phase = "raise" /\ tb' = tb
    BY <1>9 DEF RaiseEvent, ExceptionEvent
  <2>2. Depth' = Depth /\ Here' = Here
    <3>1. CASE RaiseEvent
      BY <3>1 DEF RaiseEvent, Depth, Here, Top
    <3>2. CASE ExceptionEvent
      BY <3>2, <1>t, ExceptionFrame DEF Here
    <3> QED
      BY <1>9, <3>1, <3>2
  <2>3. flight'.phase = "search" /\ flight'.exc = flight.exc /\ flight'.none = flight.none
    BY <2>1, <1>t, ToFacts
  <2> QED
    BY <2>1, <2>2, <2>3, <1>t DEF FlightInv
<1>10. CASE UnwindEvent \/ ReturnEvent \/ TopLevelReturn
  <2>1. To("pop") \/ To("top")
    BY <1>10 DEF UnwindEvent, ReturnEvent, TopLevelReturn
  <2>2. Depth' = Depth /\ Depth > 0
    <3>1. Depth > 0
      BY <1>10, <1>t DEF UnwindEvent, ReturnEvent, TopLevelReturn, FlightInv
    <3>2. CASE UnwindEvent \/ TopLevelReturn
      BY <3>1, <3>2 DEF UnwindEvent, TopLevelReturn, Depth
    <3>3. CASE ReturnEvent
      BY <3>3, <1>t, ReturnFrame
    <3> QED
      BY <1>10, <3>2, <3>3
  <2>3. /\ flight'.phase \in {"pop", "top"} /\ flight'.exc = flight.exc
        /\ flight'.none = flight.none
    BY <2>1, <1>t, ToFacts
  <2> QED
    BY <2>2, <2>3, <1>t DEF FlightInv
<1>11. CASE TopLevelException
  <2>1. To("gone") /\ Depth' = Depth /\ flight.phase = "boot"
    BY <1>11 DEF TopLevelException, Depth
  <2>2. flight'.phase = "gone" /\ flight'.exc = flight.exc /\ flight'.none = flight.none
    BY <2>1, <1>t, ToFacts
  <2> QED
    BY <2>1, <2>2, <1>t DEF FlightInv
<1>12. CASE Command
  <2>1. flight' = flight /\ tb' = tb
    BY <1>12 DEF Command, RemoveAllExceptionBreakpoints, AddBreakOnException,
       UpdateMonitorEvents, TraceExistingFrames, LineBreakpointAdded, Pause, Resume
  <2>2. Depth' = Depth /\ (Depth > 0 => Here' = Here)
    <3>1. CASE TraceExistingFrames \/ LineBreakpointAdded
      <4>1. /\ Depth' = Depth
            /\ \A d \in 1 .. Depth : stack'[d].code = stack[d].code /\ stack'[d].line = stack[d].line
        BY <3>1, <1>t, RetraceFrame DEF TraceExistingFrames, LineBreakpointAdded, Renewed
      <4> QED
        BY <4>1, <1>t DEF Here, Top
    <3>2. ASSUME NEW filters \in FilterSets, RemoveAllExceptionBreakpoints(filters)
          PROVE  Depth' = Depth /\ (Depth > 0 => Here' = Here)
      BY <3>2, <1>t, UnsteadyFrame DEF Here, Top
    <3>3. CASE AddBreakOnException \/ UpdateMonitorEvents \/ Pause \/ Resume
      BY <3>3 DEF AddBreakOnException, UpdateMonitorEvents, Pause, Resume, Depth, Here, Top
    <3> QED
      BY <1>12, <3>1, <3>2, <3>3 DEF Command
  <2> QED
    BY <2>1, <2>2, <1>t DEF FlightInv
<1> QED
    BY <1>1, <1>2, <1>3, <1>4, <1>5, <1>6, <1>7, <1>8, <1>9, <1>10, <1>11, <1>12
       DEF Next, Program, Event

LEMMA ConfigKept == Next => UNCHANGED config
BY DEF Next, Program, Event, Command, Call, Advance, RaiseNew, RaiseOld, Reraise, Catch, Pass,
   ReturnFrom, Pop, Restart, RaiseEvent, UnwindEvent, ExceptionEvent, ReturnEvent,
   TopLevelReturn, TopLevelException, RemoveAllExceptionBreakpoints, AddBreakOnException,
   UpdateMonitorEvents, TraceExistingFrames, LineBreakpointAdded, Pause, Resume

LEMMA TypesStart == Init => TypeInv
<1> SUFFICES ASSUME Init PROVE TypeInv
    OBVIOUS
<1>1. StackTypes
    BY ExceptionAssumption DEF Init, StackTypes
<1>2. TracebackTypes
    BY ExceptionAssumption DEF Init, TracebackTypes
<1>3. StopTypes
    BY DEF Init, StopTypes, CountType, NoCount
<1>4. DebuggerTypes
    BY DEF Init, DebuggerTypes, CmdType
<1>5. LocalTypes
  <2>1. NoInfo \in NotedType
    BY DEF NoInfo, NotedType
  <2>2. [exc |-> None, frame |-> 0] \in UnhandledType
    BY DEF UnhandledType
  <2> QED
    BY <2>1, <2>2 DEF Init, LocalTypes
<1>6. flight \in FlightType /\ FlightInv
    BY DEF Init, FlightType, FlightInv, Running
<1> QED
    BY <1>1, <1>2, <1>3, <1>4, <1>5, <1>6 DEF TypeInv, Init

LEMMA TypesStay == TypeInv /\ [Next]_vars => TypeInv'
<1> SUFFICES ASSUME TypeInv, [Next]_vars PROVE TypeInv'
    OBVIOUS
<1>1. CASE Next
    BY <1>1, ConfigKept, FlightTyped, StackTyped, TracebackTyped, StopTyped, DebuggerTyped,
       LocalTyped, FlightKept DEF TypeInv
<1>2. CASE UNCHANGED vars
    BY <1>2 DEF vars, debugger, local, TypeInv, StackTypes, TracebackTypes, StopTypes,
       DebuggerTypes, LocalTypes, FlightInv, Depth, Here, Top
<1> QED
    BY <1>1, <1>2

\* Frames, tracebacks and reports are of their types; the exception that is raised
\* has the frame it is in first in its traceback.
THEOREM TypesAreKept == Spec => []TypeOK
<1>1. Spec => []TypeInv
    BY TypesStart, TypesStay, PTL DEF Spec
<1> QED
    BY <1>1, TypeInvImpliesTypeOK, PTL

-----------------------------------------------------------------------------
(***************************************************************************)
(* What a step does to the exception, to its frame and to its reports.     *)
(***************************************************************************)
LEMMA CommandsKeep ==
    ASSUME TypeInv, Command
    PROVE  /\ UNCHANGED <<config, flight, tb, unhandled, suspendedAt, count>> /\ Depth' = Depth
           /\ here' = here \/ here' = here \cup {"retraced"}
<1>1. /\ UNCHANGED <<config, flight, tb, unhandled, suspendedAt, count>>
      /\ here' = here \/ here' = here \cup {"retraced"}
    BY DEF Command, RemoveAllExceptionBreakpoints, AddBreakOnException, UpdateMonitorEvents,
       TraceExistingFrames, LineBreakpointAdded, Pause, Resume, local
<1>2. Depth' = Depth
  <2>t. StackTypes
    BY DEF TypeInv
  <2>1. CASE TraceExistingFrames \/ LineBreakpointAdded
    BY <2>t, <2>1, RetraceFrame DEF TraceExistingFrames, LineBreakpointAdded
  <2>2. ASSUME NEW filters \in FilterSets, RemoveAllExceptionBreakpoints(filters)
        PROVE  Depth' = Depth
    BY <2>t, <2>2, UnsteadyFrame
  <2>3. CASE AddBreakOnException \/ UpdateMonitorEvents \/ Pause \/ Resume
    BY <2>3 DEF AddBreakOnException, UpdateMonitorEvents, Pause, Resume, Depth
  <2> QED
    BY <2>1, <2>2, <2>3 DEF Command
<1> QED
    BY <1>1, <1>2

\* An exception, or none, starts on its way; the code runs on.
Starts ==
    \/ \E e \in Excs : RaiseNew(e) \/ RaiseOld(e)
    \/ Reraise \/ Catch \/ Restart
    \/ \E none \in BOOLEAN : ReturnFrom(none)

LEMMA StartFacts == TypeInv /\ Starts => /\ here' = {} /\ count' = NoCount
                                         /\ flight'.phase \in {"run", "raise", "leave"}
<1> SUFFICES ASSUME TypeInv, Starts
             PROVE  here' = {} /\ count' = NoCount /\ flight'.phase \in {"run", "raise", "leave"}
    OBVIOUS
<1>1. CASE (\E e \in Excs : RaiseNew(e) \/ RaiseOld(e)) \/ Reraise
    BY <1>1 DEF RaiseNew, RaiseOld, Reraise, TakeOff
<1>2. CASE Catch \/ Restart \/ \E none \in BOOLEAN : ReturnFrom(none)
    BY <1>2 DEF Catch, Restart, ReturnFrom, Running
<1> QED
    BY <1>1, <1>2 DEF Starts

LEMMA RunsOn ==
    ASSUME TypeInv, (\E c \in Codes : Call(c)) \/ (\E l \in {1, 4} : Advance(l))
    PROVE  UNCHANGED <<config, flight, tb, here, count, steady, state, breaks, events, cmd,
                       suspendedAt, unhandled>>
           /\ flight.phase = "run" /\ flight.exc = None /\ stop = None
BY DEF Call, Advance, Free, TypeInv, FlightInv, debugger, local

\* An exception comes to a frame, and is reported or not.
LEMMA ComesFacts ==
    ASSUME TypeInv, RaiseEvent \/ ExceptionEvent
    PROVE  /\ flight.phase = "raise" /\ flight'.phase = "search" /\ flight'.exc = flight.exc
           /\ UNCHANGED <<config, tb, unhandled, suspendedAt, breaks, events, cmd, steady>>
           /\ Depth' = Depth
           /\ \/ StopOnCaught /\ Suspend("handled")
              \/ UNCHANGED <<state, stop, count>> /\ here' = here \cup {"tagged"}
              \/ UNCHANGED <<state, stop, count>> /\ here' = here \cup Paused
<1>t. flight \in FlightType /\ StackTypes /\ FlightInv
    BY DEF TypeInv
<1>1. CASE RaiseEvent
    BY <1>1, <1>t, ToFacts DEF RaiseEvent, HandleException, NoStop, debugger, local, Depth
<1>2. CASE ExceptionEvent
  <2>1. Depth' = Depth
    BY <1>2, <1>t, ExceptionFrame
  <2> QED
    BY <1>2, <2>1, <1>t, ToFacts DEF ExceptionEvent, HandleException, NoStop, debugger
<1> QED
    BY <1>1, <1>2

\* It leaves one that sys.monitoring watches.
LEMMA UnwindFacts ==
    ASSUME TypeInv, UnwindEvent
    PROVE  /\ flight.phase = "leave" /\ flight'.phase = "pop" /\ flight'.exc = flight.exc
           /\ config.monitoring
           /\ UNCHANGED <<config, stack, tb, suspendedAt, top, breaks, events, cmd, steady>>
           /\ \/ flight.exc # None /\ UserUncaught /\ Suspend("user")
              \/ /\ flight.exc # None /\ UnhandledFrame = Depth /\ StopOnUnhandled(flight.exc)
                 /\ Suspend("unhandled")
              \/ UNCHANGED <<state, stop, count>> /\ here' = here \cup {"tagged"}
              \/ UNCHANGED <<state, stop, count>> /\ here' \subseteq here \cup {"paused", "stale"}
<1>t. flight \in FlightType
    BY DEF TypeInv
<1>1. /\ flight.phase = "leave" /\ flight'.phase = "pop" /\ flight'.exc = flight.exc
      /\ config.monitoring
      /\ UNCHANGED <<config, stack, tb, suspendedAt, top, breaks, events, cmd, steady>>
    BY <1>t, ToFacts DEF UnwindEvent, debugger
<1>2. CASE flight.exc # None /\ UnwindUser
    BY <1>1, <1>2 DEF UnwindUser, HandleException
<1>3. CASE flight.exc # None /\ UnwindUncaught
    BY <1>1, <1>3 DEF UnwindUncaught, Paused
<1>4. CASE UnwindNothing \/ NoStop
    BY <1>1, <1>4 DEF UnwindNothing, NoStop, Paused
<1> QED
    BY <1>2, <1>3, <1>4 DEF UnwindEvent

\* It, or a return, leaves one that has a trace function.
LEMMA LeaveFacts ==
    ASSUME TypeInv, ReturnEvent
    PROVE  /\ flight.phase = "leave" /\ flight'.phase = "top" /\ flight'.exc = flight.exc
           /\ ~config.monitoring /\ Depth' = Depth /\ Depth > 0 /\ Top' = Top
           /\ UNCHANGED <<config, tb, unhandled, suspendedAt, breaks, events, cmd, steady>>
           /\ \/ Reason /\ Suspend("user")
              \/ UNCHANGED <<state, stop, count>> /\ here' = here \cup {"tagged"}
              \/ UNCHANGED <<state, stop, count>> /\ here' = here \cup Paused /\ ~Reason
<1>t. flight \in FlightType /\ StackTypes /\ FlightInv
    BY DEF TypeInv
<1>1. Depth' = Depth /\ Depth > 0 /\ Top' = Top
    BY <1>t, ReturnFrame
<1>2. flight'.phase = "top" /\ flight'.exc = flight.exc
    BY <1>t, ToFacts DEF ReturnEvent
<1> QED
    BY <1>1, <1>2 DEF ReturnEvent, Reason, HandleException, NoStop, debugger

LEMMA TopFacts ==
    ASSUME TypeInv, TopLevelReturn \/ TopLevelException
    PROVE  /\ flight'.exc = flight.exc
           /\ \/ flight.phase = "top" /\ flight'.phase = "pop" /\ TopLevelReturn
              \/ flight.phase = "boot" /\ flight'.phase = "gone" /\ TopLevelException
           /\ UNCHANGED <<config, stack, tb, unhandled, breaks, events, cmd, steady>>
           /\ \/ Suspend("unhandled") /\ (flight.phase = "boot" => ~config.monitoring)
              \/ UNCHANGED <<state, stop, here, count>>
<1>t. flight \in FlightType
    BY DEF TypeInv
<1>1. CASE TopLevelReturn
    BY <1>1, <1>t, ToFacts DEF TopLevelReturn, debugger
<1>2. CASE TopLevelException
    BY <1>2, <1>t, ToFacts DEF TopLevelException, debugger
<1> QED
    BY <1>1, <1>2

LEMMA PopFacts ==
    ASSUME TypeInv, Pop
    PROVE  /\ flight.phase = "pop" /\ Depth > 0 /\ Depth' = Depth - 1
           /\ UNCHANGED <<config, suspendedAt, top, breaks, events, cmd, steady, state, stop>>
           /\ unhandled'.exc = unhandled.exc
           /\ Depth = 1 => /\ flight'.phase = "boot" /\ flight'.exc = flight.exc
                           /\ UNCHANGED <<here, count, tb>> /\ unhandled'.frame = Gone
           /\ Depth > 1 => here' = {} /\ unhandled'.frame = unhandled.frame
           /\ Depth > 1 /\ flight.exc = None =>
                flight' = Running /\ count' = NoCount /\ tb' = tb
           /\ Depth > 1 /\ flight.exc # None =>
                /\ flight'.phase = "raise" /\ flight'.exc = flight.exc /\ count' = count
                /\ Len(tb'[flight.exc]) = Len(tb[flight.exc]) + 1
<1>t. flight \in FlightType /\ StackTypes /\ FlightInv /\ unhandled \in UnhandledType
    BY DEF TypeInv, LocalTypes
<1>1. Depth' = Depth - 1 /\ Depth > 0 /\ flight.phase = "pop"
    BY <1>t, PopFrame DEF Pop
<1>2. UNCHANGED <<config, suspendedAt, top, breaks, events, cmd, steady, state, stop>>
    BY DEF Pop, debugger
<1>3. unhandled'.exc = unhandled.exc
      /\ unhandled'.frame = IF Depth > 1 THEN unhandled.frame ELSE Gone
    BY <1>t DEF Pop, UnhandledType
<1>4. CASE Depth = 1
  <2>1. To("boot") /\ UNCHANGED <<here, count, tb>>
    BY <1>4 DEF Pop, To
  <2> QED
    BY <2>1, <1>t, <1>1, <1>2, <1>3, <1>4, ToFacts
<1>5. CASE Depth > 1 /\ flight.exc = None
    BY <1>1, <1>2, <1>3, <1>5 DEF Pop
<1>6. CASE Depth > 1 /\ flight.exc # None
  <2>1. To("raise") /\ here' = {} /\ count' = count
    BY <1>6 DEF Pop, To
  <2>2. flight'.phase = "raise" /\ flight'.exc = flight.exc
    BY <2>1, <1>t, ToFacts
  <2>3. Len(tb'[flight.exc]) = Len(tb[flight.exc]) + 1
    BY <1>6, TracebackPop
  <2> QED
    BY <1>1, <1>2, <1>3, <1>6, <2>1, <2>2, <2>3
<1>7. Depth = 1 \/ Depth > 1
    BY <1>1, <1>t, StackFacts
<1> QED
    BY <1>4, <1>5, <1>6, <1>7

LEMMA PassFacts ==
    ASSUME TypeInv, Pass
    PROVE  /\ flight.phase = "search" /\ flight'.phase = "leave" /\ flight'.exc = flight.exc
           /\ Depth' = Depth
           /\ UNCHANGED <<config, tb, state, stop, breaks, events, cmd, unhandled, suspendedAt,
                          top, steady, here, count>>
<1>t. flight \in FlightType /\ StackTypes /\ FlightInv
    BY DEF TypeInv
<1>1. To("leave") /\ flight.phase = "search"
    BY DEF Pass, To
<1> QED
    BY <1>t, <1>1, ToFacts, PassFrame DEF Pass, debugger, local

LEMMA EveryStep ==
    ASSUME Next
    PROVE  \/ (\E c \in Codes : Call(c)) \/ (\E l \in {1, 4} : Advance(l))
           \/ Starts \/ Pass \/ Pop
           \/ RaiseEvent \/ ExceptionEvent \/ UnwindEvent \/ ReturnEvent
           \/ TopLevelReturn \/ TopLevelException
           \/ Command
<1>1. CASE Program
  <2>1. CASE \E e \in Excs : RaiseNew(e) \/ RaiseOld(e)
    BY <2>1 DEF Starts
  <2>2. CASE \E none \in BOOLEAN : ReturnFrom(none)
    BY <2>2 DEF Starts
  <2>3. CASE Reraise \/ Catch \/ Restart
    BY <2>3 DEF Starts
  <2> QED
    BY <1>1, <2>1, <2>2, <2>3 DEF Program
<1>2. CASE Event
    BY <1>2 DEF Event
<1> QED
    BY <1>1, <1>2 DEF Next

-----------------------------------------------------------------------------
(***************************************************************************)
(* What ends a thread is reported once.                                    *)
(***************************************************************************)
OnceInv ==
    config.monitoring =>
      /\ ~count.twice
      /\ flight.phase # "top"
      /\ flight.phase \in {"raise", "search", "leave"} => count.unhandled = 0 /\ "user" \notin here
      /\ flight.phase = "pop" /\ Depth > 1 => count.unhandled = 0

LEMMA OnceStays == TypeInv /\ OnceInv /\ [Next]_vars => OnceInv'
<1> SUFFICES ASSUME TypeInv, OnceInv, [Next]_vars, config.monitoring, config' = config
             PROVE  OnceInv'
    BY ConfigKept DEF OnceInv, vars
<1>t. Depth \in Nat /\ unhandled \in UnhandledType /\ flight \in FlightType
    BY StackFacts DEF TypeInv, LocalTypes
<1>1. CASE (\E c \in Codes : Call(c)) \/ (\E l \in {1, 4} : Advance(l))
    BY <1>1, RunsOn DEF OnceInv
<1>2. CASE Starts
    BY <1>2, StartFacts DEF OnceInv, NoCount
<1>3. CASE Pass
    BY <1>3, PassFacts DEF OnceInv
<1>4. CASE Pop
  <2>1. Depth = 1 \/ Depth > 1
    BY <1>t, <1>4, PopFacts
  <2>2. CASE Depth = 1
    BY <2>2, <1>4, PopFacts DEF OnceInv
  <2>3. CASE Depth > 1
    BY <2>3, <1>4, PopFacts DEF OnceInv, NoCount, Running
  <2> QED
    BY <2>1, <2>2, <2>3
<1>5. CASE RaiseEvent \/ ExceptionEvent
    BY <1>5, ComesFacts DEF OnceInv, Suspend, Paused
<1>6. CASE UnwindEvent
  <2>1. count.unhandled = 0 /\ "user" \notin here /\ ~count.twice
    BY <1>6, UnwindFacts DEF OnceInv
  <2>2. flight'.phase = "pop" /\ Depth' = Depth
    BY <1>6, UnwindFacts DEF Depth
  <2>3. CASE Suspend("user")
    BY <2>1, <2>2, <2>3 DEF OnceInv, Suspend
  <2>4. CASE UnhandledFrame = Depth /\ Suspend("unhandled")
    <3>1. Depth \in {0, 1, Gone}
      BY <2>4, <1>t DEF UnhandledFrame, UnhandledType
    <3>2. ~(Depth > 1)
      BY <3>1 DEF Gone
    <3>3. ~count'.twice
      BY <2>1, <2>4 DEF Suspend
    <3> QED
      BY <2>2, <3>2, <3>3 DEF OnceInv
  <2>5. CASE UNCHANGED count
    BY <2>1, <2>2, <2>5 DEF OnceInv
  <2> QED
    BY <1>6, <2>3, <2>4, <2>5, UnwindFacts
<1>7. CASE ReturnEvent
    BY <1>7 DEF ReturnEvent
<1>8. CASE TopLevelReturn \/ TopLevelException
    BY <1>8, TopFacts DEF OnceInv
<1>9. CASE Command
    BY <1>9, CommandsKeep DEF OnceInv
<1>10. CASE UNCHANGED vars
    BY <1>10 DEF vars, OnceInv, Depth
<1> QED
    BY <1>1, <1>2, <1>3, <1>4, <1>5, <1>6, <1>7, <1>8, <1>9, <1>10, EveryStep

\* With sys.monitoring, an exception that ends its thread is not reported as
\* user-unhandled and as uncaught, and not as uncaught twice: the one event for "it
\* leaves the frame" checks for one thing only, and the outermost frame is left once.
THEOREM ReportsAreSingle == Spec => []ReportedOnce
<1>1. Init => OnceInv
    BY DEF Init, OnceInv, NoCount, Running
<1>2. Spec => [](TypeInv /\ OnceInv)
    BY <1>1, TypesStart, TypesStay, OnceStays, PTL DEF Spec
<1>3. OnceInv => ReportedOnce
    BY DEF OnceInv, ReportedOnce
<1> QED
    BY <1>2, <1>3, PTL

-----------------------------------------------------------------------------
(***************************************************************************)
(* An exception is reported as raised once: at the length of its traceback *)
(* that the options allow, which is not reached again while it propagates. *)
(***************************************************************************)
First == IF config.skip THEN 2 ELSE 1
CountInv ==
    config.first /\ count.handled > 0 =>
      /\ count.handled = 1 /\ flight.exc # None
      /\ Len(tb[flight.exc]) >= First
      /\ flight.phase = "raise" => Len(tb[flight.exc]) > First

LEMMA CountStays == TypeInv /\ CountInv /\ [Next]_vars => CountInv'
<1> SUFFICES ASSUME TypeInv, CountInv, [Next]_vars, config.first, config' = config
             PROVE  CountInv'
    BY ConfigKept DEF CountInv, vars
<1>t. /\ Depth \in Nat /\ count.handled \in Nat /\ First \in {1, 2} /\ First' = First
      /\ flight.exc # None => Len(tb[flight.exc]) \in Nat
    BY StackFacts DEF TypeInv, StopTypes, CountType, First, TracebackTypes, FlightType
<1>1. CASE (\E c \in Codes : Call(c)) \/ (\E l \in {1, 4} : Advance(l))
    BY <1>1, <1>t, RunsOn DEF CountInv
<1>2. CASE Starts
    BY <1>2, StartFacts DEF CountInv, NoCount
<1>3. CASE Pass
    BY <1>3, <1>t, PassFacts DEF CountInv
<1>4. CASE Pop
  <2>1. Depth = 1 \/ Depth > 1
    BY <1>t, <1>4, PopFacts
  <2>2. CASE Depth = 1
    BY <2>2, <1>4, <1>t, PopFacts DEF CountInv
  <2>3. CASE Depth > 1 /\ flight.exc = None
    BY <2>3, <1>4, PopFacts DEF CountInv, NoCount
  <2>4. CASE Depth > 1 /\ flight.exc # None
    BY <2>4, <1>4, <1>t, PopFacts DEF CountInv
  <2> QED
    BY <2>1, <2>2, <2>3, <2>4
<1>5. CASE RaiseEvent \/ ExceptionEvent
  <2>1. CASE UNCHANGED count
    BY <1>5, <2>1, <1>t, ComesFacts DEF CountInv
  <2>2. CASE StopOnCaught /\ Suspend("handled")
    <3>1. Len(tb[flight.exc]) = First /\ flight.exc # None
      <4>1. flight.exc # None
        BY <1>5, ComesFacts DEF TypeInv, FlightInv
      <4>2. config \in ConfigType
        BY ConfigFacts
      <4> QED
        BY <2>2, <4>1, <4>2 DEF StopOnCaught, ContextAllows, First, ConfigType
    <3>2. count.handled = 0
      BY <1>5, <1>t, <3>1, ComesFacts DEF CountInv
    <3>3. count'.handled = 1
      BY <2>2, <3>2 DEF Suspend
    <3> QED
      BY <1>5, <1>t, <3>1, <3>3, ComesFacts DEF CountInv
  <2> QED
    BY <1>5, <2>1, <2>2, ComesFacts
<1>6. CASE UnwindEvent \/ ReturnEvent \/ TopLevelReturn \/ TopLevelException
  <2>1. count'.handled = count.handled
    BY <1>6, UnwindFacts, LeaveFacts, TopFacts DEF Suspend
  <2>2. flight'.exc = flight.exc /\ tb' = tb /\ flight'.phase # "raise"
    BY <1>6, UnwindFacts, LeaveFacts, TopFacts
  <2> QED
    BY <2>1, <2>2, <1>t DEF CountInv
<1>7. CASE Command
    BY <1>7, <1>t, CommandsKeep DEF CountInv
<1>8. CASE UNCHANGED vars
    BY <1>8, <1>t DEF vars, CountInv
<1> QED
    BY <1>1, <1>2, <1>3, <1>4, <1>5, <1>6, <1>7, <1>8, EveryStep

\* With notify_on_first_raise_only, one propagation of an exception is reported as
\* raised once, however many frames, handlers and re-raises it passes.
THEOREM RaisesAreSingle == Spec => []OncePerRaise
<1>1. Init => CountInv
    BY DEF Init, CountInv, NoCount
<1>2. Spec => [](TypeInv /\ CountInv)
    BY <1>1, TypesStart, TypesStay, CountStays, PTL DEF Spec
<1>3. TypeInv /\ CountInv => OncePerRaise
    BY DEF TypeInv, StopTypes, CountType, CountInv, OncePerRaise
<1> QED
    BY <1>2, <1>3, PTL

-----------------------------------------------------------------------------
(***************************************************************************)
(* The breakpoints are set, the events asked for and the trace functions   *)
(* in place while a filter counts as steady.                               *)
(***************************************************************************)
Current(s) == s # {} => cmd.phase = "idle" /\ s \subseteq breaks
SteadyInv == Current(steady) /\ \A d \in 1 .. Depth : Current(stack[d].steady)
EventInv ==
    config.monitoring /\ cmd.phase \in {"idle", "trace"} /\ breaks # {} => events = RequiredEvents
TraceInv ==
    ~config.monitoring /\ cmd.phase = "idle" /\ HasExceptionBreakpoints =>
      \A d \in 1 .. Depth : ApplyFilesFilter(stack[d].code, FALSE) \/ stack[d].trace # "none"

\* Where the frames of the next state come from.
LEMMA FrameOrigins ==
    ASSUME TypeInv, Next, NEW d \in 1 .. Depth'
    PROVE  \/ d \in 1 .. Depth /\ stack'[d] = stack[d]
           \/ /\ d \in 1 .. Depth /\ ~config.monitoring /\ Renewed(stack[d], stack'[d])
              /\ ExceptionEvent \/ ReturnEvent \/ TraceExistingFrames \/ LineBreakpointAdded
           \/ /\ \E filters \in FilterSets : RemoveAllExceptionBreakpoints(filters)
              /\ d \in 1 .. Depth
              /\ stack'[d].code = stack[d].code /\ stack'[d].line = stack[d].line
              /\ stack'[d].exc = stack[d].exc /\ stack'[d].info = stack[d].info
              /\ stack'[d].trace = stack[d].trace /\ stack'[d].steady = {}
           \/ d = Depth' /\ Depth' = Depth + 1 /\ \E c \in Codes : Call(c)
           \/ d = Depth' /\ d = Depth /\ (Catch \/ Pass \/ \E l \in {1, 4} : Advance(l))
           \/ d = Depth' /\ d = Depth /\ ExceptionEvent
<1>t. /\ StackTypes /\ FlightInv /\ flight \in FlightType /\ steady \subseteq Filters
      /\ Depth \in Nat
    BY StackFacts DEF TypeInv, DebuggerTypes
<1>1. ASSUME NEW c \in Codes, Call(c)
      PROVE  Depth' = Depth + 1 /\ \A x \in 1 .. Depth : stack'[x] = stack[x]
    BY <1>1, <1>t, CallFrame
<1>2. CASE \E c \in Codes : Call(c)
    BY <1>1, <1>2, <1>t
<1>3. CASE Catch \/ Pass \/ \E l \in {1, 4} : Advance(l)
  <2>1. Depth' = Depth /\ CallersKept
    BY <1>3, <1>t, CatchFrame, PassFrame, AdvanceFrame
  <2> QED
    BY <1>3, <2>1 DEF CallersKept
<1>4. CASE Pop
  <2>1. Depth' = Depth - 1 /\ \A x \in 1 .. Depth - 1 : stack'[x] = stack[x]
    BY <1>4, <1>t, PopFrame
  <2> QED
    BY <2>1, <1>t
<1>5. CASE ExceptionEvent
  <2>1. /\ Depth' = Depth /\ ~config.monitoring
        /\ \A x \in 1 .. Depth - 1 : Renewed(stack[x], stack'[x]) \/ stack'[x] = stack[x]
    BY <1>5, <1>t, ExceptionFrame DEF ExceptionEvent
  <2> QED
    BY <1>5, <2>1, <1>t
<1>6. CASE ReturnEvent
  <2>1. /\ Depth' = Depth /\ ~config.monitoring /\ Depth > 0
        /\ stack'[Depth] = stack[Depth]
        /\ \A x \in 1 .. Depth - 1 : Renewed(stack[x], stack'[x]) \/ stack'[x] = stack[x]
    BY <1>6, <1>t, ReturnFrame DEF ReturnEvent, Top
  <2> QED
    BY <1>6, <2>1, <1>t
<1>7. CASE TraceExistingFrames \/ LineBreakpointAdded
  <2>1. Depth' = Depth
        /\ \A x \in 1 .. Depth :
             IF config.monitoring THEN stack'[x] = stack[x] ELSE Renewed(stack[x], stack'[x])
    BY <1>7, <1>t, RetraceFrame DEF TraceExistingFrames, LineBreakpointAdded
  <2> QED
    BY <1>7, <2>1
<1>8. CASE \E filters \in FilterSets : RemoveAllExceptionBreakpoints(filters)
  <2>1. PICK filters \in FilterSets : RemoveAllExceptionBreakpoints(filters)
    BY <1>8
  <2> QED
    BY <1>8, <2>1, <1>t, UnsteadyFrame
<1>9. CASE \/ \E e \in Excs : RaiseNew(e) \/ RaiseOld(e)
           \/ Reraise \/ Restart
           \/ \E none \in BOOLEAN : ReturnFrom(none)
  <2>1. stack' = stack
    BY <1>9 DEF RaiseNew, RaiseOld, Reraise, Restart, ReturnFrom
  <2> QED
    BY <2>1 DEF Depth
<1>10. CASE \/ RaiseEvent \/ UnwindEvent \/ TopLevelReturn \/ TopLevelException
            \/ AddBreakOnException \/ UpdateMonitorEvents \/ Pause \/ Resume
  <2>1. stack' = stack
    BY <1>10 DEF RaiseEvent, UnwindEvent, TopLevelReturn, TopLevelException,
       AddBreakOnException, UpdateMonitorEvents, Pause, Resume
  <2> QED
    BY <2>1 DEF Depth
<1> QED
    BY <1>2, <1>3, <1>4, <1>5, <1>6, <1>7, <1>8, <1>9, <1>10 DEF Next, Program, Event, Command

LEMMA DebuggerKept ==
    ASSUME Next
    PROVE  \/ UNCHANGED <<breaks, events, cmd>>
           \/ \E filters \in FilterSets : RemoveAllExceptionBreakpoints(filters)
           \/ AddBreakOnException \/ UpdateMonitorEvents \/ TraceExistingFrames
BY DEF Next, Program, Event, Command, Call, Advance, RaiseNew, RaiseOld, Reraise, Catch, Pass,
   ReturnFrom, Pop, Restart, RaiseEvent, UnwindEvent, ExceptionEvent, ReturnEvent,
   TopLevelReturn, TopLevelException, LineBreakpointAdded, Pause, Resume, debugger

\* The history of a frame that is not kept as it was.
LEMMA SteadyFrames ==
    ASSUME TypeInv, Next, NEW d \in 1 .. Depth'
    PROVE  \/ stack'[d].steady \in {{}, steady}
           \/ d \in 1 .. Depth /\ stack'[d].steady = stack[d].steady
<1>t. /\ StackTypes /\ FlightInv /\ flight \in FlightType /\ steady \subseteq Filters
      /\ Depth \in Nat
    BY StackFacts DEF TypeInv, DebuggerTypes
<1>1. CASE d \in 1 .. Depth /\ stack'[d] = stack[d]
    BY <1>1
<1>2. CASE d \in 1 .. Depth /\ Renewed(stack[d], stack'[d])
    BY <1>2 DEF Renewed
<1>3. CASE d = Depth' /\ \E c \in Codes : Call(c)
    BY <1>3, <1>t, CallFrame DEF Top
<1>4. CASE d = Depth' /\ d = Depth /\ (Catch \/ Pass \/ \E l \in {1, 4} : Advance(l))
  <2>1. stack'[d].steady \in {{}, steady, stack[d].steady}
    <3>1. CASE Catch
      BY <1>4, <3>1, <1>t, CatchFrame DEF TopIs, Top
    <3>2. CASE Pass
      BY <1>4, <3>2, <1>t, PassFrame DEF TopIs, Top
    <3>3. ASSUME NEW l \in {1, 4}, Advance(l) PROVE stack'[d].steady = {}
      BY <1>4, <3>3, <1>t, AdvanceFrame DEF TopIs, Top
    <3> QED
      BY <1>4, <3>1, <3>2, <3>3
  <2> QED
    BY <1>4, <2>1
<1>5. CASE d = Depth' /\ d = Depth /\ ExceptionEvent
  <2>1. stack'[d].steady = stack[d].steady
    BY <1>5, <1>t, ExceptionFrame DEF Top
  <2> QED
    BY <1>5, <2>1
<1> QED
    BY <1>1, <1>2, <1>3, <1>4, <1>5, FrameOrigins

LEMMA SteadyKept ==
    ASSUME Next
    PROVE  \/ steady' \in {{}, steady}
           \/ \E e \in Excs : (RaiseNew(e) \/ RaiseOld(e)) /\ steady' = Steady
           \/ Reraise /\ steady' = Top.steady
BY DEF Next, Program, Event, Command, Call, Advance, RaiseNew, RaiseOld, Reraise, Catch, Pass,
   ReturnFrom, Pop, Restart, RaiseEvent, UnwindEvent, ExceptionEvent, ReturnEvent,
   TopLevelReturn, TopLevelException, RemoveAllExceptionBreakpoints, AddBreakOnException,
   UpdateMonitorEvents, TraceExistingFrames, LineBreakpointAdded, Pause, Resume

LEMMA SteadyStays == TypeInv /\ SteadyInv /\ [Next]_vars => SteadyInv'
<1> SUFFICES ASSUME TypeInv, SteadyInv, [Next]_vars PROVE SteadyInv'
    OBVIOUS
<1>t. StackTypes /\ Depth \in Nat
    BY StackFacts DEF TypeInv
<1>1. CASE UNCHANGED vars
    BY <1>1 DEF vars, debugger, SteadyInv, Current, Depth
<1>2. CASE Next /\ UNCHANGED <<breaks, cmd>>
  <2>1. \A s : Current(s) <=> (s # {} => cmd'.phase = "idle" /\ s \subseteq breaks')
    BY <1>2 DEF Current
  <2>2. steady' # {} => cmd'.phase = "idle" /\ steady' \subseteq breaks'
    <3>1. CASE steady' \in {{}, steady}
      BY <3>1, <2>1 DEF SteadyInv
    <3>2. CASE steady' = Steady
      BY <3>2, <1>2 DEF Steady
    <3>3. CASE Reraise /\ steady' = Top.steady
      BY <3>3, <2>1, <1>t DEF Reraise, SteadyInv, Top
    <3> QED
      BY <1>2, <3>1, <3>2, <3>3, SteadyKept
  <2>3. ASSUME NEW d \in 1 .. Depth'
        PROVE  stack'[d].steady # {} =>
                 cmd'.phase = "idle" /\ stack'[d].steady \subseteq breaks'
    <3>1. CASE stack'[d].steady \in {{}, steady}
      BY <3>1, <2>1 DEF SteadyInv
    <3>2. CASE d \in 1 .. Depth /\ stack'[d].steady = stack[d].steady
      BY <3>2, <2>1 DEF SteadyInv
    <3> QED
      BY <1>2, <3>1, <3>2, SteadyFrames
  <2> QED
    BY <2>2, <2>3 DEF SteadyInv, Current
<1>3. ASSUME NEW filters \in FilterSets, RemoveAllExceptionBreakpoints(filters)
      PROVE  SteadyInv'
  <2>1. steady' = {}
    BY <1>3 DEF RemoveAllExceptionBreakpoints
  <2>2. \A d \in 1 .. Depth' : stack'[d].steady = {}
    BY <1>3, <1>t, UnsteadyFrame
  <2> QED
    BY <2>1, <2>2 DEF SteadyInv, Current
<1>4. CASE AddBreakOnException \/ UpdateMonitorEvents \/ TraceExistingFrames
  <2>1. cmd.phase # "idle" /\ steady' = steady
    BY <1>4 DEF AddBreakOnException, UpdateMonitorEvents, TraceExistingFrames
  <2>2. steady = {} /\ \A d \in 1 .. Depth : stack[d].steady = {}
    BY <2>1 DEF SteadyInv, Current
  <2>3. Next
    BY <1>4 DEF Next, Command
  <2>4. \A d \in 1 .. Depth' : stack'[d].steady = {}
    BY <2>2, <2>3, SteadyFrames
  <2> QED
    BY <2>1, <2>2, <2>4 DEF SteadyInv, Current
<1> QED
    BY <1>1, <1>2, <1>3, <1>4, DebuggerKept

LEMMA EventStays == TypeInv /\ EventInv /\ [Next]_vars => EventInv'
<1> SUFFICES ASSUME TypeInv, EventInv, [Next]_vars, config' = config PROVE EventInv'
    BY ConfigKept DEF vars
<1>1. CASE UNCHANGED <<breaks, events, cmd>>
    BY <1>1 DEF EventInv, RequiredEvents, HasExceptionBreakpoints
<1>2. ASSUME NEW filters \in FilterSets, RemoveAllExceptionBreakpoints(filters)
      PROVE  EventInv'
    BY <1>2 DEF RemoveAllExceptionBreakpoints, EventInv
<1>t. cmd \in CmdType
    BY DEF TypeInv, DebuggerTypes
<1>3. CASE AddBreakOnException
  <2>1. breaks' # {} => cmd'.phase = "added"
    BY <1>3, <1>t DEF AddBreakOnException, CmdType
  <2> QED
    BY <2>1 DEF EventInv
<1>4. CASE UpdateMonitorEvents
    BY <1>4 DEF UpdateMonitorEvents, EventInv, RequiredEvents, HasExceptionBreakpoints
<1>5. CASE TraceExistingFrames
    BY <1>5 DEF TraceExistingFrames, EventInv, RequiredEvents, HasExceptionBreakpoints
<1> QED
    BY <1>1, <1>2, <1>3, <1>4, <1>5, DebuggerKept DEF vars, debugger

LEMMA FilterAlways == \A c : ApplyFilesFilter(c, FALSE) => ApplyFilesFilter(c, TRUE)
BY DEF ApplyFilesFilter

LEMMA TraceStays == TypeInv /\ TraceInv /\ [Next]_vars => TraceInv'
<1> SUFFICES ASSUME TypeInv, TraceInv, [Next]_vars, config' = config, ~config.monitoring,
                    cmd'.phase = "idle", HasExceptionBreakpoints'
             PROVE  \A d \in 1 .. Depth' :
                      ApplyFilesFilter(stack'[d].code, FALSE) \/ stack'[d].trace # "none"
    BY ConfigKept DEF vars, TraceInv
<1>t. /\ StackTypes /\ FlightInv /\ flight \in FlightType /\ steady \subseteq Filters
      /\ Depth \in Nat
    BY StackFacts DEF TypeInv, DebuggerTypes
<1>1. CASE UNCHANGED vars
    BY <1>1 DEF vars, debugger, TraceInv, Depth, HasExceptionBreakpoints
<1>2. ASSUME Next, UNCHANGED <<breaks, cmd>>, NEW d \in 1 .. Depth'
      PROVE  ApplyFilesFilter(stack'[d].code, FALSE) \/ stack'[d].trace # "none"
  <2>1. HasExceptionBreakpoints
        /\ \A x \in 1 .. Depth : ApplyFilesFilter(stack[x].code, FALSE) \/ stack[x].trace # "none"
    BY <1>2 DEF TraceInv, HasExceptionBreakpoints
  <2>2. CASE d \in 1 .. Depth /\ stack'[d] = stack[d]
    BY <2>1, <2>2
  <2>3. CASE d \in 1 .. Depth /\ Renewed(stack[d], stack'[d])
    BY <2>3 DEF Renewed
  <2>4. CASE d = Depth' /\ \E c \in Codes : Call(c)
    <3>1. PICK c \in Codes : Call(c)
      BY <2>4
    <3>2. stack'[d].code = c /\ stack'[d].trace \in NewTrace(c)
      BY <2>4, <3>1, <1>t, CallFrame DEF Top
    <3> QED
      BY <2>1, <3>2 DEF NewTrace
  <2>5. CASE d = Depth' /\ d = Depth /\ (Catch \/ Pass \/ \E l \in {1, 4} : Advance(l))
    <3>1. stack'[d].code = stack[d].code /\ stack'[d].trace = stack[d].trace
      BY <2>5, <1>t, CatchFrame, PassFrame, AdvanceFrame DEF TopIs, Top
    <3> QED
      BY <2>1, <2>5, <3>1
  <2>6. CASE d = Depth' /\ d = Depth /\ ExceptionEvent
    <3>1. stack'[d].code = stack[d].code /\ stack'[d].trace \in {stack[d].trace, "dispatch"}
      BY <2>6, <1>t, ExceptionFrame DEF Top
    <3> QED
      BY <2>1, <2>6, <3>1
  <2>7. CASE /\ d \in 1 .. Depth
             /\ stack'[d].code = stack[d].code /\ stack'[d].trace = stack[d].trace
    BY <2>1, <2>7
  <2> QED
    BY <1>2, <2>2, <2>3, <2>4, <2>5, <2>6, <2>7, FrameOrigins
<1>3. CASE \E filters \in FilterSets : RemoveAllExceptionBreakpoints(filters)
    BY <1>3 DEF RemoveAllExceptionBreakpoints
<1>4. CASE AddBreakOnException \/ UpdateMonitorEvents
  <2>1. breaks' = {} \/ cmd'.phase # "idle"
    BY <1>4 DEF AddBreakOnException, UpdateMonitorEvents, TypeInv, DebuggerTypes, CmdType
  <2> QED
    BY <2>1 DEF HasExceptionBreakpoints
<1>5. CASE TraceExistingFrames
  <2>1. Depth' = Depth /\ \A d \in 1 .. Depth : Renewed(stack[d], stack'[d])
    BY <1>5, <1>t, RetraceFrame DEF TraceExistingFrames
  <2> QED
    BY <2>1 DEF Renewed
<1> QED
    BY <1>1, <1>2, <1>3, <1>4, <1>5, DebuggerKept

Setting == TypeInv /\ SteadyInv /\ EventInv /\ TraceInv

LEMMA SettingStarts == Init => Setting
<1> SUFFICES ASSUME Init PROVE Setting
    OBVIOUS
<1>1. Depth = 0
    BY DEF Init, Depth
<1>2. SteadyInv /\ EventInv /\ TraceInv
    BY <1>1 DEF Init, SteadyInv, EventInv, TraceInv, Current
<1> QED
    BY <1>2, TypesStart DEF Setting

LEMMA SettingStays == Setting /\ [Next]_vars => Setting'
BY TypesStay, SteadyStays, EventStays, TraceStays DEF Setting

LEMMA CommandFrames ==
    ASSUME TypeInv, Command
    PROVE  /\ Depth' = Depth /\ steady' \in {{}, steady}
           /\ \A d \in 1 .. Depth :
                stack'[d].code = stack[d].code /\ stack'[d].line = stack[d].line
           /\ Depth > 0 => Top'.code = Top.code /\ Top'.line = Top.line
           /\ Depth > 0 => (UserBoundary' <=> UserBoundary)
<1>t. StackTypes /\ Depth \in Nat
    BY StackFacts DEF TypeInv
<1>1. steady' \in {{}, steady}
    BY DEF Command, RemoveAllExceptionBreakpoints, AddBreakOnException, UpdateMonitorEvents,
       TraceExistingFrames, LineBreakpointAdded, Pause, Resume
<1>2. Depth' = Depth
    BY CommandsKeep
<1>3. \A d \in 1 .. Depth : stack'[d].code = stack[d].code /\ stack'[d].line = stack[d].line
  <2>1. CASE TraceExistingFrames \/ LineBreakpointAdded
    BY <2>1, <1>t, RetraceFrame DEF TraceExistingFrames, LineBreakpointAdded, Renewed
  <2>2. ASSUME NEW filters \in FilterSets, RemoveAllExceptionBreakpoints(filters)
        PROVE  \A d \in 1 .. Depth :
                 stack'[d].code = stack[d].code /\ stack'[d].line = stack[d].line
    BY <1>t, <2>2, UnsteadyFrame
  <2>3. CASE AddBreakOnException \/ UpdateMonitorEvents \/ Pause \/ Resume
    BY <2>3 DEF AddBreakOnException, UpdateMonitorEvents, Pause, Resume
  <2> QED
    BY <2>1, <2>2, <2>3 DEF Command
<1>4. Depth > 0 => Top'.code = Top.code /\ Top'.line = Top.line
    BY <1>t, <1>2, <1>3 DEF Top
<1>5. ASSUME Depth > 0 PROVE UserBoundary' <=> UserBoundary
  <2>1. Depth > 1 => stack'[Depth - 1].code = stack[Depth - 1].code
    BY <1>t, <1>3
  <2> QED
    BY <1>2, <1>4, <1>5, <2>1 DEF UserBoundary
<1> QED
    BY <1>1, <1>2, <1>3, <1>4, <1>5

-----------------------------------------------------------------------------
(***************************************************************************)
(* With the filter "raised".                                               *)
(***************************************************************************)
\* What the filter "raised" demands for the exception in the current frame.
Demanded ==
    /\ "caught" \in steady /\ ~config.first /\ ~config.skip
    /\ Top.code \notin Internal /\ ~ExcludeByFilter(Top.code)
    /\ flight.exc \notin ControlFlow

LEMMA DemandedStops ==
    ASSUME Setting, Demanded, flight.phase = "raise"
    PROVE  /\ StopOnCaught \/ state = "suspend"
           /\ config.monitoring => "RAISE" \in events
           /\ ~config.monitoring => Top.trace # "none"
<1>1. "caught" \in breaks /\ cmd.phase = "idle"
    BY DEF Setting, SteadyInv, Current, Demanded
<1>2. ContextAllows(flight.exc)
  <2>1. config \in ConfigType
    BY ConfigFacts DEF Setting
  <2> QED
    BY <2>1 DEF ContextAllows, Demanded, ConfigType
<1>3. StopOnCaught \/ state = "suspend"
    BY <1>1, <1>2 DEF StopOnCaught, MayStop, Demanded
<1>4. HasExceptionBreakpoints
    BY <1>1 DEF HasExceptionBreakpoints
<1>5. config.monitoring => "RAISE" \in events
    BY <1>1, <1>4 DEF Setting, EventInv, RequiredEvents
<1>6. ASSUME ~config.monitoring PROVE Top.trace # "none"
  <2>1. Depth \in 1 .. Depth
    BY StackFacts DEF Setting, TypeInv, FlightInv
  <2>2. ApplyFilesFilter(Top.code, FALSE) \/ Top.trace # "none"
    BY <1>1, <1>4, <1>6, <2>1 DEF Setting, TraceInv, Top
  <2>3. ~ApplyFilesFilter(Top.code, FALSE)
    BY DEF Demanded, ApplyFilesFilter, ExcludeByFilter
  <2> QED
    BY <2>2, <2>3
<1> QED
    BY <1>3, <1>5, <1>6

LEMMA RaisedStays == Setting /\ RaisedReported /\ [Next]_vars => RaisedReported'
<1> SUFFICES ASSUME Setting, RaisedReported, [Next]_vars PROVE RaisedReported'
    OBVIOUS
<1>t. /\ TypeInv /\ StackTypes /\ FlightInv /\ flight \in FlightType
    BY DEF Setting, TypeInv
<1>1. CASE (\E c \in Codes : Call(c)) \/ (\E l \in {1, 4} : Advance(l))
    BY <1>1, <1>t, RunsOn DEF RaisedReported
<1>2. CASE Starts
    BY <1>2, <1>t, StartFacts DEF RaisedReported
<1>3. CASE Pass
    BY <1>3, <1>t, PassFacts DEF RaisedReported
<1>4. CASE Pop
  <2>1. flight'.phase # "search"
    BY <1>4, <1>t, PopFacts, StackFacts DEF Running
  <2> QED
    BY <2>1 DEF RaisedReported
<1>5. CASE RaiseEvent \/ ExceptionEvent
  <2> SUFFICES ASSUME Demanded', here' \cap {"paused", "tagged"} = {}
               PROVE  "handled" \in here'
    BY DEF RaisedReported, Demanded
  <2>1. /\ flight.phase = "raise" /\ flight'.exc = flight.exc
        /\ UNCHANGED <<config, breaks, cmd, steady>>
    BY <1>5, <1>t, ComesFacts
  <2>2. Top'.code = Top.code
    <3>1. CASE RaiseEvent
      BY <3>1 DEF RaiseEvent, Top, Depth
    <3>2. CASE ExceptionEvent
      BY <3>2, <1>t, ExceptionFrame
    <3> QED
      BY <1>5, <3>1, <3>2
  <2>3. Demanded
    BY <2>1, <2>2 DEF Demanded, ExcludeByFilter
  <2>4. /\ StopOnCaught \/ state = "suspend"
        /\ config.monitoring => "RAISE" \in events
        /\ ~config.monitoring => Top.trace # "none"
    BY <2>1, <2>3, DemandedStops
  <2>5. state # "suspend"
    <3>1. state = "suspend" => ~StopOnCaught
      BY DEF StopOnCaught, MayStop
    <3>2. state = "suspend" => NoStop
      BY <1>5, <3>1 DEF RaiseEvent, ExceptionEvent
    <3> QED
      BY <3>2 DEF NoStop, Paused
  <2>6. HandleException("handled", flight.exc, Here)
    BY <1>5, <2>4, <2>5 DEF RaiseEvent, ExceptionEvent
  <2> QED
    BY <2>6 DEF HandleException, Suspend
<1>6. CASE UnwindEvent \/ ReturnEvent \/ TopLevelReturn \/ TopLevelException
  <2>1. flight'.phase # "search"
    BY <1>6, <1>t, UnwindFacts, LeaveFacts, TopFacts
  <2> QED
    BY <2>1 DEF RaisedReported
<1>7. CASE Command
  <2> SUFFICES ASSUME Demanded', flight'.phase = "search", here' \cap {"paused", "tagged"} = {}
               PROVE  "handled" \in here'
    BY DEF RaisedReported, Demanded
  <2>1. UNCHANGED <<config, flight>> /\ here \subseteq here' /\ steady' = steady
    BY <1>7, <1>t, CommandsKeep, CommandFrames DEF Demanded
  <2>2. Top'.code = Top.code
    BY <1>7, <1>t, <2>1, CommandFrames DEF FlightInv
  <2>3. Demanded
    BY <2>1, <2>2 DEF Demanded, ExcludeByFilter
  <2> QED
    BY <2>1, <2>3 DEF RaisedReported, Demanded
<1>8. CASE UNCHANGED vars
    BY <1>8 DEF vars, RaisedReported, ExcludeByFilter, Top, Depth
<1> QED
    BY <1>1, <1>2, <1>3, <1>4, <1>5, <1>6, <1>7, <1>8, EveryStep

\* With the filter "raised", an exception is reported in every frame of code of
\* interest that it comes to, before a handler is looked for: the events are asked for
\* and the trace functions in place, whatever the order of calls and commands was.
THEOREM RaisesAreReported == Spec => []RaisedReported
<1>1. Init => RaisedReported
    BY DEF Init, RaisedReported, Running
<1>2. Spec => [](Setting /\ RaisedReported)
    BY <1>1, SettingStarts, SettingStays, RaisedStays, PTL DEF Spec
<1> QED
    BY <1>2, PTL

-----------------------------------------------------------------------------
(***************************************************************************)
(* With the filter "userUnhandled".  With sys.settrace, a frame on the     *)
(* boundary of user code notes the exceptions that come to it (NoteInv),   *)
(* and keeps what it noted while its except block runs (InfoInv), so that  *)
(* a "raise" there, which has no event, finds it.                          *)
(***************************************************************************)
BoundaryAt(d) ==
    /\ ~ApplyFilesFilter(stack[d].code, TRUE)
    /\ d > 1 => ApplyFilesFilter(stack[d - 1].code, TRUE)
Breaking(e) == e \notin ControlFlow \cup {None}
InfoInv ==
    ~config.monitoring =>
      \A d \in 1 .. Depth :
        Breaking(stack[d].exc) /\ "user" \in stack[d].steady /\ BoundaryAt(d) =>
          stack[d].info # NoInfo /\ stack[d].trace # "none"

\* An exception that the filter is about is in a frame that it should not leave
\* unreported.
Awaited ==
    /\ ~config.monitoring /\ Breaking(flight.exc) /\ "user" \in steady /\ UserBoundary
    /\ here \cap {"paused", "retraced"} = {}
NoteInv ==
    Awaited /\ flight.phase \in {"search", "leave"} =>
      /\ Top.info # NoInfo /\ Top.trace # "none"
      /\ flight.phase = "search" => Top.line \in Top.info.lines
      /\ flight.phase = "leave" => IsUnhandled(Top.info)

LEMMA BoundaryOfTop == ASSUME TypeInv, Depth > 0 PROVE UserBoundary <=> BoundaryAt(Depth)
BY DEF UserBoundary, BoundaryAt, Top

\* On the boundary of user code nothing is left out.
LEMMA BoundaryFacts ==
    ASSUME UserBoundary
    PROVE  /\ Top.code \notin Internal /\ ~ExcludeByFilter(Top.code)
           /\ ~ApplyFilesFilter(Top.code, FALSE)
BY DEF UserBoundary, ApplyFilesFilter, ExcludeByFilter

LEMMA AwaitedIsNoted ==
    ASSUME Setting, UserBoundary, Breaking(flight.exc), "user" \in steady, Depth > 0
    PROVE  /\ UserUncaught \/ state = "suspend"
           /\ config.monitoring => "PY_UNWIND" \in events
           /\ ~config.monitoring => Top.trace # "none"
<1>1. "user" \in breaks /\ cmd.phase = "idle"
    BY DEF Setting, SteadyInv, Current
<1>2. UserUncaught \/ state = "suspend"
    BY <1>1, BoundaryFacts DEF UserUncaught, MayStop, Breaking
<1>3. HasExceptionBreakpoints
    BY <1>1 DEF HasExceptionBreakpoints
<1>4. config.monitoring => "PY_UNWIND" \in events
    BY <1>1, <1>3 DEF Setting, EventInv, RequiredEvents
<1>5. ASSUME ~config.monitoring PROVE Top.trace # "none"
  <2>1. Depth \in 1 .. Depth
    BY StackFacts DEF Setting, TypeInv
  <2>2. ApplyFilesFilter(Top.code, FALSE) \/ Top.trace # "none"
    BY <1>1, <1>3, <1>5, <2>1 DEF Setting, TraceInv, Top
  <2> QED
    BY <2>2, BoundaryFacts
<1> QED
    BY <1>2, <1>4, <1>5

LEMMA NoteStays == Setting /\ InfoInv /\ NoteInv /\ [Next]_vars => NoteInv'
<1> SUFFICES ASSUME Setting, InfoInv, NoteInv, [Next]_vars,
                    Awaited', flight'.phase \in {"search", "leave"}
             PROVE  /\ Top'.info # NoInfo /\ Top'.trace # "none"
                    /\ flight'.phase = "search" => Top'.line \in Top'.info.lines
                    /\ flight'.phase = "leave" => IsUnhandled(Top.info)'
    BY DEF NoteInv
<1>t. /\ TypeInv /\ StackTypes /\ FlightInv /\ flight \in FlightType /\ Depth \in Nat
    BY StackFacts DEF Setting, TypeInv
<1>c. [Next]_vars => config' = config
    BY ConfigKept DEF vars
<1>m. ~config.monitoring
    BY <1>c DEF Awaited
<1>1. CASE (\E c \in Codes : Call(c)) \/ (\E l \in {1, 4} : Advance(l))
    BY <1>1, <1>t, RunsOn
<1>2. CASE Starts
  <2>1. CASE Reraise
    <3>1. /\ stack' = stack /\ Depth > 0 /\ Top.line = 3 /\ Top.exc # None
          /\ flight'.exc = Top.exc /\ flight'.phase = "leave" /\ steady' = Top.steady
      BY <2>1 DEF Reraise, TakeOff
    <3>2. Top' = Top /\ Depth' = Depth /\ (UserBoundary' <=> UserBoundary)
      BY <3>1 DEF Top, Depth, UserBoundary
    <3>3. Breaking(Top.exc) /\ "user" \in Top.steady /\ UserBoundary
      BY <3>1, <3>2 DEF Awaited, Breaking
    <3>4. Depth \in 1 .. Depth /\ BoundaryAt(Depth)
      BY <3>1, <3>3, <1>t, BoundaryOfTop
    <3>5. Top.info # NoInfo /\ Top.trace # "none"
      BY <3>3, <3>4, <1>m DEF InfoInv, Top
    <3> QED
      BY <3>1, <3>2, <3>5 DEF IsUnhandled
  <2>2. CASE \E e \in Excs : RaiseNew(e) \/ RaiseOld(e)
    BY <2>2 DEF RaiseNew, RaiseOld, TakeOff
  <2>3. CASE Catch \/ Restart
    BY <2>3 DEF Catch, Restart, Running
  <2>4. CASE \E none \in BOOLEAN : ReturnFrom(none)
    BY <2>4 DEF ReturnFrom, Awaited, Breaking
  <2> QED
    BY <1>2, <2>1, <2>2, <2>3, <2>4 DEF Starts
<1>3. CASE Pass
  <2>1. /\ flight.phase = "search" /\ flight'.phase = "leave" /\ flight'.exc = flight.exc
        /\ Depth' = Depth /\ Depth > 0 /\ UNCHANGED <<config, steady, here>>
    BY <1>3, <1>t, PassFacts DEF FlightInv
  <2>2. CallersKept /\ TopIs(IF Top.line = 1 THEN 2 ELSE Top.line, Top.exc, Top.steady)
    BY <1>3, <1>t, PassFrame
  <2>3. UserBoundary' <=> UserBoundary
    <3>1. Depth > 1 => stack'[Depth - 1] = stack[Depth - 1]
      BY <1>t, <2>2 DEF CallersKept
    <3> QED
      BY <2>1, <2>2, <3>1 DEF UserBoundary, TopIs
  <2>4. Awaited
    BY <2>1, <2>3 DEF Awaited, Breaking
  <2>5. Top.info # NoInfo /\ Top.trace # "none" /\ Top.line \in Top.info.lines
    BY <2>1, <2>4 DEF NoteInv
  <2> QED
    BY <2>1, <2>2, <2>5 DEF TopIs, IsUnhandled
<1>4. CASE Pop
  <2>1. flight'.phase \notin {"search", "leave"}
    BY <1>4, <1>t, PopFacts DEF Running
  <2> QED
    BY <2>1
<1>5. CASE RaiseEvent \/ UnwindEvent
    BY <1>5, <1>m DEF RaiseEvent, UnwindEvent
<1>6. CASE ExceptionEvent
  <2>1. /\ flight.phase = "raise" /\ flight'.phase = "search" /\ flight'.exc = flight.exc
        /\ Depth' = Depth /\ Depth > 0 /\ UNCHANGED <<config, steady>>
    BY <1>6, <1>t, ComesFacts DEF FlightInv
  <2>2. /\ Top'.code = Top.code /\ Top'.line = Top.line
        /\ Top'.info = IF Notes THEN Noted(Top.info, Top.line) ELSE Top.info
        /\ Top'.trace = IF Retraces THEN "dispatch" ELSE Top.trace
        /\ \A d \in 1 .. Depth - 1 : stack'[d].code = stack[d].code
    BY <1>6, <1>t, ExceptionFrame DEF Renewed
  <2>3. UserBoundary
    <3>1. Depth > 1 => stack'[Depth - 1].code = stack[Depth - 1].code
      BY <1>t, <2>2
    <3> QED
      BY <2>1, <2>2, <3>1 DEF UserBoundary, Awaited
  <2>4. Breaking(flight.exc) /\ "user" \in steady
    BY <2>1 DEF Awaited, Breaking
  <2>5. (UserUncaught \/ state = "suspend") /\ Top.trace # "none"
    BY <2>1, <2>3, <2>4, <1>m, AwaitedIsNoted
  <2>6. state # "suspend"
    <3>1. state = "suspend" => ~StopOnCaught
      BY DEF StopOnCaught, MayStop
    <3>2. state = "suspend" => NoStop
      BY <1>6, <3>1 DEF ExceptionEvent
    <3> QED
      BY <3>2 DEF NoStop, Paused, Awaited
  <2>7. Notes
    BY <2>5, <2>6 DEF Notes
  <2>8. flight.exc \in Excs /\ Top.line \in 1 .. 4 /\ Top.info \in NotedType
    BY <2>1, <1>t, StackFacts DEF FlightInv, FlightType, FrameType
  <2>9. /\ Top'.info # NoInfo /\ Top'.info.lines = Top.info.lines \cup {Top.line}
    BY <2>2, <2>7, <2>8, NotedIsTyped
  <2> QED
    BY <2>1, <2>2, <2>5, <2>9
<1>7. CASE ReturnEvent \/ TopLevelReturn \/ TopLevelException
  <2>1. flight'.phase \notin {"search", "leave"}
    BY <1>7, <1>t, LeaveFacts, TopFacts
  <2> QED
    BY <2>1
<1>8. CASE Command
  <2>1. /\ UNCHANGED <<config, flight>> /\ here \subseteq here' /\ steady' = steady
        /\ Depth' = Depth /\ Depth > 0 /\ (UserBoundary' <=> UserBoundary)
    BY <1>8, <1>t, CommandsKeep, CommandFrames DEF Awaited, FlightInv
  <2>2. Awaited
    BY <2>1 DEF Awaited, Breaking
  <2>3. Top'.info = Top.info /\ Top'.trace = Top.trace /\ Top'.line = Top.line
    <3>1. CASE TraceExistingFrames
      <4>1. cmd.phase # "idle"
        BY <3>1 DEF TraceExistingFrames
      <4> QED
        BY <4>1, <2>2 DEF Awaited, Setting, SteadyInv, Current
    <3>2. CASE LineBreakpointAdded
      <4>1. stack' = stack
        BY <3>2 DEF LineBreakpointAdded, Awaited
      <4> QED
        BY <4>1 DEF Top, Depth
    <3>3. ASSUME NEW filters \in FilterSets, RemoveAllExceptionBreakpoints(filters)
          PROVE  Top'.info = Top.info /\ Top'.trace = Top.trace /\ Top'.line = Top.line
      BY <2>1, <3>3, <1>t, UnsteadyFrame DEF Top
    <3>4. CASE AddBreakOnException \/ UpdateMonitorEvents \/ Pause \/ Resume
      BY <3>4 DEF AddBreakOnException, UpdateMonitorEvents, Pause, Resume, Top, Depth
    <3> QED
      BY <1>8, <3>1, <3>2, <3>3, <3>4 DEF Command
  <2> QED
    BY <2>1, <2>2, <2>3 DEF NoteInv, IsUnhandled
<1>9. CASE UNCHANGED vars
  <2>1. UNCHANGED <<config, stack, flight, steady, here>>
    BY <1>9 DEF vars
  <2>2. Top' = Top /\ Depth' = Depth /\ (UserBoundary' <=> UserBoundary)
    BY <2>1 DEF Top, Depth, UserBoundary
  <2> QED
    BY <2>1, <2>2 DEF NoteInv, Awaited, Breaking, IsUnhandled
<1> QED
    BY <1>1, <1>2, <1>3, <1>4, <1>5, <1>6, <1>7, <1>8, <1>9, EveryStep

LEMMA InfoStays == Setting /\ InfoInv /\ NoteInv /\ [Next]_vars => InfoInv'
<1> SUFFICES ASSUME Setting, InfoInv, NoteInv, Next \/ UNCHANGED vars, config' = config,
                    ~config.monitoring, NEW d \in 1 .. Depth',
                    Breaking(stack'[d].exc), "user" \in stack'[d].steady, BoundaryAt(d)'
             PROVE  stack'[d].info # NoInfo /\ stack'[d].trace # "none"
    BY ConfigKept DEF vars, InfoInv, Breaking
<1>t. /\ TypeInv /\ StackTypes /\ FlightInv /\ flight \in FlightType /\ Depth \in Nat
      /\ steady \subseteq Filters
    BY StackFacts DEF Setting, TypeInv, DebuggerTypes
<1>b. ASSUME Next, d \in 1 .. Depth, stack'[d].code = stack[d].code PROVE BoundaryAt(d)
  <2>1. ASSUME d > 1 PROVE stack'[d - 1].code = stack[d - 1].code
    <3>1. d - 1 \in 1 .. Depth' /\ d - 1 # Depth' /\ d - 1 # Depth
      <4>1. Depth' \in Nat /\ d \in Nat /\ d <= Depth'
        <5>1. TypeInv'
          BY <1>b, <1>t, TypesStay
        <5> QED
          BY <5>1 DEF TypeInv, StackTypes, Depth
      <4> QED
        BY <1>b, <2>1, <1>t, <4>1
    <3> QED
      BY <1>b, <1>t, <3>1, FrameOrigins DEF Renewed
  <2> QED
    BY <1>b, <2>1 DEF BoundaryAt
<1>1. CASE UNCHANGED vars
  <2>1. stack' = stack
    BY <1>1 DEF vars
  <2> QED
    BY <2>1 DEF InfoInv, BoundaryAt, Depth
<1>2. CASE Next
  <2>1. CASE d \in 1 .. Depth /\ stack'[d] = stack[d]
    BY <1>2, <1>b, <2>1 DEF InfoInv
  <2>2. CASE stack'[d].steady = {}
    BY <2>2
  <2>3. CASE Renewed(stack[d], stack'[d])
    BY <2>3 DEF Renewed
  <2>4. CASE d = Depth' /\ \E c \in Codes : Call(c)
    <3>1. stack'[d].steady = {}
      BY <2>4, <1>t, CallFrame DEF Top
    <3> QED
      BY <3>1
  <2>5. CASE d = Depth' /\ d = Depth /\ \E l \in {1, 4} : Advance(l)
    <3>1. stack'[d].steady = {}
      BY <2>5, <1>t, AdvanceFrame DEF Top, TopIs
    <3> QED
      BY <3>1
  <2>6. CASE d = Depth' /\ d = Depth /\ Catch
    <3>1. /\ stack'[d].code = stack[d].code /\ stack'[d].exc = flight.exc
          /\ stack'[d].info = Top.info /\ stack'[d].trace = Top.trace
          /\ stack'[d].steady = IF here \cap {"retraced", "paused"} = {} THEN steady ELSE {}
      BY <2>6, <1>t, CatchFrame DEF Top, TopIs
    <3>2. BoundaryAt(Depth) /\ Depth > 0
      BY <1>2, <1>b, <2>6, <3>1, <1>t
    <3>3. here \cap {"retraced", "paused"} = {} /\ "user" \in steady /\ Breaking(flight.exc)
      BY <3>1
    <3>4. Awaited
      BY <3>2, <3>3, <1>t, BoundaryOfTop DEF Awaited
    <3>5. flight.phase = "search"
      BY <2>6 DEF Catch
    <3> QED
      BY <3>1, <3>4, <3>5 DEF NoteInv
  <2>7. CASE d = Depth' /\ d = Depth /\ Pass
    <3>1. /\ stack'[d].code = stack[d].code /\ stack'[d].exc = stack[d].exc
          /\ stack'[d].info = stack[d].info /\ stack'[d].trace = stack[d].trace
          /\ stack'[d].steady = stack[d].steady
      BY <2>7, <1>t, PassFrame DEF Top, TopIs
    <3>2. BoundaryAt(d) /\ d \in 1 .. Depth
      BY <1>2, <1>b, <2>7, <3>1, <1>t
    <3> QED
      BY <3>1, <3>2 DEF InfoInv, Breaking
  <2>8. CASE d = Depth' /\ d = Depth /\ ExceptionEvent
    <3>1. /\ stack'[d].code = stack[d].code /\ stack'[d].exc = stack[d].exc
          /\ stack'[d].info = IF Notes THEN Noted(Top.info, Top.line) ELSE stack[d].info
          /\ stack'[d].trace \in {"dispatch", stack[d].trace}
          /\ stack'[d].steady = stack[d].steady
      BY <2>8, <1>t, ExceptionFrame DEF Top
    <3>2. BoundaryAt(d) /\ d \in 1 .. Depth
      BY <1>2, <1>b, <2>8, <3>1, <1>t
    <3>3. stack[d].info # NoInfo /\ stack[d].trace # "none"
      BY <3>1, <3>2 DEF InfoInv, Breaking
    <3>4. Noted(Top.info, Top.line) # NoInfo
      <4>1. flight.phase = "raise" /\ Depth > 0
        BY <2>8, <1>t, ComesFacts DEF FlightInv
      <4>2. flight.exc \in Excs /\ Top.line \in 1 .. 4 /\ Top.info \in NotedType
        BY <4>1, <1>t, StackFacts DEF FlightInv, FlightType, FrameType
      <4> QED
        BY <4>2, NotedIsTyped
    <3> QED
      BY <3>1, <3>3, <3>4
  <2>9. CASE d = Depth' /\ d = Depth /\ (Catch \/ Pass \/ \E l \in {1, 4} : Advance(l))
    BY <2>5, <2>6, <2>7, <2>9
  <2> QED
    BY <1>2, <1>t, <2>1, <2>2, <2>3, <2>4, <2>8, <2>9, FrameOrigins
<1> QED
    BY <1>1, <1>2

LEMMA UserStays ==
    Setting /\ InfoInv /\ NoteInv /\ UserUnhandledReported /\ [Next]_vars => UserUnhandledReported'
<1> SUFFICES ASSUME Setting, InfoInv, NoteInv, UserUnhandledReported, [Next]_vars,
                    flight'.phase \in {"top", "pop"}, flight'.exc # None, "user" \in steady',
                    UserBoundary', flight'.exc \notin ControlFlow,
                    here' \cap {"paused", "tagged", "retraced"} = {}
             PROVE  "user" \in here'
    BY DEF UserUnhandledReported
<1>t. /\ TypeInv /\ StackTypes /\ FlightInv /\ flight \in FlightType /\ Depth \in Nat
    BY StackFacts DEF Setting, TypeInv
<1>1. CASE (\E c \in Codes : Call(c)) \/ (\E l \in {1, 4} : Advance(l))
    BY <1>1, <1>t, RunsOn
<1>2. CASE Starts
    BY <1>2, <1>t, StartFacts
<1>3. CASE Pass \/ RaiseEvent \/ ExceptionEvent
    BY <1>3, <1>t, PassFacts, ComesFacts
<1>4. CASE Pop
    BY <1>4, <1>t, PopFacts DEF Running
<1>5. CASE UnwindEvent
  <2>1. /\ flight.phase = "leave" /\ flight'.exc = flight.exc /\ config.monitoring /\ Depth > 0
        /\ UNCHANGED <<config, stack, breaks, events, cmd, steady>>
    BY <1>5, <1>t, UnwindFacts DEF FlightInv
  <2>2. UserBoundary /\ Breaking(flight.exc) /\ "user" \in steady
    BY <2>1 DEF UserBoundary, Top, Depth, Breaking
  <2>3. (UserUncaught \/ state = "suspend") /\ "PY_UNWIND" \in events
    BY <2>1, <2>2, AwaitedIsNoted
  <2>4. UnwindUser \/ UnwindUncaught \/ UnwindNothing
    BY <1>5, <2>1, <2>2, <2>3 DEF UnwindEvent, Breaking
  <2>5. UserUncaught
    <3>1. CASE state = "suspend"
      <4>1. Paused = {"paused"} /\ ~UserUncaught
        BY <3>1 DEF Paused, UserUncaught, MayStop
      <4>2. "paused" \in here'
        BY <2>4, <4>1 DEF UnwindUser, UnwindUncaught, UnwindNothing, NoStop, Suspend
      <4> QED
        BY <4>2
    <3> QED
      BY <2>3, <3>1
  <2>6. HandleException("user", flight.exc, Here)
    BY <2>4, <2>5 DEF UnwindUser, UnwindUncaught, UnwindNothing
  <2> QED
    BY <2>6 DEF HandleException, Suspend
<1>6. CASE ReturnEvent
  <2>1. /\ flight.phase = "leave" /\ flight'.exc = flight.exc /\ ~config.monitoring
        /\ Depth > 0 /\ Depth' = Depth /\ Top' = Top /\ UNCHANGED <<config, steady>>
    BY <1>6, <1>t, LeaveFacts
  <2>2. UserBoundary
    <3>1. Depth > 1 => stack'[Depth - 1].code = stack[Depth - 1].code
      <4>1. \A d \in 1 .. Depth - 1 : stack'[d].code = stack[d].code
        BY <1>6, <1>t, ReturnFrame DEF Renewed
      <4> QED
        BY <4>1, <1>t
    <3> QED
      BY <2>1, <3>1 DEF UserBoundary
  <2>3. here \subseteq here'
    BY <1>6, <1>t, LeaveFacts DEF Suspend
  <2>4. Awaited
    BY <2>1, <2>2, <2>3 DEF Awaited, Breaking
  <2>5. Top.info # NoInfo /\ Top.trace # "none" /\ IsUnhandled(Top.info)
    BY <2>1, <2>4 DEF NoteInv
  <2>6. Top.trace \in Traces /\ flight.none
    BY <2>1, <1>t, StackFacts DEF FrameType, FlightInv
  <2>7. Reason
    BY <2>5, <2>6 DEF Reason, Traces
  <2> QED
    BY <1>6, <1>t, <2>7, LeaveFacts DEF Suspend
<1>7. CASE TopLevelReturn \/ TopLevelException
  <2>1. /\ flight.phase = "top" /\ flight'.exc = flight.exc /\ UNCHANGED <<config, stack, steady>>
    BY <1>7, <1>t, TopFacts
  <2>2. here \subseteq here'
    BY <1>7, <1>t, TopFacts DEF Suspend
  <2>3. UserBoundary
    BY <2>1 DEF UserBoundary, Top, Depth
  <2> QED
    BY <2>1, <2>2, <2>3 DEF UserUnhandledReported
<1>8. CASE Command
  <2>1. /\ UNCHANGED <<config, flight>> /\ here \subseteq here' /\ steady' = steady
        /\ Depth > 0 /\ (UserBoundary' <=> UserBoundary)
    BY <1>8, <1>t, CommandsKeep, CommandFrames DEF FlightInv
  <2> QED
    BY <2>1 DEF UserUnhandledReported
<1>9. CASE UNCHANGED vars
    BY <1>9 DEF vars, UserUnhandledReported, UserBoundary, Top, Depth
<1> QED
    BY <1>1, <1>2, <1>3, <1>4, <1>5, <1>6, <1>7, <1>8, <1>9, EveryStep

UserInv == Setting /\ InfoInv /\ NoteInv /\ UserUnhandledReported

LEMMA UserStarts == Init => UserInv
<1> SUFFICES ASSUME Init PROVE UserInv
    OBVIOUS
<1>1. Depth = 0 /\ flight.phase = "run"
    BY DEF Init, Depth, Running
<1> QED
    BY <1>1, SettingStarts DEF UserInv, InfoInv, NoteInv, UserUnhandledReported

LEMMA UserInvStays == UserInv /\ [Next]_vars => UserInv'
BY SettingStays, InfoStays, NoteStays, UserStays DEF UserInv

\* With the filter "userUnhandled", an exception does not leave user code for a
\* library, or for the end of the thread, without a report: with sys.settrace the guess
\* of is_unhandled_exception() is right for every exception that was noted, a "raise" in
\* an except block, which has no event, included.  If a line breakpoint is added after
\* the exception was noted, nothing is promised: what was noted is lost.
THEOREM UserUnhandledAreReported == Spec => []UserUnhandledReported
<1>1. UserInv => UserUnhandledReported
    BY DEF UserInv
<1> QED
    BY <1>1, UserStarts, UserInvStays, PTL DEF Spec

-----------------------------------------------------------------------------
(***************************************************************************)
(* With the filter "uncaught".  The outermost frame is known to            *)
(* sys.monitoring from the first frame that the exception left (UnhInv);   *)
(* with sys.settrace the tracer of a frame with no caller notes what comes *)
(* to it (TopInv) and keeps it while the except block runs (TopFrameInv).  *)
(***************************************************************************)
SuspInv == suspendedAt => flight.phase = "gone" /\ ~config.monitoring
UnhInv == unhandled.exc # None => unhandled.frame \in {1, Gone}
GoneInv == config.managed /\ unhandled.frame = Gone => flight.phase \in {"boot", "gone"}
UnmanagedTrace == ~config.monitoring /\ ~config.managed
TopFrameInv ==
    ( /\ UnmanagedTrace /\ Depth > 0 /\ (flight.phase = "run" \/ Depth > 1)
      /\ stack[1].exc # None /\ stack[1].steady # {} )
    => top.exc = stack[1].exc
TopInv ==
    ( /\ UnmanagedTrace /\ Depth = 1 /\ flight.phase \in {"search", "leave", "top"}
      /\ flight.exc # None /\ steady # {} /\ "retraced" \notin here )
    => /\ top.exc = flight.exc
       /\ flight.phase = "search" => Top.line \in top.lines
       /\ flight.phase \in {"leave", "top"} => IsUnhandled(top)
Reportable ==
    /\ flight.exc # None /\ "uncaught" \in steady
    /\ \E i \in DOMAIN tb[flight.exc] : ~ExcludeByFilter(tb[flight.exc][i][1])
    /\ "tagged" \notin here
    /\ config.managed \/ here \cap {"stale", "retraced"} = {}
DueInv ==
    ( /\ Reportable
      /\ \/ flight.phase = "gone"
         \/ /\ config.monitoring \/ ~config.managed
            /\ flight.phase = "boot" \/ (flight.phase = "pop" /\ Depth = 1) )
    => here \cap {"user", "unhandled"} # {}

LEMMA SuspStays == TypeInv /\ SuspInv /\ [Next]_vars => SuspInv'
<1> SUFFICES ASSUME TypeInv, SuspInv, [Next]_vars, config' = config PROVE SuspInv'
    BY ConfigKept DEF vars
<1>1. CASE (\E c \in Codes : Call(c)) \/ (\E l \in {1, 4} : Advance(l))
    BY <1>1, RunsOn DEF SuspInv
<1>2. CASE Starts
    BY <1>2 DEF Starts, SuspInv, RaiseNew, RaiseOld, Reraise, Catch, Restart, ReturnFrom, Free, local
<1>3. CASE Pass \/ Pop
    BY <1>3, PassFacts, PopFacts DEF SuspInv
<1>4. CASE RaiseEvent \/ ExceptionEvent \/ UnwindEvent \/ ReturnEvent
    BY <1>4, ComesFacts, UnwindFacts, LeaveFacts DEF SuspInv
<1>5. CASE TopLevelReturn
    BY <1>5 DEF SuspInv, TopLevelReturn
<1>6. CASE TopLevelException
    BY <1>6, TopFacts DEF SuspInv, TopLevelException
<1>7. CASE Command
    BY <1>7, CommandsKeep DEF SuspInv
<1>8. CASE UNCHANGED vars
    BY <1>8 DEF vars, local, SuspInv
<1> QED
    BY <1>1, <1>2, <1>3, <1>4, <1>5, <1>6, <1>7, <1>8, EveryStep

LEMMA UnhStays == TypeInv /\ UnhInv /\ [Next]_vars => UnhInv'
<1> SUFFICES ASSUME TypeInv, UnhInv, [Next]_vars PROVE UnhInv'
    OBVIOUS
<1>t. unhandled \in UnhandledType
    BY DEF TypeInv, LocalTypes
<1>1. CASE (\E c \in Codes : Call(c)) \/ (\E l \in {1, 4} : Advance(l))
    BY <1>1, RunsOn DEF UnhInv
<1>2. CASE Starts
  <2>1. unhandled' = unhandled \/ unhandled' = [exc |-> None, frame |-> 0]
    BY <1>2 DEF Starts, RaiseNew, RaiseOld, Reraise, Catch, Restart, ReturnFrom, local
  <2> QED
    BY <2>1 DEF UnhInv
<1>3. CASE Pass
    BY <1>3, PassFacts DEF UnhInv
<1>4. CASE Pop
  <2>1. unhandled'.exc = unhandled.exc /\ unhandled'.frame \in {Gone, unhandled.frame}
    BY <1>4, <1>t DEF Pop, UnhandledType
  <2> QED
    BY <2>1 DEF UnhInv
<1>5. CASE RaiseEvent \/ ExceptionEvent \/ ReturnEvent
    BY <1>5, ComesFacts, LeaveFacts DEF UnhInv
<1>6. CASE UnwindEvent
  <2>1. CASE unhandled' = unhandled
    BY <2>1 DEF UnhInv
  <2>2. CASE UnwindUncaught
    <3>1. unhandled' = [exc |-> flight.exc, frame |-> UnhandledFrame]
      BY <2>2 DEF UnwindUncaught
    <3> QED
      BY <3>1 DEF UnhInv, UnhandledFrame
  <2> QED
    BY <1>6, <2>1, <2>2 DEF UnwindEvent, UnwindUser, UnwindNothing
<1>7. CASE TopLevelReturn \/ TopLevelException
    BY <1>7, TopFacts DEF UnhInv
<1>8. CASE Command
    BY <1>8, CommandsKeep DEF UnhInv
<1>9. CASE UNCHANGED vars
    BY <1>9 DEF vars, local, UnhInv
<1> QED
    BY <1>1, <1>2, <1>3, <1>4, <1>5, <1>6, <1>7, <1>8, <1>9, EveryStep

\* No exception was seen to leave an earlier outermost frame of a thread that has
\* only one.
LEMMA GoneStays == TypeInv /\ GoneInv /\ [Next]_vars => GoneInv'
<1> SUFFICES ASSUME TypeInv, GoneInv, [Next]_vars, config' = config, config.managed
             PROVE  unhandled'.frame = Gone => flight'.phase \in {"boot", "gone"}
    BY ConfigKept DEF vars, GoneInv
<1>t. unhandled \in UnhandledType
    BY DEF TypeInv, LocalTypes
<1>1. CASE (\E c \in Codes : Call(c)) \/ (\E l \in {1, 4} : Advance(l))
    BY <1>1, RunsOn DEF GoneInv
<1>2. CASE Starts
  <2>1. unhandled' = unhandled \/ unhandled' = [exc |-> None, frame |-> 0]
    BY <1>2 DEF Starts, RaiseNew, RaiseOld, Reraise, Catch, Restart, ReturnFrom, local
  <2>2. flight.phase \notin {"boot", "gone"}
    BY <1>2 DEF Starts, RaiseNew, RaiseOld, Reraise, Catch, Restart, ReturnFrom, Free
  <2> QED
    BY <2>1, <2>2 DEF GoneInv, Gone
<1>3. CASE Pass
    BY <1>3, PassFacts DEF GoneInv
<1>4. CASE Pop
  <2>1. CASE Depth > 1
    BY <1>4, <1>t, <2>1 DEF Pop, GoneInv, UnhandledType
  <2>2. CASE ~(Depth > 1)
    <3>1. flight' = [flight EXCEPT !.phase = "boot"]
      BY <1>4, <2>2 DEF Pop
    <3> QED
      BY <3>1 DEF TypeInv, FlightType
  <2> QED
    BY <2>1, <2>2
<1>5. CASE RaiseEvent \/ ExceptionEvent \/ ReturnEvent
    BY <1>5, ComesFacts, LeaveFacts DEF GoneInv
<1>6. CASE UnwindEvent
  <2>1. flight.phase = "leave"
    BY <1>6 DEF UnwindEvent
  <2>2. CASE unhandled' = unhandled
    BY <2>1, <2>2 DEF GoneInv
  <2>3. CASE UnwindUncaught
    <3>1. unhandled' = [exc |-> flight.exc, frame |-> UnhandledFrame]
      BY <2>3 DEF UnwindUncaught
    <3> QED
      BY <2>1, <3>1 DEF GoneInv, UnhandledFrame, Gone
  <2> QED
    BY <1>6, <2>2, <2>3 DEF UnwindEvent, UnwindUser, UnwindNothing
<1>7. CASE TopLevelReturn \/ TopLevelException
    BY <1>7, TopFacts DEF GoneInv
<1>8. CASE Command
    BY <1>8, CommandsKeep DEF GoneInv
<1>9. CASE UNCHANGED vars
    BY <1>9 DEF vars, local, GoneInv
<1> QED
    BY <1>1, <1>2, <1>3, <1>4, <1>5, <1>6, <1>7, <1>8, <1>9, EveryStep

LEMMA TopFrameStays == Setting /\ TopInv /\ TopFrameInv /\ [Next]_vars => TopFrameInv'
<1> SUFFICES ASSUME Setting, TopInv, TopFrameInv, Next \/ UNCHANGED vars, config' = config,
                    UnmanagedTrace, Depth' > 0, flight'.phase = "run" \/ Depth' > 1,
                    stack'[1].exc # None, stack'[1].steady # {}
             PROVE  top'.exc = stack'[1].exc
    BY ConfigKept DEF vars, TopFrameInv, UnmanagedTrace
<1>t. /\ TypeInv /\ StackTypes /\ FlightInv /\ flight \in FlightType /\ Depth \in Nat
      /\ steady \subseteq Filters
    BY StackFacts DEF Setting, TypeInv, DebuggerTypes
<1>1. ASSUME NEW c \in Codes, Call(c) PROVE top'.exc = stack'[1].exc
  <2>1. Depth' = Depth + 1 /\ flight.phase = "run" /\ \A d \in 1 .. Depth : stack'[d] = stack[d]
    BY <1>1, <1>t, CallFrame DEF Call, Free
  <2>2. CASE Depth = 0
    <3>1. stack'[1].exc = None
      BY <1>1, <1>t, <2>1, <2>2, CallFrame DEF Top
    <3> QED
      BY <3>1
  <2>3. CASE Depth > 0
    <3>1. top' = top /\ stack'[1] = stack[1]
      BY <1>1, <1>t, <2>1, <2>3 DEF Call
    <3> QED
      BY <2>1, <2>3, <3>1 DEF TopFrameInv
  <2> QED
    BY <1>t, <2>2, <2>3
<1>2. ASSUME NEW l \in {1, 4}, Advance(l) PROVE top'.exc = stack'[1].exc
  <2>1. Depth' = Depth /\ Depth > 0 /\ flight.phase = "run" /\ CallersKept /\ TopIs(l, None, {})
        /\ top' = top
    BY <1>2, <1>t, AdvanceFrame DEF Advance, Free, local
  <2>2. Depth # 1
    BY <2>1 DEF TopIs, Top
  <2>3. stack'[1] = stack[1]
    BY <1>t, <2>1, <2>2 DEF CallersKept
  <2> QED
    BY <2>1, <2>3 DEF TopFrameInv
<1>3. CASE Catch
  <2>1. /\ Depth' = Depth /\ Depth > 0 /\ flight.phase = "search" /\ CallersKept /\ top' = top
        /\ TopIs(3, flight.exc, IF here \cap {"retraced", "paused"} = {} THEN steady ELSE {})
    BY <1>3, <1>t, CatchFrame DEF Catch, FlightInv, local
  <2>2. CASE Depth = 1
    <3>1. stack'[1].exc = flight.exc /\ here \cap {"retraced", "paused"} = {} /\ steady # {}
      BY <2>1, <2>2 DEF TopIs, Top
    <3> QED
      BY <2>1, <2>2, <3>1 DEF TopInv
  <2>3. CASE Depth > 1
    <3>1. stack'[1] = stack[1]
      BY <1>t, <2>1, <2>3 DEF CallersKept
    <3> QED
      BY <2>1, <2>3, <3>1 DEF TopFrameInv
  <2> QED
    BY <1>t, <2>1, <2>2, <2>3
<1>4. CASE Pass
  <2>1. Depth' = Depth /\ Depth > 1 /\ CallersKept /\ top' = top
    BY <1>4, <1>t, PassFrame, PassFacts
  <2>2. stack'[1] = stack[1]
    BY <1>t, <2>1 DEF CallersKept
  <2> QED
    BY <2>1, <2>2 DEF TopFrameInv
<1>5. CASE Pop
  <2>1. Depth' = Depth - 1 /\ Depth > 1 /\ top' = top
    BY <1>5, <1>t, PopFacts
  <2>2. stack'[1] = stack[1]
    BY <1>5, <1>t, <2>1, PopFrame
  <2> QED
    BY <1>t, <2>1, <2>2 DEF TopFrameInv
<1>6. CASE ExceptionEvent
  <2>1. Depth' = Depth /\ Depth > 1
    BY <1>6, <1>t, ComesFacts
  <2>2. ~Retraces /\ stack'[1] = stack[1]
    <3>1. 1 \in 1 .. Depth - 1
      BY <1>t, <2>1
    <3>2. IF Retraces THEN Renewed(stack[1], stack'[1]) ELSE stack'[1] = stack[1]
      BY <1>6, <1>t, <3>1, ExceptionFrame
    <3> QED
      BY <3>2 DEF Renewed
  <2>3. top' = top
    BY <1>6, <2>1, <2>2 DEF ExceptionEvent, Retraces
  <2> QED
    BY <2>1, <2>2, <2>3 DEF TopFrameInv
<1>7. CASE ReturnEvent
  <2>1. Depth' = Depth /\ Depth > 1
    BY <1>7, <1>t, LeaveFacts
  <2>2. ~Reports /\ stack'[1] = stack[1]
    <3>1. 1 \in 1 .. Depth - 1
      BY <1>t, <2>1
    <3>2. IF Reports THEN Renewed(stack[1], stack'[1]) ELSE stack'[1] = stack[1]
      BY <1>7, <1>t, <3>1, ReturnFrame
    <3> QED
      BY <3>2 DEF Renewed
  <2>3. top' = top
    BY <1>7, <2>2 DEF ReturnEvent, Reports, Reason
  <2> QED
    BY <2>1, <2>2, <2>3 DEF TopFrameInv
<1>8. CASE RaiseEvent \/ UnwindEvent
    BY <1>8 DEF RaiseEvent, UnwindEvent, UnmanagedTrace
<1>9. CASE TopLevelReturn \/ TopLevelException
  <2>1. Depth' = Depth /\ Depth > 1 /\ stack' = stack
    BY <1>9, <1>t, TopFacts DEF Depth
  <2>2. top' = top
    BY <1>9, <2>1 DEF TopLevelReturn, TopLevelException
  <2> QED
    BY <2>1, <2>2 DEF TopFrameInv
<1>10. CASE Starts /\ ~Catch
  <2>1. stack' = stack /\ top' = top /\ (Restart \/ flight.phase = "run")
    BY <1>10 DEF Starts, RaiseNew, RaiseOld, Reraise, Restart, ReturnFrom, Free, local
  <2>2. ~Restart
    BY DEF Restart, UnmanagedTrace
  <2> QED
    BY <2>1, <2>2 DEF TopFrameInv, Depth
<1>11. CASE Command
  <2>1. Depth' = Depth /\ flight' = flight
    BY <1>11, <1>t, CommandsKeep
  <2>2. 1 \in 1 .. Depth
    BY <1>t, <2>1
  <2>3. stack'[1].exc = stack[1].exc /\ stack'[1].steady = stack[1].steady /\ top' = top
    <3>1. CASE TraceExistingFrames \/ LineBreakpointAdded
      BY <1>t, <2>2, <3>1, RetraceFrame
         DEF TraceExistingFrames, LineBreakpointAdded, Renewed, UnmanagedTrace
    <3>2. ASSUME NEW filters \in FilterSets, RemoveAllExceptionBreakpoints(filters)
          PROVE  stack'[1].steady = {}
      BY <1>t, <2>2, <3>2, UnsteadyFrame
    <3>3. CASE AddBreakOnException \/ UpdateMonitorEvents \/ Pause \/ Resume
      BY <3>3 DEF AddBreakOnException, UpdateMonitorEvents, Pause, Resume, local
    <3> QED
      BY <1>11, <3>1, <3>2, <3>3 DEF Command
  <2> QED
    BY <2>1, <2>3 DEF TopFrameInv
<1>12. CASE UNCHANGED vars
    BY <1>12 DEF vars, local, TopFrameInv, Depth
<1> QED
    BY <1>1, <1>2, <1>3, <1>4, <1>5, <1>6, <1>7, <1>8, <1>9, <1>10, <1>11, <1>12, EveryStep

LEMMA TopStays == Setting /\ TopInv /\ TopFrameInv /\ [Next]_vars => TopInv'
<1> DEFINE Goal == /\ top'.exc = flight'.exc
                   /\ flight'.phase = "search" => Top'.line \in top'.lines
                   /\ flight'.phase \in {"leave", "top"} => IsUnhandled(top)'
<1> SUFFICES ASSUME Setting, TopInv, TopFrameInv, Next \/ UNCHANGED vars, config' = config,
                    UnmanagedTrace, Depth' = 1, flight'.phase \in {"search", "leave", "top"},
                    flight'.exc # None, steady' # {}, "retraced" \notin here'
             PROVE  Goal
    BY ConfigKept DEF vars, TopInv, UnmanagedTrace
<1>t. /\ TypeInv /\ StackTypes /\ FlightInv /\ flight \in FlightType /\ Depth \in Nat
      /\ top \in NotedType
    BY StackFacts DEF Setting, TypeInv, LocalTypes
<1>1. CASE (\E c \in Codes : Call(c)) \/ (\E l \in {1, 4} : Advance(l))
    BY <1>1, <1>t, RunsOn
<1>2. CASE Starts
  <2>1. CASE Reraise
    <3>1. /\ stack' = stack /\ top' = top /\ Depth > 0 /\ Top.line = 3 /\ Top.exc # None
          /\ flight'.exc = Top.exc /\ flight'.phase = "leave" /\ steady' = Top.steady
          /\ flight.phase = "run"
      BY <2>1 DEF Reraise, TakeOff, local, Free
    <3>2. Top' = Top /\ Depth = 1
      BY <3>1 DEF Top, Depth
    <3>3. top.exc = Top.exc
      BY <3>1, <3>2 DEF TopFrameInv, Top
    <3> QED
      BY <3>1, <3>2, <3>3 DEF IsUnhandled
  <2>2. CASE \E e \in Excs : RaiseNew(e) \/ RaiseOld(e)
    BY <2>2 DEF RaiseNew, RaiseOld, TakeOff
  <2>3. CASE Catch \/ Restart
    BY <2>3 DEF Catch, Restart, Running
  <2>4. CASE \E none \in BOOLEAN : ReturnFrom(none)
    BY <2>4 DEF ReturnFrom
  <2> QED
    BY <1>2, <2>1, <2>2, <2>3, <2>4 DEF Starts
<1>3. CASE Pass
  <2>1. /\ flight.phase = "search" /\ flight'.phase = "leave" /\ flight'.exc = flight.exc
        /\ Depth = 1 /\ top' = top /\ steady' = steady /\ here' = here
    BY <1>3, <1>t, PassFacts
  <2>2. top.exc = flight.exc /\ Top.line \in top.lines
    BY <2>1 DEF TopInv
  <2>3. Top'.line = IF Top.line = 1 THEN 2 ELSE Top.line
    BY <1>3, <1>t, PassFrame DEF TopIs
  <2> QED
    BY <2>1, <2>2, <2>3 DEF IsUnhandled
<1>4. CASE Pop
  <2>1. flight'.phase \notin {"search", "leave", "top"}
    BY <1>4, <1>t, PopFacts DEF Running
  <2> QED
    BY <2>1
<1>5. CASE RaiseEvent \/ UnwindEvent
    BY <1>5 DEF RaiseEvent, UnwindEvent, UnmanagedTrace
<1>6. CASE ExceptionEvent
  <2>1. /\ flight.phase = "raise" /\ flight'.phase = "search" /\ flight'.exc = flight.exc
        /\ Depth = 1
    BY <1>6, <1>t, ComesFacts
  <2>2. top' = Noted(top, Top.line) /\ Top'.line = Top.line
    BY <1>6, <1>t, <2>1, ExceptionFrame DEF ExceptionEvent, UnmanagedTrace
  <2>3. flight.exc \in Excs /\ Top.line \in 1 .. 4
    BY <2>1, <1>t, StackFacts DEF FlightInv, FlightType, FrameType
  <2> QED
    BY <2>1, <2>2, <2>3, <1>t, NotedIsTyped
<1>7. CASE ReturnEvent
  <2>1. /\ flight.phase = "leave" /\ flight'.phase = "top" /\ flight'.exc = flight.exc
        /\ Depth = 1 /\ Top' = Top /\ steady' = steady /\ here \subseteq here'
    BY <1>7, <1>t, LeaveFacts DEF Suspend
  <2>2. top' = top
    BY <1>7, <2>1 DEF ReturnEvent, RetracedTop
  <2>3. top.exc = flight.exc /\ IsUnhandled(top)
    BY <2>1 DEF TopInv
  <2> QED
    BY <2>1, <2>2, <2>3 DEF IsUnhandled
<1>8. CASE TopLevelReturn \/ TopLevelException
  <2>1. flight'.phase \notin {"search", "leave", "top"}
    BY <1>8, <1>t, TopFacts
  <2> QED
    BY <2>1
<1>9. CASE Command
  <2>1. /\ flight' = flight /\ Depth = 1 /\ here \subseteq here' /\ steady' = steady
        /\ Top'.line = Top.line
    BY <1>9, <1>t, CommandsKeep, CommandFrames
  <2>2. top' = top
    <3>1. CASE TraceExistingFrames
      <4>1. cmd.phase # "idle"
        BY <3>1 DEF TraceExistingFrames
      <4> QED
        BY <4>1, <2>1 DEF Setting, SteadyInv, Current
    <3>2. CASE LineBreakpointAdded
      BY <3>2 DEF LineBreakpointAdded
    <3>3. CASE \/ \E filters \in FilterSets : RemoveAllExceptionBreakpoints(filters)
               \/ AddBreakOnException \/ UpdateMonitorEvents \/ Pause \/ Resume
      BY <3>3 DEF RemoveAllExceptionBreakpoints, AddBreakOnException, UpdateMonitorEvents,
         Pause, Resume, local
    <3> QED
      BY <1>9, <3>1, <3>2, <3>3 DEF Command
  <2> QED
    BY <2>1, <2>2 DEF TopInv, IsUnhandled
<1>10. CASE UNCHANGED vars
  <2>1. UNCHANGED <<stack, flight, steady, here, top>>
    BY <1>10 DEF vars, local
  <2>2. Top' = Top /\ Depth' = Depth
    BY <2>1 DEF Top, Depth
  <2> QED
    BY <2>1, <2>2 DEF TopInv, IsUnhandled
<1> QED
    BY <1>1, <1>2, <1>3, <1>4, <1>5, <1>6, <1>7, <1>8, <1>9, <1>10, EveryStep

UncaughtInv == Setting /\ SuspInv /\ UnhInv /\ GoneInv /\ TopFrameInv /\ TopInv /\ OnceInv /\ DueInv

LEMMA DueStays == UncaughtInv /\ [Next]_vars => DueInv'
<1> SUFFICES ASSUME UncaughtInv, Next \/ UNCHANGED vars, config' = config, Reportable',
                    \/ flight'.phase = "gone"
                    \/ /\ config.monitoring \/ ~config.managed
                       /\ flight'.phase = "boot" \/ (flight'.phase = "pop" /\ Depth' = 1)
             PROVE  here' \cap {"user", "unhandled"} # {}
    BY ConfigKept DEF vars, DueInv
<1>t. /\ Setting /\ TypeInv /\ FlightInv /\ flight \in FlightType /\ Depth \in Nat
      /\ SuspInv /\ UnhInv /\ GoneInv /\ TopInv /\ DueInv /\ OnceInv
    BY StackFacts DEF Setting, TypeInv, UncaughtInv
\* the filter is set, and no command is in progress
<1>s. ASSUME steady' = steady PROVE "uncaught" \in breaks /\ steady # {} /\ cmd.phase = "idle"
    BY <1>s, <1>t DEF Reportable, Setting, SteadyInv, Current
<1>r. ASSUME flight'.exc = flight.exc, tb' = tb, steady' = steady PROVE StopOnUnhandled(flight.exc)
    BY <1>s, <1>r DEF Reportable, StopOnUnhandled, ExcludeByFilter
<1>d. ASSUME flight'.exc = flight.exc, tb' = tb, steady' = steady, here \subseteq here'
      PROVE  Reportable
    BY <1>d DEF Reportable, ExcludeByFilter
<1>1. CASE (\E c \in Codes : Call(c)) \/ (\E l \in {1, 4} : Advance(l))
    BY <1>1, <1>t, RunsOn
<1>2. CASE Starts
    BY <1>2, <1>t, StartFacts
<1>3. CASE Pass \/ RaiseEvent \/ ExceptionEvent \/ ReturnEvent
    BY <1>3, <1>t, PassFacts, ComesFacts, LeaveFacts
<1>4. CASE Pop
  <2>1. Depth = 1
    BY <1>4, <1>t, PopFacts DEF Running
  <2>2. /\ flight.phase = "pop" /\ flight'.phase = "boot" /\ flight'.exc = flight.exc
        /\ UNCHANGED <<here, tb, steady>>
    BY <1>4, <1>t, <2>1, PopFacts
  <2> QED
    BY <1>d, <1>t, <2>1, <2>2 DEF DueInv
<1>5. CASE UnwindEvent
  <2>1. /\ flight.phase = "leave" /\ flight'.phase = "pop" /\ flight'.exc = flight.exc
        /\ config.monitoring /\ Depth = 1 /\ UNCHANGED <<stack, tb, steady>>
    BY <1>5, <1>t, UnwindFacts DEF Depth
  <2>2. flight.exc # None /\ "uncaught" \in breaks /\ StopOnUnhandled(flight.exc)
    BY <1>s, <1>r, <2>1 DEF Reportable
  <2>3. "PY_UNWIND" \in events
    BY <1>s, <1>t, <2>1, <2>2 DEF Setting, EventInv, RequiredEvents
  <2>4. UnwindUser \/ UnwindUncaught
    BY <1>5, <2>2, <2>3 DEF UnwindEvent, UnwindNothing
  <2>5. CASE UnwindUser
    BY <2>5 DEF UnwindUser, HandleException, Suspend, Reportable
  <2>6. CASE UnwindUncaught
    <3>1. UnhandledFrame \in {1, Gone}
      BY <2>2, <1>t DEF UnhandledFrame, UnhInv
    <3>2. CASE UnhandledFrame = 1
      <4>1. Suspend("unhandled")
        BY <2>1, <2>2, <2>6, <3>2 DEF UnwindUncaught
      <4> QED
        BY <4>1 DEF Suspend
    <3>3. CASE UnhandledFrame = Gone
      <4>1. UnhandledFrame # Depth
        BY <2>1, <3>3 DEF Gone
      <4>2. "stale" \in here'
        BY <2>6, <3>3, <4>1 DEF UnwindUncaught
      <4>3. ~config.managed
        BY <2>1, <3>3, <1>t DEF UnhandledFrame, GoneInv, Gone
      <4> QED
        BY <4>2, <4>3 DEF Reportable
    <3> QED
      BY <3>1, <3>2, <3>3
  <2> QED
    BY <2>4, <2>5, <2>6
<1>6. CASE TopLevelReturn
  <2>1. /\ flight.phase = "top" /\ flight'.phase = "pop" /\ flight'.exc = flight.exc
        /\ UNCHANGED <<stack, tb, steady>> /\ Depth' = Depth
    BY <1>6, <1>t, TopFacts DEF TopLevelReturn, Depth
  <2>2. ~config.monitoring
    BY <2>1, <1>t DEF OnceInv
  <2>3. ~config.managed /\ Depth = 1
    BY <2>1, <2>2
  <2>4. here \subseteq here'
    BY <1>6, <1>t, TopFacts DEF Suspend
  <2>5. top.exc = flight.exc /\ IsUnhandled(top)
    BY <1>s, <1>t, <2>1, <2>2, <2>3, <2>4 DEF TopInv, UnmanagedTrace, Reportable
  <2>6. top.exc # None /\ StopOnUnhandled(top.exc)
    BY <1>r, <2>1, <2>5 DEF Reportable
  <2>7. ~suspendedAt
    BY <2>1, <1>t DEF SuspInv
  <2>8. Suspend("unhandled")
    BY <1>6, <2>3, <2>5, <2>6, <2>7 DEF TopLevelReturn
  <2> QED
    BY <2>8 DEF Suspend
<1>7. CASE TopLevelException
  <2>1. /\ flight.phase = "boot" /\ flight'.exc = flight.exc /\ UNCHANGED <<tb, steady>>
    BY <1>7, <1>t, TopFacts DEF TopLevelException
  <2>2. here \subseteq here'
    BY <1>7, <1>t, TopFacts DEF Suspend
  <2>3. CASE config.monitoring \/ ~config.managed
    BY <1>d, <1>t, <2>1, <2>2, <2>3 DEF DueInv
  <2>4. CASE ~config.monitoring /\ config.managed
    <3>1. flight.exc # None /\ StopOnUnhandled(flight.exc)
      BY <1>r, <2>1 DEF Reportable
    <3>2. ~suspendedAt
      BY <2>1, <1>t DEF SuspInv
    <3>3. Suspend("unhandled")
      BY <1>7, <2>4, <3>1, <3>2 DEF TopLevelException
    <3> QED
      BY <3>3 DEF Suspend
  <2>5. config \in ConfigType
    BY <1>t, ConfigFacts
  <2> QED
    BY <2>3, <2>4
<1>8. CASE Command
  <2>1. /\ UNCHANGED <<flight, tb>> /\ Depth' = Depth /\ here \subseteq here' /\ steady' = steady
    BY <1>8, <1>t, CommandsKeep, CommandFrames DEF Reportable
  <2>2. Reportable
    BY <1>d, <2>1
  <2> QED
    BY <1>t, <2>1, <2>2 DEF DueInv
<1>9. CASE UNCHANGED vars
  <2>1. UNCHANGED <<flight, tb, here, steady>> /\ Depth' = Depth
    BY <1>9 DEF vars, Depth
  <2>2. Reportable
    BY <1>d, <2>1
  <2> QED
    BY <1>t, <2>1, <2>2 DEF DueInv
<1> QED
    BY <1>1, <1>2, <1>3, <1>4, <1>5, <1>6, <1>7, <1>8, <1>9, EveryStep

LEMMA UncaughtStarts == Init => UncaughtInv
<1> SUFFICES ASSUME Init PROVE UncaughtInv
    OBVIOUS
<1>1. Depth = 0 /\ flight.phase = "run" /\ unhandled.exc = None
    BY DEF Init, Depth, Running
<1>2. SuspInv /\ UnhInv /\ GoneInv /\ TopFrameInv /\ TopInv /\ DueInv
    BY <1>1 DEF Init, SuspInv, UnhInv, GoneInv, Gone, TopFrameInv, TopInv, DueInv
<1>3. OnceInv
    BY <1>1 DEF Init, OnceInv, NoCount
<1> QED
    BY <1>2, <1>3, SettingStarts DEF UncaughtInv

LEMMA UncaughtStays == UncaughtInv /\ [Next]_vars => UncaughtInv'
BY SettingStays, SuspStays, UnhStays, GoneStays, TopFrameStays, TopStays, OnceStays, DueStays
   DEF UncaughtInv, Setting

\* With the filter "uncaught", an exception that ends a thread with a bootstrap frame
\* is reported, of one kind or the other, on either interpreter; in a thread with none
\* it is unless the frames were traced anew while it was in flight (sys.settrace), or
\* it was seen to leave an earlier outermost frame (sys.monitoring).
THEOREM UncaughtAreReported == Spec => []UncaughtReported
<1>1. UncaughtInv => UncaughtReported
    BY DEF UncaughtInv, DueInv, Reportable, UncaughtReported
<1> QED
    BY <1>1, UncaughtStarts, UncaughtStays, PTL DEF Spec
=============================================================================

--------------------------- MODULE TraceDispatch ---------------------------
(***************************************************************************)
(* The debugger core on CPython before 3.12: the trace functions that      *)
(* pydevd installs with sys.settrace.  ThreadTracer is called when a       *)
(* function is entered and decides whether its frame is traced at all;     *)
(* PyDBFrame.trace_dispatch is then called for its lines, exceptions and   *)
(* return.  Both skip whatever they can, on the strength of two caches     *)
(* that all threads share: what they skip cannot stop.                     *)
(*                                                                         *)
(* As in SysMonitoring, a thread executes an arbitrary program, and the    *)
(* client changes breakpoints, pauses, steps and continues.                *)
(***************************************************************************)
EXTENDS StepInfo

CONSTANTS
    Threads,            \* the threads of the debuggee
    FileOf,             \* code -> the file it is in
    LastLine,           \* the lines of a code are 1..LastLine
    MaxDepth,           \* bound: frames of a thread
    BreakLocations,     \* where the client sets breakpoints: <<code, line>>, line 0 is a function breakpoint
    Conditional,        \* the ones of them that have a condition
    MaxBreakpoints,     \* bound: breakpoints that exist at a time
    StepCmds,           \* the step commands the client sends
    ExceptionBreaks,    \* has_exception_breakpoints
    SingleNotification  \* multi_threads_single_notification: a stop suspends all threads

ASSUME TraceDispatchAssumption ==
    /\ LastLine \in Nat \ {0} /\ MaxDepth \in Nat \ {0} /\ MaxBreakpoints \in Nat
    /\ BreakLocations \subseteq Codes \X (0 .. LastLine)
    /\ Conditional \subseteq BreakLocations /\ StepCmds \subseteq Steps
    /\ ExceptionBreaks \in BOOLEAN /\ SingleNotification \in BOOLEAN

VARIABLES
    stack,      \* thread -> its frames: code, line, f_trace
    pc,         \* thread -> in the program, in a trace function, or suspended
    event,      \* thread -> the event its trace function handles
    view,       \* thread -> what its trace function has read and still uses
    at,         \* thread -> the depth of the frame it is suspended at
    info,       \* thread -> PyDBAdditionalThreadInfo
    bps,        \* PyDB.breakpoints and function_breakpoint_name_to_breakpoint
    skips,      \* global_cache_skips: code -> 0 absent, 1 filtered out, 2 no breakpoint
    hasBreaks,  \* global_cache_frame_skips of a code: -1 absent, 0 no breakpoint, 1 has one
    skipLines,  \* global_cache_frame_skips of a line: the lines known to have no breakpoint
    cmd,        \* what the thread that handles the client's commands is doing
    settled,    \* history: breakpoints whose installation is complete
    dirty,      \* history: threads whose view a command has made outdated
    stale,      \* history: codes with cache entries made from an outdated view
    promise,    \* history: thread -> the step it was last resumed with
    marks       \* history: thread -> what is to be remembered of the line it is at

program == <<stack, pc, event, view, at>>
caches  == <<skips, hasBreaks, skipLines>>
history == <<settled, dirty, stale, promise, marks>>
vars == <<program, info, bps, caches, cmd, history>>

---------------------------------------------------------------------------
NoView == [lines |-> {}, any |-> FALSE, skip |-> FALSE, step |-> None, stop |-> 0]
NoPromise == [step |-> None, base |-> 0, lost |-> FALSE]

Depth(t) == Len(stack[t])
Top(t) == stack[t][Depth(t)]
IsAt(t, loc) == Depth(t) > 0 /\ loc = <<Top(t).code, Top(t).line>>
Depths == [t \in Threads |-> Depth(t)]

\* the caller of the innermost frame is filtered out, as pydevd's own frames are
BackFiltered(t, force) ==
    Depth(t) > 1 => ApplyFilesFilter(stack[t][Depth(t) - 1].code, force)

BreakpointLines(c) == {b[2] : b \in {x \in bps : x[1] = c}}
BreakpointsForFile(c) == \E b \in bps : FileOf[b[1]] = FileOf[c] /\ b[2] # 0

\* set_trace_for_frame_and_parents(): the frames of the threads in S that are
\* at most upto[t] deep get the trace function of PyDB; pydevd's own do not
SetTrace(frames, S, upto) ==
    [t \in Threads |-> [d \in DOMAIN frames[t] |->
        IF t \in S /\ d <= upto[t] /\ frames[t][d].code \notin Internal
        THEN [frames[t][d] EXCEPT !.trace = "global", !.blind = FALSE, !.left = FALSE]
        ELSE frames[t][d]]]

\* mutant: the lines stay in the cache
ClearSkips ==
    /\ skips' = [c \in Codes |-> 0]
    /\ hasBreaks' = [c \in Codes |-> -1]
    /\ stale' = {}
    /\ UNCHANGED skipLines

\* _clear_caches()
ClearCaches ==
    /\ skips' = [c \in Codes |-> 0]
    /\ hasBreaks' = [c \in Codes |-> -1]
    /\ skipLines' = {}
    /\ stale' = {}

\* what the trace functions that are running have read is outdated
Outdate == dirty' = {t \in Threads : pc[t] = "decide"}

Released(S) ==
    /\ promise' = [t \in Threads |-> IF t \in S THEN NoPromise ELSE promise[t]]
    /\ marks' = [t \in Threads |->
           IF t \in S THEN marks[t] \ {"pause", "step", "paused step", "exit"} ELSE marks[t]]

---------------------------------------------------------------------------
Init ==
    /\ stack = [t \in Threads |-> <<>>]
    /\ pc = [t \in Threads |-> "run"]
    /\ event = [t \in Threads |-> None]
    /\ view = [t \in Threads |-> NoView]
    /\ at = [t \in Threads |-> 0]
    /\ info = [t \in Threads |-> NewInfo]
    /\ bps = {}
    /\ skips = [c \in Codes |-> 0]
    /\ hasBreaks = [c \in Codes |-> -1]
    /\ skipLines = {}
    /\ cmd = [phase |-> "idle", loc |-> NoLocation]
    /\ settled = {}
    /\ dirty = {}
    /\ stale = {}
    /\ promise = [t \in Threads |-> NoPromise]
    /\ marks = [t \in Threads |-> {}]

---------------------------------------------------------------------------
(* The program.  The interpreter calls the trace function of the thread     *)
(* when a function is entered, and that of the frame for the rest.          *)

Fire(t, ev) ==
    /\ pc' = [pc EXCEPT ![t] = "fetch"]
    /\ event' = [event EXCEPT ![t] = ev]

\* trace_exception() leaves lines and returns alone
Traced(t) == Top(t).trace \in {"global", "dispatch"}

\* The reasons t has to stop at line l of its innermost frame f, at depth d.
\* The last six name the cases in which the code does not keep its word.
PausedAt(t, f) == info[t].state = "suspend" /\ ~ApplyFilesFilter(f.code, FALSE)
BrokenAt(f, loc) == loc \in settled \ Conditional /\ ~ApplyFilesFilter(f.code, FALSE)
SteppedAt(t, f, d) ==
    LET p == promise[t] IN
    /\ info[t].state = "run" /\ ~Excluded(f.code, p.step)
    /\ \/ p.step \in Into
       \/ p.step \in Over /\ d <= p.base
       \/ p.step \in Return /\ d < p.base
       \/ /\ p.step = "smart" /\ d = p.base + 1
          /\ info[t].target = <<f.code, stack[t][d - 1].line>>
Marks(t, f, l, d) ==
    LET loc  == <<f.code, l>>
        If(condition, reason) == IF condition THEN {reason} ELSE {}
        suspect == f.code \in stale \/ \E u \in dirty : Top(u).code = f.code
        sure == ~f.blind /\ ~suspect
    IN  UNION {
            If(loc \in bps \/ loc = cmd.loc, "armed"),
            If(BrokenAt(f, loc) /\ sure /\ ~f.left, "breakpoint"),
            If(PausedAt(t, f) /\ info[t].step \in Into /\ sure, "pause"),
            If(SteppedAt(t, f, d) /\ ~promise[t].lost, "step"),
            If(BrokenAt(f, loc) /\ suspect, "stale"),
            If(BrokenAt(f, loc) /\ f.blind, "blind"),
            If(BrokenAt(f, loc) /\ f.left, "left"),
            If(PausedAt(t, f) /\ info[t].step \notin Into, "paused step"),
            If(PausedAt(t, f) /\ f.blind, "blind pause"),
            If(SteppedAt(t, f, d) /\ promise[t].lost, "exit")}

\* a function is called
Call(t, c) ==
    LET d == Depth(t) + 1
        f == [code |-> c, line |-> 0, trace |-> "none", blind |-> FALSE, left |-> FALSE]
    IN  /\ pc[t] = "run" /\ d <= MaxDepth
        /\ (d > 1 => Top(t).line # 0)
        /\ stack' = [stack EXCEPT ![t] = Append(@, f)]
        /\ Fire(t, "call")
        /\ marks' = [marks EXCEPT ![t] = IF <<c, 0>> \in bps \/ <<c, 0>> = cmd.loc
                                         THEN {"armed"} ELSE {}]
        /\ UNCHANGED <<view, at, info, bps, caches, cmd, settled, dirty, stale, promise>>

\* the next line of the innermost frame
Advance(t, l) ==
    LET d == Depth(t) IN
    /\ pc[t] = "run" /\ d > 0
    /\ stack' = [stack EXCEPT ![t][d].line = l]
    /\ IF Traced(t) THEN Fire(t, "line") ELSE UNCHANGED <<pc, event>>
    /\ marks' = [marks EXCEPT ![t] = Marks(t, Top(t), l, d)]
    /\ UNCHANGED <<view, at, info, bps, caches, cmd, settled, dirty, stale, promise>>

\* an exception is raised, or comes out of a call; it may be caught here
Raise(t) ==
    /\ pc[t] = "run" /\ Depth(t) > 0 /\ Top(t).line # 0
    /\ Traced(t)
    /\ Fire(t, "exception")
    /\ marks' = [marks EXCEPT ![t] = {}]
    /\ UNCHANGED <<stack, view, at, info, bps, caches, cmd, settled, dirty, stale, promise>>

\* t leaves its innermost frame
Pop(t, frames, infos) ==
    LET d == Depth(t) IN
    /\ stack' = [frames EXCEPT ![t] = SubSeq(@, 1, d - 1)]
    /\ info' = [infos EXCEPT ![t] = ForgetFrame(@, d)]

\* a function returns, or an exception leaves it
Leave(t) ==
    /\ pc[t] = "run" /\ Depth(t) > 0 /\ Top(t).line # 0
    /\ IF Traced(t) THEN Fire(t, "return") /\ UNCHANGED <<stack, info>>
                    ELSE Pop(t, stack, info) /\ UNCHANGED <<pc, event>>
    /\ marks' = [marks EXCEPT ![t] = {}]
    /\ UNCHANGED <<view, at, bps, caches, cmd, settled, dirty, stale, promise>>

---------------------------------------------------------------------------
(* The end of a trace function *)

EndCallback(t) ==
    /\ pc' = [pc EXCEPT ![t] = "run"]
    /\ event' = [event EXCEPT ![t] = None]
    /\ view' = [view EXCEPT ![t] = NoView]
    /\ at' = [at EXCEPT ![t] = 0]
    /\ dirty' = dirty \ {t}

\* t is back in the program; its innermost frame has this trace function (and is
\* left alone by a smart step), and is gone if the event was its return
FrameGoesOn(t, trace, left) ==
    LET d == Depth(t)
        blind == trace \in {"none", "exception"} /\ (t \in dirty \/ Top(t).code \in stale)
        frame == [Top(t) EXCEPT !.trace = trace, !.blind = @ \/ blind, !.left = left]
    IN  /\ EndCallback(t)
        /\ stack' = [stack EXCEPT ![t] = IF event[t] = "return" THEN SubSeq(@, 1, d - 1)
                                         ELSE [@ EXCEPT ![d] = frame]]
BackToProgram(t, trace) == FrameGoesOn(t, trace, FALSE)
Forget(t, i) == IF event[t] = "return" THEN ForgetFrame(i, Depth(t)) ELSE i

\* "return None if is_call else NO_FTRACE": None leaves f_trace as it is
Untraced(t) == IF event[t] = "call" THEN Top(t).trace ELSE "none"

\* a cache entry that was made from an outdated view
StaleIf(t) == stale' = IF t \in dirty THEN stale \cup {Top(t).code} ELSE stale

---------------------------------------------------------------------------
(* ThreadTracer: is the frame to be traced at all                           *)

\* it is called for the call of a function, and for the events of a frame
\* that has the trace function of PyDB
InThreadTracer(t) == event[t] = "call" \/ Top(t).trace = "global"

\* the steps that may stop at a return, in the caller
StopsInBack(step) == step \in Into \cup Return

\* cache_skips has the code: with no step that is enough, else only filters count
SkippedByCache(t) ==
    LET c == Top(t).code
        d == Depth(t)
        step == info[t].step
    IN  IF step = None THEN skips[c] # 0
        ELSE /\ skips[c] = 1
             /\ StopsInBack(step) /\ d > 1 => skips[stack[t][d - 1].code] = 1

\* a file of pydevd, or one that the filters exclude along with its caller
SkippedByFilter(t) ==
    LET c == Top(t).code IN
    \/ c \in Internal
    \/ /\ JustMyCode /\ ApplyFilesFilter(c, FALSE)
       /\ StopsInBack(info[t].step) => BackFiltered(t, FALSE)

\* what the filters exclude is remembered
FilteredNow(t) ==
    LET c == Top(t).code
        d == Depth(t)
        back == IF /\ c \notin Internal /\ StopsInBack(info[t].step)
                   /\ d > 1 /\ BackFiltered(t, FALSE)
                THEN {stack[t][d - 1].code} ELSE {}
    IN  IF c \in Internal \/ (JustMyCode /\ ApplyFilesFilter(c, FALSE))
        THEN {c} \cup back ELSE {}

TracerSkips(t) ==
    /\ InThreadTracer(t)
    /\ SkippedByCache(t) \/ SkippedByFilter(t)
    /\ skips' = [c \in Codes |->
           IF ~SkippedByCache(t) /\ c \in FilteredNow(t) THEN 1 ELSE skips[c]]
    /\ BackToProgram(t, Untraced(t))
    /\ info' = [info EXCEPT ![t] = Forget(t, @)]
    /\ UNCHANGED <<bps, hasBreaks, skipLines, cmd, settled, stale, promise, marks>>

\* mutant: the step stays with the frame that is left
StepStays(t) == info[t]

\* trace_dispatch(): the step was for the frame that returns, from here on it
\* is a step into; the rest of this call uses the step as it was
StepBecomesInto(t) ==
    LET i == info[t] IN
    IF event[t] = "return" /\ i.stop = Depth(t) /\ i.step \in Over \cup Return \cup {"smart"}
    THEN [i EXCEPT !.step = IF @ \in {"over", "return", "smart"} THEN "into" ELSE "into_my",
                   !.stop = 0]
    ELSE i

\* mutant: whether the thread was asked to suspend does not count
CanSkipUnlessStepping(t) ==
    info[t].step \in {None, "into"} \/ (info[t].step # "smart" /\ info[t].stop # Depth(t))

\* trace_dispatch(): no step of this thread can stop here
CanSkip(t) ==
    LET i == info[t]
        d == Depth(t)
    IN  /\ i.state = "run"
        /\ \/ i.step = None
           \/ i.step \in Over \cup Return /\ i.stop # d
           \/ i.step = "smart" /\ i.stop \notin {0, d, d - 1, d - 2}
           \/ /\ i.step = "into_my" /\ BackFiltered(t, TRUE)
              /\ ApplyFilesFilter(Top(t).code, TRUE)

\* trace_dispatch() up to where it has read the breakpoints of the file
TracerDispatches(t) ==
    LET c == Top(t).code IN
    /\ InThreadTracer(t) => ~SkippedByCache(t) /\ ~SkippedByFilter(t)
    /\ pc' = [pc EXCEPT ![t] = "decide"]
    /\ view' = [view EXCEPT ![t] =
           [lines |-> BreakpointLines(c), any |-> BreakpointsForFile(c),
            skip |-> CanSkip(t), step |-> info[t].step, stop |-> info[t].stop]]
    /\ info' = [info EXCEPT ![t] = StepBecomesInto(t)]
    /\ skips' = [x \in Codes |->
           IF InThreadTracer(t) /\ x \in FilteredNow(t) THEN 1 ELSE skips[x]]
    /\ UNCHANGED <<stack, event, at, bps, hasBreaks, skipLines, cmd, history>>

TraceCall(t) == pc[t] = "fetch" /\ (TracerSkips(t) \/ TracerDispatches(t))

---------------------------------------------------------------------------
(* trace_dispatch(): can the event be skipped                               *)

FunctionBreakpoint(t) == event[t] = "call" /\ 0 \in view[t].lines
MaySkip(t) == event[t] # "exception" /\ ~FunctionBreakpoint(t) /\ view[t].skip

\* is there a breakpoint in the function: from the cache, or found now
HasBreakpointInFrame(t) ==
    LET cached == hasBreaks[Top(t).code]
    IN  IF cached = -1 THEN view[t].lines \ {0} # {} ELSE cached = 1
CacheHasBreakpoint(t) ==
    hasBreaks' = [hasBreaks EXCEPT ![Top(t).code] = IF HasBreakpointInFrame(t) THEN 1 ELSE 0]

\* the frame is not of interest: from now on only its exceptions are, if any
FrameSkipped(t) ==
    /\ BackToProgram(t, IF ExceptionBreaks THEN "exception" ELSE Untraced(t))
    /\ skips' = [skips EXCEPT ![Top(t).code] =
           IF event[t] = "call" /\ ~ExceptionBreaks THEN 2 ELSE @]
    /\ info' = [info EXCEPT ![t] = Forget(t, @)]
    /\ UNCHANGED <<bps, skipLines, cmd, settled, promise, marks>>

\* the file has no breakpoint
SkipFile(t) ==
    /\ MaySkip(t) /\ ~view[t].any
    /\ FrameSkipped(t)
    /\ StaleIf(t)
    /\ UNCHANGED hasBreaks

\* the line is known to have none
KnownLine(t) == view[t].any /\ <<Top(t).code, Top(t).line>> \in skipLines
SkipLine(t) ==
    /\ MaySkip(t) /\ KnownLine(t)
    /\ BackToProgram(t, "dispatch")
    /\ info' = [info EXCEPT ![t] = Forget(t, @)]
    /\ UNCHANGED <<bps, caches, cmd, settled, stale, promise, marks>>

\* the function has none
SkipFunction(t) ==
    /\ MaySkip(t) /\ view[t].any /\ ~KnownLine(t) /\ ~HasBreakpointInFrame(t)
    /\ FrameSkipped(t)
    /\ CacheHasBreakpoint(t) /\ StaleIf(t)

NotSkipped(t) ==
    MaySkip(t) => view[t].any /\ ~KnownLine(t) /\ HasBreakpointInFrame(t)

---------------------------------------------------------------------------
(* trace_dispatch(): does the thread stop                                   *)

\* the cache of a function is filled on the way
Examined(t) ==
    /\ IF event[t] # "exception" /\ ~FunctionBreakpoint(t) /\ view[t].any
       THEN CacheHasBreakpoint(t)
       ELSE UNCHANGED hasBreaks
    /\ StaleIf(t)

\* set_suspend() by t itself, then do_wait_suspend() at the frame of depth d;
\* with one notification for all, suspend_all_threads() marks the others and
\* traces their frames
SetSuspend(t, d) ==
    LET others == IF SingleNotification THEN Threads \ {t} ELSE {}
    IN  /\ info' = [u \in Threads |->
               IF u = t THEN [MarkThreadSuspended(info[u]) EXCEPT !.initial = NoLocation]
               ELSE IF u \in others THEN MarkThreadSuspended(info[u]) ELSE info[u]]
        /\ stack' = SetTrace(stack, others, Depths)
        /\ dirty' = dirty \cup {u \in others : pc[u] = "decide"}
        /\ pc' = [pc EXCEPT ![t] = "wait"]
        /\ at' = [at EXCEPT ![t] = d]
        /\ promise' = [promise EXCEPT ![t] = NoPromise]
        /\ UNCHANGED <<event, view, bps, cmd, settled>>

\* there is a breakpoint here
Breakpoint(t) ==
    \/ FunctionBreakpoint(t)
    \/ event[t] = "line" /\ info[t].state = "run" /\ Top(t).line \in view[t].lines

StopOnBreakpoint(t) ==
    LET loc == <<Top(t).code, Top(t).line>> IN
    /\ NotSkipped(t) /\ Breakpoint(t)
    /\ Examined(t)
    /\ SetSuspend(t, Depth(t))
    /\ marks' = [marks EXCEPT ![t] =
           IF "armed" \in @ \/ loc \in bps THEN {} ELSE {"removed"}]
    /\ UNCHANGED <<skips, skipLines>>

\* no breakpoint, or its condition is false
Passes(t) ==
    /\ NotSkipped(t)
    /\ Breakpoint(t) => <<Top(t).code, Top(t).line>> \in Conditional

\* the thread was asked to suspend: do_wait_suspend()
WaitSuspended(t) ==
    /\ Passes(t) /\ info[t].state = "suspend"
    /\ Examined(t)
    /\ pc' = [pc EXCEPT ![t] = "wait"]
    /\ at' = [at EXCEPT ![t] = Depth(t)]
    /\ info' = [info EXCEPT ![t].initial = NoLocation]
    /\ promise' = [promise EXCEPT ![t] = NoPromise]
    /\ marks' = [marks EXCEPT ![t] = {}]
    /\ UNCHANGED <<stack, event, view, bps, skips, skipLines, cmd, settled, dirty>>

\* a line with no breakpoint is remembered
CacheLine(t) ==
    skipLines' = IF event[t] = "line" /\ ~Breakpoint(t)
                 THEN skipLines \cup {<<Top(t).code, Top(t).line>>} ELSE skipLines

\* the steps that end at a line
IntoEndsAtLine(t) ==
    view[t].step \in Into /\ ~Excluded(Top(t).code, view[t].step)
OverEndsAtLine(t) ==
    view[t].step \in Over /\ view[t].stop = Depth(t)
SmartChild(t) == view[t].step = "smart" /\ view[t].stop = Depth(t) - 1 /\ Depth(t) > 1
SmartEndsAtLine(t) ==
    SmartChild(t) /\ info[t].target = <<Top(t).code, stack[t][Depth(t) - 1].line>>
SmartGrandchild(t) == view[t].step = "smart" /\ view[t].stop = Depth(t) - 2 /\ Depth(t) > 2
EndsAtLine(t) ==
    event[t] = "line" /\ (IntoEndsAtLine(t) \/ OverEndsAtLine(t) \/ SmartEndsAtLine(t))

\* the steps that end at a return, in the caller, unless that is pydevd
IntoEndsAtReturn(t) ==
    LET back == Depth(t) - 1
        step == view[t].step
        filtering == JustMyCode \/ ForceCheckProjectScope(step)
    IN  /\ step \in Into
        /\ filtering => /\ ~Excluded(stack[t][back].code, step)
                        /\ info[t].initial # <<back, stack[t][back].line>>
ReturnEndsAtReturn(t) ==
    view[t].step \in Return \cup {"smart"} /\ view[t].stop = Depth(t)
EndsAtReturn(t) ==
    /\ event[t] = "return" /\ Depth(t) > 1
    /\ stack[t][Depth(t) - 1].code \notin Internal
    /\ IntoEndsAtReturn(t) \/ ReturnEndsAtReturn(t)

StopForStep(t) ==
    /\ Passes(t) /\ info[t].state = "run"
    /\ EndsAtLine(t) \/ EndsAtReturn(t)
    /\ Examined(t) /\ CacheLine(t)
    /\ SetSuspend(t, IF event[t] = "return" THEN Depth(t) - 1 ELSE Depth(t))
    /\ marks' = [marks EXCEPT ![t] = {}]
    /\ UNCHANGED skips

\* a smart step that did not end at the first line of a call leaves its frame alone
GoesOn(t) ==
    /\ Passes(t) /\ info[t].state = "run"
    /\ ~EndsAtLine(t) /\ ~EndsAtReturn(t)
    /\ Examined(t) /\ CacheLine(t)
    /\ LET left == event[t] = "line" /\ (SmartChild(t) \/ SmartGrandchild(t))
       IN  FrameGoesOn(t, IF left THEN "none" ELSE "dispatch", left)
    /\ info' = [info EXCEPT ![t] = Forget(t, @)]
    /\ UNCHANGED <<bps, skips, cmd, settled, promise, marks>>

Dispatch(t) ==
    /\ pc[t] = "decide"
    /\ \/ SkipFile(t) \/ SkipLine(t) \/ SkipFunction(t)
       \/ StopOnBreakpoint(t) \/ WaitSuspended(t) \/ StopForStep(t) \/ GoesOn(t)

---------------------------------------------------------------------------
(* A suspended thread is resumed *)

\* a step request, executed by the waiting thread: the others are resumed
\* with it (steppingResumesAllThreads)
StepRequest(t, step, target) ==
    /\ pc[t] = "wait" /\ info[t].state = "suspend"
    /\ info' = [u \in Threads |-> IF u = t THEN StepInThread(info[u], step, target)
                                           ELSE RunThread(info[u])]
    /\ Released(Threads \ {t})
    /\ UNCHANGED <<program, bps, caches, cmd, settled, dirty, stale>>

\* the loop of _do_wait_suspend() ends when the state is no longer suspended:
\* the frames of a step are traced.  A step is lost at once if the frame it waits
\* for is pydevd's own (a step return can name one), or is about to return, or is
\* filtered out (a pause can end there): ThreadTracer skips the return of that.
LeaveWait(t) ==
    LET i == PrepareStep(info[t], stack[t], at[t])
        base == IF i.step \in Into \cup {None} THEN at[t] ELSE i.stop
        traced == IF i.step = None THEN stack
                  ELSE SetTrace(stack, {t}, [Depths EXCEPT ![t] = base])
        d == Depth(t)
        left == event[t] = "return"
        unseen == \/ i.step \notin Into /\ stack[t][base].code \in Internal
                  \/ i.step \in Over \cup {"smart"} /\ ApplyFilesFilter(stack[t][base].code, FALSE)
    IN  /\ pc[t] = "wait" /\ info[t].state = "run"
        /\ stack' = [traced EXCEPT ![t] =
               IF left THEN SubSeq(@, 1, d - 1) ELSE [@ EXCEPT ![d].trace = "dispatch"]]
        /\ info' = [info EXCEPT ![t] = IF left THEN ForgetFrame(i, d) ELSE i]
        /\ promise' = [promise EXCEPT ![t] =
               IF i.step = None THEN NoPromise
               ELSE [step |-> i.step, base |-> base, lost |-> unseen \/ (left /\ i.stop = d)]]
        /\ EndCallback(t)
        /\ marks' = [marks EXCEPT ![t] = {}]
        /\ UNCHANGED <<bps, caches, cmd, settled, stale>>

---------------------------------------------------------------------------
(* Commands of the client *)

\* add_breakpoint(): consolidate_breakpoints(), which clears the caches; they
\* are left alone by set_function_breakpoints()
AddBreakpoint(loc) ==
    /\ cmd.phase = "idle" /\ loc \notin bps /\ Cardinality(bps) < MaxBreakpoints
    /\ bps' = bps \cup {loc}
    /\ IF loc[2] = 0 THEN UNCHANGED <<caches, stale>> ELSE ClearCaches
    /\ Outdate
    /\ cmd' = [phase |-> "added", loc |-> loc]
    /\ marks' = [t \in Threads |-> IF IsAt(t, loc) THEN marks[t] \cup {"armed"} ELSE marks[t]]
    /\ UNCHANGED <<program, info, settled, promise>>

\* on_breakpoints_changed() clears them in any case
BreakpointAdded ==
    /\ cmd.phase = "added"
    /\ ClearCaches
    /\ cmd' = [cmd EXCEPT !.phase = "trace"]
    /\ UNCHANGED <<program, info, bps, settled, dirty, promise, marks>>

\* mutant: only the functions that are called from now on
TraceNewFrames ==
    /\ cmd.phase = "trace"
    /\ settled' = settled \cup ({cmd.loc} \cap bps)
    /\ cmd' = [phase |-> "idle", loc |-> NoLocation]
    /\ UNCHANGED <<program, info, bps, caches, dirty, stale, promise, marks>>

\* set_tracing_for_untraced_contexts(): the frames that exist now
TraceExistingFrames ==
    /\ cmd.phase = "trace"
    /\ stack' = SetTrace(stack, Threads, Depths)
    /\ settled' = settled \cup ({cmd.loc} \cap bps)
    /\ cmd' = [phase |-> "idle", loc |-> NoLocation]
    /\ UNCHANGED <<pc, event, view, at, info, bps, caches, dirty, stale, promise, marks>>

\* remove_breakpoint() clears the caches, remove_all_breakpoints(), of a file,
\* does not; for a function, set_function_breakpoints() goes on as above
RemoveBreakpoint(loc) ==
    /\ cmd.phase = "idle" /\ loc \in bps
    /\ bps' = bps \ {loc}
    /\ settled' = settled \ {loc}
    /\ \/ loc[2] # 0 /\ ClearCaches
       \/ UNCHANGED <<caches, stale>>
    /\ cmd' = IF loc[2] = 0 THEN [phase |-> "added", loc |-> loc] ELSE cmd
    /\ marks' = [t \in Threads |-> IF IsAt(t, loc)
                                   THEN marks[t] \ {"breakpoint", "stale", "blind", "left"}
                                   ELSE marks[t]]
    /\ UNCHANGED <<program, info, dirty, promise>>

\* set_exclude_filters() and the like: _clear_caches()
ClearFilters ==
    /\ cmd.phase = "idle"
    /\ ClearCaches
    /\ UNCHANGED <<program, info, bps, cmd, settled, dirty, promise, marks>>

\* request_suspend_thread(): set_suspend() of a running thread
Pause(t) ==
    LET threads == IF SingleNotification THEN Threads ELSE {t}
    IN  /\ cmd.phase = "idle"
        /\ info' = [u \in Threads |-> IF u \in threads THEN MarkThreadSuspended(info[u])
                                                       ELSE info[u]]
        /\ stack' = SetTrace(stack, threads, Depths)
        /\ dirty' = dirty \cup {u \in threads : pc[u] = "decide"}
        /\ UNCHANGED <<pc, event, view, at, bps, caches, cmd, settled, stale, promise, marks>>

\* request_resume_thread()
Continue(S) ==
    /\ cmd.phase = "idle"
    /\ info' = [t \in Threads |-> IF t \in S THEN RunThread(info[t]) ELSE info[t]]
    /\ Released(S)
    /\ UNCHANGED <<program, bps, caches, cmd, settled, dirty, stale>>

---------------------------------------------------------------------------
Program(t) ==
    \/ \E c \in Codes : Call(t, c)
    \/ \E l \in 1 .. LastLine : Advance(t, l)
    \/ Raise(t)
    \/ Leave(t)

Callback(t) ==
    \/ TraceCall(t) \/ Dispatch(t) \/ LeaveWait(t)
    \/ \E step \in StepCmds \ {"smart"} : StepRequest(t, step, NoLocation)
    \/ \E c \in Codes : /\ "smart" \in StepCmds /\ at[t] > 0
                        /\ StepRequest(t, "smart", <<c, stack[t][at[t]].line>>)

Command ==
    \/ \E loc \in BreakLocations : AddBreakpoint(loc) \/ RemoveBreakpoint(loc)
    \/ BreakpointAdded \/ TraceExistingFrames \/ ClearFilters
    \/ \E t \in Threads : Pause(t)
    \/ \E S \in {Threads} \cup {{t} : t \in Threads} : Continue(S)

Next == Command \/ \E t \in Threads : Program(t) \/ Callback(t)

Spec == Init /\ [][Next]_vars

---------------------------------------------------------------------------
(* Properties *)

\* Type correctness: what the trace functions and the commands store is of its type,
\* and a suspended thread is suspended at a frame that exists.
TypeOK ==
    /\ \A t \in Threads :
           /\ Depth(t) <= MaxDepth
           /\ \A d \in 1 .. Depth(t) :
                  stack[t][d] \in [code : Codes, line : 0 .. LastLine,
                                   blind : BOOLEAN, left : BOOLEAN,
                                   trace : {"none", "global", "dispatch", "exception"}]
           /\ at[t] \in 0 .. Depth(t)
    /\ pc \in [Threads -> {"run", "fetch", "decide", "wait"}]
    /\ event \in [Threads -> {None, "call", "line", "exception", "return"}]
    /\ info \in [Threads -> InfoType(LastLine, MaxDepth)]
    /\ bps \subseteq BreakLocations /\ settled \subseteq bps
    /\ skips \in [Codes -> 0 .. 2] /\ hasBreaks \in [Codes -> -1 .. 1]
    /\ skipLines \subseteq Codes \X (0 .. LastLine)
    /\ dirty \subseteq Threads /\ stale \subseteq Codes

Overrun(reason) == \E t \in Threads : pc[t] = "run" /\ reason \in marks[t]

\* No thread goes past a line with a breakpoint whose installation was complete
\* when it came to the line: neither cache lets the frame or the line be skipped.
BreakpointsHit == ~Overrun("breakpoint")

\* A thread that is stepping does not go past the line its step has to stop at:
\* the next line of the frame or of a caller, in code that is not filtered out.
StepsStop == ~Overrun("step")

\* A thread that was asked to pause does not go past another line of user code.
PausesStop == ~Overrun("pause")

\* Nobody stops for a breakpoint that is not at the line or the function, or was
\* removed before it was reached.
RemovedNotHit == \A t \in Threads : "removed" \notin marks[t]

\* What the caches say of a code agrees with the breakpoints once a change of
\* them has cleared the caches, but for entries made by a trace function that
\* began before the change.
CachesAgree ==
    cmd.phase # "added" => \A c \in Codes \ stale :
        /\ hasBreaks[c] = 0 => BreakpointLines(c) \ {0} = {}
        /\ skips[c] = 2 => BreakpointLines(c) = {}
        /\ \A l \in BreakpointLines(c) : <<c, l>> \notin skipLines

---------------------------------------------------------------------------
(* What comments of the code say, and the code does not do *)

\* The caches need "to be invalidated when breakpoints are changed": a trace
\* function that began before then fills them again with what it read.
NoStaleSkip == ~Overrun("stale")

\* "we have to reset the tracing for the existing functions": a trace function
\* that began before then overwrites f_trace.
NoBlindFrame == ~Overrun("blind")

\* "Must set tracing after setting the state to suspend", and then the trace
\* function that began before removes it again.
NoBlindPause == ~Overrun("blind pause")

\* "if we didn't hit it in this frame once, that'll not be the case next time
\* either, so, disable tracing for this frame": of the target of a smart step that
\* is true, of the breakpoints in the rest of the frame it is not.
SmartStepKeepsBreakpoints == ~Overrun("left")

\* "we need to make sure we break eventually" when something leaves the frame of
\* a step: but not if the step begins at its return, or its frame is filtered out.
StepSurvivesExit == ~Overrun("exit")

\* A pause is to break "as soon as possible": not while a step is under way.
PauseStopsStep == ~Overrun("paused step")
=============================================================================

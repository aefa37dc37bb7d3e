--------------------------- MODULE SysMonitoring ---------------------------
(***************************************************************************)
(* The debugger core on CPython 3.12 and later: the callbacks that pydevd  *)
(* registers with sys.monitoring (_pydevd_sys_monitoring_cython), the      *)
(* per-thread step state they read, and the commands of the client that    *)
(* change breakpoints, pause, step and continue.                           *)
(*                                                                         *)
(* A thread executes an arbitrary program: it calls any code, goes from    *)
(* any line to any line, returns, or leaves a frame by an exception.       *)
(* Whether the interpreter calls pydevd for such a step is decided by what *)
(* pydevd asked of it: which events each code object has (local), and at   *)
(* which locations a callback returned DISABLE (disabled).  Everything the *)
(* debugger promises rests on these two being right while threads and the  *)
(* client change them concurrently.                                        *)
(*                                                                         *)
(* A frame is named by its depth in the stack of its thread.  A reference  *)
(* to a frame that has been left is Gone.                                  *)
(***************************************************************************)
EXTENDS StepInfo

CONSTANTS
    Threads,            \* the threads of the debuggee
    LastLine,           \* the lines of a code are 1..LastLine
    MaxDepth,           \* bound: frames of a thread
    BreakLocations,     \* where the client sets breakpoints: <<code, line>>, line 0 is a function breakpoint
    Conditional,        \* the ones of them that have a condition
    MaxBreakpoints,     \* bound: breakpoints that exist at a time
    StepCmds,           \* the step commands the client sends
    SingleNotification  \* multi_threads_single_notification: a stop suspends all threads

ASSUME SysMonitoringAssumption ==
    /\ LastLine \in Nat \ {0} /\ MaxDepth \in Nat \ {0} /\ MaxBreakpoints \in Nat
    /\ BreakLocations \subseteq Codes \X (0 .. LastLine)
    /\ Conditional \subseteq BreakLocations
    /\ SingleNotification \in BOOLEAN
    /\ StepCmds \subseteq Steps

VARIABLES
    stack,      \* thread -> its frames, the innermost one last
    pc,         \* thread -> where it is: in the program, or in which part of a callback
    event,      \* thread -> the event its callback handles
    seen,       \* thread -> the breakpoint lines of the FuncCodeInfo its callback works with
    at,         \* thread -> the depth of the frame it is suspended at
    info,       \* thread -> PyDBAdditionalThreadInfo
    stepping,   \* _infos_stepping: what any_thread_stepping() answers from
    bps,        \* PyDB.breakpoints and function_breakpoint_name_to_breakpoint
    cache,      \* code -> the breakpoint lines of its cached FuncCodeInfo
    fresh,      \* the codes whose cached FuncCodeInfo has pydb_mtime = PyDB.mtime
    local,      \* code -> its local events
    disabled,   \* the locations at which a callback returned DISABLE
    tracking,   \* PY_START is in the global events and the callbacks are registered
    cmd,        \* what the thread that handles the client's commands is doing
    settled,    \* history: breakpoints whose installation is complete
    late,       \* history: locations disabled by a callback that worked with outdated breakpoints
    foreign,    \* history: locations disabled while another thread was asked to stop
    promise,    \* history: thread -> the step it was last resumed with
    marks       \* history: thread -> what is to be remembered of the line it is at

program  == <<stack, pc, event, seen, at>>
monitors == <<cache, fresh, local, disabled, tracking>>
history  == <<settled, late, foreign, promise, marks>>
vars == <<program, info, stepping, bps, monitors, cmd, history>>

---------------------------------------------------------------------------
(* Threads *)

Depth(t) == Len(stack[t])
Top(t) == stack[t][Depth(t)]
IsAt(t, loc) == Depth(t) > 0 /\ loc = <<Top(t).code, Top(t).line>>

\* update_stepping_info(): recomputed for every thread
UpdateSteppingInfo == stepping' = {t \in Threads : IsStepping(info'[t])}

---------------------------------------------------------------------------
(* What is known of a code: FuncCodeInfo *)

AlwaysSkipCode(c)          == c \in Internal
AlwaysFilteredOut(c)       == ApplyFilesFilter(c, FALSE)

BreakpointLines(c) == {b[2] : b \in {x \in bps : x[1] = c}}

\* _get_func_code_info(): the cached one while its mtime matches, else a new one
NewFuncCodeInfo(c) == IF AlwaysFilteredOut(c) THEN {} ELSE BreakpointLines(c)
FuncCodeInfo(c) == IF c \in fresh THEN cache[c] ELSE NewFuncCodeInfo(c)

\* the FuncCodeInfo of the codes C is computed (and cached) now
FillCache(C) ==
    /\ cache' = [c \in Codes |-> IF c \in C THEN FuncCodeInfo(c) ELSE cache[c]]
    /\ fresh' = fresh \cup C

BreakpointFound(lines) == lines \ {0} # {}

\* mutant: a step over asks for the lines of its frame only
StepTracingLinesOnly(i, d) ==
    CASE i.step \in Into \cup {"smart"}        -> {"LINE", "RETURN"}
      [] i.step \in Return /\ i.stop = d       -> {"RETURN"}
      [] i.step \in Over /\ i.stop = d         -> {"LINE"}
      [] OTHER                                 -> {}

\* _enable_step_tracing(): the events that a step of i needs in a frame at depth d
StepTracing(i, d) ==
    CASE i.step \in Into \cup {"smart"}        -> {"LINE", "RETURN"}
      [] i.step \in Return /\ i.stop = d       -> {"RETURN"}
      [] i.step \in Over /\ i.stop = d         -> {"LINE", "RETURN"}
      [] OTHER                                 -> {}

\* _enable_code_tracing(): the events to add, for the frame at depth d with code c
CodeTracing(i, c, d, lines) ==
    (IF BreakpointFound(lines) THEN {"LINE"} ELSE {}) \cup StepTracing(i, d)

\* whether _enable_code_tracing() returns True
CodeTracingAdded(i, lines) == BreakpointFound(lines) \/ i.step # None

\* enable_code_tracing() and _enable_code_tracing_for_frame_and_parents(), for
\* the frames <<t, depth>> of the threads t in S that are at most upto[t] deep
TracedFrames(S, upto) ==
    {f \in S \X (1 .. MaxDepth) :
        f[2] <= upto[f[1]] /\ ~AlwaysSkipCode(stack[f[1]][f[2]].code)}
EnableFrames(events, infos, S, upto) ==
    LET frames == TracedFrames(S, upto)
        CodeOf(f) == stack[f[1]][f[2]].code
    IN  /\ local' = [c \in Codes |-> events[c] \cup
               UNION {CodeTracing(infos[f[1]], c, f[2], FuncCodeInfo(c)) :
                          f \in {g \in frames : CodeOf(g) = c}}]
        /\ FillCache({CodeOf(f) : f \in frames})

Depths == [t \in Threads |-> Depth(t)]

\* update_monitor_events(): are the callbacks needed at all
HasBreaks == bps # {}
SuspendRequested ==
    \E t \in Threads : info[t].step # None \/ info[t].state = "suspend"
UpdateMonitorEvents == tracking' = (HasBreaks \/ SuspendRequested)

\* restart_events()
RestartEvents == disabled' = {} /\ late' = {} /\ foreign' = {}

\* the events were set for the frames that exist, and restart_events() is still to come
RestartPending == cmd.phase = "restart" \/ \E t \in Threads : pc[t] = "restart"

\* a thread that was resumed with no step
NoPromise == [step |-> None, base |-> 0, lost |-> FALSE]

\* the threads in S no longer have to stop for a step or a pause
Released(S) ==
    /\ promise' = [t \in Threads |-> IF t \in S THEN NoPromise ELSE promise[t]]
    /\ marks' = [t \in Threads |->
           IF t \in S THEN marks[t] \ {"pause", "step", "paused step", "exit", "other"} ELSE marks[t]]

---------------------------------------------------------------------------
Init ==
    /\ stack = [t \in Threads |-> <<>>]
    /\ pc = [t \in Threads |-> "run"]
    /\ event = [t \in Threads |-> None]
    /\ seen = [t \in Threads |-> {}]
    /\ at = [t \in Threads |-> 0]
    /\ info = [t \in Threads |-> NewInfo]
    /\ stepping = {}
    /\ bps = {}
    /\ cache = [c \in Codes |-> {}]
    /\ fresh = {}
    /\ local = [c \in Codes |-> {}]
    /\ disabled = {}
    /\ tracking = FALSE
    /\ cmd = [phase |-> "idle", loc |-> NoLocation]
    /\ settled = {}
    /\ late = {}
    /\ foreign = {}
    /\ promise = [t \in Threads |-> NoPromise]
    /\ marks = [t \in Threads |-> {}]

---------------------------------------------------------------------------
(* The program.  The interpreter calls pydevd for a step of a thread if the *)
(* event is wanted there.                                                   *)

\* t leaves its innermost frame; references to it become Gone
Pop(t, infos) ==
    LET d == Depth(t) IN
    /\ stack' = [stack EXCEPT ![t] = SubSeq(@, 1, d - 1)]
    /\ info' = [infos EXCEPT ![t] = ForgetFrame(@, d)]

\* the same with no callback for it, so that a step of this frame is lost
PopUnnoticed(t, infos, promises) ==
    /\ Pop(t, infos)
    /\ promise' = [promises EXCEPT ![t].lost = @ \/ infos[t].stop = Depth(t)]

BackToProgram(t) ==
    /\ pc' = [pc EXCEPT ![t] = "run"]
    /\ event' = [event EXCEPT ![t] = None]
    /\ seen' = [seen EXCEPT ![t] = {}]
    /\ at' = [at EXCEPT ![t] = 0]

Fire(t, ev) ==
    /\ pc' = [pc EXCEPT ![t] = "fetch"]
    /\ event' = [event EXCEPT ![t] = ev]

\* The reasons t has to stop at line l of its innermost frame f, at depth d.
\* The last five name the cases in which the code does not keep its word.
PausedAt(t, f) == info[t].state = "suspend" /\ ~AlwaysFilteredOut(f.code) /\ ~RestartPending
BrokenAt(f, loc) == loc \in settled \ Conditional /\ ~AlwaysFilteredOut(f.code)
SteppedAt(t, f, d) ==
    LET p == promise[t] IN
    /\ info[t].state = "run" /\ ~Excluded(f.code, p.step) /\ ~RestartPending
    /\ \/ p.step \in Into
       \/ p.step \in Over /\ d <= p.base
       \/ p.step \in Return /\ d < p.base
       \/ /\ p.step = "smart" /\ d = p.base + 1
          /\ info[t].target = <<f.code, stack[t][d - 1].line>>
Marks(t, f, l, d) ==
    LET loc  == <<f.code, l>>
        alone == ~f.skipped /\ loc \notin foreign
        paused == PausedAt(t, f) /\ info[t].step \in Into
        stepped == SteppedAt(t, f, d) /\ ~promise[t].lost
        If(condition, reason) == IF condition THEN {reason} ELSE {}
    IN  UNION {
            If(loc \in bps \/ loc = cmd.loc, "armed"),
            If(BrokenAt(f, loc) /\ ~f.blind /\ loc \notin late, "breakpoint"),
            If(paused /\ ~f.blind /\ alone, "pause"),
            If(stepped /\ ~f.blind /\ alone, "step"),
            If(BrokenAt(f, loc) /\ loc \in late, "late"),
            If(BrokenAt(f, loc) /\ f.blind, "blind"),
            If(PausedAt(t, f) /\ info[t].step \notin Into, "paused step"),
            If(SteppedAt(t, f, d) /\ promise[t].lost, "exit"),
            If((paused \/ stepped) /\ ~f.blind /\ ~alone, "other")}

\* a function is called: PY_START
Call(t, c) ==
    LET d == Depth(t) + 1
        f == [code |-> c, line |-> 0, blind |-> RestartPending, skipped |-> <<c, 0>> \in foreign]
    IN  /\ pc[t] = "run" /\ d <= MaxDepth
        /\ (d > 1 => Top(t).line # 0)
        /\ stack' = [stack EXCEPT ![t] = Append(@, f)]
        /\ IF tracking /\ <<c, 0>> \notin disabled
           THEN Fire(t, "start")
           ELSE UNCHANGED <<pc, event>>
        /\ marks' = [marks EXCEPT ![t] = IF <<c, 0>> \in bps \/ <<c, 0>> = cmd.loc
                                         THEN {"armed"} ELSE {}]
        /\ UNCHANGED <<seen, at, info, stepping, bps, monitors, cmd, settled, late, foreign, promise>>

\* the next line of the innermost frame: LINE
Advance(t, l) ==
    LET d == Depth(t)
        f == Top(t)
    IN  /\ pc[t] = "run" /\ d > 0
        /\ stack' = [stack EXCEPT ![t][d].line = l]
        /\ IF tracking /\ "LINE" \in local[f.code] /\ <<f.code, l>> \notin disabled
           THEN Fire(t, "line")
           ELSE UNCHANGED <<pc, event>>
        /\ marks' = [marks EXCEPT ![t] = Marks(t, f, l, d)]
        /\ UNCHANGED <<seen, at, info, stepping, bps, monitors, cmd, settled, late, foreign, promise>>

\* a function returns: PY_RETURN, and the frame is left when the callback is over
Return_(t) ==
    /\ pc[t] = "run" /\ Depth(t) > 0 /\ Top(t).line # 0
    /\ IF tracking /\ "RETURN" \in local[Top(t).code]
       THEN Fire(t, "return") /\ UNCHANGED <<stack, info>>
       ELSE Pop(t, info) /\ UNCHANGED <<pc, event>>
    /\ marks' = [marks EXCEPT ![t] = {}]
    /\ UNCHANGED <<seen, at, stepping, bps, monitors, cmd, settled, late, foreign, promise>>

\* an exception leaves the frame: PY_UNWIND, whose callback does nothing for steps
Unwind(t) ==
    /\ pc[t] = "run" /\ Depth(t) > 0 /\ Top(t).line # 0
    /\ PopUnnoticed(t, info, promise)
    /\ marks' = [marks EXCEPT ![t] = {}]
    /\ UNCHANGED <<pc, event, seen, at, stepping, bps, monitors, cmd, settled, late, foreign>>

---------------------------------------------------------------------------
(* Callbacks: the FuncCodeInfo is fetched, then decided upon.  Other        *)
(* threads can run in between.                                              *)

Fetch(t) ==
    /\ pc[t] = "fetch"
    /\ pc' = [pc EXCEPT ![t] = "decide"]
    /\ seen' = [seen EXCEPT ![t] = FuncCodeInfo(Top(t).code)]
    /\ FillCache({Top(t).code})
    /\ UNCHANGED <<stack, event, at, info, stepping, bps, local, disabled, tracking, cmd, history>>

\* the callback is over and returns None
Proceed(t) ==
    /\ BackToProgram(t)
    /\ UNCHANGED <<stack, info, stepping, bps, cache, fresh, disabled, tracking, cmd, history>>

\* the callback returns DISABLE for loc
Disable(t, loc) ==
    /\ BackToProgram(t)
    /\ disabled' = disabled \cup {loc}
    /\ late' = IF seen[t] = BreakpointLines(loc[1]) \/ AlwaysFilteredOut(loc[1])
               THEN late ELSE late \cup {loc}
    /\ foreign' = IF SuspendRequested /\ ~AlwaysFilteredOut(loc[1])
                  THEN foreign \cup {loc} ELSE foreign
    /\ UNCHANGED <<stack, info, stepping, bps, cache, fresh, tracking, cmd, settled, promise, marks>>

\* set_suspend() by t itself, then do_wait_suspend() at the frame of depth d;
\* with one notification for all, suspend_all_threads() marks the others and
\* sets the events of their frames
SetSuspend(t, d, events) ==
    LET others == IF SingleNotification THEN Threads \ {t} ELSE {}
        infos == [u \in Threads |-> IF u \in others \cup {t}
                                    THEN MarkThreadSuspended(info[u]) ELSE info[u]]
    IN  /\ info' = infos
        /\ UpdateSteppingInfo
        /\ EnableFrames(events, infos, others, Depths)
        /\ tracking' = (tracking \/ SingleNotification)
        /\ pc' = [pc EXCEPT ![t] = "restart"]
        /\ at' = [at EXCEPT ![t] = d]
        /\ UNCHANGED <<stack, event, seen, bps, disabled, cmd, settled, late, foreign, promise>>

\* a stop at a breakpoint that was there neither when the event came nor is now
StopOnBreakpoint(t, loc, events) ==
    /\ SetSuspend(t, Depth(t), events)
    /\ marks' = [marks EXCEPT ![t] =
           IF "armed" \in @ \/ loc \in bps THEN {} ELSE {"removed"}]

StopForStep(t, d) ==
    /\ SetSuspend(t, d, local)
    /\ marks' = [marks EXCEPT ![t] = {}]

\* already marked as suspended: _do_wait_suspend() without set_suspend()
WaitSuspended(t) ==
    /\ pc' = [pc EXCEPT ![t] = "enter"]
    /\ at' = [at EXCEPT ![t] = Depth(t)]
    /\ marks' = [marks EXCEPT ![t] = {}]
    /\ UNCHANGED <<stack, event, seen, info, stepping, bps, monitors, cmd, settled, late, foreign, promise>>

\* _start_method_event(), by what it finds
StartEvents(t) ==
    [local EXCEPT ![Top(t).code] =
        @ \cup CodeTracing(info[t], Top(t).code, Depth(t), seen[t])]
StartSkipped(t) ==
    /\ AlwaysSkipCode(Top(t).code)
    /\ Disable(t, <<Top(t).code, 0>>)
    /\ UNCHANGED local
StartAtFunctionBreakpoint(t) ==
    LET loc == <<Top(t).code, 0>> IN
    /\ 0 \in seen[t]
    /\ \/ StopOnBreakpoint(t, loc, StartEvents(t))
       \/ loc \in Conditional /\ Proceed(t) /\ local' = StartEvents(t)
StartTraced(t) ==
    /\ 0 \notin seen[t] /\ ~AlwaysSkipCode(Top(t).code)
    /\ CodeTracingAdded(info[t], seen[t]) \/ stepping # {}
    /\ Proceed(t)
    /\ local' = StartEvents(t)
StartNotTraced(t) ==
    /\ 0 \notin seen[t] /\ ~AlwaysSkipCode(Top(t).code)
    /\ ~CodeTracingAdded(info[t], seen[t]) /\ stepping = {}
    /\ Disable(t, <<Top(t).code, 0>>)
    /\ local' = StartEvents(t)

StartMethodEvent(t) ==
    /\ pc[t] = "decide" /\ event[t] = "start"
    /\ \/ StartSkipped(t) \/ StartAtFunctionBreakpoint(t)
       \/ StartTraced(t) \/ StartNotTraced(t)

\* at a line: does the step of t end here
IntoEndsAtLine(t) ==
    info[t].step \in Into /\ ~Excluded(Top(t).code, info[t].step)
OverEndsAtLine(t) ==
    info[t].step \in Over /\ info[t].stop = Depth(t)
SmartEndsAtLine(t) ==
    LET parent == Depth(t) - 1 IN
    /\ info[t].step = "smart" /\ info[t].stop = parent
    /\ info[t].target = <<Top(t).code, stack[t][parent].line>>

\* _line_event() and _internal_line_event(), by what they find
LineFilteredOut(t) ==
    /\ AlwaysFilteredOut(Top(t).code)
    /\ Disable(t, <<Top(t).code, Top(t).line>>)
    /\ UNCHANGED local
LineWithBreakpoint(t) ==
    /\ Top(t).line \in seen[t]
    /\ StopOnBreakpoint(t, <<Top(t).code, Top(t).line>>, local)
NoBreakpointStops(t) ==
    /\ ~AlwaysFilteredOut(Top(t).code)
    /\ Top(t).line \notin seen[t] \/ <<Top(t).code, Top(t).line>> \in Conditional
LinePaused(t) ==
    NoBreakpointStops(t) /\ info[t].state = "suspend" /\ WaitSuspended(t)
LineNotStepping(t) ==
    /\ NoBreakpointStops(t) /\ info[t].state = "run" /\ info[t].step = None
    /\ IF BreakpointFound(seen[t]) \/ stepping # {}
       THEN Proceed(t) ELSE Disable(t, <<Top(t).code, Top(t).line>>)
    /\ UNCHANGED local
LineStepping(t) ==
    /\ NoBreakpointStops(t) /\ info[t].state = "run" /\ info[t].step # None
    /\ IF IntoEndsAtLine(t) \/ OverEndsAtLine(t) \/ SmartEndsAtLine(t)
       THEN StopForStep(t, Depth(t))
       ELSE Proceed(t) /\ UNCHANGED local

LineEvent(t) ==
    /\ pc[t] = "decide" /\ event[t] = "line"
    /\ \/ LineFilteredOut(t) \/ LineWithBreakpoint(t)
       \/ LinePaused(t) \/ LineNotStepping(t) \/ LineStepping(t)

\* _stop_on_return(): the stop is shown in the caller; the caller of the
\* outermost frame is pydevd's own run(), where debugging the thread is over
StopOnReturn(t) ==
    IF Depth(t) > 1
    THEN StopForStep(t, Depth(t) - 1)
    ELSE /\ Pop(t, [info EXCEPT ![t] = RunThread(@)])
         /\ promise' = [promise EXCEPT ![t] = NoPromise]
         /\ UpdateSteppingInfo
         /\ BackToProgram(t)
         /\ marks' = [marks EXCEPT ![t] = {}]
         /\ UNCHANGED <<bps, monitors, cmd, settled, late, foreign>>

\* the caller's frame is one in which a step of this kind may stop
ValidBack(t, step) == Depth(t) > 1 /\ ~Excluded(stack[t][Depth(t) - 1].code, step)

\* at a return: does the step of t end here
IntoEndsAtReturn(t) ==
    LET back == Depth(t) - 1 IN
    /\ info[t].step \in Into /\ ValidBack(t, info[t].step)
    /\ info[t].initial # <<back, stack[t][back].line>>
ReturnEndsAtReturn(t) ==
    info[t].step \in Return /\ info[t].stop = Depth(t)
OverEndsAtReturn(t) ==
    info[t].step \in Over /\ info[t].stop = Depth(t) /\ ValidBack(t, info[t].step)
SmartEndsAtReturn(t) ==
    info[t].step = "smart" /\ info[t].stop = Depth(t)
StepEndsAtReturn(t) ==
    /\ info[t].state = "run"
    /\ \/ IntoEndsAtReturn(t) \/ ReturnEndsAtReturn(t)
       \/ OverEndsAtReturn(t) \/ SmartEndsAtReturn(t)

\* the step was for the frame that returns: from here on it is a step into
StepBecomesInto(t) ==
    LET step == IF info[t].step \in {"over", "return", "smart"} THEN "into" ELSE "into_my"
        infos == [info EXCEPT ![t].step = step, ![t].stop = 0]
    IN  /\ Pop(t, infos)
        /\ EnableFrames(local, infos, {t}, [Depths EXCEPT ![t] = @ - 1])
        /\ UNCHANGED <<disabled, tracking>>

\* _return_event(), by what it finds
ReturnPaused(t) == info[t].state = "suspend" /\ WaitSuspended(t)
ReturnEndsStep(t) == StepEndsAtReturn(t) /\ StopOnReturn(t)
LeavesStepFrame(t) ==
    /\ info[t].state = "run" /\ ~StepEndsAtReturn(t)
    /\ info[t].step \in Over /\ info[t].stop = Depth(t)
ReturnOfStepFrame(t) ==
    /\ LeavesStepFrame(t) /\ StepBecomesInto(t)
    /\ BackToProgram(t)
    /\ UNCHANGED <<stepping, bps, cmd, history>>
ReturnOfOther(t) ==
    /\ info[t].state = "run" /\ ~StepEndsAtReturn(t) /\ ~LeavesStepFrame(t)
    /\ Pop(t, info)
    /\ BackToProgram(t)
    /\ UNCHANGED <<stepping, bps, monitors, cmd, history>>

ReturnEvent(t) ==
    /\ pc[t] = "decide" /\ event[t] = "return"
    /\ \/ ReturnPaused(t) \/ ReturnEndsStep(t)
       \/ ReturnOfStepFrame(t) \/ ReturnOfOther(t)

---------------------------------------------------------------------------
(* A thread suspends itself, waits, and is resumed *)

\* the end of set_suspend()
RestartAfterSuspend(t) ==
    /\ pc[t] = "restart"
    /\ pc' = [pc EXCEPT ![t] = "enter"]
    /\ RestartEvents
    /\ UNCHANGED <<stack, event, seen, at, info, stepping, bps, cache, fresh, local,
                   tracking, cmd, settled, promise, marks>>

\* _do_wait_suspend() up to its loop
EnterWait(t) ==
    /\ pc[t] = "enter"
    /\ pc' = [pc EXCEPT ![t] = "wait"]
    /\ info' = [info EXCEPT ![t].wait = TRUE, ![t].initial = NoLocation]
    /\ UpdateSteppingInfo
    /\ promise' = [promise EXCEPT ![t] = NoPromise]
    /\ UNCHANGED <<stack, event, seen, at, bps, monitors, cmd, settled, late, foreign, marks>>

\* a step request, executed by the waiting thread: the others are resumed
\* with it (steppingResumesAllThreads)
StepRequest(t, step, target) ==
    /\ pc[t] = "wait" /\ info[t].state = "suspend"
    /\ info' = [u \in Threads |-> IF u = t THEN StepInThread(info[u], step, target)
                                           ELSE RunThread(info[u])]
    /\ UpdateSteppingInfo
    /\ Released(Threads \ {t})
    /\ UNCHANGED <<program, bps, monitors, cmd, settled, late, foreign>>

\* the loop ends when the state is no longer suspended
LeaveWait(t) ==
    LET i == PrepareStep([info[t] EXCEPT !.wait = FALSE], stack[t], at[t])
        infos == [info EXCEPT ![t] = i]
        frame == IF i.step \in Into \cup {None} THEN at[t] ELSE i.stop
        untraced == ~tracking \/ (i.step \notin Into /\ AlwaysSkipCode(stack[t][frame].code))
        promises == [promise EXCEPT ![t] =
                        IF i.step = None THEN NoPromise
                        ELSE [step |-> i.step, base |-> frame, lost |-> untraced]]
    IN  /\ pc[t] = "wait" /\ info[t].state = "run"
        /\ IF event[t] = "return"
           THEN PopUnnoticed(t, infos, promises)
           ELSE info' = infos /\ promise' = promises /\ UNCHANGED stack
        /\ stepping' = {u \in Threads : IsStepping([info[u] EXCEPT !.wait = (u # t) /\ @])}
        /\ IF i.step = None THEN UNCHANGED <<local, cache, fresh>>
                            ELSE EnableFrames(local, infos, {t}, [Depths EXCEPT ![t] = frame])
        /\ BackToProgram(t)
        /\ marks' = [marks EXCEPT ![t] = {}]
        /\ UNCHANGED <<bps, disabled, tracking, cmd, settled, late, foreign>>

---------------------------------------------------------------------------
(* Commands of the client *)

\* add_breakpoint(), set_function_breakpoints(): a breakpoint more
AddBreakpoint(loc) ==
    /\ cmd.phase = "idle" /\ loc \notin bps /\ Cardinality(bps) < MaxBreakpoints
    /\ bps' = bps \cup {loc}
    /\ cmd' = [phase |-> "added", loc |-> loc]
    /\ marks' = [t \in Threads |-> IF IsAt(t, loc) THEN marks[t] \cup {"armed"} ELSE marks[t]]
    /\ UNCHANGED <<program, info, stepping, monitors, settled, late, foreign, promise>>

\* mutant: a change of the breakpoints leaves the mtime as it is
SameMtime == UNCHANGED <<fresh, cache>>

\* the mtime changes, so no FuncCodeInfo is current
NewMtime == fresh' = {} /\ cache' = [c \in Codes |-> {}]

\* _clear_caches()
ClearCaches == NewMtime /\ UpdateMonitorEvents /\ RestartEvents

\* on_breakpoints_changed(), as far as the caches
BreakpointAdded ==
    /\ cmd.phase = "added"
    /\ ClearCaches
    /\ cmd' = [cmd EXCEPT !.phase = "trace"]
    /\ UNCHANGED <<program, info, stepping, bps, local, settled, promise, marks>>

\* mutant: only the functions that are called from now on
TraceNewFrames ==
    /\ cmd.phase = "trace"
    /\ cmd' = [cmd EXCEPT !.phase = "restart"]
    /\ UNCHANGED <<program, info, stepping, bps, cache, fresh, local, disabled, tracking, history>>

\* set_tracing_for_untraced_contexts(): the frames that exist now
TraceExistingFrames ==
    /\ cmd.phase = "trace"
    /\ EnableFrames(local, info, Threads, Depths)
    /\ cmd' = [cmd EXCEPT !.phase = "restart"]
    /\ UNCHANGED <<program, info, stepping, bps, disabled, tracking, history>>

RestartAfterCommand ==
    /\ cmd.phase = "restart"
    /\ RestartEvents
    /\ settled' = settled \cup ({cmd.loc} \cap bps)
    /\ cmd' = [phase |-> "idle", loc |-> NoLocation]
    /\ UNCHANGED <<program, info, stepping, bps, cache, fresh, local, tracking, promise, marks>>

\* a breakpoint less; for a function, set_function_breakpoints() goes on as above
RemoveBreakpoint(loc) ==
    /\ cmd.phase = "idle" /\ loc \in bps
    /\ bps' = bps \ {loc}
    /\ settled' = settled \ {loc}
    /\ cmd' = [phase |-> IF loc[2] = 0 THEN "added" ELSE "removed", loc |-> loc]
    /\ marks' = [t \in Threads |-> IF IsAt(t, loc)
                                   THEN marks[t] \ {"breakpoint", "late", "blind"}
                                   ELSE marks[t]]
    /\ UNCHANGED <<program, info, stepping, monitors, late, foreign, promise>>

\* remove_breakpoint() clears the caches before the mtime changes,
\* remove_all_breakpoints(), of a file, does not
BreakpointRemoved ==
    /\ cmd.phase = "removed"
    /\ \/ ClearCaches
       \/ NewMtime /\ UNCHANGED <<tracking, disabled, late, foreign>>
    /\ cmd' = [phase |-> "idle", loc |-> NoLocation]
    /\ UNCHANGED <<program, info, stepping, bps, local, settled, promise, marks>>

\* set_exclude_filters() and the like
ClearFilters ==
    /\ cmd.phase = "idle"
    /\ ClearCaches
    /\ UNCHANGED <<program, info, stepping, bps, local, cmd, settled, promise, marks>>

\* mutant: the thread is marked, and the frames it is in stay as they are
PauseNewFrames(t) ==
    /\ cmd.phase = "idle"
    /\ info' = [info EXCEPT ![t] = MarkThreadSuspended(@)]
    /\ UpdateSteppingInfo
    /\ tracking' = TRUE
    /\ cmd' = [phase |-> "restart", loc |-> NoLocation]
    /\ UNCHANGED <<program, bps, cache, fresh, local, disabled, history>>

\* request_suspend_thread(): set_suspend() of a running thread
Pause(t) ==
    LET threads == IF SingleNotification THEN Threads ELSE {t}
        infos == [u \in Threads |-> IF u \in threads THEN MarkThreadSuspended(info[u])
                                                     ELSE info[u]]
    IN  /\ cmd.phase = "idle"
        /\ info' = infos
        /\ UpdateSteppingInfo
        /\ tracking' = TRUE
        /\ EnableFrames(local, infos, threads, Depths)
        /\ cmd' = [phase |-> "restart", loc |-> NoLocation]
        /\ UNCHANGED <<program, bps, disabled, history>>

\* request_resume_thread()
Continue(S) ==
    /\ cmd.phase = "idle"
    /\ info' = [t \in Threads |-> IF t \in S THEN RunThread(info[t]) ELSE info[t]]
    /\ UpdateSteppingInfo
    /\ Released(S)
    /\ UNCHANGED <<program, bps, monitors, cmd, settled, late, foreign>>

---------------------------------------------------------------------------
Program(t) ==
    \/ \E c \in Codes : Call(t, c)
    \/ \E l \in 1 .. LastLine : Advance(t, l)
    \/ Return_(t)
    \/ Unwind(t)

Callback(t) ==
    \/ Fetch(t) \/ StartMethodEvent(t) \/ LineEvent(t) \/ ReturnEvent(t)
    \/ RestartAfterSuspend(t) \/ EnterWait(t) \/ LeaveWait(t)
    \/ \E step \in StepCmds \ {"smart"} : StepRequest(t, step, NoLocation)
    \/ \E c \in Codes : /\ "smart" \in StepCmds /\ at[t] > 0
                        /\ StepRequest(t, "smart", <<c, stack[t][at[t]].line>>)

Command ==
    \/ \E loc \in BreakLocations : AddBreakpoint(loc) \/ RemoveBreakpoint(loc)
    \/ BreakpointAdded \/ TraceExistingFrames \/ RestartAfterCommand
    \/ BreakpointRemoved \/ ClearFilters
    \/ \E t \in Threads : Pause(t)
    \/ \E S \in {Threads} \cup {{t} : t \in Threads} : Continue(S)

Next == Command \/ \E t \in Threads : Program(t) \/ Callback(t)

Spec == Init /\ [][Next]_vars

---------------------------------------------------------------------------
(* Properties *)

Locations == Codes \X (0 .. LastLine)
\* Type correctness: what the callbacks and the commands store is of its type, and a
\* suspended thread is suspended at a frame that exists.
TypeOK ==
    /\ \A t \in Threads :
           /\ Depth(t) <= MaxDepth
           /\ \A d \in 1 .. Depth(t) :
                  stack[t][d] \in [code : Codes, line : 0 .. LastLine, blind : BOOLEAN, skipped : BOOLEAN]
           /\ at[t] \in 0 .. Depth(t)
    /\ pc \in [Threads -> {"run", "fetch", "decide", "restart", "enter", "wait"}]
    /\ event \in [Threads -> {None, "start", "line", "return"}]
    /\ seen \in [Threads -> SUBSET (0 .. LastLine)]
    /\ info \in [Threads -> InfoType(LastLine, MaxDepth)]
    /\ stepping \subseteq Threads
    /\ bps \subseteq BreakLocations /\ settled \subseteq bps
    /\ cache \in [Codes -> SUBSET (0 .. LastLine)] /\ fresh \subseteq Codes
    /\ local \in [Codes -> SUBSET {"LINE", "RETURN"}]
    /\ disabled \subseteq Locations /\ late \subseteq disabled /\ foreign \subseteq disabled
    /\ tracking \in BOOLEAN

Overrun(reason) == \E t \in Threads : pc[t] = "run" /\ reason \in marks[t]

\* No thread goes past a line with a breakpoint whose installation was complete
\* when it came to the line: the events are on, and the callback stops.
BreakpointsHit == ~Overrun("breakpoint")

\* A thread that is stepping does not go past the line its step has to stop at:
\* the next line of the frame or of a caller, in code that is not filtered out.
StepsStop == ~Overrun("step")

\* A thread that was asked to pause does not go past another line of user code.
PausesStop == ~Overrun("pause")

\* Nobody stops at a breakpoint that was removed before the line was reached.
RemovedNotHit == \A t \in Threads : "removed" \notin marks[t]

---------------------------------------------------------------------------
(* What comments of the code say, and the code does not do *)

\* "we need to make sure we break eventually" when something leaves the frame of
\* a step: but not by an exception, nor when the step begins at its return, nor when
\* the frame is one of pydevd, whose events are never asked for, nor when the last
\* breakpoint, at which the thread stopped alone, was removed meanwhile with all events.
StepSurvivesExit == ~Overrun("exit")

\* With a new mtime "tracing can't be disabled for the related frames": a
\* callback that began before can still disable the line of a new breakpoint.
NoLateDisable == ~Overrun("late")

\* "if a breakpoint was added we have to reset the tracing for the existing
\* functions": a frame entered just before restart_events() stays untraced.
NoBlindFrame == ~Overrun("blind")

\* A pause is to break "as soon as possible": not while a step is under way.
PauseStopsStep == ~Overrun("paused step")

\* Nor where another thread, which goes on, has disabled the events: a callback asks
\* whether any thread is stepping, which a thread that was asked to stop is not yet.
NoForeignDisable == ~Overrun("other")
=============================================================================

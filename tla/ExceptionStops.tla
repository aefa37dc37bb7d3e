--------------------------- MODULE ExceptionStops ---------------------------
(***************************************************************************)
(* Exception breakpoints: at which of the events of an exception that is   *)
(* raised, passes through frames, is caught or ends its thread does the    *)
(* debugger stop, and how does it report it.  The same decisions are made  *)
(* from the events of sys.monitoring and from those of sys.settrace, which *)
(* has no event for "the exception leaves the frame".                      *)
(*                                                                         *)
(* The thread executes an arbitrary program in which every function has    *)
(* the lines                                                               *)
(*     1  the body of a try,                                               *)
(*     2  its "except SomeError:",                                         *)
(*     3  the except block, which may raise again,                         *)
(*     4  what follows.                                                    *)
(* The interpreter, external to the code, delivers the events: RAISE or    *)
(* "exception" in every frame that the exception comes to, PY_UNWIND or    *)
(* "return" when a frame is left.                                          *)
(***************************************************************************)
EXTENDS StepInfo

CONSTANTS
    Excs,           \* exception objects
    ControlFlow,    \* the ones that are a GeneratorExit or StopIteration
    Tagged,         \* code locations with the comment @IgnoreException
    FilterSets,     \* the sets of filters that the client chooses from
    Configs,        \* interpreter, thread and options: see ConfigType
    MaxDepth,       \* bound: frames
    MaxTrace        \* bound: entries of a traceback

Filters == {"caught", "user", "uncaught"}
ConfigType == [monitoring : BOOLEAN,    \* sys.monitoring is used, not sys.settrace
               managed : BOOLEAN,       \* started by threading or pydevd: there is a bootstrap frame
               first : BOOLEAN,         \* notify_on_first_raise_only
               skip : BOOLEAN]          \* skip_on_exceptions_thrown_in_same_context

ASSUME ExceptionAssumption ==
    /\ None \notin Excs
    /\ ControlFlow \subseteq Excs /\ Tagged \subseteq Codes \X (1 .. 4)
    /\ FilterSets \subseteq SUBSET Filters /\ Configs \subseteq ConfigType
    /\ MaxDepth \in Nat \ {0} /\ MaxTrace \in Nat \ {0}

VARIABLES
    config,     \* the interpreter, the thread and the options
    stack,      \* frames: code, line, exc (the exception its except block handles),
                \* info and trace (PyDBFrame.exc_info, and f_trace), and as history the
                \* filters that have been set since that exception was raised
    flight,     \* the exception that is being raised, or the return, and how far it is
    tb,         \* exception -> __traceback__, the entry of the current frame first
    state,      \* pydev_state
    stop,       \* what the thread is suspended for
    breaks,     \* the non-empty ones of break_on_caught_, user_uncaught_, uncaught_exceptions
    events,     \* global events of sys.monitoring
    cmd,        \* setExceptionBreakpoints in progress
    unhandled,  \* f_unhandled_exc and f_unhandled_frame of sys.monitoring
    suspendedAt,\* suspended_at_unhandled
    top,        \* TopLevelThreadTracerNoBackFrame: the last exception and the raise lines
    steady,     \* history: filters that have been set since the exception was raised
    here,       \* history: what happened in the frame the exception is in
    count       \* history: stops for the exception since it was raised

debugger == <<breaks, events, cmd>>
local == <<unhandled, suspendedAt, top>>
vars == <<config, stack, flight, tb, state, stop, debugger, local, steady, here, count>>

---------------------------------------------------------------------------
NoInfo == [exc |-> None, last |-> 0, lines |-> {}]
Running == [exc |-> None, phase |-> "run", none |-> FALSE]
NoCount == [handled |-> 0, unhandled |-> 0, twice |-> FALSE]

Depth == Len(stack)
Top == stack[Depth]
Here == <<Top.code, Top.line>>
Free == flight.phase = "run" /\ stop = None

\* exclude_exception_by_filter(): breakpoints ignore libraries with justMyCode
ExcludeByFilter(c) == JustMyCode /\ c \in Library

\* in user code, called by something else
UserBoundary ==
    /\ ~ApplyFilesFilter(Top.code, TRUE)
    /\ Depth > 1 => ApplyFilesFilter(stack[Depth - 1].code, TRUE)

\* has_exception_breakpoints
HasExceptionBreakpoints == breaks \cap {"caught", "user"} # {}

\* the trace function of a new frame; it stays in trace_dispatch() if there may
\* be a stop at a line
NewTrace(c) ==
    IF config.monitoring \/ ApplyFilesFilter(c, FALSE) THEN {"none"}
    ELSE IF HasExceptionBreakpoints THEN {"exception", "dispatch"} ELSE {"none", "dispatch"}

---------------------------------------------------------------------------
Init ==
    /\ config \in Configs
    /\ stack = <<>>
    /\ flight = Running
    /\ tb = [e \in Excs |-> <<>>]
    /\ state = "run"
    /\ stop = None
    /\ breaks = {}
    /\ events = {}
    /\ cmd = [phase |-> "idle", filters |-> {}]
    /\ unhandled = [exc |-> None, frame |-> 0]
    /\ suspendedAt = FALSE
    /\ top = NoInfo
    /\ steady = {}
    /\ here = {}
    /\ count = NoCount

---------------------------------------------------------------------------
(* The program *)

Call(c) ==
    /\ Free /\ Depth < MaxDepth
    /\ \E trace \in NewTrace(c) :
           stack' = Append(stack, [code |-> c, line |-> 1, exc |-> None,
                                   info |-> NoInfo, trace |-> trace, steady |-> {}])
    /\ top' = IF Depth = 0 THEN NoInfo ELSE top
    /\ UNCHANGED <<config, flight, tb, state, stop, debugger, unhandled, suspendedAt,
                   steady, here, count>>

\* the next line; a thread that was asked to suspend does so in user code
Advance(l) ==
    /\ Free /\ Depth > 0 /\ l \in {1, 4} /\ l # Top.line
    /\ stack' = [stack EXCEPT ![Depth].line = l, ![Depth].exc = None, ![Depth].steady = {}]
    /\ stop' = IF state = "suspend" /\ ~ApplyFilesFilter(Top.code, FALSE) THEN "pause" ELSE None
    /\ UNCHANGED <<config, flight, tb, state, debugger, local, steady, here, count>>

\* an exception is on its way
TakeOff(e, phase) ==
    /\ flight' = [exc |-> e, phase |-> phase, none |-> TRUE]
    /\ here' = {}
    /\ count' = NoCount

Steady == IF cmd.phase = "idle" THEN breaks ELSE {}
InUse(e) == \E d \in 1 .. Depth : stack[d].exc = e

\* "raise" of a new exception object
RaiseNew(e) ==
    /\ Free /\ Depth > 0 /\ ~InUse(e)
    /\ tb' = [tb EXCEPT ![e] = <<Here>>]
    /\ unhandled' = IF unhandled.exc = e THEN [exc |-> None, frame |-> 0] ELSE unhandled
    /\ TakeOff(e, "raise") /\ steady' = Steady
    /\ UNCHANGED <<config, stack, state, stop, debugger, suspendedAt, top>>

\* "raise e" of an exception that was raised before
RaiseOld(e) ==
    /\ Free /\ Depth > 0
    /\ tb[e] # <<>> /\ Len(tb[e]) < MaxTrace
    /\ tb' = [tb EXCEPT ![e] = <<Here>> \o @]
    /\ TakeOff(e, "raise") /\ steady' = Steady
    /\ UNCHANGED <<config, stack, state, stop, debugger, local>>

\* a "raise" with no operand in an except block: it has no event of its own
Reraise ==
    /\ Free /\ Depth > 0 /\ Top.line = 3 /\ Top.exc # None
    /\ TakeOff(Top.exc, "leave") /\ steady' = Top.steady
    /\ UNCHANGED <<config, stack, tb, state, stop, debugger, local>>

\* the exception is caught
Catch ==
    /\ flight.phase = "search" /\ stop = None /\ Top.line = 1
    /\ stack' = [stack EXCEPT ![Depth].line = 3, ![Depth].exc = flight.exc,
                              ![Depth].steady = IF here \cap {"retraced", "paused"} = {}
                                                  THEN steady ELSE {}]
    /\ flight' = Running
    /\ steady' = {} /\ here' = {} /\ count' = NoCount
    /\ UNCHANGED <<config, tb, state, stop, debugger, local>>

\* it is not: what the except line names is not a class of it, or there is no try
Pass ==
    /\ flight.phase = "search" /\ stop = None
    /\ stack' = [stack EXCEPT ![Depth].line = IF @ = 1 THEN 2 ELSE @]
    /\ flight' = [flight EXCEPT !.phase = "leave"]
    /\ UNCHANGED <<config, tb, state, stop, debugger, local, steady, here, count>>

\* the function returns, with the value None or another one
ReturnFrom(none) ==
    /\ Free /\ Depth > 0 /\ Top.line # 3
    /\ flight' = [exc |-> None, phase |-> "leave", none |-> none]
    /\ steady' = {} /\ here' = {} /\ count' = NoCount
    /\ UNCHANGED <<config, stack, tb, state, stop, debugger, local>>

\* the frame is gone; the exception is in the caller now
Pop ==
    LET e == flight.exc
        caller == Depth > 1
    IN  /\ flight.phase = "pop" /\ stop = None
        /\ (e # None /\ caller) => Len(tb[e]) < MaxTrace
        /\ stack' = SubSeq(stack, 1, Depth - 1)
        /\ tb' = IF e # None /\ caller
                 THEN [tb EXCEPT ![e] = <<<<stack[Depth - 1].code, stack[Depth - 1].line>>>> \o @]
                 ELSE tb
        /\ flight' = IF ~caller THEN [flight EXCEPT !.phase = "boot"]
                     ELSE IF e = None THEN Running ELSE [flight EXCEPT !.phase = "raise"]
        /\ unhandled' = [unhandled EXCEPT !.frame = IF caller THEN @ ELSE Gone]
        /\ here' = IF caller THEN {} ELSE here
        /\ count' = IF caller /\ e = None THEN NoCount ELSE count
        /\ UNCHANGED <<config, state, stop, debugger, suspendedAt, top, steady>>

\* native code calls into Python again, from the same thread
Restart ==
    /\ flight.phase = "gone" /\ config.monitoring /\ ~config.managed
    /\ flight' = Running
    /\ steady' = {} /\ here' = {} /\ count' = NoCount
    /\ UNCHANGED <<config, stack, tb, state, stop, debugger, local>>

Program ==
    \/ \E c \in Codes : Call(c)
    \/ \E l \in {1, 4} : Advance(l)
    \/ \E e \in Excs : RaiseNew(e) \/ RaiseOld(e)
    \/ Reraise \/ Catch \/ Pass
    \/ \E none \in BOOLEAN : ReturnFrom(none)
    \/ Pop \/ Restart

---------------------------------------------------------------------------
(* The decisions *)

\* should_stop_on_exception(), before it looks at breakpoints; the code of the
\* debugger itself is skipped earlier
MayStop == Top.code \notin Internal /\ state # "suspend" /\ flight.exc \notin ControlFlow

\* mutant: on every frame that the exception passes through
EveryContext(e) == ~config.skip \/ Len(tb[e]) > 1

\* which of the frames that an exception passes through the options allow
ContextAllows(e) ==
    LET wasJustRaised == Len(tb[e]) = 1
        raisedByCallee == Len(tb[e]) = 2
    IN  /\ config.first /\ config.skip => raisedByCallee
        /\ config.first /\ ~config.skip => wasJustRaised
        /\ config.skip => ~wasJustRaised

StopOnCaught ==
    /\ "caught" \in breaks /\ MayStop
    /\ ~ExcludeByFilter(Top.code)
    /\ ContextAllows(flight.exc)

\* mutant: a frame with no caller is forgotten
UserUncaughtInCall ==
    /\ "user" \in breaks /\ MayStop
    /\ ~ExcludeByFilter(Top.code)
    /\ Depth > 1 /\ UserBoundary

\* the exception would leave user code here: that is only noted
UserUncaught ==
    /\ "user" \in breaks /\ MayStop
    /\ ~ExcludeByFilter(Top.code)
    /\ UserBoundary

\* is_unhandled_exception(): does the frame return because of the exception
\* that was last raised at i.last
IsUnhandled(i) ==
    \/ Top.line \in i.lines
    \/ i.last # 1
    \/ Top.line \in {2, 3}

\* stop_on_unhandled_exception(): some frame of the traceback is not filtered out
StopOnUnhandled(e) ==
    /\ "uncaught" \in breaks
    /\ \E i \in DOMAIN tb[e] : ~ExcludeByFilter(tb[e][i][1])

\* a thread that was asked to suspend does not look at exceptions
Paused == IF state = "suspend" THEN {"paused"} ELSE {}

\* set_suspend() and do_wait_suspend()
Suspend(type) ==
    /\ state' = "suspend"
    /\ stop' = type
    /\ here' = here \cup Paused \cup {type}
    /\ count' = [handled |-> IF type = "handled" /\ count.handled < 2
                             THEN count.handled + 1 ELSE count.handled,
                 unhandled |-> IF type = "unhandled" THEN 1 ELSE count.unhandled,
                 twice |-> \/ count.twice
                           \/ type = "unhandled" /\ (count.unhandled = 1 \/ "user" \in here)]

NoStop ==
    /\ here' = here \cup Paused
    /\ UNCHANGED <<state, stop, count>>

\* handle_exception(): not if the line of the frame, or the one where the
\* exception was raised, has the comment for it
IgnoredInLine(e, loc) == {loc, tb[e][Len(tb[e])]} \cap Tagged # {}
HandleException(type, e, loc) ==
    IF IgnoredInLine(e, loc)
    THEN here' = here \cup {"tagged"} /\ UNCHANGED <<state, stop, count>>
    ELSE Suspend(type)

To(phase) == flight' = [flight EXCEPT !.phase = phase]

---------------------------------------------------------------------------
(* sys.monitoring *)

\* mutant: the events of an exception that nobody catches are not asked for
RequiredEventsIfCaught == IF HasExceptionBreakpoints THEN {"RAISE", "PY_UNWIND"} ELSE {}

\* update_monitor_events()
RequiredEvents ==
    IF HasExceptionBreakpoints THEN {"RAISE", "PY_UNWIND"}
    ELSE IF "uncaught" \in breaks THEN {"PY_UNWIND"} ELSE {}

\* _raise_event()
RaiseEvent ==
    /\ flight.phase = "raise" /\ config.monitoring /\ stop = None
    /\ To("search")
    /\ IF "RAISE" \in events /\ StopOnCaught
       THEN HandleException("handled", flight.exc, Here)
       ELSE NoStop
    /\ UNCHANGED <<config, stack, tb, debugger, local, steady>>

\* _get_unhandled_exception_frame(): the outermost frame, as it was when the
\* exception was first seen to leave a frame
UnhandledFrame == IF unhandled.exc = flight.exc THEN unhandled.frame ELSE 1

\* mutant: goes on to the check for uncaught exceptions
UnwindTwice ==
    /\ UserUncaught
    /\ IF "uncaught" \in breaks /\ UnhandledFrame = Depth /\ StopOnUnhandled(flight.exc)
       THEN /\ state' = "suspend"
            /\ stop' = "unhandled"
            /\ here' = here \cup {"user", "unhandled"}
            /\ count' = [count EXCEPT !.twice = TRUE]
       ELSE HandleException("user", flight.exc, Here)
    /\ UNCHANGED unhandled

\* _unwind_event()
UnwindUser ==
    /\ UserUncaught
    /\ HandleException("user", flight.exc, Here)
    /\ UNCHANGED unhandled

UnwindUncaught ==
    /\ ~UserUncaught /\ "uncaught" \in breaks
    /\ unhandled' = [exc |-> flight.exc, frame |-> UnhandledFrame]
    /\ IF UnhandledFrame = Depth /\ StopOnUnhandled(flight.exc)
       THEN Suspend("unhandled")
       ELSE /\ here' = here \cup Paused \cup (IF UnhandledFrame = Gone THEN {"stale"} ELSE {})
            /\ UNCHANGED <<state, stop, count>>

UnwindNothing ==
    /\ ~UserUncaught /\ "uncaught" \notin breaks
    /\ NoStop
    /\ UNCHANGED unhandled

UnwindEvent ==
    /\ flight.phase = "leave" /\ config.monitoring /\ stop = None
    /\ To("pop")
    /\ IF flight.exc # None /\ "PY_UNWIND" \in events
       THEN UnwindUser \/ UnwindUncaught \/ UnwindNothing
       ELSE NoStop /\ UNCHANGED unhandled
    /\ UNCHANGED <<config, stack, tb, debugger, suspendedAt, top, steady>>

---------------------------------------------------------------------------
(* sys.settrace *)

\* set_trace_for_frame_and_parents(): a new PyDBFrame, which knows of no exception
Retraced(frames, depth) ==
    [d \in DOMAIN frames |->
        IF d <= depth /\ ~config.monitoring
        THEN [frames[d] EXCEPT !.info = NoInfo, !.steady = {},
                               !.trace = IF ApplyFilesFilter(frames[d].code, FALSE)
                                         THEN "none" ELSE "dispatch"]
        ELSE frames[d]]
\* the tracer of the frame with no caller is a new one, too
RetracedTop(depth) ==
    IF depth > 0 /\ ~config.monitoring /\ ~config.managed THEN NoInfo ELSE top

\* what is known of an exception that comes to line l
Noted(i, l) == [exc |-> flight.exc, last |-> l, lines |-> i.lines \cup {l}]

\* trace_exception() and trace_dispatch() for the event "exception"; the tracer
\* of a frame with no caller notes it too
ExceptionEvent ==
    LET traced == Top.trace # "none"
        noted == IF traced /\ UserUncaught
                 THEN [stack EXCEPT ![Depth].info = Noted(@, Top.line)] ELSE stack
        handled == traced /\ StopOnCaught
    IN  /\ flight.phase = "raise" /\ ~config.monitoring /\ stop = None
        /\ To("search")
        /\ IF handled THEN HandleException("handled", flight.exc, Here) ELSE NoStop
        /\ stack' = IF handled /\ ~IgnoredInLine(flight.exc, Here)
                    THEN [Retraced(noted, Depth - 1) EXCEPT ![Depth].trace = "dispatch"]
                    ELSE noted
        /\ top' = IF Depth = 1 /\ ~config.managed THEN Noted(top, Top.line)
                  ELSE IF stack' # noted THEN RetracedTop(Depth - 1) ELSE top
        /\ UNCHANGED <<config, tb, debugger, unhandled, suspendedAt, steady>>

\* the event "return", which does not tell why the frame is left: trace_dispatch()
\* takes any exception that was noted to be the reason, trace_exception() looks closer
ReturnEvent ==
    LET i == Top.info
        reason == /\ i # NoInfo
                  /\ \/ Top.trace = "dispatch"
                     \/ Top.trace = "exception" /\ flight.none /\ IsUnhandled(i)
    IN  /\ flight.phase = "leave" /\ ~config.monitoring /\ stop = None
        /\ To("top")
        /\ IF reason THEN HandleException("user", i.exc, <<Top.code, i.last>>) ELSE NoStop
        /\ stack' = IF reason /\ ~IgnoredInLine(i.exc, <<Top.code, i.last>>)
                    THEN Retraced(stack, Depth - 1) ELSE stack
        /\ top' = IF stack' # stack THEN RetracedTop(Depth - 1) ELSE top
        /\ UNCHANGED <<config, tb, debugger, unhandled, suspendedAt, steady>>

\* TopLevelThreadTracerNoBackFrame: the return of the frame with no caller
TopLevelReturn ==
    /\ flight.phase = "top" /\ stop = None
    /\ To("pop")
    /\ IF /\ ~config.managed /\ Depth = 1 /\ top.exc # None
          /\ ~suspendedAt /\ IsUnhandled(top) /\ StopOnUnhandled(top.exc)
       THEN Suspend("unhandled")
       ELSE UNCHANGED <<state, stop, here, count>>
    /\ top' = IF ~config.managed /\ Depth = 1 THEN [top EXCEPT !.exc = None] ELSE top
    /\ UNCHANGED <<config, stack, tb, debugger, unhandled, suspendedAt, steady>>

\* TopLevelThreadTracerOnlyUnhandledExceptions: the exception came to the bootstrap
TopLevelException ==
    LET traced == ~config.monitoring /\ config.managed /\ flight.exc # None
    IN  /\ flight.phase = "boot" /\ stop = None
        /\ To("gone")
        /\ IF traced /\ ~suspendedAt /\ StopOnUnhandled(flight.exc)
           THEN Suspend("unhandled")
           ELSE UNCHANGED <<state, stop, here, count>>
        /\ suspendedAt' = (suspendedAt \/ traced)
        /\ UNCHANGED <<config, stack, tb, debugger, unhandled, top, steady>>

Event ==
    \/ RaiseEvent \/ UnwindEvent
    \/ ExceptionEvent \/ ReturnEvent \/ TopLevelReturn \/ TopLevelException

---------------------------------------------------------------------------
(* Commands of the client *)

\* setExceptionBreakpoints: remove_all_exception_breakpoints(), then
\* add_python_exception_breakpoint() with what the filters ask for
RemoveAllExceptionBreakpoints(filters) ==
    /\ cmd.phase = "idle"
    /\ breaks' = {}
    /\ cmd' = [phase |-> "removed", filters |-> filters]
    /\ stack' = [d \in DOMAIN stack |-> [stack[d] EXCEPT !.steady = {}]]
    /\ steady' = {}
    /\ UNCHANGED <<config, flight, tb, state, stop, events, local, here, count>>

AddBreakOnException ==
    /\ cmd.phase = "removed"
    /\ breaks' = cmd.filters
    /\ cmd' = [cmd EXCEPT !.phase = IF breaks' = {} THEN "idle" ELSE "added", !.filters = {}]
    /\ UNCHANGED <<config, stack, flight, tb, state, stop, events, local, steady, here, count>>

UpdateMonitorEvents ==
    /\ cmd.phase = "added"
    /\ events' = IF config.monitoring THEN RequiredEvents ELSE events
    /\ cmd' = [cmd EXCEPT !.phase = "trace"]
    /\ UNCHANGED <<config, stack, flight, tb, state, stop, breaks, local, steady, here, count>>

\* mutant: only the functions that are called from now on
TraceNewFrames ==
    /\ cmd.phase = "trace"
    /\ cmd' = [cmd EXCEPT !.phase = "idle"]
    /\ UNCHANGED <<config, stack, flight, tb, state, stop, breaks, events, local, steady,
                   here, count>>

TraceExistingFrames ==
    /\ cmd.phase = "trace"
    /\ stack' = Retraced(stack, Depth)
    /\ top' = RetracedTop(Depth)
    /\ cmd' = [cmd EXCEPT !.phase = "idle"]
    /\ UNCHANGED <<config, flight, tb, state, stop, breaks, events, unhandled, suspendedAt,
                   steady, here, count>>

\* a line breakpoint is added: on_breakpoints_changed() traces all frames anew
LineBreakpointAdded ==
    /\ cmd.phase = "idle" /\ Depth > 0
    /\ stack' = Retraced(stack, Depth)
    /\ top' = RetracedTop(Depth)
    /\ here' = IF stack' # stack \/ top' # top THEN here \cup {"retraced"} ELSE here
    /\ UNCHANGED <<config, flight, tb, state, stop, debugger, unhandled, suspendedAt,
                   steady, count>>

\* the thread is asked to suspend
Pause ==
    /\ state' = "suspend"
    /\ UNCHANGED <<config, stack, flight, tb, stop, debugger, local, steady, here, count>>

Resume ==
    /\ state = "suspend"
    /\ state' = "run" /\ stop' = None
    /\ UNCHANGED <<config, stack, flight, tb, debugger, local, steady, here, count>>

Command ==
    \/ \E filters \in FilterSets : RemoveAllExceptionBreakpoints(filters)
    \/ AddBreakOnException \/ UpdateMonitorEvents \/ TraceExistingFrames
    \/ LineBreakpointAdded
    \/ Pause \/ Resume

Next == Program \/ Event \/ Command

Spec == Init /\ [][Next]_vars

---------------------------------------------------------------------------
(* Properties *)

NotedType == [exc : Excs \cup {None}, last : 0 .. 4, lines : SUBSET (1 .. 4)]

\* Type correctness: frames, tracebacks and reports are of their types, and an
\* exception in flight has the current frame first in its traceback.
TypeOK ==
    /\ config \in Configs
    /\ Depth <= MaxDepth
    /\ \A d \in 1 .. Depth :
           stack[d] \in [code : Codes, line : 1 .. 4, exc : Excs \cup {None},
                         steady : SUBSET Filters, info : NotedType, trace : {"none", "exception", "dispatch"}]
    /\ flight \in [exc : Excs \cup {None}, none : BOOLEAN,
                   phase : {"run", "raise", "search", "leave", "top", "pop", "boot", "gone"}]
    /\ flight.phase \in {"raise", "search"} => flight.exc # None /\ tb[flight.exc][1] = Here
    /\ \A e \in Excs : Len(tb[e]) <= MaxTrace
    /\ state \in {"run", "suspend"}
    /\ stop \in {None, "pause", "handled", "user", "unhandled"}
    /\ stop # None => state = "suspend"
    /\ breaks \subseteq Filters /\ events \subseteq {"RAISE", "PY_UNWIND"}
    /\ unhandled.frame \in {0, 1, Gone}

\* With the filter "raised", an exception is reported in every frame of code of
\* interest that it comes to, before a handler is looked for: the trace functions
\* and the events are in place whatever the order of calls and commands was.
RaisedReported ==
    (/\ flight.phase = "search" /\ "caught" \in steady
     /\ ~config.first /\ ~config.skip
     /\ Top.code \notin Internal /\ ~ExcludeByFilter(Top.code)
     /\ flight.exc \notin ControlFlow
     /\ here \cap {"paused", "tagged"} = {})
    => "handled" \in here

\* With the filter "userUnhandled", an exception does not leave user code for a
\* library, or for the end of the thread, without a report: with sys.settrace
\* this relies on the guess of is_unhandled_exception().  Not if all frames were
\* traced anew after the event "exception" (see RetracedUserReported), if the
\* thread was asked to pause, or if a comment tells the debugger to ignore it.
UserUnhandledReported ==
    (/\ flight.phase \in {"top", "pop"} /\ flight.exc # None /\ "user" \in steady
     /\ UserBoundary /\ flight.exc \notin ControlFlow
     /\ here \cap {"paused", "tagged", "retraced"} = {})
    => "user" \in here

\* With the filter "uncaught", an exception that ends its thread is reported,
\* whatever else was done to its frames, if the thread has a bootstrap frame.  With
\* none, it is unless all frames were traced anew while it was in flight, or, with
\* sys.monitoring, it left an earlier outermost frame (RetracedUncaughtReported and
\* StaleFrameReported).  A comment may tell the debugger to ignore it.
UncaughtReported ==
    (/\ flight.phase = "gone" /\ flight.exc # None /\ "uncaught" \in steady
     /\ \E i \in DOMAIN tb[flight.exc] : ~ExcludeByFilter(tb[flight.exc][i][1])
     /\ "tagged" \notin here
     /\ config.managed \/ here \cap {"stale", "retraced"} = {})
    => here \cap {"user", "unhandled"} # {}

\* With sys.monitoring, what ends a thread is reported once, as user-unhandled
\* or as uncaught.
ReportedOnce == config.monitoring => ~count.twice

\* With notify_on_first_raise_only, one propagation of an exception is reported
\* as raised once, however many frames it passes through.
OncePerRaise == config.first => count.handled <= 1

---------------------------------------------------------------------------
(* What comments of the code say, and the code does not do *)

\* "breaks if the exception is not handled by user code": with sys.settrace, one
\* that was handled is reported when the function returns.
UserUnhandledIsReal == stop = "user" => flight.exc # None

\* "reset the tracing for the existing functions to be re-evaluated": when a line
\* breakpoint is added, the new tracer of a frame knows nothing of an exception that
\* is leaving it, and does not report it.
RetracedUserReported ==
    (/\ flight.phase \in {"top", "pop"} /\ flight.exc # None /\ "user" \in steady
     /\ UserBoundary /\ flight.exc \notin ControlFlow
     /\ here \cap {"paused", "tagged"} = {})
    => "user" \in here

\* The same for the tracer of a frame with no caller, and uncaught exceptions.
RetracedUncaughtReported ==
    (/\ flight.phase = "gone" /\ flight.exc # None /\ "uncaught" \in steady
     /\ \E i \in DOMAIN tb[flight.exc] : ~ExcludeByFilter(tb[flight.exc][i][1])
     /\ here \cap {"tagged", "stale"} = {})
    => here \cap {"user", "unhandled"} # {}

\* "if it's an unmanaged thread then stop if it doesn't have a back frame": not
\* if the exception object was seen to leave an earlier outermost frame.
StaleFrameReported ==
    (flight.phase = "gone" /\ flight.exc # None /\ "uncaught" \in steady)
    => "stale" \notin here

\* "Don't break if an exception is caught in the same function from which it is
\* thrown": "raise e" in an except block adds an entry to the traceback.
NotInSameFunction ==
    (stop = "handled" /\ config.skip) =>
        \E i \in DOMAIN tb[flight.exc] : tb[flight.exc][i][1] # Top.code
=============================================================================

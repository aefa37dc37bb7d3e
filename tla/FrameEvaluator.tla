--------------------------- MODULE FrameEvaluator ---------------------------
(***************************************************************************)
(* Frame evaluation (pydevd_frame_evaluator), used up to CPython 3.10: the *)
(* interpreter asks get_bytecode_while_frame_eval() before it executes a   *)
(* frame.  A frame is then traced only if it has to be; where breakpoints  *)
(* are the only reason, it executes a copy of its code into which calls of *)
(* _pydev_needs_stop_at_break() were inserted, and is traced from the      *)
(* first of them that finds a breakpoint.                                  *)
(*                                                                         *)
(* The frame of a generator is evaluated again each time it is resumed.    *)
(* Meanwhile it is on no stack, so that the client's thread, which traces  *)
(* the frames that exist when a breakpoint is added, does not see it.      *)
(*                                                                         *)
(* A code object is a function with the lines at which calls were          *)
(* inserted; the functions are those of one file.  What the trace function *)
(* does with an event is abstracted to whether it stops: TraceDispatch has *)
(* the rest.                                                               *)
(***************************************************************************)
EXTENDS Integers, Sequences, FiniteSets

CONSTANTS
    Threads,            \* the threads of the debuggee
    Functions,          \* the functions they call
    Internal,           \* the ones of files that are never traced
    Generators,         \* the ones that yield
    Unmodifiable,       \* the ones into which insert_pydevd_breaks() inserts nothing
    LastLine,           \* the lines of a function are 1..LastLine
    MaxDepth,           \* bound: frames of a thread
    BreakLocations,     \* where the client sets breakpoints: <<function, line>>, line 0 is the function
    MaxBreakpoints,     \* bound: breakpoints that exist at a time
    ExceptionBreaks     \* there are exception breakpoints

ASSUME FrameEvaluatorAssumption ==
    /\ LastLine \in Nat \ {0} /\ MaxDepth \in Nat \ {0} /\ MaxBreakpoints \in Nat
    /\ Internal \cup Generators \cup Unmodifiable \subseteq Functions
    /\ BreakLocations \subseteq Functions \X (0 .. LastLine)
    /\ ExceptionBreaks \in BOOLEAN
    /\ "none" \notin Functions

VARIABLES
    stack,      \* thread -> its frames, the innermost one last
    parked,     \* the frame of a generator that has yielded, or NoFrame
    pc,         \* thread -> what it is doing
    ev,         \* thread -> the evaluation it is in
    state,      \* thread -> pydev_state
    step,       \* thread -> pydev_step_cmd is a step into, as it is while a pause is awaited
    bps,        \* PyDB.breakpoints and function_breakpoint_name_to_breakpoint
    listed,     \* the file is a key of PyDB.breakpoints
    extra,      \* code object -> the FuncCodeInfo stored with it, if it is fresh
    fresh,      \* the code objects whose FuncCodeInfo has breakpoints_mtime = PyDB.mtime
    generated,  \* _cache: the code objects that were made by generate_code_with_breakpoints()
    cmd,        \* what the thread that handles the client's commands is doing
    settled,    \* history: breakpoints whose installation is complete
    marks       \* history: thread -> what is to be remembered of the line it is at

program == <<stack, parked, pc, ev>>
codes   == <<extra, fresh, generated>>
history == <<settled, marks>>
vars == <<program, state, step, bps, listed, codes, cmd, history>>

Lines == 1 .. LastLine
CodeObjects == [fn : Functions, breaks : SUBSET Lines]
Original(c) == [fn |-> c, breaks |-> {}]
NoCode == [fn |-> "none", breaks |-> {}]
NoFrame == [code |-> NoCode, line |-> 0, trace |-> "none", doubts |-> {}]
NoInfo == [skip |-> FALSE, found |-> FALSE, new |-> NoCode]
NoEvaluation == [frame |-> NoFrame, current |-> TRUE, paused |-> FALSE, lines |-> {}]

Depth(t) == Len(stack[t])
Top(t) == stack[t][Depth(t)]
LocationOf(f) == <<f.code.fn, f.line>>
LineBreakpoints == {b \in bps : b[2] # 0}
Go(t, p) == pc' = [pc EXCEPT ![t] = p]

Init ==
    /\ stack = [t \in Threads |-> <<>>]
    /\ parked = NoFrame
    /\ pc = [t \in Threads |-> "run"]
    /\ ev = [t \in Threads |-> NoEvaluation]
    /\ state = [t \in Threads |-> "run"]
    /\ step = [t \in Threads |-> FALSE]
    /\ bps = {} /\ listed = FALSE
    /\ extra = [o \in CodeObjects |-> NoInfo]
    /\ fresh = {} /\ generated = {}
    /\ cmd = "idle"
    /\ settled = {}
    /\ marks = [t \in Threads |-> {}]

---------------------------------------------------------------------------
(* The program *)

\* The reasons t has to stop at line l of the frame f, or the doubts about the
\* frame for which the code may not do so.
Marks(t, f, l) ==
    LET Reason(condition, reason, doubts) ==
            IF f.code.fn \in Internal \/ ~condition THEN {}
            ELSE IF f.doubts \cap doubts = {} THEN {reason} ELSE f.doubts \cap doubts
    IN  UNION {
            Reason(<<f.code.fn, l>> \in settled, "breakpoint", {"moved", "thrown", "blind"}),
            Reason(step[t] /\ state[t] = "run", "step", {"moved", "thrown"}),
            Reason(state[t] = "suspend", "pause", {"moved", "thrown", "late"})}

\* a function is called: the interpreter asks for the evaluation of its frame
Call(t, c) ==
    /\ pc[t] = "run" /\ Depth(t) < MaxDepth
    /\ (Depth(t) > 0 => Top(t).line # 0)
    /\ ev' = [ev EXCEPT ![t].frame = [NoFrame EXCEPT !.code = Original(c)]]
    /\ Go(t, "evaluate")
    /\ marks' = [marks EXCEPT ![t] = {}]
    /\ UNCHANGED <<stack, parked, state, step, bps, listed, codes, cmd, settled>>

\* next() of a generator
Resume(t) ==
    /\ pc[t] = "run" /\ Depth(t) < MaxDepth /\ parked # NoFrame
    /\ (Depth(t) > 0 => Top(t).line # 0)
    /\ ev' = [ev EXCEPT ![t].frame = parked]
    /\ parked' = NoFrame
    /\ Go(t, "evaluate")
    /\ marks' = [marks EXCEPT ![t] = {}]
    /\ UNCHANGED <<stack, state, step, bps, listed, codes, cmd, settled>>

\* the interpreter executes the frame f; its trace function sees the call
Execute(t, f) ==
    /\ stack' = [stack EXCEPT ![t] = Append(@, [f EXCEPT !.trace = IF @ = "off" THEN "none" ELSE @])]
    /\ Go(t, IF f.trace = "dispatch" THEN "call" ELSE "run")
    /\ ev' = [ev EXCEPT ![t] = NoEvaluation]

\* throw() of a generator: the evaluation is skipped (exc)
Throw(t) ==
    /\ pc[t] = "run" /\ Depth(t) < MaxDepth /\ parked # NoFrame
    /\ (Depth(t) > 0 => Top(t).line # 0)
    /\ Execute(t, [parked EXCEPT !.doubts = @ \cup {"thrown"}])
    /\ parked' = NoFrame
    /\ marks' = [marks EXCEPT ![t] = {}]
    /\ UNCHANGED <<state, step, bps, listed, codes, cmd, settled>>

\* the next line: a line event if the frame is traced, else the inserted call
Advance(t, l) ==
    LET f == Top(t) IN
    /\ pc[t] = "run" /\ Depth(t) > 0
    /\ stack' = [stack EXCEPT ![t][Depth(t)] =
           [f EXCEPT !.line = l, !.trace = IF @ = "off" THEN "none" ELSE @]]
    /\ Go(t, CASE f.trace = "dispatch" -> "line"
               [] f.trace # "dispatch" /\ l \in f.code.breaks -> "needs"
               [] OTHER -> "run")
    /\ marks' = [marks EXCEPT ![t] = Marks(t, f, l)]
    /\ UNCHANGED <<parked, ev, state, step, bps, listed, codes, cmd, settled>>

\* a function returns, or a generator yields
Leave(t) ==
    LET f == Top(t) IN
    /\ pc[t] = "run" /\ Depth(t) > 0 /\ f.line # 0
    /\ stack' = [stack EXCEPT ![t] = SubSeq(@, 1, Depth(t) - 1)]
    /\ \/ UNCHANGED parked
       \/ /\ f.code.fn \in Generators /\ parked = NoFrame
          /\ parked' = [f EXCEPT !.doubts = @ \cap {"moved"}]
    /\ marks' = [marks EXCEPT ![t] = {}]
    /\ UNCHANGED <<pc, ev, state, step, bps, listed, codes, cmd, settled>>

---------------------------------------------------------------------------
(* get_bytecode_while_frame_eval() *)

\* mutant: a step is not a reason
TraceIfExceptions(t) == ExceptionBreaks

\* what has every new frame traced
TraceEveryFrame(t) == step[t] \/ ExceptionBreaks

\* the decision for the frame of t: pc is "enter" when it has been made
Decided(t, f) ==
    /\ ev' = [ev EXCEPT ![t].frame = f]
    /\ Go(t, "enter")

\* A frame that has begun, and so stands at some instruction, is given other code
Replace(f, new) ==
    [f EXCEPT !.code = new, !.doubts = IF f.line # 0 THEN @ \cup {"moved"} ELSE @]

\* with the FuncCodeInfo info: trace, replace the code, or leave the frame alone
Decide(t, info, forceStayInUntracedMode) ==
    LET f == ev[t].frame IN
    Decided(t, IF info.skip \/ ~info.found \/ forceStayInUntracedMode THEN f
               ELSE IF info.new = NoCode THEN [f EXCEPT !.trace = "dispatch"]
               ELSE Replace(f, info.new))

\* the steps before get_func_code_info(): while t steps into, everything is traced
EvaluateTraced(t) ==
    /\ pc[t] = "evaluate" /\ TraceEveryFrame(t)
    /\ Decided(t, [ev[t].frame EXCEPT !.trace = "dispatch"])
    /\ UNCHANGED <<stack, parked, state, step, bps, listed, codes, cmd, history>>

\* get_func_code_info(): the one that is stored is current.
\* force_stay_in_untraced_mode was reset, and stays FALSE
CodeInfoCurrent(t) ==
    LET o == ev[t].frame.code IN
    /\ pc[t] = "evaluate" /\ ~TraceEveryFrame(t) /\ o \in fresh
    /\ Decide(t, extra[o], FALSE)
    /\ UNCHANGED <<stack, parked, state, step, bps, listed, codes, cmd, history>>

\* get_func_code_info(): a new one, with the present mtime
CodeInfoOutdated(t) ==
    /\ pc[t] = "evaluate" /\ ~TraceEveryFrame(t) /\ ev[t].frame.code \notin fresh
    /\ Go(t, "lookup")
    /\ UNCHANGED <<stack, parked, ev, state, step, bps, listed, codes, cmd, history>>

\* mutant: the FuncCodeInfo is valid for the mtime at which it is stored
SetExtraAsCurrent(t, info) ==
    LET o == ev[t].frame.code IN
    /\ extra' = [extra EXCEPT ![o] = info]
    /\ fresh' = fresh \cup {o}

\* the FuncCodeInfo is stored; its mtime is the one read at the beginning, and one
\* that is outdated already is never used
SetExtra(t, info) ==
    LET o == ev[t].frame.code IN
    /\ extra' = [extra EXCEPT ![o] = IF ev[t].current THEN info ELSE NoInfo]
    /\ fresh' = IF ev[t].current THEN fresh \cup {o} ELSE fresh \ {o}

Stored(t, info, force) ==
    /\ SetExtra(t, info)
    /\ Decide(t, info, force)
    /\ UNCHANGED <<stack, parked, state, step, bps, listed, cmd, history>>

\* a file that is never traced
AlwaysSkipCode(t) ==
    /\ ev[t].frame.code.fn \in Internal
    /\ Stored(t, [NoInfo EXCEPT !.skip = TRUE], FALSE)
    /\ UNCHANGED generated

LinesOf(c, locations) == {b[2] : b \in {x \in locations : x[1] = c}} \ {0}

\* compute_force_stay_in_untraced_mode(), where breakpoints were found: the code
\* has a call for every breakpoint of the file
ForceStayInUntracedMode(o) ==
    LineBreakpoints \subseteq {<<o.fn, l>> : l \in o.breaks}

\* the frame executes generated code already: it is the frame of a generator
GeneratedBefore(t) ==
    LET o == ev[t].frame.code
        found == LinesOf(o.fn, bps) # {}
    IN  /\ o.fn \notin Internal /\ o \in generated /\ listed
        /\ Stored(t, [NoInfo EXCEPT !.found = found], found => ForceStayInUntracedMode(o))
        /\ UNCHANGED generated

\* the same when the file has no entry in PyDB.breakpoints: the intersection with
\* None raises TypeError, and with it the evaluation
BreakpointsMissing(t) ==
    LET o == ev[t].frame.code IN
    /\ o.fn \notin Internal /\ o \in generated /\ ~listed
    /\ Go(t, "raised")
    /\ ev' = [ev EXCEPT ![t] = NoEvaluation]
    /\ UNCHANGED <<stack, parked, state, step, bps, listed, codes, cmd, history>>

\* the caller of the function has the exception
EvaluationFailed(t) ==
    /\ pc[t] = "raised"
    /\ Go(t, "run")
    /\ UNCHANGED <<stack, parked, ev, state, step, bps, listed, codes, cmd, history>>

\* no breakpoint of the file, or one of the function
NothingToInsert(t) ==
    LET o == ev[t].frame.code
        function == <<o.fn, 0>> \in bps
    IN  /\ o.fn \notin Internal /\ o \notin generated
        /\ function \/ LineBreakpoints = {}
        /\ Stored(t, [NoInfo EXCEPT !.found = function], FALSE)
        /\ UNCHANGED generated

\* generate_code_with_breakpoints() begins
BeginToInsert(t) ==
    LET o == ev[t].frame.code IN
    /\ o.fn \notin Internal /\ o \notin generated
    /\ <<o.fn, 0>> \notin bps /\ LineBreakpoints # {}
    /\ ev' = [ev EXCEPT ![t].lines = LinesOf(o.fn, bps)]
    /\ Go(t, "insert")
    /\ UNCHANGED <<stack, parked, state, step, bps, listed, codes, cmd, history>>

Lookup(t) ==
    /\ pc[t] = "lookup"
    /\ \/ AlwaysSkipCode(t) \/ GeneratedBefore(t) \/ BreakpointsMissing(t)
       \/ NothingToInsert(t) \/ BeginToInsert(t)

\* insert_pydevd_breaks(), which may not succeed, and the end of
\* generate_code_with_breakpoints() and of get_func_code_info()
InsertPydevdBreaks(t) ==
    LET c == ev[t].frame.code.fn
        hit == ev[t].lines
        new == [fn |-> c, breaks |-> hit]
        success == hit # {} /\ c \notin Unmodifiable
    IN  /\ pc[t] = "insert"
        /\ generated' = IF success THEN generated \cup {new} ELSE generated
        /\ Stored(t, [NoInfo EXCEPT !.found = hit # {}, !.new = IF success THEN new ELSE NoCode], FALSE)

\* the frame is executed.  Only now others see it
Enter(t) ==
    /\ pc[t] = "enter"
    /\ Execute(t, [ev[t].frame EXCEPT !.doubts =
           (@ \cap {"moved"}) \cup (IF ev[t].current THEN {} ELSE {"blind"})
                              \cup (IF ev[t].paused THEN {"late"} ELSE {})])
    /\ UNCHANGED <<parked, state, step, bps, listed, codes, cmd, history>>

---------------------------------------------------------------------------
(* The inserted calls, and the trace function *)

\* _pydev_needs_stop_at_break(): the breakpoint still exists
NeedsStopAtBreak(t) == LocationOf(Top(t)) \in bps

\* _pydev_stop_at_break() has the frame traced, and a line event follows
InsertedCall(t) ==
    /\ pc[t] = "needs"
    /\ IF NeedsStopAtBreak(t)
       THEN Go(t, "line") /\ stack' = [stack EXCEPT ![t][Depth(t)].trace = "dispatch"]
       ELSE Go(t, "run") /\ UNCHANGED stack
    /\ UNCHANGED <<parked, ev, state, step, bps, listed, codes, cmd, history>>

\* trace_dispatch() of a call: a function breakpoint stops
\* trace_dispatch() of a line: a breakpoint, a pause or a step into stops
Stops(t) ==
    LET loc == IF pc[t] = "call" THEN <<Top(t).code.fn, 0>> ELSE LocationOf(Top(t))
    IN  /\ Top(t).code.fn \notin Internal
        /\ \/ loc \in bps
           \/ state[t] = "suspend"
           \/ pc[t] = "line" /\ step[t]

Suspend(t) ==
    /\ pc[t] \in {"call", "line"} /\ Stops(t)
    /\ Go(t, "wait")
    /\ state' = [state EXCEPT ![t] = "suspend"]
    /\ step' = [step EXCEPT ![t] = TRUE]
    /\ marks' = [marks EXCEPT ![t] = {}]
    /\ UNCHANGED <<stack, parked, ev, bps, listed, codes, cmd, settled>>

\* nothing to stop for; a frame without breakpoints need not be traced on
GoesOn(t) ==
    /\ pc[t] \in {"call", "line"} /\ ~Stops(t)
    /\ \/ UNCHANGED stack
       \/ /\ pc[t] = "line" /\ ~step[t] /\ state[t] = "run" /\ ~ExceptionBreaks
          /\ {b \in bps : b[1] = Top(t).code.fn} = {}
          /\ stack' = [stack EXCEPT ![t][Depth(t)].trace = "off"]
    /\ Go(t, "run")
    /\ UNCHANGED <<parked, ev, state, step, bps, listed, codes, cmd, history>>

\* set_trace_for_frame_and_parents()
Traced(frames) ==
    [d \in DOMAIN frames |->
        IF frames[d].code.fn \in Internal THEN frames[d]
        ELSE [frames[d] EXCEPT !.trace = "dispatch", !.doubts = @ \cap {"moved"}]]

\* the client resumes t; for a step into, its frames are traced
ResumeThread(t, into) ==
    /\ pc[t] = "wait"
    /\ Go(t, "run")
    /\ state' = [state EXCEPT ![t] = "run"]
    /\ step' = [step EXCEPT ![t] = into]
    /\ stack' = [stack EXCEPT ![t] = IF into THEN Traced(@) ELSE @]
    /\ UNCHANGED <<parked, ev, bps, listed, codes, cmd, history>>

---------------------------------------------------------------------------
(* Commands of the client *)

\* the mtime changes: no FuncCodeInfo is current, nor is one being made
NewMtime ==
    /\ fresh' = {}
    /\ extra' = [o \in CodeObjects |-> NoInfo]
    /\ ev' = [t \in Threads |-> IF pc[t] \in {"lookup", "insert", "enter"}
                                THEN [ev[t] EXCEPT !.current = FALSE] ELSE ev[t]]

\* add_breakpoint(), up to _clear_caches(), or set_function_breakpoints()
AddBreakpoint(loc) ==
    /\ cmd = "idle" /\ loc \notin bps /\ Cardinality(bps) < MaxBreakpoints
    /\ bps' = bps \cup {loc}
    /\ listed' = (listed \/ loc[2] # 0)
    /\ IF loc[2] # 0 THEN NewMtime ELSE UNCHANGED <<ev, extra, fresh>>
    /\ cmd' = "added"
    /\ UNCHANGED <<stack, parked, pc, state, step, generated, history>>

\* on_breakpoints_changed()
BreakpointsChanged ==
    /\ cmd = "added"
    /\ NewMtime
    /\ cmd' = "trace"
    /\ UNCHANGED <<stack, parked, pc, state, step, bps, listed, generated, history>>

\* set_tracing_for_untraced_contexts()
TraceExistingFrames ==
    /\ cmd = "trace"
    /\ stack' = [t \in Threads |-> Traced(stack[t])]
    /\ cmd' = "idle"
    /\ settled' = bps
    /\ UNCHANGED <<parked, pc, ev, state, step, bps, listed, codes, marks>>

\* the breakpoints that are left: t no longer has to stop at the others
Left(left) ==
    /\ bps' = left
    /\ settled' = settled \cap left
    /\ marks' = [t \in Threads |-> IF Depth(t) > 0 /\ LocationOf(Top(t)) \notin left
                                   THEN marks[t] \cap {"step", "pause"} ELSE marks[t]]
    /\ UNCHANGED <<stack, parked, pc, state, step, generated>>

\* remove_breakpoint(), or set_function_breakpoints() with one less
RemoveBreakpoint(loc) ==
    /\ cmd = "idle" /\ loc \in bps
    /\ Left(bps \ {loc})
    /\ IF loc[2] # 0 THEN NewMtime ELSE UNCHANGED <<ev, extra, fresh>>
    /\ cmd' = IF loc[2] # 0 THEN "idle" ELSE "added"
    /\ UNCHANGED listed

\* remove_all_breakpoints(): the file has no entry any more
RemoveAllBreakpoints ==
    /\ cmd = "idle" /\ listed
    /\ Left(bps \ LineBreakpoints)
    /\ listed' = FALSE
    /\ NewMtime
    /\ UNCHANGED cmd

\* set_suspend() of a running thread: its frames are traced, and what it calls is
\* traced as for a step into
Pause(t) ==
    /\ cmd = "idle" /\ state[t] = "run"
    /\ state' = [state EXCEPT ![t] = "suspend"]
    /\ step' = [step EXCEPT ![t] = TRUE]
    /\ stack' = [stack EXCEPT ![t] = Traced(@)]
    /\ ev' = [ev EXCEPT ![t].paused = pc[t] \in {"lookup", "insert", "enter"}]
    /\ UNCHANGED <<parked, pc, bps, listed, codes, cmd, history>>

---------------------------------------------------------------------------
Program(t) ==
    \/ \E c \in Functions : Call(t, c)
    \/ \E l \in Lines : Advance(t, l)
    \/ Resume(t) \/ Throw(t) \/ Leave(t)

Evaluation(t) ==
    \/ EvaluateTraced(t) \/ CodeInfoCurrent(t) \/ CodeInfoOutdated(t)
    \/ Lookup(t) \/ InsertPydevdBreaks(t) \/ EvaluationFailed(t) \/ Enter(t)

Tracing(t) ==
    \/ InsertedCall(t) \/ Suspend(t) \/ GoesOn(t)
    \/ \E into \in BOOLEAN : ResumeThread(t, into)

Command ==
    \/ \E loc \in BreakLocations : AddBreakpoint(loc) \/ RemoveBreakpoint(loc)
    \/ BreakpointsChanged \/ TraceExistingFrames \/ RemoveAllBreakpoints
    \/ \E t \in Threads : Pause(t)

Next == Command \/ \E t \in Threads : Program(t) \/ Evaluation(t) \/ Tracing(t)

Spec == Init /\ [][Next]_vars

---------------------------------------------------------------------------
(* Properties *)

FrameType == [code : CodeObjects, line : 0 .. LastLine, trace : {"none", "dispatch", "off"},
              doubts : SUBSET {"blind", "late", "thrown", "moved"}]

\* Type correctness: frames and code objects are of their types, and a thread has
\* an evaluation exactly while it is in one.
TypeOK ==
    /\ \A t \in Threads : Depth(t) <= MaxDepth /\ \A d \in 1 .. Depth(t) : stack[t][d] \in FrameType
    /\ parked \in FrameType \cup {NoFrame}
    /\ pc \in [Threads -> {"run", "evaluate", "lookup", "insert", "enter", "call", "line", "needs", "wait", "raised"}]
    /\ \A t \in Threads : pc[t] \in {"evaluate", "lookup", "insert", "enter"} <=> ev[t] # NoEvaluation
    /\ state \in [Threads -> {"run", "suspend"}] /\ step \in [Threads -> BOOLEAN]
    /\ settled \subseteq bps /\ bps \subseteq BreakLocations
    /\ fresh \subseteq CodeObjects /\ generated \subseteq CodeObjects

Overrun(reason) == \E t \in Threads : pc[t] = "run" /\ reason \in marks[t]

\* No thread goes past a line with a breakpoint whose installation was complete
\* when it came to the line: the frame is traced, or its code calls pydevd there,
\* also for a generator that began with other breakpoints.
BreakpointsHit == ~Overrun("breakpoint")

\* A step into stops at the next line that is executed, in whatever frame.
StepsStop == ~Overrun("step")

\* A pause stops at the next line that is executed, in a frame that exists when it
\* comes, or in one that is called or resumed after it.
PausesStop == ~Overrun("pause")

\* Code that was generated is known as such, so that it is never modified again,
\* and a frame executes calls only for lines of its own function.
GeneratedOnce ==
    /\ \A t \in Threads : \A d \in 1 .. Depth(t) :
           stack[t][d].code.breaks # {} => stack[t][d].code \in generated
    /\ \A o \in fresh : extra[o].new # NoCode => o \notin generated

---------------------------------------------------------------------------
(* What comments of the code say, and the code does not do *)

\* "we can't change it as this is a generator!": a generator that began with its
\* original code is given other code when it is resumed.
GeneratorsKeepCode == \A t \in Threads : \A d \in 1 .. Depth(t) : "moved" \notin stack[t][d].doubts

\* compute_force_stay_in_untraced_mode() takes a "set(breakpoint_lines) or
\* dict(breakpoint_line->breakpoint info)": it is given None.
BreakpointsGiven == \A t \in Threads : pc[t] # "raised"

\* A pause is "to make sure it'll break as soon as possible": not in a frame that is
\* being evaluated when the pause comes.
LatePausesStop == ~Overrun("late")

\* "When breakpoints_mtime != PyDb.mtime the validity of breakpoints have to be
\* re-evaluated": not for a generator that is resumed by throw().
ThrownReevaluated == ~Overrun("thrown")

\* The same, for a frame that is being evaluated when the mtime changes.
NoBlindFrame == ~Overrun("blind")
=============================================================================

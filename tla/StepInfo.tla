------------------------------ MODULE StepInfo ------------------------------
(***************************************************************************)
(* What the two tracers of pydevd share: the files filter, and the state   *)
(* of a thread with respect to pausing and stepping (the class             *)
(* PyDBAdditionalThreadInfo).  SysMonitoring and TraceDispatch extend this *)
(* module.                                                                 *)
(*                                                                         *)
(* A frame is a record with the fields code and line; the frames of a      *)
(* thread form a sequence, the innermost one last, and a frame is named by *)
(* its place in it.                                                        *)
(***************************************************************************)
EXTENDS Integers, Sequences, FiniteSets

CONSTANTS
    Codes,              \* code objects
    Library,            \* the codes outside of the project (in_project_scope is false)
    Internal,           \* the codes of pydevd itself
    JustMyCode          \* is_files_filter_enabled

ASSUME FilterAssumption ==
    Library \subseteq Codes /\ Internal \subseteq Codes /\ JustMyCode \in BOOLEAN

None == "none"      \* pydev_step_cmd = -1
Gone == -1          \* a frame that is no longer on the stack; 0 is None
NoLocation == <<0, 0>>

Into   == {"into", "into_my"}
Over   == {"over", "over_my"}
Return == {"return", "return_my"}
Steps  == Into \cup Over \cup Return \cup {"smart"}
ForceCheckProjectScope(step) == step \in {"into_my", "over_my", "return_my"}

\* apply_files_filter(): is a code filtered out
ApplyFilesFilter(c, force) == c \in Internal \/ (c \in Library /\ (JustMyCode \/ force))
\* a step of this kind does not stop in c
Excluded(c, step) == ApplyFilesFilter(c, ForceCheckProjectScope(step))

NewInfo == [state |-> "run", step |-> None, stop |-> 0, target |-> NoLocation,
            initial |-> NoLocation, wait |-> FALSE]

\* _is_stepping().  Its second case counts a thread that waits, not one that
\* was asked to stop and has not reached a line yet.
IsStepping(i) == \/ i.state = "run" /\ i.step # None
                 \/ i.state = "suspend" /\ i.wait

\* mark_thread_suspended(): the step is "into", so that it stops as soon as possible
MarkThreadSuspended(i) ==
    [i EXCEPT !.state = "suspend",
              !.step  = IF i.step = None THEN "into" ELSE i.step,
              !.stop  = IF i.step = None THEN 0 ELSE i.stop]

\* internal_run_thread().  The target of a smart step is of no use any more:
\* only a smart step reads it, and the request for one sets it.
RunThread(i) == [i EXCEPT !.step = None, !.stop = 0, !.state = "run", !.target = NoLocation]

\* internal_step_in_thread() and internal_smart_step_into()
StepInThread(i, step, target) ==
    [i EXCEPT !.step = step, !.stop = 0, !.state = "run", !.target = target]

\* the frame whose return a step return from depth d waits for: callers that
\* are filtered out are left too; 0 if there is no caller to stop in
StepReturnFrame(frames, d, step) ==
    LET filtering == JustMyCode \/ ForceCheckProjectScope(step)
        callers == {e \in 1 .. d - 1 : filtering => ~Excluded(frames[e].code, step)}
    IN  IF callers # {} THEN (CHOOSE e \in callers : \A x \in callers : x <= e) + 1
        ELSE IF filtering THEN 0 ELSE 1

\* the end of _do_wait_suspend() at depth d: the step is prepared for its frame
PrepareStep(i, frames, d) ==
    LET back == StepReturnFrame(frames, d, i.step)
    IN  CASE i.step \in Into -> [i EXCEPT !.initial = <<d, frames[d].line>>, !.stop = 0]
          [] i.step \in Over \cup {"smart"} -> [i EXCEPT !.stop = d]
          [] i.step \in Return /\ back > 0 -> [i EXCEPT !.stop = back]
          [] i.step \in Return /\ back = 0 -> RunThread(i)
          [] OTHER -> i

\* the frame at depth d has been left: references to it are of no use any more
ForgetFrame(i, d) ==
    [i EXCEPT !.stop = IF @ = d THEN Gone ELSE @,
              !.initial = IF @[1] = d THEN NoLocation ELSE @]

\* PyDBAdditionalThreadInfo, for the lines 1..lastLine and stacks of maxDepth
InfoType(lastLine, maxDepth) ==
    [state : {"run", "suspend"}, step : Steps \cup {None}, stop : Gone .. maxDepth,
     target : (Codes \X (0 .. lastLine)) \cup {NoLocation},
     initial : (0 .. maxDepth) \X (0 .. lastLine), wait : BOOLEAN]
=============================================================================

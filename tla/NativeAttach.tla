---------------------------- MODULE NativeAttach ----------------------------
(***************************************************************************)
(* DoAttach() of the library that is injected into a process on Windows:   *)
(* a thread that the Python interpreter does not know of gets threading    *)
(* initialized, so that there is a GIL to take, and then runs code.        *)
(*                                                                         *)
(* Python before 3.7 creates its GIL when the first thread is started.     *)
(* Until then nothing keeps a second thread out of the interpreter, so     *)
(* DoAttach() asks the main thread, by a pending call, to create it; if    *)
(* the main thread does not get to it in time, DoAttach() suspends every   *)
(* thread and creates the GIL itself if no thread is executing Python.     *)
(*                                                                         *)
(* The process (interpreter, heap, operating system) is external: its      *)
(* threads execute Python, native code, heap functions or                  *)
(* Py_AddPendingCall(), and start and end.                                 *)
(***************************************************************************)
EXTENDS Integers, FiniteSets

CONSTANTS
    Main,           \* the main thread, the only one that runs pending calls
    Others,         \* the other threads that may be started
    Codes,          \* pieces of code to run
    MaxAttempts     \* bound of the loop: 20

Calls == 1 .. Cardinality(Codes)
Threads == {Main} \cup Others
None == "none"
Att == "attach"     \* the injected thread

ASSUME AttachAssumption ==
    /\ Main \notin Others /\ {None, Att} \cap Threads = {}
    /\ IsFiniteSet(Codes) /\ {None, Att} \cap Codes = {}
    /\ MaxAttempts \in Nat \ {0}

VARIABLES
    where,      \* thread -> what it executes
    inited,     \* PyEval_ThreadsInitialized(): there is a GIL
    current,    \* _PyThreadState_Current; once there is a GIL, its holder
    heap,       \* the thread inside of a heap function
    suspended,  \* threads suspended by SuspendThread()
    queued,     \* Py_AddPendingCall(): for which calls AttachCallback is to be called
    callback,   \* where AttachCallback is, and for which call of DoAttach()
    info,       \* call -> InitializeThreadingInfo: allocated, initedEvent, set, completed, cs
    pc,         \* where DoAttach() is
    job,        \* the code it is to run
    call,       \* the number of the call: each has its own InitializeThreadingInfo
    completed,  \* its local variable
    attempts,
    todo,       \* the rest of the snapshot of threads
    again,      \* suspended: some thread was suspended in this pass
    threadMap,  \* suspendedThreads
    code        \* job -> what DoAttach() returned

process == <<where, inited, current, heap>>
search == <<attempts, todo, again, threadMap>>
attachVars == <<process, suspended, queued, callback, info, pc, job, call, completed, search, code>>

NoInfo == [alive |-> FALSE, event |-> FALSE, set |-> FALSE, completed |-> FALSE, cs |-> None]

Unknown == -1
Refused == 2        \* or 1, 4, 5, or a negative number
NoCall == [at |-> "none", of |-> 0]

Alive(t) == where[t] \notin {"unborn", "gone"}
Runs(t) == t \notin suspended

AttachInit ==
    /\ where = [t \in Threads |-> IF t = Main THEN "python" ELSE "unborn"]
    /\ inited = FALSE
    /\ current = Main
    /\ heap = None
    /\ suspended = {}
    /\ queued = {}
    /\ callback = NoCall
    /\ info = [c \in Calls |-> NoInfo]
    /\ pc = "idle" /\ job = None /\ call = 0
    /\ completed = FALSE
    /\ attempts = 0 /\ todo = {} /\ again = FALSE /\ threadMap = {}
    /\ code = [c \in Codes |-> Unknown]

---------------------------------------------------------------------------
(* The threads of the process *)

\* Py_BEGIN_ALLOW_THREADS
EnterNative(t) ==
    /\ Runs(t) /\ where[t] = "python"
    /\ where' = [where EXCEPT ![t] = "native"]
    /\ current' = None
    /\ UNCHANGED <<inited, heap>>

\* Py_END_ALLOW_THREADS or PyGILState_Ensure(): takes the GIL; without one there
\* is no thread but the main thread
LeaveNative(t) ==
    /\ Runs(t) /\ where[t] = "native"
    /\ IF inited THEN current = None ELSE t = Main
    /\ where' = [where EXCEPT ![t] = "python"]
    /\ current' = t
    /\ UNCHANGED <<inited, heap>>

EnterHeap(t) ==
    /\ Runs(t) /\ where[t] = "native" /\ heap = None
    /\ where' = [where EXCEPT ![t] = "heap"]
    /\ heap' = t
    /\ UNCHANGED <<inited, current>>

LeaveHeap(t) ==
    /\ Runs(t) /\ where[t] = "heap"
    /\ where' = [where EXCEPT ![t] = "native"]
    /\ heap' = None
    /\ UNCHANGED <<inited, current>>

EnterAddPendingCall(t) ==
    /\ Runs(t) /\ where[t] = "native" /\ \A u \in Threads : where[u] # "adding"
    /\ where' = [where EXCEPT ![t] = "adding"]
    /\ UNCHANGED <<inited, current, heap>>

LeaveAddPendingCall(t) ==
    /\ Runs(t) /\ where[t] = "adding"
    /\ where' = [where EXCEPT ![t] = "native"]
    /\ UNCHANGED <<inited, current, heap>>

\* the first thread that Python starts initializes threading
StartPython(t, u) ==
    /\ Runs(t) /\ where[t] = "python" /\ where[u] = "unborn"
    /\ where' = [where EXCEPT ![u] = "native"]
    /\ inited' = TRUE
    /\ UNCHANGED <<current, heap>>

StartNative(t, u) ==
    /\ Runs(t) /\ where[t] \in {"python", "native"} /\ where[u] = "unborn"
    /\ where' = [where EXCEPT ![u] = "native"]
    /\ UNCHANGED <<inited, current, heap>>

Exit(t) ==
    /\ Runs(t) /\ where[t] = "native" /\ t # Main
    /\ where' = [where EXCEPT ![t] = "gone"]
    /\ UNCHANGED <<inited, current, heap>>

Execute ==
    /\ \E t \in Threads :
           \/ EnterNative(t) \/ LeaveNative(t)
           \/ EnterHeap(t) \/ LeaveHeap(t)
           \/ EnterAddPendingCall(t) \/ LeaveAddPendingCall(t)
           \/ \E u \in Threads : StartPython(t, u) \/ StartNative(t, u)
           \/ Exit(t)
    /\ UNCHANGED <<suspended, queued, callback, info, pc, job, call, completed, search, code>>

---------------------------------------------------------------------------
(* AttachCallback(), called by the main thread between two bytecodes *)

CallbackStart ==
    /\ Runs(Main) /\ where[Main] = "python"
    /\ where' = [where EXCEPT ![Main] = "callback"]
    /\ \E c \in queued : /\ queued' = queued \ {c}
                         /\ callback' = [at |-> "init", of |-> c]
    /\ UNCHANGED <<inited, current, heap, suspended, info, pc, job, call, completed, search, code>>

\* PyEval_InitThreads(), and the import of threading
CallbackInit ==
    /\ Runs(Main) /\ callback.at = "init"
    /\ inited' = TRUE
    /\ callback' = [callback EXCEPT !.at = "enter"]
    /\ UNCHANGED <<where, current, heap, suspended, queued, info, pc, job, call, completed,
                   search, code>>

CallbackComplete ==
    LET c == callback.of
    IN  /\ Runs(Main) /\ callback.at = "enter" /\ info[c].cs = None
        /\ info' = [info EXCEPT ![c].cs = Main, ![c].completed = TRUE]
        /\ callback' = [callback EXCEPT !.at = IF info[c].event THEN "set" ELSE "leave"]
        /\ UNCHANGED <<process, suspended, queued, pc, job, call, completed, search, code>>

CallbackSetEvent ==
    /\ Runs(Main) /\ callback.at = "set"
    /\ info' = [info EXCEPT ![callback.of].set = TRUE]
    /\ callback' = [callback EXCEPT !.at = "leave"]
    /\ UNCHANGED <<process, suspended, queued, pc, job, call, completed, search, code>>

CallbackLeave ==
    /\ Runs(Main) /\ callback.at = "leave"
    /\ info' = [info EXCEPT ![callback.of].cs = None]
    /\ callback' = NoCall
    /\ where' = [where EXCEPT ![Main] = "python"]
    /\ UNCHANGED <<inited, current, heap, suspended, queued, pc, job, call, completed, search,
                   code>>

AttachCallback ==
    \/ CallbackStart \/ CallbackInit \/ CallbackComplete \/ CallbackSetEvent \/ CallbackLeave

---------------------------------------------------------------------------
(* DoAttach() *)

\* the call, by RunCodeInMemoryInAttachedDll()
Begin(c) ==
    /\ pc' = "check" /\ job' = c /\ call' = call + 1
    /\ UNCHANGED <<process, suspended, queued, callback, info, completed, search, code>>

\* no interpreter, one of another version, or not all of the functions
CheckFails ==
    /\ pc = "check"
    /\ pc' = "done" /\ code' = [code EXCEPT ![job] = Refused]
    /\ UNCHANGED <<process, suspended, queued, callback, info, job, call, completed, search>>

\* Py_AddPendingCall() fails if the queue is full, which nobody looks at
AddPendingCall(added) ==
    /\ pc = "check"
    /\ info' = [info EXCEPT ![call] = [NoInfo EXCEPT !.alive = TRUE, !.event = TRUE]]
    /\ queued' = IF added THEN queued \cup {call} ELSE queued
    /\ pc' = "wait"
    /\ UNCHANGED <<process, suspended, callback, job, call, completed, search, code>>

\* the event is set, or five seconds have passed
WaitForEvent(timeout) ==
    /\ pc = "wait" /\ (timeout \/ info[call].set)
    /\ pc' = "enter"
    /\ UNCHANGED <<process, suspended, queued, callback, info, job, call, completed, search, code>>

EnterCriticalSection ==
    /\ pc = "enter" /\ info[call].cs = None
    /\ info' = [info EXCEPT ![call].cs = Att]
    /\ pc' = "close"
    /\ UNCHANGED <<process, suspended, queued, callback, job, call, completed, search, code>>

CloseEvent ==
    /\ pc = "close"
    /\ info' = [info EXCEPT ![call].event = FALSE, ![call].cs = None]
    /\ completed' = info[call].completed
    /\ pc' = "free"
    /\ UNCHANGED <<process, suspended, queued, callback, job, call, search, code>>

\* mutant: there is no late callback
FreeAlways ==
    /\ pc = "free"
    /\ info' = [info EXCEPT ![call] = NoInfo]
    /\ pc' = "loop"
    /\ UNCHANGED <<process, suspended, queued, callback, job, call, completed, search, code>>

\* a structure that the callback may still need is never freed
FreeInfo ==
    /\ pc = "free"
    /\ info' = IF completed THEN [info EXCEPT ![call] = NoInfo] ELSE info
    /\ pc' = "loop"
    /\ UNCHANGED <<process, suspended, queued, callback, job, call, completed, search, code>>

\* the loop; its local variables are of no use after it
Attempt ==
    /\ pc = "loop" /\ ~inited /\ attempts < MaxAttempts
    /\ pc' = "snapshot"
    /\ UNCHANGED <<process, suspended, queued, callback, info, job, call, completed, search, code>>

LeaveLoop ==
    /\ pc = "loop" /\ (inited \/ attempts = MaxAttempts)
    /\ pc' = "final"
    /\ completed' = FALSE /\ attempts' = 0 /\ todo' = {} /\ again' = FALSE
    /\ UNCHANGED <<process, suspended, queued, callback, info, job, call, threadMap, code>>

\* SuspendThreads(): CreateToolhelp32Snapshot()
Snapshot ==
    /\ pc = "snapshot"
    /\ todo' = {t \in Threads : Alive(t)}
    /\ again' = FALSE
    /\ pc' = "suspend"
    /\ UNCHANGED <<process, suspended, queued, callback, info, job, call, completed, attempts,
                   threadMap, code>>

\* The test for a thread in Py_AddPendingCall() compares the address it executes
\* with the first bytes of that function, read as an address.
FirstBytes(function) == "elsewhere"
AddingPendingCall(t) == where[t] = FirstBytes("adding")

\* the rest of a snapshot is of no interest once threading is initialized
Rest(t) == IF inited THEN {} ELSE todo \ {t}

SkipThread(t) ==
    /\ pc = "suspend" /\ t \in todo /\ (t \in threadMap \/ ~Alive(t))
    /\ todo' = Rest(t)
    /\ UNCHANGED <<process, suspended, queued, callback, info, pc, job, call, completed, attempts,
                   again, threadMap, code>>

SuspendThread(t) ==
    /\ pc = "suspend" /\ t \in todo \ threadMap /\ Alive(t)
    /\ suspended' = IF AddingPendingCall(t) THEN suspended ELSE suspended \cup {t}
    /\ threadMap' = IF AddingPendingCall(t) THEN threadMap ELSE threadMap \cup {t}
    /\ again' = TRUE
    /\ todo' = Rest(t)
    /\ UNCHANGED <<process, queued, callback, info, pc, job, call, completed, attempts, code>>

\* until a pass finds no thread to suspend
EndPass ==
    /\ pc = "suspend" /\ todo = {}
    /\ pc' = IF again /\ ~inited THEN "snapshot" ELSE "current"
    /\ UNCHANGED <<process, suspended, queued, callback, info, job, call, completed, search, code>>

\* mutant: does not look whether a thread executes Python
CheckInitedOnly ==
    /\ pc = "current"
    /\ pc' = IF ~inited THEN "new" ELSE "resume"
    /\ UNCHANGED <<process, suspended, queued, callback, info, job, call, completed, search, code>>

CheckCurrent ==
    /\ pc = "current"
    /\ pc' = IF ~inited /\ current = None THEN "new" ELSE "resume"
    /\ UNCHANGED <<process, suspended, queued, callback, info, job, call, completed, search, code>>

\* PyThreadState_New() and PyGILState_Ensure(): both allocate memory
GilEnsure ==
    /\ pc = "new" /\ heap = None
    /\ current' = Att
    /\ pc' = "init"
    /\ UNCHANGED <<where, inited, heap, suspended, queued, callback, info, job, call, completed,
                   search, code>>

InitThreads ==
    /\ pc = "init"
    /\ inited' = TRUE
    /\ pc' = "release"
    /\ UNCHANGED <<where, current, heap, suspended, queued, callback, info, job, call, completed,
                   search, code>>

GilRelease ==
    /\ pc = "release"
    /\ current' = None
    /\ pc' = "resume"
    /\ UNCHANGED <<where, inited, heap, suspended, queued, callback, info, job, call, completed,
                   search, code>>

\* mutant: only if another attempt is needed
ResumeToRetry ==
    /\ pc = "resume"
    /\ suspended' = IF inited THEN suspended ELSE suspended \ threadMap
    /\ threadMap' = {}
    /\ attempts' = attempts + 1
    /\ pc' = "loop"
    /\ UNCHANGED <<process, queued, callback, info, job, call, completed, todo, again, code>>

ResumeThreads ==
    /\ pc = "resume"
    /\ suspended' = suspended \ threadMap
    /\ threadMap' = {}
    /\ attempts' = attempts + 1
    /\ pc' = "loop"
    /\ UNCHANGED <<process, queued, callback, info, job, call, completed, todo, again, code>>

GiveUp ==
    /\ pc = "final" /\ ~inited
    /\ pc' = "done" /\ code' = [code EXCEPT ![job] = 8]
    /\ UNCHANGED <<process, suspended, queued, callback, info, job, call, completed, search>>

TakeGil ==
    /\ pc = "final" /\ inited /\ current = None
    /\ current' = Att
    /\ pc' = "run"
    /\ UNCHANGED <<where, inited, heap, suspended, queued, callback, info, job, call, completed,
                   search, code>>

RunSimpleString ==
    /\ pc = "run"
    /\ current' = None
    /\ pc' = "done" /\ code' = [code EXCEPT ![job] = 0]
    /\ UNCHANGED <<where, inited, heap, suspended, queued, callback, info, job, call, completed,
                   search>>

DoAttach ==
    \/ CheckFails
    \/ \E added \in BOOLEAN : AddPendingCall(added)
    \/ \E timeout \in BOOLEAN : WaitForEvent(timeout)
    \/ EnterCriticalSection \/ CloseEvent \/ FreeInfo
    \/ Attempt \/ LeaveLoop
    \/ Snapshot \/ EndPass
    \/ \E t \in Threads : SkipThread(t) \/ SuspendThread(t)
    \/ CheckCurrent \/ GilEnsure \/ InitThreads \/ GilRelease \/ ResumeThreads
    \/ GiveUp \/ TakeGil \/ RunSimpleString

---------------------------------------------------------------------------
(* Properties *)

\* Type correctness: threads, pending calls and DoAttach() are in states that exist,
\* and once there is a GIL a thread executes Python only as its holder.
AttachTypeOK ==
    /\ where \in [Threads -> {"unborn", "python", "native", "heap", "adding", "callback", "gone"}]
    /\ current \in Threads \cup {None, Att}
    /\ \A t \in Threads : inited /\ where[t] \in {"python", "callback"} => current = t
    /\ heap \in Threads \cup {None}
    /\ suspended \subseteq Threads /\ threadMap \subseteq Threads /\ todo \subseteq Threads
    /\ callback.at \in {"none", "init", "enter", "set", "leave"}
    /\ where[Main] = "callback" <=> callback # NoCall
    /\ queued \subseteq Calls /\ \A c \in Calls : info[c].cs \in {None, Main, Att}
    /\ attempts \in 0 .. MaxAttempts
    /\ call \in 0 .. Cardinality(Codes) /\ job \in Codes \cup {None}
    /\ code \in [Codes -> {Unknown, 0, 8, Refused}]

\* AttachCallback may be called at any time after the timeout: what it uses is
\* still there, and the event it sets has not been closed.
CallbackSafe ==
    /\ \A c \in queued : info[c].alive
    /\ callback # NoCall => info[callback.of].alive
    /\ callback.at = "set" => info[callback.of].event

\* Never do two threads execute Python at a time, whoever initializes threading
\* and whatever the others do meanwhile.
OneThreadInPython ==
    LET inPython == {t \in Threads : where[t] \in {"python", "callback"}}
                        \cup (IF pc \in {"init", "release", "run"} THEN {Att} ELSE {})
    IN  Cardinality(inPython) <= 1

\* Every thread that DoAttach() suspended runs again when it waits for the GIL or
\* is done, however the attempt ended.
NobodyLeftSuspended ==
    /\ pc \in {"idle", "check", "wait", "enter", "loop", "final", "run", "done"} => suspended = {}
    /\ threadMap = suspended

\* The attempt to initialize threading cannot go on: what it needs is held by a
\* thread that it has suspended.
HeapDeadlock == pc = "new" /\ heap \in suspended

---------------------------------------------------------------------------
(* What comments of the code say, and the code does not do *)

\* "if we suspend a thread while in a heap function then we could deadlock here.
\* We need to be VERY careful about what we do while the threads are suspended."
NoHeapDeadlock == ~HeapDeadlock

\* "Suspends all threads ensuring that they are not currently in a call to
\* Py_AddPendingCall."
NotAddingPendingCall ==
    pc \in {"current", "new", "init"} /\ ~inited => \A t \in suspended : where[t] # "adding"
=============================================================================

--------------------------- MODULE AttachInjection ---------------------------
(***************************************************************************)
(* Attaching to a process by its id, on Windows.  A process that wants to  *)
(* attach (run_python_code_windows) takes a system-wide mutex, writes the  *)
(* code to named shared memory, and injects two libraries by inject_dll:   *)
(* the second one starts a thread in the target that reads the code, has   *)
(* DoAttach() of NativeAttach run it, sets a named event and unloads the   *)
(* library.                                                                *)
(*                                                                         *)
(* An attaching process and its piece of code have the same name.  Named   *)
(* objects live as long as someone has a handle.                           *)
(***************************************************************************)
EXTENDS NativeAttach

CONSTANTS Timeouts      \* whether waiting may time out

Injectors == Codes

ASSUME InjectionAssumption == Timeouts \in BOOLEAN

VARIABLES
    mutex,      \* the process that holds the mutex
    step,       \* where a process is
    result,     \* what it reports: it "finished", a "timeout", or it "failed"
    mapping,    \* named shared memory: who has a handle, and what was written
    event,      \* named event: who has a handle, and whether it is set
    path,       \* processes whose memory in the target, with the path of a library, is there
    loading,    \* threads in the target that are in LoadLibrary()
    attachDll,  \* the library with DoAttach(), which stays: "none", "loading", "loaded"
    loaded,     \* reference count of the library that runs the code
    runners,    \* threads in the target that are in RunCodeInThread()
    runner,     \* where it is
    owner,      \* history: the process whose LoadLibrary() started it
    skipped,    \* history: processes whose thread did not get to DoAttach()
    gaveUp      \* history: processes that went on before their attach was over

injection == <<mutex, step, result, path, loading, gaveUp, attachDll>>
thread == <<runners, runner, owner, skipped>>
vars == <<attachVars, injection, mapping, event, loaded, thread>>

NoMapping == [handles |-> {}, content |-> None]
NoEvent == [handles |-> {}, set |-> FALSE]

Init ==
    /\ AttachInit
    /\ mutex = None
    /\ step = [i \in Injectors |-> "idle"]
    /\ result = [i \in Injectors |-> None]
    /\ mapping = NoMapping
    /\ event = NoEvent
    /\ path = {} /\ loading = {}
    /\ loaded = 0
    /\ runners = 0
    /\ runner = "none" /\ owner = None /\ skipped = {}
    /\ attachDll = "none"
    /\ gaveUp = {}

Go(i, s) == step' = [step EXCEPT ![i] = s]

---------------------------------------------------------------------------
(* run_python_code_windows() *)

\* _acquire_mutex(): gives up after ten seconds
AcquireMutex(i) ==
    /\ step[i] = "idle" /\ mutex = None
    /\ mutex' = i
    /\ Go(i, "write")
    /\ UNCHANGED <<attachVars, result, path, loading, gaveUp, attachDll, mapping, event, loaded, thread>>

MutexTimeout(i) ==
    /\ step[i] = "idle" /\ mutex # None /\ Timeouts
    /\ Go(i, "done") /\ result' = [result EXCEPT ![i] = "failed"]
    /\ UNCHANGED <<attachVars, mutex, path, loading, gaveUp, attachDll, mapping, event, loaded, thread>>

\* CreateFileMapping() opens memory of that name if there is some
WriteToSharedMemory(i) ==
    /\ step[i] = "write"
    /\ mapping' = [handles |-> mapping.handles \cup {i}, content |-> i]
    /\ Go(i, "event")
    /\ UNCHANGED <<attachVars, mutex, result, path, loading, gaveUp, attachDll, event, loaded, thread>>

\* the first injection loads the library that stays - or does not: inject_dll
\* succeeds whatever LoadLibraryA() returned; then CreateEvent(), which opens the
\* event of that name if there is one
InjectAttachDll(i) ==
    /\ step[i] = "event"
    /\ attachDll' \in {attachDll, "loaded"}
    /\ event' = [event EXCEPT !.handles = @ \cup {i}]
    /\ Go(i, "inject")
    /\ UNCHANGED <<attachVars, mutex, result, path, loading, gaveUp, mapping, loaded, thread>>

\* the first one may have timed out, with LoadLibraryA() still to come
InjectionFails(i) ==
    /\ step[i] \in {"event", "inject"}
    /\ Go(i, "cleanup") /\ result' = [result EXCEPT ![i] = "failed"]
    /\ attachDll' \in IF step[i] = "event" /\ attachDll = "none" /\ Timeouts
                      THEN {"none", "loading"} ELSE {attachDll}
    /\ UNCHANGED <<attachVars, mutex, path, loading, gaveUp, mapping, event, loaded, thread>>

\* inject_dll: memory for the path, and a remote thread that calls LoadLibrary()
InjectRunCode(i) ==
    /\ step[i] = "inject"
    /\ path' = path \cup {i}
    /\ loading' = loading \cup {i}
    /\ Go(i, "load")
    /\ UNCHANGED <<attachVars, mutex, result, gaveUp, attachDll, mapping, event, loaded, thread>>

\* mutant: the memory is released
VirtualFreed(i) == path \ {i}

\* VirtualFreeEx(MEM_RELEASE) with a size other than 0 fails: the memory stays
VirtualFree(i) == path

Loaded(i) ==
    /\ step[i] = "load" /\ i \notin loading
    /\ path' = VirtualFree(i)
    /\ Go(i, "wait")
    /\ UNCHANGED <<attachVars, mutex, result, loading, gaveUp, attachDll, mapping, event, loaded, thread>>

\* five seconds; check_call() raises an exception
LoadTimeout(i) ==
    /\ step[i] = "load" /\ i \in loading /\ Timeouts
    /\ path' = VirtualFree(i)
    /\ Go(i, "cleanup") /\ result' = [result EXCEPT ![i] = "failed"]
    /\ gaveUp' = gaveUp \cup {i}
    /\ UNCHANGED <<attachVars, mutex, loading, attachDll, mapping, event, loaded, thread>>

\* wait_for_event_set(15): the event is reset by the wait
EventSet(i) ==
    /\ step[i] = "wait" /\ event.set
    /\ event' = [event EXCEPT !.set = FALSE]
    /\ Go(i, "cleanup") /\ result' = [result EXCEPT ![i] = "finished"]
    /\ UNCHANGED <<attachVars, mutex, path, loading, gaveUp, attachDll, mapping, loaded, thread>>

EventTimeout(i) ==
    /\ step[i] = "wait" /\ ~event.set /\ Timeouts
    /\ Go(i, "cleanup") /\ result' = [result EXCEPT ![i] = "timeout"]
    /\ gaveUp' = gaveUp \cup {i}
    /\ UNCHANGED <<attachVars, mutex, path, loading, attachDll, mapping, event, loaded, thread>>

Close(object, none, who) ==
    IF object.handles \subseteq {who} THEN none
    ELSE [object EXCEPT !.handles = @ \ {who}]

\* CloseHandle() of the event, the shared memory and the mutex
Cleanup(i) ==
    /\ step[i] = "cleanup"
    /\ event' = Close(event, NoEvent, i)
    /\ mapping' = Close(mapping, NoMapping, i)
    /\ mutex' = None
    /\ Go(i, "done")
    /\ UNCHANGED <<attachVars, result, path, loading, gaveUp, attachDll, loaded, thread>>

RunPythonCode ==
    \E i \in Injectors :
        \/ AcquireMutex(i) \/ MutexTimeout(i)
        \/ WriteToSharedMemory(i) \/ InjectAttachDll(i) \/ InjectionFails(i)
        \/ InjectRunCode(i) \/ Loaded(i) \/ LoadTimeout(i)
        \/ EventSet(i) \/ EventTimeout(i) \/ Cleanup(i)

---------------------------------------------------------------------------
(* The libraries in the target *)

\* DllMain() is called with DLL_PROCESS_ATTACH for the first reference only
DllMain == loaded = 0

\* LoadLibrary() by the remote thread of i, which is not one of Threads
LoadLibrary(i) ==
    /\ i \in loading
    /\ loading' = loading \ {i}
    /\ loaded' = loaded + 1
    /\ runners' = IF DllMain THEN runners + 1 ELSE runners
    /\ runner' = IF DllMain THEN "open" ELSE runner
    /\ owner' = IF DllMain THEN i ELSE owner
    /\ UNCHANGED <<attachVars, mutex, step, result, mapping, event, path, gaveUp, attachDll,
                   skipped>>

\* it may fail, which inject_dll does not look at
LoadLibraryFails(i) ==
    /\ i \in loading
    /\ loading' = loading \ {i}
    /\ UNCHANGED <<attachVars, mutex, step, result, mapping, event, path, gaveUp, attachDll,
                   loaded, thread>>

\* the remote thread of a first injection that timed out
AttachDllLoads ==
    /\ attachDll = "loading" /\ attachDll' \in {"none", "loaded"}
    /\ UNCHANGED <<attachVars, mutex, step, result, mapping, event, path, loading, gaveUp,
                   loaded, thread>>

\* RunCodeInMemoryInAttachedDll(): the code is copied, then DoAttach() is called
OpenSharedMemory ==
    /\ runner = "open" /\ attachDll = "loaded" /\ mapping.handles # {}
    /\ mapping' = [mapping EXCEPT !.handles = @ \cup {Att}]
    /\ Begin(mapping.content)
    /\ runner' = "attach"
    /\ UNCHANGED <<injection, event, loaded, runners, owner, skipped>>

\* GetModuleHandle() or GetProcAddress() fails (900, 901), or OpenFileMapping() or
\* MapViewOfFile() does: the thread returns without the code having been run
CannotRun ==
    /\ runner = "open"
    /\ runner' = "notify"
    /\ skipped' = skipped \cup {owner}
    /\ UNCHANGED <<attachVars, injection, mapping, event, loaded, runners, owner>>

\* mutant: before the code has been run
NotifyEarly ==
    /\ runner \in {"open", "notify"}
    /\ event' = IF event.handles = {} THEN NoEvent ELSE [event EXCEPT !.set = TRUE]
    /\ runner' = IF runner = "open" THEN "open" ELSE "free"
    /\ UNCHANGED <<attachVars, injection, mapping, loaded, runners, owner, skipped>>

AttachReturns ==
    /\ runner = "attach" /\ pc = "done"
    /\ mapping' = Close(mapping, NoMapping, Att)
    /\ pc' = "idle" /\ job' = None
    /\ runner' = "notify"
    /\ UNCHANGED <<process, suspended, queued, callback, info, call, completed, search, code,
                   injection, event, loaded, runners, owner, skipped>>

\* ~NotificationHelper(), whether or not the code has been run: an event that
\* nobody else has a handle of is gone again
Notify ==
    /\ runner = "notify"
    /\ event' = IF event.handles = {} THEN NoEvent ELSE [event EXCEPT !.set = TRUE]
    /\ runner' = "free"
    /\ UNCHANGED <<attachVars, injection, mapping, loaded, runners, owner, skipped>>

FreeLibraryAndExitThread ==
    /\ runner = "free"
    /\ loaded' = loaded - 1
    /\ runners' = runners - 1
    /\ runner' = "none" /\ owner' = None
    /\ UNCHANGED <<attachVars, injection, mapping, event, skipped>>

RunCodeInThread ==
    \/ \E i \in Injectors : LoadLibrary(i) \/ LoadLibraryFails(i)
    \/ AttachDllLoads
    \/ OpenSharedMemory \/ CannotRun \/ AttachReturns \/ Notify \/ FreeLibraryAndExitThread

Target ==
    /\ Execute \/ AttachCallback \/ DoAttach
    /\ UNCHANGED <<injection, mapping, event, loaded, thread>>

Next == RunPythonCode \/ RunCodeInThread \/ Target

Spec == Init /\ [][Next]_vars

---------------------------------------------------------------------------
(* Fairness: the injected thread and the callback go on when they can.  A *)
(* thread gives up the GIL every few milliseconds, and whoever waits for   *)
(* it gets it at some time.  A thread that runs leaves a heap function.    *)
(* Nothing is assumed of what else the program does.                       *)
OfTarget(A) == A /\ UNCHANGED <<injection, mapping, event, loaded, thread>>
Fairness ==
    /\ WF_vars(RunCodeInThread)
    /\ WF_vars(OfTarget(AttachCallback))
    /\ WF_vars(OfTarget(DoAttach))
    /\ SF_vars(OfTarget(TakeGil))
    /\ \A t \in Threads :
           WF_vars(OfTarget(/\ EnterNative(t) \/ LeaveHeap(t)
                            /\ UNCHANGED <<suspended, queued, callback, info, pc, job, call,
                                           completed, search, code>>))

FairSpec == Spec /\ Fairness

---------------------------------------------------------------------------
(* Properties *)

\* Type correctness: as for NativeAttach, and a process has the mutex exactly while
\* it attaches.
TypeOK ==
    /\ AttachTypeOK
    /\ mutex \in Injectors \cup {None}
    /\ \A i \in Injectors : step[i] \in {"write", "event", "inject", "load", "wait", "cleanup"}
                            <=> mutex = i
    /\ result \in [Injectors -> {None, "finished", "timeout", "failed"}]
    /\ mapping.handles \subseteq Injectors \cup {Att} /\ event.handles \subseteq Injectors
    /\ attachDll \in {"none", "loading", "loaded"}
    /\ loaded \in 0 .. Cardinality(Injectors) /\ runners \in 0 .. loaded
    /\ owner \in Injectors \cup {None} /\ skipped \subseteq Injectors /\ gaveUp \subseteq Injectors
    /\ runner = "attach" <=> pc # "idle"

\* The remote thread reads the path of the library while it is there, also after
\* inject_dll stopped waiting for it.
PathOutlivesLoad == loading \subseteq path

\* There is at most one thread in the target that runs code, although a process
\* may start to attach while the thread of an earlier one goes on.
OneRunner == runners = IF runner = "none" THEN 0 ELSE 1

\* A process that saw the event set had its own code run, or refused by DoAttach();
\* or the thread that its own injection started could not get at the code, and set
\* the event all the same; or another process had given up waiting, whose thread
\* may have set it.  There is one event, and one piece of shared memory, per target.
EventMeansOver ==
    \A i \in Injectors : result[i] = "finished" =>
        \/ code[i] # Unknown
        \/ i \in skipped
        \/ \E j \in Injectors \ {i} : j \in gaveUp

\* The thread in the target comes to an end, so that the library is unloaded,
\* unless it waits for the heap.
RunnerEnds == runner = "open" ~> (runner = "none" \/ HeapDeadlock)

---------------------------------------------------------------------------
(* What comments of the code say, and the code does not do *)

\* "if the first injection worked, go on to the second which will actually run the
\* code": a process may see the event set without its code having been run.
FinishedMeansRan == \A i \in Injectors : result[i] = "finished" => code[i] # Unknown

\* "Only one process may be attaching to a pid": the thread of a process that
\* went on after a timeout still runs.
OneAttaching == mutex # None /\ runner = "attach" => job = mutex

\* "if we don't exit this dll we won't be able to reattach later on": the second
\* reference, of a process that came while the thread ran, stays.
Unloaded == runner = "none" /\ loading = {} => loaded = 0
=============================================================================

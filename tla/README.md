# debugpy: a verification of its adapter and of its tracers

debugpy is a Debug Adapter Protocol (DAP) implementation for Python. This
directory holds TLA+ models of the parts of it that are concurrent, the TLC
configurations that check them on small instances, and TLAPS proofs of what
matters most about six of the components. File names without a path are
relative to `src/src/debugpy/`; those that begin with `pydevd` or `_pydevd` are
below `_vendored/pydevd/`. The C files of pydevd are generated by Cython from
the `.pyx` files beside them; the map of `PROJECT.json` names the lines of the C
file and, in the symbol, those of the `.pyx` file.

## 1. The system

    IDE (client) --DAP--> adapter --DAP--> debug server (pydevd, in the debuggee)
                             |                    ^
                             +--DAP--> launcher --+ starts the debuggee

The adapter is one process with many threads. It accepts clients on one port
and debug servers on another; each client connection is a *session*, in which
the adapter relays between the client, a launcher (for "launch") and a server.

The debug server runs inside the debuggee. Its trace functions, one set for each
way in which the interpreter can be asked for events, decide for every call and
line whether the thread stops; a thread of its own handles the client's
commands, and changes what they read. On Windows a server gets into a running
process by the injection of a library.

| Component | State | Operations | Hard because | Correct when |
|---|---|---|---|---|
| message channel, `common/messaging.py` | `_sent_requests`, `_handler_queue`, `_handler_thread`, `_closed`, `OutgoingRequest.response` and `_response_handlers` | send, wait, register a callback, close; parse, handle | parser thread, handler thread (which ends and is started again) and any number of users share one lock and one condition | every request completes once, every callback runs once, handlers never overlap and keep the order of arrival, shutdown ends |
| server registry, `adapter/servers.py` | `_connections`, the Event `_connections_changed`, `Connection.server`, `Server` | accept, register, wait for a connection, attach, detach, disconnect, kill | accept thread, one handler thread per server, one per client and the main thread meet under two locks and one Event that has several waiters | no connection is registered for ever, a server belongs to one session, the adapter exits |
| debug session, `adapter/sessions.py`, `components.py` | `Session.lock`, `is_finalizing`, its three components | `wait_for`, `finalize` | `finalize` is entered by any of three threads and releases the lock inside | one answer per request, one "terminated", nothing after it, the session ends |
| client, `adapter/clients.py` | `start_request`, `has_started`, `_deferred_events`, `known_subprocesses` | start, configure, delegate, terminate, disconnect, defer events | events arrive from two threads before the start is answered | events follow the start response, in order |
| launcher component, `adapter/launchers.py` | `pid`, `exit_code`, `is_connected` | spawn, handle the launcher's events, terminate | three waits with timeouts, each racing the process | see session |
| launcher process, `launcher/*` | the debuggee, two capture threads, wait-on-exit | spawn, capture, kill, report | output, exit and the connection end in any order | output before "exited" before "terminated" |
| sys.monitoring callbacks, `_pydevd_sys_monitoring_cython.c` | local and disabled events, `FuncCodeInfo`, `_infos_stepping` | start, line, return, unwind, raise; `update_monitor_events`, `restart_events` | a callback acts on what it read, and returns DISABLE, while the client's thread changes breakpoints and re-enables events | breakpoints, pauses and steps stop at the first line they have to |
| trace functions, `pydevd_cython.c` | `f_trace`, `global_cache_skips`, `global_cache_frame_skips` | `ThreadTracer`, `PyDBFrame.trace_dispatch`, `trace_exception`, `handle_exception` | four caches that all threads share, filled by trace functions and cleared by commands | the same, and caches agree with the breakpoints |
| frame evaluator, `pydevd_frame_evaluator.c` | code objects with inserted calls, `FuncCodeInfo`, `_cache` | `get_bytecode_while_frame_eval`, `get_func_code_info`, `generate_code_with_breakpoints` | generators are evaluated again in the middle of modified code, with other breakpoints | the same, although most frames are not traced at all |
| exception breakpoints | filters, the exception in flight, what was noted of it | events of an exception in each frame, `setExceptionBreakpoints` | one exception gives many events, which must make one report of the right kind | reported if the filters say so, once |
| injection on Windows, `pydevd_attach_to_process/` | mutex, shared memory, event, the target's threads and GIL | `run_python_code_windows`, `inject_dll`, `RunCodeInThread`, `DoAttach` | three processes' worth of threads, timeouts after which the other side goes on, threads suspended at any point | one thread in Python, none left suspended, memory outlives its readers |
| adapter main thread, `adapter/__main__.py` | - | wait for servers, wait for sessions, exit | see registry | exits, and not too early |
| listening sockets, `common/sockets.py` | listener | `serve`, one connection at a time | - | - |
| framing, `common/messaging.py` (JsonIOStream) | buffers | read and write a message | partial reads | - |
| validators, `common/json.py` | none | pure functions | boundaries | agree with their documentation |
| in-process API, `server/api.py`; command line, `server/cli.py` | flags | `listen`, `connect`, parse | - | - |

Components talk by DAP messages over channels, by direct calls under
`Session.lock` (a handler of one component calls the others), and by the
registry's Event. `PROJECT.json` lists every component with what is modelled of
it, and every hazard with the line at which it bites.

## 2. The modules

| Module | Stands for |
|---|---|
| `MessageChannel` | one end of a DAP connection |
| `RequestContract` | what that end promises to those who send requests: the abstract specification |
| `MessageChannelProofs` | theorems about `MessageChannel`: its threads and its shutdown, order, callbacks, and that it implements `RequestContract` |
| `ServerRegistry` | connections, sessions that look for them, the main thread |
| `DebugSession` | one session: client, launcher, server and `finalize()` |
| `StepInfo` | what the tracers share: the files filter and the step state of a thread |
| `SysMonitoring` | extends `StepInfo`: breakpoints, pauses and steps with sys.monitoring (CPython 3.12) |
| `TraceDispatch` | extends `StepInfo`: the same with sys.settrace |
| `FrameEvaluator` | breakpoints, pauses and steps into with frame evaluation (up to CPython 3.10) |
| `ExceptionStops` | extends `StepInfo`: exception breakpoints, on either interpreter |
| `NativeAttach` | `DoAttach()` in the process that is attached to |
| `AttachInjection` | extends `NativeAttach`: the processes that attach, and the injected thread |
| `MC...` | the instances that TLC checks |
| `ServerRegistryProofs`, `DebugSessionProofs`, `SysMonitoringProofs`, `TraceDispatchProofs`, `FrameEvaluatorProofs`, `ExceptionStopsProofs`, `AttachInjectionProofs` | theorems about the modules they are named after (the last one about `NativeAttach` too) |

Every module follows the same rule about atomicity: a region of code under a
lock in which nothing blocks is one step; code outside of a lock that touches
shared state is a step of its own, and so is every point at which a lock is
released by a wait.

### MessageChannel

Threads are the parser (`pst`, `pmsg`), the successive handler threads (`hpc`,
`hclosed`, `batch`) and users (`tpc`, `treq`); a handler thread also acts as a
user while a handler runs on it (`CanCall`). `waitset` is the wait set of the
condition `_handlers_enqueued`, which handler threads and waiting users share.

- Senders: `TakeSeq` and `RegisterAndWrite` are the two halves of
  `_send_message`, between which other threads run; `BeginWait` and
  `WakeFromWait` are `wait_for_response`; `OnResponse`, `Close` are the methods.
- Parser: `ReadMessage`, then `ParseEventOrRequest`, `ParseInvalid`, or
  `PopRequest` followed by `SetResponse` (two lock regions), and `Drain`, the
  `except NoMoreMessages` branch that makes up the missing responses.
  It takes the requests in the order of the dict `_sent_requests`, which the
  model leaves open (`Orderings`).
- Handler thread: `HandlerTop`, `HandlerJoin`, `HandlerTake`, `HandlerWake`,
  `NextHandler`; handlers return, return NO_RESPONSE, raise, or fail in a way
  that calls `os._exit` (`exited`).
- A message is its kind and its number. "invalid" is a message that its parser
  rejects, "malformed" one that `read_json` or the check of "type" rejects. The
  latter is outside of the `try` in the code, and ends the parser thread: nobody
  drains the channel after that (`ParserDied`), so that a request in progress is
  never answered, and a handler thread that sleeps is not woken. The properties
  about waits and callbacks say "unless the parser died", and
  `ResponseSynthesized` (section 4) is what the documentation promises instead.
- The guard at `messaging.py:1454` never skips anything, since it compares bound
  methods with functions (`IsMessageHandler`); the model has what the code does.

### ServerRegistry

`lock` is `servers._lock` where it is held over several steps, which
`Connection.disconnect` and `attach_to_session` do; `slock[s]` is `Session.lock`. The Event
`_connections_changed` is `changed` and `waiter`: setting it wakes all that
sleep, and a waiter that looks clears it first.

- Accept thread: `Accept`, `Register` or `PidClash` or `HandshakeFails`,
  `FindParent`, `CheckReplacement`, `NotifyParent`, `UnblockOrphan` are
  `Connection.__init__`. A process may report no parent: `sessions.get(None)`
  then returns any session that has no server yet, since its pid is None too.
- Server's handler thread: `HandleDisconnect` picks `Server.disconnect` or
  `Connection.disconnect` as `_handle_disconnect` does; `KnownTimeout`,
  `ReplacementAwaited`, `ServerRemove`, `ServerFinalize` are the rest of it.
- Client's handler thread: `LaunchRequest` or `AttachRequest`, `NoConnection`,
  `AttachBegins`, `AttachToSession`, `StartSucceeds`, `StartFails`, `StartLost`,
  `ConfigurationDone`, `TerminateRequest`, `DisconnectRequest`, `CloseClient`.
- The attach has two steps because the channel calls the new `Server` before it
  has its `connection` (`components.py:53`, `servers.py:259`). A disconnect that is
  looked up in between raises AttributeError on the handler thread, which ends
  the adapter (`main` is "crashed"); one that `Connection` handles waits for
  `servers._lock`.
- The launcher of a "launch" session: `LauncherConnects`, `LauncherReports`,
  `LauncherLost`. The start handler waits for it with `Session.lock` released, so
  that a launcher that is lost meanwhile finalizes the session, and the handler
  attaches it to a server afterwards (`LaunchProceeds`). `overtaken` remembers
  these sessions.
- `Fin...` are the parts of `Session.finalize` that touch the registry or wait for
  the launcher; `Main...` the main thread. `process_replaced` is modelled here only.

### DebugSession

One session with one server; `wait_for_connection` finds it or times out, since
how it finds it is `ServerRegistry`'s subject. `cpc` is where the client's
handler is, `vpc` which handler the server's thread has looked up, `fin` where
`finalize` is and `finBy` the thread in it. `lq` and `vq` are the messages that
the launcher and the server have sent; `toClient` is what the client was sent.
The adapter's handlers are the actions; the launcher process and the server are
modelled by what they send. A client starts a session once: it does not try
again after it was refused.

`Faults` names what the processes around the adapter may do wrong beyond ending
at any time: "vanish" (the client is lost while its handler runs), "refuse" (the
server refuses "configurationDone"), "spawn" (the launcher cannot start the
debuggee), "late" (it connects just when the wait for it times out) and "early"
(the client sends "configurationDone" out of order). In most of them the code
ends the adapter or waits for ever; safety is checked with all of them, the
promises that need cooperation without.

### SysMonitoring and TraceDispatch

A thread executes an arbitrary program (`Call`, `Advance`, `Return_`, `Unwind`:
the interpreter, external), and each step calls pydevd or not, as pydevd has
arranged. A callback is at least two steps, since the GIL may be released
between what it reads and what it does: `Fetch` reads the breakpoints (and the
caches), the second step stops (`StopOnBreakpoint`, `StopForStep`, ...), goes on,
or has the event disabled. `cmd` is where the thread is that handles the client's
commands: adding a breakpoint is `AddBreakpoint`, the new mtime and cleared
caches, `TraceExistingFrames`, and the restart of events, with everything else
in between. `info` is `PyDBAdditionalThreadInfo`; a step is prepared when the
suspended thread wakes (`PrepareStep`).

What a thread must stop for is noted in `marks` when it comes to a line, and the
properties say that it never goes on with such a mark (`Overrun`). A breakpoint
counts once its installation is complete (`settled`). The cases in which the code
does not stop have marks of their own (the last part of each module), so that
the properties are not weakened beyond them. In `TraceDispatch`, `dirty` and
`stale` trace which cache entries come from a trace function that began before
the caches were cleared.

### FrameEvaluator

`ev[t]` is the evaluation that a thread is in, of a frame nobody else sees yet:
`EvaluateTraced`, `CodeInfoCurrent`, or `CodeInfoOutdated` followed by `Lookup`
and, if there is something to insert, `InsertPydevdBreaks`; the GIL can be
released between any two. A code object is its function with the lines at which
calls were inserted, so that "generated before" and "same code" are equality, as
for Python's code objects. `parked` is a generator that has yielded. A
FuncCodeInfo with an old mtime is never used, and the model forgets it. The
trace function is reduced to whether it stops, and a step to a step into: what
else it does is `TraceDispatch`'s subject. `doubts` are what is known against a
frame: it was being evaluated when breakpoints changed ("blind") or a pause came
("late"), it was resumed by throw(), which is not evaluated, or its code was
replaced after it had begun ("moved").

### ExceptionStops

One thread, and functions that consist of a try, its except clause, the except
block and what follows, which is what the code looks at. `flight` is the
exception being raised or the frame being left; the interpreter's events are the
phases. `tb` is the traceback, by which the code recognises what it has seen.
`config` chooses the interpreter, whether pydevd knows how the thread began, and
the options.

### NativeAttach and AttachInjection

`where` is what each thread of the target executes. Before threading is
initialized nothing excludes two threads from Python but the program itself;
afterwards `current` holds the GIL. `DoAttach()` is `Check...`, the pending
call and its timeout, then the loop of suspending, looking and initializing,
and the run. `PyEval_RestoreThread` is one step, taken when the GIL is free.
An attaching process is one that holds the mutex; a timeout lets it go on while
the thread it started in the target runs. Code, event and memory are named
objects, which the next process may find. `inject_dll` does not look at what
`LoadLibraryA()` returned, so that either library may fail to load unnoticed
(`InjectAttachDll`, `LoadLibraryFails`), and a thread that finds no attach library
or cannot map the memory sets the event all the same (`CannotRun`, `Notify`).
`owner`, `skipped` and `gaveUp` remember whose thread runs, whose got nowhere, and
who timed out.

## 3. The runs

| Run | Checks | Shows | States |
|---|---|---|---|
| channel_requests | `TypeOK`, `OneHandlerThread`, `NoStrandedWork`, `NoOrphanedWaiter`, `CallbackExactlyOnce`, `HandledInOrder` | two users and the handler thread with one request and two callbacks, against a peer that sends two messages of any kind, ill-formed ones too, replies and disconnects at any time | 758k |
| channel_live | `ShutsDown`, `CallbackInvoked`, `KeepsContract` | two requests, and messages that are handled or malformed: after a close from either side all waits end and all callbacks run, unless a malformed message has ended the parser; every step is one of `RequestContract` | 462k |
| registry_tree | `NoGhostConnection`, `RemovalFindsConnection` | a process and its child, either of which may exit in any phase, and a session that launches (its launcher may be lost at any time), listens or attaches by pid | 3.2M |
| registry_two | `SessionOwnsServer`, `MainNotForgotten` | two sessions that compete for one server and share the Event with the main thread; a disconnect may come at any point of the attach | 2.6M |
| registry_live | `PidsIdentifyServers`, `AdapterExits` | a process that replaces itself, with and without a client; the adapter exits when all have left | 448k |
| session_faults | `EventsFollowStart`, `EventsInOrder`, `AnsweredOnce` | every kind of start, every fault, two events: order, and one answer | 1.6M |
| session_live | `TerminatedAfterLauncher`, `SessionEnds` | every start that times out, no fault: one "terminated", and an end | 221k |
| monitor_steps | `BreakpointsHit`, `RemovedNotHit`, `StepsStop`, `PausesStop` | one thread in user and library code, two frames deep; a line or a function breakpoint, one with a condition; pauses and all kinds of steps | 2.5M |
| trace_steps | `BreakpointsHit`, `StepsStop`, `PausesStop`, `CachesAgree` | the same for two functions of one file, since a frame without breakpoints is skipped by what the file has | 3.5M |
| frame_eval | `BreakpointsHit`, `StepsStop` | a generator with two lines, breakpoints at both, and a function of pydevd | 1.8M |
| exceptions | `RaisedReported`, `UserUnhandledReported`, `UncaughtReported`, `ReportedOnce`, `OncePerRaise` | user and library frames, one exception that is raised, caught and raised again, filters that change meanwhile, either interpreter | 2.8M |
| attach | `CallbackSafe`, `OneThreadInPython`, `NobodyLeftSuspended`, `PathOutlivesLoad`, `EventMeansOver` | two processes attach to one with a main and a second thread, and libraries that may not load | 2.2M |

Two more configurations pass, of the same questions on other instances:
`frame_eval_all` (function breakpoints too, with `TypeOK`,
`PausesStop` and `GeneratedOnce`, which are proved too) and `attach_live` (`TypeOK`, `OneRunner`, and
under fairness `RunnerEnds`). `TypeOK` of the other modules needs no run: it is
proved (section 5), and so is `RemovedNotHit` of `TraceDispatch`.

Bounds. Two requests, two callbacks and two handler threads are the least with
which one request can be answered while another is drained, a callback be
registered on either side of a response, and a handler thread be replaced; two
messages are needed for an order, one of them suffices to be overtaken by a
close. `HThreads` bounds how many handler threads may follow one another: when
all are running none can be spawned, and `OneHandlerThread` shows that this
does not happen. In the registry one pair of processes gives parent and child,
or a process and its replacement, and two sessions are the least that compete.
In `trace_steps` `global_cache_skips` never says that a function can be skipped, so
that `CachesAgree` is put to the test for `global_cache_frame_skips`; its proof
(section 5) is about both.
`MaxEvents` bounds the "output" events of launcher and server together: one is
enough for the order among kinds of messages, two for the order of one kind.
For the tracers one thread is enough for
all but the effects of one thread on another, since the client's thread is the
second actor; one line per function suffices where a line is left by being
executed again; a depth of two gives a caller to step into, and one breakpoint
at a time a set that changes under a callback. The frame evaluator needs two
breakpoints, for a generator whose code has calls for one of them only. Two
attempts of `DoAttach()` (the code makes 20) are the least with a repetition.
Deadlock is not checked where a system may stop (a channel, a session, an
adapter, a thread or an attach that is over), and what must not stop is stated
as liveness; `monitor_steps` and `trace_steps` check it.

Fairness. Every thread of the process that can take a step takes it: Python's
threads are preemptive and each holds the locks for a finite time. Timers go
off. Nothing is assumed of the other party of a channel: it may never answer, and
may send what the parser chokes on. `channel_live` has it send what is handled and
what is malformed; what its parser rejects without dying ("invalid"), and responses
to no request ("bogus"), are in `channel_requests`, and add no waits. In `DebugSession` it
is assumed in addition that requests to the launcher and the server are
answered or their connection is lost, that a debuggee the launcher was asked to
kill exits (`kill()` terminates a process tree), that the server's connection
ends with the debuggee's process, and that the user ends a wait-on-exit. The
wait of an "attach" with "listen" has no timeout by intention and gets no
fairness; `session_live` leaves it out, and all of `Faults`: with "spawn" and
"late" `finalize()` waits for a launcher that never leaves (`session_spawn_doc`),
and a stub that outlives the debuggee (`conda run`) is not in the model. Nor is
`servers._lock`, which `DebugSession` does not have: that `finalize()` may wait for
it for ever is `registry_lock_doc`. So `SessionEnds` is about `Session.lock`, the
three threads that finalize, and the waits among the components of one session.
`registry_live` lets servers exit only once they were attached (`AfterAttach`):
before that, that deadlock would be the counterexample. In `attach_live` the injected
thread, the pending call and the threads of the target go on, a thread does not
stay in Python or in a heap function for ever, and whoever waits for the GIL
gets it in the end (strong fairness: the interpreter forces a switch). The
safety properties of the tracers need no fairness.

## 4. Where the code and its comments disagree

Each of the following is stated in its module, after the properties that hold,
and quotes the comment it contradicts. The configuration shows a counterexample
within seconds; where it names several properties, TLC stops at the first that
fails, and shows another one when that line is removed. They are kept apart
from the list of runs, each of which passes.

| Configuration (module) | Property | What the code does |
|---|---|---|
| channel_doc (MCMessageChannel) | `NoHandlerAfterClose` | handlers start after `close()`: the guard at `messaging.py:1454` compares a bound method with a function, and never matches; `messaging.py:1129` |
| | `HandlerBeforeWaitReturns` | `wait_for_response()` returns before the handlers have run; `messaging.py:853` says they are executed first |
| | `ResponseSynthesized` | a malformed message ends the parser thread, and a request stays unanswered; `messaging.py:770` promises a synthesized response |
| | `HandlingErrorSwallowed` | `cant_handle()` on a closed channel ends the process; `messaging.py:987` says such errors are swallowed |
| registry_lock_doc (MCServerRegistry) | `DisconnectCompletes` | `Connection.disconnect` holds `servers._lock` and waits for `Session.lock`, a start handler has them the other way round: the adapter hangs; `servers.py:193` |
| registry_doc | `AttachedServerIsTold` | a session attaches to a connection whose `disconnect()` is already over; `servers.py:193` |
| | `OrphansUnblocked` | a subprocess that connects after its parent has gone is taken for the first server and stays blocked; `servers.py:149` |
| | `LaunchEndsAll` | a connection in the middle of `__init__` escapes the loop that kills the rest; `servers.py:140` |
| | `MainAlwaysTold` | a launch whose launcher is lost goes on after `finalize()` has set the Event, and clears it again: the main thread is left asleep; `servers.py:455` |
| | `FinalizedGivesBack` | the same launch attaches its finalized session to a server, which is never detached; `sessions.py:138` |
| | `AttachSurvivesDisconnect` | a disconnect that comes while the `Server` is being created finds one without a `connection`, and takes the adapter down; `servers.py:193`. So does a launch whose server another session took (`launchers.py:212`) |
| registry_exec_doc | `ReplacementIsAwaited` | without a client, the wait for a replacement finds the connection that is being replaced; `servers.py:368` |
| session_spawn_doc (MCDebugSession) | `SessionEnds` | a launcher whose `Popen` fails stays connected, and `finalize()` waits for it without a timeout; `sessions.py:212` |
| session_doc | `NoEventBeforeStart` | "exited" and "terminated" reach the client before the response to "launch"; `clients.py:116` |
| | `DeferredDelivered` | when the server is lost during the start, the request is answered and the deferred events are dropped; `clients.py:84` |
| | `TerminatedAfterServer` | `finalize()` does not wait for the server, one event of which may follow "terminated"; `sessions.py:138` |
| | `EveryHandlerAnswers` | a "configurationDone" that the server refuses is never answered, and the adapter exits; `messaging.py:730` |
| monitor_doc (MCSysMonitoring) | `NoLateDisable` | a callback that began before a breakpoint was added disables its line afterwards |
| | `NoBlindFrame` | a frame that is entered after the walk over the frames, with its PY_START still disabled, stays untraced |
| monitor_step_doc | `StepSurvivesExit` | a step whose frame is left by an exception, or that begins at the return, stops nowhere; nor does one for a frame of pydevd, or one that begins after the last breakpoint, at which one thread stopped alone, was removed with all events |
| | `PauseStopsStep` | a pause during a step over or out keeps the conditions of the step; `pydevd_thread_lifecycle.py:38` |
| monitor_other_doc | `NoForeignDisable` | with all threads asked to pause, one that is continued first disables PY_START of a function for the others, which run through it |
| trace_doc (MCTraceDispatch) | `NoStaleSkip` | a trace function that began before the caches were cleared puts its verdict into the cleared cache, and the new breakpoint is skipped from then on |
| | `NoBlindFrame`, `NoBlindPause` | it also sets `f_trace` after the client's thread has set it for a breakpoint, or for a pause |
| trace_step_doc | `StepSurvivesExit`, `PauseStopsStep` | as above; a step over or a smart step that begins in a filtered-out frame, where a pause can end, is lost too, and so is a step return that waits for a frame of pydevd |
| | `SmartStepKeepsBreakpoints` | a smart step that is called into another function than its target leaves that frame untraced (`NO_FTRACE`, `pydevd_cython.pyx:1255`, `:1290`): breakpoints in the rest of it are missed |
| frame_eval_doc (MCFrameEvaluator) | `GeneratorsKeepCode` | a generator that began in its original code is given other code when it is resumed, at an instruction of the old one; "we can't change it as this is a generator!" |
| | `BreakpointsGiven` | after all breakpoints of a file were removed, resuming a generator that executes generated code computes an intersection with None: the evaluation raises TypeError in the program |
| | `ThrownReevaluated` | `throw()` into a generator skips the evaluation: new breakpoints, steps and pauses are missed in it |
| | `NoBlindFrame`, `LatePausesStop` | a frame that is being evaluated when breakpoints change, or a pause comes, is seen by neither side |
| exceptions_user_doc (MCExceptionStops) | `UserUnhandledIsReal` | with sys.settrace an exception that was handled may be reported as user-unhandled when its function returns |
| | `RetracedUserReported`, `RetracedUncaughtReported` | with sys.settrace a line breakpoint that is added between the events "exception" and "return" gives the frame a new tracer (`pydevd.py:1195`, `:1216`), which knows nothing of the exception (`pydevd_cython.pyx:466`): it is not reported as user-unhandled, nor as uncaught in a thread that has no bootstrap frame |
| exceptions_stale_doc | `StaleFrameReported` | with sys.monitoring an exception object that left one outermost frame and is raised again in another ends its thread unreported |
| exceptions_same_doc | `NotInSameFunction` | `raise e` in an except block adds a traceback entry, and is no longer "the same context" |
| attach_doc (MCAttachInjection) | `NoHeapDeadlock` | `DoAttach()` allocates while a thread it suspended is in a heap function |
| | `NotAddingPendingCall` | the instruction pointer is compared with the first bytes of `Py_AddPendingCall`, not with its address: the test never matches |
| | `OneAttaching` | a process that timed out releases the mutex while the code it injected still runs |
| | `FinishedMeansRan` | a process sees the event set although its code was neither run nor refused: the attach library was not loaded (`run_code_on_dllmain.cpp:46`; `inject_dll.cpp:121` does not check), or the memory could not be mapped (`run_code_in_memory.hpp:99`) |
| attach_unload_doc | `Unloaded` | a process that attaches while the thread runs adds a reference to the library that nobody removes |

## 5. What is proved

Each theorem holds for every value of the constants that the named assumptions of
its module allow: any number of threads, connections, requests, codes, breakpoints
and attempts. `Spec` is in all of them the specification that the runs check. The
invariants that carry the proofs were checked by TLC on the runs' instances before
they were proved. In every module the proof that steps keep an invariant has one
lemma per action or group of actions, and "bystander" lemmas for what an actor does
not touch.

| Module | Theorems |
|---|---|
| `MessageChannelProofs` | `TypeCorrect`, `HandlersSerialized` (`OneHandlerThread`), `WorkNotStranded` (`NoStrandedWork`), `WaitersNotOrphaned` (`NoOrphanedWaiter`), `MessagesInOrder` (`HandledInOrder`), `CallbacksOnce` (`CallbackExactlyOnce`), `ContractKept` (`KeepsContract`: each step is one of `RequestContract` or a stutter) |
| `ServerRegistryProofs` | `TypesAreKept`, `NoGhosts` (`NoGhostConnection`), `RemovalsFind` (`RemovalFindsConnection`), `PidsAreUnique` (`PidsIdentifyServers`), `SessionsOwnServers` (`SessionOwnsServer`), `MainIsNotForgotten` (`MainNotForgotten`) |
| `DebugSessionProofs` | `TypesAreKept`, `NothingBeforeStart` (`EventsFollowStart`), `EventsStayInOrder` (`EventsInOrder`), `TerminatedIsLast` (`TerminatedAfterLauncher`), `OneResponse` (no request answered twice), `EveryoneIsAnswered` (`AnsweredOnce`) |
| `SysMonitoringProofs` | `TypesAreKept`, `BreakpointsStop` (`BreakpointsHit`), `StepsAreKept` (`StepsStop`), `PausesAreKept` (`PausesStop`), `RemovedAreNotHit` (`RemovedNotHit`) |
| `TraceDispatchProofs` | `TypesAreKept`, `BreakpointsStop` (`BreakpointsHit`), `StepsAreKept` (`StepsStop`), `PausesAreKept` (`PausesStop`), `CachesAreRight` (`CachesAgree`), `RemovedAreNotHit` (`RemovedNotHit`) |
| `FrameEvaluatorProofs` | `TypesAreKept`, `BreakpointsStop` (`BreakpointsHit`), `StepsAreKept` (`StepsStop`), `PausesAreKept` (`PausesStop`), `ModifiedOnce` (`GeneratedOnce`) |
| `ExceptionStopsProofs` | `TypesAreKept`, `RaisesAreReported` (`RaisedReported`), `UserUnhandledAreReported` (`UserUnhandledReported`), `UncaughtAreReported` (`UncaughtReported`), `ReportsAreSingle` (`ReportedOnce`), `RaisesAreSingle` (`OncePerRaise`) |
| `AttachInjectionProofs` | `CallbackIsSafe` (`CallbackSafe`), `ThreadsAreResumed` (`NobodyLeftSuspended`), `PythonIsExclusive` (`OneThreadInPython`), `EventIsOwn` (`EventMeansOver`), `PathIsThere` (`PathOutlivesLoad`), `TypesAreKept`, `RunnerIsUnique` (`OneRunner`) |

Assumptions on the constants are those that keep apart names that are distinct in
the code (None from what it stands beside, threads from each other), say which set a
constant is drawn from, and make two sets finite: the connections, since their order
of arrival is a number (`FiniteAssumption`), and the processes that attach, since
`DoAttach()` is run for each of them once (`AttachAssumption`).
One theorem has a hypothesis about `Faults`, the set of what the processes around
the adapter may do wrong: `TerminatedIsLast` assumes that the launcher does not
connect just as the wait for it times out, since nobody waits for its messages then.
All faults are allowed in the rest. Where the code breaks a promise, the property
names the exact exception, and the theorem says that there is no other:
`WaitersNotOrphaned` and `WorkNotStranded` a parser that died of a malformed message;
`SessionsOwnServers` and `MainIsNotForgotten` a launch that was overtaken by the loss
of its launcher; `NothingBeforeStart` the launcher's "exited"; `EveryoneIsAnswered` a
client that vanished, and a "configurationDone" that was refused or came out of
order; `UserUnhandledAreReported` and `UncaughtAreReported` frames that were traced
anew, and, in threads without a bootstrap frame, an exception object seen before;
`EventIsOwn` a thread that could not get at the code, and a process that gave up.

### The message channel

`TypeOK` alone is not inductive. `TypeInv` adds that a running handler thread
has something in its batch (it takes the head), that a request in progress has
a number, and that a popped request is one that was sent. The three safety
invariants are proved together as `SafetyInv`, since each leans on the others:

- `close()` does not notify anybody, so a sleeping handler thread relies on the
  Disconnect entry that the parser enqueues last. That the entry has not been
  missed is `DisconnectAwaits`: a handler thread that read "not closed" and is
  about to look into the queue finds it non-empty if the parser wrapped up in
  the meantime. `ClosedWhenDone` and `JoinOnlyIfClosed` tie the parser's end to
  the flag that the handler thread read.
- A waiting thread relies on the parser. `SentIsTracked` says that a request
  without a response is in `_sent_requests`, or in the parser's hands between
  its two lock regions, and that the parser is not done; this is where the order
  of registration and writing in `send_request` matters. A parser that died of a
  malformed message is not done either, and the invariants say so.
  `AsleepWithoutResponse` adds that nobody sleeps on a response that is there.
- `BusyOnlyInHandler`: a handler thread has a request of its own only while a
  handler runs, so that leaving the loop abandons none.

Order, callbacks and the contract rest on one more idea: the batch in hand and
the queue are one list, `Work`, which grows at its end and shrinks at its head,
while moving the queue to a batch leaves it as it is. `OrderInv` says that the
list, what the parser holds and the wire are sorted, in this order. `OnceInv` says
where a callback is (registered at a request, in one entry of the list, or done),
with positions in place of the cardinalities that `CallbackExactlyOnce` counts.
`FreshInv` says that the sequence numbers which threads have drawn but not yet
registered are new and distinct: without it, a step that completes a request
might complete one that was never sent, and the refinement would fail.

### The registry

`RegInv`: a connection is in `_connections` exactly from its registration until its
disconnect() has removed it, and whatever a session found was registered. This
gives `NoGhostConnection` and `RemovalFindsConnection` for every interleaving of
`Connection.__init__` with the handler thread. `SessInv`: the start handler of an
"attach" has the session's lock from its wait to its end, so that nobody finalizes it
meanwhile; a "launch" gives it up, and comes back to a session that may be finalized.
`HandlerOK` and `FinalizeOK` are where each start handler and each `finalize` is, and
which thread has the lock for it; `OwnsOK` says until when a server names its session,
and `LinkInv` that the connection of an attach that has begun is still free, and that
a disconnect() which goes to a `Server` knows a session that has attached.
`MainInv`: when the list is empty and the flag was cleared by somebody else, there is
a session whose `finalize` will still set it, or a launch that was overtaken.

### The session

`StartInv` (what is not deferred any more has a start response before it) and
`OrderInv` (sent, deferred and queued events are consecutive, for each process)
hold whatever the faults, since the queue is taken under one lock. `ProcInv` and
`WayInv` describe what a launcher can still say, from which follows that `finalize`
comes to its end only after the launcher's last message (`FinInv`, `TermInv`).
`AskInv` says which states of the handlers still owe a response, `AnswerInv` that the
start request has its answer in all others, and `OpenInv` what has happened when a
channel turns out to be closed, or the adapter goes down (`Excused`).

### The callbacks of sys.monitoring

Here too a callback acts on what it read before others changed it. `CacheInv` says
that a cached `FuncCodeInfo` that counts as fresh has no breakpoint line that the
client removed, and misses none unless a command is between the change and the new
mtime; `ArmInv` adds what the callbacks hold (`seen`), from which `RemovedNotHit`
follows. `InstallInv` is the installation of a breakpoint seen from the code object:
once the walk over the frames has passed (and for good once the breakpoint is
`settled`), its code has the LINE event, unless no frame of it has gone past PY_START,
which is then not disabled; and only a callback that is `late` has disabled the line.
`BreakOf` ties
that to a thread: one that is at the line with the mark is in the callback for it, which
has read a `FuncCodeInfo` with the line. `BreakInv` is all of it.

`StopInv` is about steps and pauses. `DisabledInv`: while a thread has to stop and no
restart of events is pending, what is disabled was disabled by another thread's
callback (`foreign`) or is filtered out. `WatchOf`: a thread that has to stop has the
callbacks registered, and for a step into (which a pause is) all its frames have
their events. `PromiseOf`: the frame that a step over, a step out or a smart step waits
for is still there with its events (`Waits`), or the step has become a step into;
this is where the callback at a return, `StepBecomesInto` and the frames that are left
without a callback matter. `StopMarkOf`: a thread at a line where it has to stop
is in the callback whose conditions end the step. The proof attempt showed three
cases that the model had not named: events that a thread which goes on disables for
those that were asked to stop (`NoForeignDisable` in section 4; `PausesStop` had been
blamed for it), a step for a frame of pydevd, and a step that begins after all events
were turned off. They now have marks of their own.

### The trace functions

A breakpoint is missed if any of four caches is wrong, and each is filled from what
a trace function read before others changed it. `SkipInv` therefore says of all of
them what they cover: `ViewInv` of what a trace function has read (right, unless
commands came since: `dirty`), `CacheInv` of `global_cache_skips` and
`global_cache_frame_skips` (right, unless one of the former wrote them: `stale`),
`SleepInv` of frames without a trace function (no settled breakpoint in their code,
unless they are `blind`), and `PauseInv` of the same for a pause. `MarkInv` is what remains: a thread at a line where it has to stop
is in a trace function, and none of what that function looks at hides the line.
Writing it showed two cases that the model had not named, and that TLC's instances
had not reached: the frame that a smart step leaves untraced
(`SmartStepKeepsBreakpoints` in section 4), and a step that begins in a filtered-out
frame. `RemovedNotHit` has an invariant of its own, `ArmInv`.

`StepInv` adds the steps. While its promise holds, a step is in one of two forms.
`Seeks`: it is a step into, or has become one, and each frame in which it may stop is
traced (`Awake`), or is passed over by it (`Excluded`). `Waits`: the frame at
the depth of the promise is still there and traced, in a function that is neither
filtered out nor pydevd's own, so is what lies below it, and a trace function that has
read the step has not decided to skip that frame. `StopOf` is a thread at a line
where its step has to stop: its trace function has read a step that ends there.
It holds whatever a command does meanwhile, so the mark "step" takes
no account of `dirty` and `stale`: the caches are about breakpoints, and a thread that
steps does not rely on them in the frame it waits for. What breaks a step is in
`promise[t].lost`, with the cases in which the code loses it.

### Frame evaluation

A frame that is not traced has to have the inserted calls, and a frame that is
about to be executed is decided upon from a FuncCodeInfo that others may have
stored, or from what the evaluation read some steps ago. `StopInv` joins what is
known at each of these places:

- `StackInv`: each frame on a stack is `Right`. It is `Covered` for the settled
  breakpoints (traced, or with a call at every line of its function that has one)
  and traced while its thread steps or is asked to pause, save for the frames whose
  `doubts` say otherwise, and for pydevd's own.
- `CacheInv`: a FuncCodeInfo that counts as fresh `Knows` all line breakpoints of its
  function. A breakpoint that is added or removed takes the freshness from all of them.
  A function breakpoint does so only in `BreakpointsChanged`, but it changes no line.
- `EvaluationInv`: as long as the mtime has not changed since the beginning (`current`),
  the lines an evaluation read are those of the breakpoints that exist, and the frame it
  decided about is covered for all of them, settled or not. A thread that
  steps is about to execute an untraced frame only if a pause came late (`LatePause`).
- `MarkInv`: a thread that must stop where it is has come to the trace function or to
  the inserted call, and what it has to stop for still exists.

When a command completes an installation (`TraceExistingFrames`), the frames on
stacks become right because all of them are traced. A suspended generator does not:
its code has the calls it was given before, and it is evaluated again when it is
resumed. That is why `Covered` speaks of the code's lines and not of its being
generated, and why throw(), which skips the evaluation, is a doubt.

`GeneratedInv` is about the code itself: new code belongs to an original, and what
is in a frame, in `parked` or under evaluation with calls in it is in `generated`.
So nothing is inserted twice (`GeneratedOnce`). What others do between `Lookup` and
`InsertPydevdBreaks` does not break it: the evaluation holds an original, and an
original never becomes a generated code object, since those have calls.

### Exception breakpoints

`SteadyInv`, `EventInv` and `TraceInv`: while a filter counts as steady, the events
are asked for, and the frames have their trace functions. `InfoInv` and `NoteInv`
follow what `is_unhandled_exception()` guesses from the lines it noted.
`GoneInv`: in a thread with a bootstrap frame, no exception counts as having left an
earlier outermost frame before it gets there. `UnhInv`, `TopFrameInv`, `TopInv` and `DueInv` follow the exception down to the
frame in which its thread ends, for the four ways in which pydevd learns about
that. `OnceInv` and `CountInv` bound the reports. `RaisedReported` is about code
that is not pydevd's own, for which nothing is ever reported.

### Attaching

`CallbackInv` is the protocol between `DoAttach()` and the pending call that it
gave up on: while the call is pending its structure is alive, the critical section
orders "completed" before the event is closed, and the structure is freed by the
side that comes last. `SuspendInv` (what is suspended is in the map, and only
during a search) and `GilInv` (whoever executes Python is current; while there is
no GIL and threads are suspended, only the main thread can be in Python)
need no bound on attempts. `ProtocolInv` is the hand-over of mutex, shared memory and
event between the processes, as long as nobody gave up; `GaveUpOK`: one that did takes nothing for a finish.

### Only model-checked

- Liveness and what needs ENABLED: `ShutsDown`, `CallbackInvoked`, `AdapterExits`,
  `SessionEnds`, `RunnerEnds` and the absence of deadlock. The prover has no rules
  for fairness.

Every safety invariant and every action property of the runs is a theorem.

## 6. What is not modelled

- Bytes: framing, JSON text, sockets, log files. The channel has their outcomes.
- Validation of arguments in "launch" and "attach", capabilities and
  `debugpySockets` events: they change no state that a property reads.
- The launcher's threads and the debuggee: `DebugSession` has the messages they
  send, in the orders they can.
- `server/api.py`, `server/cli.py`, `attach_pid_injected.py`, `common/json.py`,
  `common/singleton.py`: sequential code, see the plan.
- The adapter's start-up (daemonizing, the exchange of endpoints).
- Of the tracers: plugins (Django, Jinja2), the JUMP event, the display of return
  values, steps in coroutines and steps scoped to an ipython cell, "set next
  statement", SystemExit and the import machinery among exceptions, RERAISE and
  lines of a `finally`, and how the record of a thread is made and removed
  (`_create_thread_info`, `set_additional_thread_info`). Hit counts and what a
  condition evaluates to are a choice (`Conditional`).
- Of the frame evaluator: how instructions are inserted (it succeeds or not), and
  that threads are recognised.
- Of attaching: `AttachDebuggerTracing()`, which sets the trace function of all
  threads through structures whose layout depends on the version, and Linux and
  macOS, where a native debugger stops the process first.
- The rest of pydevd (variables, evaluation, source mapping): it is the server at
  the end of a connection.
- Overflow: counters are bounded by guards, and none of those in the models can
  wrap around in practice (`seq`, `mtime` are Python integers).

Nearly all lines of the three C files are what Cython makes of about 3,500 lines
of Python: argument parsing, reference counting, error paths, type objects, and
for each statement the fast paths of its operations. The functions themselves
are two fifths of them. The map names the C lines of the statements that a
definition stands for; that is some 12 percent of all lines, and would be under
a half if every function were modelled to the last statement.

Hazards that are known and not listed in `PROJECT.json` are the divergences of
section 4, and: `channel.wait()` reads `_handler_thread` without the lock
(`messaging.py:1169`); `_read_line()` loops on an empty read after part of a header
(`messaging.py:168`); the bounds of an array's size are compared with the wrong
inequality at the upper end (`json.py:222`); `attach_to_session()` raises in a
"launch" session when another one took the server (`launchers.py:212`), which ends
the adapter.

## 7. Plan

1. `MessageChannel`, `RequestContract`, their runs and proofs: done.
2. `ServerRegistry`, `DebugSession` and their runs: done.
3. The tracers, exception breakpoints, the frame evaluator and attaching on
   Windows: done.
4. Proofs: the message channel and its contract, the registry, the session, the
   callbacks of sys.monitoring, the trace functions, frame evaluation, exception
   breakpoints and attaching: done.
5. The launcher process as a module: two capture threads, `wait_for_exit`, kill
   and wait-on-exit, with "output before exited before terminated"; then
   `channel.wait()`, which its main thread calls.
6. The exchange of endpoints between `debugpy.listen()` and the adapter it spawns.
7. Pure algorithms as operators checked against their documentation: the
   validators of `json.py`, `_read_line` and the header loop of `JsonIOStream`,
   `parse_args` of the CLI.

---------------------------- MODULE DebugSession ----------------------------
(***************************************************************************)
(* One debug session (adapter/sessions.py) and its components: the client  *)
(* (clients.py), the launcher (launchers.py) and the debug server          *)
(* (servers.py).  Each component's channel has a handler thread; a message *)
(* handler holds Session.lock from its first line to its last, except      *)
(* while it is inside Session.wait_for(), which releases it.               *)
(*                                                                         *)
(* How servers are registered and found is ServerRegistry's subject: here  *)
(* wait_for_connection() finds the one server, or times out.               *)
(***************************************************************************)
EXTENDS Integers, Sequences

CONSTANTS
    Starts,        \* start requests the client may send
    MaxEvents,     \* bound: "output" events sent by launcher and server
    Faults         \* what the other processes may do wrong

ASSUME BoundsAssumption == MaxEvents \in Nat
(***************************************************************************)
(* "noDebug" is a "launch" without a server; "listen" is an "attach" that  *)
(* waits for the server without a timeout, "process" one by "processId",   *)
(* "sub" one by "subProcessId".                                            *)
(***************************************************************************)
StartKinds == {"launch", "noDebug", "attach", "listen", "process", "sub"}
ASSUME StartsAssumption == Starts \subseteq StartKinds

(***************************************************************************)
(* "vanish":  the client is lost while a handler for it is running;        *)
(* "refuse":  the server answers "configurationDone" with an error;        *)
(* "spawn":   the launcher answers "launch" with an error;                 *)
(* "late":    the launcher connects just when the wait for it times out;   *)
(* "early":   the client sends "configurationDone" out of order.           *)
(* Every process may also end at any time.                                 *)
(***************************************************************************)
ASSUME FaultsAssumption == Faults \subseteq {"vanish", "refuse", "spawn", "late", "early"}

Threads == {"client", "launcher", "server"}

\* What the client is sent, in so far as its order matters.
Sent == [kind : {"initialized", "started", "failed", "process", "event", "exited",
                 "terminated"},
         src : Threads, n : 0 .. MaxEvents]
ToClient(kind) == [kind |-> kind, src |-> "client", n |-> 0]

\* Messages of the launcher and of the server, by the order they were sent in.
Message == [kind : {"process", "event", "exited", "terminated", "disconnect"},
            src : Threads, n : 0 .. MaxEvents]
Plain(kind) == [kind |-> kind, src |-> "launcher", n |-> 0]
Output(t, n) == [kind |-> "event", src |-> t, n |-> n]

VARIABLES
    slock,         \* Session.lock: the thread that holds it
    cpc,           \* where the client's handler thread is
    start,         \* the start request being, or having been, handled
    startSet,      \* Client.start_request is not None
    hasStarted,    \* Client.has_started
    clientUp,      \* Client.is_connected
    clientOpen,    \* the client's channel is open
    deferring,     \* Client._deferred_events is not None
    deferred,      \* Client._deferred_events
    toClient,      \* what the client has been sent
    launcher,      \* Session.launcher, and its is_connected
    pidKnown,      \* Launcher.pid is not None
    exitKnown,     \* Launcher.exit_code is not None
    proc,          \* the launcher process
    lq,            \* messages from the launcher that are still to be handled
    server,        \* Session.server, and its is_connected
    srvLink,       \* the server's end of its connection
    vq,            \* messages from the server that are still to be handled
    vpc,           \* the message that the server's handler thread is handling
    events,        \* how many "output" events were sent
    fin,           \* Session.finalize(): its next step
    finBy,         \* the thread that runs it
    terminate,     \* terminate_debuggee
    killed,        \* the launcher was asked to kill the debuggee
    registered,    \* the session is in sessions._sessions
    crashed        \* a handler has failed: os._exit()

clientVars == <<cpc, start, startSet, hasStarted, clientUp, clientOpen>>
eventVars == <<deferring, deferred, toClient>>
launcherVars == <<launcher, pidKnown, exitKnown, proc, lq>>
serverVars == <<server, srvLink, vq, vpc>>
finVars == <<fin, finBy, terminate, killed>>
vars == <<slock, clientVars, eventVars, launcherVars, serverVars, events, finVars,
          registered, crashed>>

Init ==
    /\ slock = "none"
    /\ cpc = "idle" /\ start = "none" /\ startSet = FALSE /\ hasStarted = FALSE
    /\ clientUp = TRUE /\ clientOpen = TRUE
    /\ deferring = TRUE /\ deferred = <<>> /\ toClient = <<>>
    /\ launcher = "missing" /\ pidKnown = FALSE /\ exitKnown = FALSE
    /\ proc = "absent" /\ lq = <<>>
    /\ server = "missing" /\ srvLink = "absent" /\ vq = <<>> /\ vpc = "idle"
    /\ events = 0
    /\ fin = "no" /\ finBy = "none" /\ terminate = FALSE /\ killed = FALSE
    /\ registered = TRUE
    /\ crashed = FALSE

-----------------------------------------------------------------------------
(***************************************************************************)
(* Helpers.                                                                *)
(***************************************************************************)

\* Mutant: nothing is deferred.
PropagateNow(m) ==
    /\ toClient' = IF clientOpen THEN Append(toClient, m) ELSE toClient
    /\ UNCHANGED <<deferring, deferred>>

\* Client.propagate_after_start().  Sending to a client that is gone fails, and
\* message_handler turns that into an error that ends the handler.
PropagateAfterStart(m) ==
    /\ deferring' = deferring
    /\ deferred' = IF deferring THEN Append(deferred, m) ELSE deferred
    /\ toClient' = IF ~deferring /\ clientOpen THEN Append(toClient, m) ELSE toClient

\* Mutant: what is deferred is sent starting from the latest.
Reversed(q) == [i \in 1 .. Len(q) |-> q[Len(q) + 1 - i]]
PropagateReversed(before) ==
    /\ toClient' = toClient \o before \o Reversed(deferred)
    /\ deferring' = FALSE /\ deferred' = <<>>

\* Responses, then Client._propagate_deferred_events().
RespondAndPropagate(before) ==
    /\ toClient' = toClient \o before \o deferred
    /\ deferring' = FALSE /\ deferred' = <<>>

\* A handler of the client sends something, which fails if the channel is
\* closed: the error response fails too, and the handler thread gives up.
SendOrCrash(what) ==
    /\ toClient' = IF clientOpen THEN toClient \o what ELSE toClient
    /\ crashed' = ~clientOpen

\* A response that the channel sends once the handler has returned: it gives up
\* quietly if it knows that it is closed, and fails if it finds out by writing.
ReturnOrCrash(what) ==
    /\ toClient' = IF clientOpen THEN toClient \o what ELSE toClient
    /\ crashed' \in {FALSE, ~clientOpen}

\* Session.notify_changed(): the session ends with its last component.
StillRegistered(cUp, lUp, vUp) == registered /\ (cUp \/ lUp \/ vUp)

\* Session.finalize() on thread t: a step of its own unless it has begun already.
Finalize(t, term) ==
    IF fin = "no"
    THEN /\ fin' = "server" /\ finBy' = t /\ slock' = t
         /\ terminate' = term /\ killed' = killed
    ELSE slock' = "none" /\ UNCHANGED finVars

\* terminate_debuggee=None means: if there is a launcher.
ByDefault == launcher # "missing"

-----------------------------------------------------------------------------
(***************************************************************************)
(* The client's start request: launch_request and attach_request under     *)
(* _start_message_handler, with spawn_debuggee().  A client that has been  *)
(* refused starts no other request in this session.                        *)
(***************************************************************************)
StartRequest(kind) ==
    /\ cpc = "idle" /\ slock = "none" /\ clientOpen
    /\ start = "none" /\ fin = "no"
    /\ start' = kind
    /\ IF kind \in {"launch", "noDebug"}
       THEN cpc' = "await_launcher" /\ slock' = "none" /\ proc' = "spawned"
       ELSE cpc' = "await_server" /\ slock' = "client" /\ proc' = proc
    /\ UNCHANGED <<startSet, hasStarted, clientUp, clientOpen, eventVars, launcher,
                   pidKnown, exitKnown, lq, serverVars, events, finVars, registered,
                   crashed>>

\* The start request fails, with an error response that is sent by the handler.
StartFails(at) ==
    /\ cpc = at
    /\ cpc' = "idle" /\ slock' = "none"
    /\ SendOrCrash(<<ToClient("failed")>>)
    /\ UNCHANGED <<start, startSet, hasStarted, clientUp, clientOpen, deferring,
                   deferred, launcherVars, serverVars, events, finVars, registered>>

\* The same with the error of another process, which is propagated.
StartErrs(at) ==
    /\ cpc = at
    /\ cpc' = "idle" /\ slock' = "none"
    /\ ReturnOrCrash(<<ToClient("failed")>>)
    /\ UNCHANGED <<start, startSet, hasStarted, clientUp, clientOpen, deferring,
                   deferred, launcherVars, serverVars, events, finVars, registered>>

\* wait_for(lambda: session.launcher): satisfied, or timed out.
LauncherAwaited ==
    /\ cpc = "await_launcher" /\ slock = "none" /\ launcher # "missing"
    /\ cpc' = "launching" /\ slock' = "client"
    /\ UNCHANGED <<start, startSet, hasStarted, clientUp, clientOpen, eventVars,
                   launcherVars, serverVars, events, finVars, registered, crashed>>

LauncherTimeout ==
    /\ launcher = "missing" /\ slock = "none"
    /\ proc = "spawned" \/ "late" \in Faults
    /\ StartFails("await_launcher")

\* The launcher answers "launch", having sent "process" before.
LauncherLaunches ==
    /\ cpc = "launching" /\ proc = "connected"
    /\ proc' = "running"
    /\ lq' = Append(lq, Plain("process"))
    /\ cpc' = "await_pid" /\ slock' = "none"
    /\ UNCHANGED <<start, startSet, hasStarted, clientUp, clientOpen, eventVars,
                   launcher, pidKnown, exitKnown, serverVars, events, finVars,
                   registered, crashed>>

\* It cannot spawn the debuggee, and stays; or it is gone.
LaunchRefused ==
    /\ proc = "gone" \/ "spawn" \in Faults
    /\ StartErrs("launching")

\* wait_for(lambda: session.launcher.pid is not None).
PidAwaited ==
    /\ cpc = "await_pid" /\ slock = "none" /\ pidKnown
    /\ slock' = "client"
    /\ cpc' = IF start = "noDebug" THEN "no_debug" ELSE "await_server"
    /\ UNCHANGED <<start, startSet, hasStarted, clientUp, clientOpen, eventVars,
                   launcherVars, serverVars, events, finVars, registered, crashed>>

PidTimeout == ~pidKnown /\ slock = "none" /\ StartFails("await_pid")

\* wait_for_connection() and attach_to_session(), with Session.lock held.
ServerAttached ==
    /\ cpc = "await_server"
    /\ srvLink' = "up" /\ server' = "up"
    /\ cpc' = "initialize"
    /\ UNCHANGED <<slock, start, startSet, hasStarted, clientUp, clientOpen, eventVars,
                   launcherVars, vq, vpc, events, finVars, registered, crashed>>

ServerTimeout == start \notin {"listen", "sub"} /\ StartFails("await_server")

\* servers.inject() fails: finalized, but the handler does not end there.
InjectFails ==
    /\ cpc = "await_server" /\ start = "process"
    /\ cpc' = "not_injected"
    /\ Finalize("client", ByDefault)
    /\ UNCHANGED <<start, startSet, hasStarted, clientUp, clientOpen, eventVars,
                   launcherVars, serverVars, events, registered, crashed>>

\* A subprocess that is gone: answered, and finalized at once.
NoSubprocess ==
    /\ cpc = "await_server" /\ start = "sub"
    /\ SendOrCrash(<<ToClient("started")>>)
    /\ cpc' = IF fin = "no" THEN "finalizing" ELSE "idle"
    /\ Finalize("client", ByDefault)
    /\ UNCHANGED <<start, startSet, hasStarted, clientUp, clientOpen, deferring,
                   deferred, launcherVars, serverVars, events, registered>>

\* Server.initialize(), then the start request is passed on to the server.
ServerInitialized ==
    /\ cpc = "initialize" /\ srvLink = "up"
    /\ cpc' = "start_server"
    /\ UNCHANGED <<slock, start, startSet, hasStarted, clientUp, clientOpen, eventVars,
                   launcherVars, serverVars, events, finVars, registered, crashed>>

InitializeFails == StartErrs("initialize")

\* The client may configure; the start request is answered after that.
ServerStarted ==
    /\ cpc = "start_server" /\ srvLink = "up"
    /\ SendOrCrash(<<ToClient("initialized")>>)
    /\ startSet' = TRUE
    /\ cpc' = "idle" /\ slock' = "none"
    /\ UNCHANGED <<start, hasStarted, clientUp, clientOpen, deferring, deferred,
                   launcherVars, serverVars, events, finVars, registered>>

StartRefused == StartErrs("start_server")

\* The server is lost before it answers: success, and the session is over.
StartLost ==
    /\ cpc = "start_server" /\ srvLink = "down"
    /\ SendOrCrash(<<ToClient("started")>>)
    /\ cpc' = IF fin = "no" THEN "finalizing" ELSE "idle"
    /\ Finalize("client", ByDefault)
    /\ UNCHANGED <<start, startSet, hasStarted, clientUp, clientOpen, deferring,
                   deferred, launcherVars, serverVars, events, registered>>

\* There is no server to wait for: the session has started.
NoDebugStarted ==
    /\ cpc = "no_debug"
    /\ startSet' = TRUE /\ hasStarted' = TRUE
    /\ IF clientOpen THEN RespondAndPropagate(<<ToClient("started")>>)
       ELSE UNCHANGED eventVars
    /\ crashed' = ~clientOpen
    /\ cpc' = "idle" /\ slock' = "none"
    /\ UNCHANGED <<start, clientUp, clientOpen, launcherVars, serverVars, events,
                   finVars, registered>>

-----------------------------------------------------------------------------
(***************************************************************************)
(* The client's other requests.                                            *)
(***************************************************************************)
CanHandle == cpc = "idle" /\ slock = "none" /\ clientOpen

\* Mutant: has_started is not set.
ConfigureTwice ==
    /\ CanHandle
    /\ startSet /\ ~hasStarted
    /\ cpc' = "configuring" /\ slock' = "client"
    /\ UNCHANGED <<start, startSet, hasStarted, clientUp, clientOpen, eventVars,
                   launcherVars, serverVars, events, finVars, registered, crashed>>

(***************************************************************************)
(* configurationDone_request.  The error for a request out of order is not *)
(* raised: the handler goes on without a start request to answer, or fails *)
(* to answer it, or its own request, twice.                                *)
(***************************************************************************)
ConfigurationDone ==
    /\ CanHandle
    /\ startSet /\ ~hasStarted
    /\ hasStarted' = TRUE
    /\ cpc' = "configuring" /\ slock' = "client"
    /\ UNCHANGED <<start, startSet, clientUp, clientOpen, eventVars, launcherVars,
                   serverVars, events, finVars, registered, crashed>>

ConfigurationDoneEarly ==
    /\ CanHandle /\ "early" \in Faults
    /\ ~startSet \/ hasStarted
    /\ hasStarted' = TRUE
    /\ crashed' = TRUE
    /\ UNCHANGED <<slock, cpc, start, startSet, clientUp, clientOpen, eventVars,
                   launcherVars, serverVars, events, finVars, registered>>

\* The server answers, or there is none and the request fails: the start request
\* succeeds, and what was deferred follows.
Configured ==
    /\ cpc = "configuring" /\ srvLink # "down"
    /\ IF clientOpen THEN RespondAndPropagate(<<ToClient("started")>>)
       ELSE UNCHANGED eventVars
    /\ crashed' = ~clientOpen
    /\ cpc' = "idle" /\ slock' = "none"
    /\ UNCHANGED <<start, startSet, hasStarted, clientUp, clientOpen, launcherVars,
                   serverVars, events, finVars, registered>>

\* The server is lost: both requests succeed, and the session is over.
ConfigureLost ==
    /\ cpc = "configuring" /\ srvLink = "down"
    /\ SendOrCrash(<<ToClient("started")>>)
    /\ cpc' = IF fin = "no" THEN "finalizing" ELSE "idle"
    /\ Finalize("client", ByDefault)
    /\ UNCHANGED <<start, startSet, hasStarted, clientUp, clientOpen, deferring,
                   deferred, launcherVars, serverVars, events, registered>>

\* The server answers with an error: the start request fails, but nothing
\* answers "configurationDone" itself, which the channel asserts.
ConfigureRefused ==
    /\ cpc = "configuring" /\ srvLink = "up" /\ "refuse" \in Faults
    /\ toClient' = IF clientOpen THEN Append(toClient, ToClient("failed")) ELSE toClient
    /\ crashed' = TRUE
    /\ cpc' = "idle" /\ slock' = "none"
    /\ UNCHANGED <<start, startSet, hasStarted, clientUp, clientOpen, deferring,
                   deferred, launcherVars, serverVars, events, finVars, registered>>

\* A request that is delegated to the server, which is waited for with the
\* session locked: any other one, "pause", "continue", or "terminate" if
\* "onTerminate" says so.  ("evaluate" waits for nothing.)
Delegate ==
    /\ CanHandle /\ server # "missing" /\ startSet
    /\ cpc' = "delegating" /\ slock' = "client"
    /\ UNCHANGED <<start, startSet, hasStarted, clientUp, clientOpen, eventVars,
                   launcherVars, serverVars, events, finVars, registered, crashed>>

\* The server answers, or is lost, which is an error or, for "continue", none.
Delegated ==
    /\ cpc = "delegating"
    /\ ReturnOrCrash(<<>>)
    /\ cpc' = "idle" /\ slock' = "none"
    /\ UNCHANGED <<start, startSet, hasStarted, clientUp, clientOpen, deferring,
                   deferred, launcherVars, serverVars, events, finVars, registered>>

TerminateRequest ==
    /\ CanHandle
    /\ cpc' = IF fin = "no" THEN "terminating" ELSE "idle"
    /\ Finalize("client", TRUE)
    /\ UNCHANGED <<start, startSet, hasStarted, clientUp, clientOpen, eventVars,
                   launcherVars, serverVars, events, registered, crashed>>

\* A thread other than the client's has begun to finalize.
FinalizedByOther == fin # "no" /\ (finBy # "client" \/ fin = "done")

DisconnectRequest ==
    /\ CanHandle
    /\ cpc' = "disconnecting"
    /\ IF fin = "no" THEN \E term \in {ByDefault, TRUE, FALSE} : Finalize("client", term)
       ELSE slock' = "client" /\ UNCHANGED finVars
    /\ UNCHANGED <<start, startSet, hasStarted, clientUp, clientOpen, eventVars,
                   launcherVars, serverVars, events, registered, crashed>>

\* finalize() has returned: the request is answered and the channel closed.
CloseClient ==
    /\ cpc = "disconnecting" /\ slock = "client" /\ FinalizedByOther
    /\ crashed' = ~clientOpen
    /\ clientOpen' = FALSE
    /\ cpc' = "idle" /\ slock' = "none"
    /\ UNCHANGED <<start, startSet, hasStarted, clientUp, eventVars, launcherVars,
                   serverVars, events, finVars, registered>>

\* The client closes its end, or is killed.
ClientLost ==
    /\ clientOpen
    /\ cpc = "idle" \/ "vanish" \in Faults
    /\ clientOpen' = FALSE
    /\ UNCHANGED <<slock, cpc, start, startSet, hasStarted, clientUp, eventVars,
                   launcherVars, serverVars, events, finVars, registered, crashed>>

\* Client.disconnect().
ClientDisconnect ==
    /\ cpc = "idle" /\ slock = "none" /\ ~clientOpen
    /\ clientUp' = FALSE
    /\ registered' = StillRegistered(FALSE, launcher = "up", server = "up")
    /\ cpc' = "gone"
    /\ Finalize("client", ByDefault)
    /\ UNCHANGED <<start, startSet, hasStarted, clientOpen, eventVars, launcherVars,
                   serverVars, events, crashed>>

-----------------------------------------------------------------------------
(***************************************************************************)
(* The launcher: its process, and the handlers of what it sends.           *)
(***************************************************************************)

\* The accept thread runs on_launcher_connected(), which closes the listener
\* and then waits for the lock to create the Launcher.
LauncherAccepted ==
    /\ proc = "spawned" /\ cpc = "await_launcher"
    /\ proc' = "accepted"
    /\ UNCHANGED <<slock, clientVars, eventVars, launcher, pidKnown, exitKnown, lq,
                   serverVars, events, finVars, registered, crashed>>

LauncherConnected ==
    /\ proc = "accepted" /\ slock = "none"
    /\ proc' = "connected" /\ launcher' = "up"
    /\ UNCHANGED <<slock, clientVars, eventVars, pidKnown, exitKnown, lq, serverVars,
                   events, finVars, registered, crashed>>

LauncherOutput ==
    /\ proc = "running" /\ events < MaxEvents
    /\ events' = events + 1
    /\ lq' = Append(lq, Output("launcher", events + 1))
    /\ UNCHANGED <<slock, clientVars, eventVars, launcher, pidKnown, exitKnown, proc,
                   serverVars, finVars, registered, crashed>>

\* wait_for_exit() of the launcher; "terminated" may wait for the user.
DebuggeeExits ==
    /\ proc = "running"
    /\ proc' = "exited" /\ lq' = Append(lq, Plain("exited"))
    /\ UNCHANGED <<slock, clientVars, eventVars, launcher, pidKnown, exitKnown,
                   serverVars, events, finVars, registered, crashed>>

LauncherTerminates ==
    /\ proc = "exited"
    /\ proc' = "terminated" /\ lq' = Append(lq, Plain("terminated"))
    /\ UNCHANGED <<slock, clientVars, eventVars, launcher, pidKnown, exitKnown,
                   serverVars, events, finVars, registered, crashed>>

\* The launcher process dies; so does the debuggee, sooner or later.
LauncherDies ==
    /\ proc \in {"connected", "running", "exited", "terminated"}
    /\ proc' = "gone" /\ lq' = Append(lq, Plain("disconnect"))
    /\ UNCHANGED <<slock, clientVars, eventVars, launcher, pidKnown, exitKnown,
                   serverVars, events, finVars, registered, crashed>>

LauncherProcess ==
    /\ lq # <<>> /\ Head(lq).kind = "process" /\ slock = "none"
    /\ lq' = Tail(lq)
    /\ pidKnown' = TRUE
    /\ PropagateAfterStart(Head(lq))
    /\ UNCHANGED <<slock, clientVars, launcher, exitKnown, proc, serverVars,
                   events, finVars, registered, crashed>>

LauncherEvent ==
    /\ lq # <<>> /\ Head(lq).kind = "event" /\ slock = "none"
    /\ lq' = Tail(lq)
    /\ PropagateAfterStart(Head(lq))
    /\ UNCHANGED <<slock, clientVars, launcher, pidKnown, exitKnown, proc, serverVars,
                   events, finVars, registered, crashed>>

LauncherExited ==
    /\ lq # <<>> /\ Head(lq).kind = "exited" /\ slock = "none"
    /\ lq' = Tail(lq)
    /\ exitKnown' = TRUE
    /\ UNCHANGED <<slock, clientVars, eventVars, launcher, pidKnown, proc, serverVars,
                   events, finVars, registered, crashed>>

\* Mutant: the channel is left open.
KeepLauncherOpen ==
    /\ lq # <<>> /\ Head(lq).kind = "terminated" /\ slock = "none"
    /\ lq' = Tail(lq)
    /\ toClient' = IF clientOpen THEN Append(toClient, Plain("exited")) ELSE toClient
    /\ UNCHANGED <<slock, clientVars, deferring, deferred, launcher, pidKnown,
                   exitKnown, proc, serverVars, events, finVars, registered, crashed>>

\* The client hears of the exit only now, and directly; the channel is closed.
LauncherTerminated ==
    /\ lq # <<>> /\ Head(lq).kind = "terminated" /\ slock = "none"
    /\ lq' = IF proc = "gone" THEN Tail(lq) ELSE Append(Tail(lq), Plain("disconnect"))
    /\ proc' = "gone"
    /\ toClient' = IF clientOpen THEN Append(toClient, Plain("exited")) ELSE toClient
    /\ UNCHANGED <<slock, clientVars, deferring, deferred, launcher, pidKnown,
                   exitKnown, serverVars, events, finVars, registered, crashed>>

LauncherDisconnect ==
    /\ lq # <<>> /\ Head(lq).kind = "disconnect" /\ slock = "none"
    /\ lq' = Tail(lq)
    /\ launcher' = "down"
    /\ registered' = StillRegistered(clientUp, FALSE, server = "up")
    /\ Finalize("launcher", TRUE)
    /\ UNCHANGED <<clientVars, eventVars, pidKnown, exitKnown, proc, serverVars, events,
                   crashed>>

-----------------------------------------------------------------------------
(***************************************************************************)
(* The debug server.  Its handler thread looks a handler up before it      *)
(* waits for the lock: that of the Server, or of the Connection once the   *)
(* session has let go of it.                                               *)
(***************************************************************************)
FromServer(kind) == [kind |-> kind, src |-> "server", n |-> 0]

ServerOutput ==
    /\ srvLink = "up" /\ events < MaxEvents
    /\ events' = events + 1
    /\ vq' = Append(vq, Output("server", events + 1))
    /\ UNCHANGED <<slock, clientVars, eventVars, launcherVars, server, srvLink, vpc,
                   finVars, registered, crashed>>

\* The debuggee is exiting: pydevd says so, and leaves closing to the adapter.
ServerExits ==
    /\ srvLink = "up" /\ ~\E i \in 1 .. Len(vq) : vq[i].kind = "terminated"
    /\ vq' = vq \o <<FromServer("exited"), FromServer("terminated")>>
    /\ UNCHANGED <<slock, clientVars, eventVars, launcherVars, server, srvLink, vpc,
                   events, finVars, registered, crashed>>

ServerDies ==
    /\ srvLink = "up"
    /\ srvLink' = "down" /\ vq' = Append(vq, FromServer("disconnect"))
    /\ UNCHANGED <<slock, clientVars, eventVars, launcherVars, server, vpc, events,
                   finVars, registered, crashed>>

ServerPick ==
    /\ vq # <<>> /\ vpc = "idle"
    /\ vpc' = IF server = "up" THEN "server" ELSE "connection"
    /\ UNCHANGED <<slock, clientVars, eventVars, launcherVars, server, srvLink, vq,
                   events, finVars, registered, crashed>>

\* Connection: events are dropped, and the session is not concerned.
ConnectionHandles ==
    /\ vpc = "connection"
    /\ vpc' = "idle"
    /\ vq' = IF Head(vq).kind = "terminated" /\ srvLink = "up"
             THEN Append(Tail(vq), FromServer("disconnect")) ELSE Tail(vq)
    /\ srvLink' = IF Head(vq).kind = "terminated" THEN "down" ELSE srvLink
    /\ UNCHANGED <<slock, clientVars, eventVars, launcherVars, server, events, finVars,
                   registered, crashed>>

\* Server.event and exited_event: a launcher reports the exit by itself.
ServerEvent ==
    /\ vpc = "server" /\ Head(vq).kind \in {"event", "exited"} /\ slock = "none"
    /\ vpc' = "idle" /\ vq' = Tail(vq)
    /\ IF Head(vq).kind = "exited" /\ launcher # "missing"
       THEN UNCHANGED eventVars ELSE PropagateAfterStart(Head(vq))
    /\ UNCHANGED <<slock, clientVars, launcherVars, server, srvLink, events, finVars,
                   registered, crashed>>

\* Server.terminated_event closes the channel.
ServerTerminated ==
    /\ vpc = "server" /\ Head(vq).kind = "terminated" /\ slock = "none"
    /\ vpc' = "idle"
    /\ vq' = IF srvLink = "up" THEN Append(Tail(vq), FromServer("disconnect")) ELSE Tail(vq)
    /\ srvLink' = "down"
    /\ UNCHANGED <<slock, clientVars, eventVars, launcherVars, server, events, finVars,
                   registered, crashed>>

ServerDisconnect ==
    /\ vpc = "server" /\ Head(vq).kind = "disconnect" /\ slock = "none"
    /\ vpc' = "idle" /\ vq' = Tail(vq)
    /\ server' = "down"
    /\ registered' = StillRegistered(clientUp, launcher = "up", FALSE)
    /\ Finalize("server", ByDefault)
    /\ UNCHANGED <<clientVars, eventVars, launcherVars, srvLink, events, crashed>>

-----------------------------------------------------------------------------
(***************************************************************************)
(* Session._finalize().                                                    *)
(***************************************************************************)
FinHolds(step) == fin = step /\ slock = finBy

\* Launcher.terminate_debuggee(): nothing to do once the debuggee has exited.
TerminateDebuggee == killed' = (killed \/ ~exitKnown)

\* The launcher is asked to kill the debuggee, or the server to disconnect; either
\* answers, or is lost.
FinAsk ==
    /\ FinHolds("server")
    /\ fin' = IF server = "missing" THEN "launcher" ELSE "detach"
    /\ IF server = "up" /\ terminate /\ launcher = "up" THEN TerminateDebuggee
       ELSE killed' = killed
    /\ UNCHANGED <<slock, clientVars, eventVars, launcherVars, serverVars, events, finBy,
                   terminate, registered, crashed>>

FinDetach ==
    /\ FinHolds("detach")
    /\ server' = "down"
    /\ registered' = StillRegistered(clientUp, launcher = "up", FALSE)
    /\ fin' = "launcher"
    /\ UNCHANGED <<slock, clientVars, eventVars, launcherVars, srvLink, vq, vpc, events,
                   finBy, terminate, killed, crashed>>

\* With a server, the debuggee should exit by itself: wait_for() that.
FinLauncher ==
    /\ FinHolds("launcher")
    /\ IF launcher # "up" THEN fin' = "client" /\ slock' = slock
       ELSE IF server = "missing" THEN fin' = "kill" /\ slock' = slock
       ELSE fin' = "exit" /\ slock' = "none"
    /\ UNCHANGED <<clientVars, eventVars, launcherVars, serverVars, events, finBy,
                   terminate, killed, registered, crashed>>

\* The exit code is known, or PROCESS_EXIT_TIMEOUT has passed.
FinExitAwaited ==
    /\ fin = "exit" /\ slock = "none"
    /\ fin' = "kill" /\ slock' = finBy
    /\ UNCHANGED <<clientVars, eventVars, launcherVars, serverVars, events, finBy,
                   terminate, killed, registered, crashed>>

\* Mutant: the last messages of the launcher are not waited for.
KillOnly ==
    /\ FinHolds("kill")
    /\ fin' = "client" /\ slock' = slock
    /\ UNCHANGED <<clientVars, eventVars, launcherVars, serverVars, events, finBy,
                   terminate, killed, registered, crashed>>

\* Launcher.terminate_debuggee(), then wait_for() the launcher to disconnect.
FinKill ==
    /\ FinHolds("kill")
    /\ TerminateDebuggee
    /\ fin' = "drain" /\ slock' = "none"
    /\ UNCHANGED <<clientVars, eventVars, launcherVars, serverVars, events, finBy,
                   terminate, registered, crashed>>

FinDrained ==
    /\ fin = "drain" /\ slock = "none" /\ launcher # "up"
    /\ fin' = "client" /\ slock' = finBy
    /\ UNCHANGED <<clientVars, eventVars, launcherVars, serverVars, events, finBy,
                   terminate, killed, registered, crashed>>

FinClient ==
    /\ FinHolds("client")
    /\ toClient' = IF clientUp /\ clientOpen
                   THEN Append(toClient, ToClient("terminated")) ELSE toClient
    /\ fin' = "done"
    /\ UNCHANGED <<slock, clientVars, deferring, deferred, launcherVars, serverVars,
                   events, finBy, terminate, killed, registered, crashed>>

\* finalize() returns to its caller, which leaves its handler.
FinReturn ==
    /\ FinHolds("done") /\ cpc \notin {"disconnecting", "not_injected"}
    /\ slock' = "none"
    /\ IF cpc = "terminating" THEN ReturnOrCrash(<<>>) ELSE UNCHANGED <<toClient, crashed>>
    /\ cpc' = IF cpc \in {"terminating", "finalizing"} THEN "idle" ELSE cpc
    /\ UNCHANGED <<start, startSet, hasStarted, clientUp, clientOpen, deferring,
                   deferred, launcherVars, serverVars, events, finVars, registered>>

\* attach_request returns as if a server were there.
NotInjected ==
    /\ FinHolds("done") /\ cpc = "not_injected"
    /\ SendOrCrash(<<ToClient("initialized")>>)
    /\ startSet' = TRUE
    /\ cpc' = "idle" /\ slock' = "none"
    /\ UNCHANGED <<start, hasStarted, clientUp, clientOpen, deferring, deferred,
                   launcherVars, serverVars, events, finVars, registered>>

-----------------------------------------------------------------------------
ClientThread ==
    \/ LauncherAwaited \/ LauncherTimeout \/ LauncherLaunches \/ LaunchRefused
    \/ PidAwaited \/ PidTimeout \/ ServerAttached \/ ServerTimeout
    \/ InjectFails \/ NoSubprocess
    \/ ServerInitialized \/ InitializeFails \/ ServerStarted \/ StartRefused \/ StartLost
    \/ NoDebugStarted \/ Configured \/ ConfigureLost \/ ConfigureRefused \/ Delegated
    \/ CloseClient \/ ClientDisconnect

ClientRequest ==
    \/ \E kind \in Starts : StartRequest(kind)
    \/ ConfigurationDone \/ ConfigurationDoneEarly \/ Delegate \/ TerminateRequest \/ DisconnectRequest

LauncherThread ==
    \/ LauncherConnected \/ LauncherProcess \/ LauncherEvent \/ LauncherExited
    \/ LauncherTerminated \/ LauncherDisconnect

ServerThread ==
    \/ ServerPick \/ ConnectionHandles \/ ServerEvent \/ ServerTerminated
    \/ ServerDisconnect

FinalizeStep ==
    \/ FinAsk \/ FinDetach \/ FinLauncher \/ FinExitAwaited \/ FinKill \/ FinDrained
    \/ FinClient \/ FinReturn \/ NotInjected

Environment ==
    \/ ClientLost \/ LauncherAccepted \/ LauncherOutput \/ DebuggeeExits
    \/ LauncherTerminates \/ LauncherDies \/ ServerOutput \/ ServerExits \/ ServerDies

Next ==
    /\ ~crashed
    /\ \/ ClientThread \/ ClientRequest \/ LauncherThread \/ ServerThread
       \/ FinalizeStep \/ Environment

Spec == Init /\ [][Next]_vars

\* A "listen" waits for a server that may never come.
AwaitsListen == cpc = "await_server" /\ start = "listen"

(***************************************************************************)
(* Threads of the adapter run; requests are answered; a debuggee that the  *)
(* launcher was asked to kill exits, its server with it, and the user ends *)
(* a wait-on-exit.                                                         *)
(***************************************************************************)
Fairness ==
    /\ WF_vars(~crashed /\ ~AwaitsListen /\ ClientThread)
    /\ WF_vars(~crashed /\ LauncherThread)
    /\ WF_vars(~crashed /\ ServerThread)
    /\ WF_vars(~crashed /\ FinalizeStep)
    /\ WF_vars(~crashed /\ killed /\ DebuggeeExits)
    /\ WF_vars(~crashed /\ LauncherTerminates)
    /\ WF_vars(~crashed /\ proc \in {"exited", "terminated", "gone"} /\ ServerDies)

FairSpec == Spec /\ Fairness

-----------------------------------------------------------------------------
\* Every variable has the type that the code gives it.
TypeOK ==
    /\ slock \in Threads \cup {"none"}
    /\ cpc \in {"idle", "await_launcher", "launching", "await_pid", "no_debug",
                "await_server", "initialize", "start_server", "configuring",
                "delegating", "finalizing", "terminating", "not_injected",
                "disconnecting", "gone"}
    /\ start \in StartKinds \cup {"none"}
    /\ startSet \in BOOLEAN /\ hasStarted \in BOOLEAN
    /\ clientUp \in BOOLEAN /\ clientOpen \in BOOLEAN
    /\ deferring \in BOOLEAN /\ deferred \in Seq(Message) /\ toClient \in Seq(Sent)
    /\ launcher \in {"missing", "up", "down"}
    /\ pidKnown \in BOOLEAN /\ exitKnown \in BOOLEAN
    /\ proc \in {"absent", "spawned", "accepted", "connected", "running", "exited",
                 "terminated", "gone"}
    /\ lq \in Seq(Message)
    /\ server \in {"missing", "up", "down"}
    /\ srvLink \in {"absent", "up", "down"}
    /\ vq \in Seq(Message)
    /\ vpc \in {"idle", "server", "connection"}
    /\ events \in 0 .. MaxEvents
    /\ fin \in {"no", "server", "detach", "launcher", "exit", "kill", "drain", "client",
                "done"}
    /\ finBy \in Threads \cup {"none"}
    /\ terminate \in BOOLEAN /\ killed \in BOOLEAN
    /\ registered \in BOOLEAN /\ crashed \in BOOLEAN

SentBefore(i, kinds) == \E j \in 1 .. i - 1 : toClient[j].kind \in kinds

\* The events that the client gets through propagate_after_start(): all of the
\* server's, and of the launcher's all but "exited".
PassedOn(m) == m.src = "server" \/ m.kind \in {"process", "event"}

(***************************************************************************)
(* No event of the server, and no "process" or "output" of the launcher,   *)
(* reaches the client before the success of its "launch" or "attach",      *)
(* however early they are sent.  The launcher's "exited" may: its handler  *)
(* sends it directly, and NoEventBeforeStart fails.                        *)
(***************************************************************************)
EventsFollowStart ==
    \A i \in 1 .. Len(toClient) : PassedOn(toClient[i]) => SentBefore(i, {"started"})

(***************************************************************************)
(* The events of one process reach the client in the order they were sent  *)
(* in, deferred or not, each of them once.                                 *)
(***************************************************************************)
EventsInOrder ==
    \A i, j \in 1 .. Len(toClient) :
        /\ i < j
        /\ toClient[i].kind = "event" /\ toClient[j].kind = "event"
        /\ toClient[i].src = toClient[j].src
        => toClient[i].n < toClient[j].n

WasSent(kinds) == \E i \in 1 .. Len(toClient) : toClient[i].kind \in kinds

(***************************************************************************)
(* The client is told once that debugging is over, and only when no        *)
(* message of the launcher is left to be handled, whichever component      *)
(* ended the session, and however its finalize() and the other threads'    *)
(* handlers interleave.                                                    *)
(***************************************************************************)
TerminatedAfterLauncher ==
    /\ WasSent({"terminated"}) => launcher # "up" /\ lq = <<>>
    /\ \A i \in 1 .. Len(toClient) :
          toClient[i].kind = "terminated" => ~SentBefore(i, {"terminated"})

(***************************************************************************)
(* The start request gets at most one response, and between two requests   *)
(* of the client it has got it unless it waits for "configurationDone".    *)
(* The adapter goes down with a handler that could not answer, or answered *)
(* twice, only if the client has left while it was being handled, or by    *)
(* "configurationDone", refused by the server or out of order.             *)
(***************************************************************************)
AnsweredOnce ==
    /\ \A i \in 1 .. Len(toClient) :
          toClient[i].kind \in {"started", "failed"} => ~SentBefore(i, {"started", "failed"})
    /\ cpc = "idle" /\ start # "none" /\ clientOpen /\ ~crashed
       => (WasSent({"started", "failed"}) <=> (startSet => hasStarted))
    /\ crashed => \/ ~clientOpen /\ "vanish" \in Faults
                  \/ hasStarted /\ Faults \cap {"refuse", "early"} # {}

(***************************************************************************)
(* What the channel asserts of a request: no handler ends without having   *)
(* answered it, or two times.  A server that refuses "configurationDone"   *)
(* leaves it unanswered, which takes down every session.                   *)
(***************************************************************************)
EveryHandlerAnswers == ~crashed

(***************************************************************************)
(* What propagate_after_start() says of every event: none of any kind is   *)
(* seen by the client before the response to its start request.            *)
(***************************************************************************)
NoEventBeforeStart ==
    \A i \in 1 .. Len(toClient) :
        toClient[i].kind \in {"process", "event", "exited"}
        => SentBefore(i, {"started", "failed"})

(***************************************************************************)
(* What Client._deferred_events is documented to be: propagated when the   *)
(* response to the start request is sent.                                  *)
(***************************************************************************)
DeferredDelivered == cpc = "idle" /\ WasSent({"started"}) => deferred = <<>>

(***************************************************************************)
(* What finalize() is documented to do with the server: the messages that  *)
(* remain are handled before the client is told that debugging is over.    *)
(***************************************************************************)
TerminatedAfterServer ==
    \A i \in 1 .. Len(toClient) :
        toClient[i].src = "server" => ~SentBefore(i, {"terminated"})

(***************************************************************************)
(* A client that has left lets the session end, as far as Session.lock and *)
(* the waits of the handlers and of finalize() are concerned: whichever    *)
(* thread finalizes, the messages and components it waits for come to an   *)
(* end.  servers._lock is no part of this model: ServerRegistry has it,    *)
(* and a finalize() that waits for it with the session locked.             *)
(***************************************************************************)
SessionEnds == ~clientOpen ~> (~registered \/ crashed)
=============================================================================

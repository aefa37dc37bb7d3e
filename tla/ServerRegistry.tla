--------------------------- MODULE ServerRegistry ---------------------------
(***************************************************************************)
(* The debug servers connected to an adapter (adapter/servers.py), and the *)
(* threads that meet over them: the accept thread, which runs              *)
(* Connection.__init__ for one server at a time; the handler thread of     *)
(* each server's channel, which runs its disconnect(); the handler threads *)
(* of the sessions, which wait for a server, attach to it and finalize;    *)
(* and the main thread, which waits for everything to end.  The thread of  *)
(* a launcher finalizes the session when the launcher is lost.             *)
(*                                                                         *)
(* Two locks are explicit.  servers._lock is taken for one step at a time, *)
(* except by Connection.disconnect(), which keeps it while it calls        *)
(* Server.disconnect(), and by attach_to_session(), which changes what the *)
(* channel calls before it knows the server: "lock" is the connection or   *)
(* the session that does.  Session.lock, slock[s], is held by a message    *)
(* handler from its first line to its last, except in Session.wait_for(),  *)
(* by which a start handler and finalize() wait for the launcher.          *)
(* A region under either lock in which nothing blocks is one step.         *)
(***************************************************************************)
EXTENDS Integers, FiniteSets

CONSTANTS
    Conns,         \* connections that debug servers may open
    Sessions,      \* debug sessions: one per client connection
    First,         \* the session whose id is 1
    Pids,          \* process ids
    Pid, PPid,     \* what each server reports about its process
    Spawned,       \* pids that a launcher may report: a stub's or the debuggee's
    Kinds,         \* ways in which clients start a session
    ExitPhases,    \* phases of a connection in which its process may exit
    Replaceable,   \* connections whose process replaces itself with exec()
    Stdio,         \* whether the first client talks over stdio
    ForServer,     \* whether the adapter was spawned by debugpy.listen()
    Main,          \* the main thread
    Launcher,      \* the handler thread of the launcher's channel
    None           \* Python's None

AllKinds == {"launch", "listen", "connect", "pid", "sub"}
AllPhases == {"handshake", "waiting", "attached", "released"}

ASSUME ConstantsAssumption ==
    /\ First \in Sessions
    /\ Conns \cap Sessions = {}
    /\ None \notin Conns \cup Sessions \cup Pids
    /\ Main \notin Conns \cup Sessions
    /\ Launcher \notin Conns \cup Sessions \cup {None}
    /\ Pid \in [Conns -> Pids]
    /\ PPid \in [Conns -> Pids \cup {None}]
    /\ Spawned \subseteq Pids
    /\ Replaceable \subseteq Conns
    /\ Stdio \in BOOLEAN
    /\ ForServer \in BOOLEAN
ASSUME FiniteAssumption == IsFiniteSet(Conns)
ASSUME KindsAssumption == Kinds \subseteq AllKinds /\ ExitPhases \subseteq AllPhases

Waiters == Conns \cup Sessions \cup {Main}

\* A "launch" or "attach" request: how it looks for a server, and which.
Start == [kind : AllKinds, pid : Pids \cup {None}]

VARIABLES
    connections,   \* servers._connections; arrival orders the list
    arrival,       \* when each connection was appended: 0 is never
    changed,       \* the flag of servers._connections_changed
    waiter,        \* where each thread stands in a wait for that Event
    timer,         \* wait_for_timeout of each thread's last wait
    lock,          \* who keeps servers._lock over several steps
    listening,     \* servers.listener is open
    acc,           \* the accept thread, in Connection.__init__
    link,          \* the socket of each connection
    disconnected,  \* Connection.disconnected
    replaced,      \* Connection.process_replaced
    server,        \* Connection.server, as the session it belongs to
    dh,            \* the handler thread of each connection, in disconnect()
    dsess,         \* the session of the Server whose disconnect() it runs
    unblocked,     \* orphaned subprocesses that __init__ let run
    sessions,      \* sessions._sessions
    slock,         \* Session.lock: the thread that holds it
    st,            \* what the client's handler thread does
    req,           \* the start request
    started,       \* Client.start_request and has_started
    got,           \* the connection that wait_for_connection() returned
    srv,           \* Session.server
    srvUp,         \* Session.server.is_connected
    clientUp,      \* Session.client.is_connected
    fin,           \* Session.finalize(): its next step
    known,         \* Client.known_subprocesses
    killed,        \* pids_killed of finalize()
    launcher,      \* Session.launcher, and whether it is connected
    lpid,          \* Session.launcher.pid
    finBy,         \* the thread that runs finalize()
    overtaken,     \* history: sessions finalized while their start handler waited
    main           \* the main thread's progress

connVars == <<link, disconnected, replaced, server, dh, dsess, unblocked>>
regVars == <<connections, arrival, timer, lock, listening>>
eventVars == <<changed, waiter>>
launchVars == <<launcher, lpid, finBy, overtaken>>
sessVars == <<sessions, slock, st, req, started, got, srv, srvUp, clientUp,
              fin, known, killed, launchVars>>
vars == <<connVars, regVars, eventVars, acc, sessVars, main>>

Idle == [pc |-> "idle", conn |-> None, parent |-> None, first |-> FALSE]
NoStart == [kind |-> "connect", pid |-> None]

Init ==
    /\ connections = {}
    /\ arrival = [c \in Conns |-> 0]
    /\ changed = FALSE
    /\ waiter = [t \in Waiters |-> IF t = Main THEN "enter" ELSE "none"]
    /\ timer = [t \in Conns \cup Sessions |-> "off"]
    /\ lock = None
    /\ listening = ForServer
    /\ acc = Idle
    /\ link = [c \in Conns |-> "absent"]
    /\ disconnected = [c \in Conns |-> FALSE]
    /\ replaced = [c \in Conns |-> FALSE]
    /\ server = [c \in Conns |-> None]
    /\ dh = [c \in Conns |-> "idle"]
    /\ dsess = [c \in Conns |-> None]
    /\ unblocked = {}
    /\ sessions = {}
    /\ slock = [s \in Sessions |-> None]
    /\ st = [s \in Sessions |-> "none"]
    /\ req = [s \in Sessions |-> NoStart]
    /\ started = [s \in Sessions |-> "no"]
    /\ got = [s \in Sessions |-> None]
    /\ srv = [s \in Sessions |-> None]
    /\ srvUp = [s \in Sessions |-> FALSE]
    /\ clientUp = [s \in Sessions |-> FALSE]
    /\ fin = [s \in Sessions |-> "no"]
    /\ known = [s \in Sessions |-> {}]
    /\ killed = [s \in Sessions |-> {}]
    /\ launcher = [s \in Sessions |-> "none"]
    /\ lpid = [s \in Sessions |-> None]
    /\ finBy = [s \in Sessions |-> None]
    /\ overtaken = {}
    /\ main = "servers"

-----------------------------------------------------------------------------
(***************************************************************************)
(* threading.Event.  set() wakes every thread that is inside wait(), even  *)
(* if the flag is cleared before it runs; a thread that is about to call   *)
(* wait() ("enter") only sees the flag.                                    *)
(***************************************************************************)
Wake(w) == [t \in Waiters |-> IF w[t] = "asleep" THEN "check" ELSE w[t]]

SetChanged == changed' = TRUE /\ waiter' = Wake(waiter)

EnterWait(t) ==
    /\ waiter[t] = "enter"
    /\ waiter' = [waiter EXCEPT ![t] = IF changed THEN "check" ELSE "asleep"]
    /\ UNCHANGED <<changed, regVars, connVars, acc, sessVars, main>>

\* servers._lock can be taken by a thread: it is an RLock.
CanLock(t) == lock \in {None, t}

-----------------------------------------------------------------------------
(***************************************************************************)
(* wait_for_connection(), in a session's start handler or in               *)
(* Server.disconnect() of a process being replaced.                        *)
(***************************************************************************)
Matches(t, c) ==
    IF t \in Conns THEN Pid[c] = Pid[t]
    ELSE req[t].kind \in {"pid", "sub"} => Pid[c] = req[t].pid

Oldest(S) == CHOOSE c \in S : \A d \in S : arrival[c] <= arrival[d]

\* What wait_for_timeout.timed_out starts as, and whether a timer thread runs.
TimerFor(kind) ==
    CASE kind = "sub" -> "fired" [] kind = "listen" -> "off" [] OTHER -> "armed"

\* The timer thread sleeps on after the wait it was started for is over.
TimerFires(t) ==
    /\ timer[t] = "armed"
    /\ lock = None
    /\ timer' = [timer EXCEPT ![t] = "fired"]
    /\ SetChanged
    /\ UNCHANGED <<connections, arrival, lock, listening, connVars, acc, sessVars, main>>

WaitCheck(t) ==
    LET found == {c \in connections : Matches(t, c)}
        over == found # {} \/ timer[t] = "fired"
    IN  /\ waiter[t] = "check"
        /\ CanLock(t)
        /\ changed' = FALSE
        /\ waiter' = [waiter EXCEPT ![t] = IF over THEN "done" ELSE "enter"]
        /\ got' = IF t \in Sessions /\ over
                  THEN [got EXCEPT ![t] = IF found = {} THEN None ELSE Oldest(found)]
                  ELSE got
        /\ UNCHANGED <<regVars, connVars, acc, sessions, slock, st, req, started,
                       srv, srvUp, clientUp, fin, known, killed, launchVars, main>>

-----------------------------------------------------------------------------
(***************************************************************************)
(* The accept thread: Connection.__init__.                                 *)
(***************************************************************************)

\* A server process connects, after the server of its parent process if that
\* has one; another one with the same pid can only be its past.
Accept(c) ==
    /\ acc = Idle /\ listening /\ link[c] = "absent"
    /\ (\E d \in Conns : Pid[d] = PPid[c])
          => \E d \in Conns : Pid[d] = PPid[c] /\ arrival[d] # 0
    /\ \A d \in Conns \ {c} : Pid[d] = Pid[c] => link[d] # "up"
    /\ acc' = [Idle EXCEPT !.pc = "info", !.conn = c]
    /\ link' = [link EXCEPT ![c] = "up"]
    /\ UNCHANGED <<regVars, eventVars, disconnected, replaced, server, dh, dsess,
                   unblocked, sessVars, main>>

\* The server is gone, or does not authenticate, or sends no usable answer.
HandshakeFails ==
    /\ acc.pc = "info" /\ lock = None
    /\ link' = [link EXCEPT ![acc.conn] = "down"]
    /\ SetChanged
    /\ acc' = Idle
    /\ UNCHANGED <<regVars, disconnected, replaced, server, dh, dsess, unblocked,
                   sessVars, main>>

PidClash(c) == \E d \in connections : Pid[d] = Pid[c] /\ ~replaced[d]

Append(c) ==
    /\ connections' = connections \cup {c}
    /\ arrival' = [arrival EXCEPT ![c] =
                     1 + Cardinality({d \in Conns : arrival[d] # 0})]
    /\ SetChanged
    /\ acc' = [acc EXCEPT !.pc = "parent", !.first = (connections = {})]
    /\ link' = link

\* Mutant: the clash of process ids goes unnoticed.
RegisterAnyPid ==
    LET c == acc.conn
    IN  /\ acc.pc = "info" /\ lock = None
        /\ IF disconnected[c] THEN acc' = Idle /\ UNCHANGED <<connections, arrival, eventVars, link>>
           ELSE Append(c)
        /\ UNCHANGED <<timer, lock, listening, disconnected, replaced, server, dh,
                       dsess, unblocked, sessVars, main>>

\* Mutant: a disconnect that came first is not checked for.
RegisterLate ==
    LET c == acc.conn
    IN  /\ acc.pc = "info" /\ lock = None
        /\ IF PidClash(c)
           THEN /\ acc' = Idle /\ SetChanged
                /\ link' = [link EXCEPT ![c] = "down"]
                /\ UNCHANGED <<connections, arrival>>
           ELSE Append(c)
        /\ UNCHANGED <<timer, lock, listening, disconnected, replaced, server, dh,
                       dsess, unblocked, sessVars, main>>

\* The server answered; the answer may be all that is left of it.
Register ==
    LET c == acc.conn
    IN  /\ acc.pc = "info" /\ lock = None
        /\ IF disconnected[c]
           THEN acc' = Idle /\ UNCHANGED <<connections, arrival, eventVars, link>>
           ELSE IF PidClash(c)
           THEN /\ acc' = Idle /\ SetChanged
                /\ link' = [link EXCEPT ![c] = "down"]
                /\ UNCHANGED <<connections, arrival>>
           ELSE Append(c)
        /\ UNCHANGED <<timer, lock, listening, disconnected, replaced, server, dh,
                       dsess, unblocked, sessVars, main>>

\* Session.pid, and sessions.get(): the registered sessions with that pid.  A
\* process that reports no parent finds a session that has no server yet.
SessionPid(s) == IF srv[s] = None THEN None ELSE Pid[srv[s]]
SessionsOf(p) == {s \in sessions : SessionPid(s) = p}

FindParent ==
    LET c == acc.conn
        byParent == SessionsOf(PPid[c])
        found == IF byParent # {} THEN byParent ELSE SessionsOf(Pid[c])
    IN  /\ acc.pc = "parent"
        /\ \/ found = {} /\ acc' = [acc EXCEPT !.pc = "orphan"]
           \/ \E s \in found : acc' = [acc EXCEPT !.pc = "notify", !.parent = s]
        /\ UNCHANGED <<regVars, eventVars, connVars, sessVars, main>>

\* A connection with the pid of a session that expects no replacement is
\* closed; the session may have got its pid since it was found.
CheckReplacement ==
    LET c == acc.conn
        s == acc.parent
        unexpected == Pid[c] = SessionPid(s) /\ ~replaced[srv[s]]
    IN  /\ acc.pc = "notify"
        /\ link' = IF unexpected THEN [link EXCEPT ![c] = "down"] ELSE link
        /\ acc' = IF unexpected THEN Idle ELSE [acc EXCEPT !.pc = "tell"]
        /\ UNCHANGED <<regVars, eventVars, disconnected, replaced, server, dh, dsess,
                       unblocked, sessVars, main>>

(***************************************************************************)
(* Client.notify_of_subprocess() on the accept thread.  It tells the       *)
(* client nothing before the session has started, if the client knows      *)
(* already, or if the session was attached by "processId".  Sending fails  *)
(* when the client has gone.                                               *)
(***************************************************************************)
Reports(s, c) ==
    started[s] # "no" /\ c \notin known[s] /\ req[s].kind # "pid"

NotifyParent ==
    LET c == acc.conn
        s == acc.parent
    IN  /\ acc.pc = "tell" /\ slock[s] = None
        /\ known' = IF Reports(s, c) THEN [known EXCEPT ![s] = @ \cup {c}] ELSE known
        /\ acc' = IF Reports(s, c) /\ (~clientUp[s] \/ st[s] = "closed")
                  THEN [acc EXCEPT !.pc = "orphan"] ELSE Idle
        /\ UNCHANGED <<regVars, eventVars, connVars, sessions, slock, st, req, started,
                       got, srv, srvUp, clientUp, fin, killed, launchVars, main>>

\* Nobody was told of it: let the process run, unless it is the root process.
UnblockOrphan ==
    LET c == acc.conn
    IN  /\ acc.pc = "orphan"
        /\ unblocked' = IF acc.first \/ link[c] = "down" THEN unblocked
                        ELSE unblocked \cup {c}
        /\ acc' = Idle
        /\ UNCHANGED <<regVars, eventVars, link, disconnected, replaced, server, dh,
                       dsess, sessVars, main>>

-----------------------------------------------------------------------------
(***************************************************************************)
(* The server processes, and the events that they cause.                   *)
(***************************************************************************)
Phase(c) ==
    IF arrival[c] = 0 THEN "handshake"
    ELSE IF server[c] # None THEN "attached"
    ELSE IF \E s \in Sessions : srv[s] = c THEN "released"
    ELSE "waiting"

\* The process exits, or is killed, and its end of the socket with it.
PeerExit(c) ==
    /\ link[c] = "up"
    /\ Phase(c) \in ExitPhases \/ \E s \in Sessions : Pid[c] \in killed[s]
    /\ link' = [link EXCEPT ![c] = "down"]
    /\ UNCHANGED <<regVars, eventVars, acc, disconnected, replaced, server, dh, dsess,
                   unblocked, sessVars, main>>

\* Server.exited_event with "processReplaced", just before the socket closes.
ProcessReplaced(c) ==
    /\ c \in Replaceable /\ ~replaced[c]
    /\ server[c] # None /\ slock[server[c]] = None
    /\ link[c] # "absent" /\ dh[c] = "idle"
    /\ replaced' = [replaced EXCEPT ![c] = TRUE]
    /\ link' = [link EXCEPT ![c] = "down"]
    /\ UNCHANGED <<regVars, eventVars, acc, disconnected, server, dh, dsess, unblocked,
                   sessVars, main>>

-----------------------------------------------------------------------------
(***************************************************************************)
(* A channel's Disconnect, on its handler thread.  Which disconnect() runs *)
(* is looked up before any lock is taken: Connection's, or the one of the  *)
(* Server that the channel calls from the first step of attach_to_session()*)
(* on.  A Server that does not have its "connection" yet raises            *)
(* AttributeError, and the channel exits the adapter.                      *)
(***************************************************************************)
HandlerOf(c) == IF lock \in Sessions /\ got[lock] = c THEN lock ELSE server[c]

HandleDisconnect(c) ==
    LET s == HandlerOf(c)
    IN  /\ link[c] = "down" /\ dh[c] = "idle"
        /\ dh' = [dh EXCEPT ![c] = IF s = None THEN "connection" ELSE "server"]
        /\ dsess' = [dsess EXCEPT ![c] = s]
        /\ main' = IF s # server[c] THEN "crashed" ELSE main
        /\ UNCHANGED <<regVars, eventVars, acc, link, disconnected, replaced, server,
                       unblocked, sessVars>>

\* Mutant: the connection is deregistered before the Server is told.
RemoveThenTell(c) ==
    /\ dh[c] = "connection" /\ lock = None
    /\ disconnected' = [disconnected EXCEPT ![c] = TRUE]
    /\ connections' = connections \ {c}
    /\ SetChanged
    /\ dh' = [dh EXCEPT ![c] = IF server[c] # None THEN "server" ELSE "done"]
    /\ dsess' = [dsess EXCEPT ![c] = server[c]]
    /\ lock' = IF server[c] # None THEN c ELSE lock
    /\ UNCHANGED <<arrival, timer, listening, acc, link, replaced, server, unblocked,
                   sessVars, main>>

\* Connection.disconnect(): a Server attached meanwhile is told under the lock.
ConnectionDisconnect(c) ==
    /\ dh[c] = "connection" /\ lock = None
    /\ disconnected' = [disconnected EXCEPT ![c] = TRUE]
    /\ IF server[c] # None
       THEN /\ lock' = c
            /\ dh' = [dh EXCEPT ![c] = "server"]
            /\ dsess' = [dsess EXCEPT ![c] = server[c]]
            /\ UNCHANGED <<connections, eventVars>>
       ELSE /\ dh' = [dh EXCEPT ![c] = "done"]
            /\ connections' = connections \ {c}
            /\ IF c \in connections THEN SetChanged ELSE UNCHANGED eventVars
            /\ UNCHANGED <<lock, dsess>>
    /\ UNCHANGED <<arrival, timer, listening, acc, link, replaced, server, unblocked,
                   sessVars, main>>

\* Server.disconnect(): a process that is being replaced is waited for, by the
\* session if it has no client, otherwise by its client's known_subprocesses.
ServerDisconnect(c) ==
    /\ dh[c] = "server"
    /\ IF ~replaced[c]
       THEN dh' = [dh EXCEPT ![c] = "remove"] /\ UNCHANGED <<waiter, timer>>
       ELSE IF clientUp[dsess[c]]
       THEN dh' = [dh EXCEPT ![c] = "known"] /\ UNCHANGED <<waiter, timer>>
       ELSE /\ dh' = [dh EXCEPT ![c] = "replacement"]
            /\ waiter' = [waiter EXCEPT ![c] = "check"]
            /\ timer' = [timer EXCEPT ![c] = "armed"]
    /\ UNCHANGED <<changed, connections, arrival, lock, listening, acc, link,
                   disconnected, replaced, server, dsess, unblocked, sessVars, main>>

\* The timer thread of Session.wait_for() notifies the session only.
KnownTimeout(c) ==
    /\ dh[c] = "known" /\ timer[c] = "off"
    /\ timer' = [timer EXCEPT ![c] = "fired"]
    /\ UNCHANGED <<eventVars, connections, arrival, lock, listening, connVars, acc,
                   sessVars, main>>

ReplacementAwaited(c) ==
    /\ \/ /\ dh[c] = "known" /\ slock[dsess[c]] = None
          /\ \/ ~clientUp[dsess[c]] \/ timer[c] = "fired"
             \/ \E d \in known[dsess[c]] : Pid[d] = Pid[c]
       \/ dh[c] = "replacement" /\ waiter[c] = "done"
    /\ dh' = [dh EXCEPT ![c] = "remove"]
    /\ waiter' = [waiter EXCEPT ![c] = "none"]
    /\ UNCHANGED <<changed, regVars, acc, link, disconnected, replaced, server, dsess,
                   unblocked, sessVars, main>>

\* Mutant: the main thread is not told.
RemoveSilently(c) ==
    /\ dh[c] = "remove" /\ CanLock(c)
    /\ connections' = connections \ {c}
    /\ dh' = [dh EXCEPT ![c] = "finalize"]
    /\ UNCHANGED <<eventVars, arrival, timer, lock, listening, acc, link, disconnected,
                   replaced, server, dsess, unblocked, sessVars, main>>

ServerRemove(c) ==
    /\ dh[c] = "remove" /\ CanLock(c)
    /\ connections' = connections \ {c}
    /\ SetChanged
    /\ dh' = [dh EXCEPT ![c] = "finalize"]
    /\ UNCHANGED <<arrival, timer, lock, listening, acc, link, disconnected, replaced,
                   server, dsess, unblocked, sessVars, main>>

\* Session.notify_changed(): a session all of whose components are gone ends.
SessionsAfter(s, up) == IF up THEN sessions ELSE sessions \ {s}
HasLauncher(s) == launcher[s] = "up"

\* Session.finalize(), as called by a thread: it runs only once.
EnterFinalize(s, t) ==
    /\ fin' = [fin EXCEPT ![s] = IF @ = "no" THEN "unblock" ELSE @]
    /\ finBy' = [finBy EXCEPT ![s] = IF fin[s] = "no" THEN t ELSE @]

\* Component.disconnect() of the Server.
ServerFinalize(c) ==
    LET s == dsess[c]
        mine == fin[s] = "no"
    IN  /\ dh[c] = "finalize" /\ slock[s] = None
        /\ srvUp' = [srvUp EXCEPT ![s] = FALSE]
        /\ sessions' = SessionsAfter(s, clientUp[s] \/ HasLauncher(s))
        /\ EnterFinalize(s, c)
        /\ slock' = IF mine THEN [slock EXCEPT ![s] = c] ELSE slock
        /\ dh' = [dh EXCEPT ![c] = IF mine THEN "finalizing" ELSE "done"]
        /\ lock' = IF ~mine /\ lock = c THEN None ELSE lock
        /\ UNCHANGED <<connections, arrival, timer, listening, eventVars, acc, link,
                       disconnected, replaced, server, dsess, unblocked, st, req,
                       started, got, srv, clientUp, known, killed, launcher, lpid,
                       overtaken, main>>

-----------------------------------------------------------------------------
(***************************************************************************)
(* A session's client: its requests are handled one at a time under        *)
(* Session.lock.  A DAP client starts no session that has terminated.      *)
(***************************************************************************)
NewClient(s) ==
    /\ st[s] = "none"
    /\ s # First => st[First] # "none"
    /\ st' = [st EXCEPT ![s] = "idle"]
    /\ clientUp' = [clientUp EXCEPT ![s] = TRUE]
    /\ sessions' = sessions \cup {s}
    /\ UNCHANGED <<regVars, eventVars, connVars, acc, slock, req, started, got, srv,
                   srvUp, fin, known, killed, launchVars, main>>

CanHandle(s) == st[s] = "idle" /\ slock[s] = None

\* launch_request up to the wait for the launcher, which releases Session.lock.
LaunchRequest(s) ==
    /\ CanHandle(s) /\ srv[s] = None /\ fin[s] = "no"
    /\ "launch" \in Kinds /\ s = First /\ connections = {} /\ lock = None
    /\ req' = [req EXCEPT ![s] = [kind |-> "launch", pid |-> None]]
    /\ listening' = TRUE
    /\ st' = [st EXCEPT ![s] = "launching"]
    /\ UNCHANGED <<eventVars, connections, arrival, timer, lock, connVars, acc,
                   sessions, slock, started, got, srv, srvUp, clientUp, fin, known,
                   killed, launchVars, main>>

\* wait_for_connection() begins; Session.lock is kept while it lasts.
LookForServer(s) ==
    /\ st' = [st EXCEPT ![s] = "starting"]
    /\ slock' = [slock EXCEPT ![s] = s]
    /\ waiter' = [waiter EXCEPT ![s] = "check"]

\* attach_request up to wait_for_connection().
AttachRequest(s, r) ==
    /\ CanHandle(s) /\ srv[s] = None /\ fin[s] = "no"
    /\ r.kind \in Kinds \ {"launch"}
    /\ r.kind \in {"pid", "sub"} <=> r.pid # None
    /\ r.kind = "listen" => ~listening
    /\ req' = [req EXCEPT ![s] = r]
    /\ listening' = TRUE
    /\ LookForServer(s)
    /\ timer' = [timer EXCEPT ![s] = TimerFor(r.kind)]
    /\ UNCHANGED <<changed, connections, arrival, lock, connVars, acc, sessions,
                   started, got, srv, srvUp, clientUp, fin, known, killed, launchVars,
                   main>>

(***************************************************************************)
(* The launcher of a "launch" session: it connects, reports the process    *)
(* that it has started, which may be a stub of the debuggee, and is lost.  *)
(* The start handler waits meanwhile with Session.lock released.           *)
(***************************************************************************)
LauncherConnects(s) ==
    /\ req[s].kind = "launch" /\ launcher[s] = "none" /\ slock[s] = None
    /\ launcher' = [launcher EXCEPT ![s] = "up"]
    /\ UNCHANGED <<eventVars, regVars, connVars, acc, sessions, slock, st, req, started,
                   got, srv, srvUp, clientUp, fin, known, killed, lpid, finBy,
                   overtaken, main>>

LauncherReports(s) ==
    /\ launcher[s] = "up" /\ lpid[s] = None /\ slock[s] = None
    /\ \E p \in Spawned : lpid' = [lpid EXCEPT ![s] = p]
    /\ UNCHANGED <<eventVars, regVars, connVars, acc, sessions, slock, st, req, started,
                   got, srv, srvUp, clientUp, fin, known, killed, launcher, finBy,
                   overtaken, main>>

\* Component.disconnect() of the Launcher.
LauncherLost(s) ==
    /\ launcher[s] = "up" /\ slock[s] = None
    /\ launcher' = [launcher EXCEPT ![s] = "gone"]
    /\ sessions' = SessionsAfter(s, clientUp[s] \/ srvUp[s])
    /\ EnterFinalize(s, Launcher)
    /\ slock' = IF fin[s] = "no" THEN [slock EXCEPT ![s] = Launcher] ELSE slock
    /\ overtaken' = IF fin[s] = "no" /\ st[s] = "launching" THEN overtaken \cup {s}
                    ELSE overtaken
    /\ UNCHANGED <<eventVars, regVars, connVars, acc, st, req, started, got, srv,
                   srvUp, clientUp, known, killed, lpid, main>>

\* The start handler has the launcher's "process" event, be the launcher lost
\* since or not, and looks for a server.
LaunchProceeds(s) ==
    /\ st[s] = "launching" /\ slock[s] = None /\ lpid[s] # None
    /\ LookForServer(s)
    /\ timer' = [timer EXCEPT ![s] = TimerFor("launch")]
    /\ UNCHANGED <<changed, connections, arrival, lock, listening, connVars, acc,
                   sessions, req, started, got, srv, srvUp, clientUp, fin, known,
                   killed, launchVars, main>>

\* Leave the handler: other handlers of the session can run.
Return(s) == st' = [st EXCEPT ![s] = "idle"] /\ slock' = [slock EXCEPT ![s] = None]

\* The launcher, or its report, did not come in time, or it refused to launch.
LaunchFails(s) ==
    /\ st[s] = "launching" /\ slock[s] = None
    /\ Return(s)
    /\ UNCHANGED <<eventVars, regVars, connVars, acc, sessions, req, started, got, srv,
                   srvUp, clientUp, fin, known, killed, launchVars, main>>

\* finalize() on the session's own thread, for one of the reasons it has.
Finalize(s, why) ==
    /\ slock' = [slock EXCEPT ![s] = s]
    /\ st' = [st EXCEPT ![s] = why]
    /\ EnterFinalize(s, s)
    /\ UNCHANGED <<launcher, lpid, overtaken>>

\* There is no server: an error, except for a subprocess that is gone already.
NoConnection(s) ==
    /\ waiter[s] = "done" /\ got[s] = None
    /\ waiter' = [waiter EXCEPT ![s] = "none"]
    /\ IF req[s].kind = "sub"
       THEN Finalize(s, "terminate")
       ELSE Return(s) /\ UNCHANGED <<fin, launchVars>>
    /\ UNCHANGED <<changed, regVars, connVars, acc, sessions, req, started, got, srv,
                   srvUp, clientUp, known, killed, main>>

\* Mutant: a connection that another session debugs is taken over.
AttachUnchecked(s) ==
    LET c == got[s]
    IN  /\ waiter[s] = "done" /\ c # None /\ lock = None
        /\ lock' = s
        /\ UNCHANGED <<eventVars, connections, arrival, timer, listening, connVars, acc,
                       sessVars, main>>

(***************************************************************************)
(* Connection.attach_to_session(), under servers._lock, which was released *)
(* after wait_for_connection() had found the connection.  If another       *)
(* session has it, "attach" fails; "launch" does not expect the ValueError *)
(* and takes the adapter down.  Else a Server is created, and the channel  *)
(* calls it at once.                                                       *)
(***************************************************************************)
AttachBegins(s) ==
    LET c == got[s]
    IN  /\ waiter[s] = "done" /\ c # None /\ lock = None
        /\ IF server[c] = None
           THEN lock' = s /\ UNCHANGED <<waiter, got, st, slock, main>>
           ELSE /\ Return(s)
                /\ got' = [got EXCEPT ![s] = None]
                /\ waiter' = [waiter EXCEPT ![s] = "none"]
                /\ main' = IF req[s].kind = "launch" THEN "crashed" ELSE main
                /\ lock' = lock
        /\ UNCHANGED <<changed, connections, arrival, timer, listening, connVars, acc,
                       sessions, req, started, srv, srvUp, clientUp, fin, known, killed,
                       launchVars>>

\* The Server knows its connection, and both the session and the connection
\* know the Server.
AttachToSession(s) ==
    LET c == got[s]
    IN  /\ lock = s
        /\ lock' = None
        /\ got' = [got EXCEPT ![s] = None]
        /\ waiter' = [waiter EXCEPT ![s] = "none"]
        /\ server' = [server EXCEPT ![c] = s]
        /\ srv' = [srv EXCEPT ![s] = c]
        /\ srvUp' = [srvUp EXCEPT ![s] = TRUE]
        /\ st' = [st EXCEPT ![s] = "attached"]
        /\ UNCHANGED <<changed, connections, arrival, timer, listening, link,
                       disconnected, replaced, dh, dsess, unblocked, acc, sessions,
                       slock, req, started, clientUp, fin, known, killed, launchVars,
                       main>>

\* The server answers "initialize" and the start request.
StartSucceeds(s) ==
    /\ st[s] = "attached" /\ link[srv[s]] = "up"
    /\ Return(s)
    /\ started' = [started EXCEPT ![s] = "initialized"]
    /\ UNCHANGED <<eventVars, regVars, connVars, acc, sessions, req, got, srv, srvUp,
                   clientUp, fin, known, killed, launchVars, main>>

\* It refuses one of them, or is gone at "initialize": the start fails.
StartFails(s) ==
    /\ st[s] = "attached"
    /\ Return(s)
    /\ UNCHANGED <<eventVars, regVars, connVars, acc, sessions, req, started, got, srv,
                   srvUp, clientUp, fin, known, killed, launchVars, main>>

\* It is gone by the time of the start request: the session is over.
StartLost(s) ==
    /\ st[s] = "attached" /\ link[srv[s]] = "down"
    /\ Finalize(s, "terminate")
    /\ UNCHANGED <<eventVars, regVars, connVars, acc, sessions, req, started, got, srv,
                   srvUp, clientUp, known, killed, main>>

\* configurationDone_request ends with the children nobody debugs yet.
ConfigurationDone(s) ==
    /\ CanHandle(s) /\ started[s] = "initialized" /\ lock = None
    /\ started' = [started EXCEPT ![s] = "configured"]
    /\ known' = [known EXCEPT ![s] = @ \cup
                   {c \in connections : server[c] = None /\ PPid[c] = Pid[srv[s]]
                                        /\ req[s].kind # "pid"}]
    /\ UNCHANGED <<eventVars, regVars, connVars, acc, sessions, slock, st, req, got,
                   srv, srvUp, clientUp, fin, killed, launchVars, main>>

TerminateRequest(s) ==
    /\ CanHandle(s) /\ fin[s] = "no"
    /\ Finalize(s, "terminate")
    /\ UNCHANGED <<eventVars, regVars, connVars, acc, sessions, req, started, got, srv,
                   srvUp, clientUp, known, killed, main>>

DisconnectRequest(s) ==
    /\ CanHandle(s)
    /\ Finalize(s, "disconnect")
    /\ UNCHANGED <<eventVars, regVars, connVars, acc, sessions, req, started, got, srv,
                   srvUp, clientUp, known, killed, main>>

\* Client.disconnect(): the channel was lost, or closed by disconnect_request.
ClientDisconnect(s) ==
    /\ st[s] \in {"idle", "closed"} /\ slock[s] = None
    /\ clientUp' = [clientUp EXCEPT ![s] = FALSE]
    /\ sessions' = SessionsAfter(s, srvUp[s] \/ HasLauncher(s))
    /\ Finalize(s, "gone")
    /\ UNCHANGED <<eventVars, regVars, connVars, acc, req, started, got, srv, srvUp,
                   known, killed, main>>

-----------------------------------------------------------------------------
(***************************************************************************)
(* Session.finalize(), by the thread that holds Session.lock: the client's *)
(* handler thread, or the one of the server's or of the launcher's channel.*)
(***************************************************************************)
FinAt(s, step) == fin[s] = step /\ slock[s] # None

\* Mutant: the main thread is left waiting for a first server.
LeaveMainWaiting(s) ==
    /\ FinAt(s, "unblock") /\ CanLock(slock[s])
    /\ fin' = [fin EXCEPT ![s] = IF srv[s] = None THEN "launcher"
                                 ELSE IF srvUp[s] THEN "request" ELSE "detach"]
    /\ UNCHANGED <<eventVars, regVars, connVars, acc, sessions, slock, st, req, started,
                   got, srv, srvUp, clientUp, known, killed, launchVars, main>>

\* dont_wait_for_first_connection().
FinUnblock(s) ==
    /\ FinAt(s, "unblock") /\ CanLock(slock[s])
    /\ SetChanged
    /\ fin' = [fin EXCEPT ![s] = IF srv[s] = None THEN "launcher"
                                 ELSE IF srvUp[s] THEN "request" ELSE "detach"]
    /\ UNCHANGED <<regVars, connVars, acc, sessions, slock, st, req, started, got, srv,
                   srvUp, clientUp, known, killed, launchVars, main>>

\* The server is asked to disconnect; it answers, or its channel is lost.
FinRequest(s) ==
    /\ FinAt(s, "request")
    /\ fin' = [fin EXCEPT ![s] = "detach"]
    /\ UNCHANGED <<eventVars, regVars, connVars, acc, sessions, slock, st, req, started,
                   got, srv, srvUp, clientUp, known, killed, launchVars, main>>

\* Server.detach_from_session(): the Connection takes over again.
FinDetach(s) ==
    /\ FinAt(s, "detach") /\ CanLock(slock[s])
    /\ srvUp' = [srvUp EXCEPT ![s] = FALSE]
    /\ sessions' = SessionsAfter(s, clientUp[s] \/ HasLauncher(s))
    /\ server' = [server EXCEPT ![srv[s]] = None]
    /\ fin' = [fin EXCEPT ![s] = "launcher"]
    /\ UNCHANGED <<eventVars, regVars, link, disconnected, replaced, dh, dsess,
                   unblocked, acc, slock, st, req, started, got, srv, clientUp, known,
                   killed, launchVars, main>>

\* A launcher that is connected is waited for, with Session.lock released.
FinLauncher(s) ==
    /\ FinAt(s, "launcher")
    /\ fin' = [fin EXCEPT ![s] = IF HasLauncher(s) THEN "waiting" ELSE "client"]
    /\ slock' = IF HasLauncher(s) THEN [slock EXCEPT ![s] = None] ELSE slock
    /\ UNCHANGED <<eventVars, regVars, connVars, acc, sessions, st, req, started, got,
                   srv, srvUp, clientUp, known, killed, launchVars, main>>

FinLauncherGone(s) ==
    /\ fin[s] = "waiting" /\ ~HasLauncher(s) /\ slock[s] = None
    /\ fin' = [fin EXCEPT ![s] = "client"]
    /\ slock' = [slock EXCEPT ![s] = finBy[s]]
    /\ UNCHANGED <<eventVars, regVars, connVars, acc, sessions, st, req, started, got,
                   srv, srvUp, clientUp, known, killed, launchVars, main>>

\* "terminated" is sent; a "launch" session also ends every other server.
FinClient(s) ==
    /\ FinAt(s, "client")
    /\ IF /\ started[s] # "no" /\ req[s].kind = "launch"
          /\ srv[s] # None => ~replaced[srv[s]]
       THEN /\ listening' = FALSE
            /\ fin' = [fin EXCEPT ![s] = "kill"]
            /\ killed' = [killed EXCEPT ![s] = {lpid[s]} \ {None}]
       ELSE /\ fin' = [fin EXCEPT ![s] = "done"]
            /\ UNCHANGED <<listening, killed>>
    /\ UNCHANGED <<eventVars, connections, arrival, timer, lock, connVars, acc,
                   sessions, slock, st, req, started, got, srv, srvUp, clientUp, known,
                   launchVars, main>>

FinKill(s) ==
    LET left == {Pid[c] : c \in connections} \ killed[s]
    IN  /\ FinAt(s, "kill") /\ CanLock(slock[s])
        /\ killed' = [killed EXCEPT ![s] = @ \cup left]
        /\ fin' = [fin EXCEPT ![s] = IF left = {} THEN "done" ELSE "kill"]
        /\ UNCHANGED <<eventVars, regVars, connVars, acc, sessions, slock, st, req,
                       started, got, srv, srvUp, clientUp, known, launchVars,
                       main>>

\* Back in Connection.disconnect() or Server.disconnect(): locks are released.
FinReturn(c) ==
    /\ dh[c] = "finalizing" /\ fin[dsess[c]] = "done"
    /\ dh' = [dh EXCEPT ![c] = "done"]
    /\ slock' = [slock EXCEPT ![dsess[c]] = None]
    /\ lock' = IF lock = c THEN None ELSE lock
    /\ UNCHANGED <<eventVars, connections, arrival, timer, listening, acc, link,
                   disconnected, replaced, server, dsess, unblocked, sessions, st, req,
                   started, got, srv, srvUp, clientUp, fin, known, killed, launchVars, main>>

LauncherReturn(s) ==
    /\ slock[s] = Launcher /\ fin[s] = "done"
    /\ slock' = [slock EXCEPT ![s] = None]
    /\ UNCHANGED <<eventVars, regVars, connVars, acc, sessions, st, req, started, got,
                   srv, srvUp, clientUp, fin, known, killed, launchVars, main>>

\* finalize() has returned to the session's own thread: it is over, or it is
\* some other thread that runs it.
FinalizeReturned(s) == slock[s] = s /\ (fin[s] = "done" \/ finBy[s] # s)

\* Back in terminate_request, attach_request or Client.disconnect().
HandlerReturn(s) ==
    /\ FinalizeReturned(s)
    /\ st[s] \in {"terminate", "gone"}
    /\ st' = [st EXCEPT ![s] = IF @ = "gone" THEN "gone" ELSE "idle"]
    /\ slock' = [slock EXCEPT ![s] = None]
    /\ UNCHANGED <<eventVars, regVars, connVars, acc, sessions, req, started, got, srv,
                   srvUp, clientUp, fin, known, killed, launchVars, main>>

\* The rest of disconnect_request: a stdio client takes every server with it.
CloseClient(s) ==
    LET last == Stdio /\ s = First
    IN  /\ FinalizeReturned(s) /\ st[s] = "disconnect"
        /\ last => lock = None
        /\ st' = [st EXCEPT ![s] = "closed"]
        /\ slock' = [slock EXCEPT ![s] = None]
        /\ listening' = IF last THEN FALSE ELSE listening
        /\ link' = [c \in Conns |-> IF last /\ c \in connections THEN "down" ELSE link[c]]
        /\ UNCHANGED <<eventVars, connections, arrival, timer, lock, acc, disconnected,
                       replaced, server, dh, dsess, unblocked, sessions, req, started,
                       got, srv, srvUp, clientUp, fin, known, killed, launchVars, main>>

-----------------------------------------------------------------------------
(***************************************************************************)
(* The main thread: wait_until_disconnected(), wait_until_ended(), exit.   *)
(* wait_until_ended() checks and clears its Event under one lock, so it    *)
(* ends in a state in which it finds no session.                           *)
(***************************************************************************)
MainCheck ==
    /\ waiter[Main] = "check" /\ lock = None
    /\ changed' = FALSE
    /\ waiter' = [waiter EXCEPT ![Main] = IF connections = {} THEN "none" ELSE "enter"]
    /\ main' = IF connections = {} THEN "sessions" ELSE main
    /\ UNCHANGED <<regVars, connVars, acc, sessVars>>

MainExit ==
    /\ main = "sessions" /\ sessions = {}
    /\ main' = "exited"
    /\ UNCHANGED <<eventVars, regVars, connVars, acc, sessVars>>

-----------------------------------------------------------------------------
AcceptThread ==
    \/ HandshakeFails \/ Register \/ FindParent \/ CheckReplacement \/ NotifyParent
    \/ UnblockOrphan

ServerThread(c) ==
    \/ HandleDisconnect(c) \/ ConnectionDisconnect(c) \/ ServerDisconnect(c)
    \/ KnownTimeout(c) \/ ReplacementAwaited(c) \/ ServerRemove(c) \/ ServerFinalize(c) \/ FinReturn(c)

FinalizeStep(s) ==
    \/ FinUnblock(s) \/ FinRequest(s) \/ FinDetach(s) \/ FinLauncher(s)
    \/ FinLauncherGone(s) \/ FinClient(s) \/ FinKill(s) \/ LauncherReturn(s)

\* Steps of a handler that has begun, and of Client.disconnect() after close().
ClientThread(s) ==
    \/ LaunchProceeds(s) \/ LaunchFails(s)
    \/ NoConnection(s) \/ AttachBegins(s) \/ AttachToSession(s)
    \/ StartSucceeds(s) \/ StartFails(s) \/ StartLost(s)
    \/ HandlerReturn(s) \/ CloseClient(s)

ClientRequest(s) ==
    \/ NewClient(s)
    \/ LaunchRequest(s)
    \/ \E r \in Start : AttachRequest(s, r)
    \/ ConfigurationDone(s) \/ TerminateRequest(s) \/ DisconnectRequest(s)
    \/ ClientDisconnect(s)

WaitStep ==
    \/ \E t \in Waiters : EnterWait(t)
    \/ \E t \in Conns \cup Sessions : WaitCheck(t) \/ TimerFires(t)

Peer(c) == Accept(c) \/ PeerExit(c) \/ ProcessReplaced(c)

LauncherStep(s) == LauncherConnects(s) \/ LauncherReports(s) \/ LauncherLost(s)

Running == main \notin {"exited", "crashed"}

Next ==
    /\ Running
    /\ \/ AcceptThread \/ WaitStep \/ MainCheck \/ MainExit
       \/ \E c \in Conns : ServerThread(c) \/ Peer(c)
       \/ \E s \in Sessions : FinalizeStep(s) \/ ClientThread(s) \/ ClientRequest(s)
                               \/ LauncherStep(s)

Spec == Init /\ [][Next]_vars

(***************************************************************************)
(* Every thread of the adapter that can take a step does so in the end;    *)
(* timers go off; a channel that disconnect_request closed reports its     *)
(* Disconnect.  Nothing is assumed of servers, clients and launchers.      *)
(***************************************************************************)
Fairness ==
    /\ WF_vars(Running /\ AcceptThread)
    /\ WF_vars(Running /\ MainCheck) /\ WF_vars(Running /\ MainExit)
    /\ \A t \in Waiters : WF_vars(Running /\ EnterWait(t))
    /\ \A t \in Conns \cup Sessions :
          WF_vars(Running /\ WaitCheck(t)) /\ WF_vars(Running /\ TimerFires(t))
    /\ \A c \in Conns : WF_vars(Running /\ ServerThread(c))
    /\ \A s \in Sessions :
          /\ WF_vars(Running /\ FinalizeStep(s))
          /\ WF_vars(Running /\ ClientThread(s))
          /\ WF_vars(Running /\ st[s] = "closed" /\ ClientDisconnect(s))

FairSpec == Spec /\ Fairness

-----------------------------------------------------------------------------
\* Every variable has the type that the code gives it, and a session that has
\* attached has a server to talk to.
TypeOK ==
    /\ connections \subseteq Conns
    /\ arrival \in [Conns -> 0 .. Cardinality(Conns)]
    /\ changed \in BOOLEAN
    /\ waiter \in [Waiters -> {"none", "enter", "asleep", "check", "done"}]
    /\ timer \in [Conns \cup Sessions -> {"off", "armed", "fired"}]
    /\ lock \in Conns \cup Sessions \cup {None}
    /\ listening \in BOOLEAN
    /\ acc \in [pc : {"idle", "info", "parent", "notify", "tell", "orphan"},
                conn : Conns \cup {None}, parent : Sessions \cup {None}, first : BOOLEAN]
    /\ link \in [Conns -> {"absent", "up", "down"}]
    /\ disconnected \in [Conns -> BOOLEAN]
    /\ replaced \in [Conns -> BOOLEAN]
    /\ server \in [Conns -> Sessions \cup {None}]
    /\ dh \in [Conns -> {"idle", "connection", "server", "known", "replacement",
                         "remove", "finalize", "finalizing", "done"}]
    /\ dsess \in [Conns -> Sessions \cup {None}]
    /\ unblocked \subseteq Conns
    /\ sessions \subseteq Sessions
    /\ slock \in [Sessions -> Conns \cup Sessions \cup {Launcher, None}]
    /\ st \in [Sessions -> {"none", "idle", "launching", "starting", "attached",
                            "terminate", "disconnect", "closed", "gone"}]
    /\ req \in [Sessions -> Start]
    /\ started \in [Sessions -> {"no", "initialized", "configured"}]
    /\ got \in [Sessions -> Conns \cup {None}]
    /\ srv \in [Sessions -> Conns \cup {None}]
    /\ \A s \in Sessions : st[s] = "attached" => srv[s] \in Conns
    /\ srvUp \in [Sessions -> BOOLEAN]
    /\ clientUp \in [Sessions -> BOOLEAN]
    /\ fin \in [Sessions -> {"no", "unblock", "request", "detach", "launcher",
                             "waiting", "client", "kill", "done"}]
    /\ known \in [Sessions -> SUBSET Conns]
    /\ killed \in [Sessions -> SUBSET Pids]
    /\ launcher \in [Sessions -> {"none", "up", "gone"}]
    /\ lpid \in [Sessions -> Pids \cup {None}]
    /\ finBy \in [Sessions -> Conns \cup Sessions \cup {Launcher, None}]
    /\ overtaken \subseteq Sessions
    /\ main \in {"servers", "sessions", "exited", "crashed"}

(***************************************************************************)
(* A registered connection still has its disconnect() to come: none stays  *)
(* in _connections for ever because its server went away while             *)
(* Connection.__init__ was still registering it.                           *)
(***************************************************************************)
NoGhostConnection == \A c \in connections : dh[c] # "done"

(***************************************************************************)
(* Server.disconnect() finds its connection in _connections, from where it *)
(* removes it without a check: the ValueError would end the adapter.       *)
(***************************************************************************)
RemovalFindsConnection == \A c \in Conns : dh[c] = "remove" => c \in connections

(***************************************************************************)
(* Two registered servers have different process ids, unless one of them   *)
(* is known to have been replaced: a pid identifies a debuggee.            *)
(***************************************************************************)
PidsIdentifyServers ==
    \A c, d \in connections :
        c # d /\ Pid[c] = Pid[d] => replaced[c] \/ replaced[d]

(***************************************************************************)
(* A session and its server agree about each other from attach_to_session  *)
(* to detach_from_session, whichever thread finalizes the session: no two  *)
(* sessions debug one server, and finalize() gives it back.  A launch      *)
(* whose launcher is lost while launch_request waits for it is finalized   *)
(* before it attaches: such a session keeps its server for ever.           *)
(***************************************************************************)
SessionOwnsServer ==
    \A s \in Sessions : srv[s] # None =>
        (server[srv[s]] = s
         <=> fin[s] \in {"no", "unblock", "request", "detach"} \/ s \in overtaken)

(***************************************************************************)
(* wait_for_connection() clears the Event that the main thread waits for,  *)
(* and may swallow its wake-up.  Then somebody is still to set it again:   *)
(* the main thread never sleeps through the end of the last server and the *)
(* last session.  In a session that was finalized while its launch_request *)
(* waited, nobody is: MainAlwaysTold.                                      *)
(***************************************************************************)
Oversleeps ==
    /\ main = "servers" /\ waiter[Main] = "asleep" /\ connections = {}
    /\ \E c \in Conns : arrival[c] # 0
    /\ \A s \in Sessions : st[s] # "none" => fin[s] \notin {"no", "unblock"}
    /\ \A c \in Conns : dh[c] \notin {"server", "known", "replacement", "remove"}

MainNotForgotten == Oversleeps => overtaken # {}

(***************************************************************************)
(* Once every client that came has asked to leave, or is gone, and every   *)
(* server is gone, the adapter exits, and not by a crash.                  *)
(***************************************************************************)
EveryoneLeaves ==
    /\ st[First] # "none"
    /\ \A s \in Sessions : st[s] \in {"none", "disconnect", "closed", "gone"}
    /\ \A c \in Conns : link[c] # "up"

AdapterExits == []<>~EveryoneLeaves \/ <>(main = "exited")

(***************************************************************************)
(* What the code says of itself, and does not do.                          *)
(***************************************************************************)

\* The comment in Connection.disconnect(): a Server on a connection that is
\* lost is told of it, so that it can clean up.
AttachedServerIsTold ==
    \A c \in Conns : server[c] # None => dh[c] # "done"

\* The same comment: having been told, it does clean up through finalize().
DisconnectCompletes ==
    \A c \in Conns : dh[c] = "connection" ~> (dh[c] = "done" \/ ~Running)

\* The comment in Server.disconnect(): the replacement of a process is waited
\* for, whether or not there is a client to report it to.
ReplacementIsAwaited ==
    [][\A c \in Conns : dh[c] = "replacement" /\ dh'[c] = "remove" =>
           \/ timer[c] = "fired"
           \/ \E d \in connections \ {c} : Pid[d] = Pid[c]]_vars

\* The comment in Connection.__init__: a subprocess that no client has been, or
\* is going to be, told of is let run.
OrphansUnblocked ==
    \A c \in Conns :
        /\ arrival[c] # 0 /\ acc.conn # c
        /\ (\E d \in Conns : Pid[d] = PPid[c]) /\ link[c] = "up"
        /\ \A s \in Sessions : srv[s] # c /\ c \notin known[s]
        /\ \A s \in Sessions : started[s] # "initialized"
        => c \in unblocked

\* Another comment there: a "launch" session closes the servers that remain.
LaunchEndsAll ==
    \A s \in Sessions :
        fin[s] = "done" /\ started[s] # "no" /\ req[s].kind = "launch" =>
            \A c \in connections : Pid[c] \in killed[s]

\* The docstring of wait_until_disconnected(): it blocks until all servers have
\* disconnected.  It is not left asleep after that, with no timer to wake it.
MainAlwaysTold == Oversleeps => \E t \in Conns \cup Sessions : timer[t] = "armed"

\* The docstring of finalize(): it waits for the server to disconnect, and closes
\* its channel.  A finalized session has no server of its own.
FinalizedGivesBack ==
    \A s \in Sessions : srv[s] # None /\ fin[s] = "done" => server[srv[s]] # s

\* The comment in Connection.disconnect(): one that happens while the Server is
\* being instantiated is told to it.  It does not bring the adapter down.
AttachSurvivesDisconnect == main # "crashed"

=============================================================================

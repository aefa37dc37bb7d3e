------------------------ MODULE ServerRegistryProofs ------------------------
(***************************************************************************)
(* Theorems about ServerRegistry, for any finite set of connections, any   *)
(* sessions, processes and kinds of sessions.                              *)
(***************************************************************************)
EXTENDS ServerRegistry, FiniteSetTheorems, WellFoundedInduction, TLAPS

-----------------------------------------------------------------------------
(***************************************************************************)
(* Types, in six groups of variables.   The accept thread has a connection *)
(* in hand while it is busy, one that is new until it is registered; a     *)
(* thread in the middle of Server.disconnect() knows its session.          *)
(***************************************************************************)
Leaving == {"server", "known", "replacement", "remove", "finalize", "finalizing"}

ConnTypes ==
    /\ link \in [Conns -> {"absent", "up", "down"}]
    /\ disconnected \in [Conns -> BOOLEAN]
    /\ replaced \in [Conns -> BOOLEAN]
    /\ server \in [Conns -> Sessions \cup {None}]
    /\ dh \in [Conns -> {"idle", "connection", "done"} \cup Leaving]
    /\ dsess \in [Conns -> Sessions \cup {None}]
    /\ unblocked \subseteq Conns
    /\ \A c \in Conns : dh[c] \in Leaving => dsess[c] \in Sessions

RegTypes ==
    /\ connections \subseteq Conns
    /\ arrival \in [Conns -> 0 .. Cardinality(Conns)]
    /\ timer \in [Conns \cup Sessions -> {"off", "armed", "fired"}]
    /\ lock \in Conns \cup Sessions \cup {None}
    /\ listening \in BOOLEAN

EventTypes ==
    /\ changed \in BOOLEAN
    /\ waiter \in [Waiters -> {"none", "enter", "asleep", "check", "done"}]

AccTypes ==
    /\ acc \in [pc : {"idle", "info", "parent", "notify", "tell", "orphan"},
                conn : Conns \cup {None}, parent : Sessions \cup {None}, first : BOOLEAN]
    /\ acc.pc # "idle" => acc.conn \in Conns
    /\ acc.pc \in {"notify", "tell"} => acc.parent \in Sessions

NewConnOK ==
    /\ acc.pc = "info" => arrival[acc.conn] = 0 /\ link[acc.conn] # "absent"
    /\ \A c \in Conns : link[c] = "absent" => arrival[c] = 0

\* Who may hold Session.lock; the states of a start handler that looks for a server
\* or has one; the steps of finalize() after the server was given back.
Holders == Conns \cup Sessions \cup {Launcher}
Begun == {"starting", "attached"}
Given == {"launcher", "waiting", "client", "kill", "done"}

SessTypes ==
    /\ sessions \subseteq Sessions
    /\ slock \in [Sessions -> Holders \cup {None}]
    /\ st \in [Sessions -> {"none", "idle", "launching"} \cup Begun
                            \cup {"terminate", "disconnect", "closed", "gone"}]
    /\ req \in [Sessions -> Start]
    /\ started \in [Sessions -> {"no", "initialized", "configured"}]
    /\ got \in [Sessions -> Conns \cup {None}]
    /\ srv \in [Sessions -> Conns \cup {None}]
    /\ srvUp \in [Sessions -> BOOLEAN]
    /\ clientUp \in [Sessions -> BOOLEAN]
    /\ fin \in [Sessions -> {"no", "unblock", "request", "detach"} \cup Given]
    /\ known \in [Sessions -> SUBSET Conns]
    /\ killed \in [Sessions -> SUBSET Pids]

LaunchTypes ==
    /\ launcher \in [Sessions -> {"none", "up", "gone"}]
    /\ lpid \in [Sessions -> Pids \cup {None}]
    /\ finBy \in [Sessions -> Holders \cup {None}]
    /\ overtaken \subseteq Sessions

TypeInv ==
    /\ ConnTypes /\ RegTypes /\ EventTypes /\ AccTypes /\ NewConnOK /\ SessTypes
    /\ LaunchTypes
    /\ main \in {"servers", "sessions", "exited", "crashed"}

USE ConstantsAssumption, FiniteAssumption, KindsAssumption

LEMMA InitTyped == Init => TypeInv
<1> SUFFICES ASSUME Init PROVE TypeInv
    OBVIOUS
<1>1. Cardinality(Conns) \in Nat
    BY FS_CardinalityType
<1>2. NoStart \in Start
    BY DEF NoStart, Start, AllKinds
<1>3. ConnTypes
    BY DEF Init, ConnTypes, Leaving
<1>4. RegTypes
    BY <1>1 DEF Init, RegTypes
<1>5. EventTypes
    BY DEF Init, EventTypes
<1>6. AccTypes /\ NewConnOK
    BY DEF Init, AccTypes, NewConnOK, Idle
<1>7. SessTypes
    BY <1>2 DEF Init, SessTypes, Begun, Given, Holders
<1>8. LaunchTypes
    BY DEF Init, LaunchTypes, Holders
<1> QED
    BY <1>3, <1>4, <1>5, <1>6, <1>7, <1>8 DEF Init, TypeInv

\* set() wakes threads, and keeps their states.
LEMMA SetTyped ==
    ASSUME TypeInv, SetChanged
    PROVE  EventTypes'
BY DEF TypeInv, EventTypes, SetChanged, Wake

\* The variables of a group that a step leaves alone keep their types.
LEMMA FrameTypes ==
    /\ ConnTypes /\ UNCHANGED connVars => ConnTypes'
    /\ RegTypes /\ UNCHANGED regVars => RegTypes'
    /\ EventTypes /\ UNCHANGED eventVars => EventTypes'
    /\ AccTypes /\ UNCHANGED acc => AccTypes'
    /\ SessTypes /\ UNCHANGED sessVars => SessTypes'
    /\ LaunchTypes /\ UNCHANGED launchVars => LaunchTypes'
    /\ LaunchTypes /\ UNCHANGED sessVars => LaunchTypes'
    /\ NewConnOK /\ UNCHANGED <<acc, link, arrival>> => NewConnOK'
BY DEF ConnTypes, RegTypes, EventTypes, AccTypes, SessTypes, NewConnOK, connVars, regVars,
       eventVars, sessVars, LaunchTypes, launchVars

\* A set of natural numbers has a least member.
LEMMA Smallest ==
    ASSUME NEW T \in SUBSET Nat, T # {}
    PROVE  \E n \in T : \A m \in T : n <= m
<1> DEFINE R == OpToRel(<, Nat)
<1>1. IsWellFoundedOn(R, Nat)
    BY NatLessThanWellFounded
<1>2. \A x, y \in Nat : <<x, y>> \in R <=> x < y
    BY DEF OpToRel
<1> HIDE DEF R
<1>3. PICK n \in T : \A m \in T : ~ (<<m, n>> \in R)
    BY <1>1, WFMin
<1>4. ASSUME NEW m \in T PROVE n <= m
  <2>1. ~(m < n) /\ m \in Nat /\ n \in Nat
    BY <1>2, <1>3
  <2> QED
    BY <2>1
<1> QED
    BY <1>4

\* The connection that wait_for_connection() returns is one of those it found.
LEMMA OldestFound ==
    ASSUME TypeInv, NEW S \in SUBSET Conns, S # {}
    PROVE  Oldest(S) \in S
<1>1. arrival \in [Conns -> Nat]
  <2>1. Cardinality(Conns) \in Nat
    BY FS_CardinalityType
  <2> QED
    BY <2>1 DEF TypeInv, RegTypes
<1> DEFINE T == {arrival[c] : c \in S}
<1>2. T \in SUBSET Nat /\ T # {}
    BY <1>1
<1> HIDE DEF T
<1>3. PICK n \in T : \A m \in T : n <= m
    BY <1>2, Smallest
<1> USE DEF T
<1>4. PICK c \in S : arrival[c] = n
    BY <1>3
<1>5. \A d \in S : arrival[c] <= arrival[d]
    BY <1>3, <1>4
<1> QED
    BY <1>5 DEF Oldest

\* The accept thread.
LEMMA AcceptTyped ==
    ASSUME TypeInv, AcceptThread
    PROVE  TypeInv'
<1>1. CASE HandshakeFails
  <2>1. ConnTypes'
    BY <1>1 DEF TypeInv, ConnTypes, Leaving, HandshakeFails, Idle, connVars
  <2>2. EventTypes'
    BY <1>1, SetTyped, FrameTypes DEF TypeInv, HandshakeFails, Idle
  <2>3. AccTypes'
    BY <1>1 DEF TypeInv, AccTypes, HandshakeFails, Idle, regVars
  <2>4. NewConnOK'
    BY <1>1 DEF TypeInv, NewConnOK, HandshakeFails, Idle, ConnTypes, RegTypes, AccTypes,
       connVars, regVars
  <2> QED
    BY <1>1, <2>1, <2>2, <2>3, <2>4, FrameTypes DEF TypeInv, HandshakeFails, Idle, connVars,
       regVars, eventVars, sessVars
<1>2. CASE Register
  <2> DEFINE c == acc.conn
  <2>0. c \in Conns /\ arrival[c] = 0 /\ link[c] # "absent"
    BY <1>2 DEF Register, TypeInv, AccTypes, NewConnOK
  <2>f. UNCHANGED <<timer, lock, listening, disconnected, replaced, server, dh, dsess, unblocked,
                    sessVars, main>>
    BY <1>2 DEF Register
  <2>1. CASE disconnected[c]
    <3>1. acc' = Idle /\ UNCHANGED <<connections, arrival, eventVars, link>>
      BY <1>2, <2>1 DEF Register
    <3>2. AccTypes' /\ NewConnOK'
      BY <3>1 DEF TypeInv, AccTypes, NewConnOK, Idle
    <3> QED
      BY <2>f, <3>1, <3>2, FrameTypes DEF TypeInv, connVars, regVars
  <2>2. CASE ~disconnected[c] /\ PidClash(c)
    <3>1. /\ acc' = Idle /\ SetChanged /\ UNCHANGED <<connections, arrival>>
          /\ link' = [link EXCEPT ![c] = "down"]
      BY <1>2, <2>2 DEF Register
    <3>2. AccTypes' /\ NewConnOK'
      BY <2>0, <3>1 DEF TypeInv, AccTypes, NewConnOK, ConnTypes, Idle
    <3>3. ConnTypes'
      BY <2>0, <2>f, <3>1 DEF TypeInv, ConnTypes
    <3> QED
      BY <2>f, <3>1, <3>2, <3>3, SetTyped, FrameTypes DEF TypeInv, regVars
  <2>3. CASE ~disconnected[c] /\ ~PidClash(c)
    <3>1. /\ connections' = connections \cup {c} /\ link' = link /\ SetChanged
          /\ arrival' = [arrival EXCEPT ![c] = 1 + Cardinality({d \in Conns : arrival[d] # 0})]
          /\ acc' = [acc EXCEPT !.pc = "parent", !.first = (connections = {})]
      BY <1>2, <2>3 DEF Register, Append
    <3>2. Cardinality({d \in Conns : arrival[d] # 0}) \in 0 .. Cardinality(Conns) - 1
      <4>1. {d \in Conns : arrival[d] # 0} \subseteq Conns \ {c}
        BY <2>0
      <4>2. Cardinality(Conns) \in Nat /\ IsFiniteSet(Conns \ {c})
            /\ Cardinality(Conns \ {c}) = Cardinality(Conns) - 1
        BY <2>0, FS_CardinalityType, FS_RemoveElement
      <4>3. /\ IsFiniteSet({d \in Conns : arrival[d] # 0})
            /\ Cardinality({d \in Conns : arrival[d] # 0}) <= Cardinality(Conns \ {c})
        BY <4>1, <4>2, FS_Subset
      <4>4. Cardinality({d \in Conns : arrival[d] # 0}) \in Nat
        BY <4>3, FS_CardinalityType
      <4> QED
        BY <4>2, <4>3, <4>4
    <3>3. PICK n : n = 1 + Cardinality({d \in Conns : arrival[d] # 0})
      OBVIOUS
    <3>4. n \in 0 .. Cardinality(Conns) /\ n # 0
      <4>1. Cardinality(Conns) \in Nat
        BY FS_CardinalityType
      <4> QED
        BY <3>2, <3>3, <4>1
    <3>5. arrival' = [arrival EXCEPT ![c] = n]
      BY <3>1, <3>3
    <3>6. RegTypes'
      BY <2>0, <2>f, <3>1, <3>4, <3>5 DEF TypeInv, RegTypes
    <3>7. AccTypes' /\ NewConnOK'
      BY <2>0, <3>1, <3>5 DEF TypeInv, AccTypes, NewConnOK, RegTypes
    <3>8. ConnTypes'
      BY <2>f, <3>1, FrameTypes DEF TypeInv, connVars
    <3> QED
      BY <2>f, <3>1, <3>6, <3>7, <3>8, SetTyped, FrameTypes DEF TypeInv
  <2> QED
    BY <2>1, <2>2, <2>3
<1>3. CASE FindParent
  <2>1. /\ acc.pc = "parent" /\ UNCHANGED <<regVars, eventVars, connVars, sessVars, main>>
        /\ \/ acc' = [acc EXCEPT !.pc = "orphan"]
           \/ \E s \in sessions : acc' = [acc EXCEPT !.pc = "notify", !.parent = s]
    BY <1>3 DEF FindParent, SessionsOf
  <2>2. sessions \subseteq Sessions
    BY DEF TypeInv, SessTypes
  <2>3. AccTypes' /\ acc'.pc # "info"
    BY <2>1, <2>2 DEF TypeInv, AccTypes
  <2>4. NewConnOK'
    BY <2>1, <2>3 DEF TypeInv, NewConnOK, regVars, connVars
  <2> QED
    BY <2>1, <2>3, <2>4, FrameTypes DEF TypeInv
<1>4. CASE CheckReplacement
  <2>1. /\ acc.pc = "notify" /\ UNCHANGED arrival
        /\ \/ acc' = Idle /\ link' = [link EXCEPT ![acc.conn] = "down"]
           \/ acc' = [acc EXCEPT !.pc = "tell"] /\ link' = link
    BY <1>4 DEF CheckReplacement, regVars
  <2>2. ConnTypes'
    BY <1>4, <2>1 DEF TypeInv, ConnTypes, Leaving, CheckReplacement
  <2>3. AccTypes'
    <3>1. acc.pc # "idle" /\ acc.conn \in Conns /\ acc.parent \in Sessions
      BY <2>1 DEF TypeInv, AccTypes
    <3>2. CASE acc' = Idle
      BY <3>2 DEF AccTypes, Idle
    <3>3. CASE acc' = [acc EXCEPT !.pc = "tell"]
      BY <3>1, <3>3 DEF TypeInv, AccTypes
    <3> QED
      BY <2>1, <3>2, <3>3
  <2>4. NewConnOK'
    BY <2>1 DEF TypeInv, NewConnOK, Idle, ConnTypes, AccTypes
  <2> QED
    BY <1>4, <2>2, <2>3, <2>4, FrameTypes DEF TypeInv, CheckReplacement, sessVars
<1>5. CASE NotifyParent
  <2>1. AccTypes'
    BY <1>5 DEF TypeInv, AccTypes, NotifyParent, Idle, regVars
  <2>2. NewConnOK'
    BY <1>5 DEF TypeInv, NewConnOK, NotifyParent, Idle, ConnTypes, RegTypes, AccTypes,
       connVars, regVars
  <2>3. SessTypes'
    BY <1>5 DEF TypeInv, SessTypes, NotifyParent, Idle, AccTypes, sessVars
  <2> QED
    BY <1>5, <2>1, <2>2, <2>3, FrameTypes DEF TypeInv, NotifyParent, Idle, connVars, regVars,
       eventVars, sessVars
<1>6. CASE UnblockOrphan
  <2>1. ConnTypes'
    BY <1>6 DEF TypeInv, ConnTypes, Leaving, UnblockOrphan, Idle, AccTypes, connVars
  <2>2. AccTypes'
    BY <1>6 DEF TypeInv, AccTypes, UnblockOrphan, Idle, regVars
  <2>3. NewConnOK'
    BY <1>6 DEF TypeInv, NewConnOK, UnblockOrphan, Idle, ConnTypes, RegTypes, AccTypes,
       connVars, regVars
  <2> QED
    BY <1>6, <2>1, <2>2, <2>3, FrameTypes DEF TypeInv, UnblockOrphan, Idle, connVars, regVars,
       eventVars, sessVars
<1> QED
    BY <1>1, <1>2, <1>3, <1>4, <1>5, <1>6 DEF AcceptThread

\* Threads that wait for the event.
LEMMA WaitTyped ==
    ASSUME TypeInv, WaitStep
    PROVE  TypeInv'
<1>1. CASE \E t \in Waiters : EnterWait(t)
  <2>1. EventTypes'
    BY <1>1 DEF TypeInv, EventTypes, EnterWait, Waiters, eventVars
  <2> QED
    BY <1>1, <2>1, FrameTypes DEF TypeInv, EnterWait, Waiters, connVars, regVars, eventVars,
       sessVars
<1>2. ASSUME NEW t \in Conns \cup Sessions, WaitCheck(t) PROVE TypeInv'
  <2> DEFINE found == {c \in connections : Matches(t, c)}
  <2>1. /\ changed' = FALSE
        /\ \/ waiter' = [waiter EXCEPT ![t] = "done"]
           \/ waiter' = [waiter EXCEPT ![t] = "enter"]
        /\ UNCHANGED <<regVars, connVars, acc, sessions, slock, st, req, started, srv, srvUp,
                       clientUp, fin, known, killed, launchVars, main>>
        /\ \/ got' = got
           \/ got' = [got EXCEPT ![t] = None]
           \/ found # {} /\ got' = [got EXCEPT ![t] = Oldest(found)]
    BY <1>2 DEF WaitCheck
  <2>2. EventTypes'
    BY <2>1 DEF TypeInv, EventTypes, Waiters
  <2>3. found # {} => Oldest(found) \in Conns
    <3>1. found \in SUBSET Conns
      BY DEF TypeInv, RegTypes
    <3> QED
      BY <3>1, OldestFound
  <2> HIDE DEF found
  <2>4. SessTypes'
    BY <2>1, <2>3 DEF TypeInv, SessTypes
  <2> QED
    BY <2>1, <2>2, <2>4, FrameTypes DEF TypeInv, regVars, connVars
<1>3. CASE \E t \in Conns \cup Sessions : TimerFires(t)
  <2>1. RegTypes'
    BY <1>3 DEF TypeInv, RegTypes, TimerFires, regVars
  <2>2. EventTypes'
    BY <1>3, SetTyped, FrameTypes DEF TypeInv, TimerFires
  <2> QED
    BY <1>3, <2>1, <2>2, FrameTypes DEF TypeInv, TimerFires, connVars, regVars, eventVars,
       sessVars
<1> QED
    BY <1>1, <1>2, <1>3 DEF WaitStep

\* The handler thread of a connection.
LEMMA ServerTyped ==
    ASSUME TypeInv, NEW c \in Conns, ServerThread(c)
    PROVE  TypeInv'
<1>1. CASE HandleDisconnect(c)
  <2>0. PICK s : s = HandlerOf(c)
    OBVIOUS
  <2>1. s \in Sessions \cup {None}
    BY <2>0 DEF HandlerOf, TypeInv, ConnTypes
  <2>2. /\ dh' = [dh EXCEPT ![c] = IF s = None THEN "connection" ELSE "server"]
        /\ dsess' = [dsess EXCEPT ![c] = s] /\ main' \in {"crashed", main}
        /\ UNCHANGED <<regVars, eventVars, acc, link, disconnected, replaced, server,
                       unblocked, sessVars>>
    BY <1>1, <2>0 DEF HandleDisconnect
  <2>3. ConnTypes'
    BY <2>1, <2>2 DEF TypeInv, ConnTypes, Leaving
  <2> QED
    BY <2>2, <2>3, FrameTypes DEF TypeInv, regVars, sessVars
<1>2. CASE ConnectionDisconnect(c)
  <2>1. ConnTypes'
    BY <1>2 DEF TypeInv, ConnTypes, Leaving, ConnectionDisconnect, connVars
  <2>2. RegTypes'
    BY <1>2 DEF TypeInv, RegTypes, ConnectionDisconnect, regVars
  <2>3. EventTypes'
    BY <1>2, SetTyped, FrameTypes DEF TypeInv, ConnectionDisconnect
  <2> QED
    BY <1>2, <2>1, <2>2, <2>3, FrameTypes DEF TypeInv, ConnectionDisconnect, connVars,
       regVars, eventVars, sessVars
<1>3. CASE ServerDisconnect(c)
  <2>1. ConnTypes'
    BY <1>3 DEF TypeInv, ConnTypes, Leaving, ServerDisconnect, Waiters, connVars
  <2>2. RegTypes'
    BY <1>3 DEF TypeInv, RegTypes, ServerDisconnect, Waiters, regVars
  <2>3. EventTypes'
    BY <1>3 DEF TypeInv, EventTypes, ServerDisconnect, Waiters, eventVars
  <2> QED
    BY <1>3, <2>1, <2>2, <2>3, FrameTypes DEF TypeInv, ServerDisconnect, Waiters, connVars,
       regVars, eventVars, sessVars
<1>4. CASE KnownTimeout(c)
  <2>1. RegTypes'
    BY <1>4 DEF TypeInv, RegTypes, KnownTimeout, regVars
  <2> QED
    BY <1>4, <2>1, FrameTypes DEF TypeInv, KnownTimeout, connVars, regVars, eventVars, sessVars
<1>5. CASE ReplacementAwaited(c)
  <2>1. ConnTypes'
    BY <1>5 DEF TypeInv, ConnTypes, Leaving, ReplacementAwaited, Waiters, connVars
  <2>2. EventTypes'
    BY <1>5 DEF TypeInv, EventTypes, ReplacementAwaited, Waiters, eventVars
  <2> QED
    BY <1>5, <2>1, <2>2, FrameTypes DEF TypeInv, ReplacementAwaited, Waiters, connVars,
       regVars, eventVars, sessVars
<1>6. CASE ServerRemove(c)
  <2>1. ConnTypes'
    BY <1>6 DEF TypeInv, ConnTypes, Leaving, ServerRemove, connVars
  <2>2. RegTypes'
    BY <1>6 DEF TypeInv, RegTypes, ServerRemove, regVars
  <2>3. EventTypes'
    BY <1>6, SetTyped, FrameTypes DEF TypeInv, ServerRemove
  <2> QED
    BY <1>6, <2>1, <2>2, <2>3, FrameTypes DEF TypeInv, ServerRemove, connVars, regVars,
       eventVars, sessVars
<1>7. CASE ServerFinalize(c)
  <2>1. ConnTypes'
    BY <1>7 DEF TypeInv, ConnTypes, Leaving, ServerFinalize
  <2>2. RegTypes'
    BY <1>7 DEF TypeInv, RegTypes, ServerFinalize
  <2>3. PICK s : s = dsess[c]
    OBVIOUS
  <2>4. s \in Sessions
    BY <1>7, <2>3 DEF ServerFinalize, TypeInv, ConnTypes, Leaving
  <2>5. /\ srvUp' = [srvUp EXCEPT ![s] = FALSE] /\ sessions' \subseteq sessions
        /\ slock' = slock \/ slock' = [slock EXCEPT ![s] = c]
        /\ EnterFinalize(s, c)
        /\ UNCHANGED <<st, req, started, got, srv, clientUp, known, killed, launcher,
                       lpid, overtaken>>
    BY <1>7, <2>3 DEF ServerFinalize, SessionsAfter
  <2>6. SessTypes'
    BY <2>4, <2>5 DEF TypeInv, SessTypes, EnterFinalize, Holders
  <2>7. LaunchTypes'
    BY <2>4, <2>5 DEF TypeInv, LaunchTypes, EnterFinalize, Holders
  <2>8. UNCHANGED <<eventVars, acc, link, arrival, main>>
    BY <1>7 DEF ServerFinalize
  <2> QED
    BY <2>1, <2>2, <2>6, <2>7, <2>8, FrameTypes DEF TypeInv
<1>8. CASE FinReturn(c)
  <2>1. ConnTypes'
    BY <1>8 DEF TypeInv, ConnTypes, Leaving, FinReturn, connVars
  <2>2. RegTypes'
    BY <1>8 DEF TypeInv, RegTypes, FinReturn, regVars
  <2>3. SessTypes'
    BY <1>8 DEF TypeInv, SessTypes, FinReturn, sessVars
  <2> QED
    BY <1>8, <2>1, <2>2, <2>3, FrameTypes DEF TypeInv, FinReturn, connVars, regVars,
       eventVars, sessVars
<1> QED
    BY <1>1, <1>2, <1>3, <1>4, <1>5, <1>6, <1>7, <1>8 DEF ServerThread

\* A server process.
LEMMA PeerTyped ==
    ASSUME TypeInv, NEW c \in Conns, Peer(c)
    PROVE  TypeInv'
<1>1. CASE Accept(c)
  <2>1. ConnTypes'
    BY <1>1 DEF TypeInv, ConnTypes, Leaving, Accept, Idle, connVars
  <2>2. AccTypes'
    BY <1>1 DEF TypeInv, AccTypes, Accept, Idle, regVars
  <2>3. NewConnOK'
    BY <1>1 DEF TypeInv, NewConnOK, Accept, Idle, ConnTypes, RegTypes, AccTypes, connVars,
       regVars
  <2> QED
    BY <1>1, <2>1, <2>2, <2>3, FrameTypes DEF TypeInv, Accept, Idle, connVars, regVars,
       eventVars, sessVars
<1>2. CASE PeerExit(c)
  <2>1. ConnTypes'
    BY <1>2 DEF TypeInv, ConnTypes, Leaving, PeerExit, connVars
  <2>2. NewConnOK'
    BY <1>2 DEF TypeInv, NewConnOK, PeerExit, ConnTypes, RegTypes, AccTypes, connVars, regVars
  <2> QED
    BY <1>2, <2>1, <2>2, FrameTypes DEF TypeInv, PeerExit, connVars, regVars, eventVars, sessVars
<1>3. CASE ProcessReplaced(c)
  <2>1. ConnTypes'
    BY <1>3 DEF TypeInv, ConnTypes, Leaving, ProcessReplaced, connVars
  <2>2. NewConnOK'
    BY <1>3 DEF TypeInv, NewConnOK, ProcessReplaced, ConnTypes, RegTypes, AccTypes, connVars,
       regVars
  <2> QED
    BY <1>3, <2>1, <2>2, FrameTypes DEF TypeInv, ProcessReplaced, connVars, regVars,
       eventVars, sessVars
<1> QED
    BY <1>1, <1>2, <1>3 DEF Peer

\* finalize().
LEMMA FinalizeTyped ==
    ASSUME TypeInv, NEW s \in Sessions, FinalizeStep(s)
    PROVE  TypeInv'
<1>1. CASE FinUnblock(s)
  <2>1. EventTypes'
    BY <1>1, SetTyped, FrameTypes DEF TypeInv, FinUnblock
  <2>2. SessTypes'
    BY <1>1 DEF TypeInv, SessTypes, FinUnblock, Given
  <2> QED
    BY <1>1, <2>1, <2>2, FrameTypes DEF TypeInv, FinUnblock, connVars, regVars, eventVars,
       sessVars
<1>2. CASE FinRequest(s)
  <2>1. SessTypes'
    BY <1>2 DEF TypeInv, SessTypes, FinRequest
  <2> QED
    BY <1>2, <2>1, FrameTypes DEF TypeInv, FinRequest, connVars, regVars, eventVars, sessVars
<1>3. CASE FinDetach(s)
  <2>1. ConnTypes'
    BY <1>3 DEF TypeInv, ConnTypes, Leaving, FinDetach, SessionsAfter, connVars
  <2>2. SessTypes'
    BY <1>3 DEF TypeInv, SessTypes, FinDetach, SessionsAfter, Given
  <2> QED
    BY <1>3, <2>1, <2>2, FrameTypes DEF TypeInv, FinDetach, SessionsAfter, connVars, regVars,
       eventVars, sessVars
<1>4. CASE FinClient(s)
  <2>1. RegTypes'
    BY <1>4 DEF TypeInv, RegTypes, FinClient, regVars
  <2>2. SessTypes'
    BY <1>4 DEF TypeInv, SessTypes, LaunchTypes, FinClient, Given
  <2> QED
    BY <1>4, <2>1, <2>2, FrameTypes DEF TypeInv, FinClient, connVars, regVars, eventVars,
       sessVars
<1>5. CASE FinLauncher(s) \/ FinLauncherGone(s)
  <2>1. /\ \E x \in Given : fin' = [fin EXCEPT ![s] = x]
        /\ slock' = slock \/ \E x \in {None, finBy[s]} : slock' = [slock EXCEPT ![s] = x]
        /\ UNCHANGED <<eventVars, regVars, connVars, acc, sessions, st, req, started, got,
                       srv, srvUp, clientUp, known, killed, launchVars, main>>
    BY <1>5 DEF FinLauncher, FinLauncherGone, Given
  <2>2. finBy[s] \in Holders \cup {None}
    BY DEF TypeInv, LaunchTypes
  <2>3. SessTypes'
    BY <2>1, <2>2 DEF TypeInv, SessTypes
  <2>4. UNCHANGED <<link, arrival>>
    BY <2>1 DEF regVars, connVars
  <2> QED
    BY <2>1, <2>3, <2>4, FrameTypes DEF TypeInv
<1>6. CASE LauncherReturn(s)
  <2>1. SessTypes'
    BY <1>6 DEF TypeInv, SessTypes, LauncherReturn
  <2> QED
    BY <1>6, <2>1, FrameTypes DEF TypeInv, LauncherReturn, connVars, regVars
<1>7. CASE FinKill(s)
  <2>1. SessTypes'
    BY <1>7 DEF TypeInv, SessTypes, FinKill, RegTypes, Given
  <2> QED
    BY <1>7, <2>1, FrameTypes DEF TypeInv, FinKill, connVars, regVars, eventVars, sessVars
<1> QED
    BY <1>1, <1>2, <1>3, <1>4, <1>5, <1>6, <1>7 DEF FinalizeStep

\* A thread enters finalize() on its own session.
LEMMA FinalizeCallTyped ==
    ASSUME TypeInv, NEW s \in Sessions, NEW why \in {"terminate", "disconnect", "gone"},
           Finalize(s, why)
    PROVE  /\ slock' \in [Sessions -> Holders \cup {None}]
           /\ st' \in [Sessions -> {"none", "idle", "launching"} \cup Begun
                                  \cup {"terminate", "disconnect", "closed", "gone"}]
           /\ fin' \in [Sessions -> {"no", "unblock", "request", "detach"} \cup Given]
           /\ LaunchTypes'
<1>1. s \in Holders
    BY DEF Holders
<1> QED
    BY <1>1 DEF TypeInv, SessTypes, LaunchTypes, Finalize, EnterFinalize

\* The handler thread of a client.
LEMMA ClientTyped ==
    ASSUME TypeInv, NEW s \in Sessions, ClientThread(s)
    PROVE  TypeInv'
<1>1. CASE NoConnection(s)
  <2>1. EventTypes'
    BY <1>1 DEF TypeInv, EventTypes, NoConnection, Waiters
  <2>2. SessTypes' /\ LaunchTypes'
    <3>1. UNCHANGED <<sessions, req, started, got, srv, srvUp, clientUp, known, killed>>
      BY <1>1 DEF NoConnection
    <3>2. CASE Finalize(s, "terminate")
      BY <3>1, <3>2, FinalizeCallTyped DEF TypeInv, SessTypes
    <3>3. CASE Return(s) /\ UNCHANGED <<fin, launchVars>>
      BY <3>1, <3>3, FrameTypes DEF TypeInv, SessTypes, Return
    <3> QED
      BY <1>1, <3>2, <3>3 DEF NoConnection
  <2> QED
    BY <1>1, <2>1, <2>2, FrameTypes DEF TypeInv, NoConnection, connVars, regVars
<1>2. CASE AttachBegins(s)
  <2>1. EventTypes'
    BY <1>2 DEF TypeInv, EventTypes, Waiters, AttachBegins
  <2>2. RegTypes'
    BY <1>2 DEF TypeInv, RegTypes, AttachBegins
  <2>3. SessTypes'
    BY <1>2 DEF TypeInv, SessTypes, AttachBegins, Return
  <2>4. UNCHANGED <<connVars, acc, link, arrival, launchVars>>
        /\ main' \in {"servers", "sessions", "exited", "crashed"}
    BY <1>2 DEF AttachBegins, connVars, TypeInv
  <2> QED
    BY <2>1, <2>2, <2>3, <2>4, FrameTypes DEF TypeInv
<1>3. CASE AttachToSession(s)
  <2>1. ConnTypes'
    BY <1>3 DEF TypeInv, ConnTypes, AttachToSession
  <2>2. EventTypes'
    BY <1>3 DEF TypeInv, EventTypes, Waiters, AttachToSession
  <2>3. RegTypes'
    BY <1>3 DEF TypeInv, RegTypes, AttachToSession
  <2>4. SessTypes'
    BY <1>3 DEF TypeInv, SessTypes, AttachToSession, Begun
  <2>5. UNCHANGED <<acc, link, arrival, launchVars, main>>
    BY <1>3 DEF AttachToSession
  <2> QED
    BY <2>1, <2>2, <2>3, <2>4, <2>5, FrameTypes DEF TypeInv
<1>4. CASE StartSucceeds(s) \/ StartFails(s)
  <2>1. SessTypes'
    BY <1>4 DEF TypeInv, SessTypes, StartSucceeds, StartFails, Return
  <2> QED
    BY <1>4, <2>1, FrameTypes DEF TypeInv, StartSucceeds, StartFails, connVars, regVars
<1>5. CASE StartLost(s)
  <2>1. SessTypes' /\ LaunchTypes'
    BY <1>5, FinalizeCallTyped DEF TypeInv, SessTypes, StartLost
  <2> QED
    BY <1>5, <2>1, FrameTypes DEF TypeInv, StartLost, connVars, regVars
<1>6. CASE HandlerReturn(s) \/ LaunchFails(s)
  <2>1. SessTypes'
    BY <1>6 DEF TypeInv, SessTypes, HandlerReturn, LaunchFails, Return
  <2> QED
    BY <1>6, <2>1, FrameTypes DEF TypeInv, HandlerReturn, LaunchFails, connVars, regVars
<1>7. CASE CloseClient(s)
  <2>1. ConnTypes'
    BY <1>7 DEF TypeInv, ConnTypes, Leaving, CloseClient, connVars
  <2>2. RegTypes'
    BY <1>7 DEF TypeInv, RegTypes, CloseClient, regVars
  <2>3. NewConnOK'
    BY <1>7 DEF TypeInv, NewConnOK, CloseClient, ConnTypes, RegTypes, AccTypes, connVars, regVars
  <2>4. SessTypes'
    BY <1>7 DEF TypeInv, SessTypes, CloseClient, sessVars
  <2> QED
    BY <1>7, <2>1, <2>2, <2>3, <2>4, FrameTypes DEF TypeInv, CloseClient
<1>8. CASE LaunchProceeds(s)
  <2>1. EventTypes'
    BY <1>8 DEF TypeInv, EventTypes, LaunchProceeds, LookForServer, Waiters
  <2>2. RegTypes'
    BY <1>8 DEF TypeInv, RegTypes, LaunchProceeds, TimerFor
  <2>3. SessTypes'
    BY <1>8 DEF TypeInv, SessTypes, LaunchProceeds, LookForServer, Begun, Holders
  <2> QED
    BY <1>8, <2>1, <2>2, <2>3, FrameTypes DEF TypeInv, LaunchProceeds, connVars
<1> QED
    BY <1>1, <1>2, <1>3, <1>4, <1>5, <1>6, <1>7, <1>8 DEF ClientThread

\* The requests of a client.
LEMMA RequestTyped ==
    ASSUME TypeInv, NEW s \in Sessions, ClientRequest(s)
    PROVE  TypeInv'
<1>1. CASE NewClient(s)
  <2>1. SessTypes'
    BY <1>1 DEF TypeInv, SessTypes, NewClient
  <2> QED
    BY <1>1, <2>1, FrameTypes DEF TypeInv, NewClient, connVars, regVars
<1>2. ASSUME NEW r \in Start, AttachRequest(s, r) PROVE TypeInv'
  <2>1. RegTypes'
    <3>1. TimerFor(r.kind) \in {"off", "armed", "fired"}
      BY DEF TimerFor
    <3> QED
      BY <1>2, <3>1 DEF TypeInv, RegTypes, AttachRequest
  <2>2. EventTypes'
    BY <1>2 DEF TypeInv, EventTypes, AttachRequest, LookForServer, Waiters
  <2>3. SessTypes'
    BY <1>2 DEF TypeInv, SessTypes, AttachRequest, LookForServer, Begun, Holders
  <2> QED
    BY <1>2, <2>1, <2>2, <2>3, FrameTypes DEF TypeInv, AttachRequest, connVars
<1>3. CASE LaunchRequest(s)
  <2>1. [kind |-> "launch", pid |-> None] \in Start
    BY DEF Start, AllKinds
  <2>2. SessTypes'
    BY <1>3, <2>1 DEF TypeInv, SessTypes, LaunchRequest
  <2>3. RegTypes'
    BY <1>3 DEF TypeInv, RegTypes, LaunchRequest
  <2> QED
    BY <1>3, <2>2, <2>3, FrameTypes DEF TypeInv, LaunchRequest, connVars
<1>4. CASE ConfigurationDone(s)
  <2>1. SessTypes'
    BY <1>4 DEF TypeInv, SessTypes, ConfigurationDone, RegTypes
  <2> QED
    BY <1>4, <2>1, FrameTypes DEF TypeInv, ConfigurationDone, connVars, regVars
<1>5. CASE TerminateRequest(s) \/ DisconnectRequest(s)
  <2>1. SessTypes' /\ LaunchTypes'
    BY <1>5, FinalizeCallTyped DEF TypeInv, SessTypes, TerminateRequest, DisconnectRequest
  <2> QED
    BY <1>5, <2>1, FrameTypes DEF TypeInv, TerminateRequest, DisconnectRequest, connVars, regVars
<1>6. CASE ClientDisconnect(s)
  <2>1. SessTypes' /\ LaunchTypes'
    BY <1>6, FinalizeCallTyped DEF TypeInv, SessTypes, ClientDisconnect, SessionsAfter
  <2> QED
    BY <1>6, <2>1, FrameTypes DEF TypeInv, ClientDisconnect, connVars, regVars
<1> QED
    BY <1>1, <1>2, <1>3, <1>4, <1>5, <1>6 DEF ClientRequest

\* The thread of a launcher's channel.
LEMMA LauncherTyped ==
    ASSUME TypeInv, NEW s \in Sessions, LauncherStep(s)
    PROVE  TypeInv'
<1>1. UNCHANGED <<eventVars, regVars, connVars, acc, st, req, started, got, srv, srvUp,
                  clientUp, known, killed, main>>
    BY DEF LauncherStep, LauncherConnects, LauncherReports, LauncherLost
<1>2. CASE LauncherConnects(s) \/ LauncherReports(s)
  <2>1. SessTypes'
    BY <1>1, <1>2 DEF TypeInv, SessTypes, LauncherConnects, LauncherReports
  <2>2. LaunchTypes'
    BY <1>2 DEF TypeInv, LaunchTypes, LauncherConnects, LauncherReports
  <2> QED
    BY <1>1, <2>1, <2>2, FrameTypes DEF TypeInv, connVars, regVars
<1>3. CASE LauncherLost(s)
  <2>1. Launcher \in Holders
    BY DEF Holders
  <2>2. SessTypes'
    BY <1>1, <1>3, <2>1 DEF TypeInv, SessTypes, LauncherLost, SessionsAfter, EnterFinalize
  <2>3. LaunchTypes'
    BY <1>3, <2>1 DEF TypeInv, LaunchTypes, LauncherLost, EnterFinalize
  <2> QED
    BY <1>1, <2>2, <2>3, FrameTypes DEF TypeInv, connVars, regVars
<1> QED
    BY <1>2, <1>3 DEF LauncherStep

LEMMA StepTyped ==
    ASSUME TypeInv, [Next]_vars
    PROVE  TypeInv'
<1>1. CASE MainCheck
  <2>1. EventTypes'
    BY <1>1 DEF TypeInv, EventTypes, MainCheck, Waiters
  <2>2. main' \in {"servers", "sessions", "exited", "crashed"}
    BY <1>1 DEF TypeInv, MainCheck
  <2> QED
    BY <1>1, <2>1, <2>2, FrameTypes DEF TypeInv, MainCheck, connVars, regVars
<1>2. CASE MainExit \/ UNCHANGED vars
    BY <1>2, FrameTypes DEF TypeInv, MainExit, vars, connVars, regVars
<1> QED
    BY <1>1, <1>2, AcceptTyped, WaitTyped, ServerTyped, PeerTyped, FinalizeTyped, ClientTyped,
       RequestTyped, LauncherTyped DEF Next

LEMMA TypeInvariant == Spec => []TypeInv
BY InitTyped, StepTyped, PTL DEF Spec

-----------------------------------------------------------------------------
(***************************************************************************)
(* servers._connections.  A connection is in the list from the moment that *)
(* it is registered until its disconnect() has removed it, and only what   *)
(* was registered is ever found or attached to.                            *)
(***************************************************************************)
Removed == {"finalize", "finalizing", "done"}

RegInv ==
    /\ \A c \in Conns : c \in connections <=> arrival[c] # 0 /\ dh[c] \notin Removed
    /\ \A c \in Conns : dh[c] \in Leaving => arrival[c] # 0
    /\ \A c \in Conns : dh[c] = "done" => arrival[c] # 0 \/ disconnected[c]
    /\ \A c \in Conns : server[c] # None => arrival[c] # 0
    /\ \A s \in Sessions : got[s] # None => arrival[got[s]] # 0

LEMMA FrameReg ==
    ASSUME RegInv, UNCHANGED <<connections, arrival, dh, disconnected, server, got>>
    PROVE  RegInv'
BY DEF RegInv

\* Connection.__init__ registers a connection that is not yet disconnected.
LEMMA RegisterReg ==
    ASSUME TypeInv, RegInv, Register
    PROVE  RegInv'
<1> DEFINE c == acc.conn
<1>f. UNCHANGED <<disconnected, server, dh, got>>
    BY DEF Register, sessVars
<1>1. CASE disconnected[c] \/ PidClash(c)
  <2>1. UNCHANGED <<connections, arrival>>
    BY <1>1 DEF Register
  <2> QED
    BY <1>f, <2>1, FrameReg
<1>2. CASE ~disconnected[c] /\ ~PidClash(c)
  <2>1. /\ connections' = connections \cup {c} /\ c \in Conns /\ arrival[c] = 0
        /\ arrival' = [arrival EXCEPT ![c] = 1 + Cardinality({d \in Conns : arrival[d] # 0})]
        /\ arrival \in [Conns -> 0 .. Cardinality(Conns)]
        /\ dh \in [Conns -> {"idle", "connection", "done"} \cup Leaving]
        /\ got \in [Sessions -> Conns \cup {None}]
    BY <1>2 DEF Register, Append, TypeInv, AccTypes, NewConnOK, RegTypes, ConnTypes, SessTypes
  <2>2. PICK n : n = 1 + Cardinality({d \in Conns : arrival[d] # 0})
    OBVIOUS
  <2>3. n # 0
    <3>1. IsFiniteSet({d \in Conns : arrival[d] # 0})
      BY FS_Subset
    <3>2. Cardinality({d \in Conns : arrival[d] # 0}) \in Nat
      BY <3>1, FS_CardinalityType
    <3> QED
      BY <2>2, <3>2
  <2>4. arrival'[c] # 0 /\ \A d \in Conns : d # c => arrival'[d] = arrival[d]
    BY <2>1, <2>2, <2>3
  <2>5. dh[c] \in {"idle", "connection"}
    BY <1>2, <2>1 DEF RegInv
  <2>6. \A d \in Conns : arrival[d] # 0 => arrival'[d] # 0
    BY <2>1, <2>4
  <2>7. \A d \in Conns : d \in connections' <=> arrival'[d] # 0 /\ dh[d] \notin Removed
    BY <2>1, <2>4, <2>5 DEF RegInv, Removed
  <2> HIDE DEF c
  <2>8. \A s \in Sessions : got[s] # None => arrival'[got[s]] # 0
    BY <2>1, <2>6 DEF RegInv
  <2> QED
    BY <1>f, <2>6, <2>7, <2>8 DEF RegInv
<1> QED
    BY <1>1, <1>2

\* disconnect() removes what it finds in the list.
LEMMA ServerReg ==
    ASSUME TypeInv, RegInv, NEW c \in Conns, ServerThread(c)
    PROVE  RegInv'
<1>t. /\ dh \in [Conns -> {"idle", "connection", "done"} \cup Leaving]
      /\ disconnected \in [Conns -> BOOLEAN] /\ connections \subseteq Conns
    BY DEF TypeInv, ConnTypes, RegTypes
<1>u. UNCHANGED <<arrival, server, got>>
    BY DEF ServerThread, HandleDisconnect, ConnectionDisconnect, ServerDisconnect, KnownTimeout,
           ReplacementAwaited, ServerRemove, ServerFinalize, FinReturn, regVars, connVars, sessVars
<1>1. CASE HandleDisconnect(c)
  <2>1. /\ UNCHANGED <<connections, disconnected>> /\ dh[c] = "idle"
        /\ dh' = [dh EXCEPT ![c] = IF HandlerOf(c) = None THEN "connection" ELSE "server"]
    BY <1>1 DEF HandleDisconnect, regVars
  <2>s. HandlerOf(c) # None => arrival[c] # 0
    <3>1. CASE lock \in Sessions /\ got[lock] = c
      BY <3>1 DEF RegInv
    <3>2. CASE HandlerOf(c) = server[c]
      BY <3>2 DEF RegInv
    <3> QED
      BY <3>1, <3>2 DEF HandlerOf
  <2>2. /\ \A d \in Conns : d # c => dh'[d] = dh[d]
        /\ dh'[c] = "connection" \/ (dh'[c] = "server" /\ arrival[c] # 0)
    BY <1>t, <2>1, <2>s
  <2>3. dh[c] \notin Removed /\ dh'[c] \notin Removed /\ (dh'[c] \in Leaving => arrival[c] # 0)
        /\ dh'[c] # "done"
    BY <2>1, <2>2 DEF Removed, Leaving, RegInv
  <2> QED
    BY <1>u, <2>1, <2>2, <2>3 DEF RegInv
<1>2. CASE ConnectionDisconnect(c)
  <2>1. /\ dh[c] = "connection" /\ disconnected' = [disconnected EXCEPT ![c] = TRUE]
        /\ \/ /\ server[c] # None /\ connections' = connections
              /\ dh' = [dh EXCEPT ![c] = "server"]
           \/ dh' = [dh EXCEPT ![c] = "done"] /\ connections' = connections \ {c}
    BY <1>2 DEF ConnectionDisconnect
  <2>2. /\ \A d \in Conns : d # c => dh'[d] = dh[d] /\ disconnected'[d] = disconnected[d]
                                     /\ (d \in connections' <=> d \in connections)
        /\ disconnected'[c]
        /\ \/ server[c] # None /\ connections' = connections /\ dh'[c] = "server"
           \/ dh'[c] = "done" /\ c \notin connections'
    BY <1>t, <2>1
  <2>3. /\ c \in connections' <=> arrival[c] # 0 /\ dh'[c] \notin Removed
        /\ dh'[c] \in Leaving => arrival[c] # 0
    BY <2>1, <2>2 DEF Removed, Leaving, RegInv
  <2> QED
    BY <1>u, <2>2, <2>3 DEF RegInv
<1>3. CASE ServerDisconnect(c) \/ ReplacementAwaited(c)
  <2>1. /\ UNCHANGED <<connections, disconnected>>
        /\ dh[c] \in {"server", "known", "replacement"}
        /\ \E x \in {"remove", "known", "replacement"} : dh' = [dh EXCEPT ![c] = x]
    BY <1>3 DEF ServerDisconnect, ReplacementAwaited, regVars
  <2>2. (\A d \in Conns : d # c => dh'[d] = dh[d]) /\ dh'[c] \in {"remove", "known", "replacement"}
    BY <1>t, <2>1
  <2>3. /\ dh[c] \notin Removed /\ dh'[c] \notin Removed /\ arrival[c] # 0 /\ dh'[c] # "done"
    BY <2>1, <2>2 DEF Removed, Leaving, RegInv
  <2> QED
    BY <1>u, <2>1, <2>2, <2>3 DEF RegInv
<1>4. CASE KnownTimeout(c)
  <2>1. UNCHANGED <<connections, disconnected, dh>>
    BY <1>4 DEF KnownTimeout, connVars
  <2> QED
    BY <1>u, <2>1, FrameReg
<1>5. CASE ServerRemove(c)
  <2>1. /\ dh[c] = "remove" /\ connections' = connections \ {c} /\ disconnected' = disconnected
        /\ dh' = [dh EXCEPT ![c] = "finalize"]
    BY <1>5 DEF ServerRemove
  <2>2. /\ \A d \in Conns : d # c => dh'[d] = dh[d] /\ (d \in connections' <=> d \in connections)
        /\ dh'[c] = "finalize" /\ c \notin connections'
    BY <1>t, <2>1
  <2>3. arrival[c] # 0 /\ dh'[c] \in Removed /\ dh'[c] # "done"
    BY <2>1, <2>2 DEF RegInv, Removed, Leaving
  <2> QED
    BY <1>u, <2>1, <2>2, <2>3 DEF RegInv
<1>6. CASE ServerFinalize(c) \/ FinReturn(c)
  <2>1. /\ UNCHANGED <<connections, disconnected>> /\ dh[c] \in {"finalize", "finalizing"}
        /\ \E x \in {"finalizing", "done"} : dh' = [dh EXCEPT ![c] = x]
    BY <1>6 DEF ServerFinalize, FinReturn
  <2>2. (\A d \in Conns : d # c => dh'[d] = dh[d]) /\ dh'[c] \in {"finalizing", "done"}
    BY <1>t, <2>1
  <2>3. arrival[c] # 0 /\ dh'[c] \in Removed /\ dh[c] \in Removed
    BY <2>1, <2>2 DEF RegInv, Removed, Leaving
  <2> QED
    BY <1>u, <2>1, <2>2, <2>3 DEF RegInv
<1> QED
    BY <1>1, <1>2, <1>3, <1>4, <1>5, <1>6 DEF ServerThread

\* wait_for_connection() finds registered connections only.
LEMMA WaitReg ==
    ASSUME TypeInv, RegInv, WaitStep
    PROVE  RegInv'
<1>1. CASE \E t \in Waiters : EnterWait(t)
  <2>1. UNCHANGED <<connections, arrival, dh, disconnected, server, got>>
    BY <1>1 DEF EnterWait, regVars, connVars, sessVars
  <2> QED
    BY <2>1, FrameReg
<1>2. CASE \E t \in Conns \cup Sessions : TimerFires(t)
  <2>1. UNCHANGED <<connections, arrival, dh, disconnected, server, got>>
    BY <1>2 DEF TimerFires, connVars, sessVars
  <2> QED
    BY <2>1, FrameReg
<1>3. ASSUME NEW t \in Conns \cup Sessions, WaitCheck(t) PROVE RegInv'
  <2> DEFINE found == {c \in connections : Matches(t, c)}
  <2>1. /\ UNCHANGED <<connections, arrival, dh, disconnected, server>>
        /\ \/ got' = got
           \/ got' = [got EXCEPT ![t] = None]
           \/ found # {} /\ got' = [got EXCEPT ![t] = Oldest(found)]
    BY <1>3 DEF WaitCheck, regVars, connVars
  <2>2. connections \subseteq Conns /\ got \in [Sessions -> Conns \cup {None}]
    BY DEF TypeInv, RegTypes, SessTypes
  <2>3. found # {} => Oldest(found) \in found
    BY <2>2, OldestFound
  <2>4. found # {} => arrival[Oldest(found)] # 0
    BY <2>2, <2>3 DEF RegInv
  <2> HIDE DEF found
  <2>5. \A s \in Sessions : got'[s] # None => arrival'[got'[s]] # 0
    BY <2>1, <2>2, <2>4 DEF RegInv
  <2> QED
    BY <2>1, <2>5 DEF RegInv
<1> QED
    BY <1>1, <1>2, <1>3 DEF WaitStep

\* Attaching and detaching.
LEMMA OthersReg ==
    ASSUME TypeInv, RegInv,
           \/ AcceptThread /\ ~Register
           \/ MainCheck \/ MainExit \/ UNCHANGED vars
           \/ \E c \in Conns : Peer(c)
           \/ \E s \in Sessions : FinalizeStep(s) \/ ClientThread(s) \/ ClientRequest(s)
                                  \/ LauncherStep(s)
    PROVE  RegInv'
<1>1. CASE \/ AcceptThread /\ ~Register
           \/ MainCheck \/ MainExit \/ UNCHANGED vars
           \/ \E c \in Conns : Peer(c)
  <2>1. UNCHANGED <<connections, arrival, dh, disconnected, server, got>>
    BY <1>1 DEF AcceptThread, HandshakeFails, FindParent, CheckReplacement, NotifyParent, UnblockOrphan,
                MainCheck, MainExit, vars, Peer, Accept, PeerExit, ProcessReplaced, regVars,
                connVars, sessVars
  <2> QED
    BY <2>1, FrameReg
<1>2. ASSUME NEW s \in Sessions, FinalizeStep(s), ~FinDetach(s) PROVE RegInv'
  <2>1. UNCHANGED <<connections, arrival, dh, disconnected, server, got>>
    BY <1>2 DEF FinalizeStep, FinUnblock, FinRequest, FinLauncher, FinLauncherGone, FinClient,
                FinKill, LauncherReturn, regVars, connVars
  <2> QED
    BY <2>1, FrameReg
<1>3. ASSUME NEW s \in Sessions, FinDetach(s) PROVE RegInv'
  <2>1. /\ UNCHANGED <<connections, arrival, dh, disconnected, got>>
        /\ server' = [server EXCEPT ![srv[s]] = None]
        /\ server \in [Conns -> Sessions \cup {None}]
    BY <1>3 DEF FinDetach, regVars, TypeInv, ConnTypes
  <2>2. \A c \in Conns : server'[c] # None => server[c] # None
    BY <2>1
  <2> QED
    BY <2>1, <2>2 DEF RegInv
<1>4. ASSUME NEW s \in Sessions, ClientThread(s), ~AttachToSession(s) PROVE RegInv'
  <2>1. /\ UNCHANGED <<connections, arrival, dh, disconnected, server>>
        /\ got' = got \/ got' = [got EXCEPT ![s] = None]
    BY <1>4 DEF ClientThread, LaunchProceeds, LaunchFails, NoConnection, AttachBegins,
                StartSucceeds, StartFails, StartLost, HandlerReturn, CloseClient, regVars,
                connVars
  <2>2. got \in [Sessions -> Conns \cup {None}]
    BY DEF TypeInv, SessTypes
  <2> QED
    BY <2>1, <2>2 DEF RegInv
<1>5. ASSUME NEW s \in Sessions, AttachToSession(s) PROVE RegInv'
  <2>1. /\ UNCHANGED <<connections, arrival, dh, disconnected>>
        /\ got' = [got EXCEPT ![s] = None] /\ server' = [server EXCEPT ![got[s]] = s]
        /\ server \in [Conns -> Sessions \cup {None}] /\ got \in [Sessions -> Conns \cup {None}]
    BY <1>5 DEF AttachToSession, TypeInv, ConnTypes, SessTypes
  <2>2. \A c \in Conns : server'[c] # None => server[c] # None \/ c = got[s]
    BY <2>1
  <2>3. \A c \in Conns : server'[c] # None => arrival[c] # 0
    BY <2>1, <2>2 DEF RegInv
  <2>4. \A x \in Sessions : got'[x] # None => arrival[got'[x]] # 0
    BY <2>1 DEF RegInv
  <2> QED
    BY <2>1, <2>3, <2>4 DEF RegInv
<1>6. ASSUME NEW s \in Sessions, ClientRequest(s) \/ LauncherStep(s) PROVE RegInv'
  <2>1. UNCHANGED <<connections, arrival, dh, disconnected, server, got>>
    BY <1>6 DEF ClientRequest, NewClient, LaunchRequest, AttachRequest, ConfigurationDone,
                TerminateRequest, DisconnectRequest, ClientDisconnect, LauncherStep,
                LauncherConnects, LauncherReports, LauncherLost, regVars, connVars
  <2> QED
    BY <2>1, FrameReg
<1> QED
    BY <1>1, <1>2, <1>3, <1>4, <1>5, <1>6

LEMMA RegInvariant == Spec => [](TypeInv /\ RegInv)
<1>1. Init => RegInv
    BY DEF Init, RegInv, Leaving, Removed
<1>2. TypeInv /\ RegInv /\ [Next]_vars => RegInv'
    BY RegisterReg, ServerReg, WaitReg, OthersReg DEF Next
<1> QED
    BY <1>1, <1>2, TypeInvariant, PTL DEF Spec

\* No connection stays in _connections once its disconnect() is over: one whose
\* server goes away during Connection.__init__ is either not registered any more, or
\* registered with its disconnect() still to come.
THEOREM NoGhosts == Spec => []NoGhostConnection
<1>1. TypeInv /\ RegInv => NoGhostConnection
    BY DEF TypeInv, RegTypes, RegInv, Removed, NoGhostConnection
<1> QED
    BY <1>1, RegInvariant, PTL

\* Server.disconnect() finds its connection in the list, so that remove() raises
\* nothing, whichever disconnect() the channel had called.
THEOREM RemovalsFind == Spec => []RemovalFindsConnection
<1>1. TypeInv /\ RegInv => RemovalFindsConnection
    BY DEF TypeInv, RegInv, Removed, Leaving, RemovalFindsConnection
<1> QED
    BY <1>1, RegInvariant, PTL

\* Two registered servers have different process ids unless one was replaced.
THEOREM PidsAreUnique == Spec => []PidsIdentifyServers
<1>1. Init => PidsIdentifyServers
    BY DEF Init, PidsIdentifyServers
<1>2. ASSUME TypeInv, PidsIdentifyServers, [Next]_vars
      PROVE  PidsIdentifyServers'
  <2>1. \A c \in Conns : replaced[c] => replaced'[c]
    <3>1. replaced' = replaced \/ \E c \in Conns : replaced' = [replaced EXCEPT ![c] = TRUE]
      <4>1. CASE \E c \in Conns : Peer(c) \/ ServerThread(c)
        BY <4>1 DEF Peer, Accept, PeerExit, ProcessReplaced, ServerThread, HandleDisconnect,
                    ConnectionDisconnect, ServerDisconnect, KnownTimeout, ReplacementAwaited,
                    ServerRemove, ServerFinalize, FinReturn, connVars
      <4>2. CASE AcceptThread \/ WaitStep \/ MainCheck \/ MainExit \/ UNCHANGED vars
        BY <4>2 DEF AcceptThread, HandshakeFails, Register, FindParent, CheckReplacement, NotifyParent,
                    UnblockOrphan, WaitStep, EnterWait, WaitCheck, TimerFires, MainCheck, MainExit,
                    vars, connVars
      <4>3. CASE \E s \in Sessions : FinalizeStep(s) \/ ClientThread(s)
        BY <4>3 DEF FinalizeStep, FinUnblock, FinRequest, FinDetach, FinLauncher, FinLauncherGone,
                    FinClient, FinKill, LauncherReturn, ClientThread, LaunchProceeds, LaunchFails,
                    NoConnection, AttachBegins, AttachToSession, StartSucceeds, StartFails,
                    StartLost, HandlerReturn, CloseClient, connVars
      <4>4. CASE \E s \in Sessions : ClientRequest(s) \/ LauncherStep(s)
        BY <4>4 DEF ClientRequest, NewClient, LaunchRequest, AttachRequest, ConfigurationDone,
                    TerminateRequest, DisconnectRequest, ClientDisconnect, LauncherStep,
                    LauncherConnects, LauncherReports, LauncherLost, connVars
      <4> QED
        BY <1>2, <4>1, <4>2, <4>3, <4>4 DEF Next
    <3> QED
      BY <1>2, <3>1 DEF TypeInv, ConnTypes
  <2>2. \/ connections' \subseteq connections
        \/ Register /\ connections' = connections \cup {acc.conn} /\ ~PidClash(acc.conn)
    <3>1. CASE \E c \in Conns : Peer(c) \/ ServerThread(c)
      BY <3>1 DEF Peer, Accept, PeerExit, ProcessReplaced, ServerThread, HandleDisconnect,
                  ConnectionDisconnect, ServerDisconnect, KnownTimeout, ReplacementAwaited,
                  ServerRemove, ServerFinalize, FinReturn, regVars
    <3>2. CASE (AcceptThread /\ ~Register) \/ WaitStep \/ MainCheck \/ MainExit \/ UNCHANGED vars
      BY <3>2 DEF AcceptThread, HandshakeFails, FindParent, CheckReplacement, NotifyParent,
                  UnblockOrphan, WaitStep, EnterWait, WaitCheck, TimerFires, MainCheck, MainExit,
                  vars, regVars
    <3>3. CASE \E s \in Sessions : FinalizeStep(s) \/ ClientThread(s)
      BY <3>3 DEF FinalizeStep, FinUnblock, FinRequest, FinDetach, FinLauncher, FinLauncherGone,
                  FinClient, FinKill, LauncherReturn, ClientThread, LaunchProceeds, LaunchFails,
                  NoConnection, AttachBegins, AttachToSession, StartSucceeds, StartFails,
                  StartLost, HandlerReturn, CloseClient, regVars
    <3>4. CASE \E s \in Sessions : ClientRequest(s) \/ LauncherStep(s)
      BY <3>4 DEF ClientRequest, NewClient, LaunchRequest, AttachRequest, ConfigurationDone,
                  TerminateRequest, DisconnectRequest, ClientDisconnect, LauncherStep,
                  LauncherConnects, LauncherReports, LauncherLost, regVars
    <3>5. CASE Register
      BY <3>5 DEF Register, Append
    <3> QED
      BY <1>2, <3>1, <3>2, <3>3, <3>4, <3>5 DEF Next
  <2>3. connections \subseteq Conns
    BY <1>2 DEF TypeInv, RegTypes
  <2>4. CASE connections' \subseteq connections
    BY <1>2, <2>1, <2>3, <2>4 DEF PidsIdentifyServers
  <2>5. CASE Register /\ connections' = connections \cup {acc.conn} /\ ~PidClash(acc.conn)
    <3>1. \A d \in connections : Pid[d] = Pid[acc.conn] => replaced[d]
      BY <2>5 DEF PidClash
    <3> QED
      BY <1>2, <2>1, <2>3, <2>5, <3>1 DEF PidsIdentifyServers
  <2> QED
    BY <2>2, <2>4, <2>5
<1>3. TypeInv /\ PidsIdentifyServers /\ [Next]_vars => PidsIdentifyServers'
    BY <1>2
<1> QED
    BY <1>1, <1>3, TypeInvariant, PTL DEF Spec

-----------------------------------------------------------------------------
(***************************************************************************)
(* Sessions and their servers.  A start handler keeps Session.lock from    *)
(* its wait for a connection to the end, so that nobody can finalize the   *)
(* session meanwhile.  Only a "launch" has released it before, to wait for *)
(* its launcher: the session may have been finalized then, by the          *)
(* launcher's thread, which found no server ("overtaken").  A thread that  *)
(* runs finalize() holds Session.lock except in its wait for the launcher, *)
(* and comes to the server only if there is one.                           *)
(***************************************************************************)
Starting(s) == st[s] \in Begun

HandlerOK(s) ==
    /\ waiter[s] # "none" => st[s] = "starting"
    /\ st[s] = "launching" => srv[s] = None /\ (fin[s] = "no" \/ s \in overtaken)
    /\ Starting(s) => slock[s] = s /\ (fin[s] = "no" \/ (s \in overtaken /\ fin[s] = "done"))
    /\ st[s] = "attached" => srv[s] # None

FinalizeOK(s) ==
    /\ fin[s] \in {"request", "detach"} => srv[s] # None /\ s \notin overtaken
    /\ fin[s] # "no" => finBy[s] # None
    /\ fin[s] \notin {"no", "waiting", "done"} => slock[s] = finBy[s]
    /\ s \in overtaken =>
          /\ launcher[s] = "gone" /\ finBy[s] = Launcher
          /\ fin[s] \notin {"no", "waiting"}
          /\ fin[s] # "done" => srv[s] = None

OwnsOK(s) ==
    srv[s] # None => (server[srv[s]] = s <=> (fin[s] \notin Given \/ s \in overtaken))

SessInv == \A s \in Sessions : HandlerOK(s) /\ FinalizeOK(s) /\ OwnsOK(s)

(***************************************************************************)
(* The threads of the servers' channels: a disconnect() that goes to a     *)
(* Server knows a session that has attached, or brings the adapter down;   *)
(* one that runs finalize() is the thread that entered it; and the         *)
(* connection of an attach_to_session() that has begun is still free.      *)
(***************************************************************************)
LinkInv ==
    /\ \A c \in Conns : server[c] # None => srv[server[c]] # None
    /\ \A c \in Conns : dh[c] \in Leaving => srv[dsess[c]] # None \/ main = "crashed"
    /\ \A c \in Conns : dh[c] = "finalizing" => finBy[dsess[c]] = c /\ fin[dsess[c]] # "no"
    /\ lock \in Sessions =>
          waiter[lock] = "done" /\ got[lock] \in Conns /\ server[got[lock]] = None

SessTyped ==
    /\ fin \in [Sessions -> {"no", "unblock", "request", "detach"} \cup Given]
    /\ server \in [Conns -> Sessions \cup {None}] /\ srv \in [Sessions -> Conns \cup {None}]
    /\ got \in [Sessions -> Conns \cup {None}]
    /\ waiter \in [Waiters -> {"none", "enter", "asleep", "check", "done"}]
    /\ slock \in [Sessions -> Holders \cup {None}] /\ finBy \in [Sessions -> Holders \cup {None}]
    /\ st \in [Sessions -> {"none", "idle", "launching"} \cup Begun
                           \cup {"terminate", "disconnect", "closed", "gone"}]
    /\ launcher \in [Sessions -> {"none", "up", "gone"}] /\ overtaken \subseteq Sessions
    /\ dh \in [Conns -> {"idle", "connection", "done"} \cup Leaving]
    /\ dsess \in [Conns -> Sessions \cup {None}]
    /\ Sessions \subseteq Waiters /\ Conns \subseteq Waiters /\ Main \in Waiters
    /\ Conns \cap Sessions = {} /\ Main \notin Conns \cup Sessions /\ None \notin Conns \cup Sessions
    /\ Launcher \notin Conns \cup Sessions \cup {None}

LEMMA TypedFacts == TypeInv => SessTyped
BY DEF TypeInv, ConnTypes, SessTypes, EventTypes, LaunchTypes, Waiters, SessTyped

\* The event: set() leaves nobody out of the wait who was in it.
LEMMA WakeKeeps ==
    ASSUME TypeInv, SetChanged
    PROVE  /\ changed' = TRUE
           /\ \A t \in Waiters : waiter'[t] = "none" <=> waiter[t] = "none"
           /\ \A t \in Waiters : waiter'[t] # "asleep"
           /\ \A t \in Waiters : waiter'[t] = "enter" <=> waiter[t] = "enter"
           /\ \A t \in Waiters : waiter[t] = "done" => waiter'[t] = "done"
BY DEF TypeInv, EventTypes, SetChanged, Wake

\* What a session keeps when a step is not about it.
Same(x) ==
    /\ st'[x] = st[x] /\ slock'[x] = slock[x] /\ fin'[x] = fin[x] /\ srv'[x] = srv[x]
    /\ finBy'[x] = finBy[x] /\ launcher'[x] = launcher[x] /\ (x \in overtaken' <=> x \in overtaken)
    /\ waiter'[x] # "none" => waiter[x] # "none"

\* A step that concerns only session s.
LEMMA OneSess ==
    ASSUME TypeInv, SessInv, NEW s \in Sessions,
           \A x \in Sessions : x # s => Same(x),
           HandlerOK(s)', FinalizeOK(s)', OwnsOK(s)',
           \A c \in Conns, x \in Sessions : x # s => (server'[c] = x <=> server[c] = x)
    PROVE  SessInv'
<1>1. ASSUME NEW x \in Sessions, x # s PROVE HandlerOK(x)' /\ FinalizeOK(x)' /\ OwnsOK(x)'
  <2>1. HandlerOK(x) /\ FinalizeOK(x) /\ OwnsOK(x) /\ Same(x)
    BY <1>1 DEF SessInv
  <2>2. HandlerOK(x)' /\ FinalizeOK(x)'
    BY <2>1 DEF HandlerOK, FinalizeOK, Same, Starting
  <2>3. srv[x] # None => (server'[srv[x]] = x <=> server[srv[x]] = x)
    BY <1>1 DEF TypeInv, SessTypes
  <2>4. OwnsOK(x)'
    BY <2>1, <2>3 DEF OwnsOK, Same
  <2> QED
    BY <2>2, <2>4
<1> QED
    BY <1>1 DEF SessInv

LEMMA FrameSess ==
    ASSUME TypeInv, SessInv, server' = server, \A x \in Sessions : Same(x)
    PROVE  SessInv'
<1>1. ASSUME NEW x \in Sessions PROVE HandlerOK(x)' /\ FinalizeOK(x)' /\ OwnsOK(x)'
  <2>1. HandlerOK(x) /\ FinalizeOK(x) /\ OwnsOK(x) /\ Same(x)
    BY <1>1 DEF SessInv
  <2>2. HandlerOK(x)' /\ FinalizeOK(x)'
    BY <2>1 DEF HandlerOK, FinalizeOK, Same, Starting
  <2>3. OwnsOK(x)'
    BY <2>1 DEF OwnsOK, Same
  <2> QED
    BY <2>2, <2>3
<1> QED
    BY <1>1 DEF SessInv

\* finalize() is entered on the session's own thread.
LEMMA FinalizeCallSess ==
    ASSUME TypeInv, SessInv, NEW s \in Sessions,
           NEW why \in {"terminate", "disconnect", "gone"}, Finalize(s, why),
           UNCHANGED <<srv, server>>, slock[s] = None \/ Starting(s), st[s] # "launching",
           waiter' = waiter \/ waiter' = [waiter EXCEPT ![s] = "none"],
           waiter'[s] = "none"
    PROVE  SessInv'
<1>t. SessTyped
    BY TypedFacts
<1>i. HandlerOK(s) /\ FinalizeOK(s) /\ OwnsOK(s)
    BY DEF SessInv
<1>1. /\ slock' = [slock EXCEPT ![s] = s] /\ st' = [st EXCEPT ![s] = why]
      /\ fin' = [fin EXCEPT ![s] = IF @ = "no" THEN "unblock" ELSE @]
      /\ finBy' = [finBy EXCEPT ![s] = IF fin[s] = "no" THEN s ELSE @]
      /\ UNCHANGED <<launcher, overtaken>>
    BY DEF Finalize, EnterFinalize
<1>2. \A x \in Sessions : x # s => Same(x)
    BY <1>t, <1>1 DEF Same, SessTyped
<1>3. /\ slock'[s] = s /\ st'[s] = why
      /\ \/ fin[s] = "no" /\ fin'[s] = "unblock" /\ finBy'[s] = s
         \/ fin[s] # "no" /\ fin'[s] = fin[s] /\ finBy'[s] = finBy[s]
    BY <1>t, <1>1 DEF SessTyped
<1>4. HandlerOK(s)'
    BY <1>3 DEF HandlerOK, Starting, Begun
<1>5. FinalizeOK(s)'
    BY <1>t, <1>1, <1>3, <1>i DEF FinalizeOK, HandlerOK, SessTyped, Starting
<1>6. OwnsOK(s)'
    BY <1>1, <1>3, <1>i DEF OwnsOK, Given
<1> QED
    BY <1>2, <1>4, <1>5, <1>6, OneSess

\* A start handler returns.
LEMMA ReturnSess ==
    ASSUME TypeInv, SessInv, NEW s \in Sessions, Return(s),
           UNCHANGED <<srv, server, fin, launchVars>>, slock[s] = None \/ Starting(s),
           waiter' = waiter \/ waiter' = [waiter EXCEPT ![s] = "none"],
           waiter'[s] = "none"
    PROVE  SessInv'
<1>t. SessTyped
    BY TypedFacts
<1>i. HandlerOK(s) /\ FinalizeOK(s) /\ OwnsOK(s)
    BY DEF SessInv
<1>1. /\ slock' = [slock EXCEPT ![s] = None] /\ st' = [st EXCEPT ![s] = "idle"]
      /\ UNCHANGED <<srv, server, fin, launcher, finBy, overtaken>>
    BY DEF Return, launchVars
<1>2. \A x \in Sessions : x # s => Same(x)
    BY <1>t, <1>1 DEF Same, SessTyped
<1>3. slock'[s] = None /\ st'[s] = "idle"
    BY <1>t, <1>1 DEF SessTyped
<1>4. HandlerOK(s)'
    BY <1>3 DEF HandlerOK, Starting, Begun
<1>5. FinalizeOK(s)'
    BY <1>t, <1>1, <1>3, <1>i DEF FinalizeOK, HandlerOK, SessTyped
<1>6. OwnsOK(s)'
    BY <1>1, <1>i DEF OwnsOK
<1> QED
    BY <1>1, <1>2, <1>4, <1>5, <1>6, OneSess

\* The threads other than the sessions' own.
LEMMA OthersSess ==
    ASSUME TypeInv, SessInv,
           \/ AcceptThread \/ WaitStep \/ MainCheck \/ MainExit \/ UNCHANGED vars
           \/ \E c \in Conns : Peer(c)
           \/ \E c \in Conns : ServerThread(c) /\ ~ServerFinalize(c) /\ ~FinReturn(c)
    PROVE  SessInv'
<1>t. SessTyped
    BY TypedFacts
<1>f. ASSUME UNCHANGED <<st, slock, fin, srv, server, launchVars>>,
             \/ SetChanged \/ waiter' = waiter
             \/ \E t \in Waiters : waiter[t] # "none" /\ \E x : waiter' = [waiter EXCEPT ![t] = x]
             \/ \E t \in Conns \cup {Main} : \E x : waiter' = [waiter EXCEPT ![t] = x]
      PROVE  SessInv'
  <2>1. \A s \in Sessions : waiter'[s] # "none" => waiter[s] # "none"
    <3>1. CASE SetChanged \/ waiter' = waiter
      BY <1>t, <3>1, WakeKeeps DEF SessTyped
    <3>2. CASE \/ \E t \in Waiters : /\ waiter[t] # "none"
                                     /\ \E x : waiter' = [waiter EXCEPT ![t] = x]
               \/ \E t \in Conns \cup {Main} : \E x : waiter' = [waiter EXCEPT ![t] = x]
      BY <1>t, <3>2 DEF SessTyped
    <3> QED
      BY <1>f, <3>1, <3>2
  <2>2. UNCHANGED <<launcher, finBy, overtaken>>
    BY <1>f DEF launchVars
  <2>3. \A x \in Sessions : Same(x)
    BY <1>f, <2>1, <2>2 DEF Same
  <2> QED
    BY <1>f, <2>3, FrameSess
<1>1. CASE AcceptThread
  <2>1. /\ UNCHANGED <<st, slock, fin, srv, server, launchVars>>
        /\ SetChanged \/ waiter' = waiter
    BY <1>1 DEF AcceptThread, HandshakeFails, Register, Append, FindParent, CheckReplacement,
                NotifyParent, UnblockOrphan, connVars, sessVars, eventVars
  <2> QED
    BY <1>f, <2>1
<1>2. CASE WaitStep
  <2>1. CASE \E t \in Waiters : EnterWait(t)
    <3>1. UNCHANGED <<st, slock, fin, srv, server, launchVars>>
      BY <2>1 DEF EnterWait, connVars, sessVars
    <3>2. \E t \in Waiters : waiter[t] # "none" /\ \E x : waiter' = [waiter EXCEPT ![t] = x]
      BY <2>1 DEF EnterWait
    <3> QED
      BY <1>f, <3>1, <3>2
  <2>2. ASSUME NEW t \in Conns \cup Sessions, WaitCheck(t) PROVE SessInv'
    <3>1. UNCHANGED <<st, slock, fin, srv, server, launchVars>>
      BY <2>2 DEF WaitCheck, connVars
    <3>2. t \in Waiters /\ waiter[t] # "none" /\ \E x : waiter' = [waiter EXCEPT ![t] = x]
      BY <2>2 DEF WaitCheck, Waiters
    <3> QED
      BY <1>f, <3>1, <3>2
  <2>3. CASE \E t \in Conns \cup Sessions : TimerFires(t)
    <3>1. UNCHANGED <<st, slock, fin, srv, server, launchVars>> /\ SetChanged
      BY <2>3 DEF TimerFires, connVars, sessVars
    <3> QED
      BY <1>f, <3>1
  <2> QED
    BY <1>2, <2>1, <2>2, <2>3 DEF WaitStep
<1>3. CASE MainCheck \/ MainExit \/ UNCHANGED vars
  <2>1. /\ UNCHANGED <<st, slock, fin, srv, server, launchVars>>
        /\ waiter' = waiter \/ \E x : waiter' = [waiter EXCEPT ![Main] = x]
    BY <1>3 DEF MainCheck, MainExit, vars, connVars, sessVars, eventVars
  <2> QED
    BY <1>f, <2>1
<1>4. CASE \E c \in Conns : Peer(c)
  <2>1. UNCHANGED <<st, slock, fin, srv, server, launchVars, waiter>>
    BY <1>4 DEF Peer, Accept, PeerExit, ProcessReplaced, sessVars, eventVars
  <2> QED
    BY <1>f, <2>1
<1>5. ASSUME NEW c \in Conns, ServerThread(c), ~ServerFinalize(c), ~FinReturn(c)
      PROVE  SessInv'
  <2>1. /\ UNCHANGED <<st, slock, fin, srv, server, launchVars>>
        /\ SetChanged \/ waiter' = waiter \/ \E x : waiter' = [waiter EXCEPT ![c] = x]
    BY <1>5 DEF ServerThread, HandleDisconnect, ConnectionDisconnect, ServerDisconnect,
                KnownTimeout, ReplacementAwaited, ServerRemove, connVars, sessVars, eventVars
  <2> QED
    BY <1>f, <2>1
<1> QED
    BY <1>1, <1>2, <1>3, <1>4, <1>5

\* Server.disconnect() may finalize a session that nobody has locked; that session
\* has attached, so that it is not waiting for its launcher to begin.
LEMMA ServerSess ==
    ASSUME TypeInv, SessInv, LinkInv, Running, NEW c \in Conns, ServerFinalize(c) \/ FinReturn(c)
    PROVE  SessInv'
<1>0. PICK s : s = dsess[c]
    OBVIOUS
<1>t. SessTyped
    BY TypedFacts
<1>s. s \in Sessions /\ srv[s] # None /\ dh[c] \in Leaving
  <2>1. dh[c] \in Leaving
    BY DEF ServerFinalize, FinReturn, Leaving
  <2> QED
    BY <1>0, <2>1 DEF TypeInv, ConnTypes, LinkInv, Running
<1>i. HandlerOK(s) /\ FinalizeOK(s) /\ OwnsOK(s)
    BY <1>s DEF SessInv
<1>c. c \in Holders /\ c # None
    BY <1>t DEF Holders, SessTyped
<1>1. UNCHANGED <<st, srv, server, waiter, launcher, overtaken>>
    BY DEF ServerFinalize, FinReturn, eventVars, launchVars
<1>2. CASE ServerFinalize(c)
  <2>1. /\ slock[s] = None
        /\ \/ fin[s] # "no" /\ slock' = slock
           \/ fin[s] = "no" /\ slock' = [slock EXCEPT ![s] = c]
        /\ fin' = [fin EXCEPT ![s] = IF @ = "no" THEN "unblock" ELSE @]
        /\ finBy' = [finBy EXCEPT ![s] = IF fin[s] = "no" THEN c ELSE @]
    BY <1>0, <1>2 DEF ServerFinalize, EnterFinalize
  <2>2. \A x \in Sessions : x # s => Same(x)
    BY <1>t, <1>s, <1>1, <2>1 DEF Same, SessTyped
  <2>3. \/ fin[s] = "no" /\ fin'[s] = "unblock" /\ slock'[s] = c /\ finBy'[s] = c
        \/ fin[s] # "no" /\ fin'[s] = fin[s] /\ slock'[s] = None /\ finBy'[s] = finBy[s]
    BY <1>t, <1>s, <2>1 DEF SessTyped
  <2>4. ~Starting(s)
    BY <1>t, <1>s, <1>i, <2>1 DEF HandlerOK, SessTyped
  <2>5. HandlerOK(s)'
    BY <1>1, <1>s, <1>i, <2>4 DEF HandlerOK, Starting, Begun
  <2>6. FinalizeOK(s)'
    BY <1>c, <1>1, <1>s, <1>i, <2>1, <2>3 DEF FinalizeOK
  <2>7. OwnsOK(s)'
    BY <1>1, <1>i, <2>3 DEF OwnsOK, Given
  <2> QED
    BY <1>s, <1>1, <2>2, <2>5, <2>6, <2>7, OneSess
<1>3. CASE FinReturn(c)
  <2>1. /\ fin[s] = "done" /\ UNCHANGED <<fin, finBy>> /\ finBy[s] = c
        /\ slock' = [slock EXCEPT ![s] = None]
    BY <1>0, <1>3 DEF FinReturn, launchVars, LinkInv
  <2>2. \A x \in Sessions : x # s => Same(x)
    BY <1>t, <1>s, <1>1, <2>1 DEF Same, SessTyped
  <2>3. ~Starting(s)
    BY <1>t, <1>i, <2>1 DEF HandlerOK, FinalizeOK, SessTyped
  <2>4. HandlerOK(s)'
    BY <1>1, <1>s, <1>i, <2>3 DEF HandlerOK, Starting, Begun
  <2>5. FinalizeOK(s)' /\ OwnsOK(s)'
    BY <1>1, <1>i, <2>1 DEF FinalizeOK, OwnsOK
  <2> QED
    BY <1>s, <1>1, <2>2, <2>4, <2>5, OneSess
<1> QED
    BY <1>2, <1>3

\* finalize().
LEMMA FinalizeSess ==
    ASSUME TypeInv, SessInv, NEW s \in Sessions, FinalizeStep(s)
    PROVE  SessInv'
<1>t. SessTyped
    BY TypedFacts
<1>i. HandlerOK(s) /\ FinalizeOK(s) /\ OwnsOK(s)
    BY DEF SessInv
<1>1. UNCHANGED <<st, srv, launcher, finBy, overtaken>> /\ (SetChanged \/ waiter' = waiter)
    BY DEF FinalizeStep, FinUnblock, FinRequest, FinDetach, FinLauncher, FinLauncherGone,
           FinClient, FinKill, LauncherReturn, eventVars, launchVars
<1>2. /\ \A x \in Sessions : waiter'[x] # "none" => waiter[x] # "none"
      /\ waiter'[s] # "none" => st'[s] = "starting"
    BY <1>t, <1>i, <1>1, WakeKeeps DEF SessTyped, HandlerOK
<1>3. ~Starting(s)
  <2>1. \/ fin[s] \notin {"no", "done"}
        \/ slock[s] \in {None, Launcher}
    BY <1>t DEF FinalizeStep, FinUnblock, FinRequest, FinDetach, FinLauncher, FinLauncherGone,
                FinClient, FinKill, LauncherReturn, FinAt, SessTyped
  <2> QED
    BY <1>t, <1>i, <2>1 DEF HandlerOK, SessTyped
<1>4. ASSUME fin[s] # "no" PROVE HandlerOK(s)'
    BY <1>i, <1>1, <1>2, <1>3, <1>4 DEF HandlerOK, Starting, Begun
<1>5. CASE FinUnblock(s)
  <2>1. /\ fin[s] = "unblock" /\ server' = server /\ slock' = slock
        /\ \E x \in {"launcher", "request", "detach"} :
              /\ fin' = [fin EXCEPT ![s] = x]
              /\ x = "launcher" <=> srv[s] = None
    BY <1>5 DEF FinUnblock, FinAt, connVars
  <2>2. \A x \in Sessions : x # s => Same(x)
    BY <1>t, <1>1, <1>2, <2>1 DEF Same, SessTyped
  <2>3. fin'[s] \in {"launcher", "request", "detach"} /\ (fin'[s] = "launcher" <=> srv[s] = None)
    BY <1>t, <2>1 DEF SessTyped
  <2>4. FinalizeOK(s)'
    BY <1>i, <1>1, <2>1, <2>3 DEF FinalizeOK
  <2>5. OwnsOK(s)'
    BY <1>i, <1>1, <2>1, <2>3 DEF OwnsOK, Given
  <2> QED
    BY <1>4, <2>1, <2>2, <2>4, <2>5, OneSess
<1>6. CASE FinRequest(s)
  <2>1. /\ fin[s] = "request" /\ server' = server /\ slock' = slock
        /\ fin' = [fin EXCEPT ![s] = "detach"]
    BY <1>6 DEF FinRequest, FinAt, connVars
  <2>2. (\A x \in Sessions : x # s => Same(x)) /\ fin'[s] = "detach"
    BY <1>t, <1>1, <1>2, <2>1 DEF Same, SessTyped
  <2>3. FinalizeOK(s)'
    BY <1>i, <1>1, <2>1, <2>2 DEF FinalizeOK
  <2>4. OwnsOK(s)'
    BY <1>i, <1>1, <2>1, <2>2 DEF OwnsOK, Given
  <2> QED
    BY <1>4, <2>1, <2>2, <2>3, <2>4, OneSess
<1>7. CASE FinDetach(s)
  <2>1. /\ fin[s] = "detach" /\ server' = [server EXCEPT ![srv[s]] = None] /\ slock' = slock
        /\ fin' = [fin EXCEPT ![s] = "launcher"]
    BY <1>7 DEF FinDetach, FinAt
  <2>2. (\A x \in Sessions : x # s => Same(x)) /\ fin'[s] = "launcher"
    BY <1>t, <1>1, <1>2, <2>1 DEF Same, SessTyped
  <2>3. srv[s] \in Conns /\ server[srv[s]] = s /\ s \notin overtaken
    BY <1>t, <1>i, <2>1 DEF FinalizeOK, OwnsOK, Given, SessTyped
  <2>4. /\ \A c \in Conns, x \in Sessions : x # s => (server'[c] = x <=> server[c] = x)
        /\ server'[srv[s]] # s
    BY <1>t, <2>1, <2>3 DEF SessTyped
  <2>5. FinalizeOK(s)' /\ OwnsOK(s)'
    BY <1>i, <1>1, <2>1, <2>2, <2>3, <2>4 DEF FinalizeOK, OwnsOK, Given
  <2> QED
    BY <1>4, <2>1, <2>2, <2>4, <2>5, OneSess
<1>8. CASE FinLauncher(s)
  <2>1. /\ fin[s] = "launcher" /\ server' = server
        /\ \/ /\ launcher[s] = "up" /\ fin' = [fin EXCEPT ![s] = "waiting"]
              /\ slock' = [slock EXCEPT ![s] = None]
           \/ fin' = [fin EXCEPT ![s] = "client"] /\ slock' = slock
    BY <1>8 DEF FinLauncher, FinAt, HasLauncher, connVars
  <2>2. \A x \in Sessions : x # s => Same(x)
    BY <1>t, <1>1, <1>2, <2>1 DEF Same, SessTyped
  <2>3. \/ launcher[s] = "up" /\ fin'[s] = "waiting"
        \/ fin'[s] = "client" /\ slock'[s] = slock[s]
    BY <1>t, <2>1 DEF SessTyped
  <2>4. FinalizeOK(s)'
    BY <1>i, <1>1, <2>1, <2>3 DEF FinalizeOK
  <2>5. OwnsOK(s)'
    BY <1>i, <1>1, <2>1, <2>3 DEF OwnsOK, Given
  <2> QED
    BY <1>4, <2>1, <2>2, <2>4, <2>5, OneSess
<1>9. CASE FinLauncherGone(s)
  <2>1. /\ fin[s] = "waiting" /\ server' = server /\ fin' = [fin EXCEPT ![s] = "client"]
        /\ slock' = [slock EXCEPT ![s] = finBy[s]]
    BY <1>9 DEF FinLauncherGone, connVars
  <2>2. /\ \A x \in Sessions : x # s => Same(x)
        /\ fin'[s] = "client" /\ slock'[s] = finBy[s]
    BY <1>t, <1>1, <1>2, <2>1 DEF Same, SessTyped
  <2>3. FinalizeOK(s)'
    BY <1>i, <1>1, <2>1, <2>2 DEF FinalizeOK
  <2>4. OwnsOK(s)'
    BY <1>i, <1>1, <2>1, <2>2 DEF OwnsOK, Given
  <2> QED
    BY <1>4, <2>1, <2>2, <2>3, <2>4, OneSess
<1>10. CASE FinClient(s) \/ FinKill(s)
  <2>1. /\ fin[s] \in {"client", "kill"} /\ server' = server /\ slock' = slock
        /\ \E x \in {"kill", "done"} : fin' = [fin EXCEPT ![s] = x]
    BY <1>10 DEF FinClient, FinKill, FinAt, connVars
  <2>2. (\A x \in Sessions : x # s => Same(x)) /\ fin'[s] \in {"kill", "done"}
    BY <1>t, <1>1, <1>2, <2>1 DEF Same, SessTyped
  <2>3. FinalizeOK(s)'
    BY <1>i, <1>1, <2>1, <2>2 DEF FinalizeOK
  <2>4. OwnsOK(s)'
    BY <1>i, <1>1, <2>1, <2>2 DEF OwnsOK, Given
  <2> QED
    BY <1>4, <2>1, <2>2, <2>3, <2>4, OneSess
<1>11. CASE LauncherReturn(s)
  <2>1. /\ fin[s] = "done" /\ fin' = fin /\ server' = server
        /\ slock' = [slock EXCEPT ![s] = None]
    BY <1>11 DEF LauncherReturn, connVars
  <2>2. \A x \in Sessions : x # s => Same(x)
    BY <1>t, <1>1, <1>2, <2>1 DEF Same, SessTyped
  <2>3. FinalizeOK(s)' /\ OwnsOK(s)'
    BY <1>i, <1>1, <2>1 DEF FinalizeOK, OwnsOK
  <2> QED
    BY <1>4, <2>1, <2>2, <2>3, OneSess
<1> QED
    BY <1>5, <1>6, <1>7, <1>8, <1>9, <1>10, <1>11 DEF FinalizeStep

\* wait_for_connection() begins, for a session that nobody has locked.
LEMMA LookSess ==
    ASSUME TypeInv, SessInv, NEW s \in Sessions, LookForServer(s), slock[s] = None,
           UNCHANGED <<srv, server, fin, launchVars>>,
           fin[s] = "no" \/ st[s] = "launching"
    PROVE  SessInv'
<1>t. SessTyped
    BY TypedFacts
<1>i. HandlerOK(s) /\ FinalizeOK(s) /\ OwnsOK(s)
    BY DEF SessInv
<1>1. /\ st' = [st EXCEPT ![s] = "starting"] /\ slock' = [slock EXCEPT ![s] = s]
      /\ waiter' = [waiter EXCEPT ![s] = "check"]
      /\ UNCHANGED <<launcher, finBy, overtaken>>
    BY DEF LookForServer, launchVars
<1>2. /\ \A x \in Sessions : x # s => Same(x)
      /\ st'[s] = "starting" /\ slock'[s] = s /\ waiter'[s] = "check"
    BY <1>t, <1>1 DEF Same, SessTyped
<1>3. fin[s] = "no" \/ (s \in overtaken /\ fin[s] = "done")
    BY <1>i DEF HandlerOK, FinalizeOK
<1>4. HandlerOK(s)'
    BY <1>1, <1>2, <1>3 DEF HandlerOK
<1>5. FinalizeOK(s)' /\ OwnsOK(s)'
    BY <1>i, <1>1, <1>2, <1>3 DEF FinalizeOK, OwnsOK
<1> QED
    BY <1>2, <1>4, <1>5, OneSess

\* The handler thread of a client.
LEMMA ClientSess ==
    ASSUME TypeInv, SessInv, LinkInv, NEW s \in Sessions, ClientThread(s)
    PROVE  SessInv'
<1>t. SessTyped
    BY TypedFacts
<1>i. HandlerOK(s) /\ FinalizeOK(s) /\ OwnsOK(s)
    BY DEF SessInv
<1>w. ASSUME waiter' = [waiter EXCEPT ![s] = "none"] PROVE waiter'[s] = "none"
    BY <1>t, <1>w DEF SessTyped
<1>1. CASE NoConnection(s)
  <2>1. /\ st[s] = "starting" /\ UNCHANGED <<srv, server>>
        /\ waiter' = [waiter EXCEPT ![s] = "none"]
        /\ Finalize(s, "terminate") \/ (Return(s) /\ UNCHANGED <<fin, launchVars>>)
    BY <1>1, <1>i DEF NoConnection, HandlerOK, connVars
  <2>2. Starting(s)
    BY <2>1 DEF Starting, Begun
  <2> QED
    BY <1>w, <2>1, <2>2, FinalizeCallSess, ReturnSess
<1>2. CASE AttachBegins(s)
  <2>1. CASE server[got[s]] = None
    <3>1. UNCHANGED <<waiter, st, slock, srv, fin, server, launcher, finBy, overtaken>>
      BY <1>2, <2>1 DEF AttachBegins, connVars, launchVars
    <3>2. \A x \in Sessions : Same(x)
      BY <3>1 DEF Same
    <3> QED
      BY <3>1, <3>2, FrameSess
  <2>2. CASE server[got[s]] # None
    <3>1. /\ st[s] = "starting" /\ UNCHANGED <<srv, server, fin, launchVars>> /\ Return(s)
          /\ waiter' = [waiter EXCEPT ![s] = "none"]
      BY <1>2, <1>i, <2>2 DEF AttachBegins, HandlerOK, connVars
    <3>2. Starting(s)
      BY <3>1 DEF Starting, Begun
    <3> QED
      BY <1>w, <3>1, <3>2, ReturnSess
  <2> QED
    BY <2>1, <2>2
<1>3. CASE AttachToSession(s)
  <2>1. PICK c : c = got[s]
    OBVIOUS
  <2>2. /\ waiter' = [waiter EXCEPT ![s] = "none"] /\ server' = [server EXCEPT ![c] = s]
        /\ srv' = [srv EXCEPT ![s] = c] /\ st' = [st EXCEPT ![s] = "attached"]
        /\ UNCHANGED <<slock, fin, launcher, finBy, overtaken>>
    BY <1>3, <2>1 DEF AttachToSession, launchVars
  <2>3. c \in Conns /\ server[c] = None /\ waiter[s] = "done"
    BY <1>3, <2>1 DEF AttachToSession, LinkInv
  <2>4. st[s] = "starting" /\ slock[s] = s /\ (fin[s] = "no" \/ (s \in overtaken /\ fin[s] = "done"))
    BY <1>i, <2>3 DEF HandlerOK, Starting, Begun
  <2>5. /\ \A x \in Sessions : x # s => Same(x)
        /\ waiter'[s] = "none" /\ server'[c] = s /\ srv'[s] = c /\ st'[s] = "attached"
    BY <1>t, <2>2, <2>3 DEF Same, SessTyped
  <2>6. \A d \in Conns, x \in Sessions : x # s => (server'[d] = x <=> server[d] = x)
    BY <1>t, <2>2, <2>3 DEF SessTyped
  <2>7. HandlerOK(s)'
    BY <1>t, <2>2, <2>3, <2>4, <2>5 DEF HandlerOK, SessTyped
  <2>8. FinalizeOK(s)'
    BY <1>i, <2>2, <2>4, <2>5 DEF FinalizeOK
  <2>9. OwnsOK(s)'
    BY <2>2, <2>4, <2>5 DEF OwnsOK, Given
  <2> QED
    BY <2>5, <2>6, <2>7, <2>8, <2>9, OneSess
<1>4. CASE StartSucceeds(s) \/ StartFails(s) \/ StartLost(s)
  <2>1. /\ st[s] = "attached" /\ UNCHANGED <<srv, server, waiter>>
        /\ Finalize(s, "terminate") \/ (Return(s) /\ UNCHANGED <<fin, launchVars>>)
    BY <1>4 DEF StartSucceeds, StartFails, StartLost, connVars, eventVars
  <2>2. Starting(s) /\ waiter'[s] = "none"
    BY <1>i, <2>1 DEF Starting, Begun, HandlerOK
  <2> QED
    BY <2>1, <2>2, FinalizeCallSess, ReturnSess
<1>5. CASE HandlerReturn(s) \/ CloseClient(s)
  <2>1. /\ st[s] \in {"terminate", "gone", "disconnect"}
        /\ slock[s] = s /\ (fin[s] = "done" \/ finBy[s] # s)
        /\ UNCHANGED <<srv, server, waiter, fin, launcher, finBy, overtaken>>
        /\ slock' = [slock EXCEPT ![s] = None]
        /\ \E x \in {"gone", "idle", "closed"} : st' = [st EXCEPT ![s] = x]
    BY <1>5 DEF HandlerReturn, CloseClient, FinalizeReturned, connVars, eventVars, launchVars
  <2>2. /\ \A x \in Sessions : x # s => Same(x)
        /\ st'[s] \in {"gone", "idle", "closed"} /\ waiter'[s] = "none"
    BY <1>t, <1>i, <2>1 DEF Same, SessTyped, HandlerOK
  <2>3. HandlerOK(s)'
    BY <2>2 DEF HandlerOK, Starting, Begun
  <2>4. FinalizeOK(s)' /\ OwnsOK(s)'
    BY <1>i, <2>1 DEF FinalizeOK, OwnsOK
  <2> QED
    BY <2>1, <2>2, <2>3, <2>4, OneSess
<1>6. CASE LaunchProceeds(s)
  <2>1. /\ LookForServer(s) /\ slock[s] = None /\ st[s] = "launching"
        /\ UNCHANGED <<srv, server, fin, launchVars>>
    BY <1>6 DEF LaunchProceeds, connVars
  <2> QED
    BY <2>1, LookSess
<1>7. CASE LaunchFails(s)
  <2>1. /\ Return(s) /\ slock[s] = None /\ st[s] = "launching"
        /\ UNCHANGED <<srv, server, fin, launchVars, waiter>>
    BY <1>7 DEF LaunchFails, connVars, eventVars
  <2>2. waiter'[s] = "none"
    BY <1>i, <2>1 DEF HandlerOK
  <2> QED
    BY <2>1, <2>2, ReturnSess
<1> QED
    BY <1>1, <1>2, <1>3, <1>4, <1>5, <1>6, <1>7 DEF ClientThread

\* A client's requests are handled only while nobody has locked the session.
LEMMA RequestSess ==
    ASSUME TypeInv, SessInv, NEW s \in Sessions, ClientRequest(s)
    PROVE  SessInv'
<1>t. SessTyped
    BY TypedFacts
<1>i. HandlerOK(s) /\ FinalizeOK(s) /\ OwnsOK(s)
    BY DEF SessInv
<1>1. CASE NewClient(s) \/ LaunchRequest(s)
  <2>1. /\ UNCHANGED <<slock, srv, server, fin, launcher, finBy, overtaken, waiter>>
        /\ \/ st[s] = "none" /\ st' = [st EXCEPT ![s] = "idle"]
           \/ /\ st[s] = "idle" /\ srv[s] = None /\ fin[s] = "no"
              /\ st' = [st EXCEPT ![s] = "launching"]
    BY <1>1 DEF NewClient, LaunchRequest, CanHandle, connVars, eventVars, launchVars
  <2>2. /\ \A x \in Sessions : x # s => Same(x)
        /\ \/ st'[s] = "idle"
           \/ st'[s] = "launching" /\ srv[s] = None /\ fin[s] = "no"
    BY <1>t, <2>1 DEF Same, SessTyped
  <2>3. HandlerOK(s)'
    BY <1>i, <2>1, <2>2 DEF HandlerOK, Starting, Begun
  <2>4. FinalizeOK(s)' /\ OwnsOK(s)'
    BY <1>i, <2>1 DEF FinalizeOK, OwnsOK
  <2> QED
    BY <2>1, <2>2, <2>3, <2>4, OneSess
<1>2. CASE \E r \in Start : AttachRequest(s, r)
  <2>1. /\ LookForServer(s) /\ slock[s] = None /\ fin[s] = "no"
        /\ UNCHANGED <<srv, server, fin, launchVars>>
    BY <1>2 DEF AttachRequest, CanHandle, connVars
  <2> QED
    BY <2>1, LookSess
<1>3. CASE ConfigurationDone(s)
  <2>1. UNCHANGED <<st, slock, srv, server, fin, launcher, finBy, overtaken, waiter>>
    BY <1>3 DEF ConfigurationDone, connVars, eventVars, launchVars
  <2>2. \A x \in Sessions : Same(x)
    BY <2>1 DEF Same
  <2> QED
    BY <2>1, <2>2, FrameSess
<1>4. CASE TerminateRequest(s) \/ DisconnectRequest(s) \/ ClientDisconnect(s)
  <2>1. /\ slock[s] = None /\ st[s] \in {"idle", "closed"} /\ waiter' = waiter
        /\ UNCHANGED <<srv, server>>
        /\ \E why \in {"terminate", "disconnect", "gone"} : Finalize(s, why)
    BY <1>4 DEF TerminateRequest, DisconnectRequest, ClientDisconnect, CanHandle, connVars,
                eventVars
  <2>2. waiter'[s] = "none"
    BY <1>i, <2>1 DEF HandlerOK
  <2> QED
    BY <2>1, <2>2, FinalizeCallSess
<1> QED
    BY <1>1, <1>2, <1>3, <1>4 DEF ClientRequest

\* The launcher is lost: a session that has a server, or looks for one, is locked or
\* finalized; one whose start handler still waits for the launcher has none.
LEMMA LauncherSess ==
    ASSUME TypeInv, SessInv, NEW s \in Sessions, LauncherStep(s)
    PROVE  SessInv'
<1>t. SessTyped
    BY TypedFacts
<1>i. HandlerOK(s) /\ FinalizeOK(s) /\ OwnsOK(s)
    BY DEF SessInv
<1>1. UNCHANGED <<st, srv, server, waiter>>
    BY DEF LauncherStep, LauncherConnects, LauncherReports, LauncherLost, connVars, eventVars
<1>2. CASE LauncherConnects(s) \/ LauncherReports(s)
  <2>1. /\ UNCHANGED <<slock, fin, finBy, overtaken>>
        /\ \/ launcher' = launcher
           \/ launcher[s] = "none" /\ launcher' = [launcher EXCEPT ![s] = "up"]
    BY <1>2 DEF LauncherConnects, LauncherReports
  <2>2. (\A x \in Sessions : x # s => Same(x)) /\ (launcher'[s] = launcher[s] \/ launcher[s] = "none")
    BY <1>t, <1>1, <2>1 DEF Same, SessTyped
  <2>3. HandlerOK(s)' /\ OwnsOK(s)'
    BY <1>i, <1>1, <2>1 DEF HandlerOK, OwnsOK, Starting
  <2>4. FinalizeOK(s)'
    BY <1>i, <1>1, <2>1, <2>2 DEF FinalizeOK
  <2> QED
    BY <1>1, <2>2, <2>3, <2>4, OneSess
<1>3. CASE LauncherLost(s)
  <2>1. /\ slock[s] = None /\ launcher' = [launcher EXCEPT ![s] = "gone"]
        /\ fin' = [fin EXCEPT ![s] = IF @ = "no" THEN "unblock" ELSE @]
        /\ finBy' = [finBy EXCEPT ![s] = IF fin[s] = "no" THEN Launcher ELSE @]
        /\ slock' = IF fin[s] = "no" THEN [slock EXCEPT ![s] = Launcher] ELSE slock
        /\ overtaken' = IF fin[s] = "no" /\ st[s] = "launching" THEN overtaken \cup {s}
                        ELSE overtaken
    BY <1>3 DEF LauncherLost, EnterFinalize
  <2>2. \A x \in Sessions : x # s => Same(x)
    BY <1>t, <1>1, <2>1 DEF Same, SessTyped
  <2>3. /\ launcher'[s] = "gone"
        /\ \/ /\ fin[s] = "no" /\ fin'[s] = "unblock" /\ finBy'[s] = Launcher
              /\ slock'[s] = Launcher
              /\ s \in overtaken' <=> s \in overtaken \/ st[s] = "launching"
           \/ /\ fin[s] # "no" /\ fin'[s] = fin[s] /\ finBy'[s] = finBy[s]
              /\ slock'[s] = None /\ overtaken' = overtaken
    BY <1>t, <2>1 DEF SessTyped
  <2>4. ~Starting(s)
    BY <1>t, <1>i, <2>1 DEF HandlerOK, SessTyped
  <2>5. HandlerOK(s)'
    BY <1>i, <1>1, <2>3, <2>4 DEF HandlerOK, Starting, Begun
  <2>6. FinalizeOK(s)'
    BY <1>t, <1>i, <1>1, <2>1, <2>3 DEF FinalizeOK, HandlerOK, SessTyped
  <2>7. OwnsOK(s)'
    BY <1>i, <1>1, <2>3 DEF OwnsOK, HandlerOK, FinalizeOK, Given
  <2> QED
    BY <1>1, <2>2, <2>5, <2>6, <2>7, OneSess
<1> QED
    BY <1>2, <1>3 DEF LauncherStep

\* What no step undoes: a session that has a server has one for ever, finalize() is
\* entered once, and what was overtaken stays so.
Lasting ==
    /\ \A s \in Sessions : srv[s] # None => srv'[s] # None
    /\ \A s \in Sessions : fin[s] # "no" => fin'[s] # "no" /\ finBy'[s] = finBy[s]
    /\ overtaken \subseteq overtaken'

LEMMA StepsLast ==
    ASSUME TypeInv, LinkInv, [Next]_vars
    PROVE  Lasting
<1>t. SessTyped
    BY TypedFacts
<1>1. CASE \/ AcceptThread \/ WaitStep \/ MainCheck \/ MainExit \/ UNCHANGED vars
           \/ \E c \in Conns : Peer(c)
  <2>1. UNCHANGED <<srv, fin, finBy, overtaken>>
    BY <1>1 DEF AcceptThread, HandshakeFails, Register, FindParent, CheckReplacement, NotifyParent,
                UnblockOrphan, WaitStep, EnterWait, WaitCheck, TimerFires, MainCheck, MainExit,
                vars, Peer, Accept, PeerExit, ProcessReplaced, sessVars, launchVars
  <2> QED
    BY <2>1 DEF Lasting
<1>2. ASSUME NEW c \in Conns, ServerThread(c) PROVE Lasting
  <2>1. UNCHANGED <<srv, overtaken>>
        /\ (UNCHANGED <<fin, finBy>> \/ EnterFinalize(dsess[c], c))
    BY <1>2 DEF ServerThread, HandleDisconnect, ConnectionDisconnect, ServerDisconnect,
                KnownTimeout, ReplacementAwaited, ServerRemove, ServerFinalize, FinReturn,
                sessVars, launchVars
  <2> QED
    BY <1>t, <2>1 DEF Lasting, EnterFinalize, SessTyped
<1>3. ASSUME NEW s \in Sessions, FinalizeStep(s) PROVE Lasting
  <2>1. /\ UNCHANGED <<srv, finBy, overtaken>>
        /\ fin' = fin \/ \E x \in Given \cup {"request", "detach"} : fin' = [fin EXCEPT ![s] = x]
    BY <1>3 DEF FinalizeStep, FinUnblock, FinRequest, FinDetach, FinLauncher, FinLauncherGone,
                FinClient, FinKill, LauncherReturn, launchVars, Given
  <2> QED
    BY <1>t, <2>1 DEF Lasting, SessTyped, Given
<1>4. ASSUME NEW s \in Sessions, ClientThread(s), ~AttachToSession(s) PROVE Lasting
  <2>1. /\ UNCHANGED <<srv, overtaken>>
        /\ UNCHANGED <<fin, finBy>> \/ EnterFinalize(s, s)
    BY <1>4 DEF ClientThread, LaunchProceeds, LaunchFails, NoConnection, AttachBegins,
                StartSucceeds, StartFails, StartLost, HandlerReturn, CloseClient, Finalize,
                sessVars, launchVars
  <2> QED
    BY <1>t, <2>1 DEF Lasting, EnterFinalize, SessTyped
<1>5. ASSUME NEW s \in Sessions, AttachToSession(s) PROVE Lasting
  <2>1. /\ srv' = [srv EXCEPT ![s] = got[s]] /\ got[s] # None
        /\ UNCHANGED <<fin, finBy, overtaken>>
    BY <1>t, <1>5 DEF AttachToSession, LinkInv, SessTyped, launchVars
  <2> QED
    BY <1>t, <2>1 DEF Lasting, SessTyped
<1>6. ASSUME NEW s \in Sessions, ClientRequest(s) PROVE Lasting
  <2>1. /\ UNCHANGED <<srv, overtaken>>
        /\ UNCHANGED <<fin, finBy>> \/ EnterFinalize(s, s)
    BY <1>6 DEF ClientRequest, NewClient, LaunchRequest, AttachRequest, ConfigurationDone,
                TerminateRequest, DisconnectRequest, ClientDisconnect, Finalize, launchVars
  <2> QED
    BY <1>t, <2>1 DEF Lasting, EnterFinalize, SessTyped
<1>7. ASSUME NEW s \in Sessions, LauncherStep(s) PROVE Lasting
  <2>1. /\ srv' = srv /\ overtaken \subseteq overtaken'
        /\ UNCHANGED <<fin, finBy>> \/ EnterFinalize(s, Launcher)
    BY <1>7 DEF LauncherStep, LauncherConnects, LauncherReports, LauncherLost
  <2> QED
    BY <1>t, <2>1 DEF Lasting, EnterFinalize, SessTyped
<1> QED
    BY <1>1, <1>2, <1>3, <1>4, <1>5, <1>6, <1>7 DEF Next

\* A step that leaves the servers' threads and their Servers alone.
LEMMA FrameLink ==
    ASSUME TypeInv, LinkInv, Lasting, UNCHANGED <<dh, dsess>>, main = "crashed" => main' = main,
           \A c \in Conns : server'[c] \in {server[c], None},
           lock' \in Sessions => /\ lock' = lock /\ waiter'[lock] = "done"
                                 /\ got'[lock] = got[lock]
    PROVE  LinkInv'
<1>t. SessTyped
    BY TypedFacts
<1>1. \A c \in Conns : server'[c] # None => srv'[server'[c]] # None
    BY <1>t DEF LinkInv, Lasting, SessTyped
<1>2. \A c \in Conns : dh'[c] \in Leaving => srv'[dsess'[c]] # None \/ main' = "crashed"
    BY DEF LinkInv, Lasting, TypeInv, ConnTypes
<1>3. \A c \in Conns : dh'[c] = "finalizing" => finBy'[dsess'[c]] = c /\ fin'[dsess'[c]] # "no"
    BY DEF LinkInv, Lasting, TypeInv, ConnTypes, Leaving
<1>4. lock' \in Sessions =>
          waiter'[lock'] = "done" /\ got'[lock'] \in Conns /\ server'[got'[lock']] = None
    BY DEF LinkInv
<1> QED
    BY <1>1, <1>2, <1>3, <1>4 DEF LinkInv

LEMMA ServerLink ==
    ASSUME TypeInv, SessInv, LinkInv, Lasting, Running, NEW c \in Conns, ServerThread(c)
    PROVE  LinkInv'
<1>t. SessTyped
    BY TypedFacts
<1>1. /\ UNCHANGED <<server, got>> /\ (main' = main \/ main' = "crashed")
      /\ lock' = lock \/ lock' \in {None, c}
      /\ SetChanged \/ waiter' = waiter \/ \E x : waiter' = [waiter EXCEPT ![c] = x]
  <2>1. CASE HandleDisconnect(c) \/ KnownTimeout(c)
    BY <2>1 DEF HandleDisconnect, KnownTimeout, regVars, connVars, sessVars, eventVars
  <2>2. CASE ConnectionDisconnect(c)
    BY <2>2 DEF ConnectionDisconnect, sessVars, eventVars
  <2>3. CASE ServerDisconnect(c) \/ ReplacementAwaited(c) \/ ServerRemove(c)
    BY <2>3 DEF ServerDisconnect, ReplacementAwaited, ServerRemove, regVars, sessVars
  <2>4. CASE ServerFinalize(c) \/ FinReturn(c)
    BY <2>4 DEF ServerFinalize, FinReturn, eventVars
  <2> QED
    BY <2>1, <2>2, <2>3, <2>4 DEF ServerThread
<1>2. \A x \in Conns : server'[x] # None => srv'[server'[x]] # None
    BY <1>t, <1>1 DEF LinkInv, Lasting, SessTyped
<1>3. lock' \in Sessions =>
          waiter'[lock'] = "done" /\ got'[lock'] \in Conns /\ server'[got'[lock']] = None
  <2>1. SUFFICES ASSUME lock' \in Sessions
                 PROVE  waiter'[lock'] = "done" /\ got'[lock'] \in Conns
                        /\ server'[got'[lock']] = None
    OBVIOUS
  <2>2. lock' = lock
    BY <1>t, <1>1, <2>1 DEF SessTyped
  <2>3. waiter[lock] = "done" /\ got[lock] \in Conns /\ server[got[lock]] = None
    BY <2>1, <2>2 DEF LinkInv
  <2>4. waiter'[lock] = "done"
    <3>1. lock \in Waiters /\ lock # c
      BY <1>t, <2>1, <2>2 DEF SessTyped
    <3>2. CASE SetChanged
      BY <2>3, <3>1, <3>2, WakeKeeps
    <3>3. CASE waiter' = waiter \/ \E x : waiter' = [waiter EXCEPT ![c] = x]
      BY <1>t, <2>3, <3>1, <3>3 DEF SessTyped
    <3> QED
      BY <1>1, <3>2, <3>3
  <2> QED
    BY <1>1, <2>2, <2>3, <2>4
<1>4. /\ \A x \in Conns : x # c => dh'[x] = dh[x] /\ dsess'[x] = dsess[x]
      /\ \/ dsess'[c] = dsess[c] /\ dh[c] \in Leaving
         \/ dsess'[c] = server[c] /\ server[c] # None /\ dh'[c] = "server"
         \/ dh'[c] \notin Leaving \/ main' = "crashed"
    <2>1. CASE HandleDisconnect(c)
      <3>1. /\ dh' = [dh EXCEPT ![c] = IF HandlerOf(c) = None THEN "connection" ELSE "server"]
            /\ dsess' = [dsess EXCEPT ![c] = HandlerOf(c)]
            /\ HandlerOf(c) # server[c] => main' = "crashed"
        BY <2>1 DEF HandleDisconnect
      <3> QED
        BY <1>t, <3>1 DEF SessTyped, Leaving
    <2>2. CASE ConnectionDisconnect(c)
      <3>1. \/ /\ server[c] # None /\ dh' = [dh EXCEPT ![c] = "server"]
               /\ dsess' = [dsess EXCEPT ![c] = server[c]]
            \/ dh' = [dh EXCEPT ![c] = "done"] /\ dsess' = dsess
        BY <2>2 DEF ConnectionDisconnect
      <3> QED
        BY <1>t, <3>1 DEF SessTyped, Leaving
    <2>3. CASE \/ ServerDisconnect(c) \/ KnownTimeout(c) \/ ReplacementAwaited(c)
               \/ ServerRemove(c) \/ ServerFinalize(c) \/ FinReturn(c)
      <3>1. /\ dsess' = dsess /\ dh[c] \in Leaving
            /\ dh' = dh \/ \E x : dh' = [dh EXCEPT ![c] = x]
        BY <2>3 DEF ServerDisconnect, KnownTimeout, ReplacementAwaited, ServerRemove,
                    ServerFinalize, FinReturn, Leaving, connVars
      <3> QED
        BY <1>t, <3>1 DEF SessTyped
    <2> QED
      BY <2>1, <2>2, <2>3 DEF ServerThread
<1>5. \A x \in Conns : dh'[x] \in Leaving => srv'[dsess'[x]] # None \/ main' = "crashed"
  <2>1. ASSUME NEW x \in Conns, dh[x] \in Leaving PROVE srv'[dsess[x]] # None
    BY <2>1 DEF LinkInv, Running, Lasting, TypeInv, ConnTypes
  <2>2. server[c] # None => srv'[server[c]] # None
    BY <1>t DEF LinkInv, Lasting, SessTyped
  <2> QED
    BY <1>4, <2>1, <2>2
<1>6. \A x \in Conns : dh'[x] = "finalizing" => finBy'[dsess'[x]] = x /\ fin'[dsess'[x]] # "no"
  <2>1. ASSUME NEW x \in Conns, dh[x] = "finalizing"
        PROVE  finBy'[dsess[x]] = x /\ fin'[dsess[x]] # "no"
    BY <2>1 DEF LinkInv, Lasting, TypeInv, ConnTypes, Leaving
  <2>2. \A x \in Conns : x # c => dh'[x] = dh[x] /\ dsess'[x] = dsess[x]
    BY <1>4
  <2>3. CASE ServerFinalize(c)
    <3>1. PICK s : s = dsess[c]
      OBVIOUS
    <3>2. s \in Sessions /\ dsess' = dsess
      BY <2>3, <3>1 DEF ServerFinalize, TypeInv, ConnTypes, Leaving
    <3>3. /\ fin' = [fin EXCEPT ![s] = IF @ = "no" THEN "unblock" ELSE @]
          /\ finBy' = [finBy EXCEPT ![s] = IF fin[s] = "no" THEN c ELSE @]
          /\ dh' = [dh EXCEPT ![c] = IF fin[s] = "no" THEN "finalizing" ELSE "done"]
      BY <2>3, <3>1 DEF ServerFinalize, EnterFinalize
    <3>4. dh'[c] = "finalizing" => finBy'[s] = c /\ fin'[s] # "no"
      BY <1>t, <3>2, <3>3 DEF SessTyped
    <3> QED
      BY <2>1, <2>2, <3>1, <3>2, <3>4
  <2>4. CASE ~ServerFinalize(c)
    <3>1. dh'[c] = "finalizing" => dh[c] = "finalizing" /\ dsess' = dsess
      BY <1>t, <2>4 DEF ServerThread, HandleDisconnect, ConnectionDisconnect, ServerDisconnect,
                  KnownTimeout, ReplacementAwaited, ServerRemove, FinReturn, connVars, SessTyped
    <3> QED
      BY <2>1, <2>2, <3>1
  <2> QED
    BY <2>3, <2>4
<1> QED
    BY <1>2, <1>3, <1>5, <1>6 DEF LinkInv

LEMMA OthersLink ==
    ASSUME TypeInv, SessInv, LinkInv, Lasting, Running,
           \/ AcceptThread \/ WaitStep \/ MainCheck \/ MainExit
           \/ \E c \in Conns : Peer(c)
           \/ \E s \in Sessions : FinalizeStep(s) \/ ClientThread(s) \/ ClientRequest(s)
                                  \/ LauncherStep(s)
    PROVE  LinkInv'
<1>t. SessTyped
    BY TypedFacts
<1>m. main # "crashed"
    BY DEF Running
<1>k. lock \in Sessions => waiter[lock] = "done" /\ got[lock] \in Conns
    BY DEF LinkInv
<1>1. CASE \/ AcceptThread \/ MainCheck \/ MainExit
           \/ \E c \in Conns : Peer(c)
  <2>1. /\ UNCHANGED <<dh, dsess, server, lock, got>>
        /\ SetChanged \/ waiter' = waiter \/ \E x : waiter' = [waiter EXCEPT ![Main] = x]
    BY <1>1 DEF AcceptThread, HandshakeFails, Register, Append, FindParent, CheckReplacement,
                NotifyParent, UnblockOrphan, MainCheck, MainExit, Peer, Accept, PeerExit,
                ProcessReplaced, regVars, connVars, sessVars, eventVars
  <2>2. lock \in Sessions => waiter'[lock] = "done"
    BY <1>t, <1>k, <2>1, WakeKeeps DEF SessTyped
  <2> QED
    BY <1>m, <2>1, <2>2, FrameLink
<1>2. CASE WaitStep
  <2>1. ASSUME NEW t \in Waiters, EnterWait(t) PROVE LinkInv'
    <3>1. /\ UNCHANGED <<dh, dsess, server, lock, got>> /\ waiter[t] = "enter"
          /\ \E x : waiter' = [waiter EXCEPT ![t] = x]
      BY <2>1 DEF EnterWait, regVars, connVars, sessVars
    <3>2. lock \in Sessions => waiter'[lock] = "done"
      BY <1>t, <1>k, <3>1 DEF SessTyped
    <3> QED
      BY <1>m, <3>1, <3>2, FrameLink
  <2>2. ASSUME NEW t \in Conns \cup Sessions, WaitCheck(t) PROVE LinkInv'
    <3>1. /\ UNCHANGED <<dh, dsess, server, lock>> /\ waiter[t] = "check"
          /\ \E x : waiter' = [waiter EXCEPT ![t] = x]
          /\ got' = got \/ \E x : got' = [got EXCEPT ![t] = x]
      BY <2>2 DEF WaitCheck, regVars, connVars
    <3>2. lock \in Sessions => waiter'[lock] = "done" /\ got'[lock] = got[lock]
      BY <1>t, <1>k, <3>1 DEF SessTyped
    <3> QED
      BY <1>m, <3>1, <3>2, FrameLink
  <2>3. ASSUME NEW t \in Conns \cup Sessions, TimerFires(t) PROVE LinkInv'
    <3>1. UNCHANGED <<dh, dsess, server, lock, got>> /\ SetChanged
      BY <2>3 DEF TimerFires, connVars, sessVars
    <3>2. lock \in Sessions => waiter'[lock] = "done"
      BY <1>t, <1>k, <3>1, WakeKeeps DEF SessTyped
    <3> QED
      BY <1>m, <3>1, <3>2, FrameLink
  <2> QED
    BY <1>2, <2>1, <2>2, <2>3 DEF WaitStep
<1>3. ASSUME NEW s \in Sessions, FinalizeStep(s) PROVE LinkInv'
  <2>1. /\ UNCHANGED <<dh, dsess, lock, got>> /\ (SetChanged \/ waiter' = waiter)
        /\ server' = server \/ server' = [server EXCEPT ![srv[s]] = None]
    BY <1>3 DEF FinalizeStep, FinUnblock, FinRequest, FinDetach, FinLauncher, FinLauncherGone,
                FinClient, FinKill, LauncherReturn, regVars, connVars, eventVars
  <2>2. lock \in Sessions => waiter'[lock] = "done"
    BY <1>t, <1>k, <2>1, WakeKeeps DEF SessTyped
  <2>3. \A c \in Conns : server'[c] \in {server[c], None}
    BY <1>t, <2>1 DEF SessTyped
  <2> QED
    BY <1>m, <2>1, <2>2, <2>3, FrameLink
<1>4. ASSUME NEW s \in Sessions, ClientThread(s) PROVE LinkInv'
  <2>1. CASE AttachToSession(s)
    <3>1. /\ lock = s /\ lock' = None /\ UNCHANGED <<dh, dsess, main>>
          /\ server' = [server EXCEPT ![got[s]] = s] /\ srv' = [srv EXCEPT ![s] = got[s]]
      BY <2>1 DEF AttachToSession
    <3>2. srv'[s] # None /\ \A c \in Conns : server'[c] \in {server[c], s}
      BY <1>t, <1>k, <3>1 DEF SessTyped
    <3>3. \A c \in Conns : server'[c] # None => srv'[server'[c]] # None
      BY <1>t, <3>2 DEF LinkInv, Lasting, SessTyped
    <3>4. \A c \in Conns : dh'[c] \in Leaving => srv'[dsess'[c]] # None
      BY <1>m, <3>1 DEF LinkInv, Lasting, TypeInv, ConnTypes
    <3>5. \A c \in Conns : dh'[c] = "finalizing" => finBy'[dsess'[c]] = c /\ fin'[dsess'[c]] # "no"
      BY <3>1 DEF LinkInv, Lasting, TypeInv, ConnTypes, Leaving
    <3>6. lock' \notin Sessions
      BY <1>t, <3>1 DEF SessTyped
    <3> QED
      BY <3>3, <3>4, <3>5, <3>6 DEF LinkInv
  <2>2. CASE AttachBegins(s) /\ server[got[s]] = None
    <3>1. /\ lock' = s /\ waiter[s] = "done" /\ got[s] # None
          /\ UNCHANGED <<waiter, got, dh, dsess, server, main>>
      BY <2>2 DEF AttachBegins, connVars
    <3>2. waiter'[lock'] = "done" /\ got'[lock'] \in Conns /\ server'[got'[lock']] = None
      BY <1>t, <2>2, <3>1 DEF SessTyped
    <3>3. \A c \in Conns : server'[c] # None => srv'[server'[c]] # None
      BY <1>t, <3>1 DEF LinkInv, Lasting, SessTyped
    <3>4. \A c \in Conns : dh'[c] \in Leaving => srv'[dsess'[c]] # None
      BY <1>m, <3>1 DEF LinkInv, Lasting, TypeInv, ConnTypes
    <3>5. \A c \in Conns : dh'[c] = "finalizing" => finBy'[dsess'[c]] = c /\ fin'[dsess'[c]] # "no"
      BY <3>1 DEF LinkInv, Lasting, TypeInv, ConnTypes, Leaving
    <3> QED
      BY <3>2, <3>3, <3>4, <3>5 DEF LinkInv
  <2>3. CASE AttachBegins(s) /\ server[got[s]] # None
    <3>1. UNCHANGED <<lock, dh, dsess, server>> /\ lock = None
      BY <2>3 DEF AttachBegins, connVars
    <3> QED
      BY <1>t, <1>m, <3>1, FrameLink DEF SessTyped
  <2>4. CASE ClientThread(s) /\ ~AttachToSession(s) /\ ~AttachBegins(s)
    <3>1. /\ UNCHANGED <<dh, dsess, server, lock, got>>
          /\ \/ waiter' = waiter
             \/ got[s] = None /\ \E x : waiter' = [waiter EXCEPT ![s] = x]
             \/ st[s] = "launching" /\ \E x : waiter' = [waiter EXCEPT ![s] = x]
      BY <2>4 DEF ClientThread, LaunchProceeds, LaunchFails, LookForServer, NoConnection,
                  StartSucceeds, StartFails, StartLost, HandlerReturn, CloseClient, regVars,
                  connVars, eventVars
    <3>2. lock \in Sessions => waiter'[lock] = "done"
      BY <1>t, <1>k, <3>1 DEF SessTyped, SessInv, HandlerOK
    <3> QED
      BY <1>m, <3>1, <3>2, FrameLink
  <2> QED
    BY <1>4, <2>1, <2>2, <2>3, <2>4
<1>5. ASSUME NEW s \in Sessions, ClientRequest(s) \/ LauncherStep(s) PROVE LinkInv'
  <2>1. /\ UNCHANGED <<dh, dsess, server, lock, got>>
        /\ \/ waiter' = waiter
           \/ st[s] = "idle" /\ \E x : waiter' = [waiter EXCEPT ![s] = x]
    BY <1>5 DEF ClientRequest, NewClient, LaunchRequest, AttachRequest, LookForServer, CanHandle,
                ConfigurationDone, TerminateRequest, DisconnectRequest, ClientDisconnect,
                LauncherStep, LauncherConnects, LauncherReports, LauncherLost, regVars, connVars,
                eventVars
  <2>2. lock \in Sessions => waiter'[lock] = "done"
    BY <1>t, <1>k, <2>1 DEF SessTyped, SessInv, HandlerOK
  <2> QED
    BY <1>m, <2>1, <2>2, FrameLink
<1> QED
    BY <1>1, <1>2, <1>3, <1>4, <1>5

LEMMA SessInvariant == Spec => [](TypeInv /\ RegInv /\ SessInv /\ LinkInv)
<1>1. Init => SessInv /\ LinkInv
    BY DEF Init, SessInv, HandlerOK, FinalizeOK, OwnsOK, Starting, Begun, Waiters, LinkInv, Leaving
<1>2. TypeInv /\ SessInv /\ LinkInv /\ [Next]_vars => SessInv'
    BY OthersSess, ServerSess, FinalizeSess, ClientSess, RequestSess, LauncherSess DEF Next
<1>3. TypeInv /\ SessInv /\ LinkInv /\ Next => LinkInv'
    BY StepsLast, ServerLink, OthersLink DEF Next
<1>4. LinkInv /\ UNCHANGED vars => LinkInv'
    BY DEF LinkInv, vars, connVars, regVars, eventVars, sessVars, launchVars
<1>5. TypeInv /\ SessInv /\ LinkInv /\ [Next]_vars => LinkInv'
    BY <1>3, <1>4
<1> QED
    BY <1>1, <1>2, <1>5, RegInvariant, PTL DEF Spec

\* Every variable has the type that the code gives it, and no step of a start
\* handler looks for a server that its session does not have.
THEOREM TypesAreKept == Spec => []TypeOK
<1>1. TypeInv /\ SessInv => TypeOK
    BY DEF TypeInv, TypeOK, ConnTypes, RegTypes, EventTypes, AccTypes, SessTypes, LaunchTypes,
           Leaving, Begun, Given, Holders, SessInv, HandlerOK
<1> QED
    BY <1>1, SessInvariant, PTL

\* A session and its server agree about each other, from attach_to_session() to
\* detach_from_session(), whichever thread runs finalize() and however the session
\* was started.  In a "launch" that was finalized while its start handler waited for
\* the launcher, and that attaches nevertheless, they do so for ever.
THEOREM SessionsOwnServers == Spec => []SessionOwnsServer
<1>1. TypeInv /\ SessInv => SessionOwnsServer
  <2>1. ASSUME TypeInv, SessInv, NEW s \in Sessions, srv[s] # None
        PROVE  server[srv[s]] = s
               <=> (fin[s] \in {"no", "unblock", "request", "detach"} \/ s \in overtaken)
    <3>1. fin[s] \notin Given <=> fin[s] \in {"no", "unblock", "request", "detach"}
      BY <2>1, TypedFacts DEF SessTyped, Given
    <3> QED
      BY <2>1, <3>1 DEF SessInv, OwnsOK
  <2> QED
    BY <2>1 DEF SessionOwnsServer
<1> QED
    BY <1>1, SessInvariant, PTL

-----------------------------------------------------------------------------
(***************************************************************************)
(* The main thread.  The flag that it waits for can be cleared by another  *)
(* thread in wait_for_connection().  Whoever clears it while the list is   *)
(* empty is a session that finalize() has yet to see, or one that was      *)
(* overtaken, or a replacement's wait, whose own connection is still in    *)
(* the list.                                                               *)
(***************************************************************************)
SomeSessionToCome == \E s \in Sessions : st[s] # "none" /\ fin[s] \in {"no", "unblock"}
Unseen == main = "servers" /\ waiter[Main] \in {"enter", "asleep"} /\ ~changed /\ connections = {}
          /\ \E c \in Conns : arrival[c] # 0

MainInv ==
    /\ \A c \in Conns : waiter[c] # "none" => dh[c] = "replacement"
    /\ waiter[Main] = "asleep" => ~changed
    /\ Unseen => SomeSessionToCome \/ overtaken # {}

Types == TypeInv /\ RegInv /\ SessInv /\ LinkInv

\* A session keeps the main thread's hope alive until it sets the event.
LEMMA SessionsRemain ==
    ASSUME Types, [Next]_vars, SomeSessionToCome
    PROVE  SomeSessionToCome' \/ SetChanged
<1>1. PICK s \in Sessions : st[s] # "none" /\ fin[s] \in {"no", "unblock"}
    BY DEF SomeSessionToCome
<1>t. SessTyped
    BY TypedFacts DEF Types
<1>2. SetChanged \/ (st'[s] # "none" /\ fin'[s] \in {"no", "unblock"})
  <2>1. CASE \E c \in Conns : Peer(c) \/ ServerThread(c)
    <3>1. st' = st /\ (fin' = fin \/ \E c \in Conns : EnterFinalize(dsess[c], c))
      BY <2>1 DEF Peer, Accept, PeerExit, ProcessReplaced, ServerThread, HandleDisconnect,
                  ConnectionDisconnect, ServerDisconnect, KnownTimeout, ReplacementAwaited,
                  ServerRemove, ServerFinalize, FinReturn, sessVars
    <3> QED
      BY <1>1, <1>t, <3>1 DEF EnterFinalize, SessTyped
  <2>2. CASE AcceptThread \/ WaitStep \/ MainCheck \/ MainExit \/ UNCHANGED vars
    BY <1>1, <2>2
       DEF AcceptThread, HandshakeFails, Register, FindParent, CheckReplacement, NotifyParent,
           UnblockOrphan, WaitStep, EnterWait, WaitCheck, TimerFires, MainCheck, MainExit,
           vars, sessVars
  <2>3. ASSUME NEW x \in Sessions, FinalizeStep(x)
        PROVE  SetChanged \/ (st'[s] # "none" /\ fin'[s] \in {"no", "unblock"})
    <3>1. /\ st' = st
          /\ \/ SetChanged \/ fin' = fin
             \/ fin[x] \notin {"no", "unblock"} /\ \E y : fin' = [fin EXCEPT ![x] = y]
      BY <2>3 DEF FinalizeStep, FinUnblock, FinRequest, FinDetach, FinLauncher, FinLauncherGone,
                  FinClient, FinKill, LauncherReturn, FinAt
    <3> QED
      BY <1>1, <1>t, <3>1 DEF SessTyped
  <2>4. ASSUME NEW x \in Sessions, ClientThread(x)
        PROVE  st'[s] # "none" /\ fin'[s] \in {"no", "unblock"}
    <3>1. /\ fin' = fin \/ EnterFinalize(x, x)
          /\ \/ st' = st
             \/ \E y \in {"starting", "attached", "idle", "terminate", "gone", "closed"} :
                   st' = [st EXCEPT ![x] = y]
      <4>1. CASE LaunchProceeds(x) \/ LaunchFails(x) \/ NoConnection(x)
        BY <4>1 DEF LaunchProceeds, LookForServer, LaunchFails, NoConnection, Return, Finalize
      <4>2. CASE AttachBegins(x) \/ AttachToSession(x)
        BY <4>2 DEF AttachBegins, AttachToSession, Return
      <4>3. CASE StartSucceeds(x) \/ StartFails(x) \/ StartLost(x)
        BY <4>3 DEF StartSucceeds, StartFails, StartLost, Return, Finalize
      <4>4. CASE HandlerReturn(x) \/ CloseClient(x)
        BY <4>4 DEF HandlerReturn, CloseClient
      <4> QED
        BY <2>4, <4>1, <4>2, <4>3, <4>4 DEF ClientThread
    <3> QED
      BY <1>1, <1>t, <3>1 DEF EnterFinalize, SessTyped
  <2>5. ASSUME NEW x \in Sessions, ClientRequest(x) \/ LauncherStep(x)
        PROVE  st'[s] # "none" /\ fin'[s] \in {"no", "unblock"}
    <3>1. /\ fin' = fin \/ \E t : EnterFinalize(x, t)
          /\ \/ st' = st
             \/ \E y \in {"starting", "launching", "idle", "terminate", "disconnect", "gone"} :
                   st' = [st EXCEPT ![x] = y]
      <4>1. CASE ClientRequest(x)
        BY <4>1 DEF ClientRequest, NewClient, LaunchRequest, AttachRequest, LookForServer,
                    ConfigurationDone, TerminateRequest, DisconnectRequest, ClientDisconnect,
                    Finalize
      <4>2. CASE LauncherStep(x)
        BY <4>2 DEF LauncherStep, LauncherConnects, LauncherReports, LauncherLost
      <4> QED
        BY <2>5, <4>1, <4>2
    <3> QED
      BY <1>1, <1>t, <3>1 DEF EnterFinalize, SessTyped
  <2> QED
    BY <2>1, <2>2, <2>3, <2>4, <2>5 DEF Next
<1> QED
    BY <1>1, <1>2 DEF SomeSessionToCome

\* The event has been set: nobody sleeps, and the main thread has something to see.
LEMMA SetMain ==
    ASSUME TypeInv, MainInv, SetChanged, \A c \in Conns : dh[c] = "replacement" => dh'[c] = dh[c]
    PROVE  MainInv'
<1>1. Conns \subseteq Waiters /\ Main \in Waiters
    BY DEF Waiters
<1>2. changed' = TRUE /\ waiter'[Main] # "asleep"
      /\ \A c \in Conns : waiter'[c] # "none" => waiter[c] # "none"
    BY <1>1, WakeKeeps
<1> QED
    BY <1>2 DEF MainInv, Unseen

\* The event, the list and the waiting of the main thread are left alone.
LEMMA FrameMain ==
    ASSUME Types, MainInv, [Next]_vars, connections' = connections \/ connections' # {},
           changed' = changed, arrival' = arrival \/ connections' # {},
           main' = main \/ main' # "servers", waiter'[Main] = waiter[Main],
           \A c \in Conns : waiter'[c] # "none" => dh'[c] = "replacement"
    PROVE  MainInv'
<1>1. Unseen' => SomeSessionToCome' \/ overtaken' # {}
  <2>1. SUFFICES ASSUME Unseen' PROVE SomeSessionToCome' \/ overtaken' # {}
    OBVIOUS
  <2>2. Unseen
    BY <2>1 DEF Unseen
  <2>3. CASE overtaken # {}
    BY <2>3, StepsLast DEF Lasting, Types
  <2>4. CASE SomeSessionToCome
    <3>1. SomeSessionToCome' \/ SetChanged
      BY <2>4, SessionsRemain
    <3>2. ~SetChanged
      BY <2>1 DEF SetChanged, Unseen
    <3> QED
      BY <3>1, <3>2
  <2> QED
    BY <2>2, <2>3, <2>4 DEF MainInv
<1> QED
    BY <1>1 DEF MainInv

LEMMA WaitMain ==
    ASSUME Types, MainInv, WaitStep, [Next]_vars
    PROVE  MainInv'
<1>w. waiter \in [Waiters -> {"none", "enter", "asleep", "check", "done"}]
      /\ Sessions \subseteq Waiters /\ Conns \subseteq Waiters /\ Conns \cap Sessions = {}
      /\ Main \in Waiters /\ Main \notin Conns \cup Sessions
    BY DEF Types, TypeInv, EventTypes, Waiters
<1>1. ASSUME NEW t \in Waiters, EnterWait(t) PROVE MainInv'
  <2>1. /\ UNCHANGED <<changed, connections, arrival, main, dh, st, fin, overtaken>>
        /\ waiter[t] = "enter"
        /\ waiter' = [waiter EXCEPT ![t] = IF changed THEN "check" ELSE "asleep"]
    BY <1>1 DEF EnterWait, regVars, connVars, sessVars, launchVars
  <2>2. \A c \in Conns : waiter'[c] # "none" => dh'[c] = "replacement"
    BY <1>w, <2>1 DEF MainInv
  <2>3. waiter'[Main] = "asleep" => ~changed'
    BY <1>w, <2>1 DEF MainInv
  <2>4. Unseen' => Unseen
    BY <1>w, <2>1 DEF Unseen
  <2>5. SomeSessionToCome => SomeSessionToCome'
    BY <2>1 DEF SomeSessionToCome
  <2> QED
    BY <2>1, <2>2, <2>3, <2>4, <2>5 DEF MainInv
<1>2. ASSUME NEW t \in Conns \cup Sessions, WaitCheck(t) PROVE MainInv'
  <2>1. /\ UNCHANGED <<connections, arrival, main, dh, st, fin, overtaken>> /\ waiter[t] = "check"
        /\ changed' = FALSE
        /\ \E x : waiter' = [waiter EXCEPT ![t] = x]
    BY <1>2 DEF WaitCheck, regVars, connVars, launchVars
  <2>2. \A c \in Conns : waiter'[c] # "none" => dh'[c] = "replacement"
    BY <1>w, <2>1 DEF MainInv
  <2>3. CASE t \in Sessions
    <3>1. st[t] = "starting" /\ (fin[t] = "no" \/ t \in overtaken)
      BY <2>1, <2>3 DEF Types, SessInv, HandlerOK, Starting, Begun
    <3>2. SomeSessionToCome' \/ overtaken' # {}
      BY <2>1, <2>3, <3>1 DEF SomeSessionToCome
    <3> QED
      BY <2>1, <2>2, <3>2 DEF MainInv
  <2>4. CASE t \in Conns
    <3>1. dh[t] = "replacement"
      BY <2>1, <2>4 DEF MainInv
    <3>2. t \in connections
      BY <2>4, <3>1 DEF Types, RegInv, Leaving, Removed
    <3>3. ~Unseen'
      BY <2>1, <3>2 DEF Unseen
    <3> QED
      BY <2>1, <2>2, <3>3 DEF MainInv
  <2> QED
    BY <2>3, <2>4
<1>3. ASSUME NEW t \in Conns \cup Sessions, TimerFires(t) PROVE MainInv'
  <2>1. SetChanged /\ dh' = dh
    BY <1>3 DEF TimerFires, connVars
  <2> QED
    BY <2>1, SetMain DEF Types
<1> QED
    BY <1>1, <1>2, <1>3 DEF WaitStep

LEMMA ServerMain ==
    ASSUME Types, MainInv, NEW c \in Conns, ServerThread(c), [Next]_vars
    PROVE  MainInv'
<1>w. waiter \in [Waiters -> {"none", "enter", "asleep", "check", "done"}]
      /\ Conns \subseteq Waiters /\ Main \in Waiters /\ Main \notin Conns
      /\ dh \in [Conns -> {"idle", "connection", "done"} \cup Leaving]
    BY DEF Types, TypeInv, EventTypes, Waiters, ConnTypes
<1>1. CASE ServerRemove(c)
  <2>1. SetChanged /\ dh[c] = "remove" /\ \E x : dh' = [dh EXCEPT ![c] = x]
    BY <1>1 DEF ServerRemove
  <2>2. \A d \in Conns : dh[d] = "replacement" => dh'[d] = dh[d]
    BY <1>w, <2>1
  <2> QED
    BY <2>1, <2>2, SetMain DEF Types
<1>2. CASE ConnectionDisconnect(c)
  <2>1. /\ dh[c] = "connection" /\ \E x : dh' = [dh EXCEPT ![c] = x]
        /\ main' = main /\ arrival' = arrival
        /\ SetChanged \/ (UNCHANGED eventVars /\ connections' = connections)
    BY <1>2 DEF ConnectionDisconnect
  <2>2. \A d \in Conns : dh[d] = "replacement" => dh'[d] = dh[d]
    BY <1>w, <2>1
  <2>3. CASE SetChanged
    BY <2>2, <2>3, SetMain DEF Types
  <2>4. CASE UNCHANGED eventVars /\ connections' = connections
    <3>1. changed' = changed /\ waiter' = waiter
      BY <2>4 DEF eventVars
    <3>2. \A d \in Conns : waiter'[d] # "none" => dh'[d] = "replacement"
      BY <2>2, <3>1 DEF MainInv
    <3> QED
      BY <2>1, <2>4, <3>1, <3>2, FrameMain
  <2> QED
    BY <2>1, <2>3, <2>4
<1>3. CASE ServerDisconnect(c)
  <2>1. /\ UNCHANGED <<changed, connections, arrival, main>> /\ dh[c] = "server"
        /\ \/ waiter' = waiter /\ \E x : dh' = [dh EXCEPT ![c] = x]
           \/ /\ waiter' = [waiter EXCEPT ![c] = "check"]
              /\ dh' = [dh EXCEPT ![c] = "replacement"]
    BY <1>3 DEF ServerDisconnect
  <2>2. \A d \in Conns : waiter'[d] # "none" => dh'[d] = "replacement"
    BY <1>w, <2>1 DEF MainInv
  <2>3. waiter'[Main] = waiter[Main]
    BY <1>w, <2>1
  <2> QED
    BY <2>1, <2>2, <2>3, FrameMain
<1>4. CASE ReplacementAwaited(c)
  <2>1. /\ UNCHANGED <<changed, connections, arrival, main>>
        /\ waiter' = [waiter EXCEPT ![c] = "none"] /\ dh' = [dh EXCEPT ![c] = "remove"]
    BY <1>4 DEF ReplacementAwaited, regVars
  <2>2. \A d \in Conns : waiter'[d] # "none" => dh'[d] = "replacement"
    BY <1>w, <2>1 DEF MainInv
  <2>3. waiter'[Main] = waiter[Main]
    BY <1>w, <2>1
  <2> QED
    BY <2>1, <2>2, <2>3, FrameMain
<1>5. CASE HandleDisconnect(c) \/ KnownTimeout(c) \/ ServerFinalize(c) \/ FinReturn(c)
  <2>1. /\ UNCHANGED <<changed, connections, arrival, waiter>>
        /\ main' = main \/ main' = "crashed"
        /\ dh' = dh \/ (dh[c] # "replacement" /\ \E x : dh' = [dh EXCEPT ![c] = x])
    BY <1>5 DEF HandleDisconnect, KnownTimeout, ServerFinalize, FinReturn, regVars, eventVars,
                connVars
  <2>2. \A d \in Conns : waiter'[d] # "none" => dh'[d] = "replacement"
    BY <1>w, <2>1 DEF MainInv
  <2> QED
    BY <2>1, <2>2, FrameMain
<1> QED
    BY <1>1, <1>2, <1>3, <1>4, <1>5 DEF ServerThread

LEMMA OthersMain ==
    ASSUME Types, MainInv, [Next]_vars,
           \/ AcceptThread \/ MainCheck \/ MainExit \/ UNCHANGED vars
           \/ \E c \in Conns : Peer(c)
           \/ \E s \in Sessions : FinalizeStep(s) \/ ClientThread(s) \/ ClientRequest(s)
                                  \/ LauncherStep(s)
    PROVE  MainInv'
<1>w. waiter \in [Waiters -> {"none", "enter", "asleep", "check", "done"}]
      /\ Sessions \subseteq Waiters /\ Conns \subseteq Waiters /\ Conns \cap Sessions = {}
      /\ Main \in Waiters /\ Main \notin Conns \cup Sessions
    BY DEF Types, TypeInv, EventTypes, Waiters
<1>f. ASSUME UNCHANGED <<changed, connections, arrival, dh>>,
             main' = main \/ main' # "servers",
             waiter' = waiter \/ \E s \in Sessions : \E x : waiter' = [waiter EXCEPT ![s] = x]
      PROVE  MainInv'
  <2>1. waiter'[Main] = waiter[Main] /\ \A c \in Conns : waiter'[c] = waiter[c]
    BY <1>w, <1>f
  <2>2. \A c \in Conns : waiter'[c] # "none" => dh'[c] = "replacement"
    BY <1>f, <2>1 DEF MainInv
  <2> QED
    BY <1>f, <2>1, <2>2, FrameMain
<1>1. CASE AcceptThread
  <2>1. \/ SetChanged /\ dh' = dh
        \/ UNCHANGED <<changed, connections, arrival, dh, main, waiter>>
    BY <1>1 DEF AcceptThread, HandshakeFails, Register, Append, FindParent, CheckReplacement,
                NotifyParent, UnblockOrphan, connVars, regVars, eventVars
  <2> QED
    BY <1>f, <2>1, SetMain DEF Types
<1>2. CASE MainCheck
  <2>1. /\ UNCHANGED <<connections, arrival, dh>> /\ changed' = FALSE
        /\ \/ connections # {} /\ \E x : waiter' = [waiter EXCEPT ![Main] = x]
           \/ main' = "sessions" /\ \E x : waiter' = [waiter EXCEPT ![Main] = x]
    BY <1>2 DEF MainCheck, regVars, connVars
  <2>2. \A c \in Conns : waiter'[c] # "none" => dh'[c] = "replacement"
    BY <1>w, <2>1 DEF MainInv
  <2>3. ~Unseen'
    BY <2>1 DEF Unseen
  <2> QED
    BY <2>1, <2>2, <2>3 DEF MainInv
<1>3. CASE MainExit \/ UNCHANGED vars
  <2>1. UNCHANGED <<changed, connections, arrival, dh, waiter>> /\ (main' = main \/ main' # "servers")
    BY <1>3 DEF MainExit, vars, connVars, regVars, eventVars
  <2> QED
    BY <1>f, <2>1
<1>4. CASE \E c \in Conns : Peer(c)
  <2>1. UNCHANGED <<changed, connections, arrival, dh, main, waiter>>
    BY <1>4 DEF Peer, Accept, PeerExit, ProcessReplaced, regVars, eventVars
  <2> QED
    BY <1>f, <2>1
<1>5. ASSUME NEW s \in Sessions, FinalizeStep(s) PROVE MainInv'
  <2>1. \/ SetChanged /\ dh' = dh
        \/ UNCHANGED <<changed, connections, arrival, dh, main, waiter>>
    BY <1>5 DEF FinalizeStep, FinUnblock, FinRequest, FinDetach, FinLauncher, FinLauncherGone,
                FinClient, FinKill, LauncherReturn, regVars, connVars, eventVars
  <2> QED
    BY <1>f, <2>1, SetMain DEF Types
<1>6. ASSUME NEW s \in Sessions, ClientThread(s) PROVE MainInv'
  <2>1. /\ UNCHANGED <<changed, connections, arrival, dh>> /\ (main' = main \/ main' = "crashed")
        /\ waiter' = waiter \/ \E x : waiter' = [waiter EXCEPT ![s] = x]
    BY <1>6 DEF ClientThread, LaunchProceeds, LookForServer, LaunchFails, NoConnection,
                AttachBegins, AttachToSession, StartSucceeds, StartFails, StartLost,
                HandlerReturn, CloseClient, regVars, connVars, eventVars
  <2> QED
    BY <1>f, <2>1
<1>7. ASSUME NEW s \in Sessions, ClientRequest(s) \/ LauncherStep(s) PROVE MainInv'
  <2>1. /\ UNCHANGED <<changed, connections, arrival, dh, main>>
        /\ waiter' = waiter \/ waiter' = [waiter EXCEPT ![s] = "check"]
    BY <1>7 DEF ClientRequest, NewClient, LaunchRequest, AttachRequest, LookForServer,
                ConfigurationDone, TerminateRequest, DisconnectRequest, ClientDisconnect,
                LauncherStep, LauncherConnects, LauncherReports, LauncherLost, regVars,
                connVars, eventVars
  <2> QED
    BY <1>f, <2>1
<1> QED
    BY <1>1, <1>2, <1>3, <1>4, <1>5, <1>6, <1>7

LEMMA MainInvariant == Spec => [](Types /\ MainInv)
<1>1. Init => MainInv
    BY DEF Init, MainInv, Unseen, Waiters
<1>2. Types /\ MainInv /\ [Next]_vars => MainInv'
    BY WaitMain, ServerMain, OthersMain DEF Next
<1>3. Spec => []Types
    BY SessInvariant, PTL DEF Types
<1> QED
    BY <1>1, <1>2, <1>3, PTL DEF Spec

\* The main thread does not sleep through the end of the last server and the last
\* session, although wait_for_connection() may swallow the event meant for it, unless
\* some "launch" was finalized while its start handler waited for the launcher.
THEOREM MainIsNotForgotten == Spec => []MainNotForgotten
<1>1. MainInv => MainNotForgotten
    BY DEF MainInv, MainNotForgotten, Oversleeps, Unseen, SomeSessionToCome
<1> QED
    BY <1>1, MainInvariant, PTL
=============================================================================

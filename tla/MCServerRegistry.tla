-------------------------- MODULE MCServerRegistry --------------------------
(***************************************************************************)
(* ServerRegistry on small instances.  c1 is the root debuggee, c2 its     *)
(* child or, where the processes share a pid, its replacement.  p0 is not  *)
(* debugged: it is the parent that the root reports, unless it reports     *)
(* none, and the stub that a launcher starts and reports.                  *)
(***************************************************************************)
EXTENDS ServerRegistry, TLC

CONSTANTS c1, c2, s1, s2, p0, p1, p2

OneConn == {c1}
TwoConns == {c1, c2}
OneSession == {s1}
TwoSessions == {s1, s2}
AllPids == {p0, p1, p2}
OnePid == {p1}
Stub == {p0}
NoStub == {p1}

Child == c1 :> p1 @@ c2 :> p2
ChildOf == c1 :> p0 @@ c2 :> p1
Successor == c1 :> p1 @@ c2 :> p1
SameParent == c1 :> p0 @@ c2 :> p0
SinglePid == c1 :> p1
NoParent == c1 :> None

NoConns == {}
AnyStart == {"launch", "listen", "pid"}
Connect == {"connect"}
Sub == {"sub"}
Launch == {"launch"}
AnyPhase == AllPhases
AfterAttach == {"attached", "released"}
=============================================================================

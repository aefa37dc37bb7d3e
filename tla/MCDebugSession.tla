--------------------------- MODULE MCDebugSession ---------------------------
(***************************************************************************)
(* DebugSession on small instances.                                        *)
(***************************************************************************)
EXTENDS DebugSession

OnlyLaunch == {"launch"}
OnlyAttach == {"attach"}
OnlyNoDebug == {"noDebug"}
Timed == StartKinds \ {"listen"}
NoFaults == {}
AnyFault == {"vanish", "refuse", "spawn", "late", "early"}
SpawnFails == {"spawn"}
ServerRefuses == {"refuse"}
=============================================================================

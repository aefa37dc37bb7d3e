-------------------------- MODULE MCSysMonitoring --------------------------
(* Instances of SysMonitoring for TLC: userF is user code, libF is a       *)
(* library, ownF is a function of pydevd.                                  *)
EXTENDS SysMonitoring
CONSTANTS userF, libF, ownF, t1, t2

LineOfF == {<<userF, 1>>}
LineAndFunction == {<<userF, 0>>, <<userF, 1>>}
OnFunction == {<<userF, 0>>}
=============================================================================

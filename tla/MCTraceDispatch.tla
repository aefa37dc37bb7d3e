-------------------------- MODULE MCTraceDispatch --------------------------
(* Instances of TraceDispatch for TLC: userF and userG are functions of    *)
(* one file, libF is a library, ownF is a function of pydevd.              *)
EXTENDS TraceDispatch, TLC
CONSTANTS userF, userG, libF, ownF, t1, t2

ThreadSymmetry == Permutations(Threads)
Files == [c \in Codes |-> IF c \in {userF, userG} THEN userF ELSE c]
LineOfF == {<<userF, 1>>}
LineAndFunction == {<<userF, 0>>, <<userF, 1>>}
OnFunction == {<<userF, 0>>}
OnSecondLine == {<<userF, 0>>, <<userF, 2>>}
=============================================================================

-------------------------- MODULE MCMessageChannel --------------------------
(***************************************************************************)
(* Instances of MessageChannel for TLC.                                    *)
(***************************************************************************)
EXTENDS MessageChannel, TLC

CONSTANTS u1, u2, h1, h2, c1, c2

OneUser == {u1}
TwoUsers == {u1, u2}
TwoHThreads == {h1, h2}
OneCallback == {c1}
TwoCallbacks == {c1, c2}

Anything == AllKinds

\* Without those that are logged and dropped.
HandledOrMalformed == {"event", "request", "response", "malformed"}

\* Threads of a kind, and callbacks, are interchangeable.
Symmetry ==
    Permutations(Users) \cup Permutations(HThreads) \cup Permutations(Callbacks)
=============================================================================

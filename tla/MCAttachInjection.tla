------------------------- MODULE MCAttachInjection -------------------------
(* Instances of AttachInjection for TLC.                                   *)
EXTENDS AttachInjection, TLC
CONSTANTS main, other, i1, i2

Symmetric == Permutations({i1, i2})
=============================================================================

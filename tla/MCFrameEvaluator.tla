-------------------------- MODULE MCFrameEvaluator --------------------------
(* Instances of FrameEvaluator for TLC: userF is a function, genF a        *)
(* generator of the same file, ownF a function of pydevd.                  *)
EXTENDS FrameEvaluator, TLC
CONSTANTS userF, genF, ownF, t1, t2

ThreadSymmetry == Permutations(Threads)
GeneratorLines == {<<genF, 1>>, <<genF, 2>>}
GeneratorAll == {<<genF, 0>>, <<genF, 1>>, <<genF, 2>>}
=============================================================================

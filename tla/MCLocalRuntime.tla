--------------------------- MODULE MCLocalRuntime ---------------------------
(* Instances of LocalRuntime for TLC; the .cfg files give the constants. *)
EXTENDS LocalRuntime, TLC

\* Goroutines are interchangeable: sound for the safety runs.
GoroutineSymmetry == Permutations(Procs)
=============================================================================

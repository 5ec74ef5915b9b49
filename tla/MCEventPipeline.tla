-------------------------- MODULE MCEventPipeline --------------------------
(* Two interchangeable threads. *)
EXTENDS EventPipeline, TLC

CONSTANTS main, dispatch

MCThreads == {main, dispatch}
ThreadSymmetry == Permutations(MCThreads)
=============================================================================

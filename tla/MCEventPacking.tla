--------------------------- MODULE MCEventPacking ---------------------------
EXTENDS EventPacking, TLC

(* Nothing tells the threads apart. *)
ThreadSymmetry == Permutations(Threads)
=============================================================================

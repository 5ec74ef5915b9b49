----------------------------- MODULE MCHeapDump -----------------------------
(* Three slots: one to name a class for, one to collect, one for the name. *)
EXTENDS HeapDump, TLC

CONSTANTS a1, a2, a3, s1, s2

MCAddresses == {a1, a2, a3}
MCStrings == {s1, s2}
AddressAndStringSymmetry == Permutations(MCAddresses) \cup Permutations(MCStrings)
=============================================================================

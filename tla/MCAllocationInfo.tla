-------------------------- MODULE MCAllocationInfo --------------------------
EXTENDS AllocationInfo, TLC

CONSTANTS a1, a2, s1, s2

MCAddresses == {a1, a2}
MCStrings == {s1, s2}
AddressAndStringSymmetry == Permutations(MCAddresses) \cup Permutations(MCStrings)
=============================================================================

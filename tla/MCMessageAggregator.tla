------------------------ MODULE MCMessageAggregator ------------------------
(* A message shorter than the reserved size and one that takes two         *)
(* doublings of it.                                                        *)
EXTENDS MessageAggregator

CONSTANTS small, large

MCMessages == {small, large}
MCSizeOf == [m \in MCMessages |-> IF m = small THEN 1 ELSE 5]
=============================================================================

-------------------------- MODULE MCUsageCollector ---------------------------
(* Instances of UsageCollector.                                            *)
EXTENDS UsageCollector

CONSTANTS a, blank

(* None, less than a millisecond, more than one, and a clock gone back.    *)
SomeDurations == {-1, 0, 1, 3}
=============================================================================

--------------------------- MODULE MCIdleTracking ---------------------------
EXTENDS IdleTracking, TLC

RequestSymmetry == Permutations(Requests)
=============================================================================

----------------------------- MODULE MCLogFile ------------------------------
\* Two threads that log while the file is rotated.
EXTENDS LogFile, TLC

CONSTANTS t1, t2

MCThreads == {t1, t2}
MCSymmetry == Permutations(MCThreads)
=============================================================================

--------------------------- MODULE MCObjectMonitor ---------------------------
EXTENDS ObjectMonitor, TLC

Symmetry == Permutations(Thread)
=============================================================================

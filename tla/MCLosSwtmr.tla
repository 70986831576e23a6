----------------------------- MODULE MCLosSwtmr -----------------------------
EXTENDS LosSwtmr

MCTimerSymmetry == Permutations(Timer)
=============================================================================

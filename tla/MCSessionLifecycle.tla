------------------------- MODULE MCSessionLifecycle -------------------------
EXTENDS SessionLifecycle, TLC

AttemptSymmetry == Permutations(Attempts)
=============================================================================

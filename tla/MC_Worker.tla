----------------------------- MODULE MC_Worker -----------------------------
EXTENDS Worker, TLC

ConnSymmetry == Permutations(Conns)
=============================================================================

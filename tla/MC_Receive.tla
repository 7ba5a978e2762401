----------------------------- MODULE MC_Receive -----------------------------
EXTENDS Receive, TLC

SourceSymmetry == Permutations(Sources)
=============================================================================

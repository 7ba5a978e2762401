---------------------------- MODULE MC_Multicast ----------------------------
(* Two viewers, a window of four, and a stream that starts just before the *)
(* sequence numbers wrap.                                                  *)
EXTENDS Multicast

MCSymmetry == Permutations(Viewers)
=============================================================================

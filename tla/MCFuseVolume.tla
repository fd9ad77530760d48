---------------------------- MODULE MCFuseVolume ----------------------------
(* FuseVolume for model checking.                                          *)
EXTENDS FuseVolume, TLC

Symmetry == Permutations(Workers) \cup Permutations(Calls)
=============================================================================

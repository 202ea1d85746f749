----------------------------- MODULE MCInstHeap -----------------------------
(* InstHeap with a tree of three levels.                                   *)
EXTENDS InstHeap, TLC

CONSTANTS i1, i2, i3, i4, i5, i6

SixInsts == {i1, i2, i3, i4, i5, i6}
InstSymmetry == Permutations(SixInsts)
=============================================================================

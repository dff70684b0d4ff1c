----------------------------- MODULE MCFreeList -----------------------------
(***************************************************************************)
(* A small memory for FreeList.  Only safety is checked, and nothing tells *)
(* the blocks apart, nor the threads, so symmetry is sound.                *)
(***************************************************************************)
EXTENDS FreeList, TLC

MCSymmetry == Permutations(Block) \cup Permutations(Proc)
=============================================================================

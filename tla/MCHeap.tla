------------------------------- MODULE MCHeap -------------------------------
(***************************************************************************)
(* Heap for TLC, scaled down: every case of the code (perfect fit, split,  *)
(* no room to split, the three aligned expansions, out of memory) happens  *)
(* in a heap of a few dozen bytes, so that all sequences of calls are      *)
(* covered.                                                                *)
(***************************************************************************)
EXTENDS Heap

=============================================================================

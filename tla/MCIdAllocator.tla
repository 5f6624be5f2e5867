--------------------------- MODULE MCIdAllocator ----------------------------
(***************************************************************************)
(* Instances of IdAllocator for TLC.  The 16-bit version of the free list  *)
(* starts just below its wrap.                                             *)
(***************************************************************************)
EXTENDS IdAllocatorInv, TLC

UserSymmetry == Permutations(Users)
=============================================================================

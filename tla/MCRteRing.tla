----------------------------- MODULE MCRteRing ------------------------------
(***************************************************************************)
(* Instances of RteRing for TLC.  The indices wrap within the run.         *)
(***************************************************************************)
EXTENDS RteRingInv, TLC

ThreadSymmetry == Permutations(Threads)
=============================================================================

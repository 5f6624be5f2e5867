------------------------------ MODULE MCDomain ------------------------------
(***************************************************************************)
(* Instances of Domain for TLC.                                            *)
(***************************************************************************)
EXTENDS DomainInv, TLC

Symmetry == Permutations(Processes) \cup Permutations(Channels) \cup Permutations(Objects)
=============================================================================

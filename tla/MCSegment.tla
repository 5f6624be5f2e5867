------------------------------ MODULE MCSegment -----------------------------
(***************************************************************************)
(* Instance of Segment for TLC.                                            *)
(***************************************************************************)
EXTENDS Segment, TLC
=============================================================================

------------------------- MODULE MCMonotonicBuffer -------------------------
(* A small instance of MonotonicBuffer for TLC: two threads, two cached pages. *)
EXTENDS MonotonicBufferInv
CONSTANTS t1, t2
MCPages == 1 .. 9
MCCalls == (t1 :> 2) @@ (t2 :> 1)
=============================================================================

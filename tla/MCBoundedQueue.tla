--------------------------- MODULE MCBoundedQueue ---------------------------
(***************************************************************************)
(* Instances of BoundedQueue for TLC.  The ring starts just below index    *)
(* 2^16 with two slots, so that the 16-bit version wraps within the run.   *)
(***************************************************************************)
EXTENDS BoundedQueueInv, TLC

FutexOnly == {[wait |-> TRUE, wake |-> TRUE]}
\* Pushes spin and wake, pops sleep and wake nobody.
SpinAndWake  == {[wait |-> FALSE, wake |-> TRUE]}
SleepOnly    == {[wait |-> TRUE, wake |-> FALSE]}

ThreadSymmetry == Permutations(Threads)
=============================================================================

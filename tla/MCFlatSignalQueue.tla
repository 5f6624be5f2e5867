------------------------- MODULE MCFlatSignalQueue --------------------------
(***************************************************************************)
(* Instances of FlatSignalQueue for TLC.                                   *)
(***************************************************************************)
EXTENDS FlatSignalQueue, TLC

ProcessState == {{"TryPush", "Pop"}}
MCMixes ==
  ProcessState \cup {{"TryPush", "TryPop"}, {"TryPush", "Push", "TryPop"},
                     {"TryPush", "Push", "TryPop", "Pop"}}
=============================================================================

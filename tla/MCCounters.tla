----------------------------- MODULE MCCounters -----------------------------
(* A small instance of Counters for TLC: a writer and the collector, which  *)
(* also writes, reserves and collects.                                      *)
EXTENDS Counters, TLC
CONSTANTS w, c
MCAddrs == 1 .. 8
MCCalls == [k \in Kinds |-> IF k = "sampler" THEN (w :> 3) @@ (c :> 1) ELSE (w :> 2) @@ (c :> 2)]
\* None for the kind during whose use time passes.
MCPeriod == [k \in Kinds |-> IF k \in Timed THEN 0 ELSE 1]
=============================================================================

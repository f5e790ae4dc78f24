---------------------------- MODULE MCLifecycle ----------------------------
(***************************************************************************)
(* Lifecycle with three benchmarks and a process that is killed at most    *)
(* twice.                                                                  *)
(***************************************************************************)
EXTENDS Lifecycle

CONSTANTS b1, b2, b3
MCBenchmarks == {b1, b2, b3}
=============================================================================

---------------------------- MODULE MCBenchInput ----------------------------
(***************************************************************************)
(* BenchInput on the wrappers of the builds whose bench_input is a         *)
(* reference: the CPU backends, the stdpar GPU backends and the USM modes. *)
(***************************************************************************)
EXTENDS BenchInput, Tables, Groups

MCPrograms == ReferenceBuilds
MCLoc == Locations
MCContent == ContentsOf(MCPrograms) \union {"unset", "junk"}
MCFlow == TablesOf(MCPrograms)
=============================================================================

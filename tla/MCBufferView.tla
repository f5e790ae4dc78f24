---------------------------- MODULE MCBufferView ----------------------------
(***************************************************************************)
(* BufferView on all the wrappers of the two backends NO_USM is for.       *)
(***************************************************************************)
EXTENDS BufferView, Tables, Groups

MCPrograms == NoUsmBuilds
MCLoc == Locations
MCContent == ContentsOf(MCPrograms) \union {"unset", "junk"}
MCFlow == TablesOf(MCPrograms)

(* What the theorems about NO_USM builds ask of a wrapper: it keeps to the *)
(* scopes of its host_views, one iteration leaves what the next one is     *)
(* written for, views are for preparing the timed call, and the mergers    *)
(* sort with kernels.                                                      *)
WrappersKeepTheRules ==
  /\ IsBlockStructured(prog) /\ IterationsCompose
  /\ PreparesThenTimes(prog)
  /\ bench \in MergesHalves => PreparedByKernel(prog, "input")
=============================================================================

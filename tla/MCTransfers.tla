---------------------------- MODULE MCTransfers -----------------------------
(***************************************************************************)
(* Transfers on all the wrappers of the GPU builds that have no buffers.   *)
(***************************************************************************)
EXTENDS Transfers, Groups

MCPrograms == [b \in DOMAIN ReferenceBuilds \ {"GENERIC"} |-> ReferenceBuilds[b]]
MCLoc == Locations
MCContent == ContentsOf(MCPrograms) \union {"unset", "junk"}
=============================================================================

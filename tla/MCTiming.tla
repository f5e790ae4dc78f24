------------------------------ MODULE MCTiming ------------------------------
(***************************************************************************)
(* Timing with two threads and two cores, one of which may be offline.     *)
(***************************************************************************)
EXTENDS Timing

CONSTANTS t1, t2
MCThreads == {t1, t2}
=============================================================================

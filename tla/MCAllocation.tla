---------------------------- MODULE MCAllocation ----------------------------
(***************************************************************************)
(* Allocation for the shapes the wrappers have: one input and its copy     *)
(* (transform, mismatch), one input and an output of get_vector (copy),    *)
(* two inputs and a buffer (the set operations), and two copies (the       *)
(* transform scans with their solution).                                   *)
(***************************************************************************)
EXTENDS Allocation

MCBuilds ==
  {b \in [alloc : {"std", "par", "usm"}, gnu : BOOLEAN, seq : BOOLEAN] : b.gnu => b.alloc # "usm"}
MCTypes == {[floating |-> FALSE, digits |-> 32], [floating |-> TRUE, digits |-> 1]}
MCWrappers ==
  [transform |-> <<"iota", "copy">>, copy |-> <<"iota", "get">>,
   set_difference |-> <<"iota", "sub", "buffer">>,
   transform_inclusive_scan |-> <<"iota", "copy", "copy">>]
=============================================================================

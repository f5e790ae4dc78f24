------------------------------- MODULE MCData -------------------------------
(***************************************************************************)
(* Data on the host wrappers that draw positions or split sizes.  The      *)
(* element types are int, float as far as it is exact, and one of two      *)
(* significant bits, in which 5 is stored as 4: what happens to a float    *)
(* beyond 2^24 happens to it beyond 4.                                     *)
(***************************************************************************)
EXTENDS Data, Groups

MCBenchmarks ==
  {"adjacent_find", "mismatch", "find", "count", "search", "equal",
   "set_difference", "set_intersection"}
MCPrograms == [GENERIC |-> [b \in MCBenchmarks |-> pstl_benchmarks("GENERIC")[b]]]
MCLoc == Locations
MCContent == ContentsOf(MCPrograms) \union {"unset", "junk"}

Int32 == [floating |-> FALSE, digits |-> 31]
Float == [floating |-> TRUE, digits |-> 24]
Coarse == [floating |-> TRUE, digits |-> 2]
MCTypes == {Int32, Float, Coarse}
=============================================================================

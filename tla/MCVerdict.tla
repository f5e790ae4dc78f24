----------------------------- MODULE MCVerdict ------------------------------
(***************************************************************************)
(* Verdict with values around zero, around the 1 % of 100, and NaN; the    *)
(* default tolerances and ones set by hand.                                *)
(***************************************************************************)
EXTENDS Verdict

MCTypes == {[floating |-> FALSE, digits |-> 32], [floating |-> TRUE, digits |-> 24]}
MCTolerances == {DefaultTolerance, [abs |-> 1, num |-> 0, den |-> 1], [abs |-> 0, num |-> 1, den |-> 2]}
MCValues == {-99, -1, 0, 1, 99, 100}
=============================================================================

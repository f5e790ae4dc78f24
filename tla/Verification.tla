---------------------------- MODULE Verification ----------------------------
(***************************************************************************)
(* utils/verification.h: when a result is verified, and when two results   *)
(* count as the same.                                                      *)
(*                                                                         *)
(* Floating-point values are multiples of some unit, or NaN; sums and      *)
(* quotients of them are exact here.  A tolerance [abs, num, den] stands   *)
(* for PSTL_BENCH_ABS_TOL in that unit and for num/den of                  *)
(* PSTL_BENCH_REL_TOL.                                                     *)
(***************************************************************************)
EXTENDS ElemT, Sequences

-----------------------------------------------------------------------------
Absent == "absent"   \* std::getenv returns nullptr

(* "TRUE" and "True" stand for all spellings with capital letters.         *)
tolower(spelling) ==
  IF spelling \in {"TRUE", "True"} THEN "true"
  ELSE IF spelling \in {"FALSE", "False"} THEN "false" ELSE spelling

(* With no tolower, or with everything but "0" and "false" switched on.    *)
VERIFY_ENABLED_AsTyped(env) == env \in {"1", "true"}

VERIFY_ENABLED(env) == env # Absent /\ tolower(env) \in {"1", "true"}

(* A std::optional is the set of what it holds.  Disabled, the expression  *)
(* is not evaluated and there is nothing to know.                          *)
verify(env, expr) == IF VERIFY_ENABLED(env) THEN {expr} ELSE {}

(* state.counters["verification_passed"], if it is reported.               *)
set_verification_counter(env, passed) ==
  IF VERIFY_ENABLED(env) THEN {IF passed = {TRUE} THEN 1 ELSE 0} ELSE {}

-----------------------------------------------------------------------------
DefaultTolerance == [abs |-> 0, num |-> 1, den |-> 100]

(* The error relative to the first value only; accepted unless found to be *)
(* too large; a default of 1 instead of 1 %.                               *)
FloatsEquivalent_OfTheFirst(v1, v2, tol) ==
  /\ v1 # NaN /\ v2 # NaN
  /\ LET abs_error == std_abs(v1 - v2)
     IN abs_error <= tol.abs \/ (v1 # 0 /\ abs_error * tol.den <= tol.num * std_abs(v1))

FloatsEquivalent_UnlessTooLarge(v1, v2, tol) ==
  IF v1 = NaN \/ v2 = NaN THEN TRUE
  ELSE LET abs_error == std_abs(v1 - v2)
           larger == IF std_abs(v1) < std_abs(v2) THEN std_abs(v2) ELSE std_abs(v1)
       IN ~(abs_error > tol.abs /\ abs_error * tol.den > tol.num * larger)

FloatsEquivalent_OffByOneUnit(v1, v2, tol) ==
  /\ v1 # NaN /\ v2 # NaN
  /\ std_abs(v1 - v2) <= tol.abs + 1

(* A comparison with NaN is false, and so is one with the 0/0 that two     *)
(* zeros have for a relative error.                                        *)
FloatsEquivalent(v1, v2, tol) ==
  /\ v1 # NaN /\ v2 # NaN
  /\ LET abs_error == std_abs(v1 - v2)
         larger == IF std_abs(v1) < std_abs(v2) THEN std_abs(v2) ELSE std_abs(v1)
     IN \/ abs_error <= tol.abs
        \/ larger # 0 /\ abs_error * tol.den <= tol.num * larger

ElementsEquivalent(T, v1, v2, tol) ==
  IF T.floating THEN FloatsEquivalent(v1, v2, tol) ELSE v1 = v2

(* A comparison of what both containers have.                              *)
are_equivalent_CommonPrefix(T, c1, c2, tol) ==
  \A i \in DOMAIN c1 \intersect DOMAIN c2 : ElementsEquivalent(T, c1[i], c2[i], tol)

(* Two containers.                                                         *)
are_equivalent(T, c1, c2, tol) ==
  /\ Len(c1) = Len(c2)
  /\ \A i \in DOMAIN c1 : ElementsEquivalent(T, c1[i], c2[i], tol)
=============================================================================

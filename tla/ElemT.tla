------------------------------- MODULE ElemT --------------------------------
(***************************************************************************)
(* pstl::elem_t (utils/elem_t.h): int, float or double, as                 *)
(* PSTL_BENCH_DATA_TYPE has it.  A number is a whole multiple of the unit, *)
(* which is all the wrappers compute with; what a floating-point type does *)
(* to it is to round it to the bits of its significand.                    *)
(***************************************************************************)
EXTENDS Integers

CONSTANT NaN   \* std::numeric_limits<elem_t>::quiet_NaN()

ASSUME NaNAssumption == NaN \notin Int

(* Whether it is a floating-point type, and the bits of its significand.   *)
IsElemType(T) == T \in [floating : BOOLEAN, digits : Nat \ {0}]

(* An integer has no NaN: quiet_NaN() is 0 there.                          *)
quiet_NaN(T) == IF T.floating THEN NaN ELSE 0

std_abs(x) == IF x < 0 THEN -x ELSE x

(* The distance between neighbours among the numbers of T at magnitude m.  *)
Spacing(T, m) ==
  2 ^ (CHOOSE k \in 0 .. m : m < 2 ^ (T.digits + k) /\ (k = 0 \/ 2 ^ (T.digits + k - 1) <= m))

(* x as T stores it: rounded to the nearest number, ties to the even one.  *)
(* The sizes a binary is built for, at most 2^30, fit an int.              *)
Stored(T, x) ==
  IF ~T.floating \/ std_abs(x) < 2 ^ T.digits THEN x
  ELSE LET u == Spacing(T, std_abs(x))
           q == std_abs(x) \div u
           r == std_abs(x) % u
           up == 2 * r > u \/ (2 * r = u /\ q % 2 = 1)
           m == IF up THEN (q + 1) * u ELSE q * u
       IN IF x < 0 THEN -m ELSE m
=============================================================================

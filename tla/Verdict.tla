------------------------------ MODULE Verdict -------------------------------
(***************************************************************************)
(* The last lines of a benchmark_wrapper: verify([&]() { return            *)
(* are_equivalent(output, solution); }) and set_verification_counter, for  *)
(* any output a benchmark can leave behind and any solution.               *)
(***************************************************************************)
EXTENDS Verification

CONSTANTS
  Spellings,    \* values of PSTL_BENCH_VERIFY
  Types,        \* element types a binary can be built for
  Tolerances,   \* tolerances the environment can set
  Values,       \* the numbers that occur
  MaxLen        \* bound on the length of the output

ASSUME VerdictAssumption ==
  /\ \A T \in Types : IsElemType(T)
  /\ Tolerances \subseteq [abs : Nat, num : Nat, den : Nat \ {0}]
  /\ Values \subseteq Int
  /\ MaxLen \in Nat

VARIABLES
  env,        \* PSTL_BENCH_VERIFY
  type,       \* pstl::elem_t
  tol,        \* ABSOLUTE_TOLERANCE, RELATIVE_TOLERANCE
  output,     \* what the benchmark computed
  solution,   \* what the verification computes
  passed,     \* verification_result
  counter,    \* state.counters["verification_passed"]
  pc

vars == <<env, type, tol, output, solution, passed, counter, pc>>

(* An output has the value its reset left where nothing was written.       *)
Content(T) == Values \union {quiet_NaN(T)}

Init ==
  /\ env \in Spellings \union {Absent}
  /\ type \in Types
  /\ tol \in Tolerances
  /\ output \in UNION {[1 .. n -> Content(type)] : n \in 0 .. MaxLen}
  /\ solution \in UNION {[1 .. n -> Content(type)] : n \in 0 .. MaxLen}
  /\ passed = {} /\ counter = {} /\ pc = "verify"

Verify ==
  /\ pc = "verify"
  /\ passed' = verify(env, are_equivalent(type, output, solution, tol))
  /\ pc' = "report"
  /\ UNCHANGED <<env, type, tol, output, solution, counter>>

Report ==
  /\ pc = "report"
  /\ counter' = set_verification_counter(env, passed)
  /\ pc' = "done"
  /\ UNCHANGED <<env, type, tol, output, solution, passed>>

Reported == pc = "done" /\ UNCHANGED vars

Next == Verify \/ Report \/ Reported
Spec == Init /\ [][Next]_vars

-----------------------------------------------------------------------------
TypeOK ==
  /\ env \in Spellings \union {Absent} /\ type \in Types /\ tol \in Tolerances
  /\ output \in UNION {[1 .. n -> Content(type)] : n \in 0 .. MaxLen}
  /\ solution \in UNION {[1 .. n -> Content(type)] : n \in 0 .. MaxLen}
  /\ passed \subseteq BOOLEAN /\ counter \subseteq {0, 1}
  /\ pc \in {"verify", "report", "done"}

(* The doc of PSTL_BENCH_VERIFY (verification.h:64): "1", "true" or "TRUE" *)
(* in any case enable it.  Then, and only then, a verdict is reported, and *)
(* it is a 1 for a result that equals its solution, NaNs apart, whatever   *)
(* the tolerances; a benchmark whose check was skipped has no counter.     *)
ReportsWhatIsAskedFor ==
  pc = "done" =>
    /\ counter = {} <=> env \notin {"1", "true", "True", "TRUE"}
    /\ counter # {} /\ output = solution /\ NaN \notin {output[i] : i \in DOMAIN output} =>
         counter = {1}

(* The wrappers fill outputs with NaN before the checked call, so that an  *)
(* element the algorithm did not write is found: no tolerance lets it      *)
(* pass, nor an output that is too short (verification.h:218).             *)
UnwrittenOutputFails ==
  counter = {1} =>
    /\ Len(output) = Len(solution)
    /\ type.floating => \A i \in DOMAIN output : output[i] # NaN /\ solution[i] # NaN

(* Some wrappers pass the result first and some the solution: the verdict  *)
(* is the same, the relative error is taken of the larger magnitude.       *)
OrderOfArgumentsIsIrrelevant ==
  are_equivalent(type, output, solution, tol) <=> are_equivalent(type, solution, output, tol)

(* Under the default tolerance of 1 % whole numbers below 100 in magnitude *)
(* are compared exactly: for inputs of up to 99 elements the floating-     *)
(* point builds verify offsets and elements as strictly as the int build.  *)
SmallNumbersAreComparedExactly ==
  /\ counter = {1} /\ tol = DefaultTolerance
  /\ \A i \in DOMAIN output : output[i] \in -99 .. 99
  /\ \A i \in DOMAIN solution : solution[i] \in -99 .. 99
  => output = solution
=============================================================================

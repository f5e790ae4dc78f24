--------------------------- MODULE VerdictProofs ----------------------------
(***************************************************************************)
(* What a verdict says, for any element type, tolerance, length of the     *)
(* output and spelling of PSTL_BENCH_VERIFY.                               *)
(***************************************************************************)
EXTENDS Verdict, TLAPS

(* The verdict is the one on this output and this solution, and the        *)
(* counter is that of the verdict.                                         *)
VerdictOnThis ==
  /\ pc # "verify" =>
       passed = verify(env, are_equivalent(type, output, solution, tol))
  /\ counter = IF pc = "done" THEN set_verification_counter(env, passed) ELSE {}

IInv == TypeOK /\ VerdictOnThis

-----------------------------------------------------------------------------
LEMMA InitIInv == Init => IInv
BY DEF Init, IInv, TypeOK, VerdictOnThis

LEMMA VerdictIsASet ==
  ASSUME NEW e, NEW b \in BOOLEAN
  PROVE  verify(e, b) \subseteq BOOLEAN
BY Zenon DEF verify

LEMMA CounterIsASet ==
  ASSUME NEW e, NEW p
  PROVE  set_verification_counter(e, p) \subseteq {0, 1}
BY DEF set_verification_counter

LEMMA EquivalenceIsBoolean ==
  ASSUME NEW T, NEW a, NEW b, NEW t
  PROVE  are_equivalent(T, a, b, t) \in BOOLEAN
BY Zenon DEF are_equivalent

LEMMA StepIInv == IInv /\ [Next]_vars => IInv'
<1> SUFFICES ASSUME IInv, [Next]_vars PROVE IInv'
  OBVIOUS
<1>1. CASE Verify
  <2>1. passed' \subseteq BOOLEAN
    BY <1>1, VerdictIsASet, EquivalenceIsBoolean DEF Verify
  <2>2. TypeOK'
    BY <1>1, <2>1 DEF Verify, IInv, TypeOK
  <2>3. VerdictOnThis'
    BY <1>1 DEF Verify, IInv, VerdictOnThis
  <2> QED  BY <2>2, <2>3 DEF IInv
<1>2. CASE Report
  <2>1. counter' \subseteq {0, 1}
    BY <1>2, CounterIsASet DEF Report
  <2>2. TypeOK'
    BY <1>2, <2>1 DEF Report, IInv, TypeOK
  <2>3. VerdictOnThis'
    BY <1>2 DEF Report, IInv, VerdictOnThis
  <2> QED  BY <2>2, <2>3 DEF IInv
<1>3. CASE UNCHANGED vars
  BY <1>3 DEF vars, IInv, TypeOK, VerdictOnThis
<1> QED  BY <1>1, <1>2, <1>3 DEF Next, Reported

LEMMA Invariance == Spec => []IInv
BY InitIInv, StepIInv, PTL DEF Spec

(* The variables keep their types (Verdict.TypeOK).                        *)
THEOREM TypeCorrect == Spec => []TypeOK
<1>1. IInv => TypeOK  BY DEF IInv
<1> QED  BY <1>1, Invariance, PTL

-----------------------------------------------------------------------------
(* The counter is there only if the environment asks for it, and it is 1   *)
(* for nothing but an accepted output.                                     *)
LEMMA CounterReports ==
  ASSUME IInv
  PROVE  /\ pc = "done" => (counter = {} <=> ~VERIFY_ENABLED(env))
         /\ counter = {1} => pc = "done" /\ are_equivalent(type, output, solution, tol)
         /\ counter # {} /\ are_equivalent(type, output, solution, tol) => counter = {1}
<1> DEFINE equivalent == are_equivalent(type, output, solution, tol)
<1>1. equivalent \in BOOLEAN
  BY EquivalenceIsBoolean
<1> HIDE DEF equivalent
<1>2. CASE VERIFY_ENABLED(env)
  <2>1. pc = "done" => passed = {equivalent}
    BY <1>2 DEF IInv, VerdictOnThis, verify, equivalent
  <2>2. pc = "done" => counter = {IF passed = {TRUE} THEN 1 ELSE 0}
    BY <1>2 DEF IInv, VerdictOnThis, set_verification_counter
  <2>3. pc # "done" => counter = {}
    BY DEF IInv, VerdictOnThis
  <2>4. CASE equivalent
    <3>1. pc = "done" => passed = {TRUE}  BY Zenon, <1>1, <2>1, <2>4
    <3> QED  BY <1>2, <2>2, <2>3, <2>4, <3>1 DEF equivalent
  <2>5. CASE ~equivalent
    <3>1. pc = "done" => passed # {TRUE}  BY Zenon, <1>1, <2>1, <2>5
    <3>2. pc = "done" => counter = {0}
      BY <2>2, <3>1
    <3>3. counter # {1}
      BY <2>3, <3>2
    <3>4. pc = "done" => counter # {}
      BY <3>2
    <3> QED  BY <1>2, <2>5, <3>3, <3>4 DEF equivalent
  <2> QED  BY <2>4, <2>5
<1>3. CASE ~VERIFY_ENABLED(env)
  BY <1>3 DEF IInv, VerdictOnThis, set_verification_counter
<1> QED  BY <1>2, <1>3

LEMMA Numbers ==
  ASSUME IInv
  PROVE  /\ IsElemType(type)
         /\ tol \in [abs : Nat, num : Nat, den : Nat \ {0}]
         /\ \A s \in {output, solution} :
              /\ Len(s) \in Nat /\ DOMAIN s = 1 .. Len(s)
              /\ \A i \in DOMAIN s : s[i] \in Int \union {NaN}
<1>1. type \in Types /\ tol \in Tolerances
  BY DEF IInv, TypeOK
<1>2. quiet_NaN(type) \in Int \union {NaN}
  BY DEF quiet_NaN
<1>3. Content(type) \subseteq Int \union {NaN}
  BY <1>2, VerdictAssumption DEF Content
<1>4. ASSUME NEW s \in {output, solution}
      PROVE  /\ Len(s) \in Nat /\ DOMAIN s = 1 .. Len(s)
             /\ \A i \in DOMAIN s : s[i] \in Int \union {NaN}
  <2>1. PICK n \in 0 .. MaxLen : s \in [1 .. n -> Content(type)]
    BY DEF IInv, TypeOK
  <2>2. n \in Nat /\ s \in Seq(Content(type))
    BY <2>1, VerdictAssumption
  <2>3. Len(s) = n
    BY <2>1, <2>2
  <2> QED  BY <1>3, <2>1, <2>2, <2>3
<1> QED  BY <1>1, <1>4, VerdictAssumption

LEMMA SameIsEquivalent ==
  ASSUME NEW x \in Int, NEW T, NEW t \in [abs : Nat, num : Nat, den : Nat \ {0}]
  PROVE  ElementsEquivalent(T, x, x, t)
<1>1. x # NaN  BY NaNAssumption
<1>2. std_abs(x - x) <= t.abs  BY DEF std_abs
<1> QED  BY <1>1, <1>2 DEF ElementsEquivalent, FloatsEquivalent

(* PSTL_BENCH_VERIFY decides, in the spellings its doc lists, whether      *)
(* there is a verdict, and a right output is accepted under every          *)
(* tolerance (verification.h:64, Verdict.ReportsWhatIsAskedFor).           *)
THEOREM VerdictsAreReported == Spec => []ReportsWhatIsAskedFor
<1>1. ASSUME IInv PROVE ReportsWhatIsAskedFor
  <2>1. VERIFY_ENABLED(env) <=> env \in {"1", "true", "True", "TRUE"}
    BY DEF VERIFY_ENABLED, tolower, Absent
  <2>2. ASSUME output = solution, NaN \notin {output[i] : i \in DOMAIN output}
        PROVE  are_equivalent(type, output, solution, tol)
    <3>1. ASSUME NEW i \in DOMAIN output
          PROVE  ElementsEquivalent(type, output[i], output[i], tol)
      <4>1. output[i] \in Int
        BY <1>1, <2>2, Numbers
      <4>2. tol \in [abs : Nat, num : Nat, den : Nat \ {0}]
        BY <1>1, Numbers
      <4> QED  BY <4>1, <4>2, SameIsEquivalent
    <3> QED  BY <2>2, <3>1 DEF are_equivalent
  <2>3. pc = "done" => (counter = {} <=> ~VERIFY_ENABLED(env))
    BY <1>1, CounterReports
  <2>4. counter # {} /\ are_equivalent(type, output, solution, tol) => counter = {1}
    BY <1>1, CounterReports
  <2> QED  BY <2>1, <2>2, <2>3, <2>4 DEF ReportsWhatIsAskedFor
<1> QED  BY <1>1, Invariance, PTL

(* No tolerance lets an element pass that was left as the reset made it,   *)
(* nor an output of another length (verification.h:218,                    *)
(* Verdict.UnwrittenOutputFails).                                          *)
THEOREM UnwrittenIsFound == Spec => []UnwrittenOutputFails
<1>1. ASSUME IInv PROVE UnwrittenOutputFails
  <2>1. SUFFICES ASSUME counter = {1}
        PROVE  /\ Len(output) = Len(solution)
               /\ type.floating => \A i \in DOMAIN output : output[i] # NaN /\ solution[i] # NaN
    BY DEF UnwrittenOutputFails
  <2>2. are_equivalent(type, output, solution, tol)
    BY <2>1, CounterReports, <1>1
  <2> QED  BY <2>2 DEF are_equivalent, ElementsEquivalent, FloatsEquivalent
<1> QED  BY <1>1, Invariance, PTL

LEMMA Magnitude == ASSUME NEW x \in Int PROVE std_abs(x) \in Nat
BY DEF std_abs

LEMMA DistanceIsSymmetric ==
  ASSUME NEW x \in Int, NEW y \in Int
  PROVE  std_abs(x - y) = std_abs(y - x)
BY DEF std_abs

LEMMA FloatsSymmetric ==
  ASSUME NEW x \in Int \union {NaN}, NEW y \in Int \union {NaN}, NEW t
  PROVE  FloatsEquivalent(x, y, t) <=> FloatsEquivalent(y, x, t)
<1>1. CASE x = NaN \/ y = NaN
  BY <1>1 DEF FloatsEquivalent
<1>2. CASE x \in Int /\ y \in Int
  <2> DEFINE larger(a, b) == IF std_abs(a) < std_abs(b) THEN std_abs(b) ELSE std_abs(a)
  <2>1. larger(x, y) = larger(y, x)
    BY <1>2, Magnitude
  <2>2. std_abs(x - y) = std_abs(y - x)
    BY <1>2, DistanceIsSymmetric
  <2>3. x # NaN /\ y # NaN
    BY <1>2, NaNAssumption
  <2> QED  BY <2>1, <2>2, <2>3 DEF FloatsEquivalent
<1> QED  BY <1>1, <1>2

(* Result first or solution first: the verdict is the same                 *)
(* (Verdict.OrderOfArgumentsIsIrrelevant).                                 *)
THEOREM OrderIsIrrelevant == Spec => []OrderOfArgumentsIsIrrelevant
<1>1. ASSUME IInv PROVE OrderOfArgumentsIsIrrelevant
  <2>1. DOMAIN output = 1 .. Len(output) /\ DOMAIN solution = 1 .. Len(solution)
    BY <1>1, Numbers
  <2>2. ASSUME DOMAIN output = DOMAIN solution, NEW i \in DOMAIN output
        PROVE  ElementsEquivalent(type, output[i], solution[i], tol)
                 <=> ElementsEquivalent(type, solution[i], output[i], tol)
    <3>1. output[i] \in Int \union {NaN} /\ solution[i] \in Int \union {NaN}
      BY <1>1, <2>2, Numbers
    <3> QED  BY <3>1, FloatsSymmetric DEF ElementsEquivalent
  <2> QED  BY <2>1, <2>2 DEF OrderOfArgumentsIsIrrelevant, are_equivalent
<1> QED  BY <1>1, Invariance, PTL

LEMMA WithinOnePercent ==
  ASSUME NEW x \in -99 .. 99, NEW y \in -99 .. 99, FloatsEquivalent(x, y, DefaultTolerance)
  PROVE  x = y
BY DEF FloatsEquivalent, DefaultTolerance, std_abs

(* Under the default tolerances the verification of floating-point results *)
(* is exact on whole numbers below 100                                     *)
(* (Verdict.SmallNumbersAreComparedExactly).                               *)
THEOREM SmallNumbersExactly == Spec => []SmallNumbersAreComparedExactly
<1>1. ASSUME IInv PROVE SmallNumbersAreComparedExactly
  <2>1. SUFFICES ASSUME counter = {1}, tol = DefaultTolerance,
                        \A i \in DOMAIN output : output[i] \in -99 .. 99,
                        \A i \in DOMAIN solution : solution[i] \in -99 .. 99
        PROVE  output = solution
    BY DEF SmallNumbersAreComparedExactly
  <2>2. are_equivalent(type, output, solution, tol)
    BY <1>1, <2>1, CounterReports
  <2>3. DOMAIN output = DOMAIN solution
    BY <1>1, <2>2, Numbers DEF are_equivalent
  <2>4. \A i \in DOMAIN output : output[i] = solution[i]
    BY <2>1, <2>2, <2>3, WithinOnePercent DEF are_equivalent, ElementsEquivalent
  <2>5. \E n \in 0 .. MaxLen : output \in [1 .. n -> Content(type)]
    BY <1>1 DEF IInv, TypeOK
  <2>6. \E n \in 0 .. MaxLen : solution \in [1 .. n -> Content(type)]
    BY <1>1 DEF IInv, TypeOK
  <2>7. PICK n \in 0 .. MaxLen : output \in [1 .. n -> Content(type)]
    BY <2>5
  <2>8. PICK m \in 0 .. MaxLen : solution \in [1 .. m -> Content(type)]
    BY <2>6
  <2>9. output = [i \in DOMAIN output |-> output[i]] /\ solution = [i \in DOMAIN solution |-> solution[i]]
    BY <2>7, <2>8
  <2> QED  BY Zenon, <2>3, <2>4, <2>9
<1> QED  BY <1>1, Invariance, PTL
=============================================================================

-------------------------------- MODULE Data --------------------------------
(***************************************************************************)
(* The wrappers that choose a position or a size of their own, on real     *)
(* elements: the programs of module Benchmarks with the vectors, positions *)
(* and comparisons their contents stand for.  BenchInput is what it        *)
(* implements, as long as the element type holds all the numbers up to     *)
(* size and the algorithm is right; what else may happen is seen here.     *)
(***************************************************************************)
EXTENDS Wrapper, InputGen, Verification, FiniteSets, TLC

CONSTANTS
  Sizes,      \* state.range(0)
  Types,      \* element types
  Algorithms  \* subset of {"right", "wrong"}: what the algorithm F may be

ASSUME DataAssumption ==
  Sizes \subseteq Nat \ {0, 1} /\ \A T \in Types : IsElemType(T)

(* The order of the steps of these wrappers, which the actions rely on.    *)
Planting == {"adjacent_find", "mismatch"}
SetOperations == {"set_difference", "set_intersection"}

Follows(code, ops) == Len(code) = Len(ops) /\ \A i \in 1 .. Len(ops) : code[i].op = ops[i]

HasItsSteps(k, p) ==
  /\ Follows(p.pre, IF k = "mismatch" THEN <<"raw", "raw">> ELSE <<"raw">>)
  /\ Follows(p.post, IF k \in Planting THEN <<"raw">> ELSE <<>>)
  /\ Follows(p.check, IF k \in SetOperations THEN <<"raw", "kernel", "raw">> ELSE <<"raw">>)
  /\ \A i \in 1 .. Len(p.check) : "verdict" \in DOMAIN p.check[i].gives <=> i = Len(p.check)
  /\ \/ /\ k \in Planting
        /\ Follows(p.body, <<"raw", "open", "host", "close", "timed", "open", "host", "close">>)
     \/ k = "find" /\ Follows(p.body, <<"open", "host", "close", "raw", "timed">>)
     \/ k = "count" /\ Follows(p.body, <<"raw", "timed">>)
     \/ k \in {"search", "equal"} /\ Follows(p.body, <<"timed">>)
     \/ k \in SetOperations /\ Follows(p.body, <<"timed", "open", "host", "close">>)

ASSUME StepsAssumption ==
  \A b \in DOMAIN Programs : \A k \in DOMAIN Programs[b] : HasItsSteps(k, Programs[b][k])

(* They are the programs of the files every host backend runs.             *)
Files == INSTANCE Benchmarks
HostWrappers ==
  [adjacent_find |-> Files!adjacent_find_utils, mismatch |-> Files!mismatch_utils,
   find |-> Files!find_utils, count |-> Files!count_utils, search |-> Files!search_utils,
   equal |-> Files!equal_utils, set_difference |-> Files!set_difference_utils,
   set_intersection |-> Files!set_intersection_utils]

ASSUME FilesAssumption ==
  \A b \in DOMAIN Programs : \A k \in DOMAIN Programs[b] :
    k \in DOMAIN HostWrappers /\ Programs[b][k] = HostWrappers[k]

VARIABLES
  size, type,
  F,        \* "right", or "wrong": F may return anything
  vec,      \* the vectors made so far, by name
  index,    \* index, idx or value: the number drawn for this iteration, -1 before
  last,     \* last_index, last_idx or last_value: the number the verification uses
  answer,   \* what F returned last, an offset or a count; of the set operations
            \* the elements it wrote
  right,    \* whether the last timed call returned what it should
  verdict   \* verification_result: "unset", "passed" or "failed"

data == <<size, type, F, vec, index, last, answer, right, verdict>>
vars == <<control, data>>

iota == generate_iota(type, size)
sub == generate_sub(type, size)
NaNs == make_buffer(size, quiet_NaN(type))

-----------------------------------------------------------------------------
(* What the algorithms are specified to return.  end() is the offset -1    *)
(* for those wrappers that map it, else the size.                          *)
First(P, end) == IF P = {} THEN end ELSE CHOOSE k \in P : \A j \in P : k <= j

Occurrences(s, x) == Cardinality({i \in DOMAIN s : s[i] = x})

(* Of equal elements set_difference keeps those of a beyond the number     *)
(* there is of them in b, set_intersection the others.                     *)
Pick(a, P) == [k \in 1 .. Cardinality(P) |->
                 a[CHOOSE i \in P : Cardinality({j \in P : j <= i}) = k]]
Beyond(a, b) == {i \in DOMAIN a : Occurrences(SubSeq(a, 1, i), a[i]) > Occurrences(b, a[i])}

(* The value find looks for is read from the vector; that of count is the  *)
(* number drawn itself.                                                    *)
Wanted(d, i) == IF bench = "count" THEN Stored(type, i) ELSE d.input[i + 1]

Right(d, i) ==
  CASE bench = "adjacent_find" ->
         <<First({k \in 0 .. size - 2 : d.input[k + 1] = d.input[k + 2]}, -1)>>
    [] bench = "mismatch" ->
         <<First({k \in 0 .. size - 1 : d.data1[k + 1] # d.data2[k + 1]}, size)>>
    [] bench = "find" ->
         <<First({k \in 0 .. size - 1 : d.input[k + 1] = Wanted(d, i)}, -1)>>
    [] bench = "count" -> <<Occurrences(d.input, Wanted(d, i))>>
    [] bench = "search" ->
         <<First({k \in 0 .. size - Len(d.data2) :
                    \A j \in DOMAIN d.data2 : d.data1[k + j] = d.data2[j]}, -1)>>
    [] bench = "equal" -> <<IF d.data1 = d.data2 THEN 1 ELSE 0>>
    [] bench = "set_difference" -> Pick(d.data1, Beyond(d.data1, d.data2))
    [] bench = "set_intersection" ->
         Pick(d.data1, DOMAIN d.data1 \ Beyond(d.data1, d.data2))

(* A wrong algorithm returns some valid offset, end or count, or writes    *)
(* nothing.                                                                *)
WrongReturns ==
  CASE bench \in SetOperations -> {<<>>}
    [] bench = "equal" -> {<<0>>, <<1>>}
    [] bench \in {"mismatch", "count"} -> {<<k>> : k \in 0 .. size}
    [] bench = "adjacent_find" -> {<<k>> : k \in -1 .. size - 2}
    [] OTHER -> {<<k>> : k \in -1 .. size - 1}

Returns == {Right(vec, index)} \union (IF F = "right" THEN {} ELSE WrongReturns)

-----------------------------------------------------------------------------
Init ==
  /\ ControlInit
  /\ size \in Sizes /\ type \in Types /\ F \in Algorithms
  /\ vec = <<>> /\ index = -1 /\ last = -1 /\ answer = <<>>
  /\ right = TRUE /\ verdict = "unset"

Inputs ==
  CASE bench \in {"adjacent_find", "find", "count"} -> [input |-> iota]
    [] bench = "mismatch" -> [data1 |-> iota]
    [] bench = "equal" -> [data1 |-> iota, data2 |-> iota]
    [] bench = "search" -> [data1 |-> iota, data2 |-> sub]
    [] bench \in SetOperations -> [data1 |-> iota, data2 |-> sub, output |-> NaNs]

(* generate_increment and make_buffer; the copy mismatch makes, which      *)
(* equal makes in the same step.                                           *)
Generate ==
  /\ phase = "pre" /\ at = 1
  /\ vec' = Inputs
  /\ Advance /\ UNCHANGED <<size, type, F, index, last, answer, right, verdict>>

Copy ==
  /\ phase = "pre" /\ at = 2
  /\ vec' = [data1 |-> vec.data1, data2 |-> vec.data1]
  /\ Advance /\ UNCHANGED <<size, type, F, index, last, answer, right, verdict>>

Quiet ==
  /\ \/ phase \in {"lift", "drop"} /\ Leave
     \/ At({"open", "close"}) /\ Advance
  /\ UNCHANGED data

(* A distribution that takes the last element for the first of a pair.     *)
Drawn_ToTheEnd == 0 .. size - 1

(* The bounds of the uniform_int_distribution.                             *)
Drawn == IF bench = "adjacent_find" THEN 0 .. size - 2 ELSE 0 .. size - 1

(* find draws with its host_view open and notes the value later.           *)
Draw ==
  /\ phase = "body"
  /\ IF bench = "find" THEN At({"host"}) ELSE At({"raw"})
  /\ index' \in Drawn
  /\ last' = IF bench = "find" THEN last ELSE index'
  /\ Advance /\ UNCHANGED <<size, type, F, vec, answer, right, verdict>>

Note ==
  /\ phase = "body" /\ bench = "find" /\ At({"raw"})
  /\ last' = index
  /\ Advance /\ UNCHANGED <<size, type, F, vec, index, answer, right, verdict>>

(* h[index] = h[index + 1], and h2[idx] = h1[idx] + 1.                     *)
Planted(d, i) ==
  IF bench = "adjacent_find" THEN [d EXCEPT !.input[i + 1] = d.input[i + 2]]
  ELSE [d EXCEPT !.data2[i + 1] = Stored(type, d.data1[i + 1] + 1)]

Plants == bench \in Planting

(* Whether the timed call of this iteration is behind the wrapper.         *)
Called == \E j \in 1 .. at - 1 : prog.body[j].op = "timed"

Plant ==
  /\ phase = "body" /\ Plants /\ At({"host"}) /\ ~Called
  /\ vec' = Planted(vec, index)
  /\ Advance /\ UNCHANGED <<size, type, F, index, last, answer, right, verdict>>

(* The algorithm, timed or again for the verification.                     *)
Call ==
  /\ At(Calls)
  /\ answer' \in Returns
  /\ vec' = IF bench \in SetOperations
            THEN [vec EXCEPT !.output = answer' \o SubSeq(@, Len(answer') + 1, size)] ELSE vec
  /\ right' = IF At({"timed"}) THEN answer' = Right(vec, index) ELSE right
  /\ Advance /\ UNCHANGED <<size, type, F, index, last, verdict>>

(* A reset that takes the planted element for the original one.            *)
Reset_KeepsThePlant ==
  /\ phase = "body" /\ At({"host"}) /\ Called
  /\ vec' = IF bench \in SetOperations THEN [vec EXCEPT !.output = NaNs] ELSE vec
  /\ Advance /\ UNCHANGED <<size, type, F, index, last, answer, right, verdict>>

(* h[index] = h[index + 1] - 1, and h2[idx] = h1[idx].                     *)
Unplanted(d, i) ==
  IF bench = "adjacent_find" THEN [d EXCEPT !.input[i + 1] = Stored(type, d.input[i + 2] - 1)]
  ELSE [d EXCEPT !.data2[i + 1] = d.data1[i + 1]]

(* What the loop undoes; the set operations fill their output with NaNs.   *)
Reset ==
  /\ phase = "body" /\ At({"host"}) /\ Called
  /\ vec' = IF Plants THEN Unplanted(vec, index) ELSE [vec EXCEPT !.output = NaNs]
  /\ Advance /\ UNCHANGED <<size, type, F, index, last, answer, right, verdict>>

Replant_Forgotten ==
  /\ phase = "post"
  /\ Advance /\ UNCHANGED data

(* adjacent_find plants again if something was found, mismatch always.     *)
Replant ==
  /\ phase = "post"
  /\ vec' = IF bench = "adjacent_find" /\ answer[1] < 0 THEN vec ELSE Planted(vec, last)
  /\ Advance /\ UNCHANGED <<size, type, F, index, last, answer, right, verdict>>

(* The set operations verify a call of their own, on a cleared output.     *)
Refill ==
  /\ phase = "check" /\ bench \in SetOperations /\ at = 1
  /\ vec' = [vec EXCEPT !.output = NaNs]
  /\ Advance /\ UNCHANGED <<size, type, F, index, last, answer, right, verdict>>

-----------------------------------------------------------------------------
(* result_size and max_size: as much of the output as is compared.         *)
result_size == IF bench = "set_difference" THEN size - size \div 2 ELSE size \div 2

Solution == Right(vec, last)

Equivalent(x, y) == ElementsEquivalent(type, x, y, DefaultTolerance)

(* What the lambdas given to verify return.                                *)
Passes_FoundSomething ==
  IF bench = "find" THEN answer[1] >= 0 ELSE answer = Solution

Passes ==
  \/ /\ bench = "adjacent_find" /\ answer[1] >= 0
     /\ Equivalent(vec.input[answer[1] + 1], vec.input[answer[1] + 2])
  \/ /\ bench = "find" /\ answer[1] >= 0
     /\ Equivalent(vec.input[answer[1] + 1], Wanted(vec, last))
  \/ bench \in {"mismatch", "count"} /\ answer = Solution
  \/ /\ bench = "search"
     /\ IF Solution[1] < 0 \/ answer[1] < 0 THEN Solution[1] < 0 /\ answer[1] < 0
        ELSE Equivalent(vec.data1[Solution[1] + 1], vec.data1[answer[1] + 1])
  \/ bench = "equal" /\ vec.data1 = vec.data2
  \/ /\ bench \in SetOperations
     /\ are_equivalent(type, SubSeq(vec.output, 1, result_size),
          Solution \o SubSeq(NaNs, Len(Solution) + 1, result_size), DefaultTolerance)

(* The solution of a set operation is written to a vector of result_size   *)
(* elements: past its end the behaviour is undefined, and any verdict may  *)
(* come of it.                                                             *)
Overruns == bench \in SetOperations /\ Len(Solution) > result_size

Check ==
  /\ phase = "check" /\ At({"raw"}) /\ "verdict" \in DOMAIN cur.gives
  /\ \/ Overruns /\ verdict' \in {"passed", "failed"}
     \/ ~Overruns /\ verdict' = IF Passes THEN "passed" ELSE "failed"
  /\ Advance /\ UNCHANGED <<size, type, F, vec, index, last, answer, right>>

Returned == phase = "done" /\ UNCHANGED vars

Next ==
  \/ Generate \/ Copy \/ Quiet \/ Draw \/ Note \/ Plant \/ Call \/ Reset \/ Replant
  \/ Refill \/ Check \/ Returned

Spec == Init /\ [][Next]_vars

-----------------------------------------------------------------------------
(* Whether the element type tells all the numbers the wrapper uses apart,  *)
(* and whether the second input is one of positive numbers.                *)
Exact == \A k \in 0 .. size + 1 : Stored(type, k) = k
SubIsWithin == size >= 4

TypeOK ==
  /\ ControlOK
  /\ size \in Sizes /\ type \in Types /\ F \in Algorithms
  /\ DOMAIN vec \subseteq {"input", "data1", "data2", "output"}
  /\ \A v \in DOMAIN vec :
       DOMAIN vec[v] = 1 .. (IF bench \in SetOperations \union {"search"} /\ v = "data2"
                            THEN size \div 2 ELSE size)
  /\ index \in -1 .. size - 1 /\ last \in -1 .. size - 1
  /\ answer \in Seq(Int) /\ right \in BOOLEAN
  /\ verdict \in {"unset", "passed", "failed"}

(* The vectors as the first iteration would leave them to F if it drew     *)
(* this number.                                                            *)
Fresh ==
  LET d == IF bench = "mismatch" THEN [data1 |-> iota, data2 |-> iota] ELSE Inputs
  IN IF Plants THEN Planted(d, index) ELSE d

(* Every timed call works on the same as if it were the first: nothing is  *)
(* left of what earlier iterations planted, reset and wrote.  Only the     *)
(* reset of adjacent_find may round: it subtracts 1.                       *)
EveryIterationAsksTheSame ==
  phase = "body" /\ At({"timed"}) /\ (bench # "adjacent_find" \/ Exact) => vec = Fresh

(* The position drawn is one of an element that can be planted or looked   *)
(* for, and the planted pair or mismatch is what is found, unless rounding *)
(* made an earlier pair or took the mismatch away.                         *)
PlantIsFound ==
  /\ bench = "adjacent_find" => index <= size - 2
  /\ phase = "body" /\ At({"timed"}) /\ Plants =>
       /\ Right(vec, index)[1] <= IF bench = "mismatch" /\ ~Exact THEN size ELSE index
       /\ Exact => Right(vec, index) = <<index>>

(* A right algorithm is verified, in every element type, for searches even *)
(* where large numbers coincide; for set operations where they do not.     *)
RightAlgorithmPasses ==
  /\ phase = "done" /\ verifying /\ F = "right"
  /\ bench \notin SetOperations \/ (SubIsWithin /\ Exact)
  => verdict = "passed"

(* Where numbers are compared exactly, a pass of these wrappers means that *)
(* the last timed call returned what it should.  Of equal the verification *)
(* looks at the inputs, of a set operation at another call.                *)
PassMeansRight ==
  phase = "done" /\ verdict = "passed" /\ ~type.floating =>
    right \/ bench \in SetOperations \union {"equal"}

(* set_difference_utils.h:25: "writes at most `size - size/2' elements".   *)
DifferenceFits ==
  bench = "set_difference" /\ phase # "pre" => Len(Right(vec, index)) <= result_size

-----------------------------------------------------------------------------
(* The contents the elements stand for in module Benchmarks.               *)
Padded(s) == s \o SubSeq(NaNs, Len(s) + 1, size)

ContentOf(v) ==
  IF vec[v] = iota THEN "iota"
  ELSE IF v = "input"
  THEN IF vec = Planted([input |-> iota], last) THEN "pair" ELSE Junk
  ELSE IF v = "data2" /\ bench = "mismatch"
  THEN IF vec = Planted([data1 |-> iota, data2 |-> iota], last) THEN "mismatch" ELSE Junk
  ELSE IF v = "data2"
  THEN IF vec[v] = sub THEN "sub" ELSE Junk
  ELSE IF v = "output" /\ vec[v] = NaNs THEN "nans"
  ELSE IF v = "output" /\ vec[v] = Padded(Right(vec, index))
  THEN IF bench = "set_difference" THEN "difference" ELSE "intersection"
  ELSE Junk

(* A number drawn or kept, and what F returned.                            *)
Number(i, content) == IF i = -1 THEN Unset ELSE content
Got(content) == IF answer = <<>> THEN Unset ELSE IF right THEN content ELSE Junk

Scalars ==
  CASE bench = "adjacent_find" ->
         [index |-> Number(index, "drawn"), last_index |-> Number(last, "drawn"),
          last_offset |-> Got("of_pair")]
    [] bench = "mismatch" ->
         [idx |-> Number(index, "drawn"), last_idx |-> Number(last, "drawn"),
          last_first_offset |-> Got("of_mismatch")]
    [] bench = "find" ->
         [value |-> Number(index, "element"), last_value |-> Number(last, "element"),
          last_offset |-> Got("of_value")]
    [] bench = "count" ->
         [value |-> Number(index, "drawn"), last_value |-> Number(last, "drawn"),
          last_output |-> Got("result")]
    [] bench = "search" -> [last_offset |-> Got("of_sub")]
    [] OTHER -> <<>>

Held(v) ==
  IF v \in DOMAIN vec THEN ContentOf(v)
  ELSE IF v \in DOMAIN Scalars THEN Scalars[v]
  ELSE IF v = "verdict" /\ verdict # "unset" THEN IF verdict = "passed" THEN "passed" ELSE Junk
  ELSE Unset

Mem == [v \in Loc |-> Held(v)]

Reference == INSTANCE BenchInput WITH mem <- Mem

(* Where contents are what module Benchmarks takes them for, the wrappers  *)
(* on real elements behave as their programs of tags, which BenchInput     *)
(* checks for all wrappers.                                                *)
ImplementsReference ==
  /\ Exact /\ SubIsWithin /\ F = "right" => Reference!Init
  /\ [][Exact /\ SubIsWithin /\ F = "right" => [Reference!Next]_(Reference!vars)]_vars
=============================================================================

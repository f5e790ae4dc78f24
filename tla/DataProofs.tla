----------------------------- MODULE DataProofs -----------------------------
(***************************************************************************)
(* What holds of the wrappers on their elements for all sizes, element     *)
(* types, numbers of iterations and numbers drawn: every iteration asks    *)
(* the same of F, what is planted is found, a right algorithm passes, a    *)
(* pass means that the last timed call was right, and where numbers are    *)
(* exact the wrappers implement their programs over references.            *)
(***************************************************************************)
EXTENDS Data, WrapperProofs, FiniteSetTheorems, SequenceTheorems

Draws == bench \in Planting \union {"find", "count"}
OnSets == bench \in SetOperations

(* Whether the wrapper has done step n of the body in this iteration, or   *)
(* is through with all iterations.                                         *)
Past(n) == phase \in {"drop", "post", "check", "done"} \/ (phase = "body" /\ at > n)

DrawStep == IF bench = "find" THEN 2 ELSE 1
NoteStep == IF bench = "find" THEN 4 ELSE 1
CallStep == IF Plants \/ bench = "find" THEN 5 ELSE IF bench = "count" THEN 2 ELSE 1

(* The numbers of a wrapper that draws are in range and belong together.   *)
NumbersDrawn ==
  /\ index \in Drawn \union {-1} /\ last \in Drawn \union {-1}
  /\ ~Draws => index = -1 /\ last = -1
  /\ Draws /\ Past(DrawStep) => index # -1
  /\ Draws /\ Past(NoteStep) => last = index

(* The vectors of a wrapper that is not asking anything.                   *)
Clean == IF bench = "mismatch" THEN [data1 |-> iota, data2 |-> iota] ELSE Inputs

(* What F is asked about: the vectors and the number drawn.                *)
Asked == IF Plants THEN Planted(Clean, index) ELSE Clean

(* Only the reset of adjacent_find rounds.                                 *)
Comparable == bench # "adjacent_find" \/ Exact

(* The plant of the current iteration, or the one for the verification, is *)
(* in its place.                                                           *)
InPlace ==
  \/ phase = "body" /\ at \in 4 .. 7
  \/ phase \in {"check", "done"} /\ (bench = "mismatch" \/ answer[1] >= 0)

Emptied == phase \in {"lift", "drop"} \/ (phase = "body" /\ at \notin {2, 3})
           \/ (phase = "check" /\ at \in {1, 2})

InputsMade ==
  phase = "pre" => \/ at = 1 /\ vec = <<>>
                   \/ at = 2 /\ bench = "mismatch" /\ vec = [data1 |-> iota]

VectorsAsAsked ==
  phase # "pre" /\ ~OnSets /\ Comparable =>
    vec = IF InPlace THEN Asked ELSE Clean

(* Whatever rounding did to the other elements.                            *)
PairStands ==
  phase # "pre" /\ bench = "adjacent_find" =>
    /\ DOMAIN vec = {"input"} /\ DOMAIN vec.input = 1 .. size
    /\ InPlace => vec.input[index + 1] = vec.input[index + 2]

SetsStand ==
  phase # "pre" /\ OnSets =>
    /\ vec = [data1 |-> iota, data2 |-> sub, output |-> vec.output]
    /\ Emptied => vec.output = NaNs

VectorsMade == InputsMade /\ VectorsAsAsked /\ PairStands /\ SetsStand

(* Once the plant of this iteration is back, answer[1] is a pair.          *)
IsPair ==
  /\ answer[1] \in 0 .. size - 2
  /\ Planted(vec, index).input[answer[1] + 1] = Planted(vec, index).input[answer[1] + 2]

Answered ==
  /\ F = "right" => right
  /\ ~OnSets /\ Past(CallStep) =>
       /\ answer \in WrongReturns
       /\ Comparable => (right <=> answer = Right(Asked, index))
       /\ bench = "adjacent_find" /\ F = "right" => IsPair

-----------------------------------------------------------------------------
(* The positions of a wrapper's steps.                                     *)

LEMMA ItsSteps == ASSUME ControlOK PROVE HasItsSteps(bench, prog)
BY StepsAssumption DEF ControlOK, prog

LEMMA Lengths ==
  ASSUME ControlOK
  PROVE  /\ Len(prog.pre) = IF bench = "mismatch" THEN 2 ELSE 1
         /\ Len(prog.post) = IF Plants THEN 1 ELSE 0
         /\ Len(prog.check) = IF OnSets THEN 3 ELSE 1
         /\ Plants => Len(prog.body) = 8
         /\ bench = "find" => Len(prog.body) = 5
         /\ bench = "count" => Len(prog.body) = 2
         /\ bench \in {"search", "equal"} => Len(prog.body) = 1
         /\ OnSets => Len(prog.body) = 4
BY ItsSteps DEF HasItsSteps, Follows, Plants, OnSets, Planting, SetOperations

LEMMA Benches ==
  ASSUME ControlOK
  PROVE  bench \in Planting \union SetOperations \union {"find", "count", "search", "equal"}
BY ItsSteps DEF HasItsSteps

LEMMA BodySteps ==
  ASSUME ControlOK, phase = "body"
  PROVE  /\ at \in 1 .. Len(prog.body) /\ cur = prog.body[at]
         /\ Plants => /\ at \in 1 .. 8
                      /\ cur.op = <<"raw", "open", "host", "close",
                                    "timed", "open", "host", "close">>[at]
         /\ bench = "find" => /\ at \in 1 .. 5
                              /\ cur.op = <<"open", "host", "close", "raw", "timed">>[at]
         /\ bench = "count" => at \in 1 .. 2 /\ cur.op = <<"raw", "timed">>[at]
         /\ bench \in {"search", "equal"} => at = 1 /\ cur.op = "timed"
         /\ OnSets => at \in 1 .. 4 /\ cur.op = <<"timed", "open", "host", "close">>[at]
<1>1. at \in 1 .. Len(prog.body) /\ cur = prog.body[at]
  BY DEF ControlOK, CodePhases, cur
<1>2. HasItsSteps(bench, prog)
  BY ItsSteps
<1>3. CASE bench \in Planting
  BY <1>1, <1>2, <1>3 DEF HasItsSteps, Follows, Plants, OnSets, Planting, SetOperations
<1>4. CASE bench = "find"
  BY <1>1, <1>2, <1>4 DEF HasItsSteps, Follows, Plants, OnSets, Planting, SetOperations
<1>5. CASE bench = "count"
  BY <1>1, <1>2, <1>5 DEF HasItsSteps, Follows, Plants, OnSets, Planting, SetOperations
<1>6. CASE bench \in {"search", "equal"}
  BY <1>1, <1>2, <1>6 DEF HasItsSteps, Follows, Plants, OnSets, Planting, SetOperations
<1>7. CASE OnSets
  BY <1>1, <1>2, <1>7 DEF HasItsSteps, Follows, Plants, OnSets, Planting, SetOperations
<1> QED  BY <1>3, <1>4, <1>5, <1>6, <1>7, Benches DEF OnSets

LEMMA OtherSteps ==
  ASSUME ControlOK
  PROVE  /\ phase = "pre" => cur.op = "raw" /\ at \in 1 .. 2 /\ (at = 2 => bench = "mismatch")
         /\ phase = "post" => cur.op = "raw" /\ at = 1 /\ Plants
         /\ phase = "check" => /\ at \in 1 .. Len(prog.check)
                               /\ OnSets /\ at = 2 => cur.op = "kernel"
                               /\ ~(OnSets /\ at = 2) => cur.op = "raw"
                               /\ "verdict" \in DOMAIN cur.gives <=> at = Len(prog.check)
<1>1. phase \in CodePhases => at \in 1 .. Len(prog[phase]) /\ cur = prog[phase][at]
  BY DEF ControlOK, cur
<1>2. HasItsSteps(bench, prog)
  BY ItsSteps
<1>3. CASE phase = "pre"
  BY <1>1, <1>2, <1>3, Lengths DEF HasItsSteps, Follows, CodePhases
<1>4. CASE phase = "post"
  BY <1>1, <1>2, <1>4, Lengths DEF HasItsSteps, Follows, CodePhases, Plants
<1>5. CASE phase = "check"
  BY <1>1, <1>2, <1>5, Lengths DEF HasItsSteps, Follows, CodePhases, OnSets
<1> QED  BY <1>3, <1>4, <1>5

(* Where a step of code leads.                                             *)
LEMMA Moves ==
  ASSUME ControlOK, Advance, phase \in CodePhases
  PROVE  \/ at < Len(prog[phase]) /\ phase' = phase /\ at' = at + 1
         \/ at = Len(prog[phase]) /\ phase' = PhaseAfter(phase) /\ at' = 1
<1>1. Len(prog[phase]) \in Nat /\ at \in 1 .. Len(prog[phase])
  BY ProgIsProgram DEF ControlOK, IsProgram, IsCode
<1> QED  BY <1>1 DEF Advance, Leave

LEMMA CalledAt ==
  ASSUME ControlOK, phase = "body"
  PROVE  /\ Plants => (Called <=> at > 5)
         /\ OnSets => (Called <=> at > 1)
<1>1. HasItsSteps(bench, prog) /\ at \in 1 .. Len(prog.body)
  BY ItsSteps, BodySteps
<1>2. CASE Plants
  <2>1. \A j \in 1 .. 8 : prog.body[j].op = "timed" <=> j = 5
    <3>1. Follows(prog.body, <<"raw", "open", "host", "close", "timed", "open", "host", "close">>)
      BY <1>1, <1>2 DEF HasItsSteps, Plants, Planting, SetOperations
    <3> QED  BY <3>1 DEF Follows
  <2>2. at \in 1 .. 8
    BY <1>1, <1>2, Lengths
  <2> QED  BY <1>2, <2>1, <2>2 DEF Called, Plants, OnSets, Planting, SetOperations
<1>3. CASE OnSets
  <2>1. \A j \in 1 .. 4 : prog.body[j].op = "timed" <=> j = 1
    <3>1. Follows(prog.body, <<"timed", "open", "host", "close">>)
      BY <1>1, <1>3 DEF HasItsSteps, OnSets, Planting, SetOperations
    <3> QED  BY <3>1 DEF Follows
  <2>2. at \in 1 .. 4
    BY <1>1, <1>3, Lengths
  <2> QED  BY <1>3, <2>1, <2>2 DEF Called, Plants, OnSets, Planting, SetOperations
<1> QED  BY <1>2, <1>3

(* Which step each action is.                                              *)
LEMMA Places ==
  ASSUME ControlOK
  PROVE  /\ Copy => bench = "mismatch"
         /\ At({"open", "close"}) =>
              /\ phase = "body"
              /\ \/ Plants /\ at \in {2, 4, 6, 8}
                 \/ bench = "find" /\ at \in {1, 3}
                 \/ OnSets /\ at \in {2, 4}
         /\ Draw => Draws /\ phase = "body" /\ at = DrawStep
         /\ Note => phase = "body" /\ at = NoteStep
         /\ Plant => phase = "body" /\ at = 3 /\ Plants
         /\ Reset => phase = "body" /\ ((Plants /\ at = 7) \/ (OnSets /\ at = 3))
         /\ Replant => at = 1 /\ Plants
         /\ At({"timed"}) => phase = "body" /\ at = CallStep
         /\ At({"kernel"}) => phase = "check" /\ at = 2 /\ OnSets
         /\ Check => phase = "check" /\ at = Len(prog.check)
<1>1. phase \in CodePhases <=> phase \in {"pre", "body", "post", "check"}
  BY DEF CodePhases
<1>2. ASSUME phase = "body"
      PROVE  /\ At({"open", "close"}) =>
                  \/ Plants /\ at \in {2, 4, 6, 8}
                  \/ bench = "find" /\ at \in {1, 3}
                  \/ OnSets /\ at \in {2, 4}
             /\ Draw => Draws /\ at = DrawStep
             /\ Note => at = NoteStep
             /\ Plant => at = 3 /\ Plants
             /\ Reset => (Plants /\ at = 7) \/ (OnSets /\ at = 3)
             /\ At({"timed"}) => at = CallStep
             /\ ~At({"kernel"})
  <2> USE DEF Draw, Note, Plant, Reset, At, Draws, DrawStep, NoteStep, CallStep
  <2>1. CASE Plants
    <3>1. /\ at \in 1 .. 8 /\ (Called <=> at > 5)
          /\ cur.op = "raw" <=> at = 1
          /\ cur.op = "host" <=> at \in {3, 7}
          /\ cur.op = "timed" <=> at = 5
          /\ cur.op \in {"open", "close"} <=> at \in {2, 4, 6, 8}
          /\ cur.op # "kernel"
      BY <1>2, <2>1, BodySteps, CalledAt
    <3>2. bench \in Planting /\ bench # "find"
      BY <2>1 DEF Plants, Planting
    <3> QED  BY <2>1, <3>1, <3>2
  <2>2. CASE bench = "find"
    <3>1. /\ at \in 1 .. 5
          /\ cur.op = "raw" <=> at = 4
          /\ cur.op = "host" <=> at = 2
          /\ cur.op = "timed" <=> at = 5
          /\ cur.op \in {"open", "close"} <=> at \in {1, 3}
          /\ cur.op # "kernel"
      BY <1>2, <2>2, BodySteps
    <3>2. ~Plants /\ ~OnSets
      BY <2>2 DEF Plants, Planting, OnSets, SetOperations
    <3>3. ~Called
      <4>1. HasItsSteps(bench, prog)
        BY ItsSteps
      <4>2. \A j \in 1 .. 4 : prog.body[j].op # "timed"
        BY <2>2, <4>1 DEF HasItsSteps, Follows, Planting, SetOperations
      <4> QED  BY <3>1, <4>2 DEF Called
    <3> QED  BY <2>2, <3>1, <3>2, <3>3
  <2>3. CASE bench = "count"
    <3>1. /\ at \in 1 .. 2
          /\ cur.op = "raw" <=> at = 1
          /\ cur.op = "timed" <=> at = 2
          /\ cur.op \notin {"open", "host", "close", "kernel"}
      BY <1>2, <2>3, BodySteps
    <3>2. ~Plants /\ ~OnSets
      BY <2>3 DEF Plants, Planting, OnSets, SetOperations
    <3> QED  BY <2>3, <3>1, <3>2
  <2>4. CASE bench \in {"search", "equal"}
    <3>1. at = 1 /\ cur.op = "timed"
      BY <1>2, <2>4, BodySteps
    <3>2. ~Plants /\ ~OnSets
      BY <2>4 DEF Plants, Planting, OnSets, SetOperations
    <3> QED  BY <2>4, <3>1, <3>2
  <2>5. CASE OnSets
    <3>1. /\ at \in 1 .. 4 /\ (Called <=> at > 1)
          /\ cur.op = "host" <=> at = 3
          /\ cur.op = "timed" <=> at = 1
          /\ cur.op \in {"open", "close"} <=> at \in {2, 4}
          /\ cur.op \notin {"raw", "kernel"}
      BY <1>2, <2>5, BodySteps, CalledAt
    <3>2. ~Plants /\ bench \notin {"find", "count"}
      BY <2>5 DEF Plants, Planting, OnSets, SetOperations
    <3> QED  BY <2>5, <3>1, <3>2
  <2> QED  BY <2>1, <2>2, <2>3, <2>4, <2>5, Benches DEF Plants, OnSets
<1>3. CASE phase = "body"
  BY <1>2, <1>3 DEF Copy, Replant, Check
<1>4. CASE phase \in {"pre", "post", "check"}
  BY <1>4, OtherSteps DEF Copy, Draw, Note, Plant, Reset, Replant, Check, At, CodePhases
<1>5. CASE phase \notin CodePhases
  BY <1>1, <1>5 DEF Copy, Draw, Note, Plant, Reset, Replant, Check, At
<1> QED  BY <1>1, <1>3, <1>4, <1>5

-----------------------------------------------------------------------------
(* What never changes, and types.                                          *)

DataTypes ==
  /\ ControlOK
  /\ size \in Sizes /\ type \in Types /\ F \in Algorithms
  /\ right \in BOOLEAN
  /\ verdict \in {"unset", "passed", "failed"}

(* The steps of the wrapper: they stay where they are, are a step of code, *)
(* or construct and destroy the bench_inputs.                              *)
LEMMA StepOrLeave ==
  ASSUME [Next]_vars
  PROVE  \/ phase \in CodePhases /\ Advance
         \/ phase \in {"lift", "drop"} /\ Leave /\ UNCHANGED data
         \/ UNCHANGED vars
BY DEF Next, Generate, Copy, Quiet, Draw, Note, Plant, Call, Reset, Replant, Refill, Check,
       Returned, At, CodePhases

LEMMA Fixed ==
  ASSUME [Next]_vars
  PROVE  /\ UNCHANGED <<backend, bench, iters, verifying, prog>>
         /\ UNCHANGED <<size, type, F>>
<1>1. UNCHANGED <<size, type, F>>
  BY DEF Next, Generate, Copy, Quiet, Draw, Note, Plant, Call, Reset, Replant, Refill, Check,
         Returned, vars, data
<1>2. UNCHANGED <<backend, bench, iters, verifying>>
  BY StepOrLeave DEF Advance, Leave, vars, control
<1> QED  BY <1>1, <1>2 DEF prog

LEMMA FixedToo ==
  ASSUME [Next]_vars
  PROVE  /\ UNCHANGED <<iota, sub, NaNs, Clean, Drawn, DrawStep, NoteStep, CallStep>>
         /\ Draws' <=> Draws
         /\ OnSets' <=> OnSets
         /\ Plants' <=> Plants
         /\ Exact' <=> Exact
         /\ Comparable' <=> Comparable
<1>1. UNCHANGED <<bench, size, type>>
  BY Fixed
<1>2. UNCHANGED <<iota, sub, NaNs>>
  BY <1>1 DEF iota, sub, NaNs
<1>3. /\ Draws' <=> Draws
      /\ OnSets' <=> OnSets
      /\ Plants' <=> Plants
      /\ Exact' <=> Exact
  BY <1>1 DEF Draws, OnSets, Plants, Exact
<1>4. UNCHANGED <<Clean, Drawn>>
  BY <1>1, <1>2 DEF Clean, Inputs, Drawn
<1>5. Comparable' <=> Comparable
  BY <1>1, <1>3 DEF Comparable
<1>6. UNCHANGED <<DrawStep, NoteStep, CallStep>>
  BY <1>1, <1>3 DEF DrawStep, NoteStep, CallStep
<1> QED  BY <1>2, <1>3, <1>4, <1>5, <1>6

LEMMA InitTypes == Init => DataTypes
BY StartIsControlled DEF Init, DataTypes

LEMMA TypesKept == DataTypes /\ [Next]_vars => DataTypes'
<1> SUFFICES ASSUME DataTypes, [Next]_vars PROVE DataTypes'
  OBVIOUS
<1>1. ControlOK'
  <2>1. CASE phase \in CodePhases /\ Advance
    BY <2>1, AdvanceKeepsControl DEF DataTypes
  <2>2. CASE phase \in {"lift", "drop"} /\ Leave
    BY <2>2, LeaveKeepsControl DEF DataTypes, CodePhases
  <2>3. CASE UNCHANGED vars
    BY <2>3 DEF vars, control, ControlOK, prog, DataTypes
  <2> QED  BY <2>1, <2>2, <2>3, StepOrLeave
<1>2. right' \in BOOLEAN
  <2>1. CASE Call
    BY <2>1 DEF Call, DataTypes
  <2>2. CASE UNCHANGED right
    BY <2>2 DEF DataTypes
  <2> QED
    BY <2>1, <2>2 DEF Next, Generate, Copy, Quiet, Draw, Note, Plant, Reset, Replant, Refill,
                      Check, Returned, vars, data
<1>3. verdict' \in {"unset", "passed", "failed"}
  <2>1. CASE Check
    BY <2>1 DEF Check
  <2>2. CASE UNCHANGED verdict
    BY <2>2 DEF DataTypes
  <2> QED
    BY <2>1, <2>2 DEF Next, Generate, Copy, Quiet, Draw, Note, Plant, Call, Reset, Replant,
                      Refill, Returned, vars, data
<1> QED  BY <1>1, <1>2, <1>3, Fixed DEF DataTypes

-----------------------------------------------------------------------------
(* The numbers drawn.                                                      *)

LEMMA Sizes2 ==
  ASSUME DataTypes
  PROVE  size \in Nat /\ size >= 2 /\ type.floating \in BOOLEAN
BY DataAssumption DEF DataTypes, IsElemType

LEMMA PastAfter ==
  ASSUME ControlOK, [Next]_vars, NEW n \in 1 .. Len(prog.body), Past(n)'
  PROVE  Past(n) \/ (phase = "body" /\ at = n /\ ~UNCHANGED vars)
<1>1. CASE UNCHANGED vars
  BY <1>1 DEF vars, control, Past
<1>2. CASE phase \in {"lift", "drop"} /\ Leave
  <2>1. at' = 1 /\ (phase = "lift" => phase' = "body")
    BY <1>2 DEF Leave, PhaseAfter
  <2>2. phase = "drop"
    BY <1>2, <2>1 DEF Past
  <2> QED  BY <2>2 DEF Past
<1>3. CASE phase \in CodePhases /\ Advance /\ ~UNCHANGED vars
  <2>1. \/ at < Len(prog[phase]) /\ phase' = phase /\ at' = at + 1
        \/ at = Len(prog[phase]) /\ phase' = PhaseAfter(phase) /\ at' = 1
    BY <1>3, Moves
  <2>2. at \in Nat /\ n \in Nat
    BY DEF ControlOK
  <2>3. CASE phase = "body"
    <3>1. at \in 1 .. Len(prog.body) /\ Len(prog.body) \in Nat
      BY <2>3, BodySteps, ProgIsProgram DEF IsProgram, IsCode, CodePhases
    <3>2. CASE at < Len(prog.body)
      BY <1>3, <2>1, <2>2, <2>3, <3>1, <3>2 DEF Past
    <3>3. CASE at = Len(prog.body)
      BY <1>3, <2>2, <2>3, <3>1, <3>3 DEF Past
    <3> QED  BY <3>1, <3>2, <3>3
  <2>4. CASE phase = "pre"
    BY <2>1, <2>4 DEF Past, PhaseAfter
  <2>5. CASE phase \in {"post", "check"}
    BY <2>5 DEF Past
  <2> QED  BY <1>3, <2>3, <2>4, <2>5 DEF CodePhases
<1> QED  BY <1>1, <1>2, <1>3, StepOrLeave

(* The numbers of the steps that matter.                                   *)
LEMMA StepNumbers ==
  ASSUME ControlOK
  PROVE  /\ CallStep \in 1 .. Len(prog.body)
         /\ Draws => DrawStep \in 1 .. Len(prog.body) /\ NoteStep \in 1 .. Len(prog.body)
<1>1. CASE Plants
  <2>1. CallStep = 5 /\ DrawStep = 1 /\ NoteStep = 1
    BY <1>1 DEF Plants, Planting, CallStep, DrawStep, NoteStep
  <2>2. Len(prog.body) = 8
    BY <1>1, Lengths
  <2> QED  BY <2>1, <2>2
<1>2. CASE bench = "find"
  <2>1. CallStep = 5 /\ DrawStep = 2 /\ NoteStep = 4
    BY <1>2 DEF Plants, Planting, CallStep, DrawStep, NoteStep
  <2>2. Len(prog.body) = 5
    BY <1>2, Lengths
  <2> QED  BY <2>1, <2>2
<1>3. CASE bench = "count"
  <2>1. CallStep = 2 /\ DrawStep = 1 /\ NoteStep = 1
    BY <1>3 DEF Plants, Planting, CallStep, DrawStep, NoteStep
  <2>2. Len(prog.body) = 2
    BY <1>3, Lengths
  <2> QED  BY <2>1, <2>2
<1>4. CASE bench \in {"search", "equal"} \/ OnSets
  <2>1. ~Plants /\ ~Draws /\ bench # "find" /\ bench # "count"
    BY <1>4 DEF Plants, Planting, Draws, OnSets, SetOperations
  <2>2. CallStep = 1
    BY <2>1 DEF CallStep
  <2>3. Len(prog.body) \in {1, 4}
    BY <1>4, Lengths
  <2>4. CallStep \in 1 .. Len(prog.body)
    BY <2>2, <2>3
  <2> QED  BY <2>1, <2>4, Zenon
<1> QED  BY <1>1, <1>2, <1>3, <1>4, Benches DEF Plants, OnSets

LEMMA StepsDiffer ==
  ASSUME ControlOK, phase = "body"
  PROVE  /\ Draws /\ at = DrawStep /\ Next => Draw
         /\ bench = "find" /\ at = NoteStep /\ Next => Note
         /\ at = CallStep /\ Next => Call
<1>1. Next => \/ At({"open", "close"}) \/ At({"timed"})
              \/ Draw \/ Note \/ Plant \/ Reset
  BY Places DEF Next, Generate, Copy, Quiet, Call, Replant, Refill, Check, Returned, At, Calls
<1>2. Call \/ ~At({"timed"}) \/ ~Next
  <2>1. At({"timed"}) => cur.op = "timed"
    BY DEF At
  <2> QED
    BY <2>1 DEF Next, Generate, Copy, Quiet, Draw, Note, Plant, Reset, Replant, Refill, Check,
                Returned, At
<1>3. CASE Plants
  <2>1. DrawStep = 1 /\ NoteStep = 1 /\ CallStep = 5 /\ bench # "find" /\ ~OnSets
    BY <1>3 DEF Plants, Planting, OnSets, SetOperations, DrawStep, NoteStep, CallStep
  <2>2. ~Note
    BY <2>1 DEF Note
  <2> QED  BY <1>1, <1>2, <2>1, <2>2, Places
<1>4. CASE bench = "find"
  <2>1. DrawStep = 2 /\ NoteStep = 4 /\ CallStep = 5 /\ ~Plants /\ ~OnSets
    BY <1>4 DEF Plants, Planting, OnSets, SetOperations, DrawStep, NoteStep, CallStep
  <2> QED  BY <1>1, <1>2, <1>4, <2>1, Places
<1>5. CASE ~Plants /\ bench # "find"
  <2>1. Draws => DrawStep = 1 /\ CallStep = 2 /\ ~OnSets
    BY <1>5 DEF Plants, Planting, OnSets, SetOperations, DrawStep, CallStep, Draws
  <2>2. ~Draws => CallStep = 1
    BY <1>5 DEF Plants, CallStep, Draws
  <2>3. ~Note
    BY <1>5 DEF Note
  <2> QED  BY <1>1, <1>2, <1>5, <2>1, <2>2, <2>3, Places
<1> QED  BY <1>3, <1>4, <1>5

LEMMA InitNumbers == Init => NumbersDrawn
BY DEF Init, ControlInit, NumbersDrawn, Past

LEMMA NumbersKept == DataTypes /\ NumbersDrawn /\ [Next]_vars => NumbersDrawn'
<1> SUFFICES ASSUME DataTypes, NumbersDrawn, [Next]_vars PROVE NumbersDrawn'
  OBVIOUS
<1> USE DEF DataTypes
<1>1. /\ UNCHANGED <<bench, Drawn, DrawStep, NoteStep>> /\ (Draws' <=> Draws)
  BY Fixed, FixedToo
<1>2. -1 \notin Drawn
  BY Sizes2 DEF Drawn
<1>3. Past(DrawStep)' /\ Draws =>
        Past(DrawStep) \/ (phase = "body" /\ at = DrawStep /\ ~UNCHANGED vars)
  BY <1>1, PastAfter, StepNumbers DEF Past
<1>4. Past(NoteStep)' /\ Draws =>
        Past(NoteStep) \/ (phase = "body" /\ at = NoteStep /\ ~UNCHANGED vars)
  BY <1>1, PastAfter, StepNumbers DEF Past
<1>5. CASE Draw
  <2>1. Draws /\ phase = "body" /\ at = DrawStep /\ index' \in Drawn
        /\ last' = IF bench = "find" THEN last ELSE index'
    BY <1>5, Places DEF Draw
  <2>2. bench = "find" => ~Past(NoteStep)'
    BY <1>1, <1>4, <2>1 DEF Past, DrawStep, NoteStep
  <2> QED  BY <1>1, <1>2, <2>1, <2>2 DEF NumbersDrawn
<1>6. CASE Note
  <2>1. last' = index /\ index' = index /\ phase = "body" /\ at = NoteStep /\ bench = "find"
    BY <1>6, Places DEF Note
  <2>2. Draws /\ Past(DrawStep)
    BY <2>1 DEF Draws, Past, DrawStep, NoteStep
  <2> QED  BY <1>1, <2>1, <2>2 DEF NumbersDrawn
<1>7. CASE ~Draw /\ ~Note
  <2>1. index' = index /\ last' = last
    BY <1>7 DEF Next, Generate, Copy, Quiet, Plant, Call, Reset, Replant, Refill, Check,
                Returned, vars, data
  <2>2. Past(DrawStep)' /\ Draws => Past(DrawStep)
    BY <1>3, <1>7, StepsDiffer
  <2>3. Past(NoteStep)' /\ Draws => Past(NoteStep)
    <3>1. bench # "find" => NoteStep = DrawStep
      BY DEF NoteStep, DrawStep
    <3> QED  BY <1>4, <1>7, <3>1, StepsDiffer
  <2> QED  BY <1>1, <2>1, <2>2, <2>3 DEF NumbersDrawn
<1> QED  BY <1>5, <1>6, <1>7

-----------------------------------------------------------------------------
(* The elements.                                                           *)

LEMMA IntegersAreExact == ~type.floating => Exact
BY DEF Exact, Stored

LEMMA IotaCounts ==
  ASSUME DataTypes
  PROVE  /\ DOMAIN iota = 1 .. size
         /\ Exact => \A k \in 1 .. size : iota[k] = k
<1>1. size \in Nat /\ size >= 2
  BY Sizes2
<1>2. ASSUME Exact, NEW k \in 1 .. size PROVE body(type, 1, 1, k - 1) = k
  <2>1. k - 1 \in 0 .. size + 1 /\ k \in 0 .. size + 1
    BY <1>1
  <2>2. Stored(type, k - 1) = k - 1 /\ Stored(type, k) = k
    BY <1>2, <2>1 DEF Exact
  <2>3. (k - 1) * 1 = k - 1 /\ 1 + (k - 1) = k
    BY <1>1
  <2> QED  BY <2>2, <2>3 DEF body
<1> QED  BY <1>2 DEF iota, generate_iota, generate_increment

LEMMA SubCounts ==
  ASSUME DataTypes
  PROVE  /\ DOMAIN sub = 1 .. size \div 2
         /\ Exact => \A k \in 1 .. size \div 2 : sub[k] = size \div 4 + k - 1
<1>1. size \in Nat /\ size >= 2
  BY Sizes2
<1>2. size \div 2 \in Nat /\ size \div 4 \in Nat /\ size \div 4 + size \div 2 <= size
  BY <1>1
<1>3. ASSUME Exact, NEW k \in 1 .. size \div 2
      PROVE  body(type, Stored(type, size \div 4), 1, k - 1) = size \div 4 + k - 1
  <2>1. /\ k - 1 \in 0 .. size + 1 /\ size \div 4 \in 0 .. size + 1
        /\ size \div 4 + k - 1 \in 0 .. size + 1
    BY <1>1, <1>2
  <2>2. /\ Stored(type, k - 1) = k - 1 /\ Stored(type, size \div 4) = size \div 4
        /\ Stored(type, size \div 4 + k - 1) = size \div 4 + k - 1
    BY <1>3, <2>1 DEF Exact
  <2>3. (k - 1) * 1 = k - 1 /\ size \div 4 + (k - 1) = size \div 4 + k - 1
    BY <1>2
  <2> QED  BY <2>2, <2>3 DEF body
<1> QED  BY <1>3 DEF sub, generate_sub, generate_increment

(* What planting changes.                                                  *)
LEMMA PlantingAPair ==
  ASSUME DataTypes, bench = "adjacent_find", NEW d, DOMAIN d = {"input"},
         DOMAIN d.input = 1 .. size, NEW i \in 0 .. size - 2
  PROVE  /\ DOMAIN Planted(d, i) = {"input"} /\ DOMAIN Planted(d, i).input = 1 .. size
         /\ Planted(d, i).input[i + 1] = d.input[i + 2]
         /\ \A k \in 1 .. size : k # i + 1 => Planted(d, i).input[k] = d.input[k]
<1>1. size \in Nat /\ i + 1 \in 1 .. size
  BY Sizes2
<1>2. Planted(d, i) = [d EXCEPT !.input = [d.input EXCEPT ![i + 1] = d.input[i + 2]]]
  BY DEF Planted
<1>3. DOMAIN Planted(d, i) = {"input"}
      /\ Planted(d, i).input = [d.input EXCEPT ![i + 1] = d.input[i + 2]]
  BY <1>2
<1> QED  BY <1>1, <1>3

-----------------------------------------------------------------------------
(* Powers of two, and what is first.                                       *)
(* What the provers are to know of powers, of which no theorem of theirs   *)
(* says anything: the arithmetic of module Integers makes it true.         *)
Exponentiation == 2 ^ 0 = 1 /\ \A n \in Nat : 2 ^ (n + 1) = 2 * 2 ^ n

(* First finds the least of a set of numbers.                              *)
LEMMA FirstIs ==
  ASSUME NEW P, P \subseteq Nat, NEW e
  PROVE  /\ P = {} => First(P, e) = e
         /\ P # {} => First(P, e) \in P /\ \A j \in P : First(P, e) <= j
<1>1. CASE P = {}
  BY <1>1 DEF First
<1>2. CASE P # {}
  <2>1. \E k \in P : \A j \in P : k <= j
    BY <1>2, Least
  <2>2. First(P, e) = CHOOSE k \in P : \A j \in P : k <= j
    BY <1>2 DEF First
  <2> QED  BY <1>2, <2>1, <2>2
<1> QED  BY <1>1, <1>2

(* By the least counterexample.                                            *)
LEMMA PowersAreLarge ==
  ASSUME Exponentiation, NEW n \in Nat
  PROVE  2 ^ n \in Nat /\ 2 ^ n > n
<1> DEFINE S == {k \in Nat : ~(2 ^ k \in Nat /\ 2 ^ k > k)}
<1>1. CASE S = {}
  BY <1>1
<1>2. CASE S # {}
  <2>1. PICK k \in S : \A j \in S : k <= j
    <3>1. S \subseteq Nat
      OBVIOUS
    <3> HIDE DEF S
    <3> QED  BY <1>2, <3>1, Least
  <2>2. k \in Nat
    OBVIOUS
  <2>3. ~(2 ^ k \in Nat /\ 2 ^ k > k)
    OBVIOUS
  <2>4. k # 0
    <3>1. CASE k = 0
      <4>1. 2 ^ k = 1
        BY <3>1, Zenon DEF Exponentiation
      <4> QED  BY <2>3, <3>1, <4>1
    <3> QED  BY <3>1
  <2>5. k - 1 \in Nat /\ k - 1 \notin S /\ (k - 1) + 1 = k
    BY <2>1, <2>2, <2>4
  <2>6. 2 ^ (k - 1) \in Nat /\ 2 ^ (k - 1) > k - 1
    BY <2>5
  <2>7. 2 ^ k = 2 * 2 ^ (k - 1)
    <3>1. 2 ^ ((k - 1) + 1) = 2 * 2 ^ (k - 1)
      BY <2>5, Zenon DEF Exponentiation
    <3> QED  BY <2>5, <3>1, Zenon
  <2>8. ASSUME NEW a, NEW b, a \in Nat, a > k - 1, b = 2 * a PROVE b \in Nat /\ b > k
    BY ONLY <2>2, <2>4, <2>8
  <2>9. 2 ^ k \in Nat /\ 2 ^ k > k
    BY <2>6, <2>7, <2>8
  <2> QED  BY <2>3, <2>9
<1> QED  BY <1>1, <1>2

(* An element type stores numbers.                                         *)
LEMMA StoredIsANumber ==
  ASSUME Exponentiation, NEW T, IsElemType(T), NEW x \in Int
  PROVE  Stored(T, x) \in Int
<1>1. std_abs(x) \in Nat
  BY DEF std_abs
<1>2. CASE ~T.floating \/ std_abs(x) < 2 ^ T.digits
  BY <1>2 DEF Stored
<1>3. CASE ~(~T.floating \/ std_abs(x) < 2 ^ T.digits)
  <2> DEFINE m == std_abs(x)
             Fits(k) == m < 2 ^ (T.digits + k)
             u == Spacing(T, m)
             q == m \div u
             r == m % u
             up == 2 * r > u \/ (2 * r = u /\ q % 2 = 1)
             n == IF up THEN (q + 1) * u ELSE q * u
  <2>1. T.digits \in Nat /\ T.digits > 0 /\ m \in Nat
    BY <1>1 DEF IsElemType
  <2>2. \A k \in Nat : T.digits + k \in Nat /\ 2 ^ (T.digits + k) \in Nat /\ 2 ^ k \in Nat
                       /\ 2 ^ k > 0 /\ 2 ^ (T.digits + k) > T.digits + k
    BY <2>1, PowersAreLarge
  <2>3. PICK k \in {j \in 0 .. m : Fits(j)} : \A j \in {j \in 0 .. m : Fits(j)} : k <= j
    <3> DEFINE S == {j \in 0 .. m : Fits(j)}
    <3>1. m \in S
      BY <2>1, <2>2
    <3>2. S \subseteq Nat
      BY <2>1
    <3> HIDE DEF S
    <3>3. \E k \in S : \A j \in S : k <= j
      BY <3>1, <3>2, Least
    <3> QED  BY <3>3 DEF S
  <2>4. k = 0 \/ 2 ^ (T.digits + k - 1) <= m
    <3>1. CASE k # 0
      <4>1. k - 1 \in 0 .. m /\ ~(k <= k - 1)
        BY <2>1, <2>3, <3>1
      <4>2. ~Fits(k - 1)
        BY <2>3, <4>1
      <4>3. T.digits + (k - 1) = T.digits + k - 1
        BY <2>1, <2>3
      <4> QED  BY <2>1, <2>2, <4>1, <4>2, <4>3
    <3> QED  BY <3>1
  <2>5. u \in Nat /\ u > 0
    <3>1. \E j \in 0 .. m : m < 2 ^ (T.digits + j) /\ (j = 0 \/ 2 ^ (T.digits + j - 1) <= m)
      BY <2>3, <2>4
    <3>2. (CHOOSE j \in 0 .. m :
             m < 2 ^ (T.digits + j) /\ (j = 0 \/ 2 ^ (T.digits + j - 1) <= m)) \in 0 .. m
      BY <3>1
    <3>3. \A j \in 0 .. m : 2 ^ j \in Nat /\ 2 ^ j > 0
      BY <2>1, <2>2
    <3> QED  BY <3>2, <3>3 DEF Spacing
  <2>6. Stored(T, x) = IF x < 0 THEN -n ELSE n
    BY <1>3 DEF Stored
  <2>7. q \in Int /\ r \in Int
    BY <2>1, <2>5
  <2>8. (q + 1) * u \in Int /\ q * u \in Int
    BY <2>5, <2>7
  <2>9. n \in Int
    BY <2>8
  <2> HIDE DEF n
  <2> QED  BY <2>6, <2>9
<1> QED  BY <1>2, <1>3

-----------------------------------------------------------------------------
(* What the algorithms are specified to return.                            *)
(* The vectors the benchmarks start with, and the mismatch that is planted *)
(* in them and taken away again.                                           *)
LEMMA TheInputs ==
  /\ bench \in {"adjacent_find", "find", "count"} => Clean = [input |-> iota]
  /\ bench \in {"mismatch", "equal"} => Clean = [data1 |-> iota, data2 |-> iota]
  /\ bench = "search" => Clean = [data1 |-> iota, data2 |-> sub]
  /\ OnSets => Clean = [data1 |-> iota, data2 |-> sub, output |-> NaNs]
BY DEF Clean, Inputs, OnSets, SetOperations

LEMMA PlantingAMismatch ==
  ASSUME DataTypes, bench = "mismatch", NEW i \in 0 .. size - 1
  PROVE  /\ Planted(Clean, i) =
              [data1 |-> iota, data2 |-> [iota EXCEPT ![i + 1] = Stored(type, iota[i + 1] + 1)]]
         /\ Unplanted(Planted(Clean, i), i) = Clean
<1> DEFINE p == [iota EXCEPT ![i + 1] = Stored(type, iota[i + 1] + 1)]
<1>1. Clean = [data1 |-> iota, data2 |-> iota]
  BY TheInputs
<1>2. Planted(Clean, i) = [data1 |-> iota, data2 |-> p]
  BY <1>1 DEF Planted
<1>3. DOMAIN iota = 1 .. size /\ iota = [k \in 1 .. size |-> iota[k]]
  <2>1. iota = [k \in 1 .. size |-> body(type, 1, 1, k - 1)]
    BY DEF iota, generate_iota, generate_increment
  <2> QED  BY <2>1
<1>4. i + 1 \in 1 .. size
  BY Sizes2
<1>5. [p EXCEPT ![i + 1] = iota[i + 1]] = iota
  BY <1>3, <1>4
<1>6. [Planted(Clean, i) EXCEPT !.data2[i + 1] = Planted(Clean, i).data1[i + 1]] =
        [data1 |-> iota, data2 |-> [p EXCEPT ![i + 1] = iota[i + 1]]]
  BY <1>2
<1>7. Unplanted(Planted(Clean, i), i) = [data1 |-> iota, data2 |-> iota]
  BY <1>5, <1>6 DEF Unplanted
<1> QED  BY <1>1, <1>2, <1>7

LEMMA FirstIsIn ==
  ASSUME NEW P, P \subseteq Nat, NEW e, NEW S, P \subseteq S, e \in S
  PROVE  First(P, e) \in S
BY FirstIs

(* What F is specified to return is some offset, end or count.             *)
LEMMA RightIsANumber ==
  ASSUME DataTypes, ~OnSets, NEW d, NEW i,
         bench = "count" => DOMAIN d.input = 1 .. size,
         bench = "search" => Len(d.data2) = size \div 2
  PROVE  Right(d, i) \in WrongReturns
<1>1. size \in Nat /\ size >= 2
  BY Sizes2
<1>2. bench \notin SetOperations
  BY DEF OnSets
<1>3. CASE bench = "adjacent_find"
  <2> DEFINE P == {k \in 0 .. size - 2 : d.input[k + 1] = d.input[k + 2]}
  <2>1. P \subseteq 0 .. size - 2 /\ P \subseteq Nat
    BY <1>1
  <2>2. Right(d, i) = <<First(P, -1)>>
    BY <1>3 DEF Right
  <2> HIDE DEF P
  <2>3. (P = {} => First(P, -1) = -1) /\ (P # {} => First(P, -1) \in P)
    BY <2>1, FirstIs
  <2>5. P # {} => First(P, -1) \in 0 .. size - 2
    BY <2>1, <2>3
  <2>4. First(P, -1) \in -1 .. size - 2
    BY <1>1, <2>3, <2>5
  <2> QED  BY <1>2, <1>3, <2>2, <2>4 DEF WrongReturns
<1>4. CASE bench = "mismatch"
  <2> DEFINE P == {k \in 0 .. size - 1 : d.data1[k + 1] # d.data2[k + 1]}
  <2>1. P \subseteq 0 .. size - 1 /\ P \subseteq Nat
    BY <1>1
  <2>2. Right(d, i) = <<First(P, size)>>
    BY <1>4 DEF Right
  <2> HIDE DEF P
  <2>3. P \subseteq 0 .. size /\ size \in 0 .. size
    BY <1>1, <2>1
  <2>4. First(P, size) \in 0 .. size
    BY <2>1, <2>3, FirstIsIn
  <2> QED  BY <1>2, <1>4, <2>2, <2>4 DEF WrongReturns
<1>5. CASE bench = "find"
  <2> DEFINE P == {k \in 0 .. size - 1 : d.input[k + 1] = Wanted(d, i)}
  <2>1. P \subseteq 0 .. size - 1 /\ P \subseteq Nat
    BY <1>1
  <2>2. Right(d, i) = <<First(P, -1)>>
    BY <1>5 DEF Right
  <2> HIDE DEF P
  <2>3. (P = {} => First(P, -1) = -1) /\ (P # {} => First(P, -1) \in P)
    BY <2>1, FirstIs
  <2>5. P # {} => First(P, -1) \in 0 .. size - 1
    BY <2>1, <2>3
  <2>4. First(P, -1) \in -1 .. size - 1
    BY <1>1, <2>3, <2>5
  <2> QED  BY <1>2, <1>5, <2>2, <2>4 DEF WrongReturns
<1>6. CASE bench = "count"
  <2> DEFINE P == {k \in DOMAIN d.input : d.input[k] = Wanted(d, i)}
  <2>1. IsFiniteSet(1 .. size) /\ Cardinality(1 .. size) = size
    BY <1>1, FS_Interval
  <2>2. P \subseteq 1 .. size
    BY <1>6
  <2>3. Cardinality(P) \in 0 .. size
    BY <1>1, <2>1, <2>2, FS_Subset, FS_CardinalityType
  <2>4. Right(d, i) = <<Cardinality(P)>>
    BY <1>6 DEF Right, Occurrences
  <2> HIDE DEF P
  <2> QED  BY <1>2, <1>6, <2>3, <2>4 DEF WrongReturns
<1>7. CASE bench = "search"
  <2> DEFINE P == {k \in 0 .. size - Len(d.data2) :
                     \A j \in DOMAIN d.data2 : d.data1[k + j] = d.data2[j]}
  <2>1. P \subseteq 0 .. size - 1 /\ P \subseteq Nat
    BY <1>1, <1>7
  <2>2. Right(d, i) = <<First(P, -1)>>
    BY <1>7 DEF Right
  <2> HIDE DEF P
  <2>3. (P = {} => First(P, -1) = -1) /\ (P # {} => First(P, -1) \in P)
    BY <2>1, FirstIs
  <2>5. P # {} => First(P, -1) \in 0 .. size - 1
    BY <2>1, <2>3
  <2>4. First(P, -1) \in -1 .. size - 1
    BY <1>1, <2>3, <2>5
  <2> QED  BY <1>2, <1>7, <2>2, <2>4 DEF WrongReturns
<1>8. CASE bench = "equal"
  BY <1>2, <1>8 DEF Right, WrongReturns
<1> QED  BY <1>2, <1>3, <1>4, <1>5, <1>6, <1>7, <1>8, Benches DEF DataTypes, Planting

(* Where there is a pair, the first pair is no later.                      *)
LEMMA APairIsFound ==
  ASSUME DataTypes, bench = "adjacent_find", NEW d, NEW i \in 0 .. size - 2, NEW j,
         d.input[i + 1] = d.input[i + 2]
  PROVE  \E k \in 0 .. size - 2 : /\ Right(d, j) = <<k>> /\ k <= i
                                  /\ d.input[k + 1] = d.input[k + 2]
<1> DEFINE P == {k \in 0 .. size - 2 : d.input[k + 1] = d.input[k + 2]}
<1>1. size \in Nat /\ size >= 2
  BY Sizes2
<1>2. P \subseteq Nat /\ i \in P
  BY <1>1
<1>3. Right(d, j) = <<First(P, -1)>>
  BY DEF Right
<1>4. First(P, -1) \in P /\ First(P, -1) <= i
  <2> HIDE DEF P
  <2> QED  BY <1>2, FirstIs
<1> QED  BY <1>3, <1>4

(* What is planted is the only one where no numbers coincide, and the      *)
(* reset takes it back.                                                    *)
LEMMA ThePairIsFound ==
  ASSUME DataTypes, bench = "adjacent_find", Exact, NEW i \in 0 .. size - 2
  PROVE  /\ \A k \in 0 .. size - 2 :
              Planted(Clean, i).input[k + 1] = Planted(Clean, i).input[k + 2] <=> k = i
         /\ \A j : Right(Planted(Clean, i), j) = <<i>>
         /\ Unplanted(Planted(Clean, i), i) = Clean
<1> DEFINE p == [iota EXCEPT ![i + 1] = iota[i + 2]]
<1>1. size \in Nat /\ size >= 2
  BY Sizes2
<1>2. Clean = [input |-> iota] /\ Planted(Clean, i) = [input |-> p]
  <2>1. Clean = [input |-> iota]
    BY TheInputs
  <2>2. Planted(Clean, i) = [Clean EXCEPT !.input[i + 1] = Clean.input[i + 2]]
    BY DEF Planted
  <2> QED  BY <2>1, <2>2
<1>3. DOMAIN iota = 1 .. size /\ \A k \in 1 .. size : iota[k] = k
  BY IotaCounts
<1>4. i + 1 \in 1 .. size /\ i + 2 \in 1 .. size
  BY <1>1
<1>5. DOMAIN p = 1 .. size /\ \A k \in 1 .. size : p[k] = IF k = i + 1 THEN i + 2 ELSE k
  BY <1>3, <1>4
<1> HIDE DEF p
<1>6. \A k \in 0 .. size - 2 : p[k + 1] = p[k + 2] <=> k = i
  <2> TAKE k \in 0 .. size - 2
  <2>1. k + 1 \in 1 .. size /\ k + 2 \in 1 .. size
    BY <1>1
  <2>2. p[k + 1] = IF k + 1 = i + 1 THEN i + 2 ELSE k + 1
    BY <1>5, <2>1
  <2>3. p[k + 2] = IF k + 2 = i + 1 THEN i + 2 ELSE k + 2
    BY <1>5, <2>1
  <2> QED  BY ONLY <2>2, <2>3, k \in Int, i \in Int
<1>7. ASSUME NEW j PROVE Right(Planted(Clean, i), j) = <<i>>
  <2>1. Planted(Clean, i).input = p
    BY <1>2
  <2>2. p[i + 1] = p[i + 2]
    BY <1>6
  <2> DEFINE d == Planted(Clean, i)
  <2>3. \E k \in 0 .. size - 2 : Right(d, j) = <<k>> /\ d.input[k + 1] = d.input[k + 2]
    <3>1. d.input[i + 1] = d.input[i + 2]
      BY <2>1, <2>2
    <3> HIDE DEF d
    <3> QED  BY <3>1, APairIsFound
  <2> QED  BY <1>6, <2>1, <2>3
<1>8. [p EXCEPT ![i + 1] = Stored(type, p[i + 2] - 1)] = iota
  <2>1. p[i + 2] = i + 2
    BY <1>4, <1>5
  <2>2. Stored(type, p[i + 2] - 1) = i + 1
    <3>1. p[i + 2] - 1 = i + 1 /\ i + 1 \in 0 .. size + 1
      BY <1>4, <2>1, <1>1
    <3> QED  BY <3>1 DEF Exact
  <2>3. \A k \in 1 .. size : [p EXCEPT ![i + 1] = Stored(type, p[i + 2] - 1)][k] = iota[k]
    BY <1>3, <1>4, <1>5, <2>2
  <2>4. iota = [k \in 1 .. size |-> iota[k]]
    BY DEF iota, generate_iota, generate_increment
  <2>5. p = [k \in 1 .. size |-> p[k]]
    BY <1>4, <2>4 DEF p
  <2> QED  BY <1>4, <2>3, <2>4, <2>5
<1>9. Unplanted(Planted(Clean, i), i) = [input |-> iota]
  <2>1. Unplanted([input |-> p], i) =
          [input |-> [p EXCEPT ![i + 1] = Stored(type, p[i + 2] - 1)]]
    BY DEF Unplanted
  <2> QED  BY <1>2, <1>8, <2>1
<1> QED  BY <1>2, <1>6, <1>7, <1>9

LEMMA TheMismatchIsFound ==
  ASSUME DataTypes, bench = "mismatch", Exact, NEW i \in 0 .. size - 1, NEW j
  PROVE  Right(Planted(Clean, i), j) = <<i>>
<1> DEFINE p == [iota EXCEPT ![i + 1] = Stored(type, iota[i + 1] + 1)]
           P == {k \in 0 .. size - 1 : iota[k + 1] # p[k + 1]}
<1>1. size \in Nat /\ size >= 2
  BY Sizes2
<1>2. Planted(Clean, i) = [data1 |-> iota, data2 |-> p]
  BY PlantingAMismatch
<1>3. DOMAIN iota = 1 .. size /\ \A k \in 1 .. size : iota[k] = k
  BY IotaCounts
<1>4. Stored(type, iota[i + 1] + 1) = i + 2
  <2>1. iota[i + 1] + 1 = i + 2 /\ i + 2 \in 0 .. size + 1
    BY <1>1, <1>3
  <2> QED  BY <2>1 DEF Exact
<1>5. \A k \in 0 .. size - 1 : iota[k + 1] = k + 1 /\ p[k + 1] = IF k = i THEN i + 2 ELSE k + 1
  BY <1>1, <1>3, <1>4
<1> HIDE DEF p
<1>6. P = {i}
  BY <1>1, <1>5
<1>7. Right(Planted(Clean, i), j) = <<First(P, size)>>
  BY <1>2 DEF Right
<1>8. First(P, size) \in P
  <2>1. P \subseteq Nat /\ P # {}
    BY <1>6
  <2> QED  BY <2>1, FirstIs
<1> QED  BY <1>6, <1>7, <1>8

-----------------------------------------------------------------------------
(* Where the steps lead.                                                   *)

LEMMA BodyMoves ==
  ASSUME ControlOK, phase = "body", Advance
  PROVE  \/ at < Len(prog.body) /\ phase' = "body" /\ at' = at + 1
         \/ at = Len(prog.body) /\ phase' \in {"body", "drop"} /\ at' = 1
<1>1. \/ at < Len(prog[phase]) /\ phase' = phase /\ at' = at + 1
      \/ at = Len(prog[phase]) /\ phase' = PhaseAfter(phase) /\ at' = 1
  BY Moves DEF CodePhases
<1>2. PhaseAfter(phase) \in {"body", "drop"}
  BY DEF PhaseAfter
<1> QED  BY <1>1, <1>2

LEMMA OtherMoves ==
  ASSUME ControlOK, [Next]_vars, ~UNCHANGED vars
  PROVE  /\ phase = "pre" =>
              \/ at = 1 /\ bench = "mismatch" /\ phase' = "pre" /\ at' = 2
              \/ phase' = "lift" /\ at' = 1 /\ (at = 2 <=> bench = "mismatch")
         /\ phase = "lift" => phase' = "body" /\ at' = 1
         /\ phase = "body" => phase' \in {"body", "drop"}
         /\ phase = "drop" => /\ phase' \in {"post", "check", "done"} /\ at' = 1
                              /\ phase' = "post" <=> Plants
         /\ phase = "post" => phase' \in {"check", "done"} /\ at' = 1
         /\ phase = "check" =>
              \/ phase' = "check" /\ at' = at + 1 /\ at < Len(prog.check)
              \/ phase' = "done" /\ at = Len(prog.check)
         /\ phase # "done"
<1>1. CASE phase \in CodePhases /\ Advance
  <2>1. \/ at < Len(prog[phase]) /\ phase' = phase /\ at' = at + 1
        \/ at = Len(prog[phase]) /\ phase' = PhaseAfter(phase) /\ at' = 1
    BY <1>1, Moves
  <2>2. CASE phase = "pre"
    <3>1. at \in 1 .. Len(prog.pre) /\ Len(prog.pre) = IF bench = "mismatch" THEN 2 ELSE 1
      BY <1>1, <2>2, Lengths DEF ControlOK
    <3>2. PhaseAfter(phase) = "lift"
      BY <2>2 DEF PhaseAfter
    <3> QED  BY <2>1, <2>2, <3>1, <3>2
  <2>3. CASE phase = "body"
    BY <1>1, <2>3, BodyMoves
  <2>4. CASE phase = "post"
    <3>1. at = 1 /\ Len(prog.post) = 1
      BY <2>4, OtherSteps, Lengths
    <3>2. PhaseAfter(phase) \in {"check", "done"}
      BY <2>4 DEF PhaseAfter, CheckOrDone
    <3>3. ~(at < Len(prog[phase]))
      <4>1. prog[phase] = prog.post
        BY <2>4
      <4>2. Len(prog[phase]) = 1
        BY <3>1, <4>1
      <4> QED  BY ONLY <3>1, <4>2
    <3>4. phase' \in {"check", "done"} /\ at' = 1
      BY <2>1, <3>2, <3>3
    <3> QED  BY <2>4, <3>4
  <2>5. CASE phase = "check"
    <3>1. PhaseAfter(phase) = "done"
      BY <2>5 DEF PhaseAfter
    <3> QED  BY <2>1, <2>5, <3>1
  <2> QED  BY <1>1, <2>2, <2>3, <2>4, <2>5 DEF CodePhases
<1>2. CASE phase \in {"lift", "drop"} /\ Leave
  <2>1. Len(prog.post) > 0 <=> Plants
    BY Lengths
  <2> QED  BY <1>2, <2>1 DEF Leave, PhaseAfter, CheckOrDone
<1> QED  BY <1>1, <1>2, StepOrLeave

-----------------------------------------------------------------------------
(* The vectors.                                                            *)

LEMMA InitVectors == Init => VectorsMade
BY DEF Init, ControlInit, VectorsMade, InputsMade, VectorsAsAsked, PairStands, SetsStand

LEMMA VectorsGenerated ==
  ASSUME DataTypes, InputsMade, [Next]_vars, phase = "pre", ~UNCHANGED vars
  PROVE  /\ InputsMade'
         /\ phase' # "pre" => vec' = Clean /\ phase' = "lift" /\ at' = 1
<1>1. \/ at = 1 /\ bench = "mismatch" /\ phase' = "pre" /\ at' = 2
      \/ phase' = "lift" /\ at' = 1 /\ (at = 2 <=> bench = "mismatch")
  BY OtherMoves DEF DataTypes
<1>2. Generate \/ Copy
  BY OtherSteps, Places
  DEF DataTypes, Next, Quiet, Draw, Note, Plant, Call, Reset, Replant, Refill, Check, Returned,
      At, Calls, CodePhases
<1>3. CASE Generate
  <2>1. at = 1 /\ vec' = Inputs
    BY <1>3 DEF Generate
  <2>2. bench = "mismatch" => Inputs = [data1 |-> iota]
    BY DEF Inputs, SetOperations
  <2>3. bench # "mismatch" => Inputs = Clean
    BY DEF Clean
  <2> QED  BY <1>1, <2>1, <2>2, <2>3, Fixed, FixedToo DEF InputsMade
<1>4. CASE Copy
  <2>1. at = 2 /\ vec' = [data1 |-> vec.data1, data2 |-> vec.data1]
    BY <1>4 DEF Copy
  <2>2. bench = "mismatch" /\ vec = [data1 |-> iota]
    BY <2>1 DEF InputsMade
  <2>3. vec' = [data1 |-> iota, data2 |-> iota]
    BY <2>1, <2>2
  <2>4. vec' = Clean
    BY <2>2, <2>3, TheInputs
  <2> QED  BY <1>1, <2>1, <2>4 DEF InputsMade
<1> QED  BY <1>2, <1>3, <1>4

(* The steps after that which change a vector.                             *)
LEMMA VectorsChange ==
  ASSUME DataTypes, [Next]_vars, phase # "pre", ~OnSets
  PROVE  \/ vec' = vec /\ ~Plant /\ ~Reset /\ ~Replant
         \/ Plant /\ vec' = Planted(vec, index)
         \/ Reset /\ Plants
         \/ Replant
<1>1. ~Generate /\ ~Copy
  BY DEF Generate, Copy
<1>2. CASE Plant
  BY <1>2 DEF Plant
<1>3. CASE Reset
  BY <1>3, Places DEF DataTypes
<1>4. CASE Replant
  BY <1>4
<1>5. CASE ~Plant /\ ~Reset /\ ~Replant
  <2>1. ~Refill /\ bench \notin SetOperations
    BY DEF Refill, OnSets
  <2> QED
    BY <1>1, <1>5, <2>1 DEF Next, Quiet, Draw, Note, Call, Check, Returned, vars, data
<1> QED  BY <1>2, <1>3, <1>4, <1>5

(* What F is asked only changes with the number drawn.                     *)
LEMMA AskedNext ==
  ASSUME [Next]_vars
  PROVE  Asked' = IF Plants THEN Planted(Clean, index') ELSE Clean
<1>1. UNCHANGED <<bench, type>> /\ Clean' = Clean /\ (Plants' <=> Plants)
  BY Fixed, FixedToo
<1> QED  BY <1>1 DEF Asked, Planted

LEMMA AnswerIsANumber ==
  ASSUME DataTypes, Answered, ~OnSets, Past(CallStep)
  PROVE  answer[1] \in Int /\ answer = <<answer[1]>>
<1>1. answer \in WrongReturns /\ size \in Nat /\ bench \notin SetOperations
  BY Sizes2 DEF Answered, OnSets
<1>2. CASE bench = "equal"
  BY <1>1, <1>2 DEF WrongReturns
<1>3. CASE bench \in {"mismatch", "count"}
  BY <1>1, <1>3 DEF WrongReturns
<1>4. CASE bench = "adjacent_find"
  BY <1>1, <1>4 DEF WrongReturns
<1>5. CASE bench \notin {"equal", "mismatch", "count", "adjacent_find"}
  BY <1>1, <1>5 DEF WrongReturns
<1> QED  BY <1>2, <1>3, <1>4, <1>5

(* A number is drawn, and F answers, in one step only.                     *)
LEMMA NumbersStay ==
  ASSUME DataTypes, [Next]_vars
  PROVE  /\ ~Draw => index' = index
         /\ phase # "body" /\ ~OnSets => answer' = answer /\ UNCHANGED right
<1>1. ~Draw => index' = index
  BY DEF Next, Generate, Copy, Quiet, Note, Plant, Call, Reset, Replant, Refill, Check,
         Returned, vars, data
<1>2. ASSUME phase # "body", ~OnSets PROVE ~Call
  BY <1>2, Places DEF DataTypes, Call, At, Calls
<1>3. ~Call => answer' = answer /\ UNCHANGED right
  BY DEF Next, Generate, Copy, Quiet, Draw, Note, Plant, Reset, Replant, Refill, Check,
         Returned, vars, data
<1> QED  BY <1>1, <1>2, <1>3

(* What is planted stays for five steps, and then from the replanting on.  *)
LEMMA PlantsComeAndGo ==
  ASSUME DataTypes, NumbersDrawn, Answered, [Next]_vars, ~UNCHANGED vars, Plants,
         phase # "pre"
  PROVE  \/ vec' = vec /\ ~InPlace /\ ~InPlace'
         \/ vec' = vec /\ InPlace /\ InPlace' /\ index' = index
         \/ /\ vec' = Planted(vec, index) /\ ~InPlace /\ InPlace'
            /\ index' = index /\ index \in Drawn
         \/ Reset /\ InPlace /\ ~InPlace' /\ index' = index /\ index \in Drawn
<1> USE DEF DataTypes
<1>1. /\ ~OnSets /\ bench # "find" /\ UNCHANGED bench
      /\ DrawStep = 1 /\ NoteStep = 1 /\ CallStep = 5
      /\ bench \in {"adjacent_find", "mismatch"}
  BY Fixed DEF Plants, Planting, OnSets, SetOperations, DrawStep, NoteStep, CallStep
<1>2. Draws
  BY <1>1 DEF Draws, Planting
<1>3. CASE phase = "body"
  <2>1. at \in 1 .. 8 /\ Len(prog.body) = 8
    BY <1>3, BodySteps, Lengths
  <2>2. \/ at < 8 /\ phase' = "body" /\ at' = at + 1
        \/ at = 8 /\ phase' \in {"body", "drop"} /\ at' = 1
    <3>1. Advance
      BY <1>3, StepOrLeave
    <3> QED  BY <1>3, <2>1, <3>1, BodyMoves
  <2>3. InPlace <=> at \in 4 .. 7
    BY <1>3 DEF InPlace
  <2>4. InPlace' <=> at \in 3 .. 6
    BY <2>1, <2>2 DEF InPlace
  <2>5. ~Replant
    BY <1>3 DEF Replant
  <2>6. Plant => at = 3
    BY Places
  <2>7. Reset => at = 7
    BY <1>1, Places
  <2>8. Draw => at = 1
    BY <1>1, Places
  <2>9. at > 1 => index \in Drawn
    BY <1>1, <1>2, <1>3 DEF NumbersDrawn, Past
  <2>10. index' = index \/ at = 1
    BY <2>8, NumbersStay
  <2>11. CASE at = 3
    <3>1. cur.op = "host" /\ ~Called
      BY <1>3, <2>11, BodySteps, CalledAt
    <3>2. Plant
      BY <1>1, <1>3, <3>1 DEF Next, Generate, Copy, Quiet, Draw, Note, Call, Reset, Replant,
                              Refill, Check, Returned, At, Calls
    <3>3. vec' = Planted(vec, index)
      BY <3>2 DEF Plant
    <3> QED  BY <2>3, <2>4, <2>9, <2>10, <2>11, <3>3
  <2>12. CASE at = 7
    <3>1. cur.op = "host" /\ Called
      BY <1>3, <2>12, BodySteps, CalledAt
    <3>2. Reset
      BY <1>1, <1>3, <3>1 DEF Next, Generate, Copy, Quiet, Draw, Note, Plant, Call, Replant,
                              Refill, Check, Returned, At, Calls
    <3> QED  BY <2>3, <2>4, <2>9, <2>10, <2>12, <3>2
  <2>13. CASE at \in {1, 2, 8}
    BY <1>1, <1>3, <2>3, <2>4, <2>5, <2>6, <2>7, <2>13, VectorsChange
  <2>14. CASE at \in {4, 5, 6}
    BY <1>1, <1>3, <2>3, <2>4, <2>5, <2>6, <2>7, <2>10, <2>14, VectorsChange
  <2> QED  BY <2>1, <2>11, <2>12, <2>13, <2>14
<1>4. CASE phase = "post"
  <2>1. phase' \in {"check", "done"}
    BY <1>4, OtherMoves
  <2>2. Replant
    BY <1>4, OtherSteps DEF Next, Generate, Copy, Quiet, Draw, Note, Plant, Call, Reset, Refill,
                            Check, Returned, At, Calls, CodePhases
  <2>3. /\ vec' = IF bench = "adjacent_find" /\ answer[1] < 0 THEN vec ELSE Planted(vec, last)
        /\ index' = index /\ answer' = answer
    BY <2>2 DEF Replant
  <2>4. last = index /\ index \in Drawn
    BY <1>1, <1>2, <1>4 DEF NumbersDrawn, Past
  <2>5. answer[1] \in Int
    BY <1>1, <1>4, AnswerIsANumber DEF Past
  <2>6. ~InPlace /\ (InPlace' <=> bench = "mismatch" \/ answer[1] >= 0)
    BY <1>1, <1>4, <2>1, <2>3 DEF InPlace
  <2> QED  BY <1>1, <2>3, <2>4, <2>5, <2>6
<1>5. CASE phase \in {"lift", "drop", "check", "done"}
  <2>1. vec' = vec
    BY <1>1, <1>5, Places, VectorsChange DEF Replant
  <2>2. index' = index /\ answer' = answer
    BY <1>1, <1>5, NumbersStay, Places
  <2>3. phase \in {"lift", "drop"} => ~InPlace /\ ~InPlace'
    BY <1>5, OtherMoves DEF InPlace
  <2>4. phase \in {"check", "done"} => phase' \in {"check", "done"}
    BY <1>5, OtherMoves
  <2>5. phase \in {"check", "done"} => (InPlace <=> InPlace')
    BY <1>1, <2>2, <2>4 DEF InPlace
  <2> QED  BY <1>5, <2>1, <2>2, <2>3, <2>5
<1> QED  BY <1>3, <1>4, <1>5 DEF ControlOK, Phases, CodePhases

(* The parts of VectorsMade, one by one.                                   *)
LEMMA AsAskedKept ==
  ASSUME DataTypes, NumbersDrawn, VectorsMade, Answered, [Next]_vars, ~UNCHANGED vars
  PROVE  VectorsAsAsked'
<1> SUFFICES ASSUME phase' # "pre", ~OnSets, Comparable
             PROVE  vec' = IF InPlace' THEN Asked' ELSE Clean
  BY FixedToo DEF VectorsAsAsked
<1> USE DEF DataTypes
<1>1. Asked' = IF Plants THEN Planted(Clean, index') ELSE Clean
  BY AskedNext
<1>2. CASE phase = "pre"
  <2>1. vec' = Clean /\ phase' = "lift"
    BY <1>2, VectorsGenerated DEF VectorsMade
  <2> QED  BY <2>1 DEF InPlace
<1>3. CASE phase # "pre"
  <2>1. vec = IF InPlace THEN Asked ELSE Clean
    BY <1>3 DEF VectorsMade, VectorsAsAsked
  <2>2. CASE ~Plants
    <3>1. vec' = vec
      BY <1>3, <2>2, Places, VectorsChange
    <3> QED  BY <1>1, <2>1, <2>2, <3>1 DEF Asked
  <2>3. CASE Plants
    <3>1. Asked = Planted(Clean, index)
      BY <2>3 DEF Asked
    <3>2. CASE vec' = vec /\ ~InPlace /\ ~InPlace'
      BY <2>1, <3>2
    <3>3. CASE vec' = vec /\ InPlace /\ InPlace' /\ index' = index
      BY <1>1, <2>1, <2>3, <3>1, <3>3
    <3>4. CASE vec' = Planted(vec, index) /\ ~InPlace /\ InPlace' /\ index' = index
      BY <1>1, <2>1, <2>3, <3>4
    <3>5. CASE Reset /\ InPlace /\ ~InPlace' /\ index \in Drawn
      <4>1. vec = Planted(Clean, index)
        BY <2>1, <3>1, <3>5
      <4>2. vec' = Unplanted(vec, index)
        BY <2>3, <3>5 DEF Reset
      <4>3. Unplanted(Planted(Clean, index), index) = Clean
        BY <2>3, <3>5, ThePairIsFound, PlantingAMismatch
        DEF Plants, Planting, Drawn, Comparable
      <4> QED  BY <3>5, <4>1, <4>2, <4>3
    <3> QED  BY <1>3, <2>3, <3>2, <3>3, <3>4, <3>5, PlantsComeAndGo
  <2> QED  BY <2>2, <2>3
<1> QED  BY <1>2, <1>3

LEMMA PairKept ==
  ASSUME DataTypes, NumbersDrawn, VectorsMade, Answered, [Next]_vars, ~UNCHANGED vars
  PROVE  PairStands'
<1> SUFFICES ASSUME phase' # "pre", bench = "adjacent_find"
             PROVE  /\ DOMAIN vec' = {"input"} /\ DOMAIN vec'.input = 1 .. size
                    /\ InPlace' => vec'.input[index' + 1] = vec'.input[index' + 2]
  BY Fixed DEF PairStands
<1> USE DEF DataTypes
<1>1. Plants /\ size \in Nat
  BY Sizes2 DEF Plants, Planting
<1>2. CASE phase = "pre"
  <2>1. vec' = [input |-> iota] /\ phase' = "lift"
    BY <1>2, VectorsGenerated, TheInputs DEF VectorsMade
  <2> QED  BY <2>1, IotaCounts DEF InPlace
<1>3. CASE phase # "pre"
  <2>1. /\ DOMAIN vec = {"input"} /\ DOMAIN vec.input = 1 .. size
        /\ InPlace => vec.input[index + 1] = vec.input[index + 2]
    BY <1>3 DEF VectorsMade, PairStands
  <2>2. CASE vec' = vec /\ ~InPlace'
    BY <2>1, <2>2
  <2>3. CASE vec' = vec /\ InPlace /\ InPlace' /\ index' = index
    BY <2>1, <2>3
  <2>4. CASE vec' = Planted(vec, index) /\ index' = index /\ index \in Drawn
    <3>1. index \in 0 .. size - 2
      BY <2>4 DEF Drawn
    <3>2. index + 1 # index + 2 /\ index + 2 \in 1 .. size
      BY <1>1, <3>1
    <3>3. /\ DOMAIN vec' = {"input"} /\ DOMAIN vec'.input = 1 .. size
          /\ vec'.input[index + 1] = vec.input[index + 2]
          /\ vec'.input[index + 2] = vec.input[index + 2]
      BY <2>1, <2>4, <3>1, <3>2, PlantingAPair
    <3> QED  BY <2>4, <3>3
  <2>5. CASE Reset /\ ~InPlace'
    <3>1. vec' = Unplanted(vec, index)
      BY <1>1, <2>5 DEF Reset
    <3>2. vec' = [vec EXCEPT !.input =
                    [vec.input EXCEPT ![index + 1] = Stored(type, vec.input[index + 2] - 1)]]
      BY <3>1 DEF Unplanted
    <3>3. DOMAIN vec' = {"input"} /\ DOMAIN vec'.input = 1 .. size
      BY <2>1, <3>2
    <3> QED  BY <2>5, <3>3
  <2> QED  BY <1>1, <1>3, <2>2, <2>3, <2>4, <2>5, PlantsComeAndGo
<1> QED  BY <1>2, <1>3

LEMMA SetsKept ==
  ASSUME DataTypes, VectorsMade, [Next]_vars, ~UNCHANGED vars
  PROVE  SetsStand'
<1> SUFFICES ASSUME phase' # "pre", OnSets
             PROVE  /\ vec' = [data1 |-> iota, data2 |-> sub, output |-> vec'.output]
                    /\ Emptied' => vec'.output = NaNs
  BY FixedToo DEF SetsStand
<1> USE DEF DataTypes
<1>1. bench \in SetOperations /\ ~Plants /\ bench \notin {"find", "count", "adjacent_find", "mismatch"}
  BY DEF OnSets, SetOperations, Plants, Planting
<1>2. CASE phase = "pre"
  <2>1. vec' = [data1 |-> iota, data2 |-> sub, output |-> NaNs]
    BY <1>2, VectorsGenerated, TheInputs DEF VectorsMade
  <2> QED  BY <2>1
<1>3. CASE phase # "pre"
  <2>1. /\ vec = [data1 |-> iota, data2 |-> sub, output |-> vec.output]
        /\ Emptied => vec.output = NaNs
    BY <1>3 DEF VectorsMade, SetsStand
  <2>5. \A x : [vec EXCEPT !.output = x] = [data1 |-> iota, data2 |-> sub, output |-> x]
    BY <2>1
  <2>2. CASE Call
    <3>1. vec' = [vec EXCEPT !.output = answer' \o SubSeq(vec.output, Len(answer') + 1, size)]
      BY <1>1, <2>2 DEF Call
    <3>2. vec' = [data1 |-> iota, data2 |-> sub, output |-> vec'.output]
      BY <2>5, <3>1
    <3>3. \/ phase = "body" /\ at = 1
          \/ phase = "check" /\ at = 2
      <4>1. CallStep = 1
        BY <1>1 DEF CallStep
      <4>2. At({"timed"}) \/ At({"kernel"})
        BY <2>2 DEF Call, At, Calls
      <4> QED  BY <4>1, <4>2, Places
    <3>4. ~Emptied'
      <4>1. CASE phase = "body" /\ at = 1
        <5>1. Advance /\ Len(prog.body) = 4
          BY <2>2, Lengths DEF Call
        <5>2. phase' = "body" /\ at' = 2
          BY <4>1, <5>1, BodyMoves
        <5> QED  BY <5>2 DEF Emptied
      <4>2. CASE phase = "check" /\ at = 2
        <5>1. Len(prog.check) = 3
          BY Lengths
        <5>2. phase' = "check" /\ at' = 3
          BY <4>2, <5>1, OtherMoves
        <5> QED  BY <5>2 DEF Emptied
      <4> QED  BY <3>3, <4>1, <4>2
    <3> QED  BY <3>2, <3>4
  <2>3. CASE Reset \/ Refill
    <3>1. vec' = [vec EXCEPT !.output = NaNs]
      BY <1>1, <2>3 DEF Reset, Refill
    <3> QED  BY <2>5, <3>1
  <2>4. CASE ~Call /\ ~Reset /\ ~Refill
    <3>1. vec' = vec
      BY <1>1, <1>3, <2>4, Places
      DEF Next, Generate, Copy, Quiet, Draw, Note, Plant, Replant, Check, Returned, vars, data
    <3>2. Emptied' => Emptied
      <4>1. CASE phase = "body"
        <5>1. at \in 1 .. 4 /\ Len(prog.body) = 4
          BY <4>1, BodySteps, Lengths
        <5>2. at # 1
          <6>1. at = 1 => cur.op = "timed"
            BY <4>1, BodySteps
          <6>2. CallStep = 1
            BY <1>1 DEF CallStep
          <6> QED  BY <2>4, <4>1, <6>2, StepsDiffer
        <5>3. at # 3
          <6>1. at = 3 => cur.op = "host" /\ Called
            BY <4>1, BodySteps, CalledAt
          <6> QED
            BY <1>1, <2>4, <4>1, <6>1
            DEF Next, Generate, Copy, Quiet, Draw, Note, Plant, Replant, Check, Returned, At
        <5>4. \/ at < 4 /\ phase' = "body" /\ at' = at + 1
              \/ at = 4 /\ phase' \in {"body", "drop"} /\ at' = 1
          BY <4>1, <5>1, BodyMoves, StepOrLeave
        <5> QED  BY <4>1, <5>1, <5>2, <5>3, <5>4 DEF Emptied
      <4>2. CASE phase = "check"
        <5>1. at \in 1 .. 3 /\ Len(prog.check) = 3
          BY <4>2, OtherSteps, Lengths
        <5>2. \/ phase' = "check" /\ at' = at + 1
              \/ phase' = "done"
          BY <4>2, OtherMoves
        <5>3. at = 1 => phase' # "check"
          <6>1. at = 1 => /\ ~("verdict" \in DOMAIN cur.gives)
                          /\ cur.op = "raw"
            BY <4>2, <5>1, OtherSteps
          <6> QED
            BY <1>1, <2>4, <4>2, <6>1
            DEF Next, Generate, Copy, Quiet, Draw, Note, Plant, Replant, Check, Returned, At
        <5> QED  BY <4>2, <5>1, <5>2, <5>3 DEF Emptied
      <4>3. CASE phase \in {"lift", "drop"}
        BY <4>3, OtherMoves DEF Emptied
      <4>4. CASE phase = "post"
        BY <1>1, <4>4, OtherSteps
      <4>5. phase # "done"
        BY OtherMoves
      <4> QED  BY <1>3, <4>1, <4>2, <4>3, <4>4, <4>5 DEF ControlOK, Phases, CodePhases
    <3> QED  BY <2>1, <3>1, <3>2
  <2> QED  BY <2>2, <2>3, <2>4
<1> QED  BY <1>2, <1>3

LEMMA VectorsKept ==
  DataTypes /\ NumbersDrawn /\ VectorsMade /\ Answered /\ [Next]_vars => VectorsMade'
<1> SUFFICES ASSUME DataTypes, NumbersDrawn, VectorsMade, Answered, [Next]_vars
             PROVE  VectorsMade'
  OBVIOUS
<1>1. CASE UNCHANGED vars
  BY <1>1, Fixed, FixedToo, AskedNext
  DEF vars, data, control, VectorsMade, InputsMade, VectorsAsAsked, PairStands, SetsStand,
      InPlace, Emptied, Asked
<1>2. CASE ~UNCHANGED vars
  <2>1. InputsMade'
    <3>1. CASE phase = "pre"
      BY <1>2, <3>1, VectorsGenerated DEF VectorsMade
    <3>2. CASE phase # "pre"
      <4>1. phase' # "pre"
        BY <1>2, <3>2, OtherMoves DEF DataTypes, ControlOK, Phases, CodePhases
      <4> QED  BY <4>1 DEF InputsMade
    <3> QED  BY <3>1, <3>2
  <2> QED  BY <1>2, <2>1, AsAskedKept, PairKept, SetsKept DEF VectorsMade
<1> QED  BY <1>1, <1>2

-----------------------------------------------------------------------------
(* The answers.                                                            *)

(* A name for what the last timed call should have returned.               *)
WhatIsRight == Right(Asked, index)

LEMMA RightStays ==
  ASSUME [Next]_vars, index' = index
  PROVE  WhatIsRight' = WhatIsRight /\ WrongReturns' = WrongReturns
<1>1. bench' = bench /\ size' = size /\ type' = type
  BY Fixed
<1>2. Asked' = Asked
  BY AskedNext DEF Asked
<1>3. WrongReturns' = WrongReturns
  BY <1>1, Zenon DEF WrongReturns
<1>4. WhatIsRight' = WhatIsRight
  BY <1>1, <1>2, Zenon DEF WhatIsRight, Right, Wanted
<1> QED  BY <1>3, <1>4

LEMMA InitAnswers == Init => Answered
BY DEF Init, ControlInit, Answered, Past

(* F is asked about the numbers and the plant of this iteration.           *)
LEMMA VectorsAtTheCall ==
  ASSUME DataTypes, VectorsMade, At({"timed"}), ~OnSets
  PROVE  /\ Comparable => vec = Asked
         /\ bench = "adjacent_find" => /\ DOMAIN vec = {"input"} /\ DOMAIN vec.input = 1 .. size
                                       /\ vec.input[index + 1] = vec.input[index + 2]
<1>1. phase = "body" /\ at = CallStep
  BY Places DEF DataTypes
<1>2. Plants => InPlace
  BY <1>1 DEF InPlace, CallStep
<1>3. ~Plants => Asked = Clean
  BY DEF Asked
<1>4. bench = "adjacent_find" => Plants
  BY DEF Plants, Planting
<1> QED  BY <1>1, <1>2, <1>3, <1>4 DEF VectorsMade, VectorsAsAsked, PairStands

LEMMA AnswersKnown ==
  ASSUME DataTypes, NumbersDrawn, VectorsMade, Answered, At({"timed"}), Call, ~OnSets
  PROVE  /\ answer' \in WrongReturns
         /\ Comparable => (right' <=> answer' = WhatIsRight)
         /\ bench = "adjacent_find" /\ F = "right" =>
              \E k \in 0 .. size - 2 : /\ answer' = <<k>>
                                       /\ vec.input[k + 1] = vec.input[k + 2]
<1> USE DEF DataTypes
<1>1. answer' \in Returns /\ (right' <=> answer' = Right(vec, index))
  BY DEF Call
<1>2. Right(vec, index) \in WrongReturns
  <2>1. bench = "count" => DOMAIN vec.input = 1 .. size
    <3>1. ASSUME bench = "count" PROVE vec = [input |-> iota]
      BY <3>1, VectorsAtTheCall, TheInputs DEF Comparable, Asked, Plants, Planting
    <3> QED  BY <3>1, IotaCounts
  <2>2. bench = "search" => Len(vec.data2) = size \div 2
    <3>1. ASSUME bench = "search" PROVE vec.data2 = sub
      <4>1. vec = [data1 |-> iota, data2 |-> sub]
        BY <3>1, VectorsAtTheCall, TheInputs DEF Comparable, Asked, Plants, Planting
      <4> QED  BY <4>1
    <3>2. Len(sub) = size \div 2
      <4>1. size \in Nat /\ size \div 2 \in Nat
        BY Sizes2
      <4> QED  BY <4>1 DEF sub, generate_sub, generate_increment
    <3> QED  BY <3>1, <3>2
  <2> QED  BY <2>1, <2>2, RightIsANumber
<1>3. answer' \in WrongReturns
  BY <1>1, <1>2 DEF Returns
<1>4. Comparable => (right' <=> answer' = WhatIsRight)
  BY <1>1, VectorsAtTheCall DEF WhatIsRight
<1>5. ASSUME bench = "adjacent_find", F = "right"
      PROVE  \E k \in 0 .. size - 2 : answer' = <<k>> /\ vec.input[k + 1] = vec.input[k + 2]
  <2>1. answer' = Right(vec, index)
    BY <1>1, <1>5 DEF Returns
  <2>2. index \in 0 .. size - 2
    <3>1. phase = "body" /\ at = 5 /\ Draws
      BY <1>5, Places DEF CallStep, Plants, Planting, Draws
    <3> QED  BY <1>5, <3>1 DEF NumbersDrawn, Drawn, Past, DrawStep
  <2> QED  BY <1>5, <2>1, <2>2, VectorsAtTheCall, APairIsFound
<1> QED  BY <1>3, <1>4, <1>5

(* Planting twice is planting once, and it does not matter what was there. *)
LEMMA PlantedAgain ==
  ASSUME DataTypes, bench = "adjacent_find", NEW i \in 0 .. size - 2,
         NEW d, DOMAIN d = {"input"}, DOMAIN d.input = 1 .. size,
         NEW e, DOMAIN e = {"input"}, DOMAIN e.input = 1 .. size,
         \A k \in 1 .. size : k # i + 1 => e.input[k] = d.input[k]
  PROVE  \A k \in 1 .. size : Planted(e, i).input[k] = Planted(d, i).input[k]
<1>1. size \in Nat /\ i + 2 \in 1 .. size /\ i + 1 # i + 2
  BY Sizes2
<1>2. /\ Planted(d, i).input[i + 1] = d.input[i + 2]
      /\ \A k \in 1 .. size : k # i + 1 => Planted(d, i).input[k] = d.input[k]
  BY PlantingAPair
<1>3. /\ Planted(e, i).input[i + 1] = e.input[i + 2]
      /\ \A k \in 1 .. size : k # i + 1 => Planted(e, i).input[k] = e.input[k]
  BY PlantingAPair
<1> QED  BY <1>1, <1>2, <1>3

(* Whatever F found, rounding in the reset does not take it away.          *)
LEMMA PairStays ==
  ASSUME DataTypes, NumbersDrawn, VectorsMade, Answered, [Next]_vars, ~UNCHANGED vars,
         bench = "adjacent_find", F = "right", Past(CallStep)', Past(CallStep) \/ At({"timed"})
  PROVE  IsPair'
<1> USE DEF DataTypes
<1>1. /\ Plants /\ ~OnSets /\ size \in Nat /\ CallStep = 5 /\ DrawStep = 1 /\ Draws
      /\ bench' = bench /\ type' = type /\ size' = size
  <2>1. Plants /\ ~OnSets /\ Draws
    BY DEF Plants, Planting, OnSets, SetOperations, Draws
  <2>2. CallStep = 5 /\ DrawStep = 1
    BY <2>1 DEF CallStep, DrawStep
  <2> QED  BY <2>1, <2>2, Sizes2, Fixed
<1>2. phase # "pre" /\ Past(DrawStep)
  <2>1. At({"timed"}) => phase = "body" /\ at = 5
    BY <1>1, Places
  <2>2. at \in Nat
    BY DEF ControlOK
  <2> QED  BY <1>1, <2>1, <2>2 DEF Past
<1>3. index \in 0 .. size - 2
  BY <1>1, <1>2 DEF NumbersDrawn, Drawn
<1>4. index' = index
  <2>1. ~Draw
    BY <1>1, <1>2, Places DEF Past
  <2> QED  BY <2>1, NumbersStay
<1>5. /\ DOMAIN vec = {"input"} /\ DOMAIN vec.input = 1 .. size
      /\ DOMAIN vec' = {"input"} /\ DOMAIN vec'.input = 1 .. size
  <2>1. PairStands' /\ phase' # "pre"
    BY PairKept DEF Past
  <2> QED  BY <1>1, <1>2, <2>1 DEF VectorsMade, PairStands
<1>6. \A k \in 1 .. size : k # index + 1 => vec'.input[k] = vec.input[k]
  <2>1. CASE vec' = vec
    BY <2>1
  <2>2. CASE vec' = Planted(vec, index)
    BY <1>3, <1>5, <2>2, PlantingAPair
  <2>3. CASE Reset
    <3>1. vec' = [vec EXCEPT !.input =
                    [vec.input EXCEPT ![index + 1] = Stored(type, vec.input[index + 2] - 1)]]
      BY <1>1, <2>3 DEF Reset, Unplanted
    <3> QED  BY <1>5, <3>1
  <2> QED  BY <1>1, <1>2, <2>1, <2>2, <2>3, PlantsComeAndGo
<1>7. \E k \in 0 .. size - 2 :
        /\ answer' = <<k>>
        /\ Planted(vec, index).input[k + 1] = Planted(vec, index).input[k + 2]
  <2>1. CASE At({"timed"})
    <3>1. phase = "body" /\ at = CallStep
      BY <2>1, Places
    <3>2. Call
      BY <3>1, StepsDiffer
    <3>3. vec.input[index + 1] = vec.input[index + 2]
      BY <1>1, <2>1, VectorsAtTheCall
    <3>4. \A k \in 1 .. size : Planted(vec, index).input[k] = vec.input[k]
      BY <1>3, <1>5, <3>3, PlantingAPair
    <3>5. PICK k \in 0 .. size - 2 : answer' = <<k>> /\ vec.input[k + 1] = vec.input[k + 2]
      BY <1>1, <2>1, <3>2, AnswersKnown
    <3>6. k + 1 \in 1 .. size /\ k + 2 \in 1 .. size
      BY <1>1
    <3> QED  BY <3>4, <3>5, <3>6
  <2>2. CASE ~At({"timed"})
    <3>1. ~Call
      BY <1>1, <2>2, Places DEF Call, At, Calls
    <3>2. answer' = answer
      BY <3>1 DEF Next, Generate, Copy, Quiet, Draw, Note, Plant, Reset, Replant, Refill, Check,
                  Returned, vars, data
    <3>3. IsPair /\ answer = <<answer[1]>>
      BY <1>1, <2>2, AnswerIsANumber DEF Answered
    <3> QED  BY <3>2, <3>3 DEF IsPair
  <2> QED  BY <2>1, <2>2
<1>8. PICK k \in 0 .. size - 2 :
        /\ answer' = <<k>>
        /\ Planted(vec, index).input[k + 1] = Planted(vec, index).input[k + 2]
  BY <1>7
<1>9. \A j \in 1 .. size : Planted(vec', index).input[j] = Planted(vec, index).input[j]
  BY <1>3, <1>5, <1>6, PlantedAgain
<1>10. k + 1 \in 1 .. size /\ k + 2 \in 1 .. size
  BY <1>1
<1>11. answer'[1] = k /\ Planted(vec', index).input[k + 1] = Planted(vec', index).input[k + 2]
  BY <1>8, <1>9, <1>10
<1>12. IsPair' <=> /\ answer'[1] \in 0 .. size - 2
                   /\ Planted(vec', index).input[answer'[1] + 1] =
                        Planted(vec', index).input[answer'[1] + 2]
  BY <1>1, <1>4 DEF IsPair, Planted
<1> QED  BY <1>11, <1>12

LEMMA AnswersKept ==
  DataTypes /\ NumbersDrawn /\ VectorsMade /\ Answered /\ [Next]_vars => Answered'
<1> SUFFICES ASSUME DataTypes, NumbersDrawn, VectorsMade, Answered, [Next]_vars
             PROVE  Answered'
  OBVIOUS
<1> USE DEF DataTypes
<1>1. /\ F' = F /\ bench' = bench /\ CallStep' = CallStep
      /\ OnSets' <=> OnSets
      /\ Comparable' <=> Comparable
  BY Fixed, FixedToo
<1>2. F = "right" => right'
  <2>1. CASE Call
    BY <2>1 DEF Call, Returns, Answered
  <2>2. CASE ~Call
    BY <2>2 DEF Answered, Next, Generate, Copy, Quiet, Draw, Note, Plant, Reset, Replant,
                Refill, Check, Returned, vars, data
  <2> QED  BY <2>1, <2>2
<1>3. ASSUME ~OnSets, Past(CallStep)'
      PROVE  /\ answer' \in WrongReturns'
             /\ Comparable => (right' <=> answer' = WhatIsRight')
             /\ bench = "adjacent_find" /\ F = "right" => IsPair'
  <2>1. CASE UNCHANGED vars
    <3>1. Past(CallStep) /\ index' = index /\ answer' = answer /\ UNCHANGED right
      BY <1>1, <1>3, <2>1 DEF vars, control, data, Past
    <3>2. IsPair' <=> IsPair
      BY <2>1 DEF vars, control, data, IsPair, Planted
    <3> QED  BY <1>3, <3>1, <3>2, RightStays DEF Answered, WhatIsRight
  <2>2. CASE ~UNCHANGED vars
    <3>1. Past(CallStep) \/ (phase = "body" /\ at = CallStep)
      BY <1>1, <1>3, <2>2, PastAfter, StepNumbers DEF Past
    <3>2. ~Draw
      <4>1. Draws => DrawStep < CallStep
        BY DEF Draws, DrawStep, CallStep, Plants, Planting
      <4>2. CallStep \in Nat /\ DrawStep \in Nat
        BY DEF CallStep, DrawStep
      <4> QED  BY <3>1, <4>1, <4>2, Places DEF Past
    <3>3. index' = index
      BY <3>2, NumbersStay
    <3>4. WhatIsRight' = WhatIsRight /\ WrongReturns' = WrongReturns
      BY <3>3, RightStays
    <3>5. CASE phase = "body" /\ at = CallStep
      <4>1. Call
        BY <2>2, <3>5, StepsDiffer
      <4>2. At({"timed"})
        BY <1>3, <3>5, <4>1, Places DEF Call, At, Calls
      <4> QED  BY <1>3, <2>2, <3>4, <4>1, <4>2, AnswersKnown, PairStays
    <3>6. CASE Past(CallStep) /\ ~(phase = "body" /\ at = CallStep)
      <4>1. ~Call
        BY <1>3, <3>6, Places DEF Call, At, Calls
      <4>2. answer' = answer /\ UNCHANGED right
        BY <4>1 DEF Next, Generate, Copy, Quiet, Draw, Note, Plant, Reset, Replant, Refill,
                    Check, Returned, vars, data
      <4>3. /\ answer \in WrongReturns
            /\ Comparable => (right <=> answer = WhatIsRight)
        BY <1>3, <3>6 DEF Answered, WhatIsRight
      <4>4. bench = "adjacent_find" /\ F = "right" => IsPair'
        BY <1>3, <2>2, <3>6, PairStays
      <4> QED  BY <3>4, <4>2, <4>3, <4>4
    <3> QED  BY <3>1, <3>5, <3>6
  <2> QED  BY <2>1, <2>2
<1> QED  BY <1>1, <1>2, <1>3 DEF Answered, WhatIsRight

(* The inductive invariant of all that does not need elements to be        *)
(* numbers.                                                                *)
SoFar == DataTypes /\ NumbersDrawn /\ VectorsMade /\ Answered

LEMMA SoFarHolds == Spec => []SoFar
<1>1. Init => SoFar
  BY InitTypes, InitNumbers, InitVectors, InitAnswers DEF SoFar
<1>2. SoFar /\ [Next]_vars => SoFar'
  BY TypesKept, NumbersKept, VectorsKept, AnswersKept DEF SoFar
<1> QED  BY <1>1, <1>2, PTL DEF Spec

(* EveryIterationAsksTheSame: no timed call sees anything of the plants,   *)
(* resets and outputs of earlier iterations, however many there were.      *)
THEOREM SameQuestion == Spec => []EveryIterationAsksTheSame
<1>1. SoFar => EveryIterationAsksTheSame
  <2> SUFFICES ASSUME SoFar, phase = "body", At({"timed"}), Comparable
               PROVE  vec = Fresh
    BY DEF EveryIterationAsksTheSame, Comparable
  <2> USE DEF SoFar
  <2>1. Fresh = Asked
    BY DEF Fresh, Asked, Clean
  <2>2. CASE ~OnSets
    BY <2>1, <2>2, VectorsAtTheCall
  <2>3. CASE OnSets
    <3>1. ~Plants /\ bench # "find" /\ bench # "count"
      BY <2>3 DEF OnSets, SetOperations, Plants, Planting
    <3>2. at = 1
      BY <3>1, Places DEF CallStep, DataTypes
    <3>3. /\ vec = [data1 |-> iota, data2 |-> sub, output |-> vec.output]
          /\ vec.output = NaNs
      BY <2>3, <3>2 DEF VectorsMade, SetsStand, Emptied
    <3>4. Asked = [data1 |-> iota, data2 |-> sub, output |-> NaNs]
      BY <2>3, <3>1, TheInputs DEF Asked
    <3> QED  BY <2>1, <3>3, <3>4
  <2> QED  BY <2>2, <2>3
<1> QED  BY <1>1, SoFarHolds, PTL

(* PlantIsFound: the number drawn is in the bounds of what can be planted, *)
(* and the pair or mismatch planted there is the first one of the vectors, *)
(* for every size and every position.                                      *)
THEOREM PlantsAreFound == Spec => []PlantIsFound
<1>1. SoFar => PlantIsFound
  <2> SUFFICES ASSUME SoFar
               PROVE  /\ bench = "adjacent_find" => index <= size - 2
                      /\ phase = "body" /\ At({"timed"}) /\ Plants =>
                           /\ Right(vec, index)[1] <=
                                IF bench = "mismatch" /\ ~Exact THEN size ELSE index
                           /\ Exact => Right(vec, index) = <<index>>
    BY DEF PlantIsFound
  <2> USE DEF SoFar
  <2>1. size \in Nat /\ size >= 2
    BY Sizes2
  <2>2. ASSUME bench = "adjacent_find" PROVE index <= size - 2
    BY <2>1, <2>2 DEF NumbersDrawn, Drawn
  <2>3. ASSUME phase = "body", At({"timed"}), Plants
        PROVE  /\ Right(vec, index)[1] <= IF bench = "mismatch" /\ ~Exact THEN size ELSE index
               /\ Exact => Right(vec, index) = <<index>>
    <3>1. ~OnSets /\ Draws /\ DrawStep = 1 /\ CallStep = 5
      BY <2>3 DEF Plants, Planting, OnSets, SetOperations, Draws, DrawStep, CallStep
    <3>2. index \in Drawn
      <4>1. at = 5
        BY <2>3, <3>1, Places DEF DataTypes
      <4> QED  BY <2>3, <3>1, <4>1 DEF NumbersDrawn, Past
    <3>3. Comparable => vec = Planted(Clean, index)
      BY <2>3, <3>1, VectorsAtTheCall DEF Asked
    <3>4. CASE bench = "adjacent_find"
      <4>1. index \in 0 .. size - 2
        BY <3>2, <3>4 DEF Drawn
      <4>2. Exact => Right(vec, index) = <<index>>
        BY <3>3, <3>4, <4>1, ThePairIsFound DEF Comparable
      <4>3. Right(vec, index)[1] <= index
        <5>1. vec.input[index + 1] = vec.input[index + 2]
          BY <2>3, <3>1, <3>4, VectorsAtTheCall
        <5>2. PICK k \in 0 .. size - 2 : Right(vec, index) = <<k>> /\ k <= index
          BY <3>4, <4>1, <5>1, APairIsFound
        <5> QED  BY <5>2
      <4> QED  BY <3>4, <4>2, <4>3
    <3>5. CASE bench = "mismatch"
      <4>1. index \in 0 .. size - 1
        BY <3>2, <3>5 DEF Drawn
      <4>2. Exact => Right(vec, index) = <<index>>
        BY <3>3, <3>5, <4>1, TheMismatchIsFound DEF Comparable
      <4>3. Right(vec, index)[1] <= size
        <5>1. Right(vec, index) \in WrongReturns
          BY <3>1, <3>5, RightIsANumber
        <5>2. PICK k \in 0 .. size : Right(vec, index) = <<k>>
          BY <3>5, <5>1 DEF WrongReturns, SetOperations
        <5> QED  BY <2>1, <5>2
      <4>4. Exact => Right(vec, index)[1] <= index
        BY <4>1, <4>2
      <4> QED  BY <3>5, <4>2, <4>3, <4>4
    <3> QED  BY <2>3, <3>4, <3>5 DEF Plants, Planting
  <2> QED  BY <2>2, <2>3
<1> QED  BY <1>1, SoFarHolds, PTL

-----------------------------------------------------------------------------
(* The verdict.                                                            *)

(* What the verification looks at.                                         *)
LEMMA AtTheCheck ==
  ASSUME SoFar, phase = "check", ~OnSets
  PROVE  /\ Draws => last = index /\ index \in Drawn
         /\ Comparable => /\ vec = IF InPlace THEN Asked ELSE Clean
                          /\ right <=> answer = WhatIsRight
         /\ InPlace <=> bench = "mismatch" \/ answer[1] >= 0
         /\ answer \in WrongReturns /\ answer[1] \in Int /\ answer = <<answer[1]>>
<1>1. Past(CallStep) /\ Past(DrawStep) /\ Past(NoteStep)
  BY DEF Past
<1>2. Draws => last = index /\ index \in Drawn
  BY <1>1 DEF SoFar, NumbersDrawn
<1>3. answer \in WrongReturns /\ answer[1] \in Int /\ answer = <<answer[1]>>
  BY <1>1, AnswerIsANumber DEF SoFar, Answered
<1>4. Comparable => /\ vec = IF InPlace THEN Asked ELSE Clean
                    /\ right <=> answer = WhatIsRight
  BY <1>1 DEF SoFar, VectorsMade, VectorsAsAsked, Answered, WhatIsRight
<1>5. InPlace <=> bench = "mismatch" \/ answer[1] >= 0
  BY DEF InPlace
<1> QED  BY <1>2, <1>3, <1>4, <1>5

(* Where no two different numbers are equivalent, a pass needs the answer  *)
(* there is.                                                               *)
LEMMA PassedIsRight ==
  ASSUME SoFar, phase = "check", ~OnSets, bench # "equal", ~type.floating, Passes
  PROVE  right
<1>1. Exact /\ Comparable /\ size \in Nat /\ size >= 2
  BY IntegersAreExact, Sizes2 DEF Comparable, SoFar
<1>2. bench \notin SetOperations
  BY DEF OnSets
<1>3. SUFFICES answer = WhatIsRight
  BY <1>1, AtTheCheck
<1>4. \A x, y : Equivalent(x, y) <=> x = y
  BY DEF Equivalent, ElementsEquivalent
<1>5. DOMAIN iota = 1 .. size /\ \A k \in 1 .. size : iota[k] = k
  BY <1>1, IotaCounts DEF SoFar
<1>6. CASE bench = "adjacent_find"
  <2>1. answer[1] >= 0 /\ vec.input[answer[1] + 1] = vec.input[answer[1] + 2]
    BY <1>2, <1>4, <1>6 DEF Passes
  <2>2. vec = Planted(Clean, index) /\ Asked = Planted(Clean, index)
    BY <1>1, <1>6, <2>1, AtTheCheck DEF Asked, Plants, Planting
  <2>3. index \in 0 .. size - 2
    BY <1>6, AtTheCheck DEF Draws, Planting, Drawn
  <2>4. answer[1] \in 0 .. size - 2
    <3>1. answer \in {<<k>> : k \in -1 .. size - 2}
      BY <1>6, <1>2, AtTheCheck DEF WrongReturns
    <3>2. PICK k \in -1 .. size - 2 : answer = <<k>>
      BY <3>1
    <3> QED  BY <1>1, <2>1, <3>2
  <2>5. answer[1] = index /\ WhatIsRight = <<index>>
    BY <1>1, <1>6, <2>1, <2>2, <2>3, <2>4, ThePairIsFound DEF SoFar, WhatIsRight
  <2> QED  BY <2>5, AtTheCheck
<1>7. CASE bench \in {"mismatch", "count"}
  <2>1. answer = Right(vec, last) /\ last = index
    BY <1>2, <1>7, AtTheCheck DEF Passes, Solution, Draws, Planting
  <2>2. vec = Asked
    <3>1. bench = "mismatch" => InPlace
      BY AtTheCheck
    <3>2. bench = "count" => Asked = Clean
      BY DEF Asked, Plants, Planting
    <3> QED  BY <1>1, <1>7, <3>1, <3>2, AtTheCheck
  <2> QED  BY <2>1, <2>2 DEF WhatIsRight
<1>8. CASE bench = "find"
  <2>1. answer[1] >= 0 /\ vec.input[answer[1] + 1] = Wanted(vec, last) /\ last = index
    BY <1>2, <1>4, <1>8, AtTheCheck DEF Passes, Draws
  <2>2. vec = [input |-> iota] /\ Asked = [input |-> iota]
    BY <1>1, <1>8, TheInputs, AtTheCheck DEF Asked, Plants, Planting
  <2>3. index \in 0 .. size - 1
    BY <1>8, AtTheCheck DEF Draws, Drawn
  <2>4. answer[1] \in 0 .. size - 1
    <3>1. answer \in {<<k>> : k \in -1 .. size - 1}
      BY <1>8, <1>2, AtTheCheck DEF WrongReturns
    <3>2. PICK k \in -1 .. size - 1 : answer = <<k>>
      BY <3>1
    <3> QED  BY <1>1, <2>1, <3>2
  <2>5. Wanted(vec, last) = index + 1 /\ Wanted(Asked, index) = index + 1
    <3>1. index + 1 \in 1 .. size
      BY <1>1, <2>3
    <3>2. Wanted(vec, last) = iota[index + 1] /\ Wanted(Asked, index) = iota[index + 1]
      BY <1>8, <2>1, <2>2 DEF Wanted
    <3> QED  BY <1>5, <3>1, <3>2
  <2>6. answer[1] = index
    <3>1. answer[1] + 1 \in 1 .. size /\ answer[1] \in Int
      BY <1>1, <2>4
    <3>2. iota[answer[1] + 1] = answer[1] + 1
      BY <1>5, <3>1
    <3>3. iota[answer[1] + 1] = index + 1
      BY <2>1, <2>2, <2>5
    <3> QED  BY ONLY <2>3, <3>1, <3>2, <3>3
  <2>7. WhatIsRight = <<index>>
    <3> DEFINE P == {k \in 0 .. size - 1 : Asked.input[k + 1] = Wanted(Asked, index)}
    <3>1. WhatIsRight = <<First(P, -1)>>
      BY <1>8 DEF WhatIsRight, Right
    <3>2. P = {index}
      <4>1. ASSUME NEW k \in 0 .. size - 1 PROVE Asked.input[k + 1] = k + 1
        <5>1. k + 1 \in 1 .. size
          BY <1>1
        <5> QED  BY <1>5, <2>2, <5>1
      <4>2. P = {k \in 0 .. size - 1 : k + 1 = index + 1}
        BY <2>5, <4>1
      <4> QED  BY <1>1, <2>3, <4>2
    <3> HIDE DEF P
    <3>3. P \subseteq Nat /\ P # {}
      BY <2>3, <3>2
    <3>4. First(P, -1) \in P
      BY <3>3, FirstIs
    <3> QED  BY <3>1, <3>2, <3>4
  <2> QED  BY <2>6, <2>7, AtTheCheck
<1>9. CASE bench = "search"
  <2>1. vec = [data1 |-> iota, data2 |-> sub] /\ Asked = vec
    BY <1>1, <1>9, TheInputs, AtTheCheck DEF Asked, Plants, Planting
  <2> DEFINE P == {k \in 0 .. size - Len(vec.data2) :
                     \A j \in DOMAIN vec.data2 : vec.data1[k + j] = vec.data2[j]}
             s == First(P, -1)
  <2>2. WhatIsRight = <<s>> /\ Solution = <<s>>
    BY <1>9, <2>1 DEF WhatIsRight, Right, Solution
  <2>3. \E k \in -1 .. size - 1 : answer = <<k>>
    BY <1>9, <1>2, AtTheCheck DEF WrongReturns
  <2>4. P \subseteq 0 .. size - 1 /\ P \subseteq Nat
    <3>1. Len(vec.data2) = size \div 2
      <4>1. size \div 2 \in Nat
        BY <1>1
      <4>2. Len(sub) = size \div 2
        BY <1>1, <4>1 DEF sub, generate_sub, generate_increment
      <4>3. vec.data2 = sub
        BY <2>1
      <4> QED  BY <4>2, <4>3
    <3> QED  BY <1>1, <3>1
  <2> HIDE DEF P
  <2>5. s = -1 \/ s \in 0 .. size - 1
    <3>1. (P = {} => s = -1) /\ (P # {} => s \in P)
      BY <2>4, FirstIs
    <3> QED  BY <2>4, <3>1
  <2>6. IF s < 0 \/ answer[1] < 0 THEN s < 0 /\ answer[1] < 0
        ELSE vec.data1[s + 1] = vec.data1[answer[1] + 1]
    BY <1>2, <1>4, <1>9, <2>2 DEF Passes
  <2>7. answer[1] = s
    <3>1. PICK k \in -1 .. size - 1 : answer = <<k>>
      BY <2>3
    <3>2. answer[1] = k
      BY <3>1
    <3>3. vec.data1 = iota
      BY <2>1
    <3>4. CASE s < 0 \/ k < 0
      BY <1>1, <2>5, <2>6, <3>2, <3>4
    <3>5. CASE ~(s < 0 \/ k < 0)
      <4>1. iota[s + 1] = iota[k + 1]
        BY <2>6, <3>2, <3>3, <3>5
      <4>2. s \in 0 .. size - 1 /\ k \in 0 .. size - 1
        BY <1>1, <2>5, <3>5
      <4>3. s + 1 \in 1 .. size /\ k + 1 \in 1 .. size
        BY <1>1, <4>2
      <4>4. iota[s + 1] = s + 1 /\ iota[k + 1] = k + 1
        BY <1>5, <4>3
      <4>5. s + 1 = k + 1
        BY <4>1, <4>4
      <4>6. s \in Int /\ k \in Int
        BY <1>1, <4>2
      <4> QED
        <5> HIDE DEF s
        <5>1. s = k
          BY ONLY <4>5, <4>6
        <5> QED  BY <3>2, <5>1
    <3> QED  BY <3>4, <3>5
  <2> QED  BY <2>2, <2>7, AtTheCheck
<1> QED  BY <1>2, <1>6, <1>7, <1>8, <1>9, Benches DEF SoFar, DataTypes, Planting

(* A verdict there is only in the end.                                     *)
Judged == (phase # "done" => verdict = "unset") /\ PassMeansRight

(* A verdict is given in one step, the last.                               *)
LEMMA VerdictGiven ==
  ASSUME DataTypes, [Next]_vars, ~UNCHANGED vars
  PROVE  /\ phase # "done"
         /\ Check => phase = "check" /\ phase' = "done" /\ right' = right
         /\ ~Check => verdict' = verdict
<1>1. phase # "done"
  BY OtherMoves DEF DataTypes
<1>2. Check => phase = "check" /\ phase' = "done" /\ right' = right
  <2>1. Check => phase = "check" /\ at = Len(prog.check) /\ right' = right
    BY Places DEF Check, DataTypes
  <2>2. Len(prog.check) \in Nat
    BY Lengths DEF DataTypes
  <2> QED  BY <2>1, <2>2, OtherMoves DEF DataTypes
<1>3. ~Check => verdict' = verdict
  BY DEF Next, Generate, Copy, Quiet, Draw, Note, Plant, Call, Reset, Replant, Refill,
         Returned, vars, data
<1> QED  BY <1>1, <1>2, <1>3

(* PassMeansRight: in an integer type no wrong answer of the last timed    *)
(* call is passed, except by equal and the set operations, which verify    *)
(* something else.                                                         *)
THEOREM PassesAreRight == Spec => []PassMeansRight
<1>1. Init => Judged
  BY DEF Init, ControlInit, Judged, PassMeansRight
<1>2. SoFar /\ Judged /\ [Next]_vars => Judged'
  <2> SUFFICES ASSUME SoFar, Judged, [Next]_vars PROVE Judged'
    OBVIOUS
  <2> USE DEF SoFar
  <2>1. CASE UNCHANGED vars
    BY <2>1 DEF vars, control, data, Judged, PassMeansRight
  <2>2. CASE ~UNCHANGED vars
    <3>1. bench' = bench /\ type' = type
      BY Fixed
    <3>2. CASE Check
      <4>1. phase = "check" /\ phase' = "done" /\ right' = right
        BY <2>2, <3>2, VerdictGiven
      <4>2. ASSUME verdict' = "passed", ~type.floating, ~OnSets, bench # "equal" PROVE right
        <5>1. ~Overruns
          BY <4>2 DEF Overruns, OnSets
        <5>2. Passes
          BY <3>2, <4>2, <5>1 DEF Check
        <5> QED  BY <4>1, <4>2, <5>2, PassedIsRight
      <4> QED  BY <3>1, <4>1, <4>2 DEF Judged, PassMeansRight, OnSets
    <3>3. CASE ~Check
      BY <2>2, <3>3, VerdictGiven DEF Judged, PassMeansRight
    <3> QED  BY <3>2, <3>3
  <2> QED  BY <2>1, <2>2
<1>3. Judged => PassMeansRight
  BY DEF Judged
<1> QED  BY <1>1, <1>2, <1>3, SoFarHolds, PTL DEF Spec

-----------------------------------------------------------------------------
(* Elements are numbers.                                                   *)

(* NaN is in the vectors only where it was put.                            *)
LEMMA NumbersOfIota ==
  ASSUME Exponentiation, DataTypes
  PROVE  /\ \A k \in 1 .. size : iota[k] \in Int
         /\ \A k \in 1 .. size \div 2 : sub[k] \in Int
<1>1. size \in Nat /\ size \div 2 \in Nat /\ size \div 4 \in Int /\ IsElemType(type)
  BY Sizes2, DataAssumption DEF DataTypes
<1>2. ASSUME NEW s \in Int, NEW i \in Int PROVE body(type, s, 1, i) \in Int
  <2>1. Stored(type, i) * 1 \in Int
    BY <1>1, StoredIsANumber
  <2>2. Stored(type, Stored(type, i) * 1) \in Int
    BY <1>1, <2>1, StoredIsANumber
  <2>3. s + Stored(type, Stored(type, i) * 1) \in Int
    BY <2>2
  <2> QED  BY <1>1, <2>3, StoredIsANumber DEF body
<1>3. \A k \in 1 .. size : iota[k] = body(type, 1, 1, k - 1)
  BY DEF iota, generate_iota, generate_increment
<1>4. \A k \in 1 .. size \div 2 : sub[k] = body(type, Stored(type, size \div 4), 1, k - 1)
  BY DEF sub, generate_sub, generate_increment
<1>5. Stored(type, size \div 4) \in Int
  BY <1>1, StoredIsANumber
<1>6. ASSUME NEW k \in 1 .. size PROVE iota[k] \in Int
  <2>1. k - 1 \in Int /\ 1 \in Int
    BY <1>1
  <2>2. body(type, 1, 1, k - 1) \in Int
    BY <1>2, <2>1
  <2> QED  BY <1>3, <2>2
<1>7. ASSUME NEW k \in 1 .. size \div 2 PROVE sub[k] \in Int
  <2>1. k - 1 \in Int
    BY <1>1
  <2>2. body(type, Stored(type, size \div 4), 1, k - 1) \in Int
    BY <1>2, <1>5, <2>1
  <2> QED  BY <1>4, <2>2
<1> QED  BY <1>6, <1>7

(* A number is equivalent to itself.                                       *)
LEMMA SameIsEquivalent == ASSUME NEW x \in Int PROVE Equivalent(x, x)
<1>1. x # NaN /\ x - x = 0 /\ std_abs(0) = 0
  BY NaNAssumption DEF std_abs
<1> QED  BY <1>1 DEF Equivalent, ElementsEquivalent, FloatsEquivalent, DefaultTolerance

(* What the resets of adjacent_find leave are numbers of the type.         *)
NumbersStored ==
  phase # "pre" /\ bench = "adjacent_find" => \A k \in 1 .. size : vec.input[k] \in Int

LEMMA NumbersStoredKept ==
  ASSUME Exponentiation, SoFar, NumbersStored, [Next]_vars
  PROVE  NumbersStored'
<1> SUFFICES ASSUME phase' # "pre", bench = "adjacent_find"
             PROVE  \A k \in 1 .. size : vec'.input[k] \in Int
  BY Fixed DEF NumbersStored
<1> USE DEF SoFar
<1>1. Plants /\ size \in Nat /\ IsElemType(type)
  BY Sizes2, DataAssumption DEF Plants, Planting, DataTypes
<1>2. CASE UNCHANGED vars
  BY <1>2 DEF vars, control, data, NumbersStored
<1>3. CASE phase = "pre" /\ ~UNCHANGED vars
  <2>1. vec' = [input |-> iota]
    BY <1>3, VectorsGenerated, TheInputs DEF VectorsMade
  <2> QED  BY <2>1, NumbersOfIota
<1>4. CASE phase # "pre" /\ ~UNCHANGED vars
  <2>1. \A k \in 1 .. size : vec.input[k] \in Int
    BY <1>4 DEF NumbersStored
  <2>2. DOMAIN vec = {"input"} /\ DOMAIN vec.input = 1 .. size
    BY <1>4 DEF VectorsMade, PairStands
  <2>3. CASE vec' = vec
    BY <2>1, <2>3
  <2>4. CASE index \in Drawn /\ vec' = Planted(vec, index)
    <3>1. index \in 0 .. size - 2 /\ index + 2 \in 1 .. size
      BY <1>1, <2>4 DEF Drawn
    <3> QED  BY <2>1, <2>2, <2>4, <3>1, PlantingAPair
  <2>5. CASE index \in Drawn /\ Reset
    <3>1. index \in 0 .. size - 2 /\ index + 2 \in 1 .. size
      BY <1>1, <2>5 DEF Drawn
    <3>2. vec.input[index + 2] - 1 \in Int
      BY <2>1, <3>1
    <3>3. Stored(type, vec.input[index + 2] - 1) \in Int
      BY <1>1, <3>2, StoredIsANumber
    <3>4. vec' = [vec EXCEPT !.input =
                    [vec.input EXCEPT ![index + 1] = Stored(type, vec.input[index + 2] - 1)]]
      BY <1>1, <2>5 DEF Reset, Unplanted
    <3> QED  BY <2>1, <2>2, <3>3, <3>4
  <2> QED  BY <1>1, <1>4, <2>3, <2>4, <2>5, PlantsComeAndGo
<1> QED  BY <1>2, <1>3, <1>4

(* The verification of a right answer.                                     *)
LEMMA RightPasses ==
  ASSUME Exponentiation, SoFar, NumbersStored, phase = "check", ~OnSets, F = "right"
  PROVE  Passes
<1> USE DEF SoFar
<1>1. size \in Nat /\ size >= 2 /\ right
  BY Sizes2 DEF Answered
<1>2. bench \notin SetOperations
  BY DEF OnSets
<1>3. DOMAIN iota = 1 .. size /\ \A k \in 1 .. size : iota[k] \in Int
  BY IotaCounts, NumbersOfIota
<1>4. CASE bench = "adjacent_find"
  <2>1. IsPair
    BY <1>4 DEF Answered, Past
  <2>2. answer[1] \in 0 .. size - 2 /\ answer[1] + 1 \in 1 .. size /\ answer[1] + 2 \in 1 .. size
    BY <1>1, <2>1 DEF IsPair
  <2>3. InPlace
    BY <1>4, <2>2, AtTheCheck
  <2>4. index \in 0 .. size - 2
    BY <1>4, AtTheCheck DEF Draws, Planting, Drawn
  <2>5. /\ DOMAIN vec = {"input"} /\ DOMAIN vec.input = 1 .. size
        /\ vec.input[index + 1] = vec.input[index + 2]
    BY <1>4, <2>3 DEF VectorsMade, PairStands
  <2>6. \A k \in 1 .. size : Planted(vec, index).input[k] = vec.input[k]
    BY <1>4, <2>4, <2>5, PlantingAPair
  <2>7. vec.input[answer[1] + 1] = vec.input[answer[1] + 2]
    BY <2>1, <2>2, <2>6 DEF IsPair
  <2>8. vec.input[answer[1] + 2] \in Int
    BY <1>4, <2>2 DEF NumbersStored
  <2> QED  BY <1>4, <2>2, <2>7, <2>8, SameIsEquivalent DEF Passes
<1>5. CASE bench # "adjacent_find"
  <2>1. vec = IF InPlace THEN Asked ELSE Clean
    BY <1>5, AtTheCheck DEF Comparable
  <2>2. answer = WhatIsRight
    BY <1>1, <1>5, AtTheCheck DEF Comparable
  <2>3. vec = Asked
    <3>1. bench = "mismatch" => InPlace
      BY AtTheCheck
    <3>2. bench # "mismatch" => Asked = Clean
      BY <1>5 DEF Asked, Plants, Planting
    <3> QED  BY <2>1, <3>1, <3>2
  <2>4. CASE bench \in {"mismatch", "count"}
    <3>1. last = index
      BY <2>4, AtTheCheck DEF Draws, Planting
    <3>2. answer = Solution
      BY <2>2, <2>3, <3>1 DEF WhatIsRight, Solution
    <3> QED  BY <2>4, <3>2 DEF Passes
  <2>5. CASE bench = "find"
    <3>1. last = index /\ index \in 0 .. size - 1
      BY <2>5, AtTheCheck DEF Draws, Drawn
    <3>2. vec = [input |-> iota]
      BY <2>3, <2>5, TheInputs DEF Asked, Plants, Planting
    <3> DEFINE P == {k \in 0 .. size - 1 : vec.input[k + 1] = Wanted(vec, index)}
    <3>3. answer = <<First(P, -1)>>
      BY <2>2, <2>3, <2>5 DEF WhatIsRight, Right
    <3>4. First(P, -1) \in P
      <4>1. index \in P
        BY <2>5, <3>1 DEF Wanted
      <4>2. P \subseteq Nat /\ P # {}
        BY <1>1, <4>1
      <4> HIDE DEF P
      <4> QED  BY <4>2, FirstIs
    <3>5. /\ answer[1] \in 0 .. size - 1
          /\ vec.input[answer[1] + 1] = Wanted(vec, last)
      BY <3>1, <3>3, <3>4
    <3>6. vec.input[answer[1] + 1] \in Int
      <4>1. answer[1] + 1 \in 1 .. size
        BY <1>1, <3>5
      <4> QED  BY <1>3, <3>2, <4>1
    <3>7. Equivalent(vec.input[answer[1] + 1], Wanted(vec, last))
      BY <3>5, <3>6, SameIsEquivalent
    <3> QED  BY <2>5, <3>5, <3>7 DEF Passes
  <2>6. CASE bench = "search"
    <3>1. vec = [data1 |-> iota, data2 |-> sub]
      BY <2>3, <2>6, TheInputs DEF Asked, Plants, Planting
    <3>2. Solution = answer
      BY <2>2, <2>3, <2>6 DEF WhatIsRight, Solution, Right
    <3>3. PICK k \in -1 .. size - 1 : answer = <<k>>
      <4>1. answer \in {<<k>> : k \in -1 .. size - 1}
        BY <1>2, <2>6, AtTheCheck DEF WrongReturns
      <4> QED  BY <4>1
    <3>4. answer[1] = k /\ Solution[1] = k
      BY <3>2, <3>3
    <3>5. CASE k < 0
      BY <2>6, <3>4, <3>5 DEF Passes
    <3>6. CASE ~(k < 0)
      <4>1. k + 1 \in 1 .. size /\ vec.data1 = iota
        BY <1>1, <3>1, <3>6
      <4>2. Equivalent(vec.data1[k + 1], vec.data1[k + 1])
        BY <1>3, <4>1, SameIsEquivalent
      <4> QED  BY <2>6, <3>4, <3>6, <4>2 DEF Passes
    <3> QED  BY <3>5, <3>6
  <2>7. CASE bench = "equal"
    <3>1. vec = [data1 |-> iota, data2 |-> iota]
      BY <2>3, <2>7, TheInputs DEF Asked, Plants, Planting
    <3> QED  BY <2>7, <3>1 DEF Passes
  <2> QED  BY <1>2, <1>5, <2>4, <2>5, <2>6, <2>7, Benches DEF DataTypes, Planting
<1> QED  BY <1>4, <1>5

-----------------------------------------------------------------------------
(* The set operations.                                                     *)

UpTo(P, i) == {j \in P : j <= i}

(* A set of positions has a k-th member.                                   *)
LEMMA KthMember ==
  ASSUME NEW n \in Nat, NEW P, P \subseteq 1 .. n, NEW k \in 1 .. Cardinality(P)
  PROVE  \E i \in P : Cardinality(UpTo(P, i)) = k
<1> DEFINE Up(i) == {j \in P : j <= i}
           S == {i \in 1 .. n : k <= Cardinality(Up(i))}
<1>1. IsFiniteSet(P) /\ Cardinality(P) \in Nat
  <2>1. IsFiniteSet(1 .. n)
    BY FS_Interval
  <2> QED  BY <2>1, FS_Subset, FS_CardinalityType
<1>2. ASSUME NEW i PROVE IsFiniteSet(Up(i)) /\ Cardinality(Up(i)) \in Nat
  <2>1. Up(i) \in SUBSET P
    OBVIOUS
  <2> QED  BY <1>1, <2>1, FS_Subset, FS_CardinalityType
<1>3. n \in S
  <2>1. Up(n) = P
    <3>1. \A j \in P : j <= n
      OBVIOUS
    <3> QED  BY <3>1
  <2>2. n # 0
    <3>1. ASSUME n = 0 PROVE FALSE
      <4>1. P = {}
        BY <3>1
      <4>2. Cardinality(P) = 0
        BY <4>1, FS_EmptySet
      <4> QED  BY <4>2
    <3> QED  BY <3>1
  <2>3. n \in 1 .. n /\ k <= Cardinality(P)
    BY <1>1, <2>2
  <2>4. k <= Cardinality(Up(n))
    BY <2>1, <2>3
  <2> HIDE DEF Up
  <2> QED  BY <2>3, <2>4
<1>4. PICK i \in S : \A j \in S : i <= j
  <2>1. S \subseteq Nat
    OBVIOUS
  <2> HIDE DEF S
  <2> QED  BY <1>3, <2>1, Least
<1>5. i \in 1 .. n /\ k <= Cardinality(Up(i))
  BY <1>4
<1>6. Cardinality(Up(i - 1)) < k
  <2>1. CASE i = 1
    <3>1. Up(i - 1) = {}
      <4>1. \A j \in P : ~(j <= i - 1)
        BY <2>1
      <4> QED  BY <4>1
    <3>2. Cardinality(Up(i - 1)) = 0
      BY <3>1, FS_EmptySet
    <3> HIDE DEF Up
    <3> QED  BY <3>2
  <2>2. CASE i # 1
    <3>1. i - 1 \in 1 .. n /\ ~(i <= i - 1)
      BY <1>5, <2>2
    <3>2. i - 1 \notin S
      BY <1>4, <3>1
    <3>3. ~(k <= Cardinality(Up(i - 1)))
      BY <3>1, <3>2
    <3>4. Cardinality(Up(i - 1)) \in Nat
      BY <1>2
    <3> HIDE DEF Up
    <3> QED  BY <3>3, <3>4
  <2> QED  BY <2>1, <2>2
<1>7. i \in P
  <2>1. CASE i \notin P
    <3>1. Up(i) = Up(i - 1)
      <4>1. \A j \in P : j <= i <=> j <= i - 1
        BY <1>5, <2>1
      <4> QED  BY <4>1
    <3>2. Cardinality(Up(i)) \in Nat
      BY <1>2
    <3> HIDE DEF Up
    <3> QED  BY <1>5, <1>6, <3>1, <3>2
  <2> QED  BY <2>1
<1>8. Up(i) = Up(i - 1) \union {i} /\ i \notin Up(i - 1)
  <2>1. \A j \in P : j <= i <=> j <= i - 1 \/ j = i
    BY <1>5
  <2>2. ~(i <= i - 1)
    BY <1>5
  <2> QED  BY <1>7, <2>1, <2>2
<1>9. Cardinality(Up(i)) = Cardinality(Up(i - 1)) + 1
  <2>1. IsFiniteSet(Up(i - 1))
    BY <1>2
  <2> HIDE DEF Up
  <2> QED  BY <1>8, <2>1, FS_AddElement
<1>10. Cardinality(Up(i)) = k
  <2>1. Cardinality(Up(i)) \in Nat /\ Cardinality(Up(i - 1)) \in Nat
    BY <1>2
  <2> HIDE DEF Up
  <2> QED  BY <1>5, <1>6, <1>9, <2>1
<1> QED  BY <1>7, <1>10 DEF UpTo

(* So Pick is a sequence of elements, as many as there are positions.      *)
LEMMA Picked ==
  ASSUME NEW n \in Nat, NEW P, P \subseteq 1 .. n, NEW S, NEW a, \A i \in P : a[i] \in S
  PROVE  Cardinality(P) \in 0 .. n /\ Pick(a, P) \in [1 .. Cardinality(P) -> S]
<1> DEFINE Nth(k) == CHOOSE i \in P : Cardinality(UpTo(P, i)) = k
<1>1. Cardinality(P) \in 0 .. n
  <2>1. IsFiniteSet(1 .. n) /\ Cardinality(1 .. n) = n
    BY FS_Interval
  <2>2. IsFiniteSet(P) /\ Cardinality(P) <= n
    BY <2>1, FS_Subset
  <2>3. Cardinality(P) \in Nat
    BY <2>2, FS_CardinalityType
  <2> QED  BY <2>2, <2>3
<1>2. Pick(a, P) = [k \in 1 .. Cardinality(P) |-> a[Nth(k)]]
  BY DEF Pick, UpTo
<1>3. ASSUME NEW k \in 1 .. Cardinality(P) PROVE Nth(k) \in P
  <2>1. \E i \in P : Cardinality(UpTo(P, i)) = k
    BY KthMember
  <2> QED  BY <2>1
<1> HIDE DEF Nth
<1> QED  BY <1>1, <1>2, <1>3

(* The positions of the second input in the first.                         *)
Shared == size \div 4 .. size \div 4 + size \div 2 - 1

LEMMA SharedIs ==
  ASSUME DataTypes, SubIsWithin
  PROVE  /\ Shared \subseteq 1 .. size
         /\ IsFiniteSet(Shared) /\ Cardinality(Shared) = size \div 2
<1>1. size \in Nat /\ size >= 4
  BY Sizes2 DEF SubIsWithin
<1>2. /\ size \div 4 \in Nat /\ size \div 4 >= 1 /\ size \div 2 \in Nat /\ size \div 2 >= 1
      /\ size \div 4 + size \div 2 <= size
  BY <1>1
<1>3. Shared \subseteq 1 .. size
  BY <1>1, <1>2 DEF Shared
<1>4. IsFiniteSet(Shared) /\ Cardinality(Shared) = size \div 2
  <2> DEFINE a == size \div 4
             b == size \div 4 + size \div 2 - 1
  <2>1. a \in Int /\ b \in Int /\ Shared = a .. b /\ ~(a > b) /\ b - a + 1 = size \div 2
    BY <1>2 DEF Shared
  <2> HIDE DEF a, b
  <2>2. IsFiniteSet(a .. b) /\ Cardinality(a .. b) = IF a > b THEN 0 ELSE b - a + 1
    BY <2>1, FS_Interval
  <2> QED  BY <2>1, <2>2
<1> QED  BY <1>3, <1>4

LEMMA BeyondIs ==
  ASSUME DataTypes, Exact, SubIsWithin
  PROVE  Beyond(iota, sub) = 1 .. size \ Shared
<1>1. size \in Nat /\ size >= 4 /\ size \div 4 \in Nat /\ size \div 2 \in Nat
  BY Sizes2 DEF SubIsWithin
<1>2. DOMAIN iota = 1 .. size /\ \A k \in 1 .. size : iota[k] = k
  BY IotaCounts
<1>3. /\ DOMAIN sub = 1 .. size \div 2
      /\ \A k \in 1 .. size \div 2 : sub[k] = size \div 4 + k - 1
  BY SubCounts
<1>4. ASSUME NEW i \in 1 .. size
      PROVE  Occurrences(SubSeq(iota, 1, i), iota[i]) = 1
  <2> DEFINE s == SubSeq(iota, 1, i)
  <2>1. \A j \in 1 .. i : iota[j] = j /\ iota[j] \in Int
    BY <1>1, <1>2
  <2>2. /\ s \in Seq(Int) /\ Len(s) = i
        /\ \A j \in 1 .. i : s[j] = iota[1 + j - 1]
    <3>1. 1 \in Int /\ i \in Int /\ 1 <= i /\ i - 1 + 1 = i
      BY <1>1
    <3>2. /\ s \in Seq(Int) /\ Len(s) = i - 1 + 1
          /\ \A j \in 1 .. i - 1 + 1 : s[j] = iota[1 + j - 1]
      BY <2>1, <3>1, SubSeqProperties
    <3> QED  BY <3>1, <3>2
  <2> HIDE DEF s
  <2>3. DOMAIN s = 1 .. i
    BY <2>2
  <2>4. ASSUME NEW j \in 1 .. i PROVE s[j] = j
    <3>1. 1 + j - 1 = j
      BY <1>1
    <3> QED  BY <2>1, <2>2, <3>1
  <2>5. {j \in DOMAIN s : s[j] = iota[i]} = {i}
    BY <1>1, <1>2, <2>3, <2>4
  <2>6. Occurrences(s, iota[i]) = 1
    BY <2>5, FS_Singleton DEF Occurrences
  <2> QED  BY <2>6 DEF s
<1>5. ASSUME NEW i \in 1 .. size
      PROVE  Occurrences(sub, iota[i]) = IF i \in Shared THEN 1 ELSE 0
  <2> DEFINE P == {j \in DOMAIN sub : sub[j] = iota[i]}
  <2>1. P = {j \in 1 .. size \div 2 : size \div 4 + j - 1 = i}
    BY <1>2, <1>3
  <2>2. CASE i \in Shared
    <3>1. i - size \div 4 + 1 \in 1 .. size \div 2
      BY <1>1, <2>2 DEF Shared
    <3>2. P = {i - size \div 4 + 1}
      BY <1>1, <2>1, <3>1
    <3>3. Cardinality(P) = 1
      BY <3>2, FS_Singleton
    <3> QED  BY <2>2, <3>3 DEF Occurrences
  <2>3. CASE i \notin Shared
    <3>1. P = {}
      BY <1>1, <2>1, <2>3 DEF Shared
    <3>2. Cardinality(P) = 0
      BY <3>1, FS_EmptySet
    <3> QED  BY <2>3, <3>2 DEF Occurrences
  <2> QED  BY <2>2, <2>3
<1>6. ASSUME NEW i \in 1 .. size
      PROVE  Occurrences(SubSeq(iota, 1, i), iota[i]) > Occurrences(sub, iota[i])
               <=> i \notin Shared
  <2>1. CASE i \in Shared
    BY <1>4, <1>5, <2>1
  <2>2. CASE i \notin Shared
    BY <1>4, <1>5, <2>2
  <2> QED  BY <2>1, <2>2
<1>7. Beyond(iota, sub) =
        {i \in 1 .. size : Occurrences(SubSeq(iota, 1, i), iota[i]) > Occurrences(sub, iota[i])}
  BY <1>2 DEF Beyond
<1> QED  BY <1>6, <1>7

(* The positions of what a set operation finds.                            *)
Kept == IF bench = "set_difference" THEN Beyond(iota, sub) ELSE DOMAIN iota \ Beyond(iota, sub)

LEMMA KeptFits ==
  ASSUME DataTypes
  PROVE  /\ Kept \subseteq 1 .. size
         /\ Exact /\ SubIsWithin => Cardinality(Kept) = result_size
         /\ result_size \in 0 .. size
<1>1. size \in Nat /\ size >= 2 /\ size \div 2 \in 0 .. size /\ DOMAIN iota = 1 .. size
  BY Sizes2, IotaCounts
<1>2. Kept \subseteq 1 .. size
  BY <1>1 DEF Kept, Beyond
<1>3. result_size \in 0 .. size
  BY <1>1 DEF result_size
<1>4. ASSUME Exact, SubIsWithin PROVE Cardinality(Kept) = result_size
  <2>1. /\ Shared \subseteq 1 .. size /\ IsFiniteSet(Shared)
        /\ Cardinality(Shared) = size \div 2 /\ Beyond(iota, sub) = 1 .. size \ Shared
    BY <1>4, SharedIs, BeyondIs
  <2>2. CASE bench = "set_difference"
    <3>1. Kept = 1 .. size \ Shared
      BY <2>1, <2>2 DEF Kept
    <3>2. IsFiniteSet(1 .. size) /\ Cardinality(1 .. size) = size
      BY <1>1, FS_Interval
    <3>3. (1 .. size) \cap Shared = Shared
      BY <2>1
    <3>4. Cardinality(1 .. size \ Shared) = size - size \div 2
      <4>1. Cardinality(1 .. size \ Shared) =
              Cardinality(1 .. size) - Cardinality((1 .. size) \cap Shared)
        BY <3>2, FS_Difference
      <4> QED  BY <2>1, <3>2, <3>3, <4>1
    <3> QED  BY <2>2, <3>1, <3>4 DEF result_size
  <2>3. CASE bench # "set_difference"
    <3>1. Kept = Shared
      BY <1>1, <2>1, <2>3 DEF Kept
    <3> QED  BY <2>1, <2>3, <3>1 DEF result_size
  <2> QED  BY <2>2, <2>3
<1> QED  BY <1>2, <1>3, <1>4

(* What a set operation finds.                                             *)
Found == Pick(iota, Kept)

LEMMA FoundIs ==
  ASSUME Exponentiation, DataTypes
  PROVE  /\ Found \in Seq(Int) /\ Len(Found) = Cardinality(Kept) /\ Len(Found) <= size
         /\ Exact /\ SubIsWithin => Len(Found) = result_size
<1>1. size \in Nat /\ Kept \subseteq 1 .. size
  BY Sizes2, KeptFits
<1>2. \A i \in Kept : iota[i] \in Int
  BY <1>1, NumbersOfIota
<1>3. Cardinality(Kept) \in 0 .. size /\ Found \in [1 .. Cardinality(Kept) -> Int]
  BY <1>1, <1>2, Picked DEF Found
<1>4. Found \in Seq(Int) /\ Len(Found) = Cardinality(Kept)
  <2> DEFINE c == Cardinality(Kept)
  <2> HIDE DEF c
  <2>1. c \in Nat
    BY <1>1, <1>3 DEF c
  <2>3. DOMAIN Found = 1 .. c /\ Found \in [1 .. c -> Int]
    BY <1>3 DEF c
  <2>4. Found \in Seq(Int)
    BY <2>1, <2>3
  <2> QED  BY <2>1, <2>3, <2>4 DEF c
<1> QED  BY <1>1, <1>3, <1>4, KeptFits

LEMMA RightIsFound ==
  ASSUME OnSets, NEW d, d.data1 = iota, d.data2 = sub, NEW i
  PROVE  Right(d, i) = Found
BY DEF OnSets, SetOperations, Right, Found, Kept

(* What a set operation writes, and how much of it is compared.            *)
Written(a) == a \o SubSeq(NaNs, Len(a) + 1, size)

LEMMA WrittenIs ==
  ASSUME Exponentiation, DataTypes, NEW a \in {<<>>, Found}
  PROVE  /\ DOMAIN Written(a) = 1 .. size
         /\ Exact /\ SubIsWithin /\ a = Found => SubSeq(Written(a), 1, result_size) = Found
<1> DEFINE S == Int \union {NaN}
           rest == SubSeq(NaNs, Len(a) + 1, size)
<1>1. size \in Nat /\ size >= 2
  BY Sizes2
<1>2. a \in Seq(S) /\ Len(a) \in 0 .. size
  <2>1. CASE a = <<>>
    BY <1>1, <2>1
  <2>2. CASE a = Found
    <3>1. Found \in Seq(Int) /\ Len(Found) <= size /\ Len(Found) \in Nat
      BY FoundIs
    <3> QED  BY <1>1, <2>2, <3>1
  <2> QED  BY <2>1, <2>2
<1>3. \A k \in 1 .. size : NaNs[k] \in S
  BY DEF NaNs, make_buffer, quiet_NaN
<1> HIDE DEF S
<1>4. /\ rest \in Seq(S)
      /\ Len(rest) = size - Len(a)
  <2> DEFINE m == Len(a) + 1
  <2>1. m \in Int /\ size \in Int /\ \A k \in m .. size : NaNs[k] \in S
    BY <1>1, <1>2, <1>3
  <2>2. (IF m <= size THEN size - m + 1 ELSE 0) = size - Len(a)
    BY <1>1, <1>2
  <2> HIDE DEF m
  <2>3. /\ SubSeq(NaNs, m, size) \in Seq(S)
        /\ Len(SubSeq(NaNs, m, size)) = IF m <= size THEN size - m + 1 ELSE 0
    BY <2>1, SubSeqProperties
  <2> QED  BY <2>2, <2>3 DEF m
<1> HIDE DEF rest
<1>5. a \o rest \in Seq(S) /\ Len(a \o rest) = size
  <2>1. a \o rest \in Seq(S) /\ Len(a \o rest) = Len(a) + Len(rest)
    BY <1>2, <1>4, ConcatProperties
  <2> QED  BY <1>1, <1>2, <1>4, <2>1
<1>6. Written(a) = a \o rest
  BY DEF Written, rest
<1>7. DOMAIN Written(a) = 1 .. size
  BY <1>5, <1>6
<1>8. ASSUME Exact, SubIsWithin, a = Found
      PROVE  SubSeq(Written(a), 1, result_size) = Found
  <2>1. Len(a) = result_size
    BY <1>8, FoundIs
  <2>2. result_size >= 1
    BY <1>1, <1>8 DEF result_size, SubIsWithin
  <2>3. 1 \in 1 .. Len(a) /\ Len(a) \in 1 .. Len(a)
    BY <1>2, <2>1, <2>2
  <2>4. SubSeq(a \o rest, 1, Len(a)) = SubSeq(a, 1, Len(a))
    BY <1>2, <1>4, <2>3, SubSeqOfConcat1
  <2>5. SubSeq(a, 1, Len(a)) = a
    BY <1>2, SubSeqFull
  <2> QED  BY <1>6, <1>8, <2>1, <2>4, <2>5
<1> QED  BY <1>7, <1>8

LEMMA SetsPass ==
  ASSUME Exponentiation, SoFar, OnSets, Exact, SubIsWithin, phase # "pre",
         vec.output = Written(Found)
  PROVE  Passes /\ ~Overruns
<1> USE DEF SoFar
<1>1. vec.data1 = iota /\ vec.data2 = sub
  <2>1. vec = [data1 |-> iota, data2 |-> sub, output |-> vec.output]
    BY DEF VectorsMade, SetsStand
  <2> QED  BY <2>1
<1>2. Solution = Found
  BY <1>1, RightIsFound DEF Solution
<1>3. Found \in Seq(Int) /\ Len(Found) = result_size /\ result_size \in Nat
  BY FoundIs
<1>4. ~Overruns
  BY <1>2, <1>3 DEF Overruns
<1>5. SubSeq(vec.output, 1, result_size) = Found
  BY WrittenIs
<1>6. Solution \o SubSeq(NaNs, Len(Solution) + 1, result_size) = Found
  <2>1. SubSeq(NaNs, Len(Solution) + 1, result_size) = <<>>
    <3>1. Len(Solution) + 1 \in Int /\ result_size \in Int /\ result_size < Len(Solution) + 1
      BY <1>2, <1>3
    <3> QED  BY <3>1, SubSeqEmpty
  <2>2. Found \o <<>> = Found
    BY <1>3, ConcatEmptySeq
  <2> QED  BY <1>2, <2>1, <2>2
<1>7. are_equivalent(type, Found, Found, DefaultTolerance)
  <2>1. ASSUME NEW i \in DOMAIN Found
        PROVE  ElementsEquivalent(type, Found[i], Found[i], DefaultTolerance)
    <3>1. Found[i] \in Int
      BY <1>3
    <3> QED  BY <3>1, SameIsEquivalent DEF Equivalent
  <2> QED  BY <2>1 DEF are_equivalent
<1>8. Passes
  BY <1>5, <1>6, <1>7 DEF Passes, OnSets
<1> QED  BY <1>4, <1>8

(* The answers of the set operations, what is in their output, and which   *)
(* answers there are before the first call.                                *)
Answers ==
  IF OnSets
  THEN /\ answer \in {<<>>, Found}
       /\ phase # "pre" => DOMAIN vec.output = 1 .. size
       /\ phase = "check" /\ at = 3 => /\ vec.output = Written(answer)
                                       /\ F = "right" => answer = Found
  ELSE answer \in WrongReturns \union {<<>>}

LEMMA FoundStays == ASSUME [Next]_vars PROVE Found' = Found /\ NaNs' = NaNs
<1>1. bench' = bench /\ iota' = iota /\ sub' = sub /\ NaNs' = NaNs
  BY Fixed, FixedToo
<1>2. Kept' = Kept
  BY <1>1 DEF Kept
<1> QED  BY <1>1, <1>2 DEF Found

LEMMA AnswersStay ==
  ASSUME Exponentiation, SoFar, Answers, [Next]_vars
  PROVE  Answers'
<1> USE DEF SoFar, DataTypes
<1>1. /\ Found' = Found /\ NaNs' = NaNs /\ size' = size /\ F' = F /\ WrongReturns' = WrongReturns
      /\ OnSets' <=> OnSets
  <2>1. bench' = bench /\ size' = size
    BY Fixed
  <2>2. WrongReturns' = WrongReturns
    BY <2>1, Zenon DEF WrongReturns
  <2> QED  BY <2>1, <2>2, Fixed, FixedToo, FoundStays
<1>2. CASE ~OnSets
  <2>1. CASE Call
    <3>1. At({"timed"})
      BY <1>2, <2>1, Places DEF Call, At, Calls
    <3> QED  BY <1>1, <1>2, <2>1, <3>1, AnswersKnown DEF Answers
  <2>2. CASE ~Call
    <3>1. answer' = answer
      BY <2>2 DEF Next, Generate, Copy, Quiet, Draw, Note, Plant, Reset, Replant, Refill,
                  Check, Returned, vars, data
    <3> QED  BY <1>1, <1>2, <3>1 DEF Answers
  <2> QED  BY <2>1, <2>2
<1>3. CASE OnSets
  <2>1. bench \in SetOperations /\ ~Plants /\ CallStep = 1
    BY <1>3 DEF OnSets, SetOperations, Plants, Planting, CallStep
  <2>2. CASE UNCHANGED vars
    BY <1>1, <1>3, <2>2 DEF vars, control, data, Answers, Written
  <2>3. CASE Call
    <3>1. \/ phase = "body" /\ at = 1
          \/ phase = "check" /\ at = 2
      <4>1. At({"timed"}) \/ At({"kernel"})
        BY <2>3 DEF Call, At, Calls
      <4> QED  BY <2>1, <4>1, Places
    <3>2. /\ vec = [data1 |-> iota, data2 |-> sub, output |-> vec.output]
          /\ vec.output = NaNs
      BY <1>3, <3>1 DEF VectorsMade, SetsStand, Emptied
    <3>3. Right(vec, index) = Found
      <4>1. vec.data1 = iota /\ vec.data2 = sub
        BY <3>2
      <4> QED  BY <1>3, <4>1, RightIsFound
    <3>4. answer' \in {<<>>, Found} /\ (F = "right" => answer' = Found)
      <4>1. answer' \in {Right(vec, index)} \union (IF F = "right" THEN {} ELSE WrongReturns)
        BY <2>3 DEF Call, Returns
      <4>2. WrongReturns = {<<>>}
        <5>1. bench # "equal" /\ bench \notin {"mismatch", "count"} /\ bench # "adjacent_find"
          BY <2>1 DEF SetOperations
        <5> QED  BY <2>1, <5>1 DEF WrongReturns
      <4>3. answer' \in {Found} \union (IF F = "right" THEN {} ELSE {<<>>})
        BY <3>3, <4>1, <4>2
      <4> QED  BY <4>3
    <3>5. vec' = [vec EXCEPT !.output = Written(answer')]
      BY <2>1, <2>3, <3>2 DEF Call, Written
    <3>6. vec'.output = Written(answer')
      BY <3>2, <3>5
    <3>7. DOMAIN vec'.output = 1 .. size
      BY <3>4, <3>6, WrittenIs
    <3>8. Written(answer)' = Written(answer')
      BY <1>1 DEF Written
    <3> QED  BY <1>1, <1>3, <3>4, <3>6, <3>7, <3>8 DEF Answers
  <2>4. CASE ~Call /\ ~UNCHANGED vars
    <3>1. answer' = answer
      BY <2>4 DEF Next, Generate, Copy, Quiet, Draw, Note, Plant, Reset, Replant, Refill,
                  Check, Returned, vars, data
    <3>2. ~(phase' = "check" /\ at' = 3)
      <4>1. CASE phase = "check"
        <5>1. at = 2 => cur.op = "kernel"
          BY <1>3, <4>1, OtherSteps
        <5>2. at # 2
          BY <2>4, <4>1, <5>1
          DEF Next, Generate, Copy, Quiet, Draw, Note, Plant, Reset, Replant, Refill, Check,
              Returned, At
        <5>3. \/ at' = at + 1
              \/ phase' = "done"
          BY <2>4, <4>1, OtherMoves
        <5>4. at \in Nat
          BY DEF ControlOK
        <5> QED  BY <5>2, <5>3, <5>4
      <4>2. CASE phase # "check"
        BY <2>4, <4>2, OtherMoves DEF ControlOK, Phases, CodePhases
      <4> QED  BY <4>1, <4>2
    <3>3. ASSUME phase' # "pre" PROVE DOMAIN vec'.output = 1 .. size
      <4>1. CASE phase = "pre"
        <5>1. vec' = [data1 |-> iota, data2 |-> sub, output |-> NaNs]
          BY <1>3, <2>4, <3>3, <4>1, VectorsGenerated, TheInputs DEF VectorsMade
        <5> QED  BY <5>1 DEF NaNs, make_buffer
      <4>2. CASE phase # "pre"
        <5>1. DOMAIN vec.output = 1 .. size
          BY <1>3, <4>2 DEF Answers
        <5>2. CASE Reset \/ Refill
          <6>1. vec' = [vec EXCEPT !.output = NaNs]
            BY <2>1, <5>2 DEF Reset, Refill
          <6>2. vec = [data1 |-> iota, data2 |-> sub, output |-> vec.output]
            BY <1>3, <4>2 DEF VectorsMade, SetsStand
          <6>3. vec'.output = NaNs
            BY <6>1, <6>2
          <6> QED  BY <6>3 DEF NaNs, make_buffer
        <5>3. CASE ~Reset /\ ~Refill
          <6>1. vec' = vec
            BY <2>1, <2>4, <4>2, <5>3, Places
            DEF Next, Generate, Copy, Quiet, Draw, Note, Plant, Replant, Check, Returned,
                vars, data
          <6> QED  BY <5>1, <6>1
        <5> QED  BY <5>2, <5>3
      <4> QED  BY <4>1, <4>2
    <3> QED  BY <1>1, <1>3, <3>1, <3>2, <3>3 DEF Answers
  <2> QED  BY <2>2, <2>3, <2>4
<1> QED  BY <1>2, <1>3

(* Without a verification the wrapper is done without a verdict.           *)
LEMMA DoneUnchecked ==
  ASSUME ControlOK, [Next]_vars, ~UNCHANGED vars, phase # "check", phase' = "done"
  PROVE  ~verifying
<1>1. CASE phase \in CodePhases /\ Advance
  <2>1. \/ phase' = phase
        \/ phase' = PhaseAfter(phase)
    BY <1>1, Moves
  <2>2. phase # "done"
    BY OtherMoves
  <2>3. phase' = PhaseAfter(phase)
    BY <2>1, <2>2
  <2> QED  BY <1>1, <2>3 DEF PhaseAfter, CheckOrDone, CodePhases
<1>2. CASE phase \in {"lift", "drop"} /\ Leave
  <2>1. phase' = PhaseAfter(phase)
    BY <1>2 DEF Leave
  <2> QED  BY <1>2, <2>1 DEF PhaseAfter, CheckOrDone
<1> QED  BY <1>1, <1>2, StepOrLeave

(* What a right algorithm's answers lead to in the end.                    *)
DataInv == SoFar /\ NumbersStored /\ Answers /\ RightAlgorithmPasses

LEMMA CheckPasses ==
  ASSUME Exponentiation, DataInv, F = "right",
         bench \notin SetOperations \/ (SubIsWithin /\ Exact), Check
  PROVE  verdict' = "passed"
<1> USE DEF DataInv, SoFar, DataTypes
<1>1. phase = "check" /\ at = Len(prog.check)
  BY Places DEF Check
<1>2. Passes /\ ~Overruns
  <2>1. CASE ~OnSets
    BY <1>1, <2>1, RightPasses DEF Overruns, OnSets
  <2>2. CASE OnSets
    <3>1. at = 3
      BY <1>1, <2>2, Lengths
    <3>2. vec.output = Written(Found)
      BY <1>1, <2>2, <3>1 DEF Answers
    <3> QED  BY <1>1, <2>2, <3>2, SetsPass DEF OnSets
  <2> QED  BY <2>1, <2>2
<1> QED  BY <1>2 DEF Check

LEMMA RightVerdict ==
  ASSUME Exponentiation, DataInv, [Next]_vars
  PROVE  RightAlgorithmPasses'
<1> USE DEF DataInv, SoFar, DataTypes
<1>1. /\ bench' = bench /\ F' = F /\ verifying' = verifying /\ size' = size
      /\ Exact' <=> Exact
  BY Fixed, FixedToo
<1>2. CASE UNCHANGED vars
  BY <1>1, <1>2 DEF vars, control, data, RightAlgorithmPasses, SubIsWithin
<1>3. CASE ~UNCHANGED vars
  <2> SUFFICES ASSUME phase' = "done", verifying, F = "right",
                      bench \notin SetOperations \/ (SubIsWithin /\ Exact)
               PROVE  verdict' = "passed"
    BY <1>1 DEF RightAlgorithmPasses, SubIsWithin
  <2>1. phase = "check" /\ at = Len(prog.check)
    <3>1. phase = "check"
      BY <1>3, DoneUnchecked
    <3>2. Len(prog.check) \in Nat
      BY Lengths
    <3> QED  BY <1>3, <3>1, <3>2, OtherMoves
  <2>2. cur.op = "raw"
    <3>1. OnSets => at = 3
      BY <2>1, Lengths
    <3>2. ~(OnSets /\ at = 2)
      BY <3>1
    <3>3. ~(OnSets /\ at = 2) => cur.op = "raw"
      BY <2>1, OtherSteps
    <3> QED  BY <3>2, <3>3
  <2>3. Check
    <3>1. OnSets => at = 3
      BY <2>1, Lengths
    <3>2. ~Refill
      BY <3>1 DEF Refill, OnSets
    <3> QED
      BY <1>3, <2>1, <2>2, <3>2
      DEF Next, Generate, Copy, Quiet, Draw, Note, Plant, Call, Reset, Replant, Returned, At, Calls
  <2> QED  BY <2>3, CheckPasses
<1> QED  BY <1>2, <1>3

LEMMA DataInvHolds == ASSUME Exponentiation PROVE Spec => []DataInv
<1>1. ASSUME Init PROVE NumbersStored /\ Answers /\ RightAlgorithmPasses
  BY <1>1 DEF Init, ControlInit, NumbersStored, Answers, RightAlgorithmPasses
<1>2. DataInv /\ [Next]_vars => (NumbersStored /\ Answers /\ RightAlgorithmPasses)'
  BY NumbersStoredKept, AnswersStay, RightVerdict DEF DataInv
<1>3. DataInv <=> SoFar /\ NumbersStored /\ Answers /\ RightAlgorithmPasses
  BY DEF DataInv
<1>4. SoFar /\ [Next]_vars => SoFar'
  BY TypesKept, NumbersKept, VectorsKept, AnswersKept DEF SoFar
<1>5. Init => SoFar
  BY InitTypes, InitNumbers, InitVectors, InitAnswers DEF SoFar
<1>6. Init => DataInv
  BY <1>1, <1>5 DEF DataInv
<1>7. DataInv /\ [Next]_vars => DataInv'
  BY <1>2, <1>4 DEF DataInv
<1> QED  BY <1>6, <1>7, PTL DEF Spec

(* RightAlgorithmPasses: a right algorithm is never reported as wrong, in  *)
(* any element type, size and number of iterations; for the set operations *)
(* as long as the type is exact and the second input is not below 1.       *)
THEOREM RightAlgorithmsPass ==
  ASSUME Exponentiation PROVE Spec => []RightAlgorithmPasses
<1>1. DataInv => RightAlgorithmPasses
  BY DEF DataInv
<1> QED  BY <1>1, DataInvHolds, PTL

(* Planting, resetting and writing leave every vector its size.            *)
LEMMA VectorsHaveTheirSizes ==
  ASSUME Exponentiation, SoFar, Answers, NEW v \in DOMAIN vec
  PROVE  /\ v \in {"input", "data1", "data2", "output"}
         /\ DOMAIN vec[v] = 1 .. (IF bench \in SetOperations \union {"search"} /\ v = "data2"
                                  THEN size \div 2 ELSE size)
<1> USE DEF SoFar
<1>1. DOMAIN iota = 1 .. size /\ DOMAIN sub = 1 .. size \div 2
  <2>1. DOMAIN sub = 1 .. size \div 2
    BY DEF sub, generate_sub, generate_increment
  <2> QED  BY <2>1, IotaCounts
<1>2. CASE phase = "pre"
  <2>1. CASE vec = <<>>
    BY <2>1
  <2>2. CASE bench = "mismatch" /\ vec = [data1 |-> iota]
    BY <1>1, <2>2 DEF SetOperations
  <2> QED  BY <1>2, <2>1, <2>2 DEF VectorsMade, InputsMade
<1>3. CASE phase # "pre" /\ bench = "adjacent_find"
  BY <1>3 DEF VectorsMade, PairStands, SetOperations
<1>4. CASE phase # "pre" /\ OnSets
  <2>1. vec = [data1 |-> iota, data2 |-> sub, output |-> vec.output]
    BY <1>4 DEF VectorsMade, SetsStand
  <2>2. DOMAIN vec.output = 1 .. size
    BY <1>4 DEF Answers
  <2>3. vec.data1 = iota /\ vec.data2 = sub /\ v \in {"data1", "data2", "output"}
    BY <2>1
  <2> QED  BY <1>1, <1>4, <2>2, <2>3 DEF OnSets
<1>5. CASE phase # "pre" /\ bench # "adjacent_find" /\ ~OnSets
  <2>1. vec = IF InPlace THEN Asked ELSE Clean
    BY <1>5 DEF VectorsMade, VectorsAsAsked, Comparable
  <2>2. CASE bench = "mismatch"
    <3>1. vec \in {Asked, Clean} /\ Plants /\ Draws
      BY <2>1, <2>2 DEF Plants, Planting, Draws
    <3>2. Clean = [data1 |-> iota, data2 |-> iota]
      BY <2>2, TheInputs
    <3>3. CASE vec = Clean
      BY <1>1, <2>2, <3>2, <3>3 DEF SetOperations
    <3>4. CASE InPlace /\ vec = Asked
      <4>1. index \in 0 .. size - 1
        <5>1. Past(DrawStep)
          BY <2>2, <3>4 DEF InPlace, Past, DrawStep
        <5> QED  BY <2>2, <3>1, <5>1 DEF NumbersDrawn, Drawn
      <4>2. vec = [data1 |-> iota,
                   data2 |-> [iota EXCEPT ![index + 1] = Stored(type, iota[index + 1] + 1)]]
        BY <2>2, <3>1, <3>4, <4>1, PlantingAMismatch DEF Asked
      <4> QED  BY <1>1, <2>2, <4>2 DEF SetOperations
    <3> QED  BY <2>1, <3>3, <3>4
  <2>3. CASE bench # "mismatch"
    <3>1. vec = Clean
      BY <1>5, <2>1, <2>3 DEF Asked, Plants, Planting
    <3>2. CASE bench \in {"find", "count"}
      BY <1>1, <3>1, <3>2, TheInputs DEF SetOperations
    <3>3. CASE bench = "equal"
      BY <1>1, <3>1, <3>3, TheInputs DEF SetOperations
    <3>4. CASE bench = "search"
      <4>1. vec = [data1 |-> iota, data2 |-> sub]
        BY <3>1, <3>4, TheInputs
      <4> QED  BY <1>1, <3>4, <4>1
    <3> QED  BY <1>5, <2>3, <3>2, <3>3, <3>4, Benches DEF DataTypes, Planting, OnSets
  <2> QED  BY <2>2, <2>3
<1> QED  BY <1>2, <1>3, <1>4, <1>5

(* TypeOK: what wrappers keep has the types and sizes of the source's      *)
(* variables, after any steps.                                             *)
THEOREM DataTypeCorrect == ASSUME Exponentiation PROVE Spec => []TypeOK
<1>1. ASSUME DataInv PROVE TypeOK
  <2> USE <1>1 DEF DataInv, SoFar
  <2>1. size \in Nat
    BY Sizes2
  <2>2. index \in -1 .. size - 1 /\ last \in -1 .. size - 1
    <3>1. Drawn \subseteq 0 .. size - 1
      BY <2>1 DEF Drawn
    <3> QED  BY <2>1, <3>1 DEF NumbersDrawn
  <2>3. answer \in Seq(Int)
    <3>1. CASE OnSets
      <4>1. answer \in {<<>>, Found}
        BY <3>1 DEF Answers
      <4>2. Found \in Seq(Int) /\ <<>> \in Seq(Int)
        BY FoundIs
      <4> QED  BY <4>1, <4>2, Zenon
    <3>2. CASE ~OnSets
      <4>1. answer = <<>> \/ answer \in WrongReturns
        BY <3>2 DEF Answers
      <4>2. ASSUME answer \in WrongReturns PROVE \E k \in Int : answer = <<k>>
        <5>1. CASE bench = "equal"
          BY <4>2, <5>1 DEF WrongReturns, SetOperations
        <5>2. CASE bench \in {"mismatch", "count"}
          BY <2>1, <4>2, <5>2 DEF WrongReturns, SetOperations
        <5>3. CASE bench = "adjacent_find"
          BY <2>1, <4>2, <5>3 DEF WrongReturns, SetOperations
        <5>4. CASE bench \notin {"equal", "mismatch", "count", "adjacent_find"}
          BY <2>1, <3>2, <4>2, <5>4 DEF WrongReturns, OnSets
        <5> QED  BY <5>1, <5>2, <5>3, <5>4
      <4>3. \A k \in Int : <<k>> \in Seq(Int)
        OBVIOUS
      <4>4. <<>> \in Seq(Int)
        OBVIOUS
      <4> QED  BY <4>1, <4>2, <4>3, <4>4, Zenon
    <3> QED  BY <3>1, <3>2
  <2>4. \A v \in DOMAIN vec :
          /\ v \in {"input", "data1", "data2", "output"}
          /\ DOMAIN vec[v] = 1 .. (IF bench \in SetOperations \union {"search"} /\ v = "data2"
                                   THEN size \div 2 ELSE size)
    BY VectorsHaveTheirSizes
  <2> QED  BY <2>2, <2>3, <2>4 DEF TypeOK, DataTypes
<1>2. DataInv => TypeOK
  BY <1>1
<1> QED  BY <1>2, DataInvHolds, PTL

-----------------------------------------------------------------------------
(* The wrappers implement their programs.  A program of module Benchmarks  *)
(* names contents, "iota" or "pair", where module Data has elements; what  *)
(* follows finds at every step the contents the step is written for, and   *)
(* behind it the contents it leaves.                                       *)

(* What the step the wrapper is at is written for.                         *)
Step(n, g) == cur.needs = n /\ cur.gives = g

(* Both modules run the same programs under the same control.              *)
LEMMA SameControl ==
  /\ Reference!control = control
  /\ Reference!cur = cur
  /\ Reference!ControlInit <=> ControlInit
  /\ Reference!Leave <=> Leave
  /\ Reference!Advance <=> Advance
  /\ \A ops : Reference!At(ops) <=> At(ops)
  /\ \A s, m : Reference!Effect(s, m) = Effect(s, m)
<1>1. Reference!prog = prog  BY DEF Reference!prog, prog
<1>2. Reference!cur = cur  BY <1>1 DEF Reference!cur, cur
<1>3. \A ph : Reference!PhaseAfter(ph) = PhaseAfter(ph)
  BY <1>1 DEF Reference!PhaseAfter, PhaseAfter, Reference!CheckOrDone, CheckOrDone
<1>4. Reference!Leave <=> Leave  BY <1>3 DEF Reference!Leave, Leave
<1>5. Reference!Advance <=> Advance  BY <1>1, <1>4 DEF Reference!Advance, Advance
<1>6. \A ops : Reference!At(ops) <=> At(ops)
  BY <1>2 DEF Reference!At, At, Reference!CodePhases, CodePhases
<1>7. \A s, m : Reference!Effect(s, m) = Effect(s, m)
  BY DEF Reference!Effect, Effect, Reference!Met, Met
<1>8. QED
  BY <1>2, <1>4, <1>5, <1>6, <1>7
  DEF Reference!control, control, Reference!ControlInit, ControlInit

(* The steps of a wrapper are those of its file, one lemma per file.       *)
LEMMA TheFile ==
  ASSUME ControlOK
  PROVE  bench \in DOMAIN HostWrappers /\ prog = HostWrappers[bench]
BY FilesAssumption DEF ControlOK, prog

(* A step of code that finds its inputs and leaves what it is said to.     *)
LEMMA WorksOnTags ==
  ASSUME \A v \in DOMAIN cur.needs : v \in Loc /\ Held(v) \in cur.needs[v],
         \A v \in DOMAIN cur.gives : Held(v)' = cur.gives[v],
         \A v : v \notin DOMAIN cur.gives => Held(v)' = Held(v)
  PROVE  Mem' = Effect(cur, Mem)
<1>1. Met(cur, Mem)
  BY DEF Met, Mem
<1>2. Effect(cur, Mem) = [v \in Loc |-> IF v \notin DOMAIN cur.gives THEN Mem[v] ELSE cur.gives[v]]
  BY <1>1 DEF Effect
<1>3. \A v \in Loc : Held(v)' = IF v \notin DOMAIN cur.gives THEN Mem[v] ELSE cur.gives[v]
  BY DEF Mem
<1>4. Mem' = [v \in Loc |-> Held(v)']
  BY DEF Mem
<1> QED  BY <1>2, <1>3, <1>4

(* A step as its file writes it.                                           *)
LEMMA WrittenAsSteps ==
  \A n, g : /\ Files!Raw(n, g).needs = n /\ Files!Raw(n, g).gives = g
            /\ Files!Kernel(n, g).needs = n /\ Files!Kernel(n, g).gives = g
            /\ Files!Timed(n, g).needs = n /\ Files!Timed(n, g).gives = g
            /\ \A op : Files!Does(op, n, g).needs = n /\ Files!Does(op, n, g).gives = g
BY DEF Files!Raw, Files!Kernel, Files!Timed, Files!Does

(* The bodies are put together of several sequences.                       *)
LEMMA Join ==
  ASSUME NEW S, NEW s \in Seq(S), NEW t \in Seq(S), NEW u \in Seq(S),
         Len(u) = Len(s) + Len(t),
         \A i \in 1 .. Len(u) : u[i] = IF i <= Len(s) THEN s[i] ELSE t[i - Len(s)]
  PROVE  s \o t = u
<1>1. s \o t \in Seq(S) /\ Len(s \o t) = Len(s) + Len(t)
  BY ConcatProperties
<1>2. \A i \in 1 .. Len(u) : (s \o t)[i] = u[i]
  BY ConcatProperties
<1> QED  BY <1>1, <1>2, SeqEqual

LEMMA JoinedAfter ==
  ASSUME NEW a, NEW b, NEW c, NEW d, NEW e
  PROVE  <<a, b, c>> \o <<d, e>> = <<a, b, c, d, e>>
<1> DEFINE S == {a, b, c, d, e}
<1>1. ASSUME NEW s, NEW t, NEW u, s = <<a, b, c>>, t = <<d, e>>, u = <<a, b, c, d, e>>
      PROVE  s \o t = u
  <2>1. s \in Seq(S) /\ t \in Seq(S) /\ u \in Seq(S)
    BY <1>1
  <2>2. Len(u) = Len(s) + Len(t)
    BY <1>1
  <2>3. \A i \in 1 .. Len(u) : u[i] = IF i <= Len(s) THEN s[i] ELSE t[i - Len(s)]
    BY <1>1
  <2> HIDE DEF S
  <2> QED  BY <2>1, <2>2, <2>3, Join
<1> QED  BY <1>1, Zenon

LEMMA JoinedBefore ==
  ASSUME NEW a, NEW b, NEW c, NEW d
  PROVE  <<a>> \o <<b, c, d>> = <<a, b, c, d>>
<1> DEFINE S == {a, b, c, d}
<1>1. ASSUME NEW s, NEW t, NEW u, s = <<a>>, t = <<b, c, d>>, u = <<a, b, c, d>>
      PROVE  s \o t = u
  <2>1. s \in Seq(S) /\ t \in Seq(S) /\ u \in Seq(S)
    BY <1>1
  <2>2. Len(u) = Len(s) + Len(t)
    BY <1>1
  <2>3. \A i \in 1 .. Len(u) : u[i] = IF i <= Len(s) THEN s[i] ELSE t[i - Len(s)]
    BY <1>1
  <2> HIDE DEF S
  <2> QED  BY <2>1, <2>2, <2>3, Join
<1> QED  BY <1>1, Zenon

LEMMA JoinedBody ==
  ASSUME NEW a, NEW b, NEW c, NEW d, NEW e, NEW f, NEW g, NEW h
  PROVE  <<a>> \o <<b, c, d>> \o <<e>> \o <<f, g, h>> = <<a, b, c, d, e, f, g, h>>
<1> DEFINE S == {a, b, c, d, e, f, g, h}
<1>1. <<a>> \o <<b, c, d>> = <<a, b, c, d>>
  BY JoinedBefore
<1>2. <<a, b, c, d>> \o <<e>> = <<a, b, c, d, e>>
  <2>1. ASSUME NEW s, NEW t, NEW u, s = <<a, b, c, d>>, t = <<e>>, u = <<a, b, c, d, e>>
        PROVE  s \o t = u
    <3>1. s \in Seq(S) /\ t \in Seq(S) /\ u \in Seq(S)
      BY <2>1
    <3>2. Len(u) = Len(s) + Len(t)
      BY <2>1
    <3>3. \A i \in 1 .. Len(u) : u[i] = IF i <= Len(s) THEN s[i] ELSE t[i - Len(s)]
      BY <2>1
    <3> HIDE DEF S
    <3> QED  BY <3>1, <3>2, <3>3, Join
  <2> QED  BY <2>1, Zenon
<1>3. <<a, b, c, d, e>> \o <<f, g, h>> = <<a, b, c, d, e, f, g, h>>
  <2>1. ASSUME NEW s, NEW t, NEW u,
               s = <<a, b, c, d, e>>, t = <<f, g, h>>, u = <<a, b, c, d, e, f, g, h>>
        PROVE  s \o t = u
    <3>1. s \in Seq(S) /\ t \in Seq(S) /\ u \in Seq(S)
      BY <2>1
    <3>2. Len(u) = Len(s) + Len(t)
      BY <2>1
    <3>3. \A i \in 1 .. Len(u) : u[i] = IF i <= Len(s) THEN s[i] ELSE t[i - Len(s)]
      BY <2>1
    <3> HIDE DEF S
    <3> QED  BY <3>1, <3>2, <3>3, Join
  <2> QED  BY <2>1, Zenon
<1> QED  BY <1>1, <1>2, <1>3

LEMMA CountSteps ==
  ASSUME ControlOK, bench = "count"
  PROVE  /\ phase = "pre" => Step(<<>>, [input |-> "iota"])
         /\ phase = "body" /\ at = 1 => Step(<<>>, [value |-> "drawn", last_value |-> "drawn"])
         /\ phase = "body" /\ at = 2 =>
              Step([input |-> {"iota"}, value |-> {"drawn"}], [last_output |-> "result"])
         /\ phase = "check" =>
              Step([input |-> {"iota"}, last_value |-> {"drawn"}, last_output |-> {"result"}],
                   [verdict |-> "passed"])
<1>1. prog = Files!count_utils
  BY TheFile DEF HostWrappers
<1>2. phase \in CodePhases => at \in 1 .. Len(prog[phase]) /\ cur = prog[phase][at]
  BY DEF ControlOK, cur
<1>3. /\ prog.pre = <<Files!Raw(<<>>, [input |-> "iota"])>>
      /\ prog.body = <<Files!Raw(<<>>, [value |-> "drawn", last_value |-> "drawn"]),
                       Files!Timed([input |-> {"iota"}, value |-> {"drawn"}],
                                   [last_output |-> "result"])>>
      /\ prog.check = <<Files!Raw([input |-> {"iota"}, last_value |-> {"drawn"},
                                   last_output |-> {"result"}], [verdict |-> "passed"])>>
  BY <1>1 DEF Files!count_utils, Files!Program, Files!Nothing, Files!Verify
<1>4. QED
  BY <1>2, <1>3, WrittenAsSteps DEF Step, CodePhases

LEMMA AdjacentFindSteps ==
  ASSUME ControlOK, bench = "adjacent_find"
  PROVE  /\ phase = "pre" => Step(<<>>, [input |-> "iota"])
         /\ phase = "body" /\ at = 1 => Step(<<>>, [index |-> "drawn", last_index |-> "drawn"])
         /\ phase = "body" /\ at = 3 =>
              Step([input |-> {"iota"}, index |-> {"drawn"}], [input |-> "pair"])
         /\ phase = "body" /\ at = 5 =>
              Step([input |-> {"pair"}], [last_offset |-> "of_pair"])
         /\ phase = "body" /\ at = 7 =>
              Step([input |-> {"pair"}, index |-> {"drawn"}], [input |-> "iota"])
         /\ phase = "post" =>
              Step([input |-> {"iota"}, last_index |-> {"drawn"}, last_offset |-> {"of_pair"}],
                   [input |-> "pair"])
         /\ phase = "check" =>
              Step([input |-> {"pair"}, last_offset |-> {"of_pair"}], [verdict |-> "passed"])
<1> DEFINE draw == Files!Raw(<<>>, [index |-> "drawn", last_index |-> "drawn"])
           plant == Files!Does("host", [input |-> {"iota"}, index |-> {"drawn"}], [input |-> "pair"])
           call == Files!Timed([input |-> {"pair"}], [last_offset |-> "of_pair"])
           reset == Files!Does("host", [input |-> {"pair"}, index |-> {"drawn"}],
                               [input |-> "iota"])
           opened == Files!OnView("open", {"input"})
           closed == Files!OnView("close", {"input"})
<1>1. prog = Files!adjacent_find_utils
  BY TheFile DEF HostWrappers
<1>2. phase \in CodePhases => at \in 1 .. Len(prog[phase]) /\ cur = prog[phase][at]
  BY DEF ControlOK, cur
<1>3. prog.body = <<draw>> \o <<opened, plant, closed>> \o <<call>> \o <<opened, reset, closed>>
  BY <1>1 DEF Files!adjacent_find_utils, Files!Program, Files!Nothing, Files!HostBlock,
    Files!PlantPair
<1>4. prog.body = <<draw, opened, plant, closed, call, opened, reset, closed>>
  <2> HIDE DEF draw, opened, plant, closed, call, reset
  <2> QED  BY <1>3, JoinedBody
<1>5. /\ prog.pre = <<Files!Raw(<<>>, [input |-> "iota"])>>
      /\ prog.post = <<Files!Raw([input |-> {"iota"}, last_index |-> {"drawn"},
                                  last_offset |-> {"of_pair"}], [input |-> "pair"])>>
      /\ prog.check = <<Files!Raw([input |-> {"pair"}, last_offset |-> {"of_pair"}],
                                  [verdict |-> "passed"])>>
  BY <1>1 DEF Files!adjacent_find_utils, Files!Program, Files!Nothing, Files!Verify
<1>6. CASE phase \in {"pre", "post", "check"}
  BY <1>2, <1>5, <1>6, WrittenAsSteps DEF Step, CodePhases
<1>7. CASE phase = "body"
  <2>1. /\ at = 1 => cur = draw
        /\ at = 3 => cur = plant
        /\ at = 5 => cur = call
        /\ at = 7 => cur = reset
    <3> HIDE DEF draw, opened, plant, closed, call, reset
    <3> QED  BY <1>2, <1>4, <1>7 DEF CodePhases
  <2> QED  BY <1>7, <2>1, WrittenAsSteps DEF Step
<1>8. QED
  BY <1>6, <1>7

LEMMA MismatchSteps ==
  ASSUME ControlOK, bench = "mismatch"
  PROVE  /\ phase = "pre" /\ at = 1 => Step(<<>>, [data1 |-> "iota"])
         /\ phase = "pre" /\ at = 2 => Step([data1 |-> {"iota"}], [data2 |-> "iota"])
         /\ phase = "body" /\ at = 1 => Step(<<>>, [idx |-> "drawn", last_idx |-> "drawn"])
         /\ phase = "body" /\ at = 3 =>
              Step([data1 |-> {"iota"}, data2 |-> {"iota"}, idx |-> {"drawn"}],
                   [data2 |-> "mismatch"])
         /\ phase = "body" /\ at = 5 =>
              Step([data1 |-> {"iota"}, data2 |-> {"mismatch"}],
                   [last_first_offset |-> "of_mismatch"])
         /\ phase = "body" /\ at = 7 =>
              Step([data1 |-> {"iota"}, data2 |-> {"mismatch"}, idx |-> {"drawn"}],
                   [data2 |-> "iota"])
         /\ phase = "post" =>
              Step([data1 |-> {"iota"}, data2 |-> {"iota"}, last_idx |-> {"drawn"}],
                   [data2 |-> "mismatch"])
         /\ phase = "check" =>
              Step([data1 |-> {"iota"}, data2 |-> {"mismatch"},
                    last_first_offset |-> {"of_mismatch"}], [verdict |-> "passed"])
<1> DEFINE draw == Files!Raw(<<>>, [idx |-> "drawn", last_idx |-> "drawn"])
           plant == Files!Does("host",
                      [data1 |-> {"iota"}, data2 |-> {"iota"}, idx |-> {"drawn"}],
                      [data2 |-> "mismatch"])
           call == Files!Timed([data1 |-> {"iota"}, data2 |-> {"mismatch"}],
                               [last_first_offset |-> "of_mismatch"])
           reset == Files!Does("host",
                      [data1 |-> {"iota"}, data2 |-> {"mismatch"}, idx |-> {"drawn"}],
                      [data2 |-> "iota"])
           opened == Files!OnView("open", {"data1", "data2"})
           closed == Files!OnView("close", {"data1", "data2"})
<1>1. prog = Files!mismatch_utils
  BY TheFile DEF HostWrappers
<1>2. phase \in CodePhases => at \in 1 .. Len(prog[phase]) /\ cur = prog[phase][at]
  BY DEF ControlOK, cur
<1>3. prog.body = <<draw>> \o <<opened, plant, closed>> \o <<call>> \o <<opened, reset, closed>>
  BY <1>1 DEF Files!mismatch_utils, Files!Mismatch, Files!MismatchLoop, Files!Program,
    Files!Nothing, Files!HostBlock
<1>4. prog.body = <<draw, opened, plant, closed, call, opened, reset, closed>>
  <2> HIDE DEF draw, opened, plant, closed, call, reset
  <2> QED  BY <1>3, JoinedBody
<1>5. /\ prog.pre = <<Files!Raw(<<>>, [data1 |-> "iota"]),
                      Files!Raw([data1 |-> {"iota"}], [data2 |-> "iota"])>>
      /\ prog.post = <<Files!Raw([data1 |-> {"iota"}, data2 |-> {"iota"}, last_idx |-> {"drawn"}],
                                 [data2 |-> "mismatch"])>>
      /\ prog.check = <<Files!Raw([data1 |-> {"iota"}, data2 |-> {"mismatch"},
                                   last_first_offset |-> {"of_mismatch"}],
                                  [verdict |-> "passed"])>>
  BY <1>1 DEF Files!mismatch_utils, Files!Mismatch, Files!Program, Files!Nothing, Files!Verify
<1>6. CASE phase \in {"pre", "post", "check"}
  BY <1>2, <1>5, <1>6, WrittenAsSteps DEF Step, CodePhases
<1>7. CASE phase = "body"
  <2>1. /\ at = 1 => cur = draw
        /\ at = 3 => cur = plant
        /\ at = 5 => cur = call
        /\ at = 7 => cur = reset
    <3> HIDE DEF draw, opened, plant, closed, call, reset
    <3> QED  BY <1>2, <1>4, <1>7 DEF CodePhases
  <2> QED  BY <1>7, <2>1, WrittenAsSteps DEF Step
<1>8. QED
  BY <1>6, <1>7

LEMMA FindSteps ==
  ASSUME ControlOK, bench = "find"
  PROVE  /\ phase = "pre" => Step(<<>>, [input |-> "iota"])
         /\ phase = "body" /\ at = 2 => Step([input |-> {"iota"}], [value |-> "element"])
         /\ phase = "body" /\ at = 4 => Step([value |-> {"element"}], [last_value |-> "element"])
         /\ phase = "body" /\ at = 5 =>
              Step([input |-> {"iota"}, value |-> {"element"}], [last_offset |-> "of_value"])
         /\ phase = "check" =>
              Step([input |-> {"iota"}, last_value |-> {"element"}, last_offset |-> {"of_value"}],
                   [verdict |-> "passed"])
<1> DEFINE draw == Files!Does("host", [input |-> {"iota"}], [value |-> "element"])
           note == Files!Raw([value |-> {"element"}], [last_value |-> "element"])
           call == Files!Timed([input |-> {"iota"}, value |-> {"element"}],
                               [last_offset |-> "of_value"])
           opened == Files!OnView("open", {"input"})
           closed == Files!OnView("close", {"input"})
<1>1. prog = Files!find_utils
  BY TheFile DEF HostWrappers
<1>2. phase \in CodePhases => at \in 1 .. Len(prog[phase]) /\ cur = prog[phase][at]
  BY DEF ControlOK, cur
<1>3. prog.body = <<opened, draw, closed>> \o <<note, call>>
  BY <1>1 DEF Files!find_utils, Files!Program, Files!HostBlock
<1>4. prog.body = <<opened, draw, closed, note, call>>
  <2> HIDE DEF draw, opened, closed, call, note
  <2> QED  BY <1>3, JoinedAfter
<1>5. /\ prog.pre = <<Files!Raw(<<>>, [input |-> "iota"])>>
      /\ prog.post = <<>>
      /\ prog.check = <<Files!Raw([input |-> {"iota"}, last_value |-> {"element"},
                                   last_offset |-> {"of_value"}], [verdict |-> "passed"])>>
  BY <1>1 DEF Files!find_utils, Files!Program, Files!Nothing, Files!Verify
<1>6. CASE phase \in {"pre", "post", "check"}
  BY <1>2, <1>5, <1>6, WrittenAsSteps DEF Step, CodePhases
<1>7. CASE phase = "body"
  <2>1. /\ at = 2 => cur = draw
        /\ at = 4 => cur = note
        /\ at = 5 => cur = call
    <3> HIDE DEF draw, opened, closed, call, note
    <3> QED  BY <1>2, <1>4, <1>7 DEF CodePhases
  <2> QED  BY <1>7, <2>1, WrittenAsSteps DEF Step
<1>8. QED
  BY <1>6, <1>7

LEMMA SearchSteps ==
  ASSUME ControlOK, bench = "search"
  PROVE  /\ phase = "pre" => Step(<<>>, [data1 |-> "iota", data2 |-> "sub"])
         /\ phase = "body" =>
              Step([data1 |-> {"iota"}, data2 |-> {"sub"}], [last_offset |-> "of_sub"])
         /\ phase = "check" =>
              Step([data1 |-> {"iota"}, data2 |-> {"sub"}, last_offset |-> {"of_sub"}],
                   [verdict |-> "passed"])
<1>1. prog = Files!search_utils
  BY TheFile DEF HostWrappers
<1>2. phase \in CodePhases => at \in 1 .. Len(prog[phase]) /\ cur = prog[phase][at]
  BY DEF ControlOK, cur
<1>3. /\ prog.pre = <<Files!Raw(<<>>, [data1 |-> "iota", data2 |-> "sub"])>>
      /\ prog.body = <<Files!Timed([data1 |-> {"iota"}, data2 |-> {"sub"}],
                                   [last_offset |-> "of_sub"])>>
      /\ prog.check = <<Files!Raw([data1 |-> {"iota"}, data2 |-> {"sub"},
                                   last_offset |-> {"of_sub"}], [verdict |-> "passed"])>>
  BY <1>1 DEF Files!search_utils, Files!Program, Files!Nothing, Files!Verify
<1>4. QED
  BY <1>2, <1>3, WrittenAsSteps DEF Step, CodePhases

LEMMA EqualSteps ==
  ASSUME ControlOK, bench = "equal"
  PROVE  /\ phase = "pre" => Step(<<>>, [data1 |-> "iota", data2 |-> "iota"])
         /\ phase = "body" => Step([data1 |-> {"iota"}, data2 |-> {"iota"}], <<>>)
         /\ phase = "check" =>
              Step([data1 |-> {"iota"}, data2 |-> {"iota"}], [verdict |-> "passed"])
<1>1. prog = Files!equal_utils
  BY TheFile DEF HostWrappers
<1>2. phase \in CodePhases => at \in 1 .. Len(prog[phase]) /\ cur = prog[phase][at]
  BY DEF ControlOK, cur
<1>3. /\ prog.pre = <<Files!Raw(<<>>, [data1 |-> "iota", data2 |-> "iota"])>>
      /\ prog.body = <<Files!Timed([data1 |-> {"iota"}, data2 |-> {"iota"}], <<>>)>>
      /\ prog.check = <<Files!Raw([data1 |-> {"iota"}, data2 |-> {"iota"}],
                                  [verdict |-> "passed"])>>
  BY <1>1 DEF Files!equal_utils, Files!Program, Files!Nothing, Files!Verify
<1>4. QED
  BY <1>2, <1>3, WrittenAsSteps DEF Step, CodePhases

WrittenTag == IF bench = "set_difference" THEN "difference" ELSE "intersection"

LEMMA SetSteps ==
  ASSUME ControlOK, OnSets
  PROVE  LET unwritten == [data1 |-> {"iota"}, data2 |-> {"sub"}, output |-> {"nans"}]
             written == [data1 |-> {"iota"}, data2 |-> {"sub"}, output |-> {WrittenTag}]
         IN /\ phase = "pre" => Step(<<>>, [data1 |-> "iota", data2 |-> "sub", output |-> "nans"])
            /\ phase = "body" /\ at = 1 => Step(unwritten, [output |-> WrittenTag])
            /\ phase = "body" /\ at = 3 => Step(<<>>, [output |-> "nans"])
            /\ phase = "check" /\ at = 1 => Step(<<>>, [output |-> "nans"])
            /\ phase = "check" /\ at = 2 => Step(unwritten, [output |-> WrittenTag])
            /\ phase = "check" /\ at = 3 => Step(written, [verdict |-> "passed"])
<1> DEFINE unwritten == [data1 |-> {"iota"}, data2 |-> {"sub"}, output |-> {"nans"}]
           written == [data1 |-> {"iota"}, data2 |-> {"sub"}, output |-> {WrittenTag}]
           call == Files!Does("timed", unwritten, [output |-> WrittenTag])
           reset == Files!Does("host", <<>>, [output |-> "nans"])
           opened == Files!OnView("open", {"output"})
           closed == Files!OnView("close", {"output"})
<1>1. prog = Files!SetOperation(WrittenTag, Files!HostFill)
  <2>1. CASE bench = "set_difference"
    BY <2>1, TheFile DEF HostWrappers, WrittenTag, Files!set_difference_utils
  <2>2. CASE bench = "set_intersection"
    BY <2>2, TheFile DEF HostWrappers, WrittenTag, Files!set_intersection_utils
  <2> QED  BY <2>1, <2>2 DEF OnSets, SetOperations
<1>2. phase \in CodePhases => at \in 1 .. Len(prog[phase]) /\ cur = prog[phase][at]
  BY DEF ControlOK, cur
<1>3. prog.body = <<call>> \o <<opened, reset, closed>>
  BY <1>1 DEF Files!SetOperation, Files!HostFill, Files!Program, Files!HostBlock, Files!Nothing
<1>4. prog.body = <<call, opened, reset, closed>>
  <2> HIDE DEF call, reset, opened, closed
  <2> QED  BY <1>3, JoinedBefore
<1>5. /\ prog.pre = <<Files!Raw(<<>>, [data1 |-> "iota", data2 |-> "sub", output |-> "nans"])>>
      /\ prog.post = <<>>
      /\ prog.check = <<Files!Raw(<<>>, [output |-> "nans"]),
                        Files!Does("kernel", unwritten, [output |-> WrittenTag]),
                        Files!Raw(written, [verdict |-> "passed"])>>
  BY <1>1 DEF Files!SetOperation, Files!Program, Files!Nothing, Files!Verify
<1>6. CASE phase \in {"pre", "post", "check"}
  BY <1>2, <1>5, <1>6, WrittenAsSteps DEF Step, CodePhases
<1>7. CASE phase = "body"
  <2>1. /\ at = 1 => cur = call
        /\ at = 3 => cur = reset
    <3> HIDE DEF call, reset, opened, closed
    <3> QED  BY <1>2, <1>4, <1>7 DEF CodePhases
  <2> QED  BY <1>7, <2>1, WrittenAsSteps DEF Step
<1>8. QED
  BY <1>6, <1>7

(* Which action takes which step.                                          *)
LEMMA TheAction ==
  ASSUME ControlOK, Next
  PROVE  /\ phase = "pre" => IF at = 1 THEN Generate ELSE Copy
         /\ phase = "body" /\ Draws /\ at = DrawStep => Draw
         /\ phase = "body" /\ bench = "find" /\ at = NoteStep => Note
         /\ phase = "body" /\ Plants /\ at = 3 => Plant
         /\ phase = "body" /\ at = CallStep => Call /\ At({"timed"})
         /\ phase = "body" /\ ((Plants /\ at = 7) \/ (OnSets /\ at = 3)) => Reset
         /\ phase = "post" => Replant
         /\ phase = "check" /\ OnSets /\ at = 1 => Refill
         /\ phase = "check" /\ OnSets /\ at = 2 => Call /\ At({"kernel"})
         /\ phase = "check" /\ at = Len(prog.check) => Check
<1>1. CASE phase = "pre"
  BY <1>1, OtherSteps
  DEF Next, Quiet, Draw, Note, Plant, Call, Reset, Replant, Refill, Check,
      Returned, At, Calls, CodePhases, Generate, Copy
<1>2. CASE phase = "body"
  <2>1. at = CallStep => At({"timed"})
    <3>1. CASE Plants \/ bench = "find"
      BY <1>2, <3>1, BodySteps DEF CallStep, At, CodePhases
    <3>2. CASE bench = "count"
      BY <1>2, <3>2, BodySteps DEF CallStep, At, CodePhases, Plants, Planting
    <3>3. CASE bench \in {"search", "equal"} \/ OnSets
      BY <1>2, <3>3, BodySteps DEF CallStep, At, CodePhases, Plants, Planting, OnSets, SetOperations
    <3> QED  BY <3>1, <3>2, <3>3, Benches DEF Plants, OnSets
  <2>2. Plants /\ at = 3 => Plant
    <3> SUFFICES ASSUME Plants, at = 3 PROVE Plant
      OBVIOUS
    <3>1. cur.op = "host" /\ ~Called /\ bench # "find"
      BY <1>2, BodySteps, CalledAt DEF Plants, Planting
    <3> QED
      BY <1>2, <3>1 DEF Next, Generate, Copy, Quiet, Draw, Note, Call, Reset, Replant,
                        Refill, Check, Returned, At, Calls
  <2>3. (Plants /\ at = 7) \/ (OnSets /\ at = 3) => Reset
    <3> SUFFICES ASSUME (Plants /\ at = 7) \/ (OnSets /\ at = 3) PROVE Reset
      OBVIOUS
    <3>1. cur.op = "host" /\ Called /\ bench # "find"
      BY <1>2, BodySteps, CalledAt DEF Plants, Planting, OnSets, SetOperations
    <3> QED
      BY <1>2, <3>1 DEF Next, Generate, Copy, Quiet, Draw, Note, Call, Plant, Replant,
                        Refill, Check, Returned, At, Calls
  <2> QED  BY <1>2, <2>1, <2>2, <2>3, StepsDiffer
<1>3. CASE phase = "post"
  BY <1>3, OtherSteps
  DEF Next, Generate, Copy, Quiet, Draw, Note, Plant, Call, Reset, Refill,
      Check, Returned, At, Calls, CodePhases
<1>4. CASE phase = "check"
  <2>1. OnSets => Len(prog.check) = 3
    BY Lengths
  <2>2. cur.op \in {"raw", "kernel"}
    BY <1>4, OtherSteps
  <2>3. Call \/ Refill \/ Check
    BY <1>4, <2>2 DEF Next, Generate, Copy, Quiet, Draw, Note, Plant, Reset, Replant, Returned, At
  <2>4. Check => cur.op = "raw" /\ "verdict" \in DOMAIN cur.gives
    BY DEF Check, At
  <2>5. Refill => OnSets /\ at = 1
    BY DEF Refill, OnSets
  <2>6. Call => cur.op \in {"kernel", "timed"}
    BY DEF Call, At, Calls
  <2>7. CASE OnSets /\ at = 1
    <3>1. cur.op = "raw" /\ "verdict" \notin DOMAIN cur.gives
      BY <1>4, <2>1, <2>7, OtherSteps
    <3> QED  BY <1>4, <2>1, <2>3, <2>4, <2>6, <2>7, <3>1
  <2>8. CASE OnSets /\ at = 2
    <3>1. cur.op = "kernel"
      BY <1>4, <2>8, OtherSteps
    <3> QED  BY <1>4, <2>1, <2>3, <2>4, <2>5, <2>8, <3>1 DEF At, CodePhases
  <2>9. CASE ~(OnSets /\ at \in {1, 2})
    <3>1. cur.op = "raw"
      BY <1>4, <2>9, OtherSteps
    <3> QED  BY <1>4, <2>3, <2>5, <2>6, <2>9, <3>1
  <2> QED  BY <2>7, <2>8, <2>9
<1> QED  BY <1>1, <1>2, <1>3, <1>4

(* Contents are what their names say.                                      *)
Ideal == Exact /\ SubIsWithin /\ F = "right"

(* What the vectors hold, of the wrappers that write no output.            *)
VectorTags ==
  CASE bench = "adjacent_find" -> [input |-> IF InPlace THEN "pair" ELSE "iota"]
    [] bench = "mismatch" -> [data1 |-> "iota", data2 |-> IF InPlace THEN "mismatch" ELSE "iota"]
    [] bench \in {"find", "count"} -> [input |-> "iota"]
    [] bench = "equal" -> [data1 |-> "iota", data2 |-> "iota"]
    [] bench = "search" -> [data1 |-> "iota", data2 |-> "sub"]

Said == IF verdict = "unset" THEN Unset ELSE IF verdict = "passed" THEN "passed" ELSE Junk

(* All that is held, once the inputs are made.                             *)
Table ==
  CASE bench = "adjacent_find" ->
         [input |-> IF InPlace THEN "pair" ELSE "iota", index |-> Number(index, "drawn"),
          last_index |-> Number(last, "drawn"), last_offset |-> Got("of_pair"),
          verdict |-> Said]
    [] bench = "mismatch" ->
         [data1 |-> "iota", data2 |-> IF InPlace THEN "mismatch" ELSE "iota",
          idx |-> Number(index, "drawn"), last_idx |-> Number(last, "drawn"),
          last_first_offset |-> Got("of_mismatch"), verdict |-> Said]
    [] bench = "find" ->
         [input |-> "iota", value |-> Number(index, "element"),
          last_value |-> Number(last, "element"), last_offset |-> Got("of_value"),
          verdict |-> Said]
    [] bench = "count" ->
         [input |-> "iota", value |-> Number(index, "drawn"),
          last_value |-> Number(last, "drawn"), last_output |-> Got("result"),
          verdict |-> Said]
    [] bench = "search" ->
         [data1 |-> "iota", data2 |-> "sub", last_offset |-> Got("of_sub"), verdict |-> Said]
    [] bench = "equal" -> [data1 |-> "iota", data2 |-> "iota", verdict |-> Said]
    [] OTHER ->
         [data1 |-> "iota", data2 |-> "sub", output |-> ContentOf("output"), verdict |-> Said]

TagsStand ==
  Ideal /\ phase # "pre" =>
    \A v : Held(v) = IF v \in DOMAIN Table THEN Table[v] ELSE Unset

(* The plant in place is that of the number the verification uses.         *)
LEMMA NumberInPlace ==
  ASSUME SoFar, Plants, InPlace
  PROVE  last = index /\ index \in Drawn /\ Drawn \subseteq 0 .. size - 1
<1>1. Draws /\ DrawStep = 1 /\ NoteStep = 1
  BY DEF Plants, Draws, Planting, DrawStep, NoteStep
<1>2. Past(1)
  BY DEF InPlace, Past
<1>3. size \in Nat
  BY Sizes2 DEF SoFar
<1> QED  BY <1>1, <1>2, <1>3 DEF SoFar, NumbersDrawn, Drawn

(* What has different names differs.                                       *)
LEMMA SubIsShorter == ASSUME DataTypes, SubIsWithin PROVE sub # iota
<1>1. /\ DOMAIN sub = 1 .. size \div 2 /\ DOMAIN iota = 1 .. size
      /\ size \in Nat /\ size >= 4
  BY SubCounts, IotaCounts, Sizes2 DEF SubIsWithin
<1>2. size \in 1 .. size /\ size \notin 1 .. size \div 2
  BY <1>1
<1> QED  BY <1>1, <1>2

LEMMA ContentsAre ==
  ASSUME SoFar, Exact, SubIsWithin, phase # "pre", ~OnSets
  PROVE  DOMAIN vec = DOMAIN VectorTags /\ \A v \in DOMAIN vec : ContentOf(v) = VectorTags[v]
<1>1. DataTypes /\ vec = IF InPlace THEN Asked ELSE Clean
  BY DEF SoFar, VectorsMade, VectorsAsAsked, Comparable
<1>2. size \in Nat /\ DOMAIN iota = 1 .. size /\ \A k \in 1 .. size : iota[k] = k
  BY <1>1, IotaCounts, Sizes2
<1>3. CASE bench = "adjacent_find"
  <2>1. Plants /\ Clean = [input |-> iota]
    BY <1>3, TheInputs DEF Plants, Planting
  <2>2. CASE ~InPlace
    BY <1>1, <1>3, <2>1, <2>2 DEF VectorTags, ContentOf
  <2>3. CASE InPlace
    <3>1. last = index /\ index \in 0 .. size - 2
      BY <1>3, <2>1, <2>3, NumberInPlace DEF Drawn
    <3>2. vec = Planted([input |-> iota], index)
      BY <1>1, <2>1, <2>3 DEF Asked
    <3>3. DOMAIN vec = {"input"} /\ vec.input[index + 1] = iota[index + 2]
      BY <1>1, <1>2, <1>3, <3>1, <3>2, PlantingAPair
    <3>4. vec.input # iota
      <4>1. index + 1 \in 1 .. size /\ index + 2 \in 1 .. size /\ index + 1 # index + 2
        BY <1>2, <3>1
      <4> QED  BY <1>2, <3>3, <4>1
    <3> QED  BY <1>3, <2>3, <3>1, <3>2, <3>3, <3>4 DEF VectorTags, ContentOf
  <2> QED  BY <2>2, <2>3
<1>4. CASE bench = "mismatch"
  <2>1. Plants /\ Clean = [data1 |-> iota, data2 |-> iota]
    BY <1>4, TheInputs DEF Plants, Planting
  <2>2. CASE ~InPlace
    BY <1>1, <1>4, <2>1, <2>2 DEF VectorTags, ContentOf
  <2>3. CASE InPlace
    <3>1. last = index /\ index \in 0 .. size - 1
      BY <1>4, <2>1, <2>3, NumberInPlace DEF Drawn
    <3>2. vec = Planted([data1 |-> iota, data2 |-> iota], index)
      BY <1>1, <2>1, <2>3 DEF Asked
    <3>3. vec = [data1 |-> iota, data2 |-> [iota EXCEPT ![index + 1] = Stored(type, iota[index + 1] + 1)]]
      BY <1>1, <1>4, <2>1, <3>1, <3>2, PlantingAMismatch
    <3>4. vec.data2 # iota
      <4>1. index + 1 \in 1 .. size /\ index + 2 \in 0 .. size + 1 /\ index + 1 # index + 2
        BY <1>2, <3>1
      <4>2. Stored(type, iota[index + 1] + 1) = index + 2
        <5>1. iota[index + 1] + 1 = index + 2
          BY <1>2, <3>1, <4>1
        <5> QED  BY <4>1, <5>1 DEF Exact
      <4>3. vec.data2[index + 1] = index + 2 /\ iota[index + 1] = index + 1
        BY <1>2, <3>3, <4>1, <4>2
      <4> QED  BY <4>1, <4>3
    <3>5. DOMAIN vec = {"data1", "data2"} /\ vec.data1 = iota
      BY <3>3
    <3> QED  BY <1>4, <2>3, <3>1, <3>2, <3>4, <3>5 DEF VectorTags, ContentOf
  <2> QED  BY <2>2, <2>3
<1>5. CASE bench \in {"find", "count", "equal"}
  <2>1. vec = Clean
    BY <1>1, <1>5 DEF Asked, Plants, Planting
  <2>2. CASE bench \in {"find", "count"}
    BY <2>1, <2>2, TheInputs DEF VectorTags, ContentOf
  <2>3. CASE bench = "equal"
    BY <2>1, <2>3, TheInputs DEF VectorTags, ContentOf
  <2> QED  BY <1>5, <2>2, <2>3
<1>6. CASE bench = "search"
  <2>1. vec = [data1 |-> iota, data2 |-> sub]
    BY <1>1, <1>6, TheInputs DEF Asked, Plants, Planting
  <2> QED  BY <1>1, <1>6, <2>1, SubIsShorter DEF VectorTags, ContentOf
<1> QED  BY <1>1, <1>3, <1>4, <1>5, <1>6, Benches DEF DataTypes, Planting, OnSets

(* At every step each vector and number holds what the table says.         *)
LEMMA TagsAre == ASSUME SoFar PROVE TagsStand
<1> SUFFICES ASSUME Exact, SubIsWithin, phase # "pre", NEW v
             PROVE  Held(v) = IF v \in DOMAIN Table THEN Table[v] ELSE Unset
  BY DEF TagsStand, Ideal
<1>1. ~OnSets =>
        Held(v) = IF v \in DOMAIN VectorTags THEN VectorTags[v]
                  ELSE IF v \in DOMAIN Scalars THEN Scalars[v]
                  ELSE IF v = "verdict" THEN Said ELSE Unset
  <2>1. ~OnSets =>
          DOMAIN vec = DOMAIN VectorTags /\ \A w \in DOMAIN vec : ContentOf(w) = VectorTags[w]
    BY ContentsAre
  <2> QED  BY <2>1 DEF Held, Said
<1> USE DEF OnSets, SetOperations
<1>2. CASE bench = "adjacent_find"
  BY <1>1, <1>2 DEF Table, VectorTags, Scalars
<1>3. CASE bench = "mismatch"
  BY <1>1, <1>3 DEF Table, VectorTags, Scalars
<1>4. CASE bench = "find"
  BY <1>1, <1>4 DEF Table, VectorTags, Scalars
<1>5. CASE bench = "count"
  BY <1>1, <1>5 DEF Table, VectorTags, Scalars
<1>6. CASE bench = "search"
  BY <1>1, <1>6 DEF Table, VectorTags, Scalars
<1>7. CASE bench = "equal"
  BY <1>1, <1>7 DEF Table, VectorTags, Scalars
<1>8. CASE OnSets
  <2>1. vec = [data1 |-> iota, data2 |-> sub, output |-> vec.output]
    BY <1>8 DEF SoFar, VectorsMade, SetsStand
  <2>2. DOMAIN vec = {"data1", "data2", "output"} /\ vec.data1 = iota /\ vec.data2 = sub
    BY <2>1
  <2>3. ContentOf("data1") = "iota" /\ ContentOf("data2") = "sub"
    BY <1>8, <2>2, SubIsShorter DEF ContentOf, SoFar
  <2>4. Scalars = <<>>
    BY <1>8 DEF Scalars
  <2>5. DOMAIN Scalars = {}
    BY <2>4
  <2>6. Table = [data1 |-> "iota", data2 |-> "sub", output |-> ContentOf("output"),
                 verdict |-> Said]
    BY <1>8 DEF Table
  <2> QED  BY <2>2, <2>3, <2>5, <2>6 DEF Held, Said
<1> QED
  BY <1>2, <1>3, <1>4, <1>5, <1>6, <1>7, <1>8, Benches DEF SoFar, DataTypes, Planting

(* A step that finds its inputs in the table and leaves what it gives.     *)
LEMMA WorksOnTable ==
  ASSUME TagsStand, TagsStand', Ideal, Ideal', phase # "pre", phase' # "pre",
         ControlOK, phase \in CodePhases,
         DOMAIN Table' = DOMAIN Table, DOMAIN cur.gives \subseteq DOMAIN Table,
         \A v \in DOMAIN cur.needs : v \in DOMAIN Table /\ Table[v] \in cur.needs[v],
         \A v \in DOMAIN Table :
           Table'[v] = IF v \in DOMAIN cur.gives THEN cur.gives[v] ELSE Table[v]
  PROVE  Mem' = Effect(cur, Mem)
<1>1. IsStep(cur)
  BY CurIsStep
<1>2. \A v : Held(v) = IF v \in DOMAIN Table THEN Table[v] ELSE Unset
  BY DEF TagsStand
<1>3. \A v : Held(v)' = IF v \in DOMAIN Table THEN Table'[v] ELSE Unset
  BY DEF TagsStand
<1>4. \A v \in DOMAIN cur.needs : v \in Loc /\ Held(v) \in cur.needs[v]
  BY <1>1, <1>2 DEF IsStep
<1>5. \A v \in DOMAIN cur.gives : Held(v)' = cur.gives[v]
  BY <1>3
<1>6. \A v : v \notin DOMAIN cur.gives => Held(v)' = Held(v)
  BY <1>2, <1>3
<1> QED  BY <1>4, <1>5, <1>6, WorksOnTags

(* What a verification of the wrapper finds, and what F has answered.      *)
LEMMA CheckedIsPassed ==
  ASSUME Exponentiation, DataInv, Ideal, Check
  PROVE  verdict' = "passed" /\ verdict' # "unset"
BY CheckPasses DEF Ideal

LEMMA SomeAnswer ==
  ASSUME ControlOK, ~OnSets, NEW a \in WrongReturns
  PROVE  a # <<>>
<1>1. CASE bench = "equal"
  BY <1>1 DEF WrongReturns, SetOperations
<1>2. CASE bench \in {"mismatch", "count"}
  BY <1>2 DEF WrongReturns, SetOperations
<1>3. CASE bench = "adjacent_find"
  BY <1>3 DEF WrongReturns, SetOperations
<1>4. CASE bench \in {"find", "search"}
  <2>1. /\ bench \notin SetOperations /\ bench # "equal"
        /\ bench \notin {"mismatch", "count"} /\ bench # "adjacent_find"
    BY <1>4 DEF SetOperations
  <2>2. WrongReturns = {<<k>> : k \in -1 .. size - 1}
    BY <2>1 DEF WrongReturns
  <2> QED  BY <2>2
<1> QED  BY <1>1, <1>2, <1>3, <1>4, Benches DEF OnSets, Planting

LEMMA Answering ==
  ASSUME SoFar, SoFar', Ideal', Call, At({"timed"}), ~OnSets
  PROVE  \A c : Got(c)' = c
<1>1. answer' \in WrongReturns
  BY AnswersKnown DEF SoFar
<1>2. answer' # <<>>
  BY <1>1, SomeAnswer DEF SoFar, DataTypes
<1>3. right'
  BY DEF SoFar, Answered, Ideal
<1> QED  BY <1>2, <1>3 DEF Got

LEMMA HasAnswered ==
  ASSUME SoFar, Ideal, ~OnSets, Past(CallStep)
  PROVE  \A c : Got(c) = c
<1>1. answer # <<>> /\ right
  BY SomeAnswer DEF SoFar, Answered, Ideal, DataTypes
<1> QED  BY <1>1 DEF Got

LEMMA SameAnswer == ASSUME UNCHANGED <<answer, right>> PROVE \A c : Got(c)' = Got(c)
BY DEF Got

LEMMA SaidSame == ASSUME verdict' = verdict PROVE Said' = Said
BY DEF Said

LEMMA SaidPassed == ASSUME verdict' = "passed" PROVE Said' = "passed"
BY DEF Said

LEMMA NumbersAre ==
  ASSUME SoFar, [Next]_vars
  PROVE  \A c : /\ index' = index => Number(index, c)' = Number(index, c)
                /\ last' = last => Number(last, c)' = Number(last, c)
                /\ index \in Drawn => Number(index, c) = c
                /\ last \in Drawn => Number(last, c) = c
                /\ index' \in Drawn => Number(index, c)' = c
                /\ last' \in Drawn => Number(last, c)' = c
<1>1. -1 \notin Drawn
  BY Sizes2 DEF SoFar, Drawn
<1> QED  BY <1>1 DEF Number

LEMMA TheCheck == ASSUME ControlOK, Next, ~OnSets, phase = "check" PROVE Check
<1>1. Len(prog.check) = 1
  BY Lengths
<1>2. at \in 1 .. Len(prog.check)
  BY OtherSteps
<1> QED  BY <1>1, <1>2, TheAction

(* count draws a number and counts it.                                     *)
LEMMA CountWorks ==
  ASSUME Exponentiation, DataInv, DataInv', TagsStand, TagsStand', Ideal, Ideal', Next,
         ~UNCHANGED vars, bench = "count", phase \in {"body", "check"}
  PROVE  Mem' = Effect(cur, Mem)
<1> USE DEF DataInv, SoFar, DataTypes
<1>1. /\ bench' = "count" /\ ~OnSets /\ ~OnSets' /\ Draws
      /\ DrawStep = 1 /\ CallStep = 2 /\ NoteStep = 1
      /\ phase' # "pre" /\ phase # "pre" /\ phase \in CodePhases
  BY Fixed, OtherMoves
  DEF OnSets, SetOperations, Draws, DrawStep, NoteStep, CallStep, CodePhases, Plants, Planting
<1>2. /\ Table = [input |-> "iota", value |-> Number(index, "drawn"),
                  last_value |-> Number(last, "drawn"), last_output |-> Got("result"),
                  verdict |-> Said]
      /\ Table' = [input |-> "iota", value |-> Number(index, "drawn")',
                   last_value |-> Number(last, "drawn")', last_output |-> Got("result")',
                   verdict |-> Said']
  BY <1>1 DEF Table
<1>3. CASE phase = "body" /\ at = 1
  <2>1. Draw /\ Step(<<>>, [value |-> "drawn", last_value |-> "drawn"])
    BY <1>1, <1>3, TheAction, CountSteps
  <2>2. /\ index' \in Drawn /\ last' \in Drawn
        /\ UNCHANGED <<answer, right, verdict>>
    BY <1>1, <2>1 DEF Draw
  <2>3. /\ Number(index, "drawn")' = "drawn" /\ Number(last, "drawn")' = "drawn"
        /\ Got("result")' = Got("result") /\ Said' = Said
    BY <2>2, NumbersAre, SameAnswer, SaidSame
  <2> QED  BY <1>1, <1>2, <2>1, <2>3, WorksOnTable DEF Step
<1>4. CASE phase = "body" /\ at = 2
  <2>1. Call /\ At({"timed"})
        /\ Step([input |-> {"iota"}, value |-> {"drawn"}], [last_output |-> "result"])
    BY <1>1, <1>4, TheAction, CountSteps
  <2>2. index \in Drawn /\ UNCHANGED <<index, last, verdict>>
    BY <1>1, <1>4, <2>1 DEF Call, NumbersDrawn, Past
  <2>3. /\ Number(index, "drawn") = "drawn" /\ Number(index, "drawn")' = Number(index, "drawn")
        /\ Number(last, "drawn")' = Number(last, "drawn")
        /\ Got("result")' = "result" /\ Said' = Said
    BY <1>1, <2>1, <2>2, NumbersAre, Answering, SaidSame
  <2> QED  BY <1>1, <1>2, <2>1, <2>3, WorksOnTable DEF Step
<1>5. CASE phase = "check"
  <2>1. Check /\ Step([input |-> {"iota"}, last_value |-> {"drawn"}, last_output |-> {"result"}],
                      [verdict |-> "passed"])
    BY <1>1, <1>5, TheCheck, CountSteps
  <2>2. last \in Drawn /\ UNCHANGED <<index, last, answer, right>>
    BY <1>1, <1>5, <2>1 DEF Check, NumbersDrawn, Past
  <2>3. /\ Number(last, "drawn") = "drawn" /\ Number(last, "drawn")' = Number(last, "drawn")
        /\ Number(index, "drawn")' = Number(index, "drawn")
        /\ Got("result") = "result" /\ Got("result")' = Got("result") /\ Said' = "passed"
    BY <1>1, <1>5, <2>1, <2>2, NumbersAre, HasAnswered, SameAnswer, CheckedIsPassed, SaidPassed
    DEF Past
  <2> QED  BY <1>1, <1>2, <2>1, <2>3, WorksOnTable DEF Step
<1> QED
  <2>1. phase = "body" => at \in 1 .. 2
    BY <1>1, BodySteps
  <2> QED  BY <1>3, <1>4, <1>5, <2>1

(* find draws through its host_view and notes the value after it.          *)
LEMMA FindWorks ==
  ASSUME Exponentiation, DataInv, DataInv', TagsStand, TagsStand', Ideal, Ideal', Next,
         ~UNCHANGED vars, bench = "find", phase \in {"body", "check"}, ~At({"open", "close"})
  PROVE  Mem' = Effect(cur, Mem)
<1> USE DEF DataInv, SoFar, DataTypes
<1>1. /\ bench' = "find" /\ ~OnSets /\ ~OnSets' /\ Draws
      /\ DrawStep = 2 /\ CallStep = 5 /\ NoteStep = 4
      /\ phase' # "pre" /\ phase # "pre" /\ phase \in CodePhases
  BY Fixed, OtherMoves
  DEF OnSets, SetOperations, Draws, DrawStep, NoteStep, CallStep, CodePhases, Plants, Planting
<1>2. /\ Table = [input |-> "iota", value |-> Number(index, "element"),
                  last_value |-> Number(last, "element"), last_offset |-> Got("of_value"),
                  verdict |-> Said]
      /\ Table' = [input |-> "iota", value |-> Number(index, "element")',
                   last_value |-> Number(last, "element")', last_offset |-> Got("of_value")',
                   verdict |-> Said']
  BY <1>1 DEF Table
<1>3. CASE phase = "body" /\ at = 2
  <2>1. Draw /\ Step([input |-> {"iota"}], [value |-> "element"])
    BY <1>1, <1>3, TheAction, FindSteps
  <2>2. index' \in Drawn /\ UNCHANGED <<last, answer, right, verdict>>
    BY <1>1, <2>1 DEF Draw
  <2>3. /\ Number(index, "element")' = "element"
        /\ Number(last, "element")' = Number(last, "element")
        /\ Got("of_value")' = Got("of_value") /\ Said' = Said
    BY <2>2, NumbersAre, SameAnswer, SaidSame
  <2> QED  BY <1>1, <1>2, <2>1, <2>3, WorksOnTable DEF Step
<1>4. CASE phase = "body" /\ at = 4
  <2>1. Note /\ Step([value |-> {"element"}], [last_value |-> "element"])
    BY <1>1, <1>4, TheAction, FindSteps
  <2>2. /\ index \in Drawn /\ last' = index
        /\ UNCHANGED <<index, answer, right, verdict>>
    BY <1>1, <1>4, <2>1 DEF Note, NumbersDrawn, Past
  <2>3. /\ Number(index, "element") = "element"
        /\ Number(index, "element")' = Number(index, "element")
        /\ Number(last, "element")' = "element"
        /\ Got("of_value")' = Got("of_value") /\ Said' = Said
    BY <2>2, NumbersAre, SameAnswer, SaidSame
  <2> QED  BY <1>1, <1>2, <2>1, <2>3, WorksOnTable DEF Step
<1>5. CASE phase = "body" /\ at = 5
  <2>1. Call /\ At({"timed"})
        /\ Step([input |-> {"iota"}, value |-> {"element"}], [last_offset |-> "of_value"])
    BY <1>1, <1>5, TheAction, FindSteps
  <2>2. index \in Drawn /\ UNCHANGED <<index, last, verdict>>
    BY <1>1, <1>5, <2>1 DEF Call, NumbersDrawn, Past
  <2>3. /\ Number(index, "element") = "element"
        /\ Number(index, "element")' = Number(index, "element")
        /\ Number(last, "element")' = Number(last, "element")
        /\ Got("of_value")' = "of_value" /\ Said' = Said
    BY <1>1, <2>1, <2>2, NumbersAre, Answering, SaidSame
  <2> QED  BY <1>1, <1>2, <2>1, <2>3, WorksOnTable DEF Step
<1>6. CASE phase = "check"
  <2>1. Check /\ Step([input |-> {"iota"}, last_value |-> {"element"},
                       last_offset |-> {"of_value"}], [verdict |-> "passed"])
    BY <1>1, <1>6, TheCheck, FindSteps
  <2>2. last \in Drawn /\ UNCHANGED <<index, last, answer, right>>
    BY <1>1, <1>6, <2>1 DEF Check, NumbersDrawn, Past
  <2>3. /\ Number(last, "element") = "element"
        /\ Number(last, "element")' = Number(last, "element")
        /\ Number(index, "element")' = Number(index, "element")
        /\ Got("of_value") = "of_value" /\ Got("of_value")' = Got("of_value")
        /\ Said' = "passed"
    BY <1>1, <1>6, <2>1, <2>2, NumbersAre, HasAnswered, SameAnswer, CheckedIsPassed, SaidPassed
    DEF Past
  <2> QED  BY <1>1, <1>2, <2>1, <2>3, WorksOnTable DEF Step
<1> QED
  <2>1. phase = "body" => at \in {2, 4, 5}
    BY <1>1, BodySteps DEF At
  <2> QED  BY <1>3, <1>4, <1>5, <1>6, <2>1

(* search and equal draw nothing.                                          *)
LEMMA SearchWorks ==
  ASSUME Exponentiation, DataInv, DataInv', TagsStand, TagsStand', Ideal, Ideal', Next,
         ~UNCHANGED vars, bench = "search", phase \in {"body", "check"}
  PROVE  Mem' = Effect(cur, Mem)
<1> USE DEF DataInv, SoFar, DataTypes
<1>1. /\ bench' = "search" /\ ~OnSets /\ ~OnSets' /\ CallStep = 1
      /\ phase' # "pre" /\ phase # "pre" /\ phase \in CodePhases
  BY Fixed, OtherMoves DEF OnSets, SetOperations, CallStep, CodePhases, Plants, Planting
<1>2. /\ Table = [data1 |-> "iota", data2 |-> "sub", last_offset |-> Got("of_sub"),
                  verdict |-> Said]
      /\ Table' = [data1 |-> "iota", data2 |-> "sub", last_offset |-> Got("of_sub")',
                   verdict |-> Said']
  BY <1>1 DEF Table
<1>3. CASE phase = "body"
  <2>1. Call /\ At({"timed"})
        /\ Step([data1 |-> {"iota"}, data2 |-> {"sub"}], [last_offset |-> "of_sub"])
    BY <1>1, <1>3, BodySteps, TheAction, SearchSteps
  <2>2. Got("of_sub")' = "of_sub" /\ Said' = Said
    BY <1>1, <2>1, Answering, SaidSame DEF Call
  <2> QED  BY <1>1, <1>2, <2>1, <2>2, WorksOnTable DEF Step
<1>4. CASE phase = "check"
  <2>1. Check /\ Step([data1 |-> {"iota"}, data2 |-> {"sub"}, last_offset |-> {"of_sub"}],
                      [verdict |-> "passed"])
    BY <1>1, <1>4, TheCheck, SearchSteps
  <2>2. UNCHANGED <<answer, right>>
    BY <2>1 DEF Check
  <2>3. /\ Got("of_sub") = "of_sub" /\ Got("of_sub")' = Got("of_sub")
        /\ Said' = "passed"
    BY <1>1, <1>4, <2>1, <2>2, HasAnswered, SameAnswer, CheckedIsPassed, SaidPassed DEF Past
  <2> QED  BY <1>1, <1>2, <2>1, <2>3, WorksOnTable DEF Step
<1> QED  BY <1>3, <1>4

LEMMA EqualWorks ==
  ASSUME Exponentiation, DataInv, DataInv', TagsStand, TagsStand', Ideal, Ideal', Next,
         ~UNCHANGED vars, bench = "equal", phase \in {"body", "check"}
  PROVE  Mem' = Effect(cur, Mem)
<1> USE DEF DataInv, SoFar, DataTypes
<1>1. /\ bench' = "equal" /\ ~OnSets /\ ~OnSets' /\ CallStep = 1
      /\ phase' # "pre" /\ phase # "pre" /\ phase \in CodePhases
  BY Fixed, OtherMoves DEF OnSets, SetOperations, CallStep, CodePhases, Plants, Planting
<1>2. /\ Table = [data1 |-> "iota", data2 |-> "iota", verdict |-> Said]
      /\ Table' = [data1 |-> "iota", data2 |-> "iota", verdict |-> Said']
  BY <1>1 DEF Table
<1>3. CASE phase = "body"
  <2>1. Call /\ Step([data1 |-> {"iota"}, data2 |-> {"iota"}], <<>>)
    BY <1>1, <1>3, BodySteps, TheAction, EqualSteps
  <2>2. Said' = Said
    BY <1>1, <2>1, SaidSame DEF Call
  <2>3. DOMAIN <<>> = {}
    OBVIOUS
  <2> QED  BY <1>1, <1>2, <2>1, <2>2, <2>3, WorksOnTable DEF Step
<1>4. CASE phase = "check"
  <2>1. Check /\ Step([data1 |-> {"iota"}, data2 |-> {"iota"}], [verdict |-> "passed"])
    BY <1>1, <1>4, TheCheck, EqualSteps
  <2>2. Said' = "passed"
    BY <1>1, <1>4, <2>1, CheckedIsPassed, SaidPassed
  <2> QED  BY <1>1, <1>2, <2>1, <2>2, WorksOnTable DEF Step
<1> QED  BY <1>3, <1>4

(* When the planted element is in its place.                               *)
LEMMA PlaceMoves ==
  ASSUME SoFar, SoFar', Ideal, Next, ~UNCHANGED vars, Plants
  PROVE  /\ phase = "body" /\ at = 1 => ~InPlace /\ ~InPlace'
         /\ phase = "body" /\ at = 3 => ~InPlace /\ InPlace'
         /\ phase = "body" /\ at = 5 => InPlace /\ InPlace'
         /\ phase = "body" /\ at = 7 => InPlace /\ ~InPlace'
         /\ phase = "post" => ~InPlace /\ InPlace'
         /\ phase = "check" => InPlace /\ InPlace'
<1> USE DEF SoFar, DataTypes
<1>1. Plants' /\ bench' = bench /\ ~OnSets /\ ~OnSets' /\ CallStep = 5
  BY Fixed DEF Plants, Planting, OnSets, SetOperations, CallStep
<1>2. CASE phase = "body"
  <2>1. Len(prog.body) = 8 /\ at \in 1 .. 8 /\ Advance
    BY <1>2, Lengths, BodySteps, StepOrLeave
  <2>2. at < 8 => phase' = "body" /\ at' = at + 1
    BY <1>2, <2>1, BodyMoves
  <2> QED  BY <1>2, <2>1, <2>2 DEF InPlace
<1>3. CASE phase \in {"post", "check"}
  <2>1. phase' \in {"check", "done"}
    BY <1>3, OtherMoves
  <2>2. bench = "mismatch" \/ answer[1] >= 0
    <3>1. bench = "adjacent_find" => IsPair
      BY <1>1, <1>3 DEF Answered, Past, Ideal
    <3>2. size \in Nat
      BY Sizes2
    <3> QED  BY <3>1, <3>2 DEF IsPair, Plants, Planting
  <2>3. answer' = answer
    <3>1. phase = "post" => Replant
      BY TheAction
    <3>2. phase = "check" => Check
      BY <1>1, TheCheck
    <3> QED  BY <1>3, <3>1, <3>2 DEF Replant, Check
  <2> QED  BY <1>1, <1>3, <2>1, <2>2, <2>3 DEF InPlace
<1> QED  BY <1>2, <1>3

(* adjacent_find plants a pair, finds it, resets it and plants it again.   *)
LEMMA AdjacentFindWorks ==
  ASSUME Exponentiation, DataInv, DataInv', TagsStand, TagsStand', Ideal, Ideal', Next,
         ~UNCHANGED vars, bench = "adjacent_find", phase \in {"body", "post", "check"},
         ~At({"open", "close"})
  PROVE  Mem' = Effect(cur, Mem)
<1> USE DEF DataInv, SoFar, DataTypes
<1>1. /\ bench' = "adjacent_find" /\ ~OnSets /\ ~OnSets' /\ Draws /\ Plants
      /\ DrawStep = 1 /\ CallStep = 5 /\ NoteStep = 1
      /\ phase' # "pre" /\ phase # "pre" /\ phase \in CodePhases
  BY Fixed, OtherMoves
  DEF OnSets, SetOperations, Draws, DrawStep, NoteStep, CallStep, CodePhases, Plants, Planting
<1>2. /\ Table = [input |-> IF InPlace THEN "pair" ELSE "iota", index |-> Number(index, "drawn"),
                  last_index |-> Number(last, "drawn"), last_offset |-> Got("of_pair"),
                  verdict |-> Said]
      /\ Table' = [input |-> IF InPlace' THEN "pair" ELSE "iota",
                   index |-> Number(index, "drawn")', last_index |-> Number(last, "drawn")',
                   last_offset |-> Got("of_pair")', verdict |-> Said']
  BY <1>1 DEF Table
<1>3. CASE phase = "body" /\ at = 1
  <2>1. Draw /\ Step(<<>>, [index |-> "drawn", last_index |-> "drawn"])
    BY <1>1, <1>3, TheAction, AdjacentFindSteps
  <2>2. index' \in Drawn /\ last' \in Drawn /\ UNCHANGED <<answer, right, verdict>>
    BY <1>1, <2>1 DEF Draw
  <2>3. /\ Number(index, "drawn")' = "drawn" /\ Number(last, "drawn")' = "drawn"
        /\ Got("of_pair")' = Got("of_pair") /\ Said' = Said
    BY <2>2, NumbersAre, SameAnswer, SaidSame
  <2>4. ~InPlace /\ ~InPlace'
    BY <1>1, <1>3, PlaceMoves
  <2> QED  BY <1>1, <1>2, <2>1, <2>3, <2>4, WorksOnTable DEF Step
<1>4. CASE phase = "body" /\ at \in {3, 5, 7}
  <2>1. index \in Drawn /\ last = index
    BY <1>1, <1>4 DEF NumbersDrawn, Past
  <2>2. CASE at = 3
    <3>1. Plant /\ Step([input |-> {"iota"}, index |-> {"drawn"}], [input |-> "pair"])
      BY <1>1, <1>4, <2>2, TheAction, AdjacentFindSteps
    <3>2. UNCHANGED <<index, last, answer, right, verdict>>
      BY <3>1 DEF Plant
    <3>3. /\ Number(index, "drawn") = "drawn" /\ Number(index, "drawn")' = Number(index, "drawn")
          /\ Number(last, "drawn")' = Number(last, "drawn")
          /\ Got("of_pair")' = Got("of_pair") /\ Said' = Said
      BY <2>1, <3>2, NumbersAre, SameAnswer, SaidSame
    <3>4. ~InPlace /\ InPlace'
      BY <1>1, <1>4, <2>2, PlaceMoves
    <3> QED  BY <1>1, <1>2, <3>1, <3>3, <3>4, WorksOnTable DEF Step
  <2>3. CASE at = 5
    <3>1. Call /\ At({"timed"}) /\ Step([input |-> {"pair"}], [last_offset |-> "of_pair"])
      BY <1>1, <1>4, <2>3, TheAction, AdjacentFindSteps
    <3>2. UNCHANGED <<index, last, verdict>>
      BY <3>1 DEF Call
    <3>3. /\ Number(index, "drawn")' = Number(index, "drawn")
          /\ Number(last, "drawn")' = Number(last, "drawn")
          /\ Got("of_pair")' = "of_pair" /\ Said' = Said
      BY <1>1, <3>1, <3>2, NumbersAre, Answering, SaidSame
    <3>4. InPlace /\ InPlace'
      BY <1>1, <1>4, <2>3, PlaceMoves
    <3> QED  BY <1>1, <1>2, <3>1, <3>3, <3>4, WorksOnTable DEF Step
  <2>4. CASE at = 7
    <3>1. Reset /\ Step([input |-> {"pair"}, index |-> {"drawn"}], [input |-> "iota"])
      <4>1. Reset
        BY <1>1, <1>4, <2>4, TheAction
      <4> QED  BY <1>4, <2>4, <4>1, AdjacentFindSteps
    <3>2. UNCHANGED <<index, last, answer, right, verdict>>
      BY <3>1 DEF Reset
    <3>3. /\ Number(index, "drawn") = "drawn" /\ Number(index, "drawn")' = Number(index, "drawn")
          /\ Number(last, "drawn")' = Number(last, "drawn")
          /\ Got("of_pair")' = Got("of_pair") /\ Said' = Said
      BY <2>1, <3>2, NumbersAre, SameAnswer, SaidSame
    <3>4. InPlace /\ ~InPlace'
      BY <1>1, <1>4, <2>4, PlaceMoves
    <3> QED  BY <1>1, <1>2, <3>1, <3>3, <3>4, WorksOnTable DEF Step
  <2> QED  BY <1>4, <2>2, <2>3, <2>4
<1>5. CASE phase \in {"post", "check"}
  <2>1. index \in Drawn /\ last \in Drawn /\ Got("of_pair") = "of_pair"
    BY <1>1, <1>5, HasAnswered DEF NumbersDrawn, Past
  <2>2. CASE phase = "post"
    <3>1. Replant /\ Step([input |-> {"iota"}, last_index |-> {"drawn"},
                           last_offset |-> {"of_pair"}], [input |-> "pair"])
      BY <1>1, <2>2, TheAction, AdjacentFindSteps
    <3>2. UNCHANGED <<index, last, answer, right, verdict>>
      BY <3>1 DEF Replant
    <3>3. /\ Number(last, "drawn") = "drawn" /\ Number(last, "drawn")' = Number(last, "drawn")
          /\ Number(index, "drawn")' = Number(index, "drawn")
          /\ Got("of_pair")' = Got("of_pair") /\ Said' = Said
      BY <2>1, <3>2, NumbersAre, SameAnswer, SaidSame
    <3>4. ~InPlace /\ InPlace'
      BY <1>1, <2>2, PlaceMoves
    <3> QED  BY <1>1, <1>2, <2>1, <3>1, <3>3, <3>4, WorksOnTable DEF Step
  <2>3. CASE phase = "check"
    <3>1. Check /\ Step([input |-> {"pair"}, last_offset |-> {"of_pair"}],
                        [verdict |-> "passed"])
      BY <1>1, <2>3, TheCheck, AdjacentFindSteps
    <3>2. UNCHANGED <<index, last, answer, right>>
      BY <3>1 DEF Check
    <3>3. /\ Number(last, "drawn")' = Number(last, "drawn")
          /\ Number(index, "drawn")' = Number(index, "drawn")
          /\ Got("of_pair")' = Got("of_pair") /\ Said' = "passed"
      BY <3>1, <3>2, NumbersAre, SameAnswer, CheckedIsPassed, SaidPassed
    <3>4. InPlace /\ InPlace'
      BY <1>1, <2>3, PlaceMoves
    <3> QED  BY <1>1, <1>2, <2>1, <3>1, <3>3, <3>4, WorksOnTable DEF Step
  <2> QED  BY <1>5, <2>2, <2>3
<1> QED
  <2>1. phase = "body" => at \in {1, 3, 5, 7}
    BY <1>1, BodySteps DEF At
  <2> QED  BY <1>3, <1>4, <1>5, <2>1
(* mismatch the same with a second vector; it copies in its first phase.   *)
LEMMA MismatchWorks ==
  ASSUME Exponentiation, DataInv, DataInv', TagsStand, TagsStand', Ideal, Ideal', Next,
         ~UNCHANGED vars, bench = "mismatch", phase \in {"body", "post", "check"},
         ~At({"open", "close"})
  PROVE  Mem' = Effect(cur, Mem)
<1> USE DEF DataInv, SoFar, DataTypes
<1>1. /\ bench' = "mismatch" /\ ~OnSets /\ ~OnSets' /\ Draws /\ Plants
      /\ DrawStep = 1 /\ CallStep = 5 /\ NoteStep = 1
      /\ phase' # "pre" /\ phase # "pre" /\ phase \in CodePhases
  BY Fixed, OtherMoves
  DEF OnSets, SetOperations, Draws, DrawStep, NoteStep, CallStep, CodePhases, Plants, Planting
<1>2. /\ Table = [data1 |-> "iota", data2 |-> IF InPlace THEN "mismatch" ELSE "iota",
                  idx |-> Number(index, "drawn"),
                  last_idx |-> Number(last, "drawn"), last_first_offset |-> Got("of_mismatch"),
                  verdict |-> Said]
      /\ Table' = [data1 |-> "iota", data2 |-> IF InPlace' THEN "mismatch" ELSE "iota",
                   idx |-> Number(index, "drawn")', last_idx |-> Number(last, "drawn")',
                   last_first_offset |-> Got("of_mismatch")', verdict |-> Said']
  BY <1>1 DEF Table
<1>3. CASE phase = "body" /\ at = 1
  <2>1. Draw /\ Step(<<>>, [idx |-> "drawn", last_idx |-> "drawn"])
    BY <1>1, <1>3, TheAction, MismatchSteps
  <2>2. index' \in Drawn /\ last' \in Drawn /\ UNCHANGED <<answer, right, verdict>>
    BY <1>1, <2>1 DEF Draw
  <2>3. /\ Number(index, "drawn")' = "drawn" /\ Number(last, "drawn")' = "drawn"
        /\ Got("of_mismatch")' = Got("of_mismatch") /\ Said' = Said
    BY <2>2, NumbersAre, SameAnswer, SaidSame
  <2>4. ~InPlace /\ ~InPlace'
    BY <1>1, <1>3, PlaceMoves
  <2> QED  BY <1>1, <1>2, <2>1, <2>3, <2>4, WorksOnTable DEF Step
<1>4. CASE phase = "body" /\ at \in {3, 5, 7}
  <2>1. index \in Drawn /\ last = index
    BY <1>1, <1>4 DEF NumbersDrawn, Past
  <2>2. CASE at = 3
    <3>1. Plant /\ Step([data1 |-> {"iota"}, data2 |-> {"iota"}, idx |-> {"drawn"}], [data2 |-> "mismatch"])
      BY <1>1, <1>4, <2>2, TheAction, MismatchSteps
    <3>2. UNCHANGED <<index, last, answer, right, verdict>>
      BY <3>1 DEF Plant
    <3>3. /\ Number(index, "drawn") = "drawn" /\ Number(index, "drawn")' = Number(index, "drawn")
          /\ Number(last, "drawn")' = Number(last, "drawn")
          /\ Got("of_mismatch")' = Got("of_mismatch") /\ Said' = Said
      BY <2>1, <3>2, NumbersAre, SameAnswer, SaidSame
    <3>4. ~InPlace /\ InPlace'
      BY <1>1, <1>4, <2>2, PlaceMoves
    <3> QED  BY <1>1, <1>2, <3>1, <3>3, <3>4, WorksOnTable DEF Step
  <2>3. CASE at = 5
    <3>1. Call /\ At({"timed"}) /\ Step([data1 |-> {"iota"}, data2 |-> {"mismatch"}], [last_first_offset |-> "of_mismatch"])
      BY <1>1, <1>4, <2>3, TheAction, MismatchSteps
    <3>2. UNCHANGED <<index, last, verdict>>
      BY <3>1 DEF Call
    <3>3. /\ Number(index, "drawn")' = Number(index, "drawn")
          /\ Number(last, "drawn")' = Number(last, "drawn")
          /\ Got("of_mismatch")' = "of_mismatch" /\ Said' = Said
      BY <1>1, <3>1, <3>2, NumbersAre, Answering, SaidSame
    <3>4. InPlace /\ InPlace'
      BY <1>1, <1>4, <2>3, PlaceMoves
    <3> QED  BY <1>1, <1>2, <3>1, <3>3, <3>4, WorksOnTable DEF Step
  <2>4. CASE at = 7
    <3>1. Reset /\ Step([data1 |-> {"iota"}, data2 |-> {"mismatch"}, idx |-> {"drawn"}], [data2 |-> "iota"])
      <4>1. Reset
        BY <1>1, <1>4, <2>4, TheAction
      <4> QED  BY <1>4, <2>4, <4>1, MismatchSteps
    <3>2. UNCHANGED <<index, last, answer, right, verdict>>
      BY <3>1 DEF Reset
    <3>3. /\ Number(index, "drawn") = "drawn" /\ Number(index, "drawn")' = Number(index, "drawn")
          /\ Number(last, "drawn")' = Number(last, "drawn")
          /\ Got("of_mismatch")' = Got("of_mismatch") /\ Said' = Said
      BY <2>1, <3>2, NumbersAre, SameAnswer, SaidSame
    <3>4. InPlace /\ ~InPlace'
      BY <1>1, <1>4, <2>4, PlaceMoves
    <3> QED  BY <1>1, <1>2, <3>1, <3>3, <3>4, WorksOnTable DEF Step
  <2> QED  BY <1>4, <2>2, <2>3, <2>4
<1>5. CASE phase \in {"post", "check"}
  <2>1. index \in Drawn /\ last \in Drawn /\ Got("of_mismatch") = "of_mismatch"
    BY <1>1, <1>5, HasAnswered DEF NumbersDrawn, Past
  <2>2. CASE phase = "post"
    <3>1. Replant /\ Step([data1 |-> {"iota"}, data2 |-> {"iota"}, last_idx |-> {"drawn"}],
                          [data2 |-> "mismatch"])
      BY <1>1, <2>2, TheAction, MismatchSteps
    <3>2. UNCHANGED <<index, last, answer, right, verdict>>
      BY <3>1 DEF Replant
    <3>3. /\ Number(last, "drawn") = "drawn" /\ Number(last, "drawn")' = Number(last, "drawn")
          /\ Number(index, "drawn")' = Number(index, "drawn")
          /\ Got("of_mismatch")' = Got("of_mismatch") /\ Said' = Said
      BY <2>1, <3>2, NumbersAre, SameAnswer, SaidSame
    <3>4. ~InPlace /\ InPlace'
      BY <1>1, <2>2, PlaceMoves
    <3> QED  BY <1>1, <1>2, <2>1, <3>1, <3>3, <3>4, WorksOnTable DEF Step
  <2>3. CASE phase = "check"
    <3>1. Check /\ Step([data1 |-> {"iota"}, data2 |-> {"mismatch"}, last_first_offset |-> {"of_mismatch"}],
                        [verdict |-> "passed"])
      BY <1>1, <2>3, TheCheck, MismatchSteps
    <3>2. UNCHANGED <<index, last, answer, right>>
      BY <3>1 DEF Check
    <3>3. /\ Number(last, "drawn")' = Number(last, "drawn")
          /\ Number(index, "drawn")' = Number(index, "drawn")
          /\ Got("of_mismatch")' = Got("of_mismatch") /\ Said' = "passed"
      BY <3>1, <3>2, NumbersAre, SameAnswer, CheckedIsPassed, SaidPassed
    <3>4. InPlace /\ InPlace'
      BY <1>1, <2>3, PlaceMoves
    <3> QED  BY <1>1, <1>2, <2>1, <3>1, <3>3, <3>4, WorksOnTable DEF Step
  <2> QED  BY <1>5, <2>2, <2>3
<1> QED
  <2>1. phase = "body" => at \in {1, 3, 5, 7}
    BY <1>1, BodySteps DEF At
  <2> QED  BY <1>3, <1>4, <1>5, <2>1

(* NaNs, the elements a set operation writes and the inputs differ.        *)
LEMMA NaNsAreNoNumbers == ASSUME DataTypes, Exact PROVE NaNs # iota
<1>1. size \in Nat /\ size >= 2 /\ 1 \in 1 .. size /\ iota[1] = 1
  BY Sizes2, IotaCounts
<1>2. NaNs[1] = quiet_NaN(type)
  BY <1>1 DEF NaNs, make_buffer
<1>3. quiet_NaN(type) # 1
  BY NaNAssumption DEF quiet_NaN
<1> QED  BY <1>1, <1>2, <1>3

LEMMA WrittenDiffers ==
  ASSUME Exponentiation, DataTypes, Exact, SubIsWithin
  PROVE  Written(Found) # NaNs /\ Written(Found) # iota
<1> DEFINE S == Int \union {NaN}
           rest == SubSeq(NaNs, Len(Found) + 1, size)
<1>1. /\ size \in Nat /\ size >= 4 /\ DOMAIN iota = 1 .. size
      /\ \A k \in 1 .. size : iota[k] = k
  BY Sizes2, IotaCounts DEF SubIsWithin
<1>2. \A k \in 1 .. size : NaNs[k] = quiet_NaN(type)
  BY DEF NaNs, make_buffer
<1>3. quiet_NaN(type) \in S /\ quiet_NaN(type) \notin 1 .. size
  BY <1>1, NaNAssumption DEF quiet_NaN
<1>4. Found \in Seq(S) /\ Len(Found) \in 1 .. size - 1
  <2>1. Found \in Seq(Int) /\ Len(Found) = result_size
    BY FoundIs
  <2>2. result_size \in 1 .. size - 1
    BY <1>1 DEF result_size
  <2> QED  BY <2>1, <2>2
<1>5. Found[1] \in 1 .. size
  <2>1. Kept \subseteq 1 .. size /\ Len(Found) = Cardinality(Kept)
    BY KeptFits, FoundIs
  <2>2. \A i \in Kept : iota[i] \in 1 .. size
    BY <1>1, <2>1
  <2>3. Found \in [1 .. Cardinality(Kept) -> 1 .. size]
    BY <1>1, <2>1, <2>2, Picked DEF Found
  <2>4. 1 \in 1 .. Cardinality(Kept)
    BY <1>4, <2>1
  <2> QED  BY <2>3, <2>4
<1> HIDE DEF S
<1>6. rest \in Seq(S) /\ Len(rest) = size - Len(Found) /\ rest[size - Len(Found)] = NaNs[size]
  <2> DEFINE m == Len(Found) + 1
  <2>1. m \in 1 .. size /\ size \in Int /\ \A k \in m .. size : NaNs[k] \in S
    BY <1>1, <1>2, <1>3, <1>4
  <2>2. size - m + 1 = size - Len(Found) /\ size - Len(Found) \in 1 .. size - m + 1
        /\ m + (size - Len(Found)) - 1 = size
    BY <1>1, <1>4
  <2> HIDE DEF m
  <2>3. /\ SubSeq(NaNs, m, size) \in Seq(S)
        /\ Len(SubSeq(NaNs, m, size)) = size - m + 1
        /\ \A k \in 1 .. size - m + 1 : SubSeq(NaNs, m, size)[k] = NaNs[m + k - 1]
    BY <2>1, SubSeqProperties
  <2> QED  BY <2>2, <2>3 DEF m
<1> HIDE DEF rest
<1>7. /\ (Found \o rest)[1] = Found[1]
      /\ (Found \o rest)[size] = rest[size - Len(Found)]
  <2>1. \A k \in 1 .. Len(Found) + Len(rest) :
          (Found \o rest)[k] = IF k <= Len(Found) THEN Found[k] ELSE rest[k - Len(Found)]
    BY <1>4, <1>6, ConcatProperties
  <2>2. /\ 1 \in 1 .. Len(Found) + Len(rest) /\ size \in 1 .. Len(Found) + Len(rest)
        /\ 1 <= Len(Found) /\ ~(size <= Len(Found))
    BY <1>1, <1>4, <1>6
  <2> QED  BY <2>1, <2>2
<1>8. Written(Found) = Found \o rest
  BY DEF Written, rest
<1>9. 1 \in 1 .. size /\ size \in 1 .. size
  BY <1>1
<1> QED  BY <1>1, <1>2, <1>3, <1>5, <1>6, <1>7, <1>8, <1>9

(* The output of a set operation is empty, or what F has to write.         *)
OutputStands ==
  Ideal /\ OnSets /\ phase # "pre" =>
    /\ vec.output = NaNs => ContentOf("output") = "nans"
    /\ vec.output = Written(Found) => ContentOf("output") = WrittenTag

LEMMA OutputTags == ASSUME Exponentiation, SoFar PROVE OutputStands
<1> SUFFICES ASSUME Ideal, OnSets, phase # "pre"
             PROVE  /\ vec.output = NaNs => ContentOf("output") = "nans"
                    /\ vec.output = Written(Found) => ContentOf("output") = WrittenTag
  BY DEF OutputStands
<1> USE DEF SoFar, Ideal
<1>1. vec = [data1 |-> iota, data2 |-> sub, output |-> vec.output]
  BY DEF VectorsMade, SetsStand
<1>2. vec.data1 = iota /\ vec.data2 = sub
  BY <1>1
<1>3. Padded(Right(vec, index)) = Written(Found)
  BY <1>2, RightIsFound DEF Padded, Written
<1>4. NaNs # iota /\ Written(Found) # NaNs /\ Written(Found) # iota
  BY NaNsAreNoNumbers, WrittenDiffers
<1> QED  BY <1>3, <1>4 DEF ContentOf, WrittenTag

(* A call of a set operation on a cleared output.                          *)
LEMMA SetsAreWritten ==
  ASSUME SoFar, Ideal, OnSets, phase # "pre", Emptied, Call
  PROVE  vec.output = NaNs /\ vec'.output = Written(Found)
<1> USE DEF SoFar, Ideal
<1>1. vec = [data1 |-> iota, data2 |-> sub, output |-> vec.output] /\ vec.output = NaNs
  BY DEF VectorsMade, SetsStand
<1>2. vec.data1 = iota /\ vec.data2 = sub /\ "output" \in DOMAIN vec
  BY <1>1
<1>3. answer' = Found
  <2>1. answer' = Right(vec, index)
    BY DEF Call, Returns
  <2> QED  BY <1>2, <2>1, RightIsFound
<1>4. vec' = [vec EXCEPT !.output = answer' \o SubSeq(vec.output, Len(answer') + 1, size)]
  BY DEF Call, OnSets
<1>5. vec'.output = answer' \o SubSeq(vec.output, Len(answer') + 1, size)
  BY <1>2, <1>4
<1> QED  BY <1>1, <1>3, <1>5 DEF Written

(* The set operations write an output that is cleared after every call,    *)
(* and before the one that is verified.                                    *)
LEMMA SetsWork ==
  ASSUME Exponentiation, DataInv, DataInv', TagsStand, TagsStand', OutputStands, OutputStands',
         Ideal, Ideal', Next, ~UNCHANGED vars, OnSets, phase \in {"body", "check"},
         ~At({"open", "close"})
  PROVE  Mem' = Effect(cur, Mem)
<1> USE DEF DataInv, SoFar, DataTypes
<1>1. /\ bench' = bench /\ OnSets' /\ ~Plants /\ CallStep = 1 /\ WrittenTag' = WrittenTag
      /\ phase' # "pre" /\ phase # "pre" /\ phase \in CodePhases
      /\ NaNs' = NaNs /\ Written(Found)' = Written(Found)
  <2>1. bench' = bench /\ size' = size /\ NaNs' = NaNs /\ Found' = Found
    BY Fixed, FixedToo, FoundStays
  <2>2. Written(Found)' = Written(Found)
    BY <2>1 DEF Written
  <2> QED
    BY <2>1, <2>2, OtherMoves
    DEF OnSets, SetOperations, CallStep, CodePhases, Plants, Planting, WrittenTag
<1>2. /\ Table = [data1 |-> "iota", data2 |-> "sub", output |-> ContentOf("output"),
                  verdict |-> Said]
      /\ Table' = [data1 |-> "iota", data2 |-> "sub", output |-> ContentOf("output")',
                   verdict |-> Said']
  BY <1>1 DEF Table, OnSets, SetOperations
<1>3. /\ vec.output = NaNs => ContentOf("output") = "nans"
      /\ vec.output = Written(Found) => ContentOf("output") = WrittenTag
      /\ vec'.output = NaNs => ContentOf("output")' = "nans"
      /\ vec'.output = Written(Found) => ContentOf("output")' = WrittenTag
  BY <1>1 DEF OutputStands
<1>4. vec = [data1 |-> iota, data2 |-> sub, output |-> vec.output]
  BY <1>1 DEF VectorsMade, SetsStand
<1>5. [vec EXCEPT !.output = NaNs].output = NaNs
  BY <1>4
<1>6. CASE Call /\ Step([data1 |-> {"iota"}, data2 |-> {"sub"}, output |-> {"nans"}],
                        [output |-> WrittenTag])
           /\ Emptied
  <2>1. vec.output = NaNs /\ vec'.output = Written(Found)
    BY <1>1, <1>6, SetsAreWritten
  <2>2. Said' = Said
    BY <1>6, SaidSame DEF Call
  <2> QED  BY <1>1, <1>2, <1>3, <1>6, <2>1, <2>2, WorksOnTable DEF Step
<1>7. CASE (Reset \/ Refill) /\ Step(<<>>, [output |-> "nans"])
  <2>1. vec'.output = NaNs /\ verdict' = verdict
    BY <1>1, <1>5, <1>7 DEF Reset, Refill
  <2>2. Said' = Said
    BY <2>1, SaidSame
  <2>3. DOMAIN <<>> = {}
    OBVIOUS
  <2> QED  BY <1>1, <1>2, <1>3, <1>7, <2>1, <2>2, <2>3, WorksOnTable DEF Step
<1>8. CASE phase = "body"
  <2>1. at \in {1, 3}
    BY <1>1, <1>8, BodySteps DEF At
  <2>2. CASE at = 1
    <3>1. Emptied
      BY <1>8, <2>2 DEF Emptied
    <3>2. Call
      BY <1>1, <1>8, <2>2, TheAction
    <3> QED  BY <1>6, <1>8, <2>2, <3>1, <3>2, SetSteps
  <2>3. CASE at = 3
    <3>1. Reset
      BY <1>8, <2>3, TheAction
    <3> QED  BY <1>7, <1>8, <2>3, <3>1, SetSteps
  <2> QED  BY <2>1, <2>2, <2>3
<1>9. CASE phase = "check"
  <2>1. Len(prog.check) = 3
    BY Lengths
  <2>2. at \in 1 .. 3
    BY <1>9, <2>1, OtherSteps
  <2>3. CASE at = 1
    <3>1. Refill
      BY <1>9, <2>3, TheAction
    <3> QED  BY <1>7, <1>9, <2>3, <3>1, SetSteps
  <2>4. CASE at = 2
    <3>1. Emptied
      BY <1>9, <2>4 DEF Emptied
    <3>2. Call
      BY <1>9, <2>4, TheAction
    <3> QED  BY <1>6, <1>9, <2>4, <3>1, <3>2, SetSteps
  <2>5. CASE at = 3
    <3>1. Check /\ Step([data1 |-> {"iota"}, data2 |-> {"sub"}, output |-> {WrittenTag}],
                        [verdict |-> "passed"])
      BY <1>9, <2>1, <2>5, TheAction, SetSteps
    <3>2. vec.output = Written(Found)
      BY <1>9, <2>5 DEF Answers, Ideal
    <3>3. vec' = vec /\ Said' = "passed"
      BY <3>1, CheckedIsPassed, SaidPassed DEF Check
    <3> QED  BY <1>1, <1>2, <1>3, <3>1, <3>2, <3>3, WorksOnTable DEF Step
  <2> QED  BY <2>2, <2>3, <2>4, <2>5
<1> QED  BY <1>8, <1>9

(* What is not a vector is held as before while the inputs are made.       *)
LEMMA ScalarsStay ==
  ASSUME bench' = bench, UNCHANGED <<index, last, answer, right, verdict>>
  PROVE  \A v : v \notin DOMAIN vec /\ v \notin DOMAIN vec' => Held(v)' = Held(v)
<1>1. Scalars' = Scalars
  BY DEF Scalars, Number, Got
<1> QED  BY <1>1 DEF Held

(* The vectors a wrapper starts with hold what its program generates.      *)
LEMMA GenerateWorks ==
  ASSUME DataInv, Ideal, Generate
  PROVE  Mem' = Effect(cur, Mem)
<1> USE DEF DataInv, SoFar, DataTypes
<1>1. /\ phase = "pre" /\ at = 1 /\ vec = <<>> /\ vec' = Inputs /\ DOMAIN vec = {}
      /\ UNCHANGED <<bench, iota, sub, NaNs, index, last, answer, right, verdict>>
  <2>1. vec = <<>>
    BY DEF Generate, VectorsMade, InputsMade
  <2>2. Next
    BY DEF Next
  <2>3. UNCHANGED <<bench, iota, sub, NaNs>>
    BY <2>2, Fixed, FixedToo
  <2> QED  BY <2>1, <2>3 DEF Generate
<1>2. \A v : v \notin DOMAIN vec' => Held(v)' = Held(v)
  BY <1>1, ScalarsStay
<1>3. sub # iota /\ NaNs # iota
  BY SubIsShorter, NaNsAreNoNumbers DEF Ideal
<1>4. \A v \in DOMAIN vec' : Held(v)' = ContentOf(v)'
  BY DEF Held
<1>5. \A v \in DOMAIN vec' : vec'[v] = iota => Held(v)' = "iota"
  BY <1>1, <1>4 DEF ContentOf
<1>6. cur.needs = <<>> => DOMAIN cur.needs = {}
  OBVIOUS
<1>7. ASSUME cur.needs = <<>>, DOMAIN cur.gives = DOMAIN Inputs,
             \A v \in DOMAIN Inputs : Held(v)' = cur.gives[v]
      PROVE  Mem' = Effect(cur, Mem)
  BY <1>1, <1>2, <1>6, <1>7, WorksOnTags
<1>8. CASE bench \in {"adjacent_find", "find", "count"}
  <2>1. Inputs = [input |-> iota]
    BY <1>8 DEF Inputs, SetOperations
  <2>2. Step(<<>>, [input |-> "iota"])
    BY <1>1, <1>8, AdjacentFindSteps, FindSteps, CountSteps
  <2> QED  BY <1>1, <1>5, <1>7, <2>1, <2>2 DEF Step
<1>9. CASE bench = "mismatch"
  <2>1. Inputs = [data1 |-> iota]
    BY <1>9 DEF Inputs, SetOperations
  <2>2. Step(<<>>, [data1 |-> "iota"])
    BY <1>1, <1>9, MismatchSteps
  <2> QED  BY <1>1, <1>5, <1>7, <2>1, <2>2 DEF Step
<1>10. CASE bench = "equal"
  <2>1. Inputs = [data1 |-> iota, data2 |-> iota]
    BY <1>10 DEF Inputs, SetOperations
  <2>2. Step(<<>>, [data1 |-> "iota", data2 |-> "iota"])
    BY <1>1, <1>10, EqualSteps
  <2> QED  BY <1>1, <1>5, <1>7, <2>1, <2>2 DEF Step
<1>11. CASE bench = "search" \/ OnSets
  <2>1. vec'["data2"] = sub => Held("data2")' = "sub"
    <3>1. "data2" \in DOMAIN vec'
      BY <1>1, <1>11 DEF Inputs, OnSets, SetOperations
    <3>2. bench # "mismatch"
      BY <1>11 DEF OnSets, SetOperations
    <3> QED  BY <1>1, <1>3, <1>4, <3>1, <3>2 DEF ContentOf
  <2>2. CASE bench = "search"
    <3>1. Inputs = [data1 |-> iota, data2 |-> sub]
      BY <2>2 DEF Inputs, SetOperations
    <3>2. Step(<<>>, [data1 |-> "iota", data2 |-> "sub"])
      BY <1>1, <2>2, SearchSteps
    <3> QED  BY <1>1, <1>5, <1>7, <2>1, <3>1, <3>2 DEF Step
  <2>3. CASE OnSets
    <3>1. Inputs = [data1 |-> iota, data2 |-> sub, output |-> NaNs]
      BY <2>3 DEF Inputs, OnSets, SetOperations
    <3>2. Step(<<>>, [data1 |-> "iota", data2 |-> "sub", output |-> "nans"])
      BY <1>1, <2>3, SetSteps
    <3>3. Held("output")' = "nans"
      <4>1. "output" \in DOMAIN vec' /\ vec'["output"] = NaNs
        BY <1>1, <3>1
      <4> QED  BY <1>1, <1>3, <1>4, <4>1 DEF ContentOf
    <3> QED  BY <1>1, <1>5, <1>7, <2>1, <3>1, <3>2, <3>3 DEF Step
  <2> QED  BY <1>11, <2>2, <2>3
<1> QED  BY <1>8, <1>9, <1>10, <1>11, Benches DEF OnSets, Planting

LEMMA CopyWorks ==
  ASSUME DataInv, Copy
  PROVE  Mem' = Effect(cur, Mem)
<1> USE DEF DataInv, SoFar, DataTypes
<1>1. /\ phase = "pre" /\ at = 2 /\ bench = "mismatch" /\ vec = [data1 |-> iota]
      /\ vec' = [data1 |-> vec.data1, data2 |-> vec.data1]
      /\ UNCHANGED <<bench, iota, index, last, answer, right, verdict>>
  <2>1. bench = "mismatch" /\ vec = [data1 |-> iota]
    BY DEF Copy, VectorsMade, InputsMade
  <2>2. Next
    BY DEF Next
  <2>3. UNCHANGED <<bench, iota>>
    BY <2>2, Fixed, FixedToo
  <2> QED  BY <2>1, <2>3 DEF Copy
<1>2. vec' = [data1 |-> iota, data2 |-> iota]
  BY <1>1
<1>3. \A v : v \notin {"data1", "data2"} => Held(v)' = Held(v)
  BY <1>1, <1>2, ScalarsStay
<1>4. Held("data1") = "iota" /\ Held("data1")' = "iota" /\ Held("data2")' = "iota"
  BY <1>1, <1>2 DEF Held, ContentOf
<1>5. Step([data1 |-> {"iota"}], [data2 |-> "iota"])
  BY <1>1, MismatchSteps
<1>6. IsStep(cur)
  BY <1>1, CurIsStep DEF CodePhases
<1>7. \A v \in DOMAIN cur.needs : v \in Loc /\ Held(v) \in cur.needs[v]
  BY <1>4, <1>5, <1>6 DEF IsStep, Step
<1> QED  BY <1>3, <1>4, <1>5, <1>7, WorksOnTags DEF Step

(* Every step that is not a host_view's works.                             *)
LEMMA NotQuiet ==
  ASSUME ControlOK, Next, ~Quiet, ~UNCHANGED vars
  PROVE  phase \in CodePhases /\ Advance /\ cur.op \in {"raw", "host"} \union Calls
<1>1. phase \in {"pre", "post"} => cur.op = "raw"
  BY OtherSteps
<1>2. Refill => cur.op = "raw"
  <2>1. Refill => OnSets /\ phase = "check" /\ at = 1
    BY DEF Refill, OnSets
  <2> QED  BY <2>1, OtherSteps
<1> QED
  BY <1>1, <1>2
  DEF Next, Generate, Copy, Draw, Note, Plant, Call, Reset, Replant, Refill, Check, Returned, At,
      Calls, CodePhases

(* Each of them turns the contents into what its program says.             *)
LEMMA StepsWork ==
  ASSUME Exponentiation, DataInv, DataInv', TagsStand, TagsStand', OutputStands, OutputStands',
         Ideal, Ideal', Next, ~Quiet, ~UNCHANGED vars
  PROVE  Mem' = Effect(cur, Mem)
<1>1. ControlOK
  BY DEF DataInv, SoFar, DataTypes
<1>2. phase \in CodePhases /\ ~At({"open", "close"})
  BY <1>1, NotQuiet DEF At, Calls
<1>3. CASE phase = "pre"
  <2>1. Generate \/ Copy
    BY <1>1, <1>3, TheAction
  <2> QED  BY <2>1, GenerateWorks, CopyWorks
<1>4. CASE phase \in {"body", "check"}
  BY <1>1, <1>2, <1>4, Benches, CountWorks, FindWorks, SearchWorks, EqualWorks,
     AdjacentFindWorks, MismatchWorks, SetsWork
  DEF OnSets, Planting
<1>5. CASE phase = "post"
  <2>1. bench \in Planting
    BY <1>1, <1>5, OtherSteps DEF Plants
  <2> QED  BY <1>2, <1>5, <2>1, AdjacentFindWorks, MismatchWorks DEF Planting
<1> QED  BY <1>2, <1>3, <1>4, <1>5 DEF CodePhases

(* Constructing references, opening and closing host_views moves no data.  *)
LEMMA MemStays ==
  ASSUME bench' = bench, UNCHANGED data
  PROVE  Mem' = Mem
<1>1. UNCHANGED <<iota, sub, NaNs>>
  BY DEF data, iota, sub, NaNs
<1>2. \A v : ContentOf(v)' = ContentOf(v)
  BY <1>1 DEF data, ContentOf, Padded, Planted, Right, Wanted, SetOperations
<1>3. Scalars' = Scalars
  BY DEF data, Scalars, Number, Got
<1>4. \A v : Held(v)' = Held(v)
  BY <1>2, <1>3 DEF data, Held
<1> QED  BY <1>4 DEF Mem

LEMMA StartsAsReference == ASSUME Init PROVE Reference!Init
<1>1. vec = <<>> /\ index = -1 /\ last = -1 /\ answer = <<>> /\ verdict = "unset"
  BY DEF Init
<1>2. \A c : Number(index, c) = Unset /\ Number(last, c) = Unset /\ Got(c) = Unset
  BY <1>1 DEF Number, Got
<1>3. \A v \in DOMAIN Scalars : Scalars[v] = Unset
  <2>1. CASE bench = "adjacent_find"
    BY <1>2, <2>1 DEF Scalars
  <2>2. CASE bench = "mismatch"
    BY <1>2, <2>2 DEF Scalars
  <2>3. CASE bench = "find"
    BY <1>2, <2>3 DEF Scalars
  <2>4. CASE bench = "count"
    BY <1>2, <2>4 DEF Scalars
  <2>5. CASE bench = "search"
    BY <1>2, <2>5 DEF Scalars
  <2>6. CASE bench \notin {"adjacent_find", "mismatch", "find", "count", "search"}
    <3>1. Scalars = <<>>
      BY <2>6 DEF Scalars
    <3> QED  BY <3>1
  <2> QED  BY <2>1, <2>2, <2>3, <2>4, <2>5, <2>6
<1>4. \A v : Held(v) = Unset
  <2>1. DOMAIN vec = {}
    BY <1>1
  <2> QED  BY <1>1, <1>3, <2>1 DEF Held
<1>5. Mem = [v \in Loc |-> Unset]
  BY <1>4 DEF Mem
<1>6. ControlInit
  BY DEF Init
<1> QED  BY <1>5, <1>6, SameControl DEF Reference!Init

LEMMA StepRefines ==
  ASSUME Exponentiation, DataInv, DataInv', TagsStand, TagsStand', OutputStands, OutputStands',
         Ideal, Ideal', [Next]_vars
  PROVE  [Reference!Next]_(Reference!vars)
<1>1. bench' = bench
  BY Fixed
<1>2. CASE UNCHANGED vars
  <2>1. Mem' = Mem
    BY <1>1, <1>2, MemStays DEF vars
  <2>2. UNCHANGED control
    BY <1>2 DEF vars
  <2> QED  BY <2>1, <2>2 DEF Reference!vars, Reference!control, control
<1>3. CASE Quiet
  <2>1. Mem' = Mem
    BY <1>1, <1>3, MemStays DEF Quiet
  <2>2. CASE phase \in {"lift", "drop"} /\ Leave
    BY <2>1, <2>2, SameControl DEF Reference!Next, Reference!Lift, Reference!Drop
  <2>3. CASE At({"open", "close"}) /\ Advance
    BY <2>1, <2>3, SameControl DEF Reference!Next, Reference!View
  <2> QED  BY <1>3, <2>2, <2>3 DEF Quiet
<1>4. CASE Next /\ ~Quiet /\ ~UNCHANGED vars
  <2>1. Mem' = Effect(cur, Mem)
    BY <1>4, StepsWork
  <2>2. phase \in CodePhases /\ Advance /\ cur.op \in {"raw", "host"} \union Calls
    BY <1>4, NotQuiet DEF DataInv, SoFar, DataTypes
  <2>3. CASE At({"raw", "host"})
    BY <2>1, <2>2, <2>3, SameControl DEF Reference!Next, Reference!Work
  <2>4. CASE At(Calls)
    BY <2>1, <2>2, <2>4, SameControl DEF Reference!Next, Reference!Call, Reference!Calls, Calls
  <2> QED  BY <2>2, <2>3, <2>4 DEF At
<1> QED  BY <1>2, <1>3, <1>4

(* ImplementsReference: as long as the element type tells the numbers      *)
(* apart, the second input is one of positive numbers and F is right,      *)
(* every step of every wrapper, on any number of elements, is the step of  *)
(* its program over references to the vectors.  The contents that module   *)
(* Benchmarks names and BufferView moves between host and device are       *)
(* therefore those the elements really have.                               *)
THEOREM WrappersImplementReferences ==
  ASSUME Exponentiation PROVE Spec => ImplementsReference
<1> DEFINE Inv == DataInv /\ TagsStand /\ OutputStands
           A == Exact /\ SubIsWithin /\ F = "right" => [Reference!Next]_(Reference!vars)
<1>1. DataInv => Inv
  BY TagsAre, OutputTags DEF DataInv
<1>2. Spec => []Inv
  <2> HIDE DEF Inv
  <2> QED  BY <1>1, DataInvHolds, PTL
<1>3. Init => (Exact /\ SubIsWithin /\ F = "right" => Reference!Init)
  BY StartsAsReference
<1>4. Inv /\ Inv' /\ [Next]_vars => A
  <2> SUFFICES ASSUME Inv, Inv', [Next]_vars, Exact, SubIsWithin, F = "right"
               PROVE  [Reference!Next]_(Reference!vars)
    OBVIOUS
  <2>1. Ideal /\ Ideal'
    <3>1. Exact' /\ size' = size /\ F' = F
      BY Fixed, FixedToo
    <3> QED  BY <3>1 DEF Ideal, SubIsWithin
  <2> QED  BY <2>1, StepRefines
<1>5. Inv /\ Inv' /\ [Next]_vars => [A]_vars
  BY <1>4
<1> QED
  <2> HIDE DEF Inv
  <2> QED  BY <1>2, <1>3, <1>5, PTL DEF Spec, ImplementsReference
=============================================================================

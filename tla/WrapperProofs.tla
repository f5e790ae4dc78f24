---------------------------- MODULE WrapperProofs ----------------------------
(***************************************************************************)
(* Facts about the control skeleton that do not depend on the memory the   *)
(* wrappers work on, and about the table of contents a wrapper may have.   *)
(***************************************************************************)
EXTENDS Flow, WellFoundedInduction, TLAPS

(* A set of numbers has a least one; if none exceeds n, a greatest one.    *)
LEMMA Least ==
  ASSUME NEW P, P \subseteq Nat, P # {}
  PROVE  \E k \in P : \A j \in P : k <= j
<1>1. IsWellFoundedOn(OpToRel(<, Nat), Nat)
  BY NatLessThanWellFounded
<1>2. PICK k \in P : \A j \in P : ~(<<j, k>> \in OpToRel(<, Nat))
  BY <1>1, WFMin
<1>3. \A j \in P : ~(j < k)
  BY <1>2 DEF OpToRel
<1> QED  BY <1>3

LEMMA Greatest ==
  ASSUME NEW n \in Nat, NEW P, P \subseteq 1 .. n, P # {}
  PROVE  \E k \in P : \A j \in P : j <= k
<1> DEFINE Q == {n - j : j \in P}
<1>1. Q \subseteq Nat /\ Q # {}
  <2>1. \A j \in P : n - j \in Nat
    OBVIOUS
  <2>2. PICK j \in P : TRUE
    OBVIOUS
  <2>3. n - j \in Q
    BY <2>2
  <2> QED  BY <2>1, <2>3
<1>2. PICK q \in Q : \A r \in Q : q <= r
  <2> HIDE DEF Q
  <2> QED  BY <1>1, Least
<1>3. PICK k \in P : q = n - k
  OBVIOUS
<1>4. ASSUME NEW j \in P PROVE j <= k
  <2>1. n - j \in Q
    OBVIOUS
  <2>2. n - k <= n - j
    BY <1>2, <1>3, <2>1
  <2>3. j \in 1 .. n /\ k \in 1 .. n
    OBVIOUS
  <2> QED  BY ONLY <2>2, <2>3, n \in Nat
<1> QED  BY <1>4

(* The program being run is one of the well-formed ones.                   *)
LEMMA ProgIsProgram ==
  ASSUME ControlOK
  PROVE  IsProgram(prog) /\ ReachesLiftedThroughBench(prog)
BY ProgramsAssumption DEF ControlOK, prog

(* A wrapper that is in a phase of code is at a step.                      *)
LEMMA CurIsStep ==
  ASSUME ControlOK, phase \in CodePhases
  PROVE  IsStep(cur)
<1>1. IsCode(prog[phase]) /\ at \in 1 .. Len(prog[phase])
  BY ProgIsProgram DEF ControlOK, IsProgram
<1>2. QED  BY <1>1 DEF IsCode, cur

(* A step makes a memory of a memory, and changes its outputs only.        *)
LEMMA EffectType ==
  ASSUME NEW s, IsStep(s), NEW m \in [Loc -> Content]
  PROVE  /\ Effect(s, m) \in [Loc -> Content]
         /\ \A v \in Loc \ s.on : Effect(s, m)[v] = m[v]
<1>1. ASSUME NEW v \in Loc
      PROVE  (IF v \notin DOMAIN s.gives THEN m[v]
              ELSE IF Met(s, m) THEN s.gives[v] ELSE Junk) \in Content
  BY ContentAssumption DEF IsStep
<1>2. Effect(s, m) \in [Loc -> Content]  BY <1>1 DEF Effect
<1>3. \A v \in Loc \ s.on : Effect(s, m)[v] = m[v]  BY DEF Effect, IsStep
<1>4. QED  BY <1>2, <1>3

(* What a step finds and does depends on the locations it works on only.   *)
LEMMA MetAgrees ==
  ASSUME NEW s, IsStep(s), NEW m, NEW n, \A v \in s.on : m[v] = n[v]
  PROVE  Met(s, m) <=> Met(s, n)
BY DEF IsStep, Met

LEMMA EffectAgrees ==
  ASSUME NEW s, IsStep(s), NEW m \in [Loc -> Content], NEW n \in [Loc -> Content],
         \A v \in s.on : m[v] = n[v]
  PROVE  \A v \in s.on : Effect(s, m)[v] = Effect(s, n)[v]
<1>1. s.on \subseteq Loc  BY DEF IsStep
<1>2. Met(s, m) <=> Met(s, n)  BY MetAgrees
<1>3. QED  BY <1>1, <1>2 DEF Effect

LEMMA LeaveKeepsControl ==
  ASSUME ControlOK, Leave, phase # "done",
         phase \in CodePhases => at = Len(prog[phase])
  PROVE  ControlOK'
<1>1. IsProgram(prog)  BY ProgIsProgram
<1>2. prog' = prog  BY DEF prog, Leave
<1>3. PhaseAfter(phase) \in Phases
  BY DEF PhaseAfter, CheckOrDone, ControlOK, Phases, CodePhases
<1>4. iters \in Nat /\ iter \in 1 .. iters /\ iter' \in 1 .. iters
  BY ItersAssumption DEF ControlOK, Leave
<1>5. ASSUME PhaseAfter(phase) \in CodePhases
      PROVE  Len(prog[PhaseAfter(phase)]) \in Nat \ {0}
  <2>1. \A ph \in CodePhases : Len(prog[ph]) \in Nat  BY <1>1 DEF IsProgram, IsCode
  <2>2. CASE PhaseAfter(phase) # "post"
    <3>1. Len(prog[PhaseAfter(phase)]) > 0  BY <1>1, <1>5, <2>2 DEF IsProgram
    <3>2. QED  BY <1>5, <2>1, <3>1
  <2>3. CASE PhaseAfter(phase) = "post"
    <3>1. phase = "drop" /\ Len(prog.post) > 0
      BY <2>3 DEF PhaseAfter, CheckOrDone, ControlOK, Phases, CodePhases
    <3>2. prog["post"] = prog.post  OBVIOUS
    <3>3. QED  BY <2>1, <2>3, <3>1 DEF CodePhases
  <2>4. QED  BY <2>2, <2>3
<1>6. phase' = PhaseAfter(phase) /\ at' = 1
  BY DEF Leave
<1>7. phase' \in CodePhases => at' \in 1 .. Len(prog'[phase'])
  BY <1>2, <1>5, <1>6
<1>8. QED  BY <1>3, <1>4, <1>6, <1>7 DEF ControlOK, Leave

LEMMA AdvanceKeepsControl ==
  ASSUME ControlOK, Advance, phase \in CodePhases
  PROVE  ControlOK'
<1>1. Len(prog[phase]) \in Nat /\ at \in 1 .. Len(prog[phase])
  BY ProgIsProgram DEF ControlOK, IsProgram, IsCode
<1>2. CASE at < Len(prog[phase])
  <2>1. at' = at + 1 /\ UNCHANGED <<backend, bench, iters, verifying, phase, iter>>
    BY <1>2 DEF Advance
  <2>2. prog' = prog  BY <2>1 DEF prog
  <2>3. QED  BY <1>1, <1>2, <2>1, <2>2 DEF ControlOK
<1>3. CASE ~(at < Len(prog[phase]))
  <2>1. Leave  BY <1>3 DEF Advance
  <2>2. at = Len(prog[phase])  BY <1>1, <1>3
  <2>3. phase # "done"  BY DEF CodePhases
  <2>4. QED  BY <2>1, <2>2, <2>3, LeaveKeepsControl
<1>4. QED  BY <1>2, <1>3

(* Where the wrapper starts.                                               *)
LEMMA StartIsControlled == ASSUME ControlInit PROVE ControlOK
<1>1. Len(prog["pre"]) \in Nat /\ Len(prog["pre"]) > 0
  BY ProgramsAssumption DEF ControlInit, prog, IsProgram, IsCode, CodePhases
<1>2. prog[phase] = prog["pre"] /\ iter \in 1 .. iters
  BY ItersAssumption DEF ControlInit
<1> QED  BY <1>1, <1>2 DEF ControlInit, ControlOK, Phases, CodePhases

-----------------------------------------------------------------------------
(* A memory that the table describes goes on being described by it.        *)

table == Flow[backend][bench]

(* The row of the table that is about the current state.                   *)
Row ==
  CASE phase \in CodePhases -> table[phase][at]
    [] phase = "lift" -> table["body"][1]
    [] phase = "drop" -> table["post"][1]
    [] OTHER -> End(prog, table, "check")

LEMMA RowStays == ASSUME UNCHANGED control PROVE Row' = Row /\ prog' = prog /\ table' = table
<1>1. prog' = prog /\ table' = table
  BY DEF control, prog, table
<1> QED  BY <1>1 DEF control, Row, End

LEMMA FirstRow ==
  ASSUME ControlInit, IterationsCompose
  PROVE  \A v \in Loc : Unset \in Row[v]
<1>1. Row = table["pre"][1]
  BY DEF ControlInit, Row, CodePhases
<1> QED  BY <1>1 DEF IterationsCompose, IsFlow, table

(* In a memory the table describes a step finds what it needs ...          *)
LEMMA StepIsMet ==
  ASSUME ControlOK, IterationsCompose, phase \in CodePhases,
         NEW m, \A v \in Loc : m[v] \in Row[v]
  PROVE  Met(cur, m)
<1>1. at \in 1 .. Len(prog[phase]) /\ cur = prog[phase][at]
  BY DEF ControlOK, cur
<1>2. \A v \in DOMAIN cur.needs : table[phase][at][v] \subseteq cur.needs[v]
  BY <1>1 DEF IterationsCompose, IsFlow, table
<1>3. DOMAIN cur.needs \subseteq Loc
  BY CurIsStep DEF IsStep
<1>4. Row = table[phase][at]
  BY DEF Row, CodePhases
<1> QED  BY <1>2, <1>3, <1>4 DEF Met

(* ... and leaves what the table says about the next step.                 *)
LEMMA StepFollows ==
  ASSUME ControlOK, IterationsCompose, phase \in CodePhases,
         NEW m, \A v \in Loc : m[v] \in Row[v]
  PROVE  \A v \in Loc : Effect(cur, m)[v] \in table[phase][at + 1][v]
<1>1. at \in 1 .. Len(prog[phase]) /\ cur = prog[phase][at]
  BY DEF ControlOK, cur
<1>2. Within(After(cur, table[phase][at]), table[phase][at + 1])
  BY <1>1 DEF IterationsCompose, IsFlow, table
<1>3. Row = table[phase][at]
  BY DEF Row, CodePhases
<1>4. Met(cur, m)
  BY StepIsMet
<1>5. ASSUME NEW v \in Loc PROVE Effect(cur, m)[v] \in After(cur, table[phase][at])[v]
  BY <1>3, <1>4 DEF After, Effect
<1> QED  BY <1>2, <1>5 DEF Within

LEMMA Edges ==
  ASSUME IterationsCompose
  PROVE  /\ Within(End(prog, table, "pre"), table["body"][1])
         /\ Within(End(prog, table, "body"), table["body"][1])
         /\ Within(End(prog, table, "body"), table["post"][1])
         /\ Within(End(prog, table, "post"), table["check"][1])
BY DEF IterationsCompose, IsFlow, table

(* The bench_inputs come and go between two parts of the wrapper.          *)
LEMMA RowAfterLeave ==
  ASSUME ControlOK, IterationsCompose, phase \in {"lift", "drop"}, Leave,
         phase' # "done" \/ verifying',
         NEW m, \A v \in Loc : m[v] \in Row[v]
  PROVE  \A v \in Loc : m[v] \in Row'[v]
<1>1. UNCHANGED <<backend, bench, verifying, prog, table>>
  BY DEF Leave, prog, table
<1>2. CASE phase = "lift"
  <2>1. Row' = table["body"][1]
    BY <1>1, <1>2 DEF Leave, PhaseAfter, Row, CodePhases
  <2>2. Row = table["body"][1]
    BY <1>2 DEF Row, CodePhases
  <2> QED  BY <2>1, <2>2
<1>3. CASE phase = "drop"
  <2>1. Row = table["post"][1]
    BY <1>3 DEF Row, CodePhases
  <2>2. CASE Len(prog.post) > 0
    <3>1. Row' = table["post"][1]
      BY <1>1, <1>3, <2>2 DEF Leave, PhaseAfter, Row, CodePhases
    <3> QED  BY <2>1, <3>1
  <2>3. CASE ~(Len(prog.post) > 0)
    <3>1. phase' = "check" /\ at' = 1
      BY <1>1, <1>3, <2>3 DEF Leave, PhaseAfter, CheckOrDone
    <3>2. End(prog, table, "post") = table["post"][1]
      <4>1. Len(prog["post"]) \in Nat
        BY ProgIsProgram DEF IsProgram, IsCode, CodePhases
      <4>2. Len(prog["post"]) + 1 = 1
        BY <2>3, <4>1
      <4> QED  BY <4>2 DEF End
    <3>3. Row' = table["check"][1]
      BY <1>1, <3>1 DEF Row, CodePhases
    <3> QED  BY <2>1, <3>2, <3>3, Edges DEF Within
  <2> QED  BY <2>2, <2>3
<1> QED  BY <1>2, <1>3

LEMMA RowAfterStep ==
  ASSUME ControlOK, IterationsCompose, phase \in CodePhases, Advance,
         phase' # "done" \/ verifying',
         NEW m, \A v \in Loc : m[v] \in Row[v]
  PROVE  \A v \in Loc : Effect(cur, m)[v] \in Row'[v]
<1>1. UNCHANGED <<backend, bench, verifying, prog, table>>
  BY DEF Advance, Leave, prog, table
<1>2. \A v \in Loc : Effect(cur, m)[v] \in table[phase][at + 1][v]
  BY StepFollows
<1>3. CASE at < Len(prog[phase])
  <2>1. phase' = phase /\ at' = at + 1
    BY <1>3 DEF Advance
  <2>2. Row' = table[phase][at + 1]
    BY <1>1, <2>1 DEF Row, CodePhases
  <2> QED  BY <1>2, <2>2
<1>4. CASE ~(at < Len(prog[phase]))
  <2>1. Leave
    BY <1>4 DEF Advance
  <2>2. \A v \in Loc : Effect(cur, m)[v] \in End(prog, table, phase)[v]
    <3>1. at \in 1 .. Len(prog[phase]) /\ Len(prog[phase]) \in Nat
      BY ProgIsProgram DEF ControlOK, IsProgram, IsCode
    <3>2. at = Len(prog[phase])
      BY <1>4, <3>1
    <3> QED  BY <1>2, <3>2 DEF End
  <2>3. CASE phase = "pre"
    <3>1. Row' = table["body"][1]
      BY <1>1, <2>1, <2>3 DEF Leave, PhaseAfter, Row, CodePhases
    <3> QED  BY <2>2, <2>3, <3>1, Edges DEF Within
  <2>4. CASE phase = "body"
    <3>1. Row' = table["body"][1] \/ Row' = table["post"][1]
      BY <1>1, <2>1, <2>4 DEF Leave, PhaseAfter, Row, CodePhases
    <3> QED  BY <2>2, <2>4, <3>1, Edges DEF Within
  <2>5. CASE phase = "post"
    <3>1. phase' = "check" /\ at' = 1
      BY <1>1, <2>1, <2>5 DEF Leave, PhaseAfter, CheckOrDone
    <3>2. Row' = table["check"][1]
      BY <1>1, <3>1 DEF Row, CodePhases
    <3> QED  BY <2>2, <2>5, <3>2, Edges DEF Within
  <2>6. CASE phase = "check"
    <3>1. Row' = End(prog, table, "check")
      BY <1>1, <2>1, <2>6 DEF Leave, PhaseAfter, Row, CodePhases, End
    <3> QED  BY <2>2, <2>6, <3>1
  <2> QED  BY <2>3, <2>4, <2>5, <2>6 DEF CodePhases
<1> QED  BY <1>3, <1>4

(* What the table ends with is a verdict.                                  *)
LEMMA RowAtTheEnd ==
  ASSUME IterationsCompose, phase = "done"
  PROVE  Row["verdict"] \subseteq {"passed"}
BY DEF IterationsCompose, IsFlow, table, Row, CodePhases
=============================================================================

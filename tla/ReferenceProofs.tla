-------------------------- MODULE ReferenceProofs ---------------------------
(***************************************************************************)
(* The wrappers over references to their vectors, for any programs and any *)
(* number of iterations: a wrapper whose iterations compose finds its      *)
(* inputs and passes; and, where the vectors are in memory a GPU shares,   *)
(* how often they go to the device.                                        *)
(***************************************************************************)
EXTENDS Transfers, WrapperProofs

(* A wrapper that is not asked to verify ends before the last part.        *)
HoldsRow == phase # "done" \/ verifying => \A v \in Loc : mem[v] \in Row[v]

MemInv == TypeOK /\ HoldsRow

-----------------------------------------------------------------------------
LEMMA InitMemInv == Init /\ IterationsCompose => MemInv
BY StartIsControlled, FirstRow, ContentAssumption DEF Init, MemInv, TypeOK, HoldsRow

LEMMA InitTypes == Init => TypeOK
BY StartIsControlled, ContentAssumption DEF Init, TypeOK

(* The steps of the wrapper, by what they do to the memory.                *)
LEMMA Steps ==
  ASSUME TypeOK, [Next]_vars
  PROVE  \/ phase \in {"lift", "drop"} /\ Leave /\ mem' = mem
         \/ phase \in CodePhases /\ Advance /\ mem' = Effect(cur, mem)
         \/ UNCHANGED vars
<1>1. CASE View
  <2>1. phase \in CodePhases /\ Advance /\ mem' = mem /\ cur.op \in {"open", "close"}
    BY <1>1 DEF View, At
  <2>2. DOMAIN cur.gives = {}
    BY <2>1, CurIsStep DEF TypeOK, IsStep
  <2>3. Effect(cur, mem) = mem
    BY <2>2 DEF Effect, TypeOK
  <2> QED  BY <2>1, <2>3
<1> QED  BY <1>1 DEF Next, Lift, Drop, Work, Call, Returned, At

LEMMA TypesKept == TypeOK /\ [Next]_vars => TypeOK'
<1> SUFFICES ASSUME TypeOK, [Next]_vars PROVE TypeOK'
  OBVIOUS
<1>1. CASE phase \in {"lift", "drop"} /\ Leave /\ mem' = mem
  BY <1>1, LeaveKeepsControl DEF TypeOK, CodePhases
<1>2. CASE phase \in CodePhases /\ Advance /\ mem' = Effect(cur, mem)
  BY <1>2, AdvanceKeepsControl, CurIsStep, EffectType DEF TypeOK
<1>3. CASE UNCHANGED vars
  BY <1>3 DEF vars, control, TypeOK, ControlOK, prog
<1> QED  BY <1>1, <1>2, <1>3, Steps

LEMMA RowsKept == MemInv /\ IterationsCompose /\ [Next]_vars => HoldsRow'
<1> SUFFICES ASSUME MemInv, IterationsCompose, [Next]_vars, phase' # "done" \/ verifying'
             PROVE  \A v \in Loc : mem'[v] \in Row'[v]
  BY DEF HoldsRow
<1>1. ControlOK
  BY DEF MemInv, TypeOK
<1>2. CASE phase \in {"lift", "drop"} /\ Leave /\ mem' = mem
  BY <1>1, <1>2, RowAfterLeave DEF MemInv, HoldsRow
<1>3. CASE phase \in CodePhases /\ Advance /\ mem' = Effect(cur, mem)
  BY <1>1, <1>3, RowAfterStep DEF MemInv, HoldsRow, CodePhases
<1>4. CASE UNCHANGED vars
  BY <1>4, RowStays DEF vars, control, MemInv, HoldsRow
<1> QED  BY <1>2, <1>3, <1>4, Steps DEF MemInv

LEMMA MemInvariance == Safety /\ []IterationsCompose => []MemInv
<1>1. MemInv /\ IterationsCompose /\ [Next]_vars => MemInv'
  BY TypesKept, RowsKept DEF MemInv
<1> QED  BY InitMemInv, <1>1, PTL DEF Safety

-----------------------------------------------------------------------------
(* The variables keep their types, for all programs and tables             *)
(* (BenchInput.TypeOK).                                                    *)
THEOREM TypeCorrect == Safety => []TypeOK
BY InitTypes, TypesKept, PTL DEF Safety

(* However many iterations Google Benchmark asks for, a wrapper whose      *)
(* program has a table finds what each step is written for                 *)
(* (BenchInput.EveryStepFindsItsInput).  The run bench_input checks that   *)
(* all of them have one.                                                   *)
THEOREM AnyNumberOfIterations == Safety /\ []IterationsCompose => []EveryStepFindsItsInput
<1>1. MemInv /\ IterationsCompose => EveryStepFindsItsInput
  BY StepIsMet DEF EveryStepFindsItsInput, MemInv, TypeOK, HoldsRow, CodePhases
<1> QED  BY <1>1, MemInvariance, PTL

(* ... and is verified at the end (BenchInput.CorrectAlgorithmPasses).     *)
THEOREM CorrectAlgorithmsPass ==
  ASSUME "verdict" \in Loc
  PROVE  Safety /\ []IterationsCompose => []CorrectAlgorithmPasses
<1>1. ASSUME MemInv, IterationsCompose PROVE CorrectAlgorithmPasses
  <2> SUFFICES ASSUME phase = "done", verifying PROVE mem["verdict"] = "passed"
    BY DEF CorrectAlgorithmPasses
  <2>1. mem["verdict"] \in Row["verdict"]
    BY <1>1 DEF MemInv, HoldsRow
  <2> QED  BY <1>1, <2>1, RowAtTheEnd
<1> QED  BY <1>1, MemInvariance, PTL

-----------------------------------------------------------------------------
(* Where the pages are.                                                    *)

BeforeTheEnd == {"pre", "lift", "body", "drop"}

(* Whether a timed call among the first n - 1 steps of the loop body works *)
(* on v.                                                                   *)
TimedBefore(v, n) == \E i \in 1 .. n - 1 : prog.body[i].op = "timed" /\ v \in prog.body[i].on

UsedBy(v) == Uses({"timed"}, v)

(* How many timed calls have worked on v, if they do.                      *)
Rounds(v) ==
  CASE phase \in {"pre", "lift"} -> 0
    [] phase = "body" -> IF TimedBefore(v, at) THEN iter ELSE iter - 1
    [] OTHER -> iters

(* Without continuous transfers a vector the loop does not use on the host *)
(* has gone if it is on the device, and is there after the first timed     *)
(* call.                                                                   *)
GoneOnce(v) ==
  /\ sent[v] = IF where[v] = "device" THEN 1 ELSE 0
  /\ phase \in {"pre", "lift"} => where[v] = "host"
  /\ UsedBy(v) /\ Rounds(v) > 0 => where[v] = "device"

(* With them a container is home, and has gone once per timed call.        *)
Home(v) == where[v] = "host" /\ (UsedBy(v) => sent[v] = Rounds(v))

TransfersSoFar ==
  phase \in BeforeTheEnd =>
    /\ phase \in {"pre", "lift"} => iter = 1
    /\ \A v \in prog.lift :
         /\ ~continuous /\ ~Uses({"host"}, v) => GoneOnce(v)
         /\ continuous /\ bench \notin IteratorArguments /\ ~Uses({"kernel"}, v) => Home(v)

IInv == PagesOK /\ TransfersSoFar

-----------------------------------------------------------------------------
LEMMA InitIInv == TransfersInit => IInv
<1> SUFFICES ASSUME TransfersInit PROVE IInv
  OBVIOUS
<1>1. PagesOK
  BY InitTypes DEF TransfersInit, PagesOK
<1>2. TransfersSoFar
  BY DEF TransfersInit, Init, ControlInit, TransfersSoFar, GoneOnce, Home, Rounds
<1> QED  BY <1>1, <1>2 DEF IInv

(* The wrapper sees nothing of the pages.                                  *)
LEMMA PagesDoNotShow == [TransfersNext]_<<vars, pages>> => [Next]_vars
BY DEF TransfersNext, Pass, HostWork, DeviceCall, Stay, Next

LEMMA ProgKept == [Next]_vars => prog' = prog /\ bench' = bench /\ iters' = iters
BY DEF Next, Lift, Drop, View, Work, Call, Returned, Advance, Leave, vars, control, prog

LEMMA PagesKept == PagesOK /\ [TransfersNext]_<<vars, pages>> => PagesOK'
<1> SUFFICES ASSUME PagesOK, [TransfersNext]_<<vars, pages>> PROVE PagesOK'
  OBVIOUS
<1>1. TypeOK' /\ prog' = prog
  BY PagesDoNotShow, TypesKept, ProgKept DEF PagesOK
<1>2. CASE Pass \/ Stay \/ UNCHANGED <<vars, pages>>
  BY <1>1, <1>2 DEF PagesOK, Pass, Stay, pages
<1>3. CASE HostWork
  BY <1>1, <1>3 DEF PagesOK, HostWork
<1>4. CASE DeviceCall
  BY <1>1, <1>4 DEF PagesOK, DeviceCall
<1> QED  BY <1>2, <1>3, <1>4 DEF TransfersNext

-----------------------------------------------------------------------------
(* Where a step of the wrapper leads.                                      *)
LEMMA AfterLeave ==
  ASSUME Leave, phase \in Phases
  PROVE  /\ phase' \in BeforeTheEnd => phase \in {"pre", "lift", "body"}
         /\ phase = "pre" => phase' = "lift"
         /\ phase = "lift" => phase' = "body" /\ at' = 1 /\ iter' = iter
         /\ phase = "body" => \/ iter < iters /\ phase' = "body" /\ at' = 1 /\ iter' = iter + 1
                              \/ ~(iter < iters) /\ phase' = "drop" /\ iter' = iter
BY DEF Leave, PhaseAfter, CheckOrDone, Phases, CodePhases, BeforeTheEnd

LEMMA TimedSteps ==
  ASSUME ControlOK, phase = "body", NEW v
  PROVE  /\ ~TimedBefore(v, 1)
         /\ TimedBefore(v, at + 1) <=> TimedBefore(v, at) \/ (cur.op = "timed" /\ v \in cur.on)
         /\ cur.op = "timed" /\ v \in cur.on => UsedBy(v) /\ ~TimedBefore(v, at)
         /\ TimedBefore(v, Len(prog.body) + 1) <=> UsedBy(v)
         /\ \A op \in Ops : cur.op = op /\ v \in cur.on => Uses({op}, v)
<1>1. at \in 1 .. Len(prog.body) /\ Len(prog.body) \in Nat /\ cur = prog.body[at]
  BY ProgIsProgram DEF ControlOK, CodePhases, IsProgram, IsCode, cur
<1>2. \A i, j \in 1 .. Len(prog.body) :
        prog.body[i].op = "timed" /\ prog.body[j].op = "timed" => i = j
  BY TransfersAssumption DEF ControlOK, prog
<1>3. 1 .. at + 1 - 1 = (1 .. at - 1) \union {at}
  BY <1>1
<1>4. 1 .. at - 1 \subseteq 1 .. Len(prog.body) /\ at \notin 1 .. at - 1
  BY <1>1
<1>5. 1 .. Len(prog.body) + 1 - 1 = 1 .. Len(prog.body) /\ 1 .. 1 - 1 = {}
  BY <1>1
<1> QED  BY <1>1, <1>2, <1>3, <1>4, <1>5 DEF TimedBefore, UsedBy, Uses

(* Rounds counts the timed calls.                                          *)
LEMMA RoundsCount ==
  ASSUME ControlOK, ControlOK', UNCHANGED <<prog, bench, iters>>,
         phase \in CodePhases, Advance, phase' \in BeforeTheEnd, NEW v, UsedBy(v)
  PROVE  /\ Rounds(v) \in Nat
         /\ Rounds(v)' = IF cur.op = "timed" /\ v \in cur.on /\ phase = "body"
                         THEN Rounds(v) + 1 ELSE Rounds(v)
<1>1. phase \in {"pre", "body"} /\ iter \in Nat /\ iter >= 1 /\ iters \in Nat /\ iter <= iters
  BY AfterLeave DEF ControlOK, Advance, CodePhases, BeforeTheEnd
<1>2. CASE phase = "pre"
  <2>1. phase' \in {"pre", "lift"}
    BY <1>2, AfterLeave DEF Advance, ControlOK
  <2> QED  BY <1>2, <2>1 DEF Rounds
<1>3. CASE phase = "body"
  <2>1. /\ at \in 1 .. Len(prog.body) /\ Len(prog.body) \in Nat
    BY <1>3, ProgIsProgram DEF ControlOK, CodePhases, IsProgram, IsCode
  <2>2. CASE at < Len(prog[phase])
    <3>1. at' = at + 1 /\ phase' = "body" /\ iter' = iter
      BY <1>3, <2>2 DEF Advance
    <3>2. TimedBefore(v, at)' <=> TimedBefore(v, at + 1)
      BY <3>1 DEF TimedBefore
    <3> QED  BY <1>1, <1>3, <3>1, <3>2, TimedSteps DEF Rounds
  <2>3. CASE ~(at < Len(prog[phase]))
    <3>1. Leave /\ at = Len(prog.body)
      BY <1>3, <2>1, <2>3 DEF Advance
    <3>2. TimedBefore(v, at) \/ (cur.op = "timed" /\ v \in cur.on)
      BY <1>3, <3>1, TimedSteps
    <3>3. IF TimedBefore(v, at) THEN ~(cur.op = "timed" /\ v \in cur.on) ELSE TRUE
      BY <1>3, TimedSteps
    <3>4. CASE iter < iters
      <4>1. phase' = "body" /\ at' = 1 /\ iter' = iter + 1
        BY <1>3, <3>1, <3>4, AfterLeave DEF ControlOK
      <4>2. ~TimedBefore(v, at)'
        BY <4>1 DEF TimedBefore
      <4> QED  BY <1>1, <1>3, <3>2, <3>3, <4>1, <4>2 DEF Rounds
    <3>5. CASE ~(iter < iters)
      <4>1. phase' = "drop" /\ iter = iters
        BY <1>1, <1>3, <3>1, <3>5, AfterLeave DEF ControlOK
      <4> QED  BY <1>1, <1>3, <3>2, <3>3, <4>1 DEF Rounds
    <3> QED  BY <3>4, <3>5
  <2> QED  BY <2>2, <2>3
<1> QED  BY <1>1, <1>2, <1>3

-----------------------------------------------------------------------------
LEMMA StartsAtOne ==
  ASSUME IInv, [TransfersNext]_<<vars, pages>>, phase' \in {"pre", "lift"}
  PROVE  iter' = 1
<1>1. phase \in Phases
  BY DEF IInv, PagesOK, TypeOK, ControlOK
<1>2. CASE UNCHANGED <<vars, pages>>
  BY <1>2 DEF IInv, TransfersSoFar, BeforeTheEnd, vars, control
<1>3. CASE Leave
  <2>1. phase = "pre" /\ iter' = iter
    BY <1>1, <1>3, AfterLeave DEF Leave, BeforeTheEnd
  <2> QED  BY <2>1 DEF IInv, TransfersSoFar, BeforeTheEnd
<1>4. CASE at < Len(prog[phase]) /\ Advance
  <2>1. phase' = phase /\ iter' = iter
    BY <1>4 DEF Advance
  <2> QED  BY <2>1 DEF IInv, TransfersSoFar, BeforeTheEnd
<1> QED  BY <1>2, <1>3, <1>4
      DEF TransfersNext, Pass, HostWork, DeviceCall, Stay,
          Lift, Drop, View, Work, Call, Returned, vars, Advance

(* One vector, and the steps of the part before the end one by one.        *)
LEMMA VectorKept ==
  ASSUME IInv, [TransfersNext]_<<vars, pages>>, phase' \in BeforeTheEnd, NEW v \in prog.lift
  PROVE  /\ ~continuous /\ ~Uses({"host"}, v) => GoneOnce(v)'
         /\ continuous /\ bench \notin IteratorArguments /\ ~Uses({"kernel"}, v) => Home(v)'
<1>1. /\ ControlOK /\ ControlOK' /\ UNCHANGED <<prog, bench, iters>>
      /\ where \in [prog.lift -> {"host", "device"}] /\ sent \in [prog.lift -> Nat]
  BY PagesKept, PagesDoNotShow, ProgKept DEF IInv, PagesOK, TypeOK
<1>2. UsedBy(v)' = UsedBy(v)
  BY <1>1 DEF UsedBy, Uses
<1>3. phase \in BeforeTheEnd =>
        /\ phase \in {"pre", "lift"} => iter = 1
        /\ ~continuous /\ ~Uses({"host"}, v) => GoneOnce(v)
        /\ continuous /\ bench \notin IteratorArguments /\ ~Uses({"kernel"}, v) => Home(v)
  BY DEF IInv, TransfersSoFar
<1>4. CASE UNCHANGED <<vars, pages>>
  <2>1. /\ phase' = phase /\ at' = at /\ iter' = iter
        /\ where' = where /\ sent' = sent
    BY <1>4 DEF vars, control, pages
  <2>2. TimedBefore(v, at)' = TimedBefore(v, at)
    BY <1>1, <2>1 DEF TimedBefore
  <2>3. Rounds(v)' = Rounds(v)
    BY <1>1, <2>1, <2>2 DEF Rounds
  <2> QED  BY <1>2, <1>3, <2>1, <2>3 DEF GoneOnce, Home
<1>5. CASE phase \in {"lift", "drop"} /\ Leave /\ UNCHANGED <<where, sent>>
  <2>1. phase = "lift" /\ phase' = "body" /\ at' = 1 /\ iter' = iter
    BY <1>1, <1>5, AfterLeave DEF ControlOK
  <2>2. ~TimedBefore(v, at)'
    BY <2>1 DEF TimedBefore
  <2>3. iter = 1
    BY <1>3, <2>1 DEF BeforeTheEnd
  <2>4. Rounds(v) = 0 /\ Rounds(v)' = 0
    BY <2>1, <2>2, <2>3 DEF Rounds
  <2> QED  BY <1>2, <1>3, <1>5, <2>1, <2>4 DEF GoneOnce, Home, BeforeTheEnd
<1>6. ASSUME phase \in CodePhases, Advance
      PROVE  /\ phase \in {"pre", "body"} /\ phase \in BeforeTheEnd
             /\ phase' \in {"pre", "lift"} => phase = "pre"
             /\ UsedBy(v) => Rounds(v) \in Nat /\ Rounds(v)' =
                  IF cur.op = "timed" /\ v \in cur.on /\ phase = "body"
                  THEN Rounds(v) + 1 ELSE Rounds(v)
             /\ phase = "pre" => Rounds(v) = 0
  <2>1. /\ phase \in {"pre", "body"} /\ phase \in BeforeTheEnd
        /\ phase' \in {"pre", "lift"} => phase = "pre"
    BY <1>1, <1>6, AfterLeave DEF ControlOK, Advance, CodePhases, BeforeTheEnd
  <2>2. phase = "pre" => Rounds(v) = 0
    BY DEF Rounds
  <2> QED  BY <1>1, <1>6, <2>1, <2>2, RoundsCount
<1>7. CASE At({"open", "close"}) /\ Advance /\ UNCHANGED <<where, sent>>
  BY <1>2, <1>3, <1>6, <1>7 DEF At, GoneOnce, Home
<1>8. CASE HostWork
  <2>1. /\ phase \in CodePhases /\ Advance /\ cur.op \in {"raw", "host"}
        /\ where'[v] = IF v \in cur.on THEN "host" ELSE where[v]
        /\ sent' = sent
    BY <1>8 DEF HostWork, Work, At
  <2>2. CASE phase = "pre"
    BY <1>2, <1>3, <1>6, <2>1, <2>2 DEF GoneOnce, Home
  <2>3. CASE phase = "body"
    <3>1. cur.op = "raw" => v \notin cur.on
      BY <1>1, <2>3, ProgIsProgram DEF ReachesLiftedThroughBench, ControlOK, CodePhases, cur
    <3>2. cur.op = "host" /\ v \in cur.on => Uses({"host"}, v)
      BY <1>1, <2>3, TimedSteps DEF Ops
    <3> QED  BY <1>2, <1>3, <1>6, <2>1, <2>3, <3>1, <3>2 DEF GoneOnce, Home
  <2> QED  BY <1>6, <2>1, <2>2, <2>3
<1>9. CASE DeviceCall
  <2>1. /\ phase \in CodePhases /\ Advance /\ cur.op \in {"kernel", "timed"}
        /\ sent'[v] = IF v \in cur.on /\ where[v] = "host" THEN sent[v] + 1 ELSE sent[v]
        /\ where'[v] = IF cur.op = "timed" /\ continuous /\ v \in Touched THEN "host"
                       ELSE IF v \in cur.on THEN "device" ELSE where[v]
    BY <1>9 DEF DeviceCall, Call, At, Calls
  <2>2. where[v] \in {"host", "device"} /\ sent[v] \in Nat
    BY <1>1
  <2>3. phase # "pre"
    BY <1>1, <2>1, TransfersAssumption DEF ControlOK, prog, cur, Calls, CodePhases
  <2>4. phase = "body"
    BY <1>6, <2>1, <2>3
  <2>5. v \in cur.on => Uses({cur.op}, v)
    BY <1>1, <2>1, <2>4, TimedSteps DEF Ops
  <2>6. ASSUME ~continuous, GoneOnce(v) PROVE GoneOnce(v)'
    BY <1>2, <1>6, <2>1, <2>2, <2>4, <2>5, <2>6 DEF GoneOnce, UsedBy
  <2>7. ASSUME continuous, bench \notin IteratorArguments, ~Uses({"kernel"}, v), Home(v)
        PROVE  Home(v)'
    <3>1. v \in cur.on => cur.op = "timed" /\ v \in Touched /\ UsedBy(v)
      BY <2>1, <2>5, <2>7 DEF Touched, UsedBy
    <3>2. v \notin cur.on => v \notin Touched
      BY <2>7 DEF Touched
    <3> QED  BY <1>2, <1>6, <2>1, <2>2, <2>4, <2>7, <3>1, <3>2 DEF Home
  <2> QED  BY <1>3, <1>6, <2>1, <2>6, <2>7
<1> QED
  BY <1>4, <1>5, <1>7, <1>8, <1>9 DEF TransfersNext, Pass, Stay, Lift, Drop, View, Returned, pages

LEMMA Invariance == TransfersSpec => []IInv
<1>1. IInv /\ [TransfersNext]_<<vars, pages>> => IInv'
  <2> SUFFICES ASSUME IInv, [TransfersNext]_<<vars, pages>> PROVE IInv'
    OBVIOUS
  <2>1. PagesOK'
    BY PagesKept DEF IInv
  <2>2. continuous' = continuous /\ bench' = bench /\ prog' = prog
    BY PagesDoNotShow, ProgKept DEF TransfersNext, Pass, HostWork, DeviceCall, Stay, pages
  <2>3. \A v : /\ Uses({"host"}, v)' = Uses({"host"}, v)
               /\ Uses({"kernel"}, v)' = Uses({"kernel"}, v)
    BY <2>2 DEF Uses
  <2>4. TransfersSoFar'
    BY <2>2, <2>3, StartsAtOne, VectorKept DEF TransfersSoFar
  <2> QED  BY <2>1, <2>4 DEF IInv
<1> QED  BY InitIInv, <1>1, PTL DEF TransfersSpec

-----------------------------------------------------------------------------
(* The pages keep their types (Transfers.PagesOK).                         *)
THEOREM PagesKeepTheirTypes == TransfersSpec => []PagesOK
<1>1. IInv => PagesOK  BY DEF IInv
<1> QED  BY <1>1, Invariance, PTL

(* A wrapper is on shared memory what it is on references.                 *)
THEOREM TransfersImplementBenchInput == TransfersSpec => Safety
BY PagesDoNotShow, PTL DEF TransfersSpec, TransfersInit, Safety

(* README.md:64 for the vectors the loop does not use on the host: they go *)
(* once, and all timed calls after the first find them on the device       *)
(* (Transfers.UntouchedGoesOnce).                                          *)
THEOREM UntouchedGoes == TransfersSpec => []UntouchedGoesOnce
<1>1. ASSUME IInv PROVE UntouchedGoesOnce
  <2> SUFFICES ASSUME ~continuous, phase \in {"body", "drop"}, NEW v \in prog.lift,
                      ~Uses({"host"}, v)
               PROVE  /\ sent[v] <= 1
                      /\ iter > 1 /\ Uses({"timed"}, v) => where[v] = "device"
    BY DEF UntouchedGoesOnce
  <2>1. GoneOnce(v)
    BY <1>1 DEF IInv, TransfersSoFar, BeforeTheEnd
  <2>2. iter \in Nat /\ iters \in Nat /\ iter <= iters
    BY <1>1, ItersAssumption DEF IInv, PagesOK, TypeOK, ControlOK
  <2>3. iter > 1 => Rounds(v) > 0
    BY <2>2 DEF Rounds
  <2> QED  BY <2>1, <2>3 DEF GoneOnce, UsedBy
<1> QED  BY <1>1, Invariance, PTL

(* With continuous transfers the vectors given as containers are home      *)
(* whenever host code runs, and each timed call pays for one way there     *)
(* (Transfers.ComesHomeInTheCall).                                         *)
THEOREM ContainersComeHome == TransfersSpec => []ComesHomeInTheCall
<1>1. ASSUME IInv PROVE ComesHomeInTheCall
  <2> SUFFICES ASSUME continuous, bench \notin IteratorArguments, NEW v \in prog.lift,
                      ~Uses({"kernel"}, v), phase \in {"body", "drop"}
               PROVE  /\ where[v] = "host"
                      /\ phase = "drop" /\ Uses({"timed"}, v) => sent[v] = iters
    BY DEF ComesHomeInTheCall
  <2>1. Home(v)
    BY <1>1 DEF IInv, TransfersSoFar, BeforeTheEnd
  <2>2. phase = "drop" => Rounds(v) = iters
    BY DEF Rounds
  <2> QED  BY <2>1, <2>2 DEF Home, UsedBy
<1> QED  BY <1>1, Invariance, PTL
=============================================================================

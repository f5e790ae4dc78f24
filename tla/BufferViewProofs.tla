-------------------------- MODULE BufferViewProofs --------------------------
(***************************************************************************)
(* What holds of the NO_USM bench_inputs for all wrappers, locations and   *)
(* contents: the copies are coherent, a wrapper over buffers implements    *)
(* the same wrapper over references, lexically scoped host_views never     *)
(* block anything, and a wrapper whose iterations compose finds in the     *)
(* copy it reads what it is written for.                                   *)
(***************************************************************************)
EXTENDS BufferView, WrapperProofs

(* A buffer exists exactly between the lift and the drop.                  *)
LiftedInLoop ==
  lifted = IF phase \in {"body", "drop"} THEN prog.lift ELSE {}

(* A call is under way only at a step that makes one.                      *)
CallAtCall == call # "idle" => At(Calls)

IInv == TypeOK /\ LiftedInLoop /\ CallAtCall /\ Coherent

-----------------------------------------------------------------------------
LEMMA OverType ==
  ASSUME NEW f \in [Loc -> Content], NEW g \in [Loc -> Content], NEW vs
  PROVE  Over(f, vs, g) \in [Loc -> Content]
BY DEF Over

LEMMA MarkType ==
  ASSUME TypeOK, NEW vs, NEW c \in {"host", "dev", "both"}
  PROVE  Mark(vs, c) \in [Loc -> {"host", "dev", "both"}]
BY DEF Mark, TypeOK

LEMMA InitIInv == Init => IInv
<1> SUFFICES ASSUME Init PROVE IInv
  OBVIOUS
<1>1. ControlOK
  <2>1. IsProgram(prog)
    BY ProgramsAssumption DEF Init, ControlInit, prog
  <2>2. 1 \in 1 .. Len(prog["pre"])
    BY <2>1 DEF IsProgram, IsCode, CodePhases
  <2>3. QED
    BY <2>2, ItersAssumption DEF Init, ControlInit, ControlOK, Phases, CodePhases
<1>2. TypeOK
  BY <1>1, ContentAssumption DEF Init, TypeOK
<1>3. LiftedInLoop /\ CallAtCall /\ Coherent
  BY DEF Init, ControlInit, LiftedInLoop, CallAtCall, Coherent
<1>4. QED  BY <1>2, <1>3 DEF IInv

-----------------------------------------------------------------------------
(* One lemma per action: it preserves IInv.                                *)

LEMMA LiftIInv == ASSUME IInv, Lift PROVE IInv'
<1>1. ControlOK'
  BY LeaveKeepsControl DEF Lift, IInv, TypeOK, CodePhases
<1>2. phase' = "body" /\ prog' = prog /\ prog.lift \subseteq Loc
  BY ProgIsProgram DEF Lift, Leave, PhaseAfter, prog, IInv, TypeOK, IsProgram
<1>3. TypeOK'
  BY <1>1, <1>2, MarkType DEF Lift, TypeOK, IInv
<1>4. LiftedInLoop'
  BY <1>2 DEF Lift, LiftedInLoop
<1>5. call = "idle" /\ call' = "idle"
  BY DEF Lift, IInv, TypeOK, CallAtCall, At, CodePhases
<1>6. views = {}
  BY DEF Lift, IInv, Coherent, LiftedInLoop, TypeOK
<1>7. Coherent'
  BY <1>2, <1>5, <1>6 DEF Lift, Coherent, Mark
<1>8. QED  BY <1>3, <1>4, <1>5, <1>7 DEF IInv, CallAtCall

(* What the steps of code have in common: they leave the program and, when *)
(* they leave the body, go to another iteration of it or to the drop.      *)
LEMMA StepKeepsFrame ==
  ASSUME IInv, phase \in CodePhases, Advance
  PROVE  /\ ControlOK'
         /\ prog' = prog
         /\ phase' \in {"body", "drop"} <=> phase \in {"body", "drop"}
         /\ IsStep(cur)
<1>1. ControlOK' /\ IsStep(cur)
  BY AdvanceKeepsControl, CurIsStep DEF IInv, TypeOK
<1>2. prog' = prog
  BY DEF Advance, Leave, prog
<1>3. CASE phase' = phase
  BY <1>1, <1>2, <1>3
<1>4. CASE Leave
  BY <1>1, <1>2, <1>4 DEF Leave, PhaseAfter, CheckOrDone, CodePhases
<1>5. QED  BY <1>1, <1>2, <1>3, <1>4 DEF Advance

(* Code on a lifted vector itself would go past its buffer; no wrapper has *)
(* such code.                                                              *)
LEMMA RawIsUnlifted ==
  ASSUME IInv, At({"raw"})
  PROVE  cur.on \intersect lifted = {}
<1>1. CASE phase = "body"
  <2>1. at \in 1 .. Len(prog.body)
    BY <1>1 DEF IInv, TypeOK, ControlOK, CodePhases
  <2>2. QED
    BY <1>1, <2>1, ProgIsProgram
    DEF ReachesLiftedThroughBench, cur, IInv, TypeOK, LiftedInLoop, At
<1>2. CASE phase # "body"
  BY <1>2 DEF IInv, LiftedInLoop, CodePhases, At
<1>3. QED  BY <1>1, <1>2

LEMMA WorkIInv == ASSUME IInv, Work PROVE IInv'
<1>1. phase \in CodePhases /\ cur.op = "raw" /\ Advance /\ call = "idle" /\ call' = "idle"
  BY DEF Work, At, IInv, TypeOK, CallAtCall, Calls
<1>2. IsStep(cur) /\ ControlOK' /\ prog' = prog
        /\ (phase' \in {"body", "drop"} <=> phase \in {"body", "drop"})
  BY <1>1, StepKeepsFrame
<1>3. cur.on \intersect lifted = {}
  BY RawIsUnlifted DEF Work
<1>4. host' \in [Loc -> Content] /\ \A v \in lifted : host'[v] = host[v]
  BY <1>2, <1>3, EffectType DEF Work, IInv, TypeOK
<1>5. TypeOK'  BY <1>2, <1>4 DEF Work, IInv, TypeOK
<1>6. LiftedInLoop'  BY <1>2 DEF Work, IInv, LiftedInLoop
<1>7. Coherent'  BY <1>1, <1>4 DEF Work, IInv, Coherent
<1>8. QED  BY <1>1, <1>5, <1>6, <1>7 DEF IInv, CallAtCall

LEMMA OpenViewIInv == ASSUME IInv, OpenView PROVE IInv'
<1> DEFINE vs == cur.on \intersect lifted
<1>1. phase \in CodePhases /\ cur.op = "open" /\ Advance /\ call = "idle" /\ call' = "idle"
  BY DEF OpenView, At, IInv, TypeOK, CallAtCall, Calls
<1>2. IsStep(cur) /\ ControlOK' /\ prog' = prog
        /\ (phase' \in {"body", "drop"} <=> phase \in {"body", "drop"})
  BY <1>1, StepKeepsFrame
<1>3. /\ host' = Over(host, {v \in vs : fresh[v] = "dev"}, dev)
      /\ fresh' = Mark(vs, "host") /\ views' = views \union vs
      /\ UNCHANGED <<dev, lifted, call>>
  BY DEF OpenView
<1>4. vs \subseteq Loc  BY DEF IInv, TypeOK
<1> HIDE DEF vs
<1>5. TypeOK'
  BY <1>2, <1>3, <1>4, OverType, MarkType DEF IInv, TypeOK
<1>6. LiftedInLoop'  BY <1>2, <1>3 DEF IInv, LiftedInLoop
<1>7. Coherent'
  <2>1. \A v \in views' : v \in lifted' /\ fresh'[v] = "host"
    BY <1>3, <1>4 DEF IInv, Coherent, Mark, TypeOK, vs
  <2>2. \A v \in lifted' : fresh'[v] = "both" => host'[v] = dev'[v]
    BY <1>3, <1>4 DEF IInv, Coherent, Mark, Over, TypeOK
  <2>3. QED  BY <1>1, <2>1, <2>2 DEF Coherent
<1>8. QED  BY <1>1, <1>5, <1>6, <1>7 DEF IInv, CallAtCall

LEMMA WorkInViewIInv == ASSUME IInv, WorkInView PROVE IInv'
<1>1. phase \in CodePhases /\ cur.op = "host" /\ Advance /\ call = "idle" /\ call' = "idle"
  BY DEF WorkInView, At, IInv, TypeOK, CallAtCall, Calls
<1>2. IsStep(cur) /\ ControlOK' /\ prog' = prog
        /\ (phase' \in {"body", "drop"} <=> phase \in {"body", "drop"})
  BY <1>1, StepKeepsFrame
<1>3. host' \in [Loc -> Content] /\ \A v \in lifted \ views : host'[v] = host[v]
  BY <1>2, EffectType DEF WorkInView, IInv, TypeOK
<1>4. TypeOK'  BY <1>2, <1>3 DEF WorkInView, IInv, TypeOK
<1>5. LiftedInLoop'  BY <1>2 DEF WorkInView, IInv, LiftedInLoop
<1>6. Coherent'  BY <1>1, <1>3 DEF WorkInView, IInv, Coherent
<1>7. QED  BY <1>1, <1>4, <1>5, <1>6 DEF IInv, CallAtCall

LEMMA CloseViewIInv == ASSUME IInv, CloseView PROVE IInv'
<1>1. phase \in CodePhases /\ cur.op = "close" /\ Advance /\ call = "idle" /\ call' = "idle"
  BY DEF CloseView, At, IInv, TypeOK, CallAtCall, Calls
<1>2. ControlOK' /\ prog' = prog
        /\ (phase' \in {"body", "drop"} <=> phase \in {"body", "drop"})
  BY <1>1, StepKeepsFrame
<1>3. TypeOK'  BY <1>2 DEF CloseView, IInv, TypeOK
<1>4. LiftedInLoop'  BY <1>2 DEF CloseView, IInv, LiftedInLoop
<1>5. Coherent'  BY <1>1 DEF CloseView, IInv, Coherent
<1>6. QED  BY <1>1, <1>3, <1>4, <1>5 DEF IInv, CallAtCall

LEMMA SubmitIInv == ASSUME IInv, Submit PROVE IInv'
<1>1. UNCHANGED <<control, host, dev, fresh, lifted, views>> /\ call' = "submitted" /\ At(Calls)
  BY DEF Submit
<1>2. prog' = prog /\ phase' = phase /\ cur' = cur /\ ControlOK'
  BY <1>1 DEF control, prog, cur, IInv, TypeOK, ControlOK
<1>3. QED
  BY <1>1, <1>2 DEF IInv, TypeOK, LiftedInLoop, CallAtCall, Coherent, At

LEMMA DropIInv == ASSUME IInv, Drop PROVE IInv'
<1>1. ControlOK'
  BY LeaveKeepsControl DEF Drop, IInv, TypeOK, CodePhases
<1>2. phase' \in {"post", "check", "done"} /\ lifted' = {}
  BY DEF Drop, Leave, PhaseAfter, CheckOrDone
<1>3. TypeOK'  BY <1>1, <1>2, OverType DEF Drop, IInv, TypeOK
<1>4. LiftedInLoop'  BY <1>2 DEF LiftedInLoop
<1>5. call' = "idle" /\ views' = {}
  BY DEF Drop, IInv, TypeOK, CallAtCall, At, CodePhases, Coherent
<1>6. Coherent'  BY <1>2, <1>5 DEF Coherent
<1>7. QED  BY <1>3, <1>4, <1>5, <1>6 DEF IInv, CallAtCall

LEMMA UploadIInv == ASSUME IInv, Upload PROVE IInv'
<1>1. /\ UNCHANGED <<control, host, lifted, views>> /\ call' = "running"
      /\ Buffers \intersect views = {}
      /\ dev' = Over(dev, {v \in Buffers : fresh[v] = "host"}, host)
      /\ fresh' = [v \in Loc |-> IF v \in Buffers /\ fresh[v] = "host" THEN "both" ELSE fresh[v]]
  BY DEF Upload
<1>2. prog' = prog /\ phase' = phase /\ cur' = cur /\ ControlOK' /\ Buffers' = Buffers
  BY <1>1 DEF control, prog, cur, IInv, TypeOK, ControlOK, Buffers
<1>3. At(Calls)'
  BY <1>2 DEF Upload, IInv, CallAtCall, At
<1>4. Buffers \subseteq Loc  BY DEF Buffers, IInv, TypeOK
<1>5. TypeOK'
  <2>1. dev' \in [Loc -> Content]  BY <1>1, OverType DEF IInv, TypeOK
  <2>2. fresh' \in [Loc -> {"host", "dev", "both"}]  BY <1>1 DEF IInv, TypeOK
  <2>3. QED  BY <1>1, <1>2, <2>1, <2>2 DEF IInv, TypeOK
<1>6. LiftedInLoop'  BY <1>1, <1>2 DEF IInv, LiftedInLoop
<1>7. Coherent'
  <2>1. \A v \in Buffers : fresh'[v] # "host"  BY <1>1, <1>4
  <2>2. \A v \in views : v \in lifted /\ fresh'[v] = "host"
    BY <1>1 DEF IInv, Coherent, TypeOK
  <2>3. \A v \in lifted : fresh'[v] = "both" => host[v] = dev'[v]
    BY <1>1 DEF IInv, Coherent, TypeOK, Over
  <2>4. QED  BY <1>1, <1>2, <2>1, <2>2, <2>3 DEF Coherent
<1>8. QED  BY <1>1, <1>3, <1>5, <1>6, <1>7 DEF IInv, CallAtCall

(* What the runtime needs of a call that runs.                             *)
LEMMA SeenType == ASSUME IInv PROVE Seen \in [Loc -> Content]
BY OverType DEF Seen, IInv, TypeOK

(* No host_view holds a buffer of a call that runs.                        *)
LEMMA RunningIsUnviewed ==
  ASSUME IInv, call = "running"
  PROVE  Buffers \intersect views = {}
BY DEF IInv, Coherent

LEMMA ExecuteIInv == ASSUME IInv, Execute PROVE IInv'
<1>1. phase \in CodePhases /\ call = "running" /\ call' = "idle" /\ Advance
  BY DEF Execute, IInv, CallAtCall, At
<1>2. IsStep(cur) /\ ControlOK' /\ prog' = prog
        /\ (phase' \in {"body", "drop"} <=> phase \in {"body", "drop"})
  BY <1>1, StepKeepsFrame
<1>3. Effect(cur, Seen) \in [Loc -> Content]  BY <1>2, SeenType, EffectType
<1>4. PICK written \in SUBSET Buffers :
        Buffers \intersect DOMAIN cur.gives \subseteq written /\ fresh' = Mark(written, "dev")
  BY DEF Execute
<1>5. /\ dev' = Over(dev, Buffers, Effect(cur, Seen))
      /\ host' = Over(host, cur.on \ lifted, Effect(cur, Seen))
      /\ UNCHANGED <<lifted, views>>
  BY DEF Execute
<1>6. TypeOK'
  BY <1>1, <1>2, <1>3, <1>4, <1>5, OverType, MarkType DEF IInv, TypeOK
<1>7. LiftedInLoop'  BY <1>2, <1>5 DEF IInv, LiftedInLoop
<1>8. Coherent'
  <2>1. \A v \in views' : v \in lifted' /\ fresh'[v] = "host"
    BY <1>1, <1>4, <1>5, RunningIsUnviewed DEF IInv, Coherent, Mark, TypeOK
  <2>2. ASSUME NEW v \in lifted', fresh'[v] = "both" PROVE host'[v] = dev'[v]
    <3>1. v \in Loc /\ v \in lifted /\ v \notin written /\ fresh[v] = "both" /\ host[v] = dev[v]
      BY <1>4, <1>5, <2>2 DEF IInv, Coherent, Mark, TypeOK
    <3>2. host'[v] = host[v]  BY <1>5, <3>1 DEF Over
    <3>3. CASE v \in Buffers
      <4>1. v \notin DOMAIN cur.gives  BY <1>4, <3>1, <3>3
      <4>2. dev'[v] = Seen[v]  BY <1>5, <3>1, <3>3, <4>1 DEF Over, Effect
      <4>3. QED  BY <3>1, <3>2, <4>2 DEF Seen, Over
    <3>4. CASE v \notin Buffers
      BY <1>5, <3>1, <3>2, <3>4 DEF Over
    <3>5. QED  BY <3>3, <3>4
  <2>3. QED  BY <1>1, <2>1, <2>2 DEF Coherent
<1>9. QED  BY <1>1, <1>6, <1>7, <1>8 DEF IInv, CallAtCall

LEMMA StutterIInv == ASSUME IInv, UNCHANGED vars PROVE IInv'
<1>1. prog' = prog /\ phase' = phase /\ cur' = cur /\ Buffers' = Buffers /\ ControlOK'
  BY DEF vars, control, prog, cur, Buffers, IInv, TypeOK, ControlOK
<1>2. UNCHANGED <<host, dev, fresh, lifted, views, call>>  BY DEF vars
<1>3. QED
  BY <1>1, <1>2 DEF IInv, TypeOK, LiftedInLoop, CallAtCall, Coherent, At

LEMMA NextIInv == ASSUME IInv, [Next]_vars PROVE IInv'
BY LiftIInv, WorkIInv, OpenViewIInv, WorkInViewIInv, CloseViewIInv, SubmitIInv, DropIInv,
   UploadIInv, ExecuteIInv, StutterIInv
DEF Next, WrapperThread, Runtime, Returned

-----------------------------------------------------------------------------
LEMMA AlwaysIInv == Safety => []IInv
<1>1. Init => IInv  BY InitIInv
<1>2. IInv /\ [Next]_vars => IInv'  BY NextIInv
<1>3. QED  BY <1>1, <1>2, PTL DEF Safety

(* Type correctness of the buffer mode, for all wrappers.                  *)
THEOREM TypeCorrect == Safety => []TypeOK
<1>1. IInv => TypeOK  BY DEF IInv
<1>2. QED  BY <1>1, AlwaysIInv, PTL

(* No wrapper, whatever steps it is made of, reads a stale copy: kernels   *)
(* run on uploaded buffers, live host_views show the host copy nothing on  *)
(* the device has overtaken, and copies that both count are equal.         *)
THEOREM CoherenceHolds == Safety => []Coherent
<1>1. IInv => Coherent  BY DEF IInv
<1>2. QED  BY <1>1, AlwaysIInv, PTL

-----------------------------------------------------------------------------
(* Refinement: every step of BufferView is a step of BenchInput on Mem, or *)
(* leaves Mem and the control alone.                                       *)

(* BenchInput's copy of the control skeleton is the one used here.         *)
LEMMA SameControl ==
  /\ Reference!control = control
  /\ Reference!cur = cur
  /\ Reference!ControlInit <=> ControlInit
  /\ Reference!Leave <=> Leave
  /\ Reference!Advance <=> Advance
  /\ \A ops : Reference!At(ops) <=> At(ops)
  /\ \A s, m : Reference!Effect(s, m) = Effect(s, m)
<1>1. Reference!prog = prog  BY DEF Reference!prog, prog
<1>2. Reference!cur = cur  BY <1>1 DEF Reference!cur, cur
<1>3. \A ph : Reference!PhaseAfter(ph) = PhaseAfter(ph)
  BY <1>1 DEF Reference!PhaseAfter, PhaseAfter, Reference!CheckOrDone, CheckOrDone
<1>4. Reference!Leave <=> Leave  BY <1>3 DEF Reference!Leave, Leave
<1>5. Reference!Advance <=> Advance  BY <1>1, <1>4 DEF Reference!Advance, Advance
<1>6. \A ops : Reference!At(ops) <=> At(ops)
  BY <1>2 DEF Reference!At, At, Reference!CodePhases, CodePhases
<1>7. \A s, m : Reference!Effect(s, m) = Effect(s, m)
  BY DEF Reference!Effect, Effect, Reference!Met, Met
<1>8. QED
  BY <1>2, <1>4, <1>5, <1>6, <1>7
  DEF Reference!control, control, Reference!ControlInit, ControlInit

LEMMA MemType ==
  ASSUME IInv
  PROVE  Mem \in [Loc -> Content]
BY DEF Mem, IInv, TypeOK

LEMMA InitRefines == Init => Reference!Init
BY SameControl DEF Init, Reference!Init, Mem

LEMMA LiftRefines == ASSUME IInv, Lift PROVE Reference!Lift
<1>1. lifted = {} /\ phase = "lift" /\ Leave
  BY DEF Lift, IInv, LiftedInLoop
<1>2. Mem' = Mem  BY <1>1 DEF Mem, Lift, Mark
<1>3. QED  BY <1>1, <1>2, SameControl DEF Reference!Lift

LEMMA DropRefines == ASSUME IInv, Drop PROVE Reference!Drop
<1>1. Mem' = Mem  BY DEF Mem, Drop, Over, IInv, TypeOK
<1>2. QED  BY <1>1, SameControl DEF Reference!Drop, Drop

LEMMA ViewRefines == ASSUME IInv, OpenView \/ CloseView PROVE Reference!View
<1>1. At({"open", "close"}) /\ Advance
  BY DEF OpenView, CloseView, At
<1>2. Mem' = Mem
  <2>1. CASE OpenView
    BY <2>1 DEF Mem, OpenView, Over, Mark, IInv, TypeOK
  <2>2. CASE CloseView
    BY <2>2 DEF Mem, CloseView
  <2>3. QED  BY <2>1, <2>2
<1>3. QED  BY <1>1, <1>2, SameControl DEF Reference!View

(* A step that works on the host copies of what it touches, where they are *)
(* the ones that count, works on Mem.                                      *)
LEMMA HostStepRefines ==
  ASSUME IInv, phase \in CodePhases, host' = Effect(cur, host), UNCHANGED <<dev, fresh, lifted>>,
         \A v \in cur.on : v \in lifted => fresh[v] # "dev"
  PROVE  Mem' = Effect(cur, Mem)
<1>1. IsStep(cur)  BY CurIsStep DEF IInv, TypeOK
<1>2. host \in [Loc -> Content] /\ Mem \in [Loc -> Content]  BY MemType DEF IInv, TypeOK
<1>3. \A v \in cur.on : Mem[v] = host[v]  BY <1>1 DEF Mem, IsStep
<1>4. \A v \in cur.on : Effect(cur, Mem)[v] = Effect(cur, host)[v]
  BY <1>1, <1>2, <1>3, EffectAgrees
<1>5. ASSUME NEW v \in Loc PROVE Mem'[v] = Effect(cur, Mem)[v]
  <2>1. CASE v \in cur.on
    BY <1>4, <2>1 DEF Mem
  <2>2. CASE v \notin cur.on
    <3>1. Effect(cur, Mem)[v] = Mem[v] /\ host'[v] = host[v]
      BY <1>1, <1>2, <2>2, EffectType
    <3>2. QED  BY <3>1 DEF Mem
  <2>3. QED  BY <2>1, <2>2
<1>6. Mem' = [v \in Loc |-> Mem'[v]]  BY DEF Mem
<1>7. Effect(cur, Mem) = [v \in Loc |-> Effect(cur, Mem)[v]]  BY DEF Effect
<1>8. QED  BY <1>5, <1>6, <1>7

LEMMA WorkRefines == ASSUME IInv, Work \/ WorkInView PROVE Reference!Work
<1>1. At({"raw", "host"}) /\ Advance /\ phase \in CodePhases
  BY DEF Work, WorkInView, At
<1>2. \A v \in cur.on : v \in lifted => fresh[v] # "dev"
  <2>1. CASE Work
    BY <2>1, RawIsUnlifted DEF Work
  <2>2. CASE WorkInView
    BY <2>2 DEF WorkInView, IInv, Coherent
  <2>3. QED  BY <2>1, <2>2
<1>3. Mem' = Effect(cur, Mem)
  BY <1>1, <1>2, HostStepRefines DEF Work, WorkInView
<1>4. QED  BY <1>1, <1>3, SameControl DEF Reference!Work

LEMMA UploadRefines == ASSUME IInv, Upload PROVE UNCHANGED Reference!vars
<1>1. Mem' = Mem  BY DEF Mem, Upload, Over, IInv, TypeOK, Buffers
<1>2. control' = control  BY DEF Upload
<1>3. Reference!control' = Reference!control
  BY <1>2 DEF Reference!control, control
<1>4. QED  BY <1>1, <1>3 DEF Reference!vars

LEMMA SubmitRefines == ASSUME IInv, Submit PROVE UNCHANGED Reference!vars
<1>1. Mem' = Mem  BY DEF Mem, Submit
<1>2. Reference!control' = Reference!control
  BY DEF Reference!control, control, Submit
<1>3. QED  BY <1>1, <1>2 DEF Reference!vars

(* A call that runs finds the one memory in its arguments.                 *)
LEMMA SeenIsMem ==
  ASSUME IInv, call = "running"
  PROVE  \A v \in cur.on : Seen[v] = Mem[v]
<1>1. IsStep(cur)  BY CurIsStep DEF IInv, TypeOK, CallAtCall, At
<1>2. QED  BY <1>1 DEF Seen, Over, Mem, IInv, Coherent, TypeOK, Buffers, IsStep

LEMMA ExecuteRefines == ASSUME IInv, Execute PROVE Reference!Call
<1>1. At(Calls) /\ Advance /\ phase \in CodePhases /\ call = "running"
  BY DEF Execute, IInv, CallAtCall, At
<1>2. IsStep(cur)  BY <1>1, CurIsStep DEF IInv, TypeOK
<1>3. Seen \in [Loc -> Content] /\ Mem \in [Loc -> Content]  BY SeenType, MemType
<1>4. \A v \in cur.on : Seen[v] = Mem[v]
  BY <1>1, SeenIsMem
<1>5. \A v \in cur.on : Effect(cur, Seen)[v] = Effect(cur, Mem)[v]
  BY <1>2, <1>3, <1>4, EffectAgrees
<1>6. PICK written \in SUBSET Buffers :
        Buffers \intersect DOMAIN cur.gives \subseteq written /\ fresh' = Mark(written, "dev")
  BY DEF Execute
<1>7. /\ dev' = Over(dev, Buffers, Effect(cur, Seen))
      /\ host' = Over(host, cur.on \ lifted, Effect(cur, Seen))
      /\ lifted' = lifted
  BY DEF Execute
<1>8. ASSUME NEW v \in Loc PROVE Mem'[v] = Effect(cur, Mem)[v]
  <2>1. CASE v \in written
    BY <1>5, <1>6, <1>7, <2>1 DEF Mem, Mark, Over, Buffers
  <2>2. CASE v \in Buffers \ written
    <3>1. v \notin DOMAIN cur.gives /\ v \in cur.on /\ v \in lifted  BY <1>6, <2>2 DEF Buffers
    <3>2. Effect(cur, Mem)[v] = Mem[v] /\ Effect(cur, Seen)[v] = Seen[v]  BY <3>1 DEF Effect
    <3>3. dev'[v] = Mem[v] /\ host'[v] = host[v] /\ fresh'[v] = fresh[v]
      BY <1>4, <1>6, <1>7, <2>2, <3>1, <3>2 DEF Over, Mark
    <3>4. fresh[v] \in {"dev", "both"}
      BY <1>1, <2>2 DEF IInv, Coherent, TypeOK
    <3>5. QED  BY <1>7, <3>1, <3>2, <3>3, <3>4 DEF Mem, IInv, Coherent
  <2>3. CASE v \in cur.on \ lifted
    BY <1>5, <1>7, <2>3 DEF Mem, Over
  <2>4. CASE v \notin cur.on
    <3>1. Effect(cur, Mem)[v] = Mem[v]  BY <1>2, <1>3, <2>4, EffectType
    <3>2. dev'[v] = dev[v] /\ host'[v] = host[v] /\ fresh'[v] = fresh[v]
      BY <1>6, <1>7, <2>4 DEF Over, Mark, Buffers
    <3>3. QED  BY <1>7, <3>1, <3>2 DEF Mem
  <2>5. QED  BY <2>1, <2>2, <2>3, <2>4 DEF Buffers
<1>9. Mem' = [v \in Loc |-> Mem'[v]] /\ Effect(cur, Mem) = [v \in Loc |-> Effect(cur, Mem)[v]]
  BY DEF Mem, Effect
<1>10. Mem' = Effect(cur, Mem)  BY <1>8, <1>9
<1>11. QED  BY <1>1, <1>10, SameControl DEF Reference!Call, Calls, Reference!Calls

LEMMA StutterRefines == ASSUME UNCHANGED vars PROVE UNCHANGED Reference!vars
BY DEF vars, control, Reference!vars, Reference!control, Mem

LEMMA NextRefines == ASSUME IInv, [Next]_vars PROVE [Reference!Next]_(Reference!vars)
BY LiftRefines, DropRefines, ViewRefines, WorkRefines, UploadRefines, SubmitRefines,
   ExecuteRefines, StutterRefines
DEF Next, WrapperThread, Runtime, Returned, Reference!Next

(* "The API surface is identical in both modes" (bench_input.h:13): a      *)
(* wrapper over sycl::buffers, with any steps over any locations, behaves  *)
(* like the same wrapper over references to its vectors.                   *)
THEOREM BuffersImplementReferences == Safety => ImplementsReference
<1>1. Init => Reference!Init  BY InitRefines
<1>2. IInv /\ [Next]_vars => [Reference!Next]_(Reference!vars)  BY NextRefines
<1>3. QED
  BY <1>1, <1>2, AlwaysIInv, PTL DEF Safety, ImplementsReference, Reference!Safety

-----------------------------------------------------------------------------
(* Nobody waits for a live host_view.  The accessors that exist are the    *)
(* ones whose scope the wrapper is in: that is the invariant, and the rest *)
(* is a fact about the text of the wrappers.                               *)
ViewsFollowScopes == views = IF phase = "body" THEN OpenAt(prog, at) ELSE {}

AllBlockStructured ==
  \A b \in DOMAIN Programs : \A k \in DOMAIN Programs[b] : IsBlockStructured(Programs[b][k])

(* How the scopes change from one step of a body to the next.              *)
LEMMA OpenAtNext ==
  ASSUME NEW p, NEW i \in Nat \ {0}
  PROVE  LET s == p.body[i]
         IN OpenAt(p, i + 1) =
              IF s.op = "open" THEN OpenAt(p, i) \union (s.on \intersect p.lift)
              ELSE IF s.op = "close" THEN OpenAt(p, i) \ s.on
              ELSE OpenAt(p, i)
<1> DEFINE s == p.body[i]
           Opened(j, v) == p.body[j].op = "open" /\ v \in p.body[j].on
           Closed(k, v) == p.body[k].op = "close" /\ v \in p.body[k].on
           Live(v, n) == \E j \in 1 .. n - 1 :
                           Opened(j, v) /\ \A k \in j + 1 .. n - 1 : ~Closed(k, v)
<1>1. \A n : OpenAt(p, n) = {v \in p.lift : Live(v, n)}
  BY DEF OpenAt
<1>2. ASSUME NEW v PROVE Live(v, i + 1) <=> Opened(i, v) \/ (Live(v, i) /\ ~Closed(i, v))
  <2> HIDE DEF Opened, Closed
  <2>1. \A j : j \in 1 .. (i + 1) - 1 <=> j \in 1 .. i - 1 \/ j = i
    OBVIOUS
  <2>2. \A j \in 1 .. i - 1 : \A k :
          k \in j + 1 .. (i + 1) - 1 <=> k \in j + 1 .. i - 1 \/ k = i
    OBVIOUS
  <2>3. i + 1 .. (i + 1) - 1 = {}
    OBVIOUS
  <2>4. QED  BY <2>1, <2>2, <2>3
<1>3. \A v : Opened(i, v) <=> s.op = "open" /\ v \in s.on
  OBVIOUS
<1>4. \A v : Closed(i, v) <=> s.op = "close" /\ v \in s.on
  OBVIOUS
<1> HIDE DEF Live, Opened, Closed, s
<1>5. QED  BY <1>1, <1>2, <1>3, <1>4 DEF s

(* A step of the body takes the wrapper to the next scope, or, as all      *)
(* scopes end with the iteration, to a place where none is open.           *)
LEMMA ScopeAfterStep ==
  ASSUME AllBlockStructured, IInv, phase \in CodePhases, Advance
  PROVE  /\ phase = "body" =>
              (IF phase' = "body" THEN OpenAt(prog', at') ELSE {}) = OpenAt(prog, at + 1)
         /\ phase # "body" => phase' # "body"
<1>1. prog' = prog  BY DEF Advance, Leave, prog
<1>2. \A p : OpenAt(p, 1) = {}
  <2>1. 1 .. 1 - 1 = {}  OBVIOUS
  <2>2. QED  BY <2>1 DEF OpenAt
<1>3. CASE phase = "body"
  <2>1. at \in 1 .. Len(prog.body) /\ Len(prog.body) \in Nat
    BY <1>3, ProgIsProgram DEF IInv, TypeOK, ControlOK, IsProgram, IsCode, CodePhases
  <2>2. OpenAt(prog, Len(prog.body) + 1) = {}
    BY DEF AllBlockStructured, IsBlockStructured, IInv, TypeOK, ControlOK, prog
  <2>3. CASE at < Len(prog.body)
    <3>1. at' = at + 1 /\ phase' = "body"  BY <1>3, <2>3 DEF Advance
    <3>2. QED  BY <1>1, <1>3, <3>1
  <2>4. CASE at = Len(prog.body)
    <3>1. at' = 1  BY <1>3, <2>1, <2>4 DEF Advance, Leave
    <3>2. QED  BY <1>1, <1>2, <1>3, <2>2, <2>4, <3>1
  <2>5. QED  BY <2>1, <2>3, <2>4
<1>4. CASE phase # "body"
  BY <1>4, StepKeepsFrame DEF Advance, Leave, PhaseAfter, CheckOrDone, CodePhases
<1>5. QED  BY <1>3, <1>4

LEMMA NextFollowsScopes ==
  ASSUME AllBlockStructured, IInv, ViewsFollowScopes, [Next]_vars
  PROVE  ViewsFollowScopes'
<1>1. at \in Nat /\ (phase \in CodePhases => at \in Nat \ {0} /\ IsStep(cur))
  BY CurIsStep DEF IInv, TypeOK, ControlOK
<1>2. phase = "body" => cur = prog.body[at] /\ lifted = prog.lift
  BY DEF cur, IInv, LiftedInLoop
<1>3. CASE Lift
  <2>1. phase' = "body" /\ at' = 1 /\ views' = {}
    BY <1>3 DEF Lift, Leave, PhaseAfter, ViewsFollowScopes
  <2>2. 1 .. 1 - 1 = {}  OBVIOUS
  <2>3. QED  BY <2>1, <2>2 DEF OpenAt, ViewsFollowScopes
<1>4. CASE Drop
  BY <1>4 DEF Drop, Leave, PhaseAfter, CheckOrDone, ViewsFollowScopes
<1>5. CASE Work \/ WorkInView \/ Execute
  <2>1. phase \in CodePhases /\ Advance /\ views' = views
    BY <1>5 DEF Work, WorkInView, Execute, At, IInv, CallAtCall
  <2>2. cur.op \notin {"open", "close"}
    BY <1>5 DEF Work, WorkInView, Execute, At, IInv, CallAtCall, Calls
  <2>3. phase = "body" => OpenAt(prog, at + 1) = OpenAt(prog, at)
    BY <1>1, <1>2, <2>1, <2>2, OpenAtNext
  <2>4. QED  BY <2>1, <2>3, ScopeAfterStep DEF ViewsFollowScopes
<1>6. CASE OpenView
  <2>1. phase \in CodePhases /\ Advance /\ cur.op = "open"
        /\ views' = views \union (cur.on \intersect lifted)
    BY <1>6 DEF OpenView, At
  <2>2. phase = "body" => OpenAt(prog, at + 1) = views'
    BY <1>1, <1>2, <2>1, OpenAtNext DEF ViewsFollowScopes
  <2>3. phase # "body" => views' = {}
    BY <2>1 DEF ViewsFollowScopes, IInv, LiftedInLoop, CodePhases
  <2>4. QED  BY <2>1, <2>2, <2>3, ScopeAfterStep DEF ViewsFollowScopes
<1>7. CASE CloseView
  <2>1. phase \in CodePhases /\ Advance /\ cur.op = "close" /\ views' = views \ cur.on
    BY <1>7 DEF CloseView, At
  <2>2. phase = "body" => OpenAt(prog, at + 1) = views'
    BY <1>1, <1>2, <2>1, OpenAtNext DEF ViewsFollowScopes
  <2>3. QED  BY <2>1, <2>2, ScopeAfterStep DEF ViewsFollowScopes
<1>8. CASE Submit \/ Upload \/ UNCHANGED vars
  <2>1. views' = views /\ phase' = phase /\ at' = at /\ prog' = prog
    BY <1>8 DEF Submit, Upload, vars, control, prog
  <2>2. QED  BY <2>1 DEF ViewsFollowScopes
<1>9. QED
  BY <1>3, <1>4, <1>5, <1>6, <1>7, <1>8 DEF Next, WrapperThread, Runtime, Returned

LEMMA ScopedViewsBlockNobody ==
  ASSUME AllBlockStructured, IInv, ViewsFollowScopes
  PROVE  NobodyWaitsForALiveView
<1>1. IsBlockStructured(prog)
  BY DEF AllBlockStructured, IInv, TypeOK, ControlOK, prog
<1>2. phase = "body" => at \in 1 .. Len(prog.body) /\ cur = prog.body[at]
  BY DEF cur, IInv, TypeOK, ControlOK, CodePhases
<1>3. At(Calls \union {"open"}) => cur.on \intersect views = {}
  BY <1>1, <1>2 DEF IsBlockStructured, ViewsFollowScopes, At
<1>4. call = "submitted" => At(Calls)
  BY DEF IInv, CallAtCall
<1>5. QED
  BY <1>3, <1>4 DEF NobodyWaitsForALiveView, Buffers, At, ViewsFollowScopes

(* Wrappers that keep to the scopes of their host_views never block: a     *)
(* wrapper added later only has to be block structured                     *)
(* (bench_input.h:55-58).                                                  *)
THEOREM ScopedViewsNeverBlock ==
  ASSUME AllBlockStructured
  PROVE  Safety => []NobodyWaitsForALiveView
<1>1. Init => ViewsFollowScopes
  BY DEF Init, ControlInit, ViewsFollowScopes
<1>2. IInv /\ ViewsFollowScopes /\ [Next]_vars => ViewsFollowScopes'
  BY NextFollowsScopes
<1>3. IInv /\ ViewsFollowScopes => NobodyWaitsForALiveView
  BY ScopedViewsBlockNobody
<1>4. QED  BY <1>1, <1>2, <1>3, AlwaysIInv, PTL DEF Safety

-----------------------------------------------------------------------------
(* In any number of iterations the copy a step reads holds what the step   *)
(* is written for.                                                         *)

HoldsRow == phase # "done" \/ verifying => \A v \in Loc : Mem[v] \in Row[v]

(* The steps of the wrapper, by what they do to the one memory.            *)
LEMMA Steps ==
  ASSUME IInv, [Next]_vars
  PROVE  \/ phase \in {"lift", "drop"} /\ Leave /\ Mem' = Mem
         \/ phase \in CodePhases /\ Advance /\ Mem' = Effect(cur, Mem)
         \/ UNCHANGED control /\ Mem' = Mem
<1>1. CASE Lift \/ Drop
  BY <1>1, LiftRefines, DropRefines, SameControl DEF Reference!Lift, Reference!Drop
<1>2. CASE OpenView \/ CloseView
  <2>1. At({"open", "close"}) /\ Advance /\ Mem' = Mem
    BY <1>2, ViewRefines, SameControl DEF Reference!View
  <2>2. phase \in CodePhases /\ DOMAIN cur.gives = {}
    BY <2>1, CurIsStep DEF At, IInv, TypeOK, IsStep
  <2>3. Effect(cur, Mem) = Mem
    BY <2>2 DEF Effect, Mem
  <2>4. QED  BY <2>1, <2>2, <2>3
<1>3. CASE Work \/ WorkInView
  BY <1>3, WorkRefines, SameControl DEF Reference!Work, At
<1>4. CASE Execute
  <2>1. At(Calls) /\ Advance /\ Mem' = Effect(cur, Mem)
    BY <1>4, ExecuteRefines, SameControl DEF Reference!Call, Calls, Reference!Calls
  <2>2. QED  BY <2>1 DEF At
<1>5. CASE Submit \/ Upload \/ UNCHANGED vars
  BY <1>5 DEF Submit, Upload, vars, Mem, Over, IInv, TypeOK, Buffers
<1>6. QED
  BY <1>1, <1>2, <1>3, <1>4, <1>5 DEF Next, WrapperThread, Runtime, Returned

LEMMA FirstRowHolds == Init /\ IterationsCompose => HoldsRow
BY FirstRow DEF Init, HoldsRow, Mem

LEMMA RowsKept == IInv /\ HoldsRow /\ IterationsCompose /\ [Next]_vars => HoldsRow'
<1> SUFFICES ASSUME IInv, HoldsRow, IterationsCompose, [Next]_vars, phase' # "done" \/ verifying'
             PROVE  \A v \in Loc : Mem'[v] \in Row'[v]
  BY DEF HoldsRow
<1>1. ControlOK
  BY DEF IInv, TypeOK
<1>2. CASE phase \in {"lift", "drop"} /\ Leave /\ Mem' = Mem
  BY <1>1, <1>2, RowAfterLeave DEF HoldsRow
<1>3. CASE phase \in CodePhases /\ Advance /\ Mem' = Effect(cur, Mem)
  BY <1>1, <1>3, RowAfterStep DEF HoldsRow, CodePhases
<1>4. CASE UNCHANGED control /\ Mem' = Mem
  BY <1>4, RowStays DEF control, HoldsRow
<1>5. QED  BY <1>2, <1>3, <1>4, Steps

(* Host code reads the host copies of vectors it may use, and those count. *)
LEMMA HostIsMem ==
  ASSUME AllBlockStructured, IInv, ViewsFollowScopes, At({"raw", "host"})
  PROVE  \A v \in cur.on : host[v] = Mem[v]
<1>1. cur.on \intersect lifted \subseteq views
  <2>1. CASE At({"raw"})
    BY <2>1, RawIsUnlifted
  <2>2. CASE At({"host"}) /\ phase = "body"
    <3>1. at \in 1 .. Len(prog.body) /\ cur = prog.body[at] /\ lifted = prog.lift
      BY <2>2 DEF cur, IInv, TypeOK, ControlOK, CodePhases, LiftedInLoop
    <3>2. IsBlockStructured(prog)
      BY DEF AllBlockStructured, IInv, TypeOK, ControlOK, prog
    <3>3. QED
      BY <2>2, <3>1, <3>2 DEF IsBlockStructured, ViewsFollowScopes, At
  <2>3. CASE At({"host"}) /\ phase # "body"
    BY <2>3 DEF At, IInv, LiftedInLoop, CodePhases
  <2>4. QED  BY <2>1, <2>2, <2>3 DEF At
<1>2. \A v \in cur.on : v \in lifted => fresh[v] = "host"
  BY <1>1 DEF IInv, Coherent
<1>3. cur.on \subseteq Loc
  BY CurIsStep DEF IInv, TypeOK, At, IsStep
<1>4. QED  BY <1>2, <1>3 DEF Mem

LEMMA InputsAreThere ==
  ASSUME AllBlockStructured, IInv, ViewsFollowScopes, HoldsRow, IterationsCompose
  PROVE  EveryStepFindsItsInput
<1> SUFFICES ASSUME phase \in CodePhases
             PROVE  IF cur.op \in Calls THEN call = "running" => Met(cur, Seen)
                                        ELSE Met(cur, host)
  BY DEF EveryStepFindsItsInput
<1>1. IsStep(cur)
  BY CurIsStep DEF IInv, TypeOK
<1>2. Met(cur, Mem)
  BY StepIsMet DEF IInv, TypeOK, HoldsRow, CodePhases
<1>3. CASE cur.op \in Calls
  BY <1>1, <1>2, <1>3, SeenIsMem, MetAgrees
<1>4. CASE cur.op \in {"raw", "host"}
  <2>1. \A v \in cur.on : host[v] = Mem[v]
    BY <1>4, HostIsMem DEF At
  <2>2. Met(cur, host)
    BY <1>1, <1>2, <2>1, MetAgrees
  <2>3. QED  BY <1>4, <2>2 DEF Calls
<1>5. CASE cur.op \in {"open", "close"}
  BY <1>1, <1>5 DEF IsStep, Met, Calls
<1>6. QED  BY <1>1, <1>3, <1>4, <1>5 DEF IsStep, Ops, Calls

(* On buffers as on references: however many iterations Google Benchmark   *)
(* asks for, a wrapper that keeps to the scopes of its host_views and      *)
(* whose iterations compose finds, in the copy each step reads, what the   *)
(* step is written for (BufferView.EveryStepFindsItsInput), whatever the   *)
(* runtime moves and whichever buffers oneDPL marks as written.            *)
THEOREM BuffersHoldTheInputs ==
  ASSUME AllBlockStructured
  PROVE  Safety /\ []IterationsCompose => []EveryStepFindsItsInput
<1>1. Init => ViewsFollowScopes
  BY DEF Init, ControlInit, ViewsFollowScopes
<1>2. IInv /\ ViewsFollowScopes /\ [Next]_vars => ViewsFollowScopes'
  BY NextFollowsScopes
<1>3. IInv /\ ViewsFollowScopes /\ HoldsRow /\ IterationsCompose => EveryStepFindsItsInput
  BY InputsAreThere
<1>4. QED
  BY <1>1, <1>2, <1>3, FirstRowHolds, RowsKept, AlwaysIInv, PTL DEF Safety

(* ... and is verified at the end.                                         *)
THEOREM PassesOverBuffers ==
  ASSUME "verdict" \in Loc
  PROVE  Safety /\ []IterationsCompose =>
           [](phase = "done" /\ verifying => host["verdict"] = "passed")
<1>1. ASSUME IInv, HoldsRow, IterationsCompose, phase = "done", verifying
      PROVE  host["verdict"] = "passed"
  <2>1. lifted = {}
    BY <1>1 DEF IInv, LiftedInLoop
  <2>2. Mem["verdict"] \in Row["verdict"]
    BY <1>1 DEF HoldsRow
  <2>3. Mem["verdict"] = host["verdict"]
    BY <2>1 DEF Mem
  <2>4. QED  BY <1>1, <2>2, <2>3, RowAtTheEnd
<1>2. QED  BY <1>1, FirstRowHolds, RowsKept, AlwaysIInv, PTL DEF Safety

-----------------------------------------------------------------------------
(* A buffer stays on the device until a host_view takes it to the host.    *)

Opens(p, j, v) == p.body[j].op = "open" /\ v \in p.body[j].on
Works(p, j, v) == p.body[j].op \in Calls /\ v \in p.body[j].on

(* Before step n of a body: v was last in the hands of an algorithm, or    *)
(* this iteration has not had a host_view of it.                           *)
LeftByCall(p, v, n) ==
  \E i \in 1 .. n - 1 : Works(p, i, v) /\ \A j \in i + 1 .. n - 1 : ~Opens(p, j, v)
Unopened(p, v, n) == \A j \in 1 .. n - 1 : ~Opens(p, j, v)

(* What an algorithm has left is on the device, also in the next iteration.*)
LeftOnDevice(v, n) ==
  \/ LeftByCall(prog, v, n)
  \/ iter > 1 /\ LeftByCall(prog, v, Len(prog.body) + 1) /\ Unopened(prog, v, n)

DeviceKeeps ==
  /\ phase \in {"pre", "lift"} => iter = 1
  /\ phase = "body" => \A v \in lifted : LeftOnDevice(v, at) => fresh[v] # "host"

LEMMA LeftByCallNext ==
  ASSUME NEW p, NEW v, NEW n \in Nat \ {0}
  PROVE  /\ LeftByCall(p, v, n + 1) <=> Works(p, n, v) \/ (LeftByCall(p, v, n) /\ ~Opens(p, n, v))
         /\ Unopened(p, v, n + 1) <=> Unopened(p, v, n) /\ ~Opens(p, n, v)
         /\ ~LeftByCall(p, v, 1)
         /\ ~(Works(p, n, v) /\ Opens(p, n, v))
<1>1. \A j : j \in 1 .. (n + 1) - 1 <=> j \in 1 .. n - 1 \/ j = n
  OBVIOUS
<1>2. \A i \in 1 .. n - 1 : \A j :
        j \in i + 1 .. (n + 1) - 1 <=> j \in i + 1 .. n - 1 \/ j = n
  OBVIOUS
<1>3. n + 1 .. (n + 1) - 1 = {} /\ 1 .. 1 - 1 = {}
  OBVIOUS
<1>4. LeftByCall(p, v, n + 1) <=> Works(p, n, v) \/ (LeftByCall(p, v, n) /\ ~Opens(p, n, v))
  BY <1>1, <1>2, <1>3 DEF LeftByCall
<1>5. Unopened(p, v, n + 1) <=> Unopened(p, v, n) /\ ~Opens(p, n, v)
  BY <1>1 DEF Unopened
<1>6. ~LeftByCall(p, v, 1)
  BY <1>3 DEF LeftByCall
<1>7. ~(Works(p, n, v) /\ Opens(p, n, v))
  BY DEF Works, Opens, Calls
<1> QED  BY <1>4, <1>5, <1>6, <1>7

(* A step of the body that leaves a buffer on the host only has opened a   *)
(* view of it, or found it there and is no call that works on it.          *)
LEMMA StepsKeepOnDevice ==
  ASSUME IInv, phase = "body", Advance,
         Work \/ OpenView \/ WorkInView \/ CloseView \/ Execute
  PROVE  /\ lifted' = lifted
         /\ \A v \in lifted : fresh'[v] = "host" =>
              Opens(prog, at, v) \/ (fresh[v] = "host" /\ ~Works(prog, at, v))
<1>1. cur = prog.body[at] /\ cur.on \subseteq Loc /\ lifted \subseteq Loc
  BY CurIsStep DEF cur, IInv, TypeOK, IsStep, CodePhases
<1>2. CASE Work \/ WorkInView \/ CloseView
  BY <1>1, <1>2 DEF Work, WorkInView, CloseView, At, Calls, Works
<1>3. CASE OpenView
  <2>1. fresh' = Mark(cur.on \intersect lifted, "host") /\ lifted' = lifted /\ cur.op = "open"
    BY <1>3 DEF OpenView, At
  <2>2. \A v \in lifted : v \in cur.on => Opens(prog, at, v)
    BY <1>1, <2>1 DEF Opens
  <2>3. \A v \in lifted : v \notin cur.on => fresh'[v] = fresh[v] /\ ~Works(prog, at, v)
    BY <1>1, <2>1 DEF Works, Mark
  <2> QED  BY <2>1, <2>2, <2>3
<1>4. CASE Execute
  <2>1. PICK written \in SUBSET Buffers : fresh' = Mark(written, "dev")
    BY <1>4 DEF Execute
  <2>2. \A v \in Buffers : fresh[v] # "host"
    BY <1>4 DEF Execute, IInv, Coherent
  <2>3. \A v \in lifted : v \in cur.on => fresh'[v] # "host"
    BY <1>1, <2>1, <2>2 DEF Buffers, Mark
  <2>4. \A v \in lifted : v \notin cur.on => fresh'[v] = fresh[v] /\ ~Works(prog, at, v)
    BY <1>1, <2>1 DEF Works, Mark, Buffers
  <2>5. lifted' = lifted
    BY <1>4 DEF Execute
  <2> QED  BY <2>3, <2>4, <2>5
<1> QED  BY <1>2, <1>3, <1>4

LEMMA NextKeepsOnDevice ==
  ASSUME IInv, DeviceKeeps, [Next]_vars
  PROVE  DeviceKeeps'
<1>1. CASE Lift \/ Drop
  <2>1. phase' = "body" => phase = "lift" /\ at' = 1 /\ iter' = iter
    BY <1>1 DEF Lift, Drop, Leave, PhaseAfter, CheckOrDone
  <2>2. phase' \notin {"pre", "lift"}
    BY <1>1 DEF Lift, Drop, Leave, PhaseAfter, CheckOrDone
  <2>3. ASSUME phase' = "body", NEW v PROVE ~LeftOnDevice(v, at)'
    <3>1. iter' = 1 /\ at' = 1
      BY <2>1, <2>3 DEF DeviceKeeps
    <3>2. ~LeftByCall(prog', v, 1)
      BY LeftByCallNext
    <3> QED  BY <3>1, <3>2 DEF LeftOnDevice
  <2> QED  BY <2>2, <2>3 DEF DeviceKeeps
<1>2. CASE Work \/ OpenView \/ WorkInView \/ CloseView \/ Execute
  <2>1. phase \in CodePhases /\ Advance
    BY <1>2 DEF Work, OpenView, WorkInView, CloseView, Execute, At, IInv, CallAtCall
  <2>2. prog' = prog
    BY <2>1 DEF Advance, Leave, prog
  <2>3. phase' \in {"pre", "lift"} => phase = "pre" /\ iter' = iter
    BY <2>1 DEF Advance, Leave, PhaseAfter, CheckOrDone, CodePhases
  <2>4. CASE phase # "body"
    <3>1. phase' # "body"
      BY <2>1, <2>4 DEF Advance, Leave, PhaseAfter, CheckOrDone, CodePhases
    <3> QED  BY <2>3, <3>1 DEF DeviceKeeps
  <2>5. CASE phase = "body"
    <3>1. at \in 1 .. Len(prog.body) /\ Len(prog.body) \in Nat
      BY <2>5, ProgIsProgram DEF IInv, TypeOK, ControlOK, IsProgram, IsCode, CodePhases
    <3>2. at < Len(prog.body) => phase' = "body" /\ at' = at + 1 /\ iter' = iter
      BY <2>1, <2>5 DEF Advance
    <3>3. ~(at < Len(prog.body)) => at' = 1
      BY <2>1, <2>5 DEF Advance, Leave
    <3>4. ASSUME NEW v \in lifted, fresh'[v] = "host"
          PROVE  ~LeftByCall(prog, v, at + 1)
                 /\ ~(iter > 1 /\ LeftByCall(prog, v, Len(prog.body) + 1)
                        /\ Unopened(prog, v, at + 1))
      <4>1. Opens(prog, at, v) \/ (fresh[v] = "host" /\ ~Works(prog, at, v))
        BY <1>2, <2>1, <2>5, <3>4, StepsKeepOnDevice
      <4>2. fresh[v] = "host" => ~LeftOnDevice(v, at)
        BY <2>5 DEF DeviceKeeps
      <4>3. at \in Nat \ {0}
        BY <3>1
      <4> QED  BY <4>1, <4>2, <4>3, LeftByCallNext DEF LeftOnDevice
    <3>5. lifted' = lifted
      BY <1>2, <2>1, <2>5, StepsKeepOnDevice
    <3>6. ASSUME phase' = "body", NEW v \in lifted', fresh'[v] = "host"
          PROVE  ~LeftOnDevice(v, at)'
      <4>1. CASE at < Len(prog.body)
        BY <2>2, <3>2, <3>4, <3>5, <3>6, <4>1 DEF LeftOnDevice
      <4>2. CASE ~(at < Len(prog.body))
        <5>1. at = Len(prog.body) /\ at' = 1
          BY <3>1, <3>3, <4>2
        <5>2. ~LeftByCall(prog, v, Len(prog.body) + 1)
          BY <3>4, <3>5, <3>6, <5>1
        <5>3. ~LeftByCall(prog, v, 1)
          BY LeftByCallNext
        <5> QED  BY <2>2, <5>1, <5>2, <5>3 DEF LeftOnDevice
      <4> QED  BY <4>1, <4>2
    <3> QED  BY <2>3, <2>5, <3>6 DEF DeviceKeeps
  <2> QED  BY <2>4, <2>5
<1>3. CASE Submit \/ Upload \/ UNCHANGED vars
  <2>1. UNCHANGED <<control, lifted>>
    BY <1>3 DEF Submit, Upload, vars
  <2>2. \A v \in lifted : fresh'[v] = "host" => fresh[v] = "host"
    BY <1>3 DEF Submit, Upload, vars, IInv, TypeOK
  <2>3. phase' = phase /\ at' = at /\ iter' = iter /\ prog' = prog
    BY <2>1 DEF control, prog
  <2> QED  BY <2>1, <2>2, <2>3 DEF DeviceKeeps, LeftOnDevice
<1> QED
  BY <1>1, <1>2, <1>3 DEF Next, WrapperThread, Runtime, Returned

LEMMA InitKeepsOnDevice == Init => DeviceKeeps
BY DEF Init, ControlInit, DeviceKeeps

LEMMA AlwaysKeepsOnDevice == Safety => [](IInv /\ DeviceKeeps)
<1>1. IInv /\ DeviceKeeps /\ [Next]_vars => DeviceKeeps'
  BY NextKeepsOnDevice
<1> QED  BY <1>1, InitKeepsOnDevice, AlwaysIInv, PTL DEF Safety

(* The call that is submitted in the body, and where.                      *)
LEMMA SubmittedInBody ==
  ASSUME IInv, call = "submitted", lifted # {}
  PROVE  /\ phase = "body" /\ cur = prog.body[at] /\ lifted = prog.lift
         /\ at \in 1 .. Len(prog.body) /\ Len(prog.body) \in Nat
<1>1. phase \in CodePhases
  BY DEF IInv, CallAtCall, At
<1>2. phase = "body"
  BY <1>1 DEF IInv, LiftedInLoop, CodePhases
<1> QED
  BY <1>1, <1>2, ProgIsProgram
  DEF cur, IInv, TypeOK, ControlOK, LiftedInLoop, IsProgram, IsCode

(* The last host_view before place n, if there is one.                     *)
LEMMA LastView ==
  ASSUME NEW p, NEW v, NEW m \in Nat, NEW n \in Nat,
         \E j \in m .. n - 1 : Opens(p, j, v), m > 0
  PROVE  \E j \in m .. n - 1 : Opens(p, j, v) /\ \A k \in j + 1 .. n - 1 : ~Opens(p, k, v)
<1> DEFINE P == {j \in m .. n - 1 : Opens(p, j, v)}
<1>1. P \subseteq 1 .. n /\ P # {}
  OBVIOUS
<1>2. PICK j \in P : \A k \in P : k <= j
  <2> HIDE DEF P
  <2> QED  BY <1>1, Greatest
<1>3. ASSUME NEW k \in j + 1 .. n - 1 PROVE ~Opens(p, k, v)
  <2>1. k \in m .. n - 1 /\ ~(k <= j)
    BY <1>2
  <2> QED  BY <1>2, <2>1
<1> QED  BY <1>2, <1>3

AllPrepareThenTime ==
  \A b \in DOMAIN Programs : \A k \in DOMAIN Programs[b] : PreparesThenTimes(Programs[b][k])

(* A lifted vector that is not on the device when a timed call of a later  *)
(* iteration is submitted has been prepared in a host_view.                *)
LEMMA OffDeviceIsPrepared ==
  ASSUME AllPrepareThenTime, IInv, DeviceKeeps, call = "submitted", cur.op = "timed", iter > 1,
         NEW v \in Buffers, fresh[v] = "host"
  PROVE  HostPrepared(v)
<1> DEFINE len == Len(prog.body)
<1>1. /\ phase = "body" /\ cur = prog.body[at] /\ v \in cur.on /\ v \in lifted
      /\ at \in 1 .. len /\ len \in Nat
  BY SubmittedInBody DEF Buffers
<1>2. PreparesThenTimes(prog)
  BY DEF AllPrepareThenTime, IInv, TypeOK, ControlOK, prog
<1>3. ~LeftByCall(prog, v, at) /\ ~(LeftByCall(prog, v, len + 1) /\ Unopened(prog, v, at))
  BY <1>1 DEF DeviceKeeps, LeftOnDevice
<1>4. \A i : prog.body[i].op = "kernel" /\ v \in prog.body[i].on => Works(prog, i, v)
  BY DEF Works, Calls
(* If a host_view j of it is followed by no call on it, j prepared it.     *)
<1>5. ASSUME NEW j \in 1 .. len, Opens(prog, j, v),
             \A k \in j + 1 .. len : prog.body[k].op = "kernel" => v \notin prog.body[k].on
      PROVE  HostPrepared(v)
  <2>1. j + 1 \in 1 .. len /\ prog.body[j + 1].op = "host" /\ v \in prog.body[j + 1].on
    BY <1>1, <1>2, <1>5 DEF PreparesThenTimes, Opens
  <2>2. \A k \in (j + 1) + 1 .. len : k \in j + 1 .. len
    BY <1>1
  <2> QED  BY <1>5, <2>1, <2>2 DEF HostPrepared
<1>6. CASE ~Unopened(prog, v, at)
  <2>1. \E j \in 1 .. at - 1 : Opens(prog, j, v)
    BY <1>6 DEF Unopened
  <2>2. PICK j \in 1 .. at - 1 :
          Opens(prog, j, v) /\ \A k \in j + 1 .. at - 1 : ~Opens(prog, k, v)
    <3>1. at \in Nat /\ 1 \in Nat /\ 1 > 0
      BY <1>1
    <3> QED  BY ONLY <2>1, <3>1, LastView
  <2>3. ASSUME NEW k \in j + 1 .. len, prog.body[k].op = "kernel", v \in prog.body[k].on
        PROVE  FALSE
    <3>1. CASE k < at
      <4>1. k \in 1 .. at - 1 /\ \A i \in k + 1 .. at - 1 : i \in j + 1 .. at - 1
        BY <1>1, <3>1
      <4> QED  BY <1>3, <1>4, <2>2, <2>3, <4>1 DEF LeftByCall
    <3>2. CASE k = at
      BY <1>1, <2>3, <3>2
    <3>3. CASE k > at
      <4>1. k \in at + 1 .. len
        BY <1>1, <3>3
      <4> QED  BY <1>1, <1>2, <2>2, <2>3, <4>1 DEF PreparesThenTimes, Opens
    <3> QED  BY <1>1, <3>1, <3>2, <3>3
  <2>4. j \in 1 .. len
    BY <1>1
  <2> QED  BY <1>5, <2>2, <2>3, <2>4
<1>7. CASE Unopened(prog, v, at)
  <2>1. Works(prog, at, v) /\ at \in 1 .. (len + 1) - 1
    BY <1>1 DEF Works, Calls
  <2>2. \E j \in at + 1 .. (len + 1) - 1 : Opens(prog, j, v)
    BY <1>3, <1>7, <2>1 DEF LeftByCall
  <2>3. PICK j \in at + 1 .. (len + 1) - 1 :
          Opens(prog, j, v) /\ \A k \in j + 1 .. (len + 1) - 1 : ~Opens(prog, k, v)
    <3>1. at + 1 \in Nat /\ at + 1 > 0 /\ len + 1 \in Nat
      BY <1>1
    <3> HIDE DEF len
    <3> QED  BY ONLY <2>2, <3>1, LastView
  <2>4. ASSUME NEW k \in j + 1 .. len, prog.body[k].op = "kernel", v \in prog.body[k].on
        PROVE  FALSE
    <3>1. k \in 1 .. (len + 1) - 1 /\ \A i \in k + 1 .. (len + 1) - 1 : i \in j + 1 .. (len + 1) - 1
      BY <1>1
    <3> QED  BY <1>3, <1>4, <1>7, <2>3, <2>4, <3>1 DEF LeftByCall
  <2>5. j \in 1 .. len
    BY <1>1
  <2> QED  BY <1>5, <2>3, <2>4, <2>5
<1> QED  BY <1>6, <1>7

(* A wrapper added to a NO_USM build keeps the promise of the persistent   *)
(* buffer (onedpl_gpu_buf_view.h:7-9) if it works through its views at     *)
(* once and keeps what they prepare for the timed call: from the second    *)
(* iteration on, that call pays for no transfer but of what the iteration  *)
(* has prepared on the host.                                               *)
THEOREM DeviceCopiesAreReused ==
  ASSUME AllPrepareThenTime
  PROVE  Safety => []TimedCallReusesDeviceCopy
<1>1. IInv /\ DeviceKeeps => TimedCallReusesDeviceCopy
  BY OffDeviceIsPrepared DEF TimedCallReusesDeviceCopy
<1> QED  BY <1>1, AlwaysKeepsOnDevice, PTL

(* The merges that sort their halves with a kernel right before the timed  *)
(* call (merge/group.h:5-8) have them on the device, in every iteration    *)
(* and whatever their other steps are.                                     *)
THEOREM HalvesStayOnTheDevice ==
  ASSUME \A b \in DOMAIN Programs : \A k \in MergesHalves \intersect DOMAIN Programs[b] :
           PreparedByKernel(Programs[b][k], "input")
  PROVE  Safety => []SortedHalvesAreOnTheDevice
<1>1. ASSUME IInv, DeviceKeeps, bench \in MergesHalves, call = "submitted", cur.op = "timed"
      PROVE  fresh["input"] # "host"
  <2>1. PreparedByKernel(prog, "input")
    BY <1>1 DEF IInv, TypeOK, ControlOK, prog
  <2>2. phase \in CodePhases /\ cur = prog[phase][at] /\ at \in 1 .. Len(prog[phase])
    BY <1>1 DEF IInv, CallAtCall, At, cur, TypeOK, ControlOK
  <2>3. phase = "body" /\ "input" \in lifted
    BY <1>1, <2>1, <2>2 DEF PreparedByKernel, IInv, LiftedInLoop
  <2>4. /\ cur = prog.body[at] /\ at \in 1 .. Len(prog.body)
        /\ \A i \in 1 .. at - 1 : prog.body[i].op = "kernel" => prog.body[i].op \in Calls
    BY <2>2, <2>3 DEF Calls
  <2>5. PICK i \in 1 .. at - 1 :
          /\ prog.body[i].op = "kernel" /\ "input" \in prog.body[i].on
          /\ \A j \in i + 1 .. at - 1 : prog.body[j].op = "open" => "input" \notin prog.body[j].on
    BY <1>1, <2>1, <2>4 DEF PreparedByKernel
  <2>6. LeftByCall(prog, "input", at)
    BY <2>4, <2>5 DEF LeftByCall, Works, Opens
  <2> QED  BY <1>1, <2>3, <2>6 DEF DeviceKeeps, LeftOnDevice
<1>2. IInv /\ DeviceKeeps => SortedHalvesAreOnTheDevice
  BY <1>1 DEF SortedHalvesAreOnTheDevice
<1> QED  BY <1>2, AlwaysKeepsOnDevice, PTL
=============================================================================

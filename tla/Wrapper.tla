------------------------------ MODULE Wrapper ------------------------------
(***************************************************************************)
(* The control skeleton every benchmark_wrapper of                         *)
(* include/pstl/benchmarks/*/*_utils*.h shares, without the memory it      *)
(* works on: generate the inputs, lift a bench_input over some of them,    *)
(* run the timed loop `for (auto _ : state)', drop the bench_inputs, fix   *)
(* up, and verify when PSTL_BENCH_VERIFY asks for it.                      *)
(*                                                                         *)
(* A wrapper is data here: a program with one sequence of steps per phase. *)
(* BenchInput and BufferView run the same programs on two memories.        *)
(***************************************************************************)
EXTENDS Naturals, Sequences

CONSTANTS
  Programs,   \* backend -> benchmark -> [lift, pre, body, post, check]
  Loc,        \* the vectors and scalars of all the wrappers
  Content,    \* what a location can hold, as far as a wrapper can tell
  Unset,      \* the content of a location nobody has written yet
  Junk,       \* what a step leaves that was given something else than it needs
  MaxIters    \* bound on state.max_iterations

VARIABLES
  backend,    \* the backend the binary is built for
  bench,      \* the benchmark being run
  iters,      \* state.max_iterations of this run: fixed before the loop starts
  verifying,  \* pstl::VERIFY_ENABLED
  phase,      \* the part of the wrapper that executes
  at,         \* index of the next step of that part
  iter        \* number of the current iteration of the timed loop

control == <<backend, bench, iters, verifying, phase, at, iter>>

(* The parts of a wrapper that are steps; `lift' and `drop' are the        *)
(* constructors and destructors of the bench_inputs around the loop.       *)
CodePhases == {"pre", "body", "post", "check"}
Phases == CodePhases \union {"lift", "drop", "done"}

(* raw: host code on the vectors themselves.  open, host, close: a         *)
(* host_view() comes to life, is worked through, goes out of scope.        *)
(* kernel: a call of a (device) algorithm outside wrap_timing.  timed: the *)
(* call of F through wrap_timing.                                          *)
Ops == {"raw", "open", "host", "close", "kernel", "timed"}
Calls == {"kernel", "timed"}

(* A step works on `on': it is meant for inputs that hold one of the       *)
(* contents `needs' lists, and leaves the contents `gives' in its outputs. *)
IsStep(s) ==
  /\ s.op \in Ops
  /\ s.on \subseteq Loc
  /\ DOMAIN s.needs \subseteq s.on
  /\ DOMAIN s.gives \subseteq s.on
  /\ \A v \in DOMAIN s.gives : s.gives[v] \in Content
  /\ s.op \in {"open", "close"} => DOMAIN s.needs = {} /\ DOMAIN s.gives = {}

IsCode(c) == Len(c) \in Nat /\ \A i \in 1 .. Len(c) : IsStep(c[i])

IsProgram(p) ==
  /\ p.lift \subseteq Loc
  /\ \A ph \in CodePhases : IsCode(p[ph])
  /\ \A ph \in CodePhases \ {"post"} : Len(p[ph]) > 0

(* The vectors under a live bench_input are reached through it only.       *)
ReachesLiftedThroughBench(p) ==
  \A i \in 1 .. Len(p.body) : p.body[i].op = "raw" => p.body[i].on \cap p.lift = {}

(* The host_views over lifted vectors that live when step i of a body      *)
(* starts, by the lexical scopes they are declared in.                     *)
OpenAt(p, i) ==
  {v \in p.lift : \E j \in 1 .. i - 1 :
     /\ p.body[j].op = "open" /\ v \in p.body[j].on
     /\ \A k \in j + 1 .. i - 1 : p.body[k].op = "close" => v \notin p.body[k].on}

(* Every wrapper works through its host_views inside their scopes, and     *)
(* never opens a second one, calls an algorithm or ends the iteration      *)
(* inside one that concerns the same vector.                               *)
IsBlockStructured(p) ==
  /\ OpenAt(p, Len(p.body) + 1) = {}
  /\ \A i \in 1 .. Len(p.body) :
       /\ p.body[i].op \in Calls \union {"open"} => p.body[i].on \intersect OpenAt(p, i) = {}
       /\ p.body[i].op = "host" => p.body[i].on \intersect p.lift \subseteq OpenAt(p, i)
  /\ \A ph \in CodePhases \ {"body"} : \A i \in 1 .. Len(p[ph]) :
       p[ph][i].op \in Calls \union {"raw"}

(* A loop body works through each of its views as soon as it is open, and  *)
(* leaves what it prepared in one before a timed call to that call.        *)
PreparesThenTimes(p) ==
  \A i \in 1 .. Len(p.body) :
    /\ p.body[i].op = "open" =>
         /\ i < Len(p.body)
         /\ p.body[i + 1].op = "host" /\ p.body[i].on \subseteq p.body[i + 1].on
    /\ p.body[i].op = "timed" =>
         \A j \in 1 .. i - 1 : \A k \in i + 1 .. Len(p.body) :
           p.body[j].op = "open" /\ p.body[k].op = "kernel" => p.body[j].on \cap p.body[k].on = {}

(* The calls that are timed are in the loop, and the vector v was last in  *)
(* the hands of a kernel when one comes.                                   *)
PreparedByKernel(p, v) ==
  /\ v \in p.lift
  /\ \A ph \in CodePhases \ {"body"} : \A i \in 1 .. Len(p[ph]) : p[ph][i].op # "timed"
  /\ \A t \in 1 .. Len(p.body) : p.body[t].op = "timed" =>
       \E i \in 1 .. t - 1 :
         /\ p.body[i].op = "kernel" /\ v \in p.body[i].on
         /\ \A j \in i + 1 .. t - 1 : p.body[j].op = "open" => v \notin p.body[j].on

ASSUME ContentAssumption == Unset \in Content /\ Junk \in Content
ASSUME ItersAssumption == MaxIters \in Nat \ {0}
ASSUME ProgramsAssumption ==
  \A b \in DOMAIN Programs : \A k \in DOMAIN Programs[b] :
    IsProgram(Programs[b][k]) /\ ReachesLiftedThroughBench(Programs[b][k])

-----------------------------------------------------------------------------
prog == Programs[backend][bench]

(* The step the wrapper is at, and whether it is at one of a kind.         *)
cur == prog[phase][at]
At(ops) == phase \in CodePhases /\ cur.op \in ops

Met(s, m) == \A v \in DOMAIN s.needs : m[v] \in s.needs[v]

(* What step s makes of memory m.                                          *)
Effect(s, m) ==
  [v \in Loc |-> IF v \notin DOMAIN s.gives THEN m[v]
                 ELSE IF Met(s, m) THEN s.gives[v] ELSE Junk]

ControlInit ==
  /\ backend \in DOMAIN Programs
  /\ bench \in DOMAIN Programs[backend]
  /\ iters \in 1 .. MaxIters
  /\ verifying \in BOOLEAN
  /\ phase = "pre" /\ at = 1 /\ iter = 1

(* verify() returns nullopt and evaluates nothing when it is disabled.     *)
CheckOrDone == IF verifying THEN "check" ELSE "done"

(* A bench_input that is constructed again in every iteration.             *)
PhaseAfter_LiftsInTheLoop(ph) ==
  CASE ph = "pre"   -> "lift"
    [] ph = "lift"  -> "body"
    [] ph = "body"  -> IF iter < iters THEN "lift" ELSE "drop"
    [] ph = "drop"  -> IF Len(prog.post) > 0 THEN "post" ELSE CheckOrDone
    [] ph = "post"  -> CheckOrDone
    [] OTHER         -> "done"

PhaseAfter(ph) ==
  CASE ph = "pre"   -> "lift"
    [] ph = "lift"  -> "body"
    [] ph = "body"  -> IF iter < iters THEN "body" ELSE "drop"
    [] ph = "drop"  -> IF Len(prog.post) > 0 THEN "post" ELSE CheckOrDone
    [] ph = "post"  -> CheckOrDone
    [] OTHER         -> "done"

(* A loop that counts its last iteration twice, and one that never counts. *)
Leave_CountsPastTheEnd ==
  /\ phase' = PhaseAfter(phase)
  /\ at' = 1
  /\ iter' = IF phase = "body" THEN iter + 1 ELSE iter
  /\ UNCHANGED <<backend, bench, iters, verifying>>

Leave_NeverCounts ==
  /\ phase' = PhaseAfter(phase)
  /\ at' = 1
  /\ UNCHANGED <<backend, bench, iters, verifying, iter>>

Leave ==
  /\ phase' = PhaseAfter(phase)
  /\ at' = 1
  /\ iter' = IF phase = "body" /\ iter < iters THEN iter + 1 ELSE iter
  /\ UNCHANGED <<backend, bench, iters, verifying>>

(* On to the next step of the phase, or out of it after its last one.      *)
Advance ==
  IF at < Len(prog[phase])
  THEN at' = at + 1 /\ UNCHANGED <<backend, bench, iters, verifying, phase, iter>>
  ELSE Leave

ControlOK ==
  /\ backend \in DOMAIN Programs
  /\ bench \in DOMAIN Programs[backend]
  /\ iters \in 1 .. MaxIters
  /\ verifying \in BOOLEAN
  /\ phase \in Phases
  /\ iter \in 1 .. iters
  /\ at \in Nat
  /\ phase \in CodePhases => at \in 1 .. Len(prog[phase])
=============================================================================

----------------------------- MODULE Transfers ------------------------------
(***************************************************************************)
(* Where the vectors of a wrapper are in the GPU builds without buffers:   *)
(* memory both sides can address, which the runtime moves to the side that *)
(* uses it.  With PSTL_BENCH_GPU_CONTINUOUS_TRANSFERS wrap_timing touches  *)
(* the arguments of F on the host before the clock stops (timing.h:113).   *)
(* The wrapper sees nothing of it: this is BenchInput with pages that move.*)
(***************************************************************************)
EXTENDS BenchInput

CONSTANT IteratorArguments
  \* the benchmarks whose F gets bench.begin(), middle, bench.end()

(* The inputs are made on the host, and the loop calls F in one place.     *)
ASSUME TransfersAssumption ==
  \A b \in DOMAIN Programs : \A k \in DOMAIN Programs[b] :
    LET p == Programs[b][k]
    IN /\ \A i \in 1 .. Len(p.pre) : p.pre[i].op \notin Calls
       /\ \A i, j \in 1 .. Len(p.body) :
            p.body[i].op = "timed" /\ p.body[j].op = "timed" => i = j

VARIABLES
  continuous,   \* PSTL_BENCH_GPU_CONTINUOUS_TRANSFERS
  where,        \* vector -> the side its pages are on
  sent          \* vector -> how often it went from the host to the device

pages == <<continuous, where, sent>>

TransfersInit ==
  /\ Init
  /\ continuous \in BOOLEAN
  /\ where = [v \in prog.lift |-> "host"]
  /\ sent = [v \in prog.lift |-> 0]

(* References come and go without touching their vectors.                  *)
Pass == (Lift \/ Drop \/ View) /\ UNCHANGED pages

(* Host code reads or writes the vectors it works on.                      *)
HostWork ==
  /\ Work
  /\ where' = [v \in prog.lift |-> IF v \in cur.on THEN "host" ELSE where[v]]
  /\ UNCHANGED <<continuous, sent>>

(* The vectors touch_memory goes through element by element: those that    *)
(* have a begin() and an end().  Of an iterator it touches the iterator.   *)
Touched_LastOnly ==
  IF bench \in IteratorArguments THEN {} ELSE {CHOOSE v \in cur.on \intersect prog.lift : TRUE}

Touched == IF bench \in IteratorArguments THEN {} ELSE cur.on \intersect prog.lift

(* touch_memory in every build.                                            *)
DeviceCall_AlwaysTouches ==
  /\ Call
  /\ sent' = [v \in prog.lift |->
                IF v \in cur.on /\ where[v] = "host" THEN sent[v] + 1 ELSE sent[v]]
  /\ where' = [v \in prog.lift |->
                 IF cur.op = "timed" /\ v \in Touched THEN "host"
                 ELSE IF v \in cur.on THEN "device" ELSE where[v]]
  /\ UNCHANGED continuous

(* F, or another device algorithm, has its vectors on the device.          *)
DeviceCall ==
  /\ Call
  /\ sent' = [v \in prog.lift |->
                IF v \in cur.on /\ where[v] = "host" THEN sent[v] + 1 ELSE sent[v]]
  /\ where' = [v \in prog.lift |->
                 IF cur.op = "timed" /\ continuous /\ v \in Touched THEN "host"
                 ELSE IF v \in cur.on THEN "device" ELSE where[v]]
  /\ UNCHANGED continuous

Stay == Returned /\ UNCHANGED pages

TransfersNext == Pass \/ HostWork \/ DeviceCall \/ Stay
TransfersSpec == TransfersInit /\ [][TransfersNext]_<<vars, pages>>

-----------------------------------------------------------------------------
PagesOK ==
  /\ TypeOK
  /\ continuous \in BOOLEAN
  /\ where \in [prog.lift -> {"host", "device"}]
  /\ sent \in [prog.lift -> Nat]

(* The steps of the loop body that work on a vector.                       *)
Uses(ops, v) == \E i \in 1 .. Len(prog.body) : prog.body[i].op \in ops /\ v \in prog.body[i].on

(* README.md:64, "transferred only once before the first call": without    *)
(* continuous transfers that holds for the vectors the loop does not use   *)
(* on the host: the timed calls after the first find them on the device.   *)
UntouchedGoesOnce ==
  ~continuous /\ phase \in {"body", "drop"} =>
    \A v \in prog.lift : ~Uses({"host"}, v) =>
      /\ sent[v] <= 1
      /\ iter > 1 /\ Uses({"timed"}, v) => where[v] = "device"

(* With them, a vector given as a container comes home inside each timed   *)
(* call, before the clock stops (timing.h:157-161): none is left on the    *)
(* device for untimed host code to fetch, and the next call pays for the   *)
(* way there, unless a device algorithm outside of wrap_timing used it.    *)
ComesHomeInTheCall ==
  continuous /\ bench \notin IteratorArguments =>
    \A v \in prog.lift : ~Uses({"kernel"}, v) /\ phase \in {"body", "drop"} =>
      /\ where[v] = "host"
      /\ phase = "drop" /\ Uses({"timed"}, v) => sent[v] = iters
=============================================================================

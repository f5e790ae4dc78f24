----------------------------- MODULE BufferView -----------------------------
(***************************************************************************)
(* bench_input of the NO_USM builds (bench_input.h:36-62): a sycl::buffer  *)
(* over the host vector (onedpl_gpu_buf_view.h) that lives as long as the  *)
(* bench_input.  A vector then has two copies, the runtime moves the data  *)
(* between them, and a host_view is a sycl::host_accessor that keeps       *)
(* kernels off the buffer while it lives.                                  *)
(*                                                                         *)
(* Two actors: the thread that runs the wrapper, and the SYCL runtime that *)
(* uploads and executes what was submitted.  oneDPL's calls on the         *)
(* in_order queue of sycl_queue.h block their caller, so at most one call  *)
(* is under way.  The runtime is not under src/: its steps are what        *)
(* bench_input.h and the wrappers rely on.                                 *)
(***************************************************************************)
EXTENDS Wrapper

VARIABLES
  host,     \* the vectors' own memory (and the scalars')
  dev,      \* the buffers' device copies
  fresh,    \* which copy of a buffer is up to date: "host", "dev" or "both"
  lifted,   \* the vectors a live bench_input holds a buffer over
  views,    \* the buffers with a live host_accessor
  call      \* progress of the algorithm call under way

vars == <<control, host, dev, fresh, lifted, views, call>>
memory == <<host, dev, fresh, lifted, views, call>>

Init ==
  /\ ControlInit
  /\ host = [v \in Loc |-> Unset]
  /\ dev = [v \in Loc |-> Unset]
  /\ fresh = [v \in Loc |-> "host"]
  /\ lifted = {} /\ views = {} /\ call = "idle"

(* f with the values of g at the locations vs.                             *)
Over(f, vs, g) == [v \in Loc |-> IF v \in vs THEN g[v] ELSE f[v]]
Mark(vs, copy) == [v \in Loc |-> IF v \in vs THEN copy ELSE fresh[v]]

-----------------------------------------------------------------------------
(* The wrapper's thread.                                                   *)

(* onedpl_gpu_buf_view's constructor: nothing is copied yet.               *)
Lift ==
  /\ phase = "lift"
  /\ lifted' = prog.lift
  /\ fresh' = Mark(prog.lift, "host")
  /\ Leave
  /\ UNCHANGED <<host, dev, views, call>>

(* Code on the vectors themselves goes past the buffers.                   *)
Work ==
  /\ At({"raw"})
  /\ host' = Effect(cur, host)
  /\ Advance
  /\ UNCHANGED <<dev, fresh, lifted, views, call>>

(* An accessor that does not fetch what the device wrote.                  *)
OpenView_NoFetch ==
  LET vs == cur.on \intersect lifted
  IN /\ At({"open"})
     /\ vs \intersect views = {}
     /\ fresh' = Mark(vs, "host")
     /\ views' = views \union vs
     /\ Advance
     /\ UNCHANGED <<host, dev, lifted, call>>

(* An accessor that is taken for a reader: the device copy counts on.      *)
OpenView_ReadOnly ==
  LET vs == cur.on \intersect lifted
  IN /\ At({"open"})
     /\ vs \intersect views = {}
     /\ host' = Over(host, {v \in vs : fresh[v] = "dev"}, dev)
     /\ fresh' = Mark(vs, "both")
     /\ views' = views \union vs
     /\ Advance
     /\ UNCHANGED <<dev, lifted, call>>

(* A read-write host_accessor: its constructor waits until no other one    *)
(* holds the buffer, fetches what the device wrote, and makes the host     *)
(* copy the one that counts.                                               *)
OpenView ==
  LET vs == cur.on \intersect lifted
  IN /\ At({"open"})
     /\ vs \intersect views = {}
     /\ host' = Over(host, {v \in vs : fresh[v] = "dev"}, dev)
     /\ fresh' = Mark(vs, "host")
     /\ views' = views \union vs
     /\ Advance
     /\ UNCHANGED <<dev, lifted, call>>

(* Only a name in scope can be used: the views of what it touches live.    *)
WorkInView ==
  /\ At({"host"})
  /\ cur.on \intersect lifted \subseteq views
  /\ host' = Effect(cur, host)
  /\ Advance
  /\ UNCHANGED <<dev, fresh, lifted, views, call>>

CloseView ==
  /\ At({"close"})
  /\ views' = views \ cur.on
  /\ Advance
  /\ UNCHANGED <<host, dev, fresh, lifted, call>>

(* The wrapper calls an algorithm on its bench_inputs and blocks.          *)
Submit ==
  /\ At(Calls) /\ call = "idle"
  /\ call' = "submitted"
  /\ UNCHANGED <<control, host, dev, fresh, lifted, views>>

(* A buffer that does not write back.                                      *)
Drop_NoWriteback ==
  /\ phase = "drop"
  /\ lifted \intersect views = {}
  /\ lifted' = {}
  /\ Leave
  /\ UNCHANGED <<host, dev, fresh, views, call>>

(* The destructors: ~buffer waits for its accessors to be gone and writes  *)
(* back what the device wrote.                                             *)
Drop ==
  /\ phase = "drop"
  /\ lifted \intersect views = {}
  /\ host' = Over(host, {v \in lifted : fresh[v] = "dev"}, dev)
  /\ lifted' = {}
  /\ Leave
  /\ UNCHANGED <<dev, fresh, views, call>>

-----------------------------------------------------------------------------
(* The runtime.                                                            *)

(* The buffers the submitted call works on.                                *)
Buffers == cur.on \intersect lifted

(* It starts when no host_accessor holds one of its buffers, and sends to  *)
(* the device what the device does not have.                               *)
Upload ==
  /\ call = "submitted"
  /\ Buffers \intersect views = {}
  /\ dev' = Over(dev, {v \in Buffers : fresh[v] = "host"}, host)
  /\ fresh' = [v \in Loc |-> IF v \in Buffers /\ fresh[v] = "host" THEN "both" ELSE fresh[v]]
  /\ call' = "running"
  /\ UNCHANGED <<control, host, lifted, views>>

(* What the call finds in its arguments: buffers on the device, the rest   *)
(* (captured scalars, plain vectors) on the host.                          *)
Seen == Over(host, lifted, dev)

(* The kernels run and the call returns.  A buffer it wrote is fresh on    *)
(* the device only; so may be one it only read, because oneDPL chooses the *)
(* access mode of its accessors.                                           *)
Execute ==
  /\ call = "running"
  /\ dev' = Over(dev, Buffers, Effect(cur, Seen))
  /\ host' = Over(host, cur.on \ lifted, Effect(cur, Seen))
  /\ \E written \in SUBSET Buffers :
       /\ Buffers \intersect DOMAIN cur.gives \subseteq written
       /\ fresh' = Mark(written, "dev")
  /\ call' = "idle"
  /\ Advance
  /\ UNCHANGED <<lifted, views>>

-----------------------------------------------------------------------------
(* The wrapper has returned; nothing is left to do.                        *)
Returned == phase = "done" /\ UNCHANGED vars

WrapperThread ==
  Lift \/ Work \/ OpenView \/ WorkInView \/ CloseView \/ Submit \/ Drop \/ Returned
Runtime == Upload \/ Execute

Next == WrapperThread \/ Runtime

(* Statements end, and the runtime gets to what it can start.              *)
Safety == Init /\ [][Next]_vars
Spec == Safety /\ WF_vars(WrapperThread) /\ WF_vars(Runtime)

-----------------------------------------------------------------------------
(* The one memory the wrapper is to see: BenchInput's.                     *)
Mem == [v \in Loc |-> IF v \in lifted /\ fresh[v] = "dev" THEN dev[v] ELSE host[v]]

Reference == INSTANCE BenchInput WITH mem <- Mem

(* A wrapper over buffers does what it would do over references: no step   *)
(* of the runtime shows, and every other one is a step of BenchInput.      *)
ImplementsReference == Reference!Safety

TypeOK ==
  /\ ControlOK
  /\ host \in [Loc -> Content]
  /\ dev \in [Loc -> Content]
  /\ fresh \in [Loc -> {"host", "dev", "both"}]
  /\ lifted \subseteq Loc
  /\ views \subseteq Loc
  /\ call \in {"idle", "submitted", "running"}

(* The copy a reader is about to use is the last one written: a kernel     *)
(* that runs finds its buffers on the device, a live host_view shows the   *)
(* host copy nothing on the device has overtaken, and two copies that both *)
(* count are equal.                                                        *)
Coherent ==
  /\ call = "running" => \A v \in Buffers : fresh[v] # "host"
  /\ \A v \in views : v \in lifted /\ fresh[v] = "host"
  /\ \A v \in lifted : fresh[v] = "both" => host[v] = dev[v]

(* In every iteration every algorithm, on the device, and every piece of   *)
(* host code finds the contents it is written for.                         *)
EveryStepFindsItsInput ==
  phase \in CodePhases =>
    IF cur.op \in Calls THEN call = "running" => Met(cur, Seen) ELSE Met(cur, host)

(* Nobody ever waits for a host_view of the thread that is blocked: not a  *)
(* submitted call, not a second view of the same vector, not a destructor. *)
NobodyWaitsForALiveView ==
  /\ call = "submitted" => Buffers \intersect views = {}
  /\ At({"open"}) => cur.on \intersect views = {}
  /\ phase = "drop" => views = {}

(* Vector v is prepared on the host in every iteration: no kernel works on *)
(* it between its last host_view and the timed call.                       *)
HostPrepared(v) ==
  \E i \in 1 .. Len(prog.body) :
    /\ prog.body[i].op = "host" /\ v \in prog.body[i].on
    /\ \A j \in i + 1 .. Len(prog.body) :
         prog.body[j].op = "kernel" => v \notin prog.body[j].on

(* "oneDPL kernels reuse the same device-side buffer across iterations"    *)
(* (onedpl_gpu_buf_view.h:7-9): from the second iteration on, a timed call *)
(* pays for sending a vector to the device only if the iteration prepared  *)
(* it on the host.                                                         *)
TimedCallReusesDeviceCopy ==
  call = "submitted" /\ cur.op = "timed" /\ iter > 1 =>
    \A v \in Buffers : fresh[v] = "host" => HostPrepared(v)

(* "GPU backends pick the matching utils header so the per-iter prep sorts *)
(* run on the device" (merge/group.h:5-8, inplace_merge/group.h:5-8): the  *)
(* sorted halves are on the device when the timed merge starts.            *)
MergesHalves == {"merge", "inplace_merge"}

SortedHalvesAreOnTheDevice ==
  bench \in MergesHalves /\ call = "submitted" /\ cur.op = "timed" =>
    fresh["input"] # "host"

(* The wrapper returns to the benchmark runner.                            *)
WrapperReturns == <>(phase = "done")
=============================================================================

------------------------------- MODULE Timing -------------------------------
(***************************************************************************)
(* What surrounds every call of F: wrap_timing (timing.h:149-191) with its *)
(* profiler range and its hardware counter region, and the accounting of   *)
(* the timed loop around it, over all the runs that Google Benchmark makes *)
(* of one benchmark.  What the wrapper computes is left to Wrapper.        *)
(*                                                                         *)
(* In an HPX build main is an HPX task (main.cpp:1-3): it may come back    *)
(* from F, where it waits for other tasks, on another operating system     *)
(* thread.  The slot for the time of F, the stack of profiler ranges, a    *)
(* PAPI region and the affinity belong to a thread; a LIKWID region        *)
(* belongs to a core.                                                      *)
(***************************************************************************)
EXTENDS Integers, Sequences, FiniteSets

CONSTANTS
  Threads,      \* operating system threads the wrapper may run on
  NumCores,     \* numa_num_configured_cpus()
  MaxIters,     \* bound on the iterations of a run
  MaxWarmups,   \* bound on the runs before the measurement
  MaxReps       \* bound on --benchmark_repetitions

ASSUME TimingAssumption ==
  /\ NumCores \in Nat \ {0} /\ MaxIters \in Nat \ {0}
  /\ MaxReps \in Nat \ {0} /\ MaxWarmups \in Nat
  /\ Threads \intersect Int = {}

VARIABLES
  build,      \* counters and markers compiled in, HPX or not; cores and masks
  left,       \* warm-up runs and repetitions Google Benchmark still makes
  requested,  \* N of --benchmark_min_time=Nx, and the repetitions
  run,        \* number of the run
  measuring,  \* whether the run is a repetition of the measurement
  iters,      \* iterations of the run
  iter,       \* iteration of the run
  pc,         \* where the wrapper is
  thread,     \* the thread it is on
  core,       \* i of for_each_core
  saved,      \* default_cpuset of for_each_core
  affinity,   \* thread -> its mask: one core, or Everywhere
  slot,       \* thread -> per_iter_stl_ns(): the iteration whose time it holds
  region,     \* core (LIKWID) or thread (PAPI) -> begun less ended regions
  ranges,     \* thread -> pushed less popped profiler ranges
  count,      \* counters[name] of profiler_range_push
  measured,   \* the /iter_ tags that belong to the measurement
  total       \* total_stl_ns: the iterations whose times were added

driver == <<left, requested, run, measuring, iters>>
pinning == <<core, saved, affinity>>
marks == <<region, ranges, count, measured>>
vars == <<build, driver, iter, pc, thread, pinning, slot, marks, total>>

Cores == 0 .. NumCores - 1
None == -1          \* outside for_each_core
Everywhere == -1    \* the mask of a thread nobody pinned
NoTime == <<0, 0>>

(* HPX binds its worker threads to cores; the other backends leave the     *)
(* thread of main where the system puts it.                                *)
Builds ==
  [hw : {"none", "PAPI", "LIKWID"}, tagging : BOOLEAN, online : SUBSET Cores \ {{}},
   hpx : BOOLEAN, masks : [Threads -> Cores \union {Everywhere}]]

Init ==
  /\ build \in Builds
  /\ ~build.hpx => build.masks = [t \in Threads |-> Everywhere]
  /\ build.hpx => \A t \in Threads : build.masks[t] \in build.online
  /\ requested \in [n : 1 .. MaxIters, reps : 1 .. MaxReps]
  /\ left \in [warmups : 0 .. MaxWarmups, reps : {requested.reps}]
  /\ run = 0 /\ measuring = FALSE /\ iters = 0 /\ iter = 0
  /\ pc = "idle" /\ thread \in Threads
  /\ core = None /\ saved = Everywhere /\ affinity = build.masks
  /\ slot = [t \in Threads |-> NoTime]
  /\ region = [k \in Threads \union Cores |-> 0]
  /\ ranges = [t \in Threads |-> 0]
  /\ count = 0 /\ measured = {} /\ total = <<>>

-----------------------------------------------------------------------------
(* Google Benchmark calls the wrapper: first to warm up, with any number   *)
(* of iterations, then N iterations for each repetition.                   *)
Finished == pc = "idle" /\ left.warmups = 0 /\ left.reps = 0

Enter ==
  /\ run' = run + 1 /\ iter' = 1 /\ total' = <<>>
  /\ pc' = "reset"
  /\ UNCHANGED <<build, requested, thread, pinning, slot, marks>>

WarmUp ==
  /\ pc = "idle" /\ left.warmups > 0
  /\ left' = [left EXCEPT !.warmups = @ - 1]
  /\ measuring' = FALSE /\ iters' \in 1 .. MaxIters
  /\ Enter

Measure ==
  /\ pc = "idle" /\ left.warmups = 0 /\ left.reps > 0
  /\ left' = [left EXCEPT !.reps = @ - 1]
  /\ measuring' = TRUE /\ iters' = requested.n
  /\ Enter

-----------------------------------------------------------------------------
(* One iteration of the timed loop.                                        *)
To(next) == pc' = next /\ UNCHANGED <<build, driver>>

ResetSlot ==
  /\ pc = "reset" /\ To("push")
  /\ slot' = [slot EXCEPT ![thread] = NoTime]
  /\ UNCHANGED <<iter, thread, pinning, marks, total>>

(* A tag that is read after the counter has moved.                         *)
PushRange_CountsFirst ==
  /\ pc = "push" /\ To(IF build.hw = "none" THEN "call" ELSE "begin")
  /\ IF build.tagging
     THEN /\ ranges' = [ranges EXCEPT ![thread] = @ + 1]
          /\ count' = count + 1
          /\ measured' = IF measuring THEN measured \union {count'} ELSE measured
     ELSE UNCHANGED <<ranges, count, measured>>
  /\ UNCHANGED <<iter, thread, pinning, slot, region, total>>

(* profiler_range_push: /iter_ and the number of earlier pushes.           *)
PushRange ==
  /\ pc = "push" /\ To(IF build.hw = "none" THEN "call" ELSE "begin")
  /\ IF build.tagging
     THEN /\ ranges' = [ranges EXCEPT ![thread] = @ + 1]
          /\ count' = count + 1
          /\ measured' = IF measuring THEN measured \union {count} ELSE measured
     ELSE UNCHANGED <<ranges, count, measured>>
  /\ UNCHANGED <<iter, thread, pinning, slot, region, total>>

-----------------------------------------------------------------------------
(* hw_counters_begin and hw_counters_end: for_each_core, once around the   *)
(* start of a region and once around its end.                              *)
InForEachCore == pc \in {"begin", "end"}

SaveAffinity ==
  /\ InForEachCore /\ core = None
  /\ saved' = affinity[thread] /\ core' = 0
  /\ UNCHANGED <<build, driver, iter, pc, thread, affinity, slot, marks, total>>

(* Whose region the call of the counter library begins or ends.            *)
Key == IF build.hw = "LIKWID" THEN core ELSE thread

(* A loop that stops one core early.                                       *)
VisitCore_MissesTheLast ==
  /\ InForEachCore /\ core \in Cores
  /\ core' = core + 1
  /\ IF core \in build.online /\ core < NumCores - 1
     THEN /\ affinity' = [affinity EXCEPT ![thread] = core]
          /\ region' = [region EXCEPT ![Key] = IF pc = "begin" THEN @ + 1 ELSE @ - 1]
     ELSE UNCHANGED <<affinity, region>>
  /\ UNCHANGED <<build, driver, iter, pc, thread, saved, slot, ranges, count, measured, total>>

VisitCore ==
  /\ InForEachCore /\ core \in Cores
  /\ core' = core + 1
  /\ IF core \in build.online
     THEN /\ affinity' = [affinity EXCEPT ![thread] = core]
          /\ region' = [region EXCEPT ![Key] = IF pc = "begin" THEN @ + 1 ELSE @ - 1]
     ELSE UNCHANGED <<affinity, region>>
  /\ UNCHANGED <<build, driver, iter, pc, thread, saved, slot, ranges, count, measured, total>>

(* The mask of the last core stays.                                        *)
RestoreAffinity_Forgotten ==
  /\ InForEachCore /\ core = NumCores
  /\ core' = None
  /\ To(IF pc = "begin" THEN "call" ELSE "pop")
  /\ UNCHANGED <<iter, thread, saved, affinity, slot, marks, total>>

RestoreAffinity ==
  /\ InForEachCore /\ core = NumCores
  /\ affinity' = [affinity EXCEPT ![thread] = saved]
  /\ core' = None
  /\ To(IF pc = "begin" THEN "call" ELSE "pop")
  /\ UNCHANGED <<iter, thread, saved, slot, marks, total>>

-----------------------------------------------------------------------------
(* An overload that returns what F returns, and with it from wrap_timing.  *)
Call_ReturnsAtOnce ==
  /\ pc = "call" /\ To("store")
  /\ thread' \in IF build.hpx THEN Threads ELSE {thread}
  /\ UNCHANGED <<iter, pinning, slot, marks, total>>

(* F: it returns on the thread it was called on, or, in an HPX build, on   *)
(* any.                                                                    *)
Call ==
  /\ pc = "call" /\ To(IF build.hw = "none" THEN "pop" ELSE "end")
  /\ thread' \in IF build.hpx THEN Threads ELSE {thread}
  /\ UNCHANGED <<iter, pinning, slot, marks, total>>

PopRange ==
  /\ pc = "pop" /\ To("store")
  /\ ranges' = IF build.tagging THEN [ranges EXCEPT ![thread] = @ - 1] ELSE ranges
  /\ UNCHANGED <<iter, thread, pinning, slot, region, count, measured, total>>

(* The slot is written, and then something waits.                          *)
StoreSlot_ThenWaits ==
  /\ pc = "store" /\ To("add")
  /\ slot' = [slot EXCEPT ![thread] = <<run, iter>>]
  /\ thread' \in IF build.hpx THEN Threads ELSE {thread}
  /\ UNCHANGED <<iter, pinning, marks, total>>

StoreSlot ==
  /\ pc = "store" /\ To("add")
  /\ slot' = [slot EXCEPT ![thread] = <<run, iter>>]
  /\ UNCHANGED <<iter, thread, pinning, marks, total>>

AddTime_CountsPastTheEnd ==
  /\ pc = "add" /\ To(IF iter < iters THEN "reset" ELSE "idle")
  /\ total' = Append(total, slot[thread])
  /\ iter' = iter + 1
  /\ UNCHANGED <<thread, pinning, slot, marks>>

AddTime_NeverEnds ==
  /\ pc = "add" /\ To("reset")
  /\ iter' = IF iter < iters THEN iter + 1 ELSE 1
  /\ UNCHANGED <<thread, pinning, slot, marks, total>>

(* total_stl_ns += per_iter_stl_ns(), and on to the next iteration.        *)
AddTime ==
  /\ pc = "add" /\ To(IF iter < iters THEN "reset" ELSE "idle")
  /\ total' = Append(total, slot[thread])
  /\ iter' = IF iter < iters THEN iter + 1 ELSE iter
  /\ UNCHANGED <<thread, pinning, slot, marks>>

(* Google Benchmark is through with this benchmark.                        *)
Done == Finished /\ UNCHANGED vars

Next ==
  \/ WarmUp \/ Measure \/ ResetSlot \/ PushRange
  \/ SaveAffinity \/ VisitCore \/ RestoreAffinity
  \/ Call \/ PopRange \/ StoreSlot \/ AddTime \/ Done

(* One thread, every statement of which ends.                              *)
Safety == Init /\ [][Next]_vars
Spec == Safety /\ WF_vars(Next)

-----------------------------------------------------------------------------
TypeOK ==
  /\ build \in Builds
  /\ left \in [warmups : 0 .. MaxWarmups, reps : 0 .. MaxReps]
  /\ requested \in [n : 1 .. MaxIters, reps : 1 .. MaxReps]
  /\ run \in Nat /\ measuring \in BOOLEAN
  /\ iters \in 0 .. MaxIters /\ iter \in 0 .. iters
  /\ pc \in {"idle", "reset", "push", "begin", "call", "end", "pop", "store", "add"}
  /\ thread \in Threads
  /\ core \in {None} \union 0 .. NumCores
  /\ saved \in Cores \union {Everywhere}
  /\ affinity \in [Threads -> Cores \union {Everywhere}]
  /\ slot \in [Threads -> Nat \X Nat]
  /\ region \in [Threads \union Cores -> Int]
  /\ ranges \in [Threads -> Int]
  /\ count \in Nat /\ measured \subseteq Nat
  /\ total \in Seq(Nat \X Nat)

(* stl_of_intrest_ns averages the time of F over the iterations of this    *)
(* run: total_stl_ns has every one of them once, none of another run and   *)
(* none that a thread had left in its slot, wherever F came back.          *)
EveryIterationAddedOnce ==
  /\ total = [k \in 1 .. Len(total) |-> <<run, k>>]
  /\ pc = "idle" => Len(total) = iters

(* What an iteration opens it closes: no region and no profiler range is   *)
(* left open or closed twice.  What belongs to a thread is safe only while *)
(* the wrapper stays on its thread.                                        *)
BracketsClosed ==
  pc \in {"idle", "reset", "store", "add"} =>
    /\ build.hw = "LIKWID" \/ ~build.hpx => \A k \in DOMAIN region : region[k] = 0
    /\ ~build.hpx => \A t \in Threads : ranges[t] = 0

(* While F runs each core that is online has its LIKWID region open once.  *)
CountersCoverAlgorithm ==
  pc = "call" /\ build.hw = "LIKWID" =>
    \A c \in Cores : region[c] = IF c \in build.online THEN 1 ELSE 0

(* "Reset the affinity to the default bitmask" (timing.h:51): outside      *)
(* for_each_core every thread is bound as it was at the start, so F and    *)
(* the threads it makes do not end up on one core.                         *)
AffinityRestored == ~InForEachCore => affinity = build.masks

(* The tags tell measurement and warm-up apart: the measured iterations    *)
(* have the last tags of the benchmark, one tag each, with no warm-up      *)
(* among them, as long as the repetitions are counted in.                  *)
MeasuredTagsComeLast ==
  Finished /\ build.tagging =>
    measured = count - requested.n * requested.reps .. count - 1

(* "With a known measurement iteration count (--benchmark_min_time=Nx),    *)
(* the last N iterations per benchmark are measurement; everything before  *)
(* is warmup" (profiler_markers.h:10-11).                                  *)
LastNTagsAreTheMeasurement ==
  Finished /\ build.tagging => measured = count - requested.n .. count - 1

(* Google Benchmark gets through all its runs.                             *)
RunsEnd == <>Finished
=============================================================================

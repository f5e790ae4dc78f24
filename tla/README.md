# A TLA+ model of pSTL-Bench

pSTL-Bench measures parallel STL algorithms: 36 algorithms, on one of nine backends
chosen at build time, each run by Google Benchmark through a *wrapper* that
prepares the input, times the algorithm `F`, puts the input back and verifies the
result. Nothing in the repository tests this harness: a wrapper that resets its
input too late or holds a view too long still compiles, still prints a number, and on
a device may hang. The modules here state what the wrappers, the memory they work
through, the vectors they make, the verification they end with, the instrumentation around
the timed call and the process around it all promise, and check or prove it.

Files are cited by the paths below `src/`; headers are in `include/pstl/`.

## The system

| part | state | operations | speaks to |
|---|---|---|---|
| wrappers, `benchmarks/*/*_utils*.h` (64 files) | input and output vectors, `last_*` results, `total_stl_ns` | generate inputs, loop over `state`, prepare, time, reset, verify | `bench_input`, `wrap_timing`, `verify` |
| `utils/bench_input.h`, `onedpl_gpu_buf_view.h` | a reference, or in NO_USM builds a `sycl::buffer` | constructor, `begin`/`end`, `host_view`, destructor | SYCL runtime |
| wrapper selection, `benchmarks/*/group.h` | none (preprocessor) | the `#if` chains, registrations | wrappers |
| `utils/timing.h`, `profiler_markers.h` | thread-local slot, affinity, counter regions, tag counters | `wrap_timing`, `for_each_core`, `profiler_range_push/pop` | kernel, PAPI, LIKWID, profilers |
| process, `src/main.cpp` | status file, markers | start, run, shut down, quick exit | Google Benchmark, recipe runner |
| `utils/thread_control.h` | TBB's `global_control`, held by `main` | make it | TBB |
| `utils/verification.h` | environment switches and tolerances | `verify`, `are_equivalent`, `set_verification_counter` | wrappers |
| `utils/input_gen.h`, `elem_t.h` | vectors of `elem_t` | `generate_increment`, `get_vector`, `make_buffer` | wrappers, allocators |
| `utils/par_alloc.h`, `usm_allocator.h` | memory, a reference to a policy | `allocate` with first touch, `deallocate` | `get_vector`, copies of vectors |
| `utils/sycl_queue.h`, `onedpl_gpu_policy.h` | one queue | get it | oneDPL |
| adapters, `benchmarks/*/*_{std,gnu,hpx,onedpl}.h` | none | call the algorithm | backends |
| CMake backends | definitions | choose macros and libraries | everything |

What is hard, and what makes each part correct:

* **Two copies of a vector.** In a NO_USM build host and device each have one. A
  `host_view()` is a `host_accessor`: while it lives, no kernel may touch its buffer, and the
  thread that holds it is the thread that would submit the kernel. Correct means: nobody
  waits for himself, nobody reads the older copy, the vector has the result when the
  buffer is gone, and nothing is sent over needlessly inside the timed call.
* **State carried from one iteration to the next.** `F` spoils its input, a planted value must
  be taken out again, an output must be reset. Correct means that the hundredth iteration
  measures what the first one did, and that the verification reads what it was
  written for.
* **Threads that change under the wrapper.** In an HPX build `main` is a task
  and may return from `F` on another worker, yet the time of `F`, profiler ranges and PAPI
  regions are kept by thread. Correct means that every iteration's time is added once and
  every bracket is closed.
* **Numbers.** Inputs count up to the size of the problem, and a `float` has no room for that
  beyond 2^24: planted pairs, splits and undoing a plant by subtracting 1 all work on rounded numbers.
  Correct means that what is planted is found, that outputs have room, and that a right
  result passes while a wrong one or one that was never written does not.
* **Memory placement.** `par_alloc` touches memory in a parallel loop before the constructor of
  `vector` does it on one thread, through a policy it only has a reference to. On GPUs vectors
  are where they were used last, and with continuous transfers the way back belongs to the timed call.
* **Affinity.** `for_each_core` walks the calling thread over all cores, twice per
  iteration. Correct means that `F` runs with the mask the program was given.
* **Kills and crashes.** A run takes hours and gets killed; a recipe runner starts it again
  until the status file says OK. One backend crashes in its static destructors and is
  therefore ended by `std::_Exit`. Correct means that OK implies that all results are out,
  that the exit code agrees with it, and that the file is written in the end.

`PROJECT.json` lists these as hazards with their lines and the properties that
cover them.

## The modules

    Wrapper ----+--> BenchInput --> Transfers --------> MCBenchInput, MCTransfers   ReferenceProofs
     (control)  +--> BufferView ----------------------> MCBufferView                BufferViewProofs
                +--> Data ----------------------------> MCData                      DataProofs
                +--> Flow --> Tables -----------------> MCBenchInput, MCBufferView
                        +---> WrapperProofs ----------> the three *Proofs above
    ElemT ------+--> InputGen --> Allocation ---------> MCAllocation                AllocationProofs
                +--> Verification --> Verdict --------> MCVerdict                   VerdictProofs
    Timing -------------------------------------------> MCTiming                    TimingProofs
    Lifecycle ----------------------------------------> MCLifecycle                 LifecycleProofs
    Benchmarks -> Groups -> the programs of MCBenchInput, MCBufferView, MCTransfers, MCData

`Data` also takes `InputGen` and `Verification`. BufferView and Data implement BenchInput
(`Reference == INSTANCE BenchInput WITH mem <- ...` in both); Transfers extends it with more variables.

**Wrapper** is the control skeleton all 64 wrapper files share. A wrapper is data: a
program with the steps of each phase (`pre`: before the bench_inputs, `body`: one iteration,
`post`: fix-ups after the loop, `check`: the verification) and the set `lift` of vectors that
get a bench_input. A step says which locations it works on, which contents it `needs`
and which it `gives`. Given something else than it needs, it leaves `Junk`, so that a mistake
shows up at the next reader. `phase`, `at` and `iter` are the program counter;
`iters` is `state.max_iterations`; `verifying` is `VERIFY_ENABLED`.

**Benchmarks** has one definition per wrapper file, named after the file. Contents are the
cases the wrapper tells apart: `"iota"` for the increasing vector, `"shuffled"`,
`"halves_sorted"`, `"pair"` for the vector with the planted equal pair, and so on. Wrappers whose
files differ only in the algorithm share a constructor (`Reads`, `Writes`, `Reorders`, ...).

**Groups** is the `#if` chain at the top of each `group.h`: which of the wrapper files
a backend compiles, and from that the programs of the five kinds of binaries (`ReferenceBuilds`)
and of the two that know NO_USM (`NoUsmBuilds`).

**BenchInput** is the abstract specification. In CPU and USM builds it is also the code:
`bench_input` is a reference there, so each location is one memory.

**Flow** adds to a wrapper a table: for each of its steps the contents each location may have before
it. `IsFlow` says that each step's needs are in its row, that its effect leads to the next row and
the end of the loop body back to its first row. **Tables** computes the tables (once
through the loop from the inputs, and again from that or what the first iteration left), the runs `bench_input` and
`buffer_view` check `IsFlow` for every wrapper, and ReferenceProofs and BufferViewProofs show what follows from it for
any number of iterations.

**ElemT**, **InputGen** and **Verification** are pure: `elem_t` as whole numbers that a
floating-point type rounds to the bits of its significand (ties to even), the sequences `generate_increment`
writes, `are_equivalent` with its absolute and relative tolerance and its NaNs, the switch
`PSTL_BENCH_VERIFY`. **Verdict** puts the end of a wrapper on top: any output, any solution, `verify`
and the counter it reports.

**Data** is a wrapper on real elements. The program counter and the programs are those of Wrapper
and Benchmarks; in place of tags there are vectors of `elem_t`, a drawn `index`, the `last` one
kept for the verification, and what `F` answered. It covers the eight host wrappers that draw a
position or choose a size (adjacent_find, mismatch, find, count, search, equal, set_difference,
set_intersection). `F` is right, or may be wrong in any call. `Held` reads elements, numbers and answers back as tags,
and by that mapping Data implements BenchInput: the programs of tags which the other runs
use are not only an opinion about these wrappers. `StepsAssumption` names the order of the steps its
actions rely on and `FilesAssumption` that the programs are those of the eight files in Benchmarks; TLC evaluates both.

**Allocation** makes the vectors of a wrapper one after the other: `allocate` with the
touching loop of `par_alloc`, the constructor, the generating loop. The threads of a parallel loop
are a set `todo` of elements taken in any order. `policy` is the lifetime of the local in
`get_vector` that `par_alloc` refers to; `allocate` may throw.

**Transfers** keeps, for the GPU builds without buffers, the side each vector is on and how often it was
sent; `touch_memory` with `PSTL_BENCH_GPU_CONTINUOUS_TRANSFERS` is part of the timed step. Its actions are those of
BenchInput, each with what it does to the pages.

**BufferView** is the NO_USM class. `host` and `dev` are the two copies, `fresh` says
which counts, `lifted` and `views` are the live buffers and accessors, `call` is the progress
of the algorithm call under way. Two actors take turns: the wrapper's thread (`Lift`, `Work`, `OpenView`,
`WorkInView`, `CloseView`, `Submit`, `Drop`) and the runtime (`Upload`, `Execute`). `Execute`
leaves it open which of the buffers a call merely reads end up fresh on the device only, because
oneDPL chooses the access modes. The refinement mapping gives BenchInput the copy that
counts: `mem <- [v |-> IF lifted and fresh on the device THEN dev[v] ELSE host[v]]`.

**Timing** is `wrap_timing` and what it calls, one action per effect: the reset of the
slot, the range push, each core visited by `for_each_core`, `F` (after which the thread may be another one in
an HPX build), the pop, the store and the addition. Google Benchmark around it makes warm-up
runs with any number of iterations and then the repetitions. `build` fixes the counter library,
the markers, HPX, the initial masks and which cores are online.

**Lifecycle** is `main` between `Launch` and `Exit`, with `Kill` possible at
every point and the recipe runner as the one who launches again. Which backend, whether LIKWID, a status file,
a value of `OMP_NUM_THREADS` and good arguments is open. `limited` is the `global_control` a TBB binary
makes first; no property is about it, as nothing changes it before the end of `main`. `std::stoi` on a text without a number ends the process there. A `bad_alloc` nobody catches is a `Kill`.

**MC\*** modules give the constants their values. The modules **\*Proofs** hold the proofs; they extend
the module they are about.

## What is checked

| run | configuration | shows |
|---|---|---|
| `bench_input` | all wrappers of all five variants, 1 to 3 iterations, verification on or off | every wrapper's table composes; every step finds its input in every iteration; a correct algorithm is verified; the wrapper returns |
| `buffer_view` | all wrappers of the two NO_USM backends, same bounds | coherence, no waiting for oneself, no needless upload in a timed call, the sorted halves of merge are on the device, BenchInput is implemented, the wrapper returns |
| `transfers` | all wrappers of the GPU variants, same bounds, continuous transfers or not | without them a vector no host step uses goes over once; with them containers go there and back in each timed call |
| `data` | eight wrappers, sizes 2, 3, 4, 5, 8, up to 3 iterations, three element types, `F` right or wrong | each iteration asks the same; the plant is what is found; a right algorithm passes; an exact pass means a right last call; BenchInput is implemented |
| `data_difference` | the same wrappers and element types, sizes 4 and 12, one iteration, `F` right | a comment that does not hold (below) |
| `verdict` | outputs and solutions of up to 2 elements, three tolerances, five spellings | a verdict exactly if asked for; nothing unwritten passes; the order of arguments is irrelevant; small numbers are compared exactly |
| `allocation` | four shapes of wrappers, sizes 1 to 4, all allocators and policies | vectors hold their sequence in every order of the loops; the loop touches first; the wrapper gets its vectors |
| `allocation_policy` | same | a comment that does not hold (below) |
| `timing` | 2 threads, 2 cores (any of them online), up to 2 iterations, 1 warm-up, 2 repetitions | each iteration's time added once, brackets closed, regions on all online cores, affinity given back, tags in order, the runs end |
| `timing_tags` | same | a doc claim that does not hold (below) |
| `lifecycle` | 3 benchmarks, 2 kills | OK means complete; no crash after OK; success leaves results and OK, a refused start neither; the benchmarks get done and the status file written, also when a kill left it empty |
| `quick_exit` | same | a comment that does not hold (below) |

The bounds. A wrapper's programs are finite and loop-free apart from the timed loop.
`MaxIters = 3` has a first, a middle and a last iteration, and for the programs of tags
no bound is needed at all: `IterationsCompose`, which is about the finite programs only, implies the result
for every number (ReferenceProofs). In `data`, sizes 2 and 3 are where `size / 4` is 0, 4 the
smallest with a complete `sub`, 5 is odd, and 8 is the default smallest size of the benchmarks. The
types are `int`, `float` (exact at these sizes), and one with a significand of two bits,
in which 5 is stored as 4: it does at 4 what `float` does at 2^24. In `verdict` one element
is the smallest output, a second one is enough for a length mismatch and for one good and one bad
element; the values are those around 0 and around 1 % of 100. In `allocation` size 4 gives
`sub` two elements and a quarter to start from, and 24 orders. Two threads
are enough for the slot because one wrapper is on one thread at a time: the other
one stands for all it might come from. Two cores show the first and the last of the loop and one
that is offline. Two kills show a kill during a resumed run. The kills only bound
the model: nothing but `Kill` reads their number.

Deadlock checking is on in every run. A state in which nothing is left to do has an explicit
action (`Returned`, `Done`, `Over`), so a thread that waits for itself would be a deadlock.

Fairness. `BenchInput`, `Timing` and `Allocation` have weak fairness of `Next`: a thread's statements
end, and the threads of a parallel loop get to all its elements. `Data`, `Verdict` and `Transfers` state
safety properties only and assume none.
`BufferView` has weak fairness for the wrapper's thread and for the runtime, each on its own: a blocked
thread is not enabled, so fairness cannot push it past a live view. `Lifecycle` has it for
`main` and for the runner's `Launch`; nothing has to kill. Wrapper loops end because
Google Benchmark fixes the number of iterations before the loop starts, at least one.

Every property is stated with a comment that names the code behaviour it is about, and
`PROJECT.json` gives for each a changed definition (a dropped reset, a view held over the call, a
forgotten restore, ...) under which TLC finds it violated.

### Disagreements between code and comments

* `profiler_markers.h:8-11`: with `--benchmark_min_time=Nx` "the last N iterations per benchmark are
  measurement; everything before is warmup". The counter of tags goes on over repetitions, and the
  benchmarks register minimum and maximum over repetitions (`utils.h:17-21`). With R
  repetitions the measurement is the last R*N tags (`MeasuredTagsComeLast` holds);
  `LastNTagsAreTheMeasurement` is violated (run `timing_tags`).
* `main.cpp:129-130`: `std::_Exit` "doesn't lose anything observable". It is called
  before `LIKWID_MARKER_CLOSE` (`main.cpp:142-144`), so an ACPP_ONEDPL binary with
  `PSTL_BENCH_USE_LIKWID` ends with success and without LIKWID's results
  (`NothingObservableIsLost`, run `quick_exit`).
* `par_alloc.h:83`: memory is touched "using the given strategy". The allocator refers to a policy
  that is a local of `get_vector` (`input_gen.h:76-79`). The vector it returns keeps this reference,
  and a copy of the vector (`transform_utils.h:26`) allocates through it when the policy
  has gone (`GivenPolicyExists`, run `allocation_policy`).
* `set_difference_utils.h:25`: the algorithm "writes at most `size - size/2` elements". With a type that
  rounds, numbers of `data2` may be missing in `data1` and the other way round; the difference is longer and
  the verification writes past the end of its solution (`DifferenceFits`, run `data_difference`; for `float`
  from size 2^25 on).

Seen while modelling, without a run of their own:

* `input_gen.h:203` says that the first element is 0; `generate_increment(policy, size)` starts from 1.
* The verification of equal compares the inputs and that of the set operations a call of its own: the timed
  result is not verified there. `PassMeansRight` excludes both.
* The reset of adjacent_find (`adjacent_find_utils.h:59`) subtracts 1, which a `float` beyond 2^24 rounds; the old
  element does not come back. `EveryIterationAsksTheSame` excludes adjacent_find where the type is not exact.
* set_intersection compares a prefix of `size / 2` elements. Below size 4, or where numbers are rounded, the
  intersection is shorter, the prefix has NaNs, and a right algorithm fails. `RightAlgorithmPasses` excludes that.
* `README.md:62-64` describes when data is transferred. merge, inplace_merge and partial_sort give `F`
  iterators, whose data `touch_memory` does not reach, and vectors that the loop resets on the host go over
  again without continuous transfers, too. The two properties of `transfers` say for which vectors the text is right.

## What is proved

All theorems are for every value of the constants: every program that satisfies
`ProgramsAssumption`, every set of locations and contents, every number of iterations, threads, cores,
benchmarks and kills, sizes, tolerances and values. The assumptions are evaluated by TLC on the real programs.

* `ReferenceProofs`: a wrapper whose table composes finds its inputs in any number of iterations
  (`AnyNumberOfIterations`) and is verified at the end (`CorrectAlgorithmsPass`). The invariant `HoldsRow` says that
  the memory is within the row of the current step. The hypothesis `[]IterationsCompose` is about the program and not
  the state; the run `bench_input` checks it for all wrappers. Of Transfers: it implements BenchInput
  (`TransfersImplementBenchInput`), so all that holds with it, and `UntouchedGoes` and `ContainersComeHome`. The
  invariant `TransfersSoFar` counts: with continuous transfers a container has been sent once for each timed call so
  far. It needs `TransfersAssumption`: inputs are made on the host and the loop has one timed call.
* `DataProofs`: all properties of the `data` run, for every size from 2 on, every element type and every number of
  iterations. The invariant `SoFar` says where in the loop which numbers are drawn (`NumbersDrawn`), what the
  vectors hold at each step, up to the rounding of adjacent_find's reset (`VectorsMade`), and what the last answer
  may be (`Answered`). From it follow `SameQuestion` and `PlantsAreFound`: no iteration inherits anything, and what is
  planted is the least position of its kind. `PassesAreRight` adds that a verdict is given in one step (`Judged`), and
  rests on the fact that an answer that passes is the right one, wrapper by wrapper. `RightAlgorithmsPass`
  adds that the elements are numbers (`NumbersStored`) and what set operations write (`Answers`); its longest part is
  that of two increasing sequences the difference fits in `size - size / 2` elements and the intersection fills `size / 2`.
  It and `DataTypeCorrect` have the hypothesis `Exponentiation`, the defining equations of `2 ^ n`, which `Stored`
  uses: the provers know nothing about `^`, and a definition by induction is out of their reach.
* `WrappersImplementReferences` (in `DataProofs`, with the same hypothesis): `Spec => ImplementsReference`, for every size from 4 on,
  every type that tells the numbers up to the size apart, every number drawn and any number of iterations, with a right `F`. `TagsStand`
  lists in a `Table`, wrapper by wrapper, which content each vector, number and answer stands for at each step, and
  `OutputStands` does so for the output of the set operations; both follow from `SoFar`. Each step then finds what its file
  in Benchmarks says it needs and leaves what it says it gives (one lemma `...Works` per wrapper), which makes it a step of
  BenchInput; a `host_view` and the bench_inputs move nothing. So, with a right `F` and a type exact
  up to the size, `AnyNumberOfIterations` does not rest on the choice of the tags where these eight wrappers are concerned.
* `VerdictProofs`: all properties of the `verdict` run, for all numbers, tolerances, types and lengths. The invariant
  `VerdictOnThis` says that a verdict already there is the verdict on this output and solution; the rest are lemmas about
  `FloatsEquivalent` (symmetry, reflexivity, 1 % of less than 100 is less than 1).
* `AllocationProofs`: `TypeCorrect`, `SequencesHold` and `LoopTouchesFirst`, for any shape of wrapper, size and order. The
  invariants add what holds inside a loop: elements not in `todo` have their value (`SequencesSoFar`), or have been touched by
  the loop and by nothing before (`PlacesSoFar`), and what lies beyond `v` is raw memory.
* `BufferViewProofs!TypeCorrect` and `CoherenceHolds`: the inductive invariant `IInv` adds to type
  correctness and `Coherent` that buffers exist exactly while the loop runs (`LiftedInLoop`) and that a call
  is under way only at a step that makes one (`CallAtCall`). Without the first a buffer of an earlier
  bench_input could count as fresh; without the second an `Execute` could belong to no step.
* `BuffersImplementReferences`: `Safety => Reference!Safety`. Each action maps to one of
  BenchInput, `Submit` and `Upload` to stuttering. It rests on `IInv`, on the lemma that the effect of a
  step depends only on the contents it works on (`WrapperProofs!EffectAgrees`), and on
  `ReachesLiftedThroughBench`, the rule that host code touches a lifted vector only through its bench_input.
* `ScopedViewsNeverBlock`: if all wrappers are block structured, nobody waits for a live view. The invariant
  `ViewsFollowScopes` says that the live accessors are those whose lexical scope is open at the current step.
* `BuffersHoldTheInputs` and `PassesOverBuffers`: what `AnyNumberOfIterations` and `CorrectAlgorithmsPass` say, over
  buffers. The invariant is `HoldsRow` of the copy that counts; with `ViewsFollowScopes` it is the copy each step reads.
* `DeviceCopiesAreReused` and `HalvesStayOnTheDevice`: a buffer an algorithm had last is on the device, until a host_view takes
  it to the host, and also from one iteration to the next (`DeviceKeeps`). What a timed call has to send
  from the second iteration on is therefore what a host_view of the iteration prepared.
* The hypotheses of these theorems are rules for writing a wrapper, and about programs, not states: scopes
  (`IsBlockStructured`), composing iterations, views that are for preparing the timed call (`PreparesThenTimes`), mergers that
  sort with kernels (`PreparedByKernel`). The run `buffer_view` checks them for all wrappers (`WrappersKeepTheRules`); for a
  wrapper added later checking them is enough.
* `LifecycleProofs`: `LifecycleTypes`, `StatusIsTruthful`, `QuickExitPreventsTheCrash` and `EveryEndIsSignalled`. The invariant adds that no
  benchmark gets lost (what is not in the output is still to do, or in a reporter's memory while the benchmarks run:
  `NothingDropped`) and that a binary whose destructors crash is on the quick exit when it gets there (`CrashersQuit`), and that
  what is refused never gets to a result or the status file and `main` never to its end without OK (`EndsAreSignalled`).
* `TimingProofs`: all safety properties of the `timing` run. `TimesAreAddedOnce` needs that the
  slot of the current thread holds the current iteration when it is read (`TimesSoFar`), `AffinityComesBack`
  that only the thread inside `for_each_core` has left its mask and that `saved` is that mask (`Pinned`), `RegionsCoverTheCall` which
  regions are open at each core of the two walks (`RegionsFollowTheWalk`). `BracketsAreClosed` counts PAPI's regions of
  the thread as the cardinality of the visited cores (`RegionsBalance`), and `MeasuredTagsAreLast` counts the
  measured iterations that have pushed a tag so far (`TagsSoFar`).

Liveness (`WrapperReturns`, `RunsEnd`, `EventuallyComplete`, `WrapperGetsItsVectors`) is out of the prover's reach
and is model-checked only. So are `IterationsCompose` and `WrappersKeepTheRules`, which are facts about the finite programs of
the repository rather than about every program; the theorems that need them have them as hypotheses. The properties the violation runs refute have no theorem, of course; `DifferenceFits` is
refuted where the type rounds, and DataProofs shows it for the sizes and types of `RightAlgorithmPasses`.

## Abstractions and assumptions

* Outside of Data a content is a tag; a `Verify` step passes when the vectors and results it reads are those it was written
  for, and the timed step gives its result when its needs are met. Data has the elements themselves, for the wrappers
  where positions and sizes matter.
* Numbers are whole; `are_equivalent` adds and divides them exactly, and there are no infinities. An `int` does not
  overflow: it holds the sizes up to 2^30 a benchmark is run with. The tolerances of `Data` are the default ones.
* `"TRUE"`, `"True"`, `"FALSE"` and `"False"` stand for all spellings with capital letters.
* Which side a vector is on is modelled for the vectors that get a bench_input; outputs of single values are left out.
* oneDPL calls block until done and the queue is in order (`sycl_queue.h`), so at most one call is
  under way. The SYCL runtime, Google Benchmark, the recipe runner and the operating system are
  external; they are modelled by what the code relies on.
* The wrappers declare `double total_stl_ns` inside the block of the bench_inputs and
  use it after that block. The model gives it the scope the use intends.
* In an HPX build PAPI regions and profiler ranges are per thread and may really be
  opened on one worker and closed on another. `BracketsClosed` excludes them there and
  claims them for the builds that keep their thread, and LIKWID regions, which are by core, for all.
* The system calls of `for_each_core` succeed; the code does not look at their results. The address of
  the thread-local slot is evaluated at each access.
* The status file is absent at first; the runner passes a filter for what is missing.

## Not modelled

* The arithmetic of counters (bytes, items, averages over threads): sums that one line writes and nothing reads.
* `fill_init`, `generate_uniform_dist`, `generate_decrement`, one overload of `generate_increment`, and the assertion macros of
  `verification.h`: nothing calls them. `VERIFY_VERBOSE` only prints.
* The algorithm adapters, one call of a library each; the libraries stand behind the timed steps.
* Registrations and names: macros without state.
* Device selection in `sycl_queue.h`, CMake's package search and flags: they depend on the machine only.

## Plan

Done: the wrappers and bench_input in both modes, transfers, the data of the wrappers that draw
positions or split sizes, input generation and allocation, verification, instrumentation, life cycle and thread limit; the
proofs above.

Left, in this order:

1. *Registration*: CMake macros to `group.h` registrations; names unique per binary, no SEQ variant in NO_USM builds,
   every benchmark in every binary.
2. *Data* for further wrappers: the shuffles (sort, nth_element, partial_sort), the scans whose sums leave the exact range first.
3. With more wrappers in `Data`, their steps in `WrappersImplementReferences`: a `...Works` lemma each.

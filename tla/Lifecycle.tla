----------------------------- MODULE Lifecycle -----------------------------
(***************************************************************************)
(* The process (src/main.cpp): it runs the selected benchmarks, leaves a   *)
(* report, LIKWID's results and a status file, and may be killed anywhere. *)
(* A recipe runner starts it again for the benchmarks that are missing,    *)
(* until the status file says OK (main.cpp:146-147).                       *)
(*                                                                         *)
(* Google Benchmark's reporters and the recipe runner are not under src/:  *)
(* they are modelled by what main.cpp relies on.                           *)
(***************************************************************************)
EXTENDS Naturals, FiniteSets

CONSTANTS
  Benchmarks,  \* the benchmarks the filter selects
  MaxKills     \* bound on how often the process is killed

ASSUME LifecycleAssumption == IsFiniteSet(Benchmarks) /\ MaxKills \in Nat

VARIABLES
  backend,     \* ACPP_ONEDPL, whose binary ends by std::_Exit, TBB (and
               \* ONEDPL_CPU), which limit TBB's threads, or another one
  threads,     \* OMP_NUM_THREADS: "unset", begins with a "number", or "other"
  likwid,      \* PSTL_BENCH_USE_LIKWID
  statusFile,  \* PSTL_BENCH_STATUS_FILE is set
  goodArgs,    \* Google Benchmark recognises the arguments
  limited,     \* a tbb::global_control is alive
  quick,       \* main is on the way to std::_Exit
  pc,          \* where main is; "down": there is no process
  todo,        \* benchmarks this process still has to run
  buffered,    \* results it has not written yet
  report,      \* results in the output of this or an earlier process
  status,      \* the status file
  markers,     \* LIKWID's regions: "off", "open", or "written" to its file
  exit,        \* how the last process ended
  kills        \* how often a process was killed

options == <<backend, threads, likwid, statusFile, goodArgs>>
files == <<report, status, markers>>
vars == <<options, limited, quick, pc, todo, buffered, files, exit, kills>>

Init ==
  /\ backend \in {"ACPP_ONEDPL", "TBB", "other"}
  /\ threads \in {"unset", "number", "other"}
  /\ likwid \in BOOLEAN /\ statusFile \in BOOLEAN /\ goodArgs \in BOOLEAN
  /\ pc = "down" /\ exit = "never_started" /\ kills = 0
  /\ limited = FALSE /\ quick = FALSE
  /\ todo = {} /\ buffered = {} /\ report = {}
  /\ status = "absent" /\ markers = "off"

At(here, next) == pc = here /\ pc' = next /\ UNCHANGED <<options, kills>>

-----------------------------------------------------------------------------
(* The recipe runner starts the process, and again when it was killed      *)
(* before it said OK.                                                      *)
Launch ==
  /\ At("down", "threads")
  /\ exit \in {"never_started", "killed"} /\ status # "OK"
  /\ todo' = Benchmarks \ report
  /\ exit' = "running"
  /\ quick' = FALSE
  /\ UNCHANGED <<limited, buffered, files>>

(* init_tbb_thread_control(): main holds the global_control, which limits  *)
(* TBB for as long as it lives, in a variable of its own.                  *)
LimitThreads ==
  /\ backend = "TBB" => threads # "other"
  /\ At("threads", "init")
  /\ limited' = (backend = "TBB" /\ threads = "number")
  /\ UNCHANGED <<quick, todo, buffered, files, exit>>

(* std::stoi throws for what is no number, and nobody catches it.          *)
RejectThreads ==
  /\ backend = "TBB" /\ threads = "other"
  /\ At("threads", "down")
  /\ exit' = "aborted"
  /\ UNCHANGED <<limited, quick, todo, buffered, files>>

(* A sentinel that is written when the process starts.                     *)
InitMarkers_SignalsOK ==
  /\ At("init", "args")
  /\ markers' = IF likwid THEN "open" ELSE "off"
  /\ status' = IF statusFile THEN "OK" ELSE status
  /\ UNCHANGED <<limited, quick, todo, buffered, report, exit>>

InitMarkers ==
  /\ At("init", "args")
  /\ markers' = IF likwid THEN "open" ELSE "off"
  /\ UNCHANGED <<limited, quick, todo, buffered, report, status, exit>>

(* Initialize(): arguments it does not know end main with 1.               *)
RejectArgs ==
  /\ ~goodArgs /\ At("args", "down")
  /\ exit' = "1" /\ limited' = FALSE
  /\ UNCHANGED <<quick, todo, buffered, files>>

AcceptArgs ==
  /\ goodArgs /\ At("args", "run")
  /\ UNCHANGED <<limited, quick, todo, buffered, files, exit>>

-----------------------------------------------------------------------------
(* RunSpecifiedBenchmarks(): the reporters write when they like, and at    *)
(* the end whatever they still hold.                                       *)
RunBenchmark ==
  /\ At("run", "run")
  /\ \E b \in todo : todo' = todo \ {b} /\ buffered' = buffered \union {b}
  /\ UNCHANGED <<limited, quick, files, exit>>

Flush ==
  /\ At("run", "run")
  /\ buffered # {}
  /\ report' = report \union buffered /\ buffered' = {}
  /\ UNCHANGED <<limited, quick, todo, status, markers, exit>>

EndRuns ==
  /\ At("run", "shutdown")
  /\ todo = {}
  /\ report' = report \union buffered /\ buffered' = {}
  /\ UNCHANGED <<limited, quick, todo, status, markers, exit>>

-----------------------------------------------------------------------------
(* The end of main.  A binary with PSTL_BENCH_QUICK_EXIT_AT_END goes       *)
(* straight to the status file.                                            *)
Shutdown_NoQuickExit ==
  /\ At("shutdown", "close")
  /\ quick' = FALSE
  /\ UNCHANGED <<limited, todo, buffered, files, exit>>

Shutdown_SkipsTheStatusFile ==
  /\ quick' = (backend = "ACPP_ONEDPL")
  /\ At("shutdown", IF quick' THEN "exit" ELSE "close")
  /\ UNCHANGED <<limited, todo, buffered, files, exit>>

Shutdown ==
  /\ quick' = (backend = "ACPP_ONEDPL")
  /\ At("shutdown", IF quick' THEN "create_status" ELSE "close")
  /\ UNCHANGED <<limited, todo, buffered, files, exit>>

CloseMarkers ==
  /\ At("close", "create_status")
  /\ markers' = IF likwid THEN "written" ELSE "off"
  /\ UNCHANGED <<limited, quick, todo, buffered, report, status, exit>>

(* std::ofstream(path) makes the file; << and std::endl write it, before   *)
(* std::_Exit or the return.                                               *)
CreateStatus ==
  /\ At("create_status", "fill_status")
  /\ status' = IF statusFile THEN "empty" ELSE status
  /\ UNCHANGED <<limited, quick, todo, buffered, report, markers, exit>>

FillStatus_LeftToTheDestructor ==
  /\ At("fill_status", "exit")
  /\ status' = IF statusFile /\ ~quick THEN "OK" ELSE status
  /\ UNCHANGED <<limited, quick, todo, buffered, report, markers, exit>>

FillStatus ==
  /\ At("fill_status", "exit")
  /\ status' = IF statusFile THEN "OK" ELSE status
  /\ UNCHANGED <<limited, quick, todo, buffered, report, markers, exit>>

(* std::_Exit ends the process; a return from main first runs the static   *)
(* destructors, and those of ACPP_ONEDPL's runtime crash.                  *)
Exit ==
  /\ At("exit", "down")
  /\ exit' = IF backend = "ACPP_ONEDPL" /\ ~quick THEN "crash" ELSE "0"
  /\ limited' = FALSE
  /\ UNCHANGED <<quick, todo, buffered, files>>

(* The system kills the process, or an exception that nobody catches (an   *)
(* input that does not fit into the memory) ends it; what it had not       *)
(* written is lost.                                                        *)
Kill ==
  /\ pc # "down" /\ kills < MaxKills
  /\ pc' = "down" /\ exit' = "killed" /\ kills' = kills + 1
  /\ todo' = {} /\ buffered' = {} /\ limited' = FALSE
  /\ UNCHANGED <<options, quick, files>>

(* No process runs and nobody starts another one.                          *)
Over ==
  /\ pc = "down" /\ (exit \in {"0", "1", "aborted", "crash"} \/ status = "OK")
  /\ UNCHANGED vars

Main ==
  \/ LimitThreads \/ RejectThreads \/ InitMarkers \/ RejectArgs \/ AcceptArgs
  \/ RunBenchmark \/ Flush \/ EndRuns
  \/ Shutdown \/ CloseMarkers \/ CreateStatus \/ FillStatus \/ Exit

Next == Launch \/ Main \/ Kill \/ Over

(* main gets on, the runner restarts what was killed, nothing has to kill. *)
Safety == Init /\ [][Next]_vars
Spec == Safety /\ WF_vars(Main) /\ WF_vars(Launch)

-----------------------------------------------------------------------------
TypeOK ==
  /\ backend \in {"ACPP_ONEDPL", "TBB", "other"}
  /\ threads \in {"unset", "number", "other"}
  /\ likwid \in BOOLEAN /\ statusFile \in BOOLEAN /\ goodArgs \in BOOLEAN
  /\ limited \in BOOLEAN /\ quick \in BOOLEAN
  /\ pc \in {"down", "threads", "init", "args", "run", "shutdown", "close",
            "create_status", "fill_status", "exit"}
  /\ todo \subseteq Benchmarks /\ buffered \subseteq Benchmarks
  /\ report \subseteq Benchmarks
  /\ status \in {"absent", "empty", "OK"}
  /\ markers \in {"off", "open", "written"}
  /\ exit \in {"never_started", "running", "killed", "0", "1", "aborted", "crash"}
  /\ kills \in 0 .. MaxKills

(* "Write status file to signal clean completion" (main.cpp:146): however  *)
(* often the process was killed and started again, OK means that the       *)
(* result of every selected benchmark is in the output.                    *)
OKMeansComplete == status = "OK" => report = Benchmarks

(* A process that said OK does not go on to crash: its exit code agrees    *)
(* with its status file (main.cpp:124-139, the reason for the quick exit). *)
NoCrashAfterOK == status = "OK" => exit # "crash"

(* "Skipping the C++ static-destructor chain via std::_Exit doesn't lose   *)
(* anything observable" (main.cpp:129-130): a process that ends with       *)
(* success has left LIKWID's results behind if it was built to.            *)
NothingObservableIsLost == exit = "0" /\ likwid => markers = "written"

(* How a process ended agrees with what it left, on both ways main takes   *)
(* to its end (main.cpp:133-139, 148-154): after a success all results are *)
(* out and the status file says so, after a number of threads or arguments *)
(* that are refused (thread_control.h:25, main.cpp:120) there is neither a *)
(* result nor a status file.                                               *)
OutcomeIsSignalled ==
  /\ exit = "0" => report = Benchmarks /\ (statusFile => status = "OK")
  /\ exit \in {"1", "aborted"} => report = {} /\ status = "absent"

(* With arguments and a number of threads it knows, and killed finitely    *)
(* often, the program gets through all the benchmarks and says so; a       *)
(* status file that a kill left made and not yet written (main.cpp:151)    *)
(* does not stay empty, though nothing is left to run.                     *)
EventuallyComplete ==
  goodArgs /\ ~(backend = "TBB" /\ threads = "other")
    => <>(report = Benchmarks /\ pc = "down" /\ (statusFile => status = "OK"))
=============================================================================

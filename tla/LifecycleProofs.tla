-------------------------- MODULE LifecycleProofs --------------------------
(***************************************************************************)
(* What the status file says is true for any number of benchmarks and of   *)
(* kills.                                                                  *)
(***************************************************************************)
EXTENDS Lifecycle, TLAPS

(* Where main has the results of all the benchmarks behind it.             *)
AfterRuns == {"shutdown", "close", "create_status", "fill_status", "exit"}

(* No benchmark gets lost: what is not in the output yet is still to be    *)
(* run, or in the memory of a reporter while the benchmarks run.           *)
NothingDropped ==
  /\ pc \in {"threads", "init", "args"} => Benchmarks \subseteq todo \union report
  /\ pc = "run" => Benchmarks \subseteq todo \union buffered \union report
  /\ pc \in AfterRuns => report = Benchmarks

(* A binary whose static destructors crash never reaches them.             *)
CrashersQuit ==
  /\ exit # "crash"
  /\ pc = "close" => backend # "ACPP_ONEDPL"
  /\ pc \in {"create_status", "fill_status", "exit"} /\ backend = "ACPP_ONEDPL" => quick

(* A number of threads, or arguments, that main does not get past.         *)
RefusedThreads == backend = "TBB" /\ threads = "other"
Refused == ~goodArgs \/ RefusedThreads

(* What is refused never gets as far as a result or the status file, and   *)
(* nothing else is; main is at its end only with OK in the file.           *)
EndsAreSignalled ==
  /\ pc # "down" => exit = "running"
  /\ RefusedThreads => pc \in {"down", "threads"}
  /\ Refused => /\ pc \in {"down", "threads", "init", "args"}
                /\ report = {} /\ buffered = {} /\ status = "absent" /\ exit # "0"
  /\ exit \in {"1", "aborted"} => Refused
  /\ pc = "exit" /\ statusFile => status = "OK"
  /\ OutcomeIsSignalled

IInv == TypeOK /\ OKMeansComplete /\ NothingDropped /\ CrashersQuit /\ EndsAreSignalled

-----------------------------------------------------------------------------
LEMMA InitIInv == Init => IInv
<1> SUFFICES ASSUME Init PROVE IInv
  OBVIOUS
<1>1. TypeOK
  <2>1. kills \in 0 .. MaxKills  BY LifecycleAssumption, SMT DEF Init
  <2> QED  BY <2>1, Zenon DEF Init, TypeOK
<1>2. OKMeansComplete /\ NothingDropped /\ CrashersQuit
  BY DEF Init, OKMeansComplete, NothingDropped, AfterRuns, CrashersQuit
<1>3. EndsAreSignalled
  BY DEF Init, EndsAreSignalled, OutcomeIsSignalled, Refused, RefusedThreads
<1> QED  BY <1>1, <1>2, <1>3 DEF IInv

Complete == OKMeansComplete /\ NothingDropped /\ CrashersQuit

LEMMA MainSignals == ASSUME IInv, Main PROVE EndsAreSignalled'
<1> USE DEF IInv, NothingDropped, AfterRuns, EndsAreSignalled, OutcomeIsSignalled, Refused,
            RefusedThreads, At, options, files
<1>1. CASE InitMarkers  BY <1>1 DEF InitMarkers
<1>2. CASE RejectArgs  BY <1>2 DEF RejectArgs
<1>3. CASE AcceptArgs  BY <1>3 DEF AcceptArgs
<1>4. CASE RunBenchmark  BY <1>4 DEF RunBenchmark
<1>5. CASE Flush  BY <1>5 DEF Flush
<1>6. CASE EndRuns  BY <1>6 DEF EndRuns
<1>7. CASE Shutdown  BY <1>7 DEF Shutdown
<1>8. CASE CloseMarkers  BY <1>8 DEF CloseMarkers
<1>9. CASE CreateStatus  BY <1>9 DEF CreateStatus
<1>10. CASE FillStatus  BY <1>10 DEF FillStatus
<1>11. CASE Exit  BY <1>11 DEF Exit
<1>12. CASE LimitThreads  BY <1>12 DEF LimitThreads
<1>13. CASE RejectThreads  BY <1>13 DEF RejectThreads
<1> QED
  BY <1>1, <1>2, <1>3, <1>4, <1>5, <1>6, <1>7, <1>8, <1>9, <1>10, <1>11, <1>12, <1>13
  DEF Main

LEMMA MainTypes == ASSUME IInv, Main PROVE TypeOK'
<1> USE DEF IInv, TypeOK, At, options, files
<1>1. CASE InitMarkers  BY <1>1 DEF InitMarkers
<1>2. CASE RejectArgs  BY <1>2 DEF RejectArgs
<1>3. CASE AcceptArgs  BY <1>3 DEF AcceptArgs
<1>4. CASE RunBenchmark  BY <1>4 DEF RunBenchmark
<1>5. CASE Flush  BY <1>5 DEF Flush
<1>6. CASE EndRuns  BY <1>6 DEF EndRuns
<1>7. CASE Shutdown  BY <1>7 DEF Shutdown
<1>8. CASE CloseMarkers  BY <1>8 DEF CloseMarkers
<1>9. CASE CreateStatus  BY <1>9 DEF CreateStatus
<1>10. CASE FillStatus  BY <1>10 DEF FillStatus
<1>11. CASE Exit  BY <1>11 DEF Exit
<1>12. CASE LimitThreads  BY <1>12 DEF LimitThreads
<1>13. CASE RejectThreads  BY <1>13 DEF RejectThreads
<1> QED
  BY <1>1, <1>2, <1>3, <1>4, <1>5, <1>6, <1>7, <1>8, <1>9, <1>10, <1>11, <1>12, <1>13
  DEF Main

LEMMA MainComplete == ASSUME IInv, Main PROVE Complete'
<1> USE DEF IInv, TypeOK, Complete, OKMeansComplete, NothingDropped, AfterRuns, CrashersQuit,
            At, options, files
<1>1. CASE InitMarkers  BY <1>1 DEF InitMarkers
<1>2. CASE RejectArgs  BY <1>2 DEF RejectArgs
<1>3. CASE AcceptArgs  BY <1>3 DEF AcceptArgs
<1>4. CASE RunBenchmark  BY <1>4 DEF RunBenchmark
<1>5. CASE Flush  BY <1>5 DEF Flush
<1>6. CASE EndRuns  BY <1>6 DEF EndRuns
<1>7. CASE Shutdown  BY <1>7 DEF Shutdown
<1>8. CASE CloseMarkers  BY <1>8 DEF CloseMarkers
<1>9. CASE CreateStatus  BY <1>9 DEF CreateStatus
<1>10. CASE FillStatus  BY <1>10 DEF FillStatus
<1>11. CASE Exit  BY <1>11 DEF Exit
<1>12. CASE LimitThreads  BY <1>12 DEF LimitThreads
<1>13. CASE RejectThreads  BY <1>13 DEF RejectThreads
<1> QED
  BY <1>1, <1>2, <1>3, <1>4, <1>5, <1>6, <1>7, <1>8, <1>9, <1>10, <1>11, <1>12, <1>13
  DEF Main

LEMMA MainIInv == ASSUME IInv, Main PROVE IInv'
BY MainSignals, MainTypes, MainComplete DEF IInv, Complete

LEMMA LaunchIInv == ASSUME IInv, Launch PROVE IInv'
<1> USE DEF IInv, options, files
<1>1. TypeOK'  BY DEF Launch, At, TypeOK
<1>2. EndsAreSignalled'
  BY DEF Launch, At, EndsAreSignalled, OutcomeIsSignalled, Refused, RefusedThreads
<1>3. OKMeansComplete' /\ NothingDropped'
  BY DEF Launch, At, TypeOK, OKMeansComplete, NothingDropped, AfterRuns
<1>4. CrashersQuit'  BY DEF Launch, At, CrashersQuit
<1> QED  BY <1>1, <1>2, <1>3, <1>4

LEMMA KillIInv == ASSUME IInv, Kill PROVE IInv'
<1> USE DEF IInv, options, files
<1>1. kills' \in 0 .. MaxKills
  <2>1. kills' = kills + 1 /\ kills < MaxKills /\ kills \in 0 .. MaxKills  BY DEF Kill, TypeOK
  <2> QED  BY ONLY <2>1, LifecycleAssumption
<1>2. TypeOK'  BY <1>1, Zenon DEF Kill, TypeOK
<1>3. EndsAreSignalled'
  BY DEF Kill, EndsAreSignalled, OutcomeIsSignalled, Refused, RefusedThreads
<1>4. OKMeansComplete' /\ NothingDropped'
  BY DEF Kill, OKMeansComplete, NothingDropped, AfterRuns
<1>5. CrashersQuit'  BY DEF Kill, CrashersQuit
<1> QED  BY <1>2, <1>3, <1>4, <1>5

LEMMA SameIInv == ASSUME IInv, UNCHANGED vars PROVE IInv'
<1> USE DEF vars, options, files
<1>1. TypeOK'  BY DEF IInv, TypeOK
<1>2. EndsAreSignalled'
  BY DEF IInv, EndsAreSignalled, OutcomeIsSignalled, Refused, RefusedThreads
<1>3. OKMeansComplete' /\ NothingDropped'
  BY DEF IInv, OKMeansComplete, NothingDropped, AfterRuns
<1>4. CrashersQuit'  BY DEF IInv, CrashersQuit
<1> QED  BY <1>1, <1>2, <1>3, <1>4 DEF IInv

LEMMA NextIInv == ASSUME IInv, [Next]_vars PROVE IInv'
BY LaunchIInv, MainIInv, KillIInv, SameIInv DEF Next, Over

LEMMA AlwaysIInv == Safety => []IInv
BY InitIInv, NextIInv, PTL DEF Safety

-----------------------------------------------------------------------------
(* Every variable keeps its type.                                          *)
THEOREM LifecycleTypes == Safety => []TypeOK
<1>1. IInv => TypeOK  BY DEF IInv
<1> QED  BY <1>1, AlwaysIInv, PTL

(* However many benchmarks there are and however often the process is      *)
(* killed, an OK in the status file (main.cpp:146-152) means that all the  *)
(* results are out.                                                        *)
THEOREM StatusIsTruthful == Safety => []OKMeansComplete
<1>1. IInv => OKMeansComplete  BY DEF IInv
<1> QED  BY <1>1, AlwaysIInv, PTL

(* The quick exit (main.cpp:124-139) keeps a process that said OK from     *)
(* crashing.                                                               *)
THEOREM QuickExitPreventsTheCrash == Safety => []NoCrashAfterOK
<1>1. IInv => NoCrashAfterOK  BY DEF IInv, CrashersQuit, NoCrashAfterOK
<1> QED  BY <1>1, AlwaysIInv, PTL

(* However often the process was killed and started again, a success       *)
(* leaves all results and OK in the status file, and what main refuses     *)
(* leaves neither (main.cpp:119-154, thread_control.h:25).                 *)
THEOREM EveryEndIsSignalled == Safety => []OutcomeIsSignalled
<1>1. IInv => OutcomeIsSignalled  BY DEF IInv, EndsAreSignalled
<1> QED  BY <1>1, AlwaysIInv, PTL
=============================================================================

----------------------------- MODULE BenchInput -----------------------------
(***************************************************************************)
(* What bench_input promises the wrappers: "the API surface is identical   *)
(* in both modes" (bench_input.h:13).  Every vector is one memory; a       *)
(* host_view, an algorithm and the code around the loop all see the last   *)
(* write, whoever made it.                                                 *)
(*                                                                         *)
(* That is literally the class of the CPU and USM builds                   *)
(* (bench_input.h:63-83), where a bench_input is a reference to its        *)
(* vector; BufferView shows that the sycl::buffer of the NO_USM builds     *)
(* implements it.                                                          *)
(***************************************************************************)
EXTENDS Wrapper

VARIABLE mem   \* location -> content

vars == <<control, mem>>

Init == ControlInit /\ mem = [v \in Loc |-> Unset]

(* Constructing and destroying references moves no data.                   *)
Lift == phase = "lift" /\ Leave /\ UNCHANGED mem
Drop == phase = "drop" /\ Leave /\ UNCHANGED mem

(* host_view() returns the vector itself.                                  *)
View == At({"open", "close"}) /\ Advance /\ UNCHANGED mem

Work == At({"raw", "host"}) /\ mem' = Effect(cur, mem) /\ Advance

(* A call of an algorithm has taken place when it returns.                 *)
Call == At(Calls) /\ mem' = Effect(cur, mem) /\ Advance

(* The wrapper has returned; nothing is left to do.                        *)
Returned == phase = "done" /\ UNCHANGED vars

Next == Lift \/ Drop \/ View \/ Work \/ Call \/ Returned

(* One thread runs the wrapper and every statement of it ends.             *)
Safety == Init /\ [][Next]_vars
Spec == Safety /\ WF_vars(Next)

-----------------------------------------------------------------------------
TypeOK == ControlOK /\ mem \in [Loc -> Content]

(* Whatever step a wrapper is at, in whatever iteration, it finds what it  *)
(* is written for: the reset at the end of an iteration undoes the damage  *)
(* F or a planted value did, so that every timed call measures the same    *)
(* work as the first, and the verification reads the vectors and the last_ *)
(* variables it was written for.                                           *)
EveryStepFindsItsInput ==
  phase \in CodePhases => Met(cur, mem)

(* A wrapper whose algorithm is correct ends with verification_passed = 1. *)
CorrectAlgorithmPasses ==
  phase = "done" /\ verifying => mem["verdict"] = "passed"

(* The wrapper returns to the benchmark runner.                            *)
WrapperReturns == <>(phase = "done")
=============================================================================

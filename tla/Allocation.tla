----------------------------- MODULE Allocation -----------------------------
(***************************************************************************)
(* The vectors of a benchmark_wrapper from their allocation to their end:  *)
(* get_vector, generate_increment and make_buffer of utils/input_gen.h,    *)
(* the copies `auto output = input', and the allocators behind them,       *)
(* par_alloc.h, usm_allocator.h and std::allocator.                        *)
(*                                                                         *)
(* par_alloc touches fresh memory in a parallel loop, so that the pages    *)
(* get to the NUMA nodes of the threads that work on them, before vector   *)
(* initialises it on one thread.  The threads of a parallel loop take its  *)
(* elements in any order.                                                  *)
(***************************************************************************)
EXTENDS InputGen, FiniteSets

CONSTANTS
  Builds,     \* [alloc, gnu, seq] a binary and policy can have
  Types,      \* element types
  Wrappers,   \* wrapper -> how it makes its vectors, one after the other
  MaxSize     \* bound on state.range(0)

Makes == {"iota", "sub", "copy", "get", "buffer"}

ASSUME AllocationAssumption ==
  /\ Builds \subseteq [alloc : {"std", "par", "usm"}, gnu : BOOLEAN, seq : BOOLEAN]
  /\ \A T \in Types : IsElemType(T)
  /\ MaxSize \in Nat \ {0}
  /\ \A w \in DOMAIN Wrappers :
       /\ Wrappers[w] \in Seq(Makes)
       /\ Wrappers[w] # <<>>
       /\ Wrappers[w][1] = "iota"

VARIABLES
  build, type, wrapper, size,   \* fixed for a run
  pc,       \* where the thread of the wrapper is
  v,        \* the vector it is making, or made last
  live,     \* vectors whose memory is allocated
  data,     \* vector -> its elements
  placed,   \* vector -> element -> what touched its memory first
  todo,     \* the elements the loop under way has not come to
  policy    \* "alive" while the policy par_alloc refers to exists, then "dead"

fixed == <<build, type, wrapper, size>>
vars == <<fixed, pc, v, live, data, placed, todo, policy>>

made == Wrappers[wrapper]   \* how the vectors of this wrapper are made
Positions == 1 .. size
Raw == "raw"               \* the content of memory nobody has written

(* The length of vector k: `sub' is generate_increment of size / 2.        *)
LengthOf(k) == IF made[k] = "sub" THEN size \div 2 ELSE size

Generated(k) == made[k] \in {"iota", "sub"}

(* What vector k is meant to hold once it is made.  Copies are of the      *)
(* first vector.                                                           *)
Value(k, e) ==
  CASE made[k] = "sub"    -> body(type, Stored(type, size \div 4), 1, e - 1)
    [] made[k] = "get"    -> 0
    [] made[k] = "buffer" -> quiet_NaN(type)
    [] OTHER              -> body(type, 1, 1, e - 1)

(* make_buffer never takes par_alloc (input_gen.h:54-58).                  *)
allocator(k) ==
  IF build.alloc = "par" /\ made[k] = "buffer" THEN "std" ELSE build.alloc

(* An early exit for every policy, and one for none.                       *)
Touches_Never(k) == FALSE

(* The early exit of par_alloc::allocate for std::execution::seq.          *)
Touches(k) == allocator(k) = "par" /\ ~build.seq

(* Whether generate_increment loops in parallel: only under                *)
(* PSTL_BENCH_USE_PAR_ALLOC; the GNU loop has no policy to obey.           *)
GeneratesInParallel == build.alloc = "par" /\ (build.gnu \/ ~build.seq)

Init ==
  /\ build \in Builds /\ type \in Types /\ wrapper \in DOMAIN Wrappers
  /\ size \in 1 .. MaxSize
  /\ pc = "wrapper" /\ v = 0 /\ live = {}
  /\ data = [k \in DOMAIN made |-> [e \in Positions |-> Raw]]
  /\ placed = [k \in DOMAIN made |-> [e \in Positions |-> Raw]]
  /\ todo = {} /\ policy = "dead"

(* A wrapper that goes past its last vector.                               *)
MakeVector_OneTooMany ==
  /\ pc = "wrapper" /\ v <= Len(made)
  /\ v' = v + 1
  /\ pc' = "allocate"
  /\ UNCHANGED <<fixed, live, data, placed, todo, policy>>

(* The next vector of the wrapper.  get_vector makes a policy of its own   *)
(* for par_alloc to refer to (input_gen.h:76-79); a copy of a vector has a *)
(* copy of its allocator, which refers to the policy of the original.      *)
MakeVector ==
  /\ pc = "wrapper" /\ v < Len(made)
  /\ v' = v + 1
  /\ policy' = IF build.alloc = "par" /\ made[v + 1] \notin {"copy", "buffer"} THEN "alive" ELSE policy
  /\ pc' = "allocate"
  /\ UNCHANGED <<fixed, live, data, placed, todo>>

Allocate ==
  /\ pc = "allocate"
  /\ live' = live \union {v}
  /\ pc' = IF Touches(v) THEN "touch" ELSE "construct"
  /\ todo' = IF Touches(v) THEN 1 .. LengthOf(v) ELSE {}
  /\ UNCHANGED <<fixed, v, data, placed, policy>>

(* operator new throws, or malloc_shared returns null (usm_allocator.h:33);*)
(* nobody catches the bad_alloc, and the program ends.                     *)
OutOfMemory ==
  /\ pc = "allocate"
  /\ pc' = "terminated"
  /\ UNCHANGED <<fixed, v, live, data, placed, todo, policy>>

(* Some thread of the loop touches the first byte of an element.           *)
Touch ==
  /\ pc = "touch"
  /\ \E e \in todo :
       /\ placed' = [placed EXCEPT ![v][e] = "loop"]
       /\ todo' = todo \ {e}
  /\ UNCHANGED <<fixed, pc, v, live, data, policy>>

TouchEnds ==
  /\ pc = "touch" /\ todo = {}
  /\ pc' = "construct"
  /\ UNCHANGED <<fixed, v, live, data, placed, todo, policy>>

(* The constructor of vector writes every element: of a copy the elements  *)
(* of the original, else 0 or init_val.  With that get_vector returns and  *)
(* its policy is gone.                                                     *)
Construct ==
  /\ pc = "construct"
  /\ data' = [data EXCEPT ![v] =
       [e \in Positions |->
          IF e > LengthOf(v) THEN Raw
          ELSE CASE made[v] = "copy"   -> data[1][e]
                 [] made[v] = "buffer" -> quiet_NaN(type)
                 [] OTHER              -> 0]]
  /\ placed' = [placed EXCEPT ![v] =
       [e \in Positions |->
          IF e <= LengthOf(v) /\ placed[v][e] = Raw THEN "constructor" ELSE placed[v][e]]]
  /\ policy' = "dead"
  /\ pc' = IF Generated(v) THEN "generate" ELSE "wrapper"
  /\ todo' = IF Generated(v) THEN 1 .. LengthOf(v) ELSE {}
  /\ UNCHANGED <<fixed, v, live>>

(* A loop body that counts instead of looking at the address: right        *)
(* as long as the loop is sequential.                                      *)
Generate_Counting ==
  /\ pc = "generate"
  /\ \E e \in todo :
       /\ GeneratesInParallel \/ \A f \in todo : e <= f
       /\ data' = [data EXCEPT ![v][e] = Value(v, LengthOf(v) - Cardinality(todo) + 1)]
       /\ todo' = todo \ {e}
  /\ UNCHANGED <<fixed, pc, v, live, placed, policy>>

(* A loop that hands out an element again and again.                       *)
Generate_Forever ==
  /\ pc = "generate"
  /\ \E e \in todo : data' = [data EXCEPT ![v][e] = Value(v, e)]
  /\ UNCHANGED <<fixed, pc, v, live, placed, todo, policy>>

(* Some thread runs the body of generate_increment on an element, the      *)
(* calling thread in the order of the elements when the loop is not        *)
(* parallel.                                                               *)
Generate ==
  /\ pc = "generate"
  /\ \E e \in todo :
       /\ GeneratesInParallel \/ \A f \in todo : e <= f
       /\ data' = [data EXCEPT ![v][e] = Value(v, e)]
       /\ todo' = todo \ {e}
  /\ UNCHANGED <<fixed, pc, v, live, placed, policy>>

GenerateEnds ==
  /\ pc = "generate" /\ todo = {}
  /\ pc' = "wrapper"
  /\ UNCHANGED <<fixed, v, live, data, placed, todo, policy>>

(* The vectors of the wrapper go out of scope.                             *)
Return ==
  /\ pc = "wrapper" /\ v = Len(made)
  /\ live' = {}
  /\ pc' = "done"
  /\ UNCHANGED <<fixed, v, data, placed, todo, policy>>

Over == pc \in {"done", "terminated"} /\ UNCHANGED vars

Next ==
  \/ MakeVector \/ Allocate \/ OutOfMemory \/ Touch \/ TouchEnds \/ Construct
  \/ Generate \/ GenerateEnds \/ Return \/ Over

(* Statements end, and the threads of a loop get to all of its elements.   *)
Safety == Init /\ [][Next]_vars
Spec == Safety /\ WF_vars(Next)

-----------------------------------------------------------------------------
TypeOK ==
  /\ build \in Builds /\ type \in Types /\ wrapper \in DOMAIN Wrappers
  /\ size \in 1 .. MaxSize
  /\ pc \in {"wrapper", "allocate", "touch", "construct", "generate", "done", "terminated"}
  /\ v \in 0 .. Len(made) /\ live \subseteq 1 .. v
  /\ v = 0 => pc = "wrapper"
  /\ DOMAIN data = DOMAIN made /\ DOMAIN placed = DOMAIN made
  /\ \A k \in DOMAIN made :
       /\ DOMAIN data[k] = Positions
       /\ placed[k] \in [Positions -> {Raw, "loop", "constructor"}]
  /\ todo \subseteq Positions
  /\ policy \in {"alive", "dead"}

(* The vectors that are finished.                                          *)
Made == {k \in live : k < v \/ pc = "wrapper"}

(* Whatever the order in which the threads of a loop take its elements, a  *)
(* finished vector holds the sequence the wrapper asked for, each copy the *)
(* same as the original, and it keeps it while later vectors are allocated *)
(* and touched (input_gen.h:143-146, par_alloc.h:84-88).                   *)
VectorsHoldTheirSequence ==
  \A k \in Made : \A e \in 1 .. LengthOf(k) : data[k][e] = Value(k, e)

(* "a parallel allocator designed for NUMA systems" (README.md:59): under  *)
(* a parallel policy no element of a vector is left for the single thread  *)
(* of the constructor to touch first.                                      *)
FirstTouchIsParallel ==
  build.alloc = "par" /\ ~build.seq =>
    \A k \in Made : made[k] # "buffer" =>
      \A e \in 1 .. LengthOf(k) : placed[k][e] = "loop"

(* The wrapper gets its vectors, unless memory runs out.                   *)
WrapperGetsItsVectors == <>(pc \in {"done", "terminated"})

(* par_alloc.h:83: "touch first byte of every object using the given       *)
(* strategy".  The given strategy is an object that still exists.          *)
GivenPolicyExists == pc = "touch" /\ ~build.gnu => policy = "alive"
=============================================================================

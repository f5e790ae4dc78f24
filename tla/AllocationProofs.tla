-------------------------- MODULE AllocationProofs --------------------------
(***************************************************************************)
(* What the vectors of a wrapper hold, and what touched their memory       *)
(* first, for any number and kind of vectors, any size and any order in    *)
(* which the threads of the parallel loops take the elements.              *)
(***************************************************************************)
EXTENDS Allocation, TLAPS

ParallelTouch == build.alloc = "par" /\ ~build.seq

(* The vectors that nothing works on any more, allocated or given back.    *)
Finished == {k \in 1 .. v : k < v \/ pc \in {"wrapper", "done"}}

Holds(k, e) == data[k][e] = Value(k, e)
InPlace(k, e) == placed[k][e] = "loop"

(* The elements of the vector in the making are right where the loop has   *)
(* been, and the finished vectors stay as they are.                        *)
SequencesSoFar ==
  /\ \A k \in Finished : \A e \in 1 .. LengthOf(k) : Holds(k, e)
  /\ pc = "generate" =>
       Generated(v) /\ \A e \in 1 .. LengthOf(v) : e \notin todo => Holds(v, e)

PlacesSoFar ==
  ParallelTouch =>
    /\ \A k \in Finished : made[k] # "buffer" => \A e \in 1 .. LengthOf(k) : InPlace(k, e)
    /\ pc = "touch" => \A e \in 1 .. LengthOf(v) : e \notin todo => InPlace(v, e)
    /\ pc \in {"construct", "generate"} /\ made[v] # "buffer" =>
         \A e \in 1 .. LengthOf(v) : InPlace(v, e)

IInv == TypeOK /\ SequencesSoFar /\ PlacesSoFar

-----------------------------------------------------------------------------
LEMMA VectorsOfTheWrapper ==
  ASSUME wrapper \in DOMAIN Wrappers
  PROVE  /\ made \in Seq(Makes) /\ Len(made) \in Nat /\ Len(made) >= 1
         /\ DOMAIN made = 1 .. Len(made) /\ made[1] = "iota"
         /\ \A k \in DOMAIN made : made[k] \in Makes
BY AllocationAssumption DEF made

LEMMA Lengths ==
  ASSUME size \in 1 .. MaxSize, NEW k
  PROVE  /\ LengthOf(k) \in Nat /\ 1 .. LengthOf(k) \subseteq Positions
         /\ made[k] # "sub" => LengthOf(k) = size
BY AllocationAssumption DEF LengthOf, Positions

LEMMA InitIInv == Init => IInv
<1> SUFFICES ASSUME Init PROVE IInv
  OBVIOUS
<1>1. Finished = {}
  BY DEF Init, Finished
<1>2. TypeOK
  BY VectorsOfTheWrapper DEF Init, TypeOK, Positions
<1>3. SequencesSoFar /\ PlacesSoFar
  BY <1>1 DEF Init, SequencesSoFar, PlacesSoFar
<1> QED  BY <1>2, <1>3 DEF IInv

(* What depends on the fixed variables only is fixed.                      *)
LEMMA Fixed ==
  ASSUME UNCHANGED fixed
  PROVE  /\ made' = made /\ Positions' = Positions /\ ParallelTouch' = ParallelTouch
         /\ \A k : LengthOf(k)' = LengthOf(k) /\ Generated(k)' = Generated(k)
         /\ \A k, e : Value(k, e)' = Value(k, e)
BY DEF fixed, made, Positions, ParallelTouch, LengthOf, Generated, Value

LEMMA TypesKept == TypeOK /\ [Next]_vars => TypeOK'
<1> SUFFICES ASSUME TypeOK, [Next]_vars PROVE TypeOK'
  OBVIOUS
<1> USE VectorsOfTheWrapper, Lengths, Fixed DEF TypeOK
<1>1. CASE MakeVector
  BY <1>1 DEF MakeVector, fixed
<1>2. CASE Allocate
  BY <1>2 DEF Allocate, fixed
<1>3. CASE OutOfMemory
  BY <1>3 DEF OutOfMemory, fixed
<1>4. CASE Touch
  <2>1. PICK e \in todo : placed' = [placed EXCEPT ![v][e] = "loop"] /\ todo' = todo \ {e}
    BY <1>4 DEF Touch
  <2>2. DOMAIN placed' = DOMAIN placed
    BY <2>1
  <2>3. \A k \in DOMAIN made : placed'[k] \in [Positions -> {Raw, "loop", "constructor"}]
    BY <2>1
  <2> QED  BY <1>4, <2>1, <2>2, <2>3 DEF Touch, fixed
<1>5. CASE TouchEnds
  BY <1>5 DEF TouchEnds, fixed
<1>6. CASE Construct
  <2>1. /\ DOMAIN data' = DOMAIN data
        /\ \A k \in DOMAIN made : DOMAIN data'[k] = Positions
    BY <1>6 DEF Construct
  <2>2. /\ DOMAIN placed' = DOMAIN placed
        /\ \A k \in DOMAIN made : placed'[k] \in [Positions -> {Raw, "loop", "constructor"}]
    BY <1>6 DEF Construct
  <2>3. todo' \subseteq Positions
    BY <1>6 DEF Construct
  <2> QED  BY <1>6, <2>1, <2>2, <2>3 DEF Construct, fixed
<1>7. CASE Generate
  <2>1. PICK e \in todo : data' = [data EXCEPT ![v][e] = Value(v, e)] /\ todo' = todo \ {e}
    BY <1>7 DEF Generate
  <2>2. /\ DOMAIN data' = DOMAIN data
        /\ \A k \in DOMAIN made : DOMAIN data'[k] = Positions
    BY <2>1
  <2> QED  BY <1>7, <2>1, <2>2 DEF Generate, fixed
<1>8. CASE GenerateEnds
  BY <1>8 DEF GenerateEnds, fixed
<1>9. CASE Return
  BY <1>9 DEF Return, fixed
<1>10. CASE UNCHANGED vars
  BY <1>10 DEF vars, fixed
<1> QED  BY <1>1, <1>2, <1>3, <1>4, <1>5, <1>6, <1>7, <1>8, <1>9, <1>10 DEF Next, Over

-----------------------------------------------------------------------------
(* Steps that leave the elements alone, and finish no vector.              *)
LEMMA FinishedKept ==
  ASSUME TypeOK, UNCHANGED fixed, v' = v, pc' # "wrapper", pc' # "done"
  PROVE  Finished' \subseteq Finished
BY DEF Finished

LEMMA SequencesKept == IInv /\ [Next]_vars => SequencesSoFar'
<1> SUFFICES ASSUME IInv, [Next]_vars PROVE SequencesSoFar'
  OBVIOUS
<1> USE Fixed DEF IInv, SequencesSoFar, Holds, Finished
<1>a. v \in Nat /\ (pc # "wrapper" => v \in DOMAIN made)
  BY VectorsOfTheWrapper DEF TypeOK
<1>1. CASE MakeVector
  BY <1>1, <1>a DEF MakeVector
<1>2. CASE Allocate
  BY <1>2, <1>a DEF Allocate
<1>3. CASE OutOfMemory
  BY <1>3, <1>a DEF OutOfMemory
<1>4. CASE Touch
  BY <1>4, <1>a DEF Touch
<1>5. CASE TouchEnds
  BY <1>5, <1>a DEF TouchEnds
<1>6. CASE Construct
  <2>1. UNCHANGED fixed /\ v' = v /\ v \in DOMAIN data
    BY <1>6, <1>a DEF Construct, TypeOK
  <2>2. \A k \in DOMAIN data : k # v => data'[k] = data[k]
    BY <1>6 DEF Construct
  <2>3. ASSUME NEW k \in Finished', k < v, NEW e \in 1 .. LengthOf(k)
        PROVE  data'[k][e] = Value(k, e)
    <3>1. k \in DOMAIN data /\ k # v /\ k \in Finished
      BY <1>a, <2>1, <2>3, VectorsOfTheWrapper DEF TypeOK
    <3> QED  BY <2>2, <2>3, <3>1
  <2>4. CASE Generated(v)
    <3>1. pc' = "generate" /\ todo' = 1 .. LengthOf(v)
      BY <1>6, <2>4 DEF Construct
    <3>2. \A k \in Finished' : k < v
      BY <1>a, <2>1, <3>1
    <3> QED  BY <2>1, <2>3, <2>4, <3>1, <3>2
  <2>5. CASE ~Generated(v)
    <3>1. pc' = "wrapper"
      BY <1>6, <2>5 DEF Construct
    <3>2. ASSUME NEW e \in 1 .. LengthOf(v) PROVE data'[v][e] = Value(v, e)
      <4>1. LengthOf(v) \in Nat /\ e \in Positions
        BY Lengths DEF TypeOK
      <4>2. data'[v][e] = CASE made[v] = "copy"   -> data[1][e]
                            [] made[v] = "buffer" -> quiet_NaN(type)
                            [] OTHER              -> 0
        BY <1>6, <2>1, <4>1 DEF Construct
      <4>3. CASE made[v] = "copy"
        <5>1. made[1] = "iota" /\ 1 < v
          BY <1>a, <4>3, <1>6, VectorsOfTheWrapper DEF TypeOK, Construct
        <5>2. 1 \in Finished /\ LengthOf(1) = LengthOf(v)
          BY <1>a, <4>3, <5>1, Lengths DEF TypeOK
        <5>3. data[1][e] = Value(1, e)
          BY <5>2
        <5> QED  BY <4>2, <4>3, <5>1, <5>3 DEF Value
      <4>4. CASE made[v] = "buffer"
        BY <4>2, <4>4 DEF Value
      <4>5. CASE made[v] = "get"
        BY <4>2, <4>5 DEF Value
      <4>6. made[v] \in Makes
        <5>1. v \in DOMAIN made  BY <1>a, <1>6 DEF Construct
        <5> QED  BY <5>1, VectorsOfTheWrapper DEF TypeOK
      <4> QED  BY <2>5, <4>3, <4>4, <4>5, <4>6 DEF Makes, Generated
    <3>3. \A k \in Finished' : k < v \/ k = v
      BY <1>a, <2>1
    <3> QED  BY <2>1, <2>3, <3>1, <3>2, <3>3
  <2> QED  BY <2>4, <2>5
<1>7. CASE Generate
  <2>1. PICK e \in todo : data' = [data EXCEPT ![v][e] = Value(v, e)] /\ todo' = todo \ {e}
    BY <1>7 DEF Generate
  <2>2. UNCHANGED fixed /\ v' = v /\ pc' = pc /\ pc = "generate" /\ v \in DOMAIN data
    BY <1>7, <1>a DEF Generate, TypeOK
  <2>3. \A k \in DOMAIN data : k # v => data'[k] = data[k]
    BY <2>1
  <2>4. \A f \in DOMAIN data[v] : data'[v][f] = IF f = e THEN Value(v, e) ELSE data[v][f]
    BY <2>1, <2>2
  <2>5. \A k \in Finished : k \in DOMAIN data /\ k # v
    BY <1>a, <2>2, VectorsOfTheWrapper DEF TypeOK
  <2>6. 1 .. LengthOf(v) \subseteq DOMAIN data[v]
    BY <1>a, <2>2, Lengths DEF TypeOK
  <2> QED  BY <2>1, <2>2, <2>3, <2>4, <2>5, <2>6
<1>8. CASE GenerateEnds
  BY <1>8, <1>a DEF GenerateEnds
<1>9. CASE Return
  BY <1>9, <1>a DEF Return
<1>10. CASE UNCHANGED vars
  BY <1>10 DEF vars
<1> QED  BY <1>1, <1>2, <1>3, <1>4, <1>5, <1>6, <1>7, <1>8, <1>9, <1>10 DEF Next, Over

LEMMA PlacesKept == IInv /\ [Next]_vars => PlacesSoFar'
<1> SUFFICES ASSUME IInv, [Next]_vars, ParallelTouch' PROVE PlacesSoFar'
  BY DEF PlacesSoFar
<1>b. UNCHANGED fixed
  BY DEF Next, Over, vars, MakeVector, Allocate, OutOfMemory, Touch, TouchEnds, Construct,
         Generate, GenerateEnds, Return
<1>c. ParallelTouch
  BY <1>b, Fixed
<1> USE <1>b, <1>c, Fixed DEF IInv, PlacesSoFar, InPlace, Finished
<1>a. v \in Nat /\ (pc # "wrapper" => v \in DOMAIN made /\ v \in DOMAIN placed)
  BY VectorsOfTheWrapper DEF TypeOK
<1>1. CASE MakeVector
  BY <1>1, <1>a DEF MakeVector
<1>2. CASE Allocate
  <2>1. made[v] # "buffer" => Touches(v)
    BY DEF Touches, allocator, ParallelTouch
  <2> QED  BY <1>2, <1>a, <2>1 DEF Allocate
<1>3. CASE OutOfMemory
  BY <1>3, <1>a DEF OutOfMemory
<1>4. CASE Touch
  <2>1. PICK e \in todo : placed' = [placed EXCEPT ![v][e] = "loop"] /\ todo' = todo \ {e}
    BY <1>4 DEF Touch
  <2>2. UNCHANGED fixed /\ v' = v /\ pc' = pc /\ pc = "touch" /\ v \in DOMAIN placed
    BY <1>4, <1>a DEF Touch
  <2>3. \A k \in DOMAIN placed : k # v => placed'[k] = placed[k]
    BY <2>1
  <2>4. \A f \in DOMAIN placed[v] : placed'[v][f] = IF f = e THEN "loop" ELSE placed[v][f]
    BY <2>1, <2>2
  <2>5. \A k \in Finished : k \in DOMAIN placed /\ k # v
    BY <1>a, <2>2, VectorsOfTheWrapper DEF TypeOK
  <2>6. 1 .. LengthOf(v) \subseteq DOMAIN placed[v]
    BY <1>a, <2>2, Lengths DEF TypeOK
  <2> QED  BY <2>1, <2>2, <2>3, <2>4, <2>5, <2>6
<1>5. CASE TouchEnds
  BY <1>5, <1>a DEF TouchEnds
<1>6. CASE Construct
  <2>1. UNCHANGED fixed /\ v' = v /\ pc = "construct" /\ pc' \in {"generate", "wrapper"}
    BY <1>6 DEF Construct
  <2>2. ASSUME NEW k \in DOMAIN placed, NEW e \in Positions, placed[k][e] = "loop"
        PROVE  placed'[k][e] = "loop"
    BY <1>6, <2>2 DEF Construct, Raw
  <2>3. \A k \in Finished' : k \in DOMAIN placed /\ (k \in Finished \/ k = v)
    BY <1>a, <2>1, VectorsOfTheWrapper DEF TypeOK
  <2>4. \A k : 1 .. LengthOf(k) \subseteq Positions
    BY Lengths DEF TypeOK
  <2> QED  BY <1>a, <2>1, <2>2, <2>3, <2>4
<1>7. CASE Generate
  BY <1>7, <1>a DEF Generate
<1>8. CASE GenerateEnds
  BY <1>8, <1>a DEF GenerateEnds
<1>9. CASE Return
  BY <1>9, <1>a DEF Return
<1>10. CASE UNCHANGED vars
  BY <1>10 DEF vars
<1> QED  BY <1>1, <1>2, <1>3, <1>4, <1>5, <1>6, <1>7, <1>8, <1>9, <1>10 DEF Next, Over

LEMMA Invariance == Spec => []IInv
<1>1. IInv /\ [Next]_vars => IInv'
  BY TypesKept, SequencesKept, PlacesKept DEF IInv
<1> QED  BY InitIInv, <1>1, PTL DEF Spec, Safety

-----------------------------------------------------------------------------
(* The variables keep their types (Allocation.TypeOK).                     *)
THEOREM TypeCorrect == Spec => []TypeOK
<1>1. IInv => TypeOK  BY DEF IInv
<1> QED  BY <1>1, Invariance, PTL

LEMMA MadeIsFinished == TypeOK => Made \subseteq Finished
BY VectorsOfTheWrapper DEF TypeOK, Made, Finished

(* Whatever the order of a parallel loop, generate_increment and the       *)
(* constructors leave the sequence asked for in every vector, and nothing  *)
(* that is done for later vectors disturbs it                              *)
(* (Allocation.VectorsHoldTheirSequence).                                  *)
THEOREM SequencesHold == Spec => []VectorsHoldTheirSequence
<1>1. IInv => VectorsHoldTheirSequence
  BY MadeIsFinished DEF IInv, SequencesSoFar, Holds, VectorsHoldTheirSequence
<1> QED  BY <1>1, Invariance, PTL

(* Under a parallel policy par_alloc's loop comes to every element before  *)
(* the single thread of the constructor (Allocation.FirstTouchIsParallel). *)
THEOREM LoopTouchesFirst == Spec => []FirstTouchIsParallel
<1>1. IInv => FirstTouchIsParallel
  BY MadeIsFinished DEF IInv, PlacesSoFar, ParallelTouch, InPlace, FirstTouchIsParallel
<1> QED  BY <1>1, Invariance, PTL
=============================================================================

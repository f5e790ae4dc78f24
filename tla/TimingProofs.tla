--------------------------- MODULE TimingProofs ----------------------------
(***************************************************************************)
(* What wrap_timing and the loop around it do right for any number of      *)
(* threads, cores, iterations and runs.                                    *)
(***************************************************************************)
EXTENDS Timing, FiniteSetTheorems, TLAPS

(* The times added so far are those of the iterations behind us, and the   *)
(* slot that is about to be read holds the current one's.                  *)
TimesSoFar ==
  /\ pc # "idle" => iter \in 1 .. iters
  /\ Len(total) = IF pc = "idle" THEN iters ELSE iter - 1
  /\ \A k \in 1 .. Len(total) : total[k] = <<run, k>>
  /\ pc = "add" => slot[thread] = <<run, iter>>

(* Only the thread inside for_each_core has left its mask, which is the    *)
(* one that will be given back.                                            *)
Pinned ==
  /\ ~InForEachCore => core = None
  /\ core = None => affinity = build.masks
  /\ core # None =>
       /\ saved = build.masks[thread]
       /\ \A t \in Threads \ {thread} : affinity[t] = build.masks[t]

(* LIKWID's regions follow the two walks of for_each_core.                 *)
OpenOn(c) ==
  \/ pc = "call"
  \/ pc = "begin" /\ c < core
  \/ pc = "end" /\ ~(c < core)

RegionsFollowTheWalk ==
  /\ InForEachCore => build.hw # "none"
  /\ build.hw = "LIKWID" =>
       \A c \in Cores : region[c] = IF c \in build.online /\ OpenOn(c) THEN 1 ELSE 0

IInv == TypeOK /\ TimesSoFar /\ Pinned /\ RegionsFollowTheWalk

-----------------------------------------------------------------------------
LEMMA CoresAreNumbers == Cores \subseteq Nat /\ None \notin Cores /\ Threads \intersect Cores = {}
BY TimingAssumption DEF Cores, None

LEMMA InitTypes == Init => TypeOK
<1> SUFFICES ASSUME Init PROVE TypeOK
  OBVIOUS
<1>1. left \in [warmups : 0 .. MaxWarmups, reps : 0 .. MaxReps]
  BY TimingAssumption DEF Init
<1>2. affinity \in [Threads -> Cores \union {Everywhere}]
  BY DEF Init, Builds
<1>3. core \in {None} \union 0 .. NumCores /\ saved \in Cores \union {Everywhere}
  BY DEF Init
<1>4. slot \in [Threads -> Nat \X Nat]
  BY DEF Init, NoTime
<1>5. region \in [Threads \union Cores -> Int] /\ ranges \in [Threads -> Int]
  BY DEF Init
<1>6. /\ iters \in 0 .. MaxIters /\ iter \in 0 .. iters
      /\ run \in Nat /\ count \in Nat /\ measured \subseteq Nat
      /\ total \in Seq(Nat \X Nat)
  BY TimingAssumption DEF Init
<1>7. measuring \in BOOLEAN
  BY Zenon DEF Init
<1> QED  BY <1>1, <1>2, <1>3, <1>4, <1>5, <1>6, <1>7 DEF Init, TypeOK

LEMMA InitIInv == Init => IInv
<1> SUFFICES ASSUME Init PROVE IInv
  OBVIOUS
<1>1. TimesSoFar
  BY DEF Init, TimesSoFar
<1>2. Pinned
  BY DEF Init, Pinned, InForEachCore
<1>3. RegionsFollowTheWalk
  BY DEF Init, RegionsFollowTheWalk, InForEachCore, OpenOn
<1> QED  BY InitTypes, <1>1, <1>2, <1>3 DEF IInv

-----------------------------------------------------------------------------
(* One lemma per part of the invariant, one step per action.               *)

LEMMA OneRunLess ==
  ASSUME NEW l \in [warmups : 0 .. MaxWarmups, reps : 0 .. MaxReps]
  PROVE  /\ l.warmups > 0 =>
              [l EXCEPT !.warmups = @ - 1] \in [warmups : 0 .. MaxWarmups, reps : 0 .. MaxReps]
         /\ l.reps > 0 =>
              [l EXCEPT !.reps = @ - 1] \in [warmups : 0 .. MaxWarmups, reps : 0 .. MaxReps]
BY TimingAssumption

LEMMA EnterTypes ==
  ASSUME TypeOK, Enter, iters' \in 1 .. MaxIters
  PROVE  /\ run' \in Nat /\ iters' \in 0 .. MaxIters /\ iter' \in 0 .. iters'
         /\ total' \in Seq(Nat \X Nat)
<1>1. run \in Nat  BY DEF TypeOK
<1>2. total' = <<>> /\ iter' = 1 /\ run' = run + 1  BY DEF Enter
<1> QED  BY <1>1, <1>2, TimingAssumption

LEMMA StoreTypes == ASSUME TypeOK, StoreSlot PROVE TypeOK'
<1>1. iter \in Nat
  BY TimingAssumption DEF TypeOK
<1>2. <<run, iter>> \in Nat \X Nat
  BY <1>1 DEF TypeOK
<1>3. slot' \in [Threads -> Nat \X Nat]
  <2>1. slot \in [Threads -> Nat \X Nat]  BY DEF TypeOK
  <2>2. slot' = [slot EXCEPT ![thread] = <<run, iter>>]  BY DEF StoreSlot
  <2> QED  BY <1>2, <2>1, <2>2
<1>4. /\ pc' = "add"
      /\ UNCHANGED <<build, driver, iter, thread, pinning, marks, total>>
  BY DEF StoreSlot, To
<1> QED  BY <1>3, <1>4 DEF TypeOK, driver, pinning, marks

LEMMA TypesKept == ASSUME TypeOK, [Next]_vars PROVE TypeOK'
<1> USE DEF TypeOK, driver, pinning, marks, To, InForEachCore
<1>1. CASE WarmUp
  <2>1. left' \in [warmups : 0 .. MaxWarmups, reps : 0 .. MaxReps]
    BY <1>1, OneRunLess DEF WarmUp
  <2>2. run' \in Nat /\ iters' \in 0 .. MaxIters /\ iter' \in 0 .. iters' /\ total' \in Seq(Nat \X Nat)
    BY <1>1, EnterTypes DEF WarmUp
  <2>3. measuring' \in BOOLEAN
    BY <1>1, Zenon DEF WarmUp
  <2> QED  BY <1>1, <2>1, <2>2, <2>3 DEF WarmUp, Enter
<1>2. CASE Measure
  <2>1. left' \in [warmups : 0 .. MaxWarmups, reps : 0 .. MaxReps]
    BY <1>2, OneRunLess DEF Measure
  <2>2. run' \in Nat /\ iters' \in 0 .. MaxIters /\ iter' \in 0 .. iters' /\ total' \in Seq(Nat \X Nat)
    BY <1>2, EnterTypes DEF Measure
  <2>3. measuring' \in BOOLEAN
    BY <1>2, Zenon DEF Measure
  <2> QED  BY <1>2, <2>1, <2>2, <2>3 DEF Measure, Enter
<1>3. CASE ResetSlot
  BY <1>3 DEF ResetSlot, NoTime
<1>4. CASE PushRange
  <2>3. pc' \in {"call", "begin"}
    BY <1>4 DEF PushRange
  <2>1. CASE build.tagging
    <3>1. count' \in Nat /\ ranges' \in [Threads -> Int]
      BY <1>4, <2>1 DEF PushRange
    <3>2. measured' = measured \/ measured' = measured \union {count}
      BY <1>4, <2>1, Zenon DEF PushRange
    <3> QED  BY <3>1, <3>2, <2>3, <1>4 DEF PushRange
  <2>2. CASE ~build.tagging
    BY <1>4, <2>2, <2>3 DEF PushRange
  <2> QED  BY <2>1, <2>2
<1>5. CASE SaveAffinity
  <2>1. saved' \in Cores \union {Everywhere}
    BY <1>5 DEF SaveAffinity
  <2>2. core' \in {None} \union 0 .. NumCores
    BY <1>5, TimingAssumption DEF SaveAffinity
  <2> QED  BY <1>5, <2>1, <2>2 DEF SaveAffinity
<1>6. CASE VisitCore
  <2>1. core \in Nat /\ core' \in 0 .. NumCores
    <3>1. core \in 0 .. NumCores - 1 /\ core' = core + 1
      BY <1>6 DEF VisitCore, Cores
    <3> QED  BY ONLY <3>1, TimingAssumption
  <2>2. affinity' \in [Threads -> Cores \union {Everywhere}]
    BY <1>6 DEF VisitCore
  <2>3. region' \in [Threads \union Cores -> Int]
    <3>1. region \in [Threads \union Cores -> Int]
      OBVIOUS
    <3>2. region' = region \/ region' = [region EXCEPT ![Key] = @ + 1]
                           \/ region' = [region EXCEPT ![Key] = @ - 1]
      BY <1>6 DEF VisitCore
    <3> QED  BY ONLY <3>1, <3>2
  <2> QED  BY <1>6, <2>1, <2>2, <2>3 DEF VisitCore
<1>7. CASE RestoreAffinity
  BY <1>7 DEF RestoreAffinity
<1>8. CASE Call
  BY <1>8 DEF Call
<1>9. CASE PopRange
  <2>1. ranges' \in [Threads -> Int]
    BY <1>9 DEF PopRange
  <2> QED  BY <1>9, <2>1 DEF PopRange
<1>10. CASE StoreSlot
  BY <1>10, StoreTypes
<1>11. CASE AddTime
  <2>1. iter' \in 0 .. iters'
    BY <1>11, TimingAssumption DEF AddTime
  <2> QED  BY <1>11, <2>1 DEF AddTime
<1>12. CASE Done \/ UNCHANGED vars
  BY <1>12 DEF Done, vars
<1> QED
  BY <1>1, <1>2, <1>3, <1>4, <1>5, <1>6, <1>7, <1>8, <1>9, <1>10, <1>11, <1>12 DEF Next

LEMMA TimesKept == ASSUME IInv, [Next]_vars PROVE TimesSoFar'
<1> USE DEF TimesSoFar, To, driver, InForEachCore
<1>1. CASE WarmUp \/ Measure
  <2>1. Enter /\ iters' \in 1 .. MaxIters
    BY <1>1 DEF WarmUp, Measure, IInv, TypeOK
  <2> QED  BY <2>1, TimingAssumption DEF Enter
<1>2. CASE ResetSlot
  BY <1>2 DEF ResetSlot, IInv
<1>3. CASE PushRange
  BY <1>3 DEF PushRange, IInv
<1>4. CASE SaveAffinity \/ VisitCore
  BY <1>4 DEF SaveAffinity, VisitCore, IInv
<1>5. CASE RestoreAffinity
  BY <1>5 DEF RestoreAffinity, IInv
<1>6. CASE Call
  BY <1>6 DEF Call, IInv
<1>7. CASE PopRange
  BY <1>7 DEF PopRange, IInv
<1>8. CASE StoreSlot
  <2>1. slot'[thread'] = <<run', iter'>>
    BY <1>8 DEF StoreSlot, IInv, TypeOK
  <2> QED  BY <1>8, <2>1 DEF StoreSlot, IInv
<1>9. CASE AddTime
  <2>1. total \in Seq(Nat \X Nat) /\ iters \in Nat /\ iter \in 1 .. iters /\ Len(total) = iter - 1
    BY <1>9, TimingAssumption DEF AddTime, IInv, TypeOK
  <2>2. total' = Append(total, <<run, iter>>) /\ iters' = iters /\ run' = run
    BY <1>9 DEF AddTime, IInv
  <2>3. <<run, iter>> \in Nat \X Nat
    BY <2>1 DEF IInv, TypeOK
  <2>4. Len(total') = iter /\ \A k \in 1 .. Len(total') : total'[k] = <<run', k>>
    BY <2>1, <2>2, <2>3 DEF IInv
  <2> QED  BY <1>9, <2>1, <2>2, <2>4 DEF AddTime
<1>10. CASE Done \/ UNCHANGED vars
  BY <1>10 DEF Done, vars, IInv
<1> QED
  BY <1>1, <1>2, <1>3, <1>4, <1>5, <1>6, <1>7, <1>8, <1>9, <1>10 DEF Next

LEMMA PinnedKept == ASSUME IInv, [Next]_vars PROVE Pinned'
<1> USE DEF Pinned, To, driver, pinning, marks, InForEachCore
<1>1. CASE WarmUp \/ Measure
  BY <1>1 DEF WarmUp, Measure, Enter, IInv
<1>2. CASE ResetSlot \/ PushRange \/ Call \/ PopRange \/ StoreSlot \/ AddTime
  BY <1>2 DEF ResetSlot, PushRange, Call, PopRange, StoreSlot, AddTime, IInv
<1>3. CASE SaveAffinity
  BY <1>3 DEF SaveAffinity, IInv, TypeOK, None, Builds
<1>4. CASE VisitCore
  <2>1. core # None /\ core' # None
    BY <1>4, CoresAreNumbers DEF VisitCore, None
  <2>2. \A t \in Threads \ {thread} : affinity'[t] = affinity[t]
    BY <1>4 DEF VisitCore, IInv, TypeOK
  <2> QED  BY <1>4, <2>1, <2>2 DEF VisitCore, IInv
<1>5. CASE RestoreAffinity
  <2>1. core # None
    BY <1>5, TimingAssumption DEF RestoreAffinity, None
  <2>2. affinity' = build.masks
    BY <1>5, <2>1 DEF RestoreAffinity, IInv, TypeOK, Builds
  <2> QED  BY <1>5, <2>2 DEF RestoreAffinity
<1>6. CASE Done \/ UNCHANGED vars
  BY <1>6 DEF Done, vars, IInv
<1> QED  BY <1>1, <1>2, <1>3, <1>4, <1>5, <1>6 DEF Next

LEMMA RegionsKept == ASSUME IInv, [Next]_vars PROVE RegionsFollowTheWalk'
<1> USE DEF RegionsFollowTheWalk, OpenOn, To, driver, pinning, marks, InForEachCore
<1>1. CASE WarmUp \/ Measure
  BY <1>1 DEF WarmUp, Measure, Enter, IInv
<1>2. CASE ResetSlot \/ PopRange \/ StoreSlot \/ AddTime
  BY <1>2 DEF ResetSlot, PopRange, StoreSlot, AddTime, IInv
<1>3. CASE PushRange \/ Call
  <2>1. core = None
    BY <1>3 DEF PushRange, Call, IInv, Pinned
  <2>2. \A c \in Cores : ~(c < core)
    BY <2>1, CoresAreNumbers DEF None
  <2> QED  BY <1>3, <2>1, <2>2 DEF PushRange, Call, IInv
<1>4. CASE SaveAffinity
  <2>1. \A c \in Cores : ~(c < core) /\ ~(c < core')
    BY <1>4, CoresAreNumbers DEF SaveAffinity, None
  <2> QED  BY <1>4, <2>1 DEF SaveAffinity, IInv
<1>5. CASE VisitCore
  <2> SUFFICES ASSUME build.hw = "LIKWID", NEW c \in Cores
               PROVE  region'[c] = IF c \in build.online /\ OpenOn(c)' THEN 1 ELSE 0
    BY <1>5 DEF VisitCore, IInv
  <2>1. c \in Nat /\ core \in Cores /\ core \in Nat /\ core' = core + 1 /\ pc' = pc /\ build' = build
    BY <1>5, CoresAreNumbers DEF VisitCore
  <2>2. region[c] = IF c \in build.online /\ OpenOn(c) THEN 1 ELSE 0
    BY DEF IInv
  <2>3. CASE c # core
    <3>1. OpenOn(c)' <=> OpenOn(c)
      BY <2>1, <2>3
    <3>2. region'[c] = region[c]
      BY <1>5, <2>1, <2>3 DEF VisitCore, Key, IInv, TypeOK
    <3> QED  BY <2>2, <3>1, <3>2
  <2>4. CASE c = core
    <3>1. pc \in {"begin", "end"} /\ (OpenOn(c) <=> pc = "end") /\ (OpenOn(c)' <=> pc = "begin")
      BY <1>5, <2>1, <2>4 DEF VisitCore
    <3>2. c \in build.online =>
            region'[c] = IF pc = "begin" THEN region[c] + 1 ELSE region[c] - 1
      BY <1>5, <2>1, <2>4 DEF VisitCore, Key, IInv, TypeOK
    <3>3. c \notin build.online => region'[c] = region[c]
      BY <1>5, <2>1, <2>4 DEF VisitCore
    <3> QED  BY <2>2, <3>1, <3>2, <3>3
  <2> QED  BY <2>3, <2>4
<1>6. CASE RestoreAffinity
  <2>1. \A c \in Cores : c < core
    BY <1>6, TimingAssumption DEF RestoreAffinity, Cores
  <2> QED  BY <1>6, <2>1 DEF RestoreAffinity, IInv
<1>7. CASE Done \/ UNCHANGED vars
  BY <1>7 DEF Done, vars, IInv
<1> QED  BY <1>1, <1>2, <1>3, <1>4, <1>5, <1>6, <1>7 DEF Next

LEMMA AlwaysIInv == Safety => []IInv
<1>1. IInv /\ [Next]_vars => IInv'
  <2> SUFFICES ASSUME IInv, [Next]_vars PROVE IInv'
    OBVIOUS
  <2>1. TypeOK'  BY TypesKept DEF IInv
  <2> QED  BY <2>1, TimesKept, PinnedKept, RegionsKept DEF IInv
<1> QED  BY InitIInv, <1>1, PTL DEF Safety

-----------------------------------------------------------------------------
(* Every variable keeps its type.                                          *)
THEOREM TimingTypes == Safety => []TypeOK
<1>1. IInv => TypeOK  BY DEF IInv
<1> QED  BY <1>1, AlwaysIInv, PTL

(* Wherever HPX lets F come back, total_stl_ns (sort_utils.h:37) gets the  *)
(* time of every iteration of this run once, and no other.                 *)
THEOREM TimesAreAddedOnce == Safety => []EveryIterationAddedOnce
<1>1. IInv => EveryIterationAddedOnce
  <2> SUFFICES ASSUME IInv PROVE EveryIterationAddedOnce
    OBVIOUS
  <2>1. total \in Seq(Nat \X Nat) /\ \A k \in 1 .. Len(total) : total[k] = <<run, k>>
    BY DEF IInv, TypeOK, TimesSoFar
  <2>2. total = [k \in 1 .. Len(total) |-> <<run, k>>]
    BY <2>1
  <2> QED  BY <2>2 DEF IInv, TimesSoFar, EveryIterationAddedOnce
<1> QED  BY <1>1, AlwaysIInv, PTL

(* for_each_core (timing.h:27-53) gives the thread its mask back, and the  *)
(* mask of no other thread is ever touched.                                *)
THEOREM AffinityComesBack == Safety => []AffinityRestored
<1>1. IInv => AffinityRestored  BY DEF IInv, Pinned, AffinityRestored
<1> QED  BY <1>1, AlwaysIInv, PTL

(* hw_counters_begin (timing.h:55-73) opens one LIKWID region on every     *)
(* core that is online before F is called.                                 *)
THEOREM RegionsCoverTheCall == Safety => []CountersCoverAlgorithm
<1>1. IInv => CountersCoverAlgorithm
  BY DEF IInv, RegionsFollowTheWalk, OpenOn, CountersCoverAlgorithm
<1> QED  BY <1>1, AlwaysIInv, PTL

-----------------------------------------------------------------------------
(* The tags of the measured iterations: those of the repetitions that are  *)
(* behind us, and of the one under way those it has pushed.                *)
Earlier == requested.n * (requested.reps - left.reps - 1)
Current == IF pc \in {"reset", "push"} THEN iter - 1 ELSE iter
Pushed == Earlier + Current

TagsSoFar ==
  /\ ~measuring => left.reps = requested.reps /\ measured = {}
  /\ measuring => left.warmups = 0 /\ iters = requested.n /\ left.reps < requested.reps
  /\ pc = "idle" => iter = iters
  /\ build.tagging /\ measuring => measured = count - Pushed .. count - 1

LEMMA Products ==
  ASSUME NEW n \in Nat, NEW r \in Int
  PROVE  n * (r - 1) \in Int /\ n * (r - 1) + n = n * r /\ n * 0 = 0
OBVIOUS

LEMMA NaturalProducts == ASSUME NEW n \in Nat, NEW r \in Nat PROVE n * r \in Nat
OBVIOUS

LEMMA NoTags == ASSUME NEW n \in Nat PROVE n - 0 .. n - 1 = {}
OBVIOUS

LEMMA OneTagMore ==
  ASSUME NEW n \in Nat, NEW k \in Nat
  PROVE  (n - k .. n - 1) \union {n} = n + 1 - (k + 1) .. n + 1 - 1
OBVIOUS

LEMMA Numbers ==
  ASSUME TypeOK
  PROVE  /\ requested.n \in Nat /\ requested.reps \in Nat /\ left.reps \in Nat
         /\ iter \in Nat /\ count \in Nat /\ iters \in Nat
BY TimingAssumption DEF TypeOK

LEMMA EarlierIsANumber == ASSUME TypeOK PROVE Earlier \in Int
<1>1. requested.n \in Nat /\ requested.reps - left.reps \in Int
  BY Numbers
<1> QED  BY <1>1, Products DEF Earlier

LEMMA PushedIsANumber ==
  ASSUME IInv, TagsSoFar, measuring PROVE Pushed \in Nat
<1>1. requested.reps - left.reps - 1 \in Nat
  <2>1. left.reps < requested.reps  BY DEF TagsSoFar
  <2> QED  BY <2>1, Numbers DEF IInv
<1>2. Earlier \in Nat
  <2>1. requested.n \in Nat  BY Numbers DEF IInv
  <2> QED  BY <2>1, <1>1, NaturalProducts DEF Earlier
<1>3. Current \in Nat
  <2>1. iter \in Nat  BY Numbers DEF IInv
  <2>2. pc \in {"reset", "push"} => iter >= 1  BY DEF IInv, TimesSoFar
  <2> QED  BY <2>1, <2>2 DEF Current
<1> QED  BY <1>2, <1>3 DEF Pushed

LEMMA InitTags == Init => TagsSoFar
BY DEF Init, TagsSoFar

(* What keeps the repetitions and the place in the iteration keeps Pushed. *)
LEMMA SamePushed ==
  ASSUME requested' = requested, left' = left, Current' = Current
  PROVE  Pushed' = Pushed
BY DEF Pushed, Earlier

(* A repetition that is over has pushed a tag for every iteration.         *)
LEMMA NextRepetition ==
  ASSUME IInv, TagsSoFar, Measure
  PROVE  /\ measuring => Pushed' = Pushed
         /\ ~measuring => Pushed' = 0
<1> DEFINE r == requested.reps - left.reps
<1>1. requested.n \in Nat /\ r \in Int
  BY Numbers DEF IInv
<1>2. Earlier = requested.n * (r - 1)
  BY DEF Earlier
<1>3. Pushed' = requested.n * r
  <2>1. left'.reps = left.reps - 1
    BY DEF Measure, IInv, TypeOK
  <2>2. requested' = requested /\ pc' = "reset" /\ iter' = 1
    BY DEF Measure, Enter
  <2>3. requested.reps - left'.reps - 1 = r
    BY <2>1, Numbers DEF IInv
  <2>4. Earlier' = requested.n * r
    BY <2>2, <2>3 DEF Earlier
  <2>5. Current' = 0
    BY <2>2 DEF Current
  <2>6. requested.n * r \in Int
    BY <1>1
  <2> QED  BY <2>4, <2>5, <2>6 DEF Pushed
<1>4. measuring => Pushed' = Pushed
  <2> SUFFICES ASSUME measuring PROVE Pushed' = Pushed
    OBVIOUS
  <2>1. pc = "idle" /\ iter = requested.n
    BY DEF Measure, TagsSoFar
  <2>2. Current = requested.n
    BY <2>1 DEF Current
  <2>3. Pushed = requested.n * (r - 1) + requested.n
    BY <2>2, <1>2 DEF Pushed
  <2>4. requested.n * (r - 1) + requested.n = requested.n * r
    BY <1>1, Products
  <2> QED  BY <1>3, <2>3, <2>4
<1>5. ~measuring => Pushed' = 0
  <2> SUFFICES ASSUME ~measuring PROVE Pushed' = 0
    OBVIOUS
  <2>1. r = 0
    BY Numbers DEF TagsSoFar, IInv
  <2>2. requested.n * 0 = 0
    BY <1>1, Products
  <2> QED  BY <1>3, <2>1, <2>2
<1> QED  BY <1>4, <1>5

(* The loop moves on, or ends, without a tag.                              *)
LEMMA NextIteration ==
  ASSUME IInv, AddTime
  PROVE  Pushed' = Pushed /\ (pc' = "idle" => iter' = iters')
<1>1. /\ pc = "add" /\ requested' = requested /\ left' = left /\ iters' = iters
      /\ pc' = IF iter < iters THEN "reset" ELSE "idle"
      /\ iter' = IF iter < iters THEN iter + 1 ELSE iter
  BY DEF AddTime, To, driver
<1>2. iter <= iters /\ iter \in Nat /\ iters \in Nat
  BY <1>1, Numbers DEF IInv, TimesSoFar
<1>3. Current = iter
  BY <1>1 DEF Current
<1>4. CASE iter < iters
  <2>1. pc' = "reset" /\ iter' = iter + 1
    BY <1>1, <1>4
  <2>2. Current' = iter
    BY <1>2, <2>1 DEF Current
  <2> QED  BY <1>1, <1>3, <2>1, <2>2, SamePushed
<1>5. CASE ~(iter < iters)
  <2>1. pc' = "idle" /\ iter' = iter /\ iter = iters
    BY <1>1, <1>2, <1>5
  <2>2. Current' = iter
    BY <2>1 DEF Current
  <2> QED  BY <1>1, <1>3, <2>1, <2>2, SamePushed
<1> QED  BY <1>4, <1>5

LEMMA TagsKept == ASSUME IInv, TagsSoFar, [Next]_vars PROVE TagsSoFar'
<1> USE DEF TagsSoFar, To, driver, marks, pinning
<1>1. CASE WarmUp
  <2>1. measuring' = FALSE /\ left'.reps = left.reps /\ pc' = "reset" /\ requested' = requested
        /\ measured' = measured
    BY <1>1 DEF WarmUp, Enter, IInv, TypeOK
  <2>2. ~measuring
    BY <1>1 DEF WarmUp
  <2> QED  BY <2>1, <2>2
<1>2. CASE Measure
  <2>1. /\ measuring' = TRUE /\ left'.reps = left.reps - 1 /\ left'.warmups = 0
        /\ pc' = "reset" /\ iters' = requested.n /\ requested' = requested
    BY <1>2 DEF Measure, Enter, IInv, TypeOK
  <2>2. measured' = measured /\ count' = count /\ build' = build
    BY <1>2 DEF Measure, Enter
  <2>3. left'.reps < requested'.reps
    <3>1. left.reps <= requested.reps
      BY Numbers DEF IInv
    <3> QED  BY <2>1, <3>1, Numbers DEF IInv
  <2>4. build'.tagging => measured' = count' - Pushed' .. count' - 1
    <3>1. CASE measuring
      BY <2>2, <3>1, <1>2, NextRepetition
    <3>2. CASE ~measuring
      <4>1. measured' = {} /\ Pushed' = 0 /\ count' = count
        BY <2>2, <3>2, <1>2, NextRepetition
      <4>2. count - 0 .. count - 1 = {}
        BY Numbers, NoTags DEF IInv
      <4> QED  BY <4>1, <4>2
    <3> QED  BY <3>1, <3>2
  <2> QED  BY <2>1, <2>3, <2>4
<1>3. CASE PushRange
  <2>1. /\ build' = build /\ left' = left /\ requested' = requested /\ measuring' = measuring
        /\ iters' = iters /\ iter' = iter /\ pc = "push" /\ pc' \in {"call", "begin"}
    BY <1>3 DEF PushRange
  <2>2. CASE measuring /\ build.tagging
    <3>1. count' = count + 1 /\ measured' = measured \union {count}
      BY <1>3, <2>2 DEF PushRange
    <3>2. Pushed' = Pushed + 1
      <4>1. Current' = Current + 1
        BY <2>1, Numbers DEF Current, IInv
      <4>2. Earlier' = Earlier
        BY <2>1 DEF Earlier
      <4>3. Earlier \in Int /\ Current \in Int
        BY EarlierIsANumber, Numbers DEF Current, IInv
      <4> QED  BY <4>1, <4>2, <4>3 DEF Pushed
    <3>3. measured' = count' - Pushed' .. count' - 1
      <4>1. Pushed \in Nat /\ count \in Nat
        BY <2>2, PushedIsANumber, Numbers DEF IInv
      <4>2. measured = count - Pushed .. count - 1
        BY <2>2
      <4> QED  BY <3>1, <3>2, <4>1, <4>2, OneTagMore
    <3> QED  BY <2>1, <2>2, <3>3
  <2>3. CASE ~measuring \/ ~build.tagging
    <3>1. measuring \/ measured' = measured
      BY <1>3, <2>3 DEF PushRange
    <3> QED  BY <2>1, <2>3, <3>1
  <2> QED  BY <2>2, <2>3
<1>4. CASE ResetSlot \/ RestoreAffinity \/ Call \/ PopRange \/ StoreSlot
  <2>1. /\ build' = build /\ left' = left /\ requested' = requested /\ measuring' = measuring
        /\ iters' = iters /\ iter' = iter /\ count' = count /\ measured' = measured
    BY <1>4 DEF ResetSlot, RestoreAffinity, Call, PopRange, StoreSlot
  <2>2. pc' # "idle" /\ (pc' \in {"reset", "push"} <=> pc \in {"reset", "push"})
    BY <1>4 DEF ResetSlot, RestoreAffinity, InForEachCore, Call, PopRange, StoreSlot
  <2>3. Pushed' = Pushed
    BY <2>1, <2>2, SamePushed DEF Current
  <2> QED  BY <2>1, <2>2, <2>3
<1>5. CASE SaveAffinity \/ VisitCore
  <2>1. /\ build' = build /\ left' = left /\ requested' = requested /\ measuring' = measuring
        /\ iters' = iters /\ iter' = iter /\ pc' = pc /\ count' = count /\ measured' = measured
    BY <1>5 DEF SaveAffinity, VisitCore
  <2>2. Pushed' = Pushed
    BY <2>1, SamePushed DEF Current
  <2> QED  BY <2>1, <2>2
<1>6. CASE AddTime
  <2>1. /\ build' = build /\ left' = left /\ requested' = requested /\ measuring' = measuring
        /\ iters' = iters /\ count' = count /\ measured' = measured
    BY <1>6 DEF AddTime
  <2> QED  BY <1>6, <2>1, NextIteration
<1>7. CASE Done \/ UNCHANGED vars
  <2>1. /\ build' = build /\ left' = left /\ requested' = requested /\ measuring' = measuring
        /\ iters' = iters /\ iter' = iter /\ pc' = pc /\ count' = count /\ measured' = measured
    BY <1>7 DEF Done, vars
  <2>2. Pushed' = Pushed
    BY <2>1, SamePushed DEF Current
  <2> QED  BY <2>1, <2>2
<1> QED  BY <1>1, <1>2, <1>3, <1>4, <1>5, <1>6, <1>7 DEF Next

(* The measured iterations have the last tags that profiler_range_push     *)
(* gave out (profiler_markers.h:42-61), whatever ran before them.          *)
THEOREM MeasuredTagsAreLast == Safety => []MeasuredTagsComeLast
<1>1. IInv /\ TagsSoFar => MeasuredTagsComeLast
  <2> SUFFICES ASSUME IInv, TagsSoFar, Finished, build.tagging
               PROVE  measured = count - requested.n * requested.reps .. count - 1
    BY DEF MeasuredTagsComeLast
  <2>1. measuring /\ iter = requested.n /\ left.reps = 0 /\ pc = "idle"
    BY TimingAssumption DEF Finished, TagsSoFar, IInv, TypeOK
  <2>2. requested.n \in Nat /\ requested.reps \in Int
    BY Numbers DEF IInv
  <2>3. Pushed = requested.n * requested.reps
    <3>1. requested.reps - left.reps - 1 = requested.reps - 1
      BY <2>1, <2>2
    <3>2. Earlier = requested.n * (requested.reps - 1) /\ Current = requested.n
      BY <2>1, <3>1 DEF Earlier, Current
    <3> QED  BY <2>2, <3>2, Products DEF Pushed
  <2> QED  BY <2>1, <2>3 DEF TagsSoFar
<1> QED  BY <1>1, AlwaysIInv, InitTags, TagsKept, PTL DEF Safety

-----------------------------------------------------------------------------
(* What a build whose wrapper keeps its thread has open: one profiler      *)
(* range around the counters and F, and of PAPI's regions, which belong to *)
(* the thread, one for each core for_each_core has come by.                *)
Visited == {c \in build.online : c < core}

OwnRegions ==
  CASE pc = "begin" -> Cardinality(Visited)
    [] pc = "call"  -> Cardinality(build.online)
    [] pc = "end"   -> Cardinality(build.online) - Cardinality(Visited)
    [] OTHER        -> 0

RangesBalance ==
  ~build.hpx => \A t \in Threads :
    ranges[t] = IF build.tagging /\ t = thread /\ pc \in {"begin", "call", "end", "pop"}
                THEN 1 ELSE 0

RegionsBalance ==
  /\ build.hw # "LIKWID" => \A c \in Cores : region[c] = 0
  /\ build.hw # "PAPI" => \A t \in Threads : region[t] = 0
  /\ build.hw = "PAPI" /\ ~build.hpx =>
       \A t \in Threads : region[t] = IF t = thread THEN OwnRegions ELSE 0

LEMMA OnlineIsFinite ==
  ASSUME TypeOK
  PROVE  /\ build.online \subseteq Cores /\ IsFiniteSet(build.online) /\ IsFiniteSet(Visited)
         /\ Cardinality(build.online) \in Nat /\ Cardinality(Visited) \in Nat
<1>1. build.online \subseteq Cores
  BY DEF TypeOK, Builds
<1>2. IsFiniteSet(Cores)
  BY FS_Interval, TimingAssumption DEF Cores
<1>3. IsFiniteSet(build.online)
  BY <1>1, <1>2, FS_Subset
<1>4. IsFiniteSet(Visited)
  BY <1>3, FS_Subset DEF Visited
<1> QED  BY <1>1, <1>3, <1>4, FS_CardinalityType

(* The set of the visited cores at the start, after a step and at the end. *)
LEMMA VisitedAtStart ==
  ASSUME TypeOK, core = None \/ core = 0
  PROVE  Visited = {} /\ Cardinality(Visited) = 0
<1>1. \A c \in Cores : ~(c < core)
  BY CoresAreNumbers, TimingAssumption DEF None, Cores
<1>2. Visited = {}
  BY <1>1, OnlineIsFinite DEF Visited
<1> QED  BY <1>2, FS_EmptySet

LEMMA VisitedAtEnd ==
  ASSUME TypeOK, core = NumCores
  PROVE  Visited = build.online
BY OnlineIsFinite, TimingAssumption DEF Visited, Cores

LEMMA VisitedGrows ==
  ASSUME TypeOK, VisitCore
  PROVE  Cardinality(Visited') = IF core \in build.online THEN Cardinality(Visited) + 1
                                 ELSE Cardinality(Visited)
<1>1. core \in Cores /\ core' = core + 1 /\ build' = build
  BY DEF VisitCore
<1>2. Visited' = IF core \in build.online THEN Visited \union {core} ELSE Visited
  <2>1. build.online \subseteq Nat /\ core \in Nat
    BY <1>1, OnlineIsFinite, CoresAreNumbers
  <2>2. Visited' = {c \in build.online : c < core + 1}
    BY <1>1 DEF Visited
  <2>3. \A c \in build.online : c < core + 1 <=> c < core \/ c = core
    BY <2>1
  <2> QED  BY <2>2, <2>3 DEF Visited
<1>3. core \notin Visited
  BY <1>1, CoresAreNumbers DEF Visited
<1> QED  BY <1>2, <1>3, OnlineIsFinite, FS_AddElement

LEMMA InitBalance == Init => RangesBalance /\ RegionsBalance
BY DEF Init, RangesBalance, RegionsBalance, OwnRegions

LEMMA RangesKept == ASSUME IInv, RangesBalance, [Next]_vars PROVE RangesBalance'
<1> USE DEF RangesBalance, To, driver, marks, pinning
<1>0. ranges \in [Threads -> Int]
  BY DEF IInv, TypeOK
<1>1. CASE WarmUp \/ Measure
  BY <1>1 DEF WarmUp, Measure, Enter
<1>2. CASE PushRange
  BY <1>0, <1>2 DEF PushRange
<1>3. CASE PopRange
  BY <1>0, <1>3 DEF PopRange
<1>4. CASE ResetSlot \/ StoreSlot \/ AddTime
  BY <1>4 DEF ResetSlot, StoreSlot, AddTime
<1>5. CASE Call
  BY <1>5 DEF Call
<1>6. CASE SaveAffinity \/ VisitCore \/ RestoreAffinity
  BY <1>6 DEF SaveAffinity, VisitCore, RestoreAffinity, InForEachCore
<1>7. CASE Done \/ UNCHANGED vars
  BY <1>7 DEF Done, vars
<1> QED  BY <1>1, <1>2, <1>3, <1>4, <1>5, <1>6, <1>7 DEF Next

LEMMA RegionsBalanceKept == ASSUME IInv, RegionsBalance, [Next]_vars PROVE RegionsBalance'
<1> USE DEF To, driver, marks, pinning, InForEachCore
<1>0. TypeOK
  BY DEF IInv
<1>1. CASE VisitCore
  <2>1. core \in Cores /\ pc' = pc /\ build' = build /\ thread' = thread /\ thread \in Threads
    BY <1>1, <1>0 DEF VisitCore, TypeOK
  <2>2. \A k \in Threads \union Cores :
          region'[k] = IF core \in build.online /\ k = Key
                       THEN IF pc = "begin" THEN region[k] + 1 ELSE region[k] - 1
                       ELSE region[k]
    BY <1>1, <1>0 DEF VisitCore, TypeOK
  <2>3. build.hw # "LIKWID" => \A c \in Cores : region'[c] = 0
    BY <2>1, <2>2, CoresAreNumbers DEF Key, RegionsBalance
  <2>4. build.hw # "PAPI" => \A t \in Threads : region'[t] = 0
    <3>1. build.hw \in {"none", "PAPI", "LIKWID"}
      BY <1>0 DEF TypeOK, Builds
    <3>2. build.hw # "none"
      BY <1>1 DEF VisitCore, IInv, RegionsFollowTheWalk
    <3> QED  BY <2>1, <2>2, <3>1, <3>2, CoresAreNumbers DEF Key, RegionsBalance
  <2>5. ASSUME build.hw = "PAPI", ~build.hpx, NEW t \in Threads
        PROVE  region'[t] = IF t = thread' THEN OwnRegions' ELSE 0
    <3>1. region[t] = IF t = thread THEN OwnRegions ELSE 0
      BY <2>5 DEF RegionsBalance
    <3>2. region'[t] = IF core \in build.online /\ t = thread
                       THEN IF pc = "begin" THEN region[t] + 1 ELSE region[t] - 1
                       ELSE region[t]
      BY <2>2, <2>5 DEF Key
    <3>3. CASE pc = "begin"
      <4>1. OwnRegions = Cardinality(Visited) /\ OwnRegions' = Cardinality(Visited')
        BY <2>1, <3>3 DEF OwnRegions
      <4> QED  BY <1>0, <1>1, <2>1, <3>1, <3>2, <3>3, <4>1, VisitedGrows, OnlineIsFinite
    <3>4. CASE pc = "end"
      <4>1. /\ OwnRegions = Cardinality(build.online) - Cardinality(Visited)
            /\ OwnRegions' = Cardinality(build.online) - Cardinality(Visited')
        BY <2>1, <3>4 DEF OwnRegions
      <4> QED  BY <1>0, <1>1, <2>1, <3>1, <3>2, <3>4, <4>1, VisitedGrows, OnlineIsFinite
    <3> QED  BY <1>1, <3>3, <3>4 DEF VisitCore
  <2> QED  BY <2>1, <2>3, <2>4, <2>5 DEF RegionsBalance
<1>2. ASSUME UNCHANGED <<build, region>>,
             ~build.hpx => thread' = thread /\ (build.hw = "PAPI" => OwnRegions' = OwnRegions)
      PROVE  RegionsBalance'
  BY <1>2 DEF RegionsBalance
<1>3. CASE WarmUp \/ Measure
  BY <1>2, <1>3 DEF WarmUp, Measure, Enter, OwnRegions
<1>4. CASE ResetSlot \/ PopRange \/ StoreSlot \/ AddTime
  BY <1>2, <1>4 DEF ResetSlot, PopRange, StoreSlot, AddTime, OwnRegions
<1>5. CASE PushRange
  <2>1. build' = build /\ core' = core /\ core = None
    BY <1>5 DEF PushRange, IInv, Pinned
  <2>2. Visited' = Visited /\ Cardinality(Visited) = 0
    BY <1>0, <2>1, VisitedAtStart DEF Visited
  <2>3. build.hw = "PAPI" => pc = "push" /\ pc' = "begin"
    BY <1>5 DEF PushRange
  <2> QED  BY <1>2, <1>5, <2>2, <2>3 DEF PushRange, OwnRegions
<1>6. CASE SaveAffinity
  <2>1. core = None /\ core' = 0 /\ build' = build /\ pc' = pc /\ TypeOK'
    BY <1>6, <1>0, TypesKept DEF SaveAffinity
  <2>2. Visited = {} /\ Visited' = {}
    <3>1. \A c \in Cores : ~(c < 0) /\ ~(c < core)
      BY <2>1, CoresAreNumbers DEF None
    <3> QED  BY <1>0, <2>1, <3>1, OnlineIsFinite DEF Visited
  <2> QED  BY <1>2, <1>6, <2>1, <2>2 DEF SaveAffinity, OwnRegions
<1>7. CASE RestoreAffinity
  <2>1. core = NumCores /\ Visited = build.online
    BY <1>0, <1>7, VisitedAtEnd DEF RestoreAffinity
  <2>2. CASE pc = "begin"
    BY <1>2, <1>7, <2>1, <2>2 DEF RestoreAffinity, OwnRegions
  <2>3. CASE pc = "end"
    <3>1. Cardinality(build.online) - Cardinality(Visited) = 0
      BY <1>0, <2>1, OnlineIsFinite
    <3> QED  BY <1>2, <1>7, <2>3, <3>1 DEF RestoreAffinity, OwnRegions
  <2> QED  BY <1>7, <2>2, <2>3 DEF RestoreAffinity
<1>8. CASE Call
  <2>1. build' = build /\ core' = core /\ core = None
    BY <1>8 DEF Call, IInv, Pinned
  <2>2. Visited' = Visited /\ Cardinality(Visited) = 0
    BY <1>0, <2>1, VisitedAtStart DEF Visited
  <2>3. build.hw = "PAPI" => pc = "call" /\ pc' = "end"
    BY <1>8 DEF Call
  <2>4. build.hw = "PAPI" => OwnRegions' = OwnRegions
    BY <1>0, <2>1, <2>2, <2>3, OnlineIsFinite DEF OwnRegions
  <2> QED  BY <1>2, <1>8, <2>4 DEF Call
<1>9. CASE Done \/ UNCHANGED vars
  BY <1>2, <1>9 DEF Done, vars, OwnRegions, Visited
<1> QED  BY <1>1, <1>3, <1>4, <1>5, <1>6, <1>7, <1>8, <1>9 DEF Next

(* Whatever wrap_timing (timing.h:149-191) opens around F it closes.       *)
THEOREM BracketsAreClosed == Safety => []BracketsClosed
<1>1. IInv /\ RangesBalance /\ RegionsBalance => BracketsClosed
  <2> SUFFICES ASSUME IInv, RangesBalance, RegionsBalance,
                      pc \in {"idle", "reset", "store", "add"}
               PROVE  /\ build.hw = "LIKWID" \/ ~build.hpx => \A k \in DOMAIN region : region[k] = 0
                      /\ ~build.hpx => \A t \in Threads : ranges[t] = 0
    BY DEF BracketsClosed
  <2>1. DOMAIN region = Threads \union Cores /\ build.hw \in {"none", "PAPI", "LIKWID"}
    BY DEF IInv, TypeOK, Builds
  <2>2. build.hw = "LIKWID" => \A c \in Cores : region[c] = 0
    BY DEF IInv, RegionsFollowTheWalk, OpenOn
  <2>3. OwnRegions = 0
    BY DEF OwnRegions
  <2>4. build.hw = "LIKWID" \/ ~build.hpx => \A k \in Threads \union Cores : region[k] = 0
    BY <2>1, <2>2, <2>3 DEF RegionsBalance
  <2>5. ~build.hpx => \A t \in Threads : ranges[t] = 0
    BY DEF RangesBalance
  <2> QED  BY <2>1, <2>4, <2>5
<1> QED
  BY <1>1, AlwaysIInv, InitBalance, RangesKept, RegionsBalanceKept, PTL DEF Safety
=============================================================================

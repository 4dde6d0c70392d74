------------------------- MODULE SpawnSpammerProofs -------------------------
(***************************************************************************)
(* Proofs about SpawnSpammer for any number of keys and any capacity of    *)
(* the semaphore.                                                          *)
(***************************************************************************)
EXTENDS SpawnSpammer, FiniteSetTheorems, TLAPS

-----------------------------------------------------------------------------
(* Counting.                                                               *)

(* The keys whose goroutine is at one of the labels L.                     *)
AtIn(a, L) == {k \in Keys : a[k] \in L}

Busy == {"query", "append", "release"}
Started == Busy \cup {"return"}

LEMMA AtInFinite ==
  ASSUME NEW a, NEW L
  PROVE  IsFiniteSet(AtIn(a, L)) /\ Cardinality(AtIn(a, L)) \in Nat
BY SpawnAssumption, FS_Subset, FS_CardinalityType DEF AtIn

(* One goroutine that comes to the labels L raises their count by one.     *)
LEMMA Enters ==
  ASSUME NEW a, NEW L, NEW b, NEW k \in Keys,
         \A l \in Keys : l # k => b[l] = a[l], a[k] \notin L, b[k] \in L
  PROVE  Cardinality(AtIn(b, L)) = Cardinality(AtIn(a, L)) + 1
<1>1. AtIn(b, L) = AtIn(a, L) \cup {k}
  BY DEF AtIn
<1>2. k \notin AtIn(a, L)
  BY DEF AtIn
<1> QED
  BY <1>1, <1>2, AtInFinite, FS_AddElement

(* One that leaves them lowers it by one.                                  *)
LEMMA Leaves ==
  ASSUME NEW a, NEW L, NEW b, NEW k \in Keys,
         \A l \in Keys : l # k => b[l] = a[l], a[k] \in L, b[k] \notin L
  PROVE  Cardinality(AtIn(b, L)) = Cardinality(AtIn(a, L)) - 1
<1>1. Cardinality(AtIn(a, L)) = Cardinality(AtIn(b, L)) + 1
  BY Enters
<1> QED
  BY <1>1, AtInFinite

(* One that moves among them, or outside, leaves it as it is.              *)
LEMMA Stays ==
  ASSUME NEW a, NEW L, NEW b, NEW k \in Keys,
         \A l \in Keys : l # k => b[l] = a[l], a[k] \in L <=> b[k] \in L
  PROVE  Cardinality(AtIn(b, L)) = Cardinality(AtIn(a, L))
<1>1. AtIn(b, L) = AtIn(a, L)
  BY DEF AtIn
<1> QED
  BY <1>1

-----------------------------------------------------------------------------
(* The invariant.                                                          *)

Labels == {"none", "query", "append", "release", "return", "done"}

(* The WaitGroup counts the goroutines between go and wg.Done(), because   *)
(* the main loop, and not the goroutine, adds to it.                       *)
SpawnInv ==
  /\ at \in [Keys -> Labels]
  /\ main \in {"loop", "returned", "crashed"}
  /\ \A k \in Keys : k \in todo <=> at[k] = "none"
  /\ todo \subseteq Keys
  /\ wg = Cardinality(AtIn(at, Started))
  /\ semaphore = Cardinality(AtIn(at, Busy))
  /\ semaphore <= SemaphoreSize
  /\ ReturnsAfterAll

LEMMA SpawnInit == Init => SpawnInv
<1> SUFFICES ASSUME Init PROVE SpawnInv
  OBVIOUS
<1>1. AtIn(at, Started) = {} /\ AtIn(at, Busy) = {}
  BY DEF Init, AtIn, Started, Busy
<1>2. Cardinality(AtIn(at, Started)) = 0 /\ Cardinality(AtIn(at, Busy)) = 0
  BY <1>1, FS_EmptySet
<1> QED
  BY <1>2, SpawnAssumption DEF Init, SpawnInv, Labels, ReturnsAfterAll

(* What a step of the goroutine of k does to at.                           *)
LEMMA GoMoves ==
  ASSUME SpawnInv, NEW k \in Keys, NEW l \in Labels, Go(k, l)
  PROVE  /\ at' \in [Keys -> Labels]
         /\ at'[k] = l
         /\ \A j \in Keys : j # k => at'[j] = at[j]
BY DEF SpawnInv, Go

LEMMA SpawnStep == SpawnInv /\ [Next]_vars => SpawnInv'
<1> SUFFICES ASSUME SpawnInv, [Next]_vars PROVE SpawnInv'
  OBVIOUS
<1> USE DEF Started, Busy
<1>0. /\ wg \in Nat /\ semaphore \in Nat /\ SemaphoreSize \in Nat
  BY AtInFinite, SpawnAssumption DEF SpawnInv
<1>1. ASSUME NEW k \in todo, spawn(k) PROVE SpawnInv'
  <2>1. k \in Keys /\ at[k] = "none" /\ main = "loop"
    BY <1>1 DEF SpawnInv, spawn
  <2>2. /\ at' \in [Keys -> Labels]
        /\ at'[k] = "query"
        /\ \A j \in Keys : j # k => at'[j] = at[j]
    BY <1>1, <2>1, GoMoves DEF spawn, Labels
  <2>3. wg' = Cardinality(AtIn(at', Started))
    BY <1>1, <2>1, <2>2, Enters DEF SpawnInv, spawn
  <2>4. semaphore' = Cardinality(AtIn(at', Busy))
    BY <1>1, <2>1, <2>2, Enters DEF SpawnInv, spawn
  <2>5. semaphore' <= SemaphoreSize
    BY <1>0, <1>1 DEF spawn
  <2>6. todo' \subseteq Keys /\ \A j \in Keys : j \in todo' <=> at'[j] = "none"
    BY <1>1, <2>1, <2>2 DEF SpawnInv, spawn
  <2> QED
    BY <1>1, <2>1, <2>2, <2>3, <2>4, <2>5, <2>6 DEF SpawnInv, spawn, ReturnsAfterAll
<1>2. ASSUME NEW k \in Keys, goroutine(k) PROVE SpawnInv'
  <2>0. main # "returned"
    BY <1>2 DEF SpawnInv, ReturnsAfterAll, goroutine, accountNotFound, keyNotExported,
       loadSlice, storeSlice, release, done
  <2>1. CASE accountNotFound(k) \/ release(k)
    <3>1. at[k] \in Busy /\ todo' = todo /\ main' = main /\ wg' = wg /\ semaphore' = semaphore - 1
      BY <2>1 DEF accountNotFound, release, Release
    <3>2. /\ at' \in [Keys -> Labels]
          /\ at'[k] = "return"
          /\ \A j \in Keys : j # k => at'[j] = at[j]
      BY <2>1, GoMoves DEF accountNotFound, release, Labels
    <3>3. wg' = Cardinality(AtIn(at', Started))
      BY <3>1, <3>2, Stays DEF SpawnInv
    <3>4. semaphore' = Cardinality(AtIn(at', Busy))
      BY <3>1, <3>2, Leaves DEF SpawnInv
    <3>5. semaphore' <= SemaphoreSize
      BY <1>0, <3>1 DEF SpawnInv
    <3> QED
      BY <2>0, <3>1, <3>2, <3>3, <3>4, <3>5 DEF SpawnInv, ReturnsAfterAll
  <2>2. CASE keyNotExported(k)
    BY <2>2 DEF SpawnInv, ReturnsAfterAll, keyNotExported
  <2>3. CASE loadSlice(k) \/ storeSlice(k)
    <3>1. at[k] \in Busy /\ todo' = todo /\ main' = main /\ wg' = wg /\ semaphore' = semaphore
      BY <2>3 DEF loadSlice, storeSlice
    <3>2. /\ at' \in [Keys -> Labels]
          /\ at'[k] \in {"append", "release"}
          /\ \A j \in Keys : j # k => at'[j] = at[j]
      BY <2>3, GoMoves DEF loadSlice, storeSlice, Labels
    <3>3. wg' = Cardinality(AtIn(at', Started)) /\ semaphore' = Cardinality(AtIn(at', Busy))
      BY <3>1, <3>2, Stays DEF SpawnInv
    <3> QED
      BY <2>0, <3>1, <3>2, <3>3 DEF SpawnInv, ReturnsAfterAll
  <2>4. CASE done(k)
    <3>1. at[k] = "return" /\ todo' = todo /\ main' = main /\ wg' = wg - 1 /\ semaphore' = semaphore
      BY <2>4 DEF done
    <3>2. /\ at' \in [Keys -> Labels]
          /\ at'[k] = "done"
          /\ \A j \in Keys : j # k => at'[j] = at[j]
      BY <2>4, GoMoves DEF done, Labels
    <3>3. wg' = Cardinality(AtIn(at', Started))
      BY <3>1, <3>2, Leaves DEF SpawnInv
    <3>4. semaphore' = Cardinality(AtIn(at', Busy))
      BY <3>1, <3>2, Stays DEF SpawnInv
    <3> QED
      BY <2>0, <3>1, <3>2, <3>3, <3>4 DEF SpawnInv, ReturnsAfterAll
  <2> QED
    BY <1>2, <2>1, <2>2, <2>3, <2>4 DEF goroutine
<1>3. CASE wait
  <2>1. AtIn(at, Started) = {}
    BY <1>3, AtInFinite, FS_EmptySet DEF SpawnInv, wait
  <2>2. \A k \in Keys : at[k] = "done"
    BY <1>3, <2>1 DEF SpawnInv, wait, AtIn, Labels
  <2> QED
    BY <1>3, <2>2 DEF SpawnInv, wait, ReturnsAfterAll
<1>4. CASE UNCHANGED vars
  BY <1>4 DEF SpawnInv, ReturnsAfterAll, vars
<1> QED
  BY <1>1, <1>2, <1>3, <1>4 DEF Next, Terminated

(* The invariant holds in every reachable state.                           *)
THEOREM SpawnAlways == Spec => []SpawnInv
BY SpawnInit, SpawnStep, PTL DEF Spec

-----------------------------------------------------------------------------

(* The semaphore of createSpammers holds one value for each goroutine that *)
(* queries the node or appends its spammer, skipped ones included, and     *)
(* never more than its capacity.                                           *)
THEOREM CountsWorkers == Spec => []SemaphoreCountsWorkers
<1>1. SpawnInv => SemaphoreCountsWorkers
  <2> SUFFICES ASSUME SpawnInv PROVE SemaphoreCountsWorkers
    OBVIOUS
  <2>1. Working = AtIn(at, Busy)
    BY DEF Working, AtIn, Busy
  <2>2. semaphore \in Nat /\ semaphore = Cardinality(Working)
    BY <2>1, AtInFinite DEF SpawnInv
  <2> QED
    BY <2>2, SpawnAssumption DEF SpawnInv, SemaphoreCountsWorkers
<1> QED
  BY <1>1, SpawnAlways, PTL

(* When createSpammers has returned no goroutine is left that could write  *)
(* the slice of spammers.                                                  *)
THEOREM AlwaysAfterAll == Spec => []ReturnsAfterAll
<1>1. SpawnInv => ReturnsAfterAll
  BY DEF SpawnInv
<1> QED
  BY <1>1, SpawnAlways, PTL
=============================================================================

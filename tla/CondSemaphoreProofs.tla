------------------------- MODULE CondSemaphoreProofs -------------------------
(***************************************************************************)
(* The safety properties of CondSemaphore for every finite set of threads, *)
(* every maximum and every initial count: mutual exclusion, no lost        *)
(* wake-up, and the implementation of the counter of module Semaphore.     *)
(***************************************************************************)
EXTENDS CondSemaphore, FiniteSetTheorems, TLAPS

-----------------------------------------------------------------------------
(* Counting threads. *)

\* Every set of threads has a cardinality.
LEMMA CountType ==
  ASSUME NEW S \in SUBSET Threads
  PROVE  IsFiniteSet(S) /\ Cardinality(S) \in Nat
BY SemaphoreAssumption, FS_Subset, FS_CardinalityType

\* One thread more.
LEMMA CountAdd ==
  ASSUME NEW S \in SUBSET Threads, NEW t \in Threads \ S
  PROVE  Cardinality(S \cup {t}) = Cardinality(S) + 1
BY CountType, FS_AddElement

\* One thread less.
LEMMA CountRemove ==
  ASSUME NEW S \in SUBSET Threads, NEW t \in S
  PROVE  Cardinality(S \ {t}) = Cardinality(S) - 1
BY CountType, FS_RemoveElement

-----------------------------------------------------------------------------
(* Types, the mutex and the blockers. *)

LEMMA InitTypeOK == Init => TypeOK
BY SemaphoreAssumption DEF Init, TypeOK

LEMMA TypeStep ==
  ASSUME TypeOK, [Next]_vars
  PROVE  TypeOK'
<1> USE SemaphoreAssumption DEF TypeOK
<1>1. ASSUME NEW t \in Threads, CallWait(t) PROVE TypeOK'
  BY <1>1 DEF CallWait
<1>2. ASSUME NEW t \in Threads, CallNotify(t) PROVE TypeOK'
  BY <1>2 DEF CallNotify
<1>3. ASSUME NEW t \in Threads, LockForWait(t) PROVE TypeOK'
  BY <1>3 DEF LockForWait, Lock
<1>4. ASSUME NEW t \in Threads, Consume(t) PROVE TypeOK'
  BY <1>4 DEF Consume
<1>5. ASSUME NEW t \in Threads, FindNone(t) PROVE TypeOK'
  BY <1>5 DEF FindNone
<1>6. ASSUME NEW t \in Threads, Sleep(t) PROVE TypeOK'
  BY <1>6 DEF Sleep
<1>7. ASSUME NEW t \in Threads, LockForNotify(t) PROVE TypeOK'
  BY <1>7 DEF LockForNotify, Lock
<1>8. ASSUME NEW t \in Threads, Raise(t) PROVE TypeOK'
  BY <1>8 DEF Raise
<1>9. ASSUME NEW t \in Threads, SignalOne(t) PROVE TypeOK'
  BY <1>9 DEF SignalOne, Sleepers
<1>10. ASSUME NEW t \in Threads, SpuriousWake(t) PROVE TypeOK'
  BY <1>10 DEF SpuriousWake
<1>11. CASE UNCHANGED vars
  BY <1>11 DEF vars
<1> QED BY <1>1, <1>2, <1>3, <1>4, <1>5, <1>6, <1>7, <1>8, <1>9, <1>10,
           <1>11 DEF Next, Running

LEMMA MutexStep ==
  ASSUME TypeOK, MutexProtects, BlockersSawZero, [Next]_vars
  PROVE  MutexProtects' /\ BlockersSawZero'
<1> USE SemaphoreAssumption DEF TypeOK, MutexProtects, BlockersSawZero
<1> DEFINE Goal == MutexProtects' /\ BlockersSawZero'
<1>1. ASSUME NEW t \in Threads, CallWait(t) PROVE Goal
  BY <1>1 DEF CallWait
<1>2. ASSUME NEW t \in Threads, CallNotify(t) PROVE Goal
  BY <1>2 DEF CallNotify
<1>3. ASSUME NEW t \in Threads, LockForWait(t) PROVE Goal
  BY <1>3 DEF LockForWait, Lock
<1>4. ASSUME NEW t \in Threads, Consume(t) PROVE Goal
  BY <1>4 DEF Consume
<1>5. ASSUME NEW t \in Threads, FindNone(t) PROVE Goal
  BY <1>5 DEF FindNone
<1>6. ASSUME NEW t \in Threads, Sleep(t) PROVE Goal
  BY <1>6 DEF Sleep
<1>7. ASSUME NEW t \in Threads, LockForNotify(t) PROVE Goal
  BY <1>7 DEF LockForNotify, Lock
<1>8. ASSUME NEW t \in Threads, Raise(t) PROVE Goal
  BY <1>8 DEF Raise
<1>9. ASSUME NEW t \in Threads, SignalOne(t) PROVE Goal
  BY <1>9 DEF SignalOne, Sleepers
<1>10. ASSUME NEW t \in Threads, SpuriousWake(t) PROVE Goal
  BY <1>10 DEF SpuriousWake
<1>11. CASE UNCHANGED vars
  BY <1>11 DEF vars
<1> QED BY <1>1, <1>2, <1>3, <1>4, <1>5, <1>6, <1>7, <1>8, <1>9, <1>10,
           <1>11 DEF Next, Running

(* Every variable of the semaphore keeps its type.                          *)
THEOREM SemaphoreTypeCorrect == Spec => []TypeOK
<1>1. TypeOK /\ [Next]_vars => TypeOK'
  BY TypeStep
<1> QED BY InitTypeOK, <1>1, PTL DEF Spec

-----------------------------------------------------------------------------
(* No lost wake-up. *)

LEMMA WakeupStep ==
  ASSUME TypeOK, BlockersSawZero, NoLostWakeup, [Next]_vars, TypeOK'
  PROVE  NoLostWakeup'
<1> DEFINE Claims == Cardinality(Awake) + Cardinality(Signalling)
<1>0. /\ Awake \in SUBSET Threads /\ Signalling \in SUBSET Threads
      /\ Awake' \in SUBSET Threads /\ Signalling' \in SUBSET Threads
  BY DEF Awake, Signalling
<1>1. /\ Cardinality(Awake) \in Nat /\ Cardinality(Signalling) \in Nat
      /\ Cardinality(Awake') \in Nat /\ Cardinality(Signalling') \in Nat
  BY <1>0, CountType
<1>2. mCount \in Nat /\ mCount' \in Nat
  BY SemaphoreAssumption DEF TypeOK
<1> USE <1>0, <1>1, <1>2 DEF NoLostWakeup
<1>3. ASSUME NEW t \in Threads, CallWait(t) PROVE NoLostWakeup'
  <2>1. /\ Sleepers' = Sleepers /\ Signalling' = Signalling
        /\ Awake' = Awake \cup {t} /\ t \notin Awake
    BY <1>3 DEF CallWait, TypeOK, Sleepers, Signalling, Awake
  <2>2. Cardinality(Awake') = Cardinality(Awake) + 1
    BY <2>1, CountAdd
  <2> QED BY <1>3, <2>1, <2>2 DEF CallWait
<1>4. ASSUME NEW t \in Threads, CallNotify(t) \/ LockForNotify(t) \/ LockForWait(t)
      PROVE NoLostWakeup'
  <2>1. /\ Sleepers' = Sleepers /\ Signalling' = Signalling
        /\ Awake' = Awake
    BY <1>4 DEF CallNotify, LockForNotify, LockForWait, TypeOK, Sleepers,
                Signalling, Awake
  <2>2. mCount' = mCount
    BY <1>4 DEF CallNotify, LockForNotify, LockForWait
  <2> QED BY <2>1, <2>2
<1>5. ASSUME NEW t \in Threads, Consume(t) PROVE NoLostWakeup'
  <2>1. /\ Sleepers' = Sleepers /\ Signalling' = Signalling
        /\ Awake' = Awake \ {t} /\ t \in Awake
    BY <1>5 DEF Consume, TypeOK, Sleepers, Signalling, Awake
  <2>2. Cardinality(Awake') = Cardinality(Awake) - 1
    BY <2>1, CountRemove
  <2> QED BY <1>5, <2>1, <2>2 DEF Consume
\* A thread falls asleep on a counter of 0.
<1>6. ASSUME NEW t \in Threads, FindNone(t) \/ Sleep(t) PROVE NoLostWakeup'
  <2>1. mCount' = 0
    BY <1>6 DEF FindNone, Sleep, BlockersSawZero
  <2> QED BY <2>1
<1>7. ASSUME NEW t \in Threads, Raise(t) PROVE NoLostWakeup'
  <2>1. /\ Sleepers' = Sleepers /\ Awake' = Awake
        /\ Signalling' = Signalling \cup {t} /\ t \notin Signalling
    BY <1>7 DEF Raise, TypeOK, Sleepers, Signalling, Awake
  <2>2. Cardinality(Signalling') = Cardinality(Signalling) + 1
    BY <2>1, CountAdd
  <2>3. mCount' <= mCount + 1
    BY <1>7, SemaphoreAssumption DEF Raise
  <2> QED BY <2>1, <2>2, <2>3
<1>8. ASSUME NEW t \in Threads, SignalOne(t) PROVE NoLostWakeup'
  <2>1. mCount' = mCount
    BY <1>8 DEF SignalOne
  <2>2. CASE Sleepers = {} /\ pc' = [pc EXCEPT ![t] = "idle"]
    BY <2>2 DEF TypeOK, Sleepers
  <2>3. ASSUME NEW s \in Sleepers,
               pc' = [pc EXCEPT ![t] = "idle", ![s] = "waitLock"]
        PROVE  NoLostWakeup'
    <3>1. /\ Signalling' = Signalling \ {t} /\ t \in Signalling
          /\ Awake' = Awake \cup {s} /\ s \in Threads \ Awake
      BY <1>8, <2>3 DEF SignalOne, TypeOK, Sleepers, Signalling, Awake
    <3>2. /\ Cardinality(Signalling') = Cardinality(Signalling) - 1
          /\ Cardinality(Awake') = Cardinality(Awake) + 1
      BY <3>1, CountAdd, CountRemove
    <3>3. mCount <= Claims
      BY <2>3
    <3> QED BY <2>1, <3>2, <3>3
  <2> QED BY <1>8, <2>2, <2>3 DEF SignalOne
<1>9. ASSUME NEW t \in Threads, SpuriousWake(t) PROVE NoLostWakeup'
  <2>1. /\ t \in Sleepers /\ Signalling' = Signalling
        /\ Awake' = Awake \cup {t} /\ t \notin Awake
    BY <1>9 DEF SpuriousWake, TypeOK, Sleepers, Signalling, Awake
  <2>2. Cardinality(Awake') = Cardinality(Awake) + 1
    BY <2>1, CountAdd
  <2>3. mCount <= Claims
    BY <2>1
  <2> QED BY <1>9, <2>1, <2>2, <2>3 DEF SpuriousWake
<1>10. CASE UNCHANGED vars
  BY <1>10 DEF vars, Sleepers, Signalling, Awake
<1> QED BY <1>3, <1>4, <1>5, <1>6, <1>7, <1>8, <1>9, <1>10
        DEF Next, Running

LEMMA InitInv == Init => IInv
<1> SUFFICES ASSUME Init PROVE IInv
  OBVIOUS
<1>1. MutexProtects /\ BlockersSawZero
  BY SemaphoreAssumption DEF Init, MutexProtects, BlockersSawZero
<1>2. NoLostWakeup
  BY DEF Init, NoLostWakeup, Sleepers
<1> QED BY <1>1, <1>2, InitTypeOK DEF IInv

LEMMA InvAlways == Spec => []IInv
<1>1. IInv /\ [Next]_vars => IInv'
  BY TypeStep, MutexStep, WakeupStep DEF IInv
<1> QED BY InitInv, <1>1, PTL DEF Spec

(* For any number of threads: while a thread sleeps, every unit has a       *)
(* thread on its way to it.                                                 *)
THEOREM WakeupsAreNotLost == Spec => []NoLostWakeup
<1>1. IInv => NoLostWakeup
  BY DEF IInv
<1> QED BY InvAlways, <1>1, PTL

(* For any number of threads: the counter behaves as module Semaphore says. *)
(* wait() implements Wait where it consumes, notify() implements Notify     *)
(* where it raises, and every other step of the two calls is a stutter.     *)
THEOREM SemaphoreImplementsCounter == Spec => ImplementsCounter
<1>1. Init => Counter!Init
  BY DEF Init, Counter!Init
<1>2. TypeOK /\ [Next]_vars => [Counter!Next]_mCount
  <2> SUFFICES ASSUME TypeOK, [Next]_vars
               PROVE  Counter!Notify \/ Counter!Wait \/ UNCHANGED mCount
    BY DEF Counter!Next
  <2> USE SemaphoreAssumption DEF TypeOK
  <2>1. ASSUME NEW t \in Threads, Consume(t) PROVE Counter!Wait
    BY <2>1 DEF Consume, Counter!Wait
  <2>2. ASSUME NEW t \in Threads, Raise(t) PROVE Counter!Notify
    BY <2>2 DEF Raise, Counter!Notify
  <2>3. ASSUME NEW t \in Threads,
               \/ CallWait(t) \/ LockForWait(t) \/ FindNone(t) \/ Sleep(t)
               \/ SpuriousWake(t)
               \/ CallNotify(t) \/ LockForNotify(t) \/ SignalOne(t)
        PROVE  UNCHANGED mCount
    BY <2>3 DEF CallWait, LockForWait, FindNone, Sleep, SpuriousWake,
                CallNotify, LockForNotify, SignalOne
  <2>4. CASE UNCHANGED vars
    BY <2>4 DEF vars
  <2> QED BY <2>1, <2>2, <2>3, <2>4 DEF Next, Running
<1> QED BY <1>1, <1>2, SemaphoreTypeCorrect, PTL
        DEF Spec, ImplementsCounter, Counter!Spec
==============================================================================

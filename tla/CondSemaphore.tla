---------------------------- MODULE CondSemaphore ----------------------------
(***************************************************************************)
(* Class Semaphore of mono_raspi.cpp with its mutex and condition          *)
(* variable.  Any thread may call notify() or wait(), any number of times. *)
(* The steps of a call are the points at which another thread can run:     *)
(* before the mutex is taken, between the counter's update and             *)
(* notify_one(), and while the thread is blocked on the condition variable.*)
(* A blocked thread may also wake up without any notification, as          *)
(* std::condition_variable allows.                                         *)
(***************************************************************************)
EXTENDS Integers, FiniteSets

CONSTANTS Threads,  \* the threads that share the semaphore
          Initial,  \* the constructor's count
          Max,      \* the constructor's max
          Nobody    \* the owner of a free mutex

ASSUME SemaphoreAssumption ==
  /\ IsFiniteSet(Threads)
  /\ Nobody \notin Threads
  /\ Max \in Nat \ {0}
  /\ Initial \in 0 .. Max

VARIABLES mCount,  \* units available
          mMutex,  \* the thread that owns the mutex, or Nobody
          pc       \* where every thread is

vars == <<mCount, mMutex, pc>>

Init == /\ mCount = Initial
        /\ mMutex = Nobody
        /\ pc = [t \in Threads |-> "idle"]

\* Threads blocked inside mConditionVar.wait(lock).
Sleepers == {t \in Threads : pc[t] = "asleep"}

Lock(t) == /\ mMutex = Nobody
           /\ mMutex' = t

-----------------------------------------------------------------------------
(* wait() *)

CallWait(t) == /\ pc[t] = "idle"
               /\ pc' = [pc EXCEPT ![t] = "waitLock"]
               /\ UNCHANGED <<mCount, mMutex>>

\* The unique_lock of wait(), and the one taken again after a wake-up.
LockForWait(t) == /\ pc[t] = "waitLock"
                  /\ Lock(t)
                  /\ pc' = [pc EXCEPT ![t] = "waitTest"]
                  /\ UNCHANGED mCount

\* Fault: wait() tests with `if' instead of `while'.
ConsumeUntested(t) == /\ pc[t] = "waitTest"
                      /\ mCount' = mCount - 1
                      /\ mMutex' = Nobody
                      /\ pc' = [pc EXCEPT ![t] = "idle"]

\* The loop finds a unit: consume it, return and unlock.
Consume(t) == /\ pc[t] = "waitTest"
              /\ mCount # 0
              /\ mCount' = mCount - 1
              /\ mMutex' = Nobody
              /\ pc' = [pc EXCEPT ![t] = "idle"]

\* The loop finds no unit: call mConditionVar.wait(lock).
FindNone(t) == /\ pc[t] = "waitTest"
               /\ mCount = 0
               /\ pc' = [pc EXCEPT ![t] = "blocking"]
               /\ UNCHANGED <<mCount, mMutex>>

\* Blocking and releasing the mutex are one step of the condition variable.
Sleep(t) == /\ pc[t] = "blocking"
            /\ mMutex' = Nobody
            /\ pc' = [pc EXCEPT ![t] = "asleep"]
            /\ UNCHANGED mCount

SpuriousWake(t) == /\ pc[t] = "asleep"
                   /\ pc' = [pc EXCEPT ![t] = "waitLock"]
                   /\ UNCHANGED <<mCount, mMutex>>

-----------------------------------------------------------------------------
(* notify() *)

CallNotify(t) == /\ pc[t] = "idle"
                 /\ pc' = [pc EXCEPT ![t] = "notifyLock"]
                 /\ UNCHANGED <<mCount, mMutex>>

\* Fault: notify() does not lock mMutex.
SkipLockForNotify(t) == /\ pc[t] = "notifyLock"
                        /\ pc' = [pc EXCEPT ![t] = "raise"]
                        /\ UNCHANGED <<mCount, mMutex>>

LockForNotify(t) == /\ pc[t] = "notifyLock"
                    /\ Lock(t)
                    /\ pc' = [pc EXCEPT ![t] = "raise"]
                    /\ UNCHANGED mCount

\* Fault: the counter does not saturate.
RaisePastMax(t) == /\ pc[t] = "raise"
                   /\ mCount' = mCount + 1
                   /\ pc' = [pc EXCEPT ![t] = "signal"]
                   /\ UNCHANGED mMutex

Raise(t) == /\ pc[t] = "raise"
            /\ mCount' = IF mCount + 1 < Max THEN mCount + 1 ELSE Max
            /\ pc' = [pc EXCEPT ![t] = "signal"]
            /\ UNCHANGED mMutex

\* Fault: notify() ends without notify_one().
SignalNone(t) == /\ pc[t] = "signal"
                 /\ mMutex' = Nobody
                 /\ pc' = [pc EXCEPT ![t] = "idle"]
                 /\ UNCHANGED mCount

\* notify_one(), then the end of the scope unlocks.
SignalOne(t) == /\ pc[t] = "signal"
                /\ mMutex' = Nobody
                /\ \/ /\ Sleepers = {}
                      /\ pc' = [pc EXCEPT ![t] = "idle"]
                   \/ \E s \in Sleepers :
                        pc' = [pc EXCEPT ![t] = "idle", ![s] = "waitLock"]
                /\ UNCHANGED mCount

-----------------------------------------------------------------------------

\* What a thread does once it is inside a call and not blocked.
Running(t) == \/ LockForWait(t) \/ Consume(t) \/ FindNone(t) \/ Sleep(t)
              \/ LockForNotify(t) \/ Raise(t) \/ SignalOne(t)

Next == \E t \in Threads : \/ CallWait(t) \/ CallNotify(t)
                           \/ Running(t)
                           \/ SpuriousWake(t)

Spec == Init /\ [][Next]_vars

\* A runnable thread keeps running; nobody has to make a call, and the
\* platform owes nobody a spurious wake-up.
FairSpec == Spec /\ \A t \in Threads : WF_vars(Running(t))

-----------------------------------------------------------------------------

TypeOK ==
  /\ mCount \in 0 .. Max
  /\ mMutex \in Threads \cup {Nobody}
  /\ pc \in [Threads -> {"idle", "waitLock", "waitTest", "blocking", "asleep",
                         "notifyLock", "raise", "signal"}]

\* Threads inside wait() that will still look at the counter by themselves.
Awake == {t \in Threads : pc[t] \in {"waitLock", "waitTest"}}

\* Threads that raised the counter and have yet to call notify_one().
Signalling == {t \in Threads : pc[t] = "signal"}

\* The mutex protects what it is meant to: its owner is the one thread
\* between the lock and the unlock of a call.
MutexProtects ==
  \A t \in Threads :
    mMutex = t <=> pc[t] \in {"waitTest", "blocking", "raise", "signal"}

\* A thread about to block has seen a counter that is still 0.
BlockersSawZero == \A t \in Threads : pc[t] = "blocking" => mCount = 0

(* No lost wake-up: while a thread sleeps, every unit of the counter has a  *)
(* thread on its way to it, awake or about to be woken (wait() tests the    *)
(* counter in a loop under the mutex notify() raises it under, lines 33-43).*)
NoLostWakeup ==
  Sleepers # {} => mCount <= Cardinality(Awake) + Cardinality(Signalling)

\* The inductive invariant behind NoLostWakeup.
IInv == TypeOK /\ MutexProtects /\ BlockersSawZero /\ NoLostWakeup

(* The class implements the saturating counter of module Semaphore: no call *)
(* ever consumes a unit that is not there or adds one above Max.            *)
Counter == INSTANCE Semaphore
ImplementsCounter == Counter!Spec

(* A unit never sits unclaimed for ever while a thread sleeps for one.      *)
UnitsAreClaimed == []<>(mCount = 0 \/ Sleepers = {})
==============================================================================

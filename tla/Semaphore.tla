------------------------------ MODULE Semaphore ------------------------------
(***************************************************************************)
(* What class Semaphore of mono_raspi.cpp promises its callers: a counter  *)
(* that saturates at Max.  A notify() that finds the counter at Max is     *)
(* absorbed, and a wait() returns only by consuming one unit.  The mutex   *)
(* and the condition variable behind the promise are in CondSemaphore,     *)
(* which implements this module; the frame pipeline uses it as it is.      *)
(***************************************************************************)
EXTENDS Integers

CONSTANTS Initial,  \* the constructor's count
          Max       \* the constructor's max

VARIABLE mCount

Init == mCount = Initial

\* notify(): one more unit, at most Max of them.
Notify == mCount' = IF mCount < Max THEN mCount + 1 ELSE Max

\* wait() returning: there is a unit and it is consumed.
Wait == /\ mCount > 0
        /\ mCount' = mCount - 1

Next == Notify \/ Wait

Spec == Init /\ [][Next]_mCount
==============================================================================

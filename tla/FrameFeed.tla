------------------------------ MODULE FrameFeed ------------------------------
(***************************************************************************)
(* What ORB_SLAM2 may expect of the capture side of mono_raspi.cpp: the    *)
(* camera captures frames, and they are tracked in the order of their      *)
(* capture with their capture times.  The frames of the speed test are     *)
(* captured but not tracked; from the first tracked frame on, none is left *)
(* out.  A frame is tracked only after the capture of its successor has    *)
(* begun, and the camera never runs further ahead than that.               *)
(***************************************************************************)
EXTENDS Integers

VARIABLES captured,  \* frames captured so far
          tracked    \* the last image tracked and its time, 0 before the first

feedVars == <<captured, tracked>>

Init == /\ captured = 0
        /\ tracked = [image |-> 0, time |-> 0]

\* Once tracking has begun, at most two captures are ahead of it while it
\* works on a third.
Capture == /\ tracked.image > 0 => captured <= tracked.image + 2
           /\ captured' = captured + 1
           /\ UNCHANGED tracked

Track == /\ \E frame \in 1 .. captured - 1 :
              /\ tracked.image > 0 => frame = tracked.image + 1
              /\ tracked' = [image |-> frame, time |-> frame]
         /\ UNCHANGED captured

Next == Capture \/ Track

Spec == Init /\ [][Next]_feedVars
==============================================================================

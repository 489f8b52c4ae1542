----------------------------- MODULE OverlayUpdate -----------------------------
(***************************************************************************)
(* Three threads at the tracker of ORB_SLAM2: the main loop gives it       *)
(* frames and the network push thread copies the key points of the frame   *)
(* processed last, both under slamMutex; slam_track_thread calls           *)
(* PollCurrentFrame() all the time, without it.                            *)
(*                                                                         *)
(* ORB_SLAM2 is external.  TrackMonocular() keeps the frame it was given   *)
(* as the last one, which is what the push thread shows.  Of               *)
(* PollCurrentFrame() nothing is known: it may change the tracker at any   *)
(* moment, in the middle of TrackMonocular() or of the copy as well.       *)
(***************************************************************************)
CONSTANT Frames  \* the frames of the camera; one may come again

NoFrame == "none"  \* no frame, and no key points
Torn == "torn"  \* a frame that TrackMonocular() is overwriting
Polled == "polled"  \* whatever PollCurrentFrame() made of a frame

ASSUME OverlayAssumption ==
  Frames # {} /\ Frames \cap {NoFrame, Torn, Polled} = {}

VARIABLES
  gShutdownFlag,
  slamMutex,            \* who holds it: "free", "main" or "push"
  mainPc,               \* where the main loop is
  pushPc,               \* where the push thread is
  pollPc,               \* where slam_track_thread is
  im,                   \* the frame for TrackMonocular()
  mCurrentFrame,        \* the tracker's frame in work
  mLastProcessedFrame,  \* and the one before
  mLastProcessedState,  \* is the tracking state OK?
  keys                  \* the frames of which key points have been copied

tracker == <<mCurrentFrame, mLastProcessedFrame, mLastProcessedState>>
overlayVars == <<gShutdownFlag, slamMutex, mainPc, pushPc, pollPc, im, tracker, keys>>

OverlayInit ==
  /\ gShutdownFlag = FALSE /\ slamMutex = "free"
  /\ mainPc = "check" /\ pushPc = "check" /\ pollPc = "check"
  /\ im = NoFrame
  /\ mCurrentFrame = NoFrame /\ mLastProcessedFrame = NoFrame
  /\ mLastProcessedState = FALSE
  /\ keys = {}

-----------------------------------------------------------------------------

Shutdown ==
  /\ ~gShutdownFlag
  /\ gShutdownFlag' = TRUE
  /\ UNCHANGED <<slamMutex, mainPc, pushPc, pollPc, im, tracker, keys>>

MainAt(from, to) == mainPc = from /\ mainPc' = to /\ UNCHANGED <<pushPc, pollPc>>
PushAt(from, to) == pushPc = from /\ pushPc' = to /\ UNCHANGED <<mainPc, pollPc>>
PollAt(from, to) == pollPc = from /\ pollPc' = to /\ UNCHANGED <<mainPc, pushPc>>

(* The main loop *)

MainCheck ==
  /\ MainAt("check", IF gShutdownFlag THEN "finished" ELSE "frame")
  /\ UNCHANGED <<gShutdownFlag, slamMutex, im, tracker, keys>>

\* getCameraBuffer(), memcpy() and swapCameraBuffers(), see FramePipeline.
GetFrame ==
  /\ MainAt("frame", "lock")
  /\ im' \in Frames
  /\ UNCHANGED <<gShutdownFlag, slamMutex, tracker, keys>>

\* Fault: the lock_guard is a temporary.
LockForTrackInVain ==
  /\ MainAt("lock", "begin")
  /\ slamMutex = "free"
  /\ UNCHANGED <<gShutdownFlag, slamMutex, im, tracker, keys>>

LockForTrack ==
  /\ MainAt("lock", "begin")
  /\ slamMutex = "free" /\ slamMutex' = "main"
  /\ UNCHANGED <<gShutdownFlag, im, tracker, keys>>

\* TrackMonocular() begins to work on the frame,
BeginTrack ==
  /\ MainAt("begin", "keep")
  /\ mCurrentFrame' = im
  /\ UNCHANGED <<gShutdownFlag, slamMutex, im, mLastProcessedFrame, mLastProcessedState, keys>>

\* begins to keep it as the last one,
KeepFrame ==
  /\ MainAt("keep", "end")
  /\ mLastProcessedFrame' = Torn
  /\ UNCHANGED <<gShutdownFlag, slamMutex, im, mCurrentFrame, mLastProcessedState, keys>>

\* and is done: it returns, and the lock of the block ends.  What was polled
\* while it was being kept is not the frame it was given.
EndTrack ==
  /\ MainAt("end", "check")
  /\ mLastProcessedFrame' = IF mLastProcessedFrame = Torn THEN mCurrentFrame ELSE Polled
  /\ mLastProcessedState' \in BOOLEAN
  /\ slamMutex' = "free"
  /\ UNCHANGED <<gShutdownFlag, im, mCurrentFrame, keys>>

MainLoop == MainCheck \/ GetFrame \/ LockForTrack \/ BeginTrack \/ KeepFrame \/ EndTrack

(* The push thread *)

\* The new report has no overlay unless the state is OK.
LookAtState ==
  /\ ~gShutdownFlag
  /\ PushAt("check", IF mLastProcessedState THEN "lock" ELSE "send")
  /\ keys' = {}
  /\ UNCHANGED <<gShutdownFlag, slamMutex, im, tracker>>

LockForKeys ==
  /\ PushAt("lock", "copy")
  /\ slamMutex = "free" /\ slamMutex' = "push"
  /\ UNCHANGED <<gShutdownFlag, im, tracker, keys>>

\* More key points of the last frame are copied.
Copy == keys' = keys \cup ({mLastProcessedFrame} \ {NoFrame})

BeginCopy ==
  /\ PushAt("copy", "unlock")
  /\ Copy
  /\ UNCHANGED <<gShutdownFlag, slamMutex, im, tracker>>

\* Fault: the unlock is forgotten.
EndCopyLocked ==
  /\ PushAt("unlock", "send")
  /\ Copy
  /\ UNCHANGED <<gShutdownFlag, slamMutex, im, tracker>>

EndCopy ==
  /\ PushAt("unlock", "send")
  /\ Copy
  /\ slamMutex' = "free"
  /\ UNCHANGED <<gShutdownFlag, im, tracker>>

\* The overlay is put together, with marks read from the tracker as it is by
\* then, everything is sent, and the thread sleeps.
SendReport ==
  /\ PushAt("send", "check")
  /\ UNCHANGED <<gShutdownFlag, slamMutex, im, tracker, keys>>

PushFinished ==
  /\ PushAt("check", "finished") /\ gShutdownFlag
  /\ UNCHANGED <<gShutdownFlag, slamMutex, im, tracker, keys>>

PushThread ==
  LookAtState \/ LockForKeys \/ BeginCopy \/ EndCopy \/ SendReport \/ PushFinished

(* slam_track_thread *)

PollCheck ==
  /\ PollAt("check", IF gShutdownFlag THEN "finished" ELSE "poll")
  /\ UNCHANGED <<gShutdownFlag, slamMutex, im, tracker, keys>>

\* PollCurrentFrame() does something to the tracker, goes on or returns.
PollCurrentFrame ==
  /\ PollAt("poll", "poll") \/ PollAt("poll", "check")
  /\ mCurrentFrame' \in {mCurrentFrame, Polled}
  /\ mLastProcessedFrame' \in {mLastProcessedFrame, Polled}
  /\ mLastProcessedState' \in BOOLEAN
  /\ UNCHANGED <<gShutdownFlag, slamMutex, im, keys>>

SlamTrackThread == PollCheck \/ PollCurrentFrame

OverlayNext == Shutdown \/ MainLoop \/ PushThread \/ SlamTrackThread

\* The push thread needs the mutex once in half a second, and the main loop
\* gets it in between.  The other way round nothing is sure: the main loop may
\* lock again before the push thread has woken up.
OverlaySpec == /\ OverlayInit /\ [][OverlayNext]_overlayVars
               /\ SF_overlayVars(MainLoop) /\ WF_overlayVars(PushThread)

-----------------------------------------------------------------------------

(* All the key points of an overlay are of one frame that TrackMonocular()  *)
(* was given and is done with, if PollCurrentFrame() has no part in them:   *)
(* the main loop never comes between, and a state that was looked at        *)
(* without the lock does no harm, whoever has changed it                    *)
(* (mono_raspi.cpp 340-343, 388-392, 414-417).                              *)
KeysAreOfOneFrame ==
  pushPc = "send" /\ Polled \notin keys => \E f \in Frames : keys \subseteq {f}

(* Nothing that the push thread does with slamMutex and nothing that        *)
(* PollCurrentFrame() does without it keeps the main loop from tracking     *)
(* frames until the shutdown (mono_raspi.cpp 341-343, 388-417).             *)
KeepsTracking == []<>(mainPc \in {"end", "finished"})
==============================================================================

---------------------------- MODULE FramePipeline ----------------------------
(***************************************************************************)
(* The frames that travel through the handshake of FrameHandshake: from    *)
(* the camera into the temporary buffer, from there into a slot of the     *)
(* ring with their capture time, and from the slot into the matrix that    *)
(* ORB_SLAM2 tracks.                                                       *)
(*                                                                         *)
(* A frame is the number of its capture, counted from 1, and stands for    *)
(* its capture time as well.  Blank is what the allocations of main() and  *)
(* the zeroed time table hold before any capture, Mixed is a buffer some   *)
(* thread is half way through overwriting.                                 *)
(***************************************************************************)
EXTENDS FrameHandshake

CONSTANT MaxFrames  \* bound: the captures the camera delivers

ASSUME FramesAssumption == MaxFrames \in Nat

Blank == 0
Mixed == -1
Frames == 1 .. MaxFrames

VARIABLES
  captured,           \* captures so far; also t_img, the time of the last one
  tempCameraBuffer,
  cameraBuffers,      \* the image in every slot
  cameraBufferTimes,  \* the time in every slot
  timestamp,          \* the time getCameraBuffer() returned last
  im,                 \* the matrix of the main thread
  tracked             \* the last image and time given to TrackMonocular

frameVars == <<captured, tempCameraBuffer, cameraBuffers, cameraBufferTimes,
               timestamp, im, tracked>>
vars == <<handshakeVars, frameVars>>

Init ==
  /\ HandshakeInit
  /\ captured = 0
  /\ tempCameraBuffer = Blank
  /\ cameraBuffers = [s \in Slots |-> Blank]
  /\ cameraBufferTimes = [s \in Slots |-> Blank]
  /\ timestamp = Blank
  /\ im = Blank
  /\ tracked = [image |-> Blank, time |-> Blank]

-----------------------------------------------------------------------------
(* The steps that move frames *)

\* camera.grab(), t_img, and the beginning of camera.retrieve().
GrabFrame ==
  /\ CameraGrab
  /\ captured < MaxFrames
  /\ captured' = captured + 1
  /\ tempCameraBuffer' = Mixed
  /\ UNCHANGED <<cameraBuffers, cameraBufferTimes, timestamp, im, tracked>>

RetrieveFrame ==
  /\ CameraRetrieve
  /\ tempCameraBuffer' = captured
  /\ UNCHANGED <<captured, cameraBuffers, cameraBufferTimes, timestamp, im,
                 tracked>>

StartCopyFrame ==
  /\ CameraStartCopy
  /\ cameraBuffers' = [cameraBuffers EXCEPT ![slot'] = Mixed]
  /\ UNCHANGED <<captured, tempCameraBuffer, cameraBufferTimes, timestamp, im,
                 tracked>>

EndCopyFrame ==
  /\ CameraEndCopy
  /\ cameraBuffers' = [cameraBuffers EXCEPT ![slot] = tempCameraBuffer]
  /\ UNCHANGED <<captured, tempCameraBuffer, cameraBufferTimes, timestamp, im,
                 tracked>>

StampFrame ==
  /\ CameraEndStamp
  /\ cameraBufferTimes' = [cameraBufferTimes EXCEPT ![slot] = captured]
  /\ UNCHANGED <<captured, tempCameraBuffer, cameraBuffers, timestamp, im,
                 tracked>>

\* The result of getCameraBuffer().  The pointer in it needs no variable:
\* it leads to the current slot until swapCameraBuffers().
GetFrame ==
  /\ MainGet
  /\ timestamp' = cameraBufferTimes[currentCameraBuffer]
  /\ UNCHANGED <<captured, tempCameraBuffer, cameraBuffers, cameraBufferTimes,
                 im, tracked>>

\* Fault: the image is taken from the other slot.
CopyFrameAhead ==
  /\ MainCopy
  /\ im' = cameraBuffers[Successor(currentCameraBuffer)]
  /\ UNCHANGED <<captured, tempCameraBuffer, cameraBuffers, cameraBufferTimes,
                 timestamp, tracked>>

CopyFrame ==
  /\ MainCopy
  /\ im' = cameraBuffers[currentCameraBuffer]
  /\ UNCHANGED <<captured, tempCameraBuffer, cameraBuffers, cameraBufferTimes,
                 timestamp, tracked>>

TrackFrame ==
  /\ MainTrack
  /\ tracked' = [image |-> im, time |-> timestamp]
  /\ UNCHANGED <<captured, tempCameraBuffer, cameraBuffers, cameraBufferTimes,
                 timestamp, im>>

\* The steps of the handshake that leave the frames where they are.
MoveNoFrame ==
  /\ \/ CameraLoop \/ CameraWait \/ CameraStartStamp \/ CameraPost
     \/ MainWake \/ MainWait \/ MainSwap \/ MainRelease
     \/ MainOpenSerial \/ MainListen \/ MainStartSlam \/ MainLoop \/ MainStop
     \/ PostShutdown
  /\ UNCHANGED frameVars

Next == \/ GrabFrame \/ RetrieveFrame \/ StartCopyFrame \/ EndCopyFrame
        \/ StampFrame
        \/ GetFrame \/ CopyFrame \/ TrackFrame
        \/ MoveNoFrame

Spec == Init /\ [][Next]_vars

-----------------------------------------------------------------------------

Images == Frames \cup {Blank, Mixed}
Times  == Frames \cup {Blank}

TypeOK ==
  /\ HandshakeTypeOK
  /\ captured \in 0 .. MaxFrames
  /\ tempCameraBuffer \in Images
  /\ cameraBuffers \in [Slots -> Images]
  /\ cameraBufferTimes \in [Slots -> Times]
  /\ timestamp \in Times
  /\ im \in Images
  /\ tracked \in [image : Images, time : Times]

(* No image is ever torn on its way to ORB_SLAM2, whatever the timing of    *)
(* the first capture: the matrix never holds a half-written slot, and no    *)
(* slot was filled from a half-retrieved temporary buffer (lines 75-79 and  *)
(* 405-407).                                                                *)
NoTornImage == im # Mixed

(* After a warm start every image is tracked with the time it was captured  *)
(* at (lines 76-80, 98, 405-416).                                           *)
TrackedWithOwnTime == WarmStart => tracked.image = tracked.time

(* After a warm start the speed test consumes the slot that no capture has  *)
(* filled yet: ORB_SLAM2 never sees the uninitialized memory of line 255.   *)
NeverTracksBlank ==
  WarmStart /\ mainPc = "track" => im \in Frames /\ timestamp \in Frames

(* After a warm start the image in hand is never more than two captures     *)
(* old: one that waited in the ring and one taken during the tracking.      *)
FreshEnough ==
  WarmStart /\ mainPc = "track" => captured - im \in {1, 2}

(* After a warm start, what the pipeline promises to ORB_SLAM2: consecutive *)
(* captures, none skipped, none repeated, each with its own time.           *)
Feed == INSTANCE FrameFeed
ImplementsFeed == Feed!Spec
==============================================================================

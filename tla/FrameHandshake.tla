---------------------------- MODULE FrameHandshake ----------------------------
(***************************************************************************)
(* How the camera thread and the main thread of mono_raspi.cpp hand over   *)
(* the buffers of the capture ring: two binary semaphores, an index that   *)
(* only the main thread advances, the speed test and the main loop that    *)
(* both go through getCameraBuffer() and swapCameraBuffers(), and the      *)
(* shutdown flag.  Nothing here is counted, so behaviours are unbounded;   *)
(* module FramePipeline adds the frames themselves.                        *)
(*                                                                         *)
(* Every expression of the code that reads currentCameraBuffer is a step   *)
(* of its own: the variable is volatile and no lock is held.               *)
(***************************************************************************)
EXTENDS Integers

CONSTANTS
  BufferCount,      \* CAPTURE_BUFFER_COUNT
  SpeedTestFrames,  \* camera.getFrameRate() * 2, the length of the speed test
  WarmStart         \* does usleep(100000) outlast the first capture?

ASSUME HandshakeAssumption ==
  /\ BufferCount \in Nat /\ BufferCount >= 2
  /\ SpeedTestFrames \in Nat \ {0}
  /\ WarmStart \in BOOLEAN

VARIABLES
  nextFrameSignal,       \* may the camera thread capture one more frame?
  frameAvailableSignal,  \* is there a frame for the main thread?
  currentCameraBuffer,   \* the slot the main thread reads
  cameraPc,              \* where the camera thread is
  slot,                  \* the slot the camera thread is writing
  mainPc,                \* where the main thread is
  testLeft,              \* speed test iterations still to do
  gShutdownFlag

cameraVars == <<cameraPc, slot>>
mainVars   == <<mainPc, testLeft>>
handshakeVars == <<nextFrameSignal, frameAvailableSignal, currentCameraBuffer,
                   cameraPc, slot, mainPc, testLeft, gShutdownFlag>>

NextFrame == INSTANCE Semaphore
               WITH mCount <- nextFrameSignal, Initial <- 1, Max <- 1
FrameAvailable == INSTANCE Semaphore
               WITH mCount <- frameAvailableSignal, Initial <- 1, Max <- 1

Slots == 0 .. BufferCount - 1

\* (i + 1) % CAPTURE_BUFFER_COUNT
Successor(i) == (i + 1) % BufferCount

HandshakeInit ==
  /\ NextFrame!Init
  /\ FrameAvailable!Init
  /\ currentCameraBuffer = 0
  /\ cameraPc = "loop"
  /\ slot = 0
  /\ mainPc = "sleep"
  /\ testLeft = SpeedTestFrames
  /\ gShutdownFlag = FALSE

\* Once main() has returned, with any code, no thread takes another step.
ProcessAlive == mainPc # "exited"

-----------------------------------------------------------------------------
(* cameraThread() *)

CameraAt(from, to) == /\ ProcessAlive
                      /\ cameraPc = from
                      /\ cameraPc' = to

\* while (!gShutdownFlag), and "Camera thread finished".
CameraLoop ==
  /\ CameraAt("loop", IF gShutdownFlag THEN "done" ELSE "wait")
  /\ UNCHANGED <<nextFrameSignal, frameAvailableSignal, currentCameraBuffer,
                 slot, mainVars, gShutdownFlag>>

\* Fault: the camera thread gives up waiting after a while.
CameraWaitTimed ==
  /\ CameraAt("wait", "grab")
  /\ UNCHANGED <<nextFrameSignal, frameAvailableSignal, currentCameraBuffer,
                 slot, mainVars, gShutdownFlag>>

CameraWait ==
  /\ CameraAt("wait", "grab")
  /\ NextFrame!Wait
  /\ UNCHANGED <<frameAvailableSignal, currentCameraBuffer, slot, mainVars,
                 gShutdownFlag>>

\* camera.grab() has the frame; camera.retrieve() starts filling the
\* temporary buffer.
CameraGrab ==
  /\ CameraAt("grab", "retrieve")
  /\ UNCHANGED <<nextFrameSignal, frameAvailableSignal, currentCameraBuffer,
                 slot, mainVars, gShutdownFlag>>

CameraRetrieve ==
  /\ CameraAt("retrieve", "target")
  /\ UNCHANGED <<nextFrameSignal, frameAvailableSignal, currentCameraBuffer,
                 slot, mainVars, gShutdownFlag>>

\* The index of the memcpy is computed, and the memcpy starts.
CameraStartCopy ==
  /\ CameraAt("target", "copy")
  /\ slot' = Successor(currentCameraBuffer)
  /\ UNCHANGED <<nextFrameSignal, frameAvailableSignal, currentCameraBuffer,
                 mainVars, gShutdownFlag>>

CameraEndCopy ==
  /\ CameraAt("copy", "stampTarget")
  /\ UNCHANGED <<nextFrameSignal, frameAvailableSignal, currentCameraBuffer,
                 slot, mainVars, gShutdownFlag>>

\* The index is computed again, for cameraBufferTimes.
CameraStartStamp ==
  /\ CameraAt("stampTarget", "stamp")
  /\ slot' = Successor(currentCameraBuffer)
  /\ UNCHANGED <<nextFrameSignal, frameAvailableSignal, currentCameraBuffer,
                 mainVars, gShutdownFlag>>

CameraEndStamp ==
  /\ CameraAt("stamp", "post")
  /\ UNCHANGED <<nextFrameSignal, frameAvailableSignal, currentCameraBuffer,
                 slot, mainVars, gShutdownFlag>>

\* Fault: the frame is not announced.
CameraPostNothing ==
  /\ CameraAt("post", "loop")
  /\ UNCHANGED <<nextFrameSignal, frameAvailableSignal, currentCameraBuffer,
                 slot, mainVars, gShutdownFlag>>

CameraPost ==
  /\ CameraAt("post", "loop")
  /\ FrameAvailable!Notify
  /\ UNCHANGED <<nextFrameSignal, currentCameraBuffer, slot, mainVars,
                 gShutdownFlag>>

CameraThread == \/ CameraLoop \/ CameraWait \/ CameraGrab \/ CameraRetrieve
                \/ CameraStartCopy \/ CameraEndCopy
                \/ CameraStartStamp \/ CameraEndStamp \/ CameraPost

-----------------------------------------------------------------------------
(* main(), from testCameraCaptureSpeed() on *)

MainAt(from, to) == /\ mainPc = from
                    /\ mainPc' = to

InSpeedTest == testLeft > 0

\* The camera thread has used up its initial unit and posted a frame.
FirstFramePosted == nextFrameSignal = 0 /\ cameraPc \in {"loop", "wait"}

\* Fault: the speed test starts without usleep(100000).
MainWakeAtOnce ==
  /\ MainAt("sleep", "wait")
  /\ UNCHANGED <<nextFrameSignal, frameAvailableSignal, currentCameraBuffer,
                 cameraVars, testLeft, gShutdownFlag>>

\* usleep(100000) returns.  With WarmStart the sleep was long enough for the
\* first capture, which is what it is there for.
MainWake ==
  /\ MainAt("sleep", "wait")
  /\ WarmStart => FirstFramePosted
  /\ UNCHANGED <<nextFrameSignal, frameAvailableSignal, currentCameraBuffer,
                 cameraVars, testLeft, gShutdownFlag>>

\* Fault: getCameraBuffer() gives up waiting after a while.
MainWaitTimed ==
  /\ MainAt("wait", "get")
  /\ UNCHANGED <<nextFrameSignal, frameAvailableSignal, currentCameraBuffer,
                 cameraVars, testLeft, gShutdownFlag>>

\* getCameraBuffer(): the wait,
MainWait ==
  /\ MainAt("wait", "get")
  /\ FrameAvailable!Wait
  /\ UNCHANGED <<nextFrameSignal, currentCameraBuffer, cameraVars, testLeft,
                 gShutdownFlag>>

\* and the result: a pointer into the current slot and a copy of its time.
\* The main loop copies the image the pointer leads to; the speed test
\* drops the result.
MainGet ==
  /\ MainAt("get", IF InSpeedTest THEN "swap" ELSE "copy")
  /\ UNCHANGED <<nextFrameSignal, frameAvailableSignal, currentCameraBuffer,
                 cameraVars, testLeft, gShutdownFlag>>

MainCopy ==
  /\ MainAt("copy", "swap")
  /\ UNCHANGED <<nextFrameSignal, frameAvailableSignal, currentCameraBuffer,
                 cameraVars, testLeft, gShutdownFlag>>

\* Fault: the index is not reduced modulo the number of buffers.
MainSwapPastEnd ==
  /\ MainAt("swap", "release")
  /\ currentCameraBuffer' = currentCameraBuffer + 1
  /\ UNCHANGED <<nextFrameSignal, frameAvailableSignal, cameraVars, testLeft,
                 gShutdownFlag>>

\* swapCameraBuffers(): the index,
MainSwap ==
  /\ MainAt("swap", "release")
  /\ currentCameraBuffer' = Successor(currentCameraBuffer)
  /\ UNCHANGED <<nextFrameSignal, frameAvailableSignal, cameraVars, testLeft,
                 gShutdownFlag>>

\* and the notification.  The last iteration of the speed test goes on to
\* the start-up of the other components.
MainRelease ==
  /\ \/ testLeft > 1 /\ MainAt("release", "wait")
     \/ testLeft = 1 /\ MainAt("release", "open")
     \/ testLeft = 0 /\ MainAt("release", "track")
  /\ NextFrame!Notify
  /\ testLeft' = IF InSpeedTest THEN testLeft - 1 ELSE 0
  /\ UNCHANGED <<frameAvailableSignal, currentCameraBuffer, cameraVars,
                 gShutdownFlag>>

\* gTankSerial.open(), a failure of which ends the process with code 2.
MainOpenSerial ==
  /\ \/ MainAt("open", "listen")
     \/ MainAt("open", "exited")
  /\ UNCHANGED <<nextFrameSignal, frameAvailableSignal, currentCameraBuffer,
                 cameraVars, testLeft, gShutdownFlag>>

\* The HTTP thread starts,
MainListen ==
  /\ MainAt("listen", "slam")
  /\ UNCHANGED <<nextFrameSignal, frameAvailableSignal, currentCameraBuffer,
                 cameraVars, testLeft, gShutdownFlag>>

\* and ORB_SLAM2 is constructed, with the threads that use it.
MainStartSlam ==
  /\ MainAt("slam", "loop")
  /\ UNCHANGED <<nextFrameSignal, frameAvailableSignal, currentCameraBuffer,
                 cameraVars, testLeft, gShutdownFlag>>

\* while (!gShutdownFlag) of the main loop.
MainLoop ==
  /\ MainAt("loop", IF gShutdownFlag THEN "stop" ELSE "wait")
  /\ UNCHANGED <<nextFrameSignal, frameAvailableSignal, currentCameraBuffer,
                 cameraVars, testLeft, gShutdownFlag>>

\* SLAM.TrackMonocular() and the figures of the metrics packet.
MainTrack ==
  /\ MainAt("track", "loop")
  /\ UNCHANGED <<nextFrameSignal, frameAvailableSignal, currentCameraBuffer,
                 cameraVars, testLeft, gShutdownFlag>>

\* Fault: main() joins the camera thread, which may be waiting for a unit.
MainStopJoining ==
  /\ MainAt("stop", "exited")
  /\ cameraPc = "done"
  /\ UNCHANGED <<nextFrameSignal, frameAvailableSignal, currentCameraBuffer,
                 cameraVars, testLeft, gShutdownFlag>>

\* SLAM.Shutdown(), the trajectory file, return 0.
MainStop ==
  /\ MainAt("stop", "exited")
  /\ UNCHANGED <<nextFrameSignal, frameAvailableSignal, currentCameraBuffer,
                 cameraVars, testLeft, gShutdownFlag>>

MainThread == \/ MainWake \/ MainWait \/ MainGet \/ MainCopy
              \/ MainSwap \/ MainRelease
              \/ MainOpenSerial \/ MainListen \/ MainStartSlam
              \/ MainLoop \/ MainTrack \/ MainStop

-----------------------------------------------------------------------------
(* The HTTP thread *)

\* Fault: the server listens from the start.
HttpUpEarly == mainPc # "exited"

\* The server listens from MainListen on.
HttpUp == ~InSpeedTest /\ mainPc \notin {"open", "listen", "exited"}

\* POST /SHUTDOWN!
PostShutdown ==
  /\ HttpUp
  /\ ~gShutdownFlag
  /\ gShutdownFlag' = TRUE
  /\ UNCHANGED <<nextFrameSignal, frameAvailableSignal, currentCameraBuffer,
                 cameraVars, mainVars>>

-----------------------------------------------------------------------------

HandshakeNext == CameraThread \/ MainThread \/ PostShutdown

HandshakeSpec == HandshakeInit /\ [][HandshakeNext]_handshakeVars

\* Both threads are scheduled for as long as they can run, and the calls
\* into the camera, the serial port and ORB_SLAM2 return.
FairHandshake == /\ HandshakeSpec
                 /\ WF_handshakeVars(CameraThread)
                 /\ WF_handshakeVars(MainThread)

-----------------------------------------------------------------------------

CameraPcs == {"loop", "wait", "grab", "retrieve", "target", "copy",
              "stampTarget", "stamp", "post", "done"}
MainPcs   == {"sleep", "wait", "get", "copy", "swap", "release", "open",
              "listen", "slam", "loop", "track", "stop", "exited"}

HandshakeTypeOK ==
  /\ nextFrameSignal \in 0 .. 1
  /\ frameAvailableSignal \in 0 .. 1
  /\ currentCameraBuffer \in Slots
  /\ cameraPc \in CameraPcs
  /\ slot \in Slots
  /\ mainPc \in MainPcs
  /\ testLeft \in 0 .. SpeedTestFrames
  /\ gShutdownFlag \in BOOLEAN

\* A thread that has consumed a unit of one semaphore and has yet to give
\* one to the other.
CameraHolds == cameraPc \in {"grab", "retrieve", "target", "copy",
                             "stampTarget", "stamp", "post"}
MainHolds   == mainPc \in {"get", "copy", "swap", "release"}

UnitsInPlay == nextFrameSignal + frameAvailableSignal
                 + (IF CameraHolds THEN 1 ELSE 0) + (IF MainHolds THEN 1 ELSE 0)

(* The semaphores start with two units between them, notify() may absorb    *)
(* one, but the saturation never swallows the last one: the threads can     *)
(* always hand over one more frame (the Semaphore, lines 29-48 and 67-89).  *)
NeverOutOfUnits == UnitsInPlay \in {1, 2}

(* The main thread never reads a slot, image or time, that the camera       *)
(* thread is writing, whatever the timing of the first capture and although *)
(* the index moves under the camera thread between lines 73 and 80.         *)
NoSlotRace ==
  slot = currentCameraBuffer =>
    /\ ~(cameraPc = "copy" /\ mainPc = "copy")
    /\ ~(cameraPc = "stamp" /\ mainPc = "get")

(* When the first capture beats usleep(100000), one of the two units is     *)
(* absorbed and the threads alternate from then on: one of them works on    *)
(* the ring while the other one waits (lines 70-99 and 189-204).            *)
Alternation ==
  WarmStart /\ mainPc # "sleep" => ~(CameraHolds /\ MainHolds)

(* And then an image and its time go to the same slot, although the code    *)
(* computes the index twice (lines 79 and 80).                              *)
StampFollowsImage ==
  [][WarmStart /\ CameraStartStamp => slot' = slot]_handshakeVars

(* The main loop keeps tracking frames until the process is asked to stop   *)
(* or fails to start.                                                       *)
KeepsTracking == []<>(mainPc \in {"track", "exited"} \/ gShutdownFlag)

\* The camera thread has seen the flag and left with the unit that the main
\* thread, already inside getCameraBuffer(), is waiting for.
MainStranded ==
  /\ gShutdownFlag
  /\ mainPc = "wait" /\ frameAvailableSignal = 0
  /\ cameraPc = "done"

(* A shutdown request ends the process, except in one way: the camera       *)
(* thread leaves its loop (line 72) before the main thread has what it      *)
(* needs to look at the flag again (lines 397-405).                         *)
ShutdownEndsProcess == gShutdownFlag ~> (mainPc = "exited" \/ MainStranded)
==============================================================================

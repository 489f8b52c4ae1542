----------------------------- MODULE ProcessProofs -----------------------------
(***************************************************************************)
(* What is built upon the handshake of main thread and camera thread.      *)
(*                                                                         *)
(* The properties of FramePipeline for every ring of two buffers or more,  *)
(* every speed test and any number of captures: no torn image reaches      *)
(* ORB_SLAM2 whatever the start timing, and after a warm start it is fed   *)
(* as FrameFeed says.  Then what a viewer of VideoStream gets to see of    *)
(* the temporary buffer of that pipeline.                                  *)
(*                                                                         *)
(* Last Lifecycle: the whole process does to the capture ring what         *)
(* FrameHandshake says and nothing else, and what its threads use is there *)
(* for as long as they run, for any number of viewers.                     *)
(***************************************************************************)
EXTENDS VideoStream, Lifecycle, FrameHandshakeProofs

-----------------------------------------------------------------------------
(* The invariant behind NoTornImage. *)

\* A half-written buffer is the one the camera thread is writing now.
TornInv ==
  /\ tempCameraBuffer = Mixed => cameraPc = "retrieve"
  /\ \A s \in Slots :
       cameraBuffers[s] = Mixed => cameraPc = "copy" /\ s = slot
  /\ im # Mixed
  /\ tracked.image # Mixed

-----------------------------------------------------------------------------
(* The invariant behind the properties of a warm start.  One unit is left, *)
(* so there is a camera's turn and a main thread's turn.                   *)

CameraTurn == nextFrameSignal = 1 \/ CameraHolds

\* The camera thread has the next frame, but not in the ring yet.
Grabbed == cameraPc \in {"retrieve", "target", "copy", "stampTarget",
                         "stamp", "post"}

\* The newest frame before the one that the current round brings.
Settled == IF CameraTurn /\ ~Grabbed THEN captured ELSE captured - 1

\* The current slot holds that frame, until swapCameraBuffers() moves on.
CurrentInv ==
  LET frame == IF mainPc = "release" THEN captured ELSE Settled
  IN  /\ cameraBuffers[currentCameraBuffer] = frame
      /\ cameraBufferTimes[currentCameraBuffer] = frame

\* The frame of the round, from the temporary buffer into the next slot.
RoundInv ==
  LET next == Successor(currentCameraBuffer)
      imageThere == \/ cameraPc \in {"stampTarget", "stamp", "post"}
                    \/ ~CameraTurn /\ mainPc # "release"
      timeThere  == \/ cameraPc = "post"
                    \/ ~CameraTurn /\ mainPc # "release"
  IN  /\ cameraPc \in {"target", "copy"} => tempCameraBuffer = captured
      /\ imageThere => cameraBuffers[next] = captured
      /\ timeThere => cameraBufferTimes[next] = captured

\* What the main thread has in hand in its main loop.
InHandInv ==
  testLeft = 0 =>
    /\ mainPc = "copy" => timestamp = Settled
    /\ mainPc \in {"swap", "release"} => im = Settled /\ timestamp = Settled
    /\ mainPc = "track" => im = Settled - 1 /\ timestamp = Settled - 1

\* What ORB_SLAM2 has seen.
TrackedInv ==
  /\ tracked.image = tracked.time
  /\ tracked.image # 0 =>
       /\ testLeft = 0
       /\ tracked.image = IF mainPc = "track" THEN Settled - 2 ELSE Settled - 1

\* The first round has settled once the speed test has begun to release.
StartInv ==
  /\ mainPc # "sleep" \/ Grabbed \/ ~CameraTurn => captured > 0
  /\ testLeft < SpeedTestFrames => Settled > 0
  /\ mainPc = "track" => Settled > 1
  /\ mainPc = "sleep" => testLeft = SpeedTestFrames
  /\ mainPc \in {"open", "listen", "slam", "track", "loop", "stop"}
       => testLeft = 0

WarmInv == /\ CurrentInv
           /\ RoundInv
           /\ InHandInv
           /\ TrackedInv
           /\ StartInv
-----------------------------------------------------------------------------
(* The handshake inside the pipeline. *)

LEMMA StepIsHandshake == [Next]_vars => [HandshakeNext]_handshakeVars
BY DEF Next, vars, GrabFrame, RetrieveFrame, StartCopyFrame, EndCopyFrame,
       StampFrame, GetFrame, CopyFrame, TrackFrame, MoveNoFrame,
       HandshakeNext, CameraThread, MainThread

\* So HandshakeInv, and what follows from it, holds of the pipeline.
LEMMA PipelineHandshake == Spec => []HandshakeInv /\ []NoSlotRace
<1>1. Init => HandshakeInit
  BY DEF Init
<1>2. Spec => HandshakeSpec
  BY <1>1, StepIsHandshake, PTL DEF Spec, HandshakeSpec
<1> QED BY <1>2, InvAlways, SlotsNeverRace, PTL

-----------------------------------------------------------------------------
(* Types. *)

LEMMA PipelineTypeInit == Init => TypeOK
BY FramesAssumption, InitTypeOK
   DEF Init, TypeOK, Images, Times, Frames, Blank, Mixed

LEMMA PipelineTypeStep ==
  ASSUME TypeOK, [Next]_vars
  PROVE  TypeOK'
<1>0. HandshakeTypeOK'
  BY TypeStep, StepIsHandshake DEF TypeOK
<1>a. captured \in Images /\ captured \in Times
  BY FramesAssumption DEF TypeOK, Images, Times, Frames, Blank
<1> USE FramesAssumption, <1>0, <1>a
    DEF TypeOK, Images, Times, Frames, Blank, Mixed
<1>1. CASE GrabFrame
  BY <1>1 DEF GrabFrame
<1>2. CASE RetrieveFrame
  BY <1>2 DEF RetrieveFrame
<1>3. CASE StartCopyFrame
  BY <1>3 DEF StartCopyFrame
<1>4. CASE EndCopyFrame
  BY <1>4 DEF EndCopyFrame
<1>5. CASE StampFrame
  BY <1>5 DEF StampFrame
<1>6. CASE GetFrame
  BY <1>6 DEF GetFrame, HandshakeTypeOK
<1>7. CASE CopyFrame
  BY <1>7 DEF CopyFrame, HandshakeTypeOK
<1>8. CASE TrackFrame
  BY <1>8 DEF TrackFrame
<1>9. CASE MoveNoFrame
  BY <1>9 DEF MoveNoFrame, frameVars
<1>10. CASE UNCHANGED vars
  BY <1>10 DEF vars, frameVars
<1> QED BY <1>1, <1>2, <1>3, <1>4, <1>5, <1>6, <1>7, <1>8, <1>9, <1>10
        DEF Next

(* Every variable of the pipeline keeps its type, for all constants.        *)
THEOREM PipelineTypeCorrect == Spec => []TypeOK
<1>1. TypeOK /\ [Next]_vars => TypeOK'
  BY PipelineTypeStep
<1> QED BY PipelineTypeInit, <1>1, PTL DEF Spec

-----------------------------------------------------------------------------
(* No torn image. *)

LEMMA TornStep ==
  ASSUME TypeOK, NoSlotRace, TornInv, [Next]_vars
  PROVE  TornInv'
<1>0. captured # Mixed /\ captured' # Mixed
  BY PipelineTypeStep, FramesAssumption DEF TypeOK, Mixed
<1> USE <1>0 DEF TornInv, TypeOK, HandshakeTypeOK
<1>1. CASE GrabFrame
  BY <1>1 DEF GrabFrame, CameraGrab, CameraAt
<1>2. CASE RetrieveFrame
  BY <1>2 DEF RetrieveFrame, CameraRetrieve, CameraAt
<1>3. CASE StartCopyFrame
  BY <1>3 DEF StartCopyFrame, CameraStartCopy, CameraAt
<1>4. CASE EndCopyFrame
  BY <1>4 DEF EndCopyFrame, CameraEndCopy, CameraAt
<1>5. CASE StampFrame
  BY <1>5 DEF StampFrame, CameraEndStamp, CameraAt
<1>6. CASE GetFrame
  BY <1>6 DEF GetFrame, MainGet, MainAt, cameraVars
\* The copy of the main thread: its slot is not the one being written.
<1>7. CASE CopyFrame
  <2>1. cameraBuffers[currentCameraBuffer] # Mixed
    BY <1>7 DEF CopyFrame, MainCopy, MainAt, NoSlotRace
  <2> QED BY <1>7, <2>1 DEF CopyFrame, MainCopy, MainAt, cameraVars
<1>8. CASE TrackFrame
  BY <1>8 DEF TrackFrame, MainTrack, MainAt, cameraVars
<1>9. CASE MoveNoFrame
  BY <1>9 DEF MoveNoFrame, frameVars, CameraLoop, CameraWait,
     CameraStartStamp, CameraPost, MainWake, MainWait, MainSwap, MainRelease,
     MainOpenSerial, MainListen, MainStartSlam, MainLoop, MainStop,
     PostShutdown, CameraAt, cameraVars
<1>10. CASE UNCHANGED vars
  BY <1>10 DEF vars, frameVars, handshakeVars
<1> QED BY <1>1, <1>2, <1>3, <1>4, <1>5, <1>6, <1>7, <1>8, <1>9, <1>10
        DEF Next

(* For every ring, every start timing and any number of captures: the       *)
(* matrix given to ORB_SLAM2 never holds part of a frame.                   *)
THEOREM ImagesAreNotTorn == Spec => []NoTornImage
<1>1. Init => TornInv
  BY DEF Init, TornInv, Blank, Mixed
<1>2. TypeOK /\ NoSlotRace /\ TornInv /\ [Next]_vars => TornInv'
  BY TornStep
<1>3. TornInv => NoTornImage
  BY DEF TornInv, NoTornImage
<1> QED BY <1>1, <1>2, <1>3, PipelineTypeCorrect, PipelineHandshake, PTL
        DEF Spec
-----------------------------------------------------------------------------
(* The warm start. *)

\* What HandshakeInv says of the turns.
LEMMA Turns ==
  ASSUME WarmStart, HandshakeInv
  PROVE  /\ nextFrameSignal \in {0, 1}
         /\ CameraHolds => nextFrameSignal = 0
         /\ MainHolds => ~CameraTurn
         /\ mainPc # "sleep" /\ frameAvailableSignal = 1 => ~CameraTurn
BY DEF HandshakeInv, HandshakeTypeOK, NeverOutOfUnits, SleepInv, WarmUnits,
       UnitsInPlay, CameraTurn, MainHolds

LEMMA WarmInit ==
  ASSUME Init
  PROVE  WarmInv
<1>1. /\ nextFrameSignal = 1 /\ captured = 0 /\ cameraPc = "loop"
      /\ mainPc = "sleep" /\ testLeft = SpeedTestFrames
      /\ currentCameraBuffer \in Slots
      /\ tracked = [image |-> 0, time |-> 0]
  BY HandshakeAssumption
     DEF Init, HandshakeInit, NextFrame!Init, Slots, Blank
<1>2. CameraTurn /\ ~Grabbed /\ Settled = 0
  BY <1>1 DEF CameraTurn, Grabbed, Settled
<1>3. CurrentInv
  BY <1>1, <1>2 DEF Init, CurrentInv, Blank
<1>4. RoundInv /\ InHandInv /\ TrackedInv /\ StartInv
  BY <1>1, <1>2, HandshakeAssumption
     DEF RoundInv, InHandInv, TrackedInv, StartInv, Grabbed
<1> QED BY <1>3, <1>4 DEF WarmInv

LEMMA WarmStep ==
  ASSUME WarmStart, HandshakeInv, HandshakeInv', TypeOK, TypeOK', WarmInv,
         [Next]_vars
  PROVE  WarmInv'
<1>a. /\ captured \in Nat /\ captured' \in Nat
      /\ currentCameraBuffer \in Slots
      /\ Successor(currentCameraBuffer) \in Slots
      /\ Successor(currentCameraBuffer) # currentCameraBuffer
      /\ SpeedTestFrames \in Nat \ {0}
      /\ testLeft \in 0 .. SpeedTestFrames /\ testLeft' \in 0 .. SpeedTestFrames
  BY FramesAssumption, HandshakeAssumption, SuccessorFact
     DEF TypeOK, HandshakeTypeOK
<1>b. cameraBuffers \in [Slots -> Images] /\ cameraBufferTimes \in [Slots -> Times]
  BY DEF TypeOK
<1>t. /\ nextFrameSignal \in {0, 1}
      /\ CameraHolds => nextFrameSignal = 0
      /\ MainHolds => ~CameraTurn
      /\ mainPc # "sleep" /\ frameAvailableSignal = 1 => ~CameraTurn
  BY Turns
<1>w. cameraPc \in {"copy", "stampTarget", "stamp"} =>
        slot = Successor(currentCameraBuffer)
  BY DEF HandshakeInv, WarmSlot
<1> USE <1>a, <1>b, <1>t, <1>w
    DEF WarmInv, CurrentInv, RoundInv, InHandInv, TrackedInv, StartInv,
        Settled, CameraTurn, Grabbed, CameraHolds, MainHolds
<1>1. CASE GrabFrame
  BY <1>1 DEF GrabFrame, CameraGrab, CameraAt, mainVars
<1>2. CASE RetrieveFrame
  BY <1>2 DEF RetrieveFrame, CameraRetrieve, CameraAt, mainVars
<1>3. CASE StartCopyFrame
  BY <1>3 DEF StartCopyFrame, CameraStartCopy, CameraAt, mainVars
<1>4. CASE EndCopyFrame
  BY <1>4 DEF EndCopyFrame, CameraEndCopy, CameraAt, mainVars
<1>5. CASE StampFrame
  BY <1>5 DEF StampFrame, CameraEndStamp, CameraAt, mainVars
<1>6. CASE GetFrame
  BY <1>6 DEF GetFrame, MainGet, MainAt, InSpeedTest, cameraVars
<1>7. CASE CopyFrame
  BY <1>7 DEF CopyFrame, MainCopy, MainAt, cameraVars
<1>8. CASE TrackFrame
  BY <1>8 DEF TrackFrame, MainTrack, MainAt, cameraVars
<1>9. CASE MoveNoFrame
  <2> USE <1>9 DEF MoveNoFrame, frameVars
  <2>1. CASE CameraLoop
    BY <2>1 DEF CameraLoop, CameraAt, mainVars
  <2>2. CASE CameraWait
    BY <2>2 DEF CameraWait, CameraAt, mainVars, NextFrame!Wait
  <2>3. CASE CameraStartStamp
    BY <2>3 DEF CameraStartStamp, CameraAt, mainVars
  <2>4. CASE CameraPost
    BY <2>4 DEF CameraPost, CameraAt, mainVars
  <2>5. CASE MainWake
    BY <2>5 DEF MainWake, MainAt, FirstFramePosted, cameraVars
  <2>6. CASE MainWait
    BY <2>6 DEF MainWait, MainAt, cameraVars, FrameAvailable!Wait
  <2>7. CASE MainSwap
    BY <2>7 DEF MainSwap, MainAt, cameraVars
  <2>8. CASE MainRelease
    BY <2>8 DEF MainRelease, MainAt, InSpeedTest, cameraVars, NextFrame!Notify
  <2>9. CASE MainOpenSerial \/ MainListen \/ MainStartSlam \/ MainLoop \/ MainStop
    BY <2>9 DEF MainOpenSerial, MainListen, MainStartSlam, MainLoop, MainStop,
                MainAt, cameraVars
  <2>10. CASE PostShutdown
    BY <2>10 DEF PostShutdown, cameraVars, mainVars
  <2> QED BY <2>1, <2>2, <2>3, <2>4, <2>5, <2>6, <2>7, <2>8, <2>9, <2>10
<1>10. CASE UNCHANGED vars
  BY <1>10 DEF vars, frameVars, handshakeVars
<1> QED BY <1>1, <1>2, <1>3, <1>4, <1>5, <1>6, <1>7, <1>8, <1>9, <1>10
        DEF Next

LEMMA WarmAlways == Spec => [](WarmStart => WarmInv)
<1> DEFINE WInv == WarmStart => WarmInv
<1>1. Init => WInv
  BY WarmInit
<1>2. /\ HandshakeInv /\ HandshakeInv' /\ TypeOK /\ TypeOK'
      /\ WInv /\ [Next]_vars
      => WInv'
  BY WarmStep
<1> HIDE DEF WInv
<1>3. Spec => []WInv
  BY <1>1, <1>2, PipelineTypeCorrect, PipelineHandshake, PTL DEF Spec
<1> QED BY <1>3 DEF WInv

(* After a warm start, for any number of captures, every image is tracked   *)
(* with the time of its own capture.                                        *)
THEOREM ImagesKeepTheirTime == Spec => []TrackedWithOwnTime
<1>1. (WarmStart => WarmInv) => TrackedWithOwnTime
  BY DEF WarmInv, TrackedInv, TrackedWithOwnTime
<1> QED BY <1>1, WarmAlways, PTL

\* A main thread about to track holds a frame one round old.
LEMMA InHandAtTrack ==
  ASSUME WarmInv, TypeOK, mainPc = "track"
  PROVE  /\ im = timestamp
         /\ im = Settled - 1
         /\ im \in 1 .. captured - 1
         /\ Settled \in {captured, captured - 1}
<1>1. testLeft = 0 /\ Settled > 1
  BY DEF WarmInv, StartInv
<1>2. captured \in Nat
  BY FramesAssumption DEF TypeOK
<1> QED BY <1>1, <1>2 DEF WarmInv, InHandInv, Settled

(* After a warm start ORB_SLAM2 never sees memory no capture has filled.    *)
THEOREM BlankIsNeverTracked == Spec => []NeverTracksBlank
<1>1. TypeOK /\ (WarmStart => WarmInv) => NeverTracksBlank
  BY InHandAtTrack, FramesAssumption DEF NeverTracksBlank, TypeOK, Frames
<1> QED BY <1>1, WarmAlways, PipelineTypeCorrect, PTL

(* After a warm start the image in hand is one or two captures old.         *)
THEOREM TrackedFramesAreFresh == Spec => []FreshEnough
<1>1. TypeOK /\ (WarmStart => WarmInv) => FreshEnough
  <2> SUFFICES ASSUME TypeOK, WarmInv, mainPc = "track"
               PROVE  captured - im \in {1, 2}
    BY DEF FreshEnough
  <2>1. captured \in Nat
    BY FramesAssumption DEF TypeOK
  <2> QED BY InHandAtTrack, <2>1
<1> QED BY <1>1, WarmAlways, PipelineTypeCorrect, PTL

\* Every step of the pipeline is a step of the feed or leaves it alone.
LEMMA FeedStep ==
  ASSUME WarmInv, TypeOK, [Next]_vars
  PROVE  [Feed!Next]_(Feed!feedVars)
<1> SUFFICES Feed!Capture \/ Feed!Track \/ UNCHANGED <<captured, tracked>>
  BY DEF Feed!Next, Feed!feedVars
<1>0. captured \in Nat
  BY FramesAssumption DEF TypeOK
<1>1. CASE GrabFrame
  <2>1. cameraPc = "grab"
    BY <1>1 DEF GrabFrame, CameraGrab, CameraAt
  <2>2. Settled = captured
    BY <2>1 DEF Settled, CameraTurn, CameraHolds, Grabbed
  <2>3. tracked.image > 0 => captured <= tracked.image + 2
    BY <1>0, <2>2 DEF WarmInv, TrackedInv
  <2> QED BY <1>1, <2>3 DEF GrabFrame, Feed!Capture
<1>2. CASE TrackFrame
  <2>1. mainPc = "track"
    BY <1>2 DEF TrackFrame, MainTrack, MainAt
  <2>2. /\ im = timestamp /\ im = Settled - 1 /\ im \in 1 .. captured - 1
        /\ Settled \in {captured, captured - 1}
    BY <2>1, InHandAtTrack
  <2>3. tracked.image > 0 => im = tracked.image + 1
    BY <1>0, <2>1, <2>2 DEF WarmInv, TrackedInv
  <2>4. tracked' = [image |-> im, time |-> im] /\ captured' = captured
    BY <1>2, <2>2 DEF TrackFrame
  <2> QED BY <2>2, <2>3, <2>4 DEF Feed!Track
<1>3. CASE \/ RetrieveFrame \/ StartCopyFrame \/ EndCopyFrame \/ StampFrame
           \/ GetFrame \/ CopyFrame
  BY <1>3 DEF RetrieveFrame, StartCopyFrame, EndCopyFrame, StampFrame,
              GetFrame, CopyFrame
<1>4. CASE MoveNoFrame \/ UNCHANGED vars
  BY <1>4 DEF MoveNoFrame, vars, frameVars
<1> QED BY <1>1, <1>2, <1>3, <1>4 DEF Next

(* After a warm start the pipeline implements FrameFeed, for every ring,    *)
(* every speed test and any number of captures.                             *)
THEOREM WarmStartImplementsFeed ==
  ASSUME WarmStart
  PROVE  Spec => ImplementsFeed
<1>1. Init => Feed!Init
  BY DEF Init, Feed!Init, Blank
<1>2. (WarmStart => WarmInv) /\ TypeOK /\ [Next]_vars
        => [Feed!Next]_(Feed!feedVars)
  BY FeedStep
<1> QED BY <1>1, <1>2, WarmAlways, PipelineTypeCorrect, PTL
        DEF Spec, ImplementsFeed, Feed!Spec
-----------------------------------------------------------------------------
(* The viewer. *)

\* Except during camera.retrieve() the temporary buffer is the newest frame,
\* and so is what an undisturbed encoder has read.
NewestInv ==
  /\ cameraPc # "retrieve" => tempCameraBuffer = captured
  /\ streamPc = "encoding" /\ undisturbed => cameraPc # "retrieve"
  /\ streamPc \in {"encoding", "send"} /\ undisturbed => jpeg = {captured}

\* Before the first capture: the camera thread still has its first unit, and the
\* main thread, which has one frame at most to consume that nobody captured, is
\* asleep or at the first two iterations of the speed test.
BeforeFirst ==
  /\ \/ cameraPc = "grab"
     \/ cameraPc \in {"loop", "wait", "done"} /\ nextFrameSignal = 1
  /\ \/ /\ mainPc \in {"sleep", "wait"} /\ frameAvailableSignal = 1
        /\ testLeft = SpeedTestFrames
     \/ /\ mainPc \in {"get", "swap", "release"} /\ frameAvailableSignal = 0
        /\ testLeft = SpeedTestFrames
     \/ /\ mainPc = "wait" /\ frameAvailableSignal = 0
        /\ testLeft = SpeedTestFrames - 1 /\ InSpeedTest
  /\ WarmStart => mainPc = "sleep"

\* So nobody watches then.
BlankInv ==
  /\ tempCameraBuffer = Blank => BeforeFirst
  /\ cameraPc = "retrieve" => captured > 0
  /\ streamPc # "away" => tempCameraBuffer # Blank
  /\ Blank \notin jpeg

\* The other threads do not know of the viewer.
LEMMA StreamIsPipeline == StreamSpec => Spec
<1>1. StreamInit => Init
  BY DEF StreamInit
<1>2. [StreamNext]_<<vars, streamVars>> => [Next]_vars
  BY DEF StreamNext, Pipeline, StreamThread, Request, BeginEncode, EndEncode, SendPicture, StreamLoop, StreamAt
<1> QED BY <1>1, <1>2, PTL DEF StreamSpec, Spec

\* What the pipeline does to the temporary buffer.
LEMMA BufferStep ==
  ASSUME [Next]_vars, cameraPc # "retrieve" => tempCameraBuffer = captured
  PROVE  /\ ~GrabFrame => captured' = captured
         /\ ~GrabFrame /\ cameraPc # "retrieve" => cameraPc' # "retrieve"
         /\ cameraPc' # "retrieve" => tempCameraBuffer' = captured'
<1>1. CASE GrabFrame
  BY <1>1 DEF GrabFrame, CameraGrab, CameraAt
<1>2. CASE RetrieveFrame
  BY <1>2 DEF RetrieveFrame, CameraRetrieve, CameraAt
<1>3. CASE StartCopyFrame \/ EndCopyFrame \/ StampFrame
  BY <1>3 DEF StartCopyFrame, EndCopyFrame, StampFrame, CameraStartCopy,
     CameraEndCopy, CameraEndStamp, CameraAt
<1>4. CASE GetFrame \/ CopyFrame \/ TrackFrame
  BY <1>4 DEF GetFrame, CopyFrame, TrackFrame, MainGet, MainCopy, MainTrack, cameraVars
<1>5. CASE MoveNoFrame
  <2>1. UNCHANGED <<captured, tempCameraBuffer>>
    BY <1>5 DEF MoveNoFrame, frameVars
  <2>2. cameraPc' = cameraPc \/ (cameraPc # "retrieve" /\ cameraPc' # "retrieve")
    BY <1>5 DEF MoveNoFrame, CameraLoop, CameraWait, CameraStartStamp,
       CameraPost, MainWake, MainWait, MainSwap, MainRelease, MainOpenSerial,
       MainListen, MainStartSlam, MainLoop, MainStop, PostShutdown, CameraAt,
       cameraVars
  <2> QED BY <1>5, <2>1, <2>2
<1>6. CASE UNCHANGED vars
  BY <1>6 DEF vars, handshakeVars, frameVars
<1> QED BY <1>1, <1>2, <1>3, <1>4, <1>5, <1>6 DEF Next

LEMMA NewestStep ==
  ASSUME NewestInv, [StreamNext]_<<vars, streamVars>>
  PROVE  NewestInv'
<1>1. CASE Pipeline
  <2>1. /\ ~GrabFrame => captured' = captured
        /\ ~GrabFrame /\ cameraPc # "retrieve" => cameraPc' # "retrieve"
        /\ cameraPc' # "retrieve" => tempCameraBuffer' = captured'
    BY <1>1, BufferStep DEF Pipeline, NewestInv
  <2>2. undisturbed' => undisturbed /\ ~GrabFrame
    BY <1>1 DEF Pipeline
  <2> QED BY <1>1, <2>1, <2>2 DEF Pipeline, NewestInv
<1>2. CASE StreamThread
  <2>1. UNCHANGED <<cameraPc, tempCameraBuffer, captured>>
    BY <1>2 DEF StreamThread, Request, BeginEncode, EndEncode, SendPicture, StreamLoop, StreamAt,
       vars, handshakeVars, frameVars
  <2>2. CASE BeginEncode
    BY <2>1, <2>2 DEF BeginEncode, StreamAt, NewestInv
  <2>3. CASE EndEncode
    BY <2>1, <2>3 DEF EndEncode, StreamAt, NewestInv
  <2>4. CASE Request \/ SendPicture \/ StreamLoop
    BY <2>1, <2>4 DEF Request, SendPicture, StreamLoop, StreamAt, NewestInv
  <2> QED BY <1>2, <2>2, <2>3, <2>4 DEF StreamThread
<1>3. CASE UNCHANGED <<vars, streamVars>>
  BY <1>3 DEF vars, handshakeVars, frameVars, streamVars, NewestInv
<1> QED BY <1>1, <1>2, <1>3 DEF StreamNext

(* Whatever the timing of the viewer and of the other threads: a picture    *)
(* whose encoding camera.retrieve() did not disturb is the newest frame and *)
(* whole (mono_raspi.cpp 77-79, 101-113).                                   *)
THEOREM PicturesAreNewest == StreamSpec => []PictureIsNewestFrame
<1>1. StreamInit => NewestInv
  BY DEF StreamInit, Init, HandshakeInit, NewestInv, Blank
<1>2. NewestInv /\ [StreamNext]_<<vars, streamVars>> => NewestInv'
  BY NewestStep
<1>3. NewestInv => PictureIsNewestFrame
  BY DEF NewestInv, PictureIsNewestFrame
<1> QED BY <1>1, <1>2, <1>3, PTL DEF StreamSpec

(* The picture is made of frames, and the viewer is where its code can be,  *)
(* for all constants.                                                       *)
THEOREM StreamTypeCorrect == StreamSpec => []StreamTypeOK
<1> DEFINE ViewerOK == /\ streamPc \in {"away", "encode", "encoding", "send", "loop"}
                       /\ jpeg \subseteq Images
                       /\ undisturbed \in BOOLEAN
<1>1. StreamInit => ViewerOK
  BY DEF StreamInit
<1>2. TypeOK /\ ViewerOK /\ [StreamNext]_<<vars, streamVars>> => ViewerOK'
  <2> SUFFICES ASSUME TypeOK, ViewerOK, [StreamNext]_<<vars, streamVars>>
               PROVE  ViewerOK'
    OBVIOUS
  <2>1. Images' = Images /\ tempCameraBuffer \in Images
    BY DEF TypeOK, Images, Frames
  <2>2. CASE Pipeline
    BY <2>1, <2>2 DEF Pipeline
  <2>3. CASE StreamThread
    BY <2>1, <2>3 DEF StreamThread, Request, BeginEncode, EndEncode, SendPicture, StreamLoop, StreamAt
  <2>4. CASE UNCHANGED <<vars, streamVars>>
    BY <2>1, <2>4 DEF streamVars
  <2> QED BY <2>2, <2>3, <2>4 DEF StreamNext
<1>3. TypeOK /\ ViewerOK => StreamTypeOK
  BY DEF StreamTypeOK
<1> HIDE DEF ViewerOK
<1> QED BY <1>1, <1>2, <1>3, StreamIsPipeline, PipelineTypeCorrect, PTL
        DEF StreamSpec

-----------------------------------------------------------------------------
(* Nobody sees the buffer before the first capture. *)

\* The pipeline does not get on without the camera.
LEMMA BeforeFirstStep ==
  ASSUME WarmStart \/ SpeedTestFrames >= 2, BeforeFirst, [Next]_vars,
         tempCameraBuffer' = Blank, TypeOK
  PROVE  BeforeFirst'
<1>0. /\ SpeedTestFrames \in Nat \ {0} /\ testLeft \in Nat
      /\ WarmStart' = WarmStart
      /\ mainPc = "wait" \/ testLeft = SpeedTestFrames
  BY HandshakeAssumption DEF TypeOK, HandshakeTypeOK, BeforeFirst
<1> USE <1>0 DEF BeforeFirst, InSpeedTest
<1>1. CASE GrabFrame
  BY <1>1 DEF GrabFrame, Blank, Mixed
<1>2. CASE RetrieveFrame \/ StartCopyFrame \/ EndCopyFrame \/ StampFrame
  BY <1>2 DEF RetrieveFrame, StartCopyFrame, EndCopyFrame, StampFrame,
     CameraRetrieve, CameraStartCopy, CameraEndCopy, CameraEndStamp, CameraAt
<1>3. CASE GetFrame
  BY <1>3 DEF GetFrame, MainGet, MainAt, cameraVars
<1>4. CASE CopyFrame \/ TrackFrame
  BY <1>4 DEF CopyFrame, TrackFrame, MainCopy, MainTrack, MainAt
<1>5. CASE MoveNoFrame
  <2>1. CASE CameraLoop
    BY <2>1 DEF CameraLoop, CameraAt, mainVars
  <2>2. CASE CameraWait
    BY <2>2 DEF CameraWait, CameraAt, mainVars, NextFrame!Wait
  <2>3. CASE CameraStartStamp \/ CameraPost
    BY <2>3 DEF CameraStartStamp, CameraPost, CameraAt
  <2>4. CASE MainWake
    BY <2>4 DEF MainWake, MainAt, FirstFramePosted, cameraVars
  <2>5. CASE MainWait
    BY <2>5 DEF MainWait, MainAt, cameraVars, FrameAvailable!Wait
  <2>6. CASE MainSwap
    BY <2>6 DEF MainSwap, MainAt, cameraVars
  <2>7. CASE MainRelease
    BY <2>7 DEF MainRelease, MainAt, cameraVars, NextFrame!Notify
  <2>8. CASE MainOpenSerial \/ MainListen \/ MainStartSlam \/ MainLoop \/ MainStop
    BY <2>8 DEF MainOpenSerial, MainListen, MainStartSlam, MainLoop, MainStop, MainAt
  <2>9. CASE PostShutdown
    BY <2>9 DEF PostShutdown, cameraVars, mainVars
  <2> QED BY <1>5, <2>1, <2>2, <2>3, <2>4, <2>5, <2>6, <2>7, <2>8, <2>9
          DEF MoveNoFrame
<1>6. CASE UNCHANGED vars
  BY <1>6 DEF vars, handshakeVars
<1> QED BY <1>1, <1>2, <1>3, <1>4, <1>5, <1>6 DEF Next

\* A buffer that has been filled once is never blank again.
LEMMA FilledStep ==
  ASSUME BlankInv, TypeOK, [Next]_vars
  PROVE  /\ tempCameraBuffer # Blank => tempCameraBuffer' # Blank
         /\ cameraPc' = "retrieve" => captured' > 0
<1>0. captured \in Nat
  BY FramesAssumption DEF TypeOK
<1> USE <1>0 DEF BlankInv, Blank, Mixed
<1>1. CASE GrabFrame
  BY <1>1 DEF GrabFrame, CameraGrab, CameraAt
<1>2. CASE RetrieveFrame
  BY <1>2 DEF RetrieveFrame, CameraRetrieve, CameraAt
<1>3. CASE StartCopyFrame \/ EndCopyFrame \/ StampFrame
  BY <1>3 DEF StartCopyFrame, EndCopyFrame, StampFrame, CameraStartCopy,
     CameraEndCopy, CameraEndStamp, CameraAt
<1>4. CASE GetFrame \/ CopyFrame \/ TrackFrame
  BY <1>4 DEF GetFrame, CopyFrame, TrackFrame, MainGet, MainCopy, MainTrack, cameraVars
<1>5. CASE MoveNoFrame
  <2>1. UNCHANGED <<captured, tempCameraBuffer>>
    BY <1>5 DEF MoveNoFrame, frameVars
  <2>2. cameraPc' = "retrieve" => cameraPc = "retrieve"
    BY <1>5 DEF MoveNoFrame, CameraLoop, CameraWait, CameraStartStamp,
       CameraPost, MainWake, MainWait, MainSwap, MainRelease, MainOpenSerial,
       MainListen, MainStartSlam, MainLoop, MainStop, PostShutdown, CameraAt,
       cameraVars
  <2> QED BY <2>1, <2>2
<1>6. CASE UNCHANGED vars
  BY <1>6 DEF vars, handshakeVars, frameVars
<1> QED BY <1>1, <1>2, <1>3, <1>4, <1>5, <1>6 DEF Next

LEMMA BlankStep ==
  ASSUME WarmStart \/ SpeedTestFrames >= 2, TypeOK, BlankInv,
         [StreamNext]_<<vars, streamVars>>
  PROVE  BlankInv'
<1>1. CASE Pipeline
  <2>1. [Next]_vars /\ UNCHANGED <<streamPc, jpeg>>
    BY <1>1 DEF Pipeline
  <2>2. /\ tempCameraBuffer # Blank => tempCameraBuffer' # Blank
        /\ cameraPc' = "retrieve" => captured' > 0
    BY <2>1, FilledStep
  <2>3. tempCameraBuffer' = Blank => BeforeFirst'
    BY <2>1, <2>2, BeforeFirstStep DEF BlankInv
  <2> QED BY <2>1, <2>2, <2>3 DEF BlankInv, Blank
<1>2. CASE StreamThread
  <2>1. /\ UNCHANGED vars
        /\ BeforeFirst' = BeforeFirst
    BY <1>2 DEF StreamThread, Request, BeginEncode, EndEncode, SendPicture, StreamLoop, StreamAt,
       vars, handshakeVars, BeforeFirst, InSpeedTest
  <2>2. UNCHANGED <<tempCameraBuffer, cameraPc, captured>>
    BY <2>1 DEF vars, handshakeVars, frameVars
  <2>3. CASE Request
    <3>1. ~BeforeFirst
      BY <2>3, HandshakeAssumption
         DEF Request, HttpUp, BeforeFirst, InSpeedTest, TypeOK, HandshakeTypeOK
    <3> QED BY <2>1, <2>2, <2>3, <3>1 DEF Request, BlankInv
  <2>4. CASE BeginEncode \/ EndEncode
    BY <2>1, <2>2, <2>4 DEF BeginEncode, EndEncode, StreamAt, BlankInv
  <2>5. CASE SendPicture \/ StreamLoop
    BY <2>1, <2>2, <2>5 DEF SendPicture, StreamLoop, StreamAt, BlankInv
  <2> QED BY <1>2, <2>3, <2>4, <2>5 DEF StreamThread
<1>3. CASE UNCHANGED <<vars, streamVars>>
  BY <1>3 DEF vars, handshakeVars, frameVars, streamVars, BlankInv, BeforeFirst, InSpeedTest
<1> QED BY <1>1, <1>2, <1>3 DEF StreamNext

(* Whenever the first capture comes: if the speed test takes two frames or  *)
(* more, as twice the frame rate of the camera does, or if the sleep before *)
(* it outlasts the first capture, no viewer gets to see the memory that no  *)
(* capture has filled (mono_raspi.cpp 189-211, 259-264, 295).               *)
THEOREM PicturesAreNeverBlank ==
  ASSUME WarmStart \/ SpeedTestFrames >= 2
  PROVE  StreamSpec => []PictureIsNeverBlank
<1>1. StreamInit => BlankInv
  <2> SUFFICES ASSUME StreamInit PROVE BlankInv
    OBVIOUS
  <2>1. BeforeFirst
    BY DEF StreamInit, Init, HandshakeInit, NextFrame!Init, FrameAvailable!Init, BeforeFirst
  <2> QED BY <2>1 DEF StreamInit, Init, HandshakeInit, BlankInv
<1>2. TypeOK /\ BlankInv /\ [StreamNext]_<<vars, streamVars>> => BlankInv'
  BY BlankStep
<1>3. BlankInv => PictureIsNeverBlank
  BY DEF BlankInv, PictureIsNeverBlank
<1> QED BY <1>1, <1>2, <1>3, StreamIsPipeline, PipelineTypeCorrect, PTL
        DEF StreamSpec

-----------------------------------------------------------------------------
(* The handshake inside the process. *)

LEMMA MainIsHandshake == Main => MainThread \/ UNCHANGED handshakeVars
BY DEF Main, HandleFrames, OpenSerial, FailSerial, Listen, StartSlam, StartPush,
       StartPoll, ShutdownSlam, SaveTrajectory, Unwind, Exit, MainThread

LEMMA ProcessIsHandshake == [LifecycleNext]_lifecycleVars => [HandshakeNext]_handshakeVars
<1>1. (\E thread \in Threads : Finish(thread)) => UNCHANGED handshakeVars
  BY DEF Finish
<1>2. (\E v \in Viewers : Watch(v) \/ Stream(v)) => UNCHANGED handshakeVars
  BY DEF Watch, Stream, Encode, Send, Loop, ViewerTo
<1> QED
  BY <1>1, <1>2, MainIsHandshake DEF LifecycleNext, lifecycleVars, Camera, Shutdown, HandshakeNext

LEMMA ProcessSteps == LifecycleSpec => LifecycleInit /\ [][LifecycleNext]_lifecycleVars
BY PTL DEF LifecycleSpec

(* The threads that use ORB_SLAM2, the HTTP server, its connections and the *)
(* way the process ends do not interfere with the handing over of frames:   *)
(* the process implements the handshake of main thread and camera thread    *)
(* (mono_raspi.cpp 262-439).                                                *)
THEOREM ProcessImplementsHandshake == LifecycleSpec => HandshakeSpec
<1>1. LifecycleInit => HandshakeInit
  BY DEF LifecycleInit
<1> QED
  BY <1>1, ProcessIsHandshake, ProcessSteps, PTL DEF HandshakeSpec

(* So no unit of the semaphores gets lost in the whole process,             *)
THEOREM ProcessKeepsUnits == LifecycleSpec => []NeverOutOfUnits
BY ProcessImplementsHandshake, UnitsNeverRunOut, PTL

(* and no slot is written while it is read, however it starts and ends.     *)
THEOREM ProcessSlotsNeverRace == LifecycleSpec => []NoSlotRace
BY ProcessImplementsHandshake, SlotsNeverRace, PTL

-----------------------------------------------------------------------------
(* What there is at each point of main(). *)

InMainLoop ==
  /\ testLeft = 0
  /\ mainPc \in {"wait", "get", "copy", "swap", "release", "track", "loop", "stop"}

\* The speed test comes before everything else,
TestInv ==
  /\ mainPc = "sleep" => testLeft > 0
  /\ mainPc \in {"open", "listen", "slam", "copy", "track", "loop", "stop"} => testLeft = 0

\* and main() makes its locals one after the other.
MadeInv ==
  /\ testLeft > 0 \/ mainPc = "open" => objects = {"t2"}
  /\ mainPc = "listen" => objects = {"t2", "stream"}
  /\ mainPc = "slam" => {"stream", "t3"} \subseteq objects
  /\ "networkPushThread" \in objects => "SLAM" \in objects
  /\ InMainLoop => {"stream", "SLAM", "slam_track_thread"} \subseteq objects

\* What main() destroys first when it leaves is a thread that was not joined.
LeavingInv == leaving => objects = {"t2"} \/ "slam_track_thread" \in objects

\* A thread needs what was made before it.
UseInv ==
  /\ running \cap {"networkPushThread", "slam_track_thread"} # {} => "SLAM" \in objects
  /\ "t3" \in running => "stream" \in objects
  /\ (\E v \in Viewers : viewer[v] # "away") => "stream" \in objects

ProcessInv == LifecycleTypeOK /\ TestInv /\ MadeInv /\ LeavingInv /\ UseInv

\* So the process never gets to destroy anything but such a thread.
LEMMA NextIsThread ==
  ASSUME objects = {"t2"} \/ "slam_track_thread" \in objects
  PROVE  NextLocal \in Threads
<1> DEFINE IsNext(n) == /\ Locals[n] \in objects
                        /\ \A earlier \in 1 .. n - 1 : Locals[earlier] \notin objects
<1>1. /\ DOMAIN Locals = 1 .. 6
      /\ Locals[1] = "slam_track_thread" /\ Locals[2] = "networkPushThread"
      /\ Locals[3] = "SLAM" /\ Locals[4] = "t3" /\ Locals[5] = "stream" /\ Locals[6] = "t2"
  BY DEF Locals
<1>2. CASE "slam_track_thread" \in objects
  <2>1. \A n \in 1 .. 6 : IsNext(n) <=> n = 1
    <3>1. IsNext(1)
      BY <1>1, <1>2
    <3>2. \A n \in 2 .. 6 : 1 \in 1 .. n - 1
      OBVIOUS
    <3> QED BY <1>1, <1>2, <3>1, <3>2
  <2>2. (CHOOSE n \in DOMAIN Locals : IsNext(n)) = 1
    <3> HIDE DEF IsNext
    <3> QED BY <1>1, <2>1
  <2> QED BY <1>1, <2>2 DEF NextLocal, Threads
<1>3. CASE objects = {"t2"}
  <2>1. \A n \in 1 .. 6 : IsNext(n) <=> n = 6
    <3>1. \A n \in 1 .. 5 : Locals[n] \notin objects
      BY <1>1, <1>3
    <3>2. Locals[6] \in objects
      BY <1>1, <1>3
    <3> QED BY <3>1, <3>2
  <2>2. (CHOOSE n \in DOMAIN Locals : IsNext(n)) = 6
    <3> HIDE DEF IsNext
    <3> QED BY <1>1, <2>1
  <2> QED BY <1>1, <2>2 DEF NextLocal, Threads
<1> QED BY <1>2, <1>3

LEMMA ProcessStarts == LifecycleInit => ProcessInv
<1> SUFFICES ASSUME LifecycleInit PROVE ProcessInv
  OBVIOUS
<1>1. HandshakeTypeOK
  BY InitTypeOK DEF LifecycleInit
<1>2. mainPc = "sleep" /\ testLeft = SpeedTestFrames /\ SpeedTestFrames > 0
  BY HandshakeAssumption DEF LifecycleInit, HandshakeInit
<1>3. LifecycleTypeOK
  BY <1>1 DEF LifecycleInit, LifecycleTypeOK, Threads
<1> QED
  BY <1>2, <1>3
     DEF LifecycleInit, ProcessInv, TestInv, MadeInv, InMainLoop, LeavingInv, UseInv

-----------------------------------------------------------------------------
(* A step of main(). *)

LEMMA FrameWork ==
  ASSUME ProcessInv, HandshakeTypeOK', HandleFrames
  PROVE  ProcessInv'
<1>1. LifecycleTypeOK' /\ LeavingInv' /\ UseInv'
  BY DEF HandleFrames, processVars, ProcessInv, LifecycleTypeOK, LeavingInv, UseInv
<1>2. testLeft \in Nat /\ objects' = objects
  BY HandshakeAssumption
     DEF ProcessInv, LifecycleTypeOK, HandshakeTypeOK, HandleFrames, processVars
<1>3. TestInv' /\ MadeInv'
  <2> USE <1>2 DEF ProcessInv, TestInv, MadeInv, InMainLoop
  <2>1. CASE MainWake
    BY <2>1 DEF MainWake, MainAt
  <2>2. CASE MainWait
    BY <2>2 DEF MainWait, MainAt
  <2>3. CASE MainGet
    BY <2>3 DEF MainGet, MainAt, InSpeedTest
  <2>4. CASE MainCopy
    BY <2>4 DEF MainCopy, MainAt
  <2>5. CASE MainSwap
    BY <2>5 DEF MainSwap, MainAt
  <2>6. CASE MainRelease
    BY <2>6 DEF MainRelease, MainAt, InSpeedTest
  <2>7. CASE MainLoop
    BY <2>7 DEF MainLoop, MainAt
  <2>8. CASE MainTrack
    BY <2>8 DEF MainTrack, MainAt
  <2> QED
    BY <2>1, <2>2, <2>3, <2>4, <2>5, <2>6, <2>7, <2>8 DEF HandleFrames
<1> QED
  BY <1>1, <1>3 DEF ProcessInv

LEMMA StartUp ==
  ASSUME ProcessInv, HandshakeTypeOK',
         OpenSerial \/ Listen \/ StartSlam \/ StartPush \/ StartPoll
  PROVE  ProcessInv'
<1> USE DEF ProcessInv, LifecycleTypeOK, TestInv, MadeInv, InMainLoop, LeavingInv, UseInv, Threads
<1>1. CASE OpenSerial
  BY <1>1 DEF OpenSerial, MainOpenSerial, MainAt, cameraVars
<1>2. CASE Listen
  BY <1>2 DEF Listen, MainListen, MainAt, Start, cameraVars
<1>3. CASE StartSlam
  BY <1>3 DEF StartSlam, handshakeVars
<1>4. CASE StartPush
  BY <1>4 DEF StartPush, Start, handshakeVars
<1>5. CASE StartPoll
  BY <1>5 DEF StartPoll, MainStartSlam, MainAt, Start, cameraVars
<1> QED
  BY <1>1, <1>2, <1>3, <1>4, <1>5

LEMMA Ending ==
  ASSUME ProcessInv, HandshakeTypeOK',
         FailSerial \/ ShutdownSlam \/ SaveTrajectory \/ Unwind
  PROVE  ProcessInv'
<1>1. CASE Unwind
  <2>1. leaving /\ NextLocal \in Threads
    BY <1>1, NextIsThread DEF Unwind, ProcessInv, LeavingInv
  <2>2. Exit /\ UNCHANGED processVars
    BY <1>1, <2>1 DEF Unwind, processVars
  <2>3. mainPc' = "exited" /\ testLeft' = testLeft /\ testLeft = 0
    BY <2>2 DEF Exit, MainOpenSerial, MainStop, MainAt, ProcessInv, TestInv
  <2>4. TestInv' /\ MadeInv'
    BY <2>2, <2>3 DEF processVars, ProcessInv, TestInv, MadeInv, InMainLoop
  <2> QED
    BY <2>2, <2>4 DEF processVars, ProcessInv, LifecycleTypeOK, LeavingInv, UseInv
<1>2. CASE FailSerial \/ ShutdownSlam \/ SaveTrajectory
  BY <1>2 DEF FailSerial, ShutdownSlam, SaveTrajectory, handshakeVars, ProcessInv,
     LifecycleTypeOK, TestInv, MadeInv, InMainLoop, LeavingInv, UseInv
<1> QED
  BY <1>1, <1>2

-----------------------------------------------------------------------------
(* A step of another thread. *)

LEMMA OtherThreads ==
  ASSUME ProcessInv, HandshakeTypeOK',
         \/ Camera \/ Shutdown
         \/ \E thread \in Threads : Finish(thread)
         \/ \E v \in Viewers : Watch(v) \/ Stream(v)
  PROVE  ProcessInv'
<1>0. /\ UNCHANGED <<mainPc, testLeft, objects, leaving, slamRuns>>
      /\ running' \subseteq running
  <2>1. CASE Camera
    BY <2>1 DEF Camera, processVars, CameraThread, CameraLoop, CameraWait,
       CameraGrab, CameraRetrieve, CameraStartCopy, CameraEndCopy,
       CameraStartStamp, CameraEndStamp, CameraPost, mainVars
  <2>2. CASE Shutdown
    BY <2>2 DEF Shutdown, PostShutdown, processVars, mainVars
  <2>3. CASE \E thread \in Threads : Finish(thread)
    BY <2>3 DEF Finish, handshakeVars
  <2>4. CASE \E v \in Viewers : Watch(v) \/ Stream(v)
    BY <2>4 DEF Watch, Stream, Encode, Send, Loop, ViewerTo, handshakeVars
  <2> QED BY <2>1, <2>2, <2>3, <2>4
<1>1. TestInv' /\ MadeInv' /\ LeavingInv'
  BY <1>0 DEF ProcessInv, TestInv, MadeInv, InMainLoop, LeavingInv
<1>2. /\ viewer' \in [Viewers -> {"away", "encode", "send", "sleep"}]
      /\ (\E v \in Viewers : viewer'[v] # "away") => "stream" \in objects
  <2>1. viewer \in [Viewers -> {"away", "encode", "send", "sleep"}]
    BY DEF ProcessInv, LifecycleTypeOK
  <2>2. CASE UNCHANGED viewer
    BY <2>1, <2>2 DEF ProcessInv, UseInv
  <2>3. ASSUME NEW v \in Viewers, Watch(v) \/ Stream(v)
        PROVE  <1>2!1 /\ <1>2!2
    <3>1. \E to \in {"away", "encode", "send", "sleep"} : viewer' = [viewer EXCEPT ![v] = to]
      BY <2>3 DEF Watch, Stream, Encode, Send, Loop, ViewerTo
    <3>2. "stream" \in objects
      BY <2>3 DEF Watch, Stream, Encode, Send, Loop, ViewerAt, ProcessInv, UseInv
    <3> QED BY <2>1, <3>1, <3>2
  <2> QED BY <2>2, <2>3 DEF Camera, Shutdown, Finish, processVars
<1>3. LifecycleTypeOK'
  BY <1>0, <1>2 DEF ProcessInv, LifecycleTypeOK
<1>4. UseInv'
  BY <1>0, <1>2 DEF ProcessInv, UseInv
<1> QED
  BY <1>1, <1>3, <1>4 DEF ProcessInv

LEMMA ProcessInvariant == LifecycleSpec => []ProcessInv
<1>1. ASSUME ProcessInv, [LifecycleNext]_lifecycleVars
      PROVE  ProcessInv'
  <2>1. HandshakeTypeOK'
    BY <1>1, ProcessIsHandshake, TypeStep DEF ProcessInv, LifecycleTypeOK
  <2>2. CASE Main
    BY <1>1, <2>1, <2>2, FrameWork, StartUp, Ending DEF Main
  <2>3. CASE UNCHANGED lifecycleVars
    BY <1>1, <2>1, <2>3 DEF lifecycleVars, processVars, handshakeVars, ProcessInv,
       LifecycleTypeOK, TestInv, MadeInv, InMainLoop, LeavingInv, UseInv
  <2> QED
    BY <1>1, <2>1, <2>2, <2>3, OtherThreads DEF LifecycleNext
<1> QED
  BY <1>1, ProcessStarts, ProcessSteps, PTL

-----------------------------------------------------------------------------

(* Every thread that runs has its thread object, and the other variables of *)
(* the process keep their types (mono_raspi.cpp 262-439).                   *)
THEOREM LifecycleTypeCorrect == LifecycleSpec => []LifecycleTypeOK
<1>1. ProcessInv => LifecycleTypeOK
  BY DEF ProcessInv
<1> QED
  BY <1>1, ProcessInvariant, PTL

(* For any number of viewers: whichever way main() ends, the first thing it *)
(* would destroy is a thread that nobody joined, so that the process is     *)
(* gone before ORB_SLAM2 and the streamer are (mono_raspi.cpp 264-439).     *)
THEOREM UsedThingsStay == LifecycleSpec => []NothingInUseIsDestroyed
<1>1. ProcessInv => NothingInUseIsDestroyed
  BY DEF ProcessInv, TestInv, MadeInv, InMainLoop, UseInv, NothingInUseIsDestroyed
<1> QED
  BY <1>1, ProcessInvariant, PTL
==============================================================================

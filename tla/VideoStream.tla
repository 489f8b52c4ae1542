------------------------------ MODULE VideoStream ------------------------------
(***************************************************************************)
(* A connection that watches the video, beside the pipeline that the       *)
(* frames go through: its thread encodes tempCameraBuffer, which the       *)
(* camera thread fills again and again, without any lock.  The encoder     *)
(* goes through the buffer once; it is enough to follow two of its reads.  *)
(***************************************************************************)
EXTENDS FramePipeline

VARIABLES
  streamPc,    \* "away", "encode", "encoding", "send" or "loop"
  jpeg,        \* the frames that went into the picture
  undisturbed  \* camera.retrieve() has not been at work since it was begun

streamVars == <<streamPc, jpeg, undisturbed>>

StreamInit ==
  /\ Init
  /\ streamPc = "away" /\ jpeg = {} /\ undisturbed = TRUE

-----------------------------------------------------------------------------

StreamAt(from, to) ==
  /\ ProcessAlive
  /\ streamPc = from /\ streamPc' = to
  /\ UNCHANGED vars

\* GET /video.mjpeg.  The response begins with a picture and goes on in
\* acceptHandover().
Request ==
  /\ HttpUp
  /\ StreamAt("away", "encode")
  /\ UNCHANGED <<jpeg, undisturbed>>

\* Fault: the picture is taken from the ring.
BeginEncodeInRing ==
  /\ StreamAt("encode", "encoding")
  /\ jpeg' = {cameraBuffers[Successor(currentCameraBuffer)]}
  /\ undisturbed' = (cameraPc # "retrieve")

BeginEncode ==
  /\ StreamAt("encode", "encoding")
  /\ jpeg' = {tempCameraBuffer}
  /\ undisturbed' = (cameraPc # "retrieve")

EndEncode ==
  /\ StreamAt("encoding", "send")
  /\ jpeg' = jpeg \cup {tempCameraBuffer}
  /\ UNCHANGED undisturbed

\* client.send() and the thirtieth of a second after it.
SendPicture ==
  /\ StreamAt("send", "loop")
  /\ UNCHANGED <<jpeg, undisturbed>>

\* The connection may have been closed.
StreamLoop ==
  /\ \/ StreamAt("loop", "encode") /\ ~gShutdownFlag
     \/ StreamAt("loop", "away")
  /\ UNCHANGED <<jpeg, undisturbed>>

StreamThread == Request \/ BeginEncode \/ EndEncode \/ SendPicture \/ StreamLoop

\* The other threads go on meanwhile.
Pipeline ==
  /\ Next
  /\ undisturbed' = (undisturbed /\ ~GrabFrame)
  /\ UNCHANGED <<streamPc, jpeg>>

StreamNext == Pipeline \/ StreamThread

StreamSpec == StreamInit /\ [][StreamNext]_<<vars, streamVars>>

-----------------------------------------------------------------------------

StreamTypeOK ==
  /\ TypeOK
  /\ streamPc \in {"away", "encode", "encoding", "send", "loop"}
  /\ jpeg \subseteq Images
  /\ undisturbed \in BOOLEAN

(* Unless camera.retrieve() is at work during the encoding, a picture is a  *)
(* whole frame and the newest one there is, whatever slots of the ring are  *)
(* in use (mono_raspi.cpp 77-79, 101-113).                                  *)
PictureIsNewestFrame ==
  streamPc = "send" /\ undisturbed => jpeg = {captured}

(* Nobody sees the uninitialized memory of the buffer, although nothing but *)
(* the speed test makes the server wait for a frame (mono_raspi.cpp         *)
(* 189-211, 259-264, 295).                                                  *)
PictureIsNeverBlank == Blank \notin jpeg
==============================================================================

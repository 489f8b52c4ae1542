------------------------------- MODULE Lifecycle -------------------------------
(***************************************************************************)
(* What main() of mono_raspi.cpp starts, in which order it gives up, and   *)
(* how the process ends: the threads of FrameHandshake together with the   *)
(* HTTP server, the picture streams and the threads that use ORB_SLAM2.    *)
(* main() keeps its std::thread objects and what the threads use, ORB_SLAM2 *)
(* and the streamer, in local variables, which are destroyed in the        *)
(* reverse order of their making when it returns.                          *)
(*                                                                         *)
(* It begins when the camera is open and its thread t2 has been started:   *)
(* when the arguments or the camera are wrong, nothing has.                *)
(***************************************************************************)
EXTENDS FrameHandshake, Sequences

CONSTANT Viewers  \* the connections that watch the video

Threads == {"t2", "t3", "networkPushThread", "slam_track_thread"}

\* The locals of main() that matter here, in the order of their destruction.
Locals == <<"slam_track_thread", "networkPushThread", "SLAM", "t3", "stream", "t2">>

VARIABLES
  objects,   \* the Locals there are
  running,   \* the threads besides t2 that run
  viewer,    \* what the connection does: "away", "encode", "send" or "sleep"
  slamRuns,  \* do ORB_SLAM2's own threads run?
  leaving    \* main() has come to a return and destroys its locals

processVars == <<objects, running, viewer, slamRuns, leaving>>
lifecycleVars == <<handshakeVars, processVars>>

LifecycleInit ==
  /\ HandshakeInit
  /\ objects = {"t2"} /\ running = {}
  /\ viewer = [v \in Viewers |-> "away"]
  /\ slamRuns = FALSE /\ leaving = FALSE

-----------------------------------------------------------------------------
(* main() *)

Start(thread) == objects' = objects \cup {thread} /\ running' = running \cup {thread}

\* The serial port is open, and the streamer gets made.
OpenSerial ==
  /\ ~leaving /\ MainOpenSerial /\ mainPc' = "listen"
  /\ objects' = objects \cup {"stream"}
  /\ UNCHANGED <<running, viewer, slamRuns, leaving>>

\* return 2
FailSerial ==
  /\ ~leaving /\ mainPc = "open"
  /\ leaving' = TRUE
  /\ UNCHANGED <<handshakeVars, objects, running, viewer, slamRuns>>

Listen ==
  /\ MainListen /\ Start("t3")
  /\ UNCHANGED <<viewer, slamRuns, leaving>>

StartSlam ==
  /\ mainPc = "slam" /\ "SLAM" \notin objects
  /\ objects' = objects \cup {"SLAM"}
  /\ slamRuns' = TRUE
  /\ UNCHANGED <<handshakeVars, running, viewer, leaving>>

StartPush ==
  /\ mainPc = "slam" /\ "SLAM" \in objects \ running
  /\ "networkPushThread" \notin objects
  /\ Start("networkPushThread")
  /\ UNCHANGED <<handshakeVars, viewer, slamRuns, leaving>>

StartPoll ==
  /\ MainStartSlam /\ "networkPushThread" \in objects
  /\ Start("slam_track_thread")
  /\ UNCHANGED <<viewer, slamRuns, leaving>>

\* The speed test and the main loop.
HandleFrames ==
  /\ \/ MainWake \/ MainWait \/ MainGet \/ MainCopy \/ MainSwap \/ MainRelease
     \/ MainLoop \/ MainTrack
  /\ UNCHANGED processVars

ShutdownSlam ==
  /\ mainPc = "stop" /\ slamRuns
  /\ slamRuns' = FALSE
  /\ UNCHANGED <<handshakeVars, objects, running, viewer, leaving>>

\* And return 0.
SaveTrajectory ==
  /\ mainPc = "stop" /\ ~slamRuns /\ ~leaving
  /\ leaving' = TRUE
  /\ UNCHANGED <<handshakeVars, objects, running, viewer, slamRuns>>

\* The next object to be destroyed.
NextLocal ==
  Locals[CHOOSE n \in DOMAIN Locals :
           /\ Locals[n] \in objects
           /\ \A earlier \in 1 .. n - 1 : Locals[earlier] \notin objects]

Exit == (MainOpenSerial \/ MainStop) /\ mainPc' = "exited"

\* Fault: the threads are detached.
UnwindDetached ==
  /\ leaving /\ objects # {}
  /\ objects' = objects \ {NextLocal}
  /\ UNCHANGED <<handshakeVars, running, viewer, slamRuns, leaving>>

\* The destructor of a thread that has not been joined calls std::terminate(),
\* also when the thread has ended by itself.
Unwind ==
  /\ leaving
  /\ IF NextLocal \in Threads
       THEN Exit /\ UNCHANGED objects
       ELSE objects' = objects \ {NextLocal} /\ UNCHANGED handshakeVars
  /\ UNCHANGED <<running, viewer, slamRuns, leaving>>

Main ==
  \/ HandleFrames \/ OpenSerial \/ FailSerial \/ Listen
  \/ StartSlam \/ StartPush \/ StartPoll
  \/ ShutdownSlam \/ SaveTrajectory \/ Unwind

-----------------------------------------------------------------------------
(* The other threads.  The HTTP server does not look at the flag. *)

Camera == CameraThread /\ UNCHANGED processVars

Shutdown == "t3" \in running /\ PostShutdown /\ UNCHANGED processVars

Finish(thread) ==
  /\ ProcessAlive /\ gShutdownFlag
  /\ thread \in running \ {"t3"}
  /\ running' = running \ {thread}
  /\ UNCHANGED <<handshakeVars, objects, viewer, slamRuns, leaving>>

ViewerAt(v, from) == ProcessAlive /\ viewer[v] = from

ViewerTo(v, to) ==
  /\ viewer' = [viewer EXCEPT ![v] = to]
  /\ UNCHANGED <<handshakeVars, objects, running, slamRuns, leaving>>

\* GET /video.mjpeg; the first picture is the body of the response.
Watch(v) == "t3" \in running /\ ViewerAt(v, "away") /\ ViewerTo(v, "encode")

\* client.send() returns, with or without success.
Encode(v) == ViewerAt(v, "encode") /\ ViewerTo(v, "send")
Send(v)   == ViewerAt(v, "send") /\ ViewerTo(v, "sleep")

\* Fault: the flag is not looked at.
LoopOfOpen(v) ==
  /\ ViewerAt(v, "sleep")
  /\ \E open \in BOOLEAN : ViewerTo(v, IF open THEN "encode" ELSE "away")

\* while (... client.isOpen() && !gShutdownFlag)
Loop(v) ==
  /\ ViewerAt(v, "sleep")
  /\ \E open \in BOOLEAN :
       ViewerTo(v, IF open /\ ~gShutdownFlag THEN "encode" ELSE "away")

Stream(v) == Encode(v) \/ Send(v) \/ Loop(v)

LifecycleNext ==
  \/ Main \/ Camera \/ Shutdown
  \/ \E thread \in Threads : Finish(thread)
  \/ \E v \in Viewers : Watch(v) \/ Stream(v)

\* The threads and the connections are scheduled, and the calls into the
\* camera, the serial port and ORB_SLAM2 return.
LifecycleSpec ==
  /\ LifecycleInit /\ [][LifecycleNext]_lifecycleVars
  /\ WF_lifecycleVars(Main) /\ WF_lifecycleVars(Camera)
  /\ WF_lifecycleVars(Finish("networkPushThread")) /\ WF_lifecycleVars(Finish("slam_track_thread"))
  /\ \A v \in Viewers : WF_lifecycleVars(Stream(v))

-----------------------------------------------------------------------------

LifecycleTypeOK ==
  /\ HandshakeTypeOK
  /\ objects \subseteq Threads \cup {"SLAM", "stream"}
  /\ running \subseteq objects
  /\ viewer \in [Viewers -> {"away", "encode", "send", "sleep"}]
  /\ slamRuns \in BOOLEAN /\ leaving \in BOOLEAN

(* As long as the process goes on, ORB_SLAM2 is there for the main loop and *)
(* for the two threads that call it, and the streamer for the connections   *)
(* that run in it, although nobody waits for them: std::terminate() comes   *)
(* before the destructors that would take them away (mono_raspi.cpp         *)
(* 264-439).                                                                *)
NothingInUseIsDestroyed ==
  ProcessAlive =>
    /\ running \cap {"networkPushThread", "slam_track_thread"} # {} => "SLAM" \in objects
    /\ mainPc = "track" => "SLAM" \in objects
    /\ (\E v \in Viewers : viewer[v] # "away") => "stream" \in objects

(* After a shutdown request every picture stream and the threads that use   *)
(* ORB_SLAM2 come to an end, or the process does, even if main() is stuck   *)
(* waiting for a frame (mono_raspi.cpp 117, 329, 389).                      *)
ShutdownIsNoticed ==
  /\ gShutdownFlag ~> [](ProcessAlive => running \subseteq {"t3"} /\ mainPc # "track")
  /\ \A v \in Viewers : gShutdownFlag ~> (ProcessAlive => viewer[v] = "away")
==============================================================================

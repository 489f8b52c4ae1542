--------------------------- MODULE MCFrameHandshake ---------------------------
(***************************************************************************)
(* FrameHandshake for TLC, and what the source says of a shutdown request  *)
(* that the code does not always do.                                       *)
(***************************************************************************)
EXTENDS FrameHandshake

(* A shutdown request, acknowledged with "Got shutdown request" (line 288), *)
(* brings main() to where the comment of line 432 says "Stop all threads".  *)
ShutdownStopsThreads == gShutdownFlag ~> mainPc \in {"stop", "exited"}
==============================================================================

----------------------------- MODULE MCVideoStream -----------------------------
(***************************************************************************)
(* FramePipeline and VideoStream for TLC: the ring of two slots of the     *)
(* code, a speed test of two frames, the shortest one that makes main()    *)
(* wait for the camera, and enough captures for every slot to be reused    *)
(* many times, with a viewer all along.                                    *)
(***************************************************************************)
EXTENDS VideoStream
==============================================================================

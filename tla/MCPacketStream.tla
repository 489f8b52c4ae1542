---------------------------- MODULE MCPacketStream ----------------------------
(***************************************************************************)
(* PacketStream and PackedVec3 for TLC.  Coordinates and indices of one    *)
(* and of two digits; lists of up to two elements; every vector of some    *)
(* floats, among them zero and the borders of the five bits of an exponent. *)
(***************************************************************************)
EXTENDS PacketStream, PackedVec3

AllPackets == {"MOVE", "STOP", "LEDS", "STAT", "OPUD", "CPUD", "texts"}

Floating(s, e, m) == [sign |-> s, exponent |-> e, mantissa |-> m]

Floats == {
  Floating(FALSE, 0, {}),            Floating(FALSE, 127, 8 .. 22),
  Floating(TRUE, 142, {8, 16, 22}),  Floating(FALSE, 126, {15, 16}),
  Floating(TRUE, 111, {7, 9}),       Floating(FALSE, 143, {}),
  Floating(TRUE, 133, {0, 21}) }

AllVectors == [Axis -> Floats]

\* What the bytes of a vector are does not depend on the packet they are in:
\* once the shortest packet has been read, any one vector is written and read.
NextVector == packet = "STOP" /\ phase = "done" /\ VecNext /\ UNCHANGED packetVars

StreamAndVectorInit == PacketInit /\ VecInit
StreamAndVectorNext == (PacketNext /\ UNCHANGED vecVars) \/ NextVector

StreamAndVectorSpec ==
  StreamAndVectorInit /\ [][StreamAndVectorNext]_<<packetVars, vecVars>>
==============================================================================

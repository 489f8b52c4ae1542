----------------------------- MODULE PacketStream -----------------------------
(***************************************************************************)
(* Packets as bytes: the serialize() and deserialize() of the packets, of  *)
(* the fields and lists in them (Serializer), and the VectorStream they    *)
(* are read from.  A byte of the vector is a cell <<value, k, n>>: the k-th *)
(* of the n bytes of a value; what the bytes of a number and of a vec3 are *)
(* is the subject of modules Varint and PackedVec3.  One step is one call  *)
(* of Serializer::serialize() or deserialize().                            *)
(***************************************************************************)
EXTENDS Integers, SequencesExt

CONSTANTS
  Packets,      \* the packets, names of Fields, that get written and read
  Values,       \* what a byte, a float or a vec3 may be
  Coordinates,  \* what an index or a coordinate may be
  MaxLength     \* the longest list or string

ASSUME StreamAssumption ==
  /\ Values \subseteq Nat
  /\ Coordinates \subseteq Nat
  /\ \A n \in Coordinates : n < 128^3
  /\ MaxLength \in 0 .. 127

VARIABLES
  packet,    \* which packet it is
  phase,     \* "write", "read" or "done"
  agenda,    \* the calls that are still to be made, the next one first
  results,   \* the vectors __result of the objects being serialized, innermost last
  wrote,     \* the values serialized
  position,  \* mPosition
  shadow,    \* mShadowOffset
  saved,     \* oldShadowOffset of the objects being deserialized
  got        \* the values deserialized

writer == <<results, wrote>>
reader == <<position, shadow, saved, got>>
packetVars == <<packet, phase, agenda, results, wrote, position, shadow, saved, got>>

-----------------------------------------------------------------------------
(* The packets and their fields.                                           *)

Byte   == [is |-> "fixed", size |-> 1]
Float  == [is |-> "fixed", size |-> 4]
Vec3   == [is |-> "fixed", size |-> 8]
Number == [is |-> "number"]
Text   == [is |-> "text"]
Return == [is |-> "return"]
ListOf(type)   == [is |-> "list", of |-> type]
Object(fields) == [is |-> "object", fields |-> fields]

LedColor     == Object(<<Byte, Byte, Byte>>)
OverlayPoint == Object(<<Number, Number, Byte>>)

Fields == [
  MOVE  |-> <<Byte, Byte>>,
  STOP  |-> <<>>,
  LEDS  |-> <<ListOf(LedColor)>>,
  STAT  |-> <<Float, Byte, Byte, Byte>>,
  OPUD  |-> <<ListOf(OverlayPoint), ListOf(Vec3)>>,
  CPUD  |-> <<Vec3, Number>>,
  texts |-> <<Text, Text, Text, Text>>]  \* what the test program means to write

ASSUME PacketsAssumption == Packets \subseteq DOMAIN Fields

Opcode == [MOVE |-> 1, STOP |-> 2, LEDS |-> 3, STAT |-> 4, OPUD |-> 5, CPUD |-> 6]

\* The opcode that serialize() starts with; nothing does for a bare string.
Header == IF packet \in DOMAIN Opcode THEN << <<Opcode[packet], 1, 1>> >> ELSE <<>>

\* onBinaryMessage() takes the opcode from the stream before deserialize().
Skipped == Len(Header)

-----------------------------------------------------------------------------

Cells(v, n) == [k \in 1 .. n |-> <<v, k, n>>]

NumberCells(v) == Cells(v, IF v < 128 THEN 1 ELSE IF v < 128^2 THEN 2 ELSE 3)

PacketInit ==
  /\ packet \in Packets
  /\ phase = "write"
  /\ agenda = Fields[packet]
  /\ results = <<Header>>
  /\ wrote = <<>>
  /\ position = 0 /\ shadow = 0
  /\ saved = <<>>
  /\ got = <<>>

\* The next call of the writer or the reader is one for this kind of type.
Due(p, is) == phase = p /\ agenda # <<>> /\ Head(agenda).is = is

Emit(cells) == results' = Append(Front(results), Last(results) \o cells)

WriteFixed ==
  /\ Due("write", "fixed")
  /\ \E v \in Values : Emit(Cells(v, Head(agenda).size)) /\ wrote' = Append(wrote, v)
  /\ agenda' = Tail(agenda)
  /\ UNCHANGED <<packet, phase, reader>>

WriteNumber ==
  /\ Due("write", "number")
  /\ \E v \in Coordinates : Emit(NumberCells(v)) /\ wrote' = Append(wrote, v)
  /\ agenda' = Tail(agenda)
  /\ UNCHANGED <<packet, phase, reader>>

WriteText ==
  /\ Due("write", "text")
  /\ \E n \in 0 .. MaxLength : \E s \in [1 .. n -> Values] :
       /\ Emit(NumberCells(n) \o [i \in 1 .. n |-> <<s[i], 1, 1>>])
       /\ wrote' = Append(wrote, n) \o s
  /\ agenda' = Tail(agenda)
  /\ UNCHANGED <<packet, phase, reader>>

WriteList ==
  /\ Due("write", "list")
  /\ \E n \in 0 .. MaxLength :
       /\ Emit(NumberCells(n))
       /\ wrote' = Append(wrote, n)
       /\ agenda' = [i \in 1 .. n |-> Head(agenda).of] \o Tail(agenda)
  /\ UNCHANGED <<packet, phase, reader>>

\* obj->serialize() has a vector of its own ...
WriteObject ==
  /\ Due("write", "object")
  /\ results' = Append(results, <<>>)
  /\ agenda' = Head(agenda).fields \o <<Return>> \o Tail(agenda)
  /\ UNCHANGED <<packet, phase, wrote, reader>>

\* Fault: it is copied to the beginning.
CopyObjectToBegin ==
  /\ Due("write", "return")
  /\ LET outer == Front(results)
     IN  results' = Append(Front(outer), Last(results) \o Last(outer))
  /\ agenda' = Tail(agenda)
  /\ UNCHANGED <<packet, phase, wrote, reader>>

\* ... that is copied to the end of the one it is part of.
CopyObject ==
  /\ Due("write", "return")
  /\ LET outer == Front(results)
     IN  results' = Append(Front(outer), Last(outer) \o Last(results))
  /\ agenda' = Tail(agenda)
  /\ UNCHANGED <<packet, phase, wrote, reader>>

\* deserializePacket(): a stream over the bytes, without the opcode.
StartReading ==
  /\ phase = "write" /\ agenda = <<>>
  /\ phase' = "read"
  /\ agenda' = Fields[packet]
  /\ position' = Skipped
  /\ UNCHANGED <<packet, writer, shadow, saved, got>>

-----------------------------------------------------------------------------

data == results[1]
cursor == shadow + position

\* The next n bytes.
Here(n) == [k \in 1 .. n |-> data[cursor + k]]

\* The value of the bytes of one value; -1 stands for that of any others.
ValueOf(cells) ==
  IF \A k \in DOMAIN cells : cells[k] = <<cells[1][1], k, Len(cells)>> THEN cells[1][1] ELSE -1

\* The digits of a number end with the first one that is not marked.
NumberSize ==
  CHOOSE n \in 1 .. Len(data) - cursor :
    /\ data[cursor + n][2] = data[cursor + n][3]
    /\ \A k \in 1 .. n - 1 : data[cursor + k][2] # data[cursor + k][3]

ReadFixed ==
  /\ Due("read", "fixed")
  /\ got' = Append(got, ValueOf(Here(Head(agenda).size)))
  /\ position' = position + Head(agenda).size
  /\ agenda' = Tail(agenda)
  /\ UNCHANGED <<packet, phase, writer, shadow, saved>>

ReadNumber ==
  /\ Due("read", "number")
  /\ got' = Append(got, ValueOf(Here(NumberSize)))
  /\ position' = position + NumberSize
  /\ agenda' = Tail(agenda)
  /\ UNCHANGED <<packet, phase, writer, shadow, saved>>

ReadText ==
  /\ Due("read", "text")
  /\ LET n == NumberSize
         length == ValueOf(Here(n))
     IN  /\ got' = Append(got, length) \o [i \in 1 .. length |-> Here(n + length)[n + i][1]]
         /\ position' = position + n + length
  /\ agenda' = Tail(agenda)
  /\ UNCHANGED <<packet, phase, writer, shadow, saved>>

ReadList ==
  /\ Due("read", "list")
  /\ LET n == ValueOf(Here(NumberSize))
     IN  /\ got' = Append(got, n)
         /\ agenda' = [i \in 1 .. n |-> Head(agenda).of] \o Tail(agenda)
  /\ position' = position + NumberSize
  /\ UNCHANGED <<packet, phase, writer, shadow, saved>>

SetShadowOffset(offset) ==
  /\ shadow' = offset
  /\ position' = position - (offset - shadow)

ReadObject ==
  /\ Due("read", "object")
  /\ saved' = Append(saved, shadow)
  /\ SetShadowOffset(position)
  /\ agenda' = Head(agenda).fields \o <<Return>> \o Tail(agenda)
  /\ UNCHANGED <<packet, phase, writer, got>>

\* Fault: the offset stays that of the last object.
LeaveObjectShifted ==
  /\ Due("read", "return")
  /\ saved' = Front(saved)
  /\ agenda' = Tail(agenda)
  /\ UNCHANGED <<packet, phase, writer, position, shadow, got>>

LeaveObject ==
  /\ Due("read", "return")
  /\ SetShadowOffset(Last(saved))
  /\ saved' = Front(saved)
  /\ agenda' = Tail(agenda)
  /\ UNCHANGED <<packet, phase, writer, got>>

Done ==
  /\ phase = "read" /\ agenda = <<>>
  /\ phase' = "done"
  /\ UNCHANGED <<packet, agenda, writer, reader>>

PacketNext ==
  \/ WriteFixed \/ WriteNumber \/ WriteText \/ WriteList \/ WriteObject \/ CopyObject
  \/ StartReading
  \/ ReadFixed \/ ReadNumber \/ ReadText \/ ReadList \/ ReadObject \/ LeaveObject
  \/ Done

PacketSpec == PacketInit /\ [][PacketNext]_packetVars

-----------------------------------------------------------------------------

Pipe == INSTANCE ValuePipe WITH Value <- Values \cup Coordinates \cup 0 .. MaxLength

(* Whatever nests in what, a packet is read as the values it was written    *)
(* from, in their order (serializer.h 60-101, serializer.cpp 225-241).      *)
PipeSpec == Pipe!Spec

\* The bytes that the next call takes from the stream are there.
BytesLeft(type) ==
  LET numberEnds == {n \in 1 .. Len(data) - cursor : data[cursor + n][2] = data[cursor + n][3]}
  IN  /\ type.is = "fixed" => cursor + type.size <= Len(data)
      /\ type.is \in {"number", "text", "list"} => numberEnds # {}
      /\ type.is = "text" => cursor + NumberSize + ValueOf(Here(NumberSize)) <= Len(data)

(* A packet that has been read has been read to its last byte and not past  *)
(* it, and indices into the stream are again those of the vector            *)
(* (vector_stream.cpp 7-27).                                                *)
WholePacketRead ==
  /\ phase = "read" /\ agenda # <<>> => BytesLeft(Head(agenda))
  /\ phase = "done" => got = wrote /\ position = Len(data) /\ shadow = 0
==============================================================================

------------------------------ MODULE PackedVec3 ------------------------------
(***************************************************************************)
(* Serializer::serialize() and deserialize() of vec3: three floats packed  *)
(* into 64 bits.  A word or a byte is the set of the positions of its one  *)
(* bits; a float is its three fields, the exponent as the biased number.   *)
(***************************************************************************)
EXTENDS Integers, FiniteSets

CONSTANT Vectors  \* the vectors that get serialized

Axis   == {"x", "y", "z"}
Binary == [sign : BOOLEAN, exponent : 0 .. 255, mantissa : SUBSET (0 .. 22)]

ASSUME Vec3Assumption == Vectors \subseteq [Axis -> Binary]

VARIABLES
  vecStep,  \* "write", "read" or "done"
  vec,      \* the vector that is serialized
  bytes,    \* __result
  out       \* the vector that is deserialized

vecVars == <<vecStep, vec, bytes, out>>

Zero == [sign |-> FALSE, exponent |-> 0, mantissa |-> {}]

VecInit ==
  /\ vecStep = "write"
  /\ bytes = [k \in 1 .. 8 |-> {}]
  /\ vec = [a \in Axis |-> Zero] /\ out = vec

-----------------------------------------------------------------------------
(* serialize() *)

\* Fault: the sign of z and the mantissa of y overlap.
PlaceOverlapping == [x |-> 43, y |-> 21, z |-> 1]

\* Where in the word the mantissa, the exponent and the sign of an axis start.
Place == [x |-> 43, y |-> 22, z |-> 1]

BitsOf(n) == {i \in 0 .. 4 : (n \div 2^i) % 2 = 1}

PackOne(f, at) ==
  (IF f.sign THEN {at + 20} ELSE {})
    \cup {at + 15 + i : i \in BitsOf((f.exponent - 127) % 32)}
    \cup {at + i - 8 : i \in f.mantissa \cap 8 .. 22}

RoundingBit(v) == IF Cardinality({a \in Axis : 16 \in v[a].mantissa}) >= 2 THEN {0} ELSE {}

Word(v) == RoundingBit(v) \cup UNION {PackOne(v[a], Place[a]) : a \in Axis}

\* The lowest byte first.
Packed(v) == [k \in 1 .. 8 |-> {i \in 0 .. 7 : i + 8 * (k - 1) \in Word(v)}]

WriteVec3 ==
  /\ vecStep = "write" /\ vecStep' = "read"
  /\ vec' \in Vectors
  /\ bytes' = Packed(vec')
  /\ UNCHANGED out

-----------------------------------------------------------------------------
(* deserialize() *)

\* What the sign bit of the five bits of an exponent adds to it.  For x and y
\* it is multiplied in its place, (0xe0 << 5) * (in & 1 << 62), and only adds
\* bits that the 32 bits of the float do not hold.
Extension(a, e) == IF a = "z" /\ e >= 16 THEN 224 ELSE 0

Exponent(a, e) == (e + Extension(a, e) + 127) % 256

UnpackOne(word, a) ==
  LET at == Place[a]
      e  == CHOOSE n \in 0 .. 31 : BitsOf(n) = {i \in 0 .. 4 : at + 15 + i \in word}
  IN  [sign     |-> at + 20 \in word,
       exponent |-> Exponent(a, e),
       mantissa |-> {i \in 8 .. 22 : at + i - 8 \in word}
                      \cup IF 0 \in word THEN 0 .. 7 ELSE {}]

Unpacked(in) ==
  LET word == UNION {{i + 8 * (k - 1) : i \in in[k]} : k \in 1 .. 8}
  IN  [a \in Axis |-> UnpackOne(word, a)]

ReadVec3 ==
  /\ vecStep = "read" /\ vecStep' = "done"
  /\ out' = Unpacked(bytes)
  /\ UNCHANGED <<vec, bytes>>

VecNext == WriteVec3 \/ ReadVec3

VecSpec == VecInit /\ [][VecNext]_vecVars

-----------------------------------------------------------------------------

(* No axis of a vector disturbs another one: the signs and the upper fifteen *)
(* bits of the mantissas come back, and so do the exponents that have a     *)
(* place in five bits: -16 to 15 for z, 0 to 15 for x and y, whose negative *)
(* ones the multiplication loses (serializer.cpp 149-218).                  *)
VectorsSurvive ==
  vecStep = "done" =>
    \A a \in Axis :
      /\ out[a].sign = vec[a].sign
      /\ out[a].mantissa \cap 8 .. 22 = vec[a].mantissa \cap 8 .. 22
      /\ vec[a].exponent \in (IF a = "z" THEN 111 .. 142 ELSE 127 .. 142)
           => out[a].exponent = vec[a].exponent
==============================================================================

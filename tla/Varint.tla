-------------------------------- MODULE Varint --------------------------------
(***************************************************************************)
(* Serializer::serialize() and deserialize() of uint64_t: digits of seven  *)
(* bits, the lowest first, each but the last one marked by its eighth bit. *)
(* A word or a byte is the set of the positions of its one bits, so that   *)
(* shifts move the positions and the widths are the real ones.  One step   *)
(* is one round of a loop.                                                 *)
(***************************************************************************)
EXTENDS Integers, Sequences

CONSTANTS
  Numbers,  \* the numbers that get serialized
  Padded    \* the lengths of digit sequences of another writer

Bit   == 0 .. 63
Digit == 0 .. 6
More  == 7
Words == SUBSET Bit
Bytes == SUBSET (0 .. 7)

ASSUME VarintAssumption ==
  /\ Numbers \subseteq Words
  /\ Padded \subseteq Nat \ {0}

VARIABLES
  pc,     \* which of the loops runs, or how the second one ended
  input,  \* the number that gets serialized
  rest,   \* what serialize() has left of its argument num
  to,     \* the bytes
  num,    \* the number deserialize() puts together
  shift   \* the place of the next digit in it

vars == <<pc, input, rest, to, num, shift>>

-----------------------------------------------------------------------------

ShiftRight(word, n) == {i \in Bit : i + n \in word}

\* (b & 0x7F) << shift is an int: what leaves its 32 bits is lost, and bit 31
\* is its sign, which fills the upper half of the uint64_t.
AsInt(b, n) ==
  LET low == {i \in 0 .. 31 : i - n \in b \cap Digit}
  IN  IF 31 \in low THEN low \cup 32 .. 63 ELSE low

\* Fault: the digit is widened before it is shifted, but to 16 bits.
ShiftedAsShort(b, n) == {{i \in 0 .. 15 : i - n \in b \cap Digit}}

\* A shift by 32 or more is undefined: the processor shifts everything out or
\* uses the lowest five bits of the distance.
Shifted(b, n) ==
  IF n < 32 THEN {AsInt(b, n)} ELSE {{}, AsInt(b, n % 32)}

-----------------------------------------------------------------------------

\* A sequence that another writer made longer than necessary.
PaddedOne(n) ==
  [i \in 1 .. n |-> (IF i = 1 THEN {0} ELSE {}) \cup (IF i < n THEN {More} ELSE {})]

Init ==
  /\ num = {}
  /\ shift = 0
  /\ \/ /\ pc = "write"
        /\ input \in Numbers
        /\ rest = input
        /\ to = <<>>
     \/ /\ pc = "read"
        /\ input = {0}
        /\ rest = {}
        /\ to \in {PaddedOne(n) : n \in Padded}

\* Fault: the loop ends when the digit is zero, not the rest.
PushWhileDigit ==
  /\ pc = "write"
  /\ rest' = ShiftRight(rest, 7)
  /\ to' = Append(to, (rest \cap Digit) \cup IF rest \cap Digit # {} THEN {More} ELSE {})
  /\ pc' = IF rest \cap Digit # {} THEN "write" ELSE "read"
  /\ UNCHANGED <<input, num, shift>>

\* Fault: the digit is not masked.
PushUnmasked ==
  /\ pc = "write"
  /\ rest' = ShiftRight(rest, 7)
  /\ to' = Append(to, rest \cup IF rest' # {} THEN {More} ELSE {})
  /\ pc' = IF rest' # {} THEN "write" ELSE "read"
  /\ UNCHANGED <<input, num, shift>>

Push ==
  /\ pc = "write"
  /\ rest' = ShiftRight(rest, 7)
  /\ to' = Append(to, (rest \cap Digit) \cup IF rest' # {} THEN {More} ELSE {})
  /\ pc' = IF rest' # {} THEN "write" ELSE "read"
  /\ UNCHANGED <<input, num, shift>>

Get ==
  /\ pc = "read"
  /\ shift < 256
  /\ LET b == to[shift \div 7 + 1]
     IN  /\ \E digit \in Shifted(b, shift) : num' = num \cup digit
         /\ pc' = IF More \in b THEN "read" ELSE "done"
  /\ shift' = shift + 7
  /\ UNCHANGED <<input, rest, to>>

\* throw std::out_of_range("varint too long")
TooLong ==
  /\ pc = "read"
  /\ shift >= 256
  /\ pc' = "thrown"
  /\ UNCHANGED <<input, rest, to, num, shift>>

Next == Push \/ Get \/ TooLong

Spec == Init /\ [][Next]_vars

-----------------------------------------------------------------------------

TypeOK ==
  /\ pc \in {"write", "read", "done", "thrown"}
  /\ input \in Words
  /\ rest \in Words
  /\ to \in Seq(Bytes)
  /\ num \in Words
  /\ shift \in Nat

(* A number below 2^31 is read as it was written; all the numbers that the  *)
(* program puts into its packets, lengths and indices, are such numbers     *)
(* (serializer.cpp 50-70).                                                  *)
SmallRoundTrips ==
  pc = "done" /\ input \subseteq 0 .. 30 => num = input

(* A number between 2^31 and 2^35 keeps its lower 31 bits, although its     *)
(* fifth digit is shifted into and past the sign of an int.                 *)
LowBitsSurvive ==
  pc = "done" /\ input \subseteq 0 .. 34 => num \cap 0 .. 30 = input \cap 0 .. 30
==============================================================================

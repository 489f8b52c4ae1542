--------------------------- MODULE SerializerProofs ---------------------------
(***************************************************************************)
(* Every number below 2^31 survives serialize() and deserialize(), a larger *)
(* one keeps its lower bits, and a vector what its 64 bits have room for.   *)
(***************************************************************************)
EXTENDS Varint, PackedVec3, TLAPS

-----------------------------------------------------------------------------

\* The digit that starts at place n of the number, and whether more follow.
DigitOf(n) == {i \in Digit : i + n \in input}
MoreThan(n) == \E i \in input : i >= n

\* What serialize() has written and what it has left.
Written ==
  /\ \A k \in 1 .. Len(to) :
       /\ to[k] \cap Digit = DigitOf(7 * (k - 1))
       /\ More \in to[k] <=> (k < Len(to) \/ pc = "write")
  /\ pc = "write" => /\ rest = {i \in Bit : i + 7 * Len(to) \in input}
                     /\ num = {} /\ shift = 0
  /\ pc # "write" => Len(to) > 0 /\ ~MoreThan(7 * Len(to))

\* What deserialize() has read: all that lies below the place of the next
\* digit, of which there is one as long as it goes on.
Read ==
  /\ pc = "read" =>
       \E k \in 0 .. Len(to) - 1 :
         /\ shift = 7 * k
         /\ num = input \cap 0 .. shift - 1
  /\ pc = "done" => num = input

\* The same of the lower 31 bits, when the fifth digit reaches past them.
ReadLow ==
  /\ pc = "read" =>
       \E k \in 0 .. Len(to) - 1 :
         /\ shift = 7 * k
         /\ num \cap 0 .. 30 = input \cap 0 .. 30 \cap 0 .. shift - 1
  /\ pc = "done" => num \cap 0 .. 30 = input \cap 0 .. 30

VarintInv ==
  /\ TypeOK
  /\ input \subseteq 0 .. 34 => Written /\ ReadLow
  /\ input \subseteq 0 .. 30 => Read

-----------------------------------------------------------------------------

\* Below the sign of an int, a shifted digit is the part of the number at its place.
LEMMA AsIntType ==
  ASSUME NEW b, NEW n \in Nat
  PROVE  AsInt(b, n) \in Words
BY DEF AsInt, Words, Bit

LEMMA ShiftedType ==
  ASSUME NEW b, NEW n \in Nat, NEW d \in Shifted(b, n)
  PROVE  d \in Words
<1>1. n % 32 \in Nat
  OBVIOUS
<1>2. {} \in Words
  BY DEF Words
<1> QED
  BY <1>1, <1>2, AsIntType DEF Shifted

LEMMA ShiftedDigit ==
  ASSUME input \subseteq 0 .. 30, NEW n \in Nat, NEW b, b \cap Digit = DigitOf(n),
         NEW d \in Shifted(b, n)
  PROVE  d = input \cap n .. n + 6
<1>1. CASE n < 32
  <2>1. d = AsInt(b, n)
    BY <1>1 DEF Shifted
  <2>2. {i \in 0 .. 31 : i - n \in b \cap Digit} = input \cap n .. n + 6
    <3>1. ASSUME NEW i \in 0 .. 31, i - n \in DigitOf(n)
          PROVE  i \in input \cap n .. n + 6
      BY <3>1 DEF DigitOf, Digit
    <3>2. ASSUME NEW i \in input \cap n .. n + 6
          PROVE  i \in 0 .. 31 /\ i - n \in DigitOf(n)
      <4>1. i \in 0 .. 30 /\ i - n \in 0 .. 6 /\ (i - n) + n = i
        OBVIOUS
      <4> QED
        BY <4>1 DEF DigitOf, Digit
    <3> QED
      BY <3>1, <3>2
  <2>3. 31 \notin input \cap n .. n + 6
    OBVIOUS
  <2> QED
    BY <2>1, <2>2, <2>3 DEF AsInt
<1>2. CASE n >= 32
  <2>1. b \cap Digit = {}
    BY <1>2 DEF DigitOf, Digit
  <2>2. AsInt(b, n % 32) = {}
    BY <2>1 DEF AsInt
  <2>3. input \cap n .. n + 6 = {}
    BY <1>2
  <2> QED
    BY <1>2, <2>2, <2>3 DEF Shifted
<1> QED
  BY <1>1, <1>2

LEMMA ShiftedLow ==
  ASSUME input \subseteq 0 .. 34, NEW k \in Nat, NEW b, b \cap Digit = DigitOf(7 * k),
         NEW d \in Shifted(b, 7 * k)
  PROVE  d \cap 0 .. 30 = input \cap 0 .. 30 \cap 7 * k .. 7 * k + 6
<1> DEFINE n == 7 * k
<1>1. n \in Nat /\ (n < 32 \/ n >= 35)
  OBVIOUS
<1> DEFINE low == {i \in 0 .. 31 : i - n \in DigitOf(n)}
<1>2. low \cap 0 .. 30 = input \cap 0 .. 30 \cap n .. n + 6
  <2>1. \A i \in 0 .. 30 : i \in low <=> i \in input \cap n .. n + 6
    <3> SUFFICES ASSUME NEW i \in 0 .. 30
                 PROVE  i - n \in DigitOf(n) <=> i \in input \cap n .. n + 6
      OBVIOUS
    <3>1. i - n \in 0 .. 6 <=> i \in n .. n + 6
      BY <1>1
    <3>2. (i - n) + n = i
      BY <1>1
    <3> QED
      BY <3>1, <3>2 DEF DigitOf, Digit
  <2> QED
    BY <2>1
<1>3. CASE n < 32
  <2>1. d = AsInt(b, n)
    BY <1>3 DEF Shifted
  <2>2. d = low \/ d = low \cup 32 .. 63
    BY <2>1 DEF AsInt
  <2>3. d \cap 0 .. 30 = low \cap 0 .. 30
    BY <2>2
  <2> QED
    BY <1>2, <2>3
<1>4. CASE n >= 35
  <2>1. b \cap Digit = {}
    BY <1>4 DEF DigitOf, Digit
  <2>2. AsInt(b, n % 32) = {}
    BY <2>1 DEF AsInt
  <2>3. input \cap 0 .. 30 \cap n .. n + 6 = {}
    BY <1>4
  <2>4. ~(n < 32)
    BY <1>1, <1>4
  <2>5. d = {}
    BY <2>2, <2>4 DEF Shifted
  <2> QED
    BY <2>3, <2>5
<1> QED
  BY <1>1, <1>3, <1>4

-----------------------------------------------------------------------------

LEMMA TypeInit == Init => TypeOK
<1> SUFFICES ASSUME Init
             PROVE  TypeOK
  OBVIOUS
<1>1. {} \in Words /\ {0} \in Words /\ 0 \in Nat
  BY DEF Words, Bit
<1>2. CASE pc = "write"
  BY <1>1, <1>2, VarintAssumption DEF Init, TypeOK
<1>3. CASE pc = "read"
  <2>1. PICK n \in Padded : to = PaddedOne(n)
    BY <1>3 DEF Init
  <2>2. to \in Seq(Bytes)
    BY <2>1, VarintAssumption DEF PaddedOne, Bytes, More
  <2> QED
    BY <1>1, <1>3, <2>2 DEF Init, TypeOK
<1> QED
  BY <1>2, <1>3 DEF Init

LEMMA PushType ==
  ASSUME TypeOK, Push
  PROVE  TypeOK'
<1>1. rest' \in Words
  BY DEF Push, ShiftRight, Words
<1>2. to' \in Seq(Bytes)
  BY DEF Push, TypeOK, Bytes, Digit, More
<1> QED
  BY <1>1, <1>2 DEF Push, TypeOK

LEMMA GetType ==
  ASSUME TypeOK, Get
  PROVE  TypeOK'
<1>1. PICK digit \in Shifted(to[shift \div 7 + 1], shift) : num' = num \cup digit
  BY DEF Get
<1>2. digit \in Words
  BY ShiftedType DEF TypeOK
<1>3. num' \in Words
  BY <1>1, <1>2 DEF TypeOK, Words
<1> QED
  BY <1>3 DEF Get, TypeOK

LEMMA TypeStep ==
  ASSUME TypeOK, [Next]_vars
  PROVE  TypeOK'
<1>1. CASE TooLong
  BY <1>1 DEF TooLong, TypeOK
<1>2. CASE UNCHANGED vars
  BY <1>2 DEF vars, TypeOK
<1> QED
  BY <1>1, <1>2, PushType, GetType DEF Next

(* Numbers and bytes keep their widths, for any numbers and any digits      *)
(* (serializer.cpp 49-70).                                                  *)
THEOREM VarintTypeCorrect == Spec => []TypeOK
BY TypeInit, TypeStep, PTL DEF Spec

-----------------------------------------------------------------------------

LEMMA SmallIsLow == input \subseteq 0 .. 30 => input \subseteq 0 .. 34
OBVIOUS

LEMMA SmallInit == Init => VarintInv
<1> SUFFICES ASSUME Init, input \subseteq 0 .. 34
             PROVE  Written /\ ReadLow /\ Read
  BY TypeInit, SmallIsLow DEF VarintInv
<1>1. CASE pc = "write"
  <2>1. to = <<>> /\ Len(to) = 0 /\ rest = input /\ num = {} /\ shift = 0
    BY <1>1 DEF Init
  <2>2. input = {i \in Bit : i + 7 * 0 \in input}
    <3>1. \A i \in 0 .. 34 : i \in Bit
      BY DEF Bit
    <3>2. \A i \in Bit : i + 7 * 0 = i
      BY DEF Bit
    <3> QED
      BY <3>1, <3>2
  <2> QED
    BY <1>1, <2>1, <2>2 DEF Written, Read, ReadLow
<1>2. CASE pc = "read"
  <2>1. PICK n \in Padded : to = PaddedOne(n)
    BY <1>2 DEF Init
  <2>2. n \in Nat \ {0} /\ Len(to) = n /\ input = {0} /\ shift = 0 /\ num = {}
    BY <1>2, <2>1, VarintAssumption DEF Init, PaddedOne
  <2>3. ASSUME NEW k \in 1 .. Len(to)
        PROVE  /\ to[k] \cap Digit = DigitOf(7 * (k - 1))
               /\ More \in to[k] <=> (k < Len(to) \/ pc = "write")
    <3>1. to[k] = (IF k = 1 THEN {0} ELSE {}) \cup (IF k < n THEN {More} ELSE {})
      BY <2>1, <2>2 DEF PaddedOne
    <3>2. More \in to[k] <=> k < n
      BY <3>1 DEF More
    <3>3. to[k] \cap Digit = IF k = 1 THEN {0} ELSE {}
      BY <3>1 DEF More, Digit
    <3>4. DigitOf(7 * (k - 1)) = IF k = 1 THEN {0} ELSE {}
      BY <2>2 DEF DigitOf, Digit
    <3> QED
      BY <1>2, <2>2, <3>2, <3>3, <3>4
  <2>4. ~MoreThan(7 * Len(to))
    BY <2>2 DEF MoreThan
  <2>5. Read /\ ReadLow
    <3>1. 0 \in 0 .. Len(to) - 1 /\ shift = 7 * 0 /\ num = input \cap 0 .. shift - 1
      BY <2>2
    <3> QED
      BY <1>2, <3>1 DEF Read, ReadLow
  <2> QED
    BY <1>2, <2>2, <2>3, <2>4, <2>5 DEF Written
<1> QED
  BY <1>1, <1>2 DEF Init

LEMMA SmallPush ==
  ASSUME VarintInv, Push, input \subseteq 0 .. 34
  PROVE  (Written /\ ReadLow /\ Read)'
<1> DEFINE n == Len(to)
           byte == (rest \cap Digit) \cup IF rest' # {} THEN {More} ELSE {}
<1>1. /\ to \in Seq(Bytes) /\ n \in Nat /\ Written /\ input' = input
      /\ pc = "write" /\ to' = Append(to, byte) /\ num' = num /\ shift' = shift
  BY DEF VarintInv, TypeOK, Push
<1>2. /\ Len(to') = n + 1
      /\ to'[n + 1] = byte
      /\ \A k \in 1 .. n : to'[k] = to[k]
  BY <1>1
<1>3. rest = {i \in Bit : i + 7 * n \in input} /\ num = {} /\ shift = 0
  BY <1>1 DEF Written
<1>4. rest' = {i \in Bit : i + 7 * (n + 1) \in input}
  <2>1. ASSUME NEW i \in Bit
        PROVE  i + 7 \in rest <=> i + 7 * (n + 1) \in input
    <3>1. (i + 7) + 7 * n = i + 7 * (n + 1)
      BY <1>1 DEF Bit
    <3>2. i + 7 * (n + 1) \in input => i + 7 \in Bit
      BY <1>1 DEF Bit
    <3> QED
      BY <1>3, <3>1, <3>2
  <2> QED
    BY <2>1 DEF Push, ShiftRight
<1>5. rest' # {} <=> MoreThan(7 * (n + 1))
  <2>1. ASSUME NEW i \in input, i >= 7 * (n + 1)
        PROVE  i - 7 * (n + 1) \in rest'
    <3>1. i - 7 * (n + 1) \in Bit /\ (i - 7 * (n + 1)) + 7 * (n + 1) = i
      <4>1. \A j \in 0 .. 34, m \in Nat : j >= m => j - m \in Bit /\ (j - m) + m = j
        BY DEF Bit
      <4>2. i \in 0 .. 34 /\ 7 * (n + 1) \in Nat
        BY <1>1
      <4> HIDE DEF n
      <4> QED
        BY <2>1, <4>1, <4>2
    <3> QED
      BY <1>4, <3>1
  <2>2. ASSUME NEW i \in rest'
        PROVE  i + 7 * (n + 1) \in input /\ i + 7 * (n + 1) >= 7 * (n + 1)
    BY <1>1, <1>4, <2>2 DEF Bit
  <2> QED
    BY <2>1, <2>2 DEF MoreThan
<1>6. pc' = IF rest' # {} THEN "write" ELSE "read"
  BY DEF Push
<1>7. byte \cap Digit = DigitOf(7 * n)
  <2>1. byte \cap Digit = rest \cap Digit
    BY DEF Digit, More
  <2>2. rest \cap Digit = DigitOf(7 * n)
    BY <1>3 DEF Bit, Digit, DigitOf
  <2> QED
    BY <2>1, <2>2
<1>8. More \in byte <=> pc' = "write"
  BY <1>6 DEF Digit, More
<1>9. ASSUME NEW k \in 1 .. Len(to')
      PROVE  /\ to'[k] \cap Digit = DigitOf(7 * (k - 1))
             /\ More \in to'[k] <=> (k < Len(to') \/ pc' = "write")
  <2>1. CASE k = n + 1
    BY <1>1, <1>2, <1>7, <1>8, <2>1
  <2>2. CASE k \in 1 .. n
    BY <1>1, <1>2, <2>2 DEF Written
  <2> QED
    BY <1>1, <1>2, <2>1, <2>2
<1>10. Written'
  <2>1. \A k \in 1 .. Len(to') : DigitOf(7 * (k - 1))' = DigitOf(7 * (k - 1))
    BY <1>1 DEF DigitOf
  <2>2. MoreThan(7 * Len(to))' <=> MoreThan(7 * (n + 1))
    BY <1>1, <1>2 DEF MoreThan
  <2>3. \A k \in 1 .. Len(to') :
          /\ to'[k] \cap Digit = DigitOf(7 * (k - 1))'
          /\ More \in to'[k] <=> (k < Len(to') \/ pc' = "write")
    BY <1>9, <2>1
  <2>4. pc' = "write" => /\ rest' = {i \in Bit : i + 7 * Len(to') \in input'}
                         /\ num' = {} /\ shift' = 0
    BY <1>1, <1>2, <1>3, <1>4
  <2>5. pc' # "write" => Len(to') > 0 /\ ~MoreThan(7 * Len(to))'
    BY <1>1, <1>2, <1>5, <1>6, <2>2
  <2> QED
    BY <2>3, <2>4, <2>5 DEF Written
<1>11. (ReadLow /\ Read)'
  <2>1. CASE pc' = "read"
    <3>1. 0 \in 0 .. Len(to') - 1 /\ shift' = 7 * 0 /\ num' = input' \cap 0 .. shift' - 1
      BY <1>1, <1>2, <1>3
    <3> QED
      BY <2>1, <3>1 DEF Read, ReadLow
  <2>2. CASE pc' # "read"
    BY <1>6, <2>2 DEF Read, ReadLow
  <2> QED
    BY <2>1, <2>2
<1> QED
  BY <1>10, <1>11

LEMMA WrittenGet ==
  ASSUME TypeOK, Written, Get
  PROVE  Written'
<1>1. /\ input' = input /\ rest' = rest /\ to' = to
      /\ pc = "read" /\ pc' \in {"read", "done"}
  BY DEF Get
<1>2. pc' # "write" /\ Len(to) > 0 /\ ~MoreThan(7 * Len(to))
  BY <1>1 DEF Written
<1>3. \A j \in 1 .. Len(to) : (More \in to[j] <=> j < Len(to)) /\ to[j] \cap Digit = DigitOf(7 * (j - 1))
  BY <1>1 DEF Written
<1> QED
  BY <1>1, <1>2, <1>3 DEF Written, DigitOf, MoreThan

LEMMA SmallGet ==
  ASSUME TypeOK, Written, Read, Get, input \subseteq 0 .. 30
  PROVE  Read'
<1>1. /\ to \in Seq(Bytes) /\ Written /\ input' = input /\ rest' = rest /\ to' = to
      /\ pc = "read" /\ shift' = shift + 7
  BY DEF TypeOK, Get
<1>2. PICK k \in 0 .. Len(to) - 1 : shift = 7 * k /\ num = input \cap 0 .. shift - 1
  BY <1>1 DEF Read
<1>3. shift \in Nat /\ shift \div 7 + 1 = k + 1 /\ k + 1 \in 1 .. Len(to)
  BY <1>1, <1>2
<1>4. PICK digit \in Shifted(to[k + 1], shift) : num' = num \cup digit
  BY <1>3 DEF Get
<1>5. pc' = IF More \in to[k + 1] THEN "read" ELSE "done"
  BY <1>3 DEF Get
<1>6. to[k + 1] \cap Digit = DigitOf(shift)
  <2>1. (k + 1) - 1 = k
    BY <1>2
  <2> QED
    BY <1>1, <1>2, <1>3, <2>1 DEF Written
<1>7. digit = input \cap shift .. shift + 6
  BY <1>3, <1>4, <1>6, ShiftedDigit
<1>8. num' = input \cap 0 .. shift' - 1
  BY <1>1, <1>2, <1>3, <1>4, <1>7
<1>9. More \in to[k + 1] <=> k + 1 < Len(to)
  BY <1>1, <1>3 DEF Written
<1>10. CASE k + 1 < Len(to)
  <2>1. k + 1 \in 0 .. Len(to') - 1 /\ shift' = 7 * (k + 1) /\ pc' = "read"
    BY <1>1, <1>2, <1>5, <1>9, <1>10
  <2> QED
    BY <1>1, <1>8, <2>1 DEF Read
<1>11. CASE k + 1 = Len(to)
  <2>1. pc' = "done" /\ shift' = 7 * Len(to)
    BY <1>1, <1>2, <1>5, <1>9, <1>11
  <2>2. ~MoreThan(7 * Len(to))
    BY <1>1 DEF Written
  <2>3. num' = input
    <3>1. \A i \in input : i \in 0 .. 7 * Len(to) - 1
      BY <1>1, <2>2 DEF MoreThan
    <3> QED
      BY <1>8, <2>1, <3>1
  <2> QED
    BY <1>1, <2>1, <2>3 DEF Read
<1> QED
  BY <1>3, <1>10, <1>11

LEMMA LowGet ==
  ASSUME TypeOK, Written, ReadLow, Get, input \subseteq 0 .. 34
  PROVE  ReadLow'
<1>1. /\ to \in Seq(Bytes) /\ Written /\ input' = input /\ rest' = rest /\ to' = to
      /\ pc = "read" /\ shift' = shift + 7
  BY DEF TypeOK, Get
<1>2. PICK k \in 0 .. Len(to) - 1 : shift = 7 * k /\ num \cap 0 .. 30 = input \cap 0 .. 30 \cap 0 .. shift - 1
  BY <1>1 DEF ReadLow
<1>3. shift \in Nat /\ shift \div 7 + 1 = k + 1 /\ k + 1 \in 1 .. Len(to)
  BY <1>1, <1>2
<1>4. PICK digit \in Shifted(to[k + 1], shift) : num' = num \cup digit
  BY <1>3 DEF Get
<1>5. pc' = IF More \in to[k + 1] THEN "read" ELSE "done"
  BY <1>3 DEF Get
<1>6. to[k + 1] \cap Digit = DigitOf(shift)
  <2>1. (k + 1) - 1 = k
    BY <1>2
  <2> QED
    BY <1>1, <1>2, <1>3, <2>1 DEF Written
<1>7. digit \cap 0 .. 30 = input \cap 0 .. 30 \cap shift .. shift + 6
  <2>1. k \in Nat /\ shift = 7 * k
    BY <1>2
  <2>2. to[k + 1] \cap Digit = DigitOf(7 * k) /\ digit \in Shifted(to[k + 1], 7 * k)
    BY <1>4, <1>6, <2>1
  <2>3. digit \cap 0 .. 30 = input \cap 0 .. 30 \cap 7 * k .. 7 * k + 6
    BY <2>1, <2>2, ShiftedLow
  <2> QED
    BY <2>1, <2>3
<1>8. num' \cap 0 .. 30 = input \cap 0 .. 30 \cap 0 .. shift' - 1
  BY <1>1, <1>2, <1>3, <1>4, <1>7
<1>9. More \in to[k + 1] <=> k + 1 < Len(to)
  BY <1>1, <1>3 DEF Written
<1>10. CASE k + 1 < Len(to)
  <2>1. k + 1 \in 0 .. Len(to') - 1 /\ shift' = 7 * (k + 1) /\ pc' = "read"
    BY <1>1, <1>2, <1>5, <1>9, <1>10
  <2> QED
    BY <1>1, <1>8, <2>1 DEF ReadLow
<1>11. CASE k + 1 = Len(to)
  <2>1. pc' = "done" /\ shift' = 7 * Len(to)
    BY <1>1, <1>2, <1>5, <1>9, <1>11
  <2>2. ~MoreThan(7 * Len(to))
    BY <1>1 DEF Written
  <2>3. num' \cap 0 .. 30 = input \cap 0 .. 30
    <3>1. \A i \in input : i \in 0 .. 7 * Len(to) - 1
      BY <1>1, <2>2 DEF MoreThan
    <3> QED
      BY <1>8, <2>1, <3>1
  <2> QED
    BY <1>1, <2>1, <2>3 DEF ReadLow
<1> QED
  BY <1>3, <1>10, <1>11

LEMMA SmallStep ==
  ASSUME VarintInv, [Next]_vars
  PROVE  VarintInv'
<1>1. TypeOK'
  BY TypeStep DEF VarintInv
<1>2. input' = input
  BY DEF Next, Push, Get, TooLong, vars
<1>3. CASE Push
  BY <1>1, <1>2, <1>3, SmallPush, SmallIsLow DEF VarintInv
<1>4. CASE Get
  <2>1. input \subseteq 0 .. 34 => (Written /\ ReadLow)'
    BY <1>4, WrittenGet, LowGet DEF VarintInv
  <2>2. input \subseteq 0 .. 30 => Read'
    BY <1>4, SmallGet, SmallIsLow DEF VarintInv
  <2> QED
    BY <1>1, <1>2, <2>1, <2>2 DEF VarintInv
<1>5. CASE TooLong
  <2>1. UNCHANGED <<input, rest, to, num, shift>> /\ pc = "read" /\ pc' = "thrown"
    BY <1>5 DEF TooLong
  <2>2. input \subseteq 0 .. 34 => Written'
    BY <2>1 DEF VarintInv, Written, DigitOf, MoreThan
  <2>3. ReadLow' /\ Read'
    BY <2>1 DEF Read, ReadLow
  <2> QED
    BY <1>1, <1>2, <2>2, <2>3 DEF VarintInv
<1>6. CASE UNCHANGED vars
  <2>1. UNCHANGED <<pc, input, rest, to, num, shift>>
    BY <1>6 DEF vars
  <2> QED
    BY <2>1 DEF VarintInv, TypeOK, Written, Read, ReadLow, DigitOf, MoreThan
<1> QED
  BY <1>3, <1>4, <1>5, <1>6 DEF Next

(* Every number below 2^31 is read as it was written, and so is one that   *)
(* another writer padded (serializer.cpp 49-70).                           *)
THEOREM SmallNumbersRoundTrip == Spec => []SmallRoundTrips
<1>1. VarintInv => SmallRoundTrips
  BY DEF VarintInv, Read, SmallRoundTrips
<1> QED
  BY <1>1, SmallInit, SmallStep, PTL DEF Spec

(* A number between 2^31 and 2^35 keeps its lower 31 bits, although its     *)
(* fifth digit is shifted into and past the sign of an int                 *)
(* (serializer.cpp 49-70).                                                  *)
THEOREM LargeNumbersKeepLowBits == Spec => []LowBitsSurvive
<1>1. VarintInv => LowBitsSurvive
  BY DEF VarintInv, ReadLow, LowBitsSurvive
<1> QED
  BY <1>1, SmallInit, SmallStep, PTL DEF Spec

-----------------------------------------------------------------------------
(* The axes of a packed vector do not overlap. *)

\* The places of one axis in the word.
Segment(a) == Place[a] .. Place[a] + 20

LEMMA PlaceOfAxis ==
  ASSUME NEW a \in Axis
  PROVE  /\ Place[a] \in 1 .. 43
         /\ a = "x" => Place[a] = 43
         /\ a = "y" => Place[a] = 22
         /\ a = "z" => Place[a] = 1
BY DEF Axis, Place

LEMMA SegmentsDisjoint ==
  ASSUME NEW a \in Axis, NEW b \in Axis, a # b
  PROVE  Segment(a) \cap Segment(b) = {}
BY PlaceOfAxis DEF Segment, Axis

LEMMA BitsInFive ==
  ASSUME NEW n
  PROVE  BitsOf(n) \subseteq 0 .. 4
BY DEF BitsOf

LEMMA PackedInSegment ==
  ASSUME NEW f \in Binary, NEW a \in Axis
  PROVE  PackOne(f, Place[a]) \subseteq Segment(a)
<1> DEFINE at == Place[a]
<1>1. at \in 1 .. 43
  BY PlaceOfAxis
<1>2. (IF f.sign THEN {at + 20} ELSE {}) \subseteq Segment(a)
  BY <1>1 DEF Segment
<1>3. {at + 15 + i : i \in BitsOf((f.exponent - 127) % 32)} \subseteq Segment(a)
  BY <1>1, BitsInFive DEF Segment
<1>4. {at + i - 8 : i \in f.mantissa \cap 8 .. 22} \subseteq Segment(a)
  BY <1>1 DEF Segment
<1> QED
  BY <1>2, <1>3, <1>4 DEF PackOne

\* What a place of the word says of the float that lies there.
LEMMA PackedFields ==
  ASSUME NEW f \in Binary, NEW at \in 1 .. 43
  PROVE  /\ at + 20 \in PackOne(f, at) <=> f.sign
         /\ \A i \in 0 .. 4 :
              at + 15 + i \in PackOne(f, at) <=> i \in BitsOf((f.exponent - 127) % 32)
         /\ \A i \in 8 .. 22 : at + i - 8 \in PackOne(f, at) <=> i \in f.mantissa
<1> DEFINE bits == BitsOf((f.exponent - 127) % 32)
           sign == IF f.sign THEN {at + 20} ELSE {}
           exponent == {at + 15 + i : i \in bits}
           mantissa == {at + i - 8 : i \in f.mantissa \cap 8 .. 22}
<1>1. PackOne(f, at) = sign \cup exponent \cup mantissa
  BY DEF PackOne
<1>2. bits \subseteq 0 .. 4
  BY BitsInFive
<1>3. sign \subseteq {at + 20}
  OBVIOUS
<1> HIDE DEF bits
<1>4. exponent \subseteq at + 15 .. at + 19
  BY <1>2
<1>5. mantissa \subseteq at .. at + 14
  OBVIOUS
<1>6. at + 20 \in sign <=> f.sign
  OBVIOUS
<1>7. \A i \in 0 .. 4 : at + 15 + i \in exponent <=> i \in bits
  BY <1>2
<1>8. \A i \in 8 .. 22 : at + i - 8 \in mantissa <=> i \in f.mantissa
  OBVIOUS
<1> HIDE DEF sign, exponent, mantissa
<1>9. at + 20 \in PackOne(f, at) <=> f.sign
  BY <1>1, <1>4, <1>5, <1>6
<1>10. \A i \in 0 .. 4 : at + 15 + i \in PackOne(f, at) <=> i \in bits
  BY <1>1, <1>3, <1>5, <1>7
<1>11. \A i \in 8 .. 22 : at + i - 8 \in PackOne(f, at) <=> i \in f.mantissa
  BY <1>1, <1>3, <1>4, <1>8
<1> QED
  BY <1>9, <1>10, <1>11 DEF bits

\* In the places of an axis, the word holds this axis and nothing else.
LEMMA WordInSegment ==
  ASSUME NEW v \in [Axis -> Binary], NEW a \in Axis, NEW p \in Segment(a)
  PROVE  p \in Word(v) <=> p \in PackOne(v[a], Place[a])
<1>1. p # 0
  BY PlaceOfAxis DEF Segment
<1>2. p \notin RoundingBit(v)
  BY <1>1 DEF RoundingBit
<1>3. ASSUME NEW b \in Axis, p \in PackOne(v[b], Place[b])
      PROVE  b = a
  <2>1. p \in Segment(b)
    BY <1>3, PackedInSegment
  <2> QED
    BY <2>1, SegmentsDisjoint
<1> QED
  BY <1>2, <1>3 DEF Word

LEMMA WordIsWord ==
  ASSUME NEW v \in [Axis -> Binary]
  PROVE  Word(v) \subseteq 0 .. 63
<1>1. \A a \in Axis : PackOne(v[a], Place[a]) \subseteq 0 .. 63
  BY PackedInSegment, PlaceOfAxis DEF Segment
<1>2. RoundingBit(v) \subseteq 0 .. 63
  BY DEF RoundingBit
<1> QED
  BY <1>1, <1>2 DEF Word

\* The eight bytes put together are the word that was cut into them.
LEMMA BytesAreWord ==
  ASSUME NEW v \in [Axis -> Binary]
  PROVE  UNION {{i + 8 * (k - 1) : i \in Packed(v)[k]} : k \in 1 .. 8} = Word(v)
<1> DEFINE w == Word(v)
           in == Packed(v)
           joined == UNION {{i + 8 * (k - 1) : i \in in[k]} : k \in 1 .. 8}
<1>1. w \in SUBSET (0 .. 63)
  BY WordIsWord
<1>2. \A k \in 1 .. 8 : in[k] = {i \in 0 .. 7 : i + 8 * (k - 1) \in w}
  BY DEF Packed
<1> HIDE DEF w, in
<1>3. joined \subseteq w
  BY <1>2
<1>4. ASSUME NEW p \in w
      PROVE  p \in joined
  <2> DEFINE k == p \div 8 + 1
             i == p % 8
  <2>1. p \in 0 .. 63
    BY <1>1
  <2>2. k \in 1 .. 8 /\ i \in 0 .. 7 /\ i + 8 * (k - 1) = p
    BY <2>1
  <2> HIDE DEF k, i
  <2>3. i \in in[k]
    BY <1>2, <2>2
  <2>4. p \in {j + 8 * (k - 1) : j \in in[k]}
    BY <2>2, <2>3
  <2> QED
    BY <2>2, <2>4
<1>5. joined = w
  BY <1>3, <1>4
<1> QED
  BY <1>5 DEF w, in

\* Five bits say which number they are.
LEMMA BitsOfIsInjective ==
  ASSUME NEW n \in 0 .. 31, NEW m \in 0 .. 31, BitsOf(n) = BitsOf(m)
  PROVE  n = m
<1>1. \A i \in 0 .. 4 : (n \div 2^i) % 2 = 1 <=> (m \div 2^i) % 2 = 1
  BY DEF BitsOf
<1>2. 2^0 = 1 /\ 2^1 = 2 /\ 2^2 = 4 /\ 2^3 = 8 /\ 2^4 = 16
  OBVIOUS
<1>3. /\ (n \div 1) % 2 = 1 <=> (m \div 1) % 2 = 1
      /\ (n \div 2) % 2 = 1 <=> (m \div 2) % 2 = 1
      /\ (n \div 4) % 2 = 1 <=> (m \div 4) % 2 = 1
      /\ (n \div 8) % 2 = 1 <=> (m \div 8) % 2 = 1
      /\ (n \div 16) % 2 = 1 <=> (m \div 16) % 2 = 1
  BY <1>1, <1>2
<1> QED
  BY <1>3

\* An axis is read as it was written, as far as its places reach.
LEMMA AxisSurvives ==
  ASSUME NEW v \in [Axis -> Binary], NEW a \in Axis
  PROVE  /\ UnpackOne(Word(v), a).sign = v[a].sign
         /\ UnpackOne(Word(v), a).mantissa \cap 8 .. 22 = v[a].mantissa \cap 8 .. 22
         /\ v[a].exponent \in (IF a = "z" THEN 111 .. 142 ELSE 127 .. 142)
              => UnpackOne(Word(v), a).exponent = v[a].exponent
<1> DEFINE at == Place[a]
           f  == v[a]
           w  == Word(v)
           m  == (f.exponent - 127) % 32
           e  == CHOOSE n \in 0 .. 31 : BitsOf(n) = {i \in 0 .. 4 : at + 15 + i \in w}
<1>1. at \in 1 .. 43 /\ f \in Binary
  BY PlaceOfAxis
<1>2. \A p \in at .. at + 20 : p \in w <=> p \in PackOne(f, at)
  BY WordInSegment DEF Segment
<1>3. UnpackOne(w, a) =
        [sign     |-> at + 20 \in w,
         exponent |-> Exponent(a, e),
         mantissa |-> {i \in 8 .. 22 : at + i - 8 \in w} \cup IF 0 \in w THEN 0 .. 7 ELSE {}]
  BY DEF UnpackOne
<1> HIDE DEF at, f, w, e
<1>4. UnpackOne(w, a).sign = f.sign
  <2>1. (at + 20 \in w) = (at + 20 \in PackOne(f, at))
    BY <1>1, <1>2
  <2>2. (at + 20 \in PackOne(f, at)) = f.sign
    <3>1. at + 20 \in PackOne(f, at) <=> f.sign
      <4> HIDE DEF m
      <4> QED
        BY <1>1, PackedFields, Zenon
    <3>2. f.sign \in BOOLEAN
      BY <1>1 DEF Binary
    <3> HIDE DEF m
    <3> QED
      BY <3>1, <3>2
  <2> QED
    BY <1>3, <2>1, <2>2
<1>5. UnpackOne(w, a).mantissa \cap 8 .. 22 = f.mantissa \cap 8 .. 22
  <2>1. \A i \in 8 .. 22 : at + i - 8 \in w <=> i \in f.mantissa
    <3> SUFFICES ASSUME NEW i \in 8 .. 22
                 PROVE  at + i - 8 \in w <=> i \in f.mantissa
      OBVIOUS
    <3>1. at + i - 8 \in at .. at + 20
      BY <1>1
    <3> QED
      BY <1>1, <1>2, <3>1, PackedFields
  <2>2. (IF 0 \in w THEN 0 .. 7 ELSE {}) \cap 8 .. 22 = {}
    OBVIOUS
  <2> QED
    BY <1>3, <2>1, <2>2
<1>6. e = m
  <2>1. m \in 0 .. 31
    BY <1>1 DEF Binary
  <2> HIDE DEF m
  <2>2. \A i \in 0 .. 4 : at + 15 + i \in w <=> i \in BitsOf(m)
    <3> SUFFICES ASSUME NEW i \in 0 .. 4
                 PROVE  at + 15 + i \in w <=> i \in BitsOf(m)
      OBVIOUS
    <3>1. at + 15 + i \in at .. at + 20
      BY <1>1
    <3>2. at + 15 + i \in PackOne(f, at) <=> i \in BitsOf(m)
      BY <1>1, PackedFields DEF m
    <3> QED
      BY <1>2, <3>1, <3>2
  <2>3. BitsOf(m) = {i \in 0 .. 4 : at + 15 + i \in w}
    BY <2>2, BitsInFive
  <2>4. e \in 0 .. 31 /\ BitsOf(e) = {i \in 0 .. 4 : at + 15 + i \in w}
    BY <2>1, <2>3 DEF e
  <2> QED
    BY <2>1, <2>3, <2>4, BitsOfIsInjective
<1>7. ASSUME f.exponent \in (IF a = "z" THEN 111 .. 142 ELSE 127 .. 142)
      PROVE  Exponent(a, m) = f.exponent
  <2>1. CASE f.exponent \in 127 .. 142
    <3>1. m = f.exponent - 127 /\ ~(m >= 16)
      BY <2>1
    <3>2. Exponent(a, m) = (m + 0 + 127) % 256
      BY <3>1 DEF Exponent, Extension
    <3> QED
      BY <2>1, <3>1, <3>2
  <2>2. CASE a = "z" /\ f.exponent \in 111 .. 126
    <3>1. m = f.exponent - 95 /\ m >= 16
      BY <2>2
    <3>2. Exponent(a, m) = (m + 224 + 127) % 256
      BY <2>2, <3>1 DEF Exponent, Extension
    <3> QED
      BY <2>2, <3>1, <3>2
  <2> QED
    BY <1>7, <2>1, <2>2
<1>8. UnpackOne(w, a).exponent = Exponent(a, m)
  BY <1>3, <1>6
<1> QED
  BY <1>4, <1>5, <1>7, <1>8 DEF f, w

\* Between writing and reading, the bytes are those of the vector.
VecInv ==
  /\ vecStep = "read" => vec \in Vectors /\ bytes = Packed(vec)
  /\ vecStep = "done" => vec \in Vectors /\ out = Unpacked(Packed(vec))

LEMMA VecInvInit == VecInit => VecInv
BY DEF VecInit, VecInv

LEMMA VecInvStep ==
  ASSUME VecInv, [VecNext]_vecVars
  PROVE  VecInv'
<1>1. CASE WriteVec3
  BY <1>1 DEF WriteVec3, VecInv
<1>2. CASE ReadVec3
  BY <1>2 DEF ReadVec3, VecInv
<1>3. CASE UNCHANGED vecVars
  BY <1>3 DEF vecVars, VecInv
<1> QED
  BY <1>1, <1>2, <1>3 DEF VecNext

(* No axis of a vector disturbs another one: the signs and the upper fifteen *)
(* bits of the mantissas come back, and so do the exponents that have a     *)
(* place in five bits, whatever the vectors are (serializer.cpp 149-218).   *)
THEOREM VectorsComeBack == VecSpec => []VectorsSurvive
<1>1. VecInv => VectorsSurvive
  <2> SUFFICES ASSUME VecInv, vecStep = "done", NEW a \in Axis
               PROVE  /\ out[a].sign = vec[a].sign
                      /\ out[a].mantissa \cap 8 .. 22 = vec[a].mantissa \cap 8 .. 22
                      /\ vec[a].exponent \in (IF a = "z" THEN 111 .. 142 ELSE 127 .. 142)
                           => out[a].exponent = vec[a].exponent
    BY DEF VectorsSurvive
  <2>1. vec \in [Axis -> Binary] /\ out = Unpacked(Packed(vec))
    BY Vec3Assumption DEF VecInv
  <2>2. UNION {{i + 8 * (k - 1) : i \in Packed(vec)[k]} : k \in 1 .. 8} = Word(vec)
    BY <2>1, BytesAreWord
  <2>3. out[a] = UnpackOne(Word(vec), a)
    BY <2>1, <2>2 DEF Unpacked
  <2> QED
    BY <2>1, <2>3, AxisSurvives
<1> QED
  BY <1>1, VecInvInit, VecInvStep, PTL DEF VecSpec
==============================================================================

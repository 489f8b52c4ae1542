------------------------------ MODULE PacketProofs ------------------------------
(***************************************************************************)
(* Whatever is written into a stream of PacketStream comes out of it again *)
(* as it went in, for any packets, lists and nesting: objects are read     *)
(* whole, and the stream implements ValuePipe.                             *)
(*                                                                         *)
(* The proof keeps a log of the calls of the writer, of which the bytes    *)
(* are the concatenation, and says where in it the reader stands.          *)
(***************************************************************************)
EXTENDS PacketStream, SequenceTheorems, TLAPS

-----------------------------------------------------------------------------
(* The types of a packet's fields, and how objects nest among them. *)

Objects == {LedColor, OverlayPoint}
Lists   == {ListOf(t) : t \in Objects \cup {Vec3}}
Types   == {Byte, Float, Vec3, Number, Text} \cup Objects \cup Lists
Agendas == Seq(Types \cup {Return})

LEMMA TypeKinds ==
  ASSUME NEW t \in Types
  PROVE  /\ t.is \in {"fixed", "number", "text", "list", "object"}
         /\ t.is = "fixed" => t.size \in 1 .. 8
         /\ t.is = "list" => t.of \in Types
         /\ t.is = "object" => t.fields \in Seq(Types)
<1>1. CASE t \in {Byte, Float, Vec3, Number, Text}
  BY <1>1 DEF Byte, Float, Vec3, Number, Text
<1>2. CASE t = LedColor
  <2>1. <<Byte, Byte, Byte>> \in Seq(Types)
    BY DEF Types
  <2> QED
    BY <1>2, <2>1 DEF LedColor, Object
<1>3. CASE t = OverlayPoint
  <2>1. <<Number, Number, Byte>> \in Seq(Types)
    BY DEF Types
  <2> QED
    BY <1>3, <2>1 DEF OverlayPoint, Object
<1>4. CASE t \in Lists
  <2>1. PICK u \in Objects \cup {Vec3} : t = ListOf(u)
    BY <1>4 DEF Lists
  <2>2. t.is = "list" /\ t.of = u
    BY <2>1 DEF ListOf
  <2>3. u \in Types
    BY DEF Types
  <2> QED
    BY <2>2, <2>3
<1> QED
  BY <1>1, <1>2, <1>3, <1>4 DEF Types, Objects

LEMMA ReturnKind == Return.is = "return"
BY DEF Return

LEMMA AgendaKinds ==
  ASSUME NEW a \in Agendas, a # <<>>
  PROVE  /\ Head(a) \in Types \/ Head(a) = Return
         /\ Head(a).is \in {"fixed", "number", "text", "list", "object", "return"}
         /\ Head(a).is # "return" => Head(a) \in Types
         /\ Tail(a) \in Agendas
<1>1. Head(a) \in Types \cup {Return} /\ Tail(a) \in Agendas
  BY HeadTailProperties DEF Agendas
<1> QED
  BY <1>1, TypeKinds, ReturnKind

LEMMA FieldTypes ==
  ASSUME NEW p \in DOMAIN Fields
  PROVE  Fields[p] \in Seq(Types)
<1>1. Byte \in Types /\ Float \in Types /\ Vec3 \in Types /\ Number \in Types /\ Text \in Types
  BY DEF Types
<1>2. ListOf(LedColor) \in Types /\ ListOf(OverlayPoint) \in Types /\ ListOf(Vec3) \in Types
  BY DEF Types, Lists, Objects
<1>3. p \in {"MOVE", "STOP", "LEDS", "STAT", "OPUD", "CPUD", "texts"}
  BY DEF Fields
<1>4. CASE p = "MOVE"
  BY <1>1, <1>4 DEF Fields
<1>5. CASE p = "STOP"
  BY <1>5 DEF Fields
<1>6. CASE p = "LEDS"
  BY <1>2, <1>6 DEF Fields
<1>7. CASE p = "STAT"
  BY <1>1, <1>7 DEF Fields
<1>8. CASE p = "OPUD"
  BY <1>2, <1>8 DEF Fields
<1>9. CASE p = "CPUD"
  BY <1>1, <1>9 DEF Fields
<1>10. CASE p = "texts"
  BY <1>1, <1>10 DEF Fields
<1> QED
  BY <1>3, <1>4, <1>5, <1>6, <1>7, <1>8, <1>9, <1>10

\* depth objects are open: so many calls on the agenda return from one.
Nested(a, depth) ==
  \E open \in [0 .. Len(a) -> Nat] :
    /\ open[0] = depth /\ open[Len(a)] = 0
    /\ \A i \in 1 .. Len(a) : open[i - 1] = open[i] + IF a[i].is = "return" THEN 1 ELSE 0

LEMMA NestedTail ==
  ASSUME NEW a \in Agendas, a # <<>>, NEW d \in Nat, Nested(a, d)
  PROVE  /\ Head(a).is = "return" => d > 0 /\ Nested(Tail(a), d - 1)
         /\ Head(a).is # "return" => Nested(Tail(a), d)
<1> DEFINE m == Len(a)
<1>1. PICK open \in [0 .. m -> Nat] :
        /\ open[0] = d /\ open[m] = 0
        /\ \A i \in 1 .. m : open[i - 1] = open[i] + IF a[i].is = "return" THEN 1 ELSE 0
  BY DEF Nested
<1>2. /\ m \in Nat \ {0} /\ Head(a) = a[1]
      /\ Len(Tail(a)) = m - 1 /\ \A i \in 1 .. m - 1 : Tail(a)[i] = a[i + 1]
  BY HeadTailProperties, EmptySeq, LenProperties DEF Agendas
<1> HIDE DEF m
<1> DEFINE later == [i \in 0 .. m - 1 |-> open[i + 1]]
<1>3. later \in [0 .. m - 1 -> Nat] /\ later[0] = open[1] /\ later[m - 1] = 0
  BY <1>1, <1>2
<1>4. \A i \in 1 .. m - 1 :
        later[i - 1] = later[i] + IF Tail(a)[i].is = "return" THEN 1 ELSE 0
  <2> SUFFICES ASSUME NEW i \in 1 .. m - 1
               PROVE  later[i - 1] = later[i] + IF Tail(a)[i].is = "return" THEN 1 ELSE 0
    OBVIOUS
  <2>1. later[i - 1] = open[i] /\ later[i] = open[i + 1] /\ Tail(a)[i] = a[i + 1]
    BY <1>2
  <2>2. open[(i + 1) - 1] = open[i + 1] + IF a[i + 1].is = "return" THEN 1 ELSE 0
    BY <1>1, <1>2
  <2>3. (i + 1) - 1 = i
    BY <1>2
  <2> QED
    BY <2>1, <2>2, <2>3
<1> HIDE DEF later
<1>5. Nested(Tail(a), open[1])
  BY <1>2, <1>3, <1>4 DEF Nested
<1>6. open[0] = open[1] + IF a[1].is = "return" THEN 1 ELSE 0
  <2>1. 1 \in 1 .. m /\ 1 - 1 = 0
    BY <1>2
  <2> QED
    BY <1>1, <2>1
<1>7. open[1] \in Nat
  BY <1>1, <1>2
<1>8. CASE Head(a).is = "return"
  <2>1. d = open[1] + 1
    BY <1>1, <1>2, <1>6, <1>8
  <2>2. d > 0 /\ d - 1 = open[1]
    BY <1>7, <2>1
  <2> QED
    BY <1>5, <1>8, <2>2
<1>9. CASE Head(a).is # "return"
  <2>1. d = open[1]
    BY <1>1, <1>2, <1>6, <1>7, <1>9
  <2> QED
    BY <1>5, <1>9, <2>1
<1> QED
  BY <1>8, <1>9

LEMMA NestedFields ==
  ASSUME NEW p \in Seq(Types), NEW a \in Agendas, NEW d \in Nat, Nested(a, d)
  PROVE  p \o a \in Agendas /\ Nested(p \o a, d)
<1> DEFINE m == Len(a)
           k == Len(p)
           b == p \o a
<1>1. PICK open \in [0 .. m -> Nat] :
        /\ open[0] = d /\ open[m] = 0
        /\ \A i \in 1 .. m : open[i - 1] = open[i] + IF a[i].is = "return" THEN 1 ELSE 0
  BY DEF Nested
<1>2. p \in Agendas
  BY DEF Agendas
<1>3. /\ m \in Nat /\ k \in Nat /\ b \in Agendas /\ Len(b) = k + m
      /\ \A i \in 1 .. k + m : b[i] = IF i <= k THEN p[i] ELSE a[i - k]
  BY <1>2, ConcatProperties, LenProperties DEF Agendas
<1>4. \A i \in 1 .. k : p[i].is # "return"
  BY ElementOfSeq, TypeKinds
<1> HIDE DEF m, k, b
<1> DEFINE longer == [i \in 0 .. k + m |-> IF i <= k THEN d ELSE open[i - k]]
<1>5. longer \in [0 .. k + m -> Nat]
  BY <1>1, <1>3
<1>6. longer[0] = d /\ longer[k + m] = 0
  <2>1. 0 <= k /\ 0 \in 0 .. k + m /\ k + m \in 0 .. k + m
    BY <1>3
  <2>2. (k + m) - k = m /\ (k + m <= k => m = 0)
    BY <1>3
  <2> QED
    BY <1>1, <2>1, <2>2
<1>7. \A i \in 1 .. k + m : longer[i - 1] = longer[i] + IF b[i].is = "return" THEN 1 ELSE 0
  <2> SUFFICES ASSUME NEW i \in 1 .. k + m
               PROVE  longer[i - 1] = longer[i] + IF b[i].is = "return" THEN 1 ELSE 0
    OBVIOUS
  <2>1. CASE i <= k
    <3>1. longer[i - 1] = d /\ longer[i] = d
      BY <1>3, <2>1
    <3>2. b[i].is # "return"
      BY <1>3, <1>4, <2>1
    <3> QED
      BY <3>1, <3>2
  <2>2. CASE i > k
    <3>1. i - k \in 1 .. m /\ (i - 1) - k = (i - k) - 1
      BY <1>3, <2>2
    <3>2. b[i] = a[i - k] /\ longer[i] = open[i - k]
      BY <1>3, <2>2
    <3>3. longer[i - 1] = open[(i - k) - 1]
      <4>1. CASE i - 1 <= k
        <5>1. i - 1 = k /\ (i - k) - 1 = 0
          BY <1>3, <2>2, <4>1
        <5> QED
          BY <1>1, <1>3, <5>1
      <4>2. CASE i - 1 > k
        BY <1>3, <3>1, <4>2
      <4> QED
        BY <1>3, <4>1, <4>2
    <3> QED
      BY <1>1, <3>1, <3>2, <3>3
  <2> QED
    BY <1>3, <2>1, <2>2
<1> HIDE DEF longer
<1>8. Nested(b, d)
  <2>1. Len(b) = k + m
    BY <1>3
  <2>2. /\ longer \in [0 .. Len(b) -> Nat] /\ longer[0] = d /\ longer[Len(b)] = 0
        /\ \A i \in 1 .. Len(b) : longer[i - 1] = longer[i] + IF b[i].is = "return" THEN 1 ELSE 0
    BY <1>5, <1>6, <1>7, <2>1
  <2> QED
    BY <2>2 DEF Nested
<1> QED
  BY <1>3, <1>8 DEF b

LEMMA NestedObject ==
  ASSUME NEW p \in Seq(Types), NEW a \in Agendas, NEW d \in Nat, Nested(a, d)
  PROVE  p \o <<Return>> \o a \in Agendas /\ Nested(p \o <<Return>> \o a, d + 1)
<1> DEFINE m == Len(a)
           b == <<Return>> \o a
<1>1. PICK open \in [0 .. m -> Nat] :
        /\ open[0] = d /\ open[m] = 0
        /\ \A i \in 1 .. m : open[i - 1] = open[i] + IF a[i].is = "return" THEN 1 ELSE 0
  BY DEF Nested
<1>2. /\ <<Return>> \in Agendas /\ p \in Agendas
      /\ Len(<<Return>>) = 1 /\ <<Return>>[1] = Return
  BY DEF Agendas
<1>3. /\ m \in Nat /\ b \in Agendas /\ Len(b) = 1 + m
      /\ \A i \in 1 .. 1 + m : b[i] = IF i <= 1 THEN Return ELSE a[i - 1]
  <2>1. \A i \in 1 .. 1 + m : i <= 1 => i = 1
    BY LenProperties DEF Agendas
  <2> QED
    BY <1>2, <2>1, ConcatProperties, LenProperties DEF Agendas
<1>4. p \o <<Return>> \o a = p \o b
  BY <1>2, ConcatAssociative DEF Agendas
<1> HIDE DEF m, b
<1> DEFINE more == [i \in 0 .. 1 + m |-> IF i = 0 THEN d + 1 ELSE open[i - 1]]
<1>5. more \in [0 .. 1 + m -> Nat] /\ more[0] = d + 1 /\ more[1 + m] = 0
  BY <1>1, <1>3
<1>6. \A i \in 1 .. 1 + m : more[i - 1] = more[i] + IF b[i].is = "return" THEN 1 ELSE 0
  <2> SUFFICES ASSUME NEW i \in 1 .. 1 + m
               PROVE  more[i - 1] = more[i] + IF b[i].is = "return" THEN 1 ELSE 0
    OBVIOUS
  <2>1. CASE i = 1
    BY <1>1, <1>3, <2>1, ReturnKind
  <2>2. CASE i > 1
    <3>1. i - 1 \in 1 .. m /\ b[i] = a[i - 1] /\ more[i] = open[i - 1]
      BY <1>3, <2>2
    <3>2. more[i - 1] = open[(i - 1) - 1]
      BY <1>3, <3>1
    <3> QED
      BY <1>1, <3>1, <3>2
  <2> QED
    BY <1>3, <2>1, <2>2
<1> HIDE DEF more
<1>7. Nested(b, d + 1)
  BY <1>3, <1>5, <1>6 DEF Nested
<1>8. d + 1 \in Nat
  OBVIOUS
<1> QED
  BY <1>3, <1>4, <1>7, <1>8, NestedFields

LEMMA NestedStart ==
  ASSUME NEW p \in Seq(Types)
  PROVE  p \in Agendas /\ Nested(p, 0)
<1>1. p \in Agendas /\ Len(p) \in Nat
  BY LenProperties DEF Agendas
<1>2. \A i \in 1 .. Len(p) : p[i].is # "return"
  BY ElementOfSeq, TypeKinds
<1> DEFINE none == [i \in 0 .. Len(p) |-> 0]
<1>3. none \in [0 .. Len(p) -> Nat] /\ none[0] = 0 /\ none[Len(p)] = 0
  BY <1>1
<1>4. \A i \in 1 .. Len(p) : none[i - 1] = none[i] + IF p[i].is = "return" THEN 1 ELSE 0
  BY <1>1, <1>2
<1> HIDE DEF none
<1> QED
  BY <1>1, <1>3, <1>4 DEF Nested

LEMMA NestedEnd ==
  ASSUME NEW d \in Nat, Nested(<<>>, d)
  PROVE  d = 0
<1>1. Len(<<>>) = 0
  BY EmptySeq
<1> QED
  BY <1>1 DEF Nested

-----------------------------------------------------------------------------
(* The bytes of a value, and what becomes of them in a longer vector. *)

AnyValue == Values \cup Coordinates \cup 0 .. MaxLength
Cell     == Nat \X Nat \X Nat

LEMMA ValuesAreNumbers ==
  /\ Values \subseteq AnyValue /\ Coordinates \subseteq AnyValue /\ 0 .. MaxLength \subseteq AnyValue
  /\ AnyValue \subseteq Nat
<1>1. Values \subseteq Nat /\ MaxLength \in Nat
  BY StreamAssumption
<1>2. Coordinates \subseteq Nat
  BY StreamAssumption
<1>3. 0 .. MaxLength \subseteq Nat
  BY <1>1
<1> QED
  BY <1>1, <1>2, <1>3 DEF AnyValue

\* s is the beginning of t.
Starts(s, t) == Len(s) <= Len(t) /\ \A k \in 1 .. Len(s) : t[k] = s[k]

LEMMA StartsIsPrefix ==
  ASSUME NEW S, NEW s \in Seq(S), NEW t \in Seq(S), Starts(s, t)
  PROVE  IsPrefix(s, t)
<1>1. Len(s) \in Nat /\ Len(t) \in Nat
  BY LenProperties
<1>2. \A i \in 1 .. Len(s) : s[i] \in S /\ t[i] \in S
  BY <1>1, ElementOfSeq DEF Starts
<1>3. /\ SubSeq(s, 1, Len(s)) \in Seq(S) /\ Len(SubSeq(s, 1, Len(s))) = Len(s)
      /\ \A i \in 1 .. Len(s) : SubSeq(s, 1, Len(s))[i] = s[i]
  BY <1>1, <1>2, SubSeqProperties
<1>4. /\ SubSeq(t, 1, Len(s)) \in Seq(S) /\ Len(SubSeq(t, 1, Len(s))) = Len(s)
      /\ \A i \in 1 .. Len(s) : SubSeq(t, 1, Len(s))[i] = t[i]
  BY <1>1, <1>2, SubSeqProperties
<1>5. SubSeq(s, 1, Len(s)) = SubSeq(t, 1, Len(s))
  BY <1>3, <1>4, SeqEqual DEF Starts
<1> QED
  BY <1>5 DEF Starts, IsPrefix

LEMMA StartsSelf ==
  ASSUME NEW S, NEW s \in Seq(S)
  PROVE  Starts(s, s)
BY LenProperties DEF Starts

LEMMA StartsTransitive ==
  ASSUME NEW S, NEW s \in Seq(S), NEW t \in Seq(S), NEW u \in Seq(S), Starts(s, t), Starts(t, u)
  PROVE  Starts(s, u)
<1>1. Len(s) \in Nat /\ Len(t) \in Nat /\ Len(u) \in Nat
  BY LenProperties
<1> QED
  BY <1>1 DEF Starts

LEMMA StartsConcat ==
  ASSUME NEW S, NEW s \in Seq(S), NEW t \in Seq(S)
  PROVE  s \o t \in Seq(S) /\ Starts(s, s \o t)
<1>1. Len(s) \in Nat /\ Len(t) \in Nat
  BY LenProperties
<1> QED
  BY <1>1, ConcatProperties DEF Starts

LEMMA StartsAppend ==
  ASSUME NEW S, NEW s \in Seq(S), NEW e \in S
  PROVE  /\ Append(s, e) \in Seq(S) /\ Starts(s, Append(s, e))
         /\ Len(Append(s, e)) = Len(s) + 1
BY LenProperties, AppendProperties DEF Starts

\* Where a part of the vector is found again.
LEMMA FoundAgain ==
  ASSUME NEW S, NEW s \in Seq(S), NEW t \in Seq(S), NEW u \in Seq(S), Starts(s \o t, u)
  PROVE  /\ Len(s \o t) = Len(s) + Len(t) /\ Len(s) + Len(t) <= Len(u)
         /\ \A k \in 1 .. Len(t) : u[Len(s) + k] = t[k]
<1>1. Len(s) \in Nat /\ Len(t) \in Nat /\ Len(u) \in Nat
  BY LenProperties
<1>2. Len(s \o t) = Len(s) + Len(t)
  BY ConcatProperties
<1>3. ASSUME NEW k \in 1 .. Len(t)
      PROVE  u[Len(s) + k] = t[k]
  <2>1. Len(s) + k \in 1 .. Len(s) + Len(t) /\ ~(Len(s) + k <= Len(s)) /\ (Len(s) + k) - Len(s) = k
    BY <1>1
  <2>2. (s \o t)[Len(s) + k] = t[k]
    BY <2>1, ConcatProperties
  <2> QED
    BY <1>2, <2>1, <2>2 DEF Starts
<1> QED
  BY <1>2, <1>3 DEF Starts

LEMMA CellsOfValue ==
  ASSUME NEW x \in Nat, NEW n \in Nat
  PROVE  /\ Cells(x, n) \in Seq(Cell) /\ Len(Cells(x, n)) = n
         /\ \A k \in 1 .. n : Cells(x, n)[k] = <<x, k, n>>
<1>1. \A k \in 1 .. n : <<x, k, n>> \in Cell
  BY DEF Cell
<1> QED
  BY <1>1 DEF Cells

LEMMA NumberCellsOfValue ==
  ASSUME NEW x \in Nat
  PROVE  \E n \in 1 .. 3 : NumberCells(x) = Cells(x, n)
BY DEF NumberCells

\* The bytes of a text after its length.
Letters(s, n) == [i \in 1 .. n |-> <<s[i], 1, 1>>]

LEMMA LettersOfText ==
  ASSUME NEW n \in Nat, NEW s \in [1 .. n -> Values]
  PROVE  /\ Letters(s, n) \in Seq(Cell) /\ Len(Letters(s, n)) = n
         /\ \A i \in 1 .. n : Letters(s, n)[i] = <<s[i], 1, 1>>
<1>1. \A i \in 1 .. n : <<s[i], 1, 1>> \in Cell
  BY StreamAssumption DEF Cell
<1> QED
  BY <1>1 DEF Letters

-----------------------------------------------------------------------------
(* One call of serialize(): before it, a is still to be done, v has been    *)
(* written and c are the bytes; after it a2, v2 and c2.                     *)

FixedCall(t, v, c, v2, c2) ==
  \E x \in Values : v2 = Append(v, x) /\ c2 = c \o Cells(x, t.size)
NumberCall(v, c, v2, c2) ==
  \E x \in Coordinates : v2 = Append(v, x) /\ c2 = c \o NumberCells(x)
TextCall(v, c, v2, c2) ==
  \E n \in 0 .. MaxLength : \E s \in [1 .. n -> Values] :
    v2 = Append(v, n) \o s /\ c2 = c \o (NumberCells(n) \o Letters(s, n))
ListCall(t, later, v, c, a2, v2, c2) ==
  \E n \in 0 .. MaxLength :
    /\ v2 = Append(v, n) /\ c2 = c \o NumberCells(n)
    /\ a2 = [i \in 1 .. n |-> t.of] \o later

Call(a, v, c, a2, v2, c2) ==
  LET t == Head(a)
      later == Tail(a)
  IN  /\ a # <<>>
      /\ t.is = "fixed" => FixedCall(t, v, c, v2, c2) /\ a2 = later
      /\ t.is = "number" => NumberCall(v, c, v2, c2) /\ a2 = later
      /\ t.is = "text" => TextCall(v, c, v2, c2) /\ a2 = later
      /\ t.is = "list" => ListCall(t, later, v, c, a2, v2, c2)
      /\ t.is = "object" => a2 = t.fields \o <<Return>> \o later /\ v2 = v /\ c2 = c
      /\ t.is = "return" => a2 = later /\ v2 = v /\ c2 = c

\* A call adds to what has been written, and leaves an agenda.
LEMMA CallAdds ==
  ASSUME NEW a \in Agendas, NEW v \in Seq(AnyValue), NEW c \in Seq(Cell),
         NEW a2, NEW v2, NEW c2, Call(a, v, c, a2, v2, c2)
  PROVE  /\ a2 \in Agendas /\ v2 \in Seq(AnyValue) /\ c2 \in Seq(Cell)
         /\ Starts(v, v2) /\ Starts(c, c2)
<1> DEFINE t == Head(a)
           later == Tail(a)
<1>1. a # <<>> /\ t.is \in {"fixed", "number", "text", "list", "object", "return"} /\ later \in Agendas
  BY AgendaKinds DEF Call
<1>2. t.is # "return" => t \in Types
  BY <1>1, AgendaKinds
<1>3. CASE t.is = "fixed"
  <2>1. PICK x \in Values : v2 = Append(v, x) /\ c2 = c \o Cells(x, t.size)
    BY <1>3 DEF Call, FixedCall
  <2>2. x \in AnyValue /\ Cells(x, t.size) \in Seq(Cell)
    <3>1. t \in Types
      BY <1>2, <1>3
    <3>2. t.size \in 1 .. 8
      BY <1>3, <3>1, TypeKinds
    <3>3. x \in AnyValue /\ x \in Nat /\ t.size \in Nat
      BY <3>2, ValuesAreNumbers
    <3> QED
      BY <3>3, CellsOfValue
  <2>3. a2 = later
    BY <1>3 DEF Call
  <2> HIDE DEF t, later
  <2> QED
    BY <1>1, <2>1, <2>2, <2>3, StartsAppend, StartsConcat
<1>4. ASSUME NEW x \in AnyValue
      PROVE  NumberCells(x) \in Seq(Cell)
  <2>1. x \in Nat
    BY <1>4, ValuesAreNumbers
  <2>2. PICK n \in 1 .. 3 : NumberCells(x) = Cells(x, n)
    BY <2>1, NumberCellsOfValue
  <2>3. n \in Nat
    OBVIOUS
  <2> QED
    BY <2>1, <2>2, <2>3, CellsOfValue
<1>5. CASE t.is = "number"
  <2>1. PICK x \in Coordinates : v2 = Append(v, x) /\ c2 = c \o NumberCells(x)
    BY <1>5 DEF Call, NumberCall
  <2>2. x \in AnyValue /\ a2 = later
    BY <1>5, ValuesAreNumbers DEF Call
  <2> HIDE DEF t, later
  <2> QED
    BY <1>1, <1>4, <2>1, <2>2, StartsAppend, StartsConcat
<1>6. CASE t.is = "text"
  <2> PICK n \in 0 .. MaxLength : \E s \in [1 .. n -> Values] :
        v2 = Append(v, n) \o s /\ c2 = c \o (NumberCells(n) \o Letters(s, n))
    BY <1>6 DEF Call, TextCall
  <2>1. PICK s \in [1 .. n -> Values] :
          v2 = Append(v, n) \o s /\ c2 = c \o (NumberCells(n) \o Letters(s, n))
    OBVIOUS
  <2>2. n \in AnyValue /\ n \in Nat /\ a2 = later
    BY <1>6, ValuesAreNumbers DEF Call
  <2>3. s \in Seq(AnyValue)
    <3>1. s \in Seq(Values)
      BY <2>2
    <3> QED
      BY <3>1, ValuesAreNumbers, SeqMonotonic
  <2>4. NumberCells(n) \o Letters(s, n) \in Seq(Cell)
    BY <1>4, <2>2, LettersOfText, StartsConcat
  <2>5. Append(v, n) \in Seq(AnyValue) /\ Starts(v, Append(v, n))
    BY <2>2, StartsAppend
  <2>6. v2 \in Seq(AnyValue) /\ Starts(Append(v, n), v2)
    BY <2>1, <2>3, <2>5, StartsConcat
  <2>7. Starts(v, v2)
    BY <2>5, <2>6, StartsTransitive
  <2> HIDE DEF t, later
  <2> QED
    BY <1>1, <2>1, <2>2, <2>4, <2>6, <2>7, StartsConcat
<1>7. CASE t.is = "list"
  <2>1. PICK n \in 0 .. MaxLength :
          /\ v2 = Append(v, n) /\ c2 = c \o NumberCells(n)
          /\ a2 = [i \in 1 .. n |-> t.of] \o later
    BY <1>7 DEF Call, ListCall
  <2>2. n \in AnyValue /\ n \in Nat
    BY ValuesAreNumbers
  <2>3. [i \in 1 .. n |-> t.of] \in Agendas
    <3>1. t.of \in Types \cup {Return}
      BY <1>2, <1>7, TypeKinds
    <3> HIDE DEF t
    <3> QED
      BY <2>2, <3>1 DEF Agendas
  <2>4. a2 \in Agendas
    BY <1>1, <2>1, <2>3, ConcatProperties DEF Agendas
  <2> HIDE DEF t, later
  <2> QED
    BY <1>4, <2>1, <2>2, <2>4, StartsAppend, StartsConcat
<1>8. CASE t.is = "object"
  <2>1. a2 = t.fields \o <<Return>> \o later /\ v2 = v /\ c2 = c
    BY <1>8 DEF Call
  <2>2. t.fields \in Seq(Types)
    BY <1>2, <1>8, TypeKinds
  <2>3. t.fields \in Agendas /\ <<Return>> \in Agendas
    BY <2>2, NestedStart DEF Agendas
  <2>4. a2 \in Agendas
    BY <1>1, <2>1, <2>3, ConcatProperties DEF Agendas
  <2> QED
    BY <2>1, <2>4, StartsSelf
<1>9. CASE t.is = "return"
  <2>1. a2 = later /\ v2 = v /\ c2 = c
    BY <1>9 DEF Call
  <2> QED
    BY <1>1, <2>1, StartsSelf
<1> QED
  BY <1>1, <1>3, <1>5, <1>6, <1>7, <1>8, <1>9

-----------------------------------------------------------------------------
(* The calls that serialize() has made for the fields f after the header h, *)
(* from the first to the n-th: what was to be done before each, what had    *)
(* been written, and the bytes.                                             *)

Log(f, h, n, A, V, C) ==
  /\ A[0] = f /\ V[0] = <<>> /\ C[0] = h
  /\ \A i \in 0 .. n : Starts(V[i], V[n]) /\ Starts(C[i], C[n])
  /\ \A i \in 0 .. n - 1 : Call(A[i], V[i], C[i], A[i + 1], V[i + 1], C[i + 1])

\* After the calls made so far, a is to be done, v is written and c are the bytes.
Serialized(f, h, a, v, c) ==
  \E n \in Nat :
    \E A \in [0 .. n -> Agendas], V \in [0 .. n -> Seq(AnyValue)], C \in [0 .. n -> Seq(Cell)] :
      /\ Log(f, h, n, A, V, C)
      /\ A[n] = a /\ V[n] = v /\ C[n] = c

\* All the calls are made and wrote v and c.  The reader is where one of them
\* begins, or at the end: it has a to do, has got g, and m bytes are read.
AtCall(f, h, v, c, a, g, m) ==
  \E n \in Nat :
    \E A \in [0 .. n -> Agendas], V \in [0 .. n -> Seq(AnyValue)], C \in [0 .. n -> Seq(Cell)] :
      /\ Log(f, h, n, A, V, C)
      /\ A[n] = <<>> /\ V[n] = v /\ C[n] = c
      /\ \E i \in 0 .. n : A[i] = a /\ V[i] = g /\ Len(C[i]) = m

LEMMA FirstCall ==
  ASSUME packet \in Packets
  PROVE  Serialized(Fields[packet], Header, Fields[packet], <<>>, Header)
<1>1. Fields[packet] \in Agendas
  BY PacketsAssumption, FieldTypes, NestedStart
<1>2. Header \in Seq(Cell)
  <2>1. CASE packet \in DOMAIN Opcode
    <3>1. Opcode[packet] \in 1 .. 6
      BY <2>1 DEF Opcode
    <3>2. <<Opcode[packet], 1, 1>> \in Cell
      BY <3>1 DEF Cell
    <3> QED
      BY <2>1, <3>2 DEF Header
  <2>2. CASE packet \notin DOMAIN Opcode
    BY <2>2 DEF Header
  <2> QED
    BY <2>1, <2>2
<1>3. <<>> \in Seq(AnyValue)
  OBVIOUS
<1> DEFINE A == [i \in 0 .. 0 |-> Fields[packet]]
           V == [i \in 0 .. 0 |-> <<>>]
           C == [i \in 0 .. 0 |-> Header]
<1>4. A \in [0 .. 0 -> Agendas] /\ V \in [0 .. 0 -> Seq(AnyValue)] /\ C \in [0 .. 0 -> Seq(Cell)]
  BY <1>1, <1>2, <1>3
<1>5. A[0] = Fields[packet] /\ V[0] = <<>> /\ C[0] = Header
  OBVIOUS
<1> HIDE DEF A, V, C
<1>6. Starts(V[0], V[0]) /\ Starts(C[0], C[0])
  BY <1>2, <1>3, <1>5, StartsSelf
<1>7. Log(Fields[packet], Header, 0, A, V, C)
  <2>1. \A i \in 0 .. 0 : i = 0
    OBVIOUS
  <2>2. \A i \in 0 .. 0 - 1 : FALSE
    OBVIOUS
  <2> QED
    BY <1>5, <1>6, <2>1, <2>2 DEF Log
<1> QED
  BY <1>4, <1>5, <1>7 DEF Serialized

LEMMA OneMoreCall ==
  ASSUME NEW f, NEW h, NEW a, NEW v, NEW c, Serialized(f, h, a, v, c),
         NEW a2, NEW v2, NEW c2, Call(a, v, c, a2, v2, c2)
  PROVE  /\ Serialized(f, h, a2, v2, c2)
         /\ a2 \in Agendas /\ v2 \in Seq(AnyValue) /\ c2 \in Seq(Cell) /\ Starts(v, v2)
<1> PICK n \in Nat :
      \E A \in [0 .. n -> Agendas], V \in [0 .. n -> Seq(AnyValue)], C \in [0 .. n -> Seq(Cell)] :
        Log(f, h, n, A, V, C) /\ A[n] = a /\ V[n] = v /\ C[n] = c
  BY DEF Serialized
<1>1. PICK A \in [0 .. n -> Agendas], V \in [0 .. n -> Seq(AnyValue)], C \in [0 .. n -> Seq(Cell)] :
        Log(f, h, n, A, V, C) /\ A[n] = a /\ V[n] = v /\ C[n] = c
  OBVIOUS
<1>2. a \in Agendas /\ v \in Seq(AnyValue) /\ c \in Seq(Cell)
  BY <1>1
<1>3. /\ a2 \in Agendas /\ v2 \in Seq(AnyValue) /\ c2 \in Seq(Cell)
      /\ Starts(v, v2) /\ Starts(c, c2)
  BY <1>2, CallAdds
<1> DEFINE A2 == [i \in 0 .. n + 1 |-> IF i = n + 1 THEN a2 ELSE A[i]]
           V2 == [i \in 0 .. n + 1 |-> IF i = n + 1 THEN v2 ELSE V[i]]
           C2 == [i \in 0 .. n + 1 |-> IF i = n + 1 THEN c2 ELSE C[i]]
<1>4. \A i \in 0 .. n + 1 : i = n + 1 \/ i \in 0 .. n
  OBVIOUS
<1>5. /\ A2 \in [0 .. n + 1 -> Agendas] /\ V2 \in [0 .. n + 1 -> Seq(AnyValue)]
      /\ C2 \in [0 .. n + 1 -> Seq(Cell)]
  BY <1>3, <1>4
<1>6. A2[n + 1] = a2 /\ V2[n + 1] = v2 /\ C2[n + 1] = c2
  OBVIOUS
<1>7. \A i \in 0 .. n : A2[i] = A[i] /\ V2[i] = V[i] /\ C2[i] = C[i]
  OBVIOUS
<1> HIDE DEF A2, V2, C2
<1>8. \A i \in 0 .. n + 1 : Starts(V2[i], V2[n + 1]) /\ Starts(C2[i], C2[n + 1])
  <2> SUFFICES ASSUME NEW i \in 0 .. n + 1
               PROVE  Starts(V2[i], v2) /\ Starts(C2[i], c2)
    BY <1>6
  <2>1. CASE i = n + 1
    BY <1>3, <1>6, <2>1, StartsSelf
  <2>2. CASE i \in 0 .. n
    <3>1. Starts(V[i], v) /\ Starts(C[i], c)
      BY <1>1, <2>2 DEF Log
    <3>2. V[i] \in Seq(AnyValue) /\ C[i] \in Seq(Cell)
      BY <2>2
    <3>3. Starts(V[i], v2) /\ Starts(C[i], c2)
      BY <1>2, <1>3, <3>1, <3>2, StartsTransitive
    <3> QED
      BY <1>7, <2>2, <3>3
  <2> QED
    BY <1>4, <2>1, <2>2
<1>9. \A i \in 0 .. (n + 1) - 1 : Call(A2[i], V2[i], C2[i], A2[i + 1], V2[i + 1], C2[i + 1])
  <2> SUFFICES ASSUME NEW i \in 0 .. (n + 1) - 1
               PROVE  Call(A2[i], V2[i], C2[i], A2[i + 1], V2[i + 1], C2[i + 1])
    OBVIOUS
  <2>1. CASE i = n
    <3>1. A2[i] = a /\ V2[i] = v /\ C2[i] = c
      BY <1>1, <1>7, <2>1
    <3> QED
      BY <1>6, <2>1, <3>1
  <2>2. CASE i \in 0 .. n - 1
    <3>1. i \in 0 .. n /\ i + 1 \in 0 .. n
      BY <2>2
    <3>2. Call(A[i], V[i], C[i], A[i + 1], V[i + 1], C[i + 1])
      BY <1>1, <2>2 DEF Log
    <3> QED
      BY <1>7, <3>1, <3>2
  <2>3. i = n \/ i \in 0 .. n - 1
    OBVIOUS
  <2> QED
    BY <2>1, <2>2, <2>3
<1>10. Log(f, h, n + 1, A2, V2, C2)
  <2>1. A2[0] = f /\ V2[0] = <<>> /\ C2[0] = h
    <3>1. A[0] = f /\ V[0] = <<>> /\ C[0] = h
      BY <1>1 DEF Log
    <3>2. 0 \in 0 .. n
      OBVIOUS
    <3> QED
      BY <1>7, <3>1, <3>2
  <2> QED
    BY <1>8, <1>9, <2>1 DEF Log
<1>11. n + 1 \in Nat
  OBVIOUS
<1> QED
  BY <1>3, <1>5, <1>6, <1>10, <1>11 DEF Serialized

LEMMA SerializedTypes ==
  ASSUME NEW f, NEW h, NEW a, NEW v, NEW c, Serialized(f, h, a, v, c)
  PROVE  a \in Agendas /\ v \in Seq(AnyValue) /\ c \in Seq(Cell)
BY DEF Serialized

\* When all is written, the reader begins with the first call.
LEMMA ReaderAtFirstCall ==
  ASSUME NEW f, NEW h, NEW v, NEW c, Serialized(f, h, <<>>, v, c)
  PROVE  AtCall(f, h, v, c, f, <<>>, Len(h))
<1> PICK n \in Nat :
      \E A \in [0 .. n -> Agendas], V \in [0 .. n -> Seq(AnyValue)], C \in [0 .. n -> Seq(Cell)] :
        Log(f, h, n, A, V, C) /\ A[n] = <<>> /\ V[n] = v /\ C[n] = c
  BY DEF Serialized
<1>1. PICK A \in [0 .. n -> Agendas], V \in [0 .. n -> Seq(AnyValue)], C \in [0 .. n -> Seq(Cell)] :
        Log(f, h, n, A, V, C) /\ A[n] = <<>> /\ V[n] = v /\ C[n] = c
  OBVIOUS
<1>2. 0 \in 0 .. n /\ A[0] = f /\ V[0] = <<>> /\ Len(C[0]) = Len(h)
  BY <1>1 DEF Log
<1> QED
  BY <1>1, <1>2 DEF AtCall

\* A reader that has something to do reads what one call has written, and is
\* then where the next one begins.
LEMMA ReaderAtNextCall ==
  ASSUME NEW f, NEW h, NEW v, NEW d, NEW a, NEW g, NEW m, AtCall(f, h, v, d, a, g, m), a # <<>>
  PROVE  /\ a \in Agendas /\ g \in Seq(AnyValue) /\ d \in Seq(Cell)
         /\ \E c \in Seq(Cell), a2 \in Agendas, g2 \in Seq(AnyValue), c2 \in Seq(Cell) :
              /\ Call(a, g, c, a2, g2, c2) /\ Len(c) = m
              /\ Starts(g, g2) /\ Starts(g2, v) /\ Starts(c2, d)
              /\ AtCall(f, h, v, d, a2, g2, Len(c2))
<1> PICK n \in Nat :
      \E A \in [0 .. n -> Agendas], V \in [0 .. n -> Seq(AnyValue)], C \in [0 .. n -> Seq(Cell)] :
        /\ Log(f, h, n, A, V, C) /\ A[n] = <<>> /\ V[n] = v /\ C[n] = d
        /\ \E i \in 0 .. n : A[i] = a /\ V[i] = g /\ Len(C[i]) = m
  BY DEF AtCall
<1>1. PICK A \in [0 .. n -> Agendas], V \in [0 .. n -> Seq(AnyValue)], C \in [0 .. n -> Seq(Cell)] :
        /\ Log(f, h, n, A, V, C) /\ A[n] = <<>> /\ V[n] = v /\ C[n] = d
        /\ \E i \in 0 .. n : A[i] = a /\ V[i] = g /\ Len(C[i]) = m
  OBVIOUS
<1>2. PICK i \in 0 .. n : A[i] = a /\ V[i] = g /\ Len(C[i]) = m
  BY <1>1
<1>3. i \in 0 .. n - 1 /\ i + 1 \in 0 .. n
  <2>1. i # n
    BY <1>1, <1>2
  <2> QED
    BY <2>1
<1>4. Call(a, g, C[i], A[i + 1], V[i + 1], C[i + 1])
  BY <1>1, <1>2, <1>3 DEF Log
<1>5. /\ a \in Agendas /\ g \in Seq(AnyValue) /\ d \in Seq(Cell) /\ C[i] \in Seq(Cell)
      /\ A[i + 1] \in Agendas /\ V[i + 1] \in Seq(AnyValue) /\ C[i + 1] \in Seq(Cell)
  BY <1>1, <1>2, <1>3
<1>6. Starts(g, V[i + 1])
  BY <1>4, <1>5, CallAdds
<1>7. Starts(V[i + 1], v) /\ Starts(C[i + 1], d)
  BY <1>1, <1>3 DEF Log
<1>8. AtCall(f, h, v, d, A[i + 1], V[i + 1], Len(C[i + 1]))
  BY <1>1, <1>3 DEF AtCall
<1> QED
  BY <1>2, <1>4, <1>5, <1>6, <1>7, <1>8

\* A reader that has nothing to do has read everything.
LEMMA ReaderAtEnd ==
  ASSUME NEW f, NEW h, NEW v, NEW d, NEW g, NEW m, AtCall(f, h, v, d, <<>>, g, m)
  PROVE  g = v /\ m = Len(d)
<1> PICK n \in Nat :
      \E A \in [0 .. n -> Agendas], V \in [0 .. n -> Seq(AnyValue)], C \in [0 .. n -> Seq(Cell)] :
        /\ Log(f, h, n, A, V, C) /\ A[n] = <<>> /\ V[n] = v /\ C[n] = d
        /\ \E i \in 0 .. n : A[i] = <<>> /\ V[i] = g /\ Len(C[i]) = m
  BY DEF AtCall
<1>1. PICK A \in [0 .. n -> Agendas], V \in [0 .. n -> Seq(AnyValue)], C \in [0 .. n -> Seq(Cell)] :
        /\ Log(f, h, n, A, V, C) /\ A[n] = <<>> /\ V[n] = v /\ C[n] = d
        /\ \E i \in 0 .. n : A[i] = <<>> /\ V[i] = g /\ Len(C[i]) = m
  OBVIOUS
<1>2. PICK i \in 0 .. n : A[i] = <<>> /\ V[i] = g /\ Len(C[i]) = m
  BY <1>1
<1>3. ASSUME i \in 0 .. n - 1
      PROVE  FALSE
  <2>1. Call(A[i], V[i], C[i], A[i + 1], V[i + 1], C[i + 1])
    BY <1>1, <1>3 DEF Log
  <2> QED
    BY <1>2, <2>1 DEF Call
<1>4. i = n
  BY <1>3
<1> QED
  BY <1>1, <1>2, <1>4

-----------------------------------------------------------------------------
(* The vectors of the objects that are being serialized, one after another. *)

JoinsTo(r, c) ==
  \E joined \in Seq(Seq(Cell)) :
    /\ Len(joined) = Len(r)
    /\ joined[1] = r[1]
    /\ \A k \in 2 .. Len(r) : joined[k] = joined[k - 1] \o r[k]
    /\ joined[Len(r)] = c

LEMMA FrontAndLast ==
  ASSUME NEW S, NEW r \in Seq(S), r # <<>>
  PROVE  /\ Len(r) \in Nat \ {0} /\ Last(r) = r[Len(r)] /\ Last(r) \in S
         /\ Front(r) \in Seq(S) /\ Len(Front(r)) = Len(r) - 1
         /\ \A k \in 1 .. Len(r) - 1 : Front(r)[k] = r[k]
<1>1. Len(r) \in Nat \ {0}
  BY EmptySeq
<1>2. \A k \in 1 .. Len(r) : r[k] \in S
  BY ElementOfSeq
<1>3. /\ SubSeq(r, 1, Len(r) - 1) \in Seq(S)
      /\ Len(SubSeq(r, 1, Len(r) - 1)) = Len(r) - 1
      /\ \A k \in 1 .. Len(r) - 1 : SubSeq(r, 1, Len(r) - 1)[k] = r[k]
  <2> DEFINE n == Len(r) - 1
  <2>1. n \in Nat /\ n \in Int /\ n - 1 + 1 = n /\ (IF 1 <= n THEN n - 1 + 1 ELSE 0) = n
    <3>1. \A i \in Nat \ {0} : i - 1 \in Nat
      OBVIOUS
    <3>2. n \in Nat
      BY <1>1, <3>1
    <3> HIDE DEF n
    <3>3. n \in Int /\ n - 1 + 1 = n
      BY <3>2
    <3>4. (IF 1 <= n THEN n - 1 + 1 ELSE 0) = n
      BY <3>2
    <3> QED
      BY <3>2, <3>3, <3>4
  <2>2. \A k \in 1 .. n : r[k] \in S
    BY <1>1, <1>2
  <2> HIDE DEF n
  <2>3. /\ SubSeq(r, 1, n) \in Seq(S)
        /\ Len(SubSeq(r, 1, n)) = n
        /\ \A k \in 1 .. n : SubSeq(r, 1, n)[k] = r[1 + k - 1]
    BY <2>1, <2>2, SubSeqProperties
  <2>4. \A k \in 1 .. n : 1 + k - 1 = k
    BY <2>1
  <2> QED
    BY <2>3, <2>4 DEF n
<1> QED
  BY <1>1, <1>2, <1>3 DEF Front, Last

LEMMA JoinEmpty ==
  ASSUME NEW c \in Seq(Cell)
  PROVE  JoinsTo(<<c>>, c)
<1>1. <<c>> \in Seq(Seq(Cell)) /\ Len(<<c>>) = 1 /\ <<c>>[1] = c
  OBVIOUS
<1>2. \A k \in 2 .. 1 : FALSE
  OBVIOUS
<1> QED
  BY <1>1, <1>2 DEF JoinsTo

LEMMA JoinEmit ==
  ASSUME NEW r \in Seq(Seq(Cell)), r # <<>>, NEW c, JoinsTo(r, c), NEW u \in Seq(Cell)
  PROVE  /\ Append(Front(r), Last(r) \o u) \in Seq(Seq(Cell))
         /\ Len(Append(Front(r), Last(r) \o u)) = Len(r)
         /\ JoinsTo(Append(Front(r), Last(r) \o u), c \o u)
<1> DEFINE m == Len(r)
           r2 == Append(Front(r), Last(r) \o u)
<1>1. PICK joined \in Seq(Seq(Cell)) :
        /\ Len(joined) = m /\ joined[1] = r[1] /\ joined[m] = c
        /\ \A k \in 2 .. m : joined[k] = joined[k - 1] \o r[k]
  BY DEF JoinsTo
<1>2. /\ m \in Nat \ {0} /\ Last(r) = r[m] /\ Last(r) \in Seq(Cell)
      /\ Front(r) \in Seq(Seq(Cell)) /\ Len(Front(r)) = m - 1
      /\ \A k \in 1 .. m - 1 : Front(r)[k] = r[k]
  BY FrontAndLast
<1>3. Last(r) \o u \in Seq(Cell)
  BY <1>2, ConcatProperties
<1>4. /\ r2 \in Seq(Seq(Cell)) /\ Len(r2) = (m - 1) + 1
      /\ \A k \in 1 .. m - 1 : r2[k] = Front(r)[k]
      /\ r2[(m - 1) + 1] = r[m] \o u
  BY <1>2, <1>3, AppendProperties
<1>5. /\ Len(r2) = m /\ r2[m] = r[m] \o u
      /\ \A k \in 1 .. m - 1 : r2[k] = r[k]
  BY <1>2, <1>4
<1>6. \A k \in 1 .. m : joined[k] \in Seq(Cell) /\ r[k] \in Seq(Cell)
  BY <1>1, ElementOfSeq
<1> HIDE DEF m, r2
<1> DEFINE joined2 == [joined EXCEPT ![m] = c \o u]
<1>7. c \o u \in Seq(Cell)
  BY <1>1, <1>2, <1>6, ConcatProperties
<1>8. /\ joined2 \in Seq(Seq(Cell)) /\ Len(joined2) = m
      /\ \A k \in 1 .. m : joined2[k] = IF k = m THEN c \o u ELSE joined[k]
  BY <1>1, <1>2, <1>7, ExceptSeq
<1> HIDE DEF joined2
<1>9. joined2[1] = r2[1]
  <2>1. CASE m = 1
    <3>1. joined2[1] = c \o u /\ r2[1] = r[1] \o u /\ c = r[1]
      BY <1>1, <1>5, <1>8, <2>1
    <3> QED
      BY <3>1
  <2>2. CASE m > 1
    <3>1. 1 \in 1 .. m - 1 /\ 1 \in 1 .. m /\ 1 # m
      BY <1>2, <2>2
    <3>2. joined2[1] = joined[1] /\ r2[1] = r[1]
      BY <1>5, <1>8, <3>1
    <3> QED
      BY <1>1, <3>2
  <2> QED
    BY <1>2, <2>1, <2>2
<1>10. ASSUME NEW k \in 2 .. m
       PROVE  joined2[k] = joined2[k - 1] \o r2[k]
  <2>1. k - 1 \in 1 .. m /\ k - 1 # m /\ joined2[k - 1] = joined[k - 1]
    BY <1>2, <1>8
  <2>2. joined[k] = joined[k - 1] \o r[k]
    BY <1>1
  <2>3. CASE k = m
    <3>1. joined[k - 1] \in Seq(Cell) /\ r[k] \in Seq(Cell)
      BY <1>2, <1>6, <2>1, <2>3
    <3>2. \A s, t \in Seq(Cell) : (s \o t) \o u = s \o (t \o u)
      BY ConcatAssociative
    <3>3. joined2[k] = c \o u
      BY <1>2, <1>8, <2>3
    <3>4. c = joined[k - 1] \o r[k]
      BY <1>1, <2>2, <2>3
    <3>5. r2[k] = r[k] \o u
      BY <1>5, <2>3
    <3> QED
      BY <2>1, <3>1, <3>2, <3>3, <3>4, <3>5, Zenon
  <2>4. CASE k # m
    <3>1. k \in 1 .. m - 1 /\ k \in 1 .. m
      BY <1>2, <2>4
    <3>2. joined2[k] = joined[k] /\ r2[k] = r[k]
      BY <1>5, <1>8, <2>4, <3>1
    <3> QED
      BY <2>1, <2>2, <3>2
  <2> QED
    BY <2>3, <2>4
<1>11. joined2[m] = c \o u
  <2>1. m \in 1 .. m
    BY <1>2
  <2> QED
    BY <1>8, <2>1
<1>12. JoinsTo(r2, c \o u)
  BY <1>5, <1>8, <1>9, <1>10, <1>11 DEF JoinsTo
<1> QED
  BY <1>4, <1>5, <1>12 DEF m, r2

LEMMA JoinOpen ==
  ASSUME NEW r \in Seq(Seq(Cell)), r # <<>>, NEW c, JoinsTo(r, c)
  PROVE  /\ Append(r, <<>>) \in Seq(Seq(Cell)) /\ Len(Append(r, <<>>)) = Len(r) + 1
         /\ JoinsTo(Append(r, <<>>), c)
<1> DEFINE m == Len(r)
           r2 == Append(r, <<>>)
<1>1. PICK joined \in Seq(Seq(Cell)) :
        /\ Len(joined) = m /\ joined[1] = r[1] /\ joined[m] = c
        /\ \A k \in 2 .. m : joined[k] = joined[k - 1] \o r[k]
  BY DEF JoinsTo
<1>2. m \in Nat \ {0} /\ <<>> \in Seq(Cell)
  BY EmptySeq
<1>3. c \in Seq(Cell)
  BY <1>1, <1>2, ElementOfSeq
<1> DEFINE joined2 == Append(joined, c)
<1>4. /\ r2 \in Seq(Seq(Cell)) /\ Len(r2) = m + 1 /\ r2[m + 1] = <<>>
      /\ \A k \in 1 .. m : r2[k] = r[k]
  BY <1>2, AppendProperties
<1>5. /\ joined2 \in Seq(Seq(Cell)) /\ Len(joined2) = m + 1 /\ joined2[m + 1] = c
      /\ \A k \in 1 .. m : joined2[k] = joined[k]
  BY <1>1, <1>3, AppendProperties
<1> HIDE DEF m, r2, joined2
<1>6. ASSUME NEW k \in 2 .. m + 1
      PROVE  joined2[k] = joined2[k - 1] \o r2[k]
  <2>1. CASE k = m + 1
    <3>1. c \o <<>> = c
      BY <1>3, ConcatEmptySeq
    <3>2. k - 1 = m /\ m \in 1 .. m
      BY <1>2, <2>1
    <3> QED
      BY <1>1, <1>4, <1>5, <2>1, <3>1, <3>2
  <2>2. CASE k # m + 1
    <3>1. k \in 2 .. m /\ k \in 1 .. m /\ k - 1 \in 1 .. m
      BY <1>2, <2>2
    <3> QED
      BY <1>1, <1>4, <1>5, <3>1
  <2> QED
    BY <2>1, <2>2
<1>7. joined2[1] = r2[1]
  BY <1>1, <1>2, <1>4, <1>5
<1>8. JoinsTo(r2, c)
  BY <1>4, <1>5, <1>6, <1>7 DEF JoinsTo
<1> QED
  BY <1>4, <1>8 DEF m, r2

LEMMA JoinCopy ==
  ASSUME NEW r \in Seq(Seq(Cell)), Len(r) > 1, NEW c, JoinsTo(r, c)
  PROVE  /\ Append(Front(Front(r)), Last(Front(r)) \o Last(r)) \in Seq(Seq(Cell))
         /\ Len(Append(Front(Front(r)), Last(Front(r)) \o Last(r))) = Len(r) - 1
         /\ JoinsTo(Append(Front(Front(r)), Last(Front(r)) \o Last(r)), c)
<1> DEFINE m == Len(r)
           outer == Front(r)
<1>1. PICK joined \in Seq(Seq(Cell)) :
        /\ Len(joined) = m /\ joined[1] = r[1] /\ joined[m] = c
        /\ \A k \in 2 .. m : joined[k] = joined[k - 1] \o r[k]
  BY DEF JoinsTo
<1>2. m \in Nat /\ m > 1 /\ r # <<>>
  BY LenProperties, EmptySeq
<1>3. /\ Last(r) = r[m] /\ Last(r) \in Seq(Cell)
      /\ outer \in Seq(Seq(Cell)) /\ Len(outer) = m - 1
      /\ \A k \in 1 .. m - 1 : outer[k] = r[k]
  BY <1>2, FrontAndLast
<1> HIDE DEF m, outer
<1>4. outer # <<>>
  BY <1>2, <1>3, EmptySeq
<1> DEFINE short == SubSeq(joined, 1, m - 1)
<1>5. /\ short \in Seq(Seq(Cell)) /\ Len(short) = m - 1
      /\ \A k \in 1 .. m - 1 : short[k] = joined[k]
  <2>1. \A k \in 1 .. m - 1 : joined[k] \in Seq(Cell)
    BY <1>1, <1>2, ElementOfSeq
  <2> QED
    BY <1>2, <2>1, SubSeqProperties
<1> HIDE DEF short
<1>6. JoinsTo(outer, short[m - 1])
  <2>1. short[1] = outer[1]
    BY <1>1, <1>2, <1>3, <1>5
  <2>2. ASSUME NEW k \in 2 .. m - 1
        PROVE  short[k] = short[k - 1] \o outer[k]
    <3>1. k \in 2 .. m /\ k \in 1 .. m - 1 /\ k - 1 \in 1 .. m - 1
      BY <1>2
    <3> QED
      BY <1>1, <1>3, <1>5, <3>1
  <2> QED
    BY <1>3, <1>5, <2>1, <2>2 DEF JoinsTo
<1>7. short[m - 1] \o Last(r) = c
  <2>1. m \in 2 .. m /\ m - 1 \in 1 .. m - 1
    BY <1>2
  <2> QED
    BY <1>1, <1>3, <1>5, <2>1
<1>8. /\ Append(Front(outer), Last(outer) \o Last(r)) \in Seq(Seq(Cell))
      /\ Len(Append(Front(outer), Last(outer) \o Last(r))) = m - 1
      /\ JoinsTo(Append(Front(outer), Last(outer) \o Last(r)), short[m - 1] \o Last(r))
  BY <1>3, <1>4, <1>6, JoinEmit
<1> QED
  BY <1>7, <1>8 DEF m, outer

LEMMA JoinOne ==
  ASSUME NEW r, Len(r) = 1, NEW c, JoinsTo(r, c)
  PROVE  c = r[1]
BY DEF JoinsTo

-----------------------------------------------------------------------------
(* What the reader finds where a call has written. *)

LEMMA HereAgain ==
  ASSUME NEW d \in Seq(Cell), data = d, NEW c \in Seq(Cell), cursor = Len(c),
         NEW u \in Seq(Cell), Starts(c \o u, d)
  PROVE  /\ cursor \in Nat /\ Len(c \o u) = cursor + Len(u) /\ cursor + Len(u) <= Len(data)
         /\ \A k \in 1 .. Len(u) : data[cursor + k] = u[k]
BY FoundAgain, LenProperties

LEMMA ValueAgain ==
  ASSUME NEW x \in Nat, NEW n \in Nat \ {0}, \A k \in 1 .. n : data[cursor + k] = <<x, k, n>>
  PROVE  ValueOf(Here(n)) = x
<1>1. Here(n) = [k \in 1 .. n |-> <<x, k, n>>]
  BY DEF Here
<1> DEFINE cells == [k \in 1 .. n |-> <<x, k, n>>]
<1>2. DOMAIN cells = 1 .. n /\ Len(cells) = n /\ cells[1] = <<x, 1, n>>
  BY DEF Cells
<1>3. \A k \in 1 .. n : cells[k] = <<x, k, n>>
  OBVIOUS
<1> HIDE DEF cells
<1>4. ValueOf(cells) = x
  BY <1>2, <1>3 DEF ValueOf
<1> QED
  BY <1>1, <1>4 DEF cells

LEMMA NumberAgain ==
  ASSUME NEW x \in Nat, NEW n \in 1 .. 3, cursor \in Nat, Len(data) \in Nat,
         cursor + n <= Len(data), \A k \in 1 .. n : data[cursor + k] = <<x, k, n>>
  PROVE  /\ NumberSize = n /\ ValueOf(Here(n)) = x
         /\ n \in 1 .. Len(data) - cursor /\ data[cursor + n][2] = data[cursor + n][3]
<1> DEFINE Ends(m) == /\ data[cursor + m][2] = data[cursor + m][3]
                      /\ \A k \in 1 .. m - 1 : data[cursor + k][2] # data[cursor + k][3]
<1>1. \A k \in 1 .. n : data[cursor + k][2] = k /\ data[cursor + k][3] = n
  OBVIOUS
<1>2. n \in 1 .. Len(data) - cursor
  OBVIOUS
<1>3. Ends(n)
  BY <1>1
<1>4. ASSUME NEW m \in 1 .. Len(data) - cursor, Ends(m)
      PROVE  m = n
  <2>1. CASE m < n
    <3>1. m \in 1 .. n /\ m # n
      BY <2>1
    <3> QED
      BY <1>1, <1>4, <3>1
  <2>2. CASE m > n
    <3>1. n \in 1 .. m - 1 /\ n \in 1 .. n
      BY <2>2
    <3> QED
      BY <1>1, <1>4, <3>1
  <2> QED
    BY <2>1, <2>2
<1> HIDE DEF Ends
<1>5. (CHOOSE m \in 1 .. Len(data) - cursor : Ends(m)) = n
  BY <1>2, <1>3, <1>4
<1>6. NumberSize = n
  BY <1>5 DEF NumberSize, Ends
<1>7. ValueOf(Here(n)) = x
  <2>1. n \in Nat \ {0}
    OBVIOUS
  <2> QED
    BY <2>1, ValueAgain
<1>8. data[cursor + n][2] = n /\ data[cursor + n][3] = n
  <2>1. n \in 1 .. n
    OBVIOUS
  <2> QED
    BY <1>1, <2>1
<1> QED
  BY <1>2, <1>6, <1>7, <1>8

\* The number that a call has written, and what it has put after it.
LEMMA NumberOfCall ==
  ASSUME NEW d \in Seq(Cell), data = d, NEW c \in Seq(Cell), cursor = Len(c),
         NEW x \in Nat, NEW u \in Seq(Cell), Starts(c \o (NumberCells(x) \o u), d)
  PROVE  /\ cursor \in Nat /\ NumberSize \in 1 .. 3 /\ ValueOf(Here(NumberSize)) = x
         /\ NumberSize \in 1 .. Len(data) - cursor
         /\ data[cursor + NumberSize][2] = data[cursor + NumberSize][3]
         /\ Len(c \o (NumberCells(x) \o u)) = cursor + (NumberSize + Len(u))
         /\ cursor + (NumberSize + Len(u)) <= Len(data)
         /\ \A k \in 1 .. Len(u) : data[cursor + (NumberSize + k)] = u[k]
<1>1. PICK n \in 1 .. 3 : NumberCells(x) = Cells(x, n)
  BY NumberCellsOfValue
<1> DEFINE w == Cells(x, n)
           t == w \o u
<1>2. w \in Seq(Cell) /\ Len(w) = n /\ \A k \in 1 .. n : w[k] = <<x, k, n>>
  <2>1. n \in Nat
    OBVIOUS
  <2> QED
    BY <2>1, CellsOfValue
<1>3. Len(u) \in Nat /\ Len(data) \in Nat
  BY LenProperties
<1> HIDE DEF w
<1>4. /\ t \in Seq(Cell) /\ Len(t) = n + Len(u)
      /\ \A i \in 1 .. n + Len(u) : t[i] = IF i <= n THEN w[i] ELSE u[i - n]
  BY <1>2, ConcatProperties
<1>5. Starts(c \o t, d)
  BY <1>1 DEF w
<1> HIDE DEF t
<1>6. /\ cursor \in Nat /\ Len(c \o t) = cursor + Len(t) /\ cursor + Len(t) <= Len(data)
      /\ \A k \in 1 .. Len(t) : data[cursor + k] = t[k]
  BY <1>4, <1>5, HereAgain
<1>7. \A k \in 1 .. n : data[cursor + k] = <<x, k, n>>
  <2>1. \A k \in 1 .. n : k \in 1 .. Len(t) /\ t[k] = w[k]
    BY <1>3, <1>4
  <2> QED
    BY <1>2, <1>6, <2>1
<1>8. \A k \in 1 .. Len(u) : data[cursor + (n + k)] = u[k]
  <2>1. \A k \in 1 .. Len(u) : n + k \in 1 .. Len(t) /\ ~(n + k <= n) /\ (n + k) - n = k
    BY <1>3, <1>4
  <2> QED
    BY <1>4, <1>6, <2>1
<1>9. cursor + n <= Len(data)
  BY <1>3, <1>4, <1>6
<1>10. /\ NumberSize = n /\ ValueOf(Here(n)) = x
       /\ n \in 1 .. Len(data) - cursor /\ data[cursor + n][2] = data[cursor + n][3]
  <2>1. cursor \in Nat /\ Len(data) \in Nat
    BY <1>3, <1>6
  <2> QED
    BY <1>7, <1>9, <2>1, NumberAgain
<1>11. c \o (NumberCells(x) \o u) = c \o t
  BY <1>1 DEF t, w
<1> QED
  BY <1>4, <1>6, <1>8, <1>10, <1>11

LEMMA LoneNumberOfCall ==
  ASSUME NEW d \in Seq(Cell), data = d, NEW c \in Seq(Cell), cursor = Len(c),
         NEW x \in Nat, Starts(c \o NumberCells(x), d)
  PROVE  /\ cursor \in Nat /\ NumberSize \in 1 .. 3 /\ ValueOf(Here(NumberSize)) = x
         /\ NumberSize \in 1 .. Len(data) - cursor
         /\ data[cursor + NumberSize][2] = data[cursor + NumberSize][3]
         /\ Len(c \o NumberCells(x)) = cursor + NumberSize
<1>1. PICK n \in 1 .. 3 : NumberCells(x) = Cells(x, n)
  BY NumberCellsOfValue
<1>2. NumberCells(x) \in Seq(Cell)
  BY <1>1, CellsOfValue
<1>3. NumberCells(x) \o <<>> = NumberCells(x) /\ <<>> \in Seq(Cell) /\ Len(<<>>) = 0
  BY <1>2, ConcatEmptySeq, EmptySeq
<1>4. Starts(c \o (NumberCells(x) \o <<>>), d)
  BY <1>3
<1>5. /\ cursor \in Nat /\ NumberSize \in 1 .. 3 /\ ValueOf(Here(NumberSize)) = x
      /\ NumberSize \in 1 .. Len(data) - cursor
      /\ data[cursor + NumberSize][2] = data[cursor + NumberSize][3]
      /\ Len(c \o (NumberCells(x) \o <<>>)) = cursor + (NumberSize + Len(<<>>))
  BY <1>3, <1>4, NumberOfCall
<1> QED
  BY <1>3, <1>5

-----------------------------------------------------------------------------
(* The invariant. *)

\* While it is written, the vectors of the open objects are what the calls
\* made so far have written.
WriterInv ==
  /\ results \in Seq(Seq(Cell)) /\ results # <<>>
  /\ Nested(agenda, Len(results) - 1)
  /\ \E c : JoinsTo(results, c) /\ Serialized(Fields[packet], Header, agenda, wrote, c)

\* While it is read, the stream is where a call began, and the offset of the
\* outermost object is to be restored to zero.
ReaderInv ==
  /\ position \in Int /\ shadow \in Int /\ saved \in Seq(Int)
  /\ saved = <<>> => shadow = 0
  /\ saved # <<>> => saved[1] = 0
  /\ Nested(agenda, Len(saved))
  /\ AtCall(Fields[packet], Header, wrote, data, agenda, got, cursor)

PacketInv ==
  /\ packet \in Packets
  /\ phase \in {"write", "read", "done"}
  /\ phase = "write" => /\ WriterInv
                        /\ position = 0 /\ shadow = 0 /\ saved = <<>> /\ got = <<>>
  /\ phase = "read" => ReaderInv
  /\ phase = "done" => got = wrote /\ position = Len(data) /\ shadow = 0

LEMMA PacketStart == PacketInit => PacketInv
<1> SUFFICES ASSUME PacketInit
             PROVE  PacketInv
  OBVIOUS
<1>1. /\ packet \in Packets /\ phase = "write" /\ agenda = Fields[packet]
      /\ results = <<Header>> /\ wrote = <<>>
      /\ position = 0 /\ shadow = 0 /\ saved = <<>> /\ got = <<>>
  BY DEF PacketInit
<1>2. Serialized(Fields[packet], Header, Fields[packet], <<>>, Header)
  BY <1>1, FirstCall
<1>3. Header \in Seq(Cell)
  BY <1>2, SerializedTypes
<1>4. results \in Seq(Seq(Cell)) /\ results # <<>> /\ Len(results) - 1 = 0
  BY <1>1, <1>3
<1>5. JoinsTo(results, Header)
  BY <1>1, <1>3, JoinEmpty
<1>6. Nested(agenda, 0)
  BY <1>1, PacketsAssumption, FieldTypes, NestedStart
<1>7. WriterInv
  BY <1>1, <1>2, <1>4, <1>5, <1>6 DEF WriterInv
<1> QED
  BY <1>1, <1>7 DEF PacketInv

-----------------------------------------------------------------------------
(* The writer. *)

\* A call that fits the log and the vectors keeps the invariant of the writer.
LEMMA WriterStep ==
  ASSUME packet' = packet, NEW c, Serialized(Fields[packet], Header, agenda, wrote, c),
         NEW c2, Call(agenda, wrote, c, agenda', wrote', c2),
         results' \in Seq(Seq(Cell)), results' # <<>>, JoinsTo(results', c2),
         Nested(agenda', Len(results') - 1)
  PROVE  WriterInv' /\ wrote \in Seq(AnyValue) /\ wrote' \in Seq(AnyValue) /\ Starts(wrote, wrote')
<1>1. /\ Serialized(Fields[packet], Header, agenda', wrote', c2)
      /\ wrote' \in Seq(AnyValue) /\ Starts(wrote, wrote')
  BY OneMoreCall
<1>2. Header' = Header
  BY DEF Header
<1>3. Serialized(Fields[packet'], Header', agenda', wrote', c2)
  BY <1>1, <1>2
<1>4. wrote \in Seq(AnyValue)
  BY SerializedTypes
<1> QED
  BY <1>1, <1>3, <1>4 DEF WriterInv

\* The calls that put bytes into the innermost vector.
LEMMA EmitStep ==
  ASSUME WriterInv, packet' = packet, agenda # <<>>, NEW u \in Seq(Cell), Emit(u),
         \A c \in Seq(Cell) : Call(agenda, wrote, c, agenda', wrote', c \o u),
         \A d \in Nat : Nested(Tail(agenda), d) => Nested(agenda', d),
         Head(agenda).is # "return"
  PROVE  WriterInv' /\ wrote \in Seq(AnyValue) /\ wrote' \in Seq(AnyValue) /\ Starts(wrote, wrote')
<1>1. PICK c : JoinsTo(results, c) /\ Serialized(Fields[packet], Header, agenda, wrote, c)
  BY DEF WriterInv
<1>2. c \in Seq(Cell) /\ agenda \in Agendas
  BY <1>1, SerializedTypes
<1>3. results \in Seq(Seq(Cell)) /\ results # <<>> /\ Nested(agenda, Len(results) - 1)
  BY DEF WriterInv
<1>4. results' = Append(Front(results), Last(results) \o u)
  BY DEF Emit
<1>5. results' \in Seq(Seq(Cell)) /\ Len(results') = Len(results) /\ JoinsTo(results', c \o u)
  BY <1>1, <1>3, <1>4, JoinEmit
<1>6. Len(results) \in Nat \ {0} /\ Len(results) - 1 \in Nat
  <2>1. Len(results) \in Nat \ {0}
    BY <1>3, EmptySeq
  <2>2. \A n \in Nat \ {0} : n - 1 \in Nat
    OBVIOUS
  <2> QED
    BY <2>1, <2>2
<1>7. results' # <<>>
  BY <1>5, <1>6, EmptySeq
<1>8. Nested(agenda', Len(results') - 1)
  BY <1>2, <1>3, <1>5, <1>6, NestedTail
<1> QED
  BY <1>1, <1>2, <1>5, <1>7, <1>8, WriterStep

LEMMA DueHead ==
  ASSUME NEW p, NEW is, Due(p, is)
  PROVE  phase = p /\ agenda # <<>> /\ Head(agenda).is = is
BY DEF Due

LEMMA WriterAgenda ==
  ASSUME WriterInv
  PROVE  agenda \in Agendas
BY SerializedTypes DEF WriterInv

LEMMA WriteFixedStep ==
  ASSUME WriterInv, WriteFixed
  PROVE  WriterInv' /\ wrote \in Seq(AnyValue) /\ wrote' \in Seq(AnyValue) /\ Starts(wrote, wrote')
<1>1. PICK x \in Values : Emit(Cells(x, Head(agenda).size)) /\ wrote' = Append(wrote, x)
  BY DEF WriteFixed
<1>2. /\ agenda # <<>> /\ Head(agenda).is = "fixed"
      /\ agenda' = Tail(agenda) /\ packet' = packet
  BY DueHead DEF WriteFixed
<1>3. Cells(x, Head(agenda).size) \in Seq(Cell)
  <2>1. Head(agenda) \in Types
    BY <1>2, WriterAgenda, AgendaKinds
  <2>2. Head(agenda).size \in 1 .. 8
    BY <1>2, <2>1, TypeKinds
  <2>3. x \in Nat /\ Head(agenda).size \in Nat
    BY <2>2, ValuesAreNumbers
  <2> QED
    BY <2>3, CellsOfValue
<1>4. \A c \in Seq(Cell) :
        Call(agenda, wrote, c, agenda', wrote', c \o Cells(x, Head(agenda).size))
  BY <1>1, <1>2 DEF Call, FixedCall
<1>5. \A d \in Nat : Nested(Tail(agenda), d) => Nested(agenda', d)
  BY <1>2
<1> QED
  BY <1>1, <1>2, <1>3, <1>4, <1>5, EmitStep

LEMMA NumberCellsType ==
  ASSUME NEW x \in AnyValue
  PROVE  x \in Nat /\ NumberCells(x) \in Seq(Cell)
<1>1. x \in Nat
  BY ValuesAreNumbers
<1>2. PICK n \in 1 .. 3 : NumberCells(x) = Cells(x, n)
  BY <1>1, NumberCellsOfValue
<1>3. n \in Nat
  OBVIOUS
<1> QED
  BY <1>1, <1>2, <1>3, CellsOfValue

LEMMA WriteNumberStep ==
  ASSUME WriterInv, WriteNumber
  PROVE  WriterInv' /\ wrote \in Seq(AnyValue) /\ wrote' \in Seq(AnyValue) /\ Starts(wrote, wrote')
<1>1. PICK x \in Coordinates : Emit(NumberCells(x)) /\ wrote' = Append(wrote, x)
  BY DEF WriteNumber
<1>2. /\ agenda # <<>> /\ Head(agenda).is = "number"
      /\ agenda' = Tail(agenda) /\ packet' = packet
  BY DueHead DEF WriteNumber
<1>3. NumberCells(x) \in Seq(Cell)
  BY ValuesAreNumbers, NumberCellsType
<1>4. \A c \in Seq(Cell) : Call(agenda, wrote, c, agenda', wrote', c \o NumberCells(x))
  BY <1>1, <1>2 DEF Call, NumberCall
<1>5. \A d \in Nat : Nested(Tail(agenda), d) => Nested(agenda', d)
  BY <1>2
<1> QED
  BY <1>1, <1>2, <1>3, <1>4, <1>5, EmitStep

LEMMA WriteTextStep ==
  ASSUME WriterInv, WriteText
  PROVE  WriterInv' /\ wrote \in Seq(AnyValue) /\ wrote' \in Seq(AnyValue) /\ Starts(wrote, wrote')
<1> PICK n \in 0 .. MaxLength : \E s \in [1 .. n -> Values] :
      /\ Emit(NumberCells(n) \o [i \in 1 .. n |-> <<s[i], 1, 1>>])
      /\ wrote' = Append(wrote, n) \o s
  BY DEF WriteText
<1>1. PICK s \in [1 .. n -> Values] :
        /\ Emit(NumberCells(n) \o Letters(s, n))
        /\ wrote' = Append(wrote, n) \o s
  BY DEF Letters
<1>2. /\ agenda # <<>> /\ Head(agenda).is = "text"
      /\ agenda' = Tail(agenda) /\ packet' = packet
  BY DueHead DEF WriteText
<1> DEFINE u == NumberCells(n) \o Letters(s, n)
<1>3. u \in Seq(Cell)
  BY ValuesAreNumbers, NumberCellsType, LettersOfText, ConcatProperties
<1>4. \A c \in Seq(Cell) : Call(agenda, wrote, c, agenda', wrote', c \o u)
  BY <1>1, <1>2 DEF Call, TextCall
<1>5. \A d \in Nat : Nested(Tail(agenda), d) => Nested(agenda', d)
  BY <1>2
<1>6. Emit(u)
  BY <1>1
<1> HIDE DEF u
<1> QED
  BY <1>2, <1>3, <1>4, <1>5, <1>6, EmitStep

LEMMA WriteListStep ==
  ASSUME WriterInv, WriteList
  PROVE  WriterInv' /\ wrote \in Seq(AnyValue) /\ wrote' \in Seq(AnyValue) /\ Starts(wrote, wrote')
<1>1. PICK n \in 0 .. MaxLength :
        /\ Emit(NumberCells(n)) /\ wrote' = Append(wrote, n)
        /\ agenda' = [i \in 1 .. n |-> Head(agenda).of] \o Tail(agenda)
  BY DEF WriteList
<1>2. agenda # <<>> /\ Head(agenda).is = "list" /\ packet' = packet
  BY DueHead DEF WriteList
<1>3. n \in Nat /\ NumberCells(n) \in Seq(Cell)
  BY ValuesAreNumbers, NumberCellsType
<1>4. \A c \in Seq(Cell) : Call(agenda, wrote, c, agenda', wrote', c \o NumberCells(n))
  BY <1>1, <1>2 DEF Call, ListCall
<1>5. \A d \in Nat : Nested(Tail(agenda), d) => Nested(agenda', d)
  <2>1. Head(agenda) \in Types /\ Tail(agenda) \in Agendas
    BY <1>2, WriterAgenda, AgendaKinds
  <2>2. Head(agenda).of \in Types
    BY <1>2, <2>1, TypeKinds
  <2>3. [i \in 1 .. n |-> Head(agenda).of] \in Seq(Types)
    BY <1>3, <2>2
  <2> QED
    BY <1>1, <2>1, <2>3, NestedFields
<1> QED
  BY <1>1, <1>2, <1>3, <1>4, <1>5, EmitStep

LEMMA WriteObjectStep ==
  ASSUME WriterInv, WriteObject
  PROVE  WriterInv' /\ wrote \in Seq(AnyValue) /\ wrote' \in Seq(AnyValue) /\ Starts(wrote, wrote')
<1>1. /\ agenda # <<>> /\ Head(agenda).is = "object"
      /\ agenda' = Head(agenda).fields \o <<Return>> \o Tail(agenda)
      /\ results' = Append(results, <<>>) /\ wrote' = wrote /\ packet' = packet
  BY DueHead DEF WriteObject
<1>2. PICK c : JoinsTo(results, c) /\ Serialized(Fields[packet], Header, agenda, wrote, c)
  BY DEF WriterInv
<1>3. results \in Seq(Seq(Cell)) /\ results # <<>> /\ Nested(agenda, Len(results) - 1)
  BY DEF WriterInv
<1>4. results' \in Seq(Seq(Cell)) /\ Len(results') = Len(results) + 1 /\ JoinsTo(results', c)
  BY <1>1, <1>2, <1>3, JoinOpen
<1>5. Len(results) \in Nat \ {0}
  BY <1>3, EmptySeq
<1>6. results' # <<>>
  <2>1. <<>> \in Seq(Cell)
    OBVIOUS
  <2> QED
    BY <1>1, <1>3, <2>1, AppendProperties
<1>7. Nested(agenda', Len(results') - 1)
  <2> DEFINE d == Len(results) - 1
  <2>1. \A n \in Nat \ {0} : n - 1 \in Nat /\ (n - 1) + 1 = (n + 1) - 1
    OBVIOUS
  <2>2. d \in Nat /\ d + 1 = Len(results') - 1
    BY <1>4, <1>5, <2>1
  <2>3. Head(agenda) \in Types /\ Tail(agenda) \in Agendas /\ agenda \in Agendas
    BY <1>1, WriterAgenda, AgendaKinds
  <2>4. Head(agenda).fields \in Seq(Types)
    BY <1>1, <2>3, TypeKinds
  <2> HIDE DEF d
  <2>5. Nested(Tail(agenda), d)
    BY <1>1, <1>3, <2>2, <2>3, NestedTail DEF d
  <2>6. Nested(agenda', d + 1)
    BY <1>1, <2>2, <2>3, <2>4, <2>5, NestedObject
  <2> QED
    BY <2>2, <2>6
<1>8. Call(agenda, wrote, c, agenda', wrote', c)
  BY <1>1 DEF Call
<1> QED
  BY <1>1, <1>2, <1>4, <1>6, <1>7, <1>8, WriterStep

LEMMA CopyObjectStep ==
  ASSUME WriterInv, CopyObject
  PROVE  WriterInv' /\ wrote \in Seq(AnyValue) /\ wrote' \in Seq(AnyValue) /\ Starts(wrote, wrote')
<1>1. /\ agenda # <<>> /\ Head(agenda).is = "return" /\ agenda' = Tail(agenda)
      /\ results' = Append(Front(Front(results)), Last(Front(results)) \o Last(results))
      /\ wrote' = wrote /\ packet' = packet
  BY DueHead DEF CopyObject
<1>2. PICK c : JoinsTo(results, c) /\ Serialized(Fields[packet], Header, agenda, wrote, c)
  BY DEF WriterInv
<1>3. results \in Seq(Seq(Cell)) /\ results # <<>> /\ Nested(agenda, Len(results) - 1)
  BY DEF WriterInv
<1>4. Len(results) \in Nat \ {0}
  BY <1>3, EmptySeq
<1> DEFINE d == Len(results) - 1
<1>5. d \in Nat
  <2>1. \A n \in Nat \ {0} : n - 1 \in Nat
    OBVIOUS
  <2> QED
    BY <1>4, <2>1
<1> HIDE DEF d
<1>6. d > 0 /\ Nested(Tail(agenda), d - 1)
  BY <1>1, <1>3, <1>5, WriterAgenda, NestedTail DEF d
<1>7. Len(results) > 1
  <2>1. \A n \in Nat : n - 1 > 0 => n > 1
    OBVIOUS
  <2> QED
    BY <1>4, <1>6, <2>1 DEF d
<1>8. results' \in Seq(Seq(Cell)) /\ Len(results') = Len(results) - 1 /\ JoinsTo(results', c)
  BY <1>1, <1>2, <1>3, <1>7, JoinCopy
<1>9. results' # <<>>
  <2>1. Len(results') = d
    BY <1>8 DEF d
  <2>2. d # 0
    BY <1>5, <1>6
  <2> QED
    BY <2>1, <2>2, EmptySeq
<1>10. Nested(agenda', Len(results') - 1)
  BY <1>1, <1>6, <1>8 DEF d
<1>11. Call(agenda, wrote, c, agenda', wrote', c)
  BY <1>1 DEF Call
<1> QED
  BY <1>1, <1>2, <1>8, <1>9, <1>10, <1>11, WriterStep

LEMMA StartReadingStep ==
  ASSUME WriterInv, shadow = 0, saved = <<>>, got = <<>>, packet \in Packets, StartReading
  PROVE  ReaderInv'
<1>1. /\ agenda = <<>> /\ agenda' = Fields[packet] /\ position' = Len(Header)
      /\ UNCHANGED <<packet, results, wrote, shadow, saved, got>>
  BY DEF StartReading, Skipped, writer
<1>2. PICK c : JoinsTo(results, c) /\ Serialized(Fields[packet], Header, agenda, wrote, c)
  BY DEF WriterInv
<1>3. Len(results) = 1
  <2>1. Len(results) \in Nat \ {0}
    BY EmptySeq DEF WriterInv
  <2>2. \A n \in Nat \ {0} : n - 1 \in Nat /\ (n - 1 = 0 => n = 1)
    OBVIOUS
  <2>3. Nested(<<>>, Len(results) - 1)
    BY <1>1 DEF WriterInv
  <2> QED
    BY <2>1, <2>2, <2>3, NestedEnd
<1>4. c = data
  BY <1>2, <1>3, JoinOne DEF data
<1>5. AtCall(Fields[packet], Header, wrote, data, Fields[packet], <<>>, Len(Header))
  BY <1>1, <1>2, <1>4, ReaderAtFirstCall
<1>6. Header' = Header /\ data' = data /\ cursor' = Len(Header)
  <2>1. Header = <<>> \/ Len(Header) = 1
    BY DEF Header
  <2>2. Len(Header) \in Nat
    BY <2>1, EmptySeq
  <2> QED
    BY <1>1, <2>2 DEF Header, data, cursor
<1>7. Nested(agenda', 0)
  BY <1>1, PacketsAssumption, FieldTypes, NestedStart
<1>8. position' \in Int /\ shadow' = 0 /\ saved' = <<>> /\ Len(saved') = 0
  <2>1. Header = <<>> \/ Len(Header) = 1
    BY DEF Header
  <2> QED
    BY <1>1, <2>1, EmptySeq
<1>9. AtCall(Fields[packet'], Header', wrote', data', agenda', got', cursor')
  BY <1>1, <1>5, <1>6
<1> QED
  BY <1>7, <1>8, <1>9 DEF ReaderInv

-----------------------------------------------------------------------------
(* The reader. *)

\* What the reader finds: one call c to c2 has written what lies before it.
Found(c, a2, g2, c2) ==
  /\ Call(agenda, got, c, a2, g2, c2) /\ Len(c) = cursor
  /\ Starts(got, g2) /\ Starts(g2, wrote) /\ Starts(c2, data)
  /\ AtCall(Fields[packet], Header, wrote, data, a2, g2, Len(c2))

LEMMA ReaderFinds ==
  ASSUME ReaderInv, agenda # <<>>
  PROVE  /\ agenda \in Agendas /\ got \in Seq(AnyValue) /\ data \in Seq(Cell)
         /\ \E c \in Seq(Cell), a2 \in Agendas, g2 \in Seq(AnyValue), c2 \in Seq(Cell) :
              Found(c, a2, g2, c2)
BY ReaderAtNextCall DEF ReaderInv, Found

\* A step that leaves the reader behind that call.
LEMMA ReaderStep ==
  ASSUME UNCHANGED <<packet, results, wrote>>,
         NEW c, NEW c2, Found(c, agenda', got', c2),
         cursor' = Len(c2), position' \in Int, shadow' \in Int, saved' \in Seq(Int),
         saved' = <<>> => shadow' = 0, saved' # <<>> => saved'[1] = 0,
         Nested(agenda', Len(saved'))
  PROVE  ReaderInv'
<1>1. Header' = Header /\ data' = data
  BY DEF Header, data
<1>2. AtCall(Fields[packet'], Header', wrote', data', agenda', got', cursor')
  BY <1>1 DEF Found
<1> QED
  BY <1>2 DEF ReaderInv

\* A call that reads so many bytes and leaves the offsets alone.
LEMMA TakeStep ==
  ASSUME ReaderInv, UNCHANGED <<packet, results, wrote, shadow, saved>>,
         NEW n \in Int, position' = position + n,
         NEW c \in Seq(Cell), NEW c2, Found(c, agenda', got', c2), Len(c2) = cursor + n,
         \A d \in Nat : Nested(Tail(agenda), d) => Nested(agenda', d),
         agenda \in Agendas, agenda # <<>>, Head(agenda).is # "return"
  PROVE  ReaderInv'
<1>1. /\ position \in Int /\ shadow \in Int /\ saved \in Seq(Int)
      /\ saved = <<>> => shadow = 0
      /\ saved # <<>> => saved[1] = 0
      /\ Nested(agenda, Len(saved))
  BY DEF ReaderInv
<1>2. cursor' = Len(c2) /\ position' \in Int
  BY <1>1 DEF cursor
<1>3. Len(saved) \in Nat
  BY <1>1, LenProperties
<1>4. Nested(agenda', Len(saved))
  BY <1>1, <1>3, NestedTail
<1> QED
  BY <1>1, <1>2, <1>4, ReaderStep

LEMMA ReadFixedStep ==
  ASSUME ReaderInv, ReadFixed
  PROVE  \E c \in Seq(Cell) : \E c2 : Found(c, agenda', got', c2) /\ ReaderInv'
<1>1. /\ agenda # <<>> /\ Head(agenda).is = "fixed" /\ agenda' = Tail(agenda)
      /\ got' = Append(got, ValueOf(Here(Head(agenda).size)))
      /\ position' = position + Head(agenda).size
      /\ UNCHANGED <<packet, results, wrote, shadow, saved>>
  BY DueHead DEF ReadFixed, writer
<1>2. agenda \in Agendas /\ got \in Seq(AnyValue) /\ data \in Seq(Cell)
  BY <1>1, ReaderFinds
<1>3. PICK c \in Seq(Cell), a2 \in Agendas, g2 \in Seq(AnyValue), c2 \in Seq(Cell) :
        Found(c, a2, g2, c2)
  BY <1>1, ReaderFinds
<1>4. PICK x \in Values : g2 = Append(got, x) /\ c2 = c \o Cells(x, Head(agenda).size)
  BY <1>1, <1>3 DEF Found, Call, FixedCall
<1>5. a2 = Tail(agenda)
  BY <1>1, <1>3 DEF Found, Call
<1> DEFINE n == Head(agenda).size
<1>6. n \in 1 .. 8
  <2>1. Head(agenda) \in Types
    BY <1>1, <1>2, AgendaKinds
  <2> QED
    BY <1>1, <2>1, TypeKinds
<1>7. x \in Nat
  BY ValuesAreNumbers
<1> HIDE DEF n
<1>8. /\ Cells(x, n) \in Seq(Cell) /\ Len(Cells(x, n)) = n
      /\ \A k \in 1 .. n : Cells(x, n)[k] = <<x, k, n>>
  BY <1>6, <1>7, CellsOfValue
<1>9. Len(c) = cursor /\ Starts(c2, data)
  BY <1>3 DEF Found
<1>10. /\ Len(c2) = cursor + n
       /\ \A k \in 1 .. n : data[cursor + k] = <<x, k, n>>
  <2> DEFINE u == Cells(x, n)
  <2>1. c2 = c \o u
    BY <1>4 DEF n
  <2>2. u \in Seq(Cell) /\ Len(u) = n /\ \A k \in 1 .. n : u[k] = <<x, k, n>>
    BY <1>8
  <2> HIDE DEF u
  <2>3. /\ Len(c \o u) = cursor + Len(u)
        /\ \A k \in 1 .. Len(u) : data[cursor + k] = u[k]
    BY <1>2, <1>9, <2>1, <2>2, HereAgain
  <2> QED
    BY <2>1, <2>2, <2>3
<1>11. ValueOf(Here(n)) = x
  <2>1. n \in Nat \ {0}
    BY <1>6
  <2> QED
    BY <1>7, <1>10, <2>1, ValueAgain
<1>12. Found(c, agenda', got', c2)
  BY <1>1, <1>3, <1>4, <1>5, <1>11 DEF n
<1>13. position' = position + n /\ n \in Int
  BY <1>1, <1>6 DEF n
<1>14. \A d \in Nat : Nested(Tail(agenda), d) => Nested(agenda', d)
  BY <1>1
<1>15. ReaderInv'
  BY <1>1, <1>2, <1>10, <1>12, <1>13, <1>14, TakeStep
<1> QED
  BY <1>12, <1>15

LEMMA ReadNumberStep ==
  ASSUME ReaderInv, ReadNumber
  PROVE  \E c \in Seq(Cell) : \E c2 : Found(c, agenda', got', c2) /\ ReaderInv'
<1>1. /\ agenda # <<>> /\ Head(agenda).is = "number" /\ agenda' = Tail(agenda)
      /\ got' = Append(got, ValueOf(Here(NumberSize)))
      /\ position' = position + NumberSize
      /\ UNCHANGED <<packet, results, wrote, shadow, saved>>
  BY DueHead DEF ReadNumber, writer
<1>2. agenda \in Agendas /\ got \in Seq(AnyValue) /\ data \in Seq(Cell)
  BY <1>1, ReaderFinds
<1>3. PICK c \in Seq(Cell), a2 \in Agendas, g2 \in Seq(AnyValue), c2 \in Seq(Cell) :
        Found(c, a2, g2, c2)
  BY <1>1, ReaderFinds
<1>4. PICK x \in Coordinates : g2 = Append(got, x) /\ c2 = c \o NumberCells(x)
  BY <1>1, <1>3 DEF Found, Call, NumberCall
<1>5. a2 = Tail(agenda)
  BY <1>1, <1>3 DEF Found, Call
<1>6. x \in Nat
  BY ValuesAreNumbers
<1>7. Len(c) = cursor /\ Starts(c \o NumberCells(x), data)
  BY <1>3, <1>4 DEF Found
<1>8. /\ NumberSize \in 1 .. 3 /\ ValueOf(Here(NumberSize)) = x
      /\ Len(c2) = cursor + NumberSize
  BY <1>2, <1>4, <1>6, <1>7, LoneNumberOfCall
<1>9. Found(c, agenda', got', c2)
  BY <1>1, <1>3, <1>4, <1>5, <1>8
<1>10. NumberSize \in Int
  BY <1>8
<1>11. \A d \in Nat : Nested(Tail(agenda), d) => Nested(agenda', d)
  BY <1>1
<1>12. ReaderInv'
  BY <1>1, <1>2, <1>8, <1>9, <1>10, <1>11, TakeStep
<1> QED
  BY <1>9, <1>12

LEMMA ReadListStep ==
  ASSUME ReaderInv, ReadList
  PROVE  \E c \in Seq(Cell) : \E c2 : Found(c, agenda', got', c2) /\ ReaderInv'
<1>1. /\ agenda # <<>> /\ Head(agenda).is = "list"
      /\ got' = Append(got, ValueOf(Here(NumberSize)))
      /\ agenda' = [i \in 1 .. ValueOf(Here(NumberSize)) |-> Head(agenda).of] \o Tail(agenda)
      /\ position' = position + NumberSize
      /\ UNCHANGED <<packet, results, wrote, shadow, saved>>
  BY DueHead DEF ReadList, writer
<1>2. agenda \in Agendas /\ got \in Seq(AnyValue) /\ data \in Seq(Cell)
  BY <1>1, ReaderFinds
<1>3. PICK c \in Seq(Cell), a2 \in Agendas, g2 \in Seq(AnyValue), c2 \in Seq(Cell) :
        Found(c, a2, g2, c2)
  BY <1>1, ReaderFinds
<1>4. PICK x \in 0 .. MaxLength :
        /\ g2 = Append(got, x) /\ c2 = c \o NumberCells(x)
        /\ a2 = [i \in 1 .. x |-> Head(agenda).of] \o Tail(agenda)
  BY <1>1, <1>3 DEF Found, Call, ListCall
<1>5. x \in Nat
  BY ValuesAreNumbers
<1>6. Len(c) = cursor /\ Starts(c \o NumberCells(x), data)
  BY <1>3, <1>4 DEF Found
<1>7. /\ NumberSize \in 1 .. 3 /\ ValueOf(Here(NumberSize)) = x
      /\ Len(c2) = cursor + NumberSize
  BY <1>2, <1>4, <1>5, <1>6, LoneNumberOfCall
<1>8. agenda' = a2 /\ got' = g2
  BY <1>1, <1>4, <1>7
<1>9. Found(c, agenda', got', c2)
  BY <1>3, <1>8
<1>10. NumberSize \in Int
  BY <1>7
<1>11. \A d \in Nat : Nested(Tail(agenda), d) => Nested(agenda', d)
  <2>1. Head(agenda) \in Types /\ Tail(agenda) \in Agendas
    BY <1>1, <1>2, AgendaKinds
  <2>2. Head(agenda).of \in Types
    BY <1>1, <2>1, TypeKinds
  <2>3. [i \in 1 .. x |-> Head(agenda).of] \in Seq(Types)
    BY <1>5, <2>2
  <2>4. \A d \in Nat : Nested(Tail(agenda), d) => Nested(a2, d)
    BY <1>4, <2>1, <2>3, NestedFields
  <2> QED
    BY <1>8, <2>4
<1>12. ReaderInv'
  BY <1>1, <1>2, <1>7, <1>9, <1>10, <1>11, TakeStep
<1> QED
  BY <1>9, <1>12

LEMMA ReadTextStep ==
  ASSUME ReaderInv, ReadText
  PROVE  \E c \in Seq(Cell) : \E c2 : Found(c, agenda', got', c2) /\ ReaderInv'
<1> DEFINE n == NumberSize
           length == ValueOf(Here(n))
<1>1. /\ agenda # <<>> /\ Head(agenda).is = "text" /\ agenda' = Tail(agenda)
      /\ got' = Append(got, length) \o [i \in 1 .. length |-> Here(n + length)[n + i][1]]
      /\ position' = position + n + length
      /\ UNCHANGED <<packet, results, wrote, shadow, saved>>
  BY DueHead DEF ReadText, writer
<1>2. agenda \in Agendas /\ got \in Seq(AnyValue) /\ data \in Seq(Cell)
  BY <1>1, ReaderFinds
<1>3. PICK c \in Seq(Cell), a2 \in Agendas, g2 \in Seq(AnyValue), c2 \in Seq(Cell) :
        Found(c, a2, g2, c2)
  BY <1>1, ReaderFinds
<1> PICK x \in 0 .. MaxLength : \E s \in [1 .. x -> Values] :
      g2 = Append(got, x) \o s /\ c2 = c \o (NumberCells(x) \o Letters(s, x))
  BY <1>1, <1>3 DEF Found, Call, TextCall
<1>4. PICK s \in [1 .. x -> Values] :
        g2 = Append(got, x) \o s /\ c2 = c \o (NumberCells(x) \o Letters(s, x))
  OBVIOUS
<1>5. a2 = Tail(agenda)
  BY <1>1, <1>3 DEF Found, Call
<1>6. x \in Nat
  BY ValuesAreNumbers
<1> DEFINE u == Letters(s, x)
<1>7. u \in Seq(Cell) /\ Len(u) = x /\ \A i \in 1 .. x : u[i] = <<s[i], 1, 1>>
  BY <1>6, LettersOfText
<1>8. Len(c) = cursor /\ Starts(c \o (NumberCells(x) \o u), data)
  BY <1>3, <1>4 DEF Found
<1>9. c2 = c \o (NumberCells(x) \o u)
  BY <1>4
<1> HIDE DEF n, length, u
<1>10. /\ n \in 1 .. 3 /\ length = x
       /\ Len(c2) = cursor + (n + x)
       /\ \A k \in 1 .. x : data[cursor + (n + k)] = u[k]
  <2>1. /\ NumberSize \in 1 .. 3 /\ ValueOf(Here(NumberSize)) = x
        /\ Len(c \o (NumberCells(x) \o u)) = cursor + (NumberSize + Len(u))
        /\ \A k \in 1 .. Len(u) : data[cursor + (NumberSize + k)] = u[k]
    <3>1. u \in Seq(Cell) /\ Len(c) = cursor
      BY <1>7, <1>8
    <3>2. Starts(c \o (NumberCells(x) \o u), data)
      BY <1>8
    <3> QED
      BY <1>2, <1>6, <3>1, <3>2, NumberOfCall
  <2> QED
    BY <1>7, <1>9, <2>1 DEF n, length
<1>11. [i \in 1 .. length |-> Here(n + length)[n + i][1]] = s
  <2>1. \A i \in 1 .. x : n + i \in 1 .. n + x
    BY <1>6, <1>10
  <2>2. \A i \in 1 .. x : Here(n + x)[n + i] = data[cursor + (n + i)]
    BY <2>1 DEF Here
  <2>3. \A i \in 1 .. x : Here(n + x)[n + i][1] = s[i]
    <3> SUFFICES ASSUME NEW i \in 1 .. x
                 PROVE  Here(n + x)[n + i][1] = s[i]
      OBVIOUS
    <3>1. Here(n + x)[n + i] = <<s[i], 1, 1>>
      BY <1>7, <1>10, <2>2
    <3> QED
      BY <3>1
  <2>4. [i \in 1 .. x |-> Here(n + x)[n + i][1]] = [i \in 1 .. x |-> s[i]]
    BY <2>3
  <2> QED
    BY <1>10, <2>4
<1>12. agenda' = a2 /\ got' = g2
  BY <1>1, <1>4, <1>5, <1>10, <1>11
<1>13. Found(c, agenda', got', c2)
  BY <1>3, <1>12
<1>14. n + x \in Int /\ position' = position + (n + x)
  <2>1. position \in Int
    BY DEF ReaderInv
  <2> QED
    BY <1>1, <1>6, <1>10, <2>1
<1>15. \A d \in Nat : Nested(Tail(agenda), d) => Nested(agenda', d)
  BY <1>1
<1>16. ReaderInv'
  BY <1>1, <1>2, <1>10, <1>13, <1>14, <1>15, TakeStep
<1> QED
  BY <1>13, <1>16

LEMMA ReadObjectStep ==
  ASSUME ReaderInv, ReadObject
  PROVE  \E c \in Seq(Cell) : \E c2 : Found(c, agenda', got', c2) /\ ReaderInv'
<1>1. /\ agenda # <<>> /\ Head(agenda).is = "object"
      /\ agenda' = Head(agenda).fields \o <<Return>> \o Tail(agenda)
      /\ saved' = Append(saved, shadow)
      /\ shadow' = position /\ position' = position - (position - shadow)
      /\ UNCHANGED <<packet, results, wrote, got>>
  BY DueHead DEF ReadObject, SetShadowOffset, writer
<1>2. agenda \in Agendas
  BY <1>1, ReaderFinds
<1>3. PICK c \in Seq(Cell), a2 \in Agendas, g2 \in Seq(AnyValue), c2 \in Seq(Cell) :
        Found(c, a2, g2, c2)
  BY <1>1, ReaderFinds
<1>4. a2 = agenda' /\ g2 = got' /\ c2 = c
  BY <1>1, <1>3 DEF Found, Call
<1>5. Found(c, agenda', got', c2)
  BY <1>3, <1>4
<1>6. /\ position \in Int /\ shadow \in Int /\ saved \in Seq(Int)
      /\ saved = <<>> => shadow = 0
      /\ saved # <<>> => saved[1] = 0
      /\ Nested(agenda, Len(saved))
  BY DEF ReaderInv
<1>7. cursor' = Len(c2) /\ position' \in Int /\ shadow' \in Int
  <2>1. cursor' = cursor
    BY <1>1, <1>6 DEF cursor
  <2>2. cursor = Len(c)
    BY <1>3 DEF Found
  <2> QED
    BY <1>1, <1>4, <1>6, <2>1, <2>2
<1>8. Len(saved) \in Nat
  BY <1>6, LenProperties
<1>9. /\ saved' \in Seq(Int) /\ saved' # <<>> /\ Len(saved') = Len(saved) + 1
      /\ \A i \in 1 .. Len(saved) : saved'[i] = saved[i]
      /\ saved'[Len(saved) + 1] = shadow
  <2> DEFINE longer == Append(saved, shadow)
  <2>1. /\ longer \in Seq(Int) /\ longer # <<>> /\ Len(longer) = Len(saved) + 1
        /\ \A i \in 1 .. Len(saved) : longer[i] = saved[i]
        /\ longer[Len(saved) + 1] = shadow
    BY <1>6, AppendProperties
  <2> HIDE DEF longer
  <2> QED
    BY <1>1, <2>1 DEF longer
<1>10. saved'[1] = 0
  <2>1. CASE saved = <<>>
    <3>1. Len(saved) = 0
      BY <2>1, EmptySeq
    <3> QED
      BY <1>6, <1>9, <2>1, <3>1
  <2>2. CASE saved # <<>>
    <3>1. Len(saved) \in Nat \ {0}
      BY <1>6, <2>2, EmptySeq
    <3>2. 1 \in 1 .. Len(saved)
      BY <3>1
    <3> QED
      BY <1>6, <1>9, <2>2, <3>2
  <2> QED
    BY <2>1, <2>2
<1>11. Nested(agenda', Len(saved'))
  <2>1. Head(agenda) \in Types /\ Tail(agenda) \in Agendas
    BY <1>1, <1>2, AgendaKinds
  <2>2. Head(agenda).fields \in Seq(Types)
    BY <1>1, <2>1, TypeKinds
  <2>3. Nested(Tail(agenda), Len(saved))
    BY <1>1, <1>2, <1>6, <1>8, NestedTail
  <2> QED
    BY <1>1, <1>8, <1>9, <2>1, <2>2, <2>3, NestedObject
<1>12. ReaderInv'
  BY <1>1, <1>5, <1>7, <1>9, <1>10, <1>11, ReaderStep
<1> QED
  BY <1>5, <1>12

LEMMA LeaveObjectStep ==
  ASSUME ReaderInv, LeaveObject
  PROVE  \E c \in Seq(Cell) : \E c2 : Found(c, agenda', got', c2) /\ ReaderInv'
<1>1. /\ agenda # <<>> /\ Head(agenda).is = "return" /\ agenda' = Tail(agenda)
      /\ saved' = Front(saved)
      /\ shadow' = Last(saved) /\ position' = position - (Last(saved) - shadow)
      /\ UNCHANGED <<packet, results, wrote, got>>
  BY DueHead DEF LeaveObject, SetShadowOffset, writer
<1>2. agenda \in Agendas
  BY <1>1, ReaderFinds
<1>3. PICK c \in Seq(Cell), a2 \in Agendas, g2 \in Seq(AnyValue), c2 \in Seq(Cell) :
        Found(c, a2, g2, c2)
  BY <1>1, ReaderFinds
<1>4. a2 = agenda' /\ g2 = got' /\ c2 = c
  BY <1>1, <1>3 DEF Found, Call
<1>5. Found(c, agenda', got', c2)
  BY <1>3, <1>4
<1>6. /\ position \in Int /\ shadow \in Int /\ saved \in Seq(Int)
      /\ saved = <<>> => shadow = 0
      /\ saved # <<>> => saved[1] = 0
      /\ Nested(agenda, Len(saved))
  BY DEF ReaderInv
<1>7. Len(saved) \in Nat
  BY <1>6, LenProperties
<1>8. Len(saved) > 0 /\ Nested(Tail(agenda), Len(saved) - 1)
  BY <1>1, <1>2, <1>6, <1>7, NestedTail
<1>9. saved # <<>>
  BY <1>8, EmptySeq
<1>10. /\ Last(saved) = saved[Len(saved)] /\ Last(saved) \in Int
       /\ Front(saved) \in Seq(Int) /\ Len(Front(saved)) = Len(saved) - 1
       /\ \A i \in 1 .. Len(saved) - 1 : Front(saved)[i] = saved[i]
  BY <1>6, <1>9, FrontAndLast
<1>11. cursor' = Len(c2) /\ position' \in Int /\ shadow' \in Int
  <2>1. cursor' = cursor
    BY <1>1, <1>6, <1>10 DEF cursor
  <2>2. cursor = Len(c)
    BY <1>3 DEF Found
  <2> QED
    BY <1>1, <1>4, <1>6, <1>10, <2>1, <2>2
<1>12. saved' = <<>> => shadow' = 0
  <2> SUFFICES ASSUME saved' = <<>>
               PROVE  shadow' = 0
    OBVIOUS
  <2>1. Len(saved) - 1 = 0
    BY <1>1, <1>10, EmptySeq
  <2>2. Len(saved) = 1
    BY <1>7, <2>1
  <2> QED
    BY <1>1, <1>6, <1>9, <1>10, <2>2
<1>13. saved' # <<>> => saved'[1] = 0
  <2> SUFFICES ASSUME saved' # <<>>
               PROVE  saved'[1] = 0
    OBVIOUS
  <2>1. Len(saved') \in Nat \ {0} /\ Len(saved') = Len(saved) - 1
    BY <1>1, <1>10, EmptySeq
  <2>2. 1 \in 1 .. Len(saved) - 1
    BY <1>7, <2>1
  <2> QED
    BY <1>1, <1>6, <1>9, <1>10, <2>2
<1>14. ReaderInv'
  BY <1>1, <1>5, <1>8, <1>10, <1>11, <1>12, <1>13, ReaderStep
<1> QED
  BY <1>5, <1>14

LEMMA DoneStep ==
  ASSUME ReaderInv, Done
  PROVE  got = wrote /\ position = Len(data) /\ shadow = 0
<1>1. agenda = <<>>
  BY DEF Done
<1>2. got = wrote /\ cursor = Len(data)
  BY <1>1, ReaderAtEnd DEF ReaderInv
<1>3. saved \in Seq(Int) /\ Nested(<<>>, Len(saved)) /\ (saved = <<>> => shadow = 0)
  BY <1>1 DEF ReaderInv
<1>4. Len(saved) \in Nat
  BY <1>3, LenProperties
<1>5. Len(saved) = 0
  BY <1>3, <1>4, NestedEnd
<1>6. saved = <<>>
  BY <1>3, <1>5, EmptySeq
<1>7. position \in Int /\ shadow = 0
  BY <1>3, <1>6 DEF ReaderInv
<1> QED
  BY <1>2, <1>7 DEF cursor

-----------------------------------------------------------------------------

WriteStep == WriteFixed \/ WriteNumber \/ WriteText \/ WriteList \/ WriteObject \/ CopyObject
ReadStep  == ReadFixed \/ ReadNumber \/ ReadText \/ ReadList \/ ReadObject \/ LeaveObject

LEMMA AnyWriteStep ==
  ASSUME PacketInv, WriteStep
  PROVE  /\ phase = "write" /\ PacketInv' /\ got' = got
         /\ wrote \in Seq(AnyValue) /\ wrote' \in Seq(AnyValue) /\ Starts(wrote, wrote')
<1>1. phase = "write" /\ UNCHANGED <<packet, phase, position, shadow, saved, got>>
  BY DueHead DEF WriteStep, WriteFixed, WriteNumber, WriteText, WriteList, WriteObject,
                 CopyObject, reader
<1>2. WriterInv /\ packet \in Packets /\ position = 0 /\ shadow = 0 /\ saved = <<>> /\ got = <<>>
  BY <1>1 DEF PacketInv
<1>3. /\ WriterInv' /\ wrote \in Seq(AnyValue) /\ wrote' \in Seq(AnyValue)
      /\ Starts(wrote, wrote')
  BY <1>2, WriteFixedStep, WriteNumberStep, WriteTextStep, WriteListStep, WriteObjectStep,
     CopyObjectStep DEF WriteStep
<1> QED
  BY <1>1, <1>2, <1>3 DEF PacketInv

LEMMA AnyReadStep ==
  ASSUME PacketInv, ReadStep
  PROVE  /\ phase = "read" /\ PacketInv' /\ wrote' = wrote
         /\ \E c \in Seq(Cell) : \E c2 : Found(c, agenda', got', c2)
         /\ got \in Seq(AnyValue)
<1>1. phase = "read" /\ agenda # <<>> /\ UNCHANGED <<packet, phase, results, wrote>>
  BY DueHead DEF ReadStep, ReadFixed, ReadNumber, ReadText, ReadList, ReadObject,
                 LeaveObject, writer
<1>2. ReaderInv /\ packet \in Packets
  BY <1>1 DEF PacketInv
<1>3. \E c \in Seq(Cell) : \E c2 : Found(c, agenda', got', c2) /\ ReaderInv'
  BY <1>2, ReadFixedStep, ReadNumberStep, ReadTextStep, ReadListStep, ReadObjectStep,
     LeaveObjectStep DEF ReadStep
<1>4. got \in Seq(AnyValue)
  BY <1>1, <1>2, ReaderFinds
<1> QED
  BY <1>1, <1>2, <1>3, <1>4 DEF PacketInv

LEMMA PacketStep ==
  ASSUME PacketInv, [PacketNext]_packetVars
  PROVE  PacketInv'
<1>1. CASE WriteStep
  BY <1>1, AnyWriteStep
<1>2. CASE ReadStep
  BY <1>2, AnyReadStep
<1>3. CASE StartReading
  <2>1. phase = "write" /\ phase' = "read" /\ packet' = packet
    BY <1>3 DEF StartReading
  <2>2. WriterInv /\ packet \in Packets /\ shadow = 0 /\ saved = <<>> /\ got = <<>>
    BY <2>1 DEF PacketInv
  <2>3. ReaderInv'
    BY <1>3, <2>2, StartReadingStep
  <2> QED
    BY <2>1, <2>2, <2>3 DEF PacketInv
<1>4. CASE Done
  <2>1. phase = "read" /\ phase' = "done" /\ UNCHANGED <<packet, results, wrote, position, shadow, got>>
    BY <1>4 DEF Done, writer, reader
  <2>2. ReaderInv /\ packet \in Packets
    BY <2>1 DEF PacketInv
  <2>3. got = wrote /\ position = Len(data) /\ shadow = 0
    BY <1>4, <2>2, DoneStep
  <2> QED
    BY <2>1, <2>2, <2>3 DEF PacketInv, data
<1>5. CASE UNCHANGED packetVars
  <2>1. UNCHANGED <<packet, phase, agenda, results, wrote, position, shadow, saved, got>>
    BY <1>5 DEF packetVars
  <2>2. Header' = Header /\ data' = data /\ cursor' = cursor
    BY <2>1 DEF Header, data, cursor
  <2> QED
    BY <2>1, <2>2 DEF PacketInv, WriterInv, ReaderInv
<1> QED
  BY <1>1, <1>2, <1>3, <1>4, <1>5 DEF PacketNext, WriteStep, ReadStep

\* The bytes of the next call are there.
LEMMA BytesAreLeft ==
  ASSUME ReaderInv, agenda # <<>>
  PROVE  BytesLeft(Head(agenda))
<1> DEFINE t == Head(agenda)
           numberEnds == {n \in 1 .. Len(data) - cursor : data[cursor + n][2] = data[cursor + n][3]}
<1>1. agenda \in Agendas /\ data \in Seq(Cell)
  BY ReaderFinds
<1>2. PICK c \in Seq(Cell), a2 \in Agendas, g2 \in Seq(AnyValue), c2 \in Seq(Cell) :
        Found(c, a2, g2, c2)
  BY ReaderFinds
<1>3. Len(c) = cursor /\ Starts(c2, data)
  BY <1>2 DEF Found
<1>4. t.is = "fixed" => cursor + t.size <= Len(data)
  <2> SUFFICES ASSUME t.is = "fixed"
               PROVE  cursor + t.size <= Len(data)
    OBVIOUS
  <2>1. PICK x \in Values : c2 = c \o Cells(x, t.size)
    BY <1>2 DEF Found, Call, FixedCall
  <2>2. t \in Types
    BY <1>1, AgendaKinds
  <2>3. t.size \in 1 .. 8
    BY <2>2, TypeKinds
  <2>4. x \in Nat /\ t.size \in Nat
    BY <2>3, ValuesAreNumbers
  <2> DEFINE u == Cells(x, t.size)
  <2>5. u \in Seq(Cell) /\ Len(u) = t.size
    BY <2>4, CellsOfValue
  <2>6. Starts(c \o u, data)
    BY <1>3, <2>1
  <2> HIDE DEF u
  <2>7. cursor + Len(u) <= Len(data)
    BY <1>1, <1>3, <2>5, <2>6, HereAgain
  <2> QED
    BY <2>5, <2>7
<1>5. t.is \in {"number", "list"} => numberEnds # {}
  <2> SUFFICES ASSUME t.is \in {"number", "list"}
               PROVE  numberEnds # {}
    OBVIOUS
  <2>1. \E y \in Coordinates \cup 0 .. MaxLength : c2 = c \o NumberCells(y)
    BY <1>2 DEF Found, Call, NumberCall, ListCall
  <2>2. PICK x \in Coordinates \cup 0 .. MaxLength : c2 = c \o NumberCells(x)
    BY <2>1
  <2>3. x \in Nat /\ Starts(c \o NumberCells(x), data)
    BY <1>3, <2>2, ValuesAreNumbers
  <2>4. /\ NumberSize \in 1 .. Len(data) - cursor
        /\ data[cursor + NumberSize][2] = data[cursor + NumberSize][3]
    BY <1>1, <1>3, <2>3, LoneNumberOfCall
  <2> QED
    BY <2>4
<1>6. t.is = "text" =>
        numberEnds # {} /\ cursor + NumberSize + ValueOf(Here(NumberSize)) <= Len(data)
  <2> SUFFICES ASSUME t.is = "text"
               PROVE  numberEnds # {} /\ cursor + NumberSize + ValueOf(Here(NumberSize)) <= Len(data)
    OBVIOUS
  <2> PICK x \in 0 .. MaxLength : \E s \in [1 .. x -> Values] :
        c2 = c \o (NumberCells(x) \o Letters(s, x))
    BY <1>2 DEF Found, Call, TextCall
  <2>1. PICK s \in [1 .. x -> Values] : c2 = c \o (NumberCells(x) \o Letters(s, x))
    OBVIOUS
  <2>2. x \in Nat
    BY ValuesAreNumbers
  <2> DEFINE u == Letters(s, x)
  <2>3. u \in Seq(Cell) /\ Len(u) = x
    BY <2>2, LettersOfText
  <2>4. Starts(c \o (NumberCells(x) \o u), data)
    BY <1>3, <2>1
  <2> HIDE DEF u
  <2>5. /\ cursor \in Nat /\ NumberSize \in 1 .. 3 /\ ValueOf(Here(NumberSize)) = x
        /\ NumberSize \in 1 .. Len(data) - cursor
        /\ data[cursor + NumberSize][2] = data[cursor + NumberSize][3]
        /\ cursor + (NumberSize + Len(u)) <= Len(data)
    BY <1>1, <1>3, <2>2, <2>3, <2>4, NumberOfCall
  <2>6. numberEnds # {}
    BY <2>5
  <2>7. cursor + NumberSize + x <= Len(data)
    BY <2>2, <2>3, <2>5
  <2> QED
    BY <2>5, <2>6, <2>7
<1> QED
  BY <1>4, <1>5, <1>6 DEF BytesLeft

(* Every packet is read to its last byte and not past it, whatever its      *)
(* lists, strings and objects are, and indices into the stream are then     *)
(* again those of the vector (vector_stream.cpp 7-27).                      *)
THEOREM PacketsAreReadWhole == PacketSpec => []WholePacketRead
<1>1. PacketInv => WholePacketRead
  BY BytesAreLeft DEF PacketInv, WholePacketRead
<1> QED
  BY <1>1, PacketStart, PacketStep, PTL DEF PacketSpec

LEMMA PipeStep ==
  ASSUME PacketInv, [PacketNext]_packetVars
  PROVE  [Pipe!Next]_<<wrote, got>>
<1>1. CASE WriteStep
  <2>1. /\ got' = got /\ wrote \in Seq(AnyValue) /\ wrote' \in Seq(AnyValue)
        /\ Starts(wrote, wrote')
    BY <1>1, AnyWriteStep
  <2>2. CASE wrote' = wrote
    BY <2>1, <2>2
  <2>3. CASE wrote' # wrote
    <3>1. IsStrictPrefix(wrote, wrote')
      BY <2>1, <2>3, StartsIsPrefix DEF IsStrictPrefix
    <3>2. Pipe!Put
      BY <2>1, <3>1 DEF Pipe!Put, Pipe!IsStrictPrefix, Pipe!IsPrefix,
                          IsStrictPrefix, IsPrefix, AnyValue
    <3> QED
      BY <3>2 DEF Pipe!Next
  <2> QED
    BY <2>2, <2>3
<1>2. CASE ReadStep
  <2>1. wrote' = wrote /\ got \in Seq(AnyValue)
    BY <1>2, AnyReadStep
  <2>2. \E c \in Seq(Cell) : \E c2 : Found(c, agenda', got', c2)
    BY <1>2, AnyReadStep
  <2>3. Starts(got, got') /\ Starts(got', wrote)
    BY <1>2, AnyReadStep DEF Found
  <2>4. got' \in Seq(AnyValue) /\ wrote \in Seq(AnyValue)
    BY <2>2 DEF Found, AtCall
  <2>5. CASE got' = got
    BY <2>1, <2>5
  <2>6. CASE got' # got
    <3>1. IsStrictPrefix(got, got') /\ IsPrefix(got', wrote)
      BY <2>1, <2>3, <2>4, <2>6, StartsIsPrefix DEF IsStrictPrefix
    <3>2. Pipe!Take
      BY <2>1, <3>1 DEF Pipe!Take, Pipe!IsStrictPrefix, Pipe!IsPrefix, IsStrictPrefix, IsPrefix
    <3> QED
      BY <3>2 DEF Pipe!Next
  <2> QED
    BY <2>5, <2>6
<1>3. CASE StartReading \/ Done \/ UNCHANGED packetVars
  BY <1>3 DEF StartReading, Done, packetVars, writer, reader
<1> QED
  BY <1>1, <1>2, <1>3 DEF PacketNext, WriteStep, ReadStep

(* Whatever nests in what, a packet is read as the values it was written    *)
(* from, in their order (serializer.h 60-101, serializer.cpp 225-241).      *)
THEOREM PacketsImplementPipe == PacketSpec => PipeSpec
<1>1. PacketInit => Pipe!Init
  BY DEF PacketInit, Pipe!Init
<1> QED
  BY <1>1, PacketStart, PacketStep, PipeStep, PTL DEF PacketSpec, PipeSpec, Pipe!Spec
================================================================================

------------------------------- MODULE ValuePipe -------------------------------
(***************************************************************************)
(* What serialize() and deserialize() of a packet promise together: the    *)
(* reader gets the values the writer put in, in their order.               *)
(***************************************************************************)
EXTENDS Integers, SequencesExt

CONSTANT Value

VARIABLES
  wrote,  \* the values put in
  got     \* the values taken out

Init == wrote = <<>> /\ got = <<>>

Put ==
  /\ wrote' \in Seq(Value)
  /\ IsStrictPrefix(wrote, wrote')
  /\ UNCHANGED got

Take ==
  /\ IsStrictPrefix(got, got')
  /\ IsPrefix(got', wrote)
  /\ UNCHANGED wrote

Next == Put \/ Take

Spec == Init /\ [][Next]_<<wrote, got>>
==============================================================================

------------------------------- MODULE MCVarint -------------------------------
(***************************************************************************)
(* Varint for TLC: every number made of the bits next to the borders of    *)
(* digits and of the int.                                                  *)
(***************************************************************************)
EXTENDS Varint

SmallNumbers == SUBSET {0, 6, 7, 13, 14, 27, 28, 30}
LargeNumbers == SUBSET {0, 3, 27, 28, 31, 32, 34} \cup {{63}, {35}}
SomeNumbers  == SmallNumbers \cup LargeNumbers
==============================================================================

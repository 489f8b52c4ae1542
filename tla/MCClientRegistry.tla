--------------------------- MODULE MCClientRegistry ---------------------------
(***************************************************************************)
(* ClientRegistry for TLC.  Three addresses: a client before, at and after *)
(* the iterator.                                                           *)
(***************************************************************************)
EXTENDS ClientRegistry

Addresses == 1 .. 3
==============================================================================

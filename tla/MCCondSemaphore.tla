--------------------------- MODULE MCCondSemaphore ---------------------------
(***************************************************************************)
(* CondSemaphore for TLC: four threads that call wait() and notify() at    *)
(* will, and a maximum of two so that the counter both saturates and holds *)
(* more than one unit.                                                     *)
(***************************************************************************)
EXTENDS CondSemaphore
=============================================================================

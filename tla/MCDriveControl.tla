---------------------------- MODULE MCDriveControl ----------------------------
(***************************************************************************)
(* DriveControl for TLC: a page with the buttons that can make the speeds  *)
(* wrap, and a second page that drives the same tank.  To keep the number  *)
(* of states low only backwards is used there, one command at a time, it   *)
(* is connected before anything happens at the other page, and nothing is  *)
(* followed any further once it has lost its connection or missed a        *)
(* command.                                                                *)
(***************************************************************************)
EXTENDS DriveControl

CONSTANT SecondPage

ASSUME SecondPageAssumption == SecondPage \in Clients

SecondPageIsSimple ==
  /\ held[SecondPage] \cup keys[SecondPage] \subseteq {"s"}
  /\ ~shift[SecondPage] /\ ~missed[SecondPage] /\ socket[SecondPage] # "closed"
  /\ Len(wire[SecondPage]) <= 1

SecondPageIsFirst ==
  socket[SecondPage] = "connecting" =>
    \A c \in Clients : held[c] = {} /\ ~shift[c] /\ socket[c] = "connecting"

FewInFlight ==
  \A c \in Clients \ {SecondPage} :
    Len(wire[c]) + Len(wire[SecondPage]) <= MaxInFlight
==============================================================================

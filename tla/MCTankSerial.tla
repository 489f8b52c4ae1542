----------------------------- MODULE MCTankSerial -----------------------------
(***************************************************************************)
(* TankSerial for TLC.  Two clients, a MOVE backwards, a STOP, and LEDS    *)
(* packets of different lengths and colours.                               *)
(***************************************************************************)
EXTENDS TankSerial

Red  == <<255, 0, 0>>
Blue == <<0, 0, 255>>

SomePackets == {
  << <<TANKOPC_MOVE, <<156, 100>>>> >>,
  << <<TANKOPC_STOP, <<>>>> >>,
  LedCommands(<<Red, Red>>),
  LedCommands(<<Blue, Blue, Blue>>) }
==============================================================================

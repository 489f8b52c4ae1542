------------------------------ MODULE SerialFrame ------------------------------
(***************************************************************************)
(* The ten bytes that TankSerial::sendCommandRaw() makes of a command, and *)
(* how the tank takes them apart.                                          *)
(***************************************************************************)
EXTENDS Integers, Sequences

TANKOPC_STOP    == 1
TANKOPC_MOVE    == 2
TANKOPC_LED_SET == 3

Opcodes   == {TANKOPC_STOP, TANKOPC_MOVE, TANKOPC_LED_SET}
Arguments == {args \in Seq(0 .. 255) : Len(args) <= 5}

CAN == 24
DC1 == 17
ETB == 23

\* packet[] is zero past the arguments.
Arg(args, i) == IF i <= Len(args) THEN args[i] ELSE 0

\* Fault: the checksum leaves out the first byte.
FrameUnsummed(opc, args) ==
  LET sum == Arg(args, 1) + Arg(args, 2) + Arg(args, 3) + Arg(args, 4) + Arg(args, 5)
  IN  <<CAN, DC1, opc + 16 * Len(args),
        Arg(args, 1), Arg(args, 2), Arg(args, 3), Arg(args, 4), Arg(args, 5),
        (-sum) % 256, ETB>>

Frame(opc, args) ==
  LET head == opc + 16 * Len(args)
      sum  == head + Arg(args, 1) + Arg(args, 2) + Arg(args, 3) + Arg(args, 4) + Arg(args, 5)
  IN  <<CAN, DC1, head,
        Arg(args, 1), Arg(args, 2), Arg(args, 3), Arg(args, 4), Arg(args, 5),
        (-sum) % 256, ETB>>

\* The tank: the bytes of a frame add up to nothing ...
Accepted(f) ==
  /\ f[1] = CAN /\ f[2] = DC1 /\ f[10] = ETB
  /\ (f[3] + f[4] + f[5] + f[6] + f[7] + f[8] + f[9]) % 256 = 0

\* ... and the first tells the command and how many arguments it has.
OpcodeOf(f) == f[3] % 16
ArgsOf(f)   == SubSeq(f, 4, 3 + f[3] \div 16)
==============================================================================

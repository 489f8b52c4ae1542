------------------------------ MODULE TankSerial ------------------------------
(***************************************************************************)
(* The serial port of the tank: TankSerial::open(), and the packet         *)
(* handlers, which run on the threads of the HTTP server, one per client,  *)
(* and write frames to the port without a lock.  One step is one system    *)
(* call.  The driver of the port and the tank are external.                *)
(***************************************************************************)
EXTENDS SerialFrame

CONSTANTS
  Handlers,  \* the threads of the clients
  Packets,   \* what they receive, as commands <<opcode, arguments>> to send
  Baud       \* the speed that the port is to have

ASSUME TankAssumption ==
  /\ Packets \subseteq Seq(Opcodes \X Arguments) /\ Packets # {}
  /\ Baud \in Nat

Closed == -1
Fd     == 3

VARIABLES
  main,     \* how far main() is with the port
  mPortFD,  \* the descriptor
  speed,    \* the speed of the line, in baud
  todo,     \* the commands that each handler still has to send
  told,     \* the last command written to the port
  heard,    \* the last one the tank took from it
  leds,     \* the colours of the tank's LEDs
  newest,   \* the LEDS packet that was received last
  disturbed \* another one overlapped with it, or a write failed

port == <<main, mPortFD, speed>>
tankState == <<told, heard, leds>>
history == <<newest, disturbed>>
serialVars == <<port, todo, tankState, history>>

-----------------------------------------------------------------------------

SerialInit ==
  /\ main = "open" /\ mPortFD = Closed
  /\ speed \in {9600, Baud}  \* what a login on the line left
  /\ todo = [h \in Handlers |-> <<>>]
  /\ told = <<>> /\ heard = <<>> /\ leds = <<>>
  /\ newest = <<>> /\ disturbed = FALSE

\* The constants B9600 .. B115200 of termios.h, octal 15 to 10002; any other
\* number than one of them is refused and leaves the speed.
SpeedConstants == {13, 14, 15, 4097, 4098}

\* open(), tcgetattr() and tcsetattr(); each may fail, which ends the process
\* (see Lifecycle): nothing closes the port then but the system.
OpenPort ==
  /\ main = "open"
  /\ mPortFD' = Fd
  /\ main' = "get"
  /\ UNCHANGED <<speed, todo, tankState, history>>

OpenFails ==
  /\ main = "open"
  /\ mPortFD' = -1
  /\ main' = "failed"
  /\ UNCHANGED <<speed, todo, tankState, history>>

GetAttributes ==
  /\ main = "get"
  /\ main' \in {"set", "failed"}
  /\ UNCHANGED <<mPortFD, speed, todo, tankState, history>>

SetAttributes ==
  /\ main = "set"
  /\ \/ /\ main' = "serve"
        /\ speed' = IF Baud \in SpeedConstants THEN Baud ELSE speed
     \/ /\ main' = "failed"
        /\ UNCHANGED speed
  /\ UNCHANGED <<mPortFD, todo, tankState, history>>

-----------------------------------------------------------------------------

Busy(h) == todo[h] # <<>>

IsLeds(p) == p # <<>> /\ p[1][1] = TANKOPC_LED_SET

\* Fault: the number is incremented before it is used.
LedCommandsFromOne(colours) ==
  [i \in 1 .. Len(colours) |-> <<TANKOPC_LED_SET, << i % 256 >> \o colours[i]>>]

\* The LEDs of a packet get the numbers 0, 1, ..., as a byte.
LedCommands(colours) ==
  [i \in 1 .. Len(colours) |-> <<TANKOPC_LED_SET, << (i - 1) % 256 >> \o colours[i]>>]

\* A LEDS packet is nothing but the LEDs of its colours, three bytes each.
ASSUME LedsAssumption ==
  \A p \in Packets :
    IF IsLeds(p)
      THEN /\ \A i \in DOMAIN p : Len(p[i][2]) = 4
           /\ p = LedCommands([i \in 1 .. Len(p) |-> Tail(p[i][2])])
      ELSE \A i \in DOMAIN p : p[i][1] # TANKOPC_LED_SET

\* Fault: a packet is taken while the last one is being handled.
ReceiveQueued(h) ==
  /\ main = "serve"
  /\ \E p \in Packets : todo' = [todo EXCEPT ![h] = @ \o p]
  /\ UNCHANGED <<port, tankState, history>>

\* onBinaryMessage() of a client; clients are served once the port is open.
Receive(h) ==
  /\ main = "serve" /\ ~Busy(h)
  /\ \E p \in Packets :
       /\ p # <<>>
       /\ todo' = [todo EXCEPT ![h] = p]
       /\ IF IsLeds(p)
            THEN /\ newest' = p
                 /\ disturbed' = \E g \in Handlers : IsLeds(todo[g])
            ELSE UNCHANGED history
  /\ UNCHANGED <<port, tankState>>

\* What the tank does with a frame.
Obey(f) ==
  IF Accepted(f)
    THEN /\ heard' = <<OpcodeOf(f), ArgsOf(f)>>
         /\ IF OpcodeOf(f) = TANKOPC_LED_SET
              THEN LET id == ArgsOf(f)[1]
                   IN  leds' = [n \in DOMAIN leds \cup {id} |->
                                  IF n = id THEN Tail(ArgsOf(f)) ELSE leds[n]]
              ELSE UNCHANGED leds
    ELSE UNCHANGED <<heard, leds>>

\* write() of the ten bytes of a frame.
Write(h) ==
  /\ Busy(h)
  /\ told' = Head(todo[h])
  /\ Obey(Frame(told'[1], told'[2]))
  /\ todo' = [todo EXCEPT ![h] = Tail(@)]
  /\ UNCHANGED <<port, history>>

\* It fails or writes a part only, and the handler goes on with the next
\* command.  That the tank drops the part is assumed: the next frame begins with
\* "ASCII CAN (cancel)" (tankserial.cpp 128), and what it cancels is not said.
WriteFails(h) ==
  /\ Busy(h)
  /\ todo' = [todo EXCEPT ![h] = Tail(@)]
  /\ disturbed' = (disturbed \/ IsLeds(todo[h]))
  /\ UNCHANGED <<port, tankState, newest>>

SerialNext ==
  \/ OpenPort \/ OpenFails \/ GetAttributes \/ SetAttributes
  \/ \E h \in Handlers : Receive(h) \/ Write(h) \/ WriteFails(h)

SerialSpec == SerialInit /\ [][SerialNext]_serialVars

-----------------------------------------------------------------------------

SerialTypeOK ==
  /\ main \in {"open", "get", "set", "serve", "failed"}
  /\ mPortFD \in {Closed, Fd}
  /\ speed \in {9600, Baud}
  /\ \A h \in Handlers :
       \E p \in Packets : \E n \in 0 .. Len(p) : todo[h] = SubSeq(p, n + 1, Len(p))
  /\ DOMAIN leds \subseteq 0 .. 255

(* Once all packets are handled the LEDs are those of the one that came    *)
(* last, unless another LEDS packet was being handled at the same time or a *)
(* write failed (mono_raspi.cpp 136-140, tankserial.cpp 87-94).            *)
LedsAreOfOnePacket ==
  (\A h \in Handlers : ~Busy(h)) /\ ~disturbed =>
    \A i \in DOMAIN newest : /\ i - 1 \in DOMAIN leds
                             /\ leds[i - 1] = Tail(newest[i][2])

(* Whatever the handlers' commands are and in whatever order they get to   *)
(* the port, the tank takes from each frame the command that was put into  *)
(* it (tankserial.cpp 121-152).                                            *)
CommandsUnderstood == heard = told
==============================================================================

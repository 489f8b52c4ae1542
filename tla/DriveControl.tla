----------------------------- MODULE DriveControl -----------------------------
(***************************************************************************)
(* Driving the tank with the keyboard, end to end: the key handlers of     *)
(* index.html, the WebSocket, the MOVE case of onBinaryMessage() and the   *)
(* serial command of TankSerial::speed().  Several pages may be open; each *)
(* keeps its own key state and they share the tank.                        *)
(*                                                                         *)
(* A handler of the page runs to completion, so it is one action.  The bit *)
(* mask st of sendUpdate() is the set of the keys whose bits are set.      *)
(***************************************************************************)
EXTENDS Integers, Sequences, FiniteSets

CONSTANTS
  Clients,     \* the open pages
  Buttons,     \* the buttons of the keyboard that get pressed
  MaxInFlight  \* bound: commands on their way in one WebSocket

Small   == {"a", "s", "d", "w"}
Capital == {"A", "S", "D", "W"}

\* The members of the page's object keys.
KeyNames == Small \cup Capital \cup {"f"}

ASSUME DriveAssumption ==
  /\ Buttons \subseteq Small \cup {"f"}
  /\ MaxInFlight \in Nat \ {0}

VARIABLES
  held,       \* the buttons held down at every page
  shift,      \* is the shift button held down?
  keys,       \* the members of the page's keys that are true
  lastState,  \* the set behind the page's lastState
  socket,     \* the WebSocket's readyState
  wire,       \* the commands in the WebSocket, oldest first
  sent,       \* the last command the page put there
  missed,     \* has the page changed its keys since without a command?
  tank,       \* the tracks' speeds: the last command written to the port
  driver,     \* the page it came from, if there was one
  writeFailed \* has the write of a command of that page failed since?

userVars == <<held, shift>>
pageVars == <<keys, lastState>>
linkVars == <<socket, wire, sent, missed>>
tankVars == <<tank, driver, writeFailed>>
vars == <<userVars, pageVars, linkVars, tankVars>>

-----------------------------------------------------------------------------
(* Speeds *)

\* Fault: the page stores 16 bits and the tank reads them all.
ToInt16(n) == ((n + 32768) % 65536) - 32768

\* Fault: the page uses a Uint8ClampedArray.
ToClampedInt8(n) ==
  LET byte == IF n < 0 THEN 0 ELSE IF n > 255 THEN 255 ELSE n
  IN  ((byte + 128) % 256) - 128

\* A number stored in a Uint8Array and read as an int8_t.
ToInt8(n) == ((n + 128) % 256) - 128

Amount(K, key, n) == IF key \in K THEN n ELSE 0

\* The small keys count only while no capital one is pressed.
Forward(K) ==
  (IF K \cap Capital = {} THEN Amount(K, "w", 30) - Amount(K, "s", 30) ELSE 0)
    + Amount(K, "W", 60) - Amount(K, "S", 60)

Turn(K, small, capital) ==
  (IF K \cap Capital = {} THEN Amount(K, small, 30) ELSE 0)
    + Amount(K, capital, 60)

Factor(K) == IF "f" \in K THEN 2 ELSE 1

Left(K)  == Factor(K) * (Forward(K) - Turn(K, "d", "D"))
Right(K) == Factor(K) * (Forward(K) - Turn(K, "a", "A"))

Command(K) == <<ToInt8(Left(K)), ToInt8(Right(K))>>
Halt == <<0, 0>>

Commands == (-128 .. 127) \X (-128 .. 127)

-----------------------------------------------------------------------------

Init ==
  /\ held = [c \in Clients |-> {}]
  /\ shift = [c \in Clients |-> FALSE]
  /\ keys = [c \in Clients |-> {}]
  /\ lastState = [c \in Clients |-> {}]
  /\ socket = [c \in Clients |-> "connecting"]
  /\ wire = [c \in Clients |-> <<>>]
  /\ sent = [c \in Clients |-> Halt]
  /\ missed = [c \in Clients |-> FALSE]
  /\ tank = Halt /\ driver = {}
  /\ writeFailed = FALSE

\* The keys that have a bit in st; f has none.
State(K) == K \ {"f"}

\* exampleSocket.send() throws before the connection and does nothing after.
SendData(c, command) ==
  \/ /\ socket[c] = "open"
     /\ Len(wire[c]) < MaxInFlight
     /\ wire' = [wire EXCEPT ![c] = Append(@, command)]
     /\ sent' = [sent EXCEPT ![c] = command]
     /\ missed' = [missed EXCEPT ![c] = FALSE]
  \/ /\ socket[c] # "open"
     /\ missed' = [missed EXCEPT ![c] = TRUE]
     /\ UNCHANGED <<wire, sent>>

SendUpdate(c, K) ==
  \/ /\ State(K) = lastState[c]
     /\ UNCHANGED <<lastState, wire, sent, missed>>
  \/ /\ State(K) # lastState[c]
     /\ lastState' = [lastState EXCEPT ![c] = State(K)]
     /\ SendData(c, Command(K))

SetKeys(c, K) ==
  /\ keys' = [keys EXCEPT ![c] = K]
  /\ SendUpdate(c, K)
  /\ UNCHANGED <<shift, socket, tankVars>>

\* e.key of a button: shift decides.  There is no F in keys.
KeyOf(button, isShifted) ==
  IF isShifted
  THEN [a |-> "A", s |-> "S", d |-> "D", w |-> "W", f |-> "F"][button]
  ELSE button

\* onkeydown, also for a button that repeats while it is held.
KeyDown(c, button) ==
  LET key == KeyOf(button, shift[c])
  IN  /\ held' = [held EXCEPT ![c] = @ \cup {button}]
      /\ IF key \in KeyNames
         THEN SetKeys(c, keys[c] \cup {key})
         ELSE UNCHANGED <<shift, pageVars, linkVars, tankVars>>

\* Fault: onkeyup forgets to call sendUpdate().
KeyUpUnsent(c, button) ==
  LET key == KeyOf(button, shift[c])
  IN  /\ button \in held[c]
      /\ held' = [held EXCEPT ![c] = @ \ {button}]
      /\ keys' = [keys EXCEPT ![c] = @ \ {key}]
      /\ UNCHANGED <<shift, lastState, linkVars, tankVars>>

\* onkeyup.  The key is the one that shift makes of the button now.
KeyUp(c, button) ==
  LET key == KeyOf(button, shift[c])
  IN  /\ button \in held[c]
      /\ held' = [held EXCEPT ![c] = @ \ {button}]
      /\ IF key \in KeyNames
         THEN SetKeys(c, keys[c] \ {key})
         ELSE UNCHANGED <<shift, pageVars, linkVars, tankVars>>

\* Shift itself is no member of keys.
PressOrReleaseShift(c) ==
  /\ shift' = [shift EXCEPT ![c] = ~@]
  /\ UNCHANGED <<held, pageVars, linkVars, tankVars>>

\* The timer of 5 s: the page forgets its keys and sends nothing.
Reset(c) ==
  /\ keys' = [keys EXCEPT ![c] = {}]
  /\ lastState' = [lastState EXCEPT ![c] = {}]
  /\ missed' = [missed EXCEPT ![c] = @ \/ keys[c] # {}]
  /\ UNCHANGED <<userVars, socket, wire, sent, tankVars>>

Connect(c) ==
  /\ socket[c] = "connecting"
  /\ socket' = [socket EXCEPT ![c] = "open"]
  /\ UNCHANGED <<userVars, pageVars, wire, sent, missed, tankVars>>

\* The connection breaks: what was on its way is lost, and neither the page
\* nor onDisconnect() does anything about the tank.
Disconnect(c) ==
  /\ socket[c] # "closed"
  /\ socket' = [socket EXCEPT ![c] = "closed"]
  /\ missed' = [missed EXCEPT ![c] = @ \/ wire[c] # <<>>]
  /\ wire' = [wire EXCEPT ![c] = <<>>]
  /\ UNCHANGED <<userVars, pageVars, sent, tankVars>>

\* The page is loaded again, as only that opens a new WebSocket.
Reload(c) ==
  /\ socket[c] = "closed"
  /\ socket' = [socket EXCEPT ![c] = "connecting"]
  /\ keys' = [keys EXCEPT ![c] = {}]
  /\ lastState' = [lastState EXCEPT ![c] = {}]
  /\ missed' = [missed EXCEPT ![c] = @ \/ keys[c] # {}]
  /\ UNCHANGED <<userVars, wire, sent, tankVars>>

\* Fault: messages overtake each other.
DeliverNewest(c) ==
  /\ wire[c] # <<>>
  /\ wire' = [wire EXCEPT ![c] = SubSeq(@, 1, Len(@) - 1)]
  /\ tank' = wire[c][Len(wire[c])] /\ driver' = {c}
  /\ writeFailed' = FALSE
  /\ UNCHANGED <<userVars, pageVars, socket, sent, missed>>

\* onBinaryMessage(), handlePacket(MovePacket*), TankSerial::speed().  The
\* handler ignores what speed() returns.
Deliver(c) ==
  /\ wire[c] # <<>>
  /\ wire' = [wire EXCEPT ![c] = Tail(@)]
  /\ \/ /\ tank' = Head(wire[c]) /\ driver' = {c}
        /\ writeFailed' = FALSE
     \/ /\ writeFailed' = (writeFailed \/ c \in driver)
        /\ UNCHANGED <<tank, driver>>
  /\ UNCHANGED <<userVars, pageVars, socket, sent, missed>>

Next ==
  \E c \in Clients :
    \/ \E button \in Buttons : KeyDown(c, button) \/ KeyUp(c, button)
    \/ PressOrReleaseShift(c)
    \/ Reset(c)
    \/ Connect(c) \/ Disconnect(c) \/ Reload(c)
    \/ Deliver(c)

Spec == Init /\ [][Next]_vars

-----------------------------------------------------------------------------

TypeOK ==
  /\ held \in [Clients -> SUBSET Buttons]
  /\ shift \in [Clients -> BOOLEAN]
  /\ keys \in [Clients -> SUBSET KeyNames]
  /\ lastState \in [Clients -> SUBSET (Small \cup Capital)]
  /\ socket \in [Clients -> {"connecting", "open", "closed"}]
  /\ wire \in [Clients -> Seq(Commands)]
  /\ sent \in [Clients -> Commands]
  /\ missed \in [Clients -> BOOLEAN]
  /\ tank \in Commands
  /\ driver = {} \/ \E c \in Clients : driver = {c}
  /\ writeFailed \in BOOLEAN

(* The last command of a page is the one for the keys it believes to be     *)
(* pressed, whether or not f was counted in, unless the 5 s reset, a        *)
(* reload or the connection made it miss one (index.html 40-63, 114-125).   *)
CommandMatchesKeys ==
  \A c \in Clients :
    ~missed[c] => \E F \in SUBSET {"f"} : sent[c] = Command(State(keys[c]) \cup F)

(* Whatever other pages do, lose or miss: once all that the page has sent   *)
(* whose command was written last has arrived, the tank does what the keys  *)
(* say that this page believes to be pressed, nothing if there are none.    *)
(* The ways out are those of missed and a failed write of a newer command   *)
(* of that page, which handlePacket() ignores (mono_raspi.cpp 128-130).     *)
TankObeysDriver ==
  /\ driver = {} => tank = Halt
  /\ \A c \in driver :
       wire[c] = <<>> /\ ~missed[c] /\ ~writeFailed =>
         \E F \in SUBSET {"f"} : tank = Command(State(keys[c]) \cup F)

(* The speeds of a command are the ones sendUpdate() computed, although it  *)
(* stores them in a Uint8Array, except for a fast turn backwards at double  *)
(* speed, -240, which arrives as 16 (index.html 45-51, 65-111).             *)
OnlyFastReverseTurnsWrap ==
  [][\A c \in Clients :
       Len(wire'[c]) > Len(wire[c]) =>
         LET K == keys'[c]
         IN  \/ sent'[c] = <<Left(K), Right(K)>>
             \/ /\ {"f", "S"} \subseteq K
                /\ "W" \notin K
                /\ K \cap {"A", "D"} # {}]_vars
==============================================================================

----------------------------- MODULE DrivingProofs -----------------------------
(***************************************************************************)
(* Driving the tank, for any number of pages, any of the buttons and any   *)
(* number of commands on their way, and the commands on their last way,    *)
(* through the serial port, for any number of clients and any packets.     *)
(***************************************************************************)
EXTENDS DriveControl, TankSerial, SequenceTheorems, TLAPS

-----------------------------------------------------------------------------
(* The speeds *)

(* A stored speed fits into a byte, and one that did is not changed.        *)
LEMMA ToInt8Fits ==
  \A n \in Int : /\ ToInt8(n) \in -128 .. 127
                 /\ n \in -128 .. 127 => ToInt8(n) = n
  BY SMT DEF ToInt8

(* The speeds computed by sendUpdate() are integers.                        *)
LEMMA SpeedsAreIntegers ==
  ASSUME NEW K \in SUBSET KeyNames
  PROVE  Left(K) \in Int /\ Right(K) \in Int
<1>1. Forward(K) \in Int
  BY DEF Forward, Amount
<1>2. Turn(K, "a", "A") \in Int /\ Turn(K, "d", "D") \in Int
  BY DEF Turn, Amount
<1>3. Factor(K) \in Int
  BY DEF Factor
<1> QED
  BY <1>1, <1>2, <1>3 DEF Left, Right

(* A command is a pair of bytes.                                            *)
LEMMA CommandType ==
  ASSUME NEW K \in SUBSET KeyNames
  PROVE  Command(K) \in Commands
  BY ToInt8Fits, SpeedsAreIntegers DEF Command, Commands

(* With nothing but f pressed the tank is told to stand still.              *)
LEMMA NoKeysHalt ==
  ASSUME NEW F \in SUBSET {"f"}
  PROVE  Command(F) = Halt
<1>1. Forward(F) = 0 /\ Turn(F, "a", "A") = 0 /\ Turn(F, "d", "D") = 0
  BY DEF Forward, Turn, Amount, Capital
<1>2. Left(F) = 0 /\ Right(F) = 0
  BY <1>1 DEF Left, Right, Factor
<1> QED
  BY <1>2, ToInt8Fits DEF Command, Halt

(* Only a fast turn backwards at double speed leaves the range of a byte.   *)
LEMMA OnlyFastReverseLeavesTheByte ==
  ASSUME NEW K \in SUBSET KeyNames,
         ~ /\ {"f", "S"} \subseteq K
           /\ "W" \notin K
           /\ K \cap {"A", "D"} # {}
  PROVE  Command(K) = <<Left(K), Right(K)>>
<1> DEFINE small == K \cap Capital = {}
           F == Forward(K)
           D == Turn(K, "d", "D")
           A == Turn(K, "a", "A")
<1>1. small => F \in {-30, 0, 30} /\ D \in {0, 30} /\ A \in {0, 30}
  BY DEF Forward, Turn, Amount, Capital
<1>2. ~small => F \in {-60, 0, 60} /\ D \in {0, 60} /\ A \in {0, 60}
  BY DEF Forward, Turn, Amount, Capital
<1>3. /\ ~small /\ F = -60 => "S" \in K /\ "W" \notin K
      /\ ~small /\ D = 60 => "D" \in K
      /\ ~small /\ A = 60 => "A" \in K
  BY DEF Forward, Turn, Amount, Capital
<1>4. Factor(K) = 1 \/ (Factor(K) = 2 /\ "f" \in K)
  BY DEF Factor
<1>5. Left(K) = Factor(K) * (F - D) /\ Right(K) = Factor(K) * (F - A)
  BY DEF Left, Right
<1>6. ASSUME NEW n \in {D, A}, NEW x, x = Factor(K) * (F - n)
      PROVE  x \in -128 .. 127
  <2>1. CASE Factor(K) = 1
    BY <2>1, <1>1, <1>2, <1>6
  <2>2. CASE Factor(K) = 2 /\ "f" \in K
    <3>1. ~small /\ F = -60 => n = 0
      BY <2>2, <1>1, <1>2, <1>3, <1>6
    <3> QED
      BY <2>2, <3>1, <1>1, <1>2, <1>6
  <2> QED
    BY <2>1, <2>2, <1>4
<1>7. Left(K) \in -128 .. 127 /\ Right(K) \in -128 .. 127
  BY <1>5, <1>6
<1> QED
  BY <1>7, ToInt8Fits DEF Command

-----------------------------------------------------------------------------
(* What a page does with its keys *)

(* sendUpdate() either changes nothing that matters, or sends the command   *)
(* for the keys, or misses it.                                              *)
LEMMA SendUpdateOutcomes ==
  ASSUME NEW c \in Clients, NEW K, SendUpdate(c, K)
  PROVE  \/ /\ State(K) = lastState[c]
            /\ UNCHANGED <<lastState, wire, sent, missed>>
         \/ /\ lastState' = [lastState EXCEPT ![c] = State(K)]
            /\ wire' = [wire EXCEPT ![c] = Append(@, Command(K))]
            /\ sent' = [sent EXCEPT ![c] = Command(K)]
            /\ missed' = [missed EXCEPT ![c] = FALSE]
         \/ /\ lastState' = [lastState EXCEPT ![c] = State(K)]
            /\ missed' = [missed EXCEPT ![c] = TRUE]
            /\ UNCHANGED <<wire, sent>>
  BY DEF SendUpdate, SendData

(* The key handlers change the keys of their page, followed by sendUpdate(),*)
(* or nothing but what the user holds.                                      *)
KeyEvent(c) ==
  /\ held' \in [Clients -> SUBSET Buttons]
  /\ \/ \E K \in SUBSET KeyNames : SetKeys(c, K)
     \/ UNCHANGED <<shift, pageVars, linkVars, tankVars>>

LEMMA KeyHandlers ==
  ASSUME TypeOK, NEW c \in Clients, NEW button \in Buttons,
         KeyDown(c, button) \/ KeyUp(c, button)
  PROVE  KeyEvent(c)
<1> DEFINE key == KeyOf(button, shift[c])
<1>1. held' \in [Clients -> SUBSET Buttons]
  <2>1. held \in [Clients -> SUBSET Buttons]
    BY DEF TypeOK
  <2>2. \/ held' = [held EXCEPT ![c] = @ \cup {button}]
        \/ held' = [held EXCEPT ![c] = @ \ {button}]
    BY DEF KeyDown, KeyUp
  <2> QED
    BY <2>1, <2>2
<1>2. keys[c] \in SUBSET KeyNames
  BY DEF TypeOK
<1>3. CASE key \in KeyNames
  <2>1. keys[c] \cup {key} \in SUBSET KeyNames /\ keys[c] \ {key} \in SUBSET KeyNames
    BY <1>2, <1>3
  <2>2. SetKeys(c, keys[c] \cup {key}) \/ SetKeys(c, keys[c] \ {key})
    BY <1>3 DEF KeyDown, KeyUp
  <2> QED
    BY <1>1, <2>1, <2>2 DEF KeyEvent
<1>4. CASE key \notin KeyNames
  BY <1>1, <1>4 DEF KeyDown, KeyUp, KeyEvent
<1> QED
  BY <1>3, <1>4

(* The steps of the system, with the key handlers as one case.              *)
LEMMA Steps ==
  ASSUME TypeOK, Next
  PROVE  \E c \in Clients :
           \/ KeyEvent(c) \/ PressOrReleaseShift(c)
           \/ Reset(c) \/ Connect(c) \/ Disconnect(c) \/ Reload(c)
           \/ Deliver(c)
  BY KeyHandlers DEF Next

-----------------------------------------------------------------------------
(* Types *)

LEMMA KeyEventTypes ==
  ASSUME TypeOK, NEW c \in Clients, KeyEvent(c)
  PROVE  TypeOK'
<1>1. CASE UNCHANGED <<shift, pageVars, linkVars, tankVars>>
  BY <1>1 DEF KeyEvent, TypeOK, pageVars, linkVars, tankVars
<1>2. CASE \E K \in SUBSET KeyNames : SetKeys(c, K)
  <2>1. PICK K \in SUBSET KeyNames : SetKeys(c, K)
    BY <1>2
  <2>2. keys' \in [Clients -> SUBSET KeyNames]
    BY <2>1 DEF SetKeys, TypeOK
  <2>3. Command(K) \in Commands /\ State(K) \in SUBSET (Small \cup Capital)
    BY CommandType DEF State, KeyNames
  <2>4. SendUpdate(c, K) /\ UNCHANGED <<shift, socket, tank, driver, writeFailed>>
    BY <2>1 DEF SetKeys, tankVars
  <2>5. /\ lastState' \in [Clients -> SUBSET (Small \cup Capital)]
        /\ wire' \in [Clients -> Seq(Commands)]
        /\ sent' \in [Clients -> Commands]
        /\ missed' \in [Clients -> BOOLEAN]
    <3>1. /\ lastState \in [Clients -> SUBSET (Small \cup Capital)]
          /\ wire \in [Clients -> Seq(Commands)]
          /\ sent \in [Clients -> Commands]
          /\ missed \in [Clients -> BOOLEAN]
      BY DEF TypeOK
    <3>2. Append(wire[c], Command(K)) \in Seq(Commands)
      BY <2>3, <3>1
    <3>3. \/ UNCHANGED <<lastState, wire, sent, missed>>
          \/ /\ lastState' = [lastState EXCEPT ![c] = State(K)]
             /\ wire' \in {wire, [wire EXCEPT ![c] = Append(@, Command(K))]}
             /\ sent' \in {sent, [sent EXCEPT ![c] = Command(K)]}
             /\ missed' \in {[missed EXCEPT ![c] = TRUE], [missed EXCEPT ![c] = FALSE]}
      BY <2>4, SendUpdateOutcomes
    <3> QED
      BY <2>3, <3>1, <3>2, <3>3
  <2>6. /\ shift' \in [Clients -> BOOLEAN]
        /\ socket' \in [Clients -> {"connecting", "open", "closed"}]
        /\ tank' \in Commands /\ writeFailed' \in BOOLEAN
        /\ driver' = {} \/ \E p \in Clients : driver' = {p}
    BY <2>4 DEF TypeOK
  <2>7. held' \in [Clients -> SUBSET Buttons]
    BY DEF KeyEvent
  <2> QED
    BY <2>2, <2>5, <2>6, <2>7 DEF TypeOK
<1> QED
  BY <1>1, <1>2 DEF KeyEvent

LEMMA TypeStep ==
  TypeOK /\ [Next]_vars => TypeOK'
<1> SUFFICES ASSUME TypeOK, [Next]_vars PROVE TypeOK'
  OBVIOUS
<1> USE DEF userVars, pageVars, linkVars, tankVars
<1>1. CASE UNCHANGED vars
  BY <1>1 DEF TypeOK, vars
<1>2. ASSUME NEW c \in Clients, KeyEvent(c) PROVE TypeOK'
  BY <1>2, KeyEventTypes
<1>3. ASSUME NEW c \in Clients, PressOrReleaseShift(c) PROVE TypeOK'
  BY <1>3 DEF TypeOK, PressOrReleaseShift
<1>4. ASSUME NEW c \in Clients, Reset(c) \/ Reload(c) PROVE TypeOK'
  BY <1>4 DEF TypeOK, Reset, Reload
<1>5. ASSUME NEW c \in Clients, Connect(c) PROVE TypeOK'
  BY <1>5 DEF TypeOK, Connect
<1>6. ASSUME NEW c \in Clients, Disconnect(c) PROVE TypeOK'
  BY <1>6 DEF TypeOK, Disconnect
<1>7. ASSUME NEW c \in Clients, Deliver(c) PROVE TypeOK'
  <2>1. Head(wire[c]) \in Commands /\ Tail(wire[c]) \in Seq(Commands)
    BY <1>7 DEF TypeOK, Deliver
  <2>2. wire' \in [Clients -> Seq(Commands)]
    BY <1>7, <2>1 DEF TypeOK, Deliver
  <2>3. /\ tank' \in Commands /\ writeFailed' \in BOOLEAN
        /\ driver' = {} \/ \E p \in Clients : driver' = {p}
    BY <1>7, <2>1 DEF TypeOK, Deliver
  <2> QED
    BY <1>7, <2>2, <2>3 DEF TypeOK, Deliver
<1> QED
  BY <1>1, <1>2, <1>3, <1>4, <1>5, <1>6, <1>7, Steps

LEMMA TypeInit == Init => TypeOK
<1>1. Halt \in Commands
  BY DEF Halt, Commands
<1>2. [c \in Clients |-> <<>>] \in [Clients -> Seq(Commands)]
  OBVIOUS
<1>3. /\ [c \in Clients |-> {}] \in [Clients -> SUBSET Buttons]
      /\ [c \in Clients |-> {}] \in [Clients -> SUBSET KeyNames]
      /\ [c \in Clients |-> {}] \in [Clients -> SUBSET (Small \cup Capital)]
  OBVIOUS
<1>4. /\ [c \in Clients |-> FALSE] \in [Clients -> BOOLEAN]
      /\ [c \in Clients |-> Halt] \in [Clients -> Commands]
      /\ [c \in Clients |-> "connecting"] \in [Clients -> {"connecting", "open", "closed"}]
  BY <1>1
<1> QED
  BY <1>1, <1>2, <1>3, <1>4 DEF Init, TypeOK

(* Every speed on its way, and the tank's, is a signed byte, and each page's*)
(* keys are ones it knows.                                                  *)
THEOREM DriveTypeCorrect == Spec => []TypeOK
  BY TypeInit, TypeStep, PTL DEF Spec

-----------------------------------------------------------------------------
(* Keys, commands and the tank *)

(* The page compares like with like: lastState is what its keys amount to.  *)
LastStateCurrent == \A c \in Clients : lastState[c] = State(keys[c])

(* A page's newest command on its way is the last one it sent.              *)
NewestIsSent ==
  \A c \in Clients : wire[c] # <<>> => wire[c][Len(wire[c])] = sent[c]

(* What was written last is the last command of its page, unless a newer one *)
(* of that page is on its way, was missed or was not written.               *)
DriverInv ==
  /\ driver = {} => tank = Halt
  /\ \A c \in driver :
       wire[c] = <<>> /\ ~missed[c] /\ ~writeFailed => tank = sent[c]

ControlInv == LastStateCurrent /\ CommandMatchesKeys /\ NewestIsSent /\ DriverInv

DriveInv == TypeOK /\ ControlInv

\* Is this the command for these keys, f counted in or not?
IsFor(command, K) == \E F \in SUBSET {"f"} : command = Command(State(K) \cup F)

LEMMA CommandIsForItsKeys ==
  ASSUME NEW K
  PROVE  IsFor(Command(K), K)
<1> DEFINE F == K \cap {"f"}
<1>1. State(K) \cup F = K /\ F \in SUBSET {"f"}
  BY DEF State
<1> QED
  BY <1>1 DEF IsFor

(* sendUpdate() sends nothing only if the command is for these keys as much *)
(* as for the old ones.                                                     *)
LEMMA KeysAndCommands ==
  ASSUME DriveInv, NEW c \in Clients, NEW K \in SUBSET KeyNames, SetKeys(c, K)
  PROVE  LastStateCurrent' /\ CommandMatchesKeys'
<1>1. /\ keys' = [keys EXCEPT ![c] = K]
      /\ SendUpdate(c, K)
  BY DEF SetKeys
<1>2. /\ keys \in [Clients -> SUBSET KeyNames]
      /\ DOMAIN lastState = Clients /\ DOMAIN sent = Clients /\ DOMAIN missed = Clients
      /\ \A p \in Clients : lastState[p] = State(keys[p])
      /\ \A p \in Clients : ~missed[p] => IsFor(sent[p], keys[p])
  BY DEF DriveInv, ControlInv, TypeOK, LastStateCurrent, CommandMatchesKeys, IsFor
<1>3. /\ keys'[c] = K
      /\ \A p \in Clients \ {c} : keys'[p] = keys[p]
  BY <1>1, <1>2
<1> SUFFICES ASSUME NEW p \in Clients
             PROVE  /\ lastState'[p] = State(keys'[p])
                    /\ ~missed'[p] => IsFor(sent'[p], keys'[p])
  BY DEF LastStateCurrent, CommandMatchesKeys, IsFor
<1>4. CASE State(K) = lastState[c] /\ UNCHANGED <<lastState, wire, sent, missed>>
  <2>1. State(keys'[p]) = State(keys[p])
    BY <1>2, <1>3, <1>4
  <2>2. IsFor(sent[p], keys[p]) => IsFor(sent[p], keys'[p])
    BY <2>1 DEF IsFor
  <2> QED
    BY <1>2, <1>4, <2>1, <2>2
<1>5. CASE /\ lastState' = [lastState EXCEPT ![c] = State(K)]
           /\ sent' = [sent EXCEPT ![c] = Command(K)]
           /\ missed' = [missed EXCEPT ![c] = FALSE]
  BY <1>2, <1>3, <1>5, CommandIsForItsKeys
<1>6. CASE /\ lastState' = [lastState EXCEPT ![c] = State(K)]
           /\ sent' = sent
           /\ missed' = [missed EXCEPT ![c] = TRUE]
  BY <1>2, <1>3, <1>6
<1> QED
  BY <1>1, <1>4, <1>5, <1>6, SendUpdateOutcomes

(* What sendUpdate() adds to a WebSocket is its newest command, and keeps   *)
(* the tank accounted for.                                                  *)
LEMMA CommandsAndTank ==
  ASSUME DriveInv, NEW c \in Clients, NEW K \in SUBSET KeyNames, SetKeys(c, K)
  PROVE  NewestIsSent' /\ DriverInv'
<1>1. SendUpdate(c, K) /\ UNCHANGED <<tank, driver, writeFailed>>
  BY DEF SetKeys, tankVars
<1>2. /\ wire \in [Clients -> Seq(Commands)]
      /\ DOMAIN sent = Clients /\ DOMAIN missed = Clients
      /\ NewestIsSent /\ DriverInv
      /\ driver \subseteq Clients
      /\ Command(K) \in Commands
  BY CommandType DEF DriveInv, ControlInv, TypeOK
<1>3. CASE UNCHANGED <<wire, sent, missed>>
  BY <1>1, <1>2, <1>3 DEF NewestIsSent, DriverInv
<1>4. CASE /\ wire' = [wire EXCEPT ![c] = Append(@, Command(K))]
           /\ sent' = [sent EXCEPT ![c] = Command(K)]
           /\ missed' = [missed EXCEPT ![c] = FALSE]
  <2>1. /\ wire'[c] = Append(wire[c], Command(K))
        /\ wire'[c] # <<>>
        /\ wire'[c][Len(wire'[c])] = Command(K)
    BY <1>2, <1>4
  <2>2. \A p \in Clients \ {c} :
          wire'[p] = wire[p] /\ sent'[p] = sent[p] /\ missed'[p] = missed[p]
    BY <1>2, <1>4
  <2>3. NewestIsSent'
    BY <1>2, <1>4, <2>1, <2>2 DEF NewestIsSent
  <2>4. DriverInv'
    BY <1>1, <1>2, <2>1, <2>2 DEF DriverInv
  <2> QED
    BY <2>3, <2>4
<1>5. CASE UNCHANGED <<wire, sent>> /\ missed' = [missed EXCEPT ![c] = TRUE]
  <2>1. \A p \in Clients : missed[p] => missed'[p]
    BY <1>2, <1>5
  <2> QED
    BY <1>1, <1>2, <1>5, <2>1 DEF NewestIsSent, DriverInv
<1> QED
  BY <1>1, <1>3, <1>4, <1>5, SendUpdateOutcomes

(* Taking the oldest of several commands leaves the newest one in place.    *)
LEMMA DeliveryKeepsNewest ==
  ASSUME NEW s \in Seq(Commands), s # <<>>
  PROVE  /\ Tail(s) # <<>> => Tail(s)[Len(Tail(s))] = s[Len(s)]
         /\ Tail(s) = <<>> => Head(s) = s[Len(s)]
<1>1. Len(s) \in Nat \ {0} /\ Len(Tail(s)) = Len(s) - 1 /\ Head(s) = s[1]
  BY HeadTailProperties, EmptySeq
<1>2. \A i \in 1 .. Len(Tail(s)) : Tail(s)[i] = s[i + 1]
  BY HeadTailProperties
<1>3. Tail(s) \in Seq(Commands) /\ (Tail(s) = <<>> <=> Len(Tail(s)) = 0)
  BY HeadTailProperties, EmptySeq
<1> QED
  BY <1>1, <1>2, <1>3

(* The control invariant survives every step.                               *)
LEMMA ControlStep ==
  DriveInv /\ [Next]_vars => ControlInv'
<1> SUFFICES ASSUME DriveInv, [Next]_vars PROVE ControlInv'
  OBVIOUS
<1> USE DEF userVars, pageVars, linkVars, tankVars
<1>t. /\ TypeOK /\ driver \subseteq Clients
      /\ wire \in [Clients -> Seq(Commands)]
      /\ DOMAIN keys = Clients /\ DOMAIN lastState = Clients
      /\ DOMAIN sent = Clients /\ DOMAIN missed = Clients
  BY DEF DriveInv, TypeOK
<1>0. ASSUME UNCHANGED <<keys, lastState, wire, sent, missed, tank, driver, writeFailed>>
      PROVE  ControlInv'
  BY <1>0 DEF DriveInv, ControlInv, LastStateCurrent, CommandMatchesKeys, NewestIsSent, DriverInv
<1>1. CASE UNCHANGED vars
  BY <1>0, <1>1 DEF vars
<1>2. ASSUME NEW c \in Clients, KeyEvent(c) PROVE ControlInv'
  <2>1. CASE \E K \in SUBSET KeyNames : SetKeys(c, K)
    BY <2>1, KeysAndCommands, CommandsAndTank DEF ControlInv
  <2> QED
    BY <1>0, <1>2, <2>1 DEF KeyEvent
<1>3. ASSUME NEW c \in Clients, PressOrReleaseShift(c) \/ Connect(c) PROVE ControlInv'
  BY <1>0, <1>3 DEF PressOrReleaseShift, Connect
<1>4. ASSUME NEW c \in Clients, Reset(c) \/ Reload(c) PROVE ControlInv'
  <2>1. /\ keys' = [keys EXCEPT ![c] = {}]
        /\ lastState' = [lastState EXCEPT ![c] = {}]
        /\ missed' = [missed EXCEPT ![c] = @ \/ keys[c] # {}]
        /\ UNCHANGED <<wire, sent, tank, driver, writeFailed>>
    BY <1>4 DEF Reset, Reload
  <2>2. LastStateCurrent'
    BY <2>1, <1>t DEF DriveInv, ControlInv, LastStateCurrent, State
  <2>3. \A p \in Clients : ~missed'[p] => ~missed[p] /\ keys'[p] = keys[p]
    BY <2>1, <1>t
  <2>4. CommandMatchesKeys'
    BY <2>1, <2>3 DEF DriveInv, ControlInv, CommandMatchesKeys
  <2>5. NewestIsSent' /\ DriverInv'
    BY <2>1, <2>3, <1>t DEF DriveInv, ControlInv, NewestIsSent, DriverInv
  <2> QED
    BY <2>2, <2>4, <2>5 DEF ControlInv
<1>5. ASSUME NEW c \in Clients, Disconnect(c) PROVE ControlInv'
  <2>1. /\ wire' = [wire EXCEPT ![c] = <<>>]
        /\ missed' = [missed EXCEPT ![c] = @ \/ wire[c] # <<>>]
        /\ UNCHANGED <<keys, lastState, sent, tank, driver, writeFailed>>
    BY <1>5 DEF Disconnect
  <2>2. \A p \in Clients : missed[p] => missed'[p]
    BY <2>1, <1>t
  <2>3. \A p \in Clients : wire'[p] # <<>> => wire'[p] = wire[p]
    BY <2>1, <1>t
  <2>4. \A p \in Clients : wire[p] = <<>> \/ wire'[p] # <<>> \/ missed'[p]
    BY <2>1, <1>t
  <2>5. LastStateCurrent' /\ CommandMatchesKeys'
    BY <2>1, <2>2 DEF DriveInv, ControlInv, LastStateCurrent, CommandMatchesKeys
  <2>6. NewestIsSent'
    BY <2>1, <2>2, <2>3 DEF DriveInv, ControlInv, NewestIsSent
  <2>7. DriverInv'
    BY <2>1, <2>2, <2>4, <1>t DEF DriveInv, ControlInv, DriverInv
  <2> QED
    BY <2>5, <2>6, <2>7 DEF ControlInv
<1>6. ASSUME NEW c \in Clients, Deliver(c) PROVE ControlInv'
  <2>1. /\ wire[c] # <<>>
        /\ wire' = [wire EXCEPT ![c] = Tail(@)]
        /\ \/ tank' = Head(wire[c]) /\ driver' = {c} /\ ~writeFailed'
           \/ UNCHANGED <<tank, driver>> /\ writeFailed' = (writeFailed \/ c \in driver)
        /\ UNCHANGED <<keys, lastState, sent, missed>>
    BY <1>6 DEF Deliver
  <2>2. /\ wire'[c] = Tail(wire[c])
        /\ \A p \in Clients \ {c} : wire'[p] = wire[p]
    BY <2>1, <1>t
  <2>3. wire[c] \in Seq(Commands)
    BY <1>t
  <2>4. /\ wire'[c] # <<>> => wire'[c][Len(wire'[c])] = wire[c][Len(wire[c])]
        /\ wire'[c] = <<>> => Head(wire[c]) = wire[c][Len(wire[c])]
    BY <2>1, <2>2, <2>3, DeliveryKeepsNewest
  <2>5. LastStateCurrent' /\ CommandMatchesKeys'
    BY <2>1 DEF DriveInv, ControlInv, LastStateCurrent, CommandMatchesKeys
  <2>6. NewestIsSent'
    BY <2>1, <2>2, <2>4 DEF DriveInv, ControlInv, NewestIsSent
  <2>7. DriverInv'
    <3>1. CASE tank' = Head(wire[c]) /\ driver' = {c}
      BY <2>1, <2>4, <3>1 DEF DriveInv, ControlInv, NewestIsSent, DriverInv
    <3>2. CASE UNCHANGED <<tank, driver>> /\ writeFailed' = (writeFailed \/ c \in driver)
      BY <2>1, <2>2, <3>2, <1>t DEF DriveInv, ControlInv, DriverInv
    <3> QED
      BY <2>1, <3>1, <3>2
  <2> QED
    BY <2>5, <2>6, <2>7 DEF ControlInv
<1> QED
  BY <1>1, <1>2, <1>3, <1>4, <1>5, <1>6, <1>t, Steps

LEMMA ControlInit == Init => ControlInv
<1> SUFFICES ASSUME Init PROVE ControlInv
  OBVIOUS
<1>1. LastStateCurrent
  BY DEF Init, LastStateCurrent, State
<1>2. CommandMatchesKeys
  <2> SUFFICES ASSUME NEW c \in Clients
               PROVE  sent[c] = Command(State(keys[c]) \cup {})
    BY DEF CommandMatchesKeys
  <2>1. keys[c] = {} /\ sent[c] = Halt
    BY DEF Init
  <2>2. State({}) \cup {} = {}
    BY DEF State
  <2> QED
    BY <2>1, <2>2, NoKeysHalt
<1>3. NewestIsSent /\ DriverInv
  BY DEF Init, NewestIsSent, DriverInv
<1> QED
  BY <1>1, <1>2, <1>3 DEF ControlInv

THEOREM DriveInvariant == Spec => []DriveInv
<1>1. Init => DriveInv
  BY TypeInit, ControlInit DEF DriveInv
<1>2. DriveInv /\ [Next]_vars => DriveInv'
  BY TypeStep, ControlStep DEF DriveInv
<1> QED
  BY <1>1, <1>2, PTL DEF Spec

(* A page's last command is the one for the keys it believes to be pressed, *)
(* unless it missed one.                                                    *)
THEOREM CommandsMatchKeys == Spec => []CommandMatchesKeys
<1>1. DriveInv => CommandMatchesKeys
  BY DEF DriveInv, ControlInv
<1> QED
  BY <1>1, DriveInvariant, PTL

(* However many pages there are, however long their WebSockets and whatever *)
(* the others do: the tank does what the keys say of the page whose command *)
(* was written last, once all that this page has sent has arrived, unless   *)
(* it missed a command or one of its newer ones was not written.            *)
THEOREM TankObeysLastDriver == Spec => []TankObeysDriver
<1>1. DriveInv => TankObeysDriver
  <2> SUFFICES ASSUME DriveInv, NEW c \in driver,
                      wire[c] = <<>>, ~missed[c], ~writeFailed
               PROVE  \E F \in SUBSET {"f"} : tank = Command(State(keys[c]) \cup F)
    BY DEF TankObeysDriver, DriveInv, ControlInv, DriverInv
  <2>1. c \in Clients /\ tank = sent[c]
    BY DEF DriveInv, TypeOK, ControlInv, DriverInv
  <2> QED
    BY <2>1 DEF DriveInv, ControlInv, CommandMatchesKeys
<1> QED
  BY <1>1, DriveInvariant, PTL

(* Whatever is pressed in whatever order, the only speeds that do not       *)
(* survive the byte they are sent in are those of a fast turn backwards at  *)
(* double speed.                                                            *)
THEOREM SpeedsSurviveTheByte == Spec => OnlyFastReverseTurnsWrap
<1>1. ASSUME TypeOK, TypeOK', [Next]_vars, NEW c \in Clients,
             Len(wire'[c]) > Len(wire[c])
      PROVE  \/ sent'[c] = <<Left(keys'[c]), Right(keys'[c])>>
             \/ /\ {"f", "S"} \subseteq keys'[c]
                /\ "W" \notin keys'[c]
                /\ keys'[c] \cap {"A", "D"} # {}
  <2>1. CASE \E p \in Clients : KeyEvent(p)
    <3>1. PICK p \in Clients : KeyEvent(p)
      BY <2>1
    <3>2. PICK K \in SUBSET KeyNames : SetKeys(p, K)
      BY <3>1, <1>1 DEF KeyEvent, linkVars
    <3>3. p = c /\ sent'[c] = Command(K)
      <4>1. SendUpdate(p, K) /\ wire'[c] # wire[c]
        BY <3>2, <1>1 DEF SetKeys
      <4>2. /\ wire' = [wire EXCEPT ![p] = Append(@, Command(K))]
            /\ sent' = [sent EXCEPT ![p] = Command(K)]
        BY <4>1, SendUpdateOutcomes
      <4>3. /\ wire = [q \in Clients |-> wire[q]]
            /\ sent = [q \in Clients |-> sent[q]]
        BY <1>1 DEF TypeOK
      <4>4. p # c => wire'[c] = wire[c]
        BY <4>2, <4>3
      <4>5. p = c
        BY <4>1, <4>4
      <4> QED
        BY <4>2, <4>3, <4>5
    <3>4. keys'[c] = K
      BY <3>2, <3>3, <1>1 DEF SetKeys, TypeOK
    <3> QED
      BY <3>3, <3>4, OnlyFastReverseLeavesTheByte
  <2>2. CASE UNCHANGED wire
    BY <2>2, <1>1
  <2>3. ASSUME NEW p \in Clients, Disconnect(p) PROVE FALSE
    <3>1. Len(wire[c]) \in Nat /\ wire'[c] \in {wire[c], <<>>}
      BY <1>1, <2>3 DEF Disconnect, TypeOK
    <3> QED
      BY <1>1, <3>1, EmptySeq
  <2>4. ASSUME NEW p \in Clients, Deliver(p) PROVE FALSE
    <3>1. wire[p] # <<>> /\ wire'[c] = IF p = c THEN Tail(wire[c]) ELSE wire[c]
      BY <1>1, <2>4 DEF Deliver, TypeOK
    <3>2. wire[c] \in Seq(Commands) /\ wire[p] \in Seq(Commands)
      BY <1>1 DEF TypeOK
    <3>3. Len(wire[c]) \in Nat /\ (p = c => Len(Tail(wire[c])) = Len(wire[c]) - 1)
      BY <3>1, <3>2, HeadTailProperties, LenProperties
    <3> QED
      BY <1>1, <3>1, <3>3
  <2> QED
    BY <1>1, <2>1, <2>2, <2>3, <2>4, Steps
       DEF vars, linkVars, PressOrReleaseShift, Reset, Connect, Reload
<1>2. TypeOK /\ TypeOK' /\ [Next]_vars =>
        [\A c \in Clients :
           Len(wire'[c]) > Len(wire[c]) =>
             LET K == keys'[c]
             IN  \/ sent'[c] = <<Left(K), Right(K)>>
                 \/ /\ {"f", "S"} \subseteq K
                    /\ "W" \notin K
                    /\ K \cap {"A", "D"} # {}]_vars
  BY <1>1
<1> QED
  BY <1>2, DriveTypeCorrect, PTL DEF Spec, OnlyFastReverseTurnsWrap

-----------------------------------------------------------------------------
(* The serial port *)

\* Zeros fill the bytes past the arguments, which are what they were before.
LEMMA ArgIsByte ==
  ASSUME NEW args \in Arguments, NEW i \in 1 .. 5
  PROVE  Arg(args, i) \in 0 .. 255
<1>1. args \in Seq(0 .. 255)
  BY DEF Arguments
<1>2. CASE i <= Len(args)
  <2>1. i \in 1 .. Len(args)
    <3>1. \A m \in Nat : i <= m => i \in 1 .. m
      OBVIOUS
    <3>2. Len(args) \in Nat
      BY <1>1
    <3> QED
      BY <1>2, <3>1, <3>2
  <2>2. args[i] \in 0 .. 255
    BY <1>1, <2>1, ElementOfSeq
  <2> QED
    BY <1>2, <2>2 DEF Arg
<1>3. CASE ~(i <= Len(args))
  BY <1>3 DEF Arg
<1> QED
  BY <1>2, <1>3

\* What the checksum is for: it and the bytes add up to a multiple of 256.
LEMMA ChecksumCancels ==
  ASSUME NEW a \in Nat, NEW b \in Nat, NEW c \in Nat, NEW d \in Nat, NEW e \in Nat, NEW g \in Nat
  PROVE  (a + b + c + d + e + g + ((-(a + b + c + d + e + g)) % 256)) % 256 = 0
<1>1. ASSUME NEW sum \in Nat
      PROVE  (sum + ((-sum) % 256)) % 256 = 0
  OBVIOUS
<1>2. a + b + c + d + e + g \in Nat
  OBVIOUS
<1> QED
  BY <1>1, <1>2

(* The tank accepts every frame and takes from it the opcode and the        *)
(* arguments that sendCommandRaw() put into it (tankserial.cpp 121-139).    *)
THEOREM FrameIsUnderstood ==
  ASSUME NEW opc \in Opcodes, NEW args \in Arguments
  PROVE  /\ Accepted(Frame(opc, args))
         /\ OpcodeOf(Frame(opc, args)) = opc
         /\ ArgsOf(Frame(opc, args)) = args
<1> DEFINE n == Len(args)
           f == Frame(opc, args)
<1>1. args \in Seq(0 .. 255) /\ n \in 0 .. 5 /\ opc \in 1 .. 3
  <2>1. args \in Seq(0 .. 255) /\ Len(args) <= 5
    BY DEF Arguments
  <2>2. \A m \in Nat : m <= 5 => m \in 0 .. 5
    OBVIOUS
  <2>3. Len(args) \in Nat
    BY <2>1
  <2>4. n \in 0 .. 5
    BY <2>1, <2>2, <2>3
  <2> QED
    BY <2>1, <2>4 DEF Opcodes, TANKOPC_STOP, TANKOPC_MOVE, TANKOPC_LED_SET
<1>2. /\ Arg(args, 1) \in Nat /\ Arg(args, 2) \in Nat /\ Arg(args, 3) \in Nat
      /\ Arg(args, 4) \in Nat /\ Arg(args, 5) \in Nat
  <2>1. \A i \in 1 .. 5 : Arg(args, i) \in Nat
    BY ArgIsByte
  <2> QED
    BY <2>1
<1>3. /\ f[1] = CAN /\ f[2] = DC1 /\ f[3] = opc + 16 * n /\ f[10] = ETB
      /\ f[4] = Arg(args, 1) /\ f[5] = Arg(args, 2) /\ f[6] = Arg(args, 3)
      /\ f[7] = Arg(args, 4) /\ f[8] = Arg(args, 5)
      /\ f[9] = (-(opc + 16 * n + Arg(args, 1) + Arg(args, 2) + Arg(args, 3) + Arg(args, 4)
                    + Arg(args, 5))) % 256
  BY DEF Frame
<1> HIDE DEF n, f
<1>4. opc + 16 * n \in Nat /\ (opc + 16 * n) % 16 = opc /\ (opc + 16 * n) \div 16 = n
  BY <1>1
<1>5. Accepted(f)
  <2>1. (f[3] + f[4] + f[5] + f[6] + f[7] + f[8] + f[9]) % 256 = 0
    BY <1>2, <1>3, <1>4, ChecksumCancels
  <2> QED
    BY <1>3, <2>1 DEF Accepted
<1>6. OpcodeOf(f) = opc
  BY <1>3, <1>4 DEF OpcodeOf
<1>7. ArgsOf(f) = args
  <2>1. ArgsOf(f) = SubSeq(f, 4, 3 + n)
    BY <1>3, <1>4 DEF ArgsOf
  <2>2. \A i \in 1 .. n : f[i + 3] = args[i]
    <3>1. \A i \in 1 .. n : i \in {1, 2, 3, 4, 5} /\ Arg(args, i) = args[i]
      <4>1. \A i \in 1 .. n : i \in {1, 2, 3, 4, 5} /\ i <= n
        BY <1>1
      <4> QED
        BY <4>1 DEF Arg, n
    <3>2. \A i \in {1, 2, 3, 4, 5} : f[i + 3] = Arg(args, i)
      BY <1>3
    <3> QED
      BY <3>1, <3>2
  <2>3. \A i \in 1 .. n : args[i] \in 0 .. 255
    BY <1>1, ElementOfSeq DEF n
  <2>4. \A i \in 4 .. 3 + n : f[i] \in 0 .. 255
    <3>1. \A i \in 4 .. 3 + n : i - 3 \in 1 .. n /\ (i - 3) + 3 = i
      BY <1>1
    <3> QED
      BY <2>2, <2>3, <3>1
  <2> DEFINE t == SubSeq(f, 4, 3 + n)
  <2>5. /\ t \in Seq(0 .. 255)
        /\ Len(t) = IF 4 <= 3 + n THEN (3 + n) - 4 + 1 ELSE 0
        /\ \A i \in 1 .. (3 + n) - 4 + 1 : t[i] = f[4 + i - 1]
    <3>1. 3 + n \in Int /\ 4 \in Int
      BY <1>1
    <3> HIDE DEF t
    <3> QED
      BY <2>4, <3>1, SubSeqProperties DEF t
  <2> HIDE DEF t
  <2>6. Len(t) = n /\ \A i \in 1 .. n : t[i] = f[i + 3]
    <3>1. (3 + n) - 4 + 1 = n /\ (~(4 <= 3 + n) => n = 0) /\ \A i \in 1 .. n : 4 + i - 1 = i + 3
      BY <1>1
    <3> QED
      BY <2>5, <3>1
  <2>7. t = args
    <3>1. Len(t) = Len(args) /\ \A i \in 1 .. Len(t) : t[i] = args[i]
      BY <2>2, <2>6 DEF n
    <3> QED
      BY <1>1, <2>5, <3>1, SeqEqual
  <2> QED
    BY <2>1, <2>7 DEF t
<1> QED
  BY <1>5, <1>6, <1>7 DEF f

-----------------------------------------------------------------------------

\* What is to be sent are commands, and the tank took the last one sent.
CommandInv ==
  /\ todo \in [Handlers -> Seq(Opcodes \X Arguments)]
  /\ CommandsUnderstood

LEMMA CommandStep ==
  ASSUME CommandInv, [SerialNext]_serialVars
  PROVE  CommandInv'
<1>1. CASE UNCHANGED serialVars
  BY <1>1 DEF serialVars, tankState, CommandInv, CommandsUnderstood
<1>2. CASE OpenPort \/ OpenFails \/ GetAttributes \/ SetAttributes
  BY <1>2 DEF OpenPort, OpenFails, GetAttributes, SetAttributes, tankState,
       CommandInv, CommandsUnderstood
<1>3. ASSUME NEW h \in Handlers, Receive(h)
      PROVE  CommandInv'
  <2>1. PICK p \in Packets : todo' = [todo EXCEPT ![h] = p]
    BY <1>3 DEF Receive
  <2>2. p \in Seq(Opcodes \X Arguments)
    BY TankAssumption
  <2> QED
    BY <1>3, <2>1, <2>2 DEF Receive, tankState, CommandInv, CommandsUnderstood
<1>4. ASSUME NEW h \in Handlers, Busy(h)
      PROVE  /\ Head(todo[h]) \in Opcodes \X Arguments
             /\ [todo EXCEPT ![h] = Tail(@)] \in [Handlers -> Seq(Opcodes \X Arguments)]
  <2> DEFINE S == Opcodes \X Arguments
  <2>1. todo[h] \in Seq(S) /\ todo[h] # <<>> /\ todo \in [Handlers -> Seq(S)]
    BY <1>4 DEF CommandInv, Busy
  <2> HIDE DEF S
  <2>2. Head(todo[h]) \in S /\ Tail(todo[h]) \in Seq(S)
    BY <2>1
  <2>3. [todo EXCEPT ![h] = Tail(@)] \in [Handlers -> Seq(S)]
    BY <2>1, <2>2
  <2> QED
    BY <2>2, <2>3 DEF S
<1>5. ASSUME NEW h \in Handlers, Write(h)
      PROVE  CommandInv'
  <2>1. told' \in Opcodes \X Arguments /\ told' = <<told'[1], told'[2]>>
    BY <1>4, <1>5 DEF Write
  <2>2. told'[1] \in Opcodes /\ told'[2] \in Arguments
    BY <2>1
  <2>3. Obey(Frame(told'[1], told'[2]))
    BY <1>5 DEF Write
  <2>4. heard' = <<told'[1], told'[2]>>
    BY <2>2, <2>3, FrameIsUnderstood DEF Obey
  <2> QED
    BY <1>4, <1>5, <2>1, <2>4 DEF Write, CommandInv, CommandsUnderstood
<1>6. ASSUME NEW h \in Handlers, WriteFails(h)
      PROVE  CommandInv'
  BY <1>4, <1>6 DEF WriteFails, tankState, CommandInv, CommandsUnderstood
<1> QED
  BY <1>1, <1>2, <1>3, <1>5, <1>6 DEF SerialNext

(* Of all commands that any handlers send, in any order, the tank takes     *)
(* from its frame the one that was put into it (tankserial.cpp 121-152).    *)
THEOREM TankUnderstands == SerialSpec => []CommandsUnderstood
<1>1. SerialInit => CommandInv
  <2>1. <<>> \in Seq(Opcodes \X Arguments)
    OBVIOUS
  <2> QED
    BY <2>1 DEF SerialInit, CommandInv, CommandsUnderstood
<1>2. CommandInv => CommandsUnderstood
  BY DEF CommandInv
<1> QED
  BY <1>1, <1>2, CommandStep, PTL DEF SerialSpec

-----------------------------------------------------------------------------
(* The LEDs *)

SerialCommands == Opcodes \X Arguments

\* s is what is left of p past its first n commands.
Rest(s, p, n) ==
  /\ n \in 0 .. Len(p) /\ Len(s) = Len(p) - n
  /\ \A i \in 1 .. Len(s) : s[i] = p[n + i]

\* Every handler is somewhere in a packet.
TodoInv ==
  /\ todo \in [Handlers -> Seq(SerialCommands)]
  /\ \A h \in Handlers : \E p \in Packets, n \in Nat : Rest(todo[h], p, n)

PortInv ==
  /\ main \in {"open", "get", "set", "serve", "failed"}
  /\ mPortFD \in {Closed, Fd}
  /\ speed \in {9600, Baud}
  /\ DOMAIN leds \subseteq 0 .. 255

\* The first n commands of the newest packet have arrived.
Shown(n) == \A i \in 1 .. n : i - 1 \in DOMAIN leds /\ leds[i - 1] = Tail(newest[i][2])

\* The rest of them are with the one handler that is at LEDs.
Showing(n) ==
  /\ n \in 0 .. Len(newest) /\ Shown(n)
  /\ \A h \in Handlers : IsLeds(todo[h]) => Rest(todo[h], newest, n)
  /\ \A g, h \in Handlers : IsLeds(todo[g]) /\ IsLeds(todo[h]) => g = h
  /\ n = Len(newest) \/ \E h \in Handlers : IsLeds(todo[h])

LedInv ==
  /\ newest \in Packets \cup {<<>>}
  /\ newest # <<>> => IsLeds(newest)
  /\ ~disturbed => \E n \in Nat : Showing(n)

LEMMA Pieces ==
  ASSUME NEW S, NEW s \in Seq(S), s # <<>>
  PROVE  /\ Len(s) \in Nat \ {0}
         /\ Head(s) = s[1] /\ Head(s) \in S
         /\ Tail(s) \in Seq(S) /\ Len(Tail(s)) = Len(s) - 1
         /\ \A i \in 1 .. Len(s) - 1 : Tail(s)[i] = s[i + 1]
<1>1. Len(s) \in Nat \ {0}
  BY EmptySeq
<1>2. /\ Head(s) \in S /\ Tail(s) \in Seq(S) /\ Len(Tail(s)) = Len(s) - 1
      /\ \A i \in 1 .. Len(Tail(s)) : Tail(s)[i] = s[i + 1]
  BY HeadTailProperties
<1>3. Head(s) = s[1]
  OBVIOUS
<1> QED
  BY <1>1, <1>2, <1>3

LEMMA RestOfRest ==
  ASSUME NEW S, NEW s \in Seq(S), s # <<>>, NEW p \in Seq(S), NEW n \in Nat, Rest(s, p, n)
  PROVE  /\ Rest(Tail(s), p, n + 1)
         /\ n + 1 \in 1 .. Len(p) /\ Head(s) = p[n + 1]
<1>1. /\ Len(s) \in Nat \ {0} /\ Head(s) = s[1] /\ Len(Tail(s)) = Len(s) - 1
      /\ \A i \in 1 .. Len(s) - 1 : Tail(s)[i] = s[i + 1]
  BY Pieces
<1>2. Len(p) \in Nat /\ Len(s) = Len(p) - n /\ \A i \in 1 .. Len(s) : s[i] = p[n + i]
  BY DEF Rest
<1>3. \A i \in 1 .. Len(s) - 1 : i + 1 \in 1 .. Len(s) /\ n + (i + 1) = (n + 1) + i
  BY <1>1
<1>4. n + 1 \in 0 .. Len(p) /\ Len(Tail(s)) = Len(p) - (n + 1)
  BY <1>1, <1>2
<1>5. \A i \in 1 .. Len(Tail(s)) : Tail(s)[i] = p[(n + 1) + i]
  BY <1>1, <1>2, <1>3
<1>6. 1 \in 1 .. Len(s)
  BY <1>1
<1> QED
  BY <1>1, <1>2, <1>4, <1>5, <1>6 DEF Rest

LEMMA RestIsSubSeq ==
  ASSUME NEW S, NEW s \in Seq(S), NEW p \in Seq(S), NEW n \in Nat, Rest(s, p, n)
  PROVE  n \in 0 .. Len(p) /\ s = SubSeq(p, n + 1, Len(p))
<1> DEFINE t == SubSeq(p, n + 1, Len(p))
<1>1. Len(p) \in Nat /\ n <= Len(p) /\ Len(s) = Len(p) - n /\ \A i \in 1 .. Len(s) : s[i] = p[n + i]
  BY DEF Rest
<1>2. \A i \in n + 1 .. Len(p) : p[i] \in S
  BY <1>1, ElementOfSeq
<1>3. /\ t \in Seq(S)
      /\ Len(t) = IF n + 1 <= Len(p) THEN Len(p) - (n + 1) + 1 ELSE 0
      /\ \A i \in 1 .. Len(p) - (n + 1) + 1 : t[i] = p[(n + 1) + i - 1]
  <2>1. n + 1 \in Int /\ Len(p) \in Int
    BY <1>1
  <2> HIDE DEF t
  <2> QED BY <1>2, <2>1, SubSeqProperties DEF t
<1> HIDE DEF t
<1>4. Len(t) = Len(s) /\ Len(s) = Len(p) - (n + 1) + 1
  BY <1>1, <1>3
<1>5. \A i \in 1 .. Len(s) : (n + 1) + i - 1 = n + i
  BY <1>1
<1>6. \A i \in 1 .. Len(s) : s[i] = t[i]
  <2>1. \A i \in 1 .. Len(s) : t[i] = p[(n + 1) + i - 1]
    BY <1>3, <1>4
  <2> QED BY <1>1, <1>5, <2>1
<1>7. s = t
  BY <1>3, <1>4, <1>6, SeqEqual
<1>8. n \in 0 .. Len(p)
  BY DEF Rest
<1> QED
  BY <1>7, <1>8 DEF t

\* A packet has either nothing to do with the LEDs, or its i-th command is for
\* the LED with the number i - 1.
LEMMA PacketKinds ==
  ASSUME NEW p \in Packets
  PROVE  /\ p \in Seq(SerialCommands)
         /\ ~IsLeds(p) => \A i \in 1 .. Len(p) : p[i][1] # TANKOPC_LED_SET
         /\ IsLeds(p) => \A i \in 1 .. Len(p) :
              /\ p[i][1] = TANKOPC_LED_SET
              /\ Len(p[i][2]) = 4 /\ p[i][2][1] = (i - 1) % 256
<1>1. p \in Seq(SerialCommands) /\ DOMAIN p = 1 .. Len(p)
  <2>1. p \in Seq(SerialCommands)
    BY TankAssumption DEF SerialCommands
  <2> QED BY <2>1, LenProperties
<1>2. CASE ~IsLeds(p)
  <2>1. \A i \in DOMAIN p : p[i][1] # TANKOPC_LED_SET
    BY <1>2, LedsAssumption
  <2> QED BY <1>1, <1>2, <2>1
<1>3. CASE IsLeds(p)
  <2> DEFINE colours == [i \in 1 .. Len(p) |-> Tail(p[i][2])]
  <2>1. /\ \A i \in 1 .. Len(p) : Len(p[i][2]) = 4
        /\ p = LedCommands(colours)
    BY <1>1, <1>3, LedsAssumption
  <2>2. ASSUME NEW i \in 1 .. Len(p)
        PROVE  /\ p[i][1] = TANKOPC_LED_SET
               /\ Len(p[i][2]) = 4 /\ p[i][2][1] = (i - 1) % 256
    <3>1. p[i] = <<TANKOPC_LED_SET, << (i - 1) % 256 >> \o colours[i]>>
      <4> HIDE DEF colours
      <4>1. LedCommands(colours)
              = [j \in 1 .. Len(colours) |-> <<TANKOPC_LED_SET, << (j - 1) % 256 >> \o colours[j]>>]
        BY DEF LedCommands
      <4>2. i \in 1 .. Len(colours)
        BY <1>1, <2>1, <4>1
      <4> QED BY <2>1, <4>1, <4>2
    <3>2. colours[i] \in Seq(0 .. 255)
      <4>1. p[i] \in SerialCommands
        BY <1>1, ElementOfSeq
      <4>2. p[i][2] \in Seq(0 .. 255)
        BY <4>1 DEF SerialCommands, Arguments
      <4>3. p[i][2] # <<>>
        <5>1. Len(p[i][2]) = 4 /\ Len(<<>>) = 0
          BY <2>1
        <5> QED BY <5>1
      <4> QED BY <4>2, <4>3, HeadTailProperties
    <3>3. ASSUME NEW k \in 0 .. 255, NEW c \in Seq(0 .. 255)
          PROVE  (<<k>> \o c)[1] = k
      <4>1. <<k>> \in Seq(0 .. 255) /\ Len(<<k>>) = 1 /\ <<k>>[1] = k
        OBVIOUS
      <4>2. Len(c) \in Nat
        OBVIOUS
      <4>3. 1 \in 1 .. 1 + Len(c)
        BY <4>2
      <4> QED BY <4>1, <4>3, ConcatProperties
    <3>4. (i - 1) % 256 \in 0 .. 255
      <4>1. Len(p) \in Nat
        BY <1>1, LenProperties
      <4> QED BY <4>1
    <3> HIDE DEF colours
    <3>5. p[i][2] = << (i - 1) % 256 >> \o colours[i]
      BY <3>1
    <3>6. p[i][2][1] = (i - 1) % 256
      BY <3>2, <3>3, <3>4, <3>5
    <3>7. p[i][1] = TANKOPC_LED_SET
      BY <3>1
    <3> QED BY <2>1, <3>6, <3>7
  <2> QED BY <1>1, <1>3, <2>2
<1> QED
  BY <1>2, <1>3

\* A handler at a packet of LEDs stays at LEDs until it is through.
LEMMA NextCommand ==
  ASSUME TodoInv, NEW h \in Handlers, Busy(h)
  PROVE  /\ todo[h] \in Seq(SerialCommands) /\ Tail(todo[h]) \in Seq(SerialCommands)
         /\ Head(todo[h]) \in SerialCommands
         /\ IsLeds(todo[h]) <=> Head(todo[h])[1] = TANKOPC_LED_SET
         /\ IsLeds(todo[h]) => Len(Head(todo[h])[2]) = 4
         /\ IsLeds(Tail(todo[h])) <=> IsLeds(todo[h]) /\ Tail(todo[h]) # <<>>
         /\ \E p \in Packets, n \in Nat : Rest(Tail(todo[h]), p, n)
<1> DEFINE s == todo[h]
<1>1. s \in Seq(SerialCommands) /\ s # <<>>
  BY DEF TodoInv, Busy
<1>2. PICK p \in Packets, n \in Nat : Rest(s, p, n)
  BY DEF TodoInv
<1>3. p \in Seq(SerialCommands)
  BY PacketKinds
<1> HIDE DEF s
<1>4. /\ Len(s) \in Nat \ {0}
      /\ Head(s) = s[1] /\ Head(s) \in SerialCommands
      /\ Tail(s) \in Seq(SerialCommands) /\ Len(Tail(s)) = Len(s) - 1
      /\ \A i \in 1 .. Len(s) - 1 : Tail(s)[i] = s[i + 1]
  BY <1>1, Pieces
<1>5. Rest(Tail(s), p, n + 1) /\ n + 1 \in 1 .. Len(p) /\ Head(s) = p[n + 1]
  BY <1>1, <1>2, <1>3, RestOfRest
<1>6. IsLeds(s) <=> Head(s)[1] = TANKOPC_LED_SET
  BY <1>1, <1>4 DEF IsLeds
<1>7. IsLeds(s) <=> IsLeds(p)
  BY <1>5, <1>6, PacketKinds
<1>8. ASSUME Tail(s) # <<>>
      PROVE  IsLeds(Tail(s)) <=> IsLeds(p)
  <2>1. n + 2 \in 1 .. Len(p) /\ Tail(s)[1] = p[n + 2]
    <3>1. Len(Tail(s)) \in Nat \ {0}
      BY <1>4, <1>8, Pieces
    <3>2. /\ Len(Tail(s)) = Len(p) - (n + 1)
          /\ \A i \in 1 .. Len(Tail(s)) : Tail(s)[i] = p[(n + 1) + i]
      BY <1>5 DEF Rest
    <3>3. \A m \in Nat \ {0} : 1 \in 1 .. m
      OBVIOUS
    <3>4. Len(p) \in Nat /\ (n + 1) + 1 = n + 2
      BY <1>3
    <3>5. \A k, m \in Nat : m # 0 /\ m = k - (n + 1) => n + 2 \in 1 .. k
      OBVIOUS
    <3>6. n + 2 \in 1 .. Len(p)
      BY <3>1, <3>2, <3>4, <3>5
    <3>7. 1 \in 1 .. Len(Tail(s))
      BY <3>1, <3>3
    <3> QED BY <3>2, <3>4, <3>6, <3>7
  <2> QED BY <1>8, <2>1, PacketKinds DEF IsLeds
<1>9. IsLeds(s) => Len(Head(s)[2]) = 4
  BY <1>5, <1>7, PacketKinds
<1>10. IsLeds(Tail(s)) => Tail(s) # <<>>
  BY DEF IsLeds
<1>11. n + 1 \in Nat
  OBVIOUS
<1> QED
  BY <1>1, <1>4, <1>5, <1>6, <1>7, <1>8, <1>9, <1>10, <1>11 DEF s

\* What the tank does with the frame of a command.
LEMMA ObeyFact ==
  ASSUME NEW c \in SerialCommands, Obey(Frame(c[1], c[2]))
  PROVE  /\ c[1] # TANKOPC_LED_SET => leds' = leds
         /\ c[1] = TANKOPC_LED_SET =>
              leds' = [n \in DOMAIN leds \cup {c[2][1]} |->
                         IF n = c[2][1] THEN Tail(c[2]) ELSE leds[n]]
<1>1. c[1] \in Opcodes /\ c[2] \in Arguments
  BY DEF SerialCommands
<1>2. /\ Accepted(Frame(c[1], c[2])) /\ OpcodeOf(Frame(c[1], c[2])) = c[1]
      /\ ArgsOf(Frame(c[1], c[2])) = c[2]
  BY <1>1, FrameIsUnderstood
<1> QED
  BY <1>2 DEF Obey

LEMMA NumberIsByte ==
  ASSUME NEW c \in SerialCommands, Len(c[2]) = 4
  PROVE  c[2][1] \in 0 .. 255
<1>1. c[2] \in Seq(0 .. 255) /\ 1 \in 1 .. Len(c[2])
  BY DEF SerialCommands, Arguments
<1> QED
  BY <1>1, ElementOfSeq

\* A handler goes on to its next command.
LEMMA DropStep ==
  ASSUME TodoInv, NEW h \in Handlers, Busy(h), todo' = [todo EXCEPT ![h] = Tail(@)]
  PROVE  TodoInv'
<1>1. Tail(todo[h]) \in Seq(SerialCommands) /\ \E p \in Packets, n \in Nat : Rest(Tail(todo[h]), p, n)
  BY NextCommand
<1>2. todo' \in [Handlers -> Seq(SerialCommands)]
  BY <1>1 DEF TodoInv
<1>3. ASSUME NEW g \in Handlers
      PROVE  \E p \in Packets, n \in Nat : Rest(todo'[g], p, n)
  BY <1>1 DEF TodoInv
<1> QED
  BY <1>2, <1>3 DEF TodoInv

LEMMA WholePacket ==
  ASSUME NEW p \in Packets
  PROVE  Rest(p, p, 0) /\ Rest(<<>>, p, Len(p))
<1>1. p \in Seq(SerialCommands)
  BY PacketKinds
<1>2. Len(p) \in Nat /\ Len(<<>>) = 0
  BY <1>1
<1> QED
  BY <1>2 DEF Rest

LEMMA TodoStep ==
  ASSUME TodoInv, [SerialNext]_serialVars
  PROVE  TodoInv'
<1>1. CASE UNCHANGED todo
  BY <1>1 DEF TodoInv
<1>2. ASSUME NEW h \in Handlers, Receive(h)
      PROVE  TodoInv'
  <2>1. PICK p \in Packets : todo' = [todo EXCEPT ![h] = p]
    BY <1>2 DEF Receive
  <2>2. p \in Seq(SerialCommands) /\ Rest(p, p, 0) /\ 0 \in Nat
    BY PacketKinds, WholePacket
  <2> QED BY <2>1, <2>2 DEF TodoInv
<1>3. ASSUME NEW h \in Handlers, Write(h) \/ WriteFails(h)
      PROVE  TodoInv'
  BY <1>3, DropStep DEF Write, WriteFails
<1> QED
  BY <1>1, <1>2, <1>3 DEF SerialNext, serialVars, OpenPort, OpenFails, GetAttributes, SetAttributes

LEMMA PortStep ==
  ASSUME TodoInv, PortInv, [SerialNext]_serialVars
  PROVE  PortInv'
<1>1. CASE UNCHANGED serialVars
  BY <1>1 DEF serialVars, port, tankState, PortInv
<1>2. CASE OpenPort \/ OpenFails \/ GetAttributes \/ SetAttributes
  <2>1. leds' = leds
    BY <1>2 DEF OpenPort, OpenFails, GetAttributes, SetAttributes, tankState
  <2>2. mPortFD' \in {Closed, Fd}
    BY <1>2 DEF OpenPort, OpenFails, GetAttributes, SetAttributes, PortInv, Closed, Fd
  <2>3. speed' \in {9600, Baud}
    BY <1>2 DEF OpenPort, OpenFails, GetAttributes, SetAttributes, PortInv
  <2>4. main' \in {"get", "set", "serve", "failed"}
    BY <1>2 DEF OpenPort, OpenFails, GetAttributes, SetAttributes
  <2> QED BY <2>1, <2>2, <2>3, <2>4 DEF PortInv
<1>3. ASSUME NEW h \in Handlers, Receive(h) \/ WriteFails(h)
      PROVE  PortInv'
  <2>1. UNCHANGED <<main, mPortFD, speed, leds>>
    BY <1>3 DEF Receive, WriteFails, port, tankState
  <2> QED BY <2>1 DEF PortInv
<1>4. ASSUME NEW h \in Handlers, Write(h)
      PROVE  PortInv'
  <2> DEFINE c == Head(todo[h])
  <2>1. /\ c \in SerialCommands
        /\ c[1] = TANKOPC_LED_SET => Len(c[2]) = 4
    BY <1>4, NextCommand DEF Write
  <2>2. Obey(Frame(c[1], c[2])) /\ UNCHANGED port
    BY <1>4 DEF Write
  <2> HIDE DEF c
  <2>3. DOMAIN leds' \subseteq 0 .. 255
    <3>1. DOMAIN leds \subseteq 0 .. 255
      BY DEF PortInv
    <3>2. CASE c[1] # TANKOPC_LED_SET
      BY <2>1, <2>2, <3>1, <3>2, ObeyFact
    <3>3. CASE c[1] = TANKOPC_LED_SET
      <4>1. DOMAIN leds' = DOMAIN leds \cup {c[2][1]}
        BY <2>1, <2>2, <3>3, ObeyFact
      <4>2. c[2][1] \in 0 .. 255
        BY <2>1, <3>3, NumberIsByte
      <4> QED BY <3>1, <4>1, <4>2
    <3> QED BY <3>2, <3>3
  <2> QED BY <2>2, <2>3 DEF port, PortInv
<1> QED
  BY <1>1, <1>2, <1>3, <1>4 DEF SerialNext

LEMMA SerialInvariant == SerialSpec => []TodoInv /\ []PortInv
<1>1. SerialInit => TodoInv
  <2>1. <<>> \in Seq(SerialCommands) /\ \E p \in Packets : Rest(<<>>, p, Len(p)) /\ Len(p) \in Nat
    BY TankAssumption, WholePacket, PacketKinds
  <2> QED BY <2>1 DEF SerialInit, TodoInv
<1>2. SerialInit => PortInv
  BY DEF SerialInit, PortInv
<1> QED
  BY <1>1, <1>2, TodoStep, PortStep, PTL DEF SerialSpec

(* Each handler is somewhere in a packet, the numbers of the LEDs are       *)
(* bytes, and the speed of the line is that of before or the one asked for, *)
(* for any number of clients and any packets (tankserial.cpp 26-66, 87-94). *)
THEOREM SerialTypeCorrect == SerialSpec => []SerialTypeOK
<1>1. TodoInv /\ PortInv => SerialTypeOK
  <2>1. ASSUME TodoInv, NEW h \in Handlers
        PROVE  \E p \in Packets : \E n \in 0 .. Len(p) : todo[h] = SubSeq(p, n + 1, Len(p))
    <3>1. PICK p \in Packets, n \in Nat : Rest(todo[h], p, n)
      BY <2>1 DEF TodoInv
    <3>2. p \in Seq(SerialCommands) /\ todo[h] \in Seq(SerialCommands)
      BY <2>1, PacketKinds DEF TodoInv
    <3> QED BY <3>1, <3>2, RestIsSubSeq
  <2> QED BY <2>1 DEF PortInv, SerialTypeOK
<1> QED
  BY <1>1, SerialInvariant, PTL

-----------------------------------------------------------------------------

\* Commands that are not for the LEDs do not get in the way of those that are.
LEMMA LedsApart ==
  ASSUME NEW n \in Nat, Showing(n), UNCHANGED <<newest, leds>>,
         \A g \in Handlers : /\ IsLeds(todo'[g]) <=> IsLeds(todo[g])
                             /\ IsLeds(todo[g]) => todo'[g] = todo[g]
  PROVE  Showing(n)'
<1>1. Shown(n)'
  BY DEF Showing, Shown
<1>2. /\ \A h \in Handlers : IsLeds(todo'[h]) => Rest(todo'[h], newest', n)
      /\ \A g, h \in Handlers : IsLeds(todo'[g]) /\ IsLeds(todo'[h]) => g = h
      /\ n = Len(newest') \/ \E h \in Handlers : IsLeds(todo'[h])
  BY DEF Showing
<1> QED
  BY <1>1, <1>2 DEF Showing

\* The next LED has the number n, and none of those before it is touched.
LEMMA OneMoreLed ==
  ASSUME \A p \in Packets : Len(p) <= 256,
         TodoInv, NEW h \in Handlers, Write(h), IsLeds(todo[h]),
         newest \in Packets \cup {<<>>}, newest # <<>> => IsLeds(newest),
         NEW n \in Nat, Showing(n)
  PROVE  Showing(n + 1)'
<1> DEFINE c == Head(todo[h])
<1>1. /\ todo' = [todo EXCEPT ![h] = Tail(@)] /\ newest' = newest
      /\ Obey(Frame(c[1], c[2])) /\ Busy(h)
  BY DEF Write, history
<1>2. /\ todo[h] \in Seq(SerialCommands) /\ Tail(todo[h]) \in Seq(SerialCommands)
      /\ c \in SerialCommands /\ c[1] = TANKOPC_LED_SET
      /\ IsLeds(Tail(todo[h])) <=> Tail(todo[h]) # <<>>
  BY <1>1, NextCommand
<1>3. Rest(todo[h], newest, n) /\ todo[h] # <<>>
  BY <1>1 DEF Showing, Busy
<1>4. newest \in Seq(SerialCommands) /\ newest \in Packets
  <2>1. newest # <<>>
    <3>1. Len(todo[h]) \in Nat \ {0} /\ Len(todo[h]) = Len(newest) - n
      BY <1>2, <1>3, Pieces DEF Rest
    <3>2. Len(<<>>) = 0
      OBVIOUS
    <3> QED BY <3>1, <3>2
  <2> QED BY <2>1, PacketKinds
<1>5. /\ Rest(Tail(todo[h]), newest, n + 1)
      /\ n + 1 \in 1 .. Len(newest) /\ c = newest[n + 1]
  BY <1>2, <1>3, <1>4, RestOfRest
<1> HIDE DEF c
<1>6. c[2][1] = n
  <2>1. IsLeds(newest)
    BY <1>4, <1>5
  <2>2. c[2][1] = ((n + 1) - 1) % 256
    BY <1>4, <1>5, <2>1, PacketKinds
  <2>3. n < 256
    <3>1. Len(newest) \in Nat /\ Len(newest) <= 256
      BY <1>4
    <3> QED BY <1>5, <3>1
  <2>4. \A k \in Nat : k < 256 => ((k + 1) - 1) % 256 = k
    OBVIOUS
  <2> QED BY <2>2, <2>3, <2>4
<1>7. leds' = [k \in DOMAIN leds \cup {n} |-> IF k = n THEN Tail(c[2]) ELSE leds[k]]
  BY <1>1, <1>2, <1>6, ObeyFact
<1>8. Shown(n + 1)'
  <2>1. ASSUME NEW i \in 1 .. n + 1
        PROVE  i - 1 \in DOMAIN leds' /\ leds'[i - 1] = Tail(newest[i][2])
    <3>1. CASE i = n + 1
      <4>1. i - 1 = n
        BY <3>1
      <4> QED BY <1>5, <1>7, <3>1, <4>1
    <3>2. CASE i \in 1 .. n
      <4>1. i - 1 # n
        BY <3>2
      <4>2. i - 1 \in DOMAIN leds /\ leds[i - 1] = Tail(newest[i][2])
        BY <3>2 DEF Showing, Shown
      <4> QED BY <1>7, <4>1, <4>2
    <3> QED BY <3>1, <3>2
  <2> QED BY <1>1, <2>1 DEF Shown
<1>9. /\ todo'[h] = Tail(todo[h])
      /\ \A g \in Handlers : g # h => todo'[g] = todo[g] /\ ~IsLeds(todo'[g])
  BY <1>1 DEF TodoInv, Showing
<1>10. n + 1 = Len(newest) \/ IsLeds(todo'[h])
  <2>1. CASE Tail(todo[h]) = <<>>
    <3>1. Len(Tail(todo[h])) = 0 /\ Len(Tail(todo[h])) = Len(newest) - (n + 1)
      BY <1>5, <2>1 DEF Rest
    <3>2. Len(newest) \in Nat
      BY <1>4
    <3>3. \A k, m \in Nat : 0 = k - (m + 1) => m + 1 = k
      OBVIOUS
    <3>4. 0 = Len(newest) - (n + 1)
      BY <3>1
    <3> QED BY <3>2, <3>3, <3>4
  <2>2. CASE Tail(todo[h]) # <<>>
    <3>1. IsLeds(Tail(todo[h])) /\ todo'[h] = Tail(todo[h])
      BY <1>2, <1>9, <2>2
    <3> QED BY <3>1
  <2> QED BY <2>1, <2>2
<1>11. n + 1 \in 0 .. Len(newest)
  BY <1>5
<1> QED
  BY <1>1, <1>5, <1>8, <1>9, <1>10, <1>11 DEF Showing

LEMMA LedStep ==
  ASSUME \A p \in Packets : Len(p) <= 256,
         TodoInv, LedInv, [SerialNext]_serialVars
  PROVE  LedInv'
<1>1. CASE UNCHANGED <<todo, leds, newest, disturbed>>
  BY <1>1, LedsApart DEF LedInv
<1>2. ASSUME NEW h \in Handlers, Receive(h)
      PROVE  LedInv'
  <2>1. PICK p \in Packets :
          /\ ~Busy(h) /\ p # <<>> /\ leds' = leds
          /\ todo' = [todo EXCEPT ![h] = p]
          /\ IF IsLeds(p)
               THEN newest' = p /\ disturbed' = \E g \in Handlers : IsLeds(todo[g])
               ELSE UNCHANGED history
    BY <1>2 DEF Receive, tankState
  <2>2. /\ ~IsLeds(todo[h]) /\ todo'[h] = p
        /\ \A g \in Handlers : g # h => todo'[g] = todo[g]
    BY <2>1 DEF TodoInv, Busy, IsLeds
  <2>3. CASE ~IsLeds(p)
    <3>1. UNCHANGED <<newest, leds, disturbed>>
      BY <2>1, <2>3 DEF history
    <3>2. \A g \in Handlers : /\ IsLeds(todo'[g]) <=> IsLeds(todo[g])
                              /\ IsLeds(todo[g]) => todo'[g] = todo[g]
      BY <2>2, <2>3
    <3> QED BY <3>1, <3>2, LedsApart DEF LedInv
  <2>4. CASE IsLeds(p)
    <3>1. ASSUME ~disturbed'
          PROVE  Showing(0)'
      <4>1. newest' = p /\ \A g \in Handlers : ~IsLeds(todo[g])
        BY <2>1, <2>4, <3>1
      <4>2. Rest(p, p, 0) /\ p \in Seq(SerialCommands)
        BY WholePacket, PacketKinds
      <4>3. 0 \in 0 .. Len(p) /\ Shown(0)'
        BY <4>2 DEF Shown
      <4>4. \A g \in Handlers : IsLeds(todo'[g]) <=> g = h
        BY <2>2, <2>4, <4>1
      <4> QED BY <2>2, <4>1, <4>2, <4>3, <4>4 DEF Showing
    <3> QED BY <2>1, <2>4, <3>1 DEF LedInv
  <2> QED BY <2>3, <2>4
<1>3. ASSUME NEW h \in Handlers, Write(h) \/ WriteFails(h), ~IsLeds(todo[h])
      PROVE  LedInv'
  <2> DEFINE c == Head(todo[h])
  <2>1. Busy(h) /\ newest' = newest /\ todo' = [todo EXCEPT ![h] = Tail(@)]
    BY <1>3 DEF Write, WriteFails, history
  <2>2. /\ c \in SerialCommands /\ c[1] # TANKOPC_LED_SET /\ ~IsLeds(Tail(todo[h]))
    BY <1>3, <2>1, NextCommand
  <2>3. leds' = leds
    <3>1. CASE Write(h)
      <4>1. Obey(Frame(c[1], c[2]))
        BY <3>1 DEF Write
      <4> HIDE DEF c
      <4> QED BY <2>2, <4>1, ObeyFact
    <3>2. CASE WriteFails(h)
      BY <3>2 DEF WriteFails, tankState
    <3> QED BY <1>3, <3>1, <3>2
  <2>4. ~disturbed' => ~disturbed
    BY <1>3 DEF Write, WriteFails, history
  <2>5. \A g \in Handlers : /\ IsLeds(todo'[g]) <=> IsLeds(todo[g])
                            /\ IsLeds(todo[g]) => todo'[g] = todo[g]
    BY <1>3, <2>1, <2>2 DEF TodoInv
  <2> QED BY <2>1, <2>3, <2>4, <2>5, LedsApart DEF LedInv
<1>4. ASSUME NEW h \in Handlers, Write(h), IsLeds(todo[h])
      PROVE  LedInv'
  <2>1. newest' = newest /\ disturbed' = disturbed
    BY <1>4 DEF Write, history
  <2>2. \A n \in Nat : Showing(n) => Showing(n + 1)' /\ n + 1 \in Nat
    BY <1>4, OneMoreLed DEF LedInv
  <2> QED BY <2>1, <2>2 DEF LedInv
<1>5. ASSUME NEW h \in Handlers, WriteFails(h), IsLeds(todo[h])
      PROVE  LedInv'
  BY <1>5 DEF WriteFails, LedInv
<1> QED
  BY <1>1, <1>2, <1>3, <1>4, <1>5
     DEF SerialNext, serialVars, tankState, history, OpenPort, OpenFails, GetAttributes, SetAttributes

(* For any number of clients and any packets of at most 256 LEDs, which is  *)
(* what the byte that numbers them can tell apart: when nobody is at work   *)
(* the LEDs are those of the newest packet, unless another one overlapped   *)
(* with it or a write failed (mono_raspi.cpp 136-140, tankserial.cpp        *)
(* 87-94).                                                                  *)
THEOREM LedsOfOnePacket ==
  ASSUME \A p \in Packets : Len(p) <= 256
  PROVE  SerialSpec => []LedsAreOfOnePacket
<1>1. SerialInit => LedInv
  <2> SUFFICES ASSUME SerialInit PROVE LedInv
    OBVIOUS
  <2>1. newest = <<>> /\ Len(newest) = 0 /\ \A h \in Handlers : ~IsLeds(todo[h])
    BY DEF SerialInit, IsLeds
  <2>2. Showing(0)
    BY <2>1 DEF Showing, Shown
  <2> QED BY <2>1, <2>2 DEF LedInv
<1>2. TodoInv /\ LedInv /\ [SerialNext]_serialVars => LedInv'
  BY LedStep
<1>3. LedInv => LedsAreOfOnePacket
  <2> SUFFICES ASSUME LedInv, \A h \in Handlers : ~Busy(h), ~disturbed,
                      NEW i \in DOMAIN newest
               PROVE  i - 1 \in DOMAIN leds /\ leds[i - 1] = Tail(newest[i][2])
    BY DEF LedsAreOfOnePacket
  <2>1. PICK n \in Nat : Showing(n)
    BY DEF LedInv
  <2>2. n = Len(newest)
    BY <2>1 DEF Showing, Busy, IsLeds
  <2>3. i \in 1 .. n
    <3>1. newest \in Seq(SerialCommands)
      BY PacketKinds DEF LedInv
    <3> QED BY <2>2, <3>1, LenProperties
  <2> QED BY <2>1, <2>3 DEF Showing, Shown
<1> QED
  BY <1>1, <1>2, <1>3, SerialInvariant, PTL DEF SerialSpec
==============================================================================

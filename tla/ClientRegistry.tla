---------------------------- MODULE ClientRegistry ----------------------------
(***************************************************************************)
(* TankProtocolHandler::mAllClients: handlers enter it in onConnect() and  *)
(* leave it in onDisconnect(), on the threads of the HTTP server, while    *)
(* sendToAll() walks through it on the push thread.  The lock guards of    *)
(* the three functions are temporaries that are gone before the set is     *)
(* used, so insert, erase and the steps of the iterator may overlap.       *)
(* Handlers are ordered by their addresses, as in the set.                 *)
(***************************************************************************)
EXTENDS Integers

CONSTANT Clients  \* the addresses that a handler may have

ASSUME RegistryAssumption == Clients \subseteq Nat \ {0}

None == 0   \* no broadcast is on
End  == -1  \* mAllClients.end()

VARIABLES
  conn,        \* where each handler is in its life
  mAllClients, \* the set
  it,          \* the handler at the iterator of sendToAll()
  sending,     \* sendBinary() of that handler runs
  dangling,    \* the node of the iterator has been erased
  sent,        \* the handlers that got the packet
  throughout,  \* those that are in the set since the broadcast began
  present,     \* those that were in the set since then
  broken       \* something undefined has happened

client    == <<conn, mAllClients>>
broadcast == <<it, sending, sent>>
history   == <<throughout, present>>
vars      == <<client, broadcast, history, dangling, broken>>

-----------------------------------------------------------------------------

\* An insert or an erase is at work on the nodes of the set.
Modifying == \E c \in Clients : conn[c] \in {"inserting", "erasing"}

\* Fault: the iterator stays where it is.
AfterSame(place) ==
  LET later == {c \in mAllClients : c >= place}
  IN  IF later = {} THEN End ELSE CHOOSE c \in later : \A d \in later : c <= d

\* Fault: the handlers are taken for an array.
AfterInArray(place) == IF \E c \in mAllClients : c >= place THEN place + 1 ELSE End

\* Fault: the iterator skips every other one.
AfterNext(place) ==
  LET later == {c \in mAllClients : c > place + 1}
  IN  IF later = {} THEN End ELSE CHOOSE c \in later : \A d \in later : c <= d

\* The first handler of a set past a place, or its end.
After(place) ==
  LET later == {c \in mAllClients : c > place}
  IN  IF later = {} THEN End ELSE CHOOSE c \in later : \A d \in later : c <= d

Init ==
  /\ conn = [c \in Clients |-> "none"]
  /\ mAllClients = {}
  /\ it = None /\ sending = FALSE /\ dangling = FALSE
  /\ sent = {} /\ throughout = {} /\ present = {}
  /\ broken = FALSE

(* The threads of the HTTP server.                                         *)

Enter(c, from, to) ==
  /\ conn[c] = from
  /\ conn' = [conn EXCEPT ![c] = to]
  /\ broken' = Modifying
  /\ UNCHANGED <<mAllClients, broadcast, history, dangling>>

OnConnect(c)    == Enter(c, "none", "inserting")
OnDisconnect(c) == Enter(c, "connected", "erasing")

Inserted(c) ==
  /\ conn[c] = "inserting"
  /\ conn' = [conn EXCEPT ![c] = "connected"]
  /\ mAllClients' = mAllClients \cup {c}
  /\ present' = present \cup {c}
  /\ UNCHANGED <<broadcast, throughout, dangling, broken>>

Erased(c) ==
  /\ conn[c] = "erasing"
  /\ conn' = [conn EXCEPT ![c] = "erased"]
  /\ mAllClients' = mAllClients \ {c}
  /\ throughout' = throughout \ {c}
  /\ dangling' = (dangling \/ it = c)
  /\ UNCHANGED <<broadcast, present, broken>>

\* The server destroys the handler of a closed connection; its memory may
\* become that of a new one.  One whose sendBinary() runs is used after that,
\* whatever is at its address by then.
Destroy(c) ==
  /\ conn[c] = "erased"
  /\ conn' = [conn EXCEPT ![c] = "none"]
  /\ broken' = (sending /\ it = c)
  /\ UNCHANGED <<mAllClients, broadcast, history, dangling>>

(* sendToAll() on the push thread.                                         *)

Begin ==
  /\ it = None
  /\ it' = After(0)
  /\ sent' = {} /\ throughout' = mAllClients /\ present' = mAllClients
  /\ broken' = Modifying
  /\ UNCHANGED <<client, sending, dangling>>

\* The node of the iterator is read, and its handler called.
Send ==
  /\ it \in Clients /\ ~sending /\ it \notin sent
  /\ sending' = TRUE
  /\ broken' = dangling
  /\ UNCHANGED <<client, it, sent, history, dangling>>

\* sendBinary() returns.
Sent ==
  /\ sending
  /\ sending' = FALSE
  /\ sent' = sent \cup {it}
  /\ UNCHANGED <<client, it, history, dangling, broken>>

Advance ==
  /\ it \in sent /\ ~sending
  /\ it' = After(it)
  /\ broken' = (dangling \/ Modifying)
  /\ UNCHANGED <<client, sending, sent, history, dangling>>

Return ==
  /\ it = End
  /\ it' = None
  /\ UNCHANGED <<client, sending, sent, history, dangling, broken>>

Broadcast == ~broken /\ (Begin \/ Send \/ Sent \/ Advance \/ Return)

Next ==
  \/ Broadcast
  \/ /\ ~broken
     /\ \E c \in Clients :
          OnConnect(c) \/ Inserted(c) \/ OnDisconnect(c) \/ Erased(c) \/ Destroy(c)

\* The push thread goes on: sendBinary() returns, if only with an error.
Spec == Init /\ [][Next]_vars /\ WF_vars(Broadcast)

-----------------------------------------------------------------------------

TypeOK ==
  /\ conn \in [Clients -> {"none", "inserting", "connected", "erasing", "erased"}]
  /\ mAllClients \subseteq Clients
  /\ it \in Clients \cup {None, End}
  /\ sending \in BOOLEAN /\ dangling \in BOOLEAN /\ broken \in BOOLEAN
  /\ sent \subseteq Clients /\ throughout \subseteq Clients /\ present \subseteq Clients

(* Whoever connects and disconnects during a broadcast: unless that upsets  *)
(* the iterator, every client connected all the time gets the packet, and   *)
(* nobody does who was gone before it began (client_handler.cpp 38-44).     *)
BroadcastReachesAll ==
  ~broken => /\ it = End => throughout \subseteq sent
             /\ it # None => sent \subseteq present

(* A broadcast ends, however often others connect and disconnect, unless    *)
(* something undefined happens (client_handler.cpp 42-43).                  *)
BroadcastEnds == it # None ~> (it = None \/ broken)

==============================================================================

--------------------------- MODULE PushThreadProofs ---------------------------
(***************************************************************************)
(* What the network push thread shares with others: a broadcast that       *)
(* nothing upsets reaches every client connected, for any number of        *)
(* clients and addresses, and the key points of an overlay are of one       *)
(* frame, for any frames and whatever is done to the tracker besides.      *)
(***************************************************************************)
EXTENDS ClientRegistry, OverlayUpdate, WellFoundedInduction, TLAPS

-----------------------------------------------------------------------------

\* Those connected throughout that the iterator has passed have got the packet.
Passed ==
  \A c \in throughout : (it = End \/ (it \in Clients /\ c < it)) => c \in sent

RegistryInv ==
  /\ TypeOK
  /\ mAllClients = {c \in Clients : conn[c] \in {"connected", "erasing"}}
  /\ it # None => /\ throughout \subseteq mAllClients
                  /\ mAllClients \subseteq present
                  /\ sent \subseteq present
                  /\ it \in Clients => it \in present
  /\ Passed

-----------------------------------------------------------------------------

\* The iterator steps over nobody.
LEMMA AfterIsNext ==
  ASSUME mAllClients \subseteq Clients, NEW place \in Nat
  PROVE  \/ /\ After(place) = End
            /\ \A c \in mAllClients : c <= place
         \/ /\ After(place) \in mAllClients
            /\ After(place) > place
            /\ \A c \in mAllClients : c > place => After(place) <= c
<1> DEFINE later == {c \in mAllClients : c > place}
<1>1. later \subseteq Nat /\ mAllClients \subseteq Nat
  BY RegistryAssumption
<1>2. CASE later = {}
  <2>1. After(place) = End
    BY <1>2 DEF After
  <2> QED
    BY <1>1, <1>2, <2>1
<1>3. CASE later # {}
  <2>1. \E c \in later : \A d \in later : ~(<<d, c>> \in OpToRel(<, Nat))
    <3> HIDE DEF later
    <3> QED
      BY <1>1, <1>3, WFMin, NatLessThanWellFounded
  <2>2. PICK c \in later : \A d \in later : c <= d
    <3>1. PICK c \in later : \A d \in later : ~(<<d, c>> \in OpToRel(<, Nat))
      BY <2>1
    <3>2. ASSUME NEW d \in later
          PROVE  c <= d
      <4>1. c \in Nat /\ d \in Nat /\ <<d, c>> \in Nat \X Nat
        BY <1>1
      <4>2. ~(d < c)
        BY <3>1, <4>1 DEF OpToRel
      <4> QED
        BY <4>1, <4>2
    <3> QED
      BY <3>2
  <2>3. After(place) = CHOOSE e \in later : \A d \in later : e <= d
    BY <1>3 DEF After
  <2>4. After(place) \in later /\ \A d \in later : After(place) <= d
    BY <2>2, <2>3
  <2> QED
    BY <2>4
<1> QED
  BY <1>2, <1>3

LEMMA AfterType ==
  ASSUME mAllClients \subseteq Clients, NEW place \in Nat
  PROVE  After(place) \in Clients \cup {End} /\ After(place) # None
<1>1. CASE After(place) = End
  BY <1>1 DEF None, End
<1>2. CASE After(place) \in mAllClients
  BY <1>2, RegistryAssumption DEF None
<1> QED
  BY <1>1, <1>2, AfterIsNext

-----------------------------------------------------------------------------

LEMMA RegistryInit == Init => RegistryInv
<1> SUFFICES ASSUME Init
             PROVE  RegistryInv
  OBVIOUS
<1>1. TypeOK
  BY DEF Init, TypeOK
<1>2. it = None /\ it # End /\ it \notin Clients /\ throughout = {}
  BY RegistryAssumption DEF Init, None, End
<1>3. mAllClients = {c \in Clients : conn[c] \in {"connected", "erasing"}}
  BY DEF Init
<1> QED
  BY <1>1, <1>2, <1>3 DEF RegistryInv, Passed

\* A step of a thread of the server that leaves the set alone.
LEMMA LifeStep ==
  ASSUME RegistryInv, NEW c \in Clients,
         OnConnect(c) \/ OnDisconnect(c) \/ Destroy(c)
  PROVE  RegistryInv'
<1>1. UNCHANGED <<mAllClients, it, sending, sent, throughout, present, dangling>>
  BY DEF OnConnect, OnDisconnect, Destroy, Enter, broadcast, history
<1>2. broken' \in BOOLEAN
  BY DEF OnConnect, OnDisconnect, Destroy, Enter, RegistryInv, TypeOK, Modifying
<1>3. \E s \in {"none", "inserting", "erasing"} : conn' = [conn EXCEPT ![c] = s]
  BY DEF OnConnect, OnDisconnect, Destroy, Enter
<1>4. TypeOK'
  BY <1>1, <1>2, <1>3 DEF RegistryInv, TypeOK
<1>5. \A d \in Clients : conn'[d] \in {"connected", "erasing"} <=> conn[d] \in {"connected", "erasing"}
  <2>1. (conn[c] = "none" /\ conn'[c] = "inserting") \/ (conn[c] = "connected" /\ conn'[c] = "erasing")
          \/ (conn[c] = "erased" /\ conn'[c] = "none")
    BY DEF OnConnect, OnDisconnect, Destroy, Enter, RegistryInv, TypeOK
  <2>2. \A d \in Clients \ {c} : conn'[d] = conn[d]
    BY <1>3 DEF RegistryInv, TypeOK
  <2> QED
    BY <2>1, <2>2
<1> QED
  BY <1>1, <1>4, <1>5 DEF RegistryInv, Passed

LEMMA InsertedStep ==
  ASSUME RegistryInv, NEW c \in Clients, Inserted(c)
  PROVE  RegistryInv'
<1>1. UNCHANGED <<it, sending, sent, throughout, dangling, broken>>
  BY DEF Inserted, broadcast
<1>2. TypeOK'
  BY <1>1 DEF Inserted, RegistryInv, TypeOK
<1>3. (mAllClients = {d \in Clients : conn[d] \in {"connected", "erasing"}})'
  <2>1. conn'[c] = "connected" /\ \A d \in Clients \ {c} : conn'[d] = conn[d]
    BY DEF Inserted, RegistryInv, TypeOK
  <2> QED
    BY <2>1 DEF Inserted, RegistryInv
<1> QED
  BY <1>1, <1>2, <1>3 DEF Inserted, RegistryInv, Passed

LEMMA ErasedStep ==
  ASSUME RegistryInv, NEW c \in Clients, Erased(c)
  PROVE  RegistryInv'
<1>1. UNCHANGED <<it, sending, sent, present, broken>>
  BY DEF Erased, broadcast
<1>2. dangling' \in BOOLEAN
  BY DEF Erased, RegistryInv, TypeOK
<1>3. TypeOK'
  BY <1>1, <1>2 DEF Erased, RegistryInv, TypeOK
<1>4. (mAllClients = {d \in Clients : conn[d] \in {"connected", "erasing"}})'
  <2>1. conn'[c] = "erased" /\ \A d \in Clients \ {c} : conn'[d] = conn[d]
    BY DEF Erased, RegistryInv, TypeOK
  <2> QED
    BY <2>1 DEF Erased, RegistryInv
<1> QED
  BY <1>1, <1>3, <1>4 DEF Erased, RegistryInv, Passed

LEMMA BeginStep ==
  ASSUME RegistryInv, Begin
  PROVE  RegistryInv'
<1>1. mAllClients \subseteq Clients /\ 0 \in Nat
  BY DEF RegistryInv, TypeOK
<1>2. it' = After(0) /\ it' \in Clients \cup {End} /\ it' # None
  BY <1>1, AfterType DEF Begin
<1>3. broken' \in BOOLEAN
  BY DEF Begin, Modifying
<1>4. TypeOK'
  BY <1>2, <1>3 DEF Begin, RegistryInv, TypeOK, client
<1>5. \/ it' = End /\ mAllClients = {}
      \/ it' \in mAllClients /\ \A c \in mAllClients : it' <= c
  <2>1. \A c \in mAllClients : c \in Nat /\ c > 0
    BY <1>1, RegistryAssumption
  <2> QED
    BY <1>1, <1>2, <2>1, AfterIsNext
<1>6. Passed'
  <2>1. throughout' = mAllClients /\ End \notin Clients
    BY RegistryAssumption DEF Begin, End
  <2>2. \A c \in mAllClients : c \in Nat
    BY <1>1, RegistryAssumption
  <2> QED
    BY <1>5, <2>1, <2>2, <1>1 DEF Passed
<1>7. it' \in Clients => it' \in mAllClients
  BY <1>5, RegistryAssumption DEF End
<1> QED
  BY <1>4, <1>6, <1>7 DEF Begin, RegistryInv, client

LEMMA SendStep ==
  ASSUME RegistryInv, Send
  PROVE  RegistryInv'
<1>1. broken' \in BOOLEAN
  BY DEF Send, RegistryInv, TypeOK
<1>2. TypeOK'
  BY <1>1 DEF Send, RegistryInv, TypeOK, client, history
<1> QED
  BY <1>2 DEF Send, RegistryInv, Passed, client, history

LEMMA SentStep ==
  ASSUME RegistryInv, Sent, it \in Clients
  PROVE  RegistryInv'
<1>1. broken' \in BOOLEAN
  BY DEF Sent, RegistryInv, TypeOK
<1>2. TypeOK'
  BY <1>1 DEF Sent, RegistryInv, TypeOK, client, history
<1>3. it # None
  BY RegistryAssumption DEF None
<1> QED
  BY <1>2, <1>3 DEF Sent, RegistryInv, Passed, client, history

LEMMA AdvanceStep ==
  ASSUME RegistryInv, Advance
  PROVE  RegistryInv'
<1>1. mAllClients \subseteq Clients /\ it \in Clients /\ it \in sent
  BY DEF RegistryInv, TypeOK, Advance
<1>2. it \in Nat /\ it # None /\ it # End /\ End \notin Clients
  BY <1>1, RegistryAssumption DEF None, End
<1>3. it' = After(it) /\ it' \in Clients \cup {End} /\ it' # None
  BY <1>1, <1>2, AfterType DEF Advance
<1>4. broken' \in BOOLEAN
  BY DEF Advance, RegistryInv, TypeOK, Modifying
<1>5. TypeOK'
  BY <1>3, <1>4 DEF Advance, RegistryInv, TypeOK, client, history
<1>6. throughout \subseteq mAllClients /\ mAllClients \subseteq present
  BY <1>2 DEF RegistryInv
<1>7. \/ it' = End /\ \A c \in mAllClients : c <= it
      \/ it' \in mAllClients /\ \A c \in mAllClients : c > it => it' <= c
  BY <1>1, <1>2, <1>3, AfterIsNext
<1>8. Passed'
  <2>1. UNCHANGED <<throughout, sent>>
    BY DEF Advance, history
  <2> SUFFICES ASSUME NEW c \in throughout, it' = End \/ (it' \in Clients /\ c < it')
               PROVE  c \in sent
    BY <2>1 DEF Passed
  <2>2. c \in Nat /\ c \in mAllClients
    BY <1>1, <1>6, RegistryAssumption
  <2>3. c <= it
    <3>1. CASE it' = End
      BY <1>7, <1>2, <1>1, <2>2, <3>1
    <3>2. CASE it' \in Clients /\ c < it'
      <4>1. it' \in Nat
        BY <3>2, RegistryAssumption
      <4> QED
        BY <1>2, <1>7, <2>2, <3>2, <4>1
    <3> QED
      BY <3>1, <3>2
  <2>4. c < it => c \in sent
    BY <1>1 DEF RegistryInv, Passed
  <2> QED
    BY <1>1, <1>2, <2>2, <2>3, <2>4
<1>9. it' \in Clients => it' \in present
  BY <1>2, <1>6, <1>7
<1> QED
  BY <1>2, <1>5, <1>8, <1>9 DEF Advance, RegistryInv, client, history

LEMMA ReturnStep ==
  ASSUME RegistryInv, Return
  PROVE  RegistryInv'
<1>1. it' = None /\ None # End /\ None \notin Clients
  BY RegistryAssumption DEF Return, None, End
<1>2. TypeOK'
  BY <1>1 DEF Return, RegistryInv, TypeOK, client, history
<1> QED
  BY <1>1, <1>2 DEF Return, RegistryInv, Passed, client, history

\* Only a handler at the iterator is being sent to.
SendingInv == sending => it \in Clients

LEMMA RegistryStep ==
  ASSUME RegistryInv /\ SendingInv, [Next]_vars
  PROVE  (RegistryInv /\ SendingInv)'
<1>1. SendingInv'
  <2>1. CASE UNCHANGED vars
    BY <2>1 DEF vars, broadcast, SendingInv
  <2>2. CASE Broadcast
    <3>1. CASE Begin
      BY <3>1, RegistryAssumption DEF Begin, SendingInv, None
    <3>2. CASE Return
      BY <3>2, RegistryAssumption DEF Return, SendingInv, End
    <3> QED
      BY <2>2, <3>1, <3>2 DEF Broadcast, Send, Sent, Advance, SendingInv
  <2>3. ASSUME NEW c \in Clients,
               OnConnect(c) \/ Inserted(c) \/ OnDisconnect(c) \/ Erased(c) \/ Destroy(c)
        PROVE  SendingInv'
    BY <2>3 DEF OnConnect, Inserted, OnDisconnect, Erased, Destroy, Enter, broadcast, SendingInv
  <2> QED
    BY <2>1, <2>2, <2>3 DEF Next
<1>2. RegistryInv'
  <2>1. CASE UNCHANGED vars
    BY <2>1 DEF vars, client, broadcast, history, RegistryInv, TypeOK, Passed
  <2>2. CASE Broadcast
    <3>1. Sent => it \in Clients
      BY DEF Sent, SendingInv
    <3> QED
      BY <2>2, <3>1, BeginStep, SendStep, SentStep, AdvanceStep, ReturnStep DEF Broadcast
  <2>3. ASSUME NEW c \in Clients,
               OnConnect(c) \/ Inserted(c) \/ OnDisconnect(c) \/ Erased(c) \/ Destroy(c)
        PROVE  RegistryInv'
    BY <2>3, LifeStep, InsertedStep, ErasedStep
  <2> QED
    BY <2>1, <2>2, <2>3 DEF Next
<1> QED
  BY <1>1, <1>2

LEMMA RegistryInvariant == Spec => [](RegistryInv /\ SendingInv)
<1>1. Init => SendingInv
  BY DEF Init, SendingInv
<1> QED
  BY <1>1, RegistryInit, RegistryStep, PTL DEF Spec

(* The iterator is at a handler or at the end, and only clients are sent to *)
(* (client_handler.cpp 38-44).                                              *)
THEOREM RegistryTypeCorrect == Spec => []TypeOK
<1>1. RegistryInv => TypeOK
  BY DEF RegistryInv
<1> QED
  BY <1>1, RegistryInvariant, PTL

(* Every client connected throughout an undisturbed broadcast gets it and   *)
(* nobody does who was gone before, for any number of clients               *)
(* (client_handler.cpp 38-44).                                              *)
THEOREM BroadcastsReachAll == Spec => []BroadcastReachesAll
<1>1. RegistryInv => BroadcastReachesAll
  BY DEF RegistryInv, Passed, BroadcastReachesAll
<1> QED
  BY <1>1, RegistryInvariant, PTL

-----------------------------------------------------------------------------

\* The mutex is held by the thread that is between its lock and its unlock.
MutexInv ==
  /\ mainPc \in {"check", "frame", "lock", "begin", "keep", "end", "finished"}
  /\ pushPc \in {"check", "lock", "copy", "unlock", "send", "finished"}
  /\ slamMutex = "main" <=> mainPc \in {"begin", "keep", "end"}
  /\ slamMutex = "push" <=> pushPc \in {"copy", "unlock"}

\* The last frame is a whole one of the camera, but for the time before the
\* first one, for what PollCurrentFrame() makes of it, and while TrackMonocular()
\* is at it.
FrameInv ==
  /\ mainPc \in {"lock", "begin"} => im \in Frames
  /\ mainPc \in {"keep", "end"} => mCurrentFrame \in Frames \cup {Polled}
  /\ mLastProcessedFrame \in IF mainPc = "end" THEN {Torn, Polled}
                                               ELSE Frames \cup {NoFrame, Polled}

\* What has been copied: of the last frame, which the main loop has left alone
\* since the lock.
CopyInv ==
  /\ pushPc \in {"lock", "copy"} => keys = {}
  /\ pushPc = "unlock" /\ Polled \notin keys =>
       mLastProcessedFrame = Polled \/ keys = {mLastProcessedFrame} \ {NoFrame}
  /\ pushPc \in {"unlock", "send"} /\ Polled \notin keys =>
       \E f \in Frames : keys \subseteq {f}

OverlayInv == MutexInv /\ FrameInv /\ CopyInv

LEMMA OverlayStarts == OverlayInit => OverlayInv
BY DEF OverlayInit, OverlayInv, MutexInv, FrameInv, CopyInv

\* A step of the main loop.  It keeps a frame with the mutex in its hands: the
\* push thread is not between its lock and its unlock then.
LEMMA MainLoopStep ==
  ASSUME OverlayInv, MainLoop
  PROVE  OverlayInv'
<1> USE DEF OverlayInv, MainAt, tracker
<1>1. CASE MainCheck
  BY <1>1 DEF MainCheck, MutexInv, FrameInv, CopyInv
<1>2. CASE GetFrame
  BY <1>2 DEF GetFrame, MutexInv, FrameInv, CopyInv
<1>3. CASE LockForTrack
  BY <1>3 DEF LockForTrack, MutexInv, FrameInv, CopyInv
<1>4. CASE BeginTrack
  BY <1>4 DEF BeginTrack, MutexInv, FrameInv, CopyInv
<1>5. CASE KeepFrame
  <2>1. MutexInv' /\ FrameInv'
    BY <1>5 DEF KeepFrame, MutexInv, FrameInv
  <2>2. CopyInv'
    BY <1>5 DEF KeepFrame, MutexInv, CopyInv
  <2> QED
    BY <2>1, <2>2
<1>6. CASE EndTrack
  <2>1. MutexInv' /\ FrameInv'
    BY <1>6, OverlayAssumption DEF EndTrack, MutexInv, FrameInv, Torn, Polled
  <2>2. CopyInv'
    BY <1>6 DEF EndTrack, MutexInv, CopyInv
  <2> QED
    BY <2>1, <2>2
<1> QED
  BY <1>1, <1>2, <1>3, <1>4, <1>5, <1>6 DEF MainLoop

\* With the mutex in its hands the push thread finds no frame that is torn.
LEMMA CopyOfWholeFrame ==
  ASSUME MutexInv, FrameInv, slamMutex = "push"
  PROVE  mLastProcessedFrame \in Frames \cup {NoFrame, Polled}
BY DEF MutexInv, FrameInv

\* A step of the push thread.
LEMMA PushThreadStep ==
  ASSUME OverlayInv, PushThread
  PROVE  OverlayInv'
<1> USE DEF OverlayInv, PushAt, tracker
<1>1. FrameInv'
  BY DEF PushThread, LookAtState, LockForKeys, BeginCopy, EndCopy, SendReport, PushFinished, FrameInv
<1>2. CASE LookAtState
  <2>1. MutexInv'
    BY <1>2 DEF LookAtState, MutexInv
  <2>2. keys' = {} /\ \E f \in Frames : {} \subseteq {f}
    BY <1>2, OverlayAssumption DEF LookAtState
  <2>3. CopyInv'
    BY <1>2, <2>2 DEF LookAtState, CopyInv
  <2> QED
    BY <1>1, <2>1, <2>3
<1>3. CASE LockForKeys
  BY <1>1, <1>3 DEF LockForKeys, MutexInv, CopyInv
<1>4. CASE BeginCopy
  <2>1. MutexInv'
    BY <1>4 DEF BeginCopy, MutexInv
  <2>2. keys' = {mLastProcessedFrame} \ {NoFrame}
    BY <1>4 DEF BeginCopy, Copy, CopyInv
  <2>3. mLastProcessedFrame \in Frames \cup {NoFrame, Polled}
    BY <1>4, CopyOfWholeFrame DEF BeginCopy, MutexInv
  <2>4. Polled \notin keys' => \E f \in Frames : keys' \subseteq {f}
    BY <2>2, <2>3, OverlayAssumption DEF Polled, NoFrame
  <2>5. CopyInv'
    BY <1>4, <2>2, <2>4 DEF BeginCopy, CopyInv
  <2> QED
    BY <1>1, <2>1, <2>5
<1>5. CASE EndCopy
  <2>1. MutexInv'
    BY <1>5 DEF EndCopy, MutexInv
  <2>2. Polled \notin keys' => \E f \in Frames : keys' \subseteq {f}
    <3> SUFFICES ASSUME Polled \notin keys'
                 PROVE  \E f \in Frames : keys' \subseteq {f}
      OBVIOUS
    <3>1. keys' = keys \cup ({mLastProcessedFrame} \ {NoFrame})
      BY <1>5 DEF EndCopy, Copy
    <3>2. Polled \notin keys /\ mLastProcessedFrame # Polled
      BY <3>1 DEF Polled, NoFrame
    <3>3. keys' = keys /\ pushPc = "unlock"
      BY <1>5, <3>1, <3>2 DEF EndCopy, CopyInv
    <3> QED
      BY <3>2, <3>3 DEF CopyInv
  <2>3. CopyInv'
    BY <1>5, <2>2 DEF EndCopy, CopyInv
  <2> QED
    BY <1>1, <2>1, <2>3
<1>6. CASE SendReport
  BY <1>1, <1>6 DEF SendReport, MutexInv, CopyInv
<1>7. CASE PushFinished
  BY <1>1, <1>7 DEF PushFinished, MutexInv, CopyInv
<1> QED
  BY <1>2, <1>3, <1>4, <1>5, <1>6, <1>7 DEF PushThread

\* A step of slam_track_thread, which has no mutex to hold: the last frame is
\* what it was or what PollCurrentFrame() made of it.
LEMMA SlamTrackStep ==
  ASSUME OverlayInv, SlamTrackThread
  PROVE  OverlayInv'
<1> USE DEF OverlayInv, PollAt, tracker
<1>1. CASE PollCheck
  BY <1>1 DEF PollCheck, MutexInv, FrameInv, CopyInv
<1>2. CASE PollCurrentFrame
  <2>1. UNCHANGED <<slamMutex, mainPc, pushPc, im, keys>>
    BY <1>2 DEF PollCurrentFrame
  <2>2. /\ mCurrentFrame' \in {mCurrentFrame, Polled}
        /\ mLastProcessedFrame' \in {mLastProcessedFrame, Polled}
    BY <1>2 DEF PollCurrentFrame
  <2>3. MutexInv' /\ CopyInv'
    BY <2>1, <2>2 DEF MutexInv, CopyInv
  <2>4. FrameInv'
    BY <2>1, <2>2 DEF FrameInv
  <2> QED
    BY <2>3, <2>4
<1> QED
  BY <1>1, <1>2 DEF SlamTrackThread

LEMMA OverlayInvariant == OverlaySpec => []OverlayInv
<1>1. ASSUME OverlayInv, [OverlayNext]_overlayVars
      PROVE  OverlayInv'
  <2>1. CASE Shutdown
    BY <1>1, <2>1 DEF Shutdown, OverlayInv, MutexInv, FrameInv, CopyInv, tracker
  <2>2. CASE UNCHANGED overlayVars
    BY <1>1, <2>2 DEF overlayVars, OverlayInv, MutexInv, FrameInv, CopyInv, tracker
  <2> QED
    BY <1>1, <2>1, <2>2, MainLoopStep, PushThreadStep, SlamTrackStep DEF OverlayNext
<1> QED
  BY <1>1, OverlayStarts, PTL DEF OverlaySpec

(* The key points of an overlay are of one frame that TrackMonocular() is    *)
(* done with, whatever frames the camera delivers and whatever              *)
(* PollCurrentFrame() does without the mutex, as long as it does it to      *)
(* another frame: the copy is made between lock and unlock, where the main  *)
(* loop cannot come in (mono_raspi.cpp 340-343, 388-392, 397-417).          *)
THEOREM KeysOfOneFrame == OverlaySpec => []KeysAreOfOneFrame
<1>1. OverlayInv => KeysAreOfOneFrame
  BY DEF OverlayInv, CopyInv, KeysAreOfOneFrame
<1> QED
  BY <1>1, OverlayInvariant, PTL
==============================================================================

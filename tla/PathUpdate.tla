------------------------------ MODULE PathUpdate ------------------------------
(***************************************************************************)
(* How the network push thread tells the clients the path of the camera:   *)
(* every half second it sends the key frames of ORB_SLAM2's map that are   *)
(* new since the last time, each with its index.  ORB_SLAM2's threads,     *)
(* which are external, add key frames to the map and take bad ones out     *)
(* meanwhile.                                                              *)
(***************************************************************************)
EXTENDS Integers, Sequences

CONSTANT KeyFrames  \* the key frames there may be

VARIABLES
  gShutdownFlag,
  map,        \* mpMap, in the order of GetAllKeyFrames()
  unborn,     \* the key frames that have not been made yet
  bad,        \* the key frames for which isBad() holds
  pc,         \* where the push thread is: "check", "path", "sleep" or "finished"
  kfs,        \* what GetAllKeyFrames() returned
  prevKeyframeIndex,
  announced,  \* the pairs <<mIndex, key frame>> sent
  repeated,   \* a key frame was sent twice
  shifted     \* a key frame left the map or got in before another one

slam == <<map, unborn, bad, shifted>>
push == <<pc, kfs, prevKeyframeIndex, announced, repeated>>
vars == <<gShutdownFlag, slam, push>>

-----------------------------------------------------------------------------

Init ==
  /\ gShutdownFlag = FALSE
  /\ map = <<>> /\ unborn = KeyFrames /\ bad = {} /\ shifted = FALSE
  /\ pc = "check" /\ kfs = <<>> /\ prevKeyframeIndex = 1
  /\ announced = {} /\ repeated = FALSE

Shutdown ==
  /\ ~gShutdownFlag
  /\ gShutdownFlag' = TRUE
  /\ UNCHANGED <<slam, push>>

(* ORB_SLAM2.                                                              *)

\* The map may be in the order of the addresses of its key frames.
AddKeyFrame(k, i) ==
  /\ k \in unborn
  /\ unborn' = unborn \ {k}
  /\ map' = [j \in 1 .. Len(map) + 1 |->
               IF j < i THEN map[j] ELSE IF j = i THEN k ELSE map[j - 1]]
  /\ shifted' = (shifted \/ i <= Len(map))
  /\ UNCHANGED <<gShutdownFlag, bad, push>>

SetBad(i) ==
  /\ map[i] \notin bad
  /\ bad' = bad \cup {map[i]}
  /\ UNCHANGED <<gShutdownFlag, map, unborn, shifted, push>>

Erase(i) ==
  /\ map[i] \in bad
  /\ map' = [j \in 1 .. Len(map) - 1 |-> IF j < i THEN map[j] ELSE map[j + 1]]
  /\ shifted' = TRUE
  /\ UNCHANGED <<gShutdownFlag, unborn, bad, push>>

Reset ==
  /\ map # <<>>
  /\ map' = <<>>
  /\ shifted' = TRUE
  /\ UNCHANGED <<gShutdownFlag, unborn, bad, push>>

(* The push thread, once its report and metrics are sent.                  *)

\* Fault: the index is a variable of the loop.
LookAtMapAnew ==
  /\ pc = "check" /\ ~gShutdownFlag
  /\ kfs' = map
  /\ prevKeyframeIndex' = 1
  /\ pc' = "path"
  /\ UNCHANGED <<gShutdownFlag, slam, announced, repeated>>

LookAtMap ==
  /\ pc = "check" /\ ~gShutdownFlag
  /\ kfs' = map
  /\ pc' = "path"
  /\ UNCHANGED <<gShutdownFlag, slam, prevKeyframeIndex, announced, repeated>>

Finish ==
  /\ pc = "check" /\ gShutdownFlag
  /\ pc' = "finished"
  /\ UNCHANGED <<gShutdownFlag, slam, kfs, prevKeyframeIndex, announced, repeated>>

Announce(index, k) ==
  /\ announced' = announced \cup {<<index, k>>}
  /\ repeated' = (repeated \/ \E pair \in announced : pair[2] = k)

\* Fault: a bad key frame ends the loop.
NextKeyFrameOrBreak ==
  /\ pc = "path" /\ prevKeyframeIndex < Len(kfs)
  /\ LET kf == kfs[prevKeyframeIndex + 1]
     IN  IF kf \in bad
           THEN pc' = "sleep" /\ UNCHANGED <<prevKeyframeIndex, announced, repeated>>
           ELSE /\ Announce(prevKeyframeIndex, kf)
                /\ prevKeyframeIndex' = prevKeyframeIndex + 1
                /\ UNCHANGED pc
  /\ UNCHANGED <<gShutdownFlag, slam, kfs>>

\* Fault: the loop runs downwards.
NextKeyFrameDown ==
  /\ pc = "path" /\ prevKeyframeIndex < Len(kfs)
  /\ Announce(prevKeyframeIndex, kfs[prevKeyframeIndex + 1])
  /\ prevKeyframeIndex' = prevKeyframeIndex - 1
  /\ UNCHANGED <<gShutdownFlag, slam, pc, kfs>>

\* A vector counts from 0 and a sequence from 1.
NextKeyFrame ==
  /\ pc = "path" /\ prevKeyframeIndex < Len(kfs)
  /\ LET kf == kfs[prevKeyframeIndex + 1]
     IN  IF kf \in bad
           THEN UNCHANGED <<announced, repeated>>
           ELSE Announce(prevKeyframeIndex, kf)
  /\ prevKeyframeIndex' = prevKeyframeIndex + 1
  /\ UNCHANGED <<gShutdownFlag, slam, pc, kfs>>

LoopEnds ==
  /\ pc = "path" /\ prevKeyframeIndex >= Len(kfs)
  /\ pc' = "sleep"
  /\ UNCHANGED <<gShutdownFlag, slam, kfs, prevKeyframeIndex, announced, repeated>>

Wake ==
  /\ pc = "sleep"
  /\ pc' = "check"
  /\ UNCHANGED <<gShutdownFlag, slam, kfs, prevKeyframeIndex, announced, repeated>>

PushThread == LookAtMap \/ Finish \/ NextKeyFrame \/ LoopEnds \/ Wake

Slam ==
  \/ \E k \in KeyFrames : \E i \in 1 .. Len(map) + 1 : AddKeyFrame(k, i)
  \/ \E i \in 1 .. Len(map) : SetBad(i) \/ Erase(i)
  \/ Reset

Next == Shutdown \/ Slam \/ PushThread

Spec == Init /\ [][Next]_vars /\ WF_vars(PushThread)

-----------------------------------------------------------------------------

TypeOK ==
  /\ gShutdownFlag \in BOOLEAN /\ shifted \in BOOLEAN /\ repeated \in BOOLEAN
  /\ map \in Seq(KeyFrames) /\ unborn \subseteq KeyFrames /\ bad \subseteq KeyFrames
  /\ pc \in {"check", "path", "sleep", "finished"}
  /\ kfs \in Seq(KeyFrames)
  /\ prevKeyframeIndex \in Nat
  /\ announced \subseteq Nat \X KeyFrames

(* As long as the map only grows at its end, whatever turns bad meanwhile,  *)
(* a key frame is sent once and with the index it has in the map            *)
(* (mono_raspi.cpp 375-382).                                                *)
PathMatchesMap ==
  ~shifted => /\ ~repeated
              /\ \A pair \in announced :
                   pair[1] + 1 \in 1 .. Len(map) /\ map[pair[1] + 1] = pair[2]

(* When the push thread sleeps, all the good key frames that it saw but the *)
(* first one have been sent, if the map only grew at its end                *)
(* (mono_raspi.cpp 375-382).                                                *)
PathIsComplete ==
  pc = "sleep" /\ ~shifted =>
    \A i \in 2 .. Len(kfs) : kfs[i] \in bad \/ <<i - 1, kfs[i]>> \in announced

(* A key frame of the map that stays good gets to the clients, unless the   *)
(* map is reordered or the program ends (mono_raspi.cpp 329-385).           *)
GoodKeyFramesGetSent ==
  \A k \in KeyFrames :
    (\E i \in 2 .. Len(map) : map[i] = k)
      ~> (k \in bad \/ (\E pair \in announced : pair[2] = k) \/ shifted \/ gShutdownFlag)
==============================================================================

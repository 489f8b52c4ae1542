--------------------------- MODULE PathUpdateProofs ---------------------------
(***************************************************************************)
(* The path that the clients get is that of the map as long as the map     *)
(* only grows at its end, for any number of key frames.                    *)
(***************************************************************************)
EXTENDS PathUpdate, SequenceTheorems, TLAPS

-----------------------------------------------------------------------------

\* No key frame is in the map twice, nor before it is made.
MapInv ==
  /\ \A i, j \in 1 .. Len(map) : map[i] = map[j] => i = j
  /\ \A i \in 1 .. Len(map) : map[i] \notin unborn

\* What the push thread saw is the beginning of the map, and it has dealt with
\* that up to its index.
PathInv ==
  /\ Len(kfs) <= Len(map)
  /\ \A i \in 1 .. Len(kfs) : kfs[i] = map[i]
  /\ prevKeyframeIndex >= 1
  /\ (prevKeyframeIndex = 1 \/ prevKeyframeIndex <= Len(kfs))
  /\ \A pair \in announced :
       /\ pair[1] >= 1 /\ pair[1] < prevKeyframeIndex
       /\ pair[1] + 1 <= Len(map) /\ map[pair[1] + 1] = pair[2]
  /\ \A i \in 2 .. Len(kfs) :
       i <= prevKeyframeIndex => kfs[i] \in bad \/ <<i - 1, kfs[i]>> \in announced
  /\ pc = "sleep" => prevKeyframeIndex >= Len(kfs)
  /\ ~repeated

Inv == TypeOK /\ MapInv /\ (~shifted => PathInv)

-----------------------------------------------------------------------------

LEMMA PathInit == Init => Inv
<1> SUFFICES ASSUME Init
             PROVE  Inv
  OBVIOUS
<1>1. <<>> \in Seq(KeyFrames) /\ Len(<<>>) = 0
  OBVIOUS
<1>2. TypeOK
  BY <1>1 DEF Init, TypeOK
<1>3. MapInv
  BY <1>1 DEF Init, MapInv
<1>4. PathInv
  BY <1>1 DEF Init, PathInv
<1> QED
  BY <1>2, <1>3, <1>4 DEF Inv

\* The map after a key frame has been put into it at a place.
LEMMA AddKeyFrameStep ==
  ASSUME Inv, NEW k \in KeyFrames, NEW i \in 1 .. Len(map) + 1, AddKeyFrame(k, i)
  PROVE  Inv'
<1> DEFINE n == Len(map)
<1>1. map \in Seq(KeyFrames) /\ n \in Nat /\ k \in unborn
  BY DEF Inv, TypeOK, AddKeyFrame
<1>2. map' = [j \in 1 .. n + 1 |-> IF j < i THEN map[j] ELSE IF j = i THEN k ELSE map[j - 1]]
  BY DEF AddKeyFrame
<1>3. UNCHANGED <<gShutdownFlag, bad, pc, kfs, prevKeyframeIndex, announced, repeated>>
  BY DEF AddKeyFrame, push
<1>4. \A j \in 1 .. n : map[j] \in KeyFrames
  BY <1>1, ElementOfSeq
<1> HIDE DEF n
<1>5. ASSUME NEW j \in 1 .. n + 1
      PROVE  \/ j < i /\ j \in 1 .. n /\ map'[j] = map[j]
             \/ j = i /\ map'[j] = k
             \/ j > i /\ j - 1 \in 1 .. n /\ map'[j] = map[j - 1]
  <2>1. i \in 1 .. n + 1
    BY DEF n
  <2> QED
    BY <1>1, <1>2, <2>1
<1>6. map' \in Seq(KeyFrames) /\ Len(map') = n + 1
  <2>1. \A j \in 1 .. n + 1 : map'[j] \in KeyFrames
    BY <1>4, <1>5
  <2>2. map' = [j \in 1 .. n + 1 |-> map'[j]]
    BY <1>2
  <2>3. n + 1 \in Nat
    BY <1>1
  <2> HIDE DEF n
  <2> QED
    BY <2>1, <2>2, <2>3
<1>7. TypeOK'
  <2>1. shifted' \in BOOLEAN /\ unborn' \subseteq KeyFrames
    BY DEF AddKeyFrame, Inv, TypeOK
  <2> QED
    BY <1>3, <1>6, <2>1 DEF Inv, TypeOK
<1>8. MapInv'
  <2>1. unborn' = unborn \ {k}
    BY DEF AddKeyFrame
  <2>2. \A j \in 1 .. n : map[j] # k /\ map[j] \notin unborn
    BY <1>1 DEF Inv, MapInv, n
  <2>3. ASSUME NEW j \in 1 .. n + 1
        PROVE  map'[j] \notin unborn'
    BY <1>5, <2>1, <2>2
  <2>4. ASSUME NEW j \in 1 .. n + 1, NEW l \in 1 .. n + 1, map'[j] = map'[l]
        PROVE  j = l
    <3>1. \A p, q \in 1 .. n : map[p] = map[q] => p = q
      BY DEF Inv, MapInv, n
    <3>2. i \in 1 .. n + 1
      BY DEF n
    <3> QED
      BY <1>1, <1>5, <2>2, <2>4, <3>1, <3>2
  <2> QED
    BY <1>6, <2>3, <2>4 DEF MapInv
<1>9. ASSUME ~shifted'
      PROVE  PathInv'
  <2>1. ~shifted /\ ~(i <= n)
    BY <1>9 DEF AddKeyFrame, n
  <2>2. \A j \in 1 .. n : map'[j] = map[j]
    <3>1. i = n + 1
      BY <1>1, <2>1 DEF n
    <3> QED
      BY <1>1, <1>5, <3>1
  <2>3. PathInv
    BY <2>1 DEF Inv
  <2>4. Len(kfs) <= n /\ Len(kfs) \in Nat /\ \A j \in 1 .. Len(kfs) : j \in 1 .. n
    <3>1. Len(kfs) <= n
      BY <2>3 DEF PathInv, n
    <3>2. Len(kfs) \in Nat
      BY DEF Inv, TypeOK
    <3> QED
      BY <1>1, <3>1, <3>2
  <2>5. \A pair \in announced : pair[1] + 1 \in 1 .. n /\ map[pair[1] + 1] = pair[2]
    <3>1. \A pair \in announced : pair[1] \in Nat /\ pair[1] + 1 <= n /\ map[pair[1] + 1] = pair[2]
      BY <2>3 DEF PathInv, Inv, TypeOK, n
    <3> QED
      BY <1>1, <3>1
  <2>6. \A pair \in announced : pair[1] + 1 <= n + 1
    <3>1. \A pair \in announced : pair[1] \in Nat
      BY DEF Inv, TypeOK
    <3> QED
      BY <1>1, <2>5, <3>1
  <2>7. Len(kfs) <= n + 1 /\ \A j \in 1 .. Len(kfs) : kfs[j] = map'[j]
    <3>1. Len(kfs) <= n + 1
      BY <1>1, <2>4
    <3> QED
      BY <2>2, <2>3, <2>4, <3>1 DEF PathInv
  <2> QED
    BY <1>3, <1>6, <2>2, <2>3, <2>5, <2>6, <2>7 DEF PathInv
<1> QED
  BY <1>7, <1>8, <1>9 DEF Inv

LEMMA EraseStep ==
  ASSUME Inv, NEW i \in 1 .. Len(map), Erase(i)
  PROVE  Inv'
<1> DEFINE n == Len(map)
<1>1. map \in Seq(KeyFrames) /\ n \in Nat /\ shifted'
  BY DEF Inv, TypeOK, Erase
<1>2. map' = [j \in 1 .. n - 1 |-> IF j < i THEN map[j] ELSE map[j + 1]]
  BY DEF Erase
<1>3. i \in 1 .. n /\ \A j \in 1 .. n : map[j] \in KeyFrames
  BY <1>1, ElementOfSeq
<1> HIDE DEF n
<1>4. ASSUME NEW j \in 1 .. n - 1
      PROVE  \/ j < i /\ j \in 1 .. n /\ map'[j] = map[j]
             \/ j >= i /\ j + 1 \in 1 .. n /\ map'[j] = map[j + 1]
  BY <1>1, <1>2, <1>3
<1>5. map' \in Seq(KeyFrames) /\ Len(map') = n - 1
  <2>1. \A j \in 1 .. n - 1 : map'[j] \in KeyFrames
    BY <1>3, <1>4
  <2>2. map' = [j \in 1 .. n - 1 |-> map'[j]]
    BY <1>2
  <2>3. n - 1 \in Nat
    BY <1>1, <1>3
  <2> QED
    BY <2>1, <2>2, <2>3
<1>6. TypeOK'
  BY <1>1, <1>5 DEF Erase, Inv, TypeOK, push
<1>7. MapInv'
  <2>1. \A p, q \in 1 .. n : (map[p] = map[q] => p = q) /\ map[p] \notin unborn
    BY DEF Inv, MapInv, n
  <2>2. \A j, l \in 1 .. n - 1 : (map'[j] = map'[l] => j = l) /\ map'[j] \notin unborn
    BY <1>1, <1>3, <1>4, <2>1
  <2> QED
    BY <1>5, <2>2 DEF MapInv, Erase
<1> QED
  BY <1>1, <1>6, <1>7 DEF Inv

LEMMA OtherSlamStep ==
  ASSUME Inv, Reset \/ Shutdown \/ (\E i \in 1 .. Len(map) : SetBad(i))
  PROVE  Inv'
<1>1. CASE Reset
  <2>1. map' = <<>> /\ <<>> \in Seq(KeyFrames) /\ Len(<<>>) = 0 /\ shifted'
    BY <1>1 DEF Reset
  <2> QED
    BY <1>1, <2>1 DEF Reset, Inv, TypeOK, MapInv, push
<1>2. CASE Shutdown
  BY <1>2 DEF Shutdown, Inv, TypeOK, MapInv, PathInv, slam, push
<1>3. ASSUME NEW i \in 1 .. Len(map), SetBad(i)
      PROVE  Inv'
  <2>1. map[i] \in KeyFrames
    BY ElementOfSeq DEF Inv, TypeOK
  <2>2. bad \subseteq bad' /\ bad' \subseteq KeyFrames
    BY <1>3, <2>1 DEF SetBad, Inv, TypeOK
  <2>3. UNCHANGED <<gShutdownFlag, map, unborn, shifted, pc, kfs, prevKeyframeIndex, announced, repeated>>
    BY <1>3 DEF SetBad, push
  <2>4. TypeOK' /\ MapInv'
    BY <2>2, <2>3 DEF Inv, TypeOK, MapInv
  <2>5. ~shifted' => PathInv'
    BY <2>2, <2>3 DEF Inv, PathInv
  <2> QED
    BY <2>4, <2>5 DEF Inv
<1> QED
  BY <1>1, <1>2, <1>3

LEMMA NextKeyFrameStep ==
  ASSUME Inv, NextKeyFrame
  PROVE  Inv'
<1> DEFINE p  == prevKeyframeIndex
           kf == kfs[p + 1]
<1>1. /\ pc = "path" /\ p < Len(kfs) /\ p' = p + 1 /\ p \in Nat
      /\ UNCHANGED <<gShutdownFlag, map, unborn, bad, shifted, pc, kfs>>
  BY DEF NextKeyFrame, slam, Inv, TypeOK
<1>2. kf \in KeyFrames
  <2>1. kfs \in Seq(KeyFrames) /\ p + 1 \in 1 .. Len(kfs)
    BY <1>1 DEF Inv, TypeOK
  <2> QED
    BY <2>1, ElementOfSeq
<1>3. \/ kf \in bad /\ UNCHANGED <<announced, repeated>>
      \/ announced' = announced \cup {<<p, kf>>} /\ repeated' = (repeated \/ \E pair \in announced : pair[2] = kf)
  BY DEF NextKeyFrame, Announce
<1>4. TypeOK'
  <2>1. announced' \subseteq Nat \X KeyFrames
    BY <1>1, <1>2, <1>3 DEF Inv, TypeOK
  <2>2. repeated' \in BOOLEAN
    BY <1>3 DEF Inv, TypeOK
  <2> QED
    BY <1>1, <2>1, <2>2 DEF Inv, TypeOK
<1>5. MapInv'
  BY <1>1 DEF Inv, MapInv
<1>6. ASSUME ~shifted'
      PROVE  PathInv'
  <2>1. PathInv
    BY <1>1, <1>6 DEF Inv
  <2>2. /\ p >= 1 /\ Len(kfs) \in Nat /\ Len(map) \in Nat /\ Len(kfs) <= Len(map)
    BY <2>1 DEF PathInv, Inv, TypeOK
  <2>3. p + 1 \in 1 .. Len(kfs) /\ p + 1 <= Len(map) /\ p + 1 \in 1 .. Len(map)
    BY <1>1, <2>2
  <2>4. kf = map[p + 1]
    BY <2>1, <2>3 DEF PathInv
  <2>5. \A pair \in announced : pair[1] \in Nat /\ pair[1] < p /\ pair[1] + 1 \in 1 .. Len(map)
                                /\ map[pair[1] + 1] = pair[2]
    <3>1. \A pair \in announced : pair[1] \in Nat
      BY DEF Inv, TypeOK
    <3>2. \A pair \in announced : pair[1] < p /\ pair[1] + 1 <= Len(map) /\ map[pair[1] + 1] = pair[2]
      BY <2>1 DEF PathInv
    <3> QED
      BY <2>2, <3>1, <3>2
  <2>6. \A pair \in announced : pair[2] # kf
    <3>1. \A a, b \in 1 .. Len(map) : map[a] = map[b] => a = b
      BY DEF Inv, MapInv
    <3>2. \A pair \in announced : pair[1] + 1 # p + 1
      BY <1>1, <2>5
    <3> QED
      BY <2>3, <2>4, <2>5, <3>1, <3>2
  <2>7. ~repeated'
    BY <1>3, <2>1, <2>6 DEF PathInv
  <2>8. \A pair \in announced' :
          /\ pair[1] >= 1 /\ pair[1] < p'
          /\ pair[1] + 1 <= Len(map) /\ map[pair[1] + 1] = pair[2]
    <3>1. ASSUME NEW pair \in announced
          PROVE  /\ pair[1] >= 1 /\ pair[1] < p'
                 /\ pair[1] + 1 <= Len(map) /\ map[pair[1] + 1] = pair[2]
      <4>1. pair[1] >= 1 /\ pair[1] + 1 <= Len(map) /\ map[pair[1] + 1] = pair[2]
        BY <2>1 DEF PathInv
      <4>2. pair[1] < p'
        BY <1>1, <2>5
      <4> QED
        BY <4>1, <4>2
    <3>2. <<p, kf>>[1] = p /\ <<p, kf>>[2] = kf
      OBVIOUS
    <3>3. p < p'
      BY <1>1
    <3> QED
      BY <1>3, <2>2, <2>3, <2>4, <3>1, <3>2, <3>3
  <2>9. ASSUME NEW i \in 2 .. Len(kfs), i <= p'
        PROVE  kfs[i] \in bad \/ <<i - 1, kfs[i]>> \in announced'
    <3>1. CASE i <= p
      BY <1>3, <2>1, <3>1 DEF PathInv
    <3>2. CASE i = p + 1
      <4>1. i - 1 = p
        BY <1>1, <3>2
      <4> QED
        BY <1>3, <3>2, <4>1
    <3>3. i <= p \/ i = p + 1
      BY <1>1, <2>9
    <3> QED
      BY <3>1, <3>2, <3>3
  <2>10. p' >= 1 /\ p' <= Len(kfs)
    BY <1>1, <2>2
  <2> QED
    BY <1>1, <2>1, <2>7, <2>8, <2>9, <2>10 DEF PathInv
<1> QED
  BY <1>4, <1>5, <1>6 DEF Inv

LEMMA OtherPushStep ==
  ASSUME Inv, LookAtMap \/ Finish \/ LoopEnds \/ Wake
  PROVE  Inv'
<1>1. UNCHANGED <<gShutdownFlag, map, unborn, bad, shifted, prevKeyframeIndex, announced, repeated>>
  BY DEF LookAtMap, Finish, LoopEnds, Wake, slam
<1>2. pc' \in {"path", "finished", "sleep", "check"} /\ kfs' \in {kfs, map}
  BY DEF LookAtMap, Finish, LoopEnds, Wake
<1>3. TypeOK' /\ MapInv'
  BY <1>1, <1>2 DEF Inv, TypeOK, MapInv
<1>4. ASSUME ~shifted'
      PROVE  PathInv'
  <2>1. PathInv
    BY <1>1, <1>4 DEF Inv
  <2>2. CASE LookAtMap
    <3>1. kfs' = map /\ pc' = "path"
      BY <2>2 DEF LookAtMap
    <3>2. Len(map) <= Len(map) /\ prevKeyframeIndex \in Nat /\ Len(kfs) \in Nat /\ Len(map) \in Nat
      BY DEF Inv, TypeOK
    <3>3. ASSUME NEW i \in 2 .. Len(map), i <= prevKeyframeIndex
          PROVE  map[i] \in bad \/ <<i - 1, map[i]>> \in announced
      <4>1. CASE i <= Len(kfs)
        <5>1. i \in 2 .. Len(kfs) /\ i \in 1 .. Len(kfs)
          BY <3>2, <4>1
        <5> QED
          BY <2>1, <3>3, <5>1 DEF PathInv
      <4>2. CASE ~(i <= Len(kfs))
        <5>1. prevKeyframeIndex = 1 \/ prevKeyframeIndex <= Len(kfs)
          BY <2>1 DEF PathInv
        <5> QED
          BY <3>2, <3>3, <4>2, <5>1
      <4> QED
        BY <4>1, <4>2
    <3>4. prevKeyframeIndex = 1 \/ prevKeyframeIndex <= Len(map)
      <4>1. prevKeyframeIndex = 1 \/ prevKeyframeIndex <= Len(kfs)
        BY <2>1 DEF PathInv
      <4>2. Len(kfs) <= Len(map)
        BY <2>1 DEF PathInv
      <4> QED
        BY <3>2, <4>1, <4>2
    <3> QED
      BY <1>1, <2>1, <3>1, <3>2, <3>3, <3>4 DEF PathInv
  <2>3. CASE Finish \/ Wake
    <3>1. kfs' = kfs /\ pc' # "sleep"
      BY <2>3 DEF Finish, Wake
    <3> QED
      BY <1>1, <2>1, <3>1 DEF PathInv
  <2>4. CASE LoopEnds
    <3>1. kfs' = kfs /\ prevKeyframeIndex >= Len(kfs)
      BY <2>4 DEF LoopEnds
    <3> QED
      BY <1>1, <2>1, <3>1 DEF PathInv
  <2> QED
    BY <2>2, <2>3, <2>4
<1> QED
  BY <1>3, <1>4 DEF Inv

LEMMA PathStep ==
  ASSUME Inv, [Next]_vars
  PROVE  Inv'
<1>1. CASE UNCHANGED vars
  BY <1>1 DEF vars, slam, push, Inv, TypeOK, MapInv, PathInv
<1> QED
  BY <1>1, AddKeyFrameStep, EraseStep, OtherSlamStep, NextKeyFrameStep, OtherPushStep
     DEF Next, Slam, PushThread

LEMMA PathInvariant == Spec => []Inv
BY PathInit, PathStep, PTL DEF Spec

(* The index that is sent is a number and what is sent are key frames       *)
(* (mono_raspi.cpp 375-382).                                                *)
THEOREM PathTypeCorrect == Spec => []TypeOK
<1>1. Inv => TypeOK
  BY DEF Inv
<1> QED
  BY <1>1, PathInvariant, PTL

(* While the map only grows at its end, no key frame is sent twice or with  *)
(* another index than it has in the map, for any number of key frames       *)
(* (mono_raspi.cpp 375-382).                                                *)
THEOREM PathIsThatOfMap == Spec => []PathMatchesMap
<1>1. Inv => PathMatchesMap
  <2> SUFFICES ASSUME Inv, ~shifted, NEW pair \in announced
               PROVE  pair[1] + 1 \in 1 .. Len(map) /\ map[pair[1] + 1] = pair[2]
    BY DEF Inv, PathInv, PathMatchesMap
  <2>1. pair[1] \in Nat /\ Len(map) \in Nat
    BY DEF Inv, TypeOK
  <2>2. pair[1] + 1 <= Len(map) /\ map[pair[1] + 1] = pair[2]
    BY DEF Inv, PathInv
  <2> QED
    BY <2>1, <2>2
<1> QED
  BY <1>1, PathInvariant, PTL

(* And none that is good and not the first one is left out                  *)
(* (mono_raspi.cpp 375-382).                                                *)
THEOREM PathHasNoGaps == Spec => []PathIsComplete
<1>1. Inv => PathIsComplete
  <2> SUFFICES ASSUME Inv, pc = "sleep", ~shifted, NEW i \in 2 .. Len(kfs)
               PROVE  kfs[i] \in bad \/ <<i - 1, kfs[i]>> \in announced
    BY DEF PathIsComplete
  <2>1. prevKeyframeIndex \in Nat /\ Len(kfs) \in Nat /\ prevKeyframeIndex >= Len(kfs)
    BY DEF Inv, TypeOK, PathInv
  <2>2. i <= prevKeyframeIndex
    BY <2>1
  <2> QED
    BY <2>2 DEF Inv, PathInv
<1> QED
  BY <1>1, PathInvariant, PTL
==============================================================================

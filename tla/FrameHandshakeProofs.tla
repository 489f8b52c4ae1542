------------------------- MODULE FrameHandshakeProofs -------------------------
(***************************************************************************)
(* The safety properties of FrameHandshake for every ring of two buffers   *)
(* or more, every length of the speed test, and both start timings.        *)
(***************************************************************************)
EXTENDS FrameHandshake, TLAPS

\* Taking the successor stays in the ring and leaves the slot.
LEMMA SuccessorFact ==
  ASSUME NEW i \in Slots
  PROVE  Successor(i) \in Slots /\ Successor(i) # i
<1> USE HandshakeAssumption DEF Slots, Successor
<1>1. CASE i + 1 < BufferCount
  <2>1. (i + 1) % BufferCount = i + 1
    BY <1>1
  <2> QED BY <1>1, <2>1
<1>2. CASE i + 1 = BufferCount
  <2>1. BufferCount % BufferCount = 0
    OBVIOUS
  <2> QED BY <1>2, <2>1
<1> QED BY <1>1, <1>2
-----------------------------------------------------------------------------
(* The inductive invariant.  The properties speak of units and of slots at *)
(* two program points; the invariant says where the slot of the camera     *)
(* thread can be in between, and what the units are before MainWake.       *)

\* A slot computed before a swap is the current one now, but then the main
\* thread still owes, or has just given, the unit for the next capture.
SlotInv ==
  cameraPc \in {"copy", "stamp"} =>
    \/ slot = Successor(currentCameraBuffer)
    \/ /\ slot = currentCameraBuffer
       /\ nextFrameSignal = 1 \/ mainPc = "release"

\* Nobody has consumed the first frame yet.
SleepInv == mainPc = "sleep" => frameAvailableSignal = 1

\* A warm start loses one of the two units.
WarmUnits == WarmStart /\ mainPc # "sleep" => UnitsInPlay = 1

\* So the index stands still while the camera thread uses it.
WarmSlot ==
  WarmStart /\ cameraPc \in {"copy", "stampTarget", "stamp"} =>
    slot = Successor(currentCameraBuffer)

HandshakeInv == /\ HandshakeTypeOK
                /\ NeverOutOfUnits
                /\ SlotInv
                /\ SleepInv
                /\ WarmUnits
                /\ WarmSlot

\* Type correctness is inductive by itself.
LEMMA TypeStep ==
  ASSUME HandshakeTypeOK, [HandshakeNext]_handshakeVars
  PROVE  HandshakeTypeOK'
<1> USE HandshakeAssumption
    DEF HandshakeTypeOK, CameraPcs, MainPcs, cameraVars, mainVars
<1>1. CASE CameraThread
  <2>1. CASE CameraLoop
    BY <2>1 DEF CameraLoop, CameraAt
  <2>2. CASE CameraWait
    BY <2>2 DEF CameraWait, CameraAt, NextFrame!Wait
  <2>3. CASE CameraGrab
    BY <2>3 DEF CameraGrab, CameraAt
  <2>4. CASE CameraRetrieve
    BY <2>4 DEF CameraRetrieve, CameraAt
  <2>5. CASE CameraStartCopy
    BY <2>5, SuccessorFact DEF CameraStartCopy, CameraAt
  <2>6. CASE CameraEndCopy
    BY <2>6 DEF CameraEndCopy, CameraAt
  <2>7. CASE CameraStartStamp
    BY <2>7, SuccessorFact DEF CameraStartStamp, CameraAt
  <2>8. CASE CameraEndStamp
    BY <2>8 DEF CameraEndStamp, CameraAt
  <2>9. CASE CameraPost
    BY <2>9 DEF CameraPost, CameraAt, FrameAvailable!Notify
  <2> QED
    BY <1>1, <2>1, <2>2, <2>3, <2>4, <2>5, <2>6, <2>7, <2>8, <2>9
    DEF CameraThread
<1>2. CASE MainThread
  <2>1. CASE MainWake
    BY <2>1 DEF MainWake, MainAt
  <2>2. CASE MainWait
    BY <2>2 DEF MainWait, MainAt, FrameAvailable!Wait
  <2>3. CASE MainGet
    BY <2>3 DEF MainGet, MainAt
  <2>4. CASE MainCopy
    BY <2>4 DEF MainCopy, MainAt
  <2>5. CASE MainSwap
    BY <2>5, SuccessorFact DEF MainSwap, MainAt
  <2>6. CASE MainRelease
    <3>1. mainPc' \in MainPcs
      BY <2>6 DEF MainRelease, MainAt
    <3>2. testLeft' \in 0 .. SpeedTestFrames
      BY <2>6 DEF MainRelease, InSpeedTest
    <3> QED BY <2>6, <3>1, <3>2 DEF MainRelease, NextFrame!Notify
  <2>7. CASE MainOpenSerial
    BY <2>7 DEF MainOpenSerial, MainAt
  <2>8. CASE MainListen
    BY <2>8 DEF MainListen, MainAt
  <2>9. CASE MainStartSlam
    BY <2>9 DEF MainStartSlam, MainAt
  <2>10. CASE MainLoop
    BY <2>10 DEF MainLoop, MainAt
  <2>11. CASE MainTrack
    BY <2>11 DEF MainTrack, MainAt
  <2>12. CASE MainStop
    BY <2>12 DEF MainStop, MainAt
  <2> QED
    BY <1>2, <2>1, <2>2, <2>3, <2>4, <2>5, <2>6, <2>7, <2>8, <2>9, <2>10,
       <2>11, <2>12 DEF MainThread
<1>3. CASE PostShutdown
  BY <1>3 DEF PostShutdown
<1>4. CASE UNCHANGED handshakeVars
  BY <1>4 DEF handshakeVars
<1> QED BY <1>1, <1>2, <1>3, <1>4 DEF HandshakeNext

LEMMA InitTypeOK == HandshakeInit => HandshakeTypeOK
<1> SUFFICES ASSUME HandshakeInit PROVE HandshakeTypeOK
  OBVIOUS
<1>1. nextFrameSignal \in 0 .. 1 /\ frameAvailableSignal \in 0 .. 1
  BY DEF HandshakeInit, NextFrame!Init, FrameAvailable!Init
<1>2. currentCameraBuffer \in Slots /\ slot \in Slots
  BY HandshakeAssumption DEF HandshakeInit, Slots
<1>3. testLeft \in 0 .. SpeedTestFrames
  BY HandshakeAssumption DEF HandshakeInit
<1> QED BY <1>1, <1>2, <1>3
        DEF HandshakeInit, HandshakeTypeOK, CameraPcs, MainPcs

(* Every variable of the handshake keeps its type, for all constants.      *)
THEOREM HandshakeTypeCorrect == HandshakeSpec => []HandshakeTypeOK
<1>1. HandshakeTypeOK /\ [HandshakeNext]_handshakeVars => HandshakeTypeOK'
  BY TypeStep
<1> QED BY InitTypeOK, <1>1, PTL DEF HandshakeSpec
-----------------------------------------------------------------------------
(* HandshakeInv is inductive. *)

LEMMA InvInit == HandshakeInit => HandshakeInv
<1> SUFFICES ASSUME HandshakeInit PROVE HandshakeInv
  OBVIOUS
<1>1. HandshakeTypeOK
  BY InitTypeOK
<1>2. UnitsInPlay = 2
  BY DEF HandshakeInit, NextFrame!Init, FrameAvailable!Init, UnitsInPlay,
         CameraHolds, MainHolds
<1> QED BY <1>1, <1>2 DEF HandshakeInit, HandshakeInv, NeverOutOfUnits,
           SlotInv, SleepInv, WarmUnits, WarmSlot, FrameAvailable!Init

LEMMA InvStep ==
  ASSUME HandshakeInv, [HandshakeNext]_handshakeVars
  PROVE  HandshakeInv'
<1>0. HandshakeTypeOK /\ HandshakeTypeOK'
  BY TypeStep DEF HandshakeInv
<1> USE <1>0 DEF HandshakeInv, HandshakeTypeOK, NeverOutOfUnits, UnitsInPlay,
                CameraHolds, MainHolds, SlotInv, SleepInv, WarmUnits, WarmSlot,
                CameraPcs, MainPcs, cameraVars, mainVars
<1>1. CASE CameraThread
  <2>1. CASE CameraLoop
    BY <2>1 DEF CameraLoop, CameraAt
  <2>2. CASE CameraWait
    BY <2>2 DEF CameraWait, CameraAt, NextFrame!Wait
  <2>3. CASE CameraGrab
    BY <2>3 DEF CameraGrab, CameraAt
  <2>4. CASE CameraRetrieve
    BY <2>4 DEF CameraRetrieve, CameraAt
  <2>5. CASE CameraStartCopy
    BY <2>5 DEF CameraStartCopy, CameraAt
  <2>6. CASE CameraEndCopy
    BY <2>6 DEF CameraEndCopy, CameraAt
  <2>7. CASE CameraStartStamp
    BY <2>7 DEF CameraStartStamp, CameraAt
  <2>8. CASE CameraEndStamp
    BY <2>8 DEF CameraEndStamp, CameraAt
  <2>9. CASE CameraPost
    BY <2>9 DEF CameraPost, CameraAt, FrameAvailable!Notify
  <2> QED
    BY <1>1, <2>1, <2>2, <2>3, <2>4, <2>5, <2>6, <2>7, <2>8, <2>9
    DEF CameraThread
<1>2. CASE MainThread
  <2>1. CASE MainWake
    BY <2>1 DEF MainWake, MainAt, FirstFramePosted
  <2>2. CASE MainWait
    BY <2>2 DEF MainWait, MainAt, FrameAvailable!Wait
  <2>3. CASE MainGet
    BY <2>3 DEF MainGet, MainAt
  <2>4. CASE MainCopy
    BY <2>4 DEF MainCopy, MainAt
  <2>5. CASE MainSwap
    BY <2>5 DEF MainSwap, MainAt
  <2>6. CASE MainRelease
    BY <2>6 DEF MainRelease, MainAt, NextFrame!Notify, InSpeedTest
  <2>7. CASE MainOpenSerial
    BY <2>7 DEF MainOpenSerial, MainAt
  <2>8. CASE MainListen
    BY <2>8 DEF MainListen, MainAt
  <2>9. CASE MainStartSlam
    BY <2>9 DEF MainStartSlam, MainAt
  <2>10. CASE MainLoop
    BY <2>10 DEF MainLoop, MainAt
  <2>11. CASE MainTrack
    BY <2>11 DEF MainTrack, MainAt
  <2>12. CASE MainStop
    BY <2>12 DEF MainStop, MainAt
  <2> QED
    BY <1>2, <2>1, <2>2, <2>3, <2>4, <2>5, <2>6, <2>7, <2>8, <2>9, <2>10, <2>11, <2>12
    DEF MainThread
<1>3. CASE PostShutdown
  BY <1>3 DEF PostShutdown
<1>4. CASE UNCHANGED handshakeVars
  BY <1>4 DEF handshakeVars
<1> QED BY <1>1, <1>2, <1>3, <1>4 DEF HandshakeNext

LEMMA InvAlways == HandshakeSpec => []HandshakeInv
<1>1. HandshakeInv /\ [HandshakeNext]_handshakeVars => HandshakeInv'
  BY InvStep
<1> QED BY InvInit, <1>1, PTL DEF HandshakeSpec
-----------------------------------------------------------------------------
(* The properties. *)

(* For every ring and every start timing, one or two units are in play, so  *)
(* that the saturating semaphores never lose the last one.                  *)
THEOREM UnitsNeverRunOut == HandshakeSpec => []NeverOutOfUnits
<1>1. HandshakeInv => NeverOutOfUnits
  BY DEF HandshakeInv
<1> QED BY InvAlways, <1>1, PTL

(* For every ring and every start timing, the two threads never access the  *)
(* same slot at the same time.  A slot computed before a swap can be the    *)
(* current one, but then (SlotInv) a unit is with the next capture or with  *)
(* the release, and a main thread in the ring would make it three.          *)
THEOREM SlotsNeverRace == HandshakeSpec => []NoSlotRace
<1>1. HandshakeInv => NoSlotRace
  <2> SUFFICES ASSUME HandshakeInv,
                      slot = currentCameraBuffer,
                      cameraPc \in {"copy", "stamp"},
                      mainPc \in {"copy", "get"}
               PROVE  FALSE
    BY DEF NoSlotRace
  <2>1. slot # Successor(currentCameraBuffer)
    BY SuccessorFact DEF HandshakeInv, HandshakeTypeOK
  <2>2. nextFrameSignal = 1
    BY <2>1 DEF HandshakeInv, SlotInv
  <2>3. UnitsInPlay >= 3
    BY <2>2 DEF HandshakeInv, HandshakeTypeOK, UnitsInPlay, CameraHolds,
                MainHolds
  <2> QED BY <2>3 DEF HandshakeInv, NeverOutOfUnits
<1> QED BY InvAlways, <1>1, PTL

(* When the first capture beats usleep(100000), the two threads alternate.  *)
THEOREM WarmStartAlternates == HandshakeSpec => []Alternation
<1>1. HandshakeInv => Alternation
  BY DEF HandshakeInv, HandshakeTypeOK, WarmUnits, UnitsInPlay, Alternation
<1> QED BY InvAlways, <1>1, PTL

(* And then an image and its capture time always go to the same slot.       *)
THEOREM WarmStampFollowsImage == HandshakeSpec => StampFollowsImage
<1>1. HandshakeInv /\ [HandshakeNext]_handshakeVars
        => [WarmStart /\ CameraStartStamp => slot' = slot]_handshakeVars
  BY DEF HandshakeInv, WarmSlot, CameraStartStamp, CameraAt
<1> QED BY InvAlways, <1>1, PTL DEF HandshakeSpec, StampFollowsImage
==============================================================================

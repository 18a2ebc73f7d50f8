------------------------- MODULE MediaEncoderProofs -------------------------
(***************************************************************************)
(* MediaEncoder for every Kind, number of sessions and number of pushes:   *)
(* its types and its agreement with the record button; then, that a queue  *)
(* holds only what its own session captured, and that the codec refuses a  *)
(* call, and a thread encodes what another session captured, only after    *)
(* two sessions' threads overlapped; last, that until then every recording *)
(* of the video encoder is a FrameChannel.                                 *)
(***************************************************************************)
EXTENDS MCMediaEncoder, SequenceTheorems, TLAPS

(* What the fields may refer to, at each place of each thread: the type    *)
(* invariant alone is not inductive, because a thread dereferences mQueue   *)
(* and its local copies without a test.                                    *)
Linked ==
  /\ (ui # "idle" \/ recording) => session \in Sessions
  /\ mState = "INITIALIZED" => mQueue \in Sessions
  /\ \A t \in Sessions : pc[t] # "none" => mQueue \in Sessions
  /\ \A t \in Sessions : pc[t] = "wait" => waitsOn[t] \in Sessions
  /\ \A t \in Sessions : pc[t] \in {"encode", "drain"} => held[t] \in Item
  /\ producer # "off" => recordThread \in Sessions
  /\ producer = "push" => mQueue \in Sessions

(* What the UI thread has established at each place of onClick.            *)
Off == mState = "UNINITIALIZED" /\ mEncState = "STOPPED"
On == mState = "INITIALIZED" /\ mEncState = "ENCODING"

AtRest == ui \in {"idle", "startRecord"} /\ recording
Control ==
  /\ ui = "idle" /\ ~recording => Off
  /\ AtRest => On \/ Off
  /\ ui \in {"create", "configure", "queue"} => recording /\ Off
  /\ ui = "newThread" => recording /\ mEncState = "STOPPED"
  /\ ui = "startThread" =>
       /\ recording /\ mState = "INITIALIZED" /\ mEncState = "STOPPED"
       /\ mEncodeThread = session
  /\ ui = "startRecord" => recording
  /\ ui = "flags" => ~recording /\ On
  /\ ui \in {"interrupt", "stopRecord", "join"} => ~recording /\ Off
  /\ mEncState = "ENCODING" => mState = "INITIALIZED" /\ mEncodeThread = session
  /\ \A t \in Sessions : interrupted[t] =>
       t < session \/ (t = session /\ ~recording /\ Off)

IInv == TypeOK /\ Linked /\ Control

USE KindAssumption, BoundAssumption DEF Null, Sessions

-----------------------------------------------------------------------------
(* The invariant holds when the activity has been created.                 *)
LEMMA InitInv == Init => IInv
<1> SUFFICES ASSUME Init PROVE IInv
  OBVIOUS
<1>1. TypeOK
  <2>1. recording \in BOOLEAN /\ mic \in BOOLEAN /\ overlap \in BOOLEAN
    BY DEF Init
  <2>2. UIType /\ FieldType
    BY <2>1 DEF Init, UIType, FieldType, UIs
  <2>3. ObjectType
    BY DEF Init, ObjectType, CodecStates
  <2>4. ThreadType
    BY DEF Init, ThreadType, PCs
  <2>5. MicType
    BY <2>1 DEF Init, MicType, MicPCs
  <2>6. HistoryType
    <3>1. encoded \in [Sessions -> Seq([by : Sessions, n : 0..MaxPushes])]
      BY DEF Init
    <3>2. crashed \in {"no", "configure", "codec"}
      BY DEF Init
    <3>3. QED
      BY <2>1, <3>1, <3>2 DEF HistoryType
  <2>7. QED
    BY <2>2, <2>3, <2>4, <2>5, <2>6 DEF TypeOK
<1>2. Linked
  BY DEF Init, Linked
<1>3. Control
  BY DEF Init, Control, Off, On, AtRest
<1>4. QED
  BY <1>1, <1>2, <1>3 DEF IInv

(* Every step of onClick and of the camera callback keeps the invariant.   *)
LEMMA UIInv ==
  ASSUME IInv, UI
  PROVE  IInv'
<1> USE DEF IInv, uiVars, fieldVars, threadVars, micVars
<1>1. CASE RecordOn
  <2>1. TypeOK'
    <3>1. UIType'
      BY <1>1 DEF TypeOK, UIType, RecordOn, UIs
    <3>2. FieldType'
      BY <1>1 DEF TypeOK, UIType, FieldType, RecordOn
    <3>3. ObjectType'
      BY <1>1 DEF TypeOK, ObjectType, RecordOn
    <3>4. ThreadType'
      BY <1>1 DEF TypeOK, ThreadType, RecordOn
    <3>5. MicType'
      BY <1>1 DEF TypeOK, UIType, MicType, RecordOn
    <3>6. HistoryType'
      BY <1>1 DEF TypeOK, HistoryType, RecordOn
    <3>7. QED
      BY <3>1, <3>2, <3>3, <3>4, <3>5, <3>6 DEF TypeOK
  <2>2. Linked'
    BY <1>1 DEF TypeOK, UIType, FieldType, ObjectType, ThreadType, MicType,
       HistoryType, Linked, RecordOn
  <2>3. Control'
    BY <1>1 DEF TypeOK, UIType, FieldType, ObjectType, ThreadType, MicType,
       HistoryType, Control, Off, On, AtRest, RecordOn
  <2>4. QED
    BY <2>1, <2>2, <2>3 DEF IInv
<1>2. CASE SetupCreate
  <2>1. TypeOK'
    <3>1. UIType'
      BY <1>2 DEF TypeOK, UIType, SetupCreate, UIs
    <3>2. FieldType'
      BY <1>2 DEF TypeOK, UIType, FieldType, SetupCreate
    <3>3. ObjectType'
      BY <1>2 DEF TypeOK, ObjectType, SetupCreate, CodecStates
    <3>4. ThreadType'
      BY <1>2 DEF TypeOK, ThreadType, SetupCreate
    <3>5. MicType'
      BY <1>2 DEF TypeOK, MicType, SetupCreate
    <3>6. HistoryType'
      BY <1>2 DEF TypeOK, HistoryType, SetupCreate
    <3>7. QED
      BY <3>1, <3>2, <3>3, <3>4, <3>5, <3>6 DEF TypeOK
  <2>2. Linked'
    BY <1>2 DEF TypeOK, UIType, FieldType, ObjectType, ThreadType, MicType,
       HistoryType, Linked, SetupCreate
  <2>3. Control'
    BY <1>2 DEF TypeOK, UIType, FieldType, ObjectType, ThreadType, MicType,
       HistoryType, Control, Off, On, AtRest, SetupCreate
  <2>4. QED
    BY <2>1, <2>2, <2>3 DEF IInv
<1>3. CASE SetupConfigure
  <2>1. TypeOK'
    BY <1>3 DEF TypeOK, UIType, FieldType, ObjectType, ThreadType, MicType,
       HistoryType, SetupConfigure, Crash, CodecStates, UIs
  <2>2. Linked'
    BY <1>3 DEF TypeOK, UIType, FieldType, ObjectType, ThreadType, MicType,
       HistoryType, Linked, SetupConfigure, Crash
  <2>3. Control'
    BY <1>3 DEF TypeOK, UIType, FieldType, ObjectType, ThreadType, MicType,
       HistoryType, Control, Off, On, AtRest, SetupConfigure, Crash
  <2>4. QED
    BY <2>1, <2>2, <2>3 DEF IInv
<1>4. CASE SetupQueue
  <2>1. TypeOK'
    <3>1. UIType'
      BY <1>4 DEF TypeOK, UIType, SetupQueue, UIs
    <3>2. FieldType'
      BY <1>4 DEF TypeOK, UIType, FieldType, SetupQueue
    <3>3. ObjectType'
      BY <1>4 DEF TypeOK, ObjectType, SetupQueue
    <3>4. ThreadType'
      BY <1>4 DEF TypeOK, ThreadType, SetupQueue
    <3>5. MicType'
      BY <1>4 DEF TypeOK, UIType, MicType, SetupQueue
    <3>6. HistoryType'
      BY <1>4 DEF TypeOK, HistoryType, SetupQueue
    <3>7. QED
      BY <3>1, <3>2, <3>3, <3>4, <3>5, <3>6 DEF TypeOK
  <2>2. Linked'
    BY <1>4 DEF TypeOK, UIType, FieldType, ObjectType, ThreadType, MicType,
       HistoryType, Linked, SetupQueue
  <2>3. Control'
    BY <1>4 DEF TypeOK, UIType, FieldType, ObjectType, ThreadType, MicType,
       HistoryType, Control, Off, On, AtRest, SetupQueue
  <2>4. QED
    BY <2>1, <2>2, <2>3 DEF IInv
<1>5. CASE StartNewThread
  <2>1. TypeOK'
    <3>1. UIType'
      BY <1>5 DEF TypeOK, UIType, StartNewThread, AfterStart, UIs
    <3>2. FieldType'
      BY <1>5 DEF TypeOK, UIType, FieldType, StartNewThread
    <3>3. ObjectType'
      BY <1>5 DEF TypeOK, ObjectType, StartNewThread
    <3>4. ThreadType'
      BY <1>5 DEF TypeOK, ThreadType, StartNewThread
    <3>5. MicType'
      BY <1>5 DEF TypeOK, UIType, MicType, StartNewThread
    <3>6. HistoryType'
      BY <1>5 DEF TypeOK, HistoryType, StartNewThread
    <3>7. QED
      BY <3>1, <3>2, <3>3, <3>4, <3>5, <3>6 DEF TypeOK
  <2>2. Linked'
    BY <1>5 DEF TypeOK, UIType, FieldType, ObjectType, ThreadType, MicType,
       HistoryType, Linked, StartNewThread, AfterStart
  <2>3. Control'
    BY <1>5 DEF TypeOK, UIType, FieldType, ObjectType, ThreadType, MicType,
       HistoryType, Control, Off, On, AtRest, StartNewThread, AfterStart
  <2>4. QED
    BY <2>1, <2>2, <2>3 DEF IInv
<1>6. CASE StartThread
  <2>1. TypeOK'
    <3>1. UIType'
      BY <1>6 DEF TypeOK, UIType, StartThread, AfterStart, UIs
    <3>2. FieldType'
      BY <1>6 DEF TypeOK, FieldType, StartThread, AfterStart
    <3>3. ObjectType'
      BY <1>6 DEF TypeOK, ObjectType, StartThread, AfterStart
    <3>4. ThreadType'
      BY <1>6 DEF TypeOK, ThreadType, StartThread, AfterStart, PCs
    <3>5. MicType'
      BY <1>6 DEF TypeOK, MicType, StartThread, AfterStart
    <3>6. HistoryType'
      BY <1>6 DEF TypeOK, HistoryType, StartThread, AfterStart
    <3>7. QED
      BY <3>1, <3>2, <3>3, <3>4, <3>5, <3>6 DEF TypeOK
  <2>2. Linked'
    <3>1. session \in Sessions /\ mEncodeThread = session /\ mQueue \in Sessions
      BY <1>6 DEF Linked, Control, StartThread
    <3>2. \A t \in Sessions : pc'[t] = "new" \/ pc'[t] = pc[t]
      BY <1>6, <3>1 DEF TypeOK, ThreadType, StartThread
    <3>3. QED
      BY <1>6, <3>1, <3>2 DEF Linked, StartThread, AfterStart
  <2>3. Control'
    BY <1>6 DEF TypeOK, UIType, FieldType, ObjectType, ThreadType, MicType,
       HistoryType, Control, Off, On, AtRest, StartThread, AfterStart
  <2>4. QED
    BY <2>1, <2>2, <2>3 DEF IInv
<1>7. CASE StartRecord
  <2>1. TypeOK'
    <3>1. UIType'
      BY <1>7 DEF TypeOK, UIType, StartRecord, UIs
    <3>2. FieldType'
      BY <1>7 DEF TypeOK, UIType, FieldType, StartRecord
    <3>3. ObjectType'
      BY <1>7 DEF TypeOK, ObjectType, StartRecord
    <3>4. ThreadType'
      BY <1>7 DEF TypeOK, ThreadType, StartRecord
    <3>5. MicType'
      BY <1>7 DEF TypeOK, UIType, MicType, StartRecord, MicPCs
    <3>6. HistoryType'
      BY <1>7 DEF TypeOK, HistoryType, StartRecord
    <3>7. QED
      BY <3>1, <3>2, <3>3, <3>4, <3>5, <3>6 DEF TypeOK
  <2>2. Linked'
    BY <1>7 DEF TypeOK, UIType, FieldType, ObjectType, ThreadType, MicType,
       HistoryType, Linked, StartRecord
  <2>3. Control'
    BY <1>7 DEF TypeOK, UIType, FieldType, ObjectType, ThreadType, MicType,
       HistoryType, Control, Off, On, AtRest, StartRecord
  <2>4. QED
    BY <2>1, <2>2, <2>3 DEF IInv
<1>8. CASE RecordOff
  <2>1. TypeOK'
    BY <1>8 DEF TypeOK, UIType, FieldType, ObjectType, ThreadType, MicType,
       HistoryType, RecordOff, AfterStop, UIs
  <2>2. Linked'
    BY <1>8 DEF TypeOK, UIType, FieldType, ObjectType, ThreadType, MicType,
       HistoryType, Linked, RecordOff, AfterStop
  <2>3. Control'
    BY <1>8 DEF TypeOK, UIType, FieldType, ObjectType, ThreadType, MicType,
       HistoryType, Control, Off, On, AtRest, RecordOff, AfterStop
  <2>4. QED
    BY <2>1, <2>2, <2>3 DEF IInv
<1>9. CASE StopFlags
  <2>1. TypeOK'
    BY <1>9 DEF TypeOK, UIType, FieldType, ObjectType, ThreadType, MicType,
       HistoryType, StopFlags, UIs
  <2>2. Linked'
    BY <1>9 DEF TypeOK, UIType, FieldType, ObjectType, ThreadType, MicType,
       HistoryType, Linked, StopFlags
  <2>3. Control'
    BY <1>9 DEF TypeOK, UIType, FieldType, ObjectType, ThreadType, MicType,
       HistoryType, Control, Off, On, AtRest, StopFlags
  <2>4. QED
    BY <2>1, <2>2, <2>3 DEF IInv
<1>10. CASE StopInterrupt
  <2>1. TypeOK'
    BY <1>10 DEF TypeOK, UIType, FieldType, ObjectType, ThreadType, MicType,
       HistoryType, StopInterrupt, AfterStop, UIs
  <2>2. Linked'
    BY <1>10 DEF TypeOK, UIType, FieldType, ObjectType, ThreadType, MicType,
       HistoryType, Linked, StopInterrupt, AfterStop
  <2>3. Control'
    BY <1>10 DEF TypeOK, UIType, FieldType, ObjectType, ThreadType, MicType,
       HistoryType, Control, Off, On, AtRest, StopInterrupt, AfterStop
  <2>4. QED
    BY <2>1, <2>2, <2>3 DEF IInv
<1>11. CASE StopRecord
  <2>1. TypeOK'
    BY <1>11 DEF TypeOK, UIType, FieldType, ObjectType, ThreadType, MicType,
       HistoryType, StopRecord, UIs
  <2>2. Linked'
    BY <1>11 DEF TypeOK, UIType, FieldType, ObjectType, ThreadType, MicType,
       HistoryType, Linked, StopRecord
  <2>3. Control'
    BY <1>11 DEF TypeOK, UIType, FieldType, ObjectType, ThreadType, MicType,
       HistoryType, Control, Off, On, AtRest, StopRecord
  <2>4. QED
    BY <2>1, <2>2, <2>3 DEF IInv
<1>12. CASE JoinRecordThread
  <2>1. TypeOK'
    BY <1>12 DEF TypeOK, UIType, FieldType, ObjectType, ThreadType, MicType,
       HistoryType, JoinRecordThread, UIs
  <2>2. Linked'
    BY <1>12 DEF TypeOK, UIType, FieldType, ObjectType, ThreadType, MicType,
       HistoryType, Linked, JoinRecordThread
  <2>3. Control'
    BY <1>12 DEF TypeOK, UIType, FieldType, ObjectType, ThreadType, MicType,
       HistoryType, Control, Off, On, AtRest, JoinRecordThread
  <2>4. QED
    BY <2>1, <2>2, <2>3 DEF IInv
<1>13. CASE PushFrame
  <2>1. TypeOK'
    <3>1. UIType'
      BY <1>13 DEF TypeOK, UIType, PushFrame
    <3>2. FieldType'
      BY <1>13 DEF TypeOK, FieldType, PushFrame
    <3>3. ObjectType'
      <4> DEFINE item == [src |-> session, n |-> pushed + 1]
      <4>1. item \in Item
        BY <1>13 DEF TypeOK, UIType, MicType, Linked, Item, PushFrame
      <4>2. mQueue \in Sessions /\ queue[mQueue] \in Seq(Item)
        BY <1>13 DEF TypeOK, ObjectType, Linked, PushFrame
      <4>3. Append(queue[mQueue], item) \in Seq(Item)
        BY <4>1, <4>2
      <4> HIDE DEF item
      <4>4. queue' = [queue EXCEPT ![mQueue] = Append(queue[mQueue], item)]
        BY <1>13 DEF PushFrame, item
      <4>5. codec' = codec
        BY <1>13 DEF PushFrame
      <4>6. QED
        BY <4>2, <4>3, <4>4, <4>5 DEF TypeOK, ObjectType
    <3>4. ThreadType'
      BY <1>13 DEF TypeOK, ThreadType, PushFrame
    <3>5. MicType'
      BY <1>13 DEF TypeOK, UIType, MicType, PushFrame
    <3>6. HistoryType'
      BY <1>13 DEF TypeOK, HistoryType, PushFrame
    <3>7. QED
      BY <3>1, <3>2, <3>3, <3>4, <3>5, <3>6 DEF TypeOK
  <2>2. Linked'
    BY <1>13 DEF TypeOK, UIType, FieldType, ObjectType, ThreadType, MicType,
       HistoryType, Linked, PushFrame
  <2>3. Control'
    BY <1>13 DEF TypeOK, UIType, FieldType, ObjectType, ThreadType, MicType,
       HistoryType, Control, Off, On, AtRest, PushFrame
  <2>4. QED
    BY <2>1, <2>2, <2>3 DEF IInv
<1>14. QED
  BY <1>1, <1>2, <1>3, <1>4, <1>5, <1>6, <1>7, <1>8, <1>9, <1>10, <1>11, <1>12, <1>13 DEF UI

(* Every step of AudioLoader's record thread keeps it.                     *)
LEMMA RecordThreadInv ==
  ASSUME IInv, RecordThread
  PROVE  IInv'
<1> USE DEF IInv, uiVars, fieldVars, threadVars, micVars
<1>1. CASE MicTest
  <2>1. TypeOK'
    BY <1>1 DEF TypeOK, UIType, FieldType, ObjectType, ThreadType, MicType,
       HistoryType, MicTest, Mic, MicPCs
  <2>2. Linked'
    BY <1>1 DEF TypeOK, UIType, FieldType, ObjectType, ThreadType, MicType,
       HistoryType, Linked, MicTest, Mic
  <2>3. Control'
    <3>1. UNCHANGED <<uiVars, mState, mEncState, mEncodeThread, interrupted>>
      BY <1>1 DEF MicTest, Mic
    <3>2. QED
      BY <3>1 DEF Control, Off, On, AtRest
  <2>4. QED
    BY <2>1, <2>2, <2>3 DEF IInv
<1>2. CASE MicRead
  <2>1. TypeOK'
    <3>1. UIType'
      BY <1>2 DEF TypeOK, UIType, MicRead, Mic
    <3>2. FieldType'
      BY <1>2 DEF TypeOK, FieldType, MicRead, Mic
    <3>3. ObjectType'
      BY <1>2 DEF TypeOK, ObjectType, MicRead, Mic
    <3>4. ThreadType'
      BY <1>2 DEF TypeOK, ThreadType, MicRead, Mic
    <3>5. MicType'
      <4>1. mic' \in BOOLEAN
        BY <1>2 DEF TypeOK, MicType, MicRead
      <4>2. pushed' \in 0..MaxPushes
        BY <1>2 DEF TypeOK, MicType, MicRead
      <4>3. recordThread' \in 0..session'
        BY <1>2 DEF TypeOK, MicType, MicRead
      <4>4. producer' \in MicPCs
        BY <1>2 DEF MicRead, Mic, MicPCs
      <4>5. block' \in [Sessions -> 0..MaxPushes]
        <5>1. CASE mic
          <6>1. PICK b \in {block[recordThread], pushed + 1} :
                  block' = [block EXCEPT ![recordThread] = b]
            BY <1>2, <5>1 DEF MicRead
          <6>2. recordThread \in Sessions
            BY <1>2 DEF Linked, MicRead, Mic
          <6>3. block[recordThread] \in 0..MaxPushes
            BY <6>2 DEF TypeOK, MicType
          <6>4. pushed + 1 \in 0..MaxPushes
            BY <1>2, <5>1 DEF TypeOK, MicType, MicRead
          <6>5. b \in 0..MaxPushes
            BY <6>3, <6>4
          <6>6. QED
            BY <6>1, <6>2, <6>5 DEF TypeOK, MicType
        <5>2. CASE ~mic
          BY <1>2, <5>2 DEF TypeOK, MicType, MicRead
        <5>3. QED
          BY <5>1, <5>2
      <4>6. QED
        BY <4>1, <4>2, <4>3, <4>4, <4>5 DEF MicType
    <3>6. HistoryType'
      BY <1>2 DEF TypeOK, HistoryType, MicRead, Mic
    <3>7. QED
      BY <3>1, <3>2, <3>3, <3>4, <3>5, <3>6 DEF TypeOK
  <2>2. Linked'
    BY <1>2 DEF TypeOK, UIType, FieldType, ObjectType, ThreadType, MicType,
       HistoryType, Linked, MicRead, Mic
  <2>3. Control'
    <3>1. UNCHANGED <<uiVars, mState, mEncState, mEncodeThread, interrupted>>
      BY <1>2 DEF MicRead, Mic
    <3>2. QED
      BY <3>1 DEF Control, Off, On, AtRest
  <2>4. QED
    BY <2>1, <2>2, <2>3 DEF IInv
<1>3. CASE MicListener
  <2>1. TypeOK'
    BY <1>3 DEF TypeOK, UIType, FieldType, ObjectType, ThreadType, MicType,
       HistoryType, MicListener, Mic, MicPCs
  <2>2. Linked'
    BY <1>3 DEF TypeOK, UIType, FieldType, ObjectType, ThreadType, MicType,
       HistoryType, Linked, MicListener, Mic
  <2>3. Control'
    <3>1. UNCHANGED <<uiVars, mState, mEncState, mEncodeThread, interrupted>>
      BY <1>3 DEF MicListener, Mic
    <3>2. QED
      BY <3>1 DEF Control, Off, On, AtRest
  <2>4. QED
    BY <2>1, <2>2, <2>3 DEF IInv
<1>4. CASE MicPush
  <2>1. TypeOK'
    <3>1. UIType'
      BY <1>4 DEF TypeOK, UIType, MicPush, Mic
    <3>2. FieldType'
      BY <1>4 DEF TypeOK, FieldType, MicPush, Mic
    <3>3. ObjectType'
      <4> DEFINE item == [src |-> recordThread, n |-> 0]
      <4>1. item \in Item
        BY <1>4 DEF TypeOK, UIType, MicType, Linked, Item, MicPush, Mic
      <4>2. mQueue \in Sessions /\ queue[mQueue] \in Seq(Item)
        BY <1>4 DEF TypeOK, ObjectType, Linked, MicPush, Mic
      <4>3. Append(queue[mQueue], item) \in Seq(Item)
        BY <4>1, <4>2
      <4> HIDE DEF item
      <4>4. queue' = [queue EXCEPT ![mQueue] = Append(queue[mQueue], item)]
        BY <1>4 DEF MicPush, item
      <4>5. codec' = codec
        BY <1>4 DEF MicPush
      <4>6. QED
        BY <4>2, <4>3, <4>4, <4>5 DEF TypeOK, ObjectType
    <3>4. ThreadType'
      BY <1>4 DEF TypeOK, ThreadType, MicPush, Mic
    <3>5. MicType'
      BY <1>4 DEF TypeOK, MicType, MicPush, Mic, MicPCs
    <3>6. HistoryType'
      BY <1>4 DEF TypeOK, HistoryType, MicPush, Mic
    <3>7. QED
      BY <3>1, <3>2, <3>3, <3>4, <3>5, <3>6 DEF TypeOK
  <2>2. Linked'
    BY <1>4 DEF TypeOK, UIType, FieldType, ObjectType, ThreadType, MicType,
       HistoryType, Linked, MicPush, Mic
  <2>3. Control'
    <3>1. UNCHANGED <<uiVars, mState, mEncState, mEncodeThread, interrupted>>
      BY <1>4 DEF MicPush, Mic
    <3>2. QED
      BY <3>1 DEF Control, Off, On, AtRest
  <2>4. QED
    BY <2>1, <2>2, <2>3 DEF IInv
<1>5. QED
  BY <1>1, <1>2, <1>3, <1>4 DEF RecordThread

(* Every step of an encode thread keeps it, whichever session it is of.    *)
LEMMA EncodeThreadInv ==
  ASSUME IInv, NEW t \in Sessions, EncodeThread(t)
  PROVE  IInv'
<1> USE DEF IInv, uiVars, fieldVars, threadVars, micVars
<1>1. CASE Run(t)
  <2>1. TypeOK'
    <3>1. UIType'
      BY <1>1 DEF TypeOK, UIType, Run, Go, Crash
    <3>2. FieldType'
      BY <1>1 DEF TypeOK, FieldType, Run, Go, Crash
    <3>3. ObjectType'
      BY <1>1 DEF TypeOK, ObjectType, Run, Go, Crash, CodecStates
    <3>4. ThreadType'
      BY <1>1 DEF TypeOK, ThreadType, Run, Go, Crash, PCs
    <3>5. MicType'
      BY <1>1 DEF TypeOK, MicType, Run, Go, Crash
    <3>6. HistoryType'
      BY <1>1 DEF TypeOK, HistoryType, Run, Go, Crash
    <3>7. QED
      BY <3>1, <3>2, <3>3, <3>4, <3>5, <3>6 DEF TypeOK
  <2>2. Linked'
    BY <1>1 DEF TypeOK, UIType, FieldType, ObjectType, ThreadType, MicType,
       HistoryType, Linked, Run, Go, Crash
  <2>3. Control'
    <3>1. UNCHANGED <<uiVars, mState, mEncState, mEncodeThread, interrupted>>
      BY <1>1 DEF Run, Go, Crash
    <3>2. QED
      BY <3>1 DEF Control, Off, On, AtRest
  <2>4. QED
    BY <2>1, <2>2, <2>3 DEF IInv
<1>2. CASE TestEncState(t)
  <2>1. TypeOK'
    BY <1>2 DEF TypeOK, UIType, FieldType, ObjectType, ThreadType, MicType,
       HistoryType, TestEncState, Go, Loop, PCs
  <2>2. Linked'
    BY <1>2 DEF TypeOK, UIType, FieldType, ObjectType, ThreadType, MicType,
       HistoryType, Linked, TestEncState, Go, Loop
  <2>3. Control'
    <3>1. UNCHANGED <<uiVars, mState, mEncState, mEncodeThread, interrupted>>
      BY <1>2 DEF TestEncState, Go, Loop
    <3>2. QED
      BY <3>1 DEF Control, Off, On, AtRest
  <2>4. QED
    BY <2>1, <2>2, <2>3 DEF IInv
<1>3. CASE TestInterrupt(t)
  <2>1. TypeOK'
    BY <1>3 DEF TypeOK, UIType, FieldType, ObjectType, ThreadType, MicType,
       HistoryType, TestInterrupt, Go, Loop, PCs
  <2>2. Linked'
    BY <1>3 DEF TypeOK, UIType, FieldType, ObjectType, ThreadType, MicType,
       HistoryType, Linked, TestInterrupt, Go, Loop
  <2>3. Control'
    <3>1. UNCHANGED <<uiVars, mState, mEncState, mEncodeThread, interrupted>>
      BY <1>3 DEF TestInterrupt, Go, Loop
    <3>2. QED
      BY <3>1 DEF Control, Off, On, AtRest
  <2>4. QED
    BY <2>1, <2>2, <2>3 DEF IInv
<1>4. CASE Poll(t)
  <2>1. TypeOK'
    BY <1>4 DEF TypeOK, UIType, FieldType, ObjectType, ThreadType, MicType,
       HistoryType, Poll, Go, PCs
  <2>2. Linked'
    BY <1>4 DEF TypeOK, UIType, FieldType, ObjectType, ThreadType, MicType,
       HistoryType, Linked, Poll, Go
  <2>3. Control'
    <3>1. UNCHANGED <<uiVars, mState, mEncState, mEncodeThread, interrupted>>
      BY <1>4 DEF Poll, Go
    <3>2. QED
      BY <3>1 DEF Control, Off, On, AtRest
  <2>4. QED
    BY <2>1, <2>2, <2>3 DEF IInv
<1>5. CASE Take(t)
  <2>1. TypeOK'
    <3>1. UIType'
      BY <1>5 DEF TypeOK, UIType, Take, Go
    <3>2. FieldType'
      BY <1>5 DEF TypeOK, FieldType, Take, Go
    <3>3. ObjectType'
      BY <1>5 DEF TypeOK, ObjectType, Take, Go
    <3>4. ThreadType'
      <4>1. mQueue \in 0..MaxSessions
        BY DEF TypeOK, UIType, FieldType
      <4>2. QED
        BY <1>5, <4>1 DEF TypeOK, ThreadType, Take, Go, PCs
    <3>5. MicType'
      BY <1>5 DEF TypeOK, MicType, Take, Go
    <3>6. HistoryType'
      BY <1>5 DEF TypeOK, HistoryType, Take, Go
    <3>7. QED
      BY <3>1, <3>2, <3>3, <3>4, <3>5, <3>6 DEF TypeOK
  <2>2. Linked'
    BY <1>5 DEF TypeOK, UIType, FieldType, ObjectType, ThreadType, MicType,
       HistoryType, Linked, Take, Go
  <2>3. Control'
    <3>1. UNCHANGED <<uiVars, mState, mEncState, mEncodeThread, interrupted>>
      BY <1>5 DEF Take, Go
    <3>2. QED
      BY <3>1 DEF Control, Off, On, AtRest
  <2>4. QED
    BY <2>1, <2>2, <2>3 DEF IInv
<1>6. CASE TakeItem(t)
  <2>0. /\ waitsOn[t] \in Sessions
        /\ Head(queue[waitsOn[t]]) \in Item
        /\ Tail(queue[waitsOn[t]]) \in Seq(Item)
    <3>1. waitsOn[t] \in Sessions
      BY <1>6 DEF Linked, TakeItem, Go
    <3>2. queue[waitsOn[t]] \in Seq(Item) /\ queue[waitsOn[t]] # <<>>
      BY <1>6, <3>1 DEF TypeOK, ObjectType, TakeItem
    <3>3. QED
      BY <3>1, <3>2
  <2>1. TypeOK'
    <3>1. UIType' /\ FieldType' /\ MicType' /\ HistoryType'
      BY <1>6 DEF TypeOK, UIType, FieldType, MicType, HistoryType, TakeItem
    <3>2. ObjectType'
      <4>1. queue' = [queue EXCEPT ![waitsOn[t]] = Tail(queue[waitsOn[t]])]
        BY <1>6 DEF TakeItem
      <4>2. codec' = codec
        BY <1>6 DEF TakeItem
      <4>3. QED
        BY <2>0, <4>1, <4>2 DEF TypeOK, ObjectType
    <3>3. ThreadType'
      <4>1. held' \in [Sessions -> Item \cup {NoItem}]
        <5>1. held' = [held EXCEPT ![t] = Head(queue[waitsOn[t]])]
          BY <1>6 DEF TakeItem
        <5>2. QED
          BY <2>0, <5>1 DEF TypeOK, ThreadType
      <4>2. pc' \in [Sessions -> PCs]
        BY <1>6 DEF TypeOK, ThreadType, TakeItem, Go, PCs
      <4>3. waitsOn' = waitsOn /\ interrupted' = interrupted
        BY <1>6 DEF TakeItem
      <4>4. QED
        BY <4>1, <4>2, <4>3 DEF TypeOK, ThreadType
    <3>4. QED
      BY <3>1, <3>2, <3>3 DEF TypeOK
  <2>2. Linked'
    <3>1. held'[t] \in Item
      BY <2>0, <1>6 DEF TypeOK, ThreadType, TakeItem
    <3>2. \A u \in Sessions \ {t} : held'[u] = held[u] /\ pc'[u] = pc[u]
      BY <1>6 DEF TypeOK, ThreadType, TakeItem, Go
    <3>3. pc'[t] = "encode" /\ pc[t] = "wait"
      BY <1>6 DEF TypeOK, ThreadType, TakeItem, Go
    <3>4. UNCHANGED <<ui, recording, session, mState, mQueue, waitsOn, producer,
                      recordThread>>
      BY <1>6 DEF TakeItem
    <3>5. QED
      BY <3>1, <3>2, <3>3, <3>4 DEF Linked
  <2>3. Control'
    <3>1. UNCHANGED <<uiVars, mState, mEncState, mEncodeThread, interrupted>>
      BY <1>6 DEF TakeItem, Go
    <3>2. QED
      BY <3>1 DEF Control, Off, On, AtRest
  <2>4. QED
    BY <2>1, <2>2, <2>3 DEF IInv
<1>7. CASE TakeInterrupted(t)
  <2>1. TypeOK'
    <3>1. UIType'
      BY <1>7 DEF TypeOK, UIType, TakeInterrupted, Go
    <3>2. FieldType'
      BY <1>7 DEF TypeOK, FieldType, TakeInterrupted, Go
    <3>3. ObjectType'
      BY <1>7 DEF TypeOK, ObjectType, TakeInterrupted, Go
    <3>4. ThreadType'
      BY <1>7 DEF TypeOK, ThreadType, TakeInterrupted, Go, PCs
    <3>5. MicType'
      BY <1>7 DEF TypeOK, MicType, TakeInterrupted, Go
    <3>6. HistoryType'
      BY <1>7 DEF TypeOK, HistoryType, TakeInterrupted, Go
    <3>7. QED
      BY <3>1, <3>2, <3>3, <3>4, <3>5, <3>6 DEF TypeOK
  <2>2. Linked'
    BY <1>7 DEF TypeOK, UIType, FieldType, ObjectType, ThreadType, MicType,
       HistoryType, Linked, TakeInterrupted, Go
  <2>3. Control'
    <3>1. UNCHANGED <<uiVars, mState, mEncState, mEncodeThread>>
      BY <1>7 DEF TakeInterrupted
    <3>2. \A u \in Sessions : interrupted'[u] => interrupted[u]
      BY <1>7 DEF TypeOK, ThreadType, TakeInterrupted
    <3>3. QED
      BY <3>1, <3>2 DEF Control, Off, On, AtRest
  <2>4. QED
    BY <2>1, <2>2, <2>3 DEF IInv
<1>8. CASE Submit(t)
  <2>1. TypeOK'
    <3>1. UIType'
      BY <1>8 DEF TypeOK, UIType, Submit, Go, Crash
    <3>2. FieldType'
      BY <1>8 DEF TypeOK, FieldType, Submit, Go, Crash
    <3>3. ObjectType'
      BY <1>8 DEF TypeOK, ObjectType, Submit, Go, Crash
    <3>4. ThreadType'
      BY <1>8 DEF TypeOK, ThreadType, Submit, Go, Crash, PCs
    <3>5. MicType'
      BY <1>8 DEF TypeOK, MicType, Submit, Go, Crash
    <3>6. HistoryType'
      <4>1. overlap' \in BOOLEAN
        BY <1>8 DEF TypeOK, HistoryType, Submit, Crash
      <4>2. crashed' \in {"no", "configure", "codec"}
        BY <1>8 DEF TypeOK, HistoryType, Submit, Crash
      <4>3. encoded' \in [Sessions -> Seq([by : Sessions, n : 0..MaxPushes])]
        <5> DEFINE Entry == [by : Sessions, n : 0..MaxPushes]
        <5> DEFINE e == [by |-> t, n |-> Content(held[t])]
        <5>1. held[t] \in Item
          BY <1>8 DEF Linked, Submit
        <5>2. held[t].src \in Sessions /\ held[t].n \in 0..MaxPushes
          BY <5>1 DEF Item
        <5>3. Content(held[t]) \in 0..MaxPushes
          BY <5>2 DEF Content, TypeOK, MicType
        <5>4. e \in Entry
          BY <5>3
        <5>5. \/ encoded' = [encoded EXCEPT ![held[t].src] = Append(encoded[held[t].src], e)]
              \/ encoded' = encoded
          BY <1>8 DEF Submit, Crash
        <5>6. encoded \in [Sessions -> Seq(Entry)]
          BY DEF TypeOK, HistoryType
        <5> HIDE DEF e, Entry
        <5>7. encoded' \in [Sessions -> Seq(Entry)]
          <6>1. Append(encoded[held[t].src], e) \in Seq(Entry)
            BY <5>2, <5>4, <5>6
          <6> QED
            BY <5>5, <5>6, <6>1
        <5>8. QED
          BY <5>7 DEF Entry
      <4>4. QED
        BY <4>1, <4>2, <4>3 DEF HistoryType
    <3>7. QED
      BY <3>1, <3>2, <3>3, <3>4, <3>5, <3>6 DEF TypeOK
  <2>2. Linked'
    BY <1>8 DEF TypeOK, UIType, FieldType, ObjectType, ThreadType, MicType,
       HistoryType, Linked, Submit, Go, Crash
  <2>3. Control'
    <3>1. UNCHANGED <<uiVars, mState, mEncState, mEncodeThread, interrupted>>
      BY <1>8 DEF Submit, Go, Crash
    <3>2. QED
      BY <3>1 DEF Control, Off, On, AtRest
  <2>4. QED
    BY <2>1, <2>2, <2>3 DEF IInv
<1>9. CASE Drain(t)
  <2>1. TypeOK'
    <3>1. UIType'
      BY <1>9 DEF TypeOK, UIType, Drain, Go, Crash
    <3>2. FieldType'
      BY <1>9 DEF TypeOK, FieldType, Drain, Go, Crash
    <3>3. ObjectType'
      BY <1>9 DEF TypeOK, ObjectType, Drain, Go, Crash
    <3>4. ThreadType'
      BY <1>9 DEF TypeOK, ThreadType, Drain, Go, Crash, PCs
    <3>5. MicType'
      BY <1>9 DEF TypeOK, MicType, Drain, Go, Crash
    <3>6. HistoryType'
      BY <1>9 DEF TypeOK, HistoryType, Drain, Go, Crash
    <3>7. QED
      BY <3>1, <3>2, <3>3, <3>4, <3>5, <3>6 DEF TypeOK
  <2>2. Linked'
    BY <1>9 DEF TypeOK, UIType, FieldType, ObjectType, ThreadType, MicType,
       HistoryType, Linked, Drain, Go, Crash
  <2>3. Control'
    <3>1. UNCHANGED <<uiVars, mState, mEncState, mEncodeThread, interrupted>>
      BY <1>9 DEF Drain, Go, Crash
    <3>2. QED
      BY <3>1 DEF Control, Off, On, AtRest
  <2>4. QED
    BY <2>1, <2>2, <2>3 DEF IInv
<1>10. CASE ExitStop(t)
  <2>1. TypeOK'
    <3>1. UIType'
      BY <1>10 DEF TypeOK, UIType, ExitStop, Go, Crash
    <3>2. FieldType'
      BY <1>10 DEF TypeOK, FieldType, ExitStop, Go, Crash
    <3>3. ObjectType'
      BY <1>10 DEF TypeOK, ObjectType, ExitStop, Go, Crash, CodecStates
    <3>4. ThreadType'
      BY <1>10 DEF TypeOK, ThreadType, ExitStop, Go, Crash, PCs
    <3>5. MicType'
      BY <1>10 DEF TypeOK, MicType, ExitStop, Go, Crash
    <3>6. HistoryType'
      BY <1>10 DEF TypeOK, HistoryType, ExitStop, Go, Crash
    <3>7. QED
      BY <3>1, <3>2, <3>3, <3>4, <3>5, <3>6 DEF TypeOK
  <2>2. Linked'
    BY <1>10 DEF TypeOK, UIType, FieldType, ObjectType, ThreadType, MicType,
       HistoryType, Linked, ExitStop, Go, Crash
  <2>3. Control'
    <3>1. UNCHANGED <<uiVars, mState, mEncState, mEncodeThread, interrupted>>
      BY <1>10 DEF ExitStop, Go, Crash
    <3>2. QED
      BY <3>1 DEF Control, Off, On, AtRest
  <2>4. QED
    BY <2>1, <2>2, <2>3 DEF IInv
<1>11. CASE ExitRelease(t)
  <2>1. TypeOK'
    <3>1. UIType'
      BY <1>11 DEF TypeOK, UIType, ExitRelease, Go, Crash
    <3>2. FieldType'
      BY <1>11 DEF TypeOK, FieldType, ExitRelease, Go, Crash
    <3>3. ObjectType'
      BY <1>11 DEF TypeOK, ObjectType, ExitRelease, Go, Crash, CodecStates
    <3>4. ThreadType'
      BY <1>11 DEF TypeOK, ThreadType, ExitRelease, Go, Crash, PCs
    <3>5. MicType'
      BY <1>11 DEF TypeOK, MicType, ExitRelease, Go, Crash
    <3>6. HistoryType'
      BY <1>11 DEF TypeOK, HistoryType, ExitRelease, Go, Crash
    <3>7. QED
      BY <3>1, <3>2, <3>3, <3>4, <3>5, <3>6 DEF TypeOK
  <2>2. Linked'
    BY <1>11 DEF TypeOK, UIType, FieldType, ObjectType, ThreadType, MicType,
       HistoryType, Linked, ExitRelease, Go, Crash
  <2>3. Control'
    <3>1. UNCHANGED <<uiVars, mState, mEncState, mEncodeThread, interrupted>>
      BY <1>11 DEF ExitRelease, Go, Crash
    <3>2. QED
      BY <3>1 DEF Control, Off, On, AtRest
  <2>4. QED
    BY <2>1, <2>2, <2>3 DEF IInv
<1>12. CASE ExitClear(t)
  <2>1. TypeOK'
    <3>1. UIType'
      BY <1>12 DEF TypeOK, UIType, ExitClear, Go
    <3>2. FieldType'
      BY <1>12 DEF TypeOK, UIType, FieldType, ExitClear, Go
    <3>3. ObjectType'
      BY <1>12 DEF TypeOK, ObjectType, ExitClear, Go
    <3>4. ThreadType'
      BY <1>12 DEF TypeOK, ThreadType, ExitClear, Go, PCs
    <3>5. MicType'
      BY <1>12 DEF TypeOK, MicType, ExitClear, Go
    <3>6. HistoryType'
      BY <1>12 DEF TypeOK, HistoryType, ExitClear, Go
    <3>7. QED
      BY <3>1, <3>2, <3>3, <3>4, <3>5, <3>6 DEF TypeOK
  <2>2. Linked'
    BY <1>12 DEF TypeOK, UIType, FieldType, ObjectType, ThreadType, MicType,
       HistoryType, Linked, ExitClear, Go
  <2>3. Control'
    <3>1. UNCHANGED <<uiVars, mState, mEncState, mEncodeThread, interrupted>>
      BY <1>12 DEF ExitClear, Go
    <3>2. QED
      BY <3>1 DEF Control, Off, On, AtRest
  <2>4. QED
    BY <2>1, <2>2, <2>3 DEF IInv
<1>13. QED
  BY <1>1, <1>2, <1>3, <1>4, <1>5, <1>6, <1>7, <1>8, <1>9, <1>10, <1>11, <1>12 DEF EncodeThread

-----------------------------------------------------------------------------
(* So does every step of the system, and stuttering.                       *)
LEMMA NextInv == IInv /\ [Next]_vars => IInv'
<1> SUFFICES ASSUME IInv, [Next]_vars PROVE IInv'
  OBVIOUS
<1>1. CASE UI
  BY <1>1, UIInv
<1>2. CASE RecordThread
  BY <1>2, RecordThreadInv
<1>3. ASSUME NEW t \in Sessions, EncodeThread(t) PROVE IInv'
  BY <1>3, EncodeThreadInv
<1>4. CASE UNCHANGED vars
  <2> USE <1>4 DEF IInv, vars, uiVars, fieldVars, threadVars, micVars
  <2>1. UIType' /\ FieldType' /\ ObjectType' /\ ThreadType'
    BY DEF TypeOK, UIType, FieldType, ObjectType, ThreadType
  <2>2. MicType' /\ HistoryType'
    BY DEF TypeOK, MicType, HistoryType
  <2>3. Linked'
    BY DEF Linked
  <2>4. Control'
    BY DEF Control, Off, On, AtRest
  <2>5. QED
    BY <2>1, <2>2, <2>3, <2>4 DEF TypeOK
<1>5. QED
  BY <1>1, <1>2, <1>3, <1>4 DEF Next

(* The invariant holds throughout.                                         *)
LEMMA SpecInv == Spec => []IInv
  BY InitInv, NextInv, PTL DEF Spec

(* The type invariant: every field names null or a session that has        *)
(* started, whatever the interleaving of UI, record and encode threads.    *)
THEOREM TypeCorrect == Spec => []TypeOK
<1>1. IInv => TypeOK
  BY DEF IInv
<1>2. QED
  BY <1>1, SpecInv, PTL

(* The encoder agrees with the record button between two clicks, and while *)
(* it encodes its thread field is the thread of the current session, which *)
(* no stop has interrupted.                                                *)
THEOREM ButtonAgrees == Spec => []ButtonInSync
<1>1. ASSUME IInv PROVE ButtonInSync
  <2>1. ui = "idle" /\ ~recording => Off
    BY <1>1 DEF IInv, Control
  <2>2. ui = "idle" /\ recording => On \/ Off
    BY <1>1 DEF IInv, Control, AtRest
  <2>3. mEncState = "ENCODING" =>
          mState = "INITIALIZED" /\ mEncodeThread = session /\ ~interrupted[session]
    <3>1. SUFFICES ASSUME mEncState = "ENCODING", interrupted[session] PROVE FALSE
      BY <1>1 DEF IInv, Control
    <3>2. mEncodeThread = session /\ session \in Nat /\ session \in Sessions
      BY <1>1, <3>1 DEF IInv, TypeOK, UIType, FieldType, Control, Linked, On, Off
    <3>3. QED
      BY <1>1, <3>1, <3>2 DEF IInv, Control, Off
  <2>4. QED
    BY <2>1, <2>2, <2>3 DEF ButtonInSync, On, Off
<1>2. QED
  BY <1>1, SpecInv, PTL

-----------------------------------------------------------------------------

(* A queue belongs to one session.  The test of the state and the use of   *)
(* mQueue in pushData are two steps; they see the same session because the *)
(* UI thread joins the record thread before it can start another.          *)
OwnQueue ==
  /\ QueueOfOneSession
  /\ mState = "INITIALIZED" => mQueue = session
  /\ producer # "off" =>
       /\ recordThread = session
       /\ recording \/ ui \in {"flags", "interrupt", "stopRecord", "join"}
       /\ mic \/ ui = "join"
  /\ producer = "push" => mQueue = session
  /\ ui = "startRecord" \/ producer # "off" => Kind = "audio"
  /\ ui \in {"create", "configure", "queue"} => producer = "off"

(* The state of a thread's codec at each place of the thread.              *)
Stage(p) ==
  CASE p = "new"     -> "configured"
    [] p = "release" -> "uninit"
    [] p = "clear"   -> "released"
    [] OTHER         -> "executing"

(* While no two threads have overlapped, an encode thread owns the codec   *)
(* that mCodec names from its start until it clears the field, and setup   *)
(* finds the field null.                                                   *)
Starting == {"configure", "queue", "newThread", "startThread"}
ThreadCodec ==
  \A t \in Sessions : Alive(t) =>
    mCodec = t /\ codec[t] = Stage(pc[t]) /\ ui \notin Starting

NoThreadCodec ==
  (ui \notin Starting /\ \A t \in Sessions : ~Alive(t)) => mCodec = Null

SetupCodec ==
  /\ ui = "configure" => mCodec \in {Null, session}
  /\ ui = "configure" /\ mCodec = session => codec[session] = "uninit"
  /\ ui = "newThread" /\ mState = "UNINITIALIZED" => mCodec = Null
  /\ ui = "queue" \/ ui = "startThread"
     \/ (ui = "newThread" /\ mState = "INITIALIZED") =>
       mCodec = session /\ codec[session] = "configured"

OwnCodec ==
  ~overlap => ThreadCodec /\ NoThreadCodec /\ SetupCodec /\ crashed # "codec"

SInv == IInv /\ OwnQueue /\ OwnCodec

USE KindAssumption, BoundAssumption DEF Null, Sessions

-----------------------------------------------------------------------------
(* While no two threads overlapped, an encode thread that is alive is the  *)
(* only one, and it runs on the codec it was started with.                 *)
LEMMA OneThread ==
  ASSUME SInv, ~overlap, NEW t \in Sessions, Alive(t)
  PROVE  /\ mCodec = t /\ codec[t] = Stage(pc[t]) /\ ui \notin Starting
         /\ \A u \in Sessions \ {t} : ~Alive(u)
  BY DEF SInv, OwnCodec, ThreadCodec

(* Appending an item of the queue's own session leaves every queue to its  *)
(* session.                                                                *)
LEMMA OwnAppend ==
  ASSUME QueueOfOneSession, queue \in [Sessions -> Seq(Item)],
         NEW s \in Sessions, NEW e \in Item, e.src = s,
         queue' = [queue EXCEPT ![s] = Append(queue[s], e)]
  PROVE  QueueOfOneSession'
<1>1. ASSUME NEW r \in Sessions, NEW i \in 1..Len(queue'[r])
      PROVE  queue'[r][i].src = r
  <2>1. CASE r = s
    <3>1. queue'[r] = Append(queue[s], e) /\ queue[s] \in Seq(Item)
      BY <2>1
    <3>2. i \in 1..Len(queue[s]) \/ i = Len(queue[s]) + 1
      BY <1>1, <3>1
    <3>3. QED
      BY <2>1, <3>1, <3>2 DEF QueueOfOneSession
  <2>2. CASE r # s
    BY <1>1, <2>2 DEF QueueOfOneSession
  <2>3. QED
    BY <2>1, <2>2
<1>2. QED
  BY <1>1 DEF QueueOfOneSession

(* Removing the head of a queue leaves every queue to its session.         *)
LEMMA OwnTail ==
  ASSUME QueueOfOneSession, queue \in [Sessions -> Seq(Item)],
         NEW s \in Sessions, queue[s] # <<>>,
         queue' = [queue EXCEPT ![s] = Tail(queue[s])]
  PROVE  QueueOfOneSession'
<1>1. ASSUME NEW r \in Sessions, NEW i \in 1..Len(queue'[r])
      PROVE  queue'[r][i].src = r
  <2>1. CASE r = s
    <3>1. queue'[r] = Tail(queue[s]) /\ queue[s] \in Seq(Item)
      BY <2>1
    <3>2. \A q \in Seq(Item) : q # <<>> =>
            \A k \in 1..Len(Tail(q)) : k + 1 \in 1..Len(q) /\ Tail(q)[k] = q[k + 1]
      OBVIOUS
    <3>3. i + 1 \in 1..Len(queue[s]) /\ queue'[r][i] = queue[s][i + 1]
      BY <1>1, <2>1, <3>1, <3>2
    <3>4. QED
      BY <2>1, <3>3 DEF QueueOfOneSession
  <2>2. CASE r # s
    BY <1>1, <2>2 DEF QueueOfOneSession
  <2>3. QED
    BY <2>1, <2>2
<1>2. QED
  BY <1>1 DEF QueueOfOneSession

(* Every step of onClick and of the camera callback keeps both parts.      *)
LEMMA UISafe ==
  ASSUME SInv, crashed = "no", UI
  PROVE  OwnQueue' /\ OwnCodec'
<1> USE DEF SInv, IInv, uiVars, fieldVars, threadVars, micVars
<1>1. CASE RecordOn
  <2>1. OwnQueue'
    BY <1>1 DEF TypeOK, UIType, FieldType, ObjectType, ThreadType, MicType,
       Linked, Control, On, Off, OwnQueue, QueueOfOneSession, RecordOn
  <2>2. OwnCodec'
    BY <1>1 DEF TypeOK, UIType, FieldType, ObjectType, ThreadType, MicType,
       Linked, Control, On, Off, OwnCodec, ThreadCodec, NoThreadCodec,
       SetupCodec, Alive, Starting, Stage, RecordOn
  <2>3. QED
    BY <2>1, <2>2
<1>2. CASE SetupCreate
  <2>1. OwnQueue'
    BY <1>2 DEF TypeOK, UIType, FieldType, ObjectType, ThreadType, MicType,
       Linked, Control, On, Off, OwnQueue, QueueOfOneSession, SetupCreate
  <2>2. OwnCodec'
    <3>1. SUFFICES ASSUME ~overlap'
                   PROVE  ThreadCodec' /\ NoThreadCodec' /\ SetupCodec' /\ crashed' # "codec"
      BY DEF OwnCodec
    <3>2. ~overlap /\ \A t \in Sessions : ~Alive(t) /\ ~Alive(t)'
      BY <1>2, <3>1 DEF SetupCreate, Alive
    <3>3. mCodec = Null /\ crashed' # "codec"
      BY <1>2, <3>2 DEF OwnCodec, NoThreadCodec, SetupCreate, Starting
    <3>4. ThreadCodec' /\ NoThreadCodec'
      BY <1>2, <3>2 DEF ThreadCodec, NoThreadCodec, SetupCreate, Starting
    <3>5. SetupCodec'
      BY <1>2, <3>3 DEF SetupCodec, SetupCreate, Linked, Control, Off, TypeOK, ObjectType
    <3>6. QED
      BY <3>3, <3>4, <3>5
  <2>3. QED
    BY <2>1, <2>2
<1>3. CASE SetupConfigure
  <2>1. OwnQueue'
    BY <1>3 DEF TypeOK, UIType, FieldType, ObjectType, ThreadType, MicType,
       Linked, Control, On, Off, OwnQueue, QueueOfOneSession, SetupConfigure,
       CanConfigure, Crash
  <2>2. OwnCodec'
    <3>1. SUFFICES ASSUME ~overlap
                   PROVE  ThreadCodec' /\ NoThreadCodec' /\ SetupCodec' /\ crashed' # "codec"
      BY <1>3 DEF OwnCodec, SetupConfigure, Crash
    <3>2. \A t \in Sessions : ~Alive(t) /\ ~Alive(t)'
      BY <1>3, <3>1 DEF OwnCodec, ThreadCodec, Starting, SetupConfigure, Alive, Crash
    <3>3. SetupCodec'
      BY <1>3, <3>1 DEF OwnCodec, SetupCodec, SetupConfigure, CanConfigure, Crash,
         Linked, TypeOK, ObjectType
    <3>4. QED
      BY <1>3, <3>1, <3>2, <3>3 DEF OwnCodec, ThreadCodec, NoThreadCodec, Starting,
         SetupConfigure, Crash
  <2>3. QED
    BY <2>1, <2>2
<1>4. CASE SetupQueue
  <2>1. OwnQueue'
    BY <1>4 DEF TypeOK, UIType, FieldType, ObjectType, ThreadType, MicType,
       Linked, Control, On, Off, OwnQueue, QueueOfOneSession, SetupQueue
  <2>2. OwnCodec'
    BY <1>4 DEF TypeOK, UIType, FieldType, ObjectType, ThreadType, MicType,
       Linked, Control, On, Off, OwnCodec, ThreadCodec, NoThreadCodec,
       SetupCodec, Alive, Starting, Stage, SetupQueue
  <2>3. QED
    BY <2>1, <2>2
<1>5. CASE StartNewThread
  <2>1. OwnQueue'
    BY <1>5 DEF TypeOK, UIType, FieldType, ObjectType, ThreadType, MicType,
       Linked, Control, On, Off, OwnQueue, QueueOfOneSession, StartNewThread,
       AfterStart
  <2>2. OwnCodec'
    BY <1>5 DEF TypeOK, UIType, FieldType, ObjectType, ThreadType, MicType,
       Linked, Control, On, Off, OwnCodec, ThreadCodec, NoThreadCodec,
       SetupCodec, Alive, Starting, Stage, StartNewThread, AfterStart
  <2>3. QED
    BY <2>1, <2>2
<1>6. CASE StartThread
  <2>1. OwnQueue'
    BY <1>6 DEF TypeOK, UIType, FieldType, ObjectType, ThreadType, MicType,
       Linked, Control, On, Off, OwnQueue, QueueOfOneSession, StartThread,
       AfterStart
  <2>2. OwnCodec'
    BY <1>6 DEF TypeOK, UIType, FieldType, ObjectType, ThreadType, MicType,
       Linked, Control, On, Off, OwnCodec, ThreadCodec, NoThreadCodec,
       SetupCodec, Alive, Starting, Stage, StartThread, AfterStart
  <2>3. QED
    BY <2>1, <2>2
<1>7. CASE StartRecord
  <2>1. OwnQueue'
    BY <1>7 DEF TypeOK, UIType, FieldType, ObjectType, ThreadType, MicType,
       Linked, Control, On, Off, OwnQueue, QueueOfOneSession, StartRecord
  <2>2. OwnCodec'
    BY <1>7 DEF TypeOK, UIType, FieldType, ObjectType, ThreadType, MicType,
       Linked, Control, On, Off, OwnCodec, ThreadCodec, NoThreadCodec,
       SetupCodec, Alive, Starting, Stage, StartRecord
  <2>3. QED
    BY <2>1, <2>2
<1>8. CASE RecordOff
  <2>1. OwnQueue'
    BY <1>8 DEF TypeOK, UIType, FieldType, ObjectType, ThreadType, MicType,
       Linked, Control, On, Off, OwnQueue, QueueOfOneSession, RecordOff,
       AfterStop
  <2>2. OwnCodec'
    BY <1>8 DEF TypeOK, UIType, FieldType, ObjectType, ThreadType, MicType,
       Linked, Control, On, Off, OwnCodec, ThreadCodec, NoThreadCodec,
       SetupCodec, Alive, Starting, Stage, RecordOff, AfterStop
  <2>3. QED
    BY <2>1, <2>2
<1>9. CASE StopFlags
  <2>1. OwnQueue'
    BY <1>9 DEF TypeOK, UIType, FieldType, ObjectType, ThreadType, MicType,
       Linked, Control, On, Off, OwnQueue, QueueOfOneSession, StopFlags
  <2>2. OwnCodec'
    BY <1>9 DEF TypeOK, UIType, FieldType, ObjectType, ThreadType, MicType,
       Linked, Control, On, Off, OwnCodec, ThreadCodec, NoThreadCodec,
       SetupCodec, Alive, Starting, Stage, StopFlags
  <2>3. QED
    BY <2>1, <2>2
<1>10. CASE StopInterrupt
  <2>1. OwnQueue'
    BY <1>10 DEF TypeOK, UIType, FieldType, ObjectType, ThreadType, MicType,
       Linked, Control, On, Off, OwnQueue, QueueOfOneSession, StopInterrupt,
       AfterStop
  <2>2. OwnCodec'
    BY <1>10 DEF TypeOK, UIType, FieldType, ObjectType, ThreadType, MicType,
       Linked, Control, On, Off, OwnCodec, ThreadCodec, NoThreadCodec,
       SetupCodec, Alive, Starting, Stage, StopInterrupt, AfterStop
  <2>3. QED
    BY <2>1, <2>2
<1>11. CASE StopRecord
  <2>1. OwnQueue'
    BY <1>11 DEF TypeOK, UIType, FieldType, ObjectType, ThreadType, MicType,
       Linked, Control, On, Off, OwnQueue, QueueOfOneSession, StopRecord
  <2>2. OwnCodec'
    BY <1>11 DEF TypeOK, UIType, FieldType, ObjectType, ThreadType, MicType,
       Linked, Control, On, Off, OwnCodec, ThreadCodec, NoThreadCodec,
       SetupCodec, Alive, Starting, Stage, StopRecord
  <2>3. QED
    BY <2>1, <2>2
<1>12. CASE JoinRecordThread
  <2>1. OwnQueue'
    BY <1>12 DEF TypeOK, UIType, FieldType, ObjectType, ThreadType, MicType,
       Linked, Control, On, Off, OwnQueue, QueueOfOneSession,
       JoinRecordThread
  <2>2. OwnCodec'
    BY <1>12 DEF TypeOK, UIType, FieldType, ObjectType, ThreadType, MicType,
       Linked, Control, On, Off, OwnCodec, ThreadCodec, NoThreadCodec,
       SetupCodec, Alive, Starting, Stage, JoinRecordThread
  <2>3. QED
    BY <2>1, <2>2
<1>13. CASE PushFrame
  <2>1. OwnQueue'
    <3>1. mQueue = session /\ session \in Sessions /\ queue[session] \in Seq(Item)
      BY <1>13 DEF OwnQueue, Linked, PushFrame, TypeOK, ObjectType
    <3> DEFINE item == [src |-> session, n |-> pushed + 1]
    <3>2. item \in Item
      BY <1>13, <3>1 DEF Item, PushFrame, TypeOK, MicType
    <3>3. queue' = [queue EXCEPT ![session] = Append(queue[session], item)]
      BY <1>13, <3>1 DEF PushFrame
    <3>4. item.src = session
      OBVIOUS
    <3> HIDE DEF item
    <3>5. QueueOfOneSession'
      BY <3>1, <3>2, <3>3, <3>4, OwnAppend DEF OwnQueue, TypeOK, ObjectType
    <3>6. QED
      BY <1>13, <3>5 DEF OwnQueue, PushFrame
  <2>2. OwnCodec'
    BY <1>13 DEF TypeOK, UIType, FieldType, ObjectType, ThreadType, MicType,
       Linked, Control, On, Off, OwnCodec, ThreadCodec, NoThreadCodec,
       SetupCodec, Alive, Starting, Stage, PushFrame
  <2>3. QED
    BY <2>1, <2>2
<1>14. QED
  BY <1>1, <1>2, <1>3, <1>4, <1>5, <1>6, <1>7, <1>8, <1>9, <1>10, <1>11, <1>12, <1>13 DEF UI

(* Every step of AudioLoader's record thread keeps them.                   *)
LEMMA RecordThreadSafe ==
  ASSUME SInv, crashed = "no", RecordThread
  PROVE  OwnQueue' /\ OwnCodec'
<1> USE DEF SInv, IInv, uiVars, fieldVars, threadVars, micVars
<1>1. CASE MicTest
  <2>1. OwnQueue'
    BY <1>1 DEF TypeOK, UIType, FieldType, ObjectType, ThreadType, MicType,
       Linked, Control, On, Off, OwnQueue, QueueOfOneSession, MicTest, Mic
  <2>2. OwnCodec'
    BY <1>1 DEF TypeOK, UIType, FieldType, ObjectType, ThreadType, MicType,
       Linked, Control, On, Off, OwnCodec, ThreadCodec, NoThreadCodec,
       SetupCodec, Alive, Starting, Stage, MicTest, Mic
  <2>3. QED
    BY <2>1, <2>2
<1>2. CASE MicRead
  <2>1. OwnQueue'
    BY <1>2 DEF TypeOK, UIType, FieldType, ObjectType, ThreadType, MicType,
       Linked, Control, On, Off, OwnQueue, QueueOfOneSession, MicRead, Mic
  <2>2. OwnCodec'
    BY <1>2 DEF TypeOK, UIType, FieldType, ObjectType, ThreadType, MicType,
       Linked, Control, On, Off, OwnCodec, ThreadCodec, NoThreadCodec,
       SetupCodec, Alive, Starting, Stage, MicRead, Mic
  <2>3. QED
    BY <2>1, <2>2
<1>3. CASE MicListener
  <2>1. OwnQueue'
    BY <1>3 DEF TypeOK, UIType, FieldType, ObjectType, ThreadType, MicType,
       Linked, Control, On, Off, OwnQueue, QueueOfOneSession, MicListener,
       Mic
  <2>2. OwnCodec'
    BY <1>3 DEF TypeOK, UIType, FieldType, ObjectType, ThreadType, MicType,
       Linked, Control, On, Off, OwnCodec, ThreadCodec, NoThreadCodec,
       SetupCodec, Alive, Starting, Stage, MicListener, Mic
  <2>3. QED
    BY <2>1, <2>2
<1>4. CASE MicPush
  <2>1. OwnQueue'
    <3>1. mQueue = session /\ recordThread = session /\ session \in Sessions
      BY <1>4 DEF OwnQueue, Linked, MicPush, Mic
    <3> DEFINE item == [src |-> session, n |-> 0]
    <3>2. item \in Item
      BY <1>4, <3>1 DEF Item, TypeOK, MicType
    <3>3. queue' = [queue EXCEPT ![session] = Append(queue[session], item)]
      BY <1>4, <3>1 DEF MicPush
    <3>4. item.src = session
      OBVIOUS
    <3> HIDE DEF item
    <3>5. QueueOfOneSession'
      BY <3>1, <3>2, <3>3, <3>4, OwnAppend DEF OwnQueue, TypeOK, ObjectType
    <3>6. QED
      BY <1>4, <3>5 DEF OwnQueue, MicPush, Mic
  <2>2. OwnCodec'
    BY <1>4 DEF TypeOK, UIType, FieldType, ObjectType, ThreadType, MicType,
       Linked, Control, On, Off, OwnCodec, ThreadCodec, NoThreadCodec,
       SetupCodec, Alive, Starting, Stage, MicPush, Mic
  <2>3. QED
    BY <2>1, <2>2
<1>5. QED
  BY <1>1, <1>2, <1>3, <1>4 DEF RecordThread

(* Every step of an encode thread keeps them.                              *)
LEMMA EncodeThreadSafe ==
  ASSUME SInv, crashed = "no", NEW t \in Sessions, EncodeThread(t)
  PROVE  OwnQueue' /\ OwnCodec'
<1> USE DEF SInv, IInv, uiVars, fieldVars, threadVars, micVars
<1>1. CASE Run(t)
  <2>1. OwnQueue'
    BY <1>1 DEF TypeOK, UIType, FieldType, ObjectType, ThreadType, MicType,
       Linked, Control, On, Off, OwnQueue, QueueOfOneSession, Run, Go, Crash,
       CanStart
  <2>2. OwnCodec'
    <3>1. SUFFICES ASSUME ~overlap
                   PROVE  ThreadCodec' /\ NoThreadCodec' /\ SetupCodec' /\ crashed' # "codec"
      BY <1>1 DEF OwnCodec, Run, Go, Crash
    <3>2. /\ mCodec = t /\ codec[t] = Stage(pc[t]) /\ ui \notin Starting
          /\ \A u \in Sessions \ {t} : ~Alive(u)
      BY <1>1, <3>1, OneThread DEF Alive, Run, Go, Crash
    <3>3. /\ pc[t] = "new" /\ pc' = [pc EXCEPT ![t] = "test"]
          /\ codec' = [codec EXCEPT ![t] = "executing"]
          /\ UNCHANGED <<ui, mCodec, mState, session, overlap, crashed>>
      BY <1>1, <3>2 DEF Run, Go, Crash, CanStart, Stage, TypeOK, ObjectType
    <3>4. Alive(t)' /\ codec'[t] = Stage(pc'[t])
      BY <3>2, <3>3 DEF Alive, Stage, TypeOK, ObjectType, ThreadType
    <3>5. \A u \in Sessions \ {t} : ~Alive(u)'
      BY <3>2, <3>3 DEF Alive, TypeOK, ThreadType
    <3>6. ThreadCodec' /\ NoThreadCodec'
      BY <3>2, <3>3, <3>4, <3>5 DEF ThreadCodec, NoThreadCodec
    <3>7. SetupCodec' /\ crashed' # "codec"
      BY <3>1, <3>2, <3>3 DEF OwnCodec, SetupCodec, Starting
    <3>8. QED
      BY <3>6, <3>7
  <2>3. QED
    BY <2>1, <2>2
<1>2. CASE TestEncState(t)
  <2>1. OwnQueue'
    BY <1>2 DEF TypeOK, UIType, FieldType, ObjectType, ThreadType, MicType,
       Linked, Control, On, Off, OwnQueue, QueueOfOneSession, TestEncState,
       Go, Loop
  <2>2. OwnCodec'
    BY <1>2 DEF TypeOK, UIType, FieldType, ObjectType, ThreadType, MicType,
       Linked, Control, On, Off, OwnCodec, ThreadCodec, NoThreadCodec,
       SetupCodec, Alive, Starting, Stage, TestEncState, Go, Loop
  <2>3. QED
    BY <2>1, <2>2
<1>3. CASE TestInterrupt(t)
  <2>1. OwnQueue'
    BY <1>3 DEF TypeOK, UIType, FieldType, ObjectType, ThreadType, MicType,
       Linked, Control, On, Off, OwnQueue, QueueOfOneSession, TestInterrupt,
       Go, Loop
  <2>2. OwnCodec'
    BY <1>3 DEF TypeOK, UIType, FieldType, ObjectType, ThreadType, MicType,
       Linked, Control, On, Off, OwnCodec, ThreadCodec, NoThreadCodec,
       SetupCodec, Alive, Starting, Stage, TestInterrupt, Go, Loop
  <2>3. QED
    BY <2>1, <2>2
<1>4. CASE Poll(t)
  <2>1. OwnQueue'
    BY <1>4 DEF TypeOK, UIType, FieldType, ObjectType, ThreadType, MicType,
       Linked, Control, On, Off, OwnQueue, QueueOfOneSession, Poll, Go
  <2>2. OwnCodec'
    BY <1>4 DEF TypeOK, UIType, FieldType, ObjectType, ThreadType, MicType,
       Linked, Control, On, Off, OwnCodec, ThreadCodec, NoThreadCodec,
       SetupCodec, Alive, Starting, Stage, Poll, Go
  <2>3. QED
    BY <2>1, <2>2
<1>5. CASE Take(t)
  <2>1. OwnQueue'
    BY <1>5 DEF TypeOK, UIType, FieldType, ObjectType, ThreadType, MicType,
       Linked, Control, On, Off, OwnQueue, QueueOfOneSession, Take, Go
  <2>2. OwnCodec'
    BY <1>5 DEF TypeOK, UIType, FieldType, ObjectType, ThreadType, MicType,
       Linked, Control, On, Off, OwnCodec, ThreadCodec, NoThreadCodec,
       SetupCodec, Alive, Starting, Stage, Take, Go
  <2>3. QED
    BY <2>1, <2>2
<1>6. CASE TakeItem(t)
  <2>1. OwnQueue'
    <3>1. waitsOn[t] \in Sessions /\ queue[waitsOn[t]] # <<>>
      BY <1>6 DEF Linked, TakeItem, Go
    <3>2. queue' = [queue EXCEPT ![waitsOn[t]] = Tail(queue[waitsOn[t]])]
      BY <1>6 DEF TakeItem
    <3>3. QueueOfOneSession'
      BY <3>1, <3>2, OwnTail DEF OwnQueue, TypeOK, ObjectType
    <3>4. QED
      BY <1>6, <3>3 DEF OwnQueue, TakeItem
  <2>2. OwnCodec'
    BY <1>6 DEF TypeOK, UIType, FieldType, ObjectType, ThreadType, MicType,
       Linked, Control, On, Off, OwnCodec, ThreadCodec, NoThreadCodec,
       SetupCodec, Alive, Starting, Stage, TakeItem, Go
  <2>3. QED
    BY <2>1, <2>2
<1>7. CASE TakeInterrupted(t)
  <2>1. OwnQueue'
    BY <1>7 DEF TypeOK, UIType, FieldType, ObjectType, ThreadType, MicType,
       Linked, Control, On, Off, OwnQueue, QueueOfOneSession,
       TakeInterrupted, Go
  <2>2. OwnCodec'
    BY <1>7 DEF TypeOK, UIType, FieldType, ObjectType, ThreadType, MicType,
       Linked, Control, On, Off, OwnCodec, ThreadCodec, NoThreadCodec,
       SetupCodec, Alive, Starting, Stage, TakeInterrupted, Go
  <2>3. QED
    BY <2>1, <2>2
<1>8. CASE Submit(t)
  <2>1. OwnQueue'
    BY <1>8 DEF TypeOK, UIType, FieldType, ObjectType, ThreadType, MicType,
       Linked, Control, On, Off, OwnQueue, QueueOfOneSession, Submit, Go,
       Crash, InUse
  <2>2. OwnCodec'
    <3>1. SUFFICES ASSUME ~overlap
                   PROVE  ThreadCodec' /\ NoThreadCodec' /\ SetupCodec' /\ crashed' # "codec"
      BY <1>8 DEF OwnCodec, Submit, Go, Crash
    <3>2. /\ mCodec = t /\ codec[t] = Stage(pc[t]) /\ ui \notin Starting
          /\ \A u \in Sessions \ {t} : ~Alive(u)
      BY <1>8, <3>1, OneThread DEF Alive, Submit, Go, Crash
    <3>3. /\ pc[t] = "encode" /\ pc' = [pc EXCEPT ![t] = "drain"]
          /\ codec' = codec
          /\ UNCHANGED <<ui, mCodec, mState, session, overlap, crashed>>
      BY <1>8, <3>2 DEF Submit, Go, Crash, InUse, Stage, TypeOK, ObjectType
    <3>4. Alive(t)' /\ codec'[t] = Stage(pc'[t])
      BY <3>2, <3>3 DEF Alive, Stage, TypeOK, ObjectType, ThreadType
    <3>5. \A u \in Sessions \ {t} : ~Alive(u)'
      BY <3>2, <3>3 DEF Alive, TypeOK, ThreadType
    <3>6. ThreadCodec' /\ NoThreadCodec'
      BY <3>2, <3>3, <3>4, <3>5 DEF ThreadCodec, NoThreadCodec
    <3>7. SetupCodec' /\ crashed' # "codec"
      BY <3>1, <3>2, <3>3 DEF OwnCodec, SetupCodec, Starting
    <3>8. QED
      BY <3>6, <3>7
  <2>3. QED
    BY <2>1, <2>2
<1>9. CASE Drain(t)
  <2>1. OwnQueue'
    BY <1>9 DEF TypeOK, UIType, FieldType, ObjectType, ThreadType, MicType,
       Linked, Control, On, Off, OwnQueue, QueueOfOneSession, Drain, Go,
       Crash, InUse
  <2>2. OwnCodec'
    <3>1. SUFFICES ASSUME ~overlap
                   PROVE  ThreadCodec' /\ NoThreadCodec' /\ SetupCodec' /\ crashed' # "codec"
      BY <1>9 DEF OwnCodec, Drain, Go, Crash
    <3>2. /\ mCodec = t /\ codec[t] = Stage(pc[t]) /\ ui \notin Starting
          /\ \A u \in Sessions \ {t} : ~Alive(u)
      BY <1>9, <3>1, OneThread DEF Alive, Drain, Go, Crash
    <3>3. /\ pc[t] = "drain" /\ pc' = [pc EXCEPT ![t] = "test"]
          /\ codec' = codec
          /\ UNCHANGED <<ui, mCodec, mState, session, overlap, crashed>>
      BY <1>9, <3>2 DEF Drain, Go, Crash, InUse, Stage, TypeOK, ObjectType
    <3>4. Alive(t)' /\ codec'[t] = Stage(pc'[t])
      BY <3>2, <3>3 DEF Alive, Stage, TypeOK, ObjectType, ThreadType
    <3>5. \A u \in Sessions \ {t} : ~Alive(u)'
      BY <3>2, <3>3 DEF Alive, TypeOK, ThreadType
    <3>6. ThreadCodec' /\ NoThreadCodec'
      BY <3>2, <3>3, <3>4, <3>5 DEF ThreadCodec, NoThreadCodec
    <3>7. SetupCodec' /\ crashed' # "codec"
      BY <3>1, <3>2, <3>3 DEF OwnCodec, SetupCodec, Starting
    <3>8. QED
      BY <3>6, <3>7
  <2>3. QED
    BY <2>1, <2>2
<1>10. CASE ExitStop(t)
  <2>1. OwnQueue'
    BY <1>10 DEF TypeOK, UIType, FieldType, ObjectType, ThreadType, MicType,
       Linked, Control, On, Off, OwnQueue, QueueOfOneSession, ExitStop, Go,
       Crash, CanStop
  <2>2. OwnCodec'
    <3>1. SUFFICES ASSUME ~overlap
                   PROVE  ThreadCodec' /\ NoThreadCodec' /\ SetupCodec' /\ crashed' # "codec"
      BY <1>10 DEF OwnCodec, ExitStop, Go, Crash
    <3>2. /\ mCodec = t /\ codec[t] = Stage(pc[t]) /\ ui \notin Starting
          /\ \A u \in Sessions \ {t} : ~Alive(u)
      BY <1>10, <3>1, OneThread DEF Alive, ExitStop, Go, Crash
    <3>3. /\ pc[t] = "exit" /\ pc' = [pc EXCEPT ![t] = "release"]
          /\ codec' = [codec EXCEPT ![t] = "uninit"]
          /\ UNCHANGED <<ui, mCodec, mState, session, overlap, crashed>>
      BY <1>10, <3>2 DEF ExitStop, Go, Crash, CanStop, Stage, TypeOK, ObjectType
    <3>4. Alive(t)' /\ codec'[t] = Stage(pc'[t])
      BY <3>2, <3>3 DEF Alive, Stage, TypeOK, ObjectType, ThreadType
    <3>5. \A u \in Sessions \ {t} : ~Alive(u)'
      BY <3>2, <3>3 DEF Alive, TypeOK, ThreadType
    <3>6. ThreadCodec' /\ NoThreadCodec'
      BY <3>2, <3>3, <3>4, <3>5 DEF ThreadCodec, NoThreadCodec
    <3>7. SetupCodec' /\ crashed' # "codec"
      BY <3>1, <3>2, <3>3 DEF OwnCodec, SetupCodec, Starting
    <3>8. QED
      BY <3>6, <3>7
  <2>3. QED
    BY <2>1, <2>2
<1>11. CASE ExitRelease(t)
  <2>1. OwnQueue'
    BY <1>11 DEF TypeOK, UIType, FieldType, ObjectType, ThreadType, MicType,
       Linked, Control, On, Off, OwnQueue, QueueOfOneSession, ExitRelease,
       Go, Crash
  <2>2. OwnCodec'
    <3>1. SUFFICES ASSUME ~overlap
                   PROVE  ThreadCodec' /\ NoThreadCodec' /\ SetupCodec' /\ crashed' # "codec"
      BY <1>11 DEF OwnCodec, ExitRelease, Go, Crash
    <3>2. /\ mCodec = t /\ codec[t] = Stage(pc[t]) /\ ui \notin Starting
          /\ \A u \in Sessions \ {t} : ~Alive(u)
      BY <1>11, <3>1, OneThread DEF Alive, ExitRelease, Go, Crash
    <3>3. /\ pc[t] = "release" /\ pc' = [pc EXCEPT ![t] = "clear"]
          /\ codec' = [codec EXCEPT ![t] = "released"]
          /\ UNCHANGED <<ui, mCodec, mState, session, overlap, crashed>>
      BY <1>11, <3>2 DEF ExitRelease, Go, Crash, Stage, TypeOK, ObjectType
    <3>4. Alive(t)' /\ codec'[t] = Stage(pc'[t])
      BY <3>2, <3>3 DEF Alive, Stage, TypeOK, ObjectType, ThreadType
    <3>5. \A u \in Sessions \ {t} : ~Alive(u)'
      BY <3>2, <3>3 DEF Alive, TypeOK, ThreadType
    <3>6. ThreadCodec' /\ NoThreadCodec'
      BY <3>2, <3>3, <3>4, <3>5 DEF ThreadCodec, NoThreadCodec
    <3>7. SetupCodec' /\ crashed' # "codec"
      BY <3>1, <3>2, <3>3 DEF OwnCodec, SetupCodec, Starting
    <3>8. QED
      BY <3>6, <3>7
  <2>3. QED
    BY <2>1, <2>2
<1>12. CASE ExitClear(t)
  <2>1. OwnQueue'
    BY <1>12 DEF TypeOK, UIType, FieldType, ObjectType, ThreadType, MicType,
       Linked, Control, On, Off, OwnQueue, QueueOfOneSession, ExitClear, Go
  <2>2. OwnCodec'
    BY <1>12 DEF TypeOK, UIType, FieldType, ObjectType, ThreadType, MicType,
       Linked, Control, On, Off, OwnCodec, ThreadCodec, NoThreadCodec,
       SetupCodec, Alive, Starting, Stage, ExitClear, Go
  <2>3. QED
    BY <2>1, <2>2
<1>13. QED
  BY <1>1, <1>2, <1>3, <1>4, <1>5, <1>6, <1>7, <1>8, <1>9, <1>10, <1>11, <1>12 DEF EncodeThread

-----------------------------------------------------------------------------
(* The strengthened invariant holds from the start and in every step.      *)
LEMMA InitSafe == Init => SInv
<1> SUFFICES ASSUME Init PROVE SInv
  OBVIOUS
<1>1. IInv
  BY InitInv
<1>2. OwnQueue
  BY DEF Init, OwnQueue, QueueOfOneSession
<1>3. ThreadCodec /\ NoThreadCodec
  BY DEF Init, ThreadCodec, NoThreadCodec, Alive
<1>4. SetupCodec /\ crashed # "codec"
  BY DEF Init, SetupCodec
<1>5. QED
  BY <1>1, <1>2, <1>3, <1>4 DEF SInv, OwnCodec

(* Every step keeps the strengthened invariant.                            *)
LEMMA NextSafe == SInv /\ [Next]_vars => SInv'
<1> SUFFICES ASSUME SInv, [Next]_vars PROVE SInv'
  OBVIOUS
<1>1. IInv'
  BY NextInv DEF SInv
<1>2. OwnQueue' /\ OwnCodec'
  <2>1. CASE crashed = "no" /\ UI
    BY <2>1, UISafe
  <2>2. CASE crashed = "no" /\ RecordThread
    BY <2>2, RecordThreadSafe
  <2>3. ASSUME NEW t \in Sessions, crashed = "no", EncodeThread(t)
        PROVE  OwnQueue' /\ OwnCodec'
    BY <2>3, EncodeThreadSafe
  <2>4. CASE UNCHANGED vars
    <3> USE <2>4 DEF SInv, vars, uiVars, fieldVars, threadVars, micVars
    <3>1. OwnQueue'
      BY DEF OwnQueue, QueueOfOneSession
    <3>2. OwnCodec'
      BY DEF OwnCodec, ThreadCodec, NoThreadCodec, SetupCodec, Alive
    <3>3. QED
      BY <3>1, <3>2
  <2>5. QED
    BY <2>1, <2>2, <2>3, <2>4 DEF Next
<1>3. QED
  BY <1>1, <1>2 DEF SInv

(* The strengthened invariant holds throughout.                            *)
LEMMA SpecSafe == Spec => []SInv
  BY InitSafe, NextSafe, PTL DEF Spec

(* A queue only ever holds what its own session captured, although pushData *)
(* tests the state and uses mQueue in two steps: onClick joins the record  *)
(* thread before a restart can replace the queue.                          *)
THEOREM QueuesSeparate == Spec => []QueueOfOneSession
<1>1. SInv => QueueOfOneSession
  BY DEF SInv, OwnQueue
<1>2. QED
  BY <1>1, SpecSafe, PTL

(* MediaCodec refuses a call of an encode thread only after a setup ran    *)
(* while the thread of an earlier session was still alive.                 *)
THEOREM FaultsNeedOverlap == Spec => []CodecFaultNeedsOverlap
<1>1. SInv => CodecFaultNeedsOverlap
  BY DEF SInv, OwnCodec, CodecFaultNeedsOverlap
<1>2. QED
  BY <1>1, SpecSafe, PTL

-----------------------------------------------------------------------------
(* While no two threads have overlapped, the field mQueue does not change  *)
(* under a thread that is alive: it waits on, holds and encodes what its   *)
(* own session captured.                                                   *)
OwnItems ==
  ~overlap => \A t \in Sessions :
    /\ Alive(t) => mQueue = t
    /\ pc[t] = "wait" => waitsOn[t] = t
    /\ pc[t] = "encode" => held[t].src = t

EInv == SInv /\ OwnItems /\ EncodedBySession

(* The steps in which a thread neither waits for an item nor has one after *)
(* it.                                                                     *)
Elsewhere(t) ==
  Run(t) \/ TestEncState(t) \/ TestInterrupt(t) \/ Poll(t) \/ TakeInterrupted(t)
  \/ Drain(t) \/ ExitStop(t) \/ ExitRelease(t) \/ ExitClear(t)

(* The threads stay where they are or leave for such a place.              *)
Moves == \A u \in Sessions :
  pc'[u] = pc[u] \/ (Alive(u) /\ pc'[u] \notin {"wait", "encode"})

(* An encode thread at such a place changes neither the field mQueue nor   *)
(* any item.                                                               *)
LEMMA ElsewhereMoves ==
  ASSUME SInv, NEW t \in Sessions, Elsewhere(t)
  PROVE  Moves /\ UNCHANGED <<mQueue, waitsOn, held, encoded, overlap>>
<1>. DEFINE same == UNCHANGED <<mQueue, waitsOn, held, encoded, overlap>>
<1>0. pc \in [Sessions -> PCs]
  BY DEF SInv, IInv, TypeOK, ThreadType
<1>1. ASSUME NEW from, NEW to, Go(t, from, to), from \notin {"none", "done"},
             to \notin {"wait", "encode"}
      PROVE  Moves
  BY <1>0, <1>1 DEF Go, Alive, Moves
<1>2. ASSUME NEW cause, Crash(cause) PROVE Moves /\ same
  BY <1>2 DEF Crash, Moves, fieldVars, threadVars
<1>. USE DEF fieldVars, threadVars, Loop
<1>3. CASE TestEncState(t)
  BY <1>3, <1>1 DEF TestEncState
<1>4. CASE TestInterrupt(t)
  BY <1>4, <1>1 DEF TestInterrupt
<1>5. CASE Poll(t)
  BY <1>5, <1>1 DEF Poll
<1>6. CASE TakeInterrupted(t)
  BY <1>6, <1>1 DEF TakeInterrupted
<1>7. CASE ExitClear(t)
  BY <1>7, <1>1 DEF ExitClear
<1>8. CASE Run(t)
  <2>1. Crash("codec") \/ (Go(t, "new", "test") /\ same)
    BY <1>8 DEF Run
  <2>. QED
    BY <2>1, <1>1, <1>2
<1>9. CASE Drain(t)
  <2>1. Crash("codec") \/ (Go(t, "drain", "test") /\ same)
    BY <1>9 DEF Drain
  <2>. QED
    BY <2>1, <1>1, <1>2
<1>10. CASE ExitStop(t)
  <2>1. \/ Crash("codec")
        \/ Go(t, "exit", IF mCodec = Null THEN "done" ELSE "release") /\ same
    BY <1>10 DEF ExitStop
  <2>. QED
    BY <2>1, <1>1, <1>2
<1>11. CASE ExitRelease(t)
  <2>1. Crash("codec") \/ (Go(t, "release", "clear") /\ same)
    BY <1>11 DEF ExitRelease
  <2>. QED
    BY <2>1, <1>1, <1>2
<1>. QED
  BY <1>3, <1>4, <1>5, <1>6, <1>7, <1>8, <1>9, <1>10, <1>11 DEF Elsewhere

(* Threads that take and encode nothing keep what is said of the items.    *)
LEMMA MovesKeep ==
  ASSUME OwnItems, EncodedBySession, Moves,
         UNCHANGED <<mQueue, waitsOn, held, encoded, overlap>>
  PROVE  OwnItems' /\ EncodedBySession'
BY DEF OwnItems, EncodedBySession, Moves, Alive

(* Every step of onClick and of the camera callback keeps it too.          *)
LEMMA UIItems ==
  ASSUME EInv, crashed = "no", UI
  PROVE  OwnItems' /\ EncodedBySession'
<1>. USE DEF EInv, fieldVars, threadVars
<1>1. CASE SetupCreate
  <2>1. /\ UNCHANGED <<mQueue, pc, waitsOn, held, encoded>>
        /\ overlap' = (overlap \/ \E t \in Sessions : Alive(t))
    BY <1>1 DEF SetupCreate
  <2>2. ~overlap' => ~overlap
    BY <2>1, Zenon
  <2>. QED
    BY <2>1, <2>2 DEF OwnItems, EncodedBySession, Alive
<1>2. CASE SetupQueue
  <2>1. UNCHANGED <<pc, waitsOn, held, encoded, overlap>> /\ ui \in Starting
    BY <1>2 DEF SetupQueue, Starting
  <2>2. ~overlap => \A t \in Sessions : ~Alive(t)
    BY <2>1 DEF SInv, OwnCodec, ThreadCodec
  <2>. QED
    BY <2>1, <2>2 DEF OwnItems, EncodedBySession, Alive
<1>3. CASE StartThread
  <2>1. /\ ui = "startThread" /\ pc' = [pc EXCEPT ![mEncodeThread] = "new"]
        /\ UNCHANGED <<mQueue, waitsOn, held, encoded, overlap>>
    BY <1>3 DEF StartThread
  <2>2. mEncodeThread = session /\ mQueue = session
    BY <2>1 DEF SInv, IInv, Control, OwnQueue
  <2>3. ~overlap => \A t \in Sessions : ~Alive(t)
    BY <2>1 DEF SInv, OwnCodec, ThreadCodec, Starting
  <2>4. pc \in [Sessions -> PCs]
    BY DEF SInv, IInv, TypeOK, ThreadType
  <2>5. \A t \in Sessions : pc'[t] = pc[t] \/ (t = mQueue /\ pc'[t] = "new")
    BY <2>1, <2>2, <2>4
  <2>. QED
    BY <2>1, <2>3, <2>5 DEF OwnItems, EncodedBySession, Alive
<1>4. CASE RecordOn \/ SetupConfigure \/ StartNewThread \/ StartRecord \/ RecordOff
           \/ StopFlags \/ StopInterrupt \/ StopRecord \/ JoinRecordThread \/ PushFrame
  <2>1. UNCHANGED <<mQueue, pc, waitsOn, held, encoded, overlap>>
    BY <1>4 DEF RecordOn, SetupConfigure, StartNewThread, StartRecord, RecordOff, StopFlags,
       StopInterrupt, StopRecord, JoinRecordThread, PushFrame, Crash
  <2>. QED
    BY <2>1, MovesKeep DEF Moves
<1>. QED
  BY <1>1, <1>2, <1>3, <1>4 DEF UI

(* Every step of an encode thread: take() of the field's queue, the item   *)
(* it returns, and encodeData with that item.                              *)
LEMMA ThreadItems ==
  ASSUME EInv, crashed = "no", NEW t \in Sessions, EncodeThread(t)
  PROVE  OwnItems' /\ EncodedBySession'
<1>. USE DEF EInv, fieldVars, threadVars
<1>0. pc \in [Sessions -> PCs]
  BY DEF SInv, IInv, TypeOK, ThreadType
<1>1. CASE Take(t)
  <2>1. /\ pc[t] = "take" /\ pc' = [pc EXCEPT ![t] = "wait"]
        /\ waitsOn' = [waitsOn EXCEPT ![t] = mQueue]
        /\ UNCHANGED <<mQueue, held, encoded, overlap>>
    BY <1>1 DEF Take, Go
  <2>2. waitsOn \in [Sessions -> 0..MaxSessions]
    BY DEF SInv, IInv, TypeOK, ThreadType
  <2>3. \A u \in Sessions : u # t => pc'[u] = pc[u] /\ waitsOn'[u] = waitsOn[u]
    BY <2>1, <2>2, <1>0
  <2>4. pc'[t] = "wait" /\ waitsOn'[t] = mQueue /\ Alive(t)
    BY <2>1, <2>2, <1>0 DEF Alive
  <2>5. OwnItems'
    BY <2>1, <2>3, <2>4 DEF OwnItems, Alive
  <2>. QED
    BY <2>1, <2>5 DEF EncodedBySession
<1>2. CASE TakeItem(t)
  <2>1. /\ pc[t] = "wait" /\ pc' = [pc EXCEPT ![t] = "encode"]
        /\ queue[waitsOn[t]] # <<>>
        /\ held' = [held EXCEPT ![t] = Head(queue[waitsOn[t]])]
        /\ UNCHANGED <<mQueue, waitsOn, encoded, overlap>>
    BY <1>2 DEF TakeItem, Go
  <2>2. waitsOn[t] \in Sessions /\ queue[waitsOn[t]] \in Seq(Item)
    BY <2>1 DEF SInv, IInv, Linked, TypeOK, ObjectType
  <2>3. Head(queue[waitsOn[t]]).src = waitsOn[t]
    <3>1. 1 \in 1..Len(queue[waitsOn[t]]) /\ Head(queue[waitsOn[t]]) = queue[waitsOn[t]][1]
      BY <2>1, <2>2
    <3>. QED
      BY <2>2, <3>1 DEF SInv, OwnQueue, QueueOfOneSession
  <2>4. held \in [Sessions -> Item \cup {NoItem}]
    BY DEF SInv, IInv, TypeOK, ThreadType
  <2>5. \A u \in Sessions : u # t => pc'[u] = pc[u] /\ held'[u] = held[u]
    BY <2>1, <2>4, <1>0
  <2>6. pc'[t] = "encode" /\ held'[t].src = waitsOn[t] /\ Alive(t)
    BY <2>1, <2>3, <2>4, <1>0 DEF Alive
  <2>7. OwnItems'
    BY <2>1, <2>5, <2>6 DEF OwnItems, Alive
  <2>. QED
    BY <2>1, <2>7 DEF EncodedBySession
<1>3. CASE Submit(t)
  <2>1. CASE Crash("codec")
    BY <2>1, MovesKeep DEF Crash, Moves
  <2>2. CASE /\ Go(t, "encode", "drain")
             /\ UNCHANGED <<mQueue, waitsOn, held, overlap>>
             /\ encoded' = [encoded EXCEPT ![held[t].src] =
                              Append(@, [by |-> t, n |-> Content(held[t])])]
    <3>1. /\ pc[t] = "encode" /\ pc'[t] = "drain"
          /\ \A u \in Sessions : u # t => pc'[u] = pc[u]
      BY <2>2, <1>0 DEF Go
    <3>2. OwnItems'
      BY <2>2, <3>1 DEF OwnItems, Alive
    <3>3. EncodedBySession'
      <4>. SUFFICES ASSUME ~overlap, NEW u \in Sessions, NEW i \in 1..Len(encoded'[u])
                    PROVE  encoded'[u][i].by = u
        BY <2>2 DEF EncodedBySession
      <4>. DEFINE e == [by |-> t, n |-> Content(held[t])]
      <4>1. e.by = t /\ held[t].src = t
        BY <3>1 DEF OwnItems
      <4>2. encoded \in [Sessions -> Seq([by : Sessions, n : 0..MaxPushes])]
        BY DEF SInv, IInv, TypeOK, HistoryType
      <4>. HIDE DEF e
      <4>3. encoded' = [encoded EXCEPT ![t] = Append(encoded[t], e)]
        BY <2>2, <4>1 DEF e
      <4>4. encoded[u] \in Seq([by : Sessions, n : 0..MaxPushes])
        BY <4>2
      <4>5. CASE u # t
        <5>1. encoded'[u] = encoded[u]
          BY <4>2, <4>3, <4>5
        <5>. QED
          BY <5>1 DEF EncodedBySession
      <4>6. CASE u = t
        <5>1. encoded'[u] = Append(encoded[u], e)
          BY <4>2, <4>3, <4>6
        <5>2. \/ i \in 1..Len(encoded[u]) /\ encoded'[u][i] = encoded[u][i]
              \/ encoded'[u][i] = e
          BY <4>4, <5>1
        <5>. QED
          BY <4>1, <4>6, <5>2 DEF EncodedBySession
      <4>. QED
        BY <4>5, <4>6
    <3>. QED
      BY <3>2, <3>3
  <2>. QED
    BY <1>3, <2>1, <2>2 DEF Submit
<1>4. CASE Elsewhere(t)
  BY <1>4, ElsewhereMoves, MovesKeep
<1>. QED
  BY <1>1, <1>2, <1>3, <1>4 DEF EncodeThread, Elsewhere

(* The invariant with the items holds throughout.                          *)
LEMMA SpecItems == Spec => []EInv
<1>1. Init => EInv
  <2>1. ASSUME Init PROVE OwnItems /\ EncodedBySession
    BY <2>1 DEF Init, OwnItems, EncodedBySession, Alive
  <2>. QED
    BY <2>1, InitSafe DEF EInv
<1>2. EInv /\ [Next]_vars => EInv'
  <2>1. ASSUME EInv, [Next]_vars PROVE EInv'
    <3>1. SInv'
      BY <2>1, NextSafe DEF EInv
    <3>2. CASE crashed = "no" /\ UI
      BY <2>1, <3>1, <3>2, UIItems DEF EInv
    <3>3. CASE crashed = "no" /\ RecordThread
      <4>1. UNCHANGED <<mQueue, pc, waitsOn, held, encoded, overlap>>
        BY <3>3 DEF RecordThread, MicTest, MicRead, MicListener, MicPush, fieldVars, threadVars
      <4>. QED
        BY <2>1, <3>1, <4>1, MovesKeep DEF EInv, Moves
    <3>4. ASSUME NEW t \in Sessions, crashed = "no", EncodeThread(t) PROVE EInv'
      BY <2>1, <3>1, <3>4, ThreadItems DEF EInv
    <3>5. CASE UNCHANGED vars
      <4>1. UNCHANGED <<mQueue, pc, waitsOn, held, encoded, overlap>>
        BY <3>5 DEF vars, fieldVars, threadVars
      <4>. QED
        BY <2>1, <3>1, <4>1, MovesKeep DEF EInv, Moves
    <3>. QED
      BY <2>1, <3>2, <3>3, <3>4, <3>5 DEF Next
  <2>. QED
    BY <2>1
<1>. QED
  BY <1>1, <1>2, PTL DEF Spec

(* What a session captured is encoded by that session's thread alone, as   *)
(* long as no two threads overlap.                                         *)
THEOREM SessionsEncodeTheirOwn == Spec => []EncodedBySession
<1>1. EInv => EncodedBySession
  BY DEF EInv
<1>2. QED
  BY <1>1, SpecItems, PTL

-----------------------------------------------------------------------------
(* The refinement of FrameChannel: session s of the video encoder.         *)

(* A step that leaves the session and its items where they are, and with   *)
(* them the channel.                                                       *)
Quiet(s) ==
  /\ recording' = recording /\ session' = session
  /\ encoded'[s] = encoded[s] /\ queue'[s] = queue[s]
  /\ held'[s] = held[s] /\ (pc'[s] = "encode" <=> pc[s] = "encode")

LEMMA QuietStutters ==
  ASSUME NEW s \in Sessions, Quiet(s)
  PROVE  UNCHANGED Channel(s)!vars
<1>1. Submitted(s)' = Submitted(s) /\ FrameNumbers(queue[s])' = FrameNumbers(queue[s])
  BY DEF Quiet, Submitted, FrameNumbers
<1>2. InHand(s)' = InHand(s)
  BY DEF Quiet, InHand
<1>. QED
  BY <1>1, <1>2 DEF Quiet, Channel!vars

(* The numbers of a sequence of items, or of entries of the history.       *)
LEMMA NumbersAre ==
  ASSUME NEW S, NEW q \in Seq(S), NEW n \in Nat, n = Len(q), \A e \in S : e.n \in Nat
  PROVE  /\ FrameNumbers(q) \in Seq(Nat) /\ Len(FrameNumbers(q)) = n
         /\ \A i \in 1..n : FrameNumbers(q)[i] = q[i].n
BY DEF FrameNumbers

(* The numbers of items, and of entries of the history.                    *)
LEMMA ItemNumbers ==
  /\ \A e \in Item : e.n \in Nat
  /\ \A e \in [by : Sessions, n : 0..MaxPushes] : e.n \in Nat
<1>1. 0..MaxPushes \subseteq Nat
  OBVIOUS
<1>. QED
  BY <1>1 DEF Item

(* One item more at the end of a queue, or of the history.                 *)
LEMMA NumbersAppend ==
  ASSUME NEW S, NEW q \in Seq(S), NEW e \in S, \A x \in S : x.n \in Nat
  PROVE  FrameNumbers(Append(q, e)) = Append(FrameNumbers(q), e.n)
<1>. DEFINE n == Len(q)
            r == Append(q, e)
<1>1. n \in Nat /\ r \in Seq(S) /\ Len(r) = n + 1 /\ r[n + 1] = e
      /\ \A i \in 1..n : r[i] = q[i]
  OBVIOUS
<1>. HIDE DEF n, r
<1>2. /\ FrameNumbers(q) \in Seq(Nat) /\ Len(FrameNumbers(q)) = n
      /\ \A i \in 1..n : FrameNumbers(q)[i] = q[i].n
  BY <1>1, NumbersAre DEF n
<1>3. /\ FrameNumbers(r) \in Seq(Nat) /\ Len(FrameNumbers(r)) = n + 1
      /\ \A i \in 1..n + 1 : FrameNumbers(r)[i] = r[i].n
  BY <1>1, NumbersAre
<1>. DEFINE f == FrameNumbers(q)
            g == FrameNumbers(r)
            m == e.n
<1>4. \A i \in 1..n : g[i] = f[i]
  <2>. SUFFICES ASSUME NEW i \in 1..n PROVE g[i] = f[i]
    OBVIOUS
  <2>1. i \in 1..n + 1
    BY <1>1
  <2>. QED
    BY <2>1, <1>1, <1>2, <1>3
<1>5. g[n + 1] = m
  <2>1. n + 1 \in 1..n + 1
    BY <1>1
  <2>. QED
    BY <2>1, <1>1, <1>3
<1>6. m \in Nat
  OBVIOUS
<1>. HIDE DEF f, g, m
<1>7. Append(f, m) \in Seq(Nat) /\ Len(Append(f, m)) = n + 1
      /\ \A i \in 1..n + 1 : Append(f, m)[i] = IF i <= n THEN f[i] ELSE m
  BY <1>1, <1>2, <1>6 DEF f
<1>8. g \in Seq(Nat) /\ Len(g) = n + 1
  BY <1>3 DEF g
<1>. HIDE DEF f, g, m
<1>9. \A i \in 1..n + 1 : g[i] = Append(f, m)[i]
  BY <1>1, <1>4, <1>5, <1>7
<1>10. g = Append(f, m)
  BY <1>7, <1>8, <1>9, SeqEqual
<1>. QED
  BY <1>10 DEF f, g, m, r

(* One item less at the head of a queue.                                   *)
LEMMA NumbersTail ==
  ASSUME NEW S, NEW q \in Seq(S), q # <<>>, \A x \in S : x.n \in Nat
  PROVE  FrameNumbers(q) = <<Head(q).n>> \o FrameNumbers(Tail(q))
<1>. DEFINE n == Len(q) - 1
            r == Tail(q)
<1>1. n \in Nat /\ Len(q) = n + 1 /\ r \in Seq(S) /\ Len(r) = n /\ Head(q) = q[1]
      /\ q[1] \in S /\ \A i \in 1..n : r[i] = q[i + 1]
  OBVIOUS
<1>. HIDE DEF n, r
<1>2. /\ FrameNumbers(q) \in Seq(Nat) /\ Len(FrameNumbers(q)) = n + 1
      /\ \A i \in 1..n + 1 : FrameNumbers(q)[i] = q[i].n
  BY <1>1, NumbersAre
<1>3. /\ FrameNumbers(r) \in Seq(Nat) /\ Len(FrameNumbers(r)) = n
      /\ \A i \in 1..n : FrameNumbers(r)[i] = r[i].n
  BY <1>1, NumbersAre
<1>. DEFINE f == FrameNumbers(q)
            g == FrameNumbers(r)
            m == Head(q).n
<1>4. \A i \in 1..n : g[i] = f[i + 1]
  <2>. SUFFICES ASSUME NEW i \in 1..n PROVE g[i] = f[i + 1]
    OBVIOUS
  <2>1. i + 1 \in 1..n + 1
    BY <1>1
  <2>. QED
    BY <2>1, <1>1, <1>2, <1>3
<1>5. f[1] = m
  <2>1. 1 \in 1..n + 1
    BY <1>1
  <2>. QED
    BY <2>1, <1>1, <1>2
<1>6. m \in Nat
  BY <1>1
<1>7. f \in Seq(Nat) /\ Len(f) = n + 1 /\ g \in Seq(Nat) /\ Len(g) = n
  BY <1>2, <1>3 DEF f, g
<1>. HIDE DEF f, g, m
<1>8. <<m>> \o g \in Seq(Nat) /\ Len(<<m>> \o g) = n + 1
      /\ \A i \in 1..n + 1 : (<<m>> \o g)[i] = IF i <= 1 THEN m ELSE g[i - 1]
  <2>. DEFINE h == <<m>>
  <2>1. h \in Seq(Nat) /\ Len(h) = 1 /\ h[1] = m
    BY <1>6
  <2>. HIDE DEF h
  <2>2. /\ h \o g \in Seq(Nat) /\ Len(h \o g) = Len(h) + Len(g)
        /\ \A i \in 1..Len(h) + Len(g) :
             (h \o g)[i] = IF i <= Len(h) THEN h[i] ELSE g[i - Len(h)]
    BY <2>1, <1>7, ConcatProperties
  <2>3. Len(h) + Len(g) = n + 1
    BY <2>1, <1>1, <1>7
  <2>4. \A i \in 1..n + 1 : (h \o g)[i] = IF i <= 1 THEN m ELSE g[i - 1]
    <3>. SUFFICES ASSUME NEW i \in 1..n + 1
                  PROVE  (h \o g)[i] = IF i <= 1 THEN m ELSE g[i - 1]
      OBVIOUS
    <3>1. i <= 1 => i = 1
      BY <1>1
    <3>. QED
      BY <3>1, <2>1, <2>2, <2>3
  <2>. QED
    BY <2>2, <2>3, <2>4 DEF h
<1>9. \A i \in 1..n + 1 : f[i] = (<<m>> \o g)[i]
  <2>. SUFFICES ASSUME NEW i \in 1..n + 1 PROVE f[i] = (<<m>> \o g)[i]
    OBVIOUS
  <2>1. CASE i = 1
    BY <2>1, <1>1, <1>5, <1>8
  <2>2. CASE i # 1
    <3>1. i - 1 \in 1..n /\ i - 1 + 1 = i /\ ~(i <= 1)
      BY <2>2, <1>1
    <3>. QED
      BY <3>1, <1>4, <1>8
  <2>. QED
    BY <2>1, <2>2
<1>10. f = <<m>> \o g
  BY <1>7, <1>8, <1>9, SeqEqual
<1>. QED
  BY <1>10 DEF f, g, m, r

(* What a session has submitted, has in hand and has queued are numbers.   *)
LEMMA NumbersTyped ==
  ASSUME EInv, NEW s \in Sessions
  PROVE  /\ FrameNumbers(queue[s]) \in Seq(Nat) /\ InHand(s) \in Seq(Nat)
         /\ Submitted(s) \in Seq(Nat)
<1>1. FrameNumbers(queue[s]) \in Seq(Nat)
  <2>1. queue[s] \in Seq(Item)
    BY DEF EInv, SInv, IInv, TypeOK, ObjectType
  <2>. QED
    BY <2>1, ItemNumbers, NumbersAre, LenProperties
<1>2. Submitted(s) \in Seq(Nat)
  <2>. DEFINE E == [by : Sessions, n : 0..MaxPushes]
  <2>1. encoded[s] \in Seq(E)
    BY DEF EInv, SInv, IInv, TypeOK, HistoryType
  <2>2. \A e \in E : e.n \in Nat
    BY ItemNumbers
  <2>. HIDE DEF E
  <2>3. FrameNumbers(encoded[s]) \in Seq(Nat)
    BY <2>1, <2>2, NumbersAre, LenProperties
  <2>. QED
    BY <2>3 DEF Submitted
<1>3. InHand(s) \in Seq(Nat)
  <2>1. CASE pc[s] = "encode"
    <3>1. held[s] \in Item
      BY <2>1 DEF EInv, SInv, IInv, Linked
    <3>2. held[s].n \in Nat
      BY <3>1 DEF Item
    <3>. QED
      BY <2>1, <3>2 DEF InHand
  <2>2. CASE pc[s] # "encode"
    BY <2>2 DEF InHand
  <2>. QED
    BY <2>1, <2>2
<1>. QED
  BY <1>1, <1>2, <1>3

(* Concatenation is associative.                                           *)
LEMMA JoinAgain ==
  ASSUME NEW a \in Seq(Nat), NEW b \in Seq(Nat), NEW c \in Seq(Nat)
  PROVE  (a \o b) \o c = a \o (b \o c)
OBVIOUS

(* The pieces of a channel's content laid end to end: a number joins at    *)
(* the back, or moves across the seam between two pieces.                  *)
LEMMA JoinAppend ==
  ASSUME NEW a \in Seq(Nat), NEW c \in Seq(Nat), NEW n \in Nat
  PROVE  a \o Append(c, n) = Append(a \o c, n)
<1>. DEFINE e == <<n>>
<1>1. e \in Seq(Nat) /\ a \o c \in Seq(Nat)
  OBVIOUS
<1>2. Append(c, n) = c \o e /\ Append(a \o c, n) = (a \o c) \o e
  BY <1>1, AppendIsConcat
<1>. HIDE DEF e
<1>3. (a \o c) \o e = a \o (c \o e)
  BY <1>1, JoinAgain
<1>. QED
  BY <1>2, <1>3

LEMMA JoinHead ==
  ASSUME NEW a \in Seq(Nat), NEW c \in Seq(Nat), NEW m \in Nat
  PROVE  a \o <<m>> \o c = a \o <<>> \o (<<m>> \o c)
<1>. DEFINE e == <<m>>
<1>1. a \o <<>> = a /\ e \in Seq(Nat)
  OBVIOUS
<1>. HIDE DEF e
<1>2. (a \o e) \o c = a \o (e \o c)
  BY <1>1, JoinAgain
<1>. QED
  BY <1>1, <1>2 DEF e

LEMMA JoinMoves ==
  ASSUME NEW a \in Seq(Nat), NEW c \in Seq(Nat), NEW m \in Nat
  PROVE  /\ Append(a, m) \o <<>> \o c = a \o <<m>> \o c
         /\ Len(a) < Len(a \o <<m>> \o c) /\ (a \o <<m>> \o c)[Len(a) + 1] = m
<1>1. Append(a, m) = a \o <<m>> /\ a \o <<m>> \in Seq(Nat)
  OBVIOUS
<1>2. \A d \in Seq(Nat) : d \o <<>> = d
  OBVIOUS
<1>3. Append(a, m) \o <<>> = a \o <<m>>
  BY <1>1, <1>2
<1>4. Len(a) \in Nat /\ Len(c) \in Nat /\ Len(a \o <<m>> \o c) = Len(a) + 1 + Len(c)
  OBVIOUS
<1>5. (a \o <<m>> \o c)[Len(a) + 1] = m
  OBVIOUS
<1>. QED
  BY <1>3, <1>4, <1>5

(* The camera callback pushes a frame into the queue of the session that   *)
(* is recording: its channel accepts it.                                   *)
LEMMA PushSends ==
  ASSUME EInv, PushFrame, NEW s \in Sessions
  PROVE  [Channel(s)!Next]_(Channel(s)!vars)
<1>. DEFINE e == [src |-> session, n |-> pushed + 1]
<1>1. /\ recording /\ mQueue = session /\ session \in Sessions
      /\ pushed + 1 \in 1..MaxPushes
      /\ queue' = [queue EXCEPT ![session] = Append(queue[session], e)]
      /\ UNCHANGED <<recording, session, pc, held, encoded>>
  <2>1. recording /\ mState = "INITIALIZED" /\ pushed < MaxPushes
    BY DEF PushFrame
  <2>2. mQueue = session /\ session \in Sessions /\ pushed \in 0..MaxPushes
    BY <2>1 DEF EInv, SInv, OwnQueue, IInv, Linked, TypeOK, MicType
  <2>. QED
    BY <2>1, <2>2 DEF PushFrame, uiVars, threadVars
<1>2. queue \in [Sessions -> Seq(Item)]
  BY DEF EInv, SInv, IInv, TypeOK, ObjectType
<1>3. CASE s # session
  <2>1. Quiet(s)
    BY <1>1, <1>2, <1>3 DEF Quiet
  <2>. QED
    BY <2>1, QuietStutters
<1>4. CASE s = session
  <2>1. e \in Item
    BY <1>1 DEF Item
  <2>. HIDE DEF e
  <2>2. queue'[s] = Append(queue[s], e) /\ queue[s] \in Seq(Item)
    BY <1>1, <1>2, <1>4
  <2>3. FrameNumbers(queue'[s]) = Append(FrameNumbers(queue[s]), pushed + 1)
    <3>1. FrameNumbers(Append(queue[s], e)) = Append(FrameNumbers(queue[s]), e.n)
      BY <2>1, <2>2, ItemNumbers, NumbersAppend
    <3>. QED
      BY <2>2, <3>1 DEF e
  <2>4. Submitted(s)' = Submitted(s) /\ InHand(s)' = InHand(s)
    BY <1>1 DEF Submitted, InHand
  <2>5. FrameNumbers(queue[s]) \in Seq(Nat) /\ InHand(s) \in Seq(Nat)
        /\ Submitted(s) \in Seq(Nat)
    BY NumbersTyped
  <2>. DEFINE a == Submitted(s)
              b == InHand(s)
              c == FrameNumbers(queue[s])
              n == pushed + 1
  <2>. HIDE DEF a, b, c, n
  <2>6. a \in Seq(Nat) /\ b \in Seq(Nat) /\ c \in Seq(Nat) /\ n \in Nat
    BY <1>1, <2>5 DEF a, b, c, n
  <2>7. a \o b \o Append(c, n) = Append(a \o b \o c, n)
    <3>1. a \o b \in Seq(Nat)
      BY <2>6
    <3>. QED
      BY <2>6, <3>1, JoinAppend
  <2>8. Channel(s)!Send(n)
    BY <1>1, <1>4, <2>3, <2>4, <2>7 DEF Channel!Send, a, b, c, n
  <2>. QED
    BY <1>1, <2>8 DEF Channel!Next, n
<1>. QED
  BY <1>3, <1>4

(* take() moves the head of the queue into the thread's hand.              *)
LEMMA TakeStutters ==
  ASSUME EInv, ~overlap, NEW t \in Sessions, TakeItem(t), NEW s \in Sessions
  PROVE  UNCHANGED Channel(s)!vars
<1>1. /\ pc[t] = "wait" /\ pc' = [pc EXCEPT ![t] = "encode"] /\ waitsOn[t] = t
      /\ queue[t] # <<>> /\ held' = [held EXCEPT ![t] = Head(queue[t])]
      /\ queue' = [queue EXCEPT ![t] = Tail(queue[t])]
      /\ UNCHANGED <<recording, session, encoded>>
  <2>1. pc[t] = "wait"
    BY DEF TakeItem, Go
  <2>2. waitsOn[t] = t
    BY <2>1 DEF EInv, OwnItems
  <2>. QED
    BY <2>1, <2>2 DEF TakeItem, Go, uiVars
<1>2. /\ queue \in [Sessions -> Seq(Item)] /\ pc \in [Sessions -> PCs]
      /\ held \in [Sessions -> Item \cup {NoItem}]
  BY DEF EInv, SInv, IInv, TypeOK, ObjectType, ThreadType
<1>3. CASE s # t
  <2>1. Quiet(s)
    BY <1>1, <1>2, <1>3 DEF Quiet
  <2>. QED
    BY <2>1, QuietStutters
<1>4. CASE s = t
  <2>1. queue[s] \in Seq(Item) /\ queue[s] # <<>> /\ \A x \in Item : x.n \in Nat
    BY <1>1, <1>2, <1>4, ItemNumbers
  <2>2. FrameNumbers(queue[s]) = <<Head(queue[s]).n>> \o FrameNumbers(Tail(queue[s]))
    BY <2>1, NumbersTail
  <2>3. /\ queue'[s] = Tail(queue[s]) /\ held'[s] = Head(queue[s]) /\ pc'[s] = "encode"
        /\ pc[s] = "wait"
    BY <1>1, <1>2, <1>4
  <2>4. InHand(s) = <<>> /\ InHand(s)' = <<Head(queue[s]).n>>
    BY <2>3 DEF InHand
  <2>5. Submitted(s)' = Submitted(s)
    BY <1>1 DEF Submitted
  <2>. DEFINE a == Submitted(s)
              m == Head(queue[s]).n
              c == FrameNumbers(Tail(queue[s]))
  <2>6. a \in Seq(Nat) /\ m \in Nat /\ c \in Seq(Nat)
    <3>1. Tail(queue[s]) \in Seq(Item) /\ Head(queue[s]) \in Item
      BY <2>1
    <3>2. c \in Seq(Nat)
      BY <2>1, <3>1, NumbersAre, LenProperties
    <3>. QED
      BY <2>1, <3>1, <3>2, NumbersTyped
  <2>. HIDE DEF a, m, c
  <2>7. a \o <<m>> \o c = a \o <<>> \o (<<m>> \o c)
    BY <2>6, JoinHead
  <2>8. (Submitted(s) \o InHand(s) \o FrameNumbers(queue[s]))'
          = Submitted(s) \o InHand(s) \o FrameNumbers(queue[s])
    BY <2>2, <2>3, <2>4, <2>5, <2>7 DEF a, m, c
  <2>. QED
    BY <1>1, <2>5, <2>8 DEF Channel!vars
<1>. QED
  BY <1>3, <1>4

(* encodeData submits the frame in hand: the channel delivers it.          *)
LEMMA SubmitDelivers ==
  ASSUME EInv, ~overlap, Kind = "video", NEW t \in Sessions, Submit(t), NEW s \in Sessions
  PROVE  [Channel(s)!Next]_(Channel(s)!vars)
<1>0. /\ encoded \in [Sessions -> Seq([by : Sessions, n : 0..MaxPushes])]
      /\ pc \in [Sessions -> PCs]
  BY DEF EInv, SInv, IInv, TypeOK, HistoryType, ThreadType
<1>. DEFINE e == [by |-> t, n |-> held[t].n]
<1>1. CASE Crash("codec")
  <2>1. Quiet(s)
    BY <1>1 DEF Crash, Quiet, uiVars, threadVars
  <2>. QED
    BY <2>1, QuietStutters
<1>2. CASE /\ pc[t] = "encode" /\ pc' = [pc EXCEPT ![t] = "drain"]
           /\ encoded' = [encoded EXCEPT ![t] = Append(encoded[t], e)]
           /\ UNCHANGED <<recording, session, queue, held>>
  <2>1. CASE s # t
    <3>1. Quiet(s)
      BY <1>0, <1>2, <2>1 DEF Quiet
    <3>. QED
      BY <3>1, QuietStutters
  <2>2. CASE s = t
    <3>1. /\ encoded'[s] = Append(encoded[s], e) /\ pc[s] = "encode" /\ pc'[s] = "drain"
      BY <1>0, <1>2, <2>2
    <3>2. held[t] \in Item
      BY <1>2 DEF EInv, SInv, IInv, Linked
    <3>3. held[s].n \in 0..MaxPushes /\ e \in [by : Sessions, n : 0..MaxPushes]
      BY <2>2, <3>2 DEF Item
    <3>4. Submitted(s)' = Append(Submitted(s), held[s].n)
      <4>1. encoded[s] \in Seq([by : Sessions, n : 0..MaxPushes])
        BY <1>0
      <4>2. \A x \in [by : Sessions, n : 0..MaxPushes] : x.n \in Nat
        BY ItemNumbers
      <4>3. FrameNumbers(Append(encoded[s], e)) = Append(FrameNumbers(encoded[s]), e.n)
        BY <3>3, <4>1, <4>2, NumbersAppend
      <4>. QED
        BY <2>2, <3>1, <4>3 DEF Submitted
    <3>5. InHand(s) = <<held[s].n>> /\ InHand(s)' = <<>>
      BY <3>1 DEF InHand
    <3>6. FrameNumbers(queue[s])' = FrameNumbers(queue[s])
      BY <1>2
    <3>. DEFINE a == Submitted(s)
                m == held[s].n
                c == FrameNumbers(queue[s])
    <3>7. a \in Seq(Nat) /\ m \in Nat /\ c \in Seq(Nat)
      BY <3>3, NumbersTyped
    <3>. HIDE DEF a, m, c
    <3>8. /\ Append(a, m) \o <<>> \o c = a \o <<m>> \o c
          /\ Len(a) < Len(a \o <<m>> \o c) /\ (a \o <<m>> \o c)[Len(a) + 1] = m
      BY <3>7, JoinMoves
    <3>9. Channel(s)!Deliver
      BY <1>2, <3>4, <3>5, <3>6, <3>8 DEF Channel!Deliver, a, m, c
    <3>. QED
      BY <3>9 DEF Channel!Next
  <2>. QED
    BY <2>1, <2>2
<1>3. pc[t] = "encode"
  BY DEF Submit
<1>4. held[t].src = t
  BY <1>3 DEF EInv, OwnItems
<1>. QED
  BY <1>1, <1>2, <1>3, <1>4 DEF Submit, Go, Content, uiVars

(* Only setup can find two threads alive.                                  *)
LEMMA ThreadKeepsOverlap ==
  ASSUME NEW t \in Sessions, EncodeThread(t)
  PROVE  overlap' = overlap
BY DEF EncodeThread, Run, TestEncState, TestInterrupt, Poll, Take, TakeItem,
   TakeInterrupted, Submit, Drain, ExitStop, ExitRelease, ExitClear, Crash

(* The second click closes the channel of the session that is recording;   *)
(* the first opens the next one's.                                         *)
LEMMA ClicksOpenClose ==
  ASSUME EInv, RecordOn \/ RecordOff, NEW s \in Sessions
  PROVE  [Channel(s)!Next]_(Channel(s)!vars)
<1>1. UNCHANGED <<Submitted(s), InHand(s), FrameNumbers(queue[s])>>
  <2>1. UNCHANGED <<queue, pc, held, encoded>>
    BY DEF RecordOn, RecordOff, threadVars
  <2>. QED
    BY <2>1 DEF Submitted, InHand, FrameNumbers
<1>2. session \in 0..MaxSessions
  BY DEF EInv, SInv, IInv, TypeOK, UIType
<1>3. CASE RecordOn
  <2>1. ~recording /\ recording' /\ session' = session + 1
    BY <1>3 DEF RecordOn
  <2>2. CASE s = session + 1
    <3>1. Channel(s)!Open
      BY <1>1, <2>1, <2>2 DEF Channel!Open
    <3>. QED
      BY <3>1 DEF Channel!Next
  <2>3. CASE s # session + 1
    <3>1. UNCHANGED Channel(s)!vars
      BY <1>1, <2>1, <2>3 DEF Channel!vars
    <3>. QED
      BY <3>1
  <2>. QED
    BY <2>2, <2>3
<1>4. CASE RecordOff
  <2>1. recording /\ ~recording' /\ session' = session
    BY <1>4 DEF RecordOff
  <2>2. CASE s = session
    <3>1. Channel(s)!Close
      BY <1>1, <2>1, <2>2 DEF Channel!Close
    <3>. QED
      BY <3>1 DEF Channel!Next
  <2>3. CASE s # session
    <3>1. UNCHANGED Channel(s)!vars
      BY <1>1, <2>1, <2>3 DEF Channel!vars
    <3>. QED
      BY <3>1
  <2>. QED
    BY <2>2, <2>3
<1>. QED
  BY <1>3, <1>4

(* The other steps of onClick leave every channel alone: StartThread's new  *)
(* thread has nothing in hand.                                             *)
LEMMA SetupIsQuiet ==
  ASSUME EInv, ~overlap', UI, ~RecordOn, ~RecordOff, ~PushFrame, NEW s \in Sessions
  PROVE  Quiet(s)
<1>. USE DEF uiVars, threadVars
<1>1. CASE StartThread
  <2>1. /\ ui = "startThread" /\ pc' = [pc EXCEPT ![mEncodeThread] = "new"]
        /\ UNCHANGED <<recording, session, queue, held, encoded, overlap>>
    BY <1>1 DEF StartThread
  <2>2. pc \in [Sessions -> PCs]
    BY DEF EInv, SInv, IInv, TypeOK, ThreadType
  <2>3. ~Alive(s)
    BY <2>1 DEF EInv, SInv, OwnCodec, ThreadCodec, Starting
  <2>4. pc'[s] = pc[s] \/ pc'[s] = "new"
    BY <2>1, <2>2
  <2>. QED
    BY <2>1, <2>3, <2>4 DEF Quiet, Alive
<1>2. CASE SetupCreate \/ SetupConfigure \/ SetupQueue \/ StartNewThread \/ StartRecord
           \/ StopFlags \/ StopInterrupt \/ StopRecord \/ JoinRecordThread
  BY <1>2 DEF SetupCreate, SetupConfigure, SetupQueue, StartNewThread, StartRecord,
     StopFlags, StopInterrupt, StopRecord, JoinRecordThread, Crash, Quiet
<1>. QED
  BY <1>1, <1>2 DEF UI

(* So do an encode thread's steps that neither take an item nor submit one. *)
LEMMA ThreadIsQuiet ==
  ASSUME EInv, NEW t \in Sessions, Take(t) \/ Elsewhere(t), NEW s \in Sessions
  PROVE  Quiet(s)
<1>. DEFINE same == UNCHANGED <<recording, session, queue, held, encoded>>
<1>0. pc \in [Sessions -> PCs]
  BY DEF EInv, SInv, IInv, TypeOK, ThreadType
<1>1. ASSUME NEW from, NEW to, Go(t, from, to), same, from # "encode", to # "encode"
      PROVE  Quiet(s)
  BY <1>0, <1>1 DEF Go, Quiet
<1>2. ASSUME NEW cause, Crash(cause) PROVE Quiet(s)
  BY <1>2 DEF Crash, Quiet, uiVars, threadVars
<1>. USE DEF uiVars, threadVars, Loop
<1>3. CASE TestEncState(t)
  BY <1>3, <1>1 DEF TestEncState
<1>4. CASE TestInterrupt(t)
  BY <1>4, <1>1 DEF TestInterrupt
<1>5. CASE Poll(t)
  BY <1>5, <1>1 DEF Poll
<1>6. CASE TakeInterrupted(t)
  BY <1>6, <1>1 DEF TakeInterrupted
<1>7. CASE ExitClear(t)
  BY <1>7, <1>1 DEF ExitClear
<1>8. CASE Run(t)
  <2>1. Crash("codec") \/ (Go(t, "new", "test") /\ same)
    BY <1>8 DEF Run
  <2>. QED
    BY <2>1, <1>1, <1>2
<1>9. CASE Drain(t)
  <2>1. Crash("codec") \/ (Go(t, "drain", "test") /\ same)
    BY <1>9 DEF Drain
  <2>. QED
    BY <2>1, <1>1, <1>2
<1>10. CASE ExitStop(t)
  <2>1. \/ Crash("codec")
        \/ Go(t, "exit", IF mCodec = Null THEN "done" ELSE "release") /\ same
    BY <1>10 DEF ExitStop
  <2>. QED
    BY <2>1, <1>1, <1>2
<1>11. CASE ExitRelease(t)
  <2>1. Crash("codec") \/ (Go(t, "release", "clear") /\ same)
    BY <1>11 DEF ExitRelease
  <2>. QED
    BY <2>1, <1>1, <1>2
<1>12. CASE Take(t)
  BY <1>12, <1>1 DEF Take
<1>. QED
  BY <1>3, <1>4, <1>5, <1>6, <1>7, <1>8, <1>9, <1>10, <1>11, <1>12 DEF Elsewhere

(* Every step of the video encoder is a step of every session's channel,   *)
(* or leaves it as it was, until two sessions' threads overlap.            *)
LEMMA StepIsChannelStep ==
  ASSUME EInv, Kind = "video", [Next]_vars, ~overlap', NEW s \in Sessions
  PROVE  [Channel(s)!Next]_(Channel(s)!vars)
<1>1. CASE crashed = "no" /\ UI
  <2>1. CASE RecordOn \/ RecordOff
    BY <2>1, ClicksOpenClose
  <2>2. CASE PushFrame
    BY <2>2, PushSends
  <2>3. CASE ~RecordOn /\ ~RecordOff /\ ~PushFrame
    <3>1. Quiet(s)
      BY <1>1, <2>3, SetupIsQuiet
    <3>. QED
      BY <3>1, QuietStutters
  <2>. QED
    BY <2>1, <2>2, <2>3
<1>2. CASE crashed = "no" /\ RecordThread
  <2>1. producer # "off"
    BY <1>2 DEF RecordThread, MicTest, MicRead, MicListener, MicPush, Mic
  <2>. QED
    BY <2>1 DEF EInv, SInv, OwnQueue
<1>3. ASSUME NEW t \in Sessions, crashed = "no", EncodeThread(t)
      PROVE  [Channel(s)!Next]_(Channel(s)!vars)
  <2>1. overlap' = overlap
    BY <1>3, ThreadKeepsOverlap
  <2>2. CASE TakeItem(t)
    BY <2>1, <2>2, TakeStutters
  <2>3. CASE Submit(t)
    BY <2>1, <2>3, SubmitDelivers
  <2>4. CASE Take(t) \/ Elsewhere(t)
    <3>1. Quiet(s)
      BY <2>4, ThreadIsQuiet
    <3>. QED
      BY <3>1, QuietStutters
  <2>. QED
    BY <1>3, <2>2, <2>3, <2>4 DEF EncodeThread, Elsewhere
<1>4. CASE UNCHANGED vars
  <2>1. Quiet(s)
    BY <1>4 DEF vars, uiVars, threadVars, Quiet
  <2>. QED
    BY <2>1, QuietStutters
<1>. QED
  BY <1>1, <1>2, <1>3, <1>4 DEF Next

(* Every recording of the video encoder is a channel, for every number of   *)
(* recordings and frames: what is pushed between its two clicks reaches    *)
(* the codec in order, none twice and none skipped, and nothing is         *)
(* accepted after the second click.  (An audio encoder is none: its record *)
(* thread overwrites queued blocks.)                                       *)
THEOREM RecordingIsChannel == ASSUME Kind = "video" PROVE Spec => ImplementsChannel
<1>1. Init => \A s \in Sessions : Channel(s)!Init
  <2>1. ASSUME Init, NEW s \in Sessions PROVE Channel(s)!Init
    <3>1. /\ recording = FALSE /\ encoded[s] = <<>> /\ queue[s] = <<>> /\ pc[s] = "none"
      BY <2>1 DEF Init
    <3>2. FrameNumbers(<<>>) = <<>>
      BY DEF FrameNumbers
    <3>3. Submitted(s) = <<>> /\ InHand(s) = <<>> /\ FrameNumbers(queue[s]) = <<>>
      BY <3>1, <3>2 DEF Submitted, InHand
    <3>4. Submitted(s) \o InHand(s) \o FrameNumbers(queue[s]) = <<>>
      BY <3>3
    <3>. QED
      BY <3>1, <3>3, <3>4 DEF Channel!Init
  <2>. QED
    BY <2>1
<1>2. EInv /\ [Next]_vars
        => overlap' \/ \A s \in Sessions : [Channel(s)!Next]_(Channel(s)!vars)
  BY StepIsChannelStep
<1>. QED
  BY <1>1, <1>2, SpecItems, PTL DEF Spec, ImplementsChannel

=============================================================================

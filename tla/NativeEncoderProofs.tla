------------------------- MODULE NativeEncoderProofs -------------------------
(***************************************************************************)
(* NativeEncoder for every set of encoders and callers and every number of *)
(* calls: the types of its variables, and what a caller that makes one     *)
(* call after the other can rely on.                                       *)
(***************************************************************************)
EXTENDS NativeEncoder, TLAPS

(* Which thread may be at which place, and what it has in its hands.       *)
InitPlaces == {"openFile", "createQueue", "openCodec", "ready"}
ReleasePlaces == {"free", "clearState", "clearEncoding"}
LoopPlaces == {"pop", "encode", "testReleased", "mark", "loop"}
DataPlaces == LoopPlaces \cup {"test", "push", "testStopped", "freeData", "return"}

Placed == \A t \in Threads :
  /\ pc[t] \in InitPlaces \cup ReleasePlaces => t = "ui"
  /\ pc[t] \in InitPlaces => inits # 0
  /\ pc[t] \in DataPlaces => current[t] # 0
  /\ pc[t] = "encode" => buffer[t] # 0

TInv == TypeOK /\ Placed

(* As long as calls are made one after the other, one thread is at work;   *)
(* the encoder says so only while a data call is in its loop, and a data   *)
(* call past its test has an initialised encoder until it returns.         *)
Alone == \A t, u \in Threads : pc[t] # "idle" /\ pc[u] # "idle" => t = u

States ==
  /\ encodingState = "STOPPED" \/ \E t \in Threads : pc[t] \in LoopPlaces
  /\ pc["ui"] \in InitPlaces \cup {"clearEncoding"} => encState = "UNINITIALIZED"
  /\ pc["ui"] = "openFile" => HasFile
  /\ pc["ui"] = "free" => encState = "INITIALIZED" \/ unmatched
  /\ \A t \in Threads :
       /\ pc[t] # "freeData"
       /\ pc[t] \in DataPlaces \ {"test"} => encState = "INITIALIZED" /\ queueOf # Null
       /\ ~elsewhere /\ pc[t] \in DataPlaces => t = "ui"

(* Initialised means open, from the last step of init to the first of      *)
(* release.                                                                *)
InUse == encState = "INITIALIZED" /\ pc["ui"] # "clearState"

Opened ==
  /\ InUse \/ pc["ui"] \in {"createQueue", "openCodec", "ready"} =>
       ~HasFile \/ file \in openFiles
  /\ InUse \/ pc["ui"] = "ready" =>
       handle \in openCodecs \/ (kind = "x264" /\ initFailed)

(* The reference to the Java object is taken first and deleted first.      *)
Referred ==
  (encState = "INITIALIZED" /\ pc["ui"] \notin ReleasePlaces) \/ pc["ui"] \in InitPlaces

References == Referred => jniEnv = "ui" /\ encodeObj \in liveRefs

(* Nothing else is open, nor referred to, if no init failed.               *)
Exact == ~initFailed =>
  /\ openCodecs = IF InUse \/ pc["ui"] = "ready" THEN {handle} ELSE {}
  /\ openFiles = IF HasFile /\ (InUse \/ pc["ui"] \in {"createQueue", "openCodec", "ready"})
                 THEN {file} ELSE {}
  /\ repeated \/ liveRefs = IF Referred THEN {encodeObj} ELSE {}

(* A buffer is in the queue, or taken from it, only during the call that   *)
(* queued it.                                                              *)
Waiting(t, s) == pc[t] \in {"testStopped", "pop"} /\ s = queueOf /\ queue[s] = <<current[t]>>

Queues ==
  /\ \A s \in Sessions : queue[s] = <<>> \/ \E t \in Threads : Waiting(t, s)
  /\ \A t \in Threads : pc[t] = "encode" => buffer[t] = current[t]
  /\ \A t \in Threads : pc[t] \in DataPlaces => current[t] \notin returned

Given == \A b \in accepted \ handled :
  \E t \in Threads :
    b = current[t] /\ (pc[t] = "encode" \/ \E s \in Sessions : Waiting(t, s))

Orderly == Alone /\ States /\ Opened /\ References /\ Exact /\ Queues /\ Given

NInv == TInv /\ FaultExplained /\ (~overlap => Orderly)
(* The steps of the UI thread, and those of a thread in a data call.       *)
UIAction == InitCall \/ ReleaseCall \/ UIStep
DataAction(t) == DataCall(t) \/ DataStep(t)

USE KindAssumption, BoundAssumption, CallerAssumption DEF Null, Threads, Sessions,
   Calls, NoThread

-----------------------------------------------------------------------------
(* Types.                                                                  *)

(* A data call has a number, and a return adds it to those that returned.  *)
LEMMA CurrentCall ==
  ASSUME TInv, NEW t \in Threads, pc[t] \in DataPlaces
  PROVE  current[t] \in 1..calls /\ current[t] \in Calls
  BY DEF TInv, TypeOK, ThreadType, CountType, Placed

LEMMA ReturnTypes ==
  ASSUME TInv, NEW t \in Threads, NEW from \in DataPlaces, Return(t, from),
         calls' = calls, accepted' = accepted, handled' = handled
  PROVE  ResultType'
<1>1. current[t] \in 1..calls
  BY CurrentCall DEF Return, Go
<1>2. QED
  BY <1>1 DEF TInv, TypeOK, ResultType, Return

LEMMA TailType ==
  ASSUME NEW q \in Seq(Calls), q # <<>>
  PROVE  Tail(q) \in Seq(Calls)
<1>1. ASSUME NEW S, NEW r \in Seq(S), r # <<>> PROVE Tail(r) \in Seq(S)
  BY <1>1
<1>2. QED
  BY <1>1

(* Each step of init and release keeps the types.                          *)
LEMMA UITypes ==
  ASSUME TInv, UIAction
  PROVE  TInv'
<1> USE DEF TInv, TypeOK, globalVars, objectVars, localVars, jniVars, countVars,
   resultVars,
        historyVars
<1>1. CASE InitCall
  <2>1. GlobalType'
    BY <1>1 DEF GlobalType, CountType, InitCall, Begin, FirstStep, TakeRef
  <2>2. ObjectType'
    BY <1>1 DEF ObjectType, CountType, InitCall, Begin, FirstStep, TakeRef
  <2>3. ThreadType'
    BY <1>1 DEF ThreadType, Places, InitCall, Begin, Go, FirstStep, TakeRef
  <2>4. CountType'
    BY <1>1 DEF CountType, InitCall, Begin, FirstStep, TakeRef
  <2>5. ResultType'
    BY <1>1 DEF ResultType, InitCall, Begin, FirstStep, TakeRef
  <2>6. HistoryType'
    BY <1>1 DEF HistoryType, InitCall, Begin, FirstStep, TakeRef
  <2>7. Placed'
    BY <1>1 DEF Placed, ReleasePlaces, DataPlaces, LoopPlaces, CountType, InitCall,
       Begin, Go, FirstStep, TakeRef
  <2>8. QED
    BY <2>1, <2>2, <2>3, <2>4, <2>5, <2>6, <2>7
<1>2. CASE OpenFile
  <2>1. GlobalType'
    BY <1>2 DEF GlobalType, CountType, OpenFile
  <2>2. ObjectType'
    <3>1. inits \in 1..inits
      BY <1>2 DEF OpenFile, Go, Placed, InitPlaces, CountType
    <3>2. openFiles' \subseteq 1..inits /\ openCodecs' \subseteq 1..inits
      BY <1>2, <3>1 DEF OpenFile, ObjectType
    <3>3. QED
      BY <1>2, <3>2 DEF OpenFile, ObjectType
  <2>3. ThreadType'
    BY <1>2 DEF ThreadType, Places, OpenFile, Go
  <2>4. CountType'
    BY <1>2 DEF CountType, OpenFile
  <2>5. ResultType'
    BY <1>2 DEF ResultType, OpenFile
  <2>6. HistoryType'
    BY <1>2 DEF HistoryType, OpenFile
  <2>7. Placed'
    BY <1>2 DEF Placed, InitPlaces, ReleasePlaces, DataPlaces, LoopPlaces, ThreadType,
       OpenFile, Go
  <2>8. QED
    BY <2>1, <2>2, <2>3, <2>4, <2>5, <2>6, <2>7
<1>3. CASE CreateQueue
  <2>1. GlobalType'
    BY <1>3 DEF GlobalType, CountType, CreateQueue
  <2>2. ObjectType'
    BY <1>3 DEF ObjectType, CreateQueue
  <2>3. ThreadType'
    BY <1>3 DEF ThreadType, Places, CreateQueue, Go
  <2>4. CountType'
    BY <1>3 DEF CountType, CreateQueue
  <2>5. ResultType'
    BY <1>3 DEF ResultType, CreateQueue
  <2>6. HistoryType'
    BY <1>3 DEF HistoryType, CreateQueue
  <2>7. Placed'
    BY <1>3 DEF Placed, InitPlaces, ReleasePlaces, DataPlaces, LoopPlaces, ThreadType,
       CreateQueue, Go
  <2>8. QED
    BY <2>1, <2>2, <2>3, <2>4, <2>5, <2>6, <2>7
<1>4. CASE OpenCodec
  <2>1. GlobalType'
    BY <1>4 DEF GlobalType, CountType, OpenCodec
  <2>2. ObjectType'
    <3>1. inits \in 1..inits
      BY <1>4 DEF OpenCodec, Go, Placed, InitPlaces, CountType
    <3>2. openFiles' \subseteq 1..inits /\ openCodecs' \subseteq 1..inits
      BY <1>4, <3>1 DEF OpenCodec, ObjectType
    <3>3. QED
      BY <1>4, <3>2 DEF OpenCodec, ObjectType
  <2>3. ThreadType'
    BY <1>4 DEF ThreadType, Places, OpenCodec, Go
  <2>4. CountType'
    BY <1>4 DEF CountType, OpenCodec
  <2>5. ResultType'
    BY <1>4 DEF ResultType, OpenCodec
  <2>6. HistoryType'
    BY <1>4 DEF HistoryType, OpenCodec
  <2>7. Placed'
    BY <1>4 DEF Placed, InitPlaces, ReleasePlaces, DataPlaces, LoopPlaces, ThreadType,
       OpenCodec, Go
  <2>8. QED
    BY <2>1, <2>2, <2>3, <2>4, <2>5, <2>6, <2>7
<1>5. CASE InitReady
  <2>1. GlobalType'
    BY <1>5 DEF GlobalType, InitReady
  <2>2. ObjectType'
    BY <1>5 DEF ObjectType, InitReady
  <2>3. ThreadType'
    BY <1>5 DEF ThreadType, Places, InitReady, Go
  <2>4. CountType'
    BY <1>5 DEF CountType, InitReady
  <2>5. ResultType'
    BY <1>5 DEF ResultType, InitReady
  <2>6. HistoryType'
    BY <1>5 DEF HistoryType, InitReady
  <2>7. Placed'
    BY <1>5 DEF Placed, InitPlaces, ReleasePlaces, DataPlaces, LoopPlaces, InitReady, Go
  <2>8. QED
    BY <2>1, <2>2, <2>3, <2>4, <2>5, <2>6, <2>7
<1>6. CASE ReleaseCall
  <2>1. GlobalType'
    BY <1>6 DEF GlobalType, ReleaseCall, Begin, DropRef
  <2>2. ObjectType'
    BY <1>6 DEF ObjectType, ReleaseCall, Begin, DropRef
  <2>3. ThreadType'
    BY <1>6 DEF ThreadType, Places, ReleaseCall, Begin, Go, DropRef
  <2>4. CountType'
    BY <1>6 DEF CountType, ReleaseCall, Begin, DropRef
  <2>5. ResultType'
    BY <1>6 DEF ResultType, ReleaseCall, Begin, DropRef
  <2>6. HistoryType'
    BY <1>6 DEF HistoryType, ReleaseCall, Begin, DropRef
  <2>7. Placed'
    BY <1>6 DEF Placed, InitPlaces, ReleasePlaces, DataPlaces, LoopPlaces, ReleaseCall,
       Begin, Go, DropRef
  <2>8. QED
    BY <2>1, <2>2, <2>3, <2>4, <2>5, <2>6, <2>7
<1>7. CASE ReleaseFree
  <2>1. GlobalType'
    BY <1>7 DEF GlobalType, CountType, ReleaseFree, FreeData, Fault
  <2>2. ObjectType'
    BY <1>7 DEF ObjectType, ReleaseFree, FreeData, Fault
  <2>3. ThreadType'
    BY <1>7 DEF ThreadType, Places, ReleaseFree, FreeData, Fault, Go
  <2>4. CountType'
    BY <1>7 DEF CountType, ReleaseFree, FreeData, Fault
  <2>5. ResultType'
    BY <1>7 DEF ResultType, ReleaseFree, FreeData, Fault
  <2>6. HistoryType'
    BY <1>7 DEF HistoryType, ReleaseFree, FreeData, Fault
  <2>7. Placed'
    BY <1>7 DEF Placed, InitPlaces, ReleasePlaces, DataPlaces, LoopPlaces, ThreadType,
       ReleaseFree, FreeData, Fault, Go
  <2>8. QED
    BY <2>1, <2>2, <2>3, <2>4, <2>5, <2>6, <2>7
<1>8. CASE ReleaseClearState
  <2>1. GlobalType'
    BY <1>8 DEF GlobalType, ReleaseClearState
  <2>2. ObjectType'
    BY <1>8 DEF ObjectType, ReleaseClearState
  <2>3. ThreadType'
    BY <1>8 DEF ThreadType, Places, ReleaseClearState, Go
  <2>4. CountType'
    BY <1>8 DEF CountType, ReleaseClearState
  <2>5. ResultType'
    BY <1>8 DEF ResultType, ReleaseClearState
  <2>6. HistoryType'
    BY <1>8 DEF HistoryType, ReleaseClearState
  <2>7. Placed'
    BY <1>8 DEF Placed, InitPlaces, ReleasePlaces, DataPlaces, LoopPlaces,
       ReleaseClearState, Go
  <2>8. QED
    BY <2>1, <2>2, <2>3, <2>4, <2>5, <2>6, <2>7
<1>9. CASE ReleaseClearEncoding
  <2>1. GlobalType'
    BY <1>9 DEF GlobalType, ReleaseClearEncoding
  <2>2. ObjectType'
    BY <1>9 DEF ObjectType, ReleaseClearEncoding
  <2>3. ThreadType'
    BY <1>9 DEF ThreadType, Places, ReleaseClearEncoding, Go
  <2>4. CountType'
    BY <1>9 DEF CountType, ReleaseClearEncoding
  <2>5. ResultType'
    BY <1>9 DEF ResultType, ReleaseClearEncoding
  <2>6. HistoryType'
    BY <1>9 DEF HistoryType, ReleaseClearEncoding
  <2>7. Placed'
    BY <1>9 DEF Placed, InitPlaces, ReleasePlaces, DataPlaces, LoopPlaces,
       ReleaseClearEncoding, Go
  <2>8. QED
    BY <2>1, <2>2, <2>3, <2>4, <2>5, <2>6, <2>7
<1>10. QED
  BY <1>1, <1>2, <1>3, <1>4, <1>5, <1>6, <1>7, <1>8, <1>9 DEF UIAction, UIStep

(* Each step of a data call keeps the types.                               *)
LEMMA DataTypes ==
  ASSUME TInv, NEW t \in Threads, DataAction(t)
  PROVE  TInv'
<1> USE DEF TInv, TypeOK, globalVars, objectVars, localVars, jniVars, countVars,
   resultVars,
        historyVars
<1>1. CASE DataCall(t)
  <2>1. GlobalType'
    BY <1>1 DEF GlobalType, DataCall, Begin
  <2>2. ObjectType'
    BY <1>1 DEF ObjectType, DataCall, Begin
  <2>3. ThreadType'
    BY <1>1 DEF ThreadType, Places, CountType, DataCall, Begin, Go
  <2>4. CountType'
    BY <1>1 DEF CountType, DataCall, Begin
  <2>5. ResultType'
    BY <1>1 DEF ResultType, CountType, DataCall, Begin
  <2>6. HistoryType'
    BY <1>1 DEF HistoryType, DataCall, Begin
  <2>7. Placed'
    BY <1>1 DEF Placed, InitPlaces, ReleasePlaces, ThreadType, CountType, DataCall,
       Begin, Go
  <2>8. QED
    BY <2>1, <2>2, <2>3, <2>4, <2>5, <2>6, <2>7
<1>2. CASE DataTest(t)
  <2>1. GlobalType'
    BY <1>2 DEF GlobalType, DataTest, Return
  <2>2. ObjectType'
    BY <1>2 DEF ObjectType, DataTest, Return
  <2>3. ThreadType'
    BY <1>2 DEF ThreadType, Places, DataTest, Return, Go
  <2>4. CountType'
    BY <1>2 DEF CountType, DataTest, Return
  <2>5. ResultType'
    <3>1. CASE Return(t, "test")
      BY <3>1, <1>2, ReturnTypes DEF DataTest, DataPlaces
    <3>2. CASE returned' = returned
      BY <3>2, <1>2 DEF DataTest, ResultType
    <3>3. QED
      BY <3>1, <3>2, <1>2 DEF DataTest
  <2>6. HistoryType'
    BY <1>2 DEF HistoryType, DataTest, Return
  <2>7. Placed'
    BY <1>2 DEF Placed, InitPlaces, ReleasePlaces, DataPlaces, ThreadType, DataTest,
       Return, Go
  <2>8. QED
    BY <2>1, <2>2, <2>3, <2>4, <2>5, <2>6, <2>7
<1>3. CASE Push(t)
  <2>1. GlobalType'
    BY <1>3 DEF GlobalType, Push
  <2>2. ObjectType'
    <3>1. current[t] \in Calls
      BY <1>3, CurrentCall DEF Push, Go, DataPlaces
    <3>2. queueOf \in Sessions
      BY <1>3 DEF Push, GlobalType, CountType
    <3>3. Append(queue[queueOf], current[t]) \in Seq(Calls)
      BY <3>1, <3>2 DEF ObjectType
    <3>4. queue' \in [Sessions -> Seq(Calls)]
      BY <1>3, <3>3 DEF Push, ObjectType
    <3>5. QED
      BY <1>3, <3>4 DEF Push, ObjectType, countVars
  <2>3. ThreadType'
    BY <1>3 DEF ThreadType, Places, Push, Go
  <2>4. CountType'
    BY <1>3 DEF CountType, Push
  <2>5. ResultType'
    <3>1. current[t] \in Calls
      BY <1>3, CurrentCall DEF Push, Go, DataPlaces
    <3>2. QED
      BY <1>3, <3>1 DEF Push, ResultType
  <2>6. HistoryType'
    BY <1>3 DEF HistoryType, Push
  <2>7. Placed'
    BY <1>3 DEF Placed, InitPlaces, ReleasePlaces, DataPlaces, Push, Go
  <2>8. QED
    BY <2>1, <2>2, <2>3, <2>4, <2>5, <2>6, <2>7
<1>4. CASE TestStopped(t)
  <2>1. GlobalType'
    BY <1>4 DEF GlobalType, TestStopped, Return
  <2>2. ObjectType'
    BY <1>4 DEF ObjectType, TestStopped, Return
  <2>3. ThreadType'
    BY <1>4 DEF ThreadType, Places, TestStopped, Return, Go
  <2>4. CountType'
    BY <1>4 DEF CountType, TestStopped, Return
  <2>5. ResultType'
    <3>1. CASE Return(t, "testStopped")
      BY <3>1, <1>4, ReturnTypes DEF TestStopped, DataPlaces
    <3>2. CASE returned' = returned
      BY <3>2, <1>4 DEF TestStopped, ResultType
    <3>3. QED
      BY <3>1, <3>2, <1>4 DEF TestStopped
  <2>6. HistoryType'
    BY <1>4 DEF HistoryType, TestStopped, Return
  <2>7. Placed'
    BY <1>4 DEF Placed, InitPlaces, ReleasePlaces, DataPlaces, ThreadType, TestStopped,
       Return, Go
  <2>8. QED
    BY <2>1, <2>2, <2>3, <2>4, <2>5, <2>6, <2>7
<1>5. CASE Pop(t)
  <2>1. GlobalType'
    BY <1>5 DEF GlobalType, Pop
  <2>2. ObjectType'
    <3>1. queueOf \in Sessions
      BY <1>5 DEF Pop, GlobalType, CountType
    <3>2. queue[queueOf] \in Seq(Calls)
      BY <3>1 DEF ObjectType
    <3>3. queue[queueOf] # <<>> => Tail(queue[queueOf]) \in Seq(Calls)
      BY <3>2, TailType
    <3>4. queue' \in [Sessions -> Seq(Calls)]
      BY <1>5, <3>3 DEF Pop, ObjectType
    <3>5. QED
      BY <1>5, <3>4 DEF Pop, ObjectType, countVars
  <2>3. ThreadType'
    <3>1. queueOf \in Sessions
      BY <1>5 DEF Pop, GlobalType, CountType
    <3>2. queue[queueOf] \in Seq(Calls)
      BY <3>1 DEF ObjectType
    <3>3. queue[queueOf] # <<>> => Head(queue[queueOf]) \in 0..MaxCalls
      BY <3>2
    <3>4. buffer' \in [Threads -> 0..MaxCalls] /\ ret' \in [Threads -> {"OK", "FAIL"}]
      BY <1>5, <3>3 DEF Pop, ThreadType
    <3>5. QED
      BY <1>5, <3>4 DEF Pop, Go, ThreadType, Places, countVars
  <2>4. CountType'
    BY <1>5 DEF CountType, Pop
  <2>5. ResultType'
    BY <1>5 DEF ResultType, Pop
  <2>6. HistoryType'
    BY <1>5 DEF HistoryType, Pop
  <2>7. Placed'
    <3>1. queueOf \in Sessions
      BY <1>5 DEF Pop, GlobalType, CountType
    <3>2. queue[queueOf] \in Seq(Calls)
      BY <3>1 DEF ObjectType
    <3>3. queue[queueOf] # <<>> => Head(queue[queueOf]) # 0
      BY <3>2
    <3>4. pc'[t] = "encode" => buffer'[t] # 0
      BY <1>5, <3>3 DEF Pop, Go, ThreadType
    <3>5. \A u \in Threads \ {t} : pc'[u] = pc[u] /\ buffer'[u] = buffer[u]
      BY <1>5 DEF Pop, Go, ThreadType
    <3>6. pc[t] = "pop" /\ pc'[t] \in {"testReleased", "encode"}
      BY <1>5 DEF Pop, Go, ThreadType
    <3>7. UNCHANGED <<inits, current>>
      BY <1>5 DEF Pop, countVars
    <3>8. QED
      BY <3>4, <3>5, <3>6, <3>7 DEF Placed, InitPlaces, ReleasePlaces, DataPlaces,
         LoopPlaces
  <2>8. QED
    BY <2>1, <2>2, <2>3, <2>4, <2>5, <2>6, <2>7
<1>6. CASE NoQueue(t)
  <2>1. GlobalType'
    BY <1>6 DEF GlobalType, NoQueue, Fault
  <2>2. ObjectType'
    BY <1>6 DEF ObjectType, NoQueue, Fault
  <2>3. ThreadType'
    BY <1>6 DEF ThreadType, Places, NoQueue, Fault
  <2>4. CountType'
    BY <1>6 DEF CountType, NoQueue, Fault
  <2>5. ResultType'
    BY <1>6 DEF ResultType, NoQueue, Fault
  <2>6. HistoryType'
    BY <1>6 DEF HistoryType, NoQueue, Fault
  <2>7. Placed'
    BY <1>6 DEF Placed, ReleasePlaces, NoQueue, Fault
  <2>8. QED
    BY <2>1, <2>2, <2>3, <2>4, <2>5, <2>6, <2>7
<1>7. CASE EncodeFault(t)
  <2>1. GlobalType'
    BY <1>7 DEF GlobalType, EncodeFault, Fault
  <2>2. ObjectType'
    BY <1>7 DEF ObjectType, EncodeFault, Fault
  <2>3. ThreadType'
    BY <1>7 DEF ThreadType, Places, EncodeFault, Fault
  <2>4. CountType'
    BY <1>7 DEF CountType, EncodeFault, Fault
  <2>5. ResultType'
    BY <1>7 DEF ResultType, EncodeFault, Fault
  <2>6. HistoryType'
    BY <1>7 DEF HistoryType, EncodeFault, Fault
  <2>7. Placed'
    BY <1>7 DEF Placed, ReleasePlaces, EncodeFault, Fault
  <2>8. QED
    BY <2>1, <2>2, <2>3, <2>4, <2>5, <2>6, <2>7
<1>8. CASE Encode(t)
  <2>1. GlobalType'
    BY <1>8 DEF GlobalType, Encode, CodecUsable
  <2>2. ObjectType'
    BY <1>8 DEF ObjectType, Encode, CodecUsable
  <2>3. ThreadType'
    BY <1>8 DEF ThreadType, Places, Encode, Go, CodecUsable
  <2>4. CountType'
    BY <1>8 DEF CountType, Encode, CodecUsable
  <2>5. ResultType'
    <3>1. buffer[t] \in Calls
      BY <1>8 DEF Encode, Go, Placed, ThreadType
    <3>2. QED
      BY <1>8, <3>1 DEF Encode, ResultType
  <2>6. HistoryType'
    BY <1>8 DEF HistoryType, Encode, CodecUsable
  <2>7. Placed'
    BY <1>8 DEF Placed, InitPlaces, ReleasePlaces, DataPlaces, LoopPlaces, Encode, Go,
       CodecUsable
  <2>8. QED
    BY <2>1, <2>2, <2>3, <2>4, <2>5, <2>6, <2>7
<1>9. CASE TestReleased(t)
  <2>1. GlobalType'
    BY <1>9 DEF GlobalType, TestReleased
  <2>2. ObjectType'
    BY <1>9 DEF ObjectType, TestReleased
  <2>3. ThreadType'
    BY <1>9 DEF ThreadType, Places, TestReleased, Go
  <2>4. CountType'
    BY <1>9 DEF CountType, TestReleased
  <2>5. ResultType'
    BY <1>9 DEF ResultType, TestReleased
  <2>6. HistoryType'
    BY <1>9 DEF HistoryType, TestReleased
  <2>7. Placed'
    BY <1>9 DEF Placed, InitPlaces, ReleasePlaces, DataPlaces, LoopPlaces, TestReleased,
       Go
  <2>8. QED
    BY <2>1, <2>2, <2>3, <2>4, <2>5, <2>6, <2>7
<1>10. CASE DataFree(t)
  <2>1. GlobalType'
    BY <1>10 DEF GlobalType, CountType, DataFree, FreeData, Fault
  <2>2. ObjectType'
    BY <1>10 DEF ObjectType, DataFree, FreeData, Fault
  <2>3. ThreadType'
    BY <1>10 DEF ThreadType, Places, DataFree, FreeData, Fault, Go
  <2>4. CountType'
    BY <1>10 DEF CountType, DataFree, FreeData, Fault
  <2>5. ResultType'
    BY <1>10 DEF ResultType, DataFree, FreeData, Fault
  <2>6. HistoryType'
    BY <1>10 DEF HistoryType, DataFree, FreeData, Fault
  <2>7. Placed'
    BY <1>10 DEF Placed, InitPlaces, ReleasePlaces, DataPlaces, ThreadType, DataFree,
       FreeData, Fault, Go
  <2>8. QED
    BY <2>1, <2>2, <2>3, <2>4, <2>5, <2>6, <2>7
<1>11. CASE Mark(t)
  <2>1. GlobalType'
    BY <1>11 DEF GlobalType, Mark
  <2>2. ObjectType'
    BY <1>11 DEF ObjectType, Mark
  <2>3. ThreadType'
    BY <1>11 DEF ThreadType, Places, Mark, Go
  <2>4. CountType'
    BY <1>11 DEF CountType, Mark
  <2>5. ResultType'
    BY <1>11 DEF ResultType, Mark
  <2>6. HistoryType'
    BY <1>11 DEF HistoryType, Mark
  <2>7. Placed'
    BY <1>11 DEF Placed, InitPlaces, ReleasePlaces, DataPlaces, LoopPlaces, Mark, Go
  <2>8. QED
    BY <2>1, <2>2, <2>3, <2>4, <2>5, <2>6, <2>7
<1>12. CASE Loop(t)
  <2>1. GlobalType'
    BY <1>12 DEF GlobalType, Loop
  <2>2. ObjectType'
    BY <1>12 DEF ObjectType, Loop
  <2>3. ThreadType'
    BY <1>12 DEF ThreadType, Places, Loop, Go
  <2>4. CountType'
    BY <1>12 DEF CountType, Loop
  <2>5. ResultType'
    BY <1>12 DEF ResultType, Loop
  <2>6. HistoryType'
    BY <1>12 DEF HistoryType, Loop
  <2>7. Placed'
    BY <1>12 DEF Placed, InitPlaces, ReleasePlaces, DataPlaces, LoopPlaces, Loop, Go
  <2>8. QED
    BY <2>1, <2>2, <2>3, <2>4, <2>5, <2>6, <2>7
<1>13. CASE DataReturn(t)
  <2>1. GlobalType'
    BY <1>13 DEF GlobalType, DataReturn, Return
  <2>2. ObjectType'
    BY <1>13 DEF ObjectType, DataReturn, Return
  <2>3. ThreadType'
    BY <1>13 DEF ThreadType, Places, DataReturn, Return, Go
  <2>4. CountType'
    BY <1>13 DEF CountType, DataReturn, Return
  <2>5. ResultType'
    BY <1>13, ReturnTypes DEF DataReturn, DataPlaces
  <2>6. HistoryType'
    BY <1>13 DEF HistoryType, DataReturn, Return
  <2>7. Placed'
    BY <1>13 DEF Placed, InitPlaces, ReleasePlaces, DataPlaces, DataReturn, Return, Go
  <2>8. QED
    BY <2>1, <2>2, <2>3, <2>4, <2>5, <2>6, <2>7
<1>14. QED
  BY <1>1, <1>2, <1>3, <1>4, <1>5, <1>6, <1>7, <1>8, <1>9, <1>10, <1>11, <1>12, <1>13
     DEF DataAction, DataStep

-----------------------------------------------------------------------------
(* Calls made one after the other.                                         *)

(* Undefined behaviour changes nothing but the fault.                      *)
LEMMA Unchanged ==
  ASSUME Orderly, UNCHANGED <<kind, globalVars, objectVars, pc, localVars, countVars,
                              resultVars, historyVars>>
  PROVE  Orderly'
  BY DEF Orderly, Alone, States, Opened, References, Exact, Queues, Given, Waiting,
     InUse,
     Referred, HasFile, globalVars, objectVars, localVars, countVars, jniVars, resultVars,
     historyVars

(* With one thread at work, what is queued or not yet handled is its own.  *)
LEMMA OwnBuffer ==
  ASSUME Orderly, NEW t \in Threads, \A u \in Threads \ {t} : pc[u] = "idle"
  PROVE  /\ \A s \in Sessions : queue[s] = <<>> \/ Waiting(t, s)
         /\ \A b \in accepted \ handled :
              b = current[t] /\ (pc[t] = "encode" \/ \E s \in Sessions : Waiting(t, s))
<1>1. \A u \in Threads \ {t}, s \in Sessions : ~Waiting(u, s) /\ pc[u] # "encode"
  BY DEF Waiting
<1>2. QED
  BY <1>1 DEF Orderly, Queues, Given

(* A step of init or release, made while no other thread is at work.       *)
LEMMA UIOrderly ==
  ASSUME TInv, UIAction, Orderly, ~overlap'
  PROVE  Orderly'
<1> USE DEF TInv, TypeOK, Orderly, InitPlaces, ReleasePlaces, DataPlaces, LoopPlaces,
        globalVars, objectVars, localVars, jniVars, countVars, resultVars, historyVars
<1>1. CASE InitCall
  <2>1. /\ pc["ui"] = "idle" /\ pc'["ui"] \in {"idle", "openFile", "createQueue"}
        /\ \A u \in Threads \ {"ui"} : pc[u] = "idle" /\ pc'[u] = "idle"
    BY <1>1 DEF InitCall, Begin, Go, FirstStep, TakeRef, ThreadType, Alone, States
  <2>2. Alone'
    BY <2>1 DEF Alone
  <2>3. States'
    BY <1>1, <2>1 DEF States, HasFile, GlobalType, InitCall, Begin, Go, FirstStep,
       TakeRef
  <2>4. Opened'
    BY <1>1, <2>1 DEF Opened, InUse, HasFile, States, InitCall, Begin, Go, FirstStep,
       TakeRef
  <2>5. References'
    BY <1>1, <2>1 DEF References, Referred, States, InitCall, Begin, FirstStep, TakeRef
  <2>6. Exact'
    <3>1. CASE encState = "INITIALIZED"
      <4>1. UNCHANGED <<kind, encState, initFailed, openCodecs, openFiles, handle, file>>
            /\ repeated' = TRUE /\ pc'["ui"] = "idle"
        BY <1>1, <2>1, <3>1 DEF InitCall, Begin, Go, FirstStep, ThreadType
      <4>2. QED
        BY <2>1, <4>1 DEF Exact, InUse, HasFile
    <3>2. CASE encState = "UNINITIALIZED"
      <4>1. UNCHANGED <<kind, encState, initFailed, openCodecs, openFiles, handle, file,
                       repeated>>
        BY <1>1, <3>2 DEF InitCall, HistoryType
      <4>2. pc'["ui"] \in {"openFile", "createQueue"} /\ (HasFile => pc'["ui"] = "openFile")
        BY <1>1, <2>1, <3>2 DEF InitCall, Begin, Go, FirstStep, ThreadType
      <4>3. liveRefs' = liveRefs \cup {encodeObj'}
        BY <1>1 DEF InitCall, TakeRef
      <4>4. QED
        BY <2>1, <3>2, <4>1, <4>2, <4>3 DEF Exact, InUse, Referred, HasFile
    <3>3. QED
      BY <3>1, <3>2 DEF GlobalType
  <2>7. Queues'
    BY <1>1, <2>1 DEF Queues, Waiting, InitCall, Begin, FirstStep, TakeRef
  <2>8. Given'
    BY <1>1, <2>1 DEF Given, Waiting, InitCall, Begin, FirstStep, TakeRef
  <2>9. QED
    BY <2>2, <2>3, <2>4, <2>5, <2>6, <2>7, <2>8
<1>2. CASE OpenFile
  <2>1. /\ pc["ui"] = "openFile" /\ pc'["ui"] \in {"createQueue", "idle"}
        /\ \A u \in Threads \ {"ui"} : pc[u] = "idle" /\ pc'[u] = "idle"
    BY <1>2 DEF OpenFile, Go, ThreadType, Alone, States
  <2>2. Alone'
    BY <2>1 DEF Alone
  <2>3. States'
    BY <1>2, <2>1 DEF States, OpenFile
  <2>4. Opened'
    <3>1. encState' = "UNINITIALIZED"
      BY <1>2, <2>1 DEF OpenFile, States
    <3>2. pc'["ui"] = "createQueue" => file' \in openFiles'
      BY <1>2, <2>1 DEF OpenFile, Go, ThreadType
    <3>3. QED
      BY <2>1, <3>1, <3>2 DEF Opened, InUse
  <2>5. References'
    BY <1>2, <2>1 DEF References, Referred, States, OpenFile
  <2>6. Exact'
    <3>1. CASE initFailed'
      BY <3>1 DEF Exact
    <3>2. CASE ~initFailed'
      <4>1. pc'["ui"] = "createQueue" /\ file' = inits /\ openFiles' = openFiles \cup {file'}
            /\ UNCHANGED <<handle, openCodecs>>
        BY <1>2, <2>1, <3>2 DEF OpenFile, Go, ThreadType
      <4>2. UNCHANGED <<kind, encState, initFailed, liveRefs, encodeObj, repeated>>
        BY <1>2, <3>2 DEF OpenFile, HistoryType
      <4>3. QED
        BY <2>1, <3>2, <4>1, <4>2 DEF Exact, InUse, Referred, HasFile, States
    <3>3. QED
      BY <3>1, <3>2
  <2>7. Queues'
    BY <1>2, <2>1 DEF Queues, Waiting, OpenFile
  <2>8. Given'
    BY <1>2, <2>1 DEF Given, Waiting, OpenFile
  <2>9. QED
    BY <2>2, <2>3, <2>4, <2>5, <2>6, <2>7, <2>8
<1>3. CASE CreateQueue
  <2>1. /\ pc["ui"] = "createQueue" /\ pc'["ui"] \in {"openCodec", "idle"}
        /\ \A u \in Threads \ {"ui"} : pc[u] = "idle" /\ pc'[u] = "idle"
    BY <1>3 DEF CreateQueue, Go, ThreadType, Alone, States
  <2>2. Alone'
    BY <2>1 DEF Alone
  <2>3. States'
    BY <1>3, <2>1 DEF States, CreateQueue
  <2>4. Opened'
    BY <1>3, <2>1 DEF Opened, InUse, HasFile, States, CreateQueue
  <2>5. References'
    BY <1>3, <2>1 DEF References, Referred, States, CreateQueue
  <2>6. Exact'
    <3>1. CASE initFailed'
      BY <3>1 DEF Exact
    <3>2. CASE ~initFailed'
      <4>1. pc'["ui"] = "openCodec" /\ UNCHANGED <<handle, openCodecs, file, openFiles>>
        BY <1>3, <2>1, <3>2 DEF CreateQueue, Go, ThreadType
      <4>2. UNCHANGED <<kind, encState, initFailed, liveRefs, encodeObj, repeated>>
        BY <1>3, <3>2 DEF CreateQueue, HistoryType
      <4>3. QED
        BY <2>1, <3>2, <4>1, <4>2 DEF Exact, InUse, Referred, HasFile, States
    <3>3. QED
      BY <3>1, <3>2
  <2>7. Queues'
    BY <1>3, <2>1 DEF Queues, Waiting, CreateQueue
  <2>8. Given'
    BY <1>3, <2>1 DEF Given, Waiting, CreateQueue
  <2>9. QED
    BY <2>2, <2>3, <2>4, <2>5, <2>6, <2>7, <2>8
<1>4. CASE OpenCodec
  <2>1. /\ pc["ui"] = "openCodec" /\ pc'["ui"] \in {"ready", "idle"}
        /\ \A u \in Threads \ {"ui"} : pc[u] = "idle" /\ pc'[u] = "idle"
    BY <1>4 DEF OpenCodec, Go, ThreadType, Alone, States
  <2>2. Alone'
    BY <2>1 DEF Alone
  <2>3. States'
    BY <1>4, <2>1 DEF States, OpenCodec
  <2>4. Opened'
    <3>1. encState' = "UNINITIALIZED" /\ UNCHANGED <<kind, file, openFiles>>
      BY <1>4, <2>1 DEF OpenCodec, States
    <3>2. pc'["ui"] = "ready" => handle' \in openCodecs' \/ (kind = "x264" /\ initFailed')
      BY <1>4, <2>1 DEF OpenCodec, Go, ThreadType
    <3>3. QED
      BY <2>1, <3>1, <3>2 DEF Opened, InUse, HasFile
  <2>5. References'
    BY <1>4, <2>1 DEF References, Referred, States, OpenCodec
  <2>6. Exact'
    <3>1. CASE initFailed'
      BY <3>1 DEF Exact
    <3>2. CASE ~initFailed'
      <4>1. pc'["ui"] = "ready" /\ handle' = inits /\ openCodecs' = openCodecs \cup {handle'}
            /\ UNCHANGED <<file, openFiles>>
        BY <1>4, <2>1, <3>2 DEF OpenCodec, Go, ThreadType
      <4>2. UNCHANGED <<kind, encState, initFailed, liveRefs, encodeObj, repeated>>
        BY <1>4, <3>2 DEF OpenCodec, HistoryType
      <4>3. QED
        BY <2>1, <3>2, <4>1, <4>2 DEF Exact, InUse, Referred, HasFile, States
    <3>3. QED
      BY <3>1, <3>2
  <2>7. Queues'
    BY <1>4, <2>1 DEF Queues, Waiting, OpenCodec
  <2>8. Given'
    BY <1>4, <2>1 DEF Given, Waiting, OpenCodec
  <2>9. QED
    BY <2>2, <2>3, <2>4, <2>5, <2>6, <2>7, <2>8
<1>5. CASE InitReady
  <2>1. /\ pc["ui"] = "ready" /\ pc'["ui"] = "idle"
        /\ \A u \in Threads \ {"ui"} : pc[u] = "idle" /\ pc'[u] = "idle"
    BY <1>5 DEF InitReady, Go, ThreadType, Alone, States
  <2>2. Alone'
    BY <2>1 DEF Alone
  <2>3. States'
    BY <1>5, <2>1 DEF States, InitReady
  <2>4. Opened'
    BY <1>5, <2>1 DEF Opened, InUse, HasFile, States, InitReady
  <2>5. References'
    BY <1>5, <2>1 DEF References, Referred, States, InitReady
  <2>6. Exact'
    BY <1>5, <2>1 DEF Exact, InUse, Referred, HasFile, States, InitReady
  <2>7. Queues'
    BY <1>5, <2>1 DEF Queues, Waiting, InitReady
  <2>8. Given'
    BY <1>5, <2>1 DEF Given, Waiting, InitReady
  <2>9. QED
    BY <2>2, <2>3, <2>4, <2>5, <2>6, <2>7, <2>8
<1>6. CASE ReleaseCall
  <2>1. /\ pc["ui"] = "idle" /\ pc'["ui"] = "free"
        /\ \A u \in Threads \ {"ui"} : pc[u] = "idle" /\ pc'[u] = "idle"
    BY <1>6 DEF ReleaseCall, Begin, Go, DropRef, ThreadType, Alone, States
  <2>2. Alone'
    BY <2>1 DEF Alone
  <2>3. States'
    BY <1>6, <2>1 DEF States, GlobalType, ReleaseCall, Begin, DropRef
  <2>4. Opened'
    BY <1>6, <2>1 DEF Opened, InUse, HasFile, States, ReleaseCall, Begin, DropRef
  <2>5. References'
    BY <1>6, <2>1 DEF References, Referred, States, ReleaseCall, Begin, DropRef
  <2>6. Exact'
    BY <1>6, <2>1 DEF Exact, InUse, Referred, HasFile, States, ReleaseCall, Begin,
       DropRef
  <2>7. Queues'
    BY <1>6, <2>1 DEF Queues, Waiting, ReleaseCall, Begin, DropRef
  <2>8. Given'
    BY <1>6, <2>1 DEF Given, Waiting, ReleaseCall, Begin, DropRef
  <2>9. QED
    BY <2>2, <2>3, <2>4, <2>5, <2>6, <2>7, <2>8
<1>7. CASE ReleaseFree
  <2>1. CASE FreeFaults
    <3>1. UNCHANGED <<kind, globalVars, objectVars, pc, localVars, countVars, resultVars,
                      historyVars>>
      BY <1>7, <2>1 DEF ReleaseFree, FreeData, Fault
    <3>2. QED
      BY <3>1, Unchanged
  <2>2. CASE ~FreeFaults
    <3>1. /\ pc["ui"] = "free" /\ pc'["ui"] = "clearState"
          /\ \A u \in Threads \ {"ui"} : pc[u] = "idle" /\ pc'[u] = "idle"
      BY <1>7, <2>2 DEF ReleaseFree, FreeData, Go, ThreadType, Alone
    <3>2. Alone'
      BY <3>1 DEF Alone
    <3>3. States'
      BY <1>7, <2>2, <3>1 DEF States, ReleaseFree, FreeData
    <3>4. Opened' /\ References'
      BY <3>1 DEF Opened, InUse, References, Referred
    <3>5. Exact'
      <4>1. /\ openFiles' = openFiles \ {file} /\ openCodecs' = openCodecs \ {handle}
            /\ UNCHANGED <<kind, initFailed, repeated, liveRefs>>
        BY <1>7, <2>2 DEF ReleaseFree, FreeData
      <4>2. QED
        BY <3>1, <4>1 DEF Exact, InUse, Referred
    <3>6. Queues' /\ Given'
      BY <1>7, <2>2, <3>1 DEF Queues, Given, Waiting, ReleaseFree, FreeData
    <3>7. QED
      BY <3>2, <3>3, <3>4, <3>5, <3>6
  <2>3. QED
    BY <2>1, <2>2
<1>8. CASE ReleaseClearState
  <2>1. /\ pc["ui"] = "clearState" /\ pc'["ui"] = "clearEncoding"
        /\ \A u \in Threads \ {"ui"} : pc[u] = "idle" /\ pc'[u] = "idle"
    BY <1>8 DEF ReleaseClearState, Go, ThreadType, Alone, States
  <2>2. Alone'
    BY <2>1 DEF Alone
  <2>3. States'
    BY <1>8, <2>1 DEF States, ReleaseClearState
  <2>4. Opened'
    BY <1>8, <2>1 DEF Opened, InUse, States, ReleaseClearState
  <2>5. References'
    BY <1>8, <2>1 DEF References, Referred, States, ReleaseClearState
  <2>6. Exact'
    BY <1>8, <2>1 DEF Exact, InUse, Referred, States, ReleaseClearState
  <2>7. Queues'
    BY <1>8, <2>1 DEF Queues, Waiting, ReleaseClearState
  <2>8. Given'
    BY <1>8, <2>1 DEF Given, Waiting, ReleaseClearState
  <2>9. QED
    BY <2>2, <2>3, <2>4, <2>5, <2>6, <2>7, <2>8
<1>9. CASE ReleaseClearEncoding
  <2>1. /\ pc["ui"] = "clearEncoding" /\ pc'["ui"] = "idle"
        /\ \A u \in Threads \ {"ui"} : pc[u] = "idle" /\ pc'[u] = "idle"
    BY <1>9 DEF ReleaseClearEncoding, Go, ThreadType, Alone, States
  <2>2. Alone'
    BY <2>1 DEF Alone
  <2>3. States'
    BY <1>9, <2>1 DEF States, ReleaseClearEncoding
  <2>4. Opened'
    BY <1>9, <2>1 DEF Opened, InUse, States, ReleaseClearEncoding
  <2>5. References'
    BY <1>9, <2>1 DEF References, Referred, States, ReleaseClearEncoding
  <2>6. Exact'
    BY <1>9, <2>1 DEF Exact, InUse, Referred, States, ReleaseClearEncoding
  <2>7. Queues'
    BY <1>9, <2>1 DEF Queues, Waiting, ReleaseClearEncoding
  <2>8. Given'
    BY <1>9, <2>1 DEF Given, Waiting, ReleaseClearEncoding
  <2>9. QED
    BY <2>2, <2>3, <2>4, <2>5, <2>6, <2>7, <2>8
<1>10. QED
  BY <1>1, <1>2, <1>3, <1>4, <1>5, <1>6, <1>7, <1>8, <1>9 DEF UIAction, UIStep

(* A step of a data call, made while no other thread is at work.           *)
LEMMA DataOrderly ==
  ASSUME TInv, NEW t \in Threads, DataAction(t), Orderly, ~overlap'
  PROVE  Orderly'
<1> USE DEF TInv, TypeOK, Orderly, InitPlaces, ReleasePlaces, DataPlaces, LoopPlaces,
        globalVars, objectVars, localVars, jniVars, countVars, resultVars, historyVars
<1>1. CASE DataCall(t)
  <2>1. /\ pc[t] = "idle" /\ pc'[t] = "test"
        /\ \A u \in Threads \ {t} : pc[u] = "idle" /\ pc'[u] = "idle"
    BY <1>1 DEF DataCall, Begin, Go, ThreadType, Alone, States
  <2>2. Alone'
    BY <2>1 DEF Alone
  <2>3. States'
    BY <1>1, <2>1 DEF States, DataCall, Begin
  <2>4. Opened'
    BY <1>1, <2>1 DEF Opened, InUse, HasFile, States, DataCall, Begin
  <2>5. References'
    BY <1>1, <2>1 DEF References, Referred, States, DataCall, Begin
  <2>6. Exact'
    BY <1>1, <2>1 DEF Exact, InUse, Referred, HasFile, States, DataCall, Begin
  <2>7. Queues'
    <3>1. \A s \in Sessions : queue'[s] = <<>>
      BY <1>1, <2>1, OwnBuffer DEF DataCall, Waiting
    <3>2. current'[t] = calls + 1 /\ returned' = returned
      BY <1>1 DEF DataCall, ThreadType
    <3>3. current'[t] \notin returned'
      BY <3>2 DEF ResultType, CountType
    <3>4. QED
      BY <2>1, <3>1, <3>3 DEF Queues
  <2>8. Given'
    BY <1>1, <2>1 DEF Given, Waiting, DataCall, Begin
  <2>9. QED
    BY <2>2, <2>3, <2>4, <2>5, <2>6, <2>7, <2>8
<1>2. CASE DataTest(t)
  <2>1. /\ pc[t] = "test" /\ pc'[t] \in {"push", "idle"}
        /\ \A u \in Threads \ {t} : pc[u] = "idle" /\ pc'[u] = "idle"
    BY <1>2 DEF DataTest, Return, Go, ThreadType, Alone, States
  <2>2. Alone'
    BY <2>1 DEF Alone
  <2>3. States'
    <3>1. UNCHANGED <<kind, encodingState, encState, queueOf, elsewhere, unmatched>>
      BY <1>2 DEF DataTest
    <3>2. pc'[t] = "push" => encState = "INITIALIZED" /\ queueOf # Null
      BY <1>2, <2>1 DEF DataTest, Return, Go, ThreadType
    <3>3. QED
      BY <2>1, <3>1, <3>2 DEF States
  <2>4. Opened'
    BY <1>2, <2>1 DEF Opened, InUse, HasFile, States, DataTest, Return
  <2>5. References'
    BY <1>2, <2>1 DEF References, Referred, States, DataTest, Return
  <2>6. Exact'
    BY <1>2, <2>1 DEF Exact, InUse, Referred, HasFile, States, DataTest, Return
  <2>7. Queues'
    <3>1. \A s \in Sessions : queue'[s] = <<>>
      BY <1>2, <2>1, OwnBuffer DEF DataTest, Waiting
    <3>2. current' = current
      BY <1>2 DEF DataTest
    <3>3. pc'[t] = "push" => returned' = returned
      BY <1>2, <2>1 DEF DataTest, Return, Go, ThreadType
    <3>4. QED
      BY <2>1, <3>1, <3>2, <3>3 DEF Queues
  <2>8. Given'
    BY <1>2, <2>1 DEF Given, Waiting, DataTest, Return
  <2>9. QED
    BY <2>2, <2>3, <2>4, <2>5, <2>6, <2>7, <2>8
<1>3. CASE Push(t)
  <2>1. /\ pc[t] = "push" /\ pc'[t] = "testStopped"
        /\ \A u \in Threads \ {t} : pc[u] = "idle" /\ pc'[u] = "idle"
    BY <1>3 DEF Push, Go, ThreadType, Alone, States
  <2>2. Alone'
    BY <2>1 DEF Alone
  <2>3. States'
    BY <1>3, <2>1 DEF States, Push
  <2>4. Opened'
    BY <1>3, <2>1 DEF Opened, InUse, HasFile, States, Push
  <2>5. References'
    BY <1>3, <2>1 DEF References, Referred, States, Push
  <2>6. Exact'
    BY <1>3, <2>1 DEF Exact, InUse, Referred, HasFile, States, Push
  <2>7. Queues'
    <3>1. \A s \in Sessions : queue[s] = <<>>
      BY <2>1, OwnBuffer DEF Waiting
    <3>2. queueOf \in Sessions
      BY <1>3 DEF Push, GlobalType, CountType
    <3>3. \A s \in Sessions : queue'[s] = <<>> \/ (s = queueOf /\ queue'[s] = <<current[t]>>)
      BY <1>3, <3>1, <3>2 DEF Push, ObjectType
    <3>4. UNCHANGED <<queueOf, current, returned>>
      BY <1>3 DEF Push
    <3>5. QED
      BY <2>1, <3>3, <3>4 DEF Queues, Waiting
  <2>8. Given'
    <3>1. accepted \subseteq handled
      BY <2>1, OwnBuffer DEF Waiting
    <3>2. queueOf \in Sessions /\ queue[queueOf] = <<>>
      BY <1>3, <2>1, OwnBuffer DEF Push, GlobalType, CountType, Waiting
    <3>3. UNCHANGED <<queueOf, current, handled>>
      BY <1>3 DEF Push
    <3>4. CASE accepted' = accepted
      BY <3>1, <3>3, <3>4 DEF Given
    <3>5. CASE /\ accepted' = accepted \cup {current[t]}
               /\ queue' = [queue EXCEPT ![queueOf] = Append(@, current[t])]
      <4>1. queue'[queueOf] = <<current[t]>>
        BY <3>2, <3>5 DEF ObjectType
      <4>2. Waiting(t, queueOf)'
        BY <2>1, <3>3, <4>1 DEF Waiting
      <4>3. QED
        BY <3>1, <3>2, <3>3, <3>5, <4>2 DEF Given
    <3>6. QED
      BY <1>3, <3>4, <3>5 DEF Push
  <2>9. QED
    BY <2>2, <2>3, <2>4, <2>5, <2>6, <2>7, <2>8
<1>4. CASE TestStopped(t)
  <2>1. /\ pc[t] = "testStopped" /\ pc'[t] = "pop"
        /\ \A u \in Threads \ {t} : pc[u] = "idle" /\ pc'[u] = "idle"
    BY <1>4 DEF TestStopped, Return, Go, ThreadType, Alone, States
  <2>2. Alone'
    BY <2>1 DEF Alone
  <2>3. States'
    BY <1>4, <2>1 DEF States, TestStopped, Return
  <2>4. Opened'
    BY <1>4, <2>1 DEF Opened, InUse, HasFile, States, TestStopped, Return
  <2>5. References'
    BY <1>4, <2>1 DEF References, Referred, States, TestStopped, Return
  <2>6. Exact'
    BY <1>4, <2>1 DEF Exact, InUse, Referred, HasFile, States, TestStopped, Return
  <2>7. Queues'
    <3>1. UNCHANGED <<queueOf, queue, current, returned>>
      BY <1>4, <2>1 DEF TestStopped, Return, Go, ThreadType
    <3>2. \A s \in Sessions : queue'[s] = <<>> \/ Waiting(t, s)'
      BY <2>1, <3>1, OwnBuffer DEF Waiting
    <3>3. QED
      BY <2>1, <3>1, <3>2 DEF Queues
  <2>8. Given'
    BY <1>4, <2>1 DEF Given, Waiting, TestStopped, Return
  <2>9. QED
    BY <2>2, <2>3, <2>4, <2>5, <2>6, <2>7, <2>8
<1>5. CASE Pop(t)
  <2>1. /\ pc[t] = "pop" /\ pc'[t] \in {"testReleased", "encode"}
        /\ \A u \in Threads \ {t} : pc[u] = "idle" /\ pc'[u] = "idle"
    BY <1>5 DEF Pop, Go, ThreadType, Alone, States
  <2>2. Alone'
    BY <2>1 DEF Alone
  <2>3. States'
    BY <1>5, <2>1 DEF States, Pop
  <2>4. Opened'
    BY <1>5, <2>1 DEF Opened, InUse, HasFile, States, Pop
  <2>5. References'
    BY <1>5, <2>1 DEF References, Referred, States, Pop
  <2>6. Exact'
    BY <1>5, <2>1 DEF Exact, InUse, Referred, HasFile, States, Pop
  <2>7. Queues'
    <3>1. queueOf \in Sessions
      BY <1>5 DEF Pop, GlobalType, CountType
    <3>2. \A s \in Sessions : queue[s] = <<>> \/ (s = queueOf /\ queue[s] = <<current[t]>>)
      BY <2>1, OwnBuffer DEF Waiting
    <3>3. \A s \in Sessions : queue'[s] = <<>>
      <4>1. CASE queue[queueOf] = <<>>
        BY <1>5, <3>2, <4>1 DEF Pop
      <4>2. CASE queue[queueOf] = <<current[t]>>
        <5>1. queue' = [queue EXCEPT ![queueOf] = Tail(<<current[t]>>)]
          BY <1>5, <4>2 DEF Pop
        <5>2. Tail(<<current[t]>>) = <<>>
          OBVIOUS
        <5>3. queue'[queueOf] = <<>> /\ \A s \in Sessions \ {queueOf} : queue'[s] = queue[s]
          BY <3>1, <5>1, <5>2 DEF ObjectType
        <5>4. QED
          BY <3>2, <5>3
      <4>3. QED
        BY <3>1, <3>2, <4>1, <4>2
    <3>4. pc'[t] = "encode" => buffer'[t] = current[t]
      BY <1>5, <2>1, <3>1, <3>2 DEF Pop, Go, ThreadType
    <3>5. UNCHANGED <<current, returned>>
      BY <1>5 DEF Pop
    <3>6. QED
      BY <2>1, <3>3, <3>4, <3>5 DEF Queues
  <2>8. Given'
    <3>1. UNCHANGED <<current, accepted, handled>>
      BY <1>5 DEF Pop
    <3>2. \A b \in accepted \ handled : b = current[t] /\ queue[queueOf] = <<b>>
      BY <2>1, OwnBuffer DEF Waiting
    <3>3. queue[queueOf] # <<>> => pc'[t] = "encode"
      BY <1>5 DEF Pop, Go, ThreadType
    <3>4. QED
      BY <3>1, <3>2, <3>3 DEF Given
  <2>9. QED
    BY <2>2, <2>3, <2>4, <2>5, <2>6, <2>7, <2>8
<1>6. CASE NoQueue(t)
  <2>1. UNCHANGED <<kind, globalVars, objectVars, pc, localVars, countVars, resultVars,
                    historyVars>>
    BY <1>6 DEF NoQueue, Fault
  <2>2. QED
    BY <2>1, Unchanged
<1>7. CASE EncodeFault(t)
  <2>1. UNCHANGED <<kind, globalVars, objectVars, pc, localVars, countVars, resultVars,
                    historyVars>>
    BY <1>7 DEF EncodeFault, Fault
  <2>2. QED
    BY <2>1, Unchanged
<1>8. CASE Encode(t)
  <2>1. /\ pc[t] = "encode" /\ pc'[t] = "testReleased"
        /\ \A u \in Threads \ {t} : pc[u] = "idle" /\ pc'[u] = "idle"
    BY <1>8 DEF Encode, Go, CodecUsable, ThreadType, Alone, States
  <2>2. Alone'
    BY <2>1 DEF Alone
  <2>3. States'
    BY <1>8, <2>1 DEF States, Encode, CodecUsable
  <2>4. Opened'
    BY <1>8, <2>1 DEF Opened, InUse, HasFile, States, Encode, CodecUsable
  <2>5. References'
    BY <1>8, <2>1 DEF References, Referred, States, Encode, CodecUsable
  <2>6. Exact'
    BY <1>8, <2>1 DEF Exact, InUse, Referred, HasFile, States, Encode, CodecUsable
  <2>7. Queues'
    BY <1>8, <2>1 DEF Queues, Waiting, Encode, CodecUsable
  <2>8. Given'
    <3>1. current' = current /\ accepted' = accepted /\ handled' = handled \cup {current[t]}
      BY <1>8, <2>1 DEF Encode, Queues
    <3>2. \A b \in accepted \ handled : b = current[t]
      BY <2>1, OwnBuffer
    <3>3. QED
      BY <3>1, <3>2 DEF Given
  <2>9. QED
    BY <2>2, <2>3, <2>4, <2>5, <2>6, <2>7, <2>8
<1>9. CASE TestReleased(t)
  <2>1. /\ pc[t] = "testReleased" /\ pc'[t] = "mark"
        /\ \A u \in Threads \ {t} : pc[u] = "idle" /\ pc'[u] = "idle"
    BY <1>9 DEF TestReleased, Go, ThreadType, Alone, States
  <2>2. Alone'
    BY <2>1 DEF Alone
  <2>3. States'
    BY <1>9, <2>1 DEF States, TestReleased
  <2>4. Opened'
    BY <1>9, <2>1 DEF Opened, InUse, HasFile, States, TestReleased
  <2>5. References'
    BY <1>9, <2>1 DEF References, Referred, States, TestReleased
  <2>6. Exact'
    BY <1>9, <2>1 DEF Exact, InUse, Referred, HasFile, States, TestReleased
  <2>7. Queues'
    BY <1>9, <2>1 DEF Queues, Waiting, TestReleased
  <2>8. Given'
    BY <1>9, <2>1 DEF Given, Waiting, TestReleased
  <2>9. QED
    BY <2>2, <2>3, <2>4, <2>5, <2>6, <2>7, <2>8
<1>10. CASE DataFree(t)
  <2>1. QED
    BY <1>10 DEF DataFree, FreeData, Fault, States
<1>11. CASE Mark(t)
  <2>1. /\ pc[t] = "mark" /\ pc'[t] = "loop"
        /\ \A u \in Threads \ {t} : pc[u] = "idle" /\ pc'[u] = "idle"
    BY <1>11 DEF Mark, Go, ThreadType, Alone, States
  <2>2. Alone'
    BY <2>1 DEF Alone
  <2>3. States'
    BY <1>11, <2>1 DEF States, Mark
  <2>4. Opened'
    BY <1>11, <2>1 DEF Opened, InUse, HasFile, States, Mark
  <2>5. References'
    BY <1>11, <2>1 DEF References, Referred, States, Mark
  <2>6. Exact'
    BY <1>11, <2>1 DEF Exact, InUse, Referred, HasFile, States, Mark
  <2>7. Queues'
    BY <1>11, <2>1 DEF Queues, Waiting, Mark
  <2>8. Given'
    BY <1>11, <2>1 DEF Given, Waiting, Mark
  <2>9. QED
    BY <2>2, <2>3, <2>4, <2>5, <2>6, <2>7, <2>8
<1>12. CASE Loop(t)
  <2>1. /\ pc[t] = "loop" /\ pc'[t] \in {"pop", "return"}
        /\ \A u \in Threads \ {t} : pc[u] = "idle" /\ pc'[u] = "idle"
    BY <1>12 DEF Loop, Go, ThreadType, Alone, States
  <2>2. Alone'
    BY <2>1 DEF Alone
  <2>3. States'
    BY <1>12, <2>1 DEF States, GlobalType, Loop, Go
  <2>4. Opened'
    BY <1>12, <2>1 DEF Opened, InUse, HasFile, States, Loop
  <2>5. References'
    BY <1>12, <2>1 DEF References, Referred, States, Loop
  <2>6. Exact'
    BY <1>12, <2>1 DEF Exact, InUse, Referred, HasFile, States, Loop
  <2>7. Queues'
    BY <1>12, <2>1 DEF Queues, Waiting, Loop
  <2>8. Given'
    BY <1>12, <2>1 DEF Given, Waiting, Loop
  <2>9. QED
    BY <2>2, <2>3, <2>4, <2>5, <2>6, <2>7, <2>8
<1>13. CASE DataReturn(t)
  <2>1. /\ pc[t] = "return" /\ pc'[t] = "idle"
        /\ \A u \in Threads \ {t} : pc[u] = "idle" /\ pc'[u] = "idle"
    BY <1>13 DEF DataReturn, Return, Go, ThreadType, Alone, States
  <2>2. Alone'
    BY <2>1 DEF Alone
  <2>3. States'
    BY <1>13, <2>1 DEF States, DataReturn, Return
  <2>4. Opened'
    BY <1>13, <2>1 DEF Opened, InUse, HasFile, States, DataReturn, Return
  <2>5. References'
    BY <1>13, <2>1 DEF References, Referred, States, DataReturn, Return
  <2>6. Exact'
    BY <1>13, <2>1 DEF Exact, InUse, Referred, HasFile, States, DataReturn, Return
  <2>7. Queues'
    BY <1>13, <2>1 DEF Queues, Waiting, DataReturn, Return
  <2>8. Given'
    BY <1>13, <2>1 DEF Given, Waiting, DataReturn, Return
  <2>9. QED
    BY <2>2, <2>3, <2>4, <2>5, <2>6, <2>7, <2>8
<1>14. QED
  BY <1>1, <1>2, <1>3, <1>4, <1>5, <1>6, <1>7, <1>8, <1>9, <1>10, <1>11, <1>12, <1>13
     DEF DataAction, DataStep
-----------------------------------------------------------------------------
(* The invariant of every step.                                            *)

(* An overlap is never forgotten.                                          *)
LEMMA OverlapStays ==
  ASSUME TInv, Next, ~overlap'
  PROVE  ~overlap
<1> USE DEF countVars, historyVars, Fault, FreeData
<1>1. InitCall \/ ReleaseCall \/ UIStep => ~overlap
  BY DEF UIStep, InitCall, ReleaseCall, Begin, OpenFile, CreateQueue, OpenCodec,
     InitReady,
     ReleaseFree, ReleaseClearState, ReleaseClearEncoding
<1>2. ASSUME NEW t \in Threads, DataCall(t) \/ DataStep(t) PROVE ~overlap
  BY <1>2 DEF DataStep, DataCall, Begin, DataTest, Push, TestStopped, Pop, NoQueue,
     EncodeFault, Encode, TestReleased, DataFree, Mark, Loop, DataReturn
<1>3. QED
  BY <1>1, <1>2 DEF Next

(* A release of an encoder in use finds everything open, and so does the   *)
(* codec's turn in a data call.                                            *)
LEMMA FreeIsSafe ==
  ASSUME TInv, Orderly, pc["ui"] = "free", ~unmatched, ~(kind = "x264" /\ initFailed)
  PROVE  ~FreeFaults
<1>1. InUse
  BY DEF Orderly, States, InUse
<1>2. handle \in openCodecs /\ (~HasFile \/ file \in openFiles)
  BY <1>1 DEF Orderly, Opened
<1>3. handle # Null
  BY <1>2 DEF TInv, TypeOK, ObjectType
<1>4. QED
  BY <1>2, <1>3 DEF FreeFaults

LEMMA EncodeIsSafe ==
  ASSUME TInv, Orderly, NEW t \in Threads, pc[t] = "encode",
         ~(kind = "x264" /\ (initFailed \/ elsewhere))
  PROVE  CodecUsable(t) /\ FileUsable /\ CallBackUsable(t)
<1>1. pc["ui"] \in {"idle", "encode"} /\ (t = "ui" => pc["ui"] = "encode")
  BY DEF Orderly, Alone
<1>2. encState = "INITIALIZED"
  BY DEF Orderly, States, DataPlaces, LoopPlaces
<1>3. InUse /\ Referred
  BY <1>1, <1>2 DEF InUse, Referred, ReleasePlaces
<1>4. handle \in openCodecs /\ (~HasFile \/ file \in openFiles)
  BY <1>3 DEF Orderly, Opened
<1>5. buffer[t] \notin returned
  BY DEF Orderly, Queues, DataPlaces, LoopPlaces
<1>6. kind = "x264" => t = "ui"
  BY DEF Orderly, States, DataPlaces, LoopPlaces
<1>7. jniEnv = "ui" /\ encodeObj \in liveRefs
  BY <1>3 DEF Orderly, References
<1>8. QED
  BY <1>4, <1>5, <1>6, <1>7 DEF CodecUsable, FileUsable, CallBackUsable

(* So the step that faults is one the caller could have avoided.           *)
LEMMA FaultStep ==
  ASSUME TInv, Orderly, ~fault, Next, fault'
  PROVE  unmatched' \/ (kind' = "x264" /\ (initFailed' \/ elsewhere'))
<1>1. CASE InitCall \/ ReleaseCall \/ UIStep
  <2>1. ReleaseFree /\ FreeFaults
    BY <1>1 DEF UIStep, InitCall, ReleaseCall, OpenFile, CreateQueue, OpenCodec,
       InitReady,
       ReleaseFree, FreeData, ReleaseClearState, ReleaseClearEncoding
  <2>2. pc["ui"] = "free" /\ UNCHANGED <<kind, unmatched, initFailed, elsewhere>>
    BY <2>1 DEF ReleaseFree, FreeData, Fault, historyVars, countVars, jniVars
  <2>3. QED
    BY <2>1, <2>2, FreeIsSafe
<1>2. ASSUME NEW t \in Threads, DataCall(t) \/ DataStep(t)
      PROVE  unmatched' \/ (kind' = "x264" /\ (initFailed' \/ elsewhere'))
  <2>1. NoQueue(t) \/ EncodeFault(t) \/ DataFree(t)
    BY <1>2 DEF DataStep, DataCall, DataTest, Push, TestStopped, Pop, Encode,
       TestReleased,
       Mark, Loop, DataReturn
  <2>2. ~NoQueue(t) /\ ~DataFree(t)
    BY DEF Orderly, States, NoQueue, DataFree, FreeData, DataPlaces, LoopPlaces
  <2>3. /\ pc[t] = "encode" /\ (~CodecUsable(t) \/ ~FileUsable \/ ~CallBackUsable(t))
        /\ UNCHANGED <<kind, unmatched, initFailed, elsewhere>>
    BY <2>1, <2>2 DEF EncodeFault, Fault, historyVars, countVars, jniVars
  <2>4. QED
    BY <2>3, EncodeIsSafe
<1>3. QED
  BY <1>1, <1>2 DEF Next

(* The invariant holds at the start, after every step, and throughout.     *)
LEMMA InitInv == Init => NInv
<1> SUFFICES ASSUME Init PROVE NInv
  OBVIOUS
<1> USE DEF Init
<1>1. TypeOK
  <2>1. GlobalType /\ CountType /\ ResultType
    BY DEF GlobalType, CountType, ResultType
  <2>2. ObjectType
    BY DEF ObjectType
  <2>3. ThreadType
    BY DEF ThreadType, Places
  <2>4. HistoryType
    BY Zenon DEF HistoryType
  <2>5. QED
    BY <2>1, <2>2, <2>3, <2>4 DEF TypeOK
<1>2. Placed
  BY DEF Placed, InitPlaces, ReleasePlaces, DataPlaces, LoopPlaces
<1>3. Orderly
  BY DEF Orderly, Alone, States, Opened, InUse, References, Referred, Exact, Queues,
     Given,
     InitPlaces, ReleasePlaces, DataPlaces, LoopPlaces
<1>4. QED
  BY <1>1, <1>2, <1>3 DEF NInv, TInv, FaultExplained

LEMMA NextInv == NInv /\ [Next]_vars => NInv'
<1> SUFFICES ASSUME NInv, [Next]_vars PROVE NInv'
  OBVIOUS
<1>1. CASE Next
  <2>1. PICK t \in Threads : UIAction \/ DataAction(t)
    BY <1>1 DEF Next, UIAction, DataAction
  <2>2. TInv'
    BY <2>1, UITypes, DataTypes DEF NInv
  <2>3. ~overlap' => Orderly /\ Orderly'
    BY <1>1, <2>1, OverlapStays, UIOrderly, DataOrderly DEF NInv
  <2>4. FaultExplained'
    BY <1>1, <2>3, FaultStep DEF NInv, FaultExplained, Next
  <2>5. QED
    BY <2>2, <2>3, <2>4 DEF NInv
<1>2. CASE UNCHANGED vars
  <2>1. UNCHANGED <<kind, globalVars, objectVars, pc, localVars, countVars, resultVars,
                    historyVars, fault>>
    BY <1>2 DEF vars
  <2>2. TypeOK'
    BY <2>1 DEF NInv, TInv, TypeOK, GlobalType, ObjectType, ThreadType, CountType,
       ResultType,
       HistoryType, globalVars, objectVars, localVars, countVars, jniVars, resultVars,
       historyVars
  <2>3. Placed'
    BY <2>1 DEF NInv, TInv, Placed, localVars, countVars
  <2>4. FaultExplained' /\ overlap' = overlap
    BY <2>1 DEF NInv, FaultExplained, historyVars, countVars, jniVars
  <2>5. QED
    BY <2>1, <2>2, <2>3, <2>4, Unchanged DEF NInv, TInv
<1>3. QED
  BY <1>1, <1>2

LEMMA SpecInv == Spec => []NInv
  BY InitInv, NextInv, PTL DEF Spec

-----------------------------------------------------------------------------
(* The globals of the native encoders name null or what an init has made,  *)
(* and their threads are at the places of their calls.                     *)
THEOREM TypeCorrect == Spec => []TypeOK
<1>1. NInv => TypeOK
  BY DEF NInv, TInv
<1>2. QED
  BY <1>1, SpecInv, PTL

(* Whatever the encoder, the number of its callers and the order of the    *)
(* calls: something NULL, closed or deleted is used only if calls overlap, *)
(* a release has no init, or x264 could not be opened or is fed from       *)
(* another thread.                                                         *)
THEOREM FaultsAreExplained == Spec => []FaultExplained
<1>1. NInv => FaultExplained
  BY DEF NInv
<1>2. QED
  BY <1>1, SpecInv, PTL

(* Calls made one after the other leave no pointer to a deleted buffer in  *)
(* the queue: what was queued has been given to the codec.                 *)
THEOREM BuffersAreHandled == Spec => []HandledInCall
<1>1. ASSUME NInv PROVE HandledInCall
  <2>1. SUFFICES ASSUME ~overlap, NEW b \in accepted \cap returned, b \notin handled
                 PROVE  FALSE
    BY DEF HandledInCall
  <2>2. PICK t \in Threads : b = current[t] /\ pc[t] \in {"encode", "testStopped", "pop"}
    BY <1>1, <2>1 DEF NInv, Orderly, Given, Waiting
  <2>3. QED
    BY <1>1, <2>1, <2>2 DEF NInv, Orderly, Queues, DataPlaces, LoopPlaces
<1>2. QED
  BY <1>1, SpecInv, PTL

(* Between two calls, what is open is what the last init opened, and       *)
(* nothing after a release.                                                *)
THEOREM OneIsOpen == Spec => []OneCodecOpen
<1>1. ASSUME NInv PROVE OneCodecOpen
  <2>1. SUFFICES ASSUME AtRest, ~overlap, ~initFailed PROVE
           /\ openCodecs = IF encState = "INITIALIZED" THEN {handle} ELSE {}
           /\ openFiles = IF encState = "INITIALIZED" /\ HasFile THEN {file} ELSE {}
           /\ encState = "INITIALIZED" => encodeObj \in liveRefs
           /\ repeated \/ liveRefs = IF encState = "INITIALIZED" THEN {encodeObj} ELSE {}
    BY DEF OneCodecOpen
  <2>2. pc["ui"] = "idle"
    BY <2>1 DEF AtRest
  <2>3. Exact /\ References
    BY <1>1, <2>1 DEF NInv, Orderly
  <2>4. QED
    BY <2>1, <2>2, <2>3 DEF Exact, References, InUse, Referred, InitPlaces,
       ReleasePlaces
<1>2. QED
  BY <1>1, SpecInv, PTL

====

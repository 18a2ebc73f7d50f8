---------------------------- MODULE NativeEncoder ----------------------------
(***************************************************************************)
(* The native encoders behind X264Encode's JNI calls: x264_encode.c,       *)
(* faac_encode.c and fdk-aac_encode.c.  The three files are one design:    *)
(* global state, a linked list of buffers, and no encode thread of their   *)
(* own.  The call that finds the encoder stopped encodes until the list is *)
(* empty; a release that finds it encoding leaves the freeing to that call. *)
(* With them the wrappers of h264-encode.cpp: the environment of the thread *)
(* and the reference to the Java object that x264's output is called back   *)
(* with are globals too, set by init and release before they do their work. *)
(*                                                                         *)
(* The n-th init makes file n, queue n and codec n; 0 is NULL.  The c-th   *)
(* data call passes buffer c, which the JNI wrapper deletes when the call  *)
(* returns.  Each step makes one access to the globals.                    *)
(***************************************************************************)
EXTENDS Naturals, Sequences, FiniteSets

CONSTANTS Kinds,     (* the encoders: a subset of "x264", "faac" and "fdk"    *)
          Callers,   (* threads that pass data                                *)
          MaxInits,  (* bound: calls of init                                  *)
          MaxFrees,  (* bound: calls of release                               *)
          MaxCalls   (* bound: data calls                                     *)

ASSUME KindAssumption == Kinds \subseteq {"x264", "faac", "fdk"} /\ Kinds # {}
ASSUME BoundAssumption == MaxInits \in Nat /\ MaxFrees \in Nat /\ MaxCalls \in Nat
ASSUME CallerAssumption == "ui" \notin Callers

VARIABLES
  kind,                    (* the encoder                                     *)
  encState, encodingState, (* x264_enc_state, x264_enc_encoding_state         *)
  file, queueOf, handle,   (* faac_file, h264_queue, h: number of their init  *)
  openFiles, openCodecs,   (* what has been opened and not closed             *)
  queue,                   (* the buffers in each queue                       *)
  pc, buffer, ret,         (* of each thread: its place, x264_enc_encode_data's *)
                           (* buffer and its result                           *)
  current,                 (* the data call each thread is in                 *)
  jniEnv, encodeObj,       (* jni_env: the thread it belongs to; c_h264_obj   *)
                           (* or c_aac_obj: number of the init that made it   *)
  liveRefs,                (* global references made and not deleted          *)
  inits, frees, calls,     (* calls so far                                    *)
  returned,                (* data calls that returned: their buffers are gone *)
  accepted, handled,       (* buffers that were queued; that the codec was given *)
  overlap,                 (* history: a call began while another was running *)
  unmatched,               (* history: a release without an initialised encoder *)
  initFailed,              (* history: opening a file, queue or codec failed  *)
  repeated,                (* history: an init of an initialised encoder      *)
  elsewhere,               (* history: data passed from a thread other than   *)
                           (* the one that calls init                         *)
  fault                    (* NULL, a closed codec or file, or a deleted      *)
                           (* buffer was used                                 *)

globalVars  == <<encState, encodingState, file, queueOf, handle>>
objectVars  == <<openFiles, openCodecs, queue>>
localVars   == <<buffer, ret, current>>
jniVars     == <<jniEnv, encodeObj, liveRefs, repeated, elsewhere>>
countVars   == <<inits, frees, calls, jniVars>>
resultVars  == <<returned, accepted, handled>>
historyVars == <<overlap, unmatched, initFailed>>
vars == <<kind, globalVars, objectVars, pc, localVars, countVars, resultVars,
          historyVars, fault>>

Threads == Callers \cup {"ui"}
Sessions == 1..MaxInits
Calls == 1..MaxCalls
Null == 0
NoThread == "none"

HasFile == kind # "x264"

Init ==
  /\ kind \in Kinds
  /\ encState = "UNINITIALIZED" /\ encodingState = "STOPPED"
  /\ file = Null /\ queueOf = Null /\ handle = Null
  /\ openFiles = {} /\ openCodecs = {} /\ queue = [s \in Sessions |-> <<>>]
  /\ pc = [t \in Threads |-> "idle"]
  /\ buffer = [t \in Threads |-> Null] /\ ret = [t \in Threads |-> "OK"]
  /\ current = [t \in Threads |-> Null]
  /\ inits = 0 /\ frees = 0 /\ calls = 0
  /\ returned = {} /\ accepted = {} /\ handled = {}
  /\ jniEnv = NoThread /\ encodeObj = Null /\ liveRefs = {}
  /\ overlap = FALSE /\ unmatched = FALSE /\ initFailed = FALSE
  /\ repeated = FALSE /\ elsewhere = FALSE
  /\ fault = FALSE

Go(t, from, to) == pc[t] = from /\ pc' = [pc EXCEPT ![t] = to]

Begin(t, step) ==
  /\ Go(t, "idle", step)
  /\ overlap' = (overlap \/ \E u \in Threads : pc[u] # "idle")

Fault ==
  /\ fault' = TRUE
  /\ UNCHANGED <<kind, globalVars, objectVars, pc, localVars, countVars,
                 resultVars, historyVars>>

-----------------------------------------------------------------------------
(* init, called from the UI thread.                                        *)

(* Faulty variant: the reference is taken only the first time.              *)
TakeRef_Once(n) ==
  /\ jniEnv' = "ui"
  /\ encodeObj' = IF encodeObj = Null THEN n ELSE encodeObj
  /\ liveRefs' = IF encodeObj = Null THEN liveRefs \cup {n} ELSE liveRefs

(* NewGlobalRef: what the variable held before is forgotten, not deleted.   *)
TakeRef(n) ==
  /\ jniEnv' = "ui"
  /\ encodeObj' = n
  /\ liveRefs' = liveRefs \cup {n}

(* Faulty variant: init runs a second time on an initialised encoder.       *)
FirstStep_Again == IF HasFile THEN "openFile" ELSE "createQueue"

FirstStep == IF encState = "INITIALIZED" THEN "idle"
             ELSE IF HasFile THEN "openFile" ELSE "createQueue"

InitCall ==
  /\ inits < MaxInits
  /\ Begin("ui", FirstStep)
  /\ inits' = inits + 1
  /\ TakeRef(inits')
  /\ repeated' = (repeated \/ encState = "INITIALIZED")
  /\ UNCHANGED <<kind, globalVars, objectVars, localVars, frees, calls, elsewhere,
                 resultVars, unmatched, initFailed, fault>>

(* fopen stores its result, NULL included.                                  *)
OpenFile ==
  /\ \/ /\ Go("ui", "openFile", "createQueue")
        /\ file' = inits
        /\ openFiles' = openFiles \cup {inits}
        /\ UNCHANGED initFailed
     \/ /\ Go("ui", "openFile", "idle")
        /\ file' = Null
        /\ initFailed' = TRUE
        /\ UNCHANGED openFiles
  /\ UNCHANGED <<kind, encState, encodingState, queueOf, handle, openCodecs, queue,
                 localVars, countVars, resultVars, overlap, unmatched, fault>>

CreateQueue ==
  /\ \/ /\ Go("ui", "createQueue", "openCodec")
        /\ queueOf' = inits
        /\ UNCHANGED initFailed
     \/ /\ Go("ui", "createQueue", "idle")
        /\ queueOf' = Null
        /\ initFailed' = TRUE
  /\ UNCHANGED <<kind, encState, encodingState, file, handle, objectVars, localVars,
                 countVars, resultVars, overlap, unmatched, fault>>

(* x264 does not look at the result; the other two return when opening      *)
(* fails, and fdk also when it opened and a parameter is refused.           *)
OpenCodec ==
  /\ \/ /\ Go("ui", "openCodec", "ready")
        /\ handle' = inits
        /\ openCodecs' = openCodecs \cup {inits}
        /\ UNCHANGED initFailed
     \/ /\ Go("ui", "openCodec", IF kind = "x264" THEN "ready" ELSE "idle")
        /\ handle' = Null
        /\ initFailed' = TRUE
        /\ UNCHANGED openCodecs
     \/ /\ kind = "fdk"
        /\ Go("ui", "openCodec", "idle")
        /\ handle' = inits
        /\ openCodecs' = openCodecs \cup {inits}
        /\ initFailed' = TRUE
  /\ UNCHANGED <<kind, encState, encodingState, file, queueOf, openFiles, queue,
                 localVars, countVars, resultVars, overlap, unmatched, fault>>

InitReady ==
  /\ Go("ui", "ready", "idle")
  /\ encState' = "INITIALIZED"
  /\ UNCHANGED <<kind, encodingState, file, queueOf, handle, objectVars, localVars,
                 countVars, resultVars, historyVars, fault>>

-----------------------------------------------------------------------------
(* x264_enc_release_data: fclose a file that is there, close the codec.    *)
(* aacEncClose clears the handle and refuses NULL; the other two crash.    *)

FreeFaults ==
  \/ HasFile /\ file # Null /\ file \notin openFiles
  \/ handle = Null /\ kind # "fdk"
  \/ handle # Null /\ handle \notin openCodecs

FreeData(t, from, to) ==
  /\ pc[t] = from
  /\ IF FreeFaults
     THEN Fault
     ELSE /\ Go(t, from, to)
          /\ openFiles' = openFiles \ {file}
          /\ openCodecs' = openCodecs \ {handle}
          /\ handle' = IF kind = "fdk" THEN Null ELSE handle
          /\ UNCHANGED <<kind, encState, encodingState, file, queueOf, queue,
                         localVars, countVars, resultVars, historyVars, fault>>

(* DeleteGlobalRef: the variable keeps the reference.                       *)
DropRef ==
  /\ jniEnv' = "ui"
  /\ liveRefs' = liveRefs \ {encodeObj}
  /\ UNCHANGED encodeObj

(* release, called from the UI thread.                                      *)
ReleaseCall ==
  /\ frees < MaxFrees
  /\ Begin("ui", IF encodingState = "STOPPED" THEN "free" ELSE "clearState")
  /\ frees' = frees + 1
  /\ unmatched' = (unmatched \/ encState = "UNINITIALIZED")
  /\ DropRef
  /\ UNCHANGED <<kind, globalVars, objectVars, localVars, inits, calls, repeated,
                 elsewhere, resultVars, initFailed, fault>>

ReleaseFree == FreeData("ui", "free", "clearState")

ReleaseClearState ==
  /\ Go("ui", "clearState", "clearEncoding")
  /\ encState' = "UNINITIALIZED"
  /\ UNCHANGED <<kind, encodingState, file, queueOf, handle, objectVars, localVars,
                 countVars, resultVars, historyVars, fault>>

ReleaseClearEncoding ==
  /\ Go("ui", "clearEncoding", "idle")
  /\ encodingState' = "STOPPED"
  /\ UNCHANGED <<kind, encState, file, queueOf, handle, objectVars, localVars,
                 countVars, resultVars, historyVars, fault>>

-----------------------------------------------------------------------------
(* x264_enc_data, called from thread t.                                    *)

DataCall(t) ==
  /\ calls < MaxCalls
  /\ Begin(t, "test")
  /\ calls' = calls + 1
  /\ current' = [current EXCEPT ![t] = calls + 1]
  /\ elsewhere' = (elsewhere \/ t # "ui")
  /\ UNCHANGED <<kind, globalVars, objectVars, buffer, ret, inits, frees, jniEnv,
                 encodeObj, liveRefs, repeated, resultVars, unmatched, initFailed,
                 fault>>

(* The caller's buffer is deleted with the return of the JNI call.          *)
Return(t, from) ==
  /\ Go(t, from, "idle")
  /\ returned' = returned \cup {current[t]}

DataTest(t) ==
  /\ \/ Return(t, "test") /\ (encState = "UNINITIALIZED" \/ queueOf = Null)
     \/ /\ Go(t, "test", "push") /\ encState = "INITIALIZED" /\ queueOf # Null
        /\ UNCHANGED returned
  /\ UNCHANGED <<kind, globalVars, objectVars, localVars, countVars, accepted,
                 handled, historyVars, fault>>

(* A push that finds no memory is ignored.                                  *)
Push(t) ==
  /\ Go(t, "push", "testStopped")
  /\ queueOf # Null
  /\ \/ /\ queue' = [queue EXCEPT ![queueOf] = Append(@, current[t])]
        /\ accepted' = accepted \cup {current[t]}
     \/ UNCHANGED <<queue, accepted>>
  /\ UNCHANGED <<kind, globalVars, openFiles, openCodecs, localVars, countVars,
                 returned, handled, historyVars, fault>>

TestStopped(t) ==
  /\ \/ Go(t, "testStopped", "pop") /\ encodingState = "STOPPED" /\ UNCHANGED returned
     \/ Return(t, "testStopped") /\ encodingState = "ENCODING"
  /\ UNCHANGED <<kind, globalVars, objectVars, localVars, countVars, accepted,
                 handled, historyVars, fault>>

Pop(t) ==
  /\ queueOf # Null
  /\ IF queue[queueOf] = <<>>
     THEN /\ Go(t, "pop", "testReleased")
          /\ ret' = [ret EXCEPT ![t] = "FAIL"]
          /\ UNCHANGED <<queue, buffer>>
     ELSE /\ Go(t, "pop", "encode")
          /\ buffer' = [buffer EXCEPT ![t] = Head(queue[queueOf])]
          /\ queue' = [queue EXCEPT ![queueOf] = Tail(@)]
          /\ UNCHANGED ret
  /\ UNCHANGED <<kind, globalVars, openFiles, openCodecs, current, countVars,
                 resultVars, historyVars, fault>>

(* NULL queues are read by a call whose init was followed by a failed one.  *)
NoQueue(t) ==
  /\ pc[t] \in {"push", "pop"} /\ queueOf = Null
  /\ Fault

CodecUsable(t) == handle \in openCodecs /\ buffer[t] \notin returned

(* Output, if there is any, goes to the file, which fdk compares with NULL. *)
FileUsable == file \in openFiles \/ ~HasFile \/ (kind = "fdk" /\ file = Null)

(* call_java_encode_h264, which x264 calls with what output there is: only  *)
(* in the thread of the environment and with a reference not yet deleted.   *)
CallBackUsable(t) ==
  kind = "x264" /\ jniEnv # NoThread /\ encodeObj # Null =>
    jniEnv = t /\ encodeObj \in liveRefs

EncodeFault(t) ==
  /\ pc[t] = "encode"
  /\ ~CodecUsable(t) \/ ~FileUsable \/ ~CallBackUsable(t)
  /\ Fault

(* faac's result is not looked at; the other two report an error.           *)
Encode(t) ==
  /\ CodecUsable(t)
  /\ Go(t, "encode", "testReleased")
  /\ \/ ret' = [ret EXCEPT ![t] = "OK"]
     \/ kind # "faac" /\ ret' = [ret EXCEPT ![t] = "FAIL"]
  /\ handled' = handled \cup {buffer[t]}
  /\ UNCHANGED <<kind, globalVars, objectVars, buffer, current, countVars, returned,
                 accepted, historyVars, fault>>

TestReleased(t) ==
  /\ Go(t, "testReleased", IF encState = "UNINITIALIZED" THEN "freeData" ELSE "mark")
  /\ UNCHANGED <<kind, globalVars, objectVars, localVars, countVars, resultVars,
                 historyVars, fault>>

DataFree(t) == FreeData(t, "freeData", "return")

(* Faulty variants: an empty queue does not stop the loop; nothing does.    *)
Mark_KeepEncoding(t) ==
  /\ Go(t, "mark", IF ret[t] = "FAIL" THEN "return" ELSE "loop")
  /\ encodingState' = "ENCODING"
  /\ UNCHANGED <<kind, encState, file, queueOf, handle, objectVars, localVars,
                 countVars, resultVars, historyVars, fault>>

Mark_Always(t) ==
  /\ Go(t, "mark", "loop")
  /\ encodingState' = "ENCODING"
  /\ UNCHANGED <<kind, encState, file, queueOf, handle, objectVars, localVars,
                 countVars, resultVars, historyVars, fault>>

Mark(t) ==
  /\ Go(t, "mark", "loop")
  /\ encodingState' = IF ret[t] = "FAIL" THEN "STOPPED" ELSE "ENCODING"
  /\ UNCHANGED <<kind, encState, file, queueOf, handle, objectVars, localVars,
                 countVars, resultVars, historyVars, fault>>

Loop(t) ==
  /\ Go(t, "loop", IF encodingState = "ENCODING" THEN "pop" ELSE "return")
  /\ UNCHANGED <<kind, globalVars, objectVars, localVars, countVars, resultVars,
                 historyVars, fault>>

DataReturn(t) ==
  /\ Return(t, "return")
  /\ UNCHANGED <<kind, globalVars, objectVars, localVars, countVars, accepted,
                 handled, historyVars, fault>>

-----------------------------------------------------------------------------
UIStep == OpenFile \/ CreateQueue \/ OpenCodec \/ InitReady
          \/ ReleaseFree \/ ReleaseClearState \/ ReleaseClearEncoding

DataStep(t) == DataTest(t) \/ Push(t) \/ TestStopped(t) \/ Pop(t) \/ NoQueue(t)
               \/ EncodeFault(t) \/ Encode(t) \/ TestReleased(t) \/ DataFree(t)
               \/ Mark(t) \/ Loop(t) \/ DataReturn(t)

Next == ~fault /\ (InitCall \/ ReleaseCall \/ UIStep
                   \/ \E t \in Threads : DataCall(t) \/ DataStep(t))

Spec == Init /\ [][Next]_vars

(* A call that has begun runs; nobody has to call.                          *)
FairSpec ==
  Spec /\ WF_vars(~fault /\ UIStep)
       /\ \A t \in Threads : WF_vars(~fault /\ DataStep(t))

-----------------------------------------------------------------------------
Places == {"idle", "openFile", "createQueue", "openCodec", "ready", "free",
           "clearState", "clearEncoding", "test", "push", "testStopped", "pop",
           "encode", "testReleased", "freeData", "mark", "loop", "return"}

GlobalType ==
  /\ kind \in Kinds
  /\ encState \in {"UNINITIALIZED", "INITIALIZED"}
  /\ encodingState \in {"STOPPED", "ENCODING"}
  /\ file \in 0..inits /\ queueOf \in 0..inits /\ handle \in 0..inits

ObjectType ==
  /\ openFiles \subseteq 1..inits /\ openCodecs \subseteq 1..inits
  /\ queue \in [Sessions -> Seq(Calls)]

ThreadType ==
  /\ pc \in [Threads -> Places]
  /\ buffer \in [Threads -> 0..MaxCalls] /\ ret \in [Threads -> {"OK", "FAIL"}]
  /\ current \in [Threads -> 0..calls]

CountType ==
  /\ inits \in 0..MaxInits /\ frees \in 0..MaxFrees /\ calls \in 0..MaxCalls
  /\ jniEnv \in {NoThread, "ui"} /\ encodeObj \in 0..inits /\ liveRefs \subseteq 1..inits

ResultType == returned \subseteq 1..calls /\ accepted \subseteq Calls /\ handled \subseteq Calls

HistoryType ==
  /\ overlap \in BOOLEAN /\ unmatched \in BOOLEAN /\ initFailed \in BOOLEAN
  /\ repeated \in BOOLEAN /\ elsewhere \in BOOLEAN /\ fault \in BOOLEAN

(* Every variable has its type: files, queues and codecs are those of an    *)
(* init, buffers those of a data call.                                      *)
TypeOK == GlobalType /\ ObjectType /\ ThreadType /\ CountType /\ ResultType /\ HistoryType

AtRest == \A t \in Threads : pc[t] = "idle"

(* Calls made one after the other, each release after an init, use nothing  *)
(* that is NULL, closed or deleted: only two calls at once, a release too   *)
(* many, x264's ignored failure to open, or its call back in a thread that  *)
(* is not the one of init can.                                              *)
FaultExplained ==
  fault => overlap \/ unmatched \/ (kind = "x264" /\ (initFailed \/ elsewhere))

(* Each call whose buffer was queued gives it to the codec before it        *)
(* returns, as long as calls are made one after the other: a buffer left in *)
(* the queue would be a pointer to deleted memory.                          *)
HandledInCall ==
  ~overlap => accepted \cap returned \subseteq handled

(* Between two calls, if none overlapped and no init failed, what is open   *)
(* is what the last init opened, and nothing after a release; the same for  *)
(* the reference to the Java object, unless an init was repeated: that one  *)
(* leaves a reference nobody can delete.                                    *)
OneCodecOpen ==
  AtRest /\ ~overlap /\ ~initFailed /\ ~fault =>
    /\ openCodecs = IF encState = "INITIALIZED" THEN {handle} ELSE {}
    /\ openFiles = IF encState = "INITIALIZED" /\ HasFile THEN {file} ELSE {}
    /\ encState = "INITIALIZED" => encodeObj \in liveRefs
    /\ repeated \/ liveRefs = IF encState = "INITIALIZED" THEN {encodeObj} ELSE {}

(* A data call comes back: its loop ends, also when the encoder is released *)
(* and initialised again meanwhile, which resets the flag the loop tests.   *)
DataReturns ==
  \A t \in Threads : pc[t] = "test" ~> pc[t] = "idle" \/ fault

=============================================================================

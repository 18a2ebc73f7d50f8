---------------------------- MODULE MediaEncoder ----------------------------
(***************************************************************************)
(* VideoEncoder.java and AudioEncoder.java: a MediaCodec fed by an encode  *)
(* thread from a LinkedBlockingQueue, driven by the record button of       *)
(* CameraActivity.onClick.                                                 *)
(*                                                                         *)
(* The two classes share their life cycle and differ in four places, which *)
(* Kind selects: how the encode thread waits (take against polling), who   *)
(* pushes (the UI thread's camera callback against AudioLoader's record    *)
(* thread), whether pushData refuses after stop, and whether encodeData is *)
(* synchronized.                                                           *)
(*                                                                         *)
(* Each press of the button that starts a recording is a session.  A       *)
(* session makes at most one codec, one queue, one encode thread and one   *)
(* record thread; all four carry the session's number, and 0 is Java's     *)
(* null.  The fields mCodec, mQueue and mEncodeThread are read by whichever *)
(* threads are alive at each use, so they are variables of their own.      *)
(***************************************************************************)
EXTENDS Naturals, Sequences

CONSTANTS Kind,         (* "video": VideoEncoder, "audio": AudioEncoder       *)
          MaxSessions,  (* bound: recordings the user starts                  *)
          MaxPushes     (* bound: frames or audio blocks handed to pushData   *)

ASSUME KindAssumption == Kind \in {"video", "audio"}
ASSUME BoundAssumption == MaxSessions \in Nat \ {0} /\ MaxPushes \in Nat

VARIABLES
  ui,             (* where the UI thread is in onClick                        *)
  recording,      (* CameraActivity.isRecording                               *)
  session,        (* recordings started so far                                *)
  mState,         (* EncodeState of the encoder                               *)
  mEncState,      (* EncodeEncState of the encoder                            *)
  mCodec,         (* mVideoCodec or mAudioCodec                               *)
  mQueue,         (* the queue the field refers to                            *)
  mEncodeThread,  (* the thread the field refers to                           *)
  codec,          (* the MediaCodec of each session                           *)
  queue,          (* the content of each session's queue                      *)
  pc,             (* the encode thread of each session                        *)
  waitsOn,        (* the queue object a thread called take() on               *)
  held,           (* the item a thread took                                   *)
  interrupted,    (* the interrupt flag of each encode thread                 *)
  mic,            (* AudioRecord is in RECORDSTATE_RECORDING (audio only)     *)
  producer,       (* where AudioLoader's record thread is                     *)
  recordThread,   (* the session that thread was started in                   *)
  block,          (* what each record thread's one byte array contains        *)
  pushed,         (* frames captured, or blocks read, so far                  *)
  encoded,        (* history: what was submitted to a codec of each session's *)
                  (* items, in order                                          *)
  overlap,        (* history: a setup found an earlier thread still alive     *)
  crashed         (* what ended the process, if anything                      *)

uiVars     == <<ui, recording, session>>
fieldVars  == <<mState, mEncState, mCodec, mQueue, mEncodeThread>>
threadVars == <<pc, waitsOn, held, interrupted>>
micVars    == <<mic, producer, recordThread, block, pushed>>
vars == <<uiVars, fieldVars, codec, queue, threadVars, micVars, encoded,
          overlap, crashed>>

Sessions == 1..MaxSessions
Null == 0
NoItem == [src |-> Null, n |-> 0]

(* A queued byte array: the session it was pushed in and, for a video frame, *)
(* its number.  An audio item is a reference to the record thread's array.   *)
Item == [src : Sessions, n : 0..MaxPushes]

CodecStates == {"none", "uninit", "configured", "executing", "released"}
PCs == {"none", "new", "test", "testInterrupt", "poll", "take", "wait",
        "encode", "drain", "exit", "release", "clear", "done"}
UIs == {"idle", "create", "configure", "queue", "newThread", "startThread",
        "startRecord", "flags", "interrupt", "stopRecord", "join"}
MicPCs == {"off", "test", "read", "listener", "push"}

Init ==
  /\ ui = "idle" /\ recording = FALSE /\ session = 0
  /\ mState = "UNINITIALIZED" /\ mEncState = "STOPPED"
  /\ mCodec = Null /\ mQueue = Null /\ mEncodeThread = Null
  /\ codec = [s \in Sessions |-> "none"]
  /\ queue = [s \in Sessions |-> <<>>]
  /\ pc = [s \in Sessions |-> "none"]
  /\ waitsOn = [s \in Sessions |-> Null]
  /\ held = [s \in Sessions |-> NoItem]
  /\ interrupted = [s \in Sessions |-> FALSE]
  /\ mic = FALSE
  /\ producer = "off"
  /\ recordThread = Null
  /\ block = [s \in Sessions |-> 0]
  /\ pushed = 0
  /\ encoded = [s \in Sessions |-> <<>>]
  /\ overlap = FALSE
  /\ crashed = "no"

-----------------------------------------------------------------------------
(* The codec (android.media.MediaCodec): which calls are legal when.  The  *)
(* others throw, and neither encoder catches what they throw.              *)

CanConfigure(c) == c # Null /\ codec[c] = "uninit"
CanStart(c) == codec[c] = "configured"
CanStop(c) == codec[c] # "released"
InUse(c) == c # Null /\ codec[c] = "executing"

Alive(t) == pc[t] \notin {"none", "done"}

(* An exception nobody catches ends the process. *)
Crash(cause) ==
  /\ crashed' = cause
  /\ UNCHANGED <<uiVars, fieldVars, codec, queue, threadVars, micVars,
                 encoded, overlap>>

-----------------------------------------------------------------------------
(* The UI thread: onClick of the record button.                            *)

RecordOn ==
  /\ ui = "idle" /\ ~recording
  /\ session < MaxSessions
  /\ recording' = TRUE
  /\ session' = session + 1
  /\ ui' = IF mState = "UNINITIALIZED" THEN "create" ELSE "newThread"
  /\ UNCHANGED <<fieldVars, codec, queue, threadVars, micVars, encoded,
                 overlap, crashed>>

(* createByCodecName; null codec info returns, IOException is only logged. *)
SetupCreate ==
  /\ ui = "create"
  /\ overlap' = (overlap \/ \E t \in Sessions : Alive(t))
  /\ \/ /\ codec' = [codec EXCEPT ![session] = "uninit"]
        /\ mCodec' = session
        /\ ui' = "configure"
     \/ /\ ui' \in {"newThread", "configure"}
        /\ UNCHANGED <<codec, mCodec>>
  /\ UNCHANGED <<recording, session, mState, mEncState, mQueue, mEncodeThread,
                 queue, threadVars, micVars, encoded, crashed>>

SetupConfigure ==
  /\ ui = "configure"
  /\ IF CanConfigure(mCodec)
     THEN /\ codec' = [codec EXCEPT ![mCodec] = "configured"]
          /\ ui' = "queue"
          /\ UNCHANGED <<recording, session, fieldVars, queue, threadVars,
                         micVars, encoded, overlap, crashed>>
     ELSE Crash("configure")

(* Faulty variant: setup keeps the queue of the earlier session.            *)
SetupQueue_Reuse ==
  /\ ui = "queue"
  /\ mQueue' = IF mQueue = Null THEN session ELSE mQueue
  /\ mState' = "INITIALIZED"
  /\ ui' = "newThread"
  /\ UNCHANGED <<recording, session, mEncState, mCodec, mEncodeThread, codec,
                 queue, threadVars, micVars, encoded, overlap, crashed>>

SetupQueue ==
  /\ ui = "queue"
  /\ mQueue' = session
  /\ mState' = "INITIALIZED"
  /\ ui' = "newThread"
  /\ UNCHANGED <<recording, session, mEncState, mCodec, mEncodeThread, codec,
                 queue, threadVars, micVars, encoded, overlap, crashed>>

(* The audio record thread is started by onClick after AudioEncoder.start. *)
AfterStart == IF Kind = "audio" THEN "startRecord" ELSE "idle"

StartNewThread ==
  /\ ui = "newThread"
  /\ IF mState = "UNINITIALIZED"
     THEN ui' = AfterStart /\ UNCHANGED mEncodeThread
     ELSE ui' = "startThread" /\ mEncodeThread' = session
  /\ UNCHANGED <<recording, session, mState, mEncState, mCodec, mQueue, codec,
                 queue, threadVars, micVars, encoded, overlap, crashed>>

(* Faulty variant: the thread is made and never started.                    *)
StartThread_NotStarted ==
  /\ ui = "startThread"
  /\ mEncState' = "ENCODING"
  /\ ui' = AfterStart
  /\ UNCHANGED <<recording, session, mState, mCodec, mQueue, mEncodeThread,
                 codec, queue, threadVars, micVars, encoded, overlap, crashed>>

StartThread ==
  /\ ui = "startThread"
  /\ mEncState' = "ENCODING"
  /\ pc' = [pc EXCEPT ![mEncodeThread] = "new"]
  /\ ui' = AfterStart
  /\ UNCHANGED <<recording, session, mState, mCodec, mQueue, mEncodeThread,
                 codec, queue, waitsOn, held, interrupted, micVars, encoded,
                 overlap, crashed>>

StartRecord ==
  /\ ui = "startRecord"
  /\ mic' = TRUE
  /\ producer' = "test"
  /\ recordThread' = session
  /\ ui' = "idle"
  /\ UNCHANGED <<recording, session, fieldVars, codec, queue, threadVars,
                 block, pushed, encoded, overlap, crashed>>

AfterStop == IF Kind = "audio" THEN "stopRecord" ELSE "idle"

RecordOff ==
  /\ ui = "idle" /\ recording
  /\ recording' = FALSE
  /\ ui' = IF mState = "UNINITIALIZED" \/ mEncState = "STOPPED"
           THEN AfterStop ELSE "flags"
  /\ UNCHANGED <<session, fieldVars, codec, queue, threadVars, micVars,
                 encoded, overlap, crashed>>

(* Faulty variants: stop resets only one of the two states.                 *)
StopFlags_KeepState ==
  /\ ui = "flags"
  /\ mEncState' = "STOPPED"
  /\ ui' = "interrupt"
  /\ UNCHANGED <<recording, session, mState, mCodec, mQueue, mEncodeThread,
                 codec, queue, threadVars, micVars, encoded, overlap, crashed>>

StopFlags_KeepEncoding ==
  /\ ui = "flags"
  /\ mState' = "UNINITIALIZED"
  /\ ui' = "interrupt"
  /\ UNCHANGED <<recording, session, mEncState, mCodec, mQueue, mEncodeThread,
                 codec, queue, threadVars, micVars, encoded, overlap, crashed>>

StopFlags ==
  /\ ui = "flags"
  /\ mState' = "UNINITIALIZED"
  /\ mEncState' = "STOPPED"
  /\ ui' = "interrupt"
  /\ UNCHANGED <<recording, session, mCodec, mQueue, mEncodeThread, codec,
                 queue, threadVars, micVars, encoded, overlap, crashed>>

StopInterrupt ==
  /\ ui = "interrupt"
  /\ interrupted' = [interrupted EXCEPT ![mEncodeThread] = (@ \/ Alive(mEncodeThread))]
  /\ ui' = AfterStop
  /\ UNCHANGED <<recording, session, fieldVars, codec, queue, pc, waitsOn,
                 held, micVars, encoded, overlap, crashed>>

(* Faulty variants: no join after the stop; the join before the stop.       *)
StopRecord_NoJoin ==
  /\ ui = "stopRecord"
  /\ mic' = FALSE
  /\ ui' = "idle"
  /\ UNCHANGED <<recording, session, fieldVars, codec, queue, threadVars,
                 producer, recordThread, block, pushed, encoded, overlap,
                 crashed>>

StopRecord_JoinFirst ==
  /\ ui = "stopRecord"
  /\ ui' = "join"
  /\ UNCHANGED <<recording, session, fieldVars, codec, queue, threadVars,
                 micVars, encoded, overlap, crashed>>

(* AudioLoader.stopRecord: the recorder stops, then the UI thread joins the *)
(* record thread.                                                          *)
StopRecord ==
  /\ ui = "stopRecord"
  /\ mic' = FALSE
  /\ ui' = IF mic THEN "join" ELSE "idle"
  /\ UNCHANGED <<recording, session, fieldVars, codec, queue, threadVars,
                 producer, recordThread, block, pushed, encoded, overlap,
                 crashed>>

JoinRecordThread ==
  /\ ui = "join"
  /\ producer = "off"
  /\ ui' = "idle"
  /\ UNCHANGED <<recording, session, fieldVars, codec, queue, threadVars,
                 micVars, encoded, overlap, crashed>>

(* The camera callback runs on the UI thread, between two clicks, and hands *)
(* pushData a fresh array.                                                 *)
PushFrame ==
  /\ Kind = "video"
  /\ ui = "idle" /\ recording
  /\ mState = "INITIALIZED" /\ mEncState = "ENCODING"
  /\ pushed < MaxPushes
  /\ pushed' = pushed + 1
  /\ queue' = [queue EXCEPT ![mQueue] = Append(@, [src |-> session, n |-> pushed + 1])]
  /\ UNCHANGED <<uiVars, fieldVars, codec, threadVars, mic, producer, recordThread,
                 block, encoded, overlap, crashed>>

-----------------------------------------------------------------------------
(* The record thread of AudioLoader (executeReadData).  It reads every     *)
(* block into the same array and passes the array itself to pushData,      *)
(* whatever read() returned.                                               *)

Mic(from, to) == producer = from /\ producer' = to

MicTest ==
  /\ Mic("test", IF mic THEN "read" ELSE "off")
  /\ UNCHANGED <<uiVars, fieldVars, codec, queue, threadVars, mic,
                 recordThread, block, pushed, encoded, overlap, crashed>>

MicRead ==
  /\ Mic("read", "listener")
  /\ IF mic
     THEN /\ pushed < MaxPushes
          /\ pushed' = pushed + 1
          /\ \E b \in {block[recordThread], pushed + 1} :
               block' = [block EXCEPT ![recordThread] = b]
     ELSE UNCHANGED <<pushed, block>>
  /\ UNCHANGED <<uiVars, fieldVars, codec, queue, threadVars, mic,
                 recordThread, encoded, overlap, crashed>>

(* AudioEncoder.pushData logs that the encoder is stopped, and goes on.     *)
MicListener ==
  /\ Mic("listener", IF recording /\ mState = "INITIALIZED" THEN "push" ELSE "test")
  /\ UNCHANGED <<uiVars, fieldVars, codec, queue, threadVars, mic,
                 recordThread, block, pushed, encoded, overlap, crashed>>

MicPush ==
  /\ Mic("push", "test")
  /\ queue' = [queue EXCEPT ![mQueue] = Append(@, [src |-> recordThread, n |-> 0])]
  /\ UNCHANGED <<uiVars, fieldVars, codec, threadVars, mic, recordThread,
                 block, pushed, encoded, overlap, crashed>>

-----------------------------------------------------------------------------
(* The encode thread t, created in session t.                              *)

Go(t, from, to) == pc[t] = from /\ pc' = [pc EXCEPT ![t] = to]

(* Faulty variant: the codec is never started.                              *)
Run_NoStart(t) ==
  /\ Go(t, "new", "test")
  /\ UNCHANGED <<uiVars, fieldVars, codec, queue, waitsOn, held, interrupted,
                 micVars, encoded, overlap, crashed>>

Run(t) ==
  /\ pc[t] = "new"
  /\ IF mCodec # Null /\ ~CanStart(mCodec)
     THEN Crash("codec")
     ELSE /\ Go(t, "new", "test")
          /\ codec' = IF mCodec = Null THEN codec
                      ELSE [codec EXCEPT ![mCodec] = "executing"]
          /\ UNCHANGED <<uiVars, fieldVars, queue, waitsOn, held, interrupted,
                         micVars, encoded, overlap, crashed>>

(* The loop condition reads two fields one after the other.                *)
Loop == IF Kind = "audio" THEN "poll" ELSE "take"

TestEncState(t) ==
  /\ Go(t, "test", IF mEncState = "ENCODING" THEN Loop ELSE "testInterrupt")
  /\ UNCHANGED <<uiVars, fieldVars, codec, queue, waitsOn, held, interrupted,
                 micVars, encoded, overlap, crashed>>

TestInterrupt(t) ==
  /\ Go(t, "testInterrupt", IF interrupted[mEncodeThread] THEN "exit" ELSE Loop)
  /\ UNCHANGED <<uiVars, fieldVars, codec, queue, waitsOn, held, interrupted,
                 micVars, encoded, overlap, crashed>>

Poll(t) ==
  /\ Go(t, "poll", IF queue[mQueue] = <<>> THEN "test" ELSE "take")
  /\ UNCHANGED <<uiVars, fieldVars, codec, queue, waitsOn, held, interrupted,
                 micVars, encoded, overlap, crashed>>

Take(t) ==
  /\ Go(t, "take", "wait")
  /\ waitsOn' = [waitsOn EXCEPT ![t] = mQueue]
  /\ UNCHANGED <<uiVars, fieldVars, codec, queue, held, interrupted, micVars,
                 encoded, overlap, crashed>>

(* Faulty variant: the newest item first.                                  *)
TakeItem_Newest(t) ==
  /\ Go(t, "wait", "encode")
  /\ ~interrupted[t]
  /\ queue[waitsOn[t]] # <<>>
  /\ LET q == queue[waitsOn[t]] IN
       /\ held' = [held EXCEPT ![t] = q[Len(q)]]
       /\ queue' = [queue EXCEPT ![waitsOn[t]] = SubSeq(q, 1, Len(q) - 1)]
  /\ UNCHANGED <<uiVars, fieldVars, codec, waitsOn, interrupted, micVars,
                 encoded, overlap, crashed>>

(* take() returns an item, or throws InterruptedException: the loop catches *)
(* it, the flag is cleared, and the thread goes round again.               *)
TakeItem(t) ==
  /\ Go(t, "wait", "encode")
  /\ ~interrupted[t]
  /\ queue[waitsOn[t]] # <<>>
  /\ held' = [held EXCEPT ![t] = Head(queue[waitsOn[t]])]
  /\ queue' = [queue EXCEPT ![waitsOn[t]] = Tail(@)]
  /\ UNCHANGED <<uiVars, fieldVars, codec, waitsOn, interrupted, micVars,
                 encoded, overlap, crashed>>

TakeInterrupted(t) ==
  /\ Go(t, "wait", "test")
  /\ interrupted[t]
  /\ interrupted' = [interrupted EXCEPT ![t] = FALSE]
  /\ UNCHANGED <<uiVars, fieldVars, codec, queue, waitsOn, held, micVars,
                 encoded, overlap, crashed>>

(* encodeData; the audio one is synchronized.  What is encoded is what the *)
(* array contains now.                                                     *)
Content(item) == IF Kind = "audio" THEN block[item.src] ELSE item.n

Submit(t) ==
  /\ pc[t] = "encode"
  /\ Kind = "audio" => \A u \in Sessions : pc[u] # "drain"
  /\ IF InUse(mCodec)
     THEN /\ Go(t, "encode", "drain")
          /\ encoded' = [encoded EXCEPT ![held[t].src] =
                           Append(@, [by |-> t, n |-> Content(held[t])])]
          /\ UNCHANGED <<uiVars, fieldVars, codec, queue, waitsOn, held,
                         interrupted, micVars, overlap, crashed>>
     ELSE Crash("codec")

Drain(t) ==
  /\ pc[t] = "drain"
  /\ IF InUse(mCodec)
     THEN /\ Go(t, "drain", "test")
          /\ UNCHANGED <<uiVars, fieldVars, codec, queue, waitsOn, held,
                         interrupted, micVars, encoded, overlap, crashed>>
     ELSE Crash("codec")

(* After the loop: stop, release, clear the field, each on the field as it *)
(* is at that moment.                                                      *)
ExitStop(t) ==
  /\ pc[t] = "exit"
  /\ IF mCodec # Null /\ ~CanStop(mCodec)
     THEN Crash("codec")
     ELSE /\ Go(t, "exit", IF mCodec = Null THEN "done" ELSE "release")
          /\ codec' = IF mCodec = Null THEN codec
                      ELSE [codec EXCEPT ![mCodec] = "uninit"]
          /\ UNCHANGED <<uiVars, fieldVars, queue, waitsOn, held, interrupted,
                         micVars, encoded, overlap, crashed>>

ExitRelease(t) ==
  /\ pc[t] = "release"
  /\ IF mCodec = Null
     THEN Crash("codec")
     ELSE /\ Go(t, "release", "clear")
          /\ codec' = [codec EXCEPT ![mCodec] = "released"]
          /\ UNCHANGED <<uiVars, fieldVars, queue, waitsOn, held, interrupted,
                         micVars, encoded, overlap, crashed>>

ExitClear(t) ==
  /\ Go(t, "clear", "done")
  /\ mCodec' = Null
  /\ UNCHANGED <<uiVars, mState, mEncState, mQueue, mEncodeThread, codec, queue,
                 waitsOn, held, interrupted, micVars, encoded, overlap, crashed>>

-----------------------------------------------------------------------------
UI == RecordOn \/ SetupCreate \/ SetupConfigure \/ SetupQueue
      \/ StartNewThread \/ StartThread \/ StartRecord \/ RecordOff
      \/ StopFlags \/ StopInterrupt \/ StopRecord \/ JoinRecordThread \/ PushFrame

RecordThread == MicTest \/ MicRead \/ MicListener \/ MicPush

EncodeThread(t) ==
  Run(t) \/ TestEncState(t) \/ TestInterrupt(t) \/ Poll(t) \/ Take(t)
  \/ TakeItem(t) \/ TakeInterrupted(t) \/ Submit(t) \/ Drain(t) \/ ExitStop(t)
  \/ ExitRelease(t) \/ ExitClear(t)

Next == crashed = "no" /\ (UI \/ RecordThread \/ \E t \in Sessions : EncodeThread(t))

Spec == Init /\ [][Next]_vars

(* Threads are scheduled; the user may stop clicking, but onClick, once     *)
(* entered, goes on.                                                       *)
ThreadFairness ==
  /\ \A t \in Sessions : WF_vars(crashed = "no" /\ EncodeThread(t))
  /\ WF_vars(crashed = "no" /\ RecordThread)
  /\ WF_vars(crashed = "no" /\ UI /\ ui # "idle")

FairSpec == Spec /\ ThreadFairness

-----------------------------------------------------------------------------
UIType ==
  /\ ui \in UIs /\ recording \in BOOLEAN /\ session \in 0..MaxSessions

FieldType ==
  /\ mState \in {"UNINITIALIZED", "INITIALIZED"}
  /\ mEncState \in {"STOPPED", "ENCODING"}
  /\ mCodec \in 0..session /\ mQueue \in 0..session
  /\ mEncodeThread \in 0..session

ObjectType ==
  /\ codec \in [Sessions -> CodecStates]
  /\ queue \in [Sessions -> Seq(Item)]

ThreadType ==
  /\ pc \in [Sessions -> PCs]
  /\ waitsOn \in [Sessions -> 0..MaxSessions]
  /\ held \in [Sessions -> Item \cup {NoItem}]
  /\ interrupted \in [Sessions -> BOOLEAN]

MicType ==
  /\ mic \in BOOLEAN /\ producer \in MicPCs
  /\ recordThread \in 0..session
  /\ block \in [Sessions -> 0..MaxPushes]
  /\ pushed \in 0..MaxPushes

HistoryType ==
  /\ encoded \in [Sessions -> Seq([by : Sessions, n : 0..MaxPushes])]
  /\ overlap \in BOOLEAN
  /\ crashed \in {"no", "configure", "codec"}

(* Every variable has its type: no field ever names an object of a session *)
(* that has not started, and the flags keep to the enums of the source.    *)
TypeOK ==
  UIType /\ FieldType /\ ObjectType /\ ThreadType /\ MicType /\ HistoryType

(* Between two clicks the encoder agrees with the button: after a stop it  *)
(* has its initial states back, so the next setup and start are accepted,  *)
(* and while it encodes the thread it refers to has been started and is    *)
(* not the one an earlier stop interrupted.                                *)
ButtonInSync ==
  /\ ui = "idle" /\ ~recording => mState = "UNINITIALIZED" /\ mEncState = "STOPPED"
  /\ ui = "idle" /\ recording => (mState = "INITIALIZED" <=> mEncState = "ENCODING")
  /\ mEncState = "ENCODING" =>
       mState = "INITIALIZED" /\ mEncodeThread = session /\ ~interrupted[session]

(* An encode thread calls the codec in a state that refuses the call, or   *)
(* through a null field, only after a setup ran while the thread of an     *)
(* earlier session was still alive.                                        *)
CodecFaultNeedsOverlap == crashed = "codec" => overlap

(* As long as no two sessions' threads overlap, only the thread of a       *)
(* session encodes what that session captured.  (In which order is          *)
(* ImplementsChannel of the video encoder; audio promises none: the record *)
(* thread reuses one array, so a block may be repeated or lost.)           *)
EncodedBySession ==
  ~overlap => \A s \in Sessions : \A i \in 1..Len(encoded[s]) : encoded[s][i].by = s

(* A queue only ever holds what was captured in its own session: pushData  *)
(* checks the state and then uses the field mQueue, and a restart between  *)
(* the two would put an old block into the new queue.                      *)
QueueOfOneSession ==
  \A s \in Sessions : \A i \in 1..Len(queue[s]) : queue[s][i].src = s

(* A frame accepted while recording is eventually submitted to the codec,  *)
(* unless the user stops (or the process has died).                        *)
FrameEncoded ==
  \A s \in Sessions, n \in 1..MaxPushes :
    (\E i \in 1..Len(queue[s]) : queue[s][i].n = n)
      ~> \/ \E i \in 1..Len(encoded[s]) : encoded[s][i].n = n
         \/ ~recording \/ session > s \/ crashed # "no"

(* An interrupt that finds the thread inside encodeData ends it: it comes  *)
(* back to the loop condition with both tests failing, and the codec is    *)
(* released, unless the user starts the next recording before that, or two *)
(* sessions' threads had overlapped already.                               *)
StopDuringEncode ==
  \A t \in Sessions :
    (pc[t] \in {"encode", "drain"} /\ interrupted[t] /\ session = t)
      ~> (pc[t] = "done" /\ codec[t] = "released" /\ mCodec = Null)
         \/ session > t \/ overlap

(* stopRecord's join returns: the UI thread is not kept waiting by the     *)
(* record thread.                                                          *)
JoinReturns == ui = "join" ~> ui = "idle" \/ crashed # "no"

(* VideoEncoder.java:187 and AudioEncoder.java:234 say of the interrupt    *)
(* that it interrupts the running thread, line 182 (229) that stop restores *)
(* the initial state: the interrupted thread ends and its codec is freed.   *)
StopEndsThread ==
  \A t \in Sessions : interrupted[t] ~> pc[t] = "done" \/ crashed # "no"

=============================================================================

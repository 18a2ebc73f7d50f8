------------------------------ MODULE RtmpCore ------------------------------
(***************************************************************************)
(* rtmp_core.c behind rtmp_pusher.cpp: the record button opens and closes  *)
(* a connection on the UI thread; the two encode threads turn encoded data *)
(* into FLV tags and push them on a queue; a pushing thread per open       *)
(* writes the tags to the connection.  They share plain global variables.  *)
(*                                                                         *)
(* The c-th call of rtmp_pusher_open makes connection c, queue c and, when *)
(* it gets so far, pushing thread c; Null is the C null pointer, and after *)
(* a free the pointer may still be there.  Touching a freed or null object *)
(* is undefined: it sets fault and the model stops.                        *)
(*                                                                         *)
(* Nothing locks the queue.  A call of push_data or pop_data begins, takes *)
(* effect and returns in three steps; calls that meet where SafeQueue's    *)
(* LongListSurvives does not cover them may lose nodes or touch freed ones.*)
(***************************************************************************)
EXTENDS Naturals, Sequences, FiniteSets

CONSTANTS MaxOpens,   (* bound: presses of the button that open               *)
          MaxCalls,   (* bound: calls of push_audio and push_video            *)
          AudioThreads, VideoThreads,   (* encode threads; an old one may     *)
                                        (* still be there with the new one    *)
          Packets     (* encoded video packets, as sequences of NAL types     *)

NalTypes == {"SPS", "PPS", "IDR", "P", "other"}

ASSUME BoundAssumption == MaxOpens \in Nat \ {0} /\ MaxCalls \in Nat
ASSUME PacketAssumption == Packets \subseteq Seq(NalTypes)
ASSUME ThreadAssumption == AudioThreads \cap VideoThreads = {}

VARIABLES
  ui,               (* where the UI thread is in open or close                *)
  recording,        (* CameraActivity.isRecording                             *)
  opens,            (* calls of rtmp_pusher_open so far                       *)
  rtmp, rtmp_queue, (* the global pointers                                    *)
  rtmp_state, video_config_ok, audio_config_ok,
  conn,             (* the RTMP object of each open                           *)
  queueState,       (* the LinkedQueue of each open                           *)
  tags,             (* its content                                            *)
  pusher, holding,  (* each pushing thread and the tag it popped              *)
  from,             (* the queue it pops                                      *)
  at, next, on,     (* each encode thread: its place in a call, the tag it    *)
                    (* pushes, the queue it pushes on                         *)
  nals,             (* the NALs left to a push_video call                     *)
  calls,            (* calls begun                                            *)
  pushed, wire,     (* history: tags pushed on each queue, tags sent          *)
  refused,          (* history: kinds of tag that push_data had no node for   *)
  met,              (* history: queues whose calls met, see Meet              *)
  twice,            (* history: kinds of header that two threads, neither of  *)
                    (* which had set the flag yet, went on to push            *)
  disorder,         (* history: see Disorder                                  *)
  starved,          (* history: a tag could not be allocated                  *)
  fault             (* undefined behaviour                                    *)

uiVars     == <<ui, recording, opens>>
pointers   == <<rtmp, rtmp_queue>>
flags      == <<rtmp_state, video_config_ok, audio_config_ok>>
objects    == <<conn, queueState, tags>>
pusherVars == <<pusher, holding, from>>
callVars   == <<at, next, on, nals, calls>>
tagHistory == <<pushed, wire, refused, met, twice>>
history    == <<tagHistory, disorder, starved>>
vars == <<uiVars, pointers, flags, objects, pusherVars, callVars, history, fault>>

Opens == 1..MaxOpens
Null == 0
Kinds == {"audioConfig", "audioRaw", "videoConfig", "keyFrame", "interFrame"}
NoTag == "none"
Callers == AudioThreads \cup VideoThreads

Init ==
  /\ ui = "idle" /\ recording = FALSE /\ opens = 0
  /\ rtmp = Null /\ rtmp_queue = Null
  /\ rtmp_state = "STOPPED" /\ video_config_ok = FALSE /\ audio_config_ok = FALSE
  /\ conn = [c \in Opens |-> "none"]
  /\ queueState = [c \in Opens |-> "none"]
  /\ tags = [c \in Opens |-> <<>>]
  /\ pusher = [c \in Opens |-> "none"]
  /\ holding = [c \in Opens |-> NoTag]
  /\ from = [c \in Opens |-> Null]
  /\ at = [t \in Callers |-> "out"]
  /\ next = [t \in Callers |-> NoTag]
  /\ on = [t \in Callers |-> Null]
  /\ nals = [t \in VideoThreads |-> <<>>]
  /\ calls = 0
  /\ pushed = [c \in Opens |-> <<>>]
  /\ wire = [c \in Opens |-> <<>>]
  /\ refused = [c \in Opens |-> {}]
  /\ twice = [c \in Opens |-> {}]
  /\ met = {}
  /\ disorder = FALSE /\ starved = FALSE /\ fault = FALSE

-----------------------------------------------------------------------------
Fault ==
  /\ fault' = TRUE
  /\ UNCHANGED <<uiVars, pointers, flags, objects, pusherVars, callVars, history>>

ConnUsable == rtmp # Null /\ conn[rtmp] \notin {"none", "freed"}
QueueUsable == rtmp_queue # Null /\ queueState[rtmp_queue] = "live"
IsConnected == conn[rtmp] = "live"       (* RTMP_IsConnected *)

PusherAlive == \E c \in Opens : pusher[c] \notin {"none", "tooSoon", "done"}
CallInside == \E t \in Callers : at[t] # "out"

(* What an orderly caller would avoid: an open that fails with something    *)
(* allocated, a close that frees under a live pushing thread or a call in   *)
(* progress, a call begun while the UI thread is inside open or close, and  *)
(* a video call with no live queue.                                         *)
Disorder(happens) == disorder' = (disorder \/ happens)

-----------------------------------------------------------------------------
(* The UI thread: rtmp_pusher_open.  onClick ignores its result.            *)

UiGo(here, there) == ui = here /\ ui' = there

OpenQueue ==
  /\ ~recording /\ opens < MaxOpens
  /\ recording' = TRUE
  /\ opens' = opens + 1
  /\ \/ /\ UiGo("idle", "alloc")
        /\ rtmp_queue' = opens + 1
        /\ queueState' = [queueState EXCEPT ![opens + 1] = "live"]
        /\ UNCHANGED disorder
     \/ /\ UiGo("idle", "idle")                     (* create_queue: NULL *)
        /\ rtmp_queue' = Null
        /\ Disorder(TRUE)
        /\ UNCHANGED queueState
  /\ UNCHANGED <<rtmp, flags, conn, tags, pusherVars, callVars, tagHistory, starved, fault>>

OpenAlloc ==
  /\ \/ /\ UiGo("alloc", "connect")
        /\ rtmp' = opens
        /\ conn' = [conn EXCEPT ![opens] = "alloc"]
     \/ /\ UiGo("alloc", "idle")                    (* RTMP_Alloc: NULL *)
        /\ rtmp' = Null
        /\ UNCHANGED conn
  /\ UNCHANGED <<recording, opens, rtmp_queue, flags, queueState, tags,
                 pusherVars, callVars, history, fault>>

(* SetupURL, Connect and ConnectStream; each failure frees what rtmp still  *)
(* points to.                                                               *)
OpenConnect ==
  /\ \/ /\ UiGo("connect", "reset")
        /\ conn' = [conn EXCEPT ![rtmp] = "live"]
        /\ UNCHANGED disorder
     \/ /\ UiGo("connect", "idle")
        /\ conn' = [conn EXCEPT ![rtmp] = "freed"]
        /\ Disorder(TRUE)
  /\ UNCHANGED <<recording, opens, pointers, flags, queueState, tags,
                 pusherVars, callVars, tagHistory, starved, fault>>

(* The flags, and the metadata written directly to the connection.  A       *)
(* connection that is already down is returned as it is; one that goes down *)
(* in the write gets its pushing thread all the same.                       *)
OpenReset ==
  /\ video_config_ok' = FALSE
  /\ audio_config_ok' = FALSE
  /\ \/ UiGo("reset", "create") /\ UNCHANGED conn
     \/ /\ UiGo("reset", "create") \/ UiGo("reset", "idle")
        /\ conn' = [conn EXCEPT ![rtmp] = "lost"]
  /\ UNCHANGED <<recording, opens, pointers, rtmp_state, queueState, tags,
                 pusherVars, callVars, history, fault>>

OpenCreateThread ==
  /\ UiGo("create", "pushing")
  /\ pusher' = [pusher EXCEPT ![opens] = "test"]
  /\ UNCHANGED <<recording, opens, pointers, flags, objects, holding, from, callVars,
                 history, fault>>

OpenPushing ==
  /\ UiGo("pushing", "idle")
  /\ rtmp_state' = "PUSHING"
  /\ UNCHANGED <<recording, opens, pointers, video_config_ok, audio_config_ok,
                 objects, pusherVars, callVars, history, fault>>

-----------------------------------------------------------------------------
(* The UI thread: rtmp_sender_close.                                        *)

CloseState ==
  /\ recording
  /\ recording' = FALSE
  /\ UiGo("idle", IF rtmp = Null THEN "freeQueue" ELSE "free")
  /\ rtmp_state' = "STOPPED"
  /\ UNCHANGED <<opens, pointers, video_config_ok, audio_config_ok, objects,
                 pusherVars, callVars, history, fault>>

CloseFree ==
  /\ ui = "free"
  /\ IF ConnUsable
     THEN /\ UiGo("free", "clear")
          /\ conn' = [conn EXCEPT ![rtmp] = "freed"]
          /\ Disorder(PusherAlive \/ CallInside)
          /\ UNCHANGED <<recording, opens, pointers, flags, queueState, tags,
                         pusherVars, callVars, tagHistory, starved, fault>>
     ELSE Fault

(* Faulty variant: close leaves the pointer to the freed connection.        *)
CloseClear_Keep ==
  /\ UiGo("clear", "freeQueue")
  /\ UNCHANGED <<recording, opens, pointers, flags, objects, pusherVars,
                 callVars, history, fault>>

CloseClear ==
  /\ UiGo("clear", "freeQueue")
  /\ rtmp' = Null
  /\ UNCHANGED <<recording, opens, rtmp_queue, flags, objects, pusherVars,
                 callVars, history, fault>>

CloseFreeQueue ==
  /\ ui = "freeQueue"
  /\ IF QueueUsable
     THEN /\ UiGo("freeQueue", "idle")
          /\ queueState' = [queueState EXCEPT ![rtmp_queue] = "freed"]
          /\ tags' = [tags EXCEPT ![rtmp_queue] = <<>>]
          /\ Disorder(PusherAlive \/ CallInside)
          /\ UNCHANGED <<recording, opens, pointers, flags, conn, pusherVars,
                         callVars, tagHistory, starved, fault>>
     ELSE Fault

(* free_queue on a list whose links calls that met have broken (it may also *)
(* find a length above zero on an empty list, and never return).            *)
CloseFreeQueueBroken ==
  /\ ui = "freeQueue"
  /\ rtmp_queue \in met
  /\ Fault

-----------------------------------------------------------------------------
(* Calls in progress on the queue q.                                        *)

Pushing(q) == {t \in Callers : at[t] \in {"link", "linked"} /\ on[t] = q}
Popping(q) == {c \in Opens : pusher[c] \in {"pop", "popped"} /\ from[c] = q}

(* A step of one call on q meets the others inside: it is harmless only     *)
(* between one push and one pop, on a list of two nodes and more.           *)
Meet(q, same, other) ==
  met' = IF same # {} \/ (Len(tags[q]) <= 1 /\ other # {}) THEN met \cup {q} ELSE met

(* What is left of the list that should be full: after a meeting nodes may  *)
(* no longer be reachable.                                                  *)
Left(q, full) ==
  IF q \in met' THEN {s \in {full, tags[q], <<>>} : Len(s) <= Len(full)} ELSE {full}

(* A call on a queue that was freed, or whose links are broken, may touch   *)
(* freed memory.                                                            *)
MayBreak(q) == queueState[q] # "live" \/ q \in met

-----------------------------------------------------------------------------
(* thread_pushing, thread c.  One that finds its own open not yet done with *)
(* rtmp_state is gone before the session begins.                            *)

PusherTest(c) ==
  /\ pusher[c] = "test"
  /\ IF rtmp_state = "PUSHING" /\ rtmp # Null /\ ~ConnUsable
     THEN Fault
     ELSE /\ pusher' = [pusher EXCEPT ![c] =
                          IF rtmp_state = "PUSHING" /\ rtmp # Null /\ IsConnected THEN "get"
                          ELSE IF ui = "pushing" /\ c = opens THEN "tooSoon"
                          ELSE "done"]
          /\ UNCHANGED <<uiVars, pointers, flags, objects, holding, from, callVars,
                         history, fault>>

NothingToPop == rtmp_queue = Null \/ (QueueUsable /\ tags[rtmp_queue] = <<>>)

(* Faulty variant: the thread ends on an empty queue.                       *)
PusherEmpty_Ends(c) ==
  /\ pusher[c] = "get"
  /\ NothingToPop
  /\ pusher' = [pusher EXCEPT ![c] = "done"]
  /\ UNCHANGED <<uiVars, pointers, flags, objects, holding, from, callVars, history,
                 fault>>

PusherEmpty(c) ==
  /\ pusher[c] = "get"
  /\ NothingToPop
  /\ pusher' = [pusher EXCEPT ![c] = "test"]
  /\ UNCHANGED <<uiVars, pointers, flags, objects, holding, from, callVars, history,
                 fault>>

(* queue_is_empty says no, and pop_data begins: a push that has set front   *)
(* and not yet rear is enough for that.                                     *)
PusherGet(c) ==
  /\ pusher[c] = "get"
  /\ rtmp_queue # Null
  /\ IF ~QueueUsable
     THEN Fault
     ELSE /\ \/ tags[rtmp_queue] # <<>>
             \/ \E t \in Pushing(rtmp_queue) : at[t] = "link"
          /\ pusher' = [pusher EXCEPT ![c] = "pop"]
          /\ from' = [from EXCEPT ![c] = rtmp_queue]
          /\ Meet(rtmp_queue, Popping(rtmp_queue) \ {c}, Pushing(rtmp_queue))
          /\ UNCHANGED <<uiVars, pointers, flags, objects, holding, callVars, pushed,
                         wire, refused, twice, disorder, starved, fault>>

(* Faulty variant: it takes the newest tag.                                 *)
PusherPop_Newest(c) ==
  LET q == from[c]
  IN  /\ pusher[c] = "pop"
      /\ queueState[q] = "live" /\ tags[q] # <<>>
      /\ pusher' = [pusher EXCEPT ![c] = "popped"]
      /\ holding' = [holding EXCEPT ![c] = tags[q][Len(tags[q])]]
      /\ Meet(q, Popping(q) \ {c}, Pushing(q))
      /\ tags' = [tags EXCEPT ![q] = SubSeq(@, 1, Len(@) - 1)]
      /\ UNCHANGED <<uiVars, pointers, flags, conn, queueState, from, callVars, pushed,
                     wire, refused, twice, disorder, starved, fault>>

PusherPop(c) ==
  LET q == from[c]
  IN  /\ pusher[c] = "pop"
      /\ queueState[q] = "live" /\ tags[q] # <<>>
      /\ pusher' = [pusher EXCEPT ![c] = "popped"]
      /\ holding' = [holding EXCEPT ![c] = Head(tags[q])]
      /\ Meet(q, Popping(q) \ {c}, Pushing(q))
      /\ \E left \in Left(q, Tail(tags[q])) : tags' = [tags EXCEPT ![q] = left]
      /\ UNCHANGED <<uiVars, pointers, flags, conn, queueState, from, callVars, pushed,
                     wire, refused, twice, disorder, starved, fault>>

(* The list is not what it was when the pop began: it gets nothing, or the  *)
(* node of a push that has set front and not yet rear.                      *)
PusherPopBroken(c) ==
  /\ pusher[c] = "pop"
  /\ MayBreak(from[c])
  /\ \/ Fault
     \/ /\ queueState[from[c]] = "live"
        /\ pusher' = [pusher EXCEPT ![c] = "test"]
        /\ UNCHANGED <<uiVars, pointers, flags, objects, holding, from, callVars,
                       history, fault>>
     \/ /\ queueState[from[c]] = "live"
        /\ pusher' = [pusher EXCEPT ![c] = "popped"]
        /\ \E t \in Pushing(from[c]) :
             /\ at[t] = "link"
             /\ at' = [at EXCEPT ![t] = "linked"]
             /\ holding' = [holding EXCEPT ![c] = next[t]]
             /\ pushed' = [pushed EXCEPT ![from[c]] = Append(@, next[t])]
        /\ UNCHANGED <<uiVars, pointers, flags, objects, from, next, on, nals, calls,
                       wire, refused, met, twice, disorder, starved, fault>>

PusherReturn(c) ==
  LET q == from[c]
  IN  /\ pusher[c] = "popped"
      /\ IF queueState[q] # "live"
         THEN Fault
         ELSE /\ pusher' = [pusher EXCEPT ![c] = "write"]
              /\ Meet(q, Popping(q) \ {c}, Pushing(q))
              /\ UNCHANGED <<uiVars, pointers, flags, objects, holding, from, callVars,
                             pushed, wire, refused, twice, disorder, starved, fault>>

(* RTMP_Write, its result ignored; a failing write marks the connection.    *)
PusherWrite(c) ==
  /\ pusher[c] = "write"
  /\ IF ~ConnUsable
     THEN Fault
     ELSE /\ pusher' = [pusher EXCEPT ![c] = "test"]
          /\ holding' = [holding EXCEPT ![c] = NoTag]
          /\ \/ /\ IsConnected
                /\ wire' = [wire EXCEPT ![rtmp] = Append(@, holding[c])]
                /\ UNCHANGED conn
             \/ /\ conn' = [conn EXCEPT ![rtmp] = "lost"]
                /\ UNCHANGED wire
          /\ UNCHANGED <<uiVars, pointers, flags, queueState, tags, from, callVars,
                         pushed, refused, met, twice, disorder, starved, fault>>

-----------------------------------------------------------------------------
(* An encode thread t that has a tag to push, and push_data(rtmp_queue, ..).*)

Headers == {"audioConfig", "videoConfig"}

(* Where the caller goes on: push_data's result does not matter to it.      *)
After(tag) == CASE tag \in Headers    -> "mark"
                [] tag = "audioRaw"   -> "out"
                [] OTHER              -> "next"

GoOn(t) ==
  /\ at' = [at EXCEPT ![t] = After(next[t])]
  /\ next' = IF next[t] \in Headers THEN next ELSE [next EXCEPT ![t] = NoTag]
  /\ on' = [on EXCEPT ![t] = Null]

(* malloc for the tag fails, and its bytes are written all the same.        *)
PushStarved(t) ==
  /\ at[t] = "push"
  /\ starved' = TRUE /\ fault' = TRUE
  /\ UNCHANGED <<uiVars, pointers, flags, objects, pusherVars, callVars, tagHistory,
                 disorder>>

(* malloc for the node fails: push_data returns -1.                         *)
PushRefused(t) ==
  /\ at[t] = "push"
  /\ GoOn(t)
  /\ refused' = [c \in Opens |-> IF c = rtmp_queue THEN refused[c] \cup {next[t]}
                                 ELSE refused[c]]
  /\ UNCHANGED <<uiVars, pointers, flags, objects, pusherVars, nals, calls, pushed, wire,
                 met, twice, disorder, starved, fault>>

PushBegin(t) ==
  /\ at[t] = "push"
  /\ IF ~QueueUsable
     THEN Fault
     ELSE /\ at' = [at EXCEPT ![t] = "link"]
          /\ on' = [on EXCEPT ![t] = rtmp_queue]
          /\ Meet(rtmp_queue, Pushing(rtmp_queue) \ {t}, Popping(rtmp_queue))
          /\ UNCHANGED <<uiVars, pointers, flags, objects, pusherVars, next, nals, calls,
                         pushed, wire, refused, twice, disorder, starved, fault>>

PushLink(t) ==
  LET q == on[t]
  IN  /\ at[t] = "link"
      /\ queueState[q] = "live"
      /\ at' = [at EXCEPT ![t] = "linked"]
      /\ pushed' = [pushed EXCEPT ![q] = Append(@, next[t])]
      /\ Meet(q, Pushing(q) \ {t}, Popping(q))
      /\ \E left \in Left(q, Append(tags[q], next[t])) : tags' = [tags EXCEPT ![q] = left]
      /\ UNCHANGED <<uiVars, pointers, flags, conn, queueState, pusherVars, next, on,
                     nals, calls, wire, refused, twice, disorder, starved, fault>>

PushReturn(t) ==
  LET q == on[t]
  IN  /\ at[t] = "linked"
      /\ queueState[q] = "live"
      /\ GoOn(t)
      /\ Meet(q, Pushing(q) \ {t}, Popping(q))
      /\ UNCHANGED <<uiVars, pointers, flags, objects, pusherVars, nals, calls, pushed,
                     wire, refused, twice, disorder, starved, fault>>

PushBroken(t) ==
  /\ at[t] \in {"link", "linked"}
  /\ MayBreak(on[t])
  /\ Fault

(* The flag of the header, which the pushes of other threads go by.         *)
(* Faulty variant: the video flag is never set.                             *)
Mark_Forgotten(t) ==
  /\ at[t] = "mark"
  /\ next' = [next EXCEPT ![t] = NoTag]
  /\ at' = [at EXCEPT ![t] = IF next[t] = "audioConfig" THEN "out" ELSE "next"]
  /\ audio_config_ok' = (audio_config_ok \/ next[t] = "audioConfig")
  /\ UNCHANGED <<uiVars, pointers, rtmp_state, video_config_ok, objects, pusherVars, on,
                 nals, calls, history, fault>>

Mark(t) ==
  /\ at[t] = "mark"
  /\ next' = [next EXCEPT ![t] = NoTag]
  /\ \/ /\ next[t] = "audioConfig"
        /\ at' = [at EXCEPT ![t] = "out"]
        /\ audio_config_ok' = TRUE
        /\ UNCHANGED video_config_ok
     \/ /\ next[t] = "videoConfig"
        /\ at' = [at EXCEPT ![t] = "next"]
        /\ video_config_ok' = TRUE
        /\ UNCHANGED audio_config_ok
  /\ UNCHANGED <<uiVars, pointers, rtmp_state, objects, pusherVars, on, nals, calls,
                 history, fault>>

Push(t) == PushStarved(t) \/ PushRefused(t) \/ PushBegin(t) \/ PushLink(t)
           \/ PushReturn(t) \/ PushBroken(t) \/ Mark(t)

(* t goes on to push a tag; a header that another thread is about to push,  *)
(* or has pushed and not yet marked, will be there twice.                   *)
Prepare(t, tag) ==
  /\ at' = [at EXCEPT ![t] = "push"]
  /\ next' = [next EXCEPT ![t] = tag]
  /\ twice' = [c \in Opens |->
                 IF c = rtmp_queue /\ tag \in Headers /\ \E u \in Callers \ {t} : next[u] = tag
                 THEN twice[c] \cup {tag} ELSE twice[c]]

-----------------------------------------------------------------------------
(* The encoders exist once the first open has returned; their threads may   *)
(* still call after the button was pressed again, the threads of two        *)
(* recordings at once.                                                      *)
EncodersRunning == opens > 0 /\ (opens = 1 /\ recording => ui = "idle")

(* push_audio: rtmp_is_connected, then rtmp_sender_write_audio_frame.       *)
AudioCall(t) ==
  /\ at[t] = "out" /\ EncodersRunning
  /\ calls < MaxCalls
  /\ fault' = (rtmp # Null /\ ~ConnUsable)
  /\ at' = [at EXCEPT ![t] = IF rtmp # Null /\ IsConnected THEN "inside" ELSE "out"]
  /\ calls' = calls + 1
  /\ Disorder(ui # "idle")
  /\ UNCHANGED <<uiVars, pointers, flags, objects, pusherVars, next, on, nals,
                 tagHistory, starved>>

AudioTest(t) ==
  /\ at[t] = "inside"
  /\ IF ~ConnUsable
     THEN Fault
     ELSE /\ at' = [at EXCEPT ![t] = IF IsConnected THEN "choose" ELSE "out"]
          /\ UNCHANGED <<uiVars, pointers, flags, objects, pusherVars, next, on, nals,
                         calls, history, fault>>

AudioChoose(t) ==
  /\ at[t] = "choose"
  /\ Prepare(t, IF audio_config_ok THEN "audioRaw" ELSE "audioConfig")
  /\ UNCHANGED <<uiVars, pointers, flags, objects, pusherVars, on, nals, calls, pushed,
                 wire, refused, met, disorder, starved, fault>>

-----------------------------------------------------------------------------
(* push_video: rtmp_sender_write_video_frame on one packet.                 *)

VideoCall(t) ==
  /\ at[t] = "out" /\ EncodersRunning
  /\ calls < MaxCalls
  /\ \E p \in Packets : nals' = [nals EXCEPT ![t] = p]
  /\ at' = [at EXCEPT ![t] = "next"]
  /\ calls' = calls + 1
  /\ Disorder(ui # "idle" \/ ~QueueUsable)
  /\ UNCHANGED <<uiVars, pointers, flags, objects, pusherVars, next, on, tagHistory,
                 starved, fault>>

VideoReturn(t) ==
  /\ at[t] = "next" /\ nals[t] = <<>>
  /\ at' = [at EXCEPT ![t] = "out"]
  /\ UNCHANGED <<uiVars, pointers, flags, objects, pusherVars, next, on, nals, calls,
                 history, fault>>

(* An SPS that is passed over, because the header is set, or NALs that no   *)
(* tag is made of.                                                          *)
VideoSkip(t) ==
  /\ at[t] = "next" /\ nals[t] # <<>>
  /\ \/ Head(nals[t]) \in {"PPS", "other"}
     \/ Head(nals[t]) = "SPS" /\ video_config_ok
  /\ nals' = [nals EXCEPT ![t] = Tail(@)]
  /\ UNCHANGED <<uiVars, pointers, flags, objects, pusherVars, at, next, on, calls,
                 history, fault>>

(* An SPS takes the NAL behind it for the PPS; without one the call returns.*)
VideoSps(t) ==
  /\ at[t] = "next" /\ nals[t] # <<>> /\ Head(nals[t]) = "SPS"
  /\ ~video_config_ok
  /\ IF Len(nals[t]) = 1
     THEN /\ at' = [at EXCEPT ![t] = "out"]
          /\ nals' = [nals EXCEPT ![t] = <<>>]
          /\ UNCHANGED <<next, twice>>
     ELSE /\ Prepare(t, "videoConfig")
          /\ nals' = [nals EXCEPT ![t] = SubSeq(@, 3, Len(@))]
  /\ UNCHANGED <<uiVars, pointers, flags, objects, pusherVars, on, calls, pushed, wire,
                 refused, met, disorder, starved, fault>>

Slice == [IDR |-> "keyFrame", P |-> "interFrame"]

VideoSlice(t) ==
  /\ at[t] = "next" /\ nals[t] # <<>> /\ Head(nals[t]) \in DOMAIN Slice
  /\ Prepare(t, Slice[Head(nals[t])])
  /\ nals' = [nals EXCEPT ![t] = Tail(@)]
  /\ UNCHANGED <<uiVars, pointers, flags, objects, pusherVars, on, calls, pushed, wire,
                 refused, met, disorder, starved, fault>>

-----------------------------------------------------------------------------
UI == OpenQueue \/ OpenAlloc \/ OpenConnect \/ OpenReset \/ OpenCreateThread
      \/ OpenPushing \/ CloseState \/ CloseFree \/ CloseClear \/ CloseFreeQueue
      \/ CloseFreeQueueBroken

Pusher(c) == PusherTest(c) \/ PusherEmpty(c) \/ PusherGet(c) \/ PusherPop(c)
             \/ PusherPopBroken(c) \/ PusherReturn(c) \/ PusherWrite(c)

Audio(t) == AudioCall(t) \/ AudioTest(t) \/ AudioChoose(t) \/ Push(t)

Video(t) == VideoCall(t) \/ VideoReturn(t) \/ VideoSps(t) \/ VideoSlice(t)
            \/ VideoSkip(t) \/ Push(t)

Next ==
  /\ ~fault
  /\ \/ UI
     \/ \E t \in AudioThreads : Audio(t)
     \/ \E t \in VideoThreads : Video(t)
     \/ \E c \in Opens : Pusher(c)

Spec == Init /\ [][Next]_vars

FairSpec ==
  /\ Spec
  /\ \A c \in Opens : WF_vars(~fault /\ Pusher(c))
  /\ WF_vars(~fault /\ ui # "idle" /\ UI)

-----------------------------------------------------------------------------
UIType ==
  /\ ui \in {"idle", "alloc", "connect", "reset", "create", "pushing", "free",
             "clear", "freeQueue"}
  /\ recording \in BOOLEAN /\ opens \in 0..MaxOpens

PointerType ==
  /\ rtmp \in 0..opens /\ rtmp_queue \in 0..opens
  /\ rtmp_state \in {"STOPPED", "PUSHING"}
  /\ video_config_ok \in BOOLEAN /\ audio_config_ok \in BOOLEAN

ObjectType ==
  /\ conn \in [Opens -> {"none", "alloc", "live", "lost", "freed"}]
  /\ queueState \in [Opens -> {"none", "live", "freed"}]

TagType ==
  /\ tags \in [Opens -> Seq(Kinds)]
  /\ pushed \in [Opens -> Seq(Kinds)]
  /\ wire \in [Opens -> Seq(Kinds)]

PusherType ==
  /\ pusher \in [Opens -> {"none", "test", "get", "pop", "popped", "write", "tooSoon",
                           "done"}]
  /\ holding \in [Opens -> Kinds \cup {NoTag}]
  /\ from \in [Opens -> Opens \cup {Null}]

CallType ==
  /\ at \in [Callers -> {"out", "inside", "choose", "next", "push", "link", "linked",
                         "mark"}]
  /\ next \in [Callers -> Kinds \cup {NoTag}]
  /\ on \in [Callers -> Opens \cup {Null}]
  /\ nals \in [VideoThreads -> Seq(NalTypes)]
  /\ calls \in 0..MaxCalls

HistoryType ==
  /\ refused \in [Opens -> SUBSET Kinds] /\ twice \in [Opens -> SUBSET Headers]
  /\ met \in SUBSET Opens
  /\ disorder \in BOOLEAN /\ starved \in BOOLEAN /\ fault \in BOOLEAN

(* Every variable has its type; a tag on a queue or on the wire is one of   *)
(* the five the code builds.                                                *)
TypeOK == /\ UIType /\ PointerType /\ ObjectType /\ TagType /\ PusherType
          /\ CallType /\ HistoryType

(* No freed or null object is touched with an orderly caller, memory for    *)
(* the tags and queue calls that do not meet: the pointer that close leaves *)
(* behind, the order of its frees and the tests at the entry of the calls   *)
(* are enough between sessions.                                             *)
FaultNeedsDisorder == fault => disorder \/ starved \/ met # {}

(* With an orderly caller every connection gets the AudioSpecificConfig     *)
(* before any raw audio, and a reopened one gets it again.  The flag is set *)
(* whatever push_data returned (rtmp_core.c:429): a header it had no memory *)
(* for is not sent later, and raw audio goes without.                       *)
AudioConfigFirst ==
  ~disorder => \A c \in Opens :
    LET places(k) == {i \in DOMAIN pushed[c] : pushed[c][i] = k} IN
      "audioConfig" \in refused[c] \/
      \A i \in places("audioRaw") : \E j \in places("audioConfig") : j < i

(* rtmp_core.c:584, "only send video seq set once": with an orderly caller  *)
(* a connection gets each header once at most, whatever parameter sets the  *)
(* encoder repeats, unless two threads tested its flag before either set it.*)
ConfigOnce ==
  ~disorder => \A c \in Opens : \A k \in Headers \ twice[c] :
    \A i, j \in DOMAIN pushed[c] : pushed[c][i] = k /\ pushed[c][j] = k => i = j

(* The flags of the two headers are global, the connections are not: each   *)
(* connection still gets its own headers, in time and once.                 *)
ConfigPerConnection == AudioConfigFirst /\ ConfigOnce

(* With an orderly caller the tags on a connection are the ones queued for  *)
(* it, in the order they were queued, without a gap, if no two calls met on *)
(* its queue where the list is short or both push.                          *)
WireInOrder ==
  ~disorder => \A c \in Opens \ met :
    /\ Len(wire[c]) <= Len(pushed[c])
    /\ wire[c] = SubSeq(pushed[c], 1, Len(wire[c]))

(* A tag that is queued is taken from the queue, however long the queue was *)
(* empty before, as long as the connection is up and the user does not      *)
(* close: unless queue calls met, or the pushing thread was gone before     *)
(* open had set rtmp_state (rtmp_core.c:260), when nothing drains the queue.*)
TagsDrain ==
  \A c \in Opens :
    tags[c] # <<>> /\ rtmp_queue = c
      ~> \/ tags[c] = <<>> \/ c \in met \/ pusher[c] = "tooSoon"
         \/ ~recording \/ conn[c] # "live" \/ disorder \/ fault

=============================================================================

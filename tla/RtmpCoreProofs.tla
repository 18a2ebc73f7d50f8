--------------------------- MODULE RtmpCoreProofs ----------------------------
(***************************************************************************)
(* RtmpCore for every number of sessions and of calls, and every set of    *)
(* packets: the types of its variables; then, with an orderly caller and   *)
(* memory for the tags, that no freed or null object is touched unless     *)
(* calls met on a queue; that a connection carries the tags pushed for it, *)
(* in order and without a gap, if none met on its own; and that it gets    *)
(* its configuration once, unless two threads pushed it, and before any    *)
(* raw audio, unless push_data had no memory for it.                       *)
(***************************************************************************)
EXTENDS RtmpCore, SequenceTheorems, TLAPS

(* A tag about to be queued or written is a tag; a call inside push_data or *)
(* pop_data has a queue.                                                    *)
NextTag == \A t \in Callers :
  /\ at[t] \in {"push", "link", "linked", "mark"} => next[t] # NoTag
  /\ at[t] \in {"link", "linked"} => on[t] # Null

HeldTag == \A c \in Opens :
  /\ pusher[c] \in {"popped", "write"} => holding[c] # NoTag
  /\ pusher[c] \in {"pop", "popped"} => from[c] # Null

Tagged == NextTag /\ HeldTag

TInv == TypeOK /\ Tagged

(* What the global pointers name at each place of open and close, as long  *)
(* as the caller is orderly.                                               *)
Up(c) == c # Null /\ conn[c] \in {"live", "lost"}

Pointers ==
  /\ rtmp \in {Null, opens} /\ rtmp_queue = opens
  /\ ui = "idle" /\ ~recording => rtmp = Null /\ ~QueueUsable
  /\ ui = "idle" /\ recording => QueueUsable /\ (rtmp = Null \/ Up(rtmp))
  /\ ui = "alloc" => recording /\ QueueUsable /\ rtmp = Null
  /\ ui = "connect" => recording /\ QueueUsable /\ rtmp # Null /\ conn[rtmp] = "alloc"
  /\ ui \in {"reset", "create", "pushing"} => recording /\ QueueUsable /\ Up(rtmp)
  /\ ui = "free" => ~recording /\ QueueUsable /\ Up(rtmp)
  /\ ui = "clear" => ~recording /\ QueueUsable
  /\ ui = "freeQueue" => ~recording /\ QueueUsable /\ rtmp = Null

(* Who may be at work, and on what.                                        *)
Users ==
  /\ \A c \in Opens : pusher[c] \notin {"none", "tooSoon", "done"} =>
       c = opens /\ Up(rtmp) /\ ui \in {"pushing", "idle", "free"}
  /\ \A c \in Opens : pusher[c] \in {"pop", "popped"} => from[c] = rtmp_queue
  /\ \A t \in Callers : at[t] # "out" =>
       QueueUsable /\ ui \in {"idle", "free", "freeQueue"}
  /\ \A t \in AudioThreads : at[t] # "out" => Up(rtmp) /\ ui \in {"idle", "free"}
  /\ \A t \in Callers : at[t] \in {"link", "linked"} => on[t] = rtmp_queue

Ordered == Pointers /\ Users

Excused == starved \/ met # {}

OInv == TInv /\ (~disorder => Ordered /\ (fault => Excused))

USE BoundAssumption, PacketAssumption DEF Opens, Null

-----------------------------------------------------------------------------
(* Types.                                                                  *)

LEMMA InitTypes == Init => TInv
<1> SUFFICES ASSUME Init PROVE TInv
  OBVIOUS
<1>0. /\ ui = "idle" /\ recording = FALSE /\ opens = 0
      /\ rtmp = 0 /\ rtmp_queue = 0 /\ rtmp_state = "STOPPED"
      /\ video_config_ok = FALSE /\ audio_config_ok = FALSE
  BY DEF Init
<1>1. UIType
  <2>1. ui = "idle" /\ opens \in 0..MaxOpens
    BY <1>0
  <2>2. recording \in BOOLEAN
    BY <1>0, Zenon
  <2>3. QED
    BY <2>1, <2>2 DEF UIType
<1>2. PointerType
  <2>1. rtmp \in 0..opens /\ rtmp_queue \in 0..opens
    BY <1>0
  <2>2. video_config_ok \in BOOLEAN /\ audio_config_ok \in BOOLEAN
    BY <1>0, Zenon
  <2>3. QED
    BY <1>0, <2>1, <2>2 DEF PointerType
<1>3. ObjectType /\ PusherType /\ HistoryType
  BY DEF Init, ObjectType, PusherType, HistoryType, NoTag, Kinds
<1>4. TagType
  BY DEF Init, TagType
<1>5. CallType
  BY DEF Init, CallType, NoTag
<1>6. Tagged
  BY DEF Init, Tagged, HeldTag, NextTag
<1>7. QED
  BY <1>1, <1>2, <1>3, <1>4, <1>5, <1>6 DEF TInv, TypeOK

(* Undefined behaviour changes no type, and neither does a queued tag.     *)
LEMMA FaultTypes == TInv /\ Fault => TInv'
<1> SUFFICES ASSUME TInv, Fault PROVE TInv'
  OBVIOUS
<1> USE DEF TInv, TypeOK, Tagged, Fault, uiVars, pointers, flags, objects,
        pusherVars, callVars, history, tagHistory
<1>1. UIType' /\ PointerType' /\ ObjectType' /\ HistoryType'
  BY DEF UIType, PointerType, ObjectType, HistoryType
<1>2. TagType' /\ PusherType' /\ CallType'
  BY DEF TagType, PusherType, CallType
<1>3. NextTag' /\ HeldTag'
  BY DEF NextTag, HeldTag
<1>4. QED
  BY <1>1, <1>2, <1>3

LEMMA QueueTypes ==
  ASSUME TInv, QueueUsable
  PROVE  /\ rtmp_queue \in Opens
         /\ tags[rtmp_queue] \in Seq(Kinds) /\ pushed[rtmp_queue] \in Seq(Kinds)
<1>1. rtmp_queue \in Opens
  BY DEF TInv, TypeOK, UIType, PointerType, QueueUsable
<1>2. QED
  BY <1>1 DEF TInv, TypeOK, TagType

(* A queue of a call, and what may be left of one.                         *)
LEMMA LeftTypes ==
  ASSUME TInv, NEW q \in Opens, NEW full \in Seq(Kinds), NEW left, left \in Left(q, full)
  PROVE  left \in Seq(Kinds)
<1>1. tags[q] \in Seq(Kinds) /\ <<>> \in Seq(Kinds)
  BY DEF TInv, TypeOK, TagType
<1>2. QED
  BY <1>1 DEF Left

LEMMA MeetTypes ==
  ASSUME TInv, NEW q \in Opens, NEW same, NEW other, Meet(q, same, other)
  PROVE  met' \in SUBSET Opens /\ met \subseteq met'
BY DEF Meet, TInv, TypeOK, HistoryType

LEMMA PushingTypes ==
  ASSUME TInv, NEW t \in Callers, at[t] \in {"link", "linked"}
  PROVE  /\ on[t] \in Opens /\ next[t] \in Kinds
         /\ tags[on[t]] \in Seq(Kinds) /\ pushed[on[t]] \in Seq(Kinds)
<1>1. on[t] \in Opens /\ next[t] \in Kinds
  BY DEF TInv, TypeOK, CallType, Tagged, NextTag
<1>2. QED
  BY <1>1 DEF TInv, TypeOK, TagType

LEMMA PoppingTypes ==
  ASSUME TInv, NEW c \in Opens, pusher[c] \in {"pop", "popped"}
  PROVE  from[c] \in Opens /\ tags[from[c]] \in Seq(Kinds)
<1>1. from[c] \in Opens
  BY DEF TInv, TypeOK, PusherType, Tagged, HeldTag
<1>2. QED
  BY <1>1 DEF TInv, TypeOK, TagType

(* A step of open and close keeps the types.                               *)
LEMMA UITypes ==
  ASSUME TInv, UI
  PROVE  TInv'
<1> USE DEF TInv, Tagged
<1>1. CASE OpenQueue
  <2>1. UIType'
    BY <1>1 DEF TypeOK, UIType, OpenQueue, UiGo, Disorder, uiVars, pointers, flags, objects,
       pusherVars, callVars, history, tagHistory
  <2>2. PointerType'
    BY <1>1 DEF TypeOK, PointerType, UIType, OpenQueue, UiGo, Disorder, uiVars, pointers,
       flags, objects, pusherVars, callVars, history, tagHistory
  <2>3. ObjectType'
    BY <1>1 DEF TypeOK, ObjectType, UIType, PointerType, OpenQueue, UiGo, Disorder, uiVars,
       pointers, flags, objects, pusherVars, callVars, history, tagHistory
  <2>4. HistoryType'
    BY <1>1 DEF TypeOK, HistoryType, UIType, OpenQueue, UiGo, Disorder, uiVars, pointers,
       flags, objects, pusherVars, callVars, history, tagHistory
  <2>5. TagType' /\ PusherType' /\ CallType' /\ HeldTag' /\ NextTag'
    BY <1>1 DEF TypeOK, TagType, PusherType, CallType, HeldTag, NextTag, OpenQueue, UiGo,
       Disorder, uiVars, pointers, flags, objects, pusherVars, callVars, history, tagHistory
  <2>6. QED
    BY <2>1, <2>2, <2>3, <2>4, <2>5 DEF TInv, TypeOK, Tagged
<1>2. CASE OpenAlloc
  <2>1. UIType'
    BY <1>2 DEF TypeOK, UIType, OpenAlloc, UiGo, uiVars, pointers, flags, objects,
       pusherVars, callVars, history, tagHistory
  <2>2. PointerType'
    BY <1>2 DEF TypeOK, PointerType, UIType, OpenAlloc, UiGo, uiVars, pointers, flags,
       objects, pusherVars, callVars, history, tagHistory
  <2>3. ObjectType'
    BY <1>2 DEF TypeOK, ObjectType, UIType, PointerType, OpenAlloc, UiGo, uiVars, pointers,
       flags, objects, pusherVars, callVars, history, tagHistory
  <2>4. TagType' /\ PusherType' /\ CallType' /\ HistoryType' /\
         HeldTag' /\ NextTag'
    BY <1>2 DEF TypeOK, TagType, PusherType, CallType, HistoryType, HeldTag, NextTag,
       OpenAlloc, UiGo, uiVars, pointers, flags, objects, pusherVars, callVars, history,
       tagHistory
  <2>5. QED
    BY <2>1, <2>2, <2>3, <2>4 DEF TInv, TypeOK, Tagged
<1>3. CASE OpenConnect
  <2>1. UIType'
    BY <1>3 DEF TypeOK, UIType, OpenConnect, UiGo, Disorder, uiVars, pointers, flags,
       objects, pusherVars, callVars, history, tagHistory
  <2>2. ObjectType'
    BY <1>3 DEF TypeOK, ObjectType, UIType, PointerType, OpenConnect, UiGo, Disorder,
       uiVars, pointers, flags, objects, pusherVars, callVars, history, tagHistory
  <2>3. HistoryType'
    BY <1>3 DEF TypeOK, HistoryType, UIType, OpenConnect, UiGo, Disorder, uiVars, pointers,
       flags, objects, pusherVars, callVars, history, tagHistory
  <2>4. PointerType' /\ TagType' /\ PusherType' /\ CallType' /\
         HeldTag' /\ NextTag'
    BY <1>3 DEF TypeOK, PointerType, TagType, PusherType, CallType, HeldTag, NextTag,
       OpenConnect, UiGo, Disorder, uiVars, pointers, flags, objects, pusherVars, callVars,
       history, tagHistory
  <2>5. QED
    BY <2>1, <2>2, <2>3, <2>4 DEF TInv, TypeOK, Tagged
<1>4. CASE OpenReset
  <2>1. UIType'
    BY <1>4 DEF TypeOK, UIType, OpenReset, UiGo, uiVars, pointers, flags, objects,
       pusherVars, callVars, history, tagHistory
  <2>2. PointerType'
    BY <1>4 DEF TypeOK, PointerType, UIType, OpenReset, UiGo, uiVars, pointers, flags,
       objects, pusherVars, callVars, history, tagHistory
  <2>3. ObjectType'
    BY <1>4 DEF TypeOK, ObjectType, UIType, PointerType, OpenReset, UiGo, uiVars, pointers,
       flags, objects, pusherVars, callVars, history, tagHistory
  <2>4. TagType' /\ PusherType' /\ CallType' /\ HistoryType' /\
         HeldTag' /\ NextTag'
    BY <1>4 DEF TypeOK, TagType, PusherType, CallType, HistoryType, HeldTag, NextTag,
       OpenReset, UiGo, uiVars, pointers, flags, objects, pusherVars, callVars, history,
       tagHistory
  <2>5. QED
    BY <2>1, <2>2, <2>3, <2>4 DEF TInv, TypeOK, Tagged
<1>5. CASE OpenCreateThread
  <2>1. UIType'
    BY <1>5 DEF TypeOK, UIType, OpenCreateThread, UiGo, uiVars, pointers, flags, objects,
       pusherVars, callVars, history, tagHistory
  <2>2. PusherType' /\ HeldTag'
    BY <1>5 DEF TypeOK, PusherType, UIType, HeldTag, Kinds, NoTag, PointerType,
       OpenCreateThread, UiGo, uiVars, pointers, flags, objects, pusherVars, callVars, history,
       tagHistory
  <2>3. PointerType' /\ ObjectType' /\ TagType' /\ CallType' /\
         HistoryType' /\ NextTag'
    BY <1>5 DEF TypeOK, PointerType, ObjectType, TagType, CallType, HistoryType, NextTag,
       OpenCreateThread, UiGo, uiVars, pointers, flags, objects, pusherVars, callVars, history,
       tagHistory
  <2>4. QED
    BY <2>1, <2>2, <2>3 DEF TInv, TypeOK, Tagged
<1>6. CASE OpenPushing
  <2>1. UIType'
    BY <1>6 DEF TypeOK, UIType, OpenPushing, UiGo, uiVars, pointers, flags, objects,
       pusherVars, callVars, history, tagHistory
  <2>2. PointerType'
    BY <1>6 DEF TypeOK, PointerType, UIType, OpenPushing, UiGo, uiVars, pointers, flags,
       objects, pusherVars, callVars, history, tagHistory
  <2>3. ObjectType' /\ TagType' /\ PusherType' /\ CallType' /\
         HistoryType' /\ HeldTag' /\ NextTag'
    BY <1>6 DEF TypeOK, ObjectType, TagType, PusherType, CallType, HistoryType, HeldTag,
       NextTag, OpenPushing, UiGo, uiVars, pointers, flags, objects, pusherVars, callVars,
       history, tagHistory
  <2>4. QED
    BY <2>1, <2>2, <2>3 DEF TInv, TypeOK, Tagged
<1>7. CASE CloseState
  <2>1. UIType'
    BY <1>7 DEF TypeOK, UIType, CloseState, UiGo, uiVars, pointers, flags, objects,
       pusherVars, callVars, history, tagHistory
  <2>2. PointerType'
    BY <1>7 DEF TypeOK, PointerType, UIType, CloseState, UiGo, uiVars, pointers, flags,
       objects, pusherVars, callVars, history, tagHistory
  <2>3. ObjectType' /\ TagType' /\ PusherType' /\ CallType' /\
         HistoryType' /\ HeldTag' /\ NextTag'
    BY <1>7 DEF TypeOK, ObjectType, TagType, PusherType, CallType, HistoryType, HeldTag,
       NextTag, CloseState, UiGo, uiVars, pointers, flags, objects, pusherVars, callVars,
       history, tagHistory
  <2>4. QED
    BY <2>1, <2>2, <2>3 DEF TInv, TypeOK, Tagged
<1>8. CASE CloseFree
  <2>1. UIType'
    BY <1>8 DEF TypeOK, UIType, CloseFree, UiGo, Disorder, Fault, ConnUsable, uiVars,
       pointers, flags, objects, pusherVars, callVars, history, tagHistory
  <2>2. ObjectType'
    BY <1>8 DEF TypeOK, ObjectType, UIType, PointerType, CloseFree, UiGo, Disorder, Fault,
       ConnUsable, uiVars, pointers, flags, objects, pusherVars, callVars, history, tagHistory
  <2>3. HistoryType'
    BY <1>8 DEF TypeOK, HistoryType, UIType, CloseFree, UiGo, Disorder, Fault, ConnUsable,
       uiVars, pointers, flags, objects, pusherVars, callVars, history, tagHistory
  <2>4. PointerType' /\ TagType' /\ PusherType' /\ CallType' /\
         HeldTag' /\ NextTag'
    BY <1>8 DEF TypeOK, PointerType, TagType, PusherType, CallType, HeldTag, NextTag,
       CloseFree, UiGo, Disorder, Fault, ConnUsable, uiVars, pointers, flags, objects,
       pusherVars, callVars, history, tagHistory
  <2>5. QED
    BY <2>1, <2>2, <2>3, <2>4 DEF TInv, TypeOK, Tagged
<1>9. CASE CloseClear
  <2>1. UIType'
    BY <1>9 DEF TypeOK, UIType, CloseClear, UiGo, uiVars, pointers, flags, objects,
       pusherVars, callVars, history, tagHistory
  <2>2. PointerType'
    BY <1>9 DEF TypeOK, PointerType, UIType, CloseClear, UiGo, uiVars, pointers, flags,
       objects, pusherVars, callVars, history, tagHistory
  <2>3. ObjectType' /\ TagType' /\ PusherType' /\ CallType' /\
         HistoryType' /\ HeldTag' /\ NextTag'
    BY <1>9 DEF TypeOK, ObjectType, TagType, PusherType, CallType, HistoryType, HeldTag,
       NextTag, CloseClear, UiGo, uiVars, pointers, flags, objects, pusherVars, callVars,
       history, tagHistory
  <2>4. QED
    BY <2>1, <2>2, <2>3 DEF TInv, TypeOK, Tagged
<1>10. CASE CloseFreeQueue
  <2>1. CASE ~QueueUsable
    BY <1>10, <2>1, FaultTypes DEF CloseFreeQueue
  <2>2. CASE QueueUsable
    <3>1. rtmp_queue \in Opens /\ <<>> \in Seq(Kinds)
      BY <2>2, QueueTypes
    <3>2. TagType' /\ ObjectType'
      BY <1>10, <2>2, <3>1 DEF TypeOK, TagType, ObjectType, CloseFreeQueue, tagHistory
    <3>3. UIType' /\ PointerType' /\ HistoryType'
      BY <1>10, <2>2 DEF TypeOK, UIType, PointerType, HistoryType, CloseFreeQueue, UiGo,
         Disorder, pointers, flags, tagHistory
    <3>4. PusherType' /\ HeldTag' /\ CallType' /\ NextTag'
      BY <1>10, <2>2 DEF TypeOK, PusherType, HeldTag, CallType, NextTag, CloseFreeQueue,
         pusherVars, callVars
    <3>5. QED
      BY <3>2, <3>3, <3>4 DEF TInv, TypeOK, Tagged
  <2>3. QED
    BY <2>1, <2>2
<1>11. CASE CloseFreeQueueBroken
  BY <1>11, FaultTypes DEF CloseFreeQueueBroken
<1>12. QED
  BY <1>1, <1>2, <1>3, <1>4, <1>5, <1>6, <1>7, <1>8, <1>9, <1>10, <1>11 DEF UI

(* A step of a thread that pushes a tag keeps the types.                   *)
LEMMA PushTypes ==
  ASSUME TInv, NEW t \in Callers, Push(t)
  PROVE  TInv'
<1> USE DEF TInv, Tagged
<1>1. CASE PushStarved(t)
  <2>1. HistoryType'
    BY <1>1 DEF TypeOK, HistoryType, PushStarved, uiVars, pointers, flags, objects,
       pusherVars, callVars, history, tagHistory
  <2>2. UIType' /\ PointerType' /\ ObjectType' /\ TagType'
    BY <1>1 DEF TypeOK, UIType, PointerType, ObjectType, TagType, PushStarved, uiVars,
       pointers, flags, objects, pusherVars, callVars, history, tagHistory
  <2>3. PusherType' /\ CallType' /\ NextTag' /\ HeldTag'
    BY <1>1 DEF TypeOK, PusherType, CallType, NextTag, HeldTag, PushStarved, uiVars,
       pointers, flags, objects, pusherVars, callVars, history, tagHistory
  <2>4. QED
    BY <2>1, <2>2, <2>3 DEF TInv, TypeOK, Tagged
<1>2. CASE PushRefused(t)
  <2>1. CallType'
    BY <1>2 DEF TypeOK, CallType, NoTag, Kinds, Headers, PushRefused, GoOn, After, uiVars,
       pointers, flags, objects, pusherVars, callVars, history, tagHistory
  <2>2. NextTag'
    BY <1>2 DEF TypeOK, NextTag, CallType, NoTag, Kinds, Headers, PushRefused, GoOn, After,
       uiVars, pointers, flags, objects, pusherVars, callVars, history, tagHistory
  <2>3. HistoryType'
    BY <1>2 DEF TypeOK, HistoryType, CallType, NextTag, NoTag, PushRefused, GoOn, After,
       uiVars, pointers, flags, objects, pusherVars, callVars, history, tagHistory
  <2>4. UIType' /\ PointerType' /\ ObjectType'
    BY <1>2 DEF TypeOK, UIType, PointerType, ObjectType, PushRefused, GoOn, After, uiVars,
       pointers, flags, objects, pusherVars, callVars, history, tagHistory
  <2>5. TagType' /\ PusherType' /\ HeldTag'
    BY <1>2 DEF TypeOK, TagType, PusherType, HeldTag, PushRefused, GoOn, After, uiVars,
       pointers, flags, objects, pusherVars, callVars, history, tagHistory
  <2>6. QED
    BY <2>1, <2>2, <2>3, <2>4, <2>5 DEF TInv, TypeOK, Tagged
<1>3. CASE PushBegin(t)
  <2>1. CASE ~QueueUsable
    BY <1>3, <2>1, FaultTypes DEF PushBegin
  <2>2. CASE QueueUsable
    <3>1. rtmp_queue \in Opens
      BY <2>2, QueueTypes
    <3>2. met' \in SUBSET Opens
      BY <1>3, <2>2, <3>1, MeetTypes DEF PushBegin
    <3>3. HistoryType'
      BY <1>3, <2>2, <3>2 DEF TypeOK, HistoryType, PushBegin
    <3>4. CallType' /\ NextTag'
      BY <1>3, <2>2, <3>1 DEF TypeOK, CallType, NextTag, PushBegin
    <3>5. UIType' /\ PointerType' /\ ObjectType'
      BY <1>3, <2>2 DEF TypeOK, UIType, PointerType, ObjectType, PushBegin, uiVars,
         pointers, flags, objects
    <3>6. PusherType' /\ HeldTag' /\ TagType'
      BY <1>3, <2>2 DEF TypeOK, PusherType, HeldTag, TagType, PushBegin, pusherVars, objects
    <3>7. QED
      BY <3>3, <3>4, <3>5, <3>6 DEF TInv, TypeOK, Tagged
  <2>3. QED
    BY <2>1, <2>2
<1>4. CASE PushLink(t)
  <2>1. /\ on[t] \in Opens /\ next[t] \in Kinds
        /\ tags[on[t]] \in Seq(Kinds) /\ pushed[on[t]] \in Seq(Kinds)
    BY <1>4, PushingTypes DEF PushLink
  <2>2. /\ Append(tags[on[t]], next[t]) \in Seq(Kinds)
        /\ Append(pushed[on[t]], next[t]) \in Seq(Kinds)
    BY <2>1
  <2>3. PICK left \in Left(on[t], Append(tags[on[t]], next[t])) :
          tags' = [tags EXCEPT ![on[t]] = left]
    BY <1>4 DEF PushLink
  <2>4. left \in Seq(Kinds)
    BY <2>1, <2>2, <2>3, LeftTypes
  <2>5. TagType'
    BY <1>4, <2>1, <2>2, <2>3, <2>4 DEF TypeOK, TagType, PushLink
  <2>6. met' \in SUBSET Opens
    BY <1>4, <2>1, MeetTypes DEF PushLink
  <2>7. HistoryType'
    BY <1>4, <2>6 DEF TypeOK, HistoryType, PushLink
  <2>8. CallType' /\ NextTag'
    BY <1>4 DEF TypeOK, CallType, NextTag, PushLink
  <2>9. UIType' /\ PointerType' /\ ObjectType'
    BY <1>4 DEF TypeOK, UIType, PointerType, ObjectType, PushLink, uiVars, pointers, flags
  <2>10. PusherType' /\ HeldTag'
    BY <1>4 DEF TypeOK, PusherType, HeldTag, PushLink, pusherVars
  <2>11. QED
    BY <2>5, <2>7, <2>8, <2>9, <2>10 DEF TInv, TypeOK, Tagged
<1>5. CASE PushReturn(t)
  <2>1. on[t] \in Opens /\ next[t] \in Kinds
    BY <1>5, PushingTypes DEF PushReturn
  <2>2. met' \in SUBSET Opens
    BY <1>5, <2>1, MeetTypes DEF PushReturn
  <2>3. HistoryType'
    BY <1>5, <2>2 DEF TypeOK, HistoryType, PushReturn
  <2>4. CallType' /\ NextTag'
    BY <1>5, <2>1 DEF TypeOK, CallType, NextTag, PushReturn, GoOn, After, Headers, Kinds,
       NoTag
  <2>5. UIType' /\ PointerType' /\ ObjectType'
    BY <1>5 DEF TypeOK, UIType, PointerType, ObjectType, PushReturn, uiVars, pointers,
       flags, objects
  <2>6. PusherType' /\ HeldTag' /\ TagType'
    BY <1>5 DEF TypeOK, PusherType, HeldTag, TagType, PushReturn, pusherVars, objects
  <2>7. QED
    BY <2>3, <2>4, <2>5, <2>6 DEF TInv, TypeOK, Tagged
<1>6. CASE PushBroken(t)
  BY <1>6, FaultTypes DEF PushBroken
<1>7. CASE Mark(t)
  <2>1. PointerType'
    BY <1>7 DEF TypeOK, PointerType, UIType, Mark, uiVars, pointers, flags, objects,
       pusherVars, callVars, history, tagHistory
  <2>2. CallType'
    BY <1>7 DEF TypeOK, CallType, NoTag, Mark, uiVars, pointers, flags, objects, pusherVars,
       callVars, history, tagHistory
  <2>3. NextTag'
    BY <1>7 DEF TypeOK, NextTag, CallType, Mark, uiVars, pointers, flags, objects,
       pusherVars, callVars, history, tagHistory
  <2>4. UIType' /\ ObjectType' /\ TagType'
    BY <1>7 DEF TypeOK, UIType, ObjectType, TagType, Mark, uiVars, pointers, flags, objects,
       pusherVars, callVars, history, tagHistory
  <2>5. PusherType' /\ HistoryType' /\ HeldTag'
    BY <1>7 DEF TypeOK, PusherType, HistoryType, HeldTag, Mark, uiVars, pointers, flags,
       objects, pusherVars, callVars, history, tagHistory
  <2>6. QED
    BY <2>1, <2>2, <2>3, <2>4, <2>5 DEF TInv, TypeOK, Tagged
<1>8. QED
  BY <1>1, <1>2, <1>3, <1>4, <1>5, <1>6, <1>7 DEF Push

(* A thread that is about to push a tag keeps the types.                   *)
LEMMA PrepareTypes ==
  ASSUME TInv, NEW t \in Callers, NEW tag \in Kinds, Prepare(t, tag),
         on' = on, calls' = calls, nals' \in [VideoThreads -> Seq(NalTypes)],
         UNCHANGED <<uiVars, pointers, flags, objects, pusherVars, pushed, wire, refused,
                     met, disorder, starved, fault>>
  PROVE  TInv'
<1> USE DEF TInv, Tagged, TypeOK
<1>1. CallType' /\ NextTag'
  BY DEF CallType, NextTag, Prepare, NoTag, Kinds
<1>2. HistoryType'
  BY DEF HistoryType, Prepare
<1>3. UIType' /\ PointerType' /\ ObjectType'
  BY DEF UIType, PointerType, ObjectType, uiVars, pointers, flags, objects
<1>4. PusherType' /\ HeldTag' /\ TagType'
  BY DEF PusherType, HeldTag, TagType, pusherVars, objects
<1>5. QED
  BY <1>1, <1>2, <1>3, <1>4

(* A step of push_audio keeps the types.                                   *)
LEMMA AudioTypes ==
  ASSUME TInv, NEW t \in AudioThreads, Audio(t)
  PROVE  TInv'
<1> USE DEF TInv, Tagged
<1>0. t \in Callers
  BY DEF Callers
<1>1. CASE AudioCall(t)
  <2>1. CallType'
    BY <1>1, <1>0 DEF TypeOK, CallType, AudioCall, Disorder, ConnUsable, IsConnected,
       uiVars, pointers, flags, objects, pusherVars, callVars, history, tagHistory
  <2>2. NextTag'
    BY <1>1, <1>0 DEF TypeOK, NextTag, CallType, AudioCall, Disorder, ConnUsable,
       IsConnected, uiVars, pointers, flags, objects, pusherVars, callVars, history, tagHistory
  <2>3. HistoryType'
    BY <1>1, <1>0 DEF TypeOK, HistoryType, AudioCall, Disorder, ConnUsable, IsConnected,
       uiVars, pointers, flags, objects, pusherVars, callVars, history, tagHistory
  <2>4. UIType' /\ PointerType' /\ ObjectType'
    BY <1>1 DEF TypeOK, UIType, PointerType, ObjectType, AudioCall, Disorder, ConnUsable,
       IsConnected, uiVars, pointers, flags, objects, pusherVars, callVars, history, tagHistory
  <2>5. TagType' /\ PusherType' /\ HeldTag'
    BY <1>1 DEF TypeOK, TagType, PusherType, HeldTag, AudioCall, Disorder, ConnUsable,
       IsConnected, uiVars, pointers, flags, objects, pusherVars, callVars, history, tagHistory
  <2>6. QED
    BY <2>1, <2>2, <2>3, <2>4, <2>5 DEF TInv, TypeOK, Tagged
<1>2. CASE AudioTest(t)
  <2>1. CallType'
    BY <1>2, <1>0 DEF TypeOK, CallType, AudioTest, Fault, ConnUsable, IsConnected, uiVars,
       pointers, flags, objects, pusherVars, callVars, history, tagHistory
  <2>2. NextTag'
    BY <1>2, <1>0 DEF TypeOK, NextTag, CallType, AudioTest, Fault, ConnUsable, IsConnected,
       uiVars, pointers, flags, objects, pusherVars, callVars, history, tagHistory
  <2>3. HistoryType'
    BY <1>2, <1>0 DEF TypeOK, HistoryType, AudioTest, Fault, ConnUsable, IsConnected,
       uiVars, pointers, flags, objects, pusherVars, callVars, history, tagHistory
  <2>4. UIType' /\ PointerType' /\ ObjectType'
    BY <1>2 DEF TypeOK, UIType, PointerType, ObjectType, AudioTest, Fault, ConnUsable,
       IsConnected, uiVars, pointers, flags, objects, pusherVars, callVars, history, tagHistory
  <2>5. TagType' /\ PusherType' /\ HeldTag'
    BY <1>2 DEF TypeOK, TagType, PusherType, HeldTag, AudioTest, Fault, ConnUsable,
       IsConnected, uiVars, pointers, flags, objects, pusherVars, callVars, history, tagHistory
  <2>6. QED
    BY <2>1, <2>2, <2>3, <2>4, <2>5 DEF TInv, TypeOK, Tagged
<1>3. CASE AudioChoose(t)
  <2>1. \E tag \in {"audioRaw", "audioConfig"} : Prepare(t, tag)
    BY <1>3 DEF AudioChoose
  <2>2. /\ nals' \in [VideoThreads -> Seq(NalTypes)] /\ on' = on /\ calls' = calls
        /\ UNCHANGED <<uiVars, pointers, flags, objects, pusherVars, pushed, wire, refused,
                       met, disorder, starved, fault>>
    BY <1>3 DEF AudioChoose, TypeOK, CallType
  <2>3. {"audioRaw", "audioConfig"} \subseteq Kinds
    BY DEF Kinds
  <2>4. QED
    BY <1>0, <2>1, <2>2, <2>3, PrepareTypes
<1>4. CASE Push(t)
  BY <1>0, <1>4, PushTypes
<1>5. QED
  BY <1>1, <1>2, <1>3, <1>4 DEF Audio

(* A step of push_video keeps the types.                                   *)
LEMMA VideoTypes ==
  ASSUME TInv, NEW t \in VideoThreads, Video(t)
  PROVE  TInv'
<1> USE DEF TInv, Tagged
<1>0. t \in Callers /\ nals[t] \in Seq(NalTypes)
  BY DEF Callers, TypeOK, CallType
<1>1. CASE VideoCall(t)
  <2>1. CallType'
    BY <1>1, <1>0 DEF TypeOK, CallType, VideoCall, Disorder, uiVars, pointers, flags,
       objects, pusherVars, callVars, history, tagHistory
  <2>2. NextTag'
    BY <1>1, <1>0 DEF TypeOK, NextTag, CallType, VideoCall, Disorder, uiVars, pointers,
       flags, objects, pusherVars, callVars, history, tagHistory
  <2>3. HistoryType'
    BY <1>1, <1>0 DEF TypeOK, HistoryType, VideoCall, Disorder, uiVars, pointers, flags,
       objects, pusherVars, callVars, history, tagHistory
  <2>4. UIType' /\ PointerType' /\ ObjectType'
    BY <1>1 DEF TypeOK, UIType, PointerType, ObjectType, VideoCall, Disorder, uiVars,
       pointers, flags, objects, pusherVars, callVars, history, tagHistory
  <2>5. TagType' /\ PusherType' /\ HeldTag'
    BY <1>1 DEF TypeOK, TagType, PusherType, HeldTag, VideoCall, Disorder, uiVars, pointers,
       flags, objects, pusherVars, callVars, history, tagHistory
  <2>6. QED
    BY <2>1, <2>2, <2>3, <2>4, <2>5 DEF TInv, TypeOK, Tagged
<1>2. CASE VideoReturn(t)
  <2>1. CallType'
    BY <1>2, <1>0 DEF TypeOK, CallType, VideoReturn, uiVars, pointers, flags, objects,
       pusherVars, callVars, history, tagHistory
  <2>2. NextTag'
    BY <1>2, <1>0 DEF TypeOK, NextTag, CallType, VideoReturn, uiVars, pointers, flags,
       objects, pusherVars, callVars, history, tagHistory
  <2>3. UIType' /\ PointerType' /\ ObjectType' /\ TagType'
    BY <1>2 DEF TypeOK, UIType, PointerType, ObjectType, TagType, VideoReturn, uiVars,
       pointers, flags, objects, pusherVars, callVars, history, tagHistory
  <2>4. PusherType' /\ HistoryType' /\ HeldTag'
    BY <1>2 DEF TypeOK, PusherType, HistoryType, HeldTag, VideoReturn, uiVars, pointers,
       flags, objects, pusherVars, callVars, history, tagHistory
  <2>5. QED
    BY <2>1, <2>2, <2>3, <2>4 DEF TInv, TypeOK, Tagged
<1>3. CASE VideoSps(t) /\ Len(nals[t]) = 1
  <2>1. /\ at' = [at EXCEPT ![t] = "out"] /\ nals' = [nals EXCEPT ![t] = <<>>]
        /\ UNCHANGED <<next, twice, uiVars, pointers, flags, objects, pusherVars, on, calls,
                       pushed, wire, refused, met, disorder, starved, fault>>
    BY <1>3 DEF VideoSps
  <2>2. CallType' /\ NextTag'
    BY <1>0, <2>1 DEF TypeOK, CallType, NextTag
  <2>3. UIType' /\ PointerType' /\ ObjectType' /\ HistoryType'
    BY <2>1 DEF TypeOK, UIType, PointerType, ObjectType, HistoryType, uiVars, pointers,
       flags, objects
  <2>4. PusherType' /\ HeldTag' /\ TagType'
    BY <2>1 DEF TypeOK, PusherType, HeldTag, TagType, pusherVars, objects
  <2>5. QED
    BY <2>2, <2>3, <2>4 DEF TInv, TypeOK, Tagged
<1>4. CASE VideoSps(t) /\ Len(nals[t]) # 1
  <2>1. /\ Prepare(t, "videoConfig")
        /\ nals' = [nals EXCEPT ![t] = SubSeq(nals[t], 3, Len(nals[t]))]
        /\ UNCHANGED <<uiVars, pointers, flags, objects, pusherVars, on, calls, pushed,
                       wire, refused, met, disorder, starved, fault>>
    BY <1>0, <1>4 DEF VideoSps, TypeOK, CallType
  <2>2. nals[t] # <<>>
    BY <1>4 DEF VideoSps
  <2>3. SubSeq(nals[t], 3, Len(nals[t])) \in Seq(NalTypes)
    BY <1>0, <2>2
  <2>4. nals' \in [VideoThreads -> Seq(NalTypes)]
    BY <2>1, <2>3 DEF TypeOK, CallType
  <2>5. "videoConfig" \in Kinds
    BY DEF Kinds
  <2>6. QED
    BY <1>0, <2>1, <2>4, <2>5, PrepareTypes
<1>5. CASE VideoSlice(t)
  <2>1. /\ Prepare(t, Slice[Head(nals[t])])
        /\ nals' = [nals EXCEPT ![t] = Tail(nals[t])] /\ nals[t] # <<>>
        /\ UNCHANGED <<uiVars, pointers, flags, objects, pusherVars, on, calls, pushed,
                       wire, refused, met, disorder, starved, fault>>
    BY <1>0, <1>5 DEF VideoSlice, TypeOK, CallType
  <2>2. Tail(nals[t]) \in Seq(NalTypes)
    BY <1>0, <2>1
  <2>3. nals' \in [VideoThreads -> Seq(NalTypes)]
    BY <2>1, <2>2 DEF TypeOK, CallType
  <2>4. Slice[Head(nals[t])] \in Kinds
    BY <1>5 DEF VideoSlice, Slice, Kinds
  <2>5. QED
    BY <1>0, <2>1, <2>3, <2>4, PrepareTypes
<1>6. CASE VideoSkip(t)
  <2>1. /\ nals' = [nals EXCEPT ![t] = Tail(nals[t])] /\ nals[t] # <<>>
        /\ UNCHANGED <<uiVars, pointers, flags, objects, pusherVars, at, next, on, calls,
                       history, fault>>
    BY <1>6 DEF VideoSkip, TypeOK, CallType
  <2>2. Tail(nals[t]) \in Seq(NalTypes)
    BY <1>0, <2>1
  <2>3. CallType' /\ NextTag'
    BY <2>1, <2>2 DEF TypeOK, CallType, NextTag
  <2>4. UIType' /\ PointerType' /\ ObjectType' /\ HistoryType'
    BY <2>1 DEF TypeOK, UIType, PointerType, ObjectType, HistoryType, uiVars, pointers,
       flags, objects, history, tagHistory
  <2>5. PusherType' /\ HeldTag' /\ TagType'
    BY <2>1 DEF TypeOK, PusherType, HeldTag, TagType, pusherVars, objects, history,
       tagHistory
  <2>6. QED
    BY <2>3, <2>4, <2>5 DEF TInv, TypeOK, Tagged
<1>7. CASE Push(t)
  BY <1>0, <1>7, PushTypes
<1>8. QED
  BY <1>1, <1>2, <1>3, <1>4, <1>5, <1>6, <1>7 DEF Video

(* A step of a pushing thread keeps the types.                             *)
LEMMA PusherTypes ==
  ASSUME TInv, NEW c \in Opens, Pusher(c)
  PROVE  TInv'
<1> USE DEF TInv, Tagged
<1>1. CASE PusherTest(c)
  <2>1. CASE Fault
    BY <2>1, FaultTypes
  <2>2. CASE ~Fault
    <3>1. PusherType' /\ HeldTag'
      <4>1. /\ pusher[c] = "test" /\ UNCHANGED <<holding, from>>
            /\ \E w \in {"get", "tooSoon", "done"} : pusher' = [pusher EXCEPT ![c] = w]
        BY <1>1, <2>2 DEF PusherTest
      <4>2. QED
        BY <4>1 DEF TypeOK, PusherType, HeldTag
    <3>2. UIType' /\ PointerType' /\ ObjectType' /\ HistoryType'
      <4>1. UNCHANGED <<uiVars, pointers, flags, objects, history, fault>>
        BY <1>1, <2>2 DEF PusherTest
      <4>2. UIType' /\ PointerType'
        BY <4>1 DEF TypeOK, UIType, PointerType, uiVars, pointers, flags
      <4>3. ObjectType' /\ HistoryType'
        BY <4>1 DEF TypeOK, ObjectType, HistoryType, objects, history, tagHistory
      <4>4. QED
        BY <4>2, <4>3
    <3>3. TagType' /\ CallType' /\ NextTag'
      BY <1>1, <2>2 DEF TypeOK, TagType, CallType, NextTag, PusherTest, objects, callVars,
         history, tagHistory
    <3>4. QED
      BY <3>1, <3>2, <3>3 DEF TInv, TypeOK, Tagged
  <2>3. QED
    BY <2>1, <2>2
<1>2. CASE PusherEmpty(c)
  <2>1. PusherType'
    BY <1>2 DEF TypeOK, PusherType, PusherEmpty, uiVars, pointers, flags, objects,
       pusherVars, callVars, history, tagHistory
  <2>2. HeldTag'
    BY <1>2 DEF TypeOK, HeldTag, PusherType, PusherEmpty, uiVars, pointers, flags, objects,
       pusherVars, callVars, history, tagHistory
  <2>3. UIType' /\ PointerType' /\ ObjectType' /\ TagType'
    BY <1>2 DEF TypeOK, UIType, PointerType, ObjectType, TagType, PusherEmpty, uiVars,
       pointers, flags, objects, pusherVars, callVars, history, tagHistory
  <2>4. CallType' /\ HistoryType' /\ NextTag'
    BY <1>2 DEF TypeOK, CallType, HistoryType, NextTag, PusherEmpty, uiVars, pointers,
       flags, objects, pusherVars, callVars, history, tagHistory
  <2>5. QED
    BY <2>1, <2>2, <2>3, <2>4 DEF TInv, TypeOK, Tagged
<1>3. CASE PusherGet(c)
  <2>1. CASE ~QueueUsable
    BY <1>3, <2>1, FaultTypes DEF PusherGet
  <2>2. CASE QueueUsable
    <3>1. rtmp_queue \in Opens /\ rtmp_queue # Null
      BY <2>2, QueueTypes
    <3>2. met' \in SUBSET Opens
      BY <1>3, <2>2, <3>1, MeetTypes DEF PusherGet
    <3>3. HistoryType'
      BY <1>3, <2>2, <3>2 DEF TypeOK, HistoryType, PusherGet
    <3>4. PusherType' /\ HeldTag'
      <4>1. /\ pusher' = [pusher EXCEPT ![c] = "pop"]
            /\ from' = [from EXCEPT ![c] = rtmp_queue] /\ holding' = holding
        BY <1>3, <2>2 DEF PusherGet
      <4>2. QED
        BY <3>1, <4>1 DEF TypeOK, PusherType, HeldTag
    <3>5. UIType' /\ PointerType' /\ ObjectType' /\ TagType'
      BY <1>3, <2>2 DEF TypeOK, UIType, PointerType, ObjectType, TagType, PusherGet, uiVars,
         pointers, flags, objects
    <3>6. CallType' /\ NextTag'
      BY <1>3, <2>2 DEF TypeOK, CallType, NextTag, PusherGet, callVars
    <3>7. QED
      BY <3>3, <3>4, <3>5, <3>6 DEF TInv, TypeOK, Tagged
  <2>3. QED
    BY <2>1, <2>2
<1>4. CASE PusherPop(c)
  <2>1. from[c] \in Opens /\ tags[from[c]] \in Seq(Kinds) /\ tags[from[c]] # <<>>
    BY <1>4, PoppingTypes DEF PusherPop
  <2>2. Head(tags[from[c]]) \in Kinds /\ Tail(tags[from[c]]) \in Seq(Kinds)
    BY <2>1
  <2>3. PICK left \in Left(from[c], Tail(tags[from[c]])) :
          tags' = [tags EXCEPT ![from[c]] = left]
    BY <1>4 DEF PusherPop
  <2>4. left \in Seq(Kinds)
    BY <2>1, <2>2, <2>3, LeftTypes
  <2>5. TagType'
    BY <1>4, <2>1, <2>3, <2>4 DEF TypeOK, TagType, PusherPop
  <2>6. met' \in SUBSET Opens
    BY <1>4, <2>1, MeetTypes DEF PusherPop
  <2>7. HistoryType'
    BY <1>4, <2>6 DEF TypeOK, HistoryType, PusherPop
  <2>8. PusherType' /\ HeldTag'
    BY <1>4, <2>2 DEF TypeOK, PusherType, HeldTag, PusherPop, NoTag, Kinds
  <2>9. UIType' /\ PointerType' /\ ObjectType'
    BY <1>4 DEF TypeOK, UIType, PointerType, ObjectType, PusherPop, uiVars, pointers, flags
  <2>10. CallType' /\ NextTag'
    BY <1>4 DEF TypeOK, CallType, NextTag, PusherPop, callVars
  <2>11. QED
    BY <2>5, <2>7, <2>8, <2>9, <2>10 DEF TInv, TypeOK, Tagged
<1>5. CASE PusherPopBroken(c)
  <2>1. CASE Fault
    BY <2>1, FaultTypes
  <2>2. CASE /\ pusher' = [pusher EXCEPT ![c] = "test"]
             /\ UNCHANGED <<uiVars, pointers, flags, objects, holding, from, callVars,
                            history, fault>>
    <3>1. PusherType' /\ HeldTag'
      BY <2>2 DEF TypeOK, PusherType, HeldTag
    <3>2. UIType' /\ PointerType' /\ ObjectType' /\ HistoryType'
      BY <2>2 DEF TypeOK, UIType, PointerType, ObjectType, HistoryType, uiVars, pointers,
         flags, objects, history, tagHistory
    <3>3. CallType' /\ NextTag' /\ TagType'
      BY <2>2 DEF TypeOK, CallType, NextTag, TagType, callVars, objects, history, tagHistory
    <3>4. QED
      BY <3>1, <3>2, <3>3 DEF TInv, TypeOK, Tagged
  <2>3. ASSUME NEW t \in Pushing(from[c]), at[t] = "link",
               pusher' = [pusher EXCEPT ![c] = "popped"],
               at' = [at EXCEPT ![t] = "linked"],
               holding' = [holding EXCEPT ![c] = next[t]],
               pushed' = [pushed EXCEPT ![from[c]] = Append(@, next[t])],
               UNCHANGED <<uiVars, pointers, flags, objects, from, next, on, nals, calls,
                           wire, refused, met, twice, disorder, starved, fault>>
        PROVE  TInv'
    <3>1. t \in Callers /\ from[c] = on[t]
      BY DEF Pushing
    <3>2. /\ from[c] \in Opens /\ next[t] \in Kinds /\ pushed[from[c]] \in Seq(Kinds)
          /\ Append(pushed[from[c]], next[t]) \in Seq(Kinds)
      BY <2>3, <3>1, PushingTypes
    <3>3. TagType'
      BY <2>3, <3>2 DEF TypeOK, TagType, objects
    <3>4. PusherType' /\ HeldTag'
      BY <2>3, <3>2 DEF TypeOK, PusherType, HeldTag, NoTag, Kinds
    <3>5. CallType' /\ NextTag'
      BY <2>3, <3>1 DEF TypeOK, CallType, NextTag
    <3>6. UIType' /\ PointerType' /\ ObjectType' /\ HistoryType'
      BY <2>3 DEF TypeOK, UIType, PointerType, ObjectType, HistoryType, uiVars, pointers,
         flags, objects
    <3>7. QED
      BY <3>3, <3>4, <3>5, <3>6 DEF TInv, TypeOK, Tagged
  <2>4. QED
    BY <1>5, <2>1, <2>2, <2>3 DEF PusherPopBroken
<1>6. CASE PusherReturn(c)
  <2>1. CASE queueState[from[c]] # "live"
    BY <1>6, <2>1, FaultTypes DEF PusherReturn
  <2>2. CASE queueState[from[c]] = "live"
    <3>1. from[c] \in Opens
      BY <1>6, PoppingTypes DEF PusherReturn
    <3>2. met' \in SUBSET Opens
      BY <1>6, <2>2, <3>1, MeetTypes DEF PusherReturn
    <3>3. HistoryType'
      BY <1>6, <2>2, <3>2 DEF TypeOK, HistoryType, PusherReturn
    <3>4. PusherType' /\ HeldTag'
      BY <1>6, <2>2 DEF TypeOK, PusherType, HeldTag, PusherReturn
    <3>5. UIType' /\ PointerType' /\ ObjectType' /\ TagType'
      BY <1>6, <2>2 DEF TypeOK, UIType, PointerType, ObjectType, TagType, PusherReturn,
         uiVars, pointers, flags, objects
    <3>6. CallType' /\ NextTag'
      BY <1>6, <2>2 DEF TypeOK, CallType, NextTag, PusherReturn, callVars
    <3>7. QED
      BY <3>3, <3>4, <3>5, <3>6 DEF TInv, TypeOK, Tagged
  <2>3. QED
    BY <2>1, <2>2
<1>7. CASE PusherWrite(c)
  <2>1. CASE ~ConnUsable
    BY <1>7, <2>1, FaultTypes DEF PusherWrite
  <2>2. CASE ConnUsable
    <3>1. rtmp \in Opens
      BY <2>2 DEF ConnUsable, TypeOK, UIType, PointerType
    <3>2. Append(wire[rtmp], holding[c]) \in Seq(Kinds)
      BY <1>7, <3>1 DEF PusherWrite, TypeOK, TagType, PusherType, HeldTag
    <3>3. wire' \in [Opens -> Seq(Kinds)]
      BY <1>7, <2>2, <3>1, <3>2 DEF PusherWrite, TypeOK, TagType
    <3>4. TagType'
      BY <1>7, <2>2, <3>3 DEF PusherWrite, TypeOK, TagType
    <3>5. PusherType' /\ HeldTag'
      <4>1. /\ pusher' = [pusher EXCEPT ![c] = "test"] /\ UNCHANGED from
            /\ holding' = [holding EXCEPT ![c] = NoTag]
        BY <1>7, <2>2 DEF PusherWrite
      <4>2. QED
        BY <4>1 DEF TypeOK, PusherType, HeldTag
    <3>6. UIType' /\ PointerType' /\ HistoryType'
      <4>1. UNCHANGED <<uiVars, pointers, flags, refused, met, twice, disorder, starved, fault>>
        BY <1>7, <2>2 DEF PusherWrite
      <4>2. UIType' /\ PointerType'
        BY <4>1 DEF TypeOK, UIType, PointerType, uiVars, pointers, flags
      <4>3. HistoryType'
        BY <4>1 DEF TypeOK, HistoryType
      <4>4. QED
        BY <4>2, <4>3
    <3>7. ObjectType'
      BY <1>7, <2>2, <3>1 DEF PusherWrite, TypeOK, ObjectType
    <3>8. CallType' /\ NextTag'
      BY <1>7, <2>2 DEF PusherWrite, TypeOK, CallType, NextTag, callVars
    <3>9. QED
      BY <3>4, <3>5, <3>6, <3>7, <3>8 DEF TInv, TypeOK, Tagged
  <2>3. QED
    BY <2>1, <2>2
<1>8. QED
  BY <1>1, <1>2, <1>3, <1>4, <1>5, <1>6, <1>7 DEF Pusher

LEMMA NextTypes == TInv /\ [Next]_vars => TInv'
<1>1. ASSUME TInv, UNCHANGED vars PROVE TInv'
  <2> USE <1>1 DEF TInv, TypeOK, Tagged, vars, uiVars, pointers, flags, objects,
          pusherVars, callVars, history, tagHistory
  <2>1. UIType' /\ PointerType' /\ ObjectType' /\ HistoryType'
    BY DEF UIType, PointerType, ObjectType, HistoryType
  <2>2. TagType' /\ PusherType' /\ CallType' /\ NextTag' /\ HeldTag'
    BY DEF TagType, PusherType, CallType, NextTag, HeldTag
  <2>3. QED
    BY <2>1, <2>2
<1>2. QED
  BY <1>1, UITypes, AudioTypes, VideoTypes, PusherTypes DEF Next

(* Every variable keeps its type, and no thread queues or writes a tag that *)
(* was never built.                                                         *)
THEOREM TypeCorrect == Spec => [](TypeOK /\ Tagged)
<1>1. TInv => TypeOK /\ Tagged
  BY DEF TInv
<1>2. QED
  BY <1>1, InitTypes, NextTypes, PTL DEF Spec
(* An orderly step of open and close.                                      *)
LEMMA UIOrdered ==
  ASSUME TInv, Ordered, ~fault, ~disorder', UI
  PROVE  Ordered' /\ (fault' => Excused')
<1> USE DEF Ordered, Pointers, Users, Up, ConnUsable, QueueUsable, IsConnected, Callers
<1>1. CASE OpenQueue
  <2>1. Pointers'
    <3>1. /\ ui' = "alloc" /\ recording' = TRUE /\ opens' = opens + 1
          /\ rtmp_queue' = opens + 1 /\ rtmp' = rtmp /\ rtmp = Null
          /\ queueState' = [queueState EXCEPT ![opens + 1] = "live"]
      BY <1>1 DEF OpenQueue, UiGo, Disorder
    <3>2. opens + 1 \in Opens /\ opens + 1 # Null
      BY <1>1 DEF OpenQueue, TInv, TypeOK, UIType
    <3>3. QueueUsable'
      BY <3>1, <3>2 DEF TInv, TypeOK, ObjectType
    <3>4. QED
      BY <3>1, <3>3
  <2>2. Users'
    BY <1>1 DEF OpenQueue, UiGo, Disorder, TInv, TypeOK, UIType, PointerType, ObjectType,
       uiVars, pointers, flags, objects, pusherVars, callVars, history, tagHistory
  <2>3. fault' = FALSE
    BY <1>1 DEF OpenQueue, UiGo, Disorder, TInv, TypeOK, UIType, PointerType, ObjectType,
       uiVars, pointers, flags, objects, pusherVars, callVars, history, tagHistory
  <2>4. QED
    BY <2>1, <2>2, <2>3
<1>2. CASE OpenAlloc
  <2>1. Pointers'
    BY <1>2 DEF OpenAlloc, UiGo, TInv, TypeOK, UIType, PointerType, ObjectType, uiVars,
       pointers, flags, objects, pusherVars, callVars, history, tagHistory
  <2>2. Users'
    BY <1>2 DEF OpenAlloc, UiGo, TInv, TypeOK, UIType, PointerType, ObjectType, uiVars,
       pointers, flags, objects, pusherVars, callVars, history, tagHistory
  <2>3. fault' = FALSE
    BY <1>2 DEF OpenAlloc, UiGo, TInv, TypeOK, UIType, PointerType, ObjectType, uiVars,
       pointers, flags, objects, pusherVars, callVars, history, tagHistory
  <2>4. QED
    BY <2>1, <2>2, <2>3
<1>3. CASE OpenConnect
  <2>1. Pointers'
    BY <1>3 DEF OpenConnect, UiGo, Disorder, TInv, TypeOK, UIType, PointerType, ObjectType,
       uiVars, pointers, flags, objects, pusherVars, callVars, history, tagHistory
  <2>2. Users'
    BY <1>3 DEF OpenConnect, UiGo, Disorder, TInv, TypeOK, UIType, PointerType, ObjectType,
       uiVars, pointers, flags, objects, pusherVars, callVars, history, tagHistory
  <2>3. fault' = FALSE
    BY <1>3 DEF OpenConnect, UiGo, Disorder, TInv, TypeOK, UIType, PointerType, ObjectType,
       uiVars, pointers, flags, objects, pusherVars, callVars, history, tagHistory
  <2>4. QED
    BY <2>1, <2>2, <2>3
<1>4. CASE OpenReset
  <2>1. Pointers'
    BY <1>4 DEF OpenReset, UiGo, TInv, TypeOK, UIType, PointerType, ObjectType, uiVars,
       pointers, flags, objects, pusherVars, callVars, history, tagHistory
  <2>2. Users'
    BY <1>4 DEF OpenReset, UiGo, TInv, TypeOK, UIType, PointerType, ObjectType, uiVars,
       pointers, flags, objects, pusherVars, callVars, history, tagHistory
  <2>3. fault' = FALSE
    BY <1>4 DEF OpenReset, UiGo, TInv, TypeOK, UIType, PointerType, ObjectType, uiVars,
       pointers, flags, objects, pusherVars, callVars, history, tagHistory
  <2>4. QED
    BY <2>1, <2>2, <2>3
<1>5. CASE OpenCreateThread
  <2>1. Pointers'
    BY <1>5 DEF OpenCreateThread, UiGo, TInv, TypeOK, UIType, PointerType, ObjectType,
       PusherType, uiVars, pointers, flags, objects, pusherVars, callVars, history, tagHistory
  <2>2. Users'
    BY <1>5 DEF OpenCreateThread, UiGo, TInv, TypeOK, UIType, PointerType, ObjectType,
       PusherType, uiVars, pointers, flags, objects, pusherVars, callVars, history, tagHistory
  <2>3. fault' = FALSE
    BY <1>5 DEF OpenCreateThread, UiGo, TInv, TypeOK, UIType, PointerType, ObjectType,
       PusherType, uiVars, pointers, flags, objects, pusherVars, callVars, history, tagHistory
  <2>4. QED
    BY <2>1, <2>2, <2>3
<1>6. CASE OpenPushing
  <2>1. Pointers'
    BY <1>6 DEF OpenPushing, UiGo, TInv, TypeOK, UIType, PointerType, ObjectType, uiVars,
       pointers, flags, objects, pusherVars, callVars, history, tagHistory
  <2>2. Users'
    BY <1>6 DEF OpenPushing, UiGo, TInv, TypeOK, UIType, PointerType, ObjectType, uiVars,
       pointers, flags, objects, pusherVars, callVars, history, tagHistory
  <2>3. fault' = FALSE
    BY <1>6 DEF OpenPushing, UiGo, TInv, TypeOK, UIType, PointerType, ObjectType, uiVars,
       pointers, flags, objects, pusherVars, callVars, history, tagHistory
  <2>4. QED
    BY <2>1, <2>2, <2>3
<1>7. CASE CloseState
  <2>1. Pointers'
    BY <1>7 DEF CloseState, UiGo, TInv, TypeOK, UIType, PointerType, ObjectType, uiVars,
       pointers, flags, objects, pusherVars, callVars, history, tagHistory
  <2>2. Users'
    BY <1>7 DEF CloseState, UiGo, TInv, TypeOK, UIType, PointerType, ObjectType, uiVars,
       pointers, flags, objects, pusherVars, callVars, history, tagHistory
  <2>3. fault' = FALSE
    BY <1>7 DEF CloseState, UiGo, TInv, TypeOK, UIType, PointerType, ObjectType, uiVars,
       pointers, flags, objects, pusherVars, callVars, history, tagHistory
  <2>4. QED
    BY <2>1, <2>2, <2>3
<1>8. CASE CloseFree
  <2>1. Pointers'
    <3>1. /\ ui = "free" /\ ui' = "clear"
          /\ UNCHANGED <<recording, opens, rtmp, rtmp_queue, queueState>>
      BY <1>8 DEF CloseFree, UiGo, Fault, pointers
    <3>2. QED
      BY <3>1
  <2>2. Users'
    <3>1. /\ ~PusherAlive /\ ~CallInside /\ UNCHANGED <<pusher, at>>
      BY <1>8 DEF CloseFree, UiGo, Disorder, Fault, pusherVars, callVars
    <3>2. /\ \A c \in Opens : pusher'[c] \in {"none", "tooSoon", "done"}
          /\ \A t \in Callers : at'[t] = "out"
      BY <3>1 DEF PusherAlive, CallInside
    <3>3. QED
      BY <3>2 DEF Callers
  <2>3. fault' = FALSE
    BY <1>8 DEF CloseFree, UiGo, Disorder, Fault, PusherAlive, CallInside, TInv, TypeOK,
       UIType, PointerType, ObjectType, uiVars, pointers, flags, objects, pusherVars, callVars,
       history, tagHistory
  <2>4. QED
    BY <2>1, <2>2, <2>3
<1>9. CASE CloseClear
  <2>1. Pointers'
    BY <1>9 DEF CloseClear, UiGo, TInv, TypeOK, UIType, PointerType, ObjectType, uiVars,
       pointers, flags, objects, pusherVars, callVars, history, tagHistory
  <2>2. Users'
    BY <1>9 DEF CloseClear, UiGo, TInv, TypeOK, UIType, PointerType, ObjectType, uiVars,
       pointers, flags, objects, pusherVars, callVars, history, tagHistory
  <2>3. fault' = FALSE
    BY <1>9 DEF CloseClear, UiGo, TInv, TypeOK, UIType, PointerType, ObjectType, uiVars,
       pointers, flags, objects, pusherVars, callVars, history, tagHistory
  <2>4. QED
    BY <2>1, <2>2, <2>3
<1>10. CASE CloseFreeQueue
  <2>1. Pointers'
    BY <1>10 DEF CloseFreeQueue, UiGo, Disorder, Fault, PusherAlive, CallInside, TInv,
       TypeOK, UIType, PointerType, ObjectType, uiVars, pointers, flags, objects, pusherVars,
       callVars, history, tagHistory
  <2>2. Users'
    BY <1>10 DEF CloseFreeQueue, UiGo, Disorder, Fault, PusherAlive, CallInside, TInv,
       TypeOK, UIType, PointerType, ObjectType, uiVars, pointers, flags, objects, pusherVars,
       callVars, history, tagHistory
  <2>3. fault' = FALSE
    BY <1>10 DEF CloseFreeQueue, UiGo, Disorder, Fault, PusherAlive, CallInside, TInv,
       TypeOK, UIType, PointerType, ObjectType, uiVars, pointers, flags, objects, pusherVars,
       callVars, history, tagHistory
  <2>4. QED
    BY <2>1, <2>2, <2>3
<1>11. CASE CloseFreeQueueBroken
  BY <1>11 DEF CloseFreeQueueBroken, Fault, Excused, uiVars, pointers, flags, objects,
     pusherVars, callVars, history, tagHistory
<1>12. QED
  BY <1>1, <1>2, <1>3, <1>4, <1>5, <1>6, <1>7, <1>8, <1>9, <1>10, <1>11 DEF UI

(* A step of an encode thread inside its call, and of a pushing thread.    *)
LEMMA CallOrdered ==
  ASSUME TInv, Ordered, NEW t \in Callers,
         UNCHANGED <<uiVars, pointers, conn, queueState, pusher, from>>,
         \A u \in Callers \ {t} : at'[u] = at[u] /\ on'[u] = on[u],
         at'[t] # "out" => at[t] # "out",
         at'[t] \in {"link", "linked"} => on'[t] = rtmp_queue
  PROVE  Ordered'
<1> USE DEF Ordered, Up, QueueUsable, uiVars, pointers
<1>1. Pointers'
  BY DEF Pointers
<1>2. \A u \in Callers : at'[u] # "out" => at[u] # "out"
  OBVIOUS
<1>3. \A u \in Callers : at'[u] \in {"link", "linked"} => on'[u] = rtmp_queue'
  BY DEF Users
<1>4. Users'
  BY <1>2, <1>3 DEF Users, Callers
<1>5. QED
  BY <1>1, <1>4

LEMMA PopOrdered ==
  ASSUME TInv, Ordered, NEW c \in Opens,
         UNCHANGED <<uiVars, pointers, queueState, at, on>>,
         conn' = conn \/ (Up(rtmp) /\ conn' = [conn EXCEPT ![rtmp] = "lost"]),
         pusher[c] \notin {"none", "tooSoon", "done"},
         \A d \in Opens \ {c} : pusher'[d] = pusher[d] /\ from'[d] = from[d],
         pusher'[c] \in {"pop", "popped"} => from'[c] = rtmp_queue
  PROVE  Ordered'
<1> USE DEF Ordered, QueueUsable, uiVars, pointers
<1>1. Up(rtmp) /\ ui \in {"pushing", "idle", "free"} /\ c = opens
  BY DEF Users
<1>2. \A x \in {rtmp} : Up(x) => Up(x)'
  BY DEF Up, TInv, TypeOK, UIType, PointerType, ObjectType
<1>3. Up(rtmp)'
  BY <1>1, <1>2 DEF Up
<1>4. Pointers'
  BY <1>1, <1>3 DEF Pointers
<1>5. \A d \in Opens : pusher'[d] \notin {"none", "tooSoon", "done"} =>
                         pusher[d] \notin {"none", "tooSoon", "done"}
  OBVIOUS
<1>6. \A d \in Opens : pusher'[d] \in {"pop", "popped"} => from'[d] = rtmp_queue'
  BY DEF Users
<1>7. Users'
  BY <1>1, <1>3, <1>5, <1>6 DEF Users, Callers
<1>8. QED
  BY <1>4, <1>7

(* An orderly step of a thread that pushes a tag.                          *)
LEMMA PushOrdered ==
  ASSUME TInv, Ordered, ~fault, NEW t \in Callers, Push(t)
  PROVE  Ordered' /\ (fault' => Excused')
<1> USE DEF Ordered
<1>0. /\ t \in Callers
      /\ at[t] # "out" => QueueUsable
      /\ at[t] \in {"link", "linked"} => on[t] = rtmp_queue
  BY DEF Users
<1>1. CASE PushStarved(t)
  <2>1. /\ UNCHANGED <<uiVars, pointers, conn, queueState, pusher, from>>
        /\ \A u \in Callers \ {t} : at'[u] = at[u] /\ on'[u] = on[u]
        /\ at'[t] # "out" => at[t] # "out"
        /\ at'[t] \in {"link", "linked"} => on'[t] = rtmp_queue
    BY <1>0, <1>1 DEF PushStarved, Users, pointers, objects, pusherVars, callVars, TInv,
       TypeOK, CallType
  <2>2. fault' => Excused'
    BY <1>0, <1>1 DEF PushStarved, Excused
  <2>3. QED
    BY <1>0, <2>1, <2>2, CallOrdered
<1>2. CASE PushRefused(t)
  <2>1. /\ UNCHANGED <<uiVars, pointers, conn, queueState, pusher, from>>
        /\ \A u \in Callers \ {t} : at'[u] = at[u] /\ on'[u] = on[u]
        /\ at'[t] # "out" => at[t] # "out"
        /\ at'[t] \in {"link", "linked"} => on'[t] = rtmp_queue
    BY <1>0, <1>2 DEF PushRefused, GoOn, After, Users, pointers, objects, pusherVars,
       callVars, TInv, TypeOK, CallType
  <2>2. fault' => Excused'
    BY <1>0, <1>2 DEF PushRefused
  <2>3. QED
    BY <1>0, <2>1, <2>2, CallOrdered
<1>3. CASE PushBegin(t)
  <2>1. /\ UNCHANGED <<uiVars, pointers, conn, queueState, pusher, from>>
        /\ \A u \in Callers \ {t} : at'[u] = at[u] /\ on'[u] = on[u]
        /\ at'[t] # "out" => at[t] # "out"
        /\ at'[t] \in {"link", "linked"} => on'[t] = rtmp_queue
    BY <1>0, <1>3 DEF PushBegin, Fault, Users, pointers, objects, pusherVars, callVars,
       TInv, TypeOK, CallType
  <2>2. fault' => Excused'
    BY <1>0, <1>3 DEF PushBegin, Fault
  <2>3. QED
    BY <1>0, <2>1, <2>2, CallOrdered
<1>4. CASE PushLink(t)
  <2>1. /\ UNCHANGED <<uiVars, pointers, conn, queueState, pusher, from>>
        /\ \A u \in Callers \ {t} : at'[u] = at[u] /\ on'[u] = on[u]
        /\ at'[t] # "out" => at[t] # "out"
        /\ at'[t] \in {"link", "linked"} => on'[t] = rtmp_queue
    BY <1>0, <1>4 DEF PushLink, Users, pointers, objects, pusherVars, callVars, TInv,
       TypeOK, CallType
  <2>2. fault' => Excused'
    BY <1>0, <1>4 DEF PushLink
  <2>3. QED
    BY <1>0, <2>1, <2>2, CallOrdered
<1>5. CASE PushReturn(t)
  <2>1. /\ UNCHANGED <<uiVars, pointers, conn, queueState, pusher, from>>
        /\ \A u \in Callers \ {t} : at'[u] = at[u] /\ on'[u] = on[u]
        /\ at'[t] # "out" => at[t] # "out"
        /\ at'[t] \in {"link", "linked"} => on'[t] = rtmp_queue
    BY <1>0, <1>5 DEF PushReturn, GoOn, After, Users, pointers, objects, pusherVars,
       callVars, TInv, TypeOK, CallType
  <2>2. fault' => Excused'
    BY <1>0, <1>5 DEF PushReturn
  <2>3. QED
    BY <1>0, <2>1, <2>2, CallOrdered
<1>6. CASE PushBroken(t)
  <2>1. /\ UNCHANGED <<uiVars, pointers, conn, queueState, pusher, from>>
        /\ \A u \in Callers \ {t} : at'[u] = at[u] /\ on'[u] = on[u]
        /\ at'[t] # "out" => at[t] # "out"
        /\ at'[t] \in {"link", "linked"} => on'[t] = rtmp_queue
    BY <1>0, <1>6 DEF PushBroken, Fault, Users, pointers, objects, pusherVars, callVars,
       TInv, TypeOK, CallType
  <2>2. fault' => Excused'
    BY <1>0, <1>6 DEF PushBroken, Fault, MayBreak, Excused, QueueUsable, history, tagHistory
  <2>3. QED
    BY <1>0, <2>1, <2>2, CallOrdered
<1>7. CASE Mark(t)
  <2>1. /\ UNCHANGED <<uiVars, pointers, conn, queueState, pusher, from>>
        /\ \A u \in Callers \ {t} : at'[u] = at[u] /\ on'[u] = on[u]
        /\ at'[t] # "out" => at[t] # "out"
        /\ at'[t] \in {"link", "linked"} => on'[t] = rtmp_queue
    BY <1>0, <1>7 DEF Mark, Users, pointers, objects, pusherVars, callVars, TInv, TypeOK,
       CallType
  <2>2. fault' => Excused'
    BY <1>0, <1>7 DEF Mark, history, tagHistory
  <2>3. QED
    BY <1>0, <2>1, <2>2, CallOrdered
<1>8. QED
  BY <1>1, <1>2, <1>3, <1>4, <1>5, <1>6, <1>7 DEF Push

(* An orderly step of push_audio.                                          *)
LEMMA AudioOrdered ==
  ASSUME TInv, Ordered, ~fault, ~disorder', NEW t \in AudioThreads, Audio(t)
  PROVE  Ordered' /\ (fault' => Excused')
<1> USE DEF Ordered
<1>0. t \in Callers /\ (at[t] # "out" => ConnUsable)
  BY DEF Users, Callers, Up, ConnUsable, Pointers
<1>1. CASE AudioCall(t)
  <2>1. /\ ui = "idle" /\ (rtmp = Null \/ Up(rtmp))
        /\ recording => QueueUsable
        /\ ~recording => rtmp = Null
    BY <1>1 DEF AudioCall, Disorder, Pointers
  <2>2. ~(rtmp # Null /\ ~ConnUsable)
    BY <2>1 DEF Up, ConnUsable
  <2>3. Pointers'
    BY <1>1 DEF AudioCall, Pointers, Up, QueueUsable, uiVars, pointers, objects
  <2>4. at'[t] # "out" => Up(rtmp) /\ QueueUsable
    BY <1>0, <1>1, <2>1, <2>2 DEF AudioCall, TInv, TypeOK, CallType
  <2>5. \A u \in Callers : /\ u # t => at'[u] = at[u]
                           /\ at'[u] \in {"link", "linked"} => at[u] = at'[u]
    BY <1>0, <1>1 DEF AudioCall, TInv, TypeOK, CallType
  <2>6. Users'
    BY <1>1, <2>1, <2>4, <2>5 DEF AudioCall, Users, Callers, Up, QueueUsable, uiVars,
       pointers, objects, pusherVars
  <2>7. fault' = FALSE
    BY <1>1, <2>2 DEF AudioCall
  <2>8. QED
    BY <2>3, <2>6, <2>7
<1>2. CASE AudioTest(t)
  <2>1. /\ UNCHANGED <<uiVars, pointers, conn, queueState, pusher, from>>
        /\ \A u \in Callers \ {t} : at'[u] = at[u] /\ on'[u] = on[u]
        /\ at'[t] # "out" => at[t] # "out"
        /\ at'[t] \in {"link", "linked"} => on'[t] = rtmp_queue
    BY <1>0, <1>2 DEF AudioTest, Fault, Users, pointers, objects, pusherVars, callVars,
       TInv, TypeOK, CallType
  <2>2. fault' => Excused'
    BY <1>0, <1>2 DEF AudioTest, Fault
  <2>3. QED
    BY <1>0, <2>1, <2>2, CallOrdered
<1>3. CASE AudioChoose(t)
  <2>1. /\ UNCHANGED <<uiVars, pointers, conn, queueState, pusher, from>>
        /\ \A u \in Callers \ {t} : at'[u] = at[u] /\ on'[u] = on[u]
        /\ at'[t] # "out" => at[t] # "out"
        /\ at'[t] \in {"link", "linked"} => on'[t] = rtmp_queue
    BY <1>0, <1>3 DEF AudioChoose, Prepare, Users, pointers, objects, pusherVars, callVars,
       TInv, TypeOK, CallType
  <2>2. fault' => Excused'
    BY <1>0, <1>3 DEF AudioChoose
  <2>3. QED
    BY <1>0, <2>1, <2>2, CallOrdered
<1>4. CASE Push(t)
  BY <1>0, <1>4, PushOrdered
<1>5. QED
  BY <1>1, <1>2, <1>3, <1>4 DEF Audio

(* An orderly step of push_video.                                          *)
LEMMA VideoOrdered ==
  ASSUME TInv, Ordered, ~fault, ~disorder', NEW t \in VideoThreads, Video(t)
  PROVE  Ordered' /\ (fault' => Excused')
<1> USE DEF Ordered
<1>0. t \in Callers
  BY DEF Callers
<1>1. CASE VideoCall(t)
  <2>1. ui = "idle" /\ QueueUsable /\ recording
    BY <1>1 DEF VideoCall, Disorder, Pointers
  <2>2. Pointers'
    BY <1>1 DEF VideoCall, Pointers, Up, QueueUsable, uiVars, pointers, objects
  <2>3. \A u \in Callers : /\ u # t => at'[u] = at[u]
                           /\ at'[u] \in {"link", "linked"} => at[u] = at'[u]
    BY <1>0, <1>1 DEF VideoCall, TInv, TypeOK, CallType
  <2>4. t \notin AudioThreads
    BY ThreadAssumption
  <2>5. Users'
    BY <1>1, <2>1, <2>3, <2>4 DEF VideoCall, Users, Callers, Up, QueueUsable, uiVars,
       pointers, objects, pusherVars
  <2>6. fault' = FALSE
    BY <1>1 DEF VideoCall
  <2>7. QED
    BY <2>2, <2>5, <2>6
<1>2. CASE VideoReturn(t)
  <2>1. /\ UNCHANGED <<uiVars, pointers, conn, queueState, pusher, from>>
        /\ \A u \in Callers \ {t} : at'[u] = at[u] /\ on'[u] = on[u]
        /\ at'[t] # "out" => at[t] # "out"
        /\ at'[t] \in {"link", "linked"} => on'[t] = rtmp_queue
    BY <1>0, <1>2 DEF VideoReturn, Users, pointers, objects, pusherVars, callVars, TInv,
       TypeOK, CallType
  <2>2. fault' => Excused'
    BY <1>0, <1>2 DEF VideoReturn, history, tagHistory
  <2>3. QED
    BY <1>0, <2>1, <2>2, CallOrdered
<1>3. CASE VideoSps(t)
  <2>1. /\ UNCHANGED <<uiVars, pointers, conn, queueState, pusher, from>>
        /\ \A u \in Callers \ {t} : at'[u] = at[u] /\ on'[u] = on[u]
        /\ at'[t] # "out" => at[t] # "out"
        /\ at'[t] \in {"link", "linked"} => on'[t] = rtmp_queue
    BY <1>0, <1>3 DEF VideoSps, Prepare, Users, pointers, objects, pusherVars, callVars,
       TInv, TypeOK, CallType
  <2>2. fault' => Excused'
    BY <1>0, <1>3 DEF VideoSps
  <2>3. QED
    BY <1>0, <2>1, <2>2, CallOrdered
<1>4. CASE VideoSlice(t)
  <2>1. /\ UNCHANGED <<uiVars, pointers, conn, queueState, pusher, from>>
        /\ \A u \in Callers \ {t} : at'[u] = at[u] /\ on'[u] = on[u]
        /\ at'[t] # "out" => at[t] # "out"
        /\ at'[t] \in {"link", "linked"} => on'[t] = rtmp_queue
    BY <1>0, <1>4 DEF VideoSlice, Prepare, Users, pointers, objects, pusherVars, callVars,
       TInv, TypeOK, CallType
  <2>2. fault' => Excused'
    BY <1>0, <1>4 DEF VideoSlice
  <2>3. QED
    BY <1>0, <2>1, <2>2, CallOrdered
<1>5. CASE VideoSkip(t)
  <2>1. /\ UNCHANGED <<uiVars, pointers, conn, queueState, pusher, from>>
        /\ \A u \in Callers \ {t} : at'[u] = at[u] /\ on'[u] = on[u]
        /\ at'[t] # "out" => at[t] # "out"
        /\ at'[t] \in {"link", "linked"} => on'[t] = rtmp_queue
    BY <1>0, <1>5 DEF VideoSkip, Users, pointers, objects, pusherVars, callVars, TInv,
       TypeOK, CallType
  <2>2. fault' => Excused'
    BY <1>0, <1>5 DEF VideoSkip, history, tagHistory
  <2>3. QED
    BY <1>0, <2>1, <2>2, CallOrdered
<1>6. CASE Push(t)
  BY <1>0, <1>6, PushOrdered
<1>7. QED
  BY <1>1, <1>2, <1>3, <1>4, <1>5, <1>6 DEF Video

(* An orderly step of a pushing thread.                                    *)
LEMMA PusherOrdered ==
  ASSUME TInv, Ordered, ~fault, NEW c \in Opens, Pusher(c)
  PROVE  Ordered' /\ (fault' => Excused')
<1> USE DEF Ordered
<1>0. /\ pusher[c] \notin {"none", "tooSoon", "done"}
      /\ ConnUsable /\ QueueUsable /\ Up(rtmp)
      /\ pusher[c] \in {"pop", "popped"} => from[c] = rtmp_queue
  <2>1. pusher[c] \notin {"none", "tooSoon", "done"}
    BY DEF Pusher, PusherTest, PusherEmpty, PusherGet, PusherPop, PusherPopBroken,
       PusherReturn, PusherWrite
  <2>2. Up(rtmp) /\ ui \in {"pushing", "idle", "free"}
    BY <2>1 DEF Users
  <2>3. QED
    BY <2>1, <2>2 DEF Users, Pointers, Up, ConnUsable
<1>1. CASE PusherTest(c)
  <2>1. /\ UNCHANGED <<uiVars, pointers, queueState, conn>>
        /\ \A d \in Opens \ {c} : pusher'[d] = pusher[d] /\ from'[d] = from[d]
        /\ pusher'[c] \in {"pop", "popped"} => from'[c] = rtmp_queue
    BY <1>0, <1>1 DEF PusherTest, Fault, pointers, objects, pusherVars, TInv, TypeOK,
       PusherType
  <2>2. UNCHANGED <<at, on>>
    BY <1>1 DEF PusherTest, Fault, callVars
  <2>3. fault' => Excused'
    BY <1>0, <1>1 DEF PusherTest, Fault, history, tagHistory
  <2>4. QED
    BY <1>0, <2>1, <2>2, <2>3, PopOrdered
<1>2. CASE PusherEmpty(c)
  <2>1. /\ UNCHANGED <<uiVars, pointers, queueState, conn>>
        /\ \A d \in Opens \ {c} : pusher'[d] = pusher[d] /\ from'[d] = from[d]
        /\ pusher'[c] \in {"pop", "popped"} => from'[c] = rtmp_queue
    BY <1>0, <1>2 DEF PusherEmpty, pointers, objects, pusherVars, TInv, TypeOK, PusherType
  <2>2. UNCHANGED <<at, on>>
    BY <1>2 DEF PusherEmpty, callVars
  <2>3. fault' => Excused'
    BY <1>0, <1>2 DEF PusherEmpty, history, tagHistory
  <2>4. QED
    BY <1>0, <2>1, <2>2, <2>3, PopOrdered
<1>3. CASE PusherGet(c)
  <2>1. /\ UNCHANGED <<uiVars, pointers, queueState, conn>>
        /\ \A d \in Opens \ {c} : pusher'[d] = pusher[d] /\ from'[d] = from[d]
        /\ pusher'[c] \in {"pop", "popped"} => from'[c] = rtmp_queue
    BY <1>0, <1>3 DEF PusherGet, Fault, pointers, objects, pusherVars, TInv, TypeOK,
       PusherType
  <2>2. UNCHANGED <<at, on>>
    BY <1>3 DEF PusherGet, Fault, callVars
  <2>3. fault' => Excused'
    BY <1>0, <1>3 DEF PusherGet, Fault
  <2>4. QED
    BY <1>0, <2>1, <2>2, <2>3, PopOrdered
<1>4. CASE PusherPop(c)
  <2>1. /\ UNCHANGED <<uiVars, pointers, queueState, conn>>
        /\ \A d \in Opens \ {c} : pusher'[d] = pusher[d] /\ from'[d] = from[d]
        /\ pusher'[c] \in {"pop", "popped"} => from'[c] = rtmp_queue
    BY <1>0, <1>4 DEF PusherPop, pointers, objects, pusherVars, TInv, TypeOK, PusherType
  <2>2. UNCHANGED <<at, on>>
    BY <1>4 DEF PusherPop, callVars
  <2>3. fault' => Excused'
    BY <1>0, <1>4 DEF PusherPop
  <2>4. QED
    BY <1>0, <2>1, <2>2, <2>3, PopOrdered
<1>5. CASE PusherPopBroken(c)
  <2>1. CASE Fault
    <3>1. UNCHANGED <<uiVars, pointers, queueState, conn, pusher, from, at, on, met>>
      BY <2>1 DEF Fault, objects, pusherVars, callVars, history, tagHistory
    <3>2. Excused'
      BY <1>0, <1>5, <3>1 DEF PusherPopBroken, MayBreak, QueueUsable, Excused
    <3>3. pusher'[c] \in {"pop", "popped"} => from'[c] = rtmp_queue
      BY <1>0, <3>1
    <3>4. QED
      BY <1>0, <3>1, <3>2, <3>3, PopOrdered
  <2>2. CASE /\ pusher' = [pusher EXCEPT ![c] = "test"]
             /\ UNCHANGED <<uiVars, pointers, flags, objects, holding, from, callVars,
                            history, fault>>
    <3>1. /\ UNCHANGED <<uiVars, pointers, queueState, conn, from, at, on>>
          /\ \A d \in Opens \ {c} : pusher'[d] = pusher[d] /\ from'[d] = from[d]
          /\ pusher'[c] = "test"
      BY <2>2 DEF objects, callVars, TInv, TypeOK, PusherType
    <3>2. QED
      BY <1>0, <2>2, <3>1, PopOrdered
  <2>3. ASSUME NEW t \in Pushing(from[c]), at[t] = "link",
               pusher' = [pusher EXCEPT ![c] = "popped"],
               at' = [at EXCEPT ![t] = "linked"],
               UNCHANGED <<uiVars, pointers, flags, objects, from, on, fault>>
        PROVE  Ordered' /\ (fault' => Excused')
    <3>1. t \in Callers /\ on[t] = rtmp_queue
      BY <1>0, <1>5 DEF PusherPopBroken, Pushing
    <3>2. Pointers'
      BY <2>3 DEF Pointers, Up, QueueUsable, uiVars, pointers, objects
    <3>3. \A u \in Callers : /\ at'[u] # "out" => at[u] # "out"
                             /\ at'[u] \in {"link", "linked"} => on'[u] = rtmp_queue'
      BY <2>3, <3>1 DEF Users, pointers, TInv, TypeOK, CallType
    <3>4. pusher'[c] = "popped" /\ from[c] = rtmp_queue /\ pusher[c] = "pop"
      BY <1>0, <1>5, <2>3 DEF PusherPopBroken, TInv, TypeOK, PusherType
    <3>5. \A d \in Opens : pusher'[d] # pusher[d] => d = c
      BY <2>3 DEF TInv, TypeOK, PusherType
    <3>6. Users'
      BY <2>3, <3>3, <3>4, <3>5 DEF Users, Callers, Up, QueueUsable, uiVars, pointers,
         objects
    <3>7. QED
      BY <2>3, <3>2, <3>6
  <2>4. QED
    BY <1>5, <2>1, <2>2, <2>3 DEF PusherPopBroken
<1>6. CASE PusherReturn(c)
  <2>1. /\ UNCHANGED <<uiVars, pointers, queueState, conn>>
        /\ \A d \in Opens \ {c} : pusher'[d] = pusher[d] /\ from'[d] = from[d]
        /\ pusher'[c] \in {"pop", "popped"} => from'[c] = rtmp_queue
    BY <1>0, <1>6 DEF PusherReturn, Fault, pointers, objects, pusherVars, TInv, TypeOK,
       PusherType
  <2>2. UNCHANGED <<at, on>>
    BY <1>6 DEF PusherReturn, Fault, callVars
  <2>3. fault' => Excused'
    BY <1>0, <1>6 DEF PusherReturn, Fault, QueueUsable
  <2>4. QED
    BY <1>0, <2>1, <2>2, <2>3, PopOrdered
<1>7. CASE PusherWrite(c)
  <2>1. /\ UNCHANGED <<uiVars, pointers, queueState, at, on>>
        /\ conn' = conn \/ conn' = [conn EXCEPT ![rtmp] = "lost"]
        /\ pusher' = [pusher EXCEPT ![c] = "test"] /\ from' = from
    BY <1>0, <1>7 DEF PusherWrite, callVars
  <2>2. /\ \A d \in Opens \ {c} : pusher'[d] = pusher[d] /\ from'[d] = from[d]
        /\ pusher'[c] = "test"
    BY <2>1 DEF TInv, TypeOK, PusherType
  <2>3. fault' => Excused'
    BY <1>0, <1>7 DEF PusherWrite
  <2>4. QED
    BY <1>0, <2>1, <2>2, <2>3, PopOrdered
<1>8. QED
  BY <1>1, <1>2, <1>3, <1>4, <1>5, <1>6, <1>7 DEF Pusher

(* Disorder is never forgotten.                                            *)
LEMMA DisorderStays == Next /\ ~disorder' => ~disorder
<1> SUFFICES ASSUME Next, ~disorder' PROVE ~disorder
  OBVIOUS
<1>0. ~disorder'
  OBVIOUS
<1>1. UI => ~disorder
  BY <1>0 DEF UI, OpenQueue, Disorder, OpenAlloc, OpenConnect, OpenReset, OpenCreateThread,
     OpenPushing, CloseState, CloseFree, Fault, CloseClear, CloseFreeQueue,
     CloseFreeQueueBroken, history
<1>2. \A t : Push(t) => ~disorder
  BY <1>0 DEF Push, PushStarved, PushRefused, PushBegin, PushLink, PushReturn, PushBroken,
     Fault, Mark, history
<1>3. \A t : Audio(t) => ~disorder
  BY <1>0, <1>2 DEF Audio, AudioCall, Disorder, AudioTest, Fault, AudioChoose, history
<1>4. \A t : Video(t) => ~disorder
  BY <1>0, <1>2 DEF Video, VideoCall, Disorder, VideoReturn, VideoSps, VideoSlice,
     VideoSkip, history
<1>5. \A c \in Opens : Pusher(c) => ~disorder
  BY <1>0 DEF Pusher, PusherTest, Fault, PusherEmpty, PusherGet, PusherPop, PusherPopBroken,
     PusherReturn, PusherWrite, history
<1>6. QED
  BY <1>1, <1>3, <1>4, <1>5 DEF Next

LEMMA NextOrdered == OInv /\ [Next]_vars => OInv'
<1> SUFFICES ASSUME OInv, [Next]_vars PROVE OInv'
  OBVIOUS
<1>1. TInv'
  BY NextTypes DEF OInv
<1>2. ASSUME ~disorder' PROVE Ordered' /\ (fault' => Excused')
  <2>1. CASE UNCHANGED vars
    BY <1>2, <2>1 DEF OInv, Ordered, Pointers, Users, Up, QueueUsable, Excused, vars,
       uiVars, pointers, flags, objects, pusherVars, callVars, history, tagHistory
  <2>2. CASE Next
    <3>1. ~disorder
      BY <1>2, <2>2, DisorderStays
    <3>2. TInv /\ Ordered /\ ~fault
      BY <2>2, <3>1 DEF OInv, Next
    <3>3. QED
      BY <1>2, <2>2, <3>2, UIOrdered, AudioOrdered, VideoOrdered, PusherOrdered DEF Next
  <2>3. QED
    BY <2>1, <2>2
<1>3. QED
  BY <1>1, <1>2 DEF OInv

(* With an orderly caller, memory for the tags and queue calls that do not *)
(* meet, no step touches a freed or a null object.                         *)
THEOREM FaultsNeedDisorder == Spec => []FaultNeedsDisorder
<1>1. Init => OInv
  BY InitTypes DEF Init, OInv, Ordered, Pointers, Users, QueueUsable, Callers
<1>2. OInv => FaultNeedsDisorder
  BY DEF OInv, FaultNeedsDisorder, Excused
<1>3. QED
  BY <1>1, <1>2, NextOrdered, PTL DEF Spec

-----------------------------------------------------------------------------
(* A connection is live while rtmp names it, which is between the return   *)
(* of RTMP_ConnectStream and close.                                        *)
Live ==
  /\ \A c \in Opens : conn[c] = "live" => rtmp = c /\ opens = c
  /\ ui = "clear" => rtmp # Null /\ conn[rtmp] = "freed"

(* Nothing has happened to a session that is not open, or not open yet.    *)
Blank(c) ==
  /\ tags[c] = <<>> /\ pushed[c] = <<>> /\ wire[c] = <<>> /\ pusher[c] = "none"
  /\ refused[c] = {} /\ twice[c] = {}

Fresh == \A c \in Opens :
  /\ c > opens => Blank(c) /\ conn[c] = "none"
  /\ ui \in {"alloc", "connect", "reset"} /\ c = opens => Blank(c)

(* Every tag pushed for a live connection is sent, in the hands of its     *)
(* thread, or still queued, in this order: of the tags p, the sequence w   *)
(* is sent, h of them are in hand, and t is the rest.                      *)
Queued(p, w, h, t) ==
  /\ Len(p) = Len(w) + h + Len(t)
  /\ \A i \in 1..Len(t) : t[i] = p[Len(w) + h + i]

Holds(c) == pusher[c] \in {"popped", "write"}
Held(c) == IF Holds(c) THEN 1 ELSE 0

Line(c) ==
  /\ Queued(pushed[c], wire[c], Held(c), tags[c])
  /\ Holds(c) => holding[c] = pushed[c][Len(wire[c]) + 1]

Lines == \A c \in Opens \ met : conn[c] = "live" => Line(c)

FirstOf(w, p) ==
  /\ Len(w) <= Len(p)
  /\ \A i \in 1..Len(w) : w[i] = p[i]

Sent(c) == FirstOf(wire[c], pushed[c])

AllSent == \A c \in Opens \ met : Sent(c)

InLine == Live /\ Fresh /\ Lines /\ AllSent

LInv == OInv /\ (~disorder => InLine)

USE BoundAssumption, PacketAssumption DEF Opens, Null

-----------------------------------------------------------------------------
(* What a push, a pop and a send do to the three sequences.                *)
LEMMA PushSeqs ==
  ASSUME NEW p \in Seq(Kinds), NEW w \in Seq(Kinds), NEW t \in Seq(Kinds),
         NEW h \in {0, 1}, NEW tag \in Kinds, Queued(p, w, h, t)
  PROVE  Queued(Append(p, tag), w, h, Append(t, tag))
<1>1. /\ Len(p) \in Nat /\ Len(w) \in Nat /\ Len(t) \in Nat
      /\ Len(p) = Len(w) + h + Len(t)
      /\ \A i \in 1..Len(t) : t[i] = p[Len(w) + h + i]
  BY DEF Queued
<1>2. /\ Len(Append(p, tag)) = Len(p) + 1 /\ Append(p, tag)[Len(p) + 1] = tag
      /\ \A i \in 1..Len(p) : Append(p, tag)[i] = p[i]
      /\ Len(Append(t, tag)) = Len(t) + 1 /\ Append(t, tag)[Len(t) + 1] = tag
      /\ \A i \in 1..Len(t) : Append(t, tag)[i] = t[i]
  BY AppendProperties
<1>3. ASSUME NEW i \in 1..Len(Append(t, tag))
      PROVE  Append(t, tag)[i] = Append(p, tag)[Len(w) + h + i]
  <2>1. CASE i = Len(t) + 1
    <3>1. Len(w) + h + i = Len(p) + 1
      BY <1>1, <2>1
    <3>2. QED
      BY <1>2, <2>1, <3>1
  <2>2. CASE i \in 1..Len(t)
    <3>1. Len(w) + h + i \in 1..Len(p)
      BY <1>1, <2>2
    <3>2. Append(p, tag)[Len(w) + h + i] = p[Len(w) + h + i]
      BY <1>2, <3>1
    <3>3. QED
      BY <1>1, <1>2, <2>2, <3>2
  <2>3. i = Len(t) + 1 \/ i \in 1..Len(t)
    BY <1>1, <1>2
  <2>4. QED
    BY <2>1, <2>2, <2>3
<1>4. Len(Append(p, tag)) = Len(w) + h + Len(Append(t, tag))
  <2>1. Len(Append(p, tag)) = Len(p) + 1 /\ Len(Append(t, tag)) = Len(t) + 1
    BY <1>2
  <2>2. h \in Nat /\ Len(p) \in Nat /\ Len(w) \in Nat /\ Len(t) \in Nat
    BY <1>1
  <2>3. QED
    BY <1>1, <2>1, <2>2
<1> DEFINE q == Append(p, tag)  u == Append(t, tag)
<1>5. ASSUME NEW i \in 1..Len(u) PROVE u[i] = q[Len(w) + h + i]
  BY <1>3, Zenon
<1>6. Len(q) = Len(w) + h + Len(u)
  BY <1>4
<1> HIDE DEF q, u
<1>7. Queued(q, w, h, u)
  BY <1>5, <1>6 DEF Queued
<1>8. QED
  BY <1>7 DEF q, u

LEMMA PushHeld ==
  ASSUME NEW p \in Seq(Kinds), NEW w \in Seq(Kinds), NEW t \in Seq(Kinds),
         NEW tag \in Kinds, Queued(p, w, 1, t)
  PROVE  Append(p, tag)[Len(w) + 1] = p[Len(w) + 1]
<1>1. Len(w) + 1 \in 1..Len(p)
  BY DEF Queued
<1>2. QED
  BY <1>1, AppendProperties

LEMMA PopSeqs ==
  ASSUME NEW p \in Seq(Kinds), NEW w \in Seq(Kinds), NEW t \in Seq(Kinds),
         t # <<>>, Queued(p, w, 0, t)
  PROVE  Queued(p, w, 1, Tail(t)) /\ Head(t) = p[Len(w) + 1]
<1>1. /\ Len(p) \in Nat /\ Len(w) \in Nat /\ Len(t) \in Nat \ {0}
      /\ Len(p) = Len(w) + 0 + Len(t)
      /\ \A i \in 1..Len(t) : t[i] = p[Len(w) + 0 + i]
  BY DEF Queued
<1>2. /\ Len(Tail(t)) = Len(t) - 1 /\ Head(t) = t[1]
      /\ \A i \in 1..Len(Tail(t)) : Tail(t)[i] = t[i + 1]
  BY HeadTailProperties
<1>3. Len(p) = Len(w) + 1 + Len(Tail(t)) /\ Head(t) = p[Len(w) + 1]
  BY <1>1, <1>2
<1>4. ASSUME NEW i \in 1..Len(Tail(t)) PROVE Tail(t)[i] = p[Len(w) + 1 + i]
  <2>1. i + 1 \in 1..Len(t) /\ Len(w) + 0 + (i + 1) = Len(w) + 1 + i
    BY <1>1, <1>2
  <2>2. QED
    BY <1>1, <1>2, <2>1
<1>5. QED
  BY <1>3, <1>4 DEF Queued

LEMMA SendSeqs ==
  ASSUME NEW p \in Seq(Kinds), NEW w \in Seq(Kinds), NEW t \in Seq(Kinds),
         NEW tag \in Kinds, tag = p[Len(w) + 1],
         Queued(p, w, 1, t), FirstOf(w, p)
  PROVE  Queued(p, Append(w, tag), 0, t) /\ FirstOf(Append(w, tag), p)
<1>1. /\ Len(p) \in Nat /\ Len(w) \in Nat /\ Len(t) \in Nat
      /\ Len(p) = Len(w) + 1 + Len(t)
      /\ \A i \in 1..Len(t) : t[i] = p[Len(w) + 1 + i]
  BY DEF Queued
<1>2. /\ Len(Append(w, tag)) = Len(w) + 1 /\ Append(w, tag)[Len(w) + 1] = tag
      /\ \A i \in 1..Len(w) : Append(w, tag)[i] = w[i]
  BY AppendProperties
<1>3. Queued(p, Append(w, tag), 0, t)
  <2>1. Len(p) = Len(Append(w, tag)) + 0 + Len(t)
    BY <1>1, <1>2
  <2>2. \A i \in 1..Len(t) : t[i] = p[Len(Append(w, tag)) + 0 + i]
    BY <1>1, <1>2
  <2>3. QED
    BY <2>1, <2>2 DEF Queued
<1>4. FirstOf(Append(w, tag), p)
  <2>1. Len(Append(w, tag)) <= Len(p)
    BY <1>1, <1>2
  <2>2. \A i \in 1..Len(Append(w, tag)) : Append(w, tag)[i] = p[i]
    BY <1>1, <1>2 DEF FirstOf
  <2>3. QED
    BY <2>1, <2>2 DEF FirstOf
<1>5. QED
  BY <1>3, <1>4

LEMMA PushFirst ==
  ASSUME NEW p \in Seq(Kinds), NEW w \in Seq(Kinds), NEW tag \in Kinds,
         FirstOf(w, p)
  PROVE  FirstOf(w, Append(p, tag))
<1>1. /\ Len(Append(p, tag)) = Len(p) + 1
      /\ \A i \in 1..Len(p) : Append(p, tag)[i] = p[i]
      /\ Len(p) \in Nat /\ Len(w) \in Nat
  BY AppendProperties
<1>2. QED
  BY <1>1 DEF FirstOf

-----------------------------------------------------------------------------
(* Steps that leave the tags where they are.                               *)
LEMMA SameTags ==
  ASSUME InLine, UNCHANGED <<tags, pushed, wire, holding>>, met \subseteq met',
         \A c \in Opens : Holds(c)' <=> Holds(c),
         \A c \in Opens : conn'[c] = "live" => conn[c] = "live" \/ Blank(c)
  PROVE  Lines' /\ AllSent'
<1>1. ASSUME NEW c \in Opens \ met', conn'[c] = "live" PROVE Line(c)'
  <2>1. CASE conn[c] = "live"
    BY <2>1 DEF InLine, Lines, Line, Held
  <2>2. CASE Blank(c)
    BY <2>2 DEF Blank, Line, Held, Holds, Queued
  <2>3. QED
    BY <1>1, <2>1, <2>2
<1>2. AllSent'
  BY DEF InLine, AllSent, Sent
<1>3. QED
  BY <1>1, <1>2 DEF Lines

(* What is done for the open session, after its flags are set.             *)
LEMMA SameFresh ==
  ASSUME InLine, UNCHANGED <<ui, opens, conn>>, ui \notin {"alloc", "connect", "reset"},
         \A c \in Opens \ {opens} :
           /\ tags'[c] = tags[c] /\ pushed'[c] = pushed[c] /\ wire'[c] = wire[c]
           /\ pusher'[c] = pusher[c] /\ refused'[c] = refused[c] /\ twice'[c] = twice[c],
         opens \in Nat
  PROVE  Fresh'
<1>1. ASSUME NEW c \in Opens, c > opens PROVE Blank(c)' /\ conn'[c] = "none"
  <2>1. Blank(c) /\ conn[c] = "none" /\ c # opens
    BY <1>1 DEF InLine, Fresh
  <2>2. QED
    BY <2>1 DEF Blank
<1>2. QED
  BY <1>1 DEF Fresh

LEMMA SameInLine ==
  ASSUME InLine, UNCHANGED <<ui, opens, rtmp, conn, tags, pushed, wire, pusher, holding,
                             refused, twice>>,
         met \subseteq met'
  PROVE  InLine'
<1>1. Live'
  BY DEF InLine, Live
<1>2. Fresh'
  BY DEF InLine, Fresh, Blank
<1>3. Lines' /\ AllSent'
  BY SameTags DEF Holds
<1>4. QED
  BY <1>1, <1>2, <1>3 DEF InLine

(* A step that leaves the tags where they are, and one on a queue whose    *)
(* calls have met, of which nothing is claimed.                            *)
LEMMA InsideLine ==
  ASSUME InLine, UNCHANGED <<ui, opens, rtmp, conn, tags, pushed, wire, holding>>,
         opens \in Nat, ui \notin {"alloc", "connect", "reset"}, met \subseteq met',
         \A c \in Opens : Holds(c)' <=> Holds(c),
         \A c \in Opens \ {opens} :
           pusher'[c] = pusher[c] /\ refused'[c] = refused[c] /\ twice'[c] = twice[c]
  PROVE  InLine'
<1>1. Live'
  BY DEF InLine, Live
<1>2. Fresh'
  BY SameFresh
<1>3. Lines' /\ AllSent'
  BY SameTags
<1>4. QED
  BY <1>1, <1>2, <1>3 DEF InLine

LEMMA MetLine ==
  ASSUME InLine, UNCHANGED <<ui, opens, rtmp, conn>>,
         opens \in Nat, ui \notin {"alloc", "connect", "reset"}, met \subseteq met',
         opens \in met',
         \A c \in Opens \ {opens} :
           /\ tags'[c] = tags[c] /\ pushed'[c] = pushed[c] /\ wire'[c] = wire[c]
           /\ pusher'[c] = pusher[c] /\ refused'[c] = refused[c] /\ twice'[c] = twice[c]
           /\ holding'[c] = holding[c]
  PROVE  InLine'
<1>1. Live'
  BY DEF InLine, Live
<1>2. Fresh'
  BY SameFresh
<1>3. ASSUME NEW c \in Opens \ met' PROVE Sent(c)' /\ (conn'[c] = "live" => Line(c)')
  <2>1. c \in Opens \ met /\ c # opens
    OBVIOUS
  <2>2. Sent(c) /\ (conn[c] = "live" => Line(c))
    BY <2>1 DEF InLine, Lines, AllSent
  <2>3. QED
    BY <2>1, <2>2 DEF Sent, Line, Held, Holds
<1>4. QED
  BY <1>1, <1>2, <1>3 DEF InLine, Lines, AllSent

(* A tag is pushed.                                                        *)
LEMMA PushLine ==
  ASSUME TInv, InLine, ui \notin {"alloc", "connect", "reset"},
         NEW q \in Opens, q = opens, NEW tag \in Kinds,
         pushed' = [pushed EXCEPT ![q] = Append(@, tag)],
         tags' = [tags EXCEPT ![q] = Append(@, tag)], met \subseteq met',
         UNCHANGED <<ui, opens, rtmp, conn, wire, pusher, holding, refused, twice>>
  PROVE  InLine'
<1>1. Live'
  BY DEF InLine, Live
<1>2. Fresh'
  BY SameFresh DEF TInv, TypeOK, TagType, UIType
<1>3. ASSUME NEW c \in Opens \ met'
      PROVE  Sent(c)' /\ (conn'[c] = "live" => Line(c)')
  <2>0. c \in Opens \ met
    OBVIOUS
  <2>1. CASE c # q
    BY <2>0, <2>1 DEF InLine, AllSent, Sent, Lines, Line, Held, Holds, TInv, TypeOK, TagType
  <2>2. CASE c = q
    <3>1. /\ tags[c] \in Seq(Kinds) /\ pushed[c] \in Seq(Kinds)
          /\ wire[c] \in Seq(Kinds)
      BY DEF TInv, TypeOK, TagType
    <3>2. /\ tags'[c] = Append(tags[c], tag) /\ pushed'[c] = Append(pushed[c], tag)
          /\ wire'[c] = wire[c] /\ pusher'[c] = pusher[c] /\ holding'[c] = holding[c]
      BY <2>2 DEF TInv, TypeOK, TagType
    <3>3. /\ Held(c)' = Held(c) /\ Held(c) \in {0, 1} /\ Holds(c)' = Holds(c)
          /\ Holds(c) => Held(c) = 1
      BY <3>2 DEF Held, Holds
    <3>4. Sent(c)'
      BY <2>0, <3>1, <3>2, PushFirst DEF InLine, AllSent, Sent
    <3>5. ASSUME conn'[c] = "live" PROVE Line(c)'
      <4>1. Line(c)
        BY <2>0, <3>5 DEF InLine, Lines
      <4>2. PICK h \in {0, 1} : h = Held(c)
        BY <3>3
      <4>3. Queued(pushed[c], wire[c], h, tags[c])
        BY <4>1, <4>2 DEF Line
      <4>4. Queued(Append(pushed[c], tag), wire[c], h, Append(tags[c], tag))
        <5> DEFINE p == pushed[c]  w == wire[c]  l == tags[c]
        <5>1. /\ p \in Seq(Kinds) /\ w \in Seq(Kinds) /\ l \in Seq(Kinds)
              /\ Queued(p, w, h, l)
          BY <3>1, <4>3
        <5> HIDE DEF p, w, l
        <5>2. Queued(Append(p, tag), w, h, Append(l, tag))
          BY <5>1, PushSeqs
        <5>3. QED
          BY <5>2 DEF p, w, l
      <4>5. ASSUME Held(c) = 1
            PROVE  Append(pushed[c], tag)[Len(wire[c]) + 1] = pushed[c][Len(wire[c]) + 1]
        <5> DEFINE p == pushed[c]  w == wire[c]  l == tags[c]
        <5>1. /\ p \in Seq(Kinds) /\ w \in Seq(Kinds) /\ l \in Seq(Kinds)
              /\ Queued(p, w, 1, l)
          BY <3>1, <4>1, <4>5 DEF Line
        <5> HIDE DEF p, w, l
        <5>2. Append(p, tag)[Len(w) + 1] = p[Len(w) + 1]
          BY <5>1, PushHeld
        <5>3. QED
          BY <5>2 DEF p, w
      <4>6. Queued(pushed'[c], wire'[c], Held(c)', tags'[c])
        <5>1. Held(c)' = h
          BY <3>3, <4>2
        <5>2. QED
          BY <3>2, <4>4, <5>1, Zenon
      <4>7. Holds(c)' => holding'[c] = pushed'[c][Len(wire'[c]) + 1]
        BY <3>2, <3>3, <4>1, <4>5 DEF Line
      <4>8. QED
        BY <4>6, <4>7 DEF Line
    <3>6. QED
      BY <3>4, <3>5
  <2>3. QED
    BY <2>1, <2>2
<1>4. QED
  BY <1>1, <1>2, <1>3 DEF InLine, Lines, AllSent

-----------------------------------------------------------------------------
(* An orderly step of open and close.                                      *)
LEMMA UILine ==
  ASSUME TInv, Ordered, InLine, ~fault, ~disorder', fault' = FALSE, UI
  PROVE  InLine'
<1> USE DEF Ordered, Pointers, Up, QueueUsable, InLine
<1>1. CASE OpenQueue
  <2>1. Live'
    BY <1>1 DEF OpenQueue, UiGo, Disorder, Live, TInv, TypeOK, UIType, PointerType,
       ObjectType, pointers, objects
  <2>2. Fresh'
    BY <1>1 DEF OpenQueue, UiGo, Disorder, Fresh, Blank, TInv, TypeOK, UIType, PointerType,
       ObjectType, PusherType, uiVars, objects, pusherVars, history, tagHistory
  <2>3. Lines' /\ AllSent'
    BY <1>1, SameTags DEF OpenQueue, UiGo, Disorder, Fresh, Users, Holds, TInv, TypeOK,
       UIType, PointerType, ObjectType, PusherType, uiVars, objects, pusherVars, history,
       tagHistory
  <2>4. QED
    BY <2>1, <2>2, <2>3
<1>2. CASE OpenAlloc
  <2>1. Live'
    BY <1>2 DEF OpenAlloc, UiGo, Live, TInv, TypeOK, UIType, PointerType, ObjectType,
       pointers, objects
  <2>2. Fresh'
    BY <1>2 DEF OpenAlloc, UiGo, Fresh, Blank, TInv, TypeOK, UIType, PointerType,
       ObjectType, PusherType, uiVars, objects, pusherVars, history, tagHistory
  <2>3. Lines' /\ AllSent'
    BY <1>2, SameTags DEF OpenAlloc, UiGo, Fresh, Users, Holds, TInv, TypeOK, UIType,
       PointerType, ObjectType, PusherType, uiVars, objects, pusherVars, history, tagHistory
  <2>4. QED
    BY <2>1, <2>2, <2>3
<1>3. CASE OpenConnect
  <2>1. Live'
    BY <1>3 DEF OpenConnect, UiGo, Disorder, Live, TInv, TypeOK, UIType, PointerType,
       ObjectType, pointers, objects
  <2>2. Fresh'
    BY <1>3 DEF OpenConnect, UiGo, Disorder, Fresh, Blank, TInv, TypeOK, UIType,
       PointerType, ObjectType, PusherType, uiVars, objects, pusherVars, history, tagHistory
  <2>3. Lines' /\ AllSent'
    BY <1>3, SameTags DEF OpenConnect, UiGo, Disorder, Fresh, Users, Holds, TInv, TypeOK,
       UIType, PointerType, ObjectType, PusherType, uiVars, objects, pusherVars, history,
       tagHistory
  <2>4. QED
    BY <2>1, <2>2, <2>3
<1>4. CASE OpenReset
  <2>1. Live'
    BY <1>4 DEF OpenReset, UiGo, Live, TInv, TypeOK, UIType, PointerType, ObjectType,
       pointers, objects
  <2>2. Fresh'
    BY <1>4 DEF OpenReset, UiGo, Fresh, Blank, TInv, TypeOK, UIType, PointerType,
       ObjectType, PusherType, uiVars, objects, pusherVars, history, tagHistory
  <2>3. Lines' /\ AllSent'
    BY <1>4, SameTags DEF OpenReset, UiGo, Fresh, Users, Holds, TInv, TypeOK, UIType,
       PointerType, ObjectType, PusherType, uiVars, objects, pusherVars, history, tagHistory
  <2>4. QED
    BY <2>1, <2>2, <2>3
<1>5. CASE OpenCreateThread
  <2>1. Live'
    BY <1>5 DEF OpenCreateThread, UiGo, Live, TInv, TypeOK, UIType, PointerType, ObjectType,
       pointers, objects
  <2>2. Fresh'
    BY <1>5 DEF OpenCreateThread, UiGo, Fresh, Blank, TInv, TypeOK, UIType, PointerType,
       ObjectType, PusherType, uiVars, objects, pusherVars, history, tagHistory
  <2>3. Lines' /\ AllSent'
    BY <1>5, SameTags DEF OpenCreateThread, UiGo, Fresh, Users, Holds, TInv, TypeOK, UIType,
       PointerType, ObjectType, PusherType, uiVars, objects, pusherVars, history, tagHistory
  <2>4. QED
    BY <2>1, <2>2, <2>3
<1>6. CASE OpenPushing
  <2>1. Live'
    BY <1>6 DEF OpenPushing, UiGo, Live, TInv, TypeOK, UIType, PointerType, ObjectType,
       pointers, objects
  <2>2. Fresh'
    BY <1>6 DEF OpenPushing, UiGo, Fresh, Blank, TInv, TypeOK, UIType, PointerType,
       ObjectType, PusherType, uiVars, objects, pusherVars, history, tagHistory
  <2>3. Lines' /\ AllSent'
    BY <1>6, SameTags DEF OpenPushing, UiGo, Fresh, Users, Holds, TInv, TypeOK, UIType,
       PointerType, ObjectType, PusherType, uiVars, objects, pusherVars, history, tagHistory
  <2>4. QED
    BY <2>1, <2>2, <2>3
<1>7. CASE CloseState
  <2>1. Live'
    BY <1>7 DEF CloseState, UiGo, Live, TInv, TypeOK, UIType, PointerType, ObjectType,
       pointers, objects
  <2>2. Fresh'
    BY <1>7 DEF CloseState, UiGo, Fresh, Blank, TInv, TypeOK, UIType, PointerType,
       ObjectType, PusherType, uiVars, objects, pusherVars, history, tagHistory
  <2>3. Lines' /\ AllSent'
    BY <1>7, SameTags DEF CloseState, UiGo, Fresh, Users, Holds, TInv, TypeOK, UIType,
       PointerType, ObjectType, PusherType, uiVars, objects, pusherVars, history, tagHistory
  <2>4. QED
    BY <2>1, <2>2, <2>3
<1>8. CASE CloseFree
  <2>1. Live'
    BY <1>8 DEF CloseFree, UiGo, Disorder, ConnUsable, Fault, Live, TInv, TypeOK, UIType,
       PointerType, ObjectType, pointers, objects
  <2>2. Fresh'
    BY <1>8 DEF CloseFree, UiGo, Disorder, ConnUsable, Fault, Fresh, Blank, TInv, TypeOK,
       UIType, PointerType, ObjectType, PusherType, uiVars, objects, pusherVars, history,
       tagHistory
  <2>3. Lines' /\ AllSent'
    BY <1>8, SameTags DEF CloseFree, UiGo, Disorder, ConnUsable, Fault, Fresh, Users, Holds,
       TInv, TypeOK, UIType, PointerType, ObjectType, PusherType, uiVars, objects, pusherVars,
       history, tagHistory
  <2>4. QED
    BY <2>1, <2>2, <2>3
<1>9. CASE CloseClear
  <2>1. Live'
    BY <1>9 DEF CloseClear, UiGo, Live, TInv, TypeOK, UIType, PointerType, ObjectType,
       pointers, objects
  <2>2. Fresh'
    BY <1>9 DEF CloseClear, UiGo, Fresh, Blank, TInv, TypeOK, UIType, PointerType,
       ObjectType, PusherType, uiVars, objects, pusherVars, history, tagHistory
  <2>3. Lines' /\ AllSent'
    BY <1>9, SameTags DEF CloseClear, UiGo, Fresh, Users, Holds, TInv, TypeOK, UIType,
       PointerType, ObjectType, PusherType, uiVars, objects, pusherVars, history, tagHistory
  <2>4. QED
    BY <2>1, <2>2, <2>3
<1>10. CASE CloseFreeQueue
  <2>1. /\ rtmp = Null /\ ui = "freeQueue" /\ ui' = "idle"
        /\ tags' = [tags EXCEPT ![rtmp_queue] = <<>>]
        /\ UNCHANGED <<opens, rtmp, conn, pushed, wire, pusherVars, refused, twice, met>>
    BY <1>10 DEF CloseFreeQueue, UiGo, Fault, pointers, tagHistory
  <2>2. \A c \in Opens : conn[c] # "live"
    BY <2>1 DEF Live
  <2>3. Live' /\ Lines'
    BY <2>1, <2>2 DEF Live, Lines
  <2>4. Fresh'
    BY <2>1 DEF Fresh, Blank, pusherVars, TInv, TypeOK, TagType
  <2>5. AllSent'
    BY <2>1 DEF AllSent, Sent
  <2>6. QED
    BY <2>3, <2>4, <2>5
<1>11. QED
  BY <1>1, <1>2, <1>3, <1>4, <1>5, <1>6, <1>7, <1>8, <1>9, <1>10 DEF UI,
     CloseFreeQueueBroken, Fault

(* Queues that have met are remembered.                                    *)
LEMMA MeetGrows ==
  ASSUME NEW q, NEW same, NEW other, Meet(q, same, other)
  PROVE  met \subseteq met'
BY DEF Meet

(* An orderly step of a thread that pushes a tag.                          *)
LEMMA PushesLine ==
  ASSUME TInv, Ordered, InLine, ~fault, fault' = FALSE, NEW t \in Callers, Push(t)
  PROVE  InLine'
<1>0. /\ at[t] # "out" /\ ui \notin {"alloc", "connect", "reset"} /\ opens \in Nat
      /\ rtmp_queue = opens /\ QueueUsable
  <2>1. at[t] # "out"
    BY DEF Push, PushStarved, PushRefused, PushBegin, PushLink, PushReturn, PushBroken, Mark
  <2>2. QED
    BY <2>1 DEF Ordered, Users, Pointers, TInv, TypeOK, UIType
<1>1. CASE PushStarved(t) \/ PushBroken(t)
  BY <1>1 DEF PushStarved, PushBroken, Fault
<1>2. CASE PushRefused(t)
  <2>1. UNCHANGED <<ui, opens, rtmp, conn, tags, pushed, wire, pusher, holding, twice, met>>
    BY <1>2 DEF PushRefused, uiVars, pointers, objects, pusherVars
  <2>2. \A c \in Opens \ {opens} : refused'[c] = refused[c]
    BY <1>0, <1>2 DEF PushRefused
  <2>3. QED
    BY <1>0, <2>1, <2>2, InsideLine DEF Holds
<1>3. CASE PushBegin(t)
  <2>1. /\ UNCHANGED <<ui, opens, rtmp, conn, tags, pushed, wire, pusher, holding, refused,
                       twice>>
        /\ Meet(rtmp_queue, Pushing(rtmp_queue) \ {t}, Popping(rtmp_queue))
    BY <1>0, <1>3 DEF PushBegin, uiVars, pointers, objects, pusherVars
  <2>2. QED
    BY <2>1, MeetGrows, SameInLine
<1>4. CASE PushLink(t)
  <2>1. /\ UNCHANGED <<ui, opens, rtmp, conn, wire, pusher, holding, refused, twice>>
        /\ Meet(on[t], Pushing(on[t]) \ {t}, Popping(on[t]))
        /\ pushed' = [pushed EXCEPT ![on[t]] = Append(@, next[t])]
        /\ at[t] = "link"
    BY <1>4 DEF PushLink, uiVars, pointers, pusherVars
  <2>2. on[t] = opens /\ on[t] \in Opens /\ next[t] \in Kinds
    BY <1>0, <2>1, PushingTypes DEF Ordered, Users
  <2>3. met \subseteq met'
    BY <2>1, MeetGrows
  <2>4. PICK left \in Left(on[t], Append(tags[on[t]], next[t])) :
          tags' = [tags EXCEPT ![on[t]] = left]
    BY <1>4 DEF PushLink
  <2>5. CASE on[t] \in met'
    <3>1. \A c \in Opens \ {opens} : tags'[c] = tags[c] /\ pushed'[c] = pushed[c]
      BY <2>1, <2>2, <2>4 DEF TInv, TypeOK, TagType
    <3>2. QED
      BY <1>0, <2>1, <2>2, <2>3, <2>5, <3>1, MetLine
  <2>6. CASE on[t] \notin met'
    <3>1. left = Append(tags[on[t]], next[t])
      BY <2>4, <2>6 DEF Left
    <3>2. tags' = [tags EXCEPT ![on[t]] = Append(@, next[t])]
      BY <2>2, <2>4, <3>1 DEF TInv, TypeOK, TagType
    <3>3. QED
      BY <1>0, <2>1, <2>2, <2>3, <3>2, PushLine
  <2>7. QED
    BY <2>5, <2>6
<1>5. CASE PushReturn(t)
  <2>1. /\ UNCHANGED <<ui, opens, rtmp, conn, tags, pushed, wire, pusher, holding, refused,
                       twice>>
        /\ Meet(on[t], Pushing(on[t]) \ {t}, Popping(on[t]))
    BY <1>5 DEF PushReturn, uiVars, pointers, objects, pusherVars
  <2>2. QED
    BY <2>1, MeetGrows, SameInLine
<1>6. CASE Mark(t)
  <2>1. UNCHANGED <<ui, opens, rtmp, conn, tags, pushed, wire, pusher, holding, refused,
                    twice, met>>
    BY <1>6 DEF Mark, uiVars, pointers, flags, objects, pusherVars, history, tagHistory
  <2>2. QED
    BY <2>1, SameInLine
<1>7. QED
  BY <1>1, <1>2, <1>3, <1>4, <1>5, <1>6 DEF Push

(* An orderly step that makes a thread ready to push.                      *)
LEMMA PrepareLine ==
  ASSUME TInv, Ordered, InLine, NEW t \in Callers, at[t] # "out", NEW tag, Prepare(t, tag),
         UNCHANGED <<uiVars, pointers, flags, objects, pusherVars, pushed, wire, refused,
                     met, disorder, starved, fault>>
  PROVE  InLine'
<1>1. /\ ui \notin {"alloc", "connect", "reset"} /\ opens \in Nat /\ rtmp_queue = opens
  BY DEF Ordered, Users, Pointers, TInv, TypeOK, UIType
<1>2. UNCHANGED <<ui, opens, rtmp, conn, tags, pushed, wire, pusher, holding, refused, met>>
  BY DEF uiVars, pointers, objects, pusherVars
<1>3. \A c \in Opens \ {opens} : twice'[c] = twice[c]
  BY <1>1 DEF Prepare, TInv, TypeOK, HistoryType
<1>4. QED
  BY <1>1, <1>2, <1>3, InsideLine DEF Holds

(* An orderly step of push_audio.                                          *)
LEMMA AudioLine ==
  ASSUME TInv, Ordered, InLine, ~fault, fault' = FALSE, NEW t \in AudioThreads, Audio(t)
  PROVE  InLine'
<1>0. t \in Callers
  BY DEF Callers
<1>1. CASE AudioCall(t)
  <2>1. UNCHANGED <<ui, opens, rtmp, conn, tags, pushed, wire, pusher, holding, refused,
                    twice, met>>
    BY <1>1 DEF AudioCall, uiVars, pointers, flags, objects, pusherVars, history, tagHistory
  <2>2. QED
    BY <2>1, SameInLine
<1>2. CASE AudioTest(t)
  <2>1. UNCHANGED <<ui, opens, rtmp, conn, tags, pushed, wire, pusher, holding, refused,
                    twice, met>>
    BY <1>2 DEF AudioTest, Fault, uiVars, pointers, flags, objects, pusherVars, history,
       tagHistory
  <2>2. QED
    BY <2>1, SameInLine
<1>3. CASE AudioChoose(t)
  <2>1. /\ \E tag \in {"audioRaw", "audioConfig"} : Prepare(t, tag)
        /\ at[t] # "out"
        /\ UNCHANGED <<uiVars, pointers, flags, objects, pusherVars, pushed, wire, refused,
                       met, disorder, starved, fault>>
    BY <1>3 DEF AudioChoose
  <2>2. QED
    BY <1>0, <2>1, PrepareLine
<1>4. CASE Push(t)
  BY <1>0, <1>4, PushesLine
<1>5. QED
  BY <1>1, <1>2, <1>3, <1>4 DEF Audio

(* An orderly step of push_video.                                          *)
LEMMA VideoLine ==
  ASSUME TInv, Ordered, InLine, ~fault, fault' = FALSE, NEW t \in VideoThreads, Video(t)
  PROVE  InLine'
<1>0. t \in Callers
  BY DEF Callers
<1>1. CASE VideoCall(t)
  <2>1. UNCHANGED <<ui, opens, rtmp, conn, tags, pushed, wire, pusher, holding, refused,
                    twice, met>>
    BY <1>1 DEF VideoCall, uiVars, pointers, flags, objects, pusherVars, history, tagHistory
  <2>2. QED
    BY <2>1, SameInLine
<1>2. CASE VideoReturn(t)
  <2>1. UNCHANGED <<ui, opens, rtmp, conn, tags, pushed, wire, pusher, holding, refused,
                    twice, met>>
    BY <1>2 DEF VideoReturn, uiVars, pointers, flags, objects, pusherVars, history,
       tagHistory
  <2>2. QED
    BY <2>1, SameInLine
<1>3. CASE VideoSps(t)
  <2>1. /\ UNCHANGED <<uiVars, pointers, flags, objects, pusherVars, on, calls, pushed,
                       wire, refused, met, disorder, starved, fault>>
        /\ twice' = twice \/ Prepare(t, "videoConfig")
        /\ at[t] # "out"
    BY <1>3 DEF VideoSps
  <2>2. CASE twice' = twice
    <3>1. UNCHANGED <<ui, opens, rtmp, conn, tags, pushed, wire, pusher, holding, refused,
                      twice, met>>
      BY <2>1, <2>2 DEF uiVars, pointers, objects, pusherVars
    <3>2. QED
      BY <3>1, SameInLine
  <2>3. CASE Prepare(t, "videoConfig")
    BY <1>0, <2>1, <2>3, PrepareLine
  <2>4. QED
    BY <2>1, <2>2, <2>3
<1>4. CASE VideoSlice(t)
  <2>1. /\ Prepare(t, Slice[Head(nals[t])]) /\ at[t] # "out"
        /\ UNCHANGED <<uiVars, pointers, flags, objects, pusherVars, on, calls, pushed,
                       wire, refused, met, disorder, starved, fault>>
    BY <1>4 DEF VideoSlice
  <2>2. QED
    BY <1>0, <2>1, PrepareLine
<1>5. CASE VideoSkip(t)
  <2>1. UNCHANGED <<ui, opens, rtmp, conn, tags, pushed, wire, pusher, holding, refused,
                    twice, met>>
    BY <1>5 DEF VideoSkip, uiVars, pointers, flags, objects, pusherVars, history, tagHistory
  <2>2. QED
    BY <2>1, SameInLine
<1>6. CASE Push(t)
  BY <1>0, <1>6, PushesLine
<1>7. QED
  BY <1>1, <1>2, <1>3, <1>4, <1>5, <1>6 DEF Video

(* An orderly step of a pushing thread.                                    *)
LEMMA PusherLine ==
  ASSUME TInv, Ordered, InLine, ~fault, fault' = FALSE,
         NEW d \in Opens, Pusher(d)
  PROVE  InLine'
<1>0. /\ pusher[d] \notin {"none", "tooSoon", "done"}
      /\ d = opens /\ Up(rtmp) /\ rtmp = d /\ rtmp_queue = d /\ opens \in Nat
      /\ ui \notin {"alloc", "connect", "reset", "clear"} /\ QueueUsable
      /\ pusher[d] \in {"pop", "popped"} => from[d] = d
  <2>1. pusher[d] \notin {"none", "tooSoon", "done"}
    BY DEF Pusher, PusherTest, PusherEmpty, PusherGet, PusherPop, PusherPopBroken,
       PusherReturn, PusherWrite
  <2>2. QED
    BY <2>1 DEF Ordered, Pointers, Users, Up, TInv, TypeOK, UIType
<1>1. CASE PusherTest(d)
  <2>1. /\ UNCHANGED <<ui, opens, rtmp, conn, tags, pushed, wire, holding, refused, twice>>
        /\ \A c \in Opens \ {opens} : pusher'[c] = pusher[c]
    BY <1>0, <1>1 DEF PusherTest, Fault, pointers, objects, history, tagHistory, uiVars,
       TInv, TypeOK, PusherType
  <2>2. met \subseteq met'
    BY <1>0, <1>1 DEF PusherTest, Fault, history, tagHistory
  <2>3. \A c \in Opens : Holds(c)' <=> Holds(c)
    BY <1>0, <1>1 DEF PusherTest, Holds, Fault, TInv, TypeOK, PusherType
  <2>4. QED
    BY <1>0, <2>1, <2>2, <2>3, InsideLine
<1>2. CASE PusherEmpty(d)
  <2>1. /\ UNCHANGED <<ui, opens, rtmp, conn, tags, pushed, wire, holding, refused, twice>>
        /\ \A c \in Opens \ {opens} : pusher'[c] = pusher[c]
    BY <1>0, <1>2 DEF PusherEmpty, pointers, objects, history, tagHistory, uiVars, TInv,
       TypeOK, PusherType
  <2>2. met \subseteq met'
    BY <1>0, <1>2 DEF PusherEmpty, history, tagHistory
  <2>3. \A c \in Opens : Holds(c)' <=> Holds(c)
    BY <1>0, <1>2 DEF PusherEmpty, Holds, TInv, TypeOK, PusherType
  <2>4. QED
    BY <1>0, <2>1, <2>2, <2>3, InsideLine
<1>3. CASE PusherGet(d)
  <2>1. /\ UNCHANGED <<ui, opens, rtmp, conn, tags, pushed, wire, holding, refused, twice>>
        /\ \A c \in Opens \ {opens} : pusher'[c] = pusher[c]
    BY <1>0, <1>3 DEF PusherGet, Fault, pointers, objects, history, tagHistory, uiVars,
       TInv, TypeOK, PusherType
  <2>2. met \subseteq met'
    BY <1>0, <1>3, MeetGrows DEF PusherGet, Fault, history, tagHistory
  <2>3. \A c \in Opens : Holds(c)' <=> Holds(c)
    BY <1>0, <1>3 DEF PusherGet, Holds, Fault, TInv, TypeOK, PusherType
  <2>4. QED
    BY <1>0, <2>1, <2>2, <2>3, InsideLine
<1>4. CASE PusherPop(d)
  <2>1. /\ UNCHANGED <<ui, opens, rtmp, conn, pushed, wire, refused, twice>>
        /\ pusher[d] = "pop" /\ tags[d] # <<>>
        /\ pusher' = [pusher EXCEPT ![d] = "popped"]
        /\ holding' = [holding EXCEPT ![d] = Head(tags[d])]
        /\ Meet(d, Popping(d) \ {d}, Pushing(d))
    BY <1>0, <1>4 DEF PusherPop, pointers, uiVars
  <2>2. met \subseteq met'
    BY <2>1, MeetGrows
  <2>3. PICK left \in Left(d, Tail(tags[d])) : tags' = [tags EXCEPT ![d] = left]
    BY <1>0, <1>4 DEF PusherPop
  <2>4. \A c \in Opens \ {opens} : /\ tags'[c] = tags[c] /\ pusher'[c] = pusher[c]
                                    /\ holding'[c] = holding[c]
    BY <1>0, <2>1, <2>3 DEF TInv, TypeOK, TagType, PusherType
  <2>5. CASE d \in met'
    BY <1>0, <2>1, <2>2, <2>4, <2>5, MetLine
  <2>6. CASE d \notin met'
    <3>1. tags'[d] = Tail(tags[d]) /\ holding'[d] = Head(tags[d]) /\ pusher'[d] = "popped"
      BY <2>1, <2>3, <2>6 DEF Left, TInv, TypeOK, TagType, PusherType
    <3>2. Live' /\ AllSent'
      BY <2>1, <2>2 DEF InLine, Live, AllSent, Sent
    <3>3. Fresh'
      BY <1>0, <2>1, <2>4, SameFresh
    <3>4. ASSUME NEW c \in Opens \ met', conn'[c] = "live" PROVE Line(c)'
      <4>1. c = d /\ Line(d)
        BY <1>0, <2>1, <2>2, <2>6, <3>4 DEF InLine, Live, Lines
      <4>2. /\ tags[d] \in Seq(Kinds) /\ pushed[d] \in Seq(Kinds) /\ wire[d] \in Seq(Kinds)
            /\ Held(d) = 0 /\ Held(d)' = 1
        BY <2>1, <3>1 DEF TInv, TypeOK, TagType, PusherType, Held, Holds
      <4>3. /\ Queued(pushed[d], wire[d], 1, Tail(tags[d]))
            /\ Head(tags[d]) = pushed[d][Len(wire[d]) + 1]
        <5>1. Queued(pushed[d], wire[d], 0, tags[d]) /\ tags[d] # <<>>
          BY <2>1, <4>1, <4>2 DEF Line
        <5>2. QED
          BY <4>2, <5>1, PopSeqs
      <4>4. QED
        BY <2>1, <3>1, <4>1, <4>2, <4>3 DEF Line
    <3>5. QED
      BY <3>2, <3>3, <3>4 DEF InLine, Lines
  <2>7. QED
    BY <2>5, <2>6
<1>5. CASE PusherPopBroken(d)
  <2>1. d \in met /\ pusher[d] = "pop"
    BY <1>0, <1>5 DEF PusherPopBroken, MayBreak, QueueUsable
  <2>2. /\ UNCHANGED <<ui, opens, rtmp, conn, tags, wire, refused, twice, met>>
        /\ \A c \in Opens \ {opens} : /\ pusher'[c] = pusher[c] /\ pushed'[c] = pushed[c]
                                        /\ holding'[c] = holding[c]
    <3>1. UNCHANGED <<ui, opens, rtmp, conn, tags, wire, refused, twice, met>>
      BY <1>5 DEF PusherPopBroken, Fault, uiVars, pointers, objects, history, tagHistory
    <3>2. \A c \in Opens : c # d => pusher'[c] = pusher[c]
      BY <1>5 DEF PusherPopBroken, Fault, pusherVars, TInv, TypeOK, PusherType
    <3>3. \A c \in Opens : c # d => holding'[c] = holding[c]
      BY <1>5 DEF PusherPopBroken, Fault, pusherVars, TInv, TypeOK, PusherType
    <3>4. \A c \in Opens : c # d => pushed'[c] = pushed[c]
      BY <1>0, <1>5 DEF PusherPopBroken, Fault, history, tagHistory, TInv, TypeOK, TagType
    <3>5. QED
      BY <1>0, <3>1, <3>2, <3>3, <3>4
  <2>3. QED
    BY <1>0, <2>1, <2>2, MetLine
<1>6. CASE PusherReturn(d)
  <2>1. /\ UNCHANGED <<ui, opens, rtmp, conn, tags, pushed, wire, holding, refused, twice>>
        /\ \A c \in Opens \ {opens} : pusher'[c] = pusher[c]
    BY <1>0, <1>6 DEF PusherReturn, Fault, pointers, objects, history, tagHistory, uiVars,
       TInv, TypeOK, PusherType
  <2>2. met \subseteq met'
    BY <1>0, <1>6, MeetGrows DEF PusherReturn, Fault, history, tagHistory
  <2>3. \A c \in Opens : Holds(c)' <=> Holds(c)
    BY <1>0, <1>6 DEF PusherReturn, Holds, Fault, TInv, TypeOK, PusherType
  <2>4. QED
    BY <1>0, <2>1, <2>2, <2>3, InsideLine
<1>7. CASE PusherWrite(d)
  <2>1. /\ UNCHANGED <<uiVars, rtmp, tags, pushed, refused, twice, met>>
        /\ pusher[d] = "write"
        /\ pusher' = [pusher EXCEPT ![d] = "test"]
        /\ holding' = [holding EXCEPT ![d] = NoTag]
        /\ \/ conn' = [conn EXCEPT ![d] = "lost"] /\ wire' = wire
           \/ /\ conn[d] = "live" /\ conn' = conn
              /\ wire' = [wire EXCEPT ![d] = Append(@, holding[d])]
    BY <1>0, <1>7 DEF PusherWrite, Fault, pointers, IsConnected
  <2>2. pusher'[d] = "test" /\ \A c \in Opens \ {opens} : /\ pusher'[c] = pusher[c]
                                                          /\ holding'[c] = holding[c]
    BY <1>0, <2>1 DEF TInv, TypeOK, PusherType
  <2>3. CASE conn' = [conn EXCEPT ![d] = "lost"] /\ wire' = wire
    <3>1. Live'
      BY <1>0, <2>1, <2>3 DEF InLine, Live, uiVars, TInv, TypeOK, ObjectType
    <3>2. Fresh'
      BY <1>0, <2>1, <2>2, <2>3 DEF InLine, Fresh, Blank, uiVars, TInv, TypeOK, ObjectType
    <3>3. Lines'
      BY <1>0, <2>1, <2>3, <3>1 DEF Live, Lines, uiVars, TInv, TypeOK, ObjectType
    <3>4. AllSent'
      BY <2>1, <2>3 DEF InLine, AllSent, Sent
    <3>5. QED
      BY <3>1, <3>2, <3>3, <3>4 DEF InLine
  <2>4. CASE conn[d] = "live" /\ conn' = conn
             /\ wire' = [wire EXCEPT ![d] = Append(@, holding[d])]
    <3>1. Live'
      BY <2>1, <2>4 DEF InLine, Live, uiVars
    <3>2. \A c \in Opens \ {opens} : wire'[c] = wire[c]
      BY <1>0, <2>4 DEF TInv, TypeOK, TagType
    <3>3. CASE d \in met
      BY <1>0, <2>1, <2>2, <2>4, <3>2, <3>3, MetLine DEF uiVars
    <3>4. CASE d \notin met
      <4>1. Fresh'
        BY <1>0, <2>1, <2>2, <2>4, <3>2, SameFresh DEF uiVars
      <4>2. Line(d) /\ Held(d) = 1 /\ Held(d)' = 0 /\ holding[d] \in Kinds
            /\ Sent(d) /\ Holds(d) /\ ~Holds(d)'
        BY <2>1, <2>2, <2>4, <3>4 DEF InLine, Lines, AllSent, Held, Holds, TInv, Tagged,
           HeldTag, TypeOK, PusherType
      <4>3. /\ tags[d] \in Seq(Kinds) /\ pushed[d] \in Seq(Kinds) /\ wire[d] \in Seq(Kinds)
            /\ wire'[d] = Append(wire[d], holding[d])
        BY <2>4 DEF TInv, TypeOK, TagType
      <4>4. /\ Queued(pushed[d], wire[d], 1, tags[d]) /\ FirstOf(wire[d], pushed[d])
            /\ holding[d] = pushed[d][Len(wire[d]) + 1]
        BY <4>2 DEF Line, Sent
      <4>5. /\ Queued(pushed[d], Append(wire[d], holding[d]), 0, tags[d])
            /\ FirstOf(Append(wire[d], holding[d]), pushed[d])
        BY <4>2, <4>3, <4>4, SendSeqs
      <4>6. Sent(d)' /\ Line(d)'
        BY <2>1, <4>2, <4>3, <4>5 DEF Sent, Line
      <4>7. \A c \in Opens : conn'[c] = "live" => c = d
        BY <1>0, <2>4 DEF InLine, Live
      <4>8. \A c \in Opens \ met : c # d => Sent(c)'
        BY <1>0, <2>1, <3>2 DEF InLine, AllSent, Sent
      <4>9. QED
        BY <2>1, <3>1, <4>1, <4>6, <4>7, <4>8 DEF InLine, Lines, AllSent
    <3>5. QED
      BY <3>3, <3>4
  <2>5. QED
    BY <2>1, <2>3, <2>4
<1>8. QED
  BY <1>1, <1>2, <1>3, <1>4, <1>5, <1>6, <1>7 DEF Pusher

(* A step that is undefined leaves all but the fault as it was.            *)
LEMMA FaultLine ==
  ASSUME TInv, Ordered, Next, fault', ~disorder'
  PROVE  UNCHANGED <<ui, opens, rtmp, rtmp_queue, conn, tags, pushed, wire, pusher, holding,
                     refused, twice, met, at, next, flags, disorder>>
<1>1. Fault => UNCHANGED <<ui, opens, rtmp, rtmp_queue, conn, tags, pushed, wire, pusher,
                           holding, refused, twice, met, at, next, flags, disorder>>
  BY DEF Fault, uiVars, pointers, objects, pusherVars, callVars, history, tagHistory
<1>2. ~fault
  BY DEF Next
<1>3. CASE UI
  BY <1>1, <1>2, <1>3 DEF UI, OpenQueue, OpenAlloc, OpenConnect, OpenReset,
     OpenCreateThread, OpenPushing, CloseState, CloseFree, CloseClear, CloseFreeQueue,
     CloseFreeQueueBroken
<1>4. ASSUME NEW t, Push(t)
      PROVE  Fault \/ PushStarved(t)
  BY <1>2, <1>4 DEF Push, PushRefused, PushBegin, PushLink, PushReturn, PushBroken, Mark,
     history, tagHistory
<1>5. ASSUME NEW t, PushStarved(t)
      PROVE  UNCHANGED <<ui, opens, rtmp, rtmp_queue, conn, tags, pushed, wire, pusher,
                         holding, refused, twice, met, at, next, flags, disorder>>
  BY <1>5 DEF PushStarved, uiVars, pointers, objects, pusherVars, callVars, tagHistory
<1>6. ASSUME NEW t \in AudioThreads, Audio(t) PROVE Fault \/ PushStarved(t)
  <2>1. ~AudioCall(t)
    <3>1. SUFFICES ASSUME AudioCall(t) PROVE FALSE
      OBVIOUS
    <3>2. ui = "idle" /\ (rtmp = Null \/ Up(rtmp))
      BY <3>1 DEF AudioCall, Disorder, Ordered, Pointers
    <3>3. QED
      BY <3>1, <3>2 DEF AudioCall, Up, ConnUsable
  <2>2. QED
    BY <1>2, <1>4, <1>6, <2>1 DEF Audio, AudioTest, AudioChoose
<1>7. ASSUME NEW t \in VideoThreads, Video(t) PROVE Fault \/ PushStarved(t)
  BY <1>2, <1>4, <1>7 DEF Video, VideoCall, VideoReturn, VideoSps, VideoSlice, VideoSkip
<1>8. ASSUME NEW c \in Opens, Pusher(c) PROVE Fault
  BY <1>2, <1>8 DEF Pusher, PusherTest, PusherEmpty, PusherGet, PusherPop, PusherPopBroken,
     PusherReturn, PusherWrite
<1>9. QED
  BY <1>1, <1>3, <1>5, <1>6, <1>7, <1>8 DEF Next

LEMMA NextLine == LInv /\ [Next]_vars => LInv'
<1> SUFFICES ASSUME LInv, [Next]_vars PROVE LInv'
  OBVIOUS
<1>1. OInv'
  BY NextOrdered DEF LInv
<1>2. ASSUME ~disorder' PROVE InLine'
  <2>1. CASE UNCHANGED <<ui, opens, rtmp, conn, tags, pushed, wire, pusher, holding, refused,
                         twice, met, disorder>>
    BY <1>2, <2>1, SameInLine DEF LInv
  <2>2. CASE UNCHANGED vars
    BY <2>1, <2>2 DEF vars, uiVars, pointers, objects, pusherVars, history, tagHistory
  <2>3. CASE Next /\ fault'
    <3>1. ~disorder /\ TInv
      BY <1>2, <2>3, DisorderStays DEF LInv, OInv
    <3>2. InLine /\ Ordered
      BY <3>1 DEF LInv, OInv
    <3>3. QED
      BY <1>2, <2>1, <2>3, <3>1, <3>2, FaultLine
  <2>4. CASE Next /\ ~fault'
    <3>1. ~disorder
      BY <1>2, <2>4, DisorderStays
    <3>2. TInv /\ Ordered /\ InLine /\ ~fault /\ fault' = FALSE
      BY <1>1, <1>2, <2>4, <3>1 DEF LInv, OInv, TInv, TypeOK, HistoryType, Next
    <3>3. QED
      BY <1>2, <2>4, <3>2, UILine, AudioLine, VideoLine, PusherLine DEF Next
  <2>5. QED
    BY <2>2, <2>3, <2>4
<1>3. QED
  BY <1>1, <1>2 DEF LInv

LEMMA InitLine == Init => LInv
<1> SUFFICES ASSUME Init PROVE LInv
  OBVIOUS
<1>1. OInv
  BY InitTypes DEF Init, OInv, Ordered, Pointers, Users, QueueUsable, Callers
<1>2. Live /\ Fresh
  BY DEF Init, Live, Fresh, Blank
<1>3. Lines /\ AllSent
  BY DEF Init, Lines, AllSent, Sent, FirstOf
<1>4. QED
  BY <1>1, <1>2, <1>3 DEF LInv, InLine

(* With an orderly caller the tags on a connection are the first ones      *)
(* pushed for it, in their order, if no calls met on its queue.            *)
THEOREM TagsStayInOrder == Spec => []WireInOrder
<1>1. LInv => WireInOrder
  <2> SUFFICES ASSUME LInv, ~disorder, NEW c \in Opens \ met
               PROVE  /\ Len(wire[c]) <= Len(pushed[c])
                      /\ wire[c] = SubSeq(pushed[c], 1, Len(wire[c]))
    BY DEF WireInOrder
  <2>1. Sent(c) /\ wire[c] \in Seq(Kinds) /\ pushed[c] \in Seq(Kinds)
    BY DEF LInv, InLine, AllSent, OInv, TInv, TypeOK, TagType
  <2>2. Len(wire[c]) \in Nat /\ Len(pushed[c]) \in Nat
    BY <2>1
  <2>3. \A i \in 1..Len(wire[c]) : pushed[c][i] \in Kinds
    BY <2>1, <2>2 DEF Sent, FirstOf
  <2>4. /\ SubSeq(pushed[c], 1, Len(wire[c])) \in Seq(Kinds)
        /\ Len(SubSeq(pushed[c], 1, Len(wire[c]))) = Len(wire[c])
        /\ \A i \in 1..Len(wire[c]) : SubSeq(pushed[c], 1, Len(wire[c]))[i] = pushed[c][i]
    BY <2>2, <2>3, SubSeqProperties
  <2>5. QED
    BY <2>1, <2>4, SeqEqual DEF Sent, FirstOf
<1>2. QED
  BY <1>1, InitLine, NextLine, PTL DEF Spec
-----------------------------------------------------------------------------

Has(p, k) == \E i \in 1..Len(p) : p[i] = k

Once(p, k) == \A i, j \in 1..Len(p) : p[i] = k /\ p[j] = k => i = j

RawAfter(p) == \A i \in 1..Len(p) :
  p[i] = "audioRaw" => \E j \in 1..Len(p) : j < i /\ p[j] = "audioConfig"

Configured(c) ==
  /\ \A k \in Headers \ twice[c] : Once(pushed[c], k)
  /\ "audioConfig" \in refused[c] \/ RawAfter(pushed[c])

AllConfigured == \A c \in Opens : Configured(c)

(* Whether the header k was made for the open session and its push_data    *)
(* has returned, or is past the point where the list gets it.              *)
Made(k) == Has(pushed[opens], k) \/ k \in refused[opens]

(* A thread has a tag while it pushes or marks it.                         *)
OnlyThen == \A t \in Callers :
  /\ next[t] # NoTag => at[t] \in {"push", "link", "linked", "mark"}
  /\ at[t] = "mark" => next[t] \in Headers

(* A header is with one thread at most, or counted as there twice; the     *)
(* thread that has it has not pushed it before.                            *)
OneThread == \A k \in Headers : k \notin twice[opens] => \A t \in Callers : next[t] = k =>
  /\ \A u \in Callers : next[u] = k => u = t
  /\ at[t] \in {"push", "link"} => ~Has(pushed[opens], k)

(* The flags tell what the open session was sent, except while the thread  *)
(* that pushed the configuration has not set its flag yet, and before the  *)
(* open has reset the flags of the session before.                         *)
Flag(k) == IF k = "audioConfig" THEN audio_config_ok ELSE video_config_ok

FlagFollows == \A k \in Headers : Has(pushed[opens], k) =>
  Flag(k) \/ \E t \in Callers : next[t] = k /\ at[t] \in {"linked", "mark"}

AudioMade ==
  /\ audio_config_ok /\ Up(rtmp) /\ ui # "reset" => Made("audioConfig")
  /\ \A t \in Callers :
       /\ next[t] = "audioConfig" /\ at[t] \in {"linked", "mark"} => Made("audioConfig")
       /\ next[t] = "audioRaw" => Made("audioConfig")

Flags == opens # 0 => OneThread /\ FlagFollows /\ AudioMade

Configs == AllConfigured /\ OnlyThen /\ Flags

CInv == LInv /\ (~disorder => Configs)

USE BoundAssumption, PacketAssumption DEF Opens, Null

-----------------------------------------------------------------------------
(* What a push does to a sequence of tags.                                 *)
LEMMA AppendTags ==
  ASSUME NEW p \in Seq(Kinds), NEW tag \in Kinds
  PROVE  /\ Len(p) \in Nat /\ Len(Append(p, tag)) = Len(p) + 1
         /\ \A i \in 1..Len(p) : Append(p, tag)[i] = p[i]
         /\ Append(p, tag)[Len(p) + 1] = tag
  BY AppendProperties

LEMMA AppendHas ==
  ASSUME NEW p \in Seq(Kinds), NEW tag \in Kinds, NEW k
  PROVE  Has(Append(p, tag), k) <=> Has(p, k) \/ tag = k
<1>1. ASSUME Has(Append(p, tag), k), tag # k PROVE Has(p, k)
  <2>1. PICK i \in 1..Len(Append(p, tag)) : Append(p, tag)[i] = k
    BY <1>1 DEF Has
  <2>2. i \in 1..Len(p)
    BY <1>1, <2>1, AppendTags
  <2>3. QED
    BY <2>1, <2>2, AppendTags DEF Has
<1>2. ASSUME Has(p, k) PROVE Has(Append(p, tag), k)
  <2>1. PICK i \in 1..Len(p) : p[i] = k
    BY <1>2 DEF Has
  <2>2. i \in 1..Len(Append(p, tag)) /\ Append(p, tag)[i] = k
    BY <2>1, AppendTags
  <2>3. QED
    BY <2>2 DEF Has
<1>3. ASSUME tag = k PROVE Has(Append(p, tag), k)
  <2>1. Len(p) + 1 \in 1..Len(Append(p, tag))
    BY AppendTags
  <2>2. QED
    BY <1>3, <2>1, AppendTags DEF Has
<1>4. QED
  BY <1>1, <1>2, <1>3

LEMMA AppendOnce ==
  ASSUME NEW p \in Seq(Kinds), NEW tag \in Kinds, NEW k,
         Once(p, k), tag = k => ~Has(p, k)
  PROVE  Once(Append(p, tag), k)
<1> SUFFICES ASSUME NEW i \in 1..Len(Append(p, tag)), NEW j \in 1..Len(Append(p, tag)),
                    Append(p, tag)[i] = k, Append(p, tag)[j] = k
             PROVE  i = j
  BY DEF Once
<1>1. i \in 1..Len(p) \/ i = Len(p) + 1
  BY AppendTags
<1>2. j \in 1..Len(p) \/ j = Len(p) + 1
  BY AppendTags
<1>3. CASE i \in 1..Len(p) /\ j \in 1..Len(p)
  BY <1>3, AppendTags DEF Once
<1>4. CASE i = Len(p) + 1 /\ j \in 1..Len(p)
  BY <1>4, AppendTags DEF Has
<1>5. CASE j = Len(p) + 1 /\ i \in 1..Len(p)
  BY <1>5, AppendTags DEF Has
<1>6. QED
  BY <1>1, <1>2, <1>3, <1>4, <1>5

LEMMA AppendRaw ==
  ASSUME NEW p \in Seq(Kinds), NEW tag \in Kinds,
         RawAfter(p), tag = "audioRaw" => Has(p, "audioConfig")
  PROVE  RawAfter(Append(p, tag))
<1> SUFFICES ASSUME NEW i \in 1..Len(Append(p, tag)), Append(p, tag)[i] = "audioRaw"
             PROVE  \E j \in 1..Len(Append(p, tag)) :
                      j < i /\ Append(p, tag)[j] = "audioConfig"
  BY DEF RawAfter
<1>1. i \in 1..Len(p) \/ i = Len(p) + 1
  BY AppendTags
<1>2. PICK j \in 1..Len(p) : j < i /\ p[j] = "audioConfig"
  <2>1. CASE i \in 1..Len(p)
    BY <2>1, AppendTags DEF RawAfter
  <2>2. CASE i = Len(p) + 1
    <3>1. PICK j \in 1..Len(p) : p[j] = "audioConfig"
      BY <2>2, AppendTags DEF Has
    <3>2. j < i
      BY <2>2, AppendTags
    <3>3. QED
      BY <3>1, <3>2
  <2>3. QED
    BY <1>1, <2>1, <2>2
<1>3. j \in 1..Len(Append(p, tag)) /\ Append(p, tag)[j] = "audioConfig"
  BY <1>2, AppendTags
<1>4. QED
  BY <1>2, <1>3

LEMMA EmptyHasNone == \A k : ~Has(<<>>, k)
  BY DEF Has

-----------------------------------------------------------------------------
(* A step that pushes nothing, sets no flag and gives no thread a tag.     *)
LEMMA SameConfigs ==
  ASSUME Configs, UNCHANGED <<opens, pushed, refused, twice, next, audio_config_ok,
                              video_config_ok>>,
         \A t \in Callers : at'[t] = at[t] \/ (next[t] = NoTag /\ at'[t] # "mark"),
         Up(rtmp)' /\ ui' # "reset" => Up(rtmp) /\ ui # "reset"
  PROVE  Configs'
<1>1. AllConfigured'
  BY DEF Configs, AllConfigured, Configured
<1>2. OnlyThen'
  BY DEF Configs, OnlyThen
<1>3. ASSUME opens' # 0 PROVE OneThread' /\ FlagFollows' /\ AudioMade'
  <2>0. OneThread /\ FlagFollows /\ AudioMade
    BY <1>3 DEF Configs, Flags
  <2>1. \A t \in Callers : next[t] \in Headers \cup {"audioRaw"} => at'[t] = at[t]
    BY DEF Headers, NoTag
  <2>2. OneThread'
    BY <2>0, <2>1 DEF OneThread
  <2>3. FlagFollows'
    BY <2>0, <2>1 DEF FlagFollows, Flag
  <2>4. AudioMade'
    BY <2>0, <2>1 DEF AudioMade, Made, Headers
  <2>5. QED
    BY <2>2, <2>3, <2>4
<1>4. QED
  BY <1>1, <1>2, <1>3 DEF Configs, Flags

(* A session that begins, and one whose flags are reset.                   *)
LEMMA BlankConfigs ==
  ASSUME Configs, UNCHANGED <<pushed, refused, twice, next, at>>, opens' \in Opens,
         \A t \in Callers : at[t] = "out", pushed[opens'] = <<>>,
         audio_config_ok' /\ Up(rtmp)' => ui' = "reset"
  PROVE  Configs'
<1>1. AllConfigured'
  BY DEF Configs, AllConfigured, Configured
<1>2. OnlyThen' /\ \A t \in Callers : next'[t] = NoTag
  BY DEF Configs, OnlyThen
<1>3. \A t \in Callers : next'[t] \notin Headers \cup {"audioRaw"}
  BY <1>2 DEF Headers, NoTag
<1>4. OneThread' /\ AudioMade'
  BY <1>3 DEF OneThread, AudioMade, Headers
<1>5. FlagFollows'
  BY EmptyHasNone DEF FlagFollows
<1>6. QED
  BY <1>1, <1>2, <1>4, <1>5 DEF Configs, Flags

-----------------------------------------------------------------------------
(* An orderly step of open and close.                                      *)
LEMMA UIConfigs ==
  ASSUME TInv, Ordered, InLine, Configs, ~fault, ~disorder', fault' = FALSE, UI
  PROVE  Configs'
<1> USE DEF Ordered, Pointers, Users, Up, QueueUsable
<1>1. CASE OpenQueue
  <2>1. opens + 1 \in Opens /\ opens' = opens + 1 /\ rtmp' = Null
    BY <1>1 DEF OpenQueue, UiGo, Disorder, TInv, TypeOK, UIType, PointerType
  <2>2. /\ UNCHANGED <<pushed, refused, twice, next, at>>
        /\ \A t \in Callers : at[t] = "out"
    BY <1>1 DEF OpenQueue, UiGo, Disorder, callVars, tagHistory
  <2>3. pushed[opens'] = <<>>
    BY <2>1 DEF InLine, Fresh, Blank, TInv, TypeOK, UIType
  <2>4. QED
    BY <2>1, <2>2, <2>3, BlankConfigs
<1>4. CASE OpenReset
  <2>1. opens \in Opens /\ opens' = opens /\ audio_config_ok' = FALSE
    BY <1>4 DEF OpenReset, UiGo, TInv, TypeOK, UIType, PointerType
  <2>2. /\ UNCHANGED <<pushed, refused, twice, next, at>>
        /\ \A t \in Callers : at[t] = "out"
    BY <1>4 DEF OpenReset, UiGo, callVars, history, tagHistory
  <2>3. pushed[opens'] = <<>>
    BY <1>4, <2>1 DEF OpenReset, UiGo, InLine, Fresh, Blank
  <2>4. QED
    BY <2>1, <2>2, <2>3, BlankConfigs
<1>2. CASE OpenAlloc
  <2>1. UNCHANGED <<opens, pushed, refused, twice, next, at, audio_config_ok,
                    video_config_ok>>
    BY <1>2 DEF OpenAlloc, UiGo, uiVars, flags, callVars, history, tagHistory
  <2>2. Up(rtmp)' /\ ui' # "reset" => Up(rtmp) /\ ui # "reset"
    BY <1>2 DEF OpenAlloc, UiGo, TInv, TypeOK, UIType, PointerType, ObjectType, pointers,
       objects
  <2>3. QED
    BY <2>1, <2>2, SameConfigs
<1>3. CASE OpenConnect
  <2>1. UNCHANGED <<opens, pushed, refused, twice, next, at, audio_config_ok,
                    video_config_ok>>
    BY <1>3 DEF OpenConnect, UiGo, Disorder, uiVars, flags, callVars, history, tagHistory
  <2>2. Up(rtmp)' /\ ui' # "reset" => Up(rtmp) /\ ui # "reset"
    BY <1>3 DEF OpenConnect, UiGo, Disorder, TInv, TypeOK, UIType, PointerType, ObjectType,
       pointers, objects
  <2>3. QED
    BY <2>1, <2>2, SameConfigs
<1>5. CASE OpenCreateThread
  <2>1. UNCHANGED <<opens, pushed, refused, twice, next, at, audio_config_ok,
                    video_config_ok>>
    BY <1>5 DEF OpenCreateThread, UiGo, uiVars, flags, callVars, history, tagHistory
  <2>2. Up(rtmp)' /\ ui' # "reset" => Up(rtmp) /\ ui # "reset"
    BY <1>5 DEF OpenCreateThread, UiGo, TInv, TypeOK, UIType, PointerType, ObjectType,
       pointers, objects
  <2>3. QED
    BY <2>1, <2>2, SameConfigs
<1>6. CASE OpenPushing
  <2>1. UNCHANGED <<opens, pushed, refused, twice, next, at, audio_config_ok,
                    video_config_ok>>
    BY <1>6 DEF OpenPushing, UiGo, uiVars, flags, callVars, history, tagHistory
  <2>2. Up(rtmp)' /\ ui' # "reset" => Up(rtmp) /\ ui # "reset"
    BY <1>6 DEF OpenPushing, UiGo, TInv, TypeOK, UIType, PointerType, ObjectType, pointers,
       objects
  <2>3. QED
    BY <2>1, <2>2, SameConfigs
<1>7. CASE CloseState
  <2>1. UNCHANGED <<opens, pushed, refused, twice, next, at, audio_config_ok,
                    video_config_ok>>
    BY <1>7 DEF CloseState, UiGo, uiVars, flags, callVars, history, tagHistory
  <2>2. Up(rtmp)' /\ ui' # "reset" => Up(rtmp) /\ ui # "reset"
    BY <1>7 DEF CloseState, UiGo, TInv, TypeOK, UIType, PointerType, ObjectType, pointers,
       objects
  <2>3. QED
    BY <2>1, <2>2, SameConfigs
<1>8. CASE CloseFree
  <2>1. UNCHANGED <<opens, pushed, refused, twice, next, at, audio_config_ok,
                    video_config_ok>>
    BY <1>8 DEF CloseFree, UiGo, Disorder, Fault, ConnUsable, uiVars, flags, callVars,
       history, tagHistory
  <2>2. Up(rtmp)' /\ ui' # "reset" => Up(rtmp) /\ ui # "reset"
    BY <1>8 DEF CloseFree, UiGo, Disorder, Fault, ConnUsable, TInv, TypeOK, UIType,
       PointerType, ObjectType, pointers, objects
  <2>3. QED
    BY <2>1, <2>2, SameConfigs
<1>9. CASE CloseClear
  <2>1. UNCHANGED <<opens, pushed, refused, twice, next, at, audio_config_ok,
                    video_config_ok>>
    BY <1>9 DEF CloseClear, UiGo, uiVars, flags, callVars, history, tagHistory
  <2>2. Up(rtmp)' /\ ui' # "reset" => Up(rtmp) /\ ui # "reset"
    BY <1>9 DEF CloseClear, UiGo, TInv, TypeOK, UIType, PointerType, ObjectType, pointers,
       objects
  <2>3. QED
    BY <2>1, <2>2, SameConfigs
<1>10. CASE CloseFreeQueue
  <2>1. UNCHANGED <<opens, pushed, refused, twice, next, at, audio_config_ok,
                    video_config_ok>>
    BY <1>10 DEF CloseFreeQueue, UiGo, Disorder, Fault, uiVars, flags, callVars, history,
       tagHistory
  <2>2. Up(rtmp)' /\ ui' # "reset" => Up(rtmp) /\ ui # "reset"
    BY <1>10 DEF CloseFreeQueue, UiGo, Disorder, Fault, TInv, TypeOK, UIType, PointerType,
       ObjectType, pointers, objects
  <2>3. QED
    BY <2>1, <2>2, SameConfigs
<1>11. QED
  BY <1>1, <1>2, <1>3, <1>4, <1>5, <1>6, <1>7, <1>8, <1>9, <1>10 DEF UI,
     CloseFreeQueueBroken, Fault

-----------------------------------------------------------------------------
(* A tag gets on the list.                                                 *)
LEMMA LinkConfigs ==
  ASSUME TInv, Configs, opens \in Opens, NEW u \in Callers, at[u] = "link",
         at' = [at EXCEPT ![u] = "linked"],
         pushed' = [pushed EXCEPT ![opens] = Append(@, next[u])],
         UNCHANGED <<ui, opens, rtmp, conn, next, refused, twice, audio_config_ok,
                     video_config_ok>>
  PROVE  Configs'
<1> DEFINE p == pushed[opens]
<1>1. p \in Seq(Kinds) /\ next[u] \in Kinds /\ next[u] # NoTag
  BY DEF TInv, TypeOK, TagType, CallType, Tagged, NextTag
<1>2. /\ pushed'[opens] = Append(p, next[u])
      /\ \A c \in Opens : c # opens => pushed'[c] = pushed[c]
  BY DEF TInv, TypeOK, TagType
<1>3. \A t \in Callers : at'[t] = IF t = u THEN "linked" ELSE at[t]
  BY DEF TInv, TypeOK, CallType
<1>4. OneThread /\ FlagFollows /\ AudioMade
  BY DEF Configs, Flags
<1>5. \A k : Has(pushed'[opens], k) <=> Has(p, k) \/ next[u] = k
  BY <1>1, <1>2, AppendHas
<1>6. AllConfigured'
  <2>1. ASSUME NEW c \in Opens, c # opens PROVE Configured(c)'
    BY <1>2, <2>1 DEF Configs, AllConfigured, Configured
  <2>2. ASSUME NEW k \in Headers, k \notin twice[opens] PROVE Once(pushed'[opens], k)
    <3>1. Once(p, k)
      BY <2>2 DEF Configs, AllConfigured, Configured
    <3>2. next[u] = k => ~Has(p, k)
      BY <1>4, <2>2 DEF OneThread
    <3>3. QED
      BY <1>1, <1>2, <3>1, <3>2, AppendOnce
  <2>3. ASSUME "audioConfig" \notin refused[opens] PROVE RawAfter(pushed'[opens])
    <3>1. RawAfter(p)
      BY <2>3 DEF Configs, AllConfigured, Configured
    <3>2. next[u] = "audioRaw" => Has(p, "audioConfig")
      BY <1>4, <2>3 DEF AudioMade, Made
    <3>3. QED
      BY <1>1, <1>2, <3>1, <3>2, AppendRaw
  <2>4. Configured(opens)'
    BY <2>2, <2>3 DEF Configured
  <2>5. QED
    BY <2>1, <2>4 DEF AllConfigured
<1>7. OnlyThen'
  BY <1>3 DEF Configs, OnlyThen
<1>8. OneThread'
  BY <1>3, <1>4, <1>5 DEF OneThread
<1>9. FlagFollows'
  BY <1>3, <1>4, <1>5 DEF FlagFollows, Flag
<1>10. AudioMade'
  <2>1. Made("audioConfig") \/ next[u] = "audioConfig" => Made("audioConfig")'
    BY <1>5 DEF Made
  <2>2. QED
    BY <1>3, <1>4, <2>1 DEF AudioMade, Up
<1>11. QED
  BY <1>6, <1>7, <1>8, <1>9, <1>10 DEF Configs, Flags

(* push_data returns.                                                      *)
LEMMA GoOnConfigs ==
  ASSUME TInv, Configs, opens \in Opens, NEW t \in Callers, GoOn(t),
         (at[t] = "push" /\ next[t] \in refused'[opens]) \/ at[t] = "linked",
         \A c \in Opens : refused[c] \subseteq refused'[c],
         UNCHANGED <<ui, opens, rtmp, conn, pushed, twice, audio_config_ok,
                     video_config_ok>>
  PROVE  Configs'
<1>1. next[t] # NoTag /\ \A u \in Callers : u # t => at'[u] = at[u] /\ next'[u] = next[u]
  BY DEF GoOn, TInv, TypeOK, CallType, Tagged, NextTag
<1>2. /\ next[t] \in Headers => next'[t] = next[t] /\ at'[t] = "mark"
      /\ next[t] \notin Headers => next'[t] = NoTag /\ at'[t] # "mark"
  BY DEF GoOn, After, Headers, TInv, TypeOK, CallType
<1>3. OneThread /\ FlagFollows /\ AudioMade
  BY DEF Configs, Flags
<1>4. AllConfigured'
  BY DEF Configs, AllConfigured, Configured
<1>5. OnlyThen'
  BY <1>1, <1>2 DEF Configs, OnlyThen
<1>6. \A u \in Callers, k \in Headers : next'[u] = k <=> next[u] = k
  BY <1>1, <1>2 DEF Headers, NoTag
<1>7. OneThread'
  <2>1. \A u \in Callers : next'[u] \in Headers /\ at'[u] \in {"push", "link"}
          => u # t
    BY <1>1, <1>2, <1>6
  <2>2. QED
    BY <1>1, <1>3, <1>6, <2>1 DEF OneThread
<1>8. FlagFollows'
  <2>1. \A u \in Callers : next[u] \in Headers /\ at[u] \in {"linked", "mark"}
          => at'[u] \in {"linked", "mark"}
    BY <1>1, <1>2
  <2>2. QED
    BY <1>3, <1>6, <2>1 DEF FlagFollows, Flag
<1>9. AudioMade'
  <2>1. Made("audioConfig") => Made("audioConfig")'
    BY DEF Made
  <2>2. next[t] = "audioConfig" => Made("audioConfig")'
    BY <1>3, <2>1 DEF AudioMade, Made
  <2>3. audio_config_ok' /\ Up(rtmp)' /\ ui' # "reset" => Made("audioConfig")'
    BY <1>3, <2>1 DEF AudioMade, Up
  <2>4. ASSUME NEW u \in Callers
        PROVE  /\ next'[u] = "audioConfig" /\ at'[u] \in {"linked", "mark"}
                     => Made("audioConfig")'
               /\ next'[u] = "audioRaw" => Made("audioConfig")'
    <3>1. CASE u = t
      BY <1>2, <2>2, <3>1 DEF Headers, NoTag
    <3>2. CASE u # t
      BY <1>1, <1>3, <2>1, <3>2 DEF AudioMade
    <3>3. QED
      BY <3>1, <3>2
  <2>5. QED
    BY <2>3, <2>4 DEF AudioMade
<1>10. QED
  BY <1>4, <1>5, <1>7, <1>8, <1>9 DEF Configs, Flags

(* The flag is set.                                                        *)
LEMMA MarkConfigs ==
  ASSUME TInv, Configs, opens \in Opens, NEW t \in Callers, Mark(t)
  PROVE  Configs'
<1>1. /\ UNCHANGED <<ui, opens, rtmp, conn, pushed, refused, twice>>
      /\ at[t] = "mark" /\ next[t] \in Headers /\ at'[t] # "mark" /\ next'[t] = NoTag
  BY DEF Mark, Headers, uiVars, pointers, objects, history, tagHistory, TInv, TypeOK,
     CallType
<1>2. \A u \in Callers : u # t => at'[u] = at[u] /\ next'[u] = next[u]
  BY DEF Mark, TInv, TypeOK, CallType
<1>3. \A k \in Headers : Flag(k) \/ k = next[t] => Flag(k)'
  <2>1. CASE next[t] = "audioConfig"
    <3>1. audio_config_ok' = TRUE /\ video_config_ok' = video_config_ok
      BY <2>1 DEF Mark
    <3>2. QED
      BY <2>1, <3>1 DEF Flag, Headers
  <2>2. CASE next[t] = "videoConfig"
    <3>1. video_config_ok' = TRUE /\ audio_config_ok' = audio_config_ok
      BY <2>2 DEF Mark
    <3>2. QED
      BY <2>2, <3>1 DEF Flag, Headers
  <2>3. QED
    BY <1>1, <2>1, <2>2 DEF Headers
<1>4. audio_config_ok' => audio_config_ok \/ next[t] = "audioConfig"
  BY DEF Mark
<1>5. OneThread /\ FlagFollows /\ AudioMade
  BY DEF Configs, Flags
<1>6. AllConfigured'
  BY <1>1 DEF Configs, AllConfigured, Configured
<1>7. OnlyThen'
  BY <1>1, <1>2 DEF Configs, OnlyThen
<1>8. \A u \in Callers, k \in Headers : next'[u] = k => u # t /\ next[u] = k /\ at'[u] = at[u]
  BY <1>1, <1>2 DEF Headers, NoTag
<1>9. OneThread'
  BY <1>1, <1>5, <1>8 DEF OneThread
<1>10. FlagFollows'
  <2>1. ASSUME NEW k \in Headers, Has(pushed[opens], k), ~Flag(k)'
        PROVE  \E u \in Callers : next'[u] = k /\ at'[u] \in {"linked", "mark"}
    <3>1. k # next[t] /\ ~Flag(k)
      BY <1>3, <2>1
    <3>2. PICK u \in Callers : next[u] = k /\ at[u] \in {"linked", "mark"}
      BY <1>5, <2>1, <3>1 DEF FlagFollows
    <3>3. QED
      BY <1>2, <3>1, <3>2
  <2>2. QED
    BY <1>1, <2>1 DEF FlagFollows
<1>11. AudioMade'
  <2>1. Made("audioConfig")' = Made("audioConfig")
    BY <1>1 DEF Made
  <2>2. audio_config_ok' /\ Up(rtmp)' /\ ui' # "reset" => Made("audioConfig")
    BY <1>1, <1>4, <1>5 DEF AudioMade, Up
  <2>3. \A u \in Callers :
          /\ next'[u] = "audioConfig" /\ at'[u] \in {"linked", "mark"} => Made("audioConfig")
          /\ next'[u] = "audioRaw" => Made("audioConfig")
    BY <1>1, <1>2, <1>5 DEF AudioMade, NoTag
  <2>4. QED
    BY <2>1, <2>2, <2>3 DEF AudioMade
<1>12. QED
  BY <1>6, <1>7, <1>9, <1>10, <1>11 DEF Configs, Flags

(* A thread goes on to push a tag, a header only if its flag is not set and *)
(* raw audio only if it is.                                                *)
LEMMA PrepareConfigs ==
  ASSUME TInv, Ordered, Configs, opens \in Opens, NEW t \in Callers,
         at[t] \in {"choose", "next"}, NEW tag \in Kinds, Prepare(t, tag),
         tag \in Headers => ~Flag(tag),
         tag = "audioRaw" => audio_config_ok /\ Up(rtmp) /\ ui # "reset",
         UNCHANGED <<uiVars, pointers, flags, objects, pushed, refused>>
  PROVE  Configs'
<1>1. UNCHANGED <<ui, opens, rtmp, conn, audio_config_ok, video_config_ok>>
  BY DEF uiVars, pointers, flags, objects
<1>2. /\ at'[t] = "push" /\ next'[t] = tag /\ next[t] = NoTag
      /\ \A u \in Callers : u # t => at'[u] = at[u] /\ next'[u] = next[u]
  BY DEF Prepare, Configs, OnlyThen, TInv, TypeOK, CallType
<1>3. /\ \A c \in Opens : twice[c] \subseteq twice'[c]
      /\ tag \in Headers /\ (\E u \in Callers \ {t} : next[u] = tag)
           => tag \in twice'[opens]
  BY DEF Prepare, Ordered, Pointers
<1>4. OneThread /\ FlagFollows /\ AudioMade
  BY DEF Configs, Flags
<1>5. AllConfigured'
  BY <1>3 DEF Configs, AllConfigured, Configured
<1>6. OnlyThen'
  BY <1>2 DEF Configs, OnlyThen
<1>7. OneThread'
  <2>1. ASSUME NEW k \in Headers, k \notin twice'[opens], NEW v \in Callers, next'[v] = k
        PROVE  /\ \A u \in Callers : next'[u] = k => u = v
               /\ at'[v] \in {"push", "link"} => ~Has(pushed[opens], k)
    <3>1. k \notin twice[opens]
      BY <1>3, <2>1
    <3>2. CASE v = t
      <4>1. tag = k /\ ~Flag(k) /\ \A u \in Callers : u # t => next[u] # k
        BY <1>2, <1>3, <2>1, <3>2
      <4>2. ~Has(pushed[opens], k)
        BY <1>2, <1>4, <4>1 DEF FlagFollows, Headers, NoTag
      <4>3. QED
        BY <1>2, <3>2, <4>1, <4>2
    <3>3. CASE v # t
      <4>1. next[v] = k /\ at'[v] = at[v]
        BY <1>2, <2>1, <3>3
      <4>2. tag # k
        BY <1>3, <2>1, <3>3, <4>1
      <4>3. QED
        BY <1>2, <1>4, <3>1, <4>1, <4>2 DEF OneThread
    <3>4. QED
      BY <3>2, <3>3
  <2>2. QED
    BY <1>1, <2>1 DEF OneThread
<1>8. FlagFollows'
  <2>1. ASSUME NEW k \in Headers, Has(pushed[opens], k), ~Flag(k)
        PROVE  \E u \in Callers : next'[u] = k /\ at'[u] \in {"linked", "mark"}
    <3>1. PICK u \in Callers : next[u] = k /\ at[u] \in {"linked", "mark"}
      BY <1>4, <2>1 DEF FlagFollows
    <3>2. u # t
      BY <1>2, <3>1 DEF Headers, NoTag
    <3>3. QED
      BY <1>2, <3>1, <3>2
  <2>2. QED
    BY <1>1, <2>1 DEF FlagFollows, Flag
<1>9. AudioMade'
  <2>1. Made("audioConfig")' = Made("audioConfig")
    BY <1>1 DEF Made
  <2>2. QED
    BY <1>1, <1>2, <1>4, <2>1 DEF AudioMade, Up
<1>10. QED
  BY <1>5, <1>6, <1>7, <1>8, <1>9 DEF Configs, Flags

-----------------------------------------------------------------------------
(* An orderly step of a thread that pushes a tag.                          *)
LEMMA PushConfigs ==
  ASSUME TInv, Ordered, Configs, ~fault, fault' = FALSE, NEW t \in Callers, Push(t)
  PROVE  Configs'
<1>0. opens \in Opens /\ rtmp_queue = opens
  <2>1. at[t] # "out"
    BY DEF Push, PushStarved, PushRefused, PushBegin, PushLink, PushReturn, PushBroken, Mark
  <2>2. QED
    BY <2>1 DEF Ordered, Users, Pointers, QueueUsable, TInv, TypeOK, PointerType, UIType
<1>1. CASE PushStarved(t) \/ PushBroken(t)
  BY <1>1 DEF PushStarved, PushBroken, Fault
<1>2. CASE PushRefused(t)
  <2>1. /\ UNCHANGED <<ui, opens, rtmp, conn, pushed, twice, audio_config_ok,
                       video_config_ok>>
        /\ GoOn(t) /\ at[t] = "push"
    BY <1>2 DEF PushRefused, uiVars, pointers, flags, objects
  <2>2. next[t] \in refused'[opens] /\ \A c \in Opens : refused[c] \subseteq refused'[c]
    BY <1>0, <1>2 DEF PushRefused
  <2>3. QED
    BY <1>0, <2>1, <2>2, GoOnConfigs
<1>3. CASE PushBegin(t)
  <2>1. /\ UNCHANGED <<ui, opens, rtmp, conn, pushed, refused, twice, next,
                       audio_config_ok, video_config_ok>>
        /\ at[t] = "push" /\ at' = [at EXCEPT ![t] = "link"]
    BY <1>3 DEF PushBegin, Fault, uiVars, pointers, flags, objects
  <2>2. at'[t] = "link" /\ \A u \in Callers : u # t => at'[u] = at[u]
    BY <2>1 DEF TInv, TypeOK, CallType
  <2>3. OneThread /\ FlagFollows /\ AudioMade
    BY <1>0 DEF Configs, Flags
  <2>4. AllConfigured' /\ OnlyThen'
    BY <2>1, <2>2 DEF Configs, AllConfigured, Configured, OnlyThen
  <2>5. OneThread'
    BY <2>1, <2>2, <2>3 DEF OneThread
  <2>6. FlagFollows'
    BY <2>1, <2>2, <2>3 DEF FlagFollows, Flag
  <2>7. AudioMade'
    BY <2>1, <2>2, <2>3 DEF AudioMade, Made, Up
  <2>8. QED
    BY <2>4, <2>5, <2>6, <2>7 DEF Configs, Flags
<1>4. CASE PushLink(t)
  <2>1. /\ UNCHANGED <<ui, opens, rtmp, conn, next, refused, twice, audio_config_ok,
                       video_config_ok>>
        /\ at[t] = "link" /\ at' = [at EXCEPT ![t] = "linked"]
        /\ pushed' = [pushed EXCEPT ![on[t]] = Append(@, next[t])]
    BY <1>4 DEF PushLink, uiVars, pointers, flags
  <2>2. on[t] = opens
    BY <1>0, <2>1 DEF Ordered, Users
  <2>3. QED
    BY <1>0, <2>1, <2>2, LinkConfigs
<1>5. CASE PushReturn(t)
  <2>1. /\ UNCHANGED <<ui, opens, rtmp, conn, pushed, refused, twice, audio_config_ok,
                       video_config_ok>>
        /\ GoOn(t) /\ at[t] = "linked"
    BY <1>5 DEF PushReturn, uiVars, pointers, flags, objects
  <2>2. QED
    BY <1>0, <2>1, GoOnConfigs
<1>6. CASE Mark(t)
  BY <1>0, <1>6, MarkConfigs
<1>7. QED
  BY <1>1, <1>2, <1>3, <1>4, <1>5, <1>6 DEF Push

(* An orderly step of push_audio.                                          *)
LEMMA AudioConfigs ==
  ASSUME TInv, Ordered, Configs, ~fault, ~disorder', fault' = FALSE, NEW t \in AudioThreads,
         Audio(t)
  PROVE  Configs'
<1>0. t \in Callers
  BY DEF Callers
<1>1. CASE AudioCall(t) \/ AudioTest(t)
  <2>1. /\ UNCHANGED <<ui, opens, rtmp, conn, pushed, refused, twice, next,
                       audio_config_ok, video_config_ok>>
        /\ at[t] \in {"out", "inside"}
        /\ \E w \in {"out", "inside", "choose"} : at' = [at EXCEPT ![t] = w]
    BY <1>1 DEF AudioCall, AudioTest, Fault, uiVars, pointers, flags, objects, history,
       tagHistory
  <2>2. next[t] = NoTag
    BY <1>0, <2>1 DEF Configs, OnlyThen
  <2>3. at'[t] # "mark" /\ \A u \in Callers : u # t => at'[u] = at[u]
    BY <1>0, <2>1 DEF TInv, TypeOK, CallType
  <2>4. QED
    BY <2>1, <2>2, <2>3, SameConfigs DEF Up
<1>2. CASE AudioChoose(t)
  <2>1. /\ opens \in Opens /\ Up(rtmp) /\ ui # "reset" /\ at[t] = "choose"
    BY <1>0, <1>2 DEF AudioChoose, Ordered, Users, Pointers, QueueUsable, TInv, TypeOK,
       PointerType, UIType
  <2>2. UNCHANGED <<uiVars, pointers, flags, objects, pushed, refused>>
    BY <1>2 DEF AudioChoose
  <2>3. CASE audio_config_ok
    <3>1. Prepare(t, "audioRaw") /\ "audioRaw" \in Kinds /\ "audioRaw" \notin Headers
      BY <1>2, <2>3 DEF AudioChoose, Kinds, Headers
    <3>2. QED
      BY <1>0, <2>1, <2>2, <2>3, <3>1, PrepareConfigs
  <2>4. CASE ~audio_config_ok
    <3>1. /\ Prepare(t, "audioConfig") /\ "audioConfig" \in Kinds
          /\ "audioConfig" # "audioRaw" /\ ~Flag("audioConfig")
      BY <1>2, <2>4 DEF AudioChoose, Kinds, Flag
    <3>2. QED
      BY <1>0, <2>1, <2>2, <3>1, PrepareConfigs
  <2>5. QED
    BY <2>3, <2>4
<1>3. CASE Push(t)
  BY <1>0, <1>3, PushConfigs
<1>4. QED
  BY <1>1, <1>2, <1>3 DEF Audio

(* An orderly step of push_video.                                          *)
LEMMA VideoConfigs ==
  ASSUME TInv, Ordered, Configs, ~fault, ~disorder', fault' = FALSE, NEW t \in VideoThreads,
         Video(t)
  PROVE  Configs'
<1>0. t \in Callers
  BY DEF Callers
<1>1. ASSUME UNCHANGED <<uiVars, pointers, flags, objects, pushed, refused, twice, next>>,
             at[t] \in {"out", "next"},
             at' = at \/ \E w \in {"out", "next"} : at' = [at EXCEPT ![t] = w]
      PROVE  Configs'
  <2>1. UNCHANGED <<ui, opens, rtmp, conn, pushed, refused, twice, next, audio_config_ok,
                    video_config_ok>>
    BY <1>1 DEF uiVars, pointers, flags, objects
  <2>2. next[t] = NoTag
    BY <1>0, <1>1 DEF Configs, OnlyThen
  <2>3. at'[t] # "mark" /\ \A u \in Callers : u # t => at'[u] = at[u]
    BY <1>0, <1>1 DEF TInv, TypeOK, CallType
  <2>4. QED
    BY <2>1, <2>2, <2>3, SameConfigs DEF Up
<1>2. CASE VideoCall(t)
  BY <1>1, <1>2 DEF VideoCall, tagHistory
<1>3. CASE VideoReturn(t)
  BY <1>1, <1>3 DEF VideoReturn, history, tagHistory
<1>4. CASE VideoSkip(t)
  BY <1>1, <1>4 DEF VideoSkip, history, tagHistory
<1>5. CASE VideoSps(t)
  <2>1. /\ at[t] = "next" /\ ~Flag("videoConfig") /\ "videoConfig" \in Kinds
        /\ "videoConfig" # "audioRaw"
        /\ UNCHANGED <<uiVars, pointers, flags, objects, pushed, refused>>
    BY <1>5 DEF VideoSps, Flag, Kinds
  <2>2. \/ Prepare(t, "videoConfig")
        \/ at' = [at EXCEPT ![t] = "out"] /\ UNCHANGED <<next, twice>>
    BY <1>5 DEF VideoSps
  <2>3. opens \in Opens
    BY <1>0, <2>1 DEF Ordered, Users, Pointers, QueueUsable, TInv, TypeOK, PointerType,
       UIType
  <2>4. QED
    BY <1>0, <1>1, <2>1, <2>2, <2>3, PrepareConfigs
<1>6. CASE VideoSlice(t)
  <2>1. \E tag \in {"keyFrame", "interFrame"} : Prepare(t, tag)
    BY <1>6 DEF VideoSlice, Slice
  <2>2. at[t] = "next" /\ UNCHANGED <<uiVars, pointers, flags, objects, pushed, refused>>
    BY <1>6 DEF VideoSlice
  <2>3. opens \in Opens
    BY <1>0, <2>2 DEF Ordered, Users, Pointers, QueueUsable, TInv, TypeOK, PointerType,
       UIType
  <2>4. QED
    BY <1>0, <2>1, <2>2, <2>3, PrepareConfigs DEF Kinds, Headers
<1>7. CASE Push(t)
  BY <1>0, <1>7, PushConfigs
<1>8. QED
  BY <1>2, <1>3, <1>4, <1>5, <1>6, <1>7 DEF Video

(* An orderly step of a pushing thread.                                    *)
LEMMA PusherConfigs ==
  ASSUME TInv, Ordered, Configs, ~fault, fault' = FALSE, NEW d \in Opens, Pusher(d)
  PROVE  Configs'
<1>1. ASSUME UNCHANGED <<uiVars, rtmp, flags, callVars, pushed, refused, twice>>,
             Up(rtmp)' => Up(rtmp)
      PROVE  Configs'
  <2>1. UNCHANGED <<ui, opens, pushed, refused, twice, next, at, audio_config_ok,
                    video_config_ok>>
    BY <1>1 DEF uiVars, flags, callVars
  <2>2. QED
    BY <1>1, <2>1, SameConfigs
<1>2. CASE PusherTest(d) \/ PusherEmpty(d) \/ PusherGet(d) \/ PusherPop(d) \/ PusherReturn(d)
  <2>1. UNCHANGED <<uiVars, rtmp, conn, flags, callVars, pushed, refused, twice>>
    BY <1>2 DEF PusherTest, PusherEmpty, PusherGet, PusherPop, PusherReturn, Fault,
       pointers, objects, history, tagHistory
  <2>2. QED
    BY <1>1, <2>1 DEF Up
<1>3. CASE PusherWrite(d)
  <2>1. UNCHANGED <<uiVars, rtmp, flags, callVars, pushed, refused, twice>>
    BY <1>3 DEF PusherWrite, Fault, pointers
  <2>2. Up(rtmp)' => Up(rtmp)
    BY <1>3 DEF PusherWrite, Fault, pointers, ConnUsable, Up, TInv, TypeOK, ObjectType,
       Ordered, Users
  <2>3. QED
    BY <1>1, <2>1, <2>2
<1>4. CASE PusherPopBroken(d)
  <2>1. opens \in Opens /\ from[d] = opens
    BY <1>4 DEF PusherPopBroken, Ordered, Users, Pointers, TInv, TypeOK, UIType
  <2>2. CASE UNCHANGED <<uiVars, pointers, objects, flags, callVars, history>>
    BY <1>1, <2>2 DEF pointers, objects, history, tagHistory, Up
  <2>3. CASE /\ UNCHANGED <<uiVars, pointers, objects, flags, next, refused, twice>>
             /\ \E t \in Callers :
                  /\ at[t] = "link" /\ at' = [at EXCEPT ![t] = "linked"]
                  /\ pushed' = [pushed EXCEPT ![from[d]] = Append(@, next[t])]
    <3>1. UNCHANGED <<ui, opens, rtmp, conn, next, refused, twice, audio_config_ok,
                      video_config_ok>>
      BY <2>3 DEF uiVars, pointers, objects, flags
    <3>2. QED
      BY <2>1, <2>3, <3>1, LinkConfigs
  <2>4. QED
    BY <1>4, <2>2, <2>3 DEF PusherPopBroken, Fault, Pushing
<1>5. QED
  BY <1>2, <1>3, <1>4 DEF Pusher

LEMMA NextConfigs == CInv /\ [Next]_vars => CInv'
<1> SUFFICES ASSUME CInv, [Next]_vars PROVE CInv'
  OBVIOUS
<1>1. LInv'
  BY NextLine DEF CInv
<1>2. ASSUME ~disorder' PROVE Configs'
  <2>1. CASE UNCHANGED <<ui, opens, rtmp, conn, pushed, refused, twice, next, at, flags,
                         disorder>>
    BY <1>2, <2>1, SameConfigs DEF CInv, flags, Up
  <2>2. CASE UNCHANGED vars
    BY <2>1, <2>2 DEF vars, uiVars, pointers, objects, callVars, history, tagHistory
  <2>3. CASE Next /\ fault'
    <3>1. ~disorder /\ TInv /\ Ordered
      BY <1>2, <2>3, DisorderStays DEF CInv, LInv, OInv
    <3>2. QED
      BY <1>2, <2>1, <2>3, <3>1, FaultLine
  <2>4. CASE Next /\ ~fault'
    <3>1. ~disorder
      BY <1>2, <2>4, DisorderStays
    <3>2. TInv /\ Ordered /\ InLine /\ Configs /\ ~fault /\ fault' = FALSE
      BY <1>1, <1>2, <2>4, <3>1 DEF CInv, LInv, OInv, TInv, TypeOK, HistoryType, Next
    <3>3. QED
      BY <1>2, <2>4, <3>2, UIConfigs, AudioConfigs, VideoConfigs, PusherConfigs DEF Next
  <2>5. QED
    BY <2>2, <2>3, <2>4
<1>3. QED
  BY <1>1, <1>2 DEF CInv

(* With an orderly caller a connection gets each header once at most,      *)
(* unless two threads went on to push it, and the audio one before any raw *)
(* audio, unless push_data had no memory for it.                           *)
THEOREM ConfigurationIsSentOnce == Spec => []ConfigPerConnection
<1>1. Init => CInv
  <2> SUFFICES ASSUME Init PROVE CInv
    OBVIOUS
  <2>1. LInv
    BY InitLine
  <2>2. AllConfigured
    BY DEF Init, AllConfigured, Configured, Once, RawAfter
  <2>3. OnlyThen /\ Flags
    BY DEF Init, OnlyThen, Flags
  <2>4. QED
    BY <2>1, <2>2, <2>3 DEF CInv, Configs
<1>2. CInv => ConfigPerConnection
  <2> SUFFICES ASSUME CInv, ~disorder, NEW c \in Opens
               PROVE  /\ \/ "audioConfig" \in refused[c]
                         \/ \A i \in DOMAIN pushed[c] : pushed[c][i] = "audioRaw" =>
                              \E j \in DOMAIN pushed[c] :
                                 pushed[c][j] = "audioConfig" /\ j < i
                      /\ \A k \in Headers \ twice[c] : \A i, j \in DOMAIN pushed[c] :
                           pushed[c][i] = k /\ pushed[c][j] = k => i = j
    BY DEF ConfigPerConnection, AudioConfigFirst, ConfigOnce
  <2>1. Configured(c) /\ DOMAIN pushed[c] = 1..Len(pushed[c])
    BY DEF CInv, Configs, AllConfigured, LInv, OInv, TInv, TypeOK, TagType
  <2>2. QED
    BY <2>1 DEF Configured, Once, RawAfter
<1>3. QED
  BY <1>1, <1>2, NextConfigs, PTL DEF Spec
=============================================================================

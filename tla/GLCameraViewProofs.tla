-------------------------- MODULE GLCameraViewProofs --------------------------
(***************************************************************************)
(* GLCameraView for every number of surfaces and of calls: which order of  *)
(* events can crash it, and that the renderer ends with the environment    *)
(* the surface asks for.                                                   *)
(***************************************************************************)
EXTENDS GLCameraView, TLAPS

USE DEF NoFault, NoMessage

-----------------------------------------------------------------------------
(* Types.                                                                  *)
Plain == {"size", "opened"}
Messages == {"created", "destroyed"} \cup Plain

UIType ==
  /\ ui \in {"idle", "resume", "pause", "wait", "newLoader", "quit"}
  /\ pending \in {"created", "destroyed", "size", NoMessage}
  /\ surface \in Nat /\ surfaces \in Nat

GLType ==
  /\ gl \in {"starting", "idle", "init", "created", "texture", "resume",
             "orientation", "release", "dead"}
  /\ environments \in Nat

FlagType ==
  /\ valid \in BOOLEAN /\ quitting \in BOOLEAN
  /\ mSurfaceTexture \in BOOLEAN /\ overtaken \in BOOLEAN /\ cleared \in BOOLEAN

LoaderType ==
  /\ mCameraLoader \in Loaders \cup {NoLoader}
  /\ coming \in [{UI, GL} -> Nat]

QueueType == messages \in Seq(Messages)

TypeOK == UIType /\ GLType /\ FlagType /\ LoaderType /\ QueueType

(* A message about the surface at place k, and what is outstanding.        *)
About(k) == messages[k] \in {"created", "destroyed"}
PendingAbout == pending \in {"created", "destroyed"}
Dealing == gl \in {"init", "release"}

(* The GL thread dies of quit alone; and nobody clears the field of a       *)
(* loader that is or will be used without being seen.                      *)
DeadHasQuit == gl = "dead" => quitting
ClearedSeen ==
  /\ WillUseLoader /\ mCameraLoader = NoLoader => cleared
  /\ ui = "newLoader" => mCameraLoader = NoLoader

(* As long as no change of the surface overtook a message about the one    *)
(* before: there is one such message at most, and while it says created    *)
(* the surface is there.                                                   *)
OneAtATime ==
  /\ \A j, k \in 1..Len(messages) : About(j) /\ About(k) => j = k
  /\ PendingAbout \/ Dealing => \A k \in 1..Len(messages) : ~About(k)
  /\ PendingAbout => ~Dealing

CreatedIsValid ==
  /\ pending = "created" \/ gl = "init" => valid
  /\ \A k \in 1..Len(messages) : messages[k] = "created" => valid

(* What the UI thread has told of the surface, and what the GL thread has  *)
(* built or begins to build, and does not begin to give up.                *)
Told == IF PendingAbout THEN pending = "destroyed" ELSE surface # 0
Built == gl = "init" \/ (environments = 1 /\ gl # "release")

Environment ==
  /\ environments \in {0, 1} /\ (mSurfaceTexture <=> environments = 1)
  /\ gl = "init" => environments = 0
  /\ gl = "release" => environments = 1
  /\ PendingAbout => (pending = "created" <=> surface # 0)

(* Messages about the surface alternate: the first undoes what is built,   *)
(* the last is what was told.                                              *)
NoneFrom(j, k) == \A i \in 1..Len(messages) : j < i /\ i < k => ~About(i)

Alternate == \A j, k \in 1..Len(messages) :
  j < k /\ About(j) /\ About(k) /\ NoneFrom(j, k) => messages[j] # messages[k]

FirstUndoes == \A k \in 1..Len(messages) :
  About(k) /\ NoneFrom(0, k) => (messages[k] = "created" <=> ~Built)

LastTells == \A k \in 1..Len(messages) :
  About(k) /\ NoneFrom(k, Len(messages) + 1) => (messages[k] = "created" <=> Told)

NoneLeft == (\A k \in 1..Len(messages) : ~About(k)) => (Built <=> Told)

InLine == Environment /\ Alternate /\ FirstUndoes /\ LastTells /\ NoneLeft

GInv ==
  /\ TypeOK /\ DeadHasQuit /\ ClearedSeen /\ CrashExplained
  /\ (~overtaken => OneAtATime /\ CreatedIsValid)
  /\ (~quitting => InLine)

-----------------------------------------------------------------------------
(* A message put at the end of the queue, and one taken from its front.    *)
Posted(m) ==
  /\ messages' \in Seq(Messages) /\ Len(messages) \in Nat
  /\ Len(messages') = Len(messages) + 1 /\ messages'[Len(messages) + 1] = m
  /\ \A k \in 1..Len(messages) : messages'[k] = messages[k]

Taken(m) ==
  /\ messages' \in Seq(Messages) /\ Len(messages) \in Nat
  /\ 1 \in 1..Len(messages) /\ messages[1] = m
  /\ Len(messages') = Len(messages) - 1
  /\ \A k \in 1..Len(messages') :
       k + 1 \in 1..Len(messages) /\ messages'[k] = messages[k + 1]

LEMMA PostAppends ==
  ASSUME QueueType, NEW m \in Messages, messages' = Append(messages, m)
  PROVE  Posted(m)
<1>1. ASSUME NEW S, NEW q \in Seq(S), NEW e \in S, NEW r, r = Append(q, e)
      PROVE  /\ r \in Seq(S) /\ Len(q) \in Nat
             /\ Len(r) = Len(q) + 1 /\ r[Len(q) + 1] = e
             /\ \A k \in 1..Len(q) : r[k] = q[k]
  BY <1>1
<1>2. QED
  BY <1>1 DEF QueueType, Posted

LEMMA ReceiveTakes ==
  ASSUME QueueType, messages # <<>>, messages' = Tail(messages)
  PROVE  Taken(Head(messages))
<1>1. ASSUME NEW S, NEW q \in Seq(S), q # <<>>, NEW r, r = Tail(q)
      PROVE  /\ r \in Seq(S) /\ Len(q) \in Nat
             /\ 1 \in 1..Len(q) /\ q[1] = Head(q)
             /\ Len(r) = Len(q) - 1
             /\ \A k \in 1..Len(r) : k + 1 \in 1..Len(q) /\ r[k] = q[k + 1]
  BY <1>1
<1>2. QED
  BY <1>1 DEF QueueType, Taken

-----------------------------------------------------------------------------
(* The steps that leave the surface, the environment and the messages      *)
(* about them as they are.                                                 *)
Quiet ==
  /\ UNCHANGED <<messages, quitting, surface, surfaces, valid, environments,
                 mSurfaceTexture, overtaken>>
  /\ pending' = pending \/ (pending = NoMessage /\ pending' \in {"size", NoMessage})
  /\ gl' = gl \/ ~(Dealing \/ Dealing')

QuietStep ==
  \/ SurfaceChanged \/ RestartCamera \/ OnResume \/ ThreadOnResume \/ OnPause
  \/ ThreadOnPause \/ SpuriousWakeup \/ SetCameraType \/ InitCamera \/ OnRelease
  \/ NoLooper \/ OnOpened \/ OpenedWithoutLoader \/ Run \/ NoWindow \/ TestLoader
  \/ UseLoader \/ LoaderIsNull \/ LoopEnds

LEMMA QuietIsQuiet == ASSUME QuietStep PROVE Quiet
<1> USE DEF Quiet, Dealing, threadVars, loaderVars, looperVars, surfaceVars, countVars,
            renderVars, historyVars
<1>1. CASE SurfaceChanged \/ RestartCamera \/ OnResume \/ OnOpened
  BY <1>1 DEF SurfaceChanged, RestartCamera, OnResume, OnOpened, Call, Enter, LoaderStarts
<1>2. CASE ThreadOnResume \/ OnPause \/ ThreadOnPause \/ SpuriousWakeup
  BY <1>2 DEF ThreadOnResume, OnPause, ThreadOnPause, SpuriousWakeup
<1>3. CASE SetCameraType \/ InitCamera \/ OnRelease
  BY <1>3 DEF SetCameraType, InitCamera, OnRelease, ClearLoader
<1>4. CASE NoLooper \/ NoWindow \/ LoaderIsNull \/ OpenedWithoutLoader
  BY <1>4 DEF NoLooper, NoWindow, LoaderIsNull, OpenedWithoutLoader, Throw
<1>5. CASE Run \/ TestLoader \/ UseLoader \/ LoopEnds
  BY <1>5 DEF Run, TestLoader, UseLoader, LoopEnds, GLGo
<1>6. QED
  BY <1>1, <1>2, <1>3, <1>4, <1>5 DEF QuietStep

OtherStep ==
  \/ SurfaceCreated \/ SurfaceDestroyed \/ SendMessage \/ Quit \/ PostOpened
  \/ SendSize \/ HandleCreated \/ RendererInit \/ HandleOpened \/ HandleSize
  \/ HandleDestroyed \/ RendererRelease

LEMMA QuietOrOther == Next => QuietStep \/ OtherStep
  BY DEF Next, Start, UIStep, CameraStep, GLStep, QuietStep, OtherStep

-----------------------------------------------------------------------------
(* Every step keeps the types.                                             *)
LEMMA Types == ASSUME TypeOK, Next PROVE TypeOK'
<1> USE DEF TypeOK, threadVars, loaderVars, looperVars, surfaceVars, countVars, renderVars,
            historyVars
<1>1. UIType'
  <2> USE DEF UIType, Messages
  <2>1. CASE Start
    BY <2>1 DEF Start, SurfaceCreated, SurfaceChanged, SurfaceDestroyed, RestartCamera,
       OnResume, OnPause, SetCameraType, OnRelease, Enter, Call, LoaderStarts, ClearLoader
  <2>2. CASE UIStep
    BY <2>2 DEF UIStep, SendMessage, NoLooper, ThreadOnResume, ThreadOnPause, InitCamera,
       Quit, Go, Throw
  <2>3. CASE SpuriousWakeup
    BY <2>3 DEF SpuriousWakeup, Go
  <2>4. CASE GLStep
    BY <2>4 DEF GLStep, Run, HandleCreated, RendererInit, NoWindow, TestLoader, UseLoader,
       HandleOpened, SendSize, LoaderIsNull, HandleSize, HandleDestroyed, RendererRelease,
       LoopEnds, Throw
  <2>5. CASE CameraStep
    BY <2>5 DEF CameraStep, OnOpened, OpenedWithoutLoader, PostOpened, Enter, Throw
  <2>6. QED
    BY <2>1, <2>2, <2>3, <2>4, <2>5 DEF Next
<1>2. GLType'
  <2> USE DEF GLType
  <2>1. CASE Start
    BY <2>1 DEF Start, SurfaceCreated, SurfaceChanged, SurfaceDestroyed, RestartCamera,
       OnResume, OnPause, SetCameraType, OnRelease
  <2>2. CASE UIStep
    BY <2>2 DEF UIStep, SendMessage, NoLooper, ThreadOnResume, ThreadOnPause, InitCamera,
       Quit, Throw
  <2>3. CASE SpuriousWakeup
    BY <2>3 DEF SpuriousWakeup
  <2>4. CASE GLStep
    BY <2>4 DEF GLStep, Run, HandleCreated, RendererInit, NoWindow, TestLoader, UseLoader,
       HandleOpened, SendSize, LoaderIsNull, HandleSize, HandleDestroyed, RendererRelease,
       LoopEnds, Throw, Receive, GLGo
  <2>5. CASE CameraStep
    BY <2>5 DEF CameraStep, OnOpened, OpenedWithoutLoader, PostOpened, Throw
  <2>6. QED
    BY <2>1, <2>2, <2>3, <2>4, <2>5 DEF Next
<1>3. FlagType'
  <2> USE DEF FlagType
  <2>1. CASE Start
    BY <2>1 DEF Start, SurfaceCreated, SurfaceChanged, SurfaceDestroyed, RestartCamera,
       OnResume, OnPause, SetCameraType, OnRelease, ClearLoader
  <2>2. CASE UIStep
    BY <2>2 DEF UIStep, SendMessage, NoLooper, ThreadOnResume, ThreadOnPause, InitCamera,
       Quit, Throw
  <2>3. CASE SpuriousWakeup
    BY <2>3 DEF SpuriousWakeup
  <2>4. CASE GLStep
    BY <2>4 DEF GLStep, Run, HandleCreated, RendererInit, NoWindow, TestLoader, UseLoader,
       HandleOpened, SendSize, LoaderIsNull, HandleSize, HandleDestroyed, RendererRelease,
       LoopEnds, Throw
  <2>5. CASE CameraStep
    BY <2>5 DEF CameraStep, OnOpened, OpenedWithoutLoader, PostOpened, Throw
  <2>6. QED
    BY <2>1, <2>2, <2>3, <2>4, <2>5 DEF Next
<1>4. LoaderType'
  <2> USE DEF LoaderType, Loaders, UI, GL
  <2>1. CASE Start
    BY <2>1 DEF Start, SurfaceCreated, SurfaceChanged, SurfaceDestroyed, RestartCamera,
       OnResume, OnPause, SetCameraType, OnRelease, LoaderStarts, ClearLoader
  <2>2. CASE UIStep
    BY <2>2 DEF UIStep, SendMessage, NoLooper, ThreadOnResume, ThreadOnPause, InitCamera,
       Quit, Throw
  <2>3. CASE SpuriousWakeup
    BY <2>3 DEF SpuriousWakeup
  <2>4. CASE GLStep
    BY <2>4 DEF GLStep, Run, HandleCreated, RendererInit, NoWindow, TestLoader, UseLoader,
       HandleOpened, SendSize, LoaderIsNull, HandleSize, HandleDestroyed, RendererRelease,
       LoopEnds, Throw
  <2>5. CASE CameraStep
    BY <2>5 DEF CameraStep, OnOpened, OpenedWithoutLoader, PostOpened, Comes, Throw
  <2>6. QED
    BY <2>1, <2>2, <2>3, <2>4, <2>5 DEF Next
<1>5. QueueType'
  <2>1. CASE QuietStep
    BY <2>1, QuietIsQuiet DEF QueueType, Quiet
  <2>2. CASE SurfaceCreated \/ SurfaceDestroyed \/ RendererInit \/ RendererRelease
    BY <2>2 DEF QueueType, SurfaceCreated, SurfaceDestroyed, RendererInit, RendererRelease
  <2>3. CASE Quit
    BY <2>3 DEF QueueType, Quit
  <2>4. CASE SendMessage
    <3>1. pending \in Messages /\ messages' \in {messages, Append(messages, pending)}
      BY <2>4 DEF SendMessage, Post, UIType, Messages, Plain
    <3>2. QED
      BY <3>1, PostAppends DEF QueueType, Posted
  <2>5. CASE SendSize \/ PostOpened
    <3>1. PICK m \in Plain : messages' \in {messages, Append(messages, m)}
      BY <2>5 DEF SendSize, PostOpened, Post, Plain
    <3>2. QED
      BY <3>1, PostAppends DEF QueueType, Posted, Messages
  <2>6. CASE HandleCreated \/ HandleOpened \/ HandleSize \/ HandleDestroyed
    <3>1. messages # <<>> /\ messages' = Tail(messages)
      BY <2>6 DEF HandleCreated, HandleOpened, HandleSize, HandleDestroyed, Receive
    <3>2. QED
      BY <3>1, ReceiveTakes DEF QueueType, Taken
  <2>7. QED
    BY <2>1, <2>2, <2>3, <2>4, <2>5, <2>6, QuietOrOther DEF OtherStep
<1>6. QED
  BY <1>1, <1>2, <1>3, <1>4, <1>5

-----------------------------------------------------------------------------
(* Who comes to use the loader's field has found a loader there, or is one *)
(* of those that could come before.                                        *)
LEMMA UsersRemain ==
  ASSUME TypeOK, Next
  PROVE  WillUseLoader' => WillUseLoader \/ mCameraLoader' # NoLoader
<1> USE DEF threadVars, loaderVars, looperVars, surfaceVars, countVars, renderVars,
            historyVars
<1> DEFINE Opened == \E k \in 1..Len(messages) : messages[k] = "opened"
<1>1. DOMAIN messages = 1..Len(messages) /\ DOMAIN messages' = 1..Len(messages')
  BY Types DEF TypeOK, QueueType
<1>2. WillUseLoader <=> UsingLoader \/ coming[UI] > 0 \/ coming[GL] > 0 \/ Opened
  BY <1>1 DEF WillUseLoader
<1>3. WillUseLoader' =>
        UsingLoader' \/ coming'[UI] > 0 \/ coming'[GL] > 0 \/ Opened'
  BY <1>1 DEF WillUseLoader
<1>4. UsingLoader' => UsingLoader \/ mCameraLoader' # NoLoader \/ Opened
  <2> USE DEF UsingLoader
  <2>1. CASE Start \/ SpuriousWakeup
    BY <2>1 DEF Start, SurfaceCreated, SurfaceChanged, SurfaceDestroyed, RestartCamera,
       OnResume, OnPause, SetCameraType, OnRelease, SpuriousWakeup
  <2>2. CASE UIStep
    BY <2>2 DEF UIStep, SendMessage, NoLooper, ThreadOnResume, ThreadOnPause, InitCamera,
       Quit, Throw
  <2>3. CASE CameraStep
    BY <2>3 DEF CameraStep, OnOpened, OpenedWithoutLoader, PostOpened, Throw
  <2>4. CASE HandleOpened
    <3>1. messages # <<>> /\ messages' = Tail(messages) /\ Head(messages) = "opened"
      BY <2>4 DEF HandleOpened, Receive
    <3>2. Taken(Head(messages))
      BY <3>1, ReceiveTakes DEF TypeOK
    <3>3. QED
      BY <3>1, <3>2 DEF Taken
  <2>5. CASE GLStep /\ ~HandleOpened
    BY <2>5 DEF GLStep, Run, HandleCreated, RendererInit, NoWindow, TestLoader, UseLoader,
       SendSize, LoaderIsNull, HandleSize, HandleDestroyed, RendererRelease, LoopEnds,
       Throw, Receive, GLGo
  <2>6. QED
    BY <2>1, <2>2, <2>3, <2>4, <2>5 DEF Next
<1>5. /\ coming'[UI] > 0 => coming[UI] > 0 \/ mCameraLoader' # NoLoader
      /\ coming'[GL] > 0 => coming[GL] > 0 \/ mCameraLoader' # NoLoader
  <2> USE DEF NoLoader, UI, GL, TypeOK, LoaderType
  <2>1. CASE Start \/ SpuriousWakeup
    BY <2>1 DEF Start, SurfaceCreated, SurfaceChanged, SurfaceDestroyed, RestartCamera,
       OnResume, OnPause, SetCameraType, OnRelease, SpuriousWakeup, LoaderStarts
  <2>2. CASE UIStep
    BY <2>2 DEF UIStep, SendMessage, NoLooper, ThreadOnResume, ThreadOnPause, InitCamera,
       Quit, Throw
  <2>3. CASE CameraStep
    BY <2>3 DEF CameraStep, OnOpened, OpenedWithoutLoader, PostOpened, Comes, Throw
  <2>4. CASE GLStep
    BY <2>4 DEF GLStep, Run, HandleCreated, RendererInit, NoWindow, TestLoader, UseLoader,
       HandleOpened, SendSize, LoaderIsNull, HandleSize, HandleDestroyed, RendererRelease,
       LoopEnds, Throw
  <2>5. QED
    BY <2>1, <2>2, <2>3, <2>4 DEF Next
<1>6. Opened' => Opened \/ coming[GL] > 0
  <2>1. CASE QuietStep
    BY <2>1, QuietIsQuiet DEF Quiet
  <2>2. CASE SurfaceCreated \/ SurfaceDestroyed \/ RendererInit \/ RendererRelease
    BY <2>2 DEF SurfaceCreated, SurfaceDestroyed, RendererInit, RendererRelease
  <2>3. CASE Quit
    <3>1. messages' = <<>>
      BY <2>3 DEF Quit
    <3>2. QED
      BY <3>1
  <2>4. CASE SendMessage \/ SendSize
    <3>1. PICK m \in {"created", "destroyed", "size"} :
            messages' \in {messages, Append(messages, m)}
      BY <2>4 DEF SendMessage, SendSize, Post, TypeOK, UIType
    <3>2. CASE messages' = Append(messages, m)
      <4>1. Posted(m)
        BY <3>2, PostAppends DEF TypeOK, Messages, Plain
      <4>2. \A k \in 1..Len(messages') : k \in 1..Len(messages) \/ k = Len(messages) + 1
        BY <4>1 DEF Posted
      <4>3. QED
        BY <4>1, <4>2 DEF Posted
    <3>3. QED
      BY <3>1, <3>2
  <2>5. CASE PostOpened
    BY <2>5 DEF PostOpened, Comes
  <2>6. CASE HandleCreated \/ HandleOpened \/ HandleSize \/ HandleDestroyed
    <3>1. messages # <<>> /\ messages' = Tail(messages)
      BY <2>6 DEF HandleCreated, HandleOpened, HandleSize, HandleDestroyed, Receive
    <3>2. Taken(Head(messages))
      BY <3>1, ReceiveTakes DEF TypeOK
    <3>3. QED
      BY <3>2 DEF Taken
  <2>7. QED
    BY <2>1, <2>2, <2>3, <2>4, <2>5, <2>6, QuietOrOther DEF OtherStep
<1>7. QED
  BY <1>2, <1>3, <1>4, <1>5, <1>6

(* Who dies has been told to quit, and who clears the loader is seen.      *)
LEMMA Seen ==
  ASSUME TypeOK, DeadHasQuit, ClearedSeen, Next
  PROVE  DeadHasQuit' /\ ClearedSeen'
<1> USE DEF threadVars, loaderVars, looperVars, surfaceVars, countVars, renderVars,
            historyVars
<1>1. DeadHasQuit'
  <2> USE DEF DeadHasQuit
  <2>1. CASE Start \/ SpuriousWakeup
    BY <2>1 DEF Start, SurfaceCreated, SurfaceChanged, SurfaceDestroyed, RestartCamera,
       OnResume, OnPause, SetCameraType, OnRelease, SpuriousWakeup
  <2>2. CASE UIStep
    BY <2>2 DEF UIStep, SendMessage, NoLooper, ThreadOnResume, ThreadOnPause, InitCamera,
       Quit, Throw
  <2>3. CASE CameraStep
    BY <2>3 DEF CameraStep, OnOpened, OpenedWithoutLoader, PostOpened, Throw
  <2>4. CASE GLStep
    BY <2>4 DEF GLStep, Run, HandleCreated, RendererInit, NoWindow, TestLoader, UseLoader,
       HandleOpened, SendSize, LoaderIsNull, HandleSize, HandleDestroyed, RendererRelease,
       LoopEnds, Throw, Receive, GLGo
  <2>5. QED
    BY <2>1, <2>2, <2>3, <2>4 DEF Next
<1>2. \/ ClearLoader /\ UNCHANGED <<gl, coming, messages>>
      \/ cleared' = cleared /\ (mCameraLoader = NoLoader \/ mCameraLoader' # NoLoader)
  <2>1. CASE SetCameraType \/ OnRelease
    BY <2>1 DEF SetCameraType, OnRelease
  <2>2. CASE InitCamera
    BY <2>2 DEF InitCamera, Go, ClearedSeen
  <2>3. CASE ~(SetCameraType \/ OnRelease \/ InitCamera)
    <3>1. cleared' = cleared /\ mCameraLoader' = mCameraLoader
      <4>1. CASE Start \/ SpuriousWakeup
        BY <2>3, <4>1 DEF Start, SurfaceCreated, SurfaceChanged, SurfaceDestroyed,
           RestartCamera, OnResume, OnPause, SpuriousWakeup
      <4>2. CASE UIStep
        BY <2>3, <4>2 DEF UIStep, SendMessage, NoLooper, ThreadOnResume, ThreadOnPause,
           Quit, Throw
      <4>3. CASE CameraStep
        BY <4>3 DEF CameraStep, OnOpened, OpenedWithoutLoader, PostOpened, Throw
      <4>4. CASE GLStep
        BY <4>4 DEF GLStep, Run, HandleCreated, RendererInit, NoWindow, TestLoader,
           UseLoader, HandleOpened, SendSize, LoaderIsNull, HandleSize, HandleDestroyed,
           RendererRelease, LoopEnds, Throw
      <4>5. QED
        BY <4>1, <4>2, <4>3, <4>4 DEF Next
    <3>2. QED
      BY <3>1
  <2>4. QED
    BY <2>1, <2>2, <2>3
<1>3. WillUseLoader' /\ mCameraLoader' = NoLoader => cleared'
  <2>1. CASE ClearLoader /\ UNCHANGED <<gl, coming, messages>>
    BY <2>1 DEF ClearLoader, WillUseLoader, UsingLoader
  <2>2. CASE cleared' = cleared /\ (mCameraLoader = NoLoader \/ mCameraLoader' # NoLoader)
    BY <2>2, UsersRemain DEF ClearedSeen
  <2>3. QED
    BY <1>2, <2>1, <2>2
<1>4. ui' = "newLoader" => mCameraLoader' = NoLoader
  <2> USE DEF ClearedSeen
  <2>1. CASE Start \/ SpuriousWakeup
    BY <2>1 DEF Start, SurfaceCreated, SurfaceChanged, SurfaceDestroyed, RestartCamera,
       OnResume, OnPause, SetCameraType, OnRelease, SpuriousWakeup, Call, Enter, Go,
       ClearLoader
  <2>2. CASE UIStep
    BY <2>2 DEF UIStep, SendMessage, NoLooper, ThreadOnResume, ThreadOnPause, InitCamera,
       Quit, Throw, Go
  <2>3. CASE CameraStep
    BY <2>3 DEF CameraStep, OnOpened, OpenedWithoutLoader, PostOpened, Throw, Enter
  <2>4. CASE GLStep
    BY <2>4 DEF GLStep, Run, HandleCreated, RendererInit, NoWindow, TestLoader, UseLoader,
       HandleOpened, SendSize, LoaderIsNull, HandleSize, HandleDestroyed, RendererRelease,
       LoopEnds, Throw
  <2>5. QED
    BY <2>1, <2>2, <2>3, <2>4 DEF Next
<1>5. QED
  BY <1>1, <1>3, <1>4 DEF ClearedSeen

(* The three exceptions, each with its reason.                             *)
LEMMA Crashes ==
  ASSUME TypeOK, DeadHasQuit, ClearedSeen, CrashExplained, Next,
         ~overtaken => CreatedIsValid
  PROVE  CrashExplained'
<1> USE DEF CrashExplained
<1>1. fault = "none"
  BY DEF Next
<1>2. CASE NoLooper
  BY <1>2 DEF NoLooper, Throw, DeadHasQuit, looperVars
<1>3. CASE NoWindow
  BY <1>3 DEF NoWindow, Throw, CreatedIsValid, historyVars
<1>4. CASE LoaderIsNull \/ OpenedWithoutLoader
  <2>1. WillUseLoader /\ mCameraLoader = NoLoader
    BY <1>4 DEF LoaderIsNull, OpenedWithoutLoader, WillUseLoader
  <2>2. QED
    BY <1>4, <2>1 DEF LoaderIsNull, OpenedWithoutLoader, Throw, ClearedSeen, historyVars
<1>5. CASE ~(NoLooper \/ NoWindow \/ LoaderIsNull \/ OpenedWithoutLoader)
  <2>1. fault' = fault
    <3>1. CASE Start
      BY <3>1 DEF Start, SurfaceCreated, SurfaceChanged, SurfaceDestroyed, RestartCamera,
         OnResume, OnPause, SetCameraType, OnRelease
    <3>2. CASE UIStep \/ SpuriousWakeup
      BY <1>5, <3>2 DEF UIStep, SendMessage, ThreadOnResume, ThreadOnPause, InitCamera, Quit,
         SpuriousWakeup
    <3>3. CASE GLStep
      BY <1>5, <3>3 DEF GLStep, Run, HandleCreated, RendererInit, TestLoader, UseLoader,
         HandleOpened, SendSize, HandleSize, HandleDestroyed, RendererRelease, LoopEnds
    <3>4. CASE CameraStep
      BY <1>5, <3>4 DEF CameraStep, OnOpened, PostOpened
    <3>5. QED
      BY <3>1, <3>2, <3>3, <3>4 DEF Next
  <2>2. QED
    BY <1>1, <2>1
<1>6. QED
  BY <1>2, <1>3, <1>4, <1>5

-----------------------------------------------------------------------------
(* One message about the surface at a time, as long as none is overtaken.  *)
LEMMA NoneOvertaken ==
  ASSUME TypeOK, OneAtATime, CreatedIsValid, ~overtaken', OtherStep
  PROVE  OneAtATime' /\ CreatedIsValid'
<1> USE DEF OneAtATime, CreatedIsValid, About, PendingAbout, Dealing, loaderVars,
            looperVars, surfaceVars, countVars, renderVars, historyVars
<1>1. CASE SurfaceCreated \/ SurfaceDestroyed
  <2>1. \A k \in DOMAIN messages : ~About(k)
    BY <1>1 DEF SurfaceCreated, SurfaceDestroyed, Behind, AboutSurface
  <2>2. /\ messages' = messages /\ gl' = gl /\ ~Dealing
        /\ pending' = "created" => valid'
    BY <1>1 DEF SurfaceCreated, SurfaceDestroyed, Behind
  <2>3. DOMAIN messages = 1..Len(messages)
    BY DEF TypeOK, QueueType
  <2>4. QED
    BY <2>1, <2>2, <2>3
<1>2. CASE Quit
  <2>1. /\ messages' = <<>> /\ gl' = gl /\ pending' = pending /\ valid' = valid
    BY <1>2 DEF Quit
  <2>2. 1..Len(messages') = {}
    BY <2>1
  <2>3. QED
    BY <2>1, <2>2
<1>3. CASE SendMessage
  <2>1. /\ pending \in Messages /\ pending' = NoMessage /\ gl' = gl /\ valid' = valid
        /\ messages' = messages \/ messages' = Append(messages, pending)
    BY <1>3 DEF SendMessage, Post, TypeOK, UIType, Messages, Plain
  <2>2. CASE messages' = messages
    BY <2>1, <2>2
  <2>3. CASE messages' = Append(messages, pending)
    <3>1. Posted(pending)
      BY <2>1, <2>3, PostAppends DEF TypeOK
    <3>2. \A k \in 1..Len(messages') : k \in 1..Len(messages) \/ k = Len(messages) + 1
      BY <3>1 DEF Posted
    <3>3. CASE PendingAbout
      <4>1. \A k \in 1..Len(messages') : About(k)' => k = Len(messages) + 1
        BY <3>1, <3>2, <3>3 DEF Posted
      <4>2. messages'[Len(messages) + 1] = pending
        BY <3>1 DEF Posted
      <4>3. QED
        BY <2>1, <3>3, <4>1, <4>2
    <3>4. CASE ~PendingAbout
      <4>1. \A k \in 1..Len(messages') : About(k)' =>
              k \in 1..Len(messages) /\ messages'[k] = messages[k]
        BY <3>1, <3>2, <3>4 DEF Posted
      <4>2. QED
        BY <2>1, <4>1
    <3>5. QED
      BY <3>3, <3>4
  <2>4. QED
    BY <2>1, <2>2, <2>3
<1>4. CASE SendSize \/ PostOpened
  <2>1. /\ gl' = gl \/ ~(Dealing \/ Dealing')
        /\ pending' = pending /\ valid' = valid
    BY <1>4 DEF SendSize, PostOpened, GLGo
  <2>0. PICK m \in Plain : messages' = messages \/ messages' = Append(messages, m)
    BY <1>4 DEF SendSize, PostOpened, Post, Plain
  <2>2. CASE messages' = messages
    BY <2>1, <2>2
  <2>3. CASE messages' = Append(messages, m)
    <3>1. Posted(m)
      BY <2>3, PostAppends DEF TypeOK, Messages
    <3>2. \A k \in 1..Len(messages') : k \in 1..Len(messages) \/ k = Len(messages) + 1
      BY <3>1 DEF Posted
    <3>3. \A k \in 1..Len(messages') : About(k)' =>
            k \in 1..Len(messages) /\ messages'[k] = messages[k]
      BY <3>1, <3>2 DEF Posted, Plain
    <3>4. QED
      BY <2>1, <3>3
  <2>4. QED
    BY <2>0, <2>2, <2>3
<1>5. CASE RendererInit \/ RendererRelease
  <2>1. /\ Dealing /\ ~Dealing' /\ messages' = messages /\ pending' = pending
    BY <1>5 DEF RendererInit, RendererRelease, GLGo
  <2>2. QED
    BY <2>1
<1>6. CASE HandleCreated \/ HandleOpened \/ HandleSize \/ HandleDestroyed
  <2>1. /\ messages # <<>> /\ messages' = Tail(messages) /\ pending' = pending
        /\ gl = "idle" /\ valid' = valid
        /\ gl' = "init" <=> Head(messages) = "created"
        /\ gl' = "release" <=> Head(messages) = "destroyed"
    BY <1>6 DEF HandleCreated, HandleOpened, HandleSize, HandleDestroyed, Receive, GLGo
  <2>2. Taken(Head(messages))
    BY <2>1, ReceiveTakes DEF TypeOK
  <2>3. /\ 1 \in 1..Len(messages) /\ messages[1] = Head(messages)
        /\ \A k \in 1..Len(messages') :
             k + 1 \in 1..Len(messages) /\ messages'[k] = messages[k + 1] /\ k + 1 # 1
    BY <2>2 DEF Taken
  <2>4. CASE About(1)
    <3>1. \A k \in 1..Len(messages') : ~About(k)'
      BY <2>3, <2>4
    <3>2. ~PendingAbout
      BY <2>3, <2>4
    <3>3. messages[1] = "created" => valid
      BY <2>3
    <3>4. QED
      BY <2>1, <2>3, <3>1, <3>2, <3>3
  <2>5. CASE ~About(1)
    <3>1. ~Dealing'
      BY <2>1, <2>3, <2>5
    <3>2. \A j, k \in 1..Len(messages') : About(j)' /\ About(k)' => j + 1 = k + 1
      BY <2>3
    <3>3. \A j, k \in 1..Len(messages') : About(j)' /\ About(k)' => j = k
      BY <3>2
    <3>4. QED
      BY <2>1, <2>3, <3>1, <3>3
  <2>6. QED
    BY <2>4, <2>5
<1>7. QED
  BY <1>1, <1>2, <1>3, <1>4, <1>5, <1>6 DEF OtherStep

-----------------------------------------------------------------------------
(* A message put at the end that contradicts what was told, or is not      *)
(* about the surface, keeps the line.                                      *)
LEMMA LinePosted ==
  ASSUME TypeOK, Alternate, FirstUndoes, LastTells, NoneLeft,
         NEW m \in Messages, Posted(m), Built' <=> Built,
         m \in Plain => (Told' <=> Told),
         m \notin Plain => (m = "created" <=> ~Told) /\ (Told' <=> ~Told)
  PROVE  Alternate' /\ FirstUndoes' /\ LastTells' /\ NoneLeft'
<1>0. PICK n \in Nat : n = Len(messages) + 1
  BY DEF Posted
<1>1. /\ Len(messages) \in Nat /\ Len(messages') = n /\ messages'[n] = m
      /\ \A k \in 1..Len(messages) : messages'[k] = messages[k]
  BY <1>0 DEF Posted
<1>2. n \in 1..Len(messages')
      /\ \A k \in 1..Len(messages') : k \in 1..Len(messages) \/ k = n
  BY <1>0, <1>1
<1>3. /\ \A k \in 1..Len(messages) :
           k \in 1..Len(messages') /\ k < n /\ (About(k)' <=> About(k))
      /\ About(n)' <=> m \notin Plain
  BY <1>0, <1>1 DEF About, Messages, Plain
<1>4. \A j, k \in 1..Len(messages) : NoneFrom(j, k)' => NoneFrom(j, k)
  BY <1>3 DEF NoneFrom
<1>5. \A k \in 1..Len(messages) : NoneFrom(0, k)' => NoneFrom(0, k)
  BY <1>3 DEF NoneFrom
<1>6. \A k \in 1..Len(messages) : NoneFrom(k, n)' => NoneFrom(k, n)
  BY <1>3 DEF NoneFrom
<1>7. Alternate'
  <2>1. SUFFICES ASSUME NEW j \in 1..Len(messages'), NEW k \in 1..Len(messages'),
                        j < k, About(j)', About(k)', NoneFrom(j, k)'
                 PROVE  messages'[j] # messages'[k]
    BY DEF Alternate
  <2>2. j \in 1..Len(messages)
    BY <1>0, <1>1, <1>2, <2>1
  <2>3. CASE k \in 1..Len(messages)
    BY <1>1, <1>3, <1>4, <2>1, <2>2, <2>3 DEF Alternate
  <2>4. CASE k = n
    <3>1. messages[j] = "created" <=> Told
      BY <1>0, <1>3, <1>6, <2>1, <2>2, <2>4 DEF LastTells
    <3>2. m = "created" <=> ~Told
      BY <1>3, <2>1, <2>4
    <3>3. QED
      BY <1>1, <2>2, <2>4, <3>1, <3>2
  <2>5. QED
    BY <1>2, <2>3, <2>4
<1>8. FirstUndoes'
  <2>1. SUFFICES ASSUME NEW k \in 1..Len(messages'), About(k)', NoneFrom(0, k)'
                 PROVE  messages'[k] = "created" <=> ~Built
    BY DEF FirstUndoes
  <2>2. CASE k \in 1..Len(messages)
    BY <1>1, <1>3, <1>5, <2>1, <2>2 DEF FirstUndoes
  <2>3. CASE k = n
    <3>1. \A i \in 1..Len(messages) : ~About(i)
      BY <1>3, <2>1, <2>3 DEF NoneFrom
    <3>2. Built <=> Told
      BY <3>1 DEF NoneLeft
    <3>3. m = "created" <=> ~Told
      BY <1>3, <2>1, <2>3
    <3>4. QED
      BY <1>1, <2>3, <3>2, <3>3
  <2>4. QED
    BY <1>2, <2>2, <2>3
<1>9. LastTells'
  <2>1. SUFFICES ASSUME NEW k \in 1..Len(messages'), About(k)',
                        NoneFrom(k, Len(messages) + 1)'
                 PROVE  messages'[k] = "created" <=> Told'
    BY DEF LastTells
  <2>2. CASE k \in 1..Len(messages)
    <3>1. ~About(n)' /\ NoneFrom(k, n)'
      BY <1>0, <1>1, <1>2, <2>1, <2>2 DEF NoneFrom
    <3>2. messages[k] = "created" <=> Told
      BY <1>0, <1>3, <1>6, <2>1, <2>2, <3>1 DEF LastTells
    <3>3. m \in Plain
      BY <1>3, <3>1
    <3>4. QED
      BY <1>1, <2>2, <3>2, <3>3
  <2>3. CASE k = n
    <3>1. m \notin Plain
      BY <1>3, <2>1, <2>3
    <3>2. QED
      BY <1>1, <2>3, <3>1
  <2>4. QED
    BY <1>2, <2>2, <2>3
<1>10. NoneLeft'
  <2>1. SUFFICES ASSUME \A k \in 1..Len(messages') : ~About(k)'
                 PROVE  Built' <=> Told'
    BY DEF NoneLeft
  <2>2. m \in Plain /\ \A k \in 1..Len(messages) : ~About(k)
    BY <1>2, <1>3, <2>1
  <2>3. QED
    BY <2>2 DEF NoneLeft
<1>11. QED
  BY <1>7, <1>8, <1>9, <1>10

(* A message taken that says what the environment becomes, or is not about *)
(* the surface, keeps the line.                                            *)
LEMMA LineTaken ==
  ASSUME TypeOK, Alternate, FirstUndoes, LastTells, NoneLeft,
         NEW m \in Messages, Taken(m), Told' <=> Told,
         m \in Plain => (Built' <=> Built),
         m \notin Plain => (Built' <=> m = "created")
  PROVE  Alternate' /\ FirstUndoes' /\ LastTells' /\ NoneLeft'
<1>0. PICK n \in Nat : n = Len(messages')
  BY DEF Taken
<1>1. /\ Len(messages) = n + 1 /\ messages[1] = m /\ 1 \in 1..Len(messages)
      /\ \A k \in 1..n : k + 1 \in 1..Len(messages) /\ messages'[k] = messages[k + 1]
  BY <1>0 DEF Taken
<1>2. \A i \in 1..Len(messages) : i = 1 \/ i - 1 \in 1..n
  BY <1>1
<1>3. /\ \A k \in 1..n : About(k)' <=> About(k + 1)
      /\ About(1) <=> m \notin Plain
  BY <1>1 DEF About, Messages, Plain
<1>4. \A j \in 0..n, k \in 1..(n + 1) : NoneFrom(j, k)' => NoneFrom(j + 1, k + 1)
  <2>1. SUFFICES ASSUME NEW j \in 0..n, NEW k \in 1..(n + 1), NoneFrom(j, k)',
                        NEW i \in 1..Len(messages), j + 1 < i, i < k + 1, About(i)
                 PROVE  FALSE
    BY DEF NoneFrom
  <2>2. i - 1 \in 1..n /\ j < i - 1 /\ i - 1 < k
    BY <1>2, <2>1
  <2>3. About(i - 1)'
    BY <1>3, <2>1, <2>2
  <2>4. QED
    BY <1>0, <2>1, <2>2, <2>3 DEF NoneFrom
<1>5. Alternate'
  <2>1. SUFFICES ASSUME NEW j \in 1..n, NEW k \in 1..n,
                        j < k, About(j)', About(k)', NoneFrom(j, k)'
                 PROVE  messages'[j] # messages'[k]
    BY <1>0 DEF Alternate
  <2>2. NoneFrom(j + 1, k + 1) /\ About(j + 1) /\ About(k + 1)
    BY <1>3, <1>4, <2>1
  <2>3. QED
    BY <1>1, <2>1, <2>2 DEF Alternate
<1>6. FirstUndoes'
  <2>1. SUFFICES ASSUME NEW k \in 1..n, About(k)', NoneFrom(0, k)'
                 PROVE  messages'[k] = "created" <=> ~Built'
    BY <1>0 DEF FirstUndoes
  <2>2. /\ NoneFrom(1, k + 1) /\ About(k + 1) /\ k + 1 \in 1..Len(messages) /\ 1 < k + 1
        /\ messages'[k] = messages[k + 1]
    BY <1>1, <1>3, <1>4, <2>1
  <2>3. CASE m \in Plain
    <3>1. NoneFrom(0, k + 1)
      BY <1>3, <2>2, <2>3 DEF NoneFrom
    <3>2. QED
      BY <2>2, <2>3, <3>1 DEF FirstUndoes
  <2>4. CASE m \notin Plain
    <3>1. m # messages[k + 1]
      BY <1>1, <1>3, <2>2, <2>4 DEF Alternate
    <3>2. m = "created" <=> messages[k + 1] # "created"
      BY <1>1, <1>3, <2>2, <2>4, <3>1 DEF About
    <3>3. QED
      BY <2>2, <2>4, <3>2
  <2>5. QED
    BY <2>3, <2>4
<1>7. LastTells'
  <2>1. SUFFICES ASSUME NEW k \in 1..n, About(k)', NoneFrom(k, n + 1)'
                 PROVE  messages'[k] = "created" <=> Told'
    BY <1>0 DEF LastTells
  <2>2. /\ NoneFrom(k + 1, Len(messages) + 1) /\ About(k + 1)
        /\ k + 1 \in 1..Len(messages) /\ messages'[k] = messages[k + 1]
    BY <1>1, <1>3, <1>4, <2>1
  <2>3. QED
    BY <2>2 DEF LastTells
<1>8. NoneLeft'
  <2>1. SUFFICES ASSUME \A k \in 1..n : ~About(k)'
                 PROVE  Built' <=> Told'
    BY <1>0 DEF NoneLeft
  <2>2. \A i \in 1..Len(messages) : About(i) => i = 1
    BY <1>2, <1>3, <2>1
  <2>3. CASE m \in Plain
    BY <1>3, <2>2, <2>3 DEF NoneLeft
  <2>4. CASE m \notin Plain
    <3>1. NoneFrom(1, Len(messages) + 1)
      BY <2>2 DEF NoneFrom
    <3>2. m = "created" <=> Told
      BY <1>1, <1>3, <2>4, <3>1 DEF LastTells
    <3>3. QED
      BY <2>4, <3>2
  <2>5. QED
    BY <2>3, <2>4
<1>9. QED
  BY <1>5, <1>6, <1>7, <1>8

LEMMA LineSame ==
  ASSUME Alternate, FirstUndoes, LastTells, NoneLeft,
         messages' = messages, Built' <=> Built, Told' <=> Told
  PROVE  Alternate' /\ FirstUndoes' /\ LastTells' /\ NoneLeft'
  BY DEF Alternate, FirstUndoes, LastTells, NoneLeft, NoneFrom, About

(* The line is kept until quit drops the messages.                         *)
LEMMA LineKept ==
  ASSUME TypeOK, InLine, ~quitting, ~quitting', OtherStep
  PROVE  InLine'
<1> USE DEF InLine, loaderVars, looperVars, surfaceVars, countVars, renderVars, historyVars
<1>1. CASE SurfaceCreated \/ SurfaceDestroyed
  <2>1. /\ UNCHANGED <<messages, gl, environments, mSurfaceTexture>> /\ pending = NoMessage
        /\ \/ pending' = "created" /\ surface = 0 /\ surface' = surfaces + 1
           \/ pending' = "destroyed" /\ surface # 0 /\ surface' = 0
    BY <1>1 DEF SurfaceCreated, SurfaceDestroyed, Enter
  <2>2. surfaces \in Nat
    BY DEF TypeOK, UIType
  <2>3. Environment'
    BY <2>1, <2>2 DEF Environment, PendingAbout
  <2>4. (Built' <=> Built) /\ (Told' <=> Told)
    BY <2>1 DEF Built, Told, PendingAbout
  <2>5. QED
    BY <2>1, <2>3, <2>4, LineSame
<1>2. CASE SendMessage
  <2>1. /\ UNCHANGED <<gl, environments, mSurfaceTexture, surface>>
        /\ pending \in Messages /\ pending' = NoMessage
        /\ messages' = Append(messages, pending)
    BY <1>2 DEF SendMessage, Post, TypeOK, UIType, Messages, Plain
  <2>2. Environment'
    BY <2>1 DEF Environment, PendingAbout
  <2>3. Built' <=> Built
    BY <2>1 DEF Built
  <2>4. pending \in Plain => (Told' <=> Told)
    BY <2>1 DEF Told, PendingAbout, Plain
  <2>5. pending \notin Plain => (pending = "created" <=> ~Told) /\ (Told' <=> ~Told)
    BY <2>1 DEF Told, PendingAbout, Environment, Messages, Plain
  <2>6. Posted(pending)
    BY <2>1, PostAppends DEF TypeOK
  <2>7. QED
    BY <2>1, <2>2, <2>3, <2>4, <2>5, <2>6, LinePosted
<1>3. CASE Quit
  BY <1>3 DEF Quit
<1>4. CASE SendSize \/ PostOpened
  <2>1. /\ UNCHANGED <<pending, environments, mSurfaceTexture, surface>>
        /\ gl' = gl \/ ~(Dealing \/ Dealing')
    BY <1>4 DEF SendSize, PostOpened, GLGo, Dealing
  <2>0. PICK m \in Plain : messages' = Append(messages, m)
    BY <1>4 DEF SendSize, PostOpened, Post, Plain
  <2>2. Environment'
    BY <2>1 DEF Environment, PendingAbout, Dealing
  <2>3. (Built' <=> Built) /\ (Told' <=> Told)
    BY <2>1 DEF Built, Told, PendingAbout, Dealing
  <2>4. m \in Messages
    BY DEF Messages
  <2>5. Posted(m)
    BY <2>0, <2>4, PostAppends DEF TypeOK
  <2>6. QED
    BY <2>2, <2>3, <2>4, <2>5, LinePosted
<1>5. CASE RendererInit
  <2>1. /\ UNCHANGED <<messages, pending, surface>> /\ gl = "init" /\ gl' = "created"
        /\ environments' = environments + 1 /\ mSurfaceTexture' = TRUE
    BY <1>5 DEF RendererInit, GLGo
  <2>2. environments' = 1
    BY <2>1 DEF Environment
  <2>3. Environment'
    BY <2>1, <2>2 DEF Environment, PendingAbout
  <2>4. (Built' <=> Built) /\ (Told' <=> Told)
    BY <2>1, <2>2 DEF Built, Told, PendingAbout
  <2>5. QED
    BY <2>1, <2>3, <2>4, LineSame
<1>6. CASE RendererRelease
  <2>1. /\ UNCHANGED <<messages, pending, surface>> /\ gl = "release" /\ gl' = "idle"
        /\ environments' = IF environments = 0 THEN 0 ELSE environments - 1
        /\ mSurfaceTexture' = FALSE
    BY <1>6 DEF RendererRelease, GLGo
  <2>2. environments' = 0
    BY <2>1 DEF Environment
  <2>3. mSurfaceTexture' <=> environments' = 1
    BY <2>1, <2>2
  <2>4. Environment'
    BY <2>1, <2>2, <2>3 DEF Environment, PendingAbout
  <2>5. (Built' <=> Built) /\ (Told' <=> Told)
    BY <2>1, <2>2 DEF Built, Told, PendingAbout
  <2>6. QED
    BY <2>1, <2>4, <2>5, LineSame
<1>7. CASE HandleCreated \/ HandleOpened \/ HandleSize \/ HandleDestroyed
  <2>1. /\ messages # <<>> /\ messages' = Tail(messages) /\ gl = "idle"
        /\ UNCHANGED <<pending, surface, environments, mSurfaceTexture>>
    BY <1>7 DEF HandleCreated, HandleOpened, HandleSize, HandleDestroyed, Receive, GLGo
  <2>2. Taken(Head(messages))
    BY <2>1, ReceiveTakes DEF TypeOK
  <2>3. /\ 1 \in 1..Len(messages) /\ messages[1] = Head(messages) /\ NoneFrom(0, 1)
        /\ Head(messages) \in Messages
    BY <2>2 DEF Taken, NoneFrom, TypeOK, QueueType
  <2>4. Told' <=> Told
    BY <2>1 DEF Told, PendingAbout
  <2>5. Head(messages) \notin Plain => (Head(messages) = "created" <=> environments # 1)
    BY <2>1, <2>3 DEF FirstUndoes, About, Messages, Built
  <2>6. CASE HandleCreated
    <3>1. gl' = "init" /\ Head(messages) = "created"
      BY <2>6 DEF HandleCreated, Receive, GLGo
    <3>2. Environment' /\ Built'
      BY <2>1, <2>5, <3>1 DEF Environment, PendingAbout, Built, Plain
    <3>3. QED
      BY <2>2, <2>3, <2>4, <3>1, <3>2, LineTaken DEF Plain
  <2>7. CASE HandleOpened \/ HandleSize
    <3>1. gl' \in {"orientation", "idle"} /\ Head(messages) \in Plain
      BY <2>7 DEF HandleOpened, HandleSize, Receive, GLGo, Plain
    <3>2. Environment' /\ (Built' <=> Built)
      BY <2>1, <3>1 DEF Environment, PendingAbout, Built
    <3>3. QED
      BY <2>2, <2>3, <2>4, <3>1, <3>2, LineTaken
  <2>8. CASE HandleDestroyed
    <3>1. gl' = "release" /\ Head(messages) = "destroyed"
      BY <2>8 DEF HandleDestroyed, Receive, GLGo
    <3>2. environments = 1
      BY <2>5, <3>1 DEF Plain
    <3>3. Environment' /\ ~Built'
      BY <2>1, <3>1, <3>2 DEF Environment, PendingAbout, Built
    <3>4. QED
      BY <2>2, <2>3, <2>4, <3>1, <3>3, LineTaken DEF Plain
  <2>9. QED
    BY <1>7, <2>6, <2>7, <2>8
<1>8. QED
  BY <1>1, <1>2, <1>3, <1>4, <1>5, <1>6, <1>7 DEF OtherStep

(* Quiet steps, and steps of nobody, change nothing of all this.           *)
LEMMA QuietKeeps ==
  ASSUME Quiet
  PROVE  /\ OneAtATime /\ CreatedIsValid => OneAtATime' /\ CreatedIsValid'
         /\ InLine => InLine'
<1> USE DEF Quiet
<1>1. OneAtATime /\ CreatedIsValid => OneAtATime' /\ CreatedIsValid'
  BY DEF OneAtATime, CreatedIsValid, About, PendingAbout, Dealing
<1>2. ASSUME InLine PROVE InLine'
  <2>1. Environment'
    BY <1>2 DEF InLine, Environment, PendingAbout, Dealing
  <2>2. (Built' <=> Built) /\ (Told' <=> Told)
    BY DEF Built, Told, PendingAbout, Dealing
  <2>3. QED
    BY <1>2, <2>1, <2>2, LineSame DEF InLine
<1>3. QED
  BY <1>1, <1>2

-----------------------------------------------------------------------------
LEMMA InitInv == Init => GInv
<1> SUFFICES ASSUME Init PROVE GInv
  OBVIOUS
<1> USE DEF Init
<1>1. messages \in Seq(Messages) /\ 1..Len(messages) = {}
  OBVIOUS
<1>2. TypeOK
  BY <1>1 DEF TypeOK, UIType, GLType, FlagType, LoaderType, Loaders, QueueType
<1>3. DeadHasQuit /\ ClearedSeen /\ CrashExplained
  BY DEF DeadHasQuit, ClearedSeen, NoLoader, CrashExplained
<1>4. OneAtATime /\ CreatedIsValid
  BY <1>1 DEF OneAtATime, CreatedIsValid, PendingAbout, Dealing
<1>5. Environment /\ ~Built /\ ~Told
  <2>1. mSurfaceTexture <=> environments = 1
    OBVIOUS
  <2>2. QED
    BY <2>1 DEF Environment, PendingAbout, Built, Told
<1>6. InLine
  BY <1>1, <1>5 DEF InLine, Alternate, FirstUndoes, LastTells, NoneLeft
<1>7. QED
  BY <1>2, <1>3, <1>4, <1>6 DEF GInv

(* What is said of the past stays.                                         *)
LEMMA HistoryStays ==
  ASSUME Next PROVE (overtaken => overtaken') /\ (quitting => quitting')
<1>1. CASE QuietStep
  BY <1>1, QuietIsQuiet DEF Quiet
<1>2. CASE OtherStep
  <2>1. overtaken => overtaken'
    BY <1>2 DEF OtherStep, SurfaceCreated, SurfaceDestroyed, SendMessage, Quit, PostOpened,
       SendSize, HandleCreated, RendererInit, HandleOpened, HandleSize, HandleDestroyed,
       RendererRelease, historyVars
  <2>2. quitting => quitting'
    BY <1>2 DEF OtherStep, SurfaceCreated, SurfaceDestroyed, SendMessage, Quit, PostOpened,
       SendSize, HandleCreated, RendererInit, HandleOpened, HandleSize, HandleDestroyed,
       RendererRelease, looperVars
  <2>3. QED
    BY <2>1, <2>2
<1>3. QED
  BY <1>1, <1>2, QuietOrOther

LEMMA NextInv == GInv /\ [Next]_vars => GInv'
<1> SUFFICES ASSUME GInv, [Next]_vars PROVE GInv'
  OBVIOUS
<1>1. CASE Next
  <2>1. TypeOK'
    BY <1>1, Types DEF GInv
  <2>2. DeadHasQuit' /\ ClearedSeen'
    BY <1>1, Seen DEF GInv
  <2>3. CrashExplained'
    BY <1>1, Crashes DEF GInv
  <2>4. CASE QuietStep
    <3>1. Quiet
      BY <2>4, QuietIsQuiet
    <3>2. overtaken' = overtaken /\ quitting' = quitting
      BY <3>1 DEF Quiet
    <3>3. QED
      BY <2>1, <2>2, <2>3, <3>1, <3>2, QuietKeeps DEF GInv
  <2>5. CASE OtherStep
    <3>1. ~overtaken' => OneAtATime' /\ CreatedIsValid'
      BY <1>1, <2>5, HistoryStays, NoneOvertaken DEF GInv
    <3>2. ~quitting' => InLine'
      BY <1>1, <2>5, HistoryStays, LineKept DEF GInv
    <3>3. QED
      BY <2>1, <2>2, <2>3, <3>1, <3>2 DEF GInv
  <2>6. QED
    BY <1>1, <2>4, <2>5, QuietOrOther
<1>2. CASE UNCHANGED vars
  <2> USE <1>2 DEF vars, threadVars, loaderVars, looperVars, surfaceVars, countVars,
                   renderVars, historyVars
  <2>1. TypeOK'
    BY DEF GInv, TypeOK, UIType, GLType, FlagType, LoaderType, QueueType
  <2>2. DeadHasQuit' /\ ClearedSeen' /\ CrashExplained'
    BY DEF GInv, DeadHasQuit, ClearedSeen, WillUseLoader, UsingLoader, CrashExplained
  <2>3. Quiet
    BY DEF Quiet
  <2>4. QED
    BY <2>1, <2>2, <2>3, QuietKeeps DEF GInv
<1>3. QED
  BY <1>1, <1>2

LEMMA SpecInv == Spec => []GInv
  BY InitInv, NextInv, PTL DEF Spec

-----------------------------------------------------------------------------
(* The fields of the view, the two threads' places and the looper's queue. *)
THEOREM TypeCorrect == Spec => []TypeOK
<1>1. GInv => TypeOK
  BY DEF GInv
<1>2. QED
  BY <1>1, SpecInv, PTL

(* However many surfaces and calls: EGL fails on the surface only if the    *)
(* surface changed before the GL thread was done with the change before,   *)
(* the loader is null only if it was cleared in use or with a Camera2      *)
(* camera to come, and the looper is null only after quit.                 *)
THEOREM CrashesExplained == Spec => []CrashExplained
<1>1. GInv => CrashExplained
  BY DEF GInv
<1>2. QED
  BY <1>1, SpecInv, PTL

(* When the messages are handled, the environment is there if and only if  *)
(* the surface is, and it is one.                                          *)
THEOREM RendererFollows == Spec => []RendererFollowsSurface
<1>1. ASSUME GInv PROVE RendererFollowsSurface
  <2>1. SUFFICES ASSUME Rest, gl = "idle", ~AboutSurface, ~quitting
                 PROVE  /\ mSurfaceTexture = (surface # 0)
                        /\ environments = IF surface # 0 THEN 1 ELSE 0
    BY DEF RendererFollowsSurface
  <2>2. \A k \in 1..Len(messages) : ~About(k)
    <3>1. DOMAIN messages = 1..Len(messages)
      BY <1>1 DEF GInv, TypeOK, QueueType
    <3>2. QED
      BY <2>1, <3>1 DEF AboutSurface, About
  <2>3. Built <=> Told
    BY <1>1, <2>1, <2>2 DEF GInv, InLine, NoneLeft
  <2>4. environments = 1 <=> surface # 0
    BY <2>1, <2>3 DEF Built, Told, PendingAbout, Rest
  <2>5. environments \in {0, 1} /\ (mSurfaceTexture <=> environments = 1)
    BY <1>1, <2>1 DEF GInv, InLine, Environment
  <2>6. mSurfaceTexture \in BOOLEAN
    BY <1>1 DEF GInv, TypeOK, FlagType
  <2>7. mSurfaceTexture = (surface # 0)
    BY <2>4, <2>5, <2>6
  <2>8. QED
    BY <2>4, <2>5, <2>7
<1>2. QED
  BY <1>1, SpecInv, PTL

====

---------------------------- MODULE GLCameraView -----------------------------
(***************************************************************************)
(* GLCameraView with its GLThread, GLCameraHandler and GLCameraRenderer:   *)
(* the view that renders in a looper thread of its own.  The UI thread     *)
(* posts what happens to the surface; the GL thread builds and gives up    *)
(* the EGL environment.  The camera loader is seen as a field, and as the  *)
(* source of MSG_IMAGE_CHANGED: a Camera1Loader tells its size inside      *)
(* resume, a Camera2Loader when its camera comes, on the looper of the     *)
(* thread that called resume.  No layout of the application holds the view *)
(* and it does not register itself with its SurfaceHolder: here an owner   *)
(* has registered it.                                                      *)
(***************************************************************************)
EXTENDS Naturals, Sequences

CONSTANTS MaxSurfaces,   (* bound: surfaces the window manager makes          *)
          MaxCalls       (* bound: calls of the view's owner                  *)

ASSUME BoundAssumption == MaxSurfaces \in Nat /\ MaxCalls \in Nat

VARIABLES
  ui, pending,         (* the UI thread's place; the message it has to send   *)
  gl,                  (* the GL thread: starting, its place in a message,    *)
                       (* idle in the loop, or dead                           *)
  isPaused, isRendered,
  mCameraHandler,      (* the field is not null                               *)
  mCameraLoader,       (* the loader of the field, or none                    *)
  coming,              (* Camera2 cameras each thread asked for that may      *)
                       (* still come                                          *)
  messages, quitting,  (* the looper's queue; quit was called                 *)
  surface, valid,      (* number of the view's surface, 0 without; the        *)
                       (* Surface object has a native surface                 *)
  surfaces, calls,     (* how many so far                                     *)
  environments,        (* EGL environments built and not given up             *)
  mSurfaceTexture,     (* not null: frames are drawn                          *)
  overtaken,           (* history: the surface changed with a message about   *)
                       (* the change before still in the queue, or in the GL  *)
                       (* thread's hands                                      *)
  cleared,             (* history: the loader field was cleared between the   *)
                       (* GL thread's test and its last use, or with a        *)
                       (* Camera2 camera still to come                        *)
  fault                (* the exception that ends the program                 *)

threadVars  == <<isPaused, isRendered>>
loaderVars  == <<mCameraLoader, coming>>
looperVars  == <<messages, quitting>>
surfaceVars == <<surface, valid>>
countVars   == <<surfaces, calls>>
renderVars  == <<environments, mSurfaceTexture>>
historyVars == <<overtaken, cleared>>
vars == <<ui, pending, gl, threadVars, mCameraHandler, loaderVars, looperVars,
          surfaceVars, countVars, renderVars, historyVars, fault>>

UI == "ui"
GL == "gl"
Loaders == {"camera1", "camera2"}
NoLoader == "none"
NoFault == "none"
NoMessage == "none"

Init ==
  /\ ui = "idle" /\ pending = NoMessage
  /\ gl = "starting"
  /\ isPaused = FALSE /\ isRendered = FALSE
  /\ mCameraHandler = FALSE
  /\ mCameraLoader = "camera1" /\ coming = [t \in {UI, GL} |-> 0]
  /\ messages = <<>> /\ quitting = FALSE
  /\ surface = 0 /\ valid = FALSE
  /\ surfaces = 0 /\ calls = 0
  /\ environments = 0 /\ mSurfaceTexture = FALSE
  /\ overtaken = FALSE /\ cleared = FALSE
  /\ fault = NoFault

Throw(f) ==
  /\ fault' = f
  /\ UNCHANGED <<ui, pending, gl, threadVars, mCameraHandler, loaderVars, looperVars,
                 surfaceVars, countVars, renderVars, historyVars>>

-----------------------------------------------------------------------------
(* Messages.  A looper that was told to quit takes none.                   *)

Post(m) == messages' = IF quitting THEN messages ELSE Append(messages, m)

(* Faulty variant: getLooper waits for another flag.                        *)
LooperKnown_Rendered == isRendered

(* What getLooper waits for.                                                *)
LooperKnown == gl # "starting"

(* getCameraHandler makes the handler when it is first needed, with the     *)
(* looper the thread has published.  Then the message is sent.              *)
SendMessage ==
  /\ pending # NoMessage
  /\ mCameraHandler \/ (LooperKnown /\ gl # "dead")
  /\ mCameraHandler' = TRUE
  /\ Post(pending)
  /\ pending' = NoMessage
  /\ UNCHANGED <<ui, gl, threadVars, loaderVars, quitting, surfaceVars, countVars,
                 renderVars, historyVars, fault>>

(* The looper of a dead thread is null, and no handler is made for it.      *)
NoLooper ==
  /\ pending # NoMessage
  /\ ~mCameraHandler /\ gl = "dead"
  /\ Throw("looper")

Enter(step) ==
  /\ ui = "idle" /\ pending = NoMessage
  /\ ui' = step

Go(from, to) ==
  /\ ui = from /\ pending = NoMessage
  /\ ui' = to

-----------------------------------------------------------------------------
(* Callbacks of the surface.                                               *)

AboutSurface == \E k \in DOMAIN messages : messages[k] \in {"created", "destroyed"}
Behind == AboutSurface \/ gl \in {"init", "release"}

SurfaceCreated ==
  /\ Enter("idle")
  /\ surface = 0 /\ surfaces < MaxSurfaces
  /\ surfaces' = surfaces + 1
  /\ surface' = surfaces + 1 /\ valid' = TRUE
  /\ pending' = "created"
  /\ overtaken' = (overtaken \/ Behind)
  /\ UNCHANGED <<gl, threadVars, mCameraHandler, loaderVars, looperVars, calls,
                 renderVars, cleared, fault>>

SurfaceChanged ==
  /\ Enter("idle")
  /\ surface # 0 /\ calls < MaxCalls
  /\ calls' = calls + 1
  /\ pending' = "size"
  /\ UNCHANGED <<gl, threadVars, mCameraHandler, loaderVars, looperVars, surfaceVars,
                 surfaces, renderVars, historyVars, fault>>

(* It returns before the renderer knows, and the surface is gone with that. *)
SurfaceDestroyed ==
  /\ Enter("idle")
  /\ surface # 0
  /\ surface' = 0 /\ valid' = FALSE
  /\ pending' = "destroyed"
  /\ overtaken' = (overtaken \/ Behind)
  /\ UNCHANGED <<gl, threadVars, mCameraHandler, loaderVars, looperVars, countVars,
                 renderVars, cleared, fault>>

-----------------------------------------------------------------------------
(* Calls of the view's owner.                                              *)

Call(step) ==
  /\ Enter(step)
  /\ calls < MaxCalls
  /\ calls' = calls + 1

(* A Camera1Loader that is started tells the preview size it has chosen, if *)
(* one fits, through the handler; a Camera2Loader asks for its camera.       *)
LoaderStarts ==
  \/ /\ mCameraLoader = "camera1"
     /\ pending' \in {"size", NoMessage}
     /\ UNCHANGED coming
  \/ /\ mCameraLoader = "camera2"
     /\ coming' = [coming EXCEPT ![UI] = @ + 1]
     /\ UNCHANGED pending
  \/ mCameraLoader = NoLoader /\ UNCHANGED <<pending, coming>>

(* setPreviewType and switchCamera.                                         *)
RestartCamera ==
  /\ Call("idle")
  /\ LoaderStarts
  /\ UNCHANGED <<gl, threadVars, mCameraHandler, mCameraLoader, looperVars, surfaceVars,
                 surfaces, renderVars, historyVars, fault>>

OnResume ==
  /\ Call("resume")
  /\ LoaderStarts
  /\ UNCHANGED <<gl, threadVars, mCameraHandler, mCameraLoader, looperVars, surfaceVars,
                 surfaces, renderVars, historyVars, fault>>

ThreadOnResume ==
  /\ Go("resume", "idle")
  /\ isPaused' = (isPaused /\ isRendered)
  /\ isRendered' = (isPaused \/ isRendered)
  /\ UNCHANGED <<pending, gl, mCameraHandler, loaderVars, looperVars, surfaceVars,
                 countVars, renderVars, historyVars, fault>>

OnPause ==
  /\ Call("pause")
  /\ UNCHANGED <<pending, gl, threadVars, mCameraHandler, loaderVars, looperVars,
                 surfaceVars, surfaces, renderVars, historyVars, fault>>

ThreadOnPause ==
  /\ Go("pause", IF ~isPaused /\ isRendered THEN "wait" ELSE "idle")
  /\ UNCHANGED <<pending, gl, threadVars, mCameraHandler, loaderVars, looperVars,
                 surfaceVars, countVars, renderVars, historyVars, fault>>

(* Who would notify is run, before isRendered is set, or onResume, on this  *)
(* thread: wait can only return as Object.wait may, without a reason.       *)
SpuriousWakeup ==
  /\ Go("wait", "idle")
  /\ isPaused' = TRUE /\ isRendered' = FALSE
  /\ UNCHANGED <<pending, gl, mCameraHandler, loaderVars, looperVars, surfaceVars,
                 countVars, renderVars, historyVars, fault>>

(* The GL thread is between its test of the field and its last use, or a    *)
(* camera's callback will use it.                                           *)
UsingLoader == gl \in {"texture", "resume", "orientation"}
WillUseLoader ==
  UsingLoader \/ (\E t \in {UI, GL} : coming[t] > 0)
              \/ \E k \in DOMAIN messages : messages[k] = "opened"

ClearLoader ==
  /\ mCameraLoader' = NoLoader
  /\ cleared' = (cleared \/ WillUseLoader)

SetCameraType ==
  /\ Call("newLoader")
  /\ ClearLoader
  /\ UNCHANGED <<pending, gl, threadVars, mCameraHandler, coming, looperVars, surfaceVars,
                 surfaces, renderVars, overtaken, fault>>

(* For a type that is neither of the two there is none.                     *)
InitCamera ==
  /\ Go("newLoader", "idle")
  /\ mCameraLoader' \in Loaders \cup {NoLoader}
  /\ UNCHANGED <<pending, gl, threadVars, mCameraHandler, coming, looperVars, surfaceVars,
                 countVars, renderVars, historyVars, fault>>

OnRelease ==
  /\ Call("quit")
  /\ ClearLoader
  /\ UNCHANGED <<pending, gl, threadVars, mCameraHandler, coming, looperVars, surfaceVars,
                 surfaces, renderVars, overtaken, fault>>

(* Looper.quit: what is in the queue is dropped.                            *)
Quit ==
  /\ Go("quit", "idle")
  /\ LooperKnown
  /\ quitting' = TRUE
  /\ messages' = <<>>
  /\ UNCHANGED <<pending, gl, threadVars, mCameraHandler, loaderVars, surfaceVars,
                 countVars, renderVars, historyVars, fault>>

-----------------------------------------------------------------------------
(* The cameras of Camera2Loaders.  release does not take back a request, so *)
(* a camera can come at any time after it, or never.                        *)

Comes(t) == coming[t] > 0 /\ coming' = [coming EXCEPT ![t] = @ - 1]

(* onOpened on the UI thread: onCameraPreSize reads the loader field of the *)
(* view, whichever loader it holds by now.                                  *)
OnOpened ==
  /\ Enter("idle")
  /\ Comes(UI)
  /\ mCameraLoader # NoLoader
  /\ pending' = "size"
  /\ UNCHANGED <<gl, threadVars, mCameraHandler, mCameraLoader, looperVars, surfaceVars,
                 countVars, renderVars, historyVars, fault>>

OpenedWithoutLoader ==
  /\ ui = "idle" /\ pending = NoMessage
  /\ coming[UI] > 0
  /\ mCameraLoader = NoLoader
  /\ Throw("loader")

(* Or it is posted to the looper of the GL thread.                          *)
PostOpened ==
  /\ Comes(GL)
  /\ Post("opened")
  /\ UNCHANGED <<ui, pending, gl, threadVars, mCameraHandler, mCameraLoader, quitting,
                 surfaceVars, countVars, renderVars, historyVars, fault>>

-----------------------------------------------------------------------------
(* The GL thread.                                                          *)

GLGo(from, to) == gl = from /\ gl' = to

Receive(m, to) ==
  /\ GLGo("idle", to)
  /\ messages # <<>> /\ Head(messages) = m
  /\ messages' = Tail(messages)

Run ==
  /\ GLGo("starting", "idle")
  /\ isRendered' = TRUE
  /\ UNCHANGED <<ui, pending, isPaused, mCameraHandler, loaderVars, looperVars,
                 surfaceVars, countVars, renderVars, historyVars, fault>>

HandleCreated ==
  /\ Receive("created", "init")
  /\ UNCHANGED <<ui, pending, threadVars, mCameraHandler, loaderVars, quitting,
                 surfaceVars, countVars, renderVars, historyVars, fault>>

(* GLCameraRenderer.init: the environment on the Surface, then the texture. *)
RendererInit ==
  /\ GLGo("init", "created")
  /\ valid
  /\ environments' = environments + 1
  /\ mSurfaceTexture' = TRUE
  /\ UNCHANGED <<ui, pending, threadVars, mCameraHandler, loaderVars, looperVars,
                 surfaceVars, countVars, historyVars, fault>>

NoWindow ==
  /\ gl = "init"
  /\ ~valid
  /\ Throw("surface")

(* surfaceTextureCreated reads the field three times, and once more in the  *)
(* loader's callback, now or when the camera comes.                         *)
TestLoader ==
  /\ GLGo("created", IF mCameraLoader = NoLoader THEN "idle" ELSE "texture")
  /\ UNCHANGED <<ui, pending, threadVars, mCameraHandler, loaderVars, looperVars,
                 surfaceVars, countVars, renderVars, historyVars, fault>>

UseLoader ==
  /\ \/ GLGo("texture", "resume") /\ mCameraLoader # NoLoader /\ UNCHANGED coming
     \/ /\ GLGo("resume", "orientation") \/ GLGo("resume", "idle")
        /\ mCameraLoader = "camera1" /\ UNCHANGED coming
     \/ /\ GLGo("resume", "idle")
        /\ mCameraLoader = "camera2" /\ coming' = [coming EXCEPT ![GL] = @ + 1]
  /\ UNCHANGED <<ui, pending, threadVars, mCameraHandler, mCameraLoader, looperVars,
                 surfaceVars, countVars, renderVars, historyVars, fault>>

HandleOpened ==
  /\ Receive("opened", "orientation")
  /\ UNCHANGED <<ui, pending, threadVars, mCameraHandler, loaderVars, quitting,
                 surfaceVars, countVars, renderVars, historyVars, fault>>

SendSize ==
  /\ mCameraLoader # NoLoader
  /\ GLGo("orientation", "idle")
  /\ Post("size")
  /\ UNCHANGED <<ui, pending, threadVars, mCameraHandler, loaderVars, quitting,
                 surfaceVars, countVars, renderVars, historyVars, fault>>

LoaderIsNull ==
  /\ UsingLoader
  /\ mCameraLoader = NoLoader
  /\ Throw("loader")

HandleSize ==
  /\ Receive("size", "idle")
  /\ UNCHANGED <<ui, pending, threadVars, mCameraHandler, loaderVars, quitting,
                 surfaceVars, countVars, renderVars, historyVars, fault>>

HandleDestroyed ==
  /\ Receive("destroyed", "release")
  /\ UNCHANGED <<ui, pending, threadVars, mCameraHandler, loaderVars, quitting,
                 surfaceVars, countVars, renderVars, historyVars, fault>>

(* Faulty variant: the environment is kept.                                 *)
RendererRelease_KeepEGL ==
  /\ GLGo("release", "idle")
  /\ mSurfaceTexture' = FALSE
  /\ valid' = FALSE
  /\ UNCHANGED <<ui, pending, threadVars, mCameraHandler, loaderVars, looperVars, surface,
                 countVars, environments, historyVars, fault>>

(* GLCameraRenderer.release: texture, environment, and at last the view's   *)
(* Surface object, whichever surface it stands for by now.                  *)
RendererRelease ==
  /\ GLGo("release", "idle")
  /\ mSurfaceTexture' = FALSE
  /\ environments' = IF environments = 0 THEN 0 ELSE environments - 1
  /\ valid' = FALSE
  /\ UNCHANGED <<ui, pending, threadVars, mCameraHandler, loaderVars, looperVars, surface,
                 countVars, historyVars, fault>>

(* Faulty variant: the loop ends when there is nothing to do.               *)
LoopEnds_Early ==
  /\ GLGo("idle", "dead")
  /\ messages = <<>>
  /\ UNCHANGED <<ui, pending, threadVars, mCameraHandler, loaderVars, looperVars,
                 surfaceVars, countVars, renderVars, historyVars, fault>>

LoopEnds ==
  /\ GLGo("idle", "dead")
  /\ quitting
  /\ UNCHANGED <<ui, pending, threadVars, mCameraHandler, loaderVars, looperVars,
                 surfaceVars, countVars, renderVars, historyVars, fault>>

-----------------------------------------------------------------------------
Start == SurfaceCreated \/ SurfaceChanged \/ SurfaceDestroyed \/ RestartCamera
         \/ OnResume \/ OnPause \/ SetCameraType \/ OnRelease

UIStep == SendMessage \/ NoLooper \/ ThreadOnResume \/ ThreadOnPause \/ InitCamera \/ Quit

CameraStep == OnOpened \/ OpenedWithoutLoader \/ PostOpened

GLStep == Run \/ HandleCreated \/ RendererInit \/ NoWindow \/ TestLoader \/ UseLoader
          \/ HandleOpened \/ SendSize \/ LoaderIsNull \/ HandleSize \/ HandleDestroyed
          \/ RendererRelease \/ LoopEnds

Next == fault = NoFault /\ (Start \/ UIStep \/ SpuriousWakeup \/ CameraStep \/ GLStep)

Spec == Init /\ [][Next]_vars

(* Both threads are scheduled; the owner need not call, and a wait need not *)
(* return by itself.                                                        *)
FairSpec == Spec /\ WF_vars(fault = NoFault /\ UIStep) /\ WF_vars(fault = NoFault /\ GLStep)

-----------------------------------------------------------------------------
Rest == ui = "idle" /\ pending = NoMessage

(* A call of the UI thread comes back: the GL thread publishes its looper   *)
(* to whoever waits for it, and only GLThread.onPause can wait for ever     *)
(* (GLThread.java:57), which takes a thread that has begun to loop.         *)
CallsReturn ==
  ~Rest ~> Rest \/ fault # NoFault \/ (ui = "wait" /\ isRendered)

(* The program ends by an exception only when a surface is replaced before  *)
(* the GL thread has dealt with the one before, its release included; when  *)
(* the loader is cleared while the GL thread uses it, or with a camera of a *)
(* Camera2Loader still to come (GLCameraView.java:99); or when the first    *)
(* message comes after quit.                                                *)
CrashExplained ==
  /\ fault = "surface" => overtaken
  /\ fault = "loader" => cleared
  /\ fault = "looper" => quitting

(* Once the messages are handled there is an environment and a texture if   *)
(* and only if there is a surface, and never a second one: unless quit      *)
(* dropped a message, and the environment with it.                          *)
RendererFollowsSurface ==
  Rest /\ gl = "idle" /\ ~AboutSurface /\ ~quitting /\ fault = NoFault =>
    /\ mSurfaceTexture = (surface # 0)
    /\ environments = IF surface # 0 THEN 1 ELSE 0

=============================================================================

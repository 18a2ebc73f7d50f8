------------------------------- MODULE Preview -------------------------------
(***************************************************************************)
(* GLCameraActivity's preview: GLCameraPreview, Camera1Loader,             *)
(* GLImageRenderer and the RendererManager.  Two threads run this code:    *)
(* the UI thread in the activity's callbacks and clicks, and the GL thread *)
(* of GLSurfaceView in the renderer's callbacks.  Both set up the camera,  *)
(* through the same fields and without a lock.                             *)
(*                                                                         *)
(* A callback is the sequence of steps it still has to make, todo[t]; one  *)
(* step is one access to what the other thread shares.  Cameras and        *)
(* textures are numbered as they are made, Null is Java's null.            *)
(***************************************************************************)
EXTENDS Naturals, Sequences

CONSTANTS MaxOpens,   (* bound: callbacks that set up the camera              *)
          MaxClicks,  (* bound: presses of the picture button                 *)
          Sizes       (* preview sizes of the wanted ratio a camera may have  *)

NoSize == 0           (* no preview size has the wanted ratio; image size 0   *)

ASSUME BoundAssumption == MaxOpens \in Nat \ {0} /\ MaxClicks \in Nat
ASSUME SizeAssumption == Sizes \subseteq Nat \ {NoSize} /\ Sizes # {}

VARIABLES
  todo,            (* each thread's remaining steps                           *)
  activity,        (* GLCameraActivity's state of life                        *)
  loader,          (* GLCameraPreview.mCameraLoader is not null               *)
  facing,          (* Camera1Loader.cameraFacing                              *)
  cameraInstance,  (* Camera1Loader.cameraInstance                            *)
  loaderTexture,   (* Camera1Loader.mSurfaceTexture                           *)
  sizeOf,          (* the preview size of each camera, NoSize when none fits  *)
  cam,             (* each camera opened: state, facing, texture it fills     *)
  texture,         (* GLImageRenderer.mSurfaceTexture, with its textures      *)
  imageSize,       (* GLImageRenderer.mImageWidth and mImageHeight            *)
  manager,         (* the RendererManager: its filters, sizes and flag        *)
  surface,         (* GLSurfaceView: the window has a surface                 *)
  context,         (* GLSurfaceView: the GL thread has an EGL context         *)
  requestPaused, glPaused,  (* GLSurfaceView: onPause asked, the GL thread is *)
  begun,           (* callbacks that set up the camera, so far                *)
  textures,        (* textures made so far                                    *)
  clicks, pictures,
  overlap,         (* history: a callback began while the other thread was in *)
                   (* one that touches the camera                             *)
  openFailed,      (* history: Camera.open failed                             *)
  switched,        (* history: switchCamera since the last onSurfaceCreated   *)
  crashed          (* the uncaught exception that ended the process           *)

loaderVars  == <<loader, facing, cameraInstance, loaderTexture, cam>>
renderVars  == <<texture, imageSize, manager, textures>>
viewVars    == <<surface, context, requestPaused, glPaused>>
countVars   == <<begun, clicks, pictures>>
historyVars == <<overlap, openFailed, switched>>
vars == <<todo, activity, sizeOf, loaderVars, renderVars, viewVars, countVars,
          historyVars, crashed>>

Threads == {"ui", "gl"}
Facings == {"front", "back"}
Cameras == 1..MaxOpens
Null == 0

NoManager == [filters |-> "none", image |-> NoSize, frame |-> NoSize, take |-> FALSE]

Init ==
  /\ todo = [t \in Threads |-> <<>>]
  /\ activity = "paused"
  /\ loader = TRUE /\ facing = "front"
  /\ cameraInstance = Null /\ loaderTexture = Null
  /\ sizeOf \in [Facings -> Sizes \cup {NoSize}]
  /\ cam = [c \in Cameras |-> [state |-> "none", facing |-> "front", texture |-> Null]]
  /\ texture = Null /\ imageSize = NoSize /\ manager = NoManager
  /\ surface = FALSE /\ context = FALSE /\ requestPaused = FALSE /\ glPaused = FALSE
  /\ begun = 0 /\ textures = 0 /\ clicks = 0 /\ pictures = 0
  /\ overlap = FALSE /\ openFailed = FALSE /\ switched = FALSE
  /\ crashed = "no"

-----------------------------------------------------------------------------
(* Steps.                                                                  *)

At(t, step) == todo[t] # <<>> /\ Head(todo[t]) = step
Skip(t, n) == todo' = [todo EXCEPT ![t] = SubSeq(@, n + 1, Len(@))]
Do(t, step) == At(t, step) /\ Skip(t, 1)
Idle(t) == todo[t] = <<>>

Crash(cause) ==
  /\ crashed' = cause
  /\ UNCHANGED <<todo, activity, sizeOf, loaderVars, renderVars, viewVars,
                 countVars, historyVars>>

(* Camera1Loader.setUpCamera and Camera1Loader.release.                    *)
SetUp == <<"open", "configure", "texture", "start">>
Release == <<"test", "stop", "clear">>

(* One drawn frame: GLImageRenderer.drawFrame.                             *)
DrawFrame == <<"draw", "picture", "resetTake">>

(* onSurfaceCreated; onSurfaceChanged and onDrawFrame follow it at once.    *)
SurfaceCreated ==
  <<"manager", "createTexture", "share">> \o SetUp
    \o <<"imageSize", "displaySize">> \o DrawFrame

UsesCamera(t) == \E i \in DOMAIN todo[t] :
                   todo[t][i] \in {"open", "configure", "texture", "start",
                                   "test", "stop", "clear", "glPause"}
Other(t) == IF t = "ui" THEN "gl" ELSE "ui"

Begin(t, steps) ==
  /\ Idle(t)
  /\ todo' = [todo EXCEPT ![t] = steps]
  /\ overlap' = (overlap \/ UsesCamera(Other(t)))

BeginSetUp == begun < MaxOpens /\ begun' = begun + 1

-----------------------------------------------------------------------------
(* The camera service (android.hardware.Camera).                           *)

Open(c) == cam[c].state \in {"open", "previewing"}
Usable == cameraInstance # Null /\ Open(cameraInstance)

(* A second client of the process evicts the first one of the same camera;  *)
(* two different cameras may or may not be open together.                   *)
EvictedBy(f) ==
  {{c \in Cameras : Open(c) /\ cam[c].facing = f}, {c \in Cameras : Open(c)}}

-----------------------------------------------------------------------------
(* Camera1Loader, run by thread t.                                         *)

OpenCamera(t) ==
  /\ Do(t, "open")
  /\ \/ \E c \in Cameras, evicted \in EvictedBy(facing) :
          /\ cam[c].state = "none" /\ \A d \in 1..(c - 1) : cam[d].state # "none"
          /\ cam' = [d \in Cameras |->
                       IF d = c THEN [cam[c] EXCEPT !.state = "open", !.facing = facing]
                       ELSE IF d \in evicted THEN [cam[d] EXCEPT !.state = "evicted"]
                       ELSE cam[d]]
          /\ cameraInstance' = c
          /\ UNCHANGED openFailed
     \/ /\ cameraInstance' = Null
        /\ openFailed' = TRUE
        /\ UNCHANGED cam
  /\ UNCHANGED <<activity, sizeOf, loader, facing, loaderTexture, renderVars,
                 viewVars, countVars, overlap, switched, crashed>>

(* Faulty variant: only the first size is reported.                         *)
Configure_Once(t) ==
  /\ At(t, "configure")
  /\ IF Usable
     THEN /\ Do(t, "configure")
          /\ imageSize' = IF imageSize = NoSize THEN sizeOf[cam[cameraInstance].facing]
                          ELSE imageSize
          /\ UNCHANGED <<activity, sizeOf, loaderVars, texture, manager, textures,
                         viewVars, countVars, historyVars, crashed>>
     ELSE Crash("camera")

(* getParameters to setDisplayOrientation; setPreviewSize reports the size  *)
(* it found through onCameraPreSize to GLImageRenderer.setImageSize.        *)
Configure(t) ==
  /\ At(t, "configure")
  /\ IF Usable
     THEN LET size == sizeOf[cam[cameraInstance].facing] IN
          /\ Do(t, "configure")
          /\ imageSize' = IF size = NoSize THEN imageSize ELSE size
          /\ UNCHANGED <<activity, sizeOf, loaderVars, texture, manager, textures,
                         viewVars, countVars, historyVars, crashed>>
     ELSE Crash("camera")

(* setPreviewTexture; on a texture released meanwhile it may fail, and the  *)
(* IOException is caught.                                                   *)
SetTexture(t) ==
  /\ At(t, "texture")
  /\ IF loaderTexture = Null \/ Usable
     THEN /\ Do(t, "texture")
          /\ \/ /\ loaderTexture # Null
                /\ cam' = [cam EXCEPT ![cameraInstance].texture = loaderTexture]
             \/ /\ loaderTexture = Null \/ loaderTexture # texture
                /\ UNCHANGED cam
          /\ UNCHANGED <<activity, sizeOf, loader, facing, cameraInstance,
                         loaderTexture, renderVars, viewVars, countVars,
                         historyVars, crashed>>
     ELSE Crash("camera")

StartPreview(t) ==
  /\ At(t, "start")
  /\ IF Usable
     THEN /\ Do(t, "start")
          /\ cam' = [cam EXCEPT ![cameraInstance].state = "previewing"]
          /\ UNCHANGED <<activity, sizeOf, loader, facing, cameraInstance,
                         loaderTexture, renderVars, viewVars, countVars,
                         historyVars, crashed>>
     ELSE Crash("camera")

ReleaseTest(t) ==
  /\ At(t, "test")
  /\ Skip(t, IF cameraInstance = Null THEN Len(Release) ELSE 1)
  /\ UNCHANGED <<activity, sizeOf, loaderVars, renderVars, viewVars, countVars,
                 historyVars, crashed>>

ReleaseStop(t) ==
  /\ At(t, "stop")
  /\ IF cameraInstance # Null /\ cam[cameraInstance].state # "released"
     THEN /\ Do(t, "stop")
          /\ cam' = [cam EXCEPT ![cameraInstance].state = "released"]
          /\ UNCHANGED <<activity, sizeOf, loader, facing, cameraInstance,
                         loaderTexture, renderVars, viewVars, countVars,
                         historyVars, crashed>>
     ELSE Crash("camera")

(* Faulty variant: the field keeps the released camera.                     *)
ReleaseClear_Keep(t) ==
  /\ Do(t, "clear")
  /\ UNCHANGED <<activity, sizeOf, loaderVars, renderVars, viewVars, countVars,
                 historyVars, crashed>>

ReleaseClear(t) ==
  /\ Do(t, "clear")
  /\ cameraInstance' = Null
  /\ UNCHANGED <<activity, sizeOf, loader, facing, loaderTexture, cam, renderVars,
                 viewVars, countVars, historyVars, crashed>>

-----------------------------------------------------------------------------
(* The UI thread: the activity's callbacks and the buttons.                *)

Resume ==
  /\ activity = "paused"
  /\ BeginSetUp
  /\ Begin("ui", SetUp \o <<"glResume", "waitResume">>)
  /\ activity' = "resumed"
  /\ UNCHANGED <<sizeOf, loaderVars, renderVars, viewVars, clicks, pictures,
                 openFailed, switched, crashed>>

(* Faulty variants: onPause forgets the camera, or the GL thread.           *)
Pause_KeepCamera ==
  /\ activity = "resumed"
  /\ Begin("ui", <<"glPause", "waitPause">>)
  /\ activity' = "paused"
  /\ UNCHANGED <<sizeOf, loaderVars, renderVars, viewVars, countVars, openFailed,
                 switched, crashed>>

Pause_KeepDrawing ==
  /\ activity = "resumed"
  /\ Begin("ui", Release)
  /\ activity' = "paused"
  /\ UNCHANGED <<sizeOf, loaderVars, renderVars, viewVars, countVars, openFailed,
                 switched, crashed>>

Pause ==
  /\ activity = "resumed"
  /\ Begin("ui", Release \o <<"glPause", "waitPause">>)
  /\ activity' = "paused"
  /\ UNCHANGED <<sizeOf, loaderVars, renderVars, viewVars, countVars, openFailed,
                 switched, crashed>>

Opposite == [front |-> "back", back |-> "front"]

(* Faulty variant: the other camera is opened without releasing this one.   *)
SwitchCamera_NoRelease ==
  /\ activity = "resumed"
  /\ BeginSetUp
  /\ Begin("ui", SetUp)
  /\ facing' = Opposite[facing]
  /\ switched' = TRUE
  /\ UNCHANGED <<activity, sizeOf, loader, cameraInstance, loaderTexture, cam,
                 renderVars, viewVars, clicks, pictures, openFailed, crashed>>

SwitchCamera ==
  /\ activity = "resumed"
  /\ BeginSetUp
  /\ Begin("ui", Release \o SetUp)
  /\ facing' = Opposite[facing]
  /\ switched' = TRUE
  /\ UNCHANGED <<activity, sizeOf, loader, cameraInstance, loaderTexture, cam,
                 renderVars, viewVars, clicks, pictures, openFailed, crashed>>

TakePicture ==
  /\ activity = "resumed" /\ Idle("ui")
  /\ clicks < MaxClicks
  /\ clicks' = clicks + 1
  /\ manager' = [manager EXCEPT !.take = (manager.filters # "none")]
  /\ UNCHANGED <<todo, activity, sizeOf, loaderVars, texture, imageSize, textures,
                 viewVars, begun, pictures, historyVars, crashed>>

(* GLCameraPreview.onRelease.                                               *)
Destroy ==
  /\ activity = "paused"
  /\ Begin("ui", Release \o <<"dropLoader", "releaseTexture", "releaseRenderer">>)
  /\ activity' = "destroyed"
  /\ UNCHANGED <<sizeOf, loaderVars, renderVars, viewVars, countVars, openFailed,
                 switched, crashed>>

DropLoader ==
  /\ Do("ui", "dropLoader")
  /\ loader' = FALSE
  /\ UNCHANGED <<activity, sizeOf, facing, cameraInstance, loaderTexture, cam,
                 renderVars, viewVars, countVars, historyVars, crashed>>

ReleaseTexture ==
  /\ Do("ui", "releaseTexture")
  /\ texture' = Null
  /\ UNCHANGED <<activity, sizeOf, loaderVars, imageSize, manager, textures,
                 viewVars, countVars, historyVars, crashed>>

ReleaseRenderer ==
  /\ Do("ui", "releaseRenderer")
  /\ manager' = IF manager.filters = "none" THEN manager
                ELSE [manager EXCEPT !.filters = "released"]
  /\ UNCHANGED <<activity, sizeOf, loaderVars, texture, imageSize, textures,
                 viewVars, countVars, historyVars, crashed>>

-----------------------------------------------------------------------------
(* GLSurfaceView: its pause and resume wait for the GL thread, which loses *)
(* its EGL context in a pause.  A window gets its surface when the activity *)
(* is resumed, and may lose it when it is not.                             *)

GLRequest(step, paused) ==
  /\ Do("ui", step)
  /\ requestPaused' = paused
  /\ UNCHANGED <<activity, sizeOf, loaderVars, renderVars, surface, context,
                 glPaused, countVars, historyVars, crashed>>

GLResume == GLRequest("glResume", FALSE)
GLPause == GLRequest("glPause", TRUE)

GLAwait(step, paused) ==
  /\ glPaused = paused
  /\ Do("ui", step)
  /\ UNCHANGED <<activity, sizeOf, loaderVars, renderVars, viewVars, countVars,
                 historyVars, crashed>>

WaitResume == GLAwait("waitResume", FALSE)
WaitPause == GLAwait("waitPause", TRUE)

GLFollow ==
  /\ Idle("gl") /\ glPaused # requestPaused
  /\ glPaused' = requestPaused
  /\ context' = FALSE
  /\ UNCHANGED <<todo, activity, sizeOf, loaderVars, renderVars, surface,
                 requestPaused, countVars, historyVars, crashed>>

SurfaceChange ==
  /\ Idle("ui")
  /\ surface' = ~surface
  /\ surface = (activity # "resumed")
  /\ UNCHANGED <<todo, activity, sizeOf, loaderVars, renderVars, context,
                 requestPaused, glPaused, countVars, historyVars, crashed>>

GLRunning == Idle("gl") /\ ~glPaused /\ ~requestPaused /\ surface

CreateContext ==
  /\ GLRunning /\ ~context
  /\ BeginSetUp
  /\ Begin("gl", SurfaceCreated)
  /\ context' = TRUE
  /\ switched' = FALSE
  /\ UNCHANGED <<activity, sizeOf, loaderVars, renderVars, surface, requestPaused,
                 glPaused, clicks, pictures, openFailed, crashed>>

(* onFrameAvailable asked for it.                                           *)
RequestedDraw ==
  /\ GLRunning /\ context
  /\ todo' = [todo EXCEPT !["gl"] = DrawFrame]
  /\ UNCHANGED <<activity, sizeOf, loaderVars, renderVars, viewVars, countVars,
                 historyVars, crashed>>

-----------------------------------------------------------------------------
(* The GL thread: GLImageRenderer and RendererManager.                     *)

(* The filters of an earlier manager went with their context.               *)
MakeManager ==
  /\ Do("gl", "manager")
  /\ manager' = [NoManager EXCEPT !.filters = "live"]
  /\ UNCHANGED <<activity, sizeOf, loaderVars, texture, imageSize, textures,
                 viewVars, countVars, historyVars, crashed>>

(* createTexture releases the texture of the lost context first.            *)
CreateTexture ==
  /\ Do("gl", "createTexture")
  /\ textures' = textures + 1
  /\ texture' = textures + 1
  /\ UNCHANGED <<activity, sizeOf, loaderVars, imageSize, manager, viewVars,
                 countVars, historyVars, crashed>>

(* Faulty variants: a loader that has a texture keeps it; the callback      *)
(* waits for the UI thread to be free.                                      *)
ShareTexture_Once ==
  /\ Do("gl", "share")
  /\ loaderTexture' = IF loaderTexture = Null THEN texture ELSE loaderTexture
  /\ UNCHANGED <<activity, sizeOf, loader, facing, cameraInstance, cam,
                 renderVars, viewVars, countVars, historyVars, crashed>>

ShareTexture_OnUI ==
  /\ Do("gl", "share")
  /\ Idle("ui")
  /\ loaderTexture' = texture
  /\ UNCHANGED <<activity, sizeOf, loader, facing, cameraInstance, cam,
                 renderVars, viewVars, countVars, historyVars, crashed>>

(* GLCameraPreview's onSurfaceCreated callback, up to resume.               *)
ShareTexture ==
  /\ At("gl", "share")
  /\ Skip("gl", IF loader THEN 1 ELSE 1 + Len(SetUp))
  /\ loaderTexture' = IF loader THEN texture ELSE loaderTexture
  /\ UNCHANGED <<activity, sizeOf, loader, facing, cameraInstance, cam,
                 renderVars, viewVars, countVars, historyVars, crashed>>

(* RendererManager.setImageSize before it knows a display size.             *)
SetImageSize ==
  /\ Do("gl", "imageSize")
  /\ manager' = [manager EXCEPT !.image = imageSize]
  /\ UNCHANGED <<activity, sizeOf, loaderVars, texture, imageSize, textures,
                 viewVars, countVars, historyVars, crashed>>

(* setDisplaySize; onFilterChanged gives every filter its frame buffer.     *)
SetDisplaySize ==
  /\ Do("gl", "displaySize")
  /\ manager' = [manager EXCEPT !.frame = manager.image]
  /\ UNCHANGED <<activity, sizeOf, loaderVars, texture, imageSize, textures,
                 viewVars, countVars, historyVars, crashed>>

(* textures[0] of a released texture, and a filter without a frame buffer,  *)
(* are null pointers; released filters draw nothing.                        *)
Draw ==
  /\ At("gl", "draw")
  /\ CASE texture = Null -> Crash("texture")
       [] manager.filters = "live" /\ manager.frame = NoSize -> Crash("frame")
       [] OTHER ->
            /\ Skip("gl", IF manager.filters = "live" /\ manager.take
                          THEN 1 ELSE Len(DrawFrame))
            /\ UNCHANGED <<activity, sizeOf, loaderVars, renderVars, viewVars,
                           countVars, historyVars, crashed>>

SavePicture ==
  /\ Do("gl", "picture")
  /\ pictures' = pictures + 1
  /\ UNCHANGED <<activity, sizeOf, loaderVars, renderVars, viewVars, begun, clicks,
                 historyVars, crashed>>

(* Faulty variant: the flag stays.                                          *)
ResetTake_Keep ==
  /\ Do("gl", "resetTake")
  /\ pictures <= MaxClicks
  /\ UNCHANGED <<activity, sizeOf, loaderVars, renderVars, viewVars, countVars,
                 historyVars, crashed>>

ResetTake ==
  /\ Do("gl", "resetTake")
  /\ manager' = [manager EXCEPT !.take = FALSE]
  /\ UNCHANGED <<activity, sizeOf, loaderVars, texture, imageSize, textures,
                 viewVars, countVars, historyVars, crashed>>

-----------------------------------------------------------------------------
CameraStep(t) ==
  OpenCamera(t) \/ Configure(t) \/ SetTexture(t) \/ StartPreview(t)
  \/ ReleaseTest(t) \/ ReleaseStop(t) \/ ReleaseClear(t)

UIBegin == Resume \/ Pause \/ SwitchCamera \/ TakePicture \/ Destroy \/ SurfaceChange

UIStep == CameraStep("ui") \/ GLResume \/ GLPause \/ WaitResume \/ WaitPause
          \/ DropLoader \/ ReleaseTexture \/ ReleaseRenderer

GLStep == CameraStep("gl") \/ GLFollow \/ CreateContext \/ MakeManager
          \/ CreateTexture \/ ShareTexture \/ SetImageSize \/ SetDisplaySize
          \/ Draw \/ SavePicture \/ ResetTake

Next == crashed = "no" /\ (UIBegin \/ UIStep \/ GLStep \/ RequestedDraw)

Spec == Init /\ [][Next]_vars

(* Both threads are scheduled; nobody has to click, and no frame has to     *)
(* come.                                                                    *)
FairSpec == Spec /\ WF_vars(crashed = "no" /\ UIStep) /\ WF_vars(crashed = "no" /\ GLStep)

-----------------------------------------------------------------------------
(* setUpCamera and release call a camera that is null, released or evicted  *)
(* only after Camera.open failed or when the UI thread's callback met       *)
(* onSurfaceCreated; a filter misses its frame buffer only when no size of   *)
(* a camera fits, whoever has met.                                          *)
CrashExplained ==
  /\ crashed = "camera" => overlap \/ openFailed
  /\ crashed = "frame" => \E f \in Facings : sizeOf[f] = NoSize

(* drawFrame never runs on the texture that onRelease gave up: onDestroy    *)
(* comes after an onPause that waited for the GL thread, whatever else      *)
(* overlapped.                                                              *)
TexturesLive == crashed # "texture"

AtRest == \A t \in Threads : Idle(t)

(* onSurfaceCreated opens the camera on top of the one onResume opened, and *)
(* the field forgets the first.  Unless callbacks overlapped, no camera but *)
(* the loader's is open when both threads are at rest.                      *)
OneCamera ==
  AtRest /\ ~overlap => \A c \in Cameras : Open(c) => c = cameraInstance

(* Unless callbacks overlapped, no camera is open while the activity is     *)
(* paused or destroyed: an application in the background must give it up.   *)
ClosedWhenPaused ==
  Idle("ui") /\ activity # "resumed" /\ ~overlap => \A c \in Cameras : ~Open(c)

(* With both threads at rest in the foreground, the camera previews into    *)
(* the texture that is drawn, also after a pause made a new texture while   *)
(* onResume had set up the camera with the old one.                         *)
PreviewVisible ==
  AtRest /\ activity = "resumed" /\ context /\ ~overlap /\ crashed = "no" =>
    /\ cameraInstance # Null
    /\ cam[cameraInstance].state = "previewing"
    /\ cam[cameraInstance].texture = texture

(* Until the camera is switched, the filters' frame buffers have the size   *)
(* of the camera in use, also when it was switched or resumed before this   *)
(* surface was created.  (A switch changes imageSize and not the manager,   *)
(* which hears of it at the next onSurfaceCreated.)                         *)
FramesFit ==
  AtRest /\ context /\ ~overlap /\ ~switched /\ sizeOf[facing] # NoSize =>
    manager.frame = sizeOf[facing]

(* One press of the button saves one picture at most.                       *)
OnePicturePerClick == pictures <= clicks

(* GLSurfaceView.onPause and onResume, called on the UI thread, come back   *)
(* although the GL thread may be setting up the camera.                     *)
CallbackReturns ==
  At("ui", "waitPause") \/ At("ui", "waitResume") ~> Idle("ui") \/ crashed # "no"

=============================================================================

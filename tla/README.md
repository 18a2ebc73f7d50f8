# X264Cmake in TLA+

X264Cmake is an Android application that records the camera and the microphone,
encodes both, pushes the result to an RTMP server, and draws the camera preview
with GPU filters. Below, `J` is `src/app/src/main/java/com/coder/x264cmake` and
`C` is `src/app/src/main/cpp`. The repository's own documentation describes how
libx264 is compiled; the behaviour modelled here is read from the code.

The directory holds modules that model the program, TLC configurations that check
them, and TLAPS proofs about them. `PROJECT.json` is the index: components, runs,
hazards, theorems, the faulty variants (mutants) each property detects, and the
source lines each definition stands for.

## 1. The system

```
 camera callback (UI thread) --pushData--> VideoEncoder --onEncode--+
                                           encode thread            v
 AudioLoader record thread --pushData--> AudioEncoder ----> rtmp_core.c push_audio/push_video
                                           encode thread            |  LinkedQueue (safe_queue.c)
 record button (UI thread): setup, start, stop, open, close         v
                                                       thread_pushing --> RTMP connection

 GLCameraActivity (UI thread) --> GLCameraPreview --> Camera1Loader --> camera service
        |  pause, resume                 ^ onSurfaceCreated
        v                                |
 GLSurfaceView (GL thread) --> GLImageRenderer --> RendererManager --> filters
```

| Component | Source | State | Operations |
|---|---|---|---|
| Media encoders | `J/module/encode` | two enums, fields for codec, queue and thread, a `LinkedBlockingQueue`, the interrupt flag | `setup`, `start`, `stop`, `pushData`, the encode thread's loop, `encodeData` |
| Microphone recorder | `J/module/audio` | `AudioRecord` and its state, the record thread, one reused byte array | `init`, `startRecord`, `stopRecord`, `executeReadData`, `onDestroy` |
| Recording screen | `J/CameraActivity` | `isRecording` | `onClick`, camera and audio listeners |
| Safe queue | `C/safe_queue.c` | front, rear, length, nodes | `create_queue`, `push_data`, `pop_data`, `free_queue` |
| RTMP pusher | `C/rtmp_core.c`, `rtmp_pusher.cpp` | global pointers to the connection and the queue, three flags, the pushing thread | open, close, `thread_pushing`, `push_audio`, `push_video` |
| Native encoders | `C/x264_encode.c`, `faac_encode.c`, `fdk-aac_encode.c`, JNI in `h264-encode.cpp` | two states, file, queue and codec each, all global | init, data, release; `encode_x264` |
| Camera preview screen | `GLCameraActivity`, `GLCameraPreview`, `Camera1Loader`, `GLImageRenderer`, `RendererManager` | the camera, the OES texture, sizes, filters and their frame buffers, the picture flag | resume, pause, switch, picture, destroy; surface created, changed, draw |
| GL thread and camera renderer | `GLThread`, `GLCameraHandler`, `GLCameraRenderer`, `GLCameraView` | the handler and looper of the GL thread, surface, EGL objects, `mSurfaceTexture`, the loader field | surface callbacks, pause, resume, release, handler messages |
| Filters and textures | `J/module/filter` | programs, frame buffers, sizes | init, output and image size, switch, draw, release |
| Other camera loaders | `Camera2Loader`, `CameraLoader`, `CameraPreview` | camera device, capture session, image reader, image bytes | open, switch, the service's callbacks, release |
| EGL | `J/module/camera/egl` | display, context, surface | init, make current, swap, release |
| YUV conversion | `J/utils/YUV420Utils`, `C/yuv_convert.c`, `yuv_core.cpp`, `yuv_rotate.c` | the recording screen's frame array | conversions and rotations, sample by sample |
| Activity stack | `J/core/ActivityStackManager` | a list of activities | push, pop, pop to, pop all |

The components interact by direct calls on whatever thread the caller is on, by
fields that several threads read without a lock, by two kinds of queue, and by
handler messages to the GL thread.

**What is hard.** Six threads (UI, record thread, two encode threads, pushing
thread, GL thread), most fields plain; a stop that interrupts a thread whose loop swallows the
interrupt; a restart while the previous thread is alive; connection and queue freed
under the threads that use them; a linked list without a lock; configuration tags
that have to come first on every new connection; asynchronous camera callbacks; a
UI thread that waits for other threads.

**What makes each component correct.**

- *Media encoders*: what one recording captures reaches the codec in capture order,
  by that recording's thread; a codec is never called in a state that refuses the
  call; the encoder's states agree with the button; stopping ends the thread.
- *Microphone recorder*: stopping joins the record thread and the join returns; no
  block of one recording enters the queue of the next.
- *Safe queue*: FIFO, nothing lost or doubled, every node freed, the documented
  results.
- *RTMP pusher*: no freed object is used; each connection gets its configuration
  first and once; tags reach the wire in order; the queue is drained.
- *Camera preview screen*: the camera in use fills the texture that is drawn; the
  filters' frame buffers have its size; no camera stays open behind the loader's back
  or in the background; drawing never meets a released texture.
- *GL thread*: there is an EGL environment and a texture if and only if there is a
  surface; every call of the UI thread comes back.
- *Camera2 loader*: whatever opens late is closed by the next release; a callback uses
  no session of another camera and nothing that was closed under it; a preview that was
  asked for comes.
- *Framing*: each NAL unit of a packet becomes its tag, byte for byte, each tag is as
  long as its header says, and nothing outside the packet is read.
- *YUV conversion*: every sample of a turned picture is in its place, and no array is
  written past its end.
- *File conversion*: every frame of the input reaches the output, in order.
- *Activity stack*: the stack holds the activities that live and were not asked to
  finish.

`PROJECT.json` "hazards" lists each hazard at the line where it bites, with the
properties that watch it or the reason none does.

## 2. Modules and their code

### `MediaEncoder` — VideoEncoder, AudioEncoder, AudioLoader's record thread, `onClick`

One module for both encoders: `Kind` selects where the classes differ (video waits in
`take()`, audio polls first; the camera callback pushes on the UI thread, audio blocks
come from the record thread; only the audio `encodeData` is synchronized).

A press of the button that starts a recording is a *session*. A session makes at most
one codec, queue, encode thread and record thread, so these objects are named by the
session's number and 0 is Java's null. The fields `mCodec`, `mQueue` and
`mEncodeThread` are variables of their own, because threads of two sessions read them
at each use: that is how the encoder meets its own past.

| Model | Code |
|---|---|
| `RecordOn`, `RecordOff` | the two branches of `CameraActivity.onClick` |
| `SetupCreate`, `SetupConfigure`, `SetupQueue` | `setup`: create the codec (a failure is only logged), configure, new queue and `INITIALIZED` |
| `StartNewThread`, `StartThread` | `start`: field first, then the thread and `ENCODING` |
| `StopFlags`, `StopInterrupt` | `stop`: both enums, then `interrupt()` |
| `StartRecord`, `StopRecord`, `JoinRecordThread` | `AudioLoader.startRecord`, `stopRecord` |
| `PushFrame`; `MicTest`, `MicRead`, `MicListener`, `MicPush` | `pushData`, from the camera and from `executeReadData` |
| `Run`, `TestEncState`, `TestInterrupt`, `Poll`, `Take`, `TakeItem`, `TakeInterrupted` | the encode thread's start and loop |
| `Submit`, `Drain` | `encodeData` up to `queueInputBuffer`, and the output loop |
| `ExitStop`, `ExitRelease`, `ExitClear` | the code after the loop |

Steps are cut where another thread can see the difference: at each access to a shared
field. An exception nobody catches sets `crashed` and ends the behaviour.

*Abstracted*: a video frame is a number, an audio block is what the record thread's
array contains now (the array is reused, `block`); bytes, formats and time stamps are
left out. `MediaCodec` and `AudioRecord` are external: the codec is its state and the
calls that state allows, `dequeueInputBuffer` returns an index, the recorder was
initialised. Creating the codec may fail. `onDestroy` is not modelled.

### `FrameChannel` — what a pipeline stage promises

An abstract specification: while open it accepts frames, and hands on what it accepted,
in order, at most once. The video encoder (`MCMediaEncoder`) and the linked list
(`MCSafeQueue`) are each shown to implement it under a refinement mapping.

### `SafeQueue` — `safe_queue.c`

One step per access to shared memory; `queue->length++` is a load and a store. Nodes
are addresses that `malloc` may hand out again. `Exclusive` says whether callers take
turns (the native encoders use a list from one thread) or not (`rtmp_core.c` pushes
from encode threads and pops from the pushing thread). Reading a freed or null node is
undefined: it sets `fault` and the behaviour ends.

| Model | Code |
|---|---|
| `PushStart` … `PushReturn`, `PushNoMemory` | `push_data`, line by line |
| `PopStart` … `PopReturn` | `pop_data`, and the caller's free of the node |
| `FreeStart`, `FreeNode`, `FreeDone` | `free_queue` |

### `RtmpCore` — `rtmp_core.c`, `rtmp_pusher.cpp`

The c-th open makes connection c, queue c and pushing thread c; the globals `rtmp` and
`rtmp_queue` are variables that may still name a freed object.

| Model | Code |
|---|---|
| `OpenQueue`, `OpenAlloc`, `OpenConnect`, `OpenReset`, `OpenCreateThread`, `OpenPushing` | `rtmp_pusher_open`, `rtmp_sender_open` with every failure path, the metadata write, `pthread_create` and the state set last |
| `CloseState`, `CloseFree`, `CloseClear`, `CloseFreeQueue` | `rtmp_sender_close` |
| `PusherTest`, `PusherEmpty`, `PusherGet`, `PusherPop`, `PusherPopBroken`, `PusherReturn`, `PusherWrite` | `thread_pushing` and its `pop_data` |
| `AudioCall`, `AudioTest`, `AudioChoose` | `push_audio`, `rtmp_sender_write_audio_frame` |
| `VideoCall`, `VideoSps`, `VideoSlice`, `VideoSkip`, `VideoReturn` | `push_video`, `rtmp_sender_write_video_frame` |
| `PushStarved`, `PushRefused`, `PushBegin`, `PushLink`, `PushReturn`, `PushBroken`, `Mark` | the `malloc` of a tag, `push_data` and the flag set behind it |

Two or more encode threads of a kind may be inside a call (`MediaEncoder` shows how the
thread of one recording outlives it). Nothing locks the queue. A call of `push_data` or
`pop_data` is three steps here, it begins, takes effect and returns; `met` collects the
queues on which two calls were inside together in a way that breaks the list: two pushes,
or a push and a pop on a list of at most one node. What such a meeting does access by
access is `SafeQueue`'s `race`; here its outcomes are that any later call on the queue may
touch freed memory, that tags are no longer reachable, or that a pop takes the node of a
push half-way. A push and a pop on a longer list do no harm, which is `LongListSurvives`.
`push_data` may have no memory for the node; its result is dropped and the flag of the
header set all the same (`refused`).

*Abstracted*: a tag is its kind, an encoded packet a sequence of NAL types. The pushing
thread reads its three globals in one step, and the test of a header's flag is a step of its
own, apart from the push and from the setting. `RTMP_*` is external: connect may fail, a
write may find or make the connection dead. Touching a freed object sets `fault` and ends
the behaviour.

`disorder` records what an orderly caller would avoid: a failing open, a close under a
live pushing thread or a call in progress, a call begun inside open or close, a video
call without a queue. The code does nothing to prevent these, and each can fault: the
conditional properties say exactly what the code does guarantee without them. Nor does it
prevent a meeting on the queue, a header pushed by two threads of which neither had set its
flag (`twice`), or a header lost to a failed `malloc` and never sent again: each property
names those of them that it needs to exclude, for the queue or the header concerned.

### `Preview` — the preview screen: `GLCameraPreview`, `Camera1Loader`, `GLImageRenderer`, `RendererManager`

Both threads set up the camera: the UI thread in `onResume` and `switchCamera`, the GL
thread in the renderer's `onSurfaceCreated`, through the same plain fields. A callback is
the sequence of steps it still has to make (`todo[t]`), one step per access to what the
other thread shares; `CameraStep(t)` is `Camera1Loader`, run by either thread.

| Model | Code |
|---|---|
| `Resume`, `Pause`, `SwitchCamera`, `TakePicture`, `Destroy` | `GLCameraActivity`'s callbacks and buttons, through `GLCameraPreview` |
| `OpenCamera`, `Configure`, `SetTexture`, `StartPreview` | `Camera1Loader.setUpCamera`, cut at each use of the field `cameraInstance` |
| `ReleaseTest`, `ReleaseStop`, `ReleaseClear` | `Camera1Loader.release` |
| `MakeManager`, `CreateTexture`, `ShareTexture`, `SetImageSize`, `SetDisplaySize` | `GLImageRenderer.onSurfaceCreated` and `onSurfaceChanged` |
| `Draw`, `SavePicture`, `ResetTake` | `onDrawFrame`, `RendererManager.drawFrame` and `takePicture` |
| `DropLoader`, `ReleaseTexture`, `ReleaseRenderer` | the rest of `GLCameraPreview.onRelease` |

*External*: the camera service (opening may fail, a second client evicts the first one
of the same camera and perhaps one of the other camera) and `GLSurfaceView` (its
`onPause` and `onResume` wait for the GL thread, which loses its EGL context in a pause
and calls `onSurfaceCreated` when it has a surface and no context). Preview sizes are
numbers, 0 where no size has the wanted ratio; orientation, flash, focus and pictures'
contents are left out. `setPreviewType`, `setCameraType` and `switchColorFilter` are
called by no screen and not modelled.

Three history variables say what happened: `overlap` (a callback began while the other
thread was inside one that touches the camera), `openFailed`, and `switched` (since the
surface was created). The properties state what the code guarantees in spite of them
and without them: an overlap really can leave a camera open in the background, since
nothing orders the two threads.

### `NativeEncoder` — `x264_encode.c`, `faac_encode.c`, `fdk-aac_encode.c` behind `X264Encode`

The three files are one design, so `kind` selects where they differ (x264 has no file and
does not look at the result of opening; faac does not look at the result of encoding; fdk
clears its handle on close). There is no encode thread: a data call queues its buffer and,
if the encoder is stopped, encodes until the queue is empty. The n-th init makes file,
queue and codec n; the buffer of a data call is deleted when the call returns.

| Model | Code |
|---|---|
| `InitCall`, `OpenFile`, `CreateQueue`, `OpenCodec`, `InitReady` | `*_enc_init` with every failure path |
| `TakeRef`, `DropRef` | the JNI wrappers of init and release in `h264-encode.cpp`: `jni_env` and the global reference to the Java object |
| `DataCall`, `DataTest`, `Push`, `TestStopped` | `*_enc_data` up to the loop |
| `Pop`, `Encode`, `TestReleased`, `DataFree`, `Mark`, `Loop`, `DataReturn` | the loop and `*_enc_encode_data` |
| `CallBackUsable` | what `call_java_encode_h264` needs: the environment of its own thread and a reference that is not deleted |
| `ReleaseCall`, `ReleaseFree`, `ReleaseClearState`, `ReleaseClearEncoding` | `*_enc_release` |
| `FreeData` | `*_enc_release_data`, by either caller |

*Abstracted*: a push and a pop are one step (their races are `SafeQueue`'s), sample and
plane copies are left out. Using NULL, a closed file or codec, a deleted buffer, or an
environment of another thread sets `fault` and ends the behaviour. `overlap`, `unmatched`,
`initFailed`, `repeated` and `elsewhere` record what a careful caller avoids. Two calls at
once do fault: a release during the first buffer frees the codec under the encoding
thread, because the state says stopped until one buffer is done. So does one call at a
time from another thread than the one of init, for x264: its output is handed to Java
with the environment of the init. An init of an initialised encoder makes a second global
reference, and the first can never be deleted.

### `Camera2Loader` — `Camera2Loader`

A camera and a capture session come later, as callbacks, on the looper of the thread that
called `openCamera` (no handler is passed). `GLCameraView` calls `resume` from the UI thread
or, when the surface texture is there, from its own looper thread (GLCameraView.java:186);
`pause`, `switchCamera` and `release` come from the UI thread alone. So `release` and a
callback can run at once, without a lock, and both are modelled field by field: a step
between any two accesses of a field that the other thread can change in between. The
accesses of lines 280 to 282 are one step, because whatever comes between them has the same
outcome as coming before the first. The n-th `openCamera` asks for device n; the reader made
for it carries the same number; `inbox[t]` is the queue of callbacks of thread t's looper.

| Model | Code |
|---|---|
| `Resume`, `Pause`, `SwitchCamera` | the calls; `SetUpCamera` is `setUpCamera` |
| `StartRelease`, `ForgetReader`, `TestCamera`, `CloseCamera`, `ForgetCamera`, `CloseSession` | `release`, line by line; `CloseNothing` is its null dereference; `SwitchSetUp` ends a switch |
| `OnOpened`, `StartCaptureSession`, `CreateCaptureSession` | `CameraDeviceCallback.onOpened`: the field, the reader, the session |
| `NoSize`, `CreateThrows`, `RequestThrows`, `ImageThrows`, `Overflow` | the exceptions of the callbacks |
| `OnDisconnected` | `onDisconnected` and `onError` |
| `OnConfigured`, `OnConfiguredLate`, `SetRepeatingRequest` | `CaptureStateCallback.onConfigured`: its test, and the request with its uses of the fields |
| `OnImageAvailable`, `CopyImage` | the listener of the image reader, with the array it reuses |
| `Grant`, `Lose`, `Dropped`, `Handle` | *external*: the camera service answers, takes a camera away, drops callbacks of a device already closed; a looper takes the next callback |

Four histories say what has happened: `doubled` (a request while another camera was open or
asked for), `met` (a release met a callback of the other thread), `mixed` (a request from one
thread while the other had a callback of an earlier one to run) and `late` (a camera came
after a pause). Each is a thing the owner can bring about, and each is needed: a property
that allows for one of them is violated in the run without it.

What the model shows of the code beyond its properties: a camera that comes after `pause`
stays open until the next `release`; a `release` of the UI thread between the null test of
`onConfigured` and its uses makes the GL thread throw, with one camera only; a release that
falls into `onOpened` throws there, or leaves a reader open; a second `resume` before a
`pause` lets the session callback of one camera use the other one; a view that has not been
measured asks for an image reader of 0 by 0, which throws; a camera lost and replaced leaves
its reader open, because the field is overwritten; and `mImageData` keeps the length of the
first image, so a larger preview after a switch does not fit (`"overflow"`).

`GLCameraPreview` draws on a `GLSurfaceView`, whose thread has no looper: a `resume` of this
loader from there ends in `openCamera`'s IllegalArgumentException and is not modelled here,
nor is the end of `GLCameraView`'s looper by `quit`, which is in `GLCameraView`.

### `GLCameraView` — `GLCameraView`, `GLThread`, `GLCameraHandler`, `GLCameraRenderer`

The UI thread posts what happens to the surface, the looper thread `gl` builds and gives
up the EGL environment. No layout holds the view, and it does not register itself with its
`SurfaceHolder`: the model takes an owner that has done so.

| Model | Code |
|---|---|
| `SurfaceCreated`, `SurfaceChanged`, `SurfaceDestroyed` | the view's `SurfaceHolder.Callback` |
| `OnResume`, `OnPause`, `OnRelease`, `SetCameraType`, `RestartCamera` | the view's calls; `ThreadOnResume`, `ThreadOnPause`, `SpuriousWakeup`, `Quit` and `InitCamera` are their second halves |
| `SendMessage`, `NoLooper` | `getCameraHandler`, which waits for the looper, and the send |
| `Run`, `LoopEnds` | `GLThread.run` |
| `HandleCreated`, `RendererInit`, `NoWindow`, `HandleDestroyed`, `RendererRelease`, `HandleSize` | `GLCameraHandler.handleMessage` and the renderer's `init` and `release`: the message is taken in one step and acted on in a later one |
| `TestLoader`, `UseLoader`, `SendSize`, `LoaderIsNull` | the view's `surfaceTextureCreated` and the `onCameraPreSize` of a `Camera1Loader`, one read of the loader field at a time |
| `OnOpened`, `OpenedWithoutLoader`; `PostOpened`, `HandleOpened` | the `onCameraPreSize` of a `Camera2Loader`, when its camera comes: on the UI thread, or through the queue of the GL thread's looper, whichever called `resume`; `coming` counts the cameras to come |

`GLThread.onPause` waits on a monitor that nobody notifies once the loop has begun, so a
pause blocks the UI thread for ever; `quit` drops what is in the queue, so the environment
of the last surface is not given up; a message that is the first one after the thread has
died finds a null looper; `release` releases the view's `Surface` object, even if that
already stands for the next surface, which may have come while the release was under way;
and a Camera2 camera that comes after `onRelease`, or to the GL thread inside
`setCameraType`, finds the loader field cleared (GLCameraView.java:99), because nothing takes
back its request.

Two histories say what led to a crash: `overtaken` (the surface changed while a message
about the change before was in the queue or being acted on) and `cleared` (the loader field
was cleared between the GL thread's test and its last use, or with a camera to come).

### `MCRoutines` — four sequential routines

These run alone, on one thread. `MCRoutines` has the four state machines side by side, one
of them active in each behaviour, so that one run compares each with its reference.

- **`FlvTags`** — `get_nal` and the tag builders of `rtmp_core.c` on bytes (`RtmpCore`
  takes a packet as its NAL types). `Limit` is the unsigned `total - 3`, which wraps for a
  packet of fewer than three bytes. The reference `Expected` works on the *units* the
  packet was put together from, which the code never sees.
- **`FileEncode`** — `encode_x264` of `h264-encode.cpp`: opening with its error returns,
  the frame count, the frames, the flush of delayed frames. x264 is external and may keep
  frames back, refuse one, or return nothing early.
- **`YuvFrames`** — `nv21ToI420`, `rotateI420`, `i420ToNv21` and the rotations of
  `YUV420Utils`, with the recording screen's `mBytes`, made once for 720 by 1440. Each
  routine is the list of its sample moves; the reference says which sample of the turned
  picture shows which of the original. `YUV420Utils.rotate270` mirrors as well as turns;
  `rotateI420` by 0 or 180 degrees is only right for square pictures.
- **`ActivityStack`** — `ActivityStackManager`: create, destroy and the group operations,
  with what removing from a list under iteration does.

## 3. The runs

| Run | Configuration | Shows |
|---|---|---|
| `video` | two sessions, four frames, fair | `CodecFaultNeedsOverlap`, `EncodedBySession`, `FrameEncoded`, and the refinement `ImplementsChannel` |
| `audio` | two sessions, two blocks, fair | `ButtonInSync`, `QueueOfOneSession`, `StopDuringEncode`, `JoinReturns` |
| `videoStop` | one session, two frames, fair | **violation** of `StopEndsThread` |
| `exclusive` | two pushers, one popper taking turns, three nodes, five items, fair | `ListIntact`, `FreeEnds`, and the refinement `ImplementsChannel` |
| `pair` | one pusher, one popper, no turns, four nodes, five items | `LongListSurvives`: the links are safe while the two never meet on a list of at most one node |
| `race` | one pusher, one popper, no turns | **violation** of `PushedIsQueued` |
| `sessions` | two opens, one audio and two video threads, two calls, two packets, fair | `FaultNeedsDisorder`, `ConfigPerConnection`, `WireInOrder`, `TagsDrain` |
| `preview` | four camera set-ups, two sizes, two presses of the picture button, fair | `CrashExplained`, `TexturesLive`, `OneCamera`, `ClosedWhenPaused`, `PreviewVisible`, `FramesFit`, `OnePicturePerClick`, `CallbackReturns` |
| `native` | three encoders, two inits and releases, two data calls, fair | `FaultExplained`, `HandledInCall`, `OneCodecOpen`, `DataReturns` |
| `camera2` | two camera requests, four calls, two threads, fair | `FaultNeedsCrossing`, `ClosedWhenPaused`, `PreviewComes` |
| `glview` | three surfaces, four calls, fair | `CrashExplained`, `RendererFollowsSurface`, `CallsReturn` |
| `routines` | every small input of the four routines | `TagsOfUnits`, `OverreadExplained`, `FileComplete`, `PictureTurned`, `OverrunExplained`, `StackTracksLiving` |

**Bounds.** Two sessions are the fewest in which a thread of one recording meets the
objects of the next, and a third adds no new kind of meeting: every object is either
the field's or an earlier session's. Four video frames let both sessions queue two;
two audio blocks let one be overwritten while queued. Three or four nodes hold the
empty, one-node and longer list, with an address free to be reused; five items exceed
the nodes so addresses are reused. Two opens give one reconnection; two calls give a
header and a payload tag, or two threads at the same flag. The two packets of `MCPackets`
cover a parameter set with its slice, a missing PPS and an unknown NAL; the two kinds of
slice take the same steps.
Two inits, two releases and two data calls of a native encoder give a second session with
the remains of the first, and a data call that finds another one encoding, in any
interleaving of one data thread with the UI thread.
Four set-ups of the camera are a resume and a surface, then a switch or a second resume
and a second surface, which is the pause with a lost context that `PreviewVisible` and
`FramesFit` are about; two sizes let the two cameras differ; and a second press of the
picture button can fall between the GL thread's test of the flag and its reset.
Two requests and four calls let a Camera2 preview be opened, paused and opened again from
the other thread with callbacks of the first request still in the queue; a third request
takes more states than a run has time for, and is covered by the proofs, which hold for any
number. Three surfaces let one be replaced before the GL thread has dealt with it, and
again; four calls let a Camera2Loader be set, resumed, replaced and released before its
camera comes. The routines take packets of up to three units, with start codes of three and
four bytes, over five payloads (parameter sets, slices, an unknown type, an empty unit, and
zeros that are no start code); four frames with any delay and two failed flushes; pictures
with sides of 2, 4 and 6, where one size exceeds the frame array; four activities of two
classes.

`sessions` uses the constraint `Orderly`: its four properties are true of a disorderly
state by their form, so such a state is checked and not explored further. That includes
`TagsDrain`, whose conclusion counts a disorder as an end: a behaviour that the constraint
cuts off has reached that end. The constraint also ends a behaviour that opens the last
connection after calls met on the queue of an earlier one. Only `FaultNeedsDisorder` holds
of its remainder by form; the others are left to the proofs for it, and `TagsDrain`
to the sessions without an earlier meeting.

`ButtonInSync`, `QueueOfOneSession` and `CodecFaultNeedsOverlap` are proved for both
encoders (section 4), so one run checks each.

**Deadlock** is not checked: the user may stop clicking, the bounds end the input, and
a crash or fault ends the behaviour.

**Fairness.** Weak, on each thread that the operating system schedules: every encode
thread, the record thread, the pushing threads, a list operation in progress, the GL
threads, and the UI thread and a caller of a native encoder once they are inside a callback
or a call; and on the camera service's answer and the looper that handles it. There is none
on the click itself, nor on camera frames, failures or spurious wakeups.

### What the violations show

- `videoStop`. `stop()` interrupts the thread and the comments say it ends there. The
  thread waits in `take()`; the `InterruptedException` is caught inside the loop, which
  clears the flag; the loop condition is an *or* over the flag, so the thread returns to
  `take()` on a queue nobody fills. It never releases the codec. When the interrupt
  meets the thread inside `encodeData` the stop does work (`StopDuringEncode`).
- `race`. A push that tests `front` or `rear` while the pop of the only node is between
  its assignments loses the node.

One more difference between words and code needs no run: `safe_queue.h` documents 0 and
-1 as the results of `push_data`, which returns the new length; its callers in
`rtmp_core.c` do test for a positive result.

## 4. The proofs

Eight modules hold theorems that TLAPS checks to the last leaf. The numbers of sessions,
frames, calls, requests and surfaces are constants about which the proofs assume only that
they are natural numbers, some of them not 0 (`BoundAssumption`), so each result holds for
every bound. The other assumptions say what the constants are: the kinds are those of the
code (`KindAssumption`), packets are sequences of NAL types (`PacketAssumption`), a preview
size is a positive number (`SizeAssumption`), the UI thread is not one of the other
callers (`CallerAssumption`), the thread that pops is not one that pushes and the audio
threads are not the video threads (`ThreadAssumption` of `SafeQueue` and of `RtmpCore`),
nodes are finitely many and none is `NULL` (`NodeAssumption`), the sides of a preview are
even (`EvenSides`), what the encoder puts behind a start code does not end in a zero and has
no start code inside (`NalUnits`, as the H.264 byte stream requires), and the classes of
activities are finitely many.

| Module | Theorem | States |
|---|---|---|
| `MediaEncoderProofs` | `TypeCorrect` | types of every field, object and thread |
| | `ButtonAgrees` | `ButtonInSync` |
| | `QueuesSeparate` | `QueueOfOneSession` |
| | `FaultsNeedOverlap` | `CodecFaultNeedsOverlap` |
| | `SessionsEncodeTheirOwn` | `EncodedBySession` |
| | `RecordingIsChannel` | the refinement `ImplementsChannel`, of the video encoder |
| `SafeQueueProofs` | `QueueIntact` | `ListIntact`, if the callers take turns |
| | `LongListKept` | `LongListSurvives`, for one pusher and no `free_queue` |
| | `QueueIsChannel` | the refinement `ImplementsChannel`, if the callers take turns |
| `RtmpCoreProofs` | `TypeCorrect` | types; a thread that carries a tag has one, and inside a queue call it has a queue |
| | `FaultsNeedDisorder` | `FaultNeedsDisorder` |
| | `TagsStayInOrder` | `WireInOrder`: with an orderly caller, for a queue without a meeting |
| | `ConfigurationIsSentOnce` | `ConfigPerConnection`: with an orderly caller, for a header not refused and not pushed twice |
| `PreviewProofs` | `CrashesExplained` | `CrashExplained` |
| | `TexturesStayLive` | `TexturesLive` |
| | `OneCameraAtRest` | `OneCamera` |
| | `CameraGivenUp` | `ClosedWhenPaused` |
| | `PreviewStaysVisible` | `PreviewVisible` |
| | `FramesFitTheCamera` | `FramesFit` |
| | `PicturesAreOwed` | `OnePicturePerClick` |
| `NativeEncoderProofs` | `TypeCorrect` | types, and each thread's places |
| | `FaultsAreExplained` | `FaultExplained` |
| | `BuffersAreHandled` | `HandledInCall` |
| | `OneIsOpen` | `OneCodecOpen` |
| `Camera2LoaderProofs` | `TypeCorrect` | types, and which devices have been asked for |
| | `FaultsNeedCrossing` | `FaultNeedsCrossing` |
| | `PauseCloses` | `ClosedWhenPaused` |
| `GLCameraViewProofs` | `TypeCorrect` | types |
| | `CrashesExplained` | `CrashExplained` |
| | `RendererFollows` | `RendererFollowsSurface` |
| `RoutineProofs` | `WholeInputWritten` | `FileComplete` |
| | `OverrunsExplained` | `OverrunExplained` |
| | `PicturesTurned` | `PictureTurned` |
| | `OverreadsExplained` | `OverreadExplained` |
| | `TagsAreUnits` | `TagsOfUnits` |
| | `StackTracks` | `StackTracksLiving` |

Each theorem follows from an inductive invariant of its module: the initial states have it,
every step keeps it (one lemma for an action that does much, one step of the proof for any
other), and it implies the property. TLC found each invariant true of a small instance
before it was proved, but for that of `SafeQueue`, which says that a sequence exists.

- **`MediaEncoder`**: `IInv == TypeOK /\ Linked /\ Control`. Types alone are not
  inductive: `queue[mQueue]` and `interrupted[mEncodeThread]` need a field that names an
  object of a started session (`Linked`), and `ButtonInSync` needs what each place of the
  click handler has done already (`Control`). One lemma per actor, joined in `NextInv`.
  `SInv == IInv /\ OwnQueue /\ OwnCodec`: the join on the UI thread keeps the test and the
  use in `pushData` apart from a restart, and without an overlap only the current session's
  thread is alive, so the field `mCodec` is that thread's own. `EInv` adds the same for the
  field `mQueue` and the item a thread waits for, holds and encodes (`OwnItems`).
  The video encoder's refinement takes each recording as a `FrameChannel`: what was queued of
  it and not encoded yet is in its queue or in the hand of its one thread, in order. The
  history `encoded` is kept for each session, so that a session's frames can be read off it.
- **`SafeQueue`**: the shape of a linked list is not visible in its variables, so the
  invariant says that there *is* a sequence of nodes `q` and a pusher `p` with `Chain(q, p)`:
  the nodes of `q` are the list in the order of their links, each once and none freed, and
  every global and local of `safe_queue.c` is where the step that `p` and the popper have
  come to leaves it. Its parts are `Turns` (who is inside a call), `Owned` (which nodes are
  allocated), `Links` (`next`, up to a node not linked yet), `Ends` (`front` and `rear`),
  `Placed` (the locals), `Counted` (`length`) and `Carried` (the list holds what was pushed
  and not popped). A push makes `q` longer when it has its node, a pop makes it shorter
  when it returns; every other step keeps `q`. What the code reaches from `front` is then
  `q` itself, by induction on the distance (`ReachedIs`). It holds of callers that take turns
  (`Exclusive`), and, as long as `met` is false, of one pusher against the popper without a
  lock: those are the two hypotheses of the theorems, and `race` shows what happens without
  them. The refinement maps each step to one of `FrameChannel` or to none: a push
  sends and a pop delivers when the call returns, `free_queue` closes the channel.
- **`RtmpCore`**: `OInv` adds to the types that, without disorder, a thread's globals are
  the objects of its connection, and no freed object is in use unless calls met or memory
  ran out. `LInv` adds the line of tags of each queue without a meeting: what was sent, the
  tag in the pushing thread's hand and the queue are, in that order, what was pushed. Left
  out of it, a queue with a meeting keeps its calls and objects where they are (`MetLine`),
  which is all the other queues need. `CInv` adds what the two flags say about the headers
  pushed: a header without its flag is with one thread, which has yet to link or to mark it,
  or counted in `twice` (`OneThread`, `FlagFollows`), and raw audio has a header before it
  or one that was refused (`AudioMade`). It needs no hypothesis about meetings: they lose
  tags from the list, not from what was pushed.
- **`Preview`**: a thread's place is the steps its callback has left, so `Places` lists the
  steps each callback can have left and everything else is said by their number. `GLObeys`
  and `LifeAgrees` relate the GL thread to the activity's pauses; `CrashCause`, `TexturesLive`
  and `SizesSet` (a size is set before the step that needs it) need no hypothesis. Without an
  overlap, `OneAtATime` keeps the camera's steps of the two threads apart, and then
  `FieldKnows` (the field names the open camera but between the two steps of a set-up or a
  release), `GivenUp`, `PictureShown` and `SizesFit` follow the camera, its texture and its
  size step by step. `ClicksOwed` is the picture flag. The conjunct of `CrashExplained`
  about frame buffers holds with overlaps as well, which the proof brought out: the property
  had allowed an overlap as a cause.
- **`NativeEncoder`**: `NInv` has the types with the places of each thread, `FaultExplained`,
  and for a system without overlap `Orderly`: one thread at most is inside a call, the state
  enums, codecs, files and references are those of that thread's place, the queue is empty
  or holds the one buffer just pushed, and what was accepted is handled or that buffer.
- **`Camera2Loader`**: `LInv` says of each looper's queue which callbacks can be in it
  (`Posted`). With one camera at a time and threads that did not meet (`OneCamera`), release
  and a callback of the other thread are never under way together (`Apart`), so each finds the
  fields as it left them (`Emptied`, `Held`, `Working`); an open camera is in the field or
  announced (`Known`), only the camera of the field streams (`Streams`), and a pause leaves
  the fields empty (`Paused`). If also no request came too early from the other thread
  (`InTurn`), a session to come finds the field empty or its own camera, on the looper of every
  live camera and before the next camera does: that is why a pause between any two callbacks
  does no harm.
- **`GLCameraView`**: the messages about the surface alternate, the first undoes what the
  GL thread has built, the last is what the UI thread has told, and if none is left the two
  agree (`InLine`, until `quit` drops the queue). As long as no change of the surface
  overtook a message there is one such message at most, none while the GL thread acts on
  one, and the surface it announces is still there (`OneAtATime`, `CreatedIsValid`). Where
  the loader field is or will be read and holds none, `cleared` says so (`ClearedSeen`):
  whoever comes to use it has found a loader there (`UsersRemain`).
- **`FileEncode`**: before the loop nothing is read and after it everything, what was read is
  with x264 or returned, and the output is what was returned up to the frame in hand.
- **`YuvFrames`**: the state says little (`YuvInv`: the size of `mBytes` stays, and a picture
  that is taken has sides); the work is in lemmas about addresses. Row times stride plus column
  stays inside a plane if the stride is the width of a copied plane or the height of a turned
  one whose height becomes its width or is no more than it (`StrideFits`, `TurnedFits`), and
  three planes after one another end where the picture does because its sides are even
  (`Sizes4`, `PictureFits`). That the picture is the camera's needs two more facts. No two
  samples of a layout share an address (`Layout`, from the division of an address by the
  stride), so a move is never undone by a later one; and a routine that is a set of moves
  carries what an array shows into what the other one shows (`Carries`), which composes over
  `rotate270`'s two passes. `PictureInv` then says at each stage which picture the array in
  hand shows, and in which layout.
- **`FlvTags`**: a packet is put together unit by unit, so what it can end in and where a
  start code can be is shown by induction on the units, from the least counterexample
  (`LeastOf`, `Upward`): behind a unit a packet does not end in a zero, and one that ends in a
  start code ends in the last unit's own. The search stops at the bound, inside the packet,
  or, for a packet of fewer than three bytes, at once (`ScanStops`, `ShortOverreads`). The
  four-byte start codes of a packet are those of its units and no others (`CodesAre`): none
  begins in a payload, in a three-byte start code, or across a border. So the search passes
  the units led by three bytes and stops at the next one led by four (`FirstCode`), and the
  NAL unit between two stops is the next one of the reference (`FindsNal`). `TagInv` then
  says how many units the writer has walked, and that the tags sent and `video_config_ok`
  are what the reference makes of the NAL units before them.
- **`ActivityStack`**: `StackInv` adds to the property that each activity is there once
  (`Once`) and was created. Removing an element, an iteration that removes and a range cut out
  of the stack keep that (`FirstRemoved`, `IterationRemoves`, `CutKeepsOnce`).
  `finishOtherActivity(Class...)` needs an invariant of its loop (`Partway`): below the index
  the stack is what it was, and what left it was finished if one class is given. With several
  a range of activities leaves with one `finish`, which is why the property speaks of `several`.

Left to TLC is everything about liveness, whose proofs need `ENABLED`.

## 5. Not modelled

- `CameraLoader` and `CameraPreview` (the recording screen's camera) make blocking calls on
  the UI thread in the order of the screen's callbacks; the hazards of such a loader are in
  `Preview`, where two threads share one. `AudioLoader.init` and `onDestroy` are left out:
  whether `onDestroy` meets the record thread depends on the screen's end, which the
  session model does not have.
- Time stamps of packets and tags, and `rtmp_sender_alloc` and `rtmp_sender_start_publish`,
  which nothing calls.
- EGL wrappers, colour filters, shaders and textures: calls of OpenGL one after the other
  and arithmetic on floats. Where they matter to control, as frame buffers of a size and
  as an environment that exists or not, they are part of `Preview` and `GLCameraView`.
- The conversions from and to RGB: single libyuv calls on one packed plane.
- Screens, dialogs, permissions, files, logging, image loading.
- The vendored libraries (x264, faac, fdk-aac, librtmp, libyuv), which are in the
  repository as headers and binaries only. They appear as external steps where the modelled
  code calls them. Their headers are most of the C and C++ lines in the repository (about
  22,400 of 25,000); the application's own C and C++ is about 2,600 lines, and the Java
  sources beside it. The definitions therefore stand for a small share of all C and C++
  lines, and for most of the application's own that change state.

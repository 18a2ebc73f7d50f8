---------------------------- MODULE Camera2Loader ----------------------------
(***************************************************************************)
(* Camera2Loader: the preview through the camera2 interface.  resume asks  *)
(* for a camera, which comes later, in a callback; the callback makes an   *)
(* image reader and asks for a capture session, which comes in another     *)
(* callback; that one starts the stream.  pause, release and switchCamera  *)
(* close whatever the fields hold at that moment.                          *)
(*                                                                         *)
(* No handler is passed: the callbacks of a request come on the looper of  *)
(* the thread that made it.  GLCameraView calls the loader from the UI     *)
(* thread, and resume also from its GL thread, when the texture is there   *)
(* (GLCameraView.java:186); release runs on the UI thread while callbacks  *)
(* run on the GL thread, without a lock.  A call or callback is a step for *)
(* each field that the other thread can change under it.                   *)
(*                                                                         *)
(* The n-th request is for device n, and onOpened of n makes image reader  *)
(* n; 0 is null.  The camera service is external: it answers requests in   *)
(* any order and takes cameras away.                                       *)
(***************************************************************************)
EXTENDS Naturals, Sequences

CONSTANTS MaxOpens,  (* bound: calls of openCamera                            *)
          MaxCalls   (* bound: calls of resume, pause, switchCamera           *)

ASSUME BoundAssumption == MaxOpens \in Nat /\ MaxCalls \in Nat

VARIABLES
  sized,           (* viewWidth and viewHeight are not 0                      *)
  cameraInstance, imageReader, captureSession,   (* the fields                *)
  mImageData,      (* the reader for whose first image the array was made     *)
  device,          (* of each request: none, opening, open or closed          *)
  looper,          (* of each request: the thread its callbacks come on       *)
  openReaders,     (* image readers made and not closed                       *)
  streaming,       (* sessions with a repeating request                       *)
  lost,            (* history: devices the service refused or took away       *)
  inbox,           (* callbacks posted to each thread's looper                *)
  step, about,     (* each thread's place; the session it is handling         *)
  switching,       (* release was called by switchCamera                      *)
  opens, calls,    (* requests and calls so far                               *)
  wanted,          (* the last call was resume or switchCamera                *)
  doubled,         (* history: a request while another camera was open or asked for *)
  late,            (* history: a camera came when the preview was paused      *)
  met,             (* history: release met a callback of the other thread     *)
  mixed,           (* history: a request when the other thread had a callback *)
                   (* of an earlier one to handle                             *)
  fault            (* the exception that ends the program                     *)

fieldVars   == <<sized, cameraInstance, imageReader, captureSession, mImageData>>
serviceVars == <<device, looper, openReaders, streaming, lost>>
threadVars  == <<inbox, step, about, switching>>
countVars   == <<opens, calls, wanted>>
historyVars == <<doubled, late, met, mixed>>
vars == <<fieldVars, serviceVars, threadVars, countVars, historyVars, fault>>

UI == "ui"
GL == "gl"
Threads == {UI, GL}
Devices == 1..MaxOpens
Null == 0
NoSession == [device |-> Null, reader |-> Null]
NoFault == "none"

Init ==
  /\ sized = FALSE
  /\ cameraInstance = Null /\ imageReader = Null /\ captureSession = NoSession
  /\ mImageData = Null
  /\ device = [n \in Devices |-> "none"] /\ looper = [n \in Devices |-> UI]
  /\ openReaders = {} /\ streaming = {}
  /\ lost = {}
  /\ inbox = [t \in Threads |-> <<>>]
  /\ step = [t \in Threads |-> "idle"] /\ about = [t \in Threads |-> NoSession]
  /\ switching = FALSE
  /\ opens = 0 /\ calls = 0 /\ wanted = FALSE
  /\ doubled = FALSE /\ late = FALSE /\ met = FALSE /\ mixed = FALSE
  /\ fault = NoFault

Throw(f) ==
  /\ fault' = f
  /\ UNCHANGED <<fieldVars, serviceVars, threadVars, countVars, historyVars>>

Live == {n \in Devices : device[n] \in {"opening", "open"}}

Go(t, from, to) == step[t] = from /\ step' = [step EXCEPT ![t] = to]

InRelease == step[UI] \in {"reader", "camera", "close", "forget", "session"}
InCallback(t) == step[t] \in {"size", "create", "stream", "image"}

-----------------------------------------------------------------------------
(* The calls of the view.                                                  *)

Call == calls < MaxCalls /\ calls' = calls + 1

(* setUpCamera: openCamera; a refusal is an exception that is caught.       *)
SetUpCamera(t) ==
  /\ opens' = opens + 1
  /\ looper' = [looper EXCEPT ![opens + 1] = t]
  /\ doubled' = (doubled \/ Live # {})
  /\ mixed' = (mixed \/ \E s \in Threads \ {t} : inbox[s] # <<>> \/ InCallback(s))
  /\ \/ device' = [device EXCEPT ![opens + 1] = "opening"] /\ UNCHANGED lost
     \/ device' = [device EXCEPT ![opens + 1] = "closed"] /\ lost' = lost \cup {opens + 1}
  /\ UNCHANGED <<cameraInstance, imageReader, captureSession, mImageData, openReaders,
                 streaming, inbox, about, late, met, fault>>

(* The view passes 0 by 0 as long as it has not been measured.              *)
Resume(t) ==
  /\ Call
  /\ step[t] = "idle"
  /\ opens + (IF switching THEN 1 ELSE 0) < MaxOpens
  /\ wanted' = TRUE
  /\ sized' \in {sized, TRUE}
  /\ SetUpCamera(t)
  /\ UNCHANGED <<step, switching>>

(* release(): the reader, the camera and the session, each if it is there.  *)
(* The reader is closed before its field is cleared.                        *)
StartRelease ==
  /\ IF imageReader = Null
     THEN Go(UI, "idle", "camera") /\ UNCHANGED openReaders
     ELSE Go(UI, "idle", "reader") /\ openReaders' = openReaders \ {imageReader}
  /\ met' = (met \/ InCallback(GL))
  /\ UNCHANGED <<fieldVars, device, looper, streaming, lost, inbox, about, opens,
                 doubled, late, mixed, fault>>

Pause == Call /\ wanted' = FALSE /\ StartRelease /\ UNCHANGED switching

(* The facing decides which camera is asked for; both are there.            *)
SwitchCamera ==
  /\ Call
  /\ opens < MaxOpens
  /\ wanted' = TRUE
  /\ switching' = TRUE
  /\ StartRelease

ForgetReader ==
  /\ Go(UI, "reader", "camera")
  /\ imageReader' = Null
  /\ UNCHANGED <<sized, cameraInstance, captureSession, mImageData, serviceVars, inbox, about,
                 switching, countVars, historyVars, fault>>

TestCamera ==
  /\ Go(UI, "camera", IF cameraInstance = Null THEN "session" ELSE "close")
  /\ UNCHANGED <<fieldVars, serviceVars, inbox, about, switching, countVars, historyVars,
                 fault>>

(* Faulty variant: the camera is not closed.                                *)
CloseCamera_Not ==
  /\ Go(UI, "close", "forget")
  /\ cameraInstance # Null
  /\ UNCHANGED <<fieldVars, serviceVars, inbox, about, switching, countVars, historyVars,
                 fault>>

CloseCamera ==
  /\ Go(UI, "close", "forget")
  /\ cameraInstance # Null
  /\ device' = [device EXCEPT ![cameraInstance] = "closed"]
  /\ streaming' = {s \in streaming : s.device # cameraInstance}
  /\ UNCHANGED <<fieldVars, looper, openReaders, lost, inbox, about, switching,
                 countVars, historyVars, fault>>

CloseNothing == step[UI] = "close" /\ cameraInstance = Null /\ Throw("release")

(* Faulty variant: the closed camera stays in the field.                    *)
ForgetCamera_Keep ==
  /\ Go(UI, "forget", "session")
  /\ UNCHANGED <<fieldVars, serviceVars, inbox, about, switching, countVars, historyVars,
                 fault>>

(* Whichever camera the field holds by now.                                 *)
ForgetCamera ==
  /\ Go(UI, "forget", "session")
  /\ cameraInstance' = Null
  /\ UNCHANGED <<sized, imageReader, captureSession, mImageData, serviceVars, inbox, about,
                 switching, countVars, historyVars, fault>>

CloseSession ==
  /\ Go(UI, "session", IF switching THEN "setUp" ELSE "idle")
  /\ streaming' = streaming \ {captureSession}
  /\ captureSession' = NoSession
  /\ UNCHANGED <<sized, cameraInstance, imageReader, mImageData, device, looper, openReaders,
                 lost, inbox, about, switching, countVars, historyVars, fault>>

SwitchSetUp ==
  /\ Go(UI, "setUp", "idle")
  /\ switching' = FALSE
  /\ SetUpCamera(UI)
  /\ UNCHANGED <<sized, calls, wanted>>

-----------------------------------------------------------------------------
(* The camera service.                                                     *)

Message(what, s) == [what |-> what, device |-> s.device, reader |-> s.reader]
Own(n) == [device |-> n, reader |-> n]

Post(t, what, s) == inbox' = [inbox EXCEPT ![t] = Append(@, Message(what, s))]

Grant(n) ==
  /\ device[n] = "opening"
  /\ device' = [device EXCEPT ![n] = "open"]
  /\ Post(looper[n], "opened", Own(n))
  /\ UNCHANGED <<fieldVars, looper, openReaders, streaming, lost, step, about,
                 switching, countVars, historyVars, fault>>

(* A camera taken away by another application, or broken.                   *)
Lose(n) ==
  /\ n \in Live \ lost
  /\ lost' = lost \cup {n}
  /\ device' = [device EXCEPT ![n] = "open"]
  /\ Post(looper[n], "disconnected", Own(n))
  /\ UNCHANGED <<fieldVars, looper, openReaders, streaming, step, about, switching,
                 countVars, historyVars, fault>>

-----------------------------------------------------------------------------
(* The callbacks.  The framework drops those of a device already closed,   *)
(* except onConfigured.                                                    *)

Handle(t, what, s) ==
  /\ step[t] = "idle"
  /\ inbox[t] # <<>> /\ Head(inbox[t]) = Message(what, s)
  /\ inbox' = [inbox EXCEPT ![t] = Tail(@)]

Enter(t, to, s) ==
  /\ Go(t, "idle", to)
  /\ about' = [about EXCEPT ![t] = s]
  /\ met' = (met \/ InRelease)

Leave(t, from) ==
  /\ Go(t, from, "idle")
  /\ about' = [about EXCEPT ![t] = NoSession]

Dropped(t, n) ==
  /\ Handle(t, "opened", Own(n)) \/ Handle(t, "disconnected", Own(n))
  /\ device[n] = "closed"
  /\ UNCHANGED <<fieldVars, serviceVars, step, about, switching, countVars, historyVars,
                 fault>>

(* CameraDeviceCallback.onOpened.                                           *)
OnOpened(t, n) ==
  /\ Handle(t, "opened", Own(n))
  /\ device[n] = "open"
  /\ Enter(t, "size", Own(n))
  /\ cameraInstance' = n
  /\ late' = (late \/ ~wanted)
  /\ UNCHANGED <<sized, imageReader, captureSession, mImageData, serviceVars, switching,
                 countVars, doubled, mixed, fault>>

(* startCaptureSession, as far as the reader: the size is 0 by 0 for a view *)
(* not measured, which no image reader can be made with.                    *)
StartCaptureSession(t) ==
  /\ Go(t, "size", "create")
  /\ sized
  /\ imageReader' = about[t].reader
  /\ openReaders' = openReaders \cup {about[t].reader}
  /\ UNCHANGED <<sized, cameraInstance, captureSession, mImageData, device, looper, streaming,
                 lost, inbox, about, switching, countVars, historyVars, fault>>

NoSize(t) == step[t] = "size" /\ ~sized /\ Throw("size")

(* createCaptureSession: by the camera of the field for the reader of the   *)
(* field; a service that cannot says so.  A closed camera throws.           *)
CreateCaptureSession(t) ==
  /\ Leave(t, "create")
  /\ cameraInstance # Null /\ imageReader # Null
  /\ device[cameraInstance] = "open"
  /\ \/ /\ cameraInstance \notin lost /\ imageReader \in openReaders
        /\ Post(t, "configured", [device |-> cameraInstance, reader |-> imageReader])
        /\ UNCHANGED lost
     \/ lost' = lost \cup {cameraInstance} /\ UNCHANGED inbox
  /\ UNCHANGED <<fieldVars, device, looper, openReaders, streaming, switching,
                 countVars, historyVars, fault>>

CreateThrows(t) ==
  /\ step[t] = "create"
  /\ \/ cameraInstance = Null \/ imageReader \notin openReaders
     \/ cameraInstance # Null /\ device[cameraInstance] # "open"
  /\ Throw("session")

(* onDisconnected and onError: whichever camera the field holds.            *)
OnDisconnected(t, n) ==
  /\ Handle(t, "disconnected", Own(n))
  /\ device[n] = "open"
  /\ device' = [device EXCEPT ![n] = "closed"]
  /\ streaming' = {s \in streaming : s.device # n}
  /\ cameraInstance' = Null
  /\ met' = (met \/ InRelease)
  /\ UNCHANGED <<sized, imageReader, captureSession, mImageData, looper, openReaders,
                 lost, step, about, switching, countVars, doubled, late, mixed,
                 fault>>

(* CaptureStateCallback.onConfigured: without a camera it returns.          *)
OnConfigured(t, s) ==
  /\ Handle(t, "configured", s)
  /\ cameraInstance # Null
  /\ Enter(t, "stream", s)
  /\ captureSession' = s
  /\ UNCHANGED <<sized, cameraInstance, imageReader, mImageData, serviceVars, switching,
                 countVars, doubled, late, mixed, fault>>

OnConfiguredLate(t, s) ==
  /\ Handle(t, "configured", s)
  /\ cameraInstance = Null
  /\ UNCHANGED <<fieldVars, serviceVars, step, about, switching, countVars, historyVars,
                 fault>>

(* The request is made by the camera of the field for the reader of the     *)
(* field, whatever session this is; one that does not fit the session, or   *)
(* is for something closed, throws.                                         *)
Fits(s) ==
  /\ cameraInstance = s.device /\ device[s.device] = "open"
  /\ imageReader = s.reader /\ s.reader \in openReaders

(* Faulty variant: the stream is not started.                               *)
SetRepeatingRequest_Not(t) ==
  /\ Leave(t, "stream")
  /\ Fits(about[t])
  /\ UNCHANGED <<fieldVars, serviceVars, inbox, switching, countVars, historyVars, fault>>

SetRepeatingRequest(t) ==
  /\ Leave(t, "stream")
  /\ Fits(about[t])
  /\ streaming' = IF about[t].device \in lost THEN streaming ELSE streaming \cup {about[t]}
  /\ UNCHANGED <<fieldVars, device, looper, openReaders, lost, inbox, switching,
                 countVars, historyVars, fault>>

RequestThrows(t) == step[t] = "stream" /\ ~Fits(about[t]) /\ Throw("session")

(* onImageAvailable: the image is taken; the array is made for the first    *)
(* one and kept.  Closing the reader closes the image under its user.       *)
OnImageAvailable(s) ==
  /\ s \in streaming /\ s.reader \in openReaders
  /\ Enter(looper[s.reader], "image", s)
  /\ UNCHANGED <<fieldVars, serviceVars, inbox, switching, countVars, doubled, late, mixed,
                 fault>>

CopyImage(t) ==
  /\ Leave(t, "image")
  /\ about[t].reader \in openReaders
  /\ mImageData' = IF mImageData = Null THEN about[t].reader ELSE mImageData
  /\ UNCHANGED <<sized, cameraInstance, imageReader, captureSession, serviceVars, inbox,
                 switching, countVars, historyVars, fault>>

(* Another reader's images may be larger than the array.                    *)
Overflow(t) ==
  /\ step[t] = "image"
  /\ about[t].reader \in openReaders /\ mImageData \notin {Null, about[t].reader}
  /\ Throw("overflow")

ImageThrows(t) == step[t] = "image" /\ about[t].reader \notin openReaders /\ Throw("image")

-----------------------------------------------------------------------------
ReleaseStep == ForgetReader \/ TestCamera \/ CloseCamera \/ CloseNothing \/ ForgetCamera
               \/ CloseSession \/ SwitchSetUp

Callback(t) ==
  \/ \E n \in Devices : Dropped(t, n) \/ OnOpened(t, n) \/ OnDisconnected(t, n)
  \/ \E s \in [device : Devices, reader : Devices] :
       OnConfigured(t, s) \/ OnConfiguredLate(t, s)
  \/ StartCaptureSession(t) \/ NoSize(t) \/ CreateCaptureSession(t) \/ CreateThrows(t)
  \/ SetRepeatingRequest(t) \/ RequestThrows(t) \/ CopyImage(t)
  \/ Overflow(t) \/ ImageThrows(t)

Next ==
  /\ fault = NoFault
  /\ \/ Pause \/ SwitchCamera \/ ReleaseStep
     \/ \E t \in Threads : Resume(t) \/ Callback(t)
     \/ \E n \in Devices : Grant(n) \/ Lose(n)
     \/ \E s \in streaming : OnImageAvailable(s)

Spec == Init /\ [][Next]_vars

(* The service answers a request, and both threads are scheduled: a call    *)
(* goes on, and a looper handles what was posted.                           *)
FairSpec ==
  /\ Spec
  /\ \A n \in Devices : WF_vars(fault = NoFault /\ Grant(n))
  /\ \A t \in Threads : WF_vars(fault = NoFault /\ Callback(t))
  /\ WF_vars(fault = NoFault /\ ReleaseStep)

-----------------------------------------------------------------------------
(* An exception in release or in a callback (Camera2Loader.java:88, 187,    *)
(* 212, 280) takes two cameras asked for at once, as resume does when it is *)
(* called again before pause, or two threads: a release that runs into a    *)
(* callback of the other, or a request from one while the other has yet to  *)
(* hear of the camera before.  Short of that, a pause between any two       *)
(* callbacks does no harm.                                                  *)
FaultNeedsCrossing == fault \in {"release", "session", "image"} => doubled \/ met \/ mixed

(* As long as cameras are asked for one at a time and release meets no      *)
(* callback of the other thread, no camera is forgotten while it is open,   *)
(* and no reader unless a camera was lost, so that the next release closes  *)
(* them, a camera that came late too (Camera2Loader.java:256); and a pause  *)
(* leaves nothing open unless a camera came after it.                       *)
Coming(n) ==
  \E t \in Threads : \E k \in DOMAIN inbox[t] :
    inbox[t][k].what \in {"opened", "disconnected"} /\ inbox[t][k].device = n

ClosedWhenPaused ==
  ~doubled /\ ~met =>
    /\ \A n \in Devices : device[n] = "open" => cameraInstance = n \/ Coming(n)
    /\ lost = {} => openReaders \subseteq {imageReader}
    /\ ~wanted /\ ~late /\ step[UI] = "idle" =>
         cameraInstance = Null /\ imageReader = Null /\ streaming = {}

(* A preview that was asked for comes, one call after the other: the images *)
(* of the camera the field holds stream, unless the service refused or took *)
(* a camera away, the threads met, or the program ended.                    *)
PreviewComes ==
  wanted ~> \/ \E s \in streaming : s.device = cameraInstance
            \/ ~wanted \/ lost # {} \/ doubled \/ met \/ fault # NoFault

=============================================================================

------------------------- MODULE Camera2LoaderProofs -------------------------
(***************************************************************************)
(* Camera2Loader for every number of requests and of calls: which calls    *)
(* and callbacks can throw, and what a pause leaves open.                  *)
(***************************************************************************)
EXTENDS Camera2Loader, TLAPS

(* Types, which requests there are, and what a switch has still to do.     *)
Session == [device : Devices, reader : Devices]
Callbacks ==
  [what : {"opened", "disconnected", "configured"}, device : Devices, reader : Devices]
InUse == {"size", "create", "stream", "image"}
Releasing == {"reader", "camera", "close", "forget", "session"}

FieldType ==
  /\ sized \in BOOLEAN
  /\ cameraInstance \in Devices \cup {Null} /\ imageReader \in Devices \cup {Null}
  /\ captureSession \in Session \cup {NoSession}
  /\ mImageData \in Devices \cup {Null}

ServiceType ==
  /\ device \in [Devices -> {"none", "opening", "open", "closed"}]
  /\ looper \in [Devices -> Threads]
  /\ openReaders \subseteq Devices /\ lost \subseteq Devices
  /\ streaming \subseteq Session

QueueType == inbox \in [Threads -> Seq(Callbacks)]

StepType ==
  /\ step \in [Threads -> {"idle"} \cup InUse \cup Releasing \cup {"setUp"}]
  /\ step[GL] \in {"idle"} \cup InUse
  /\ about \in [Threads -> Session \cup {NoSession}]
  /\ \A t \in Threads : step[t] \in InUse => about[t] \in Session

CountType == opens \in 0..MaxOpens /\ calls \in 0..MaxCalls /\ wanted \in BOOLEAN

HistoryType ==
  /\ doubled \in BOOLEAN /\ late \in BOOLEAN /\ met \in BOOLEAN /\ mixed \in BOOLEAN
  /\ fault \in {NoFault, "release", "size", "session", "overflow", "image"}

Requested == \A n \in Devices : device[n] = "none" <=> n > opens

Switching ==
  /\ switching \in BOOLEAN
  /\ switching => wanted /\ opens < MaxOpens /\ step[UI] \in Releasing \cup {"setUp"}
  /\ step[UI] = "setUp" => switching

TypeOK == FieldType /\ ServiceType /\ QueueType /\ StepType /\ CountType /\ HistoryType
          /\ Requested /\ Switching

(* What is in the queue of a thread's looper at place k.                   *)
Is(t, k, what, n) == inbox[t][k].what = what /\ inbox[t][k].device = n

(* Messages come on the looper of the request, about cameras that have     *)
(* come; a camera comes once, and is in the field only after that; a lost  *)
(* one is known to be lost.                                                *)
Posted == \A t \in Threads : \A k \in 1..Len(inbox[t]), n \in Devices :
  /\ Is(t, k, "opened", n) \/ Is(t, k, "disconnected", n) =>
       looper[n] = t /\ device[n] \in {"open", "closed"}
  /\ Is(t, k, "opened", n) =>
       cameraInstance # n /\ \A j \in 1..Len(inbox[t]) : Is(t, j, "opened", n) => j = k
  /\ Is(t, k, "disconnected", n) => n \in lost

Came == cameraInstance # Null => device[cameraInstance] \in {"open", "closed"}

(* One camera at a time, and a release that meets no callback: release     *)
(* finds and leaves the fields as it expects, and so does a callback.      *)
Single == \A n, m \in Live : n = m

Apart == InRelease => ~InCallback(GL)

Emptied ==
  /\ step[UI] \in {"camera", "close", "forget", "session"} => imageReader = Null
  /\ step[UI] \in {"close", "forget"} => cameraInstance # Null
  /\ step[UI] = "session" => cameraInstance = Null

Held == cameraInstance # Null =>
  device[cameraInstance] = IF step[UI] = "forget" THEN "closed" ELSE "open"

Working == \A t \in Threads :
  /\ step[t] \in {"size", "create"} =>
       /\ cameraInstance # Null /\ looper[cameraInstance] = t
       /\ about[t].device = cameraInstance /\ about[t].reader = cameraInstance
  /\ step[t] = "create" => imageReader = cameraInstance /\ imageReader \in openReaders
  /\ step[t] = "image" => about[t].reader \in openReaders

(* Then an open camera is in the field, or a callback about it is to come; *)
(* only the camera of the field streams; a reader is forgotten only after  *)
(* a loss; and a pause leaves nothing in the fields.                       *)
Known == \A n \in Devices : device[n] = "open" => cameraInstance = n \/ Coming(n)

Streams == \A s \in streaming : s.device = cameraInstance /\ device[s.device] = "open"

Readers == lost = {} =>
  /\ openReaders \subseteq {imageReader}
  /\ InRelease \/ cameraInstance = Null \/ (\E t \in Threads : step[t] = "size") =>
       openReaders = {}

Paused == ~wanted /\ ~late /\ ~InRelease /\ step[UI] # "setUp" =>
  cameraInstance = Null /\ imageReader = Null

OneCamera == Single /\ Apart /\ Emptied /\ Held /\ Working /\ Known /\ Streams /\ Readers
             /\ Paused

(* If also no request is made from the other thread too early: a session   *)
(* that is to come is one of the camera in the field, on the looper of     *)
(* every live camera, and before the next camera does.                     *)
Queued(t, k) == [device |-> inbox[t][k].device, reader |-> inbox[t][k].reader]

Suits(s) == cameraInstance = Null \/ InRelease \/ Fits(s)

Sessions == \A t \in Threads : \A k \in 1..Len(inbox[t]) : inbox[t][k].what = "configured" =>
  /\ Suits(Queued(t, k))
  /\ \A u \in Threads : step[u] \notin {"size", "create"}
  /\ \A m \in Live : looper[m] = t
  /\ \A j \in 1..Len(inbox[t]), m \in Devices :
       Is(t, j, "opened", m) /\ device[m] = "open" => k < j

Streamed == \A t \in Threads :
  step[t] = "stream" => Fits(about[t]) /\ looper[about[t].device] = t

InTurn == Sessions /\ Streamed

LInv ==
  /\ TypeOK /\ Posted /\ Came /\ FaultNeedsCrossing
  /\ ~doubled /\ ~met => OneCamera
  /\ ~doubled /\ ~met /\ ~mixed => InTurn

USE BoundAssumption DEF Devices, Null, NoFault, UI, GL, Threads

-----------------------------------------------------------------------------
(* A looper's queue: a callback is taken from its front, or posted.        *)
Taken(t) ==
  /\ inbox' \in [Threads -> Seq(Callbacks)]
  /\ \A u \in Threads : Len(inbox[u]) \in Nat /\ Len(inbox'[u]) \in Nat
  /\ \A u \in Threads : u # t => inbox'[u] = inbox[u]
  /\ 1 \in 1..Len(inbox[t]) /\ Len(inbox'[t]) = Len(inbox[t]) - 1
  /\ \A k \in 1..Len(inbox'[t]) : k + 1 \in 1..Len(inbox[t]) /\ inbox'[t][k] = inbox[t][k + 1]

Added(t, m) ==
  /\ inbox' \in [Threads -> Seq(Callbacks)]
  /\ \A u \in Threads : Len(inbox[u]) \in Nat /\ Len(inbox'[u]) \in Nat
  /\ \A u \in Threads : u # t => inbox'[u] = inbox[u]
  /\ Len(inbox'[t]) = Len(inbox[t]) + 1 /\ inbox'[t][Len(inbox[t]) + 1] = m
  /\ \A k \in 1..Len(inbox[t]) : inbox'[t][k] = inbox[t][k]

LEMMA TailOf ==
  ASSUME NEW S, NEW q \in Seq(S), q # <<>>
  PROVE  /\ Tail(q) \in Seq(S) /\ Len(q) \in Nat
         /\ 1 \in 1..Len(q) /\ Head(q) = q[1] /\ Len(Tail(q)) = Len(q) - 1
         /\ \A k \in 1..Len(Tail(q)) : k + 1 \in 1..Len(q) /\ Tail(q)[k] = q[k + 1]
  OBVIOUS

LEMMA AppendOf ==
  ASSUME NEW S, NEW q \in Seq(S), NEW e \in S
  PROVE  /\ Append(q, e) \in Seq(S) /\ Len(q) \in Nat
         /\ Len(Append(q, e)) = Len(q) + 1 /\ Append(q, e)[Len(q) + 1] = e
         /\ \A k \in 1..Len(q) : Append(q, e)[k] = q[k]
  OBVIOUS

LEMMA LengthOf == ASSUME NEW S, NEW q \in Seq(S) PROVE Len(q) \in Nat
  OBVIOUS

LEMMA Handled ==
  ASSUME QueueType, NEW t \in Threads, NEW what, NEW s, Handle(t, what, s)
  PROVE  Taken(t) /\ inbox[t][1] = Message(what, s) /\ step[t] = "idle"
<1>1. /\ inbox[t] # <<>> /\ Head(inbox[t]) = Message(what, s) /\ step[t] = "idle"
      /\ inbox' = [inbox EXCEPT ![t] = Tail(inbox[t])]
  BY DEF Handle
<1>2. \A u \in Threads : inbox[u] \in Seq(Callbacks)
  BY DEF QueueType
<1> HIDE DEF Threads
<1>3. \A u \in Threads : Len(inbox[u]) \in Nat
  BY <1>2, LengthOf
<1>4. /\ Tail(inbox[t]) \in Seq(Callbacks)
      /\ 1 \in 1..Len(inbox[t]) /\ Head(inbox[t]) = inbox[t][1]
      /\ Len(Tail(inbox[t])) = Len(inbox[t]) - 1
      /\ \A k \in 1..Len(Tail(inbox[t])) :
           k + 1 \in 1..Len(inbox[t]) /\ Tail(inbox[t])[k] = inbox[t][k + 1]
  BY <1>1, <1>2, TailOf
<1>5. inbox'[t] = Tail(inbox[t]) /\ \A u \in Threads : u # t => inbox'[u] = inbox[u]
  BY <1>1 DEF QueueType
<1>6. inbox' \in [Threads -> Seq(Callbacks)]
  BY <1>1, <1>4 DEF QueueType
<1>7. \A u \in Threads : Len(inbox'[u]) \in Nat
  BY <1>6, LengthOf
<1>8. QED
  BY <1>1, <1>3, <1>4, <1>5, <1>6, <1>7 DEF Taken

LEMMA PostedTo ==
  ASSUME QueueType, NEW t \in Threads, NEW what, NEW s, Message(what, s) \in Callbacks,
         Post(t, what, s)
  PROVE  Added(t, Message(what, s))
<1> DEFINE m == Message(what, s)
<1>1. inbox' = [inbox EXCEPT ![t] = Append(inbox[t], m)] /\ m \in Callbacks
  BY DEF Post
<1>2. \A u \in Threads : inbox[u] \in Seq(Callbacks)
  BY DEF QueueType
<1> HIDE DEF m, Threads
<1>3. \A u \in Threads : Len(inbox[u]) \in Nat
  BY <1>2, LengthOf
<1>4. /\ Append(inbox[t], m) \in Seq(Callbacks)
      /\ Len(Append(inbox[t], m)) = Len(inbox[t]) + 1
      /\ Append(inbox[t], m)[Len(inbox[t]) + 1] = m
      /\ \A k \in 1..Len(inbox[t]) : Append(inbox[t], m)[k] = inbox[t][k]
  BY <1>1, <1>2, AppendOf
<1>5. inbox'[t] = Append(inbox[t], m) /\ \A u \in Threads : u # t => inbox'[u] = inbox[u]
  BY <1>1 DEF QueueType
<1>6. inbox' \in [Threads -> Seq(Callbacks)]
  BY <1>1, <1>4 DEF QueueType
<1>7. \A u \in Threads : Len(inbox'[u]) \in Nat
  BY <1>6, LengthOf
<1>8. Added(t, m)
  BY <1>3, <1>4, <1>5, <1>6, <1>7 DEF Added
<1>9. QED
  BY <1>8 DEF m

(* A thread's place after it has gone from one to another.                 *)
LEMMA Went ==
  ASSUME StepType, NEW t \in Threads, NEW from, NEW to, Go(t, from, to)
  PROVE  step[t] = from /\ step'[t] = to /\ \A u \in Threads : u # t => step'[u] = step[u]
  BY DEF Go, StepType

(* What is to come about a camera still is, if nothing about it is taken.  *)
LEMMA StillComing ==
  ASSUME QueueType, NEW t \in Threads, Taken(t), NEW n \in Devices, Coming(n),
         ~Is(t, 1, "opened", n), ~Is(t, 1, "disconnected", n)
  PROVE  Coming(n)'
<1>1. /\ \A u \in Threads : DOMAIN inbox[u] = 1..Len(inbox[u])
      /\ \A u \in Threads : DOMAIN inbox'[u] = 1..Len(inbox'[u])
  BY DEF QueueType, Taken
<1>2. PICK u \in Threads : \E k \in 1..Len(inbox[u]) :
        Is(u, k, "opened", n) \/ Is(u, k, "disconnected", n)
  BY <1>1 DEF Coming, Is
<1> PICK k \in 1..Len(inbox[u]) : Is(u, k, "opened", n) \/ Is(u, k, "disconnected", n)
  BY <1>2
<1>3. CASE u # t
  BY <1>1, <1>2, <1>3 DEF Taken, Coming, Is
<1>4. CASE u = t
  <2>1. k # 1
    BY <1>2, <1>4
  <2>2. k - 1 \in 1..Len(inbox'[t]) /\ inbox'[t][k - 1] = inbox[t][k]
    BY <1>2, <1>4, <2>1 DEF Taken
  <2>3. QED
    BY <1>1, <1>2, <1>4, <2>2 DEF Coming, Is
<1>5. QED
  BY <1>3, <1>4

LEMMA AlsoComing ==
  ASSUME QueueType, NEW t \in Threads, NEW m, Added(t, m), NEW n \in Devices,
         Coming(n) \/ (m.device = n /\ m.what \in {"opened", "disconnected"})
  PROVE  Coming(n)'
<1>1. /\ \A u \in Threads : DOMAIN inbox[u] = 1..Len(inbox[u])
      /\ \A u \in Threads : DOMAIN inbox'[u] = 1..Len(inbox'[u])
  BY DEF QueueType, Added
<1>2. CASE Coming(n)
  <2>1. PICK u \in Threads : \E k \in 1..Len(inbox[u]) :
          inbox[u][k].what \in {"opened", "disconnected"} /\ inbox[u][k].device = n
    BY <1>1, <1>2 DEF Coming
  <2> PICK k \in 1..Len(inbox[u]) :
         inbox[u][k].what \in {"opened", "disconnected"} /\ inbox[u][k].device = n
    BY <2>1
  <2>2. k \in 1..Len(inbox'[u]) /\ inbox'[u][k] = inbox[u][k]
    BY <2>1 DEF Added
  <2>3. QED
    BY <1>1, <2>1, <2>2 DEF Coming
<1>3. CASE m.device = n /\ m.what \in {"opened", "disconnected"}
  <2>1. Len(inbox[t]) + 1 \in 1..Len(inbox'[t]) /\ inbox'[t][Len(inbox[t]) + 1] = m
    BY DEF Added
  <2>2. QED
    BY <1>1, <1>3, <2>1 DEF Coming
<1>4. QED
  BY <1>2, <1>3

(* What is known of the messages stays known when the camera service goes  *)
(* forward, the first message is taken or none, and only a camera whose    *)
(* message is taken comes into the field.                                  *)
Forward ==
  /\ \A m \in Devices : device[m] \in {"open", "closed"} =>
       device'[m] \in {"open", "closed"} /\ looper'[m] = looper[m]
  /\ lost \subseteq lost'

LEMMA PostedTaken ==
  ASSUME Posted, NEW t \in Threads, Taken(t), Forward,
         \A m \in Devices : cameraInstance' = m => cameraInstance = m \/ Is(t, 1, "opened", m)
  PROVE  Posted'
<1>1. SUFFICES ASSUME NEW u \in Threads, NEW k \in 1..Len(inbox'[u]), NEW n \in Devices
               PROVE  /\ Is(u, k, "opened", n)' \/ Is(u, k, "disconnected", n)' =>
                           looper'[n] = u /\ device'[n] \in {"open", "closed"}
                      /\ Is(u, k, "opened", n)' =>
                           /\ cameraInstance' # n
                           /\ \A j \in 1..Len(inbox'[u]) : Is(u, j, "opened", n)' => j = k
                      /\ Is(u, k, "disconnected", n)' => n \in lost'
  BY DEF Posted, Is
<1> DEFINE d == IF u = t THEN 1 ELSE 0
<1>2. \A j \in 1..Len(inbox'[u]) : j + d \in 1..Len(inbox[u]) /\ inbox'[u][j] = inbox[u][j + d]
  <2>1. CASE u = t
    BY <2>1 DEF Taken
  <2>2. CASE u # t
    <3>1. inbox'[u] = inbox[u] /\ d = 0 /\ Len(inbox[u]) \in Nat
      BY <2>2 DEF Taken
    <3>2. QED
      BY <3>1
  <2>3. QED
    BY <2>1, <2>2
<1>3. \A j \in 1..Len(inbox'[u]), w \in {"opened", "disconnected"} :
        Is(u, j, w, n)' => Is(u, j + d, w, n)
  BY <1>2 DEF Is
<1>4. CASE Is(u, k, "disconnected", n)'
  <2>1. Is(u, k + d, "disconnected", n) /\ k + d \in 1..Len(inbox[u])
    BY <1>2, <1>3, <1>4
  <2>2. looper[n] = u /\ device[n] \in {"open", "closed"} /\ n \in lost
    BY <2>1 DEF Posted
  <2>3. ~Is(u, k, "opened", n)'
    BY <1>4 DEF Is
  <2>4. QED
    BY <2>2, <2>3 DEF Forward
<1>5. CASE Is(u, k, "opened", n)'
  <2>1. Is(u, k + d, "opened", n) /\ k + d \in 1..Len(inbox[u])
    BY <1>2, <1>3, <1>5
  <2>2. looper[n] = u /\ device[n] \in {"open", "closed"} /\ cameraInstance # n
        /\ \A j \in 1..Len(inbox[u]) : Is(u, j, "opened", n) => j = k + d
    BY <2>1 DEF Posted
  <2>3. ~Is(t, 1, "opened", n)
    <3>1. CASE u = t
      <4>1. 1 \in 1..Len(inbox[u]) /\ k + d # 1
        BY <1>1, <3>1 DEF Taken
      <4>2. QED
        BY <2>2, <3>1, <4>1
    <3>2. CASE u # t
      <4>1. 1 \in 1..Len(inbox[t])
        BY DEF Taken
      <4>2. Is(t, 1, "opened", n) => looper[n] = t
        BY <4>1 DEF Posted
      <4>3. QED
        BY <2>2, <3>2, <4>2
    <3>3. QED
      BY <3>1, <3>2
  <2>4. cameraInstance' # n
    BY <2>2, <2>3
  <2>5. \A j \in 1..Len(inbox'[u]) : Is(u, j, "opened", n)' => j = k
    <3>1. ASSUME NEW j \in 1..Len(inbox'[u]), Is(u, j, "opened", n)' PROVE j = k
      <4>1. j + d = k + d
        BY <1>2, <1>3, <2>2, <3>1
      <4>2. QED
        BY <1>1, <3>1, <4>1 DEF Taken
    <3>2. QED
      BY <3>1
  <2>6. ~Is(u, k, "disconnected", n)'
    BY <1>5 DEF Is
  <2>7. QED
    BY <2>2, <2>4, <2>5, <2>6 DEF Forward
<1>6. QED
  BY <1>4, <1>5

LEMMA PostedKept ==
  ASSUME Posted, UNCHANGED inbox, Forward, cameraInstance' \in {cameraInstance, Null}
  PROVE  Posted'
<1>2. \A n \in Devices : cameraInstance # n => cameraInstance' # n
  OBVIOUS
<1>4. SUFFICES ASSUME NEW t \in Threads, NEW k \in 1..Len(inbox[t]), NEW n \in Devices
               PROVE  /\ Is(t, k, "opened", n) \/ Is(t, k, "disconnected", n) =>
                           looper'[n] = t /\ device'[n] \in {"open", "closed"}
                      /\ Is(t, k, "opened", n) =>
                           /\ cameraInstance' # n
                           /\ \A j \in 1..Len(inbox[t]) : Is(t, j, "opened", n) => j = k
                      /\ Is(t, k, "disconnected", n) => n \in lost'
  BY DEF Posted, Is
<1>5. QED
  BY <1>2, <1>4 DEF Posted, Forward

(* A message about a camera of which there is no "opened" yet.              *)
LEMMA PostedAdded ==
  ASSUME Posted, NEW t \in Threads, NEW m \in Callbacks, Added(t, m), Forward,
         UNCHANGED cameraInstance,
         m.what \in {"opened", "disconnected"} =>
           looper'[m.device] = t /\ device'[m.device] \in {"open", "closed"},
         m.what = "opened" => device[m.device] = "opening" /\ cameraInstance # m.device,
         m.what = "disconnected" => m.device \in lost'
  PROVE  Posted'
<1>1. SUFFICES ASSUME NEW u \in Threads, NEW k \in 1..Len(inbox'[u]), NEW n \in Devices
               PROVE  /\ Is(u, k, "opened", n)' \/ Is(u, k, "disconnected", n)' =>
                           looper'[n] = u /\ device'[n] \in {"open", "closed"}
                      /\ Is(u, k, "opened", n)' =>
                           /\ cameraInstance' # n
                           /\ \A j \in 1..Len(inbox'[u]) : Is(u, j, "opened", n)' => j = k
                      /\ Is(u, k, "disconnected", n)' => n \in lost'
  BY DEF Posted, Is
<1>2. \A j \in 1..Len(inbox'[u]) :
        \/ j \in 1..Len(inbox[u]) /\ inbox'[u][j] = inbox[u][j]
        \/ u = t /\ j = Len(inbox[t]) + 1 /\ inbox'[u][j] = m
  BY DEF Added
<1>3. \A j \in 1..Len(inbox'[u]), w \in {"opened", "disconnected"} : Is(u, j, w, n)' =>
        \/ j \in 1..Len(inbox[u]) /\ Is(u, j, w, n)
        \/ u = t /\ j = Len(inbox[t]) + 1 /\ m.what = w /\ m.device = n
  BY <1>2 DEF Is
<1>4. CASE Is(u, k, "disconnected", n)'
  <2>1. ~Is(u, k, "opened", n)'
    BY <1>4 DEF Is
  <2>2. \/ k \in 1..Len(inbox[u]) /\ Is(u, k, "disconnected", n)
        \/ u = t /\ m.what = "disconnected" /\ m.device = n
    BY <1>3, <1>4
  <2>3. QED
    BY <2>1, <2>2 DEF Posted, Forward
<1>5. CASE Is(u, k, "opened", n)'
  <2>1. ~Is(u, k, "disconnected", n)'
    BY <1>5 DEF Is
  <2>2. \/ k \in 1..Len(inbox[u]) /\ Is(u, k, "opened", n)
        \/ u = t /\ k = Len(inbox[t]) + 1 /\ m.what = "opened" /\ m.device = n
    BY <1>3, <1>5
  <2>3. looper'[n] = u /\ device'[n] \in {"open", "closed"} /\ cameraInstance' # n
    BY <2>2 DEF Posted, Forward
  <2>4. ASSUME NEW j \in 1..Len(inbox'[u]), Is(u, j, "opened", n)' PROVE j = k
    <3>1. \/ j \in 1..Len(inbox[u]) /\ Is(u, j, "opened", n)
          \/ u = t /\ j = Len(inbox[t]) + 1 /\ m.what = "opened" /\ m.device = n
      BY <1>3, <2>4
    <3>2. \A i \in 1..Len(inbox[u]) : Is(u, i, "opened", n) => device[n] \in {"open", "closed"}
      BY DEF Posted
    <3>3. QED
      BY <2>2, <3>1, <3>2 DEF Posted
  <2>5. QED
    BY <2>1, <2>3, <2>4
<1>6. QED
  BY <1>4, <1>5

(* The sessions to come keep their turn when no camera is asked for, and   *)
(* what suits them still does.                                             *)
Steady ==
  /\ \A m \in Live' : m \in Live /\ looper'[m] = looper[m]
  /\ \A s \in Session : Suits(s) => Suits(s)'
  /\ \A u \in Threads : step'[u] \in {"size", "create"} => step[u] \in {"size", "create"}

LEMMA SessionsTaken ==
  ASSUME QueueType, ServiceType, Posted, Sessions, NEW t \in Threads, Taken(t), Steady
  PROVE  Sessions'
<1>1. SUFFICES ASSUME NEW u \in Threads, NEW k \in 1..Len(inbox'[u]),
                      inbox'[u][k].what = "configured"
               PROVE  /\ Suits(Queued(u, k))'
                      /\ \A v \in Threads : step'[v] \notin {"size", "create"}
                      /\ \A m \in Live' : looper'[m] = u
                      /\ \A j \in 1..Len(inbox'[u]), m \in Devices :
                           Is(u, j, "opened", m)' /\ device'[m] = "open" => k < j
  BY DEF Sessions
<1> DEFINE d == IF u = t THEN 1 ELSE 0
<1>2. \A j \in 1..Len(inbox'[u]) : j + d \in 1..Len(inbox[u]) /\ inbox'[u][j] = inbox[u][j + d]
  <2>1. CASE u = t
    BY <2>1 DEF Taken
  <2>2. CASE u # t
    <3>1. inbox'[u] = inbox[u] /\ d = 0 /\ Len(inbox[u]) \in Nat
      BY <2>2 DEF Taken
    <3>2. QED
      BY <3>1
  <2>3. QED
    BY <2>1, <2>2
<1>3. k + d \in 1..Len(inbox[u]) /\ inbox[u][k + d].what = "configured"
      /\ Queued(u, k)' = Queued(u, k + d)
  BY <1>1, <1>2 DEF Queued
<1>4. Suits(Queued(u, k))'
  <2>1. inbox[u][k + d] \in Callbacks
    BY <1>3 DEF QueueType
  <2>2. Queued(u, k + d) \in Session
    BY <2>1 DEF Queued, Session, Callbacks
  <2>3. Suits(Queued(u, k + d))
    BY <1>3 DEF Sessions
  <2>4. ASSUME NEW s \in Session, Suits(s), s = Queued(u, k)' PROVE Suits(Queued(u, k))'
    BY <2>4 DEF Steady, Suits, Fits, InRelease
  <2>5. QED
    BY <1>3, <2>2, <2>3, <2>4
<1>5. /\ \A m \in Live' : looper'[m] = u
      /\ \A v \in Threads : step'[v] \notin {"size", "create"}
  BY <1>3 DEF Sessions, Steady
<1>6. ASSUME NEW j \in 1..Len(inbox'[u]), NEW m \in Devices,
             Is(u, j, "opened", m)', device'[m] = "open"
      PROVE  k < j
  <2>1. j + d \in 1..Len(inbox[u]) /\ Is(u, j + d, "opened", m)
    BY <1>2, <1>6 DEF Is
  <2>2. device[m] = "open"
    BY <1>6, <2>1 DEF Posted, Steady, Live
  <2>3. k + d < j + d
    BY <1>3, <2>1, <2>2 DEF Sessions
  <2>4. QED
    BY <1>1, <1>6, <2>3 DEF Taken
<1>7. QED
  BY <1>4, <1>5, <1>6

LEMMA SessionsKept ==
  ASSUME QueueType, ServiceType, Posted, Sessions, UNCHANGED inbox, Steady
  PROVE  Sessions'
<1>1. SUFFICES ASSUME NEW u \in Threads, NEW k \in 1..Len(inbox[u]),
                      inbox[u][k].what = "configured"
               PROVE  /\ Suits(Queued(u, k))'
                      /\ \A v \in Threads : step'[v] \notin {"size", "create"}
                      /\ \A m \in Live' : looper'[m] = u
                      /\ \A j \in 1..Len(inbox[u]), m \in Devices :
                           Is(u, j, "opened", m) /\ device'[m] = "open" => k < j
  BY DEF Sessions, Is
<1>2. Suits(Queued(u, k))'
  <2>1. inbox[u][k] \in Callbacks
    BY <1>1 DEF QueueType
  <2>2. Queued(u, k) \in Session /\ Queued(u, k)' = Queued(u, k)
    BY <2>1 DEF Queued, Session, Callbacks
  <2>3. Suits(Queued(u, k))
    BY <1>1 DEF Sessions
  <2>4. ASSUME NEW s \in Session, Suits(s), s = Queued(u, k)' PROVE Suits(Queued(u, k))'
    BY <2>4 DEF Steady, Suits, Fits, InRelease
  <2>5. QED
    BY <2>2, <2>3, <2>4
<1>3. /\ \A m \in Live' : looper'[m] = u
      /\ \A v \in Threads : step'[v] \notin {"size", "create"}
  BY <1>1 DEF Sessions, Steady
<1>4. ASSUME NEW j \in 1..Len(inbox[u]), NEW m \in Devices,
             Is(u, j, "opened", m), device'[m] = "open"
      PROVE  k < j
  <2>1. device[m] = "open"
    BY <1>4 DEF Posted, Steady, Live
  <2>2. QED
    BY <1>1, <1>4, <2>1 DEF Sessions
<1>5. QED
  BY <1>2, <1>3, <1>4

LEMMA SessionsAdded ==
  ASSUME QueueType, ServiceType, Posted, Sessions, NEW t \in Threads, NEW m \in Callbacks,
         Added(t, m), Steady,
         m.what = "configured" =>
           /\ Suits([device |-> m.device, reader |-> m.reader])'
           /\ \A v \in Threads : step'[v] \notin {"size", "create"}
           /\ \A n \in Live' : looper'[n] = t
           /\ \A j \in 1..Len(inbox[t]), n \in Devices :
                Is(t, j, "opened", n) => device'[n] # "open"
  PROVE  Sessions'
<1>1. SUFFICES ASSUME NEW u \in Threads, NEW k \in 1..Len(inbox'[u]),
                      inbox'[u][k].what = "configured"
               PROVE  /\ Suits(Queued(u, k))'
                      /\ \A v \in Threads : step'[v] \notin {"size", "create"}
                      /\ \A n \in Live' : looper'[n] = u
                      /\ \A j \in 1..Len(inbox'[u]), n \in Devices :
                           Is(u, j, "opened", n)' /\ device'[n] = "open" => k < j
  BY DEF Sessions
<1>2. \A j \in 1..Len(inbox'[u]) :
        \/ j \in 1..Len(inbox[u]) /\ inbox'[u][j] = inbox[u][j]
        \/ u = t /\ j = Len(inbox[t]) + 1 /\ inbox'[u][j] = m
  BY DEF Added
<1>3. CASE k \in 1..Len(inbox[u]) /\ inbox'[u][k] = inbox[u][k]
  <2>1. Queued(u, k)' = Queued(u, k) /\ inbox[u][k].what = "configured"
    BY <1>1, <1>3 DEF Queued
  <2>2. Suits(Queued(u, k))'
    <3>1. inbox[u][k] \in Callbacks
      BY <1>3 DEF QueueType
    <3>2. Queued(u, k) \in Session
      BY <3>1 DEF Queued, Session, Callbacks
    <3>3. Suits(Queued(u, k))
      BY <1>3, <2>1 DEF Sessions
    <3>4. ASSUME NEW s \in Session, Suits(s), s = Queued(u, k)' PROVE Suits(Queued(u, k))'
      BY <3>4 DEF Steady, Suits, Fits, InRelease
    <3>5. QED
      BY <2>1, <3>2, <3>3, <3>4
  <2>3. /\ \A n \in Live' : looper'[n] = u
        /\ \A v \in Threads : step'[v] \notin {"size", "create"}
    BY <1>3, <2>1 DEF Sessions, Steady
  <2>4. ASSUME NEW j \in 1..Len(inbox'[u]), NEW n \in Devices,
               Is(u, j, "opened", n)', device'[n] = "open"
        PROVE  k < j
    <3>1. CASE j \in 1..Len(inbox[u]) /\ inbox'[u][j] = inbox[u][j]
      <4>1. Is(u, j, "opened", n)
        BY <2>4, <3>1 DEF Is
      <4>2. device[n] = "open"
        BY <2>4, <3>1, <4>1 DEF Posted, Steady, Live
      <4>3. QED
        BY <1>3, <2>1, <3>1, <4>1, <4>2 DEF Sessions
    <3>2. CASE u = t /\ j = Len(inbox[t]) + 1
      BY <1>3, <3>2 DEF Added
    <3>3. QED
      BY <1>2, <3>1, <3>2
  <2>5. QED
    BY <2>2, <2>3, <2>4
<1>4. CASE u = t /\ k = Len(inbox[t]) + 1 /\ inbox'[u][k] = m
  <2>1. m.what = "configured" /\ Queued(u, k)' = [device |-> m.device, reader |-> m.reader]
    BY <1>1, <1>4 DEF Queued
  <2>2. Suits(Queued(u, k))'
    BY <2>1 DEF Suits, Fits, InRelease
  <2>3. ASSUME NEW j \in 1..Len(inbox'[u]), NEW n \in Devices,
               Is(u, j, "opened", n)', device'[n] = "open"
        PROVE  k < j
    <3>1. ~(j \in 1..Len(inbox[u]) /\ inbox'[u][j] = inbox[u][j])
      BY <1>4, <2>1, <2>3 DEF Is
    <3>2. inbox'[u][j] = m
      BY <1>2, <3>1
    <3>3. QED
      BY <2>1, <2>3, <3>2 DEF Is
  <2>4. QED
    BY <1>4, <2>1, <2>2, <2>3
<1>5. QED
  BY <1>1, <1>2, <1>3, <1>4

-----------------------------------------------------------------------------
(* An exception, or nothing at all.                                        *)
LEMMA SameStep ==
  ASSUME LInv, UNCHANGED <<fieldVars, serviceVars, threadVars, countVars, historyVars>>,
         fault' \in {NoFault, "release", "size", "session", "overflow", "image"},
         FaultNeedsCrossing'
  PROVE  LInv'
<1> USE DEF fieldVars, serviceVars, threadVars, countVars, historyVars
<1>1. TypeOK'
  <2>1. FieldType' /\ ServiceType' /\ QueueType' /\ CountType'
    BY DEF LInv, TypeOK, FieldType, ServiceType, QueueType, CountType
  <2>2. StepType' /\ HistoryType' /\ Requested' /\ Switching'
    BY DEF LInv, TypeOK, StepType, HistoryType, Requested, Switching
  <2>3. QED
    BY <2>1, <2>2 DEF TypeOK
<1>2. Posted' /\ Came'
  BY DEF LInv, Posted, Is, Came
<1>3. ASSUME ~doubled', ~met' PROVE OneCamera'
  <2>1. OneCamera
    BY <1>3 DEF LInv
  <2>2. Single' /\ Apart' /\ Emptied' /\ Held' /\ Working'
    BY <2>1 DEF OneCamera, Single, Live, Apart, InRelease, InCallback, Emptied, Held, Working
  <2>3. Known' /\ Streams' /\ Readers' /\ Paused'
    BY <2>1 DEF OneCamera, Known, Coming, Streams, Readers, Paused, InRelease
  <2>4. QED
    BY <2>2, <2>3 DEF OneCamera
<1>4. ASSUME ~doubled', ~met', ~mixed' PROVE InTurn'
  <2>1. InTurn
    BY <1>4 DEF LInv
  <2>2. Sessions'
    BY <2>1 DEF InTurn, Sessions, Suits, Fits, InRelease, Queued, Live, Is
  <2>3. Streamed'
    BY <2>1 DEF InTurn, Streamed, Fits
  <2>4. QED
    BY <2>2, <2>3 DEF InTurn
<1>5. QED
  BY <1>1, <1>2, <1>3, <1>4 DEF LInv

(* With one camera at a time and threads that do not meet, the fields are  *)
(* what release and the callbacks take them to be.                         *)
LEMMA ThrowStep ==
  ASSUME LInv, fault = NoFault,
         \/ CloseNothing
         \/ \E t \in Threads : NoSize(t) \/ CreateThrows(t) \/ RequestThrows(t)
                               \/ Overflow(t) \/ ImageThrows(t)
  PROVE  LInv'
<1>1. /\ UNCHANGED <<fieldVars, serviceVars, threadVars, countVars, historyVars>>
      /\ fault' \in {NoFault, "release", "size", "session", "overflow", "image"}
  BY DEF CloseNothing, NoSize, CreateThrows, RequestThrows, Overflow, ImageThrows, Throw
<1>2. FaultNeedsCrossing'
  <2>1. SUFFICES ASSUME ~doubled, ~met, ~mixed, fault' \in {"release", "session", "image"}
                 PROVE  FALSE
    BY <1>1 DEF FaultNeedsCrossing, historyVars
  <2>2. Emptied /\ Held /\ Working /\ Streamed /\ FieldType
    BY <2>1 DEF LInv, TypeOK, OneCamera, InTurn
  <2>3. ~CloseNothing
    BY <2>2 DEF CloseNothing, Emptied
  <2>4. ASSUME NEW t \in Threads, CreateThrows(t) PROVE FALSE
    <3>1. /\ step[t] = "create" /\ imageReader = cameraInstance /\ imageReader \in openReaders
          /\ cameraInstance # Null
      BY <2>2, <2>4 DEF CreateThrows, Working
    <3>2. step[UI] = "forget" => t = GL
      BY <3>1
    <3>3. step[UI] # "forget"
      BY <2>1, <3>1, <3>2 DEF LInv, OneCamera, Apart, InRelease, InCallback
    <3>4. QED
      BY <2>2, <2>4, <3>1, <3>3 DEF CreateThrows, Held
  <2>5. ASSUME NEW t \in Threads, RequestThrows(t) PROVE FALSE
    BY <2>2, <2>5 DEF RequestThrows, Streamed
  <2>6. ASSUME NEW t \in Threads, ImageThrows(t) PROVE FALSE
    BY <2>2, <2>6 DEF ImageThrows, Working
  <2>7. ASSUME NEW t \in Threads, NoSize(t) \/ Overflow(t) PROVE FALSE
    BY <2>1, <2>7 DEF NoSize, Overflow, Throw
  <2>8. QED
    BY <2>3, <2>4, <2>5, <2>6, <2>7
<1>3. QED
  BY <1>1, <1>2, SameStep

-----------------------------------------------------------------------------
(* A callback that does nothing.                                           *)
LEMMA DropStep ==
  ASSUME LInv, fault = NoFault, NEW t \in Threads,
         \/ \E n \in Devices : Dropped(t, n)
         \/ \E s \in Session : OnConfiguredLate(t, s)
  PROVE  LInv'
<1>1. /\ Taken(t)
      /\ \A n \in Devices : Is(t, 1, "opened", n) \/ Is(t, 1, "disconnected", n) =>
           device[n] = "closed"
      /\ UNCHANGED <<fieldVars, serviceVars, step, about, switching, countVars, historyVars,
                     fault>>
  <2>1. CASE \E n \in Devices : Dropped(t, n)
    <3>1. PICK n \in Devices : Dropped(t, n)
      BY <2>1
    <3>2. QueueType /\ \E what \in {"opened", "disconnected"} : Handle(t, what, Own(n))
      BY <3>1 DEF Dropped, LInv, TypeOK
    <3>3. PICK what \in {"opened", "disconnected"} : Handle(t, what, Own(n))
      BY <3>2
    <3>4. Taken(t) /\ inbox[t][1] = Message(what, Own(n))
      BY <3>2, <3>3, Handled
    <3>5. inbox[t][1].device = n
      BY <3>4 DEF Message, Own
    <3>6. QED
      BY <3>1, <3>4, <3>5 DEF Dropped, Is
  <2>2. CASE \E s \in Session : OnConfiguredLate(t, s)
    <3>1. PICK s \in Session : OnConfiguredLate(t, s)
      BY <2>2
    <3>2. QueueType /\ Handle(t, "configured", s)
      BY <3>1 DEF OnConfiguredLate, LInv, TypeOK
    <3>3. Taken(t) /\ inbox[t][1] = Message("configured", s)
      BY <3>2, Handled
    <3>4. inbox[t][1].what = "configured"
      BY <3>3 DEF Message
    <3>5. QED
      BY <3>1, <3>3, <3>4 DEF OnConfiguredLate, Is
  <2>3. QED
    BY <2>1, <2>2
<1> USE DEF fieldVars, serviceVars, countVars, historyVars
<1>2. TypeOK'
  <2>1. FieldType' /\ ServiceType' /\ CountType'
    BY <1>1 DEF LInv, TypeOK, FieldType, ServiceType, CountType
  <2>2. QueueType'
    BY <1>1 DEF QueueType, Taken
  <2>3. StepType' /\ HistoryType' /\ Requested' /\ Switching'
    BY <1>1 DEF LInv, TypeOK, StepType, HistoryType, Requested, Switching
  <2>4. QED
    BY <2>1, <2>2, <2>3 DEF TypeOK
<1>3. Posted'
  <2>1. Forward /\ Posted /\ cameraInstance' = cameraInstance
    BY <1>1 DEF Forward, LInv
  <2>2. QED
    BY <1>1, <2>1, PostedTaken
<1>4. Came' /\ FaultNeedsCrossing'
  BY <1>1 DEF LInv, Came, FaultNeedsCrossing
<1>5. ASSUME ~doubled', ~met' PROVE OneCamera'
  <2>1. OneCamera
    BY <1>1, <1>5 DEF LInv
  <2>2. Single' /\ Apart' /\ Emptied' /\ Held' /\ Working'
    BY <1>1, <2>1 DEF OneCamera, Single, Live, Apart, InRelease, InCallback, Emptied, Held,
       Working
  <2>3. Streams' /\ Readers' /\ Paused'
    BY <1>1, <2>1 DEF OneCamera, Streams, Readers, Paused, InRelease
  <2>4. Known'
    <3>1. ASSUME NEW n \in Devices, device[n] = "open", Coming(n) PROVE Coming(n)'
      BY <1>1, <3>1, StillComing DEF LInv, TypeOK
    <3>2. QED
      BY <1>1, <2>1, <3>1 DEF OneCamera, Known
  <2>5. QED
    BY <2>2, <2>3, <2>4 DEF OneCamera
<1>6. ASSUME ~doubled', ~met', ~mixed' PROVE InTurn'
  <2>1. InTurn
    BY <1>1, <1>6 DEF LInv
  <2>2. Steady
    BY <1>1 DEF Steady, Live, Suits, Fits, InRelease
  <2>3. Sessions'
    BY <1>1, <2>1, <2>2, SessionsTaken DEF LInv, TypeOK, InTurn
  <2>4. Streamed'
    BY <1>1, <2>1 DEF InTurn, Streamed, Fits
  <2>5. QED
    BY <2>3, <2>4 DEF InTurn
<1>7. QED
  BY <1>2, <1>3, <1>4, <1>5, <1>6 DEF LInv

-----------------------------------------------------------------------------
(* A camera comes.                                                         *)
LEMMA OpenedStep ==
  ASSUME LInv, fault = NoFault, NEW t \in Threads, NEW n \in Devices, OnOpened(t, n)
  PROVE  LInv'
<1>1. Taken(t) /\ inbox[t][1] = Message("opened", Own(n)) /\ step[t] = "idle"
  BY Handled DEF LInv, TypeOK, OnOpened
<1>2. Is(t, 1, "opened", n) /\ 1 \in 1..Len(inbox[t])
  BY <1>1 DEF Is, Message, Own, Taken
<1>3. /\ cameraInstance' = n /\ device[n] = "open" /\ about' = [about EXCEPT ![t] = Own(n)]
      /\ met' = (met \/ InRelease) /\ late' = (late \/ ~wanted)
      /\ UNCHANGED <<sized, imageReader, captureSession, mImageData, serviceVars, switching,
                     countVars, doubled, mixed, fault>>
  BY DEF OnOpened, Enter
<1>4. step'[t] = "size" /\ \A u \in Threads : u # t => step'[u] = step[u]
  BY Went DEF LInv, TypeOK, OnOpened, Enter
<1>5. step' = [step EXCEPT ![t] = "size"]
  BY DEF OnOpened, Enter, Go
<1> DEFINE s == Own(n)
<1>6. s \in Session /\ s.device = n /\ s.reader = n
  BY DEF Own, Session
<1>7. TypeOK'
  <2>1. FieldType'
    BY <1>3 DEF LInv, TypeOK, FieldType
  <2>2. ServiceType' /\ Requested' /\ CountType'
    BY <1>3 DEF LInv, TypeOK, ServiceType, Requested, CountType, serviceVars, countVars
  <2>3. QueueType'
    BY <1>1 DEF QueueType, Taken
  <2>4. StepType'
    BY <1>3, <1>5, <1>6 DEF LInv, TypeOK, StepType, InUse
  <2>5. HistoryType'
    BY <1>3 DEF LInv, TypeOK, HistoryType, InRelease
  <2>6. Switching'
    BY <1>1, <1>3, <1>4 DEF LInv, TypeOK, Switching, countVars, Releasing
  <2>7. QED
    BY <2>1, <2>2, <2>3, <2>4, <2>5, <2>6 DEF TypeOK
<1>8. Posted'
  <2>1. Forward /\ Posted /\ \A m \in Devices : cameraInstance' = m => Is(t, 1, "opened", m)
    BY <1>2, <1>3 DEF Forward, LInv, serviceVars
  <2>2. QED
    BY <1>1, <2>1, PostedTaken
<1>9. Came' /\ FaultNeedsCrossing'
  BY <1>3 DEF LInv, Came, FaultNeedsCrossing, serviceVars
<1>10. ASSUME ~doubled', ~met' PROVE OneCamera'
  <2>1. ~InRelease /\ ~doubled /\ ~met /\ Single
    BY <1>3, <1>10 DEF LInv, OneCamera
  <2>2. \A m \in Devices : device[m] = "open" => m = n
    BY <1>3, <2>1 DEF Single, Live
  <2>3. cameraInstance = Null /\ cameraInstance # n
    <3>1. cameraInstance # n
      BY <1>2 DEF LInv, Posted
    <3>2. cameraInstance # Null => device[cameraInstance] = "open"
      BY <2>1 DEF LInv, OneCamera, Held, InRelease
    <3>3. QED
      BY <2>2, <3>1, <3>2 DEF LInv, TypeOK, FieldType
  <2>4. Single' /\ Apart' /\ Emptied'
    <3>1. ~InRelease' /\ step'[UI] \notin Releasing
      BY <1>4, <2>1 DEF InRelease, Releasing
    <3>2. QED
      BY <1>3, <2>1, <3>1 DEF Single, Live, Apart, Emptied, serviceVars, Releasing
  <2>5. Held'
    BY <1>3, <1>4, <2>1 DEF Held, InRelease, serviceVars
  <2>6. Working'
    <3>1. looper[n] = t /\ about'[t] = s /\ \A u \in Threads : u # t => about'[u] = about[u]
      BY <1>2, <1>3 DEF LInv, Posted, TypeOK, StepType
    <3>2. \A u \in Threads : step[u] \notin {"size", "create"}
      BY <2>1, <2>3 DEF LInv, OneCamera, Working
    <3>3. QED
      BY <1>3, <1>4, <1>6, <2>1, <3>1, <3>2 DEF LInv, OneCamera, Working, serviceVars
  <2>7. Known'
    BY <1>3, <2>2 DEF Known, serviceVars
  <2>8. Streams'
    BY <1>3, <2>1, <2>3 DEF LInv, OneCamera, Streams, TypeOK, ServiceType, serviceVars, Session
  <2>9. Readers'
    BY <1>3, <2>1, <2>3 DEF LInv, OneCamera, Readers, serviceVars
  <2>10. Paused'
    BY <1>3, <2>1 DEF LInv, OneCamera, Paused, countVars, HistoryType, TypeOK, CountType
  <2>11. QED
    BY <2>4, <2>5, <2>6, <2>7, <2>8, <2>9, <2>10 DEF OneCamera
<1>11. ASSUME ~doubled', ~met', ~mixed' PROVE InTurn'
  <2>1. /\ ~InRelease /\ ~doubled /\ ~met /\ ~mixed
        /\ \A m \in Devices : device[m] = "open" => m = n
        /\ InTurn /\ Posted
    BY <1>3, <1>11 DEF LInv, OneCamera, Single, Live
  <2>2. \A u \in Threads : \A k \in 1..Len(inbox[u]) : inbox[u][k].what # "configured"
    <3>1. ASSUME NEW u \in Threads, NEW k \in 1..Len(inbox[u]), inbox[u][k].what = "configured"
          PROVE  FALSE
      <4>1. looper[n] = u
        BY <1>3, <2>1, <3>1 DEF InTurn, Sessions, Live
      <4>2. looper[n] = t
        BY <1>2, <2>1 DEF Posted
      <4>3. k < 1
        BY <1>2, <1>3, <2>1, <3>1, <4>1, <4>2 DEF InTurn, Sessions
      <4>4. QED
        BY <4>3
    <3>2. QED
      BY <3>1
  <2>3. \A u \in Threads : \A k \in 1..Len(inbox'[u]) : inbox'[u][k].what # "configured"
    <3>1. ASSUME NEW u \in Threads, NEW k \in 1..Len(inbox'[u]),
                 inbox'[u][k].what = "configured"
          PROVE  FALSE
      <4>1. CASE u = t
        <5>1. k + 1 \in 1..Len(inbox[t]) /\ inbox'[t][k] = inbox[t][k + 1]
          BY <1>1, <3>1, <4>1 DEF Taken
        <5>2. QED
          BY <2>2, <3>1, <4>1, <5>1
      <4>2. CASE u # t
        BY <1>1, <2>2, <3>1, <4>2 DEF Taken
      <4>3. QED
        BY <4>1, <4>2
    <3>2. QED
      BY <3>1
  <2>4. \A u \in Threads : step'[u] # "stream"
    <3>1. \A u \in Threads : step[u] # "stream"
      <4>1. ASSUME NEW u \in Threads, step[u] = "stream" PROVE FALSE
        <5>1. Fits(about[u])
          BY <2>1, <4>1 DEF InTurn, Streamed
        <5>2. about[u] \in Session
          BY <4>1 DEF LInv, TypeOK, StepType, InUse
        <5>3. cameraInstance = about[u].device /\ device[about[u].device] = "open"
              /\ about[u].device \in Devices
          BY <5>1, <5>2 DEF Fits, Session
        <5>4. cameraInstance # n
          BY <1>2, <2>1 DEF Posted
        <5>5. QED
          BY <2>1, <5>3, <5>4
      <4>2. QED
        BY <4>1
    <3>2. QED
      BY <1>4, <3>1
  <2>5. QED
    BY <2>3, <2>4 DEF InTurn, Sessions, Streamed
<1>12. QED
  BY <1>7, <1>8, <1>9, <1>10, <1>11 DEF LInv

-----------------------------------------------------------------------------
(* release.                                                                *)
LEMMA StartReleaseStep ==
  ASSUME LInv, fault = NoFault, Pause \/ SwitchCamera
  PROVE  LInv'
<1> USE DEF fieldVars, serviceVars
<1>1. /\ UNCHANGED <<fieldVars, device, looper, streaming, lost, inbox, about, opens,
                     doubled, late, mixed, fault>>
      /\ calls < MaxCalls /\ calls' = calls + 1
      /\ met' = (met \/ InCallback(GL))
      /\ \/ wanted' = FALSE /\ switching' = switching
         \/ wanted' = TRUE /\ switching' = TRUE /\ opens < MaxOpens
      /\ step[UI] = "idle"
      /\ \/ /\ imageReader = Null /\ openReaders' = openReaders
            /\ step' = [step EXCEPT ![UI] = "camera"]
         \/ /\ imageReader # Null /\ openReaders' = openReaders \ {imageReader}
            /\ step' = [step EXCEPT ![UI] = "reader"]
  BY DEF Pause, SwitchCamera, StartRelease, Call, Go
<1>2. step'[UI] \in {"reader", "camera"} /\ step'[GL] = step[GL]
      /\ (step'[UI] = "camera" => imageReader = Null)
  BY <1>1 DEF LInv, TypeOK, StepType
<1>3. InRelease' /\ ~InRelease /\ ~InCallback(UI) /\ ~InCallback(UI)'
  BY <1>1, <1>2 DEF InRelease, InCallback
<1>4. TypeOK'
  <2>1. FieldType' /\ ServiceType' /\ QueueType'
    BY <1>1 DEF LInv, TypeOK, FieldType, ServiceType, QueueType
  <2>2. StepType'
    BY <1>1, <1>2 DEF LInv, TypeOK, StepType, InUse, Releasing
  <2>3. CountType'
    <3>1. calls' \in 0..MaxCalls /\ opens' \in 0..MaxOpens
      BY <1>1 DEF LInv, TypeOK, CountType
    <3>2. wanted' \in BOOLEAN
      BY <1>1
    <3>3. QED
      BY <3>1, <3>2 DEF CountType
  <2>4. HistoryType'
    BY <1>1 DEF LInv, TypeOK, HistoryType, InCallback
  <2>5. Requested'
    BY <1>1 DEF LInv, TypeOK, Requested
  <2>6. Switching'
    <3>1. ~switching
      BY <1>1 DEF LInv, TypeOK, Switching, Releasing
    <3>2. switching' \in BOOLEAN /\ (switching' => wanted' /\ opens < MaxOpens)
      <4>1. CASE switching' = switching
        BY <3>1, <4>1 DEF LInv, TypeOK, Switching
      <4>2. CASE wanted' = TRUE /\ switching' = TRUE /\ opens < MaxOpens
        BY <4>2
      <4>3. QED
        BY <1>1, <4>1, <4>2
    <3>3. opens' = opens /\ step'[UI] \in {"reader", "camera"}
      BY <1>1, <1>2
    <3>4. QED
      BY <3>2, <3>3 DEF Switching, Releasing
  <2>7. QED
    BY <2>1, <2>2, <2>3, <2>4, <2>5, <2>6 DEF TypeOK
<1>5. Posted'
  <2>1. Posted /\ Forward
    BY <1>1 DEF LInv, Forward
  <2>2. QED
    BY <1>1, <2>1, PostedKept
<1>6. Came' /\ FaultNeedsCrossing'
  BY <1>1 DEF LInv, Came, FaultNeedsCrossing
<1>7. ASSUME ~doubled', ~met' PROVE OneCamera'
  <2>1. OneCamera /\ ~InCallback(GL)
    BY <1>1, <1>7 DEF LInv
  <2>2. Single' /\ Apart' /\ Emptied' /\ Held'
    BY <1>1, <1>2, <2>1 DEF OneCamera, Single, Live, Apart, InCallback, Emptied, Held
  <2>3. Working'
    <3>1. \A t \in Threads : ~InCallback(t)'
      BY <1>2, <1>3, <2>1 DEF InCallback
    <3>2. QED
      BY <3>1 DEF Working, InCallback
  <2>4. Known' /\ Streams'
    BY <1>1, <2>1 DEF OneCamera, Known, Coming, Streams
  <2>5. Readers'
    <3>1. SUFFICES ASSUME lost = {} PROVE openReaders' = {}
      BY <1>1 DEF Readers
    <3>2. openReaders \subseteq {imageReader} /\ openReaders \subseteq Devices
      BY <2>1, <3>1 DEF OneCamera, Readers, LInv, TypeOK, ServiceType
    <3>3. \/ openReaders' = openReaders \ {imageReader}
          \/ imageReader = Null /\ openReaders' = openReaders
      BY <1>1
    <3>4. Null \notin Devices
      OBVIOUS
    <3>5. \A r \in openReaders : r = imageReader /\ r # Null
      BY <3>2, <3>4
    <3>6. QED
      BY <3>3, <3>5
  <2>6. Paused'
    BY <1>3 DEF Paused
  <2>7. QED
    BY <2>2, <2>3, <2>4, <2>5, <2>6 DEF OneCamera
<1>8. ASSUME ~doubled', ~met', ~mixed' PROVE InTurn'
  <2>1. InTurn /\ ~InCallback(GL)
    BY <1>1, <1>8 DEF LInv
  <2>2. Steady
    BY <1>1, <1>2, <1>3 DEF Steady, Live, Suits
  <2>3. Sessions'
    BY <1>1, <2>1, <2>2, SessionsKept DEF LInv, TypeOK, InTurn
  <2>4. Streamed'
    BY <1>2, <2>1 DEF Streamed, InCallback
  <2>5. QED
    BY <2>3, <2>4 DEF InTurn
<1>9. QED
  BY <1>4, <1>5, <1>6, <1>7, <1>8 DEF LInv

(* The steps that follow: what none of them changes.                       *)
Going(to) ==
  /\ InRelease /\ step'[UI] = to /\ step'[GL] = step[GL]
  /\ step' = [step EXCEPT ![UI] = to]
  /\ UNCHANGED <<sized, mImageData, looper, openReaders, lost, inbox, about, switching,
                 countVars, historyVars, fault>>

LEMMA GoingTypes ==
  ASSUME TypeOK, NEW to \in Releasing \cup {"idle", "setUp"}, Going(to),
         FieldType', ServiceType', Requested',
         to = "setUp" => switching, to = "idle" => ~switching
  PROVE  TypeOK'
<1> USE DEF Going, countVars, historyVars
<1>1. QueueType' /\ CountType' /\ HistoryType'
  BY DEF TypeOK, QueueType, CountType, HistoryType
<1>2. StepType'
  BY DEF TypeOK, StepType, InRelease, InUse, Releasing
<1>3. Switching'
  BY DEF TypeOK, Switching, Releasing
<1>4. QED
  BY <1>1, <1>2, <1>3 DEF TypeOK

(* No callback of either thread is under way.                              *)
LEMMA GoingAlone ==
  ASSUME OneCamera, NEW to \in Releasing \cup {"idle", "setUp"}, Going(to)
  PROVE  \A t \in Threads : ~InCallback(t) /\ ~InCallback(t)'
  BY DEF OneCamera, Apart, Going, InRelease, InCallback, Releasing

LEMMA ReleaseStepInv ==
  ASSUME LInv, fault = NoFault,
         ForgetReader \/ TestCamera \/ CloseCamera \/ ForgetCamera \/ CloseSession
  PROVE  LInv'
<1> USE DEF serviceVars, fieldVars
<1> DEFINE to == step'[UI]
<1>1. PICK next \in Releasing \cup {"idle", "setUp"} :
        /\ Going(next)
        /\ next = "setUp" => switching
        /\ next = "idle" => ~switching
        /\ next \in {"idle", "setUp"} => CloseSession
  <2>1. ASSUME NEW from, NEW next, Go(UI, from, next),
               from \in Releasing, InRelease
        PROVE  step'[UI] = next /\ step'[GL] = step[GL] /\ step' = [step EXCEPT ![UI] = next]
    BY <2>1 DEF Go, LInv, TypeOK, StepType
  <2>2. CASE ForgetReader
    <3>1. Go(UI, "reader", "camera") /\ InRelease
      BY <2>2 DEF ForgetReader, Go, InRelease
    <3>2. Going("camera")
      BY <2>1, <2>2, <3>1 DEF ForgetReader, Going, Releasing
    <3>3. QED
      BY <3>2 DEF Releasing
  <2>3. CASE TestCamera
    <3>1. PICK next \in {"session", "close"} : Go(UI, "camera", next)
      BY <2>3 DEF TestCamera
    <3>2. InRelease
      BY <3>1 DEF Go, InRelease
    <3>3. Going(next)
      BY <2>1, <2>3, <3>1, <3>2 DEF TestCamera, Going, Releasing
    <3>4. QED
      BY <3>3 DEF Releasing
  <2>4. CASE CloseCamera
    <3>1. Go(UI, "close", "forget") /\ InRelease
      BY <2>4 DEF CloseCamera, Go, InRelease
    <3>2. Going("forget")
      BY <2>1, <2>4, <3>1 DEF CloseCamera, Going, Releasing
    <3>3. QED
      BY <3>2 DEF Releasing
  <2>5. CASE ForgetCamera
    <3>1. Go(UI, "forget", "session") /\ InRelease
      BY <2>5 DEF ForgetCamera, Go, InRelease
    <3>2. Going("session")
      BY <2>1, <2>5, <3>1 DEF ForgetCamera, Going, Releasing
    <3>3. QED
      BY <3>2 DEF Releasing
  <2>6. CASE CloseSession
    <3>1. PICK next \in {"setUp", "idle"} :
            /\ Go(UI, "session", next)
            /\ next = IF switching THEN "setUp" ELSE "idle"
      BY <2>6 DEF CloseSession
    <3>2. InRelease
      BY <3>1 DEF Go, InRelease
    <3>3. Going(next)
      BY <2>1, <2>6, <3>1, <3>2 DEF CloseSession, Going, Releasing
    <3>4. QED
      BY <2>6, <3>1, <3>3 DEF Releasing
  <2>7. QED
    BY <2>2, <2>3, <2>4, <2>5, <2>6
<1>2. /\ cameraInstance' \in {cameraInstance, Null} /\ imageReader' \in {imageReader, Null}
      /\ captureSession' \in {captureSession, NoSession}
      /\ streaming' \subseteq streaming
      /\ \A m \in Devices : device'[m] = device[m]
           \/ (CloseCamera /\ m = cameraInstance /\ device'[m] = "closed")
      /\ device' \in [Devices -> {"none", "opening", "open", "closed"}]
  BY DEF ForgetReader, TestCamera, CloseCamera, ForgetCamera, CloseSession, LInv, TypeOK,
     FieldType, ServiceType
<1>3. Came
  BY DEF LInv
<1>4. TypeOK'
  <2>1. FieldType' /\ ServiceType'
    BY <1>1, <1>2 DEF LInv, TypeOK, FieldType, ServiceType, Going
  <2>2. Requested'
    <3>1. CloseCamera => cameraInstance # Null
      BY DEF CloseCamera
    <3>2. \A m \in Devices : device'[m] = "none" <=> device[m] = "none"
      BY <1>2, <1>3, <3>1 DEF Came
    <3>3. opens' = opens
      BY <1>1 DEF Going, countVars
    <3>4. QED
      BY <3>2, <3>3 DEF LInv, TypeOK, Requested
  <2>3. QED
    BY <1>1, <2>1, <2>2, GoingTypes DEF LInv
<1>5. Posted'
  <2>1. Forward /\ Posted /\ inbox' = inbox
    BY <1>1, <1>2 DEF Forward, LInv, Going
  <2>2. QED
    BY <1>2, <2>1, PostedKept
<1>6. Came' /\ FaultNeedsCrossing'
  <2>1. cameraInstance \in Devices \cup {Null}
    BY DEF LInv, TypeOK, FieldType
  <2>2. Came'
    BY <1>2, <1>3, <2>1 DEF Came
  <2>3. QED
    BY <1>1, <2>2 DEF LInv, FaultNeedsCrossing, Going, historyVars
<1>7. ASSUME ~doubled', ~met' PROVE OneCamera'
  <2>1. OneCamera /\ \A t \in Threads : ~InCallback(t) /\ ~InCallback(t)'
    <3>1. OneCamera
      BY <1>1, <1>7 DEF LInv, Going, historyVars
    <3>2. QED
      BY <1>1, <3>1, GoingAlone
  <2>2. Single' /\ Apart' /\ Working'
    <3>1. Apart' /\ Working'
      BY <2>1 DEF Apart, Working, InCallback
    <3>2. \A m \in Live' : m \in Live
      BY <1>2 DEF Live
    <3>3. QED
      BY <2>1, <3>1, <3>2 DEF OneCamera, Single
  <2>3. Emptied'
    <3>1. CASE ForgetReader
      BY <3>1, <1>1 DEF ForgetReader, Emptied, Going, Go, LInv, TypeOK, StepType
    <3>2. CASE TestCamera
      BY <2>1, <3>2, <1>1 DEF OneCamera, TestCamera, Emptied, Going, Go
    <3>3. CASE CloseCamera
      BY <2>1, <3>3, <1>1 DEF OneCamera, CloseCamera, Emptied, Going, Go
    <3>4. CASE ForgetCamera
      <4>1. step[UI] = "forget" /\ cameraInstance' = Null /\ imageReader' = imageReader
            /\ step' = [step EXCEPT ![UI] = "session"]
        BY <3>4 DEF ForgetCamera, Go
      <4>2. step'[UI] = "session"
        BY <4>1 DEF LInv, TypeOK, StepType
      <4>3. QED
        BY <2>1, <4>1, <4>2 DEF OneCamera, Emptied
    <3>5. CASE CloseSession
      BY <2>1, <3>5, <1>1 DEF OneCamera, CloseSession, Emptied, Going, Go
    <3>6. QED
      BY <3>1, <3>2, <3>3, <3>4, <3>5
  <2>4. Held'
    <3>1. CASE ForgetReader
      BY <2>1, <3>1, <1>1 DEF OneCamera, ForgetReader, Held, Going, Go
    <3>2. CASE TestCamera
      BY <2>1, <3>2, <1>1 DEF OneCamera, TestCamera, Held, Going, Go
    <3>3. CASE CloseCamera
      <4>1. /\ cameraInstance' = cameraInstance /\ step'[UI] = "forget"
            /\ cameraInstance \in Devices
            /\ device' = [device EXCEPT ![cameraInstance] = "closed"]
        BY <3>3, <1>1 DEF CloseCamera, Going, Go, LInv, TypeOK, FieldType, StepType
      <4>2. QED
        BY <4>1 DEF Held, LInv, TypeOK, ServiceType
    <3>4. CASE ForgetCamera
      BY <3>4 DEF ForgetCamera, Held
    <3>5. CASE CloseSession
      BY <2>1, <3>5 DEF OneCamera, CloseSession, Held, Emptied, Go
    <3>6. QED
      BY <3>1, <3>2, <3>3, <3>4, <3>5
  <2>5. Known'
    <3>1. SUFFICES ASSUME NEW m \in Devices, device'[m] = "open"
                   PROVE  cameraInstance' = m \/ Coming(m)
      BY <1>1 DEF Known, Coming, Going
    <3>2. device[m] = "open"
      BY <1>2, <3>1
    <3>3. cameraInstance = m \/ Coming(m)
      BY <2>1, <3>2 DEF OneCamera, Known
    <3>4. ASSUME cameraInstance = m PROVE cameraInstance' = m
      <4>1. ~ForgetCamera
        BY <2>1, <3>2, <3>4 DEF OneCamera, Held, ForgetCamera, Go
      <4>2. QED
        BY <3>4, <4>1 DEF ForgetReader, TestCamera, CloseCamera, CloseSession
    <3>5. QED
      BY <3>3, <3>4
  <2>6. Streams'
    <3>1. SUFFICES ASSUME NEW s \in streaming'
                   PROVE  s.device = cameraInstance' /\ device'[s.device] = "open"
      BY DEF Streams
    <3>2. s \in streaming /\ s.device = cameraInstance /\ device[s.device] = "open"
          /\ s.device \in Devices
      BY <1>2, <2>1, <3>1 DEF OneCamera, Streams, LInv, TypeOK, ServiceType, Session
    <3>3. ~CloseCamera
      BY <3>1, <3>2 DEF CloseCamera
    <3>4. ~ForgetCamera
      BY <2>1, <3>2 DEF OneCamera, Held, ForgetCamera, Go
    <3>5. QED
      BY <1>2, <3>2, <3>3, <3>4 DEF ForgetReader, TestCamera, CloseSession
  <2>7. Readers'
    BY <1>1, <1>2, <2>1 DEF OneCamera, Readers, Going
  <2>8. Paused'
    <3>1. CASE CloseSession
      BY <2>1, <3>1 DEF OneCamera, CloseSession, Emptied, Paused, Go
    <3>2. CASE ~CloseSession
      <4>1. step'[UI] \in Releasing
        BY <1>1, <3>2 DEF Going
      <4>2. InRelease'
        BY <4>1 DEF InRelease, Releasing
      <4>3. QED
        BY <4>2 DEF Paused
    <3>3. QED
      BY <3>1, <3>2
  <2>9. QED
    BY <2>2, <2>3, <2>4, <2>5, <2>6, <2>7, <2>8 DEF OneCamera
<1>8. ASSUME ~doubled', ~met', ~mixed' PROVE InTurn'
  <2>1. InTurn /\ OneCamera
    BY <1>1, <1>8 DEF LInv, Going, historyVars
  <2>2. \A t \in Threads : ~InCallback(t)'
    BY <1>1, <2>1, GoingAlone
  <2>3. Steady
    <3>1. \A m \in Live' : m \in Live /\ looper'[m] = looper[m]
      BY <1>1, <1>2 DEF Live, Going
    <3>2. InRelease' \/ CloseSession
      <4>1. CASE step'[UI] \in Releasing
        BY <4>1 DEF InRelease, Releasing
      <4>2. CASE step'[UI] \in {"idle", "setUp"}
        BY <1>1, <4>2 DEF Going
      <4>3. QED
        BY <1>1, <4>1, <4>2 DEF Going
    <3>3. CloseSession => cameraInstance' = Null
      BY <2>1 DEF OneCamera, Emptied, CloseSession, Go
    <3>4. QED
      BY <2>2, <3>1, <3>2, <3>3 DEF Steady, Suits, InCallback
  <2>4. Sessions'
    BY <1>1, <2>1, <2>3, SessionsKept DEF LInv, TypeOK, InTurn, Going
  <2>5. Streamed'
    BY <2>2 DEF Streamed, InCallback
  <2>6. QED
    BY <2>4, <2>5 DEF InTurn
<1>9. QED
  BY <1>4, <1>5, <1>6, <1>7, <1>8 DEF LInv

-----------------------------------------------------------------------------
(* A camera is asked for.                                                  *)
LEMMA SetUpStep ==
  ASSUME LInv, fault = NoFault,
         SwitchSetUp \/ \E t \in Threads : Resume(t)
  PROVE  LInv'
<1> DEFINE n == opens + 1
<1>1. n \in Devices /\ opens \in 0..MaxOpens /\ n \in 1..MaxOpens
  <2>1. opens \in 0..MaxOpens
    BY DEF LInv, TypeOK, CountType
  <2>2. CASE SwitchSetUp
    <3>1. step[UI] = "setUp"
      BY <2>2 DEF SwitchSetUp, Go
    <3>2. opens < MaxOpens
      BY <3>1 DEF LInv, TypeOK, Switching
    <3>3. QED
      BY <2>1, <3>2
  <2>3. CASE \E t \in Threads : Resume(t)
    <3>1. opens + (IF switching THEN 1 ELSE 0) < MaxOpens
      BY <2>3 DEF Resume
    <3>2. QED
      BY <2>1, <3>1
  <2>4. QED
    BY <2>2, <2>3
<1>2. PICK t \in Threads :
        /\ \/ SwitchSetUp /\ t = UI
           \/ Resume(t)
        /\ SetUpCamera(t)
  BY DEF SwitchSetUp, Resume
<1>3. /\ opens' = n /\ looper' = [looper EXCEPT ![n] = t]
      /\ doubled' = (doubled \/ Live # {})
      /\ mixed' = (mixed \/ \E u \in Threads \ {t} : inbox[u] # <<>> \/ InCallback(u))
      /\ \E answer \in {"opening", "closed"} : device' = [device EXCEPT ![n] = answer]
      /\ lost \subseteq lost' /\ lost' \subseteq lost \cup {n}
      /\ UNCHANGED <<cameraInstance, imageReader, captureSession, mImageData, openReaders,
                     streaming, inbox, about, late, met, fault>>
  BY <1>2 DEF SetUpCamera
<1>4. /\ wanted' /\ wanted' \in BOOLEAN /\ calls' \in 0..MaxCalls /\ sized' \in BOOLEAN
      /\ Switching'
  <2>1. CASE SwitchSetUp
    <3>1. /\ step[UI] = "setUp" /\ step' = [step EXCEPT ![UI] = "idle"] /\ switching' = FALSE
          /\ UNCHANGED <<sized, calls, wanted>>
      BY <2>1 DEF SwitchSetUp, Go
    <3>2. step'[UI] = "idle" /\ switching
      BY <3>1 DEF LInv, TypeOK, StepType, Switching
    <3>3. wanted /\ wanted \in BOOLEAN /\ sized \in BOOLEAN /\ calls \in 0..MaxCalls
      BY <3>2 DEF LInv, TypeOK, Switching, CountType, FieldType
    <3>4. Switching'
      BY <3>1, <3>2 DEF Switching
    <3>5. QED
      BY <3>1, <3>3, <3>4
  <2>2. CASE Resume(t)
    <3>1. /\ wanted' = TRUE /\ calls < MaxCalls /\ calls' = calls + 1
          /\ sized' \in {sized, TRUE} /\ UNCHANGED <<step, switching>>
          /\ opens + (IF switching THEN 1 ELSE 0) < MaxOpens
      BY <2>2 DEF Resume, Call
    <3>2. switching => opens' < MaxOpens
      BY <1>1, <1>3, <3>1
    <3>3. Switching'
      BY <3>1, <3>2 DEF LInv, TypeOK, Switching
    <3>4. calls' \in 0..MaxCalls
      BY <3>1 DEF LInv, TypeOK, CountType
    <3>5. sized' \in BOOLEAN
      BY <3>1 DEF LInv, TypeOK, FieldType
    <3>6. QED
      BY <3>1, <3>3, <3>4, <3>5
  <2>3. QED
    BY <1>2, <2>1, <2>2
<1>5. /\ step'[UI] = step[UI] \/ (step[UI] = "setUp" /\ step'[UI] = "idle")
      /\ step'[GL] = step[GL]
      /\ step' = step \/ step' = [step EXCEPT ![UI] = "idle"]
  BY <1>2 DEF SwitchSetUp, Resume, Go, LInv, TypeOK, StepType
<1>6. /\ InRelease' = InRelease
      /\ \A u \in Threads, w \in InUse : step'[u] = w <=> step[u] = w
      /\ \A w \in Releasing : step'[UI] = w <=> step[UI] = w
  BY <1>5 DEF InRelease, InUse, Releasing
<1>7. /\ device[n] = "none" /\ cameraInstance # n
      /\ device' \in [Devices -> {"none", "opening", "open", "closed"}]
      /\ device'[n] \in {"opening", "closed"} /\ looper'[n] = t
      /\ \A m \in Devices : m # n => device'[m] = device[m] /\ looper'[m] = looper[m]
  <2>1. device[n] = "none"
    BY <1>1 DEF LInv, TypeOK, Requested
  <2>2. cameraInstance # n
    BY <1>1, <2>1 DEF LInv, Came
  <2>3. QED
    BY <1>1, <1>3, <2>1, <2>2 DEF LInv, TypeOK, ServiceType
<1>8. TypeOK'
  <2>1. FieldType'
    BY <1>3, <1>4 DEF LInv, TypeOK, FieldType
  <2>2. ServiceType'
    BY <1>1, <1>3, <1>7 DEF LInv, TypeOK, ServiceType
  <2>3. QueueType'
    BY <1>3 DEF LInv, TypeOK, QueueType
  <2>4. StepType'
    BY <1>3, <1>5, <1>6 DEF LInv, TypeOK, StepType, InUse
  <2>5. CountType'
    BY <1>1, <1>3, <1>4 DEF CountType
  <2>6. HistoryType'
    BY <1>3 DEF LInv, TypeOK, HistoryType
  <2>7. Requested'
    BY <1>1, <1>3, <1>7 DEF LInv, TypeOK, Requested
  <2>8. QED
    BY <1>4, <2>1, <2>2, <2>3, <2>4, <2>5, <2>6, <2>7 DEF TypeOK
<1>9. Posted'
  <2>1. Forward /\ Posted /\ inbox' = inbox /\ cameraInstance' = cameraInstance
    BY <1>3, <1>7 DEF Forward, LInv
  <2>2. QED
    BY <2>1, PostedKept
<1>10. Came' /\ FaultNeedsCrossing'
  <2>1. Came'
    BY <1>3, <1>7 DEF LInv, Came, TypeOK, FieldType
  <2>2. QED
    BY <1>3, <2>1 DEF LInv, FaultNeedsCrossing
<1>11. ASSUME ~doubled', ~met' PROVE OneCamera'
  <2>1. OneCamera /\ Live = {}
    BY <1>3, <1>11 DEF LInv
  <2>2. \A m \in Devices : device'[m] = "open" => device[m] = "open"
    BY <1>7
  <2>3. Single' /\ Apart' /\ Emptied'
    <3>1. \A m \in Live' : m = n
      BY <1>7, <2>1 DEF Live
    <3>2. Apart'
      BY <1>5, <1>6, <2>1 DEF OneCamera, Apart, InCallback
    <3>3. Emptied'
      BY <1>3, <1>6, <2>1 DEF OneCamera, Emptied, Releasing
    <3>4. QED
      BY <3>1, <3>2, <3>3 DEF Single
  <2>4. Held'
    BY <1>3, <1>6, <1>7, <2>1 DEF OneCamera, Held, LInv, TypeOK, FieldType, Releasing
  <2>5. Working'
    BY <1>3, <1>6, <1>7, <2>1 DEF OneCamera, Working, LInv, TypeOK, FieldType, InUse
  <2>6. Known'
    BY <2>1, <2>2 DEF Known, Live
  <2>7. Streams'
    <3>1. streaming' = {}
      BY <1>3, <2>1 DEF OneCamera, Streams, Live, LInv, TypeOK, ServiceType, Session
    <3>2. QED
      BY <3>1 DEF Streams
  <2>8. Readers'
    BY <1>3, <1>6, <2>1 DEF OneCamera, Readers, InUse
  <2>9. Paused'
    BY <1>4 DEF Paused
  <2>10. QED
    BY <2>3, <2>4, <2>5, <2>6, <2>7, <2>8, <2>9 DEF OneCamera
<1>12. ASSUME ~doubled', ~met', ~mixed' PROVE InTurn'
  <2>1. /\ InTurn /\ Live = {}
        /\ \A u \in Threads \ {t} : inbox[u] = <<>>
    BY <1>3, <1>12 DEF LInv
  <2>2. \A m \in Live' : m = n
    BY <1>7, <2>1 DEF Live
  <2>3. Sessions'
    <3>1. SUFFICES ASSUME NEW u \in Threads, NEW k \in 1..Len(inbox[u]),
                          inbox[u][k].what = "configured"
                   PROVE  /\ Suits(Queued(u, k))'
                          /\ \A m \in Live' : looper'[m] = u
                          /\ \A m \in Devices : device'[m] # "open"
                          /\ \A v \in Threads : step'[v] \notin {"size", "create"}
      BY <1>3 DEF Sessions, Is
    <3>2. u = t
      <4>1. inbox[u] # <<>>
        BY <3>1
      <4>2. QED
        BY <2>1, <4>1
    <3>3. \A m \in Devices : device[m] # "open"
      BY <2>1 DEF Live
    <3>4. inbox[u][k].device \in Devices
      <4>1. inbox[u] \in Seq(Callbacks)
        BY DEF LInv, TypeOK, QueueType
      <4>2. inbox[u][k] \in Callbacks
        BY <3>1, <4>1
      <4>3. QED
        BY <4>2 DEF Callbacks
    <3>5. cameraInstance = Null \/ InRelease
      BY <2>1, <3>1, <3>3, <3>4 DEF InTurn, Sessions, Suits, Fits, Queued
    <3>6. QED
      <4>1. \A v \in Threads : step[v] \notin {"size", "create"}
        BY <2>1, <3>1 DEF InTurn, Sessions
      <4>2. \A v \in Threads : step'[v] \notin {"size", "create"}
        BY <1>6, <4>1 DEF InUse
      <4>3. QED
        BY <1>3, <1>6, <1>7, <2>2, <3>2, <3>3, <3>5, <4>2 DEF Suits
  <2>4. Streamed'
    <3>1. \A u \in Threads : step[u] # "stream"
      BY <2>1 DEF InTurn, Streamed, Fits, Live, LInv, TypeOK, StepType, InUse, Session
    <3>2. QED
      BY <1>6, <3>1 DEF Streamed, InUse
  <2>5. QED
    BY <2>3, <2>4 DEF InTurn
<1>13. QED
  BY <1>8, <1>9, <1>10, <1>11, <1>12 DEF LInv

-----------------------------------------------------------------------------
(* The camera service answers, or takes a camera away.                     *)
LEMMA ServiceStep ==
  ASSUME LInv, fault = NoFault, NEW n \in Devices, Grant(n) \/ Lose(n)
  PROVE  LInv'
<1> USE DEF fieldVars, countVars, historyVars
<1>1. PICK what \in {"opened", "disconnected"} :
      /\ UNCHANGED <<fieldVars, looper, openReaders, streaming, step, about, switching,
                     countVars, historyVars, fault>>
      /\ device[n] \in {"opening", "open"} /\ (what = "opened" => device[n] = "opening")
      /\ device' = [device EXCEPT ![n] = "open"]
      /\ lost \subseteq lost' /\ lost' \subseteq lost \cup {n}
      /\ Post(looper[n], what, Own(n)) /\ (what = "disconnected" => n \in lost')
  <2>1. CASE Grant(n)
    BY <2>1 DEF Grant
  <2>2. CASE Lose(n)
    BY <2>2 DEF Lose, Live
  <2>3. QED
    BY <2>1, <2>2
<1> DEFINE m == Message(what, Own(n))
<1>2. /\ device'[n] = "open" /\ \A k \in Devices : k # n => device'[k] = device[k]
      /\ device' \in [Devices -> {"none", "opening", "open", "closed"}]
      /\ looper[n] \in Threads
  BY <1>1 DEF LInv, TypeOK, ServiceType
<1>3. m \in Callbacks /\ m.device = n /\ m.what = what /\ what \in {"opened", "disconnected"}
  BY DEF Message, Own, Callbacks
<1>4. Added(looper[n], m)
  <2>1. QueueType /\ looper[n] \in Threads /\ Message(what, Own(n)) \in Callbacks
        /\ Post(looper[n], what, Own(n))
    BY <1>1, <1>2, <1>3 DEF LInv, TypeOK
  <2>2. QED
    BY <2>1, PostedTo
<1> HIDE DEF m
<1>5. cameraInstance = n => device[n] = "open"
  BY <1>1 DEF LInv, Came
<1>6. TypeOK'
  <2>1. FieldType' /\ ServiceType' /\ CountType'
    BY <1>1, <1>2 DEF LInv, TypeOK, FieldType, ServiceType, CountType
  <2>2. QueueType'
    BY <1>4 DEF QueueType, Added
  <2>3. StepType' /\ HistoryType' /\ Switching'
    BY <1>1 DEF LInv, TypeOK, StepType, HistoryType, Switching
  <2>4. Requested'
    BY <1>1, <1>2 DEF LInv, TypeOK, Requested
  <2>5. QED
    BY <2>1, <2>2, <2>3, <2>4 DEF TypeOK
<1>7. Posted'
  <2>1. Posted /\ Forward /\ cameraInstance' = cameraInstance /\ looper[n] \in Threads
    BY <1>1, <1>2 DEF LInv, Forward
  <2>2. m.what = "opened" => device[m.device] = "opening" /\ cameraInstance # m.device
    BY <1>1, <1>3, <1>5
  <2>3. /\ looper'[m.device] = looper[n] /\ device'[m.device] = "open"
        /\ m.what = "disconnected" => m.device \in lost'
    BY <1>1, <1>2, <1>3
  <2>4. QED
    BY <1>3, <1>4, <2>1, <2>2, <2>3, PostedAdded
<1>8. Came' /\ FaultNeedsCrossing'
  <2>1. Came'
    BY <1>1, <1>2 DEF LInv, Came, TypeOK, FieldType
  <2>2. QED
    BY <1>1, <2>1 DEF LInv, FaultNeedsCrossing
<1>9. \A k \in Devices : k \in Live' <=> k \in Live
  BY <1>1, <1>2 DEF Live
<1>10. ASSUME ~doubled', ~met' PROVE OneCamera'
  <2>1. OneCamera
    BY <1>1, <1>10 DEF LInv
  <2>2. Single'
    BY <1>9, <2>1 DEF OneCamera, Single, Live
  <2>3. Apart' /\ Emptied' /\ Working' /\ Paused'
    BY <1>1, <2>1 DEF OneCamera, Apart, InRelease, InCallback, Emptied, Working, Paused
  <2>4. Held'
    <3>1. cameraInstance = n => step[UI] # "forget"
      BY <1>5, <2>1 DEF OneCamera, Held
    <3>2. QED
      BY <1>1, <1>2, <2>1, <3>1 DEF OneCamera, Held, LInv, TypeOK, FieldType
  <2>5. Known'
    <3>1. ASSUME NEW k \in Devices, device'[k] = "open"
          PROVE  cameraInstance' = k \/ Coming(k)'
      <4>1. CASE k = n
        BY <1>2, <1>3, <1>4, <4>1, AlsoComing DEF LInv, TypeOK
      <4>2. CASE k # n
        <5>1. cameraInstance = k \/ Coming(k)
          BY <1>2, <2>1, <3>1, <4>2 DEF OneCamera, Known
        <5>2. Coming(k) => Coming(k)'
          BY <1>2, <1>4, AlsoComing DEF LInv, TypeOK
        <5>3. QED
          BY <1>1, <5>1, <5>2
      <4>3. QED
        BY <4>1, <4>2
    <3>2. QED
      BY <3>1 DEF Known
  <2>6. Streams'
    BY <1>1, <1>2, <2>1 DEF OneCamera, Streams, LInv, TypeOK, ServiceType, Session
  <2>7. Readers'
    BY <1>1, <2>1 DEF OneCamera, Readers, InRelease
  <2>8. QED
    BY <2>2, <2>3, <2>4, <2>5, <2>6, <2>7 DEF OneCamera
<1>11. ASSUME ~doubled', ~met', ~mixed' PROVE InTurn'
  <2>1. InTurn
    BY <1>1, <1>11 DEF LInv
  <2>2. Steady
    <3>1. ASSUME NEW s \in Session, Fits(s) PROVE Fits(s)'
      BY <1>1, <1>2, <3>1 DEF Fits, Session
    <3>2. QED
      BY <1>1, <1>9, <3>1 DEF Steady, Live, Suits, InRelease
  <2>3. Sessions'
    <3>1. m.what # "configured"
      BY <1>3
    <3>2. QED
      BY <1>2, <1>3, <1>4, <2>1, <2>2, <3>1, SessionsAdded DEF LInv, TypeOK, InTurn
  <2>4. Streamed'
    <3>1. ASSUME NEW u \in Threads, step[u] = "stream"
          PROVE  Fits(about[u])' /\ looper'[about'[u].device] = u
      BY <1>1, <1>2, <2>1, <3>1 DEF InTurn, Streamed, Fits, LInv, TypeOK, StepType, InUse,
         Session
    <3>2. QED
      BY <1>1, <3>1 DEF Streamed
  <2>5. QED
    BY <2>3, <2>4 DEF InTurn
<1>12. QED
  BY <1>6, <1>7, <1>8, <1>10, <1>11 DEF LInv

-----------------------------------------------------------------------------
(* A thread starts or ends a callback that leaves the fields release looks *)
(* at as they are.                                                         *)
LEMMA OneCameraKept ==
  ASSUME TypeOK, OneCamera, NEW t \in Threads,
         UNCHANGED <<cameraInstance, imageReader, device, looper, openReaders, wanted, late>>,
         lost \subseteq lost',
         \A u \in Threads : u # t => step'[u] = step[u] /\ about'[u] = about[u],
         step[t] \in {"idle"} \cup InUse, step'[t] \in {"idle", "stream", "image"},
         step'[t] # "idle" => ~InRelease,
         step'[t] = "image" => about'[t].reader \in openReaders,
         Known', Streams'
  PROVE  OneCamera'
<1>1. \A w \in Releasing \cup {"setUp"} : step'[UI] = w <=> step[UI] = w
  <2>1. CASE t = UI
    BY <2>1 DEF Releasing, InUse
  <2>2. CASE t # UI
    BY <2>2
  <2>3. QED
    BY <2>1, <2>2
<1>2. InRelease' = InRelease
  BY <1>1 DEF InRelease, Releasing
<1>3. Single'
  BY DEF OneCamera, Single, Live
<1>4. Apart'
  <2>1. ASSUME InRelease, InCallback(GL)' PROVE FALSE
    <3>1. CASE t = GL
      <4>1. step'[GL] = "idle"
        BY <2>1, <3>1
      <4>2. QED
        BY <2>1, <4>1 DEF InCallback
    <3>2. CASE t # GL
      BY <2>1, <3>2 DEF OneCamera, Apart, InCallback
    <3>3. QED
      BY <3>1, <3>2
  <2>2. QED
    BY <1>2, <2>1 DEF Apart
<1>5. Emptied' /\ Held' /\ Paused'
  BY <1>1, <1>2 DEF OneCamera, Emptied, Held, Paused, Releasing
<1>6. Working'
  <2>1. SUFFICES ASSUME NEW u \in Threads
                 PROVE  /\ step'[u] \in {"size", "create"} =>
                             /\ cameraInstance # Null /\ looper[cameraInstance] = u
                             /\ about'[u].device = cameraInstance
                             /\ about'[u].reader = cameraInstance
                        /\ step'[u] = "create" =>
                             imageReader = cameraInstance /\ imageReader \in openReaders
                        /\ step'[u] = "image" => about'[u].reader \in openReaders
    BY DEF Working
  <2>2. CASE u = t
    BY <2>2
  <2>3. CASE u # t
    BY <2>3 DEF OneCamera, Working
  <2>4. QED
    BY <2>2, <2>3
<1>7. Readers'
  <2>1. (\E u \in Threads : step'[u] = "size") => \E u \in Threads : step[u] = "size"
    OBVIOUS
  <2>2. lost' = {} => lost = {}
    OBVIOUS
  <2>3. QED
    BY <1>2, <2>1, <2>2 DEF OneCamera, Readers
<1>8. QED
  BY <1>3, <1>4, <1>5, <1>6, <1>7 DEF OneCamera

(* An image is taken, or copied.                                           *)
LEMMA ImageStep ==
  ASSUME LInv, fault = NoFault,
         (\E t \in Threads : CopyImage(t)) \/ (\E s \in streaming : OnImageAvailable(s))
  PROVE  LInv'
<1> USE DEF serviceVars, countVars
<1>1. /\ UNCHANGED <<sized, cameraInstance, imageReader, captureSession, serviceVars, inbox,
                     switching, countVars, doubled, late, mixed, fault>>
      /\ met => met'
  <2> DEFINE X == /\ UNCHANGED <<sized, cameraInstance, imageReader, captureSession,
                                 serviceVars, inbox, switching, countVars, doubled, late,
                                 mixed, fault>>
                  /\ met => met'
  <2>1. ASSUME NEW t \in Threads, CopyImage(t) PROVE X
    BY <2>1 DEF CopyImage, historyVars
  <2>2. ASSUME NEW s \in streaming, OnImageAvailable(s) PROVE X
    BY <2>2 DEF OnImageAvailable, Enter, fieldVars
  <2>3. QED
    BY <2>1, <2>2
<1>2. PICK t \in Threads :
        /\ step[t] \in {"idle", "image"} /\ step'[t] \in {"idle", "image"}
        /\ step' = [step EXCEPT ![t] = step'[t]]
        /\ about' = [about EXCEPT ![t] = about'[t]] /\ about'[t] \in Session \cup {NoSession}
        /\ \A u \in Threads : u # t => step'[u] = step[u] /\ about'[u] = about[u]
        /\ step'[t] = "image" => about'[t] \in Session /\ about'[t].reader \in openReaders
        /\ step'[t] = "image" => met' = (met \/ InRelease)
        /\ step'[t] = "idle" => met' = met
        /\ mImageData' \in Devices \cup {Null}
  <2>1. StepType /\ FieldType /\ ServiceType
    BY DEF LInv, TypeOK
  <2>2. CASE \E t \in Threads : CopyImage(t)
    <3>1. PICK t \in Threads : CopyImage(t)
      BY <2>2
    <3>2. /\ step[t] = "image" /\ step' = [step EXCEPT ![t] = "idle"]
          /\ about' = [about EXCEPT ![t] = NoSession]
          /\ mImageData' \in {mImageData, about[t].reader} /\ met' = met
      BY <3>1 DEF CopyImage, Leave, Go, historyVars
    <3>3. step'[t] = "idle" /\ about'[t] = NoSession
          /\ \A u \in Threads : u # t => step'[u] = step[u] /\ about'[u] = about[u]
      BY <2>1, <3>2 DEF StepType
    <3>4. mImageData' \in Devices \cup {Null}
      BY <2>1, <3>2 DEF StepType, FieldType, InUse, Session
    <3>5. QED
      BY <3>2, <3>3, <3>4
  <2>3. CASE \E s \in streaming : OnImageAvailable(s)
    <3>1. PICK s \in streaming : OnImageAvailable(s)
      BY <2>3
    <3> DEFINE t == looper[s.reader]
    <3>2. s \in Session /\ t \in Threads
      BY <2>1, <3>1 DEF ServiceType, Session
    <3>3. /\ step[t] = "idle" /\ step' = [step EXCEPT ![t] = "image"]
          /\ about' = [about EXCEPT ![t] = s] /\ s.reader \in openReaders
          /\ met' = (met \/ InRelease) /\ mImageData' = mImageData
      BY <3>1 DEF OnImageAvailable, Enter, Go, fieldVars
    <3> HIDE DEF t
    <3>4. step'[t] = "image" /\ about'[t] = s
          /\ \A u \in Threads : u # t => step'[u] = step[u] /\ about'[u] = about[u]
      BY <2>1, <3>2, <3>3 DEF StepType
    <3>5. mImageData' \in Devices \cup {Null}
      BY <2>1, <3>3 DEF FieldType
    <3>6. QED
      BY <3>2, <3>3, <3>4, <3>5
  <2>4. QED
    BY <2>2, <2>3
<1>3. \A w \in Releasing \cup {"setUp"} : step'[UI] = w <=> step[UI] = w
  BY <1>2 DEF Releasing
<1>4. TypeOK'
  <2>1. FieldType' /\ ServiceType' /\ QueueType' /\ CountType'
    BY <1>1, <1>2 DEF LInv, TypeOK, FieldType, ServiceType, QueueType, CountType
  <2>2. StepType'
    BY <1>2 DEF LInv, TypeOK, StepType, InUse
  <2>3. met' \in BOOLEAN
    BY <1>2 DEF LInv, TypeOK, HistoryType, InRelease
  <2>4. HistoryType' /\ Requested' /\ Switching'
    BY <1>1, <1>3, <2>3 DEF LInv, TypeOK, HistoryType, Requested, Switching
  <2>5. QED
    BY <2>1, <2>2, <2>4 DEF TypeOK
<1>5. Posted'
  BY <1>1, PostedKept DEF LInv, Forward
<1>6. Came' /\ FaultNeedsCrossing'
  BY <1>1 DEF LInv, Came, FaultNeedsCrossing
<1>7. ASSUME ~doubled', ~met' PROVE OneCamera'
  <2>1. OneCamera /\ (step'[t] # "idle" => ~InRelease)
    BY <1>1, <1>2, <1>7 DEF LInv
  <2>2. Known' /\ Streams'
    BY <1>1, <2>1 DEF OneCamera, Known, Coming, Streams
  <2>3. step[t] \in {"idle"} \cup InUse /\ step'[t] \in {"idle", "stream", "image"}
    BY <1>2 DEF InUse
  <2>4. TypeOK /\ lost \subseteq lost'
    BY <1>1 DEF LInv
  <2>5. QED
    BY <1>1, <1>2, <2>1, <2>2, <2>3, <2>4, OneCameraKept
<1>8. ASSUME ~doubled', ~met', ~mixed' PROVE InTurn'
  <2>1. InTurn
    BY <1>1, <1>8 DEF LInv
  <2>2. Steady
    <3>1. InRelease' = InRelease
      BY <1>3 DEF InRelease, Releasing
    <3>2. QED
      BY <1>1, <1>2, <3>1 DEF Steady, Live, Suits, Fits
  <2>3. Sessions'
    BY <1>1, <2>1, <2>2, SessionsKept DEF LInv, TypeOK, InTurn
  <2>4. Streamed'
    BY <1>1, <1>2, <2>1 DEF InTurn, Streamed, Fits
  <2>5. QED
    BY <2>3, <2>4 DEF InTurn
<1>9. QED
  BY <1>4, <1>5, <1>6, <1>7, <1>8 DEF LInv

-----------------------------------------------------------------------------
(* A camera is taken away.                                                 *)
LEMMA DisconnectedStep ==
  ASSUME LInv, fault = NoFault, NEW t \in Threads, NEW n \in Devices, OnDisconnected(t, n)
  PROVE  LInv'
<1>1. Taken(t) /\ inbox[t][1] = Message("disconnected", Own(n)) /\ step[t] = "idle"
  <2>1. QueueType /\ Handle(t, "disconnected", Own(n))
    BY DEF LInv, TypeOK, OnDisconnected
  <2>2. QED
    BY <2>1, Handled
<1>2. Is(t, 1, "disconnected", n) /\ 1 \in 1..Len(inbox[t])
  BY <1>1 DEF Is, Message, Own, Taken
<1>3. looper[n] = t /\ n \in lost
  BY <1>2 DEF LInv, Posted
<1>4. /\ device[n] = "open" /\ device' = [device EXCEPT ![n] = "closed"]
      /\ streaming' = {s \in streaming : s.device # n}
      /\ cameraInstance' = Null /\ met' = (met \/ InRelease)
      /\ UNCHANGED <<sized, imageReader, captureSession, mImageData, looper, openReaders,
                     lost, step, about, switching, countVars, doubled, late, mixed, fault>>
  BY DEF OnDisconnected
<1>5. /\ device' \in [Devices -> {"none", "opening", "open", "closed"}]
      /\ device'[n] = "closed" /\ \A m \in Devices : m # n => device'[m] = device[m]
  BY <1>4 DEF LInv, TypeOK, ServiceType
<1>6. TypeOK'
  <2>1. FieldType' /\ ServiceType' /\ CountType'
    BY <1>4, <1>5 DEF LInv, TypeOK, FieldType, ServiceType, CountType, countVars
  <2>2. QueueType'
    BY <1>1 DEF QueueType, Taken
  <2>3. HistoryType'
    BY <1>4 DEF LInv, TypeOK, HistoryType, InRelease
  <2>4. StepType' /\ Requested' /\ Switching'
    BY <1>4, <1>5 DEF LInv, TypeOK, StepType, Requested, Switching, countVars
  <2>5. QED
    BY <2>1, <2>2, <2>3, <2>4 DEF TypeOK
<1>7. Posted'
  <2>1. Posted /\ Forward /\ \A m \in Devices : cameraInstance' # m
    BY <1>4, <1>5 DEF LInv, Forward
  <2>2. QED
    BY <1>1, <2>1, PostedTaken
<1>8. Came' /\ FaultNeedsCrossing'
  BY <1>4 DEF LInv, Came, FaultNeedsCrossing
<1>9. ASSUME ~doubled', ~met' PROVE OneCamera'
  <2>1. OneCamera /\ ~InRelease
    BY <1>4, <1>9 DEF LInv
  <2>2. /\ \A m \in Devices : m \notin Live'
        /\ \A m \in Devices : device'[m] # "open"
    BY <1>4, <1>5, <2>1 DEF OneCamera, Single, Live
  <2>3. Single' /\ Apart' /\ Emptied' /\ Held'
    BY <1>4, <2>1, <2>2 DEF Single, Apart, Emptied, Held, InRelease, Live
  <2>4. Working'
    <3>1. ASSUME NEW u \in Threads, step[u] \in {"size", "create"} PROVE FALSE
      <4>1. cameraInstance # Null /\ looper[cameraInstance] = u /\ cameraInstance \in Devices
        BY <2>1, <3>1 DEF OneCamera, Working, LInv, TypeOK, FieldType
      <4>2. device[cameraInstance] = "open"
        BY <2>1, <4>1 DEF OneCamera, Held, InRelease
      <4>3. cameraInstance = n
        BY <1>4, <2>1, <4>1, <4>2 DEF OneCamera, Single, Live
      <4>4. QED
        BY <1>1, <1>3, <3>1, <4>1, <4>3
    <3>2. QED
      BY <1>4, <2>1, <3>1 DEF OneCamera, Working
  <2>5. Known'
    BY <2>2 DEF Known
  <2>6. Streams'
    <3>1. ASSUME NEW s \in streaming PROVE s.device = n
      BY <1>4, <2>1, <3>1 DEF OneCamera, Streams, Single, Live, LInv, TypeOK, ServiceType,
         Session
    <3>2. QED
      BY <1>4, <3>1 DEF Streams
  <2>7. Readers'
    BY <1>3, <1>4 DEF Readers
  <2>8. Paused'
    BY <1>4, <2>1 DEF OneCamera, Paused, InRelease, countVars
  <2>9. QED
    BY <2>3, <2>4, <2>5, <2>6, <2>7, <2>8 DEF OneCamera
<1>10. ASSUME ~doubled', ~met', ~mixed' PROVE InTurn'
  <2>1. InTurn /\ Single
    BY <1>4, <1>10 DEF LInv, OneCamera
  <2>2. Steady
    <3>1. \A m \in Live' : m \in Live
      BY <1>5 DEF Live
    <3>2. QED
      BY <1>4, <3>1 DEF Steady, Suits
  <2>3. Sessions'
    BY <1>1, <2>1, <2>2, SessionsTaken DEF LInv, TypeOK, InTurn
  <2>4. Streamed'
    <3>1. ASSUME NEW u \in Threads, step[u] = "stream" PROVE FALSE
      <4>1. Fits(about[u]) /\ looper[about[u].device] = u /\ about[u] \in Session
        BY <2>1, <3>1 DEF InTurn, Streamed, LInv, TypeOK, StepType, InUse
      <4>2. about[u].device = n
        BY <1>4, <2>1, <4>1 DEF Fits, Single, Live, Session
      <4>3. QED
        BY <1>1, <1>3, <3>1, <4>1, <4>2
    <3>2. QED
      BY <1>4, <3>1 DEF Streamed
  <2>5. QED
    BY <2>3, <2>4 DEF InTurn
<1>11. QED
  BY <1>6, <1>7, <1>8, <1>9, <1>10 DEF LInv

-----------------------------------------------------------------------------
(* A session comes.                                                        *)
LEMMA ConfiguredStep ==
  ASSUME LInv, fault = NoFault, NEW t \in Threads, NEW s \in Session, OnConfigured(t, s)
  PROVE  LInv'
<1> USE DEF serviceVars, countVars
<1>1. Taken(t) /\ inbox[t][1] = Message("configured", s) /\ step[t] = "idle"
  <2>1. QueueType /\ Handle(t, "configured", s)
    BY DEF LInv, TypeOK, OnConfigured
  <2>2. QED
    BY <2>1, Handled
<1>2. /\ inbox[t][1].what = "configured" /\ 1 \in 1..Len(inbox[t]) /\ Queued(t, 1) = s
  BY <1>1 DEF Message, Taken, Queued, Session
<1>3. /\ cameraInstance # Null /\ captureSession' = s
      /\ step' = [step EXCEPT ![t] = "stream"] /\ about' = [about EXCEPT ![t] = s]
      /\ met' = (met \/ InRelease)
      /\ UNCHANGED <<sized, cameraInstance, imageReader, mImageData, serviceVars, switching,
                     countVars, doubled, late, mixed, fault>>
  BY DEF OnConfigured, Enter, Go
<1>4. /\ step'[t] = "stream" /\ about'[t] = s
      /\ \A u \in Threads : u # t => step'[u] = step[u] /\ about'[u] = about[u]
  BY <1>3 DEF LInv, TypeOK, StepType
<1>5. \A w \in Releasing \cup {"setUp"} : step'[UI] = w <=> step[UI] = w
  BY <1>1, <1>4 DEF Releasing
<1>6. TypeOK'
  <2>1. FieldType' /\ ServiceType' /\ CountType'
    BY <1>3 DEF LInv, TypeOK, FieldType, ServiceType, CountType
  <2>2. QueueType'
    BY <1>1 DEF QueueType, Taken
  <2>3. StepType'
    BY <1>3, <1>4 DEF LInv, TypeOK, StepType, InUse
  <2>4. HistoryType'
    BY <1>3 DEF LInv, TypeOK, HistoryType, InRelease
  <2>5. Requested' /\ Switching'
    BY <1>3, <1>5 DEF LInv, TypeOK, Requested, Switching
  <2>6. QED
    BY <2>1, <2>2, <2>3, <2>4, <2>5 DEF TypeOK
<1>7. Posted'
  <2>1. Posted /\ Forward /\ cameraInstance' = cameraInstance
    BY <1>3 DEF LInv, Forward
  <2>2. QED
    BY <1>1, <2>1, PostedTaken
<1>8. Came' /\ FaultNeedsCrossing'
  BY <1>3 DEF LInv, Came, FaultNeedsCrossing
<1>9. ASSUME ~doubled', ~met' PROVE OneCamera'
  <2>1. OneCamera /\ ~InRelease
    BY <1>3, <1>9 DEF LInv
  <2>2. Known' /\ Streams'
    <3>1. ASSUME NEW n \in Devices, Coming(n) PROVE Coming(n)'
      <4>1. ~Is(t, 1, "opened", n) /\ ~Is(t, 1, "disconnected", n) /\ QueueType
        BY <1>2 DEF Is, LInv, TypeOK
      <4>2. QED
        BY <1>1, <3>1, <4>1, StillComing
    <3>2. QED
      BY <1>3, <2>1, <3>1 DEF OneCamera, Known, Streams
  <2>3. /\ step[t] \in {"idle"} \cup InUse /\ step'[t] \in {"idle", "stream", "image"}
        /\ step'[t] # "image" /\ TypeOK /\ lost \subseteq lost'
    BY <1>1, <1>3, <1>4 DEF InUse, LInv
  <2>4. QED
    BY <1>3, <1>4, <2>1, <2>2, <2>3, OneCameraKept
<1>10. ASSUME ~doubled', ~met', ~mixed' PROVE InTurn'
  <2>1. InTurn /\ ~InRelease /\ Held
    BY <1>3, <1>10 DEF LInv, OneCamera
  <2>2. Steady
    <3>1. InRelease' = InRelease
      BY <1>5 DEF InRelease, Releasing
    <3>2. QED
      BY <1>3, <1>4, <3>1 DEF Steady, Live, Suits, Fits
  <2>3. Sessions'
    BY <1>1, <2>1, <2>2, SessionsTaken DEF LInv, TypeOK, InTurn
  <2>4. Fits(s) /\ looper[s.device] = t
    <3>1. Suits(s) /\ \A m \in Live : looper[m] = t
      BY <1>2, <2>1 DEF InTurn, Sessions
    <3>2. Fits(s)
      BY <1>3, <2>1, <3>1 DEF Suits
    <3>3. s.device \in Live
      BY <3>2 DEF Fits, Live, Session
    <3>4. QED
      BY <3>1, <3>2, <3>3
  <2>5. Streamed'
    BY <1>3, <1>4, <2>1, <2>4 DEF InTurn, Streamed, Fits
  <2>6. QED
    BY <2>3, <2>5 DEF InTurn
<1>11. QED
  BY <1>6, <1>7, <1>8, <1>9, <1>10 DEF LInv

(* The stream is started.                                                  *)
LEMMA RequestStep ==
  ASSUME LInv, fault = NoFault, NEW t \in Threads, SetRepeatingRequest(t)
  PROVE  LInv'
<1> USE DEF fieldVars, countVars, historyVars
<1>1. /\ step[t] = "stream" /\ Fits(about[t])
      /\ step' = [step EXCEPT ![t] = "idle"] /\ about' = [about EXCEPT ![t] = NoSession]
      /\ streaming' \subseteq streaming \cup {about[t]}
      /\ UNCHANGED <<fieldVars, device, looper, openReaders, lost, inbox, switching,
                     countVars, historyVars, fault>>
  BY DEF SetRepeatingRequest, Leave, Go
<1>2. /\ step'[t] = "idle" /\ about[t] \in Session
      /\ \A u \in Threads : u # t => step'[u] = step[u] /\ about'[u] = about[u]
  BY <1>1 DEF LInv, TypeOK, StepType, InUse
<1>3. \A w \in Releasing \cup {"setUp"} : step'[UI] = w <=> step[UI] = w
  BY <1>1, <1>2 DEF Releasing
<1>4. TypeOK'
  <2>1. FieldType' /\ ServiceType' /\ QueueType' /\ CountType' /\ HistoryType'
    BY <1>1, <1>2 DEF LInv, TypeOK, FieldType, ServiceType, QueueType, CountType, HistoryType
  <2>2. StepType'
    BY <1>1 DEF LInv, TypeOK, StepType, InUse
  <2>3. Requested' /\ Switching'
    BY <1>1, <1>3 DEF LInv, TypeOK, Requested, Switching
  <2>4. QED
    BY <2>1, <2>2, <2>3 DEF TypeOK
<1>5. Posted'
  BY <1>1, PostedKept DEF LInv, Forward
<1>6. Came' /\ FaultNeedsCrossing'
  BY <1>1 DEF LInv, Came, FaultNeedsCrossing
<1>7. ASSUME ~doubled', ~met' PROVE OneCamera'
  <2>1. OneCamera
    BY <1>1, <1>7 DEF LInv
  <2>2. Known' /\ Streams'
    <3>1. about[t].device = cameraInstance /\ device[about[t].device] = "open"
      BY <1>1 DEF Fits
    <3>2. QED
      BY <1>1, <2>1, <3>1 DEF OneCamera, Known, Coming, Streams
  <2>3. /\ step[t] \in {"idle"} \cup InUse /\ step'[t] \in {"idle", "stream", "image"}
        /\ step'[t] = "idle" /\ TypeOK /\ lost \subseteq lost'
    BY <1>1, <1>2 DEF InUse, LInv
  <2>4. QED
    BY <1>1, <1>2, <2>1, <2>2, <2>3, OneCameraKept
<1>8. ASSUME ~doubled', ~met', ~mixed' PROVE InTurn'
  <2>1. InTurn
    BY <1>1, <1>8 DEF LInv
  <2>2. Steady
    <3>1. InRelease' = InRelease
      BY <1>3 DEF InRelease, Releasing
    <3>2. QED
      BY <1>1, <1>2, <3>1 DEF Steady, Live, Suits, Fits
  <2>3. Sessions'
    BY <1>1, <2>1, <2>2, SessionsKept DEF LInv, TypeOK, InTurn
  <2>4. Streamed'
    BY <1>1, <1>2, <2>1 DEF InTurn, Streamed, Fits
  <2>5. QED
    BY <2>3, <2>4 DEF InTurn
<1>9. QED
  BY <1>4, <1>5, <1>6, <1>7, <1>8 DEF LInv

-----------------------------------------------------------------------------
(* The reader is made.                                                     *)
LEMMA StartCaptureStep ==
  ASSUME LInv, fault = NoFault, NEW t \in Threads, StartCaptureSession(t)
  PROVE  LInv'
<1> USE DEF countVars, historyVars
<1>1. /\ step[t] = "size" /\ step' = [step EXCEPT ![t] = "create"]
      /\ imageReader' = about[t].reader /\ openReaders' = openReaders \cup {about[t].reader}
      /\ UNCHANGED <<sized, cameraInstance, captureSession, mImageData, device, looper,
                     streaming, lost, inbox, about, switching, countVars, historyVars, fault>>
  BY DEF StartCaptureSession, Go
<1>2. /\ step'[t] = "create" /\ about[t] \in Session /\ about[t].reader \in Devices
      /\ \A u \in Threads : u # t => step'[u] = step[u]
  BY <1>1 DEF LInv, TypeOK, StepType, InUse, Session
<1>3. \A w \in Releasing \cup {"setUp"} : step'[UI] = w <=> step[UI] = w
  BY <1>1, <1>2 DEF Releasing
<1>4. TypeOK'
  <2>1. FieldType' /\ ServiceType' /\ QueueType' /\ CountType' /\ HistoryType'
    BY <1>1, <1>2 DEF LInv, TypeOK, FieldType, ServiceType, QueueType, CountType, HistoryType
  <2>2. StepType'
    BY <1>1, <1>2 DEF LInv, TypeOK, StepType, InUse
  <2>3. Requested' /\ Switching'
    BY <1>1, <1>3 DEF LInv, TypeOK, Requested, Switching
  <2>4. QED
    BY <2>1, <2>2, <2>3 DEF TypeOK
<1>5. Posted'
  BY <1>1, PostedKept DEF LInv, Forward
<1>6. Came' /\ FaultNeedsCrossing'
  BY <1>1 DEF LInv, Came, FaultNeedsCrossing
<1>7. ASSUME OneCamera
      PROVE  /\ ~InRelease /\ ~InRelease'
             /\ cameraInstance # Null /\ looper[cameraInstance] = t
             /\ about[t].device = cameraInstance /\ about[t].reader = cameraInstance
             /\ \A u \in Threads : u # t => step[u] \notin {"size", "create"}
  <2>1. ~InRelease
    BY <1>1, <1>7 DEF OneCamera, Apart, InRelease, InCallback
  <2>2. ~InRelease'
    BY <1>3, <2>1 DEF InRelease, Releasing
  <2>3. QED
    BY <1>1, <1>7, <2>1, <2>2 DEF OneCamera, Working
<1>8. ASSUME ~doubled', ~met' PROVE OneCamera'
  <2>1. OneCamera
    BY <1>1, <1>8 DEF LInv
  <2>2. Single' /\ Apart' /\ Known' /\ Streams'
    BY <1>1, <1>7, <2>1 DEF OneCamera, Single, Live, Apart, Known, Coming, Streams
  <2>3. Emptied' /\ Held'
    BY <1>1, <1>3, <1>7, <2>1 DEF OneCamera, Emptied, Held, InRelease, Releasing
  <2>4. Working'
    BY <1>1, <1>2, <1>7, <2>1 DEF OneCamera, Working
  <2>5. Readers'
    <3>1. lost = {} => openReaders = {}
      BY <1>1, <2>1 DEF OneCamera, Readers
    <3>2. \A u \in Threads : step'[u] # "size"
      BY <1>2, <1>7, <2>1
    <3>3. QED
      BY <1>1, <1>7, <2>1, <3>1, <3>2 DEF Readers
  <2>6. Paused'
    BY <1>1, <1>3, <1>7, <2>1 DEF OneCamera, Paused
  <2>7. QED
    BY <2>2, <2>3, <2>4, <2>5, <2>6 DEF OneCamera
<1>9. ASSUME ~doubled', ~met', ~mixed' PROVE InTurn'
  <2>1. InTurn /\ OneCamera
    BY <1>1, <1>9 DEF LInv
  <2>2. \A u \in Threads : \A k \in 1..Len(inbox[u]) : inbox[u][k].what # "configured"
    BY <1>1, <2>1 DEF InTurn, Sessions
  <2>3. Sessions'
    BY <1>1, <2>2 DEF Sessions
  <2>4. ASSUME NEW u \in Threads, step'[u] = "stream" PROVE FALSE
    <3>1. step[u] = "stream"
      BY <1>2, <2>4
    <3>2. Fits(about[u]) /\ looper[about[u].device] = u
      BY <2>1, <3>1 DEF InTurn, Streamed
    <3>3. u = t
      BY <1>7, <2>1, <3>2 DEF Fits
    <3>4. QED
      BY <1>1, <3>1, <3>3
  <2>5. QED
    BY <2>3, <2>4 DEF InTurn, Streamed
<1>10. QED
  BY <1>4, <1>5, <1>6, <1>8, <1>9 DEF LInv

(* The session is asked for.                                               *)
LEMMA CreateStep ==
  ASSUME LInv, fault = NoFault, NEW t \in Threads, CreateCaptureSession(t)
  PROVE  LInv'
<1> USE DEF fieldVars, countVars, historyVars
<1> PICK s : s = [device |-> cameraInstance, reader |-> imageReader]
  OBVIOUS
<1> DEFINE m == Message("configured", s)
<1>1. /\ step[t] = "create" /\ cameraInstance # Null /\ imageReader # Null
      /\ device[cameraInstance] = "open"
      /\ step' = [step EXCEPT ![t] = "idle"] /\ about' = [about EXCEPT ![t] = NoSession]
      /\ \/ imageReader \in openReaders /\ Post(t, "configured", s)
            /\ lost' = lost
         \/ lost' = lost \cup {cameraInstance} /\ inbox' = inbox
      /\ UNCHANGED <<fieldVars, device, looper, openReaders, streaming, switching, countVars,
                     historyVars, fault>>
  BY DEF CreateCaptureSession, Leave, Go
<1>2. /\ step'[t] = "idle"
      /\ \A u \in Threads : u # t => step'[u] = step[u] /\ about'[u] = about[u]
      /\ cameraInstance \in Devices /\ imageReader \in Devices
  BY <1>1 DEF LInv, TypeOK, StepType, FieldType
<1>3. \A w \in Releasing \cup {"setUp"} : step'[UI] = w <=> step[UI] = w
  BY <1>1, <1>2 DEF Releasing
<1>4. /\ s \in Session /\ m \in Callbacks /\ m.what = "configured"
      /\ m.device = cameraInstance /\ m.reader = imageReader
      /\ s.device = cameraInstance /\ s.reader = imageReader
  BY <1>2 DEF Session, Message, Callbacks
<1>5. \/ imageReader \in openReaders /\ Added(t, m) /\ lost' = lost
      \/ inbox' = inbox
  <2>1. ASSUME Post(t, "configured", s) PROVE Added(t, m)
    BY <1>4, <2>1, PostedTo DEF LInv, TypeOK
  <2>2. QED
    BY <1>1, <2>1
<1> HIDE DEF m
<1>6. lost \subseteq lost' /\ lost' \subseteq Devices
  BY <1>1, <1>2 DEF LInv, TypeOK, ServiceType
<1>7. TypeOK'
  <2>1. FieldType' /\ ServiceType' /\ CountType' /\ HistoryType'
    BY <1>1, <1>6 DEF LInv, TypeOK, FieldType, ServiceType, CountType, HistoryType
  <2>2. QueueType'
    BY <1>5 DEF LInv, TypeOK, QueueType, Added
  <2>3. StepType'
    BY <1>1, <1>2 DEF LInv, TypeOK, StepType, InUse
  <2>4. Requested' /\ Switching'
    BY <1>1, <1>3 DEF LInv, TypeOK, Requested, Switching
  <2>5. QED
    BY <2>1, <2>2, <2>3, <2>4 DEF TypeOK
<1>8. Posted'
  <2>1. Posted /\ Forward /\ cameraInstance' = cameraInstance
    BY <1>1, <1>6 DEF LInv, Forward
  <2>2. CASE Added(t, m)
    BY <1>4, <2>1, <2>2, PostedAdded
  <2>3. CASE inbox' = inbox
    BY <2>1, <2>3, PostedKept
  <2>4. QED
    BY <1>5, <2>2, <2>3
<1>9. Came' /\ FaultNeedsCrossing'
  BY <1>1 DEF LInv, Came, FaultNeedsCrossing
<1>10. ASSUME ~doubled', ~met' PROVE OneCamera'
  <2>1. OneCamera
    BY <1>1, <1>10 DEF LInv
  <2>2. ASSUME NEW n \in Devices, Coming(n) PROVE Coming(n)'
    <3>1. CASE Added(t, m)
      BY <2>2, <3>1, AlsoComing DEF LInv, TypeOK
    <3>2. CASE inbox' = inbox
      BY <2>2, <3>2 DEF Coming
    <3>3. QED
      BY <1>5, <3>1, <3>2
  <2>3. Known' /\ Streams'
    BY <1>1, <2>1, <2>2 DEF OneCamera, Known, Streams
  <2>4. /\ step[t] \in {"idle"} \cup InUse /\ step'[t] \in {"idle", "stream", "image"}
        /\ step'[t] = "idle" /\ TypeOK
    BY <1>1, <1>2 DEF InUse, LInv
  <2>5. QED
    BY <1>1, <1>2, <1>6, <2>1, <2>3, <2>4, OneCameraKept
<1>11. ASSUME ~doubled', ~met', ~mixed' PROVE InTurn'
  <2>1. InTurn /\ OneCamera
    BY <1>1, <1>11 DEF LInv
  <2>2. Steady
    <3>1. InRelease' = InRelease
      BY <1>3 DEF InRelease, Releasing
    <3>2. QED
      BY <1>1, <1>2, <3>1 DEF Steady, Live, Suits, Fits
  <2>3. Sessions'
    <3>1. CASE Added(t, m)
      <4>1. CASE imageReader \in openReaders
        <5>1. Suits([device |-> m.device, reader |-> m.reader])'
          <6>1. s = [device |-> m.device, reader |-> m.reader]
            BY <1>4 DEF Session
          <6>2. Fits(s)'
            BY <1>1, <1>4, <4>1 DEF Fits
          <6>3. QED
            BY <6>1, <6>2 DEF Suits
        <5>2. \A n \in Live' : n = cameraInstance
          BY <1>1, <1>2, <2>1 DEF OneCamera, Single, Live
        <5>3. looper'[cameraInstance] = t
          BY <1>1, <2>1 DEF OneCamera, Working
        <5>4. \A v \in Threads : step'[v] \notin {"size", "create"}
          BY <1>1, <1>2, <2>1, <5>3 DEF OneCamera, Working
        <5>5. \A j \in 1..Len(inbox[t]), n \in Devices :
                Is(t, j, "opened", n) => device'[n] # "open"
          BY <1>1, <5>2 DEF LInv, Posted, Live
        <5>6. QueueType /\ ServiceType /\ Posted /\ Sessions
          BY <2>1 DEF LInv, TypeOK, InTurn
        <5>7. QED
          <6>1. \A n \in Live' : looper'[n] = t
            BY <5>2, <5>3
          <6>2. QED
            BY <1>4, <2>2, <3>1, <5>1, <5>4, <5>5, <5>6, <6>1, SessionsAdded
      <4>2. QED
        BY <1>1, <2>1, <4>1 DEF OneCamera, Working
    <3>2. CASE inbox' = inbox
      BY <2>1, <2>2, <3>2, SessionsKept DEF LInv, TypeOK, InTurn
    <3>3. QED
      BY <1>5, <3>1, <3>2
  <2>4. Streamed'
    BY <1>1, <1>2, <2>1 DEF InTurn, Streamed, Fits
  <2>5. QED
    BY <2>3, <2>4 DEF InTurn
<1>12. QED
  BY <1>7, <1>8, <1>9, <1>10, <1>11 DEF LInv

-----------------------------------------------------------------------------
(* The invariant and the theorems.                                         *)
LEMMA InitInv == Init => LInv
<1> SUFFICES ASSUME Init PROVE LInv
  OBVIOUS
<1>1. /\ \A t \in Threads : inbox[t] = <<>> /\ step[t] = "idle" /\ about[t] = NoSession
      /\ \A n \in Devices : device[n] = "none" /\ looper[n] = UI
  BY DEF Init
<1>2. TypeOK
  <2>1. FieldType
    BY DEF Init, FieldType
  <2>2. ServiceType
    BY DEF Init, ServiceType
  <2>3. CountType /\ HistoryType
    <3>1. /\ opens = 0 /\ calls = 0 /\ wanted = FALSE
          /\ doubled = FALSE /\ late = FALSE /\ met = FALSE /\ mixed = FALSE
          /\ fault = NoFault
      BY DEF Init
    <3>2. 0 \in 0..MaxOpens /\ 0 \in 0..MaxCalls
      OBVIOUS
    <3>3. CountType
      BY <3>1, <3>2 DEF CountType
    <3>4. HistoryType
      BY <3>1 DEF HistoryType
    <3>5. QED
      BY <3>3, <3>4
  <2>4. QueueType
    <3>1. <<>> \in Seq(Callbacks)
      OBVIOUS
    <3>2. QED
      BY <3>1 DEF Init, QueueType
  <2>5. StepType
    BY <1>1 DEF Init, StepType, InUse
  <2>6. Requested
    <3>1. opens = 0 /\ \A n \in Devices : n > 0
      BY DEF Init
    <3>2. QED
      BY <1>1, <3>1 DEF Requested
  <2>7. Switching
    BY <1>1 DEF Init, Switching
  <2>8. QED
    BY <2>1, <2>2, <2>3, <2>4, <2>5, <2>6, <2>7 DEF TypeOK
<1>3. Posted /\ Came /\ FaultNeedsCrossing
  BY <1>1 DEF Init, Posted, Came, FaultNeedsCrossing
<1>4. OneCamera
  <2>1. Single /\ Apart /\ Emptied /\ Held /\ Working
    BY <1>1 DEF Init, Single, Live, Apart, InRelease, Emptied, Held, Working
  <2>2. Known /\ Streams /\ Readers /\ Paused
    BY <1>1 DEF Init, Known, Streams, Readers, Paused
  <2>3. QED
    BY <2>1, <2>2 DEF OneCamera
<1>5. InTurn
  BY <1>1 DEF InTurn, Sessions, Streamed
<1>6. QED
  BY <1>2, <1>3, <1>4, <1>5 DEF LInv

LEMMA NextInv == LInv /\ [Next]_vars => LInv'
<1> SUFFICES ASSUME LInv, [Next]_vars PROVE LInv'
  OBVIOUS
<1>1. CASE UNCHANGED vars
  <2>1. /\ UNCHANGED <<fieldVars, serviceVars, threadVars, countVars, historyVars>>
        /\ fault' = fault
    BY <1>1 DEF vars
  <2>2. /\ fault' \in {NoFault, "release", "size", "session", "overflow", "image"}
        /\ FaultNeedsCrossing'
    BY <2>1 DEF LInv, TypeOK, HistoryType, FaultNeedsCrossing, historyVars
  <2>3. QED
    BY <2>1, <2>2, SameStep
<1>2. CASE Next
  <2>1. fault = NoFault
    BY <1>2 DEF Next
  <2>2. CASE Pause \/ SwitchCamera
    BY <2>1, <2>2, StartReleaseStep
  <2>3. CASE ReleaseStep
    BY <2>1, <2>3, ReleaseStepInv, ThrowStep, SetUpStep DEF ReleaseStep
  <2>4. CASE \E t \in Threads : Resume(t)
    BY <2>1, <2>4, SetUpStep
  <2>5. ASSUME NEW t \in Threads, Callback(t) PROVE LInv'
    <3>1. CASE \E n \in Devices : Dropped(t, n) \/ OnOpened(t, n) \/ OnDisconnected(t, n)
      BY <2>1, <3>1, DropStep, OpenedStep, DisconnectedStep
    <3>2. CASE \E s \in Session : OnConfigured(t, s) \/ OnConfiguredLate(t, s)
      BY <2>1, <3>2, DropStep, ConfiguredStep
    <3>3. CASE StartCaptureSession(t)
      BY <2>1, <3>3, StartCaptureStep
    <3>4. CASE CreateCaptureSession(t)
      BY <2>1, <3>4, CreateStep
    <3>5. CASE SetRepeatingRequest(t)
      BY <2>1, <3>5, RequestStep
    <3>6. CASE CopyImage(t)
      BY <2>1, <3>6, ImageStep
    <3>7. CASE NoSize(t) \/ CreateThrows(t) \/ RequestThrows(t) \/ Overflow(t) \/ ImageThrows(t)
      BY <2>1, <3>7, ThrowStep
    <3>8. QED
      BY <2>5, <3>1, <3>2, <3>3, <3>4, <3>5, <3>6, <3>7 DEF Callback, Session
  <2>6. CASE \E n \in Devices : Grant(n) \/ Lose(n)
    BY <2>1, <2>6, ServiceStep
  <2>7. CASE \E s \in streaming : OnImageAvailable(s)
    BY <2>1, <2>7, ImageStep
  <2>8. QED
    BY <1>2, <2>2, <2>3, <2>4, <2>5, <2>6, <2>7 DEF Next
<1>3. QED
  BY <1>1, <1>2

LEMMA SpecInv == Spec => []LInv
<1>1. QED
  BY InitInv, NextInv, PTL DEF Spec

(* The fields, the camera service and both threads stay in their domains,  *)
(* and a request is answered only after it was made.                       *)
THEOREM TypeCorrect == Spec => []TypeOK
<1>1. LInv => TypeOK
  BY DEF LInv
<1>2. QED
  BY <1>1, SpecInv, PTL

(* An exception in release, or in a callback that asks for a session, a    *)
(* stream or an image, takes two cameras asked for at once, a release that *)
(* met a callback of the other thread, or a request from one thread with a *)
(* callback of an earlier one still to run on the other.                   *)
THEOREM FaultsNeedCrossing == Spec => []FaultNeedsCrossing
<1>1. LInv => FaultNeedsCrossing
  BY DEF LInv
<1>2. QED
  BY <1>1, SpecInv, PTL

(* With one camera asked for at a time and a release that met no callback  *)
(* of the other thread, every open camera is in the field or announced;    *)
(* and between calls of a pause after which no camera came, nothing is     *)
(* left open.                                                              *)
THEOREM PauseCloses == Spec => []ClosedWhenPaused
<1>1. LInv => ClosedWhenPaused
  <2>1. SUFFICES ASSUME LInv, ~doubled, ~met
                 PROVE  /\ Known
                        /\ lost = {} => openReaders \subseteq {imageReader}
                        /\ ~wanted /\ ~late /\ step[UI] = "idle" =>
                             cameraInstance = Null /\ imageReader = Null /\ streaming = {}
    BY DEF ClosedWhenPaused, Known
  <2>2. OneCamera /\ ServiceType
    BY <2>1 DEF LInv, TypeOK
  <2>3. ASSUME ~wanted, ~late, step[UI] = "idle"
        PROVE  cameraInstance = Null /\ imageReader = Null /\ streaming = {}
    <3>1. cameraInstance = Null /\ imageReader = Null
      BY <2>2, <2>3 DEF OneCamera, Paused, InRelease
    <3>2. streaming = {}
      BY <2>2, <3>1 DEF OneCamera, Streams, ServiceType, Session
    <3>3. QED
      BY <3>1, <3>2
  <2>4. QED
    BY <2>2, <2>3 DEF OneCamera, Readers
<1>2. QED
  BY <1>1, SpecInv, PTL

====

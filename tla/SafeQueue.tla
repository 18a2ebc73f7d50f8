------------------------------ MODULE SafeQueue ------------------------------
(***************************************************************************)
(* safe_queue.c: a linked list with a front, a rear and a length, and no   *)
(* lock.  The encoders use one from a single thread; rtmp_core.c pushes    *)
(* from the encode threads and pops from the pushing thread.               *)
(*                                                                         *)
(* One step is one access to shared memory.  Exclusive says whether the    *)
(* callers take turns.  Nodes are addresses: malloc may return again what  *)
(* was freed.  What a read or write through a freed or null node does is   *)
(* undefined; it sets fault, and the model stops there.                    *)
(***************************************************************************)
EXTENDS Naturals, Integers, Sequences, FiniteSets

CONSTANTS Pushers,    (* threads that call push_data                          *)
          Popper,     (* the thread that calls pop_data and frees the node    *)
          Nodes,      (* addresses of QNodes                                  *)
          NULL,
          Exclusive,  (* TRUE: one call at a time                             *)
          Freeing,    (* TRUE: the popper may end with free_queue             *)
          MaxItems    (* bound: calls of push_data                            *)

ASSUME ThreadAssumption == Popper \notin Pushers
ASSUME NodeAssumption == NULL \notin Nodes /\ IsFiniteSet(Nodes)
ASSUME ModeAssumption ==
  Exclusive \in BOOLEAN /\ Freeing \in BOOLEAN /\ MaxItems \in Nat

VARIABLES
  front, rear, length,  (* the LinkedQueue                                    *)
  heap,                 (* the nodes that malloc returned and nobody freed    *)
  next, data,           (* fields of the nodes                                *)
  pc, node, count,      (* each thread's place and local values               *)
  items,                (* data handed to push_data so far                    *)
  pushed, popped,       (* history: what was pushed, what was popped          *)
  freed,                (* the LinkedQueue itself was freed                   *)
  met,                  (* history: calls met while the list was short        *)
  fault                 (* undefined behaviour                                *)

list == <<front, rear, length>>
memory == <<heap, next, data>>
local == <<pc, node, count>>
history == <<items, pushed, popped, met>>
vars == <<list, memory, local, history, freed, fault>>

Threads == Pushers \cup {Popper}
PCs == {"idle", "setFront", "testRear", "link", "setRear", "readLength",
        "writeLength", "returnPush", "testOne", "clearFront", "clearRear", "clearLength",
        "advance", "readLengthPop", "writeLengthPop", "return", "free", "done"}

(* create_queue *)
Init ==
  /\ front = NULL /\ rear = NULL /\ length = 0
  /\ heap = {}
  /\ next = [m \in Nodes |-> NULL]
  /\ data = [m \in Nodes |-> 0]
  /\ pc = [t \in Threads |-> "idle"]
  /\ node = [t \in Threads |-> NULL]
  /\ count = [t \in Threads |-> 0]
  /\ items = 0 /\ pushed = <<>> /\ popped = <<>>
  /\ freed = FALSE /\ met = FALSE /\ fault = FALSE

-----------------------------------------------------------------------------
Go(t, from, to) == pc[t] = from /\ pc' = [pc EXCEPT ![t] = to]

MayStart(t) == Exclusive => \A u \in Threads : pc[u] \in {"idle", "done"}

(* A list of at most one node is where front and rear are the same memory.  *)
Short == front = NULL \/ rear = NULL \/ front = rear
Busy(t) == \E u \in Threads \ {t} : pc[u] \notin {"idle", "done"}
Meet(t) == met' = (met \/ (Short /\ Busy(t)))

(* Access to the node n: fine when it is allocated, undefined otherwise.    *)
Valid(n) == n \in heap

Fault == /\ fault' = TRUE
         /\ UNCHANGED <<list, memory, local, history, freed>>

-----------------------------------------------------------------------------
(* push_data *)

(* malloc, the node's fields, and the test of front. *)
PushStart(t) ==
  /\ t \in Pushers /\ MayStart(t)
  /\ ~freed
  /\ items < MaxItems
  /\ \E m \in Nodes \ heap :
       /\ heap' = heap \cup {m}
       /\ data' = [data EXCEPT ![m] = items + 1]
       /\ next' = [next EXCEPT ![m] = NULL]
       /\ node' = [node EXCEPT ![t] = m]
  /\ items' = items + 1
  /\ Go(t, "idle", IF front = NULL THEN "setFront" ELSE "testRear")
  /\ Meet(t)
  /\ UNCHANGED <<list, count, pushed, popped, freed, fault>>

(* malloc fails: push_data returns -1 and the caller's data is not taken over. *)
PushNoMemory(t) ==
  /\ t \in Pushers /\ MayStart(t)
  /\ ~freed
  /\ items < MaxItems
  /\ items' = items + 1
  /\ Nodes \subseteq heap
  /\ pc[t] = "idle"
  /\ UNCHANGED <<list, memory, local, pushed, popped, met, freed, fault>>

PushSetFront(t) ==
  /\ Go(t, "setFront", "testRear")
  /\ front' = node[t]
  /\ Meet(t)
  /\ UNCHANGED <<rear, length, memory, node, count, items, pushed, popped,
                 freed, fault>>

PushTestRear(t) ==
  /\ Go(t, "testRear", IF rear = NULL THEN "setRear" ELSE "link")
  /\ Meet(t)
  /\ UNCHANGED <<list, memory, node, count, items, pushed, popped, freed,
                 fault>>

(* Faulty variant: the new node is not linked behind the rear.              *)
PushLink_Missing(t) ==
  /\ Go(t, "link", "setRear")
  /\ Meet(t)
  /\ UNCHANGED <<list, memory, node, count, items, pushed, popped, freed,
                 fault>>

PushLink(t) ==
  /\ pc[t] = "link"
  /\ IF Valid(rear)
     THEN /\ Go(t, "link", "setRear")
          /\ next' = [next EXCEPT ![rear] = node[t]]
          /\ Meet(t)
          /\ UNCHANGED <<list, heap, data, node, count, items, pushed, popped,
                         freed, fault>>
     ELSE Fault

PushSetRear(t) ==
  /\ Go(t, "setRear", "readLength")
  /\ rear' = node[t]
  /\ Meet(t)
  /\ UNCHANGED <<front, length, memory, node, count, items, pushed, popped,
                 freed, fault>>

(* queue->length++ is a load and a store. *)
PushReadLength(t) ==
  /\ Go(t, "readLength", "writeLength")
  /\ count' = [count EXCEPT ![t] = length]
  /\ Meet(t)
  /\ UNCHANGED <<list, memory, node, items, pushed, popped, freed, fault>>

PushWriteLength(t) ==
  /\ Go(t, "writeLength", "returnPush")
  /\ length' = count[t] + 1
  /\ Meet(t)
  /\ UNCHANGED <<front, rear, memory, node, count, items, pushed, popped,
                 freed, fault>>

PushReturn(t) ==
  /\ Go(t, "returnPush", "idle")
  /\ pushed' = Append(pushed, data[node[t]])
  /\ Meet(t)
  /\ UNCHANGED <<list, memory, node, count, items, popped, freed, fault>>

-----------------------------------------------------------------------------
(* pop_data, called by t; the caller frees the node it got. *)

PopStart(t) ==
  /\ t = Popper /\ MayStart(t)
  /\ ~freed
  /\ front # NULL
  /\ Go(t, "idle", "testOne")
  /\ node' = [node EXCEPT ![t] = front]
  /\ Meet(t)
  /\ UNCHANGED <<list, memory, count, items, pushed, popped, freed, fault>>

PopTestOne(t) ==
  /\ Go(t, "testOne", IF front = rear THEN "clearFront" ELSE "advance")
  /\ Meet(t)
  /\ UNCHANGED <<list, memory, node, count, items, pushed, popped, freed,
                 fault>>

PopClearFront(t) ==
  /\ Go(t, "clearFront", "clearRear")
  /\ front' = NULL
  /\ Meet(t)
  /\ UNCHANGED <<rear, length, memory, node, count, items, pushed, popped,
                 freed, fault>>

(* Faulty variants: popping the last node leaves rear, or the length.       *)
PopClearRear_Skip(t) ==
  /\ Go(t, "clearRear", "clearLength")
  /\ Meet(t)
  /\ UNCHANGED <<list, memory, node, count, items, pushed, popped, freed,
                 fault>>

PopClearLength_Kept(t) ==
  /\ Go(t, "clearLength", "return")
  /\ Meet(t)
  /\ UNCHANGED <<list, memory, node, count, items, pushed, popped, freed,
                 fault>>

PopClearRear(t) ==
  /\ Go(t, "clearRear", "clearLength")
  /\ rear' = NULL
  /\ Meet(t)
  /\ UNCHANGED <<front, length, memory, node, count, items, pushed, popped,
                 freed, fault>>

PopClearLength(t) ==
  /\ Go(t, "clearLength", "return")
  /\ length' = 0
  /\ Meet(t)
  /\ UNCHANGED <<front, rear, memory, node, count, items, pushed, popped,
                 freed, fault>>

PopAdvance(t) ==
  /\ pc[t] = "advance"
  /\ IF Valid(front)
     THEN /\ Go(t, "advance", "readLengthPop")
          /\ front' = next[front]
          /\ Meet(t)
          /\ UNCHANGED <<rear, length, memory, node, count, items, pushed,
                         popped, freed, fault>>
     ELSE Fault

PopReadLength(t) ==
  /\ Go(t, "readLengthPop", "writeLengthPop")
  /\ count' = [count EXCEPT ![t] = length]
  /\ Meet(t)
  /\ UNCHANGED <<list, memory, node, items, pushed, popped, freed, fault>>

PopWriteLength(t) ==
  /\ Go(t, "writeLengthPop", "return")
  /\ length' = count[t] - 1
  /\ Meet(t)
  /\ UNCHANGED <<front, rear, memory, node, count, items, pushed, popped,
                 freed, fault>>

(* The caller uses the data and frees the node. *)
PopReturn(t) ==
  /\ pc[t] = "return"
  /\ IF Valid(node[t])
     THEN /\ Go(t, "return", "idle")
          /\ popped' = Append(popped, data[node[t]])
          /\ heap' = heap \ {node[t]}
          /\ Meet(t)
          /\ UNCHANGED <<list, next, data, node, count, items, pushed, freed,
                         fault>>
     ELSE Fault

-----------------------------------------------------------------------------
(* free_queue, after the last call: pops and frees while length > 0.        *)

FreeStart(t) ==
  /\ t = Popper /\ Freeing /\ MayStart(t)
  /\ ~freed
  /\ Go(t, "idle", "free")
  /\ UNCHANGED <<list, memory, node, count, history, freed, fault>>

FreeNode(t) ==
  /\ pc[t] = "free"
  /\ length > 0
  /\ IF front = NULL
     THEN UNCHANGED <<front, rear, length, heap>>
     ELSE /\ heap' = heap \ {front}
          /\ IF front = rear
             THEN front' = NULL /\ rear' = NULL /\ length' = 0
             ELSE front' = next[front] /\ length' = length - 1 /\ UNCHANGED rear
  /\ UNCHANGED <<next, data, local, history, freed, fault>>

FreeDone(t) ==
  /\ Go(t, "free", "done")
  /\ length <= 0
  /\ freed' = TRUE
  /\ UNCHANGED <<list, memory, node, count, history, fault>>

-----------------------------------------------------------------------------
Push(t) == PushStart(t) \/ PushNoMemory(t) \/ PushSetFront(t) \/ PushTestRear(t)
           \/ PushLink(t) \/ PushSetRear(t) \/ PushReadLength(t)
           \/ PushWriteLength(t) \/ PushReturn(t)

Pop(t) == PopStart(t) \/ PopTestOne(t) \/ PopClearFront(t) \/ PopClearRear(t)
          \/ PopClearLength(t) \/ PopAdvance(t) \/ PopReadLength(t)
          \/ PopWriteLength(t) \/ PopReturn(t)

FreeQueue(t) == FreeStart(t) \/ FreeNode(t) \/ FreeDone(t)

Next == ~fault /\ \E t \in Threads : Push(t) \/ Pop(t) \/ FreeQueue(t)

Spec == Init /\ [][Next]_vars

(* Threads are scheduled.                                                   *)
FairSpec ==
  Spec /\ \A t \in Threads : WF_vars(~fault /\ pc[t] # "idle"
                                     /\ (Push(t) \/ Pop(t) \/ FreeQueue(t)))

-----------------------------------------------------------------------------
(* The list as a sequence: walk[k] is the node k links behind front.        *)
Steps == 0..Cardinality(Nodes)

Reached ==
  LET walk[k \in Steps] ==
        IF k = 0 THEN front
        ELSE IF walk[k - 1] = NULL THEN NULL ELSE next[walk[k - 1]]
      n == Cardinality({k \in Steps : walk[k] # NULL})
  IN  [k \in 1..n |-> walk[k - 1]]

Content == [k \in DOMAIN Reached |-> data[Reached[k]]]
AllIdle == \A t \in Threads : pc[t] \in {"idle", "done"}

(* When no call is in progress and callers take turns, the list holds what  *)
(* was pushed and not popped, in order; rear is its last node, length       *)
(* counts it, and nothing else is allocated.  No freed node is ever touched, *)
(* and free_queue gives every node back.                                    *)
ListIntact ==
  /\ ~fault
  /\ freed => heap = {}
  /\ AllIdle /\ ~freed =>
       /\ pushed = popped \o Content
       /\ rear = IF front = NULL THEN NULL ELSE Reached[Len(Reached)]
       /\ length = Len(Content)
       /\ heap = {Reached[k] : k \in DOMAIN Reached}

(* free_queue comes to an end.                                              *)
FreeEnds == \A t \in Threads : pc[t] = "free" ~> freed

(* Without taking turns, one pusher and the popper still keep the links     *)
(* intact as long as their calls never meet on a list of at most one node.  *)
(* (length is lost even then: both sides load and store it.)                *)
LongListSurvives ==
  ~met => ~fault /\ (AllIdle => pushed = popped \o Content)

(* safe_queue.h:38 promises that push_data pushes the data into the queue:  *)
(* once every call has returned, what was pushed was popped or is linked.   *)
PushedIsQueued ==
  AllIdle /\ ~fault =>
    \A i \in DOMAIN pushed :
      \/ \E k \in DOMAIN popped : popped[k] = pushed[i]
      \/ \E k \in DOMAIN Content : Content[k] = pushed[i]

=============================================================================

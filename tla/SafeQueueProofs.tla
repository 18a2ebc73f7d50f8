--------------------------- MODULE SafeQueueProofs ---------------------------
(***************************************************************************)
(* SafeQueue for every number of threads, nodes and items: the list of     *)
(* safe_queue.c is intact when its callers take turns, survives one pusher *)
(* against the popper as long as it is long, and implements FrameChannel.  *)
(***************************************************************************)
EXTENDS MCSafeQueue, FiniteSetTheorems, NaturalsInduction, WellFoundedInduction, TLAPS

-----------------------------------------------------------------------------
(* The chain of nodes that front and next describe.                        *)

(* w follows the links nx from a, m times, and stays at NULL.              *)
Walks(w, a, nx, m) ==
  w = [k \in 0..m |-> IF k = 0 THEN a
                      ELSE IF w[k - 1] = NULL THEN NULL ELSE nx[w[k - 1]]]

(* A set of numbers has a least one.                                       *)
LEMMA LeastOf ==
  ASSUME NEW S \in SUBSET Nat, S # {}
  PROVE  \E i \in S : \A j \in S : ~(j < i)
<1>1. PICK i \in S : \A j \in S : ~(<<j, i>> \in OpToRel(<, Nat))
  BY WFMin, NatLessThanWellFounded, Zenon
<1>. QED
  BY <1>1 DEF OpToRel

(* Two functions that follow the same links are one: the first place where *)
(* they differ has a place before it.                                      *)
LEMMA WalkIs ==
  ASSUME NEW walk, NEW m \in Nat, NEW a, NEW nx, NEW g,
         Walks(walk, a, nx, m), Walks(g, a, nx, m)
  PROVE  walk = g
<1>1. ASSUME NEW k \in 0..m, walk[k] # g[k] PROVE FALSE
  <2>1. PICK i \in {x \in 0..m : walk[x] # g[x]} :
          \A j \in {x \in 0..m : walk[x] # g[x]} : ~(j < i)
    <3>. DEFINE Bad == {x \in 0..m : walk[x] # g[x]}
    <3>1. Bad \in SUBSET Nat /\ Bad # {}
      BY <1>1
    <3>. HIDE DEF Bad
    <3>2. \E i \in Bad : \A j \in Bad : ~(j < i)
      BY <3>1, LeastOf
    <3>. QED
      BY <3>2 DEF Bad
  <2>2. i \in 0..m /\ walk[i] # g[i]
    OBVIOUS
  <2>3. \A j \in 0..m : j < i => walk[j] = g[j]
    BY <2>1
  <2>4. CASE i = 0
    BY <2>2, <2>4 DEF Walks
  <2>5. CASE i # 0
    <3>1. i - 1 \in 0..m /\ i - 1 < i
      BY <2>2, <2>5
    <3>2. walk[i - 1] = g[i - 1]
      BY <2>3, <3>1
    <3>3. walk[i] = IF walk[i - 1] = NULL THEN NULL ELSE nx[walk[i - 1]]
      BY <2>2, <2>5 DEF Walks
    <3>4. g[i] = IF g[i - 1] = NULL THEN NULL ELSE nx[g[i - 1]]
      BY <2>2, <2>5 DEF Walks
    <3>. QED
      BY <2>2, <3>2, <3>3, <3>4
  <2>. QED
    BY <2>4, <2>5
<1>2. walk = [k \in 0..m |-> walk[k]] /\ g = [k \in 0..m |-> g[k]]
  BY DEF Walks
<1>. QED
  BY <1>1, <1>2

(* front and next string the nodes of q together, in this order.           *)
Linked(q) ==
  /\ q \in Seq(Nodes)
  /\ \A i, j \in 1..Len(q) : q[i] = q[j] => i = j
  /\ front = IF Len(q) = 0 THEN NULL ELSE q[1]
  /\ \A i \in 1..(Len(q) - 1) : next[q[i]] = q[i + 1]
  /\ Len(q) # 0 => next[q[Len(q)]] = NULL

(* There are finitely many nodes, and NULL is none of them.                *)
LEMMA NodesFinite ==
  /\ NULL \notin Nodes /\ IsFiniteSet(Nodes)
  /\ Cardinality(Nodes) \in Nat
BY NodeAssumption, FS_CardinalityType

(* A sequence without repetition is no longer than there are nodes.        *)
LEMMA Fits ==
  ASSUME NEW q \in Seq(Nodes), \A i, j \in 1..Len(q) : q[i] = q[j] => i = j
  PROVE  Len(q) <= Cardinality(Nodes)
<1>. DEFINE n == Len(q)
<1>1. n \in Nat /\ q \in [1..n -> Nodes]
  OBVIOUS
<1>. HIDE DEF n
<1>2. q \in Injection(1..n, Nodes)
  BY <1>1 DEF Injection, IsInjective, n
<1>3. IsFiniteSet(1..n) /\ Cardinality(1..n) = n
  BY <1>1, FS_Interval
<1>4. Cardinality(1..n) <= Cardinality(Nodes)
  BY <1>2, NodesFinite, FS_Injection
<1>. QED
  BY <1>3, <1>4 DEF n

(* What the walk of SafeQueue reaches from front is the chain itself.      *)
LEMMA ReachedIs ==
  ASSUME NEW q, Linked(q)
  PROVE  Reached = q
<1>. DEFINE n == Len(q)
            m == Cardinality(Nodes)
            g == [k \in 0..m |-> IF k < n THEN q[k + 1] ELSE NULL]
            walk == CHOOSE f : f = [k \in 0..m |->
                      IF k = 0 THEN front
                      ELSE IF f[k - 1] = NULL THEN NULL ELSE next[f[k - 1]]]
<1>1. n \in Nat /\ m \in Nat /\ n <= m
  BY Fits, NodesFinite DEF Linked
<1>2. \A i \in 1..n : q[i] # NULL
  BY NodesFinite DEF Linked
<1>3. Walks(g, front, next, m)
  <2>1. ASSUME NEW k \in 0..m
        PROVE  g[k] = IF k = 0 THEN front
                      ELSE IF g[k - 1] = NULL THEN NULL ELSE next[g[k - 1]]
    <3>. HIDE DEF m
    <3>1. CASE k = 0
      BY <1>1, <3>1 DEF Linked
    <3>2. CASE k # 0 /\ k < n
      BY <1>1, <1>2, <3>2 DEF Linked
    <3>3. CASE k # 0 /\ k = n
      BY <1>1, <1>2, <3>3 DEF Linked
    <3>4. CASE k # 0 /\ k > n
      BY <1>1, <1>2, <3>4 DEF Linked
    <3>. QED
      BY <1>1, <3>1, <3>2, <3>3, <3>4
  <2>. HIDE DEF g
  <2>2. [k \in 0..m |-> g[k]] = g
    BY DEF g
  <2>. QED
    BY <2>1, <2>2 DEF Walks
<1>4. Walks(walk, front, next, m)
  BY <1>3, Zenon DEF Walks
<1>5. walk = g
  BY <1>1, <1>3, <1>4, WalkIs
<1>6. {k \in 0..m : g[k] # NULL} = 0..(n - 1)
  BY <1>1, <1>2
<1>7. Cardinality(0..(n - 1)) = n
  <2>. HIDE DEF n
  <2>. QED
    BY <1>1, FS_Interval
<1>8. Cardinality({k \in 0..m : walk[k] # NULL}) = n
  BY <1>5, <1>6, <1>7
<1>9. Reached = [k \in 1..n |-> walk[k - 1]]
  BY <1>8, Zenon DEF Reached, Steps
<1>10. \A k \in 1..n : g[k - 1] = q[k]
  BY <1>1
<1>11. Reached = [k \in 1..n |-> g[k - 1]]
  <2>. HIDE DEF walk, g, n
  <2>. QED
    BY <1>5, <1>9
<1>12. q = [k \in 1..n |-> q[k]]
  BY DEF Linked
<1>. HIDE DEF walk, g, n
<1>. QED
  BY <1>10, <1>11, <1>12

-----------------------------------------------------------------------------
(* The invariant.                                                          *)

(* The places of a thread inside push_data, and of the popper inside       *)
(* pop_data.                                                               *)
PushSteps == {"setFront", "testRear", "link", "setRear", "readLength", "writeLength",
              "returnPush"}
PopSteps == {"testOne", "clearFront", "clearRear", "clearLength", "advance",
              "readLengthPop", "writeLengthPop", "return"}

(* The types of the variables, and the routine each thread can be in.      *)
TypeOK ==
  /\ front \in Nodes \cup {NULL} /\ rear \in Nodes \cup {NULL} /\ length \in Int
  /\ heap \subseteq Nodes
  /\ next \in [Nodes -> Nodes \cup {NULL}] /\ data \in [Nodes -> 0..MaxItems]
  /\ pc \in [Threads -> PCs]
  /\ \A t \in Pushers : pc[t] \in PushSteps \cup {"idle"}
  /\ pc[Popper] \in PopSteps \cup {"idle", "free", "done"}
  /\ node \in [Threads -> Nodes \cup {NULL}] /\ count \in [Threads -> Int]
  /\ \A t \in Pushers : pc[t] # "idle" => node[t] \in Nodes
  /\ items \in 0..MaxItems
  /\ pushed \in Seq(0..MaxItems) /\ popped \in Seq(0..MaxItems)
  /\ freed \in BOOLEAN /\ met \in BOOLEAN /\ fault \in BOOLEAN

(* p is inside push_data; the popper is inside pop_data.                   *)
Pushing(p) == pc[p] \in PushSteps
Popping == pc[Popper] \in PopSteps

(* Who may be inside a call. Only p may be pushing. The popper may pop     *)
(* meanwhile unless callers take turns; free_queue runs last.              *)
Turns(p) ==
  /\ p \in Threads
  /\ \A u \in Pushers \ {p} : pc[u] = "idle"
  /\ Exclusive => ~Pushing(p) \/ pc[Popper] = "idle"
  /\ pc[Popper] \in {"free", "done"} => Exclusive /\ Freeing
  /\ freed <=> pc[Popper] = "done"

(* The allocated nodes are those of q, each once: linked, being linked at  *)
(* the end, or being unlinked at the front.                                *)
Owned(q) ==
  /\ q \in Seq(Nodes)
  /\ \A i, j \in 1..Len(q) : q[i] = q[j] => i = j
  /\ heap = {q[i] : i \in 1..Len(q)}
  /\ \A i \in 1..Len(q) : data[q[i]] # 0

(* The nodes of q are linked in order, except that the last one is not     *)
(* linked behind its predecessor before PushLink.                          *)
Links(q, p) ==
  /\ \A i \in 1..(Len(q) - 1) :
       i < Len(q) - 1 \/ pc[p] \notin {"testRear", "link"} => next[q[i]] = q[i + 1]
  /\ Len(q) # 0 => next[q[Len(q)]] = NULL

(* front and rear at every place of both calls: a push moves rear to the   *)
(* last node late, and sets front only when it found the list empty; a pop *)
(* moves front on, or clears both, early.                                  *)
Ends(q, p) ==
  /\ front = IF Len(q) = 0 \/ pc[p] = "setFront"
                \/ pc[Popper] \in {"clearRear", "clearLength"}
                \/ (pc[Popper] = "return" /\ Len(q) = 1) THEN NULL
             ELSE IF pc[Popper] \in {"readLengthPop", "writeLengthPop", "return"} THEN q[2]
             ELSE q[1]
  /\ rear = IF Len(q) = 0 \/ pc[Popper] = "clearLength"
                \/ (pc[Popper] = "return" /\ Len(q) = 1) THEN NULL
            ELSE IF pc[p] \in {"setFront", "testRear", "link", "setRear"}
                 THEN IF Len(q) = 1 THEN NULL ELSE q[Len(q) - 1]
            ELSE q[Len(q)]

(* Which node a call works on, and how long q is. A push and a pop that    *)
(* are inside together are at opposite ends of a chain with nodes between. *)
Placed(q, p) ==
  /\ Pushing(p) => Len(q) # 0 /\ node[p] = q[Len(q)]
  /\ Popping => Len(q) # 0 /\ node[Popper] = q[1]
  /\ pc[p] = "setFront" => Len(q) = 1
  /\ pc[p] = "link" => Len(q) >= 2
  /\ pc[Popper] \in {"clearFront", "clearRear", "clearLength"} => Len(q) = 1
  /\ pc[Popper] \in {"advance", "readLengthPop", "writeLengthPop"} => Len(q) >= 2
  /\ Pushing(p) /\ Popping => Len(q) >= 2
  /\ pc[p] \in {"setFront", "testRear", "link", "setRear"} /\ Popping => Len(q) >= 3
  /\ pc[Popper] = "done" => Len(q) = 0

(* With callers taking turns, length counts the nodes, up to the one being *)
(* pushed or popped.                                                       *)
Counted(q, p) ==
  /\ length = IF (Pushing(p) /\ pc[p] # "returnPush") \/ pc[Popper] = "return"
              THEN Len(q) - 1 ELSE Len(q)
  /\ pc[p] = "writeLength" => count[p] = length
  /\ pc[Popper] = "writeLengthPop" => count[Popper] = length

(* The nodes of q whose data counts as pushed.                             *)
Kept(q, p) == IF Pushing(p) THEN Len(q) - 1 ELSE Len(q)

(* What was pushed is what was popped, followed by the data of q.          *)
Carried(q, p) ==
  /\ Len(pushed) = Len(popped) + Kept(q, p)
  /\ \A i \in 1..Len(popped) : pushed[i] = popped[i]
  /\ \A i \in 1..Kept(q, p) : pushed[Len(popped) + i] = data[q[i]]

(* What holds of the memory, with q the chain and p the thread that        *)
(* pushes. length is lost without turns; free_queue drops data.            *)
Chain(q, p) ==
  /\ Turns(p) /\ Owned(q) /\ Links(q, p) /\ Ends(q, p) /\ Placed(q, p)
  /\ Exclusive => Counted(q, p)
  /\ pc[Popper] \notin {"free", "done"} => Carried(q, p)

(* The callers the two runs without a violation have: they take turns, or  *)
(* there is one pusher and nobody frees the queue.                         *)
Disciplined == Exclusive \/ (~Freeing /\ \A t, u \in Pushers : t = u)

(* The inductive invariant. met never holds when callers take turns;       *)
(* without turns, a call that met another one on a short list ends what is *)
(* known.                                                                  *)
IInv ==
  /\ TypeOK
  /\ Exclusive => ~met
  /\ ~met => ~fault /\ \E q \in Seq(Nodes), p \in Threads : Chain(q, p)

(* The elements of a sequence with one appended.                           *)
LEMMA AppendIs ==
  ASSUME NEW S, NEW s \in Seq(S), NEW e \in S, NEW r, r = Append(s, e)
  PROVE  /\ r \in Seq(S) /\ Len(r) = Len(s) + 1 /\ Len(s) \in Nat
         /\ \A i \in 1..Len(s) : r[i] = s[i]
         /\ r[Len(s) + 1] = e
OBVIOUS

(* The elements of the tail of a sequence.                                 *)
LEMMA TailIs ==
  ASSUME NEW S, NEW s \in Seq(S), Len(s) # 0, NEW r, r = Tail(s)
  PROVE  /\ r \in Seq(S) /\ Len(r) = Len(s) - 1 /\ Len(s) \in Nat
         /\ \A i \in 1..Len(r) : r[i] = s[i + 1]
OBVIOUS

(* The popper does not push, and only pushers are inside push_data.        *)
LEMMA Actors ==
  ASSUME TypeOK
  PROVE  /\ Popper \in Threads /\ Popper \notin Pushers /\ Pushers \subseteq Threads
         /\ pc[Popper] \in PopSteps \cup {"idle", "free", "done"}
         /\ \A p \in Threads : Pushing(p) => p \in Pushers
         /\ \A p \in Pushers : pc[p] \in PushSteps \cup {"idle"}
BY ThreadAssumption DEF TypeOK, Threads, Pushing, PushSteps, PopSteps

(* A push step that does not meet finds the popper outside or the list     *)
(* long.                                                                   *)
LEMMA PushCalm ==
  ASSUME TypeOK, NEW p \in Pushers, Meet(p), ~met'
  PROVE  /\ ~met
         /\ pc[Popper] \in {"idle", "done"} \/ ~Short
BY Actors DEF Meet, Busy

(* A pop step that does not meet finds nobody pushing or the list long.    *)
LEMMA PopCalm ==
  ASSUME TypeOK, NEW p \in Threads, Meet(Popper), ~met'
  PROVE  ~met /\ (~Pushing(p) \/ ~Short)
<1>1. CASE Pushing(p)
  BY <1>1, Actors DEF Meet, Busy, Pushing, PushSteps
<1>. QED
  BY <1>1 DEF Meet

(* What a pushing thread holds, and where rear is at each of its places.   *)
LEMMA PushPlace ==
  ASSUME TypeOK, NEW q, NEW n \in Nat, n = Len(q), NEW p \in Pushers, Chain(q, p), Pushing(p)
  PROVE  /\ q \in Seq(Nodes) /\ Len(q) \in Nat /\ Len(q) # 0 /\ node[p] = q[Len(q)]
         /\ rear = IF pc[p] \in {"setFront", "testRear", "link", "setRear"}
                   THEN IF Len(q) = 1 THEN NULL ELSE q[Len(q) - 1]
                   ELSE q[Len(q)]
         /\ NULL \notin Nodes /\ \A i \in 1..Len(q) : q[i] \in Nodes
         /\ rear \in Nodes \/ rear = NULL
<1>1. /\ q \in Seq(Nodes) /\ Len(q) \in Nat /\ Len(q) # 0 /\ node[p] = q[Len(q)]
      /\ NULL \notin Nodes /\ \A i \in 1..Len(q) : q[i] \in Nodes
  BY NodeAssumption DEF Chain, Owned, Placed
<1>2. Popping => Len(q) >= 2
  BY <1>1 DEF Chain, Placed
<1>5. pc[Popper] \in {"clearLength", "return"} => Popping
  BY DEF Popping, PopSteps
<1>3. pc[Popper] = "clearLength" => n = 1
  BY DEF Chain, Placed
<1>4. pc[Popper] = "return" => n # 1
  BY <1>2, <1>5
<1>6. pc[Popper] # "clearLength"
  BY <1>2, <1>3, <1>5
<1>7. rear = IF pc[p] \in {"setFront", "testRear", "link", "setRear"}
                THEN IF n = 1 THEN NULL ELSE q[n - 1]
                ELSE q[n]
  BY <1>1, <1>4, <1>6 DEF Chain, Ends
<1>. QED
  BY <1>1, <1>7 DEF TypeOK

(* What the popper holds and where the ends are before it unlinks the      *)
(* node.                                                                   *)
LEMMA PopPlace ==
  ASSUME TypeOK, NEW q, NEW n \in Nat, n = Len(q), NEW p \in Threads, Chain(q, p),
         pc[Popper] \in {"testOne", "advance"}
  PROVE  /\ q \in Seq(Nodes) /\ Len(q) \in Nat /\ Len(q) # 0 /\ node[Popper] = q[1]
         /\ front = q[1] /\ front # NULL
         /\ NULL \notin Nodes /\ \A i \in 1..Len(q) : q[i] \in Nodes
         /\ pc[p] \in {"testRear", "link", "setRear"} => Len(q) >= 3 /\ rear = q[Len(q) - 1]
         /\ pc[p] \notin {"testRear", "link", "setRear"} => rear = q[Len(q)]
<1>1. /\ q \in Seq(Nodes) /\ Len(q) \in Nat /\ Len(q) # 0 /\ node[Popper] = q[1]
      /\ NULL \notin Nodes /\ \A i \in 1..Len(q) : q[i] \in Nodes
  BY NodeAssumption DEF Chain, Owned, Placed, Popping, PopSteps
<1>2. pc[p] # "setFront"
  BY <1>1 DEF Chain, Placed, Popping, PopSteps, Pushing, PushSteps
<1>3. pc[p] \in {"testRear", "link", "setRear"} => Len(q) >= 3
  BY DEF Chain, Placed, Popping, PopSteps, Pushing, PushSteps
<1>. QED
  BY <1>1, <1>2, <1>3 DEF Chain, Ends

-----------------------------------------------------------------------------
(* Every step keeps a chain.                                               *)

(* A step that leaves the list, the calls and the history alone.           *)
LEMMA StillKeeps ==
  ASSUME NEW q, NEW p \in Threads, Chain(q, p), ~fault,
         UNCHANGED <<list, memory, local, pushed, popped, freed, fault>>
  PROVE  ~fault' /\ Chain(q, p)'
<1>1. UNCHANGED <<front, rear, length, heap, next, data, pc, node, count, pushed, popped,
                  freed, fault>>
  BY DEF list, memory, local
<1>2. Pushing(p)' = Pushing(p) /\ Popping' = Popping
  BY <1>1 DEF Pushing, Popping
<1>3. Turns(p)' /\ Owned(q)' /\ Links(q, p)' /\ Ends(q, p)' /\ Placed(q, p)'
  BY <1>1, <1>2 DEF Chain, Turns, Owned, Links, Ends, Placed
<1>4. Exclusive => Counted(q, p)'
  BY <1>1, <1>2 DEF Chain, Counted
<1>5. pc'[Popper] \notin {"free", "done"} => Carried(q, p)'
  BY <1>1, <1>2 DEF Chain, Carried, Kept
<1>. QED
  BY <1>1, <1>3, <1>4, <1>5 DEF Chain

(* A push may start: then no other push is in progress.                    *)
LEMMA Alone ==
  ASSUME TypeOK, Disciplined, NEW q, NEW p \in Threads, Chain(q, p), NEW t \in Pushers,
         MayStart(t), pc[t] = "idle", ~freed
  PROVE  /\ ~Pushing(p) /\ \A u \in Pushers : pc[u] = "idle"
         /\ pc[Popper] \notin {"free", "done"}
         /\ Popping => ~Exclusive
         /\ pc[Popper] \notin PopSteps => pc[Popper] = "idle"
<1>1. pc[Popper] \notin {"free", "done"} /\ (Popping => ~Exclusive)
  BY Actors DEF Chain, Turns, MayStart, Popping, PopSteps
<1>2. \A u \in Pushers : pc[u] = "idle"
  <2>1. CASE Exclusive
    BY <2>1, Actors DEF MayStart, PushSteps
  <2>2. CASE ~Exclusive
    BY <2>2 DEF Disciplined
  <2>. QED
    BY <2>1, <2>2
<1>3. ~Pushing(p)
  BY <1>2, Actors DEF Pushing, PushSteps
<1>. QED
  BY <1>1, <1>2, <1>3, Actors

(* malloc, and the test of front: the new node is the end of the chain.    *)
LEMMA PushStartKeeps ==
  ASSUME TypeOK, Disciplined, NEW q, NEW p \in Threads, NEW n \in Nat, n = Len(q), Chain(q, p),
         ~fault, NEW t \in Pushers, PushStart(t), ~met'
  PROVE  ~met /\ ~fault' /\ \E r \in Seq(Nodes) : Chain(r, t)'
<1>1. PICK m \in Nodes \ heap :
        /\ heap' = heap \cup {m}
        /\ data' = [data EXCEPT ![m] = items + 1]
        /\ next' = [next EXCEPT ![m] = NULL]
        /\ node' = [node EXCEPT ![t] = m]
  BY DEF PushStart
<1>2. /\ UNCHANGED <<front, rear, length, count, pushed, popped, freed, fault>>
      /\ pc[t] = "idle" /\ ~freed /\ MayStart(t) /\ Meet(t)
      /\ items \in Nat
  BY DEF PushStart, list, Go, TypeOK
<1>3. pc' = [pc EXCEPT ![t] = IF front = NULL THEN "setFront" ELSE "testRear"]
  BY DEF PushStart, Go
<1>4. /\ ~Pushing(p) /\ \A u \in Pushers : pc[u] = "idle"
      /\ pc[Popper] \notin {"free", "done"}
      /\ Popping => ~Exclusive
      /\ pc[Popper] \notin PopSteps => pc[Popper] = "idle"
  BY <1>2, Alone
<1>5. ~met /\ (pc[Popper] \in {"idle", "done"} \/ ~Short)
  BY <1>2, PushCalm
<1>6. ~Popping => pc[Popper] = "idle"
  BY <1>4 DEF Popping
<1>7. Popping => front # NULL /\ rear # NULL /\ front # rear
  BY <1>5 DEF Popping, PopSteps, Short
<1>8. pc[p] \notin {"setFront", "testRear", "link", "setRear"}
  BY <1>4 DEF Pushing, PushSteps
<1>9. /\ q \in Seq(Nodes) /\ \A i \in 1..n : q[i] \in Nodes
      /\ \A i, j \in 1..n : q[i] = q[j] => i = j
      /\ heap = {q[i] : i \in 1..n}
  BY DEF Chain, Owned
<1>10. Popping => n # 0
  BY DEF Chain, Placed
<1>11. rear = IF n = 0 THEN NULL ELSE q[n]
  BY <1>6, <1>7, <1>8 DEF Chain, Ends
<1>12. Popping => n >= 2
  <2>1. pc[Popper] \in {"readLengthPop", "writeLengthPop"} => n >= 2
    BY DEF Chain, Placed
  <2>2. n = 1 => front = NULL \/ front = q[1]
    BY <1>8, <2>1 DEF Chain, Ends
  <2>. QED
    BY <1>7, <1>10, <1>11, <2>2
<1>13. front = NULL <=> n = 0
  <2>1. CASE Popping
    BY <1>7, <1>10, <2>1
  <2>2. CASE ~Popping
    BY <1>6, <1>8, <1>9, <2>2, NodeAssumption DEF Chain, Ends
  <2>. QED
    BY <2>1, <2>2
<1>14. /\ Pushing(t)' /\ Popping' = Popping /\ pc'[Popper] = pc[Popper]
       /\ pc'[t] = IF n = 0 THEN "setFront" ELSE "testRear"
       /\ \A u \in Pushers \ {t} : pc'[u] = "idle"
  BY <1>2, <1>3, <1>4, <1>13, Actors DEF TypeOK, Pushing, Popping, PushSteps
<1>. DEFINE r == Append(q, m)
<1>15. /\ r \in Seq(Nodes) /\ Len(r) = n + 1
       /\ \A i \in 1..n : r[i] = q[i]
       /\ r[n + 1] = m
  BY <1>1, <1>9, AppendIs
<1>. HIDE DEF r
<1>16. \A i \in 1..n : q[i] # m /\ data'[q[i]] = data[q[i]] /\ next'[q[i]] = next[q[i]]
  BY <1>1, <1>9 DEF TypeOK
<1>17. data'[m] = items + 1 /\ next'[m] = NULL /\ node'[t] = m
       /\ \A u \in Threads : u # t => node'[u] = node[u]
  BY <1>1, Actors DEF TypeOK
<1>18. \A i \in 1..(n + 1) : i \in 1..n \/ i = n + 1
  OBVIOUS
<1>19. Turns(t)'
  BY <1>2, <1>4, <1>6, <1>14, Actors DEF Chain, Turns
<1>20. Owned(r)'
  <2>1. \A i, j \in 1..(n + 1) : r[i] = r[j] => i = j
    BY <1>9, <1>15, <1>16, <1>18
  <2>2. heap' = {r[i] : i \in 1..(n + 1)}
    BY <1>1, <1>9, <1>15, <1>18
  <2>3. \A i \in 1..(n + 1) : data'[r[i]] # 0
    BY <1>2, <1>15, <1>16, <1>17, <1>18 DEF Chain, Owned
  <2>. QED
    BY <1>15, <2>1, <2>2, <2>3 DEF Owned
<1>21. Links(r, t)'
  <2>1. \A i \in 1..(n - 1) : next'[r[i]] = r[i + 1]
    BY <1>8, <1>15, <1>16 DEF Chain, Links
  <2>2. \A i \in 1..n : i < n \/ pc'[t] \notin {"testRear", "link"} => i \in 1..(n - 1)
    BY <1>14
  <2>. QED
    BY <1>15, <1>17, <2>1, <2>2 DEF Links
<1>22. Ends(r, t)'
  <2>1. CASE Popping
    BY <1>2, <1>7, <1>8, <1>11, <1>12, <1>14, <1>15, <2>1 DEF Chain, Ends
  <2>2. CASE ~Popping
    BY <1>2, <1>6, <1>8, <1>11, <1>13, <1>14, <1>15, <2>2 DEF Chain, Ends
  <2>. QED
    BY <2>1, <2>2
<1>23. Placed(r, t)'
  BY <1>2, <1>6, <1>10, <1>11, <1>12, <1>14, <1>15, <1>17, Actors
     DEF Chain, Placed, Popping, PopSteps
<1>24. Exclusive => Counted(r, t)'
  BY <1>2, <1>4, <1>6, <1>14, <1>15 DEF Chain, Counted
<1>25. Carried(r, t)'
  <2>1. Kept(q, p) = n /\ Kept(r, t)' = n
    BY <1>4, <1>14, <1>15 DEF Kept
  <2>2. Carried(q, p)
    BY <1>4 DEF Chain
  <2>. QED
    BY <1>2, <1>15, <1>16, <2>1, <2>2 DEF Carried
<1>26. Chain(r, t)'
  BY <1>19, <1>20, <1>21, <1>22, <1>23, <1>24, <1>25 DEF Chain
<1>. QED
  BY <1>2, <1>5, <1>15, <1>26

(* pop_data finds a front: it is the head of the chain.                    *)
LEMMA PopStartKeeps ==
  ASSUME TypeOK, NEW q, NEW p \in Threads, NEW n \in Nat, n = Len(q), Chain(q, p),
         ~fault, PopStart(Popper), ~met'
  PROVE  ~met /\ ~fault' /\ Chain(q, p)'
<1>1. /\ UNCHANGED <<front, rear, length, heap, next, data, count, pushed, popped, freed,
                     fault>>
      /\ pc[Popper] = "idle" /\ ~freed /\ MayStart(Popper) /\ Meet(Popper) /\ front # NULL
      /\ node' = [node EXCEPT ![Popper] = front]
      /\ pc' = [pc EXCEPT ![Popper] = "testOne"]
  BY DEF PopStart, list, memory, Go
<1>2. ~met /\ (~Pushing(p) \/ ~Short)
  BY <1>1, PopCalm
<1>3. Exclusive => ~Pushing(p)
  BY <1>1 DEF MayStart, Pushing, PushSteps
<1>4. /\ pc'[Popper] = "testOne" /\ node'[Popper] = front
      /\ \A u \in Threads : u # Popper => pc'[u] = pc[u] /\ node'[u] = node[u]
      /\ ~Popping /\ Popping'
  BY <1>1, Actors DEF TypeOK, Popping, PopSteps
<1>5. /\ Pushing(p)' = Pushing(p)
      /\ pc[p] \in {"setFront", "testRear", "link", "setRear"} => Pushing(p)
      /\ p = Popper \/ pc'[p] = pc[p]
      /\ p = Popper => ~Pushing(p)
  BY <1>1, <1>4, Actors DEF Pushing, PushSteps
<1>6. n # 0 /\ pc[p] # "setFront" /\ front = q[1]
  BY <1>1 DEF Chain, Ends
<1>7. Pushing(p) => n >= 2
  BY <1>1, <1>2, <1>6, NodeAssumption DEF Chain, Ends, Short
<1>8. pc[p] \in {"testRear", "link", "setRear"} => n >= 3
  BY <1>1, <1>2, <1>5, <1>6, <1>7, NodeAssumption DEF Chain, Ends, Short
<1>9. Turns(p)'
  BY <1>1, <1>3, <1>4, <1>5, Actors DEF Chain, Turns
<1>10. Owned(q)' /\ Links(q, p)'
  BY <1>1, <1>5, <1>4 DEF Chain, Owned, Links
<1>11. Ends(q, p)'
  BY <1>1, <1>4, <1>5, <1>6 DEF Chain, Ends
<1>12. Placed(q, p)'
  BY <1>1, <1>4, <1>5, <1>6, <1>7, <1>8, Actors DEF Chain, Placed
<1>13. Exclusive => Counted(q, p)'
  BY <1>1, <1>4, <1>5 DEF Chain, Counted
<1>14. Carried(q, p)'
  BY <1>1, <1>5 DEF Chain, Carried, Kept
<1>. QED
  BY <1>1, <1>2, <1>9, <1>10, <1>11, <1>12, <1>13, <1>14 DEF Chain

(* The caller takes the data and frees the node: the chain loses its head, *)
(* and what was popped grows by the next of what was pushed.               *)
LEMMA PopReturnKeeps ==
  ASSUME TypeOK, NEW q, NEW p \in Threads, NEW n \in Nat, n = Len(q), Chain(q, p),
         ~fault, PopReturn(Popper), ~met'
  PROVE  /\ ~met /\ ~fault' /\ \E r \in Seq(Nodes) : Chain(r, p)'
         /\ Len(popped) < Len(pushed)
         /\ popped' = Append(popped, pushed[Len(popped) + 1])
<1>1. /\ pc[Popper] = "return" /\ Popping
      /\ n # 0 /\ node[Popper] = q[1]
  BY DEF PopReturn, Go, Valid, Fault, Popping, PopSteps, Chain, Placed
<1>2. /\ q \in Seq(Nodes) /\ \A i \in 1..n : q[i] \in Nodes
      /\ \A i, j \in 1..n : q[i] = q[j] => i = j
      /\ heap = {q[i] : i \in 1..n}
      /\ NULL \notin Nodes
  BY NodeAssumption DEF Chain, Owned
<1>3. Valid(node[Popper])
  BY <1>1, <1>2 DEF Valid
<1>4. /\ UNCHANGED <<front, rear, length, next, data, node, count, pushed, freed, fault>>
      /\ pc' = [pc EXCEPT ![Popper] = "idle"] /\ Meet(Popper)
      /\ popped' = Append(popped, data[q[1]]) /\ heap' = heap \ {q[1]}
  BY <1>1, <1>3 DEF PopReturn, Go, list
<1>5. ~met /\ (~Pushing(p) \/ ~Short)
  BY <1>4, PopCalm
<1>6. /\ pc'[Popper] = "idle" /\ ~Popping'
      /\ \A u \in Threads : u # Popper => pc'[u] = pc[u]
  BY <1>4, Actors DEF TypeOK, Popping, PopSteps
<1>7. /\ Pushing(p)' = Pushing(p)
      /\ pc[p] \in {"setFront", "testRear", "link", "setRear"} => Pushing(p)
      /\ p = Popper \/ pc'[p] = pc[p]
      /\ p = Popper => ~Pushing(p)
  BY <1>1, <1>6, Actors DEF Pushing, PushSteps
<1>8. /\ Pushing(p) => n >= 2
      /\ pc[p] \in {"setFront", "testRear", "link", "setRear"} => n >= 3
      /\ pc[p] # "setFront"
  BY <1>1, <1>7 DEF Chain, Placed
<1>. DEFINE r == Tail(q)
<1>9. /\ r \in Seq(Nodes) /\ Len(r) = n - 1
      /\ \A i \in 1..(n - 1) : r[i] = q[i + 1]
  BY <1>1, <1>2, TailIs
<1>. HIDE DEF r
<1>10. /\ \A i \in 1..(n - 1) : i + 1 \in 1..n
       /\ \A i \in 1..n : i = 1 \/ i - 1 \in 1..(n - 1)
       /\ n >= 2 => n - 1 \in 1..(n - 1) /\ n \in 1..n
       /\ n >= 3 => n - 2 \in 1..(n - 1)
  OBVIOUS
<1>11. /\ n >= 2 => r[1] = q[2] /\ r[n - 1] = q[n]
       /\ n >= 3 => r[n - 2] = q[n - 1]
  BY <1>9, <1>10
<1>12. Turns(p)'
  BY <1>1, <1>4, <1>6, <1>7, Actors DEF Chain, Turns
<1>13. Owned(r)'
  <2>1. \A i, j \in 1..(n - 1) : r[i] = r[j] => i = j
    BY <1>2, <1>9, <1>10
  <2>2. heap' \subseteq {r[i] : i \in 1..(n - 1)}
    <3>1. ASSUME NEW m \in heap'
          PROVE  \E i \in 1..(n - 1) : m = r[i]
      <4>1. PICK j \in 1..n : m = q[j] /\ j # 1
        BY <1>2, <1>4
      <4>2. j - 1 \in 1..(n - 1) /\ (j - 1) + 1 = j
        BY <1>10, <4>1
      <4>3. m = r[j - 1]
        BY <1>9, <4>1, <4>2
      <4>. QED
        BY <4>2, <4>3
    <3>. QED
      BY <3>1
  <2>3. \A i \in 1..(n - 1) : r[i] \in heap'
    <3>1. ASSUME NEW i \in 1..(n - 1)
          PROVE  r[i] \in heap'
      <4>1. r[i] = q[i + 1] /\ i + 1 \in 1..n /\ i + 1 # 1 /\ 1 \in 1..n
        BY <1>9, <1>10
      <4>. QED
        BY <1>2, <1>4, <4>1
    <3>. QED
      BY <3>1
  <2>4. \A i \in 1..(n - 1) : data'[r[i]] # 0
    BY <1>4, <1>9, <1>10 DEF Chain, Owned
  <2>5. heap' = {r[i] : i \in 1..(n - 1)}
    BY <2>2, <2>3
  <2>. QED
    BY <1>9, <2>1, <2>4, <2>5 DEF Owned
<1>14. Links(r, p)'
  <2>1. ASSUME NEW i \in 1..(n - 2), i < n - 2 \/ pc'[p] \notin {"testRear", "link"}
        PROVE  next'[r[i]] = r[i + 1]
    <3>1. i + 1 \in 1..(n - 1) /\ i \in 1..(n - 1) /\ r[i] = q[i + 1] /\ r[i + 1] = q[i + 1 + 1]
      BY <1>9
    <3>2. i + 1 < n - 1 \/ pc[p] \notin {"testRear", "link"}
      BY <1>1, <1>7, <2>1
    <3>3. next[q[i + 1]] = q[i + 1 + 1]
      BY <3>1, <3>2 DEF Chain, Links
    <3>. QED
      BY <1>4, <3>1, <3>3
  <2>2. n >= 2 => next'[r[n - 1]] = NULL
    BY <1>4, <1>11 DEF Chain, Links
  <2>. QED
    BY <1>1, <1>9, <2>1, <2>2 DEF Links
<1>15. Ends(r, p)'
  <2>1. CASE n = 1
    BY <1>1, <1>4, <1>6, <1>9, <2>1 DEF Chain, Ends
  <2>2. CASE n # 1
    <3>1. front = q[2]
      BY <1>1, <1>8, <2>2 DEF Chain, Ends
    <3>2. rear = IF pc[p] \in {"testRear", "link", "setRear"} THEN q[n - 1] ELSE q[n]
      BY <1>1, <1>7, <1>8, <2>2 DEF Chain, Ends
    <3>5. n >= 2 /\ (pc[p] \in {"testRear", "link", "setRear"} => n >= 3)
      BY <1>1, <1>8, <2>2
    <3>3. /\ front' = r[1] /\ n - 1 # 0
          /\ rear' = IF pc[p] \in {"testRear", "link", "setRear"} THEN r[n - 2] ELSE r[n - 1]
      BY <1>4, <1>11, <3>1, <3>2, <3>5
    <3>4. /\ pc[p] \in {"testRear", "link", "setRear"}
             <=> pc'[p] \in {"testRear", "link", "setRear"}
          /\ pc'[p] # "setFront"
      BY <1>1, <1>6, <1>7, <1>8
    <3>. QED
      BY <1>6, <1>8, <1>7, <1>9, <3>3, <3>4 DEF Ends
  <2>. QED
    BY <2>1, <2>2
<1>16. Placed(r, p)'
  BY <1>1, <1>4, <1>6, <1>7, <1>8, <1>9, <1>11, Actors DEF Chain, Placed
<1>17. Exclusive => Counted(r, p)'
  BY <1>1, <1>4, <1>6, <1>7, <1>9 DEF Chain, Counted, Turns
<1>18. /\ Carried(q, p) /\ Len(popped) \in Nat /\ Len(pushed) \in Nat
       /\ data[q[1]] \in 0..MaxItems /\ popped \in Seq(0..MaxItems)
       /\ Kept(q, p) \in Nat /\ Kept(q, p) >= 1
       /\ Kept(r, p)' = Kept(q, p) - 1 /\ Kept(q, p) <= n
  BY <1>1, <1>2, <1>7, <1>8, <1>9 DEF Chain, Kept, TypeOK
<1>19. /\ Len(popped') = Len(popped) + 1
       /\ \A i \in 1..Len(popped) : popped'[i] = popped[i]
       /\ popped'[Len(popped) + 1] = data[q[1]]
  BY <1>4, <1>18, AppendIs
<1>20. pushed[Len(popped) + 1] = data[q[1]] /\ Len(popped) < Len(pushed)
  BY <1>18 DEF Carried
<1>21. Carried(r, p)'
  <2>1. Len(pushed') = Len(popped') + Kept(r, p)'
    BY <1>4, <1>18, <1>19 DEF Carried
  <2>2. \A i \in 1..Len(popped') : pushed'[i] = popped'[i]
    <3>1. \A i \in 1..Len(popped') : i \in 1..Len(popped) \/ i = Len(popped) + 1
      BY <1>18, <1>19
    <3>. QED
      BY <1>4, <1>18, <1>19, <1>20, <3>1 DEF Carried
  <2>3. ASSUME NEW i \in 1..(Kept(q, p) - 1)
        PROVE  pushed'[Len(popped') + i] = data'[r[i]]
    <3>0. /\ Kept(q, p) \in Nat /\ Kept(q, p) <= n /\ Len(popped) \in Nat
          /\ Len(popped') = Len(popped) + 1
      BY <1>18, <1>19
    <3>1. /\ i + 1 \in 1..Kept(q, p) /\ i \in 1..(n - 1)
          /\ Len(popped') + i = Len(popped) + (i + 1)
      BY <3>0
    <3>2. pushed[Len(popped) + (i + 1)] = data[q[i + 1]]
      BY <1>18, <3>1 DEF Carried
    <3>. QED
      BY <1>4, <1>9, <3>1, <3>2
  <2>. QED
    BY <1>18, <2>1, <2>2, <2>3 DEF Carried
<1>22. Chain(r, p)'
  BY <1>12, <1>13, <1>14, <1>15, <1>16, <1>17, <1>21 DEF Chain
<1>. QED
  BY <1>4, <1>5, <1>9, <1>20, <1>22

(* free_queue starts when nobody is inside.                                *)
LEMMA FreeStartKeeps ==
  ASSUME TypeOK, Disciplined, NEW q, NEW p \in Threads, NEW n \in Nat, n = Len(q), Chain(q, p),
         ~fault, FreeStart(Popper)
  PROVE  ~fault' /\ Chain(q, p)'
<1>1. /\ UNCHANGED <<front, rear, length, heap, next, data, node, count, pushed, popped,
                     freed, fault>>
      /\ pc[Popper] = "idle" /\ ~freed /\ Exclusive /\ Freeing /\ MayStart(Popper)
      /\ pc' = [pc EXCEPT ![Popper] = "free"]
  BY DEF FreeStart, list, memory, history, Go, Disciplined
<1>2. ~Pushing(p)
  BY <1>1 DEF MayStart, Pushing, PushSteps
<1>3. /\ pc'[Popper] = "free"
      /\ \A u \in Threads : u # Popper => pc'[u] = pc[u]
      /\ ~Popping /\ ~Popping'
  BY <1>1, Actors DEF TypeOK, Popping, PopSteps
<1>4. /\ ~Pushing(p)'
      /\ pc[p] \notin {"setFront", "testRear", "link", "setRear"}
      /\ p = Popper \/ pc'[p] = pc[p]
  BY <1>1, <1>2, <1>3, Actors DEF Pushing, PushSteps
<1>5. Turns(p)'
  BY <1>1, <1>3, <1>4, Actors DEF Chain, Turns
<1>6. Owned(q)' /\ Links(q, p)' /\ Ends(q, p)'
  BY <1>1, <1>3, <1>4 DEF Chain, Owned, Links, Ends
<1>7. Placed(q, p)' /\ Counted(q, p)'
  BY <1>1, <1>2, <1>3, <1>4 DEF Chain, Placed, Counted
<1>. QED
  BY <1>1, <1>3, <1>5, <1>6, <1>7 DEF Chain

(* Inside free_queue nobody else is, and length is the length of the       *)
(* chain.                                                                  *)
LEMMA FreeingIs ==
  ASSUME TypeOK, NEW q, NEW p \in Threads, NEW n \in Nat, n = Len(q), Chain(q, p),
         pc[Popper] = "free"
  PROVE  /\ ~Pushing(p) /\ ~Popping /\ ~freed /\ Exclusive /\ Freeing
         /\ pc[p] \notin {"setFront", "testRear", "link", "setRear"}
         /\ q \in Seq(Nodes) /\ NULL \notin Nodes
         /\ front = IF n = 0 THEN NULL ELSE q[1]
         /\ rear = IF n = 0 THEN NULL ELSE q[n]
         /\ length = n
<1>1. ~Pushing(p) /\ ~Popping /\ Exclusive /\ Freeing /\ ~freed
  BY DEF Chain, Turns, Popping, PopSteps
<1>2. pc[p] \notin {"setFront", "testRear", "link", "setRear"}
  BY <1>1 DEF Pushing, PushSteps
<1>. QED
  BY <1>1, <1>2, NodeAssumption DEF Chain, Owned, Ends, Counted

(* One round of free_queue: the head is unlinked and freed.                *)
LEMMA FreeNodeKeeps ==
  ASSUME TypeOK, NEW q, NEW p \in Threads, NEW n \in Nat, n = Len(q), Chain(q, p),
         ~fault, FreeNode(Popper)
  PROVE  ~fault' /\ \E r \in Seq(Nodes) : Chain(r, p)'
<1>1. /\ pc[Popper] = "free" /\ length > 0
      /\ UNCHANGED <<next, data, pc, node, count, pushed, popped, freed, fault>>
  BY DEF FreeNode, local, history
<1>2. /\ ~Pushing(p) /\ ~Popping /\ ~freed /\ Exclusive
      /\ pc[p] \notin {"setFront", "testRear", "link", "setRear"}
      /\ q \in Seq(Nodes) /\ NULL \notin Nodes /\ n # 0
      /\ front = q[1] /\ rear = q[n] /\ length = n
  BY <1>1, FreeingIs
<1>3. /\ \A i \in 1..n : q[i] \in Nodes
      /\ \A i, j \in 1..n : q[i] = q[j] => i = j
      /\ heap = {q[i] : i \in 1..n}
  BY <1>2 DEF Chain, Owned
<1>4. front # NULL /\ (front = rear <=> n = 1)
  <2>1. 1 \in 1..n /\ n \in 1..n
    BY <1>2
  <2>. QED
    BY <1>2, <1>3, <2>1
<1>5. /\ heap' = heap \ {q[1]}
      /\ n = 1 => front' = NULL /\ rear' = NULL /\ length' = 0
      /\ n # 1 => front' = next[q[1]] /\ length' = length - 1 /\ rear' = rear
  BY <1>2, <1>4 DEF FreeNode
<1>. DEFINE r == Tail(q)
<1>6. /\ r \in Seq(Nodes) /\ Len(r) = n - 1
      /\ \A i \in 1..(n - 1) : r[i] = q[i + 1]
  BY <1>2, TailIs
<1>. HIDE DEF r
<1>7. /\ \A i \in 1..(n - 1) : i + 1 \in 1..n
      /\ \A i \in 1..n : i = 1 \/ i - 1 \in 1..(n - 1)
      /\ n >= 2 => n - 1 \in 1..(n - 1) /\ 1 \in 1..(n - 1) /\ 2 \in 1..n
  OBVIOUS
<1>8. n >= 2 => r[1] = q[2] /\ r[n - 1] = q[n] /\ next[q[1]] = q[2]
  BY <1>2, <1>6, <1>7 DEF Chain, Links
<1>9. Pushing(p)' = Pushing(p) /\ Popping' = Popping
  BY <1>1 DEF Pushing, Popping
<1>10. Turns(p)'
  BY <1>1, <1>9 DEF Chain, Turns
<1>11. Owned(r)'
  <2>1. \A i, j \in 1..(n - 1) : r[i] = r[j] => i = j
    BY <1>3, <1>6, <1>7
  <2>2. ASSUME NEW m \in heap'
        PROVE  \E i \in 1..(n - 1) : m = r[i]
    <3>1. PICK j \in 1..n : m = q[j] /\ j # 1
      BY <1>3, <1>5
    <3>2. j - 1 \in 1..(n - 1) /\ (j - 1) + 1 = j
      BY <1>7, <3>1
    <3>3. m = r[j - 1]
      BY <1>6, <3>1, <3>2
    <3>. QED
      BY <3>2, <3>3
  <2>3. ASSUME NEW i \in 1..(n - 1)
        PROVE  r[i] \in heap'
    <3>1. r[i] = q[i + 1] /\ i + 1 \in 1..n /\ i + 1 # 1 /\ 1 \in 1..n
      BY <1>6, <1>7
    <3>. QED
      BY <1>3, <1>5, <3>1
  <2>4. \A i \in 1..(n - 1) : data'[r[i]] # 0
    BY <1>1, <1>6, <1>7 DEF Chain, Owned
  <2>5. heap' = {r[i] : i \in 1..(n - 1)}
    BY <2>2, <2>3
  <2>. QED
    BY <1>6, <2>1, <2>4, <2>5 DEF Owned
<1>12. Links(r, p)'
  <2>1. ASSUME NEW i \in 1..(n - 2)
        PROVE  next'[r[i]] = r[i + 1]
    <3>1. i + 1 \in 1..(n - 1) /\ i \in 1..(n - 1) /\ r[i] = q[i + 1] /\ r[i + 1] = q[i + 1 + 1]
      BY <1>6
    <3>2. next[q[i + 1]] = q[i + 1 + 1]
      BY <1>2, <3>1 DEF Chain, Links
    <3>. QED
      BY <1>1, <3>1, <3>2
  <2>2. n >= 2 => next'[r[n - 1]] = NULL
    BY <1>1, <1>8 DEF Chain, Links
  <2>. QED
    BY <1>2, <1>6, <2>1, <2>2 DEF Links
<1>13. Ends(r, p)'
  BY <1>1, <1>2, <1>5, <1>6, <1>8 DEF Ends
<1>14. pc'[Popper] = "free" /\ pc'[p] \notin {"setFront", "link", "writeLength"}
  BY <1>1, <1>2 DEF Pushing, PushSteps
<1>16. Placed(r, p)'
  BY <1>2, <1>9, <1>14 DEF Placed
<1>17. length' = n - 1
  BY <1>2, <1>5
<1>18. Counted(r, p)'
  BY <1>2, <1>6, <1>9, <1>14, <1>17 DEF Counted
<1>15. Chain(r, p)'
  BY <1>1, <1>10, <1>11, <1>12, <1>13, <1>16, <1>18 DEF Chain
<1>. QED
  BY <1>1, <1>6, <1>15

(* free_queue ends: length is 0, so nothing is left allocated.             *)
LEMMA FreeDoneKeeps ==
  ASSUME TypeOK, NEW q, NEW p \in Threads, NEW n \in Nat, n = Len(q), Chain(q, p),
         ~fault, FreeDone(Popper)
  PROVE  ~fault' /\ Chain(q, p)'
<1>1. /\ pc[Popper] = "free" /\ length <= 0 /\ freed'
      /\ UNCHANGED <<front, rear, length, heap, next, data, node, count, pushed, popped,
                     fault>>
      /\ pc' = [pc EXCEPT ![Popper] = "done"]
  BY DEF FreeDone, list, memory, history, Go
<1>2. /\ ~Pushing(p) /\ ~Popping /\ Exclusive /\ Freeing
      /\ pc[p] \notin {"setFront", "testRear", "link", "setRear"} /\ n = 0
  BY <1>1, FreeingIs
<1>3. /\ pc'[Popper] = "done"
      /\ \A u \in Threads : u # Popper => pc'[u] = pc[u]
      /\ ~Popping'
  BY <1>1, Actors DEF TypeOK, Popping, PopSteps
<1>4. /\ ~Pushing(p)'
      /\ p = Popper \/ pc'[p] = pc[p]
  BY <1>1, <1>2, <1>3, Actors DEF Pushing, PushSteps
<1>5. Turns(p)'
  BY <1>1, <1>2, <1>3, <1>4, Actors DEF Chain, Turns
<1>6. Owned(q)' /\ Links(q, p)'
  BY <1>1, <1>2 DEF Chain, Owned, Links
<1>7. front = NULL /\ rear = NULL /\ length = 0
  BY <1>1, <1>2, FreeingIs
<1>8. pc'[p] \notin {"setFront", "link", "writeLength"}
  BY <1>4 DEF Pushing, PushSteps
<1>9. Ends(q, p)'
  BY <1>1, <1>2, <1>7 DEF Ends
<1>10. Placed(q, p)'
  BY <1>2, <1>3, <1>4, <1>8 DEF Placed
<1>11. Counted(q, p)'
  BY <1>1, <1>2, <1>3, <1>4, <1>7, <1>8 DEF Counted
<1>. QED
  BY <1>1, <1>3, <1>5, <1>6, <1>9, <1>10, <1>11 DEF Chain

(* queue->front = node, the list having been empty.                        *)
LEMMA PushSetFrontKeeps ==
  ASSUME TypeOK, NEW q, NEW n \in Nat, n = Len(q), NEW p \in Pushers, Chain(q, p), ~fault,
         PushSetFront(p), ~met'
  PROVE  ~met /\ ~fault' /\ Chain(q, p)'
<1>1. /\ pc[p] = "setFront"
      /\ Popper \in Threads /\ Popper \notin Pushers /\ p \in Threads
      /\ q \in Seq(Nodes) /\ Len(q) \in Nat /\ NULL \notin Nodes
  BY Actors, NodeAssumption DEF PushSetFront, Go, Chain, Owned
<1>2. Meet(p) /\ pc' = [pc EXCEPT ![p] = "testRear"]
  BY DEF PushSetFront, Go
<1>3. /\ UNCHANGED <<length, rear, heap, next, data, node, count, items, pushed, popped,
                     freed, fault>>
      /\ front' = node[p]
  BY DEF PushSetFront, memory
<1>4. ~met /\ (pc[Popper] \in {"idle", "done"} \/ ~Short)
  BY <1>2, PushCalm
<1>5. /\ pc'[p] = "testRear"
      /\ \A u \in Threads : u # p => pc'[u] = pc[u]
  BY <1>1, <1>2 DEF TypeOK
<1>6. /\ Pushing(p) /\ Pushing(p)'
      /\ pc'[Popper] = pc[Popper] /\ Popping' = Popping
      /\ pc[Popper] \notin {"idle", "free", "done"} => Popping
  BY <1>1, <1>5, Actors DEF Pushing, Popping, PushSteps
<1>7. n = 1 /\ (Popping => n >= 3)
  BY <1>1, <1>6 DEF Chain, Placed
<1>8. pc[Popper] \in {"idle", "free", "done"}
  BY <1>7, <1>6
<1>9. Turns(p)'
  BY <1>2, <1>3, <1>6 DEF Chain, Turns
<1>10. Owned(q)'
  BY <1>3 DEF Chain, Owned
<1>11. Links(q, p)'
  BY <1>3, <1>7 DEF Chain, Links
<1>12. Ends(q, p)'
  BY <1>1, <1>3, <1>5, <1>6, <1>7 DEF Chain, Ends, Placed
<1>13. Placed(q, p)'
  BY <1>3, <1>5, <1>6, <1>7 DEF Chain, Placed
<1>14. Exclusive => Counted(q, p)'
  BY <1>1, <1>3, <1>5, <1>6 DEF Chain, Counted
<1>15. pc'[Popper] \notin {"free", "done"} => Carried(q, p)'
  BY <1>3, <1>6 DEF Chain, Carried, Kept
<1>. QED
  BY <1>3, <1>4, <1>9, <1>10, <1>11, <1>12, <1>13, <1>14, <1>15 DEF Chain

(* The test of rear: it is null exactly if the node is the only one.       *)
LEMMA PushTestRearKeeps ==
  ASSUME TypeOK, NEW q, NEW n \in Nat, n = Len(q), NEW p \in Pushers, Chain(q, p), ~fault,
         PushTestRear(p), ~met'
  PROVE  ~met /\ ~fault' /\ Chain(q, p)'
<1>1. /\ pc[p] = "testRear"
      /\ Popper \in Threads /\ Popper \notin Pushers /\ p \in Threads
      /\ q \in Seq(Nodes) /\ Len(q) \in Nat /\ NULL \notin Nodes
  BY Actors, NodeAssumption DEF PushTestRear, Go, Chain, Owned
<1>2. Meet(p) /\ pc' = [pc EXCEPT ![p] = IF rear = NULL THEN "setRear" ELSE "link"]
  BY DEF PushTestRear, Go
<1>3. /\ UNCHANGED <<length, front, rear, heap, next, data, node, count, items, pushed,
                     popped, freed, fault>>
  BY DEF PushTestRear, list, memory
<1>4. ~met /\ (pc[Popper] \in {"idle", "done"} \/ ~Short)
  BY <1>2, PushCalm
<1>5. /\ pc'[p] = IF rear = NULL THEN "setRear" ELSE "link"
      /\ \A u \in Threads : u # p => pc'[u] = pc[u]
  BY <1>1, <1>2 DEF TypeOK
<1>6. /\ Pushing(p) /\ Pushing(p)'
      /\ pc'[Popper] = pc[Popper] /\ Popping' = Popping
      /\ pc[Popper] \notin {"idle", "free", "done"} => Popping
  BY <1>1, <1>5, Actors DEF Pushing, Popping, PushSteps
<1>7. rear = IF Len(q) = 1 THEN NULL ELSE q[Len(q) - 1]
  BY <1>1, <1>2, <1>3, <1>4, <1>5, <1>6, PushPlace
<1>8. Len(q) # 1 => Len(q) - 1 \in 1..Len(q)
  BY <1>6, PushPlace
<1>9. \A i \in 1..Len(q) : q[i] # NULL
  BY <1>6, PushPlace
<1>10. pc'[p] = IF Len(q) = 1 THEN "setRear" ELSE "link"
  BY <1>5, <1>7, <1>8, <1>9
<1>11. Turns(p)'
  BY <1>2, <1>3, <1>6 DEF Chain, Turns
<1>12. Owned(q)'
  BY <1>3 DEF Chain, Owned
<1>13. Links(q, p)'
  BY <1>3, <1>10 DEF Chain, Links
<1>14. Ends(q, p)'
  <2>1. /\ pc[p] # "setFront" /\ pc[p] \in {"setFront", "testRear", "link", "setRear"}
        /\ pc'[p] # "setFront" /\ pc'[p] \in {"setFront", "testRear", "link", "setRear"}
    BY <1>1, <1>10
  <2>2. UNCHANGED <<front, rear>> /\ pc'[Popper] = pc[Popper]
    BY <1>3, <1>6
  <2>. QED
    BY <2>1, <2>2 DEF Chain, Ends
<1>15. Placed(q, p)'
  BY <1>1, <1>3, <1>6, <1>10 DEF Chain, Placed
<1>16. Exclusive => Counted(q, p)'
  BY <1>1, <1>3, <1>6, <1>10 DEF Chain, Counted
<1>17. pc'[Popper] \notin {"free", "done"} => Carried(q, p)'
  BY <1>3, <1>6, <1>7, <1>8 DEF Chain, Carried, Kept
<1>. QED
  BY <1>3, <1>4, <1>11, <1>12, <1>13, <1>14, <1>15, <1>16, <1>17 DEF Chain

(* queue->rear->next = node: rear is a node of the chain, the last but     *)
(* one.                                                                    *)
LEMMA PushLinkKeeps ==
  ASSUME TypeOK, NEW q, NEW n \in Nat, n = Len(q), NEW p \in Pushers, Chain(q, p), ~fault,
         PushLink(p), ~met'
  PROVE  ~met /\ ~fault' /\ Chain(q, p)'
<1>1. /\ pc[p] = "link"
      /\ Popper \in Threads /\ Popper \notin Pushers /\ p \in Threads
      /\ q \in Seq(Nodes) /\ Len(q) \in Nat /\ NULL \notin Nodes
  BY Actors, NodeAssumption DEF PushLink, Chain, Owned
<1>2. Valid(rear)
  BY <1>1 DEF Chain, Owned, Placed, Ends, Valid
<1>3. Meet(p) /\ pc' = [pc EXCEPT ![p] = "setRear"]
  BY <1>2 DEF PushLink, Go
<1>4. /\ UNCHANGED <<length, front, rear, heap, data, node, count, items, pushed, popped,
                     freed, fault>>
      /\ next' = [next EXCEPT ![rear] = node[p]]
  BY <1>2 DEF PushLink, list
<1>5. ~met /\ (pc[Popper] \in {"idle", "done"} \/ ~Short)
  BY <1>3, PushCalm
<1>6. /\ pc'[p] = "setRear"
      /\ \A u \in Threads : u # p => pc'[u] = pc[u]
  BY <1>1, <1>3 DEF TypeOK
<1>7. /\ Pushing(p) /\ Pushing(p)'
      /\ pc'[Popper] = pc[Popper] /\ Popping' = Popping
      /\ pc[Popper] \notin {"idle", "free", "done"} => Popping
  BY <1>1, <1>6, Actors DEF Pushing, Popping, PushSteps
<1>8. Len(q) >= 2 /\ rear = q[Len(q) - 1] /\ node[p] = q[Len(q)]
  BY <1>1, <1>7, PushPlace DEF Chain, Placed
<1>9. \A i \in 1..Len(q) : q[i] \in Nodes /\ (q[i] = q[Len(q) - 1] => i = Len(q) - 1)
  BY <1>8 DEF Chain, Owned
<1>10. /\ next'[q[Len(q) - 1]] = q[Len(q)]
      /\ \A i \in 1..Len(q) : i # Len(q) - 1 => next'[q[i]] = next[q[i]]
  BY <1>4, <1>8, <1>9 DEF TypeOK
<1>11. Turns(p)'
  BY <1>3, <1>4, <1>7 DEF Chain, Turns
<1>12. Owned(q)'
  BY <1>4 DEF Chain, Owned
<1>13. Links(q, p)'
  BY <1>1, <1>3, <1>4, <1>10 DEF Chain, Links
<1>14. Ends(q, p)'
  BY <1>1, <1>3, <1>4, <1>5, <1>6, <1>7, <1>8, <1>9, <1>10 DEF Chain, Ends, Placed
<1>15. Placed(q, p)'
  BY <1>1, <1>4, <1>6, <1>7 DEF Chain, Placed
<1>16. Exclusive => Counted(q, p)'
  BY <1>1, <1>4, <1>6, <1>7 DEF Chain, Counted
<1>17. pc'[Popper] \notin {"free", "done"} => Carried(q, p)'
  BY <1>4, <1>7 DEF Chain, Carried, Kept, Turns
<1>. QED
  BY <1>4, <1>5, <1>11, <1>12, <1>13, <1>14, <1>15, <1>16, <1>17 DEF Chain

(* queue->rear = node.                                                     *)
LEMMA PushSetRearKeeps ==
  ASSUME TypeOK, NEW q, NEW n \in Nat, n = Len(q), NEW p \in Pushers, Chain(q, p), ~fault,
         PushSetRear(p), ~met'
  PROVE  ~met /\ ~fault' /\ Chain(q, p)'
<1>1. /\ pc[p] = "setRear"
      /\ Popper \in Threads /\ Popper \notin Pushers /\ p \in Threads
      /\ q \in Seq(Nodes) /\ Len(q) \in Nat /\ NULL \notin Nodes
  BY Actors, NodeAssumption DEF PushSetRear, Go, Chain, Owned
<1>2. Meet(p) /\ pc' = [pc EXCEPT ![p] = "readLength"]
  BY DEF PushSetRear, Go
<1>3. /\ UNCHANGED <<length, front, heap, next, data, node, count, items, pushed, popped,
                     freed, fault>>
      /\ rear' = node[p]
  BY DEF PushSetRear, memory
<1>4. ~met /\ (pc[Popper] \in {"idle", "done"} \/ ~Short)
  BY <1>2, PushCalm
<1>5. /\ pc'[p] = "readLength"
      /\ \A u \in Threads : u # p => pc'[u] = pc[u]
  BY <1>1, <1>2 DEF TypeOK
<1>6. /\ Pushing(p) /\ Pushing(p)'
      /\ pc'[Popper] = pc[Popper] /\ Popping' = Popping
      /\ pc[Popper] \notin {"idle", "free", "done"} => Popping
  BY <1>1, <1>5, Actors DEF Pushing, Popping, PushSteps
<1>7. Turns(p)'
  BY <1>2, <1>3, <1>6 DEF Chain, Turns
<1>8. Owned(q)'
  BY <1>3 DEF Chain, Owned
<1>9. Links(q, p)'
  BY <1>1, <1>3 DEF Chain, Links
<1>10. Ends(q, p)'
  BY <1>1, <1>3, <1>5, <1>6 DEF Chain, Ends, Placed
<1>11. Placed(q, p)'
  BY <1>3, <1>5, <1>6 DEF Chain, Placed
<1>12. Exclusive => Counted(q, p)'
  BY <1>1, <1>3, <1>5, <1>6 DEF Chain, Counted
<1>13. pc'[Popper] \notin {"free", "done"} => Carried(q, p)'
  BY <1>3, <1>6 DEF Chain, Carried, Kept
<1>. QED
  BY <1>3, <1>4, <1>7, <1>8, <1>9, <1>10, <1>11, <1>12, <1>13 DEF Chain

(* The load of queue->length++.                                            *)
LEMMA PushReadLengthKeeps ==
  ASSUME TypeOK, NEW q, NEW n \in Nat, n = Len(q), NEW p \in Pushers, Chain(q, p), ~fault,
         PushReadLength(p), ~met'
  PROVE  ~met /\ ~fault' /\ Chain(q, p)'
<1>1. /\ pc[p] = "readLength"
      /\ Popper \in Threads /\ Popper \notin Pushers /\ p \in Threads
      /\ q \in Seq(Nodes) /\ Len(q) \in Nat /\ NULL \notin Nodes
  BY Actors, NodeAssumption DEF PushReadLength, Go, Chain, Owned
<1>2. Meet(p) /\ pc' = [pc EXCEPT ![p] = "writeLength"]
  BY DEF PushReadLength, Go
<1>3. /\ UNCHANGED <<length, front, rear, heap, next, data, node, items, pushed, popped,
                     freed, fault>>
      /\ count' = [count EXCEPT ![p] = length]
  BY DEF PushReadLength, list, memory
<1>4. ~met /\ (pc[Popper] \in {"idle", "done"} \/ ~Short)
  BY <1>2, PushCalm
<1>5. /\ pc'[p] = "writeLength"
      /\ \A u \in Threads : u # p => pc'[u] = pc[u]
  BY <1>1, <1>2 DEF TypeOK
<1>6. /\ Pushing(p) /\ Pushing(p)'
      /\ pc'[Popper] = pc[Popper] /\ Popping' = Popping
      /\ pc[Popper] \notin {"idle", "free", "done"} => Popping
  BY <1>1, <1>5, Actors DEF Pushing, Popping, PushSteps
<1>7. Turns(p)'
  BY <1>2, <1>3, <1>6 DEF Chain, Turns
<1>8. Owned(q)'
  BY <1>3 DEF Chain, Owned
<1>9. Links(q, p)'
  BY <1>1, <1>3 DEF Chain, Links
<1>10. Ends(q, p)'
  BY <1>1, <1>3, <1>5 DEF Chain, Ends
<1>11. Placed(q, p)'
  BY <1>3, <1>5, <1>6 DEF Chain, Placed
<1>12. Exclusive => Counted(q, p)'
  BY <1>1, <1>3, <1>5, <1>6 DEF Chain, TypeOK, Counted
<1>13. pc'[Popper] \notin {"free", "done"} => Carried(q, p)'
  BY <1>3, <1>6 DEF Chain, Carried, Kept
<1>. QED
  BY <1>3, <1>4, <1>7, <1>8, <1>9, <1>10, <1>11, <1>12, <1>13 DEF Chain

(* The store of queue->length++.                                           *)
LEMMA PushWriteLengthKeeps ==
  ASSUME TypeOK, NEW q, NEW n \in Nat, n = Len(q), NEW p \in Pushers, Chain(q, p), ~fault,
         PushWriteLength(p), ~met'
  PROVE  ~met /\ ~fault' /\ Chain(q, p)'
<1>1. /\ pc[p] = "writeLength"
      /\ Popper \in Threads /\ Popper \notin Pushers /\ p \in Threads
      /\ q \in Seq(Nodes) /\ Len(q) \in Nat /\ NULL \notin Nodes
  BY Actors, NodeAssumption DEF PushWriteLength, Go, Chain, Owned
<1>2. Meet(p) /\ pc' = [pc EXCEPT ![p] = "returnPush"]
  BY DEF PushWriteLength, Go
<1>3. /\ UNCHANGED <<front, rear, heap, next, data, node, count, items, pushed, popped,
                     freed, fault>>
      /\ length' = count[p] + 1
  BY DEF PushWriteLength, memory
<1>4. ~met /\ (pc[Popper] \in {"idle", "done"} \/ ~Short)
  BY <1>2, PushCalm
<1>5. /\ pc'[p] = "returnPush"
      /\ \A u \in Threads : u # p => pc'[u] = pc[u]
  BY <1>1, <1>2 DEF TypeOK
<1>6. /\ Pushing(p) /\ Pushing(p)'
      /\ pc'[Popper] = pc[Popper] /\ Popping' = Popping
      /\ pc[Popper] \notin {"idle", "free", "done"} => Popping
  BY <1>1, <1>5, Actors DEF Pushing, Popping, PushSteps
<1>7. Turns(p)'
  BY <1>2, <1>3, <1>6 DEF Chain, Turns
<1>8. Owned(q)'
  BY <1>3 DEF Chain, Owned
<1>9. Links(q, p)'
  BY <1>1, <1>3 DEF Chain, Links
<1>10. Ends(q, p)'
  BY <1>1, <1>2, <1>3 DEF Chain, Ends
<1>11. Placed(q, p)'
  BY <1>3, <1>5, <1>6 DEF Chain, Placed
<1>12. Exclusive => Counted(q, p)'
  BY <1>1, <1>3, <1>5, <1>6 DEF Chain, Counted, Turns
<1>13. pc'[Popper] \notin {"free", "done"} => Carried(q, p)'
  BY <1>2, <1>3, <1>6 DEF Chain, Carried, Kept
<1>. QED
  BY <1>3, <1>4, <1>7, <1>8, <1>9, <1>10, <1>11, <1>12, <1>13 DEF Chain

(* push_data returns: the data counts as pushed.                           *)
LEMMA PushReturnKeeps ==
  ASSUME TypeOK, NEW q, NEW n \in Nat, n = Len(q), NEW p \in Pushers, Chain(q, p), ~fault,
         PushReturn(p), ~met'
  PROVE  ~met /\ ~fault' /\ Chain(q, p)'
<1>1. /\ pc[p] = "returnPush"
      /\ Popper \in Threads /\ Popper \notin Pushers /\ p \in Threads
      /\ q \in Seq(Nodes) /\ Len(q) \in Nat /\ NULL \notin Nodes
  BY Actors, NodeAssumption DEF PushReturn, Go, Chain, Owned
<1>2. Meet(p) /\ pc' = [pc EXCEPT ![p] = "idle"]
  BY DEF PushReturn, Go
<1>3. /\ UNCHANGED <<length, front, rear, heap, next, data, node, count, items, popped,
                     freed, fault>>
      /\ pushed' = Append(pushed, data[node[p]])
  BY DEF PushReturn, list, memory
<1>4. ~met /\ (pc[Popper] \in {"idle", "done"} \/ ~Short)
  BY <1>2, PushCalm
<1>5. /\ pc'[p] = "idle"
      /\ \A u \in Threads : u # p => pc'[u] = pc[u]
  BY <1>1, <1>2 DEF TypeOK
<1>6. /\ Pushing(p) /\ ~Pushing(p)'
      /\ pc'[Popper] = pc[Popper] /\ Popping' = Popping
      /\ pc[Popper] \notin {"idle", "free", "done"} => Popping
  BY <1>1, <1>5, Actors DEF Pushing, Popping, PushSteps
<1>7. data[node[p]] = data[q[Len(q)]] /\ Len(q) # 0 /\ data[node[p]] \in 0..MaxItems
  BY <1>6, PushPlace DEF TypeOK
<1>8. /\ Len(pushed') = Len(pushed) + 1 /\ Len(pushed) \in Nat
      /\ \A i \in 1..Len(pushed) : pushed'[i] = pushed[i]
      /\ pushed'[Len(pushed) + 1] = data[node[p]]
  BY <1>3
<1>9. Len(popped) \in Nat
  OBVIOUS
<1>10. Kept(q, p) = Len(q) - 1 /\ Kept(q, p)' = Len(q)
  BY <1>6 DEF Kept
<1>11. pc'[Popper] \notin {"free", "done"} => Carried(q, p)
  BY <1>6 DEF Chain
<1>12. ASSUME Carried(q, p)
      PROVE  /\ Len(pushed') = Len(popped) + Len(q)
             /\ \A i \in 1..Len(popped) : pushed'[i] = popped[i]
             /\ pushed'[Len(popped) + Len(q)] = data[q[Len(q)]]
             /\ \A i \in 1..(Len(q) - 1) : pushed'[Len(popped) + i] = data[q[i]]
  BY <1>3, <1>7, <1>10, <1>12 DEF Carried
<1>13. \A i \in 1..n : i = n \/ i \in 1..(n - 1)
  BY <1>1
<1>14. ASSUME Carried(q, p)
      PROVE  \A i \in 1..n : pushed'[Len(popped) + i] = data[q[i]]
  BY <1>12, <1>13, <1>14
<1>15. Turns(p)'
  BY <1>2, <1>3, <1>6 DEF Chain, Turns
<1>16. Owned(q)'
  BY <1>3 DEF Chain, Owned
<1>17. Links(q, p)'
  BY <1>1, <1>3 DEF Chain, Links
<1>18. Ends(q, p)'
  BY <1>1, <1>2, <1>3, <1>4, <1>5, <1>6, <1>7, <1>8, <1>9, <1>10, <1>11, <1>12, <1>13, <1>14
     DEF Chain, Ends, Placed
<1>19. Placed(q, p)'
  BY <1>3, <1>5, <1>6 DEF Chain, Placed
<1>20. Exclusive => Counted(q, p)'
  BY <1>1, <1>3, <1>5, <1>6 DEF Chain, Counted
<1>21. pc'[Popper] \notin {"free", "done"} => Carried(q, p)'
  BY <1>1, <1>2, <1>3, <1>4, <1>5, <1>6, <1>8, <1>10, <1>11, <1>12, <1>14
     DEF Chain, Carried, Kept, Turns
<1>. QED
  BY <1>3, <1>4, <1>15, <1>16, <1>17, <1>18, <1>19, <1>20, <1>21 DEF Chain

(* front == rear: exactly if the chain has one node and nobody pushes.     *)
LEMMA PopTestOneKeeps ==
  ASSUME TypeOK, NEW q, NEW n \in Nat, n = Len(q), NEW p \in Threads, Chain(q, p), ~fault,
         PopTestOne(Popper), ~met'
  PROVE  ~met /\ ~fault' /\ Chain(q, p)'
<1>1. /\ pc[Popper] = "testOne"
      /\ Popper \in Threads /\ Popper \notin Pushers /\ p \in Threads
      /\ q \in Seq(Nodes) /\ Len(q) \in Nat /\ NULL \notin Nodes
      /\ ~Pushing(p) \/ p # Popper
  BY Actors, NodeAssumption DEF PopTestOne, Go, Chain, Owned
<1>2. /\ Meet(Popper)
      /\ pc' = [pc EXCEPT ![Popper] = IF front = rear THEN "clearFront"
                                        ELSE "advance"]
  BY DEF PopTestOne, Go
<1>3. /\ UNCHANGED <<length, front, rear, heap, next, data, node, count, items, pushed,
                     popped, freed, fault>>
  BY DEF PopTestOne, list, memory
<1>4. ~met /\ (~Pushing(p) \/ ~Short)
  BY <1>2, PopCalm
<1>5. /\ pc'[Popper] = IF front = rear THEN "clearFront" ELSE "advance"
      /\ \A u \in Threads : u # Popper => pc'[u] = pc[u]
  BY <1>1, <1>2 DEF TypeOK
<1>6. /\ Popping /\ Popping'
      /\ Pushing(p)' = Pushing(p)
      /\ p # Popper => pc'[p] = pc[p]
  BY <1>1, <1>5 DEF Pushing, Popping, PushSteps, PopSteps
<1>7. rear = q[Len(q)] \/ (rear = q[Len(q) - 1] /\ Len(q) >= 3)
  BY <1>1, PopPlace
<1>8. \A i \in 1..Len(q) : q[1] = q[i] => i = 1
  BY DEF Chain, Owned
<1>9. Len(q) \in 1..Len(q) /\ (Len(q) >= 3 => Len(q) - 1 \in 1..Len(q))
  BY <1>1, PopPlace
<1>10. front = rear => Len(q) = 1
  BY <1>8, <1>1, PopPlace
<1>11. front = rear => ~Pushing(p)
  BY <1>4 DEF Short
<1>12. front # rear => Len(q) >= 2
  BY <1>1, PopPlace
<1>13. Turns(p)'
  BY <1>1, <1>2, <1>3, <1>6 DEF Chain, Turns
<1>14. Owned(q)'
  BY <1>3 DEF Chain, Owned
<1>15. Links(q, p)'
  BY <1>1, <1>3, <1>6 DEF Chain, Links
<1>16. Ends(q, p)'
  BY <1>1, <1>3, <1>5 DEF Chain, Ends
<1>17. Placed(q, p)'
  BY <1>3, <1>5, <1>6, <1>10, <1>12 DEF Chain, Placed
<1>18. Exclusive => Counted(q, p)'
  BY <1>1, <1>3, <1>5, <1>6 DEF Chain, Counted
<1>19. pc'[Popper] \notin {"free", "done"} => Carried(q, p)'
  BY <1>1, <1>3, <1>6, <1>8 DEF Chain, Carried, Kept
<1>. QED
  BY <1>3, <1>4, <1>13, <1>14, <1>15, <1>16, <1>17, <1>18, <1>19 DEF Chain

(* queue->front = NULL, the node having been the only one.                 *)
LEMMA PopClearFrontKeeps ==
  ASSUME TypeOK, NEW q, NEW n \in Nat, n = Len(q), NEW p \in Threads, Chain(q, p), ~fault,
         PopClearFront(Popper), ~met'
  PROVE  ~met /\ ~fault' /\ Chain(q, p)'
<1>1. /\ pc[Popper] = "clearFront"
      /\ Popper \in Threads /\ Popper \notin Pushers /\ p \in Threads
      /\ q \in Seq(Nodes) /\ Len(q) \in Nat /\ NULL \notin Nodes
      /\ ~Pushing(p) \/ p # Popper
  BY Actors, NodeAssumption DEF PopClearFront, Go, Chain, Owned
<1>2. Meet(Popper) /\ pc' = [pc EXCEPT ![Popper] = "clearRear"]
  BY DEF PopClearFront, Go
<1>3. /\ UNCHANGED <<length, rear, heap, next, data, node, count, items, pushed, popped,
                     freed, fault>>
      /\ front' = NULL
  BY DEF PopClearFront, memory
<1>4. ~met /\ (~Pushing(p) \/ ~Short)
  BY <1>2, PopCalm
<1>5. /\ pc'[Popper] = "clearRear"
      /\ \A u \in Threads : u # Popper => pc'[u] = pc[u]
  BY <1>1, <1>2 DEF TypeOK
<1>6. /\ Popping /\ Popping'
      /\ Pushing(p)' = Pushing(p)
      /\ p # Popper => pc'[p] = pc[p]
  BY <1>1, <1>5 DEF Pushing, Popping, PushSteps, PopSteps
<1>7. Turns(p)'
  BY <1>1, <1>2, <1>3, <1>6 DEF Chain, Turns
<1>8. Owned(q)'
  BY <1>3 DEF Chain, Owned
<1>9. Links(q, p)'
  BY <1>1, <1>3, <1>6 DEF Chain, Links
<1>10. Ends(q, p)'
  BY <1>1, <1>3, <1>5 DEF Chain, Ends
<1>11. Placed(q, p)'
  BY <1>1, <1>2, <1>3, <1>4, <1>5, <1>6 DEF Chain, Placed, Short
<1>12. Exclusive => Counted(q, p)'
  BY <1>1, <1>3, <1>5, <1>6 DEF Chain, Counted
<1>13. pc'[Popper] \notin {"free", "done"} => Carried(q, p)'
  BY <1>1, <1>3, <1>4, <1>6 DEF Chain, Carried, Kept
<1>. QED
  BY <1>3, <1>4, <1>7, <1>8, <1>9, <1>10, <1>11, <1>12, <1>13 DEF Chain

(* queue->rear = NULL.                                                     *)
LEMMA PopClearRearKeeps ==
  ASSUME TypeOK, NEW q, NEW n \in Nat, n = Len(q), NEW p \in Threads, Chain(q, p), ~fault,
         PopClearRear(Popper), ~met'
  PROVE  ~met /\ ~fault' /\ Chain(q, p)'
<1>1. /\ pc[Popper] = "clearRear"
      /\ Popper \in Threads /\ Popper \notin Pushers /\ p \in Threads
      /\ q \in Seq(Nodes) /\ Len(q) \in Nat /\ NULL \notin Nodes
      /\ ~Pushing(p) \/ p # Popper
  BY Actors, NodeAssumption DEF PopClearRear, Go, Chain, Owned
<1>2. Meet(Popper) /\ pc' = [pc EXCEPT ![Popper] = "clearLength"]
  BY DEF PopClearRear, Go
<1>3. /\ UNCHANGED <<length, front, heap, next, data, node, count, items, pushed, popped,
                     freed, fault>>
      /\ rear' = NULL
  BY DEF PopClearRear, memory
<1>4. ~met /\ (~Pushing(p) \/ ~Short)
  BY <1>2, PopCalm
<1>5. /\ pc'[Popper] = "clearLength"
      /\ \A u \in Threads : u # Popper => pc'[u] = pc[u]
  BY <1>1, <1>2 DEF TypeOK
<1>6. /\ Popping /\ Popping'
      /\ Pushing(p)' = Pushing(p)
      /\ p # Popper => pc'[p] = pc[p]
  BY <1>1, <1>5 DEF Pushing, Popping, PushSteps, PopSteps
<1>7. Turns(p)'
  BY <1>1, <1>2, <1>3, <1>6 DEF Chain, Turns
<1>8. Owned(q)'
  BY <1>3 DEF Chain, Owned
<1>9. Links(q, p)'
  BY <1>1, <1>3, <1>6 DEF Chain, Links
<1>10. Ends(q, p)'
  BY <1>1, <1>3, <1>5 DEF Chain, Ends
<1>11. Placed(q, p)'
  BY <1>1, <1>2, <1>3, <1>4, <1>5, <1>6 DEF Chain, Placed, Short
<1>12. Exclusive => Counted(q, p)'
  BY <1>1, <1>3, <1>5, <1>6 DEF Chain, Counted
<1>13. pc'[Popper] \notin {"free", "done"} => Carried(q, p)'
  BY <1>1, <1>3, <1>4, <1>6 DEF Chain, Carried, Kept
<1>. QED
  BY <1>3, <1>4, <1>7, <1>8, <1>9, <1>10, <1>11, <1>12, <1>13 DEF Chain

(* queue->length = 0.                                                      *)
LEMMA PopClearLengthKeeps ==
  ASSUME TypeOK, NEW q, NEW n \in Nat, n = Len(q), NEW p \in Threads, Chain(q, p), ~fault,
         PopClearLength(Popper), ~met'
  PROVE  ~met /\ ~fault' /\ Chain(q, p)'
<1>1. /\ pc[Popper] = "clearLength"
      /\ Popper \in Threads /\ Popper \notin Pushers /\ p \in Threads
      /\ q \in Seq(Nodes) /\ Len(q) \in Nat /\ NULL \notin Nodes
      /\ ~Pushing(p) \/ p # Popper
  BY Actors, NodeAssumption DEF PopClearLength, Go, Chain, Owned
<1>2. Meet(Popper) /\ pc' = [pc EXCEPT ![Popper] = "return"]
  BY DEF PopClearLength, Go
<1>3. /\ UNCHANGED <<front, rear, heap, next, data, node, count, items, pushed, popped,
                     freed, fault>>
      /\ length' = 0
  BY DEF PopClearLength, memory
<1>4. ~met /\ (~Pushing(p) \/ ~Short)
  BY <1>2, PopCalm
<1>5. /\ pc'[Popper] = "return"
      /\ \A u \in Threads : u # Popper => pc'[u] = pc[u]
  BY <1>1, <1>2 DEF TypeOK
<1>6. /\ Popping /\ Popping'
      /\ Pushing(p)' = Pushing(p)
      /\ p # Popper => pc'[p] = pc[p]
  BY <1>1, <1>5 DEF Pushing, Popping, PushSteps, PopSteps
<1>7. n = 1
  BY <1>1 DEF Chain, Placed
<1>8. length' = n - 1 /\ pc'[Popper] = "return"
  BY <1>3, <1>5, <1>7
<1>9. Exclusive => pc'[p] # "writeLength"
  BY <1>1, <1>6 DEF Chain, Turns, Pushing, PushSteps
<1>10. Turns(p)'
  BY <1>1, <1>2, <1>3, <1>6 DEF Chain, Turns
<1>11. Owned(q)'
  BY <1>3 DEF Chain, Owned
<1>12. Links(q, p)'
  BY <1>3, <1>8 DEF Chain, Links
<1>13. Ends(q, p)'
  BY <1>1, <1>3, <1>8 DEF Chain, Ends
<1>14. Placed(q, p)'
  BY <1>3, <1>6, <1>8 DEF Chain, Placed
<1>15. Exclusive => Counted(q, p)'
  BY <1>8, <1>9 DEF Counted
<1>16. pc'[Popper] \notin {"free", "done"} => Carried(q, p)'
  BY <1>1, <1>3, <1>6 DEF Chain, Carried, Kept
<1>. QED
  BY <1>3, <1>4, <1>10, <1>11, <1>12, <1>13, <1>14, <1>15, <1>16 DEF Chain

(* queue->front = front->next: front is allocated and not the last node.   *)
LEMMA PopAdvanceKeeps ==
  ASSUME TypeOK, NEW q, NEW n \in Nat, n = Len(q), NEW p \in Threads, Chain(q, p), ~fault,
         PopAdvance(Popper), ~met'
  PROVE  ~met /\ ~fault' /\ Chain(q, p)'
<1>1. /\ pc[Popper] = "advance"
      /\ Popper \in Threads /\ Popper \notin Pushers /\ p \in Threads
      /\ q \in Seq(Nodes) /\ Len(q) \in Nat /\ NULL \notin Nodes
      /\ ~Pushing(p) \/ p # Popper
  BY Actors, NodeAssumption DEF PopAdvance, Chain, Owned
<1>2. Valid(front)
  BY <1>1 DEF Chain, Owned, Placed, Ends, Valid
<1>3. Meet(Popper) /\ pc' = [pc EXCEPT ![Popper] = "readLengthPop"]
  BY <1>2 DEF PopAdvance, Go
<1>4. /\ UNCHANGED <<length, rear, heap, next, data, node, count, items, pushed, popped,
                     freed, fault>>
      /\ front' = next[front]
  BY <1>2 DEF PopAdvance, memory
<1>5. ~met /\ (~Pushing(p) \/ ~Short)
  BY <1>3, PopCalm
<1>6. /\ pc'[Popper] = "readLengthPop"
      /\ \A u \in Threads : u # Popper => pc'[u] = pc[u]
  BY <1>1, <1>3 DEF TypeOK
<1>7. /\ Popping /\ Popping'
      /\ Pushing(p)' = Pushing(p)
      /\ p # Popper => pc'[p] = pc[p]
  BY <1>1, <1>6 DEF Pushing, Popping, PushSteps, PopSteps
<1>8. Len(q) >= 2 /\ front = q[1]
  BY <1>1, PopPlace DEF Chain, Placed
<1>9. front # rear \/ ~Pushing(p)
  BY <1>5 DEF Short
<1>10. next[q[1]] = q[2]
  BY <1>1, <1>8, PopPlace DEF Chain, Links
<1>11. Turns(p)'
  BY <1>1, <1>3, <1>4, <1>7 DEF Chain, Turns
<1>12. Owned(q)'
  BY <1>4 DEF Chain, Owned
<1>13. Links(q, p)'
  BY <1>1, <1>4, <1>7 DEF Chain, Links
<1>14. Ends(q, p)'
  BY <1>1, <1>3, <1>4, <1>6, <1>7, <1>8, <1>9, <1>10 DEF Chain, Ends
<1>15. Placed(q, p)'
  BY <1>4, <1>6, <1>7, <1>8 DEF Chain, Placed
<1>16. Exclusive => Counted(q, p)'
  BY <1>1, <1>4, <1>6, <1>7 DEF Chain, Counted
<1>17. pc'[Popper] \notin {"free", "done"} => Carried(q, p)'
  BY <1>1, <1>4, <1>5, <1>7, <1>10 DEF Chain, Carried, Kept
<1>. QED
  BY <1>4, <1>5, <1>11, <1>12, <1>13, <1>14, <1>15, <1>16, <1>17 DEF Chain

(* The load of queue->length--.                                            *)
LEMMA PopReadLengthKeeps ==
  ASSUME TypeOK, NEW q, NEW n \in Nat, n = Len(q), NEW p \in Threads, Chain(q, p), ~fault,
         PopReadLength(Popper), ~met'
  PROVE  ~met /\ ~fault' /\ Chain(q, p)'
<1>1. /\ pc[Popper] = "readLengthPop"
      /\ Popper \in Threads /\ Popper \notin Pushers /\ p \in Threads
      /\ q \in Seq(Nodes) /\ Len(q) \in Nat /\ NULL \notin Nodes
      /\ ~Pushing(p) \/ p # Popper
  BY Actors, NodeAssumption DEF PopReadLength, Go, Chain, Owned
<1>2. Meet(Popper) /\ pc' = [pc EXCEPT ![Popper] = "writeLengthPop"]
  BY DEF PopReadLength, Go
<1>3. /\ UNCHANGED <<length, front, rear, heap, next, data, node, items, pushed, popped,
                     freed, fault>>
      /\ count' = [count EXCEPT ![Popper] = length]
  BY DEF PopReadLength, list, memory
<1>4. ~met /\ (~Pushing(p) \/ ~Short)
  BY <1>2, PopCalm
<1>5. /\ pc'[Popper] = "writeLengthPop"
      /\ \A u \in Threads : u # Popper => pc'[u] = pc[u]
  BY <1>1, <1>2 DEF TypeOK
<1>6. /\ Popping /\ Popping'
      /\ Pushing(p)' = Pushing(p)
      /\ p # Popper => pc'[p] = pc[p]
  BY <1>1, <1>5 DEF Pushing, Popping, PushSteps, PopSteps
<1>7. Turns(p)'
  BY <1>1, <1>2, <1>3, <1>6 DEF Chain, Turns
<1>8. Owned(q)'
  BY <1>3 DEF Chain, Owned
<1>9. Links(q, p)'
  BY <1>1, <1>3, <1>6 DEF Chain, Links
<1>10. Ends(q, p)'
  BY <1>1, <1>3, <1>5 DEF Chain, Ends, Placed
<1>11. Placed(q, p)'
  BY <1>1, <1>3, <1>5, <1>6 DEF Chain, Placed
<1>12. Exclusive => Counted(q, p)'
  BY <1>1, <1>3, <1>5, <1>6 DEF Chain, TypeOK, Counted
<1>13. pc'[Popper] \notin {"free", "done"} => Carried(q, p)'
  BY <1>1, <1>3, <1>6 DEF Chain, Carried, Kept
<1>. QED
  BY <1>3, <1>4, <1>7, <1>8, <1>9, <1>10, <1>11, <1>12, <1>13 DEF Chain

(* The store of queue->length--.                                           *)
LEMMA PopWriteLengthKeeps ==
  ASSUME TypeOK, NEW q, NEW n \in Nat, n = Len(q), NEW p \in Threads, Chain(q, p), ~fault,
         PopWriteLength(Popper), ~met'
  PROVE  ~met /\ ~fault' /\ Chain(q, p)'
<1>1. /\ pc[Popper] = "writeLengthPop"
      /\ Popper \in Threads /\ Popper \notin Pushers /\ p \in Threads
      /\ q \in Seq(Nodes) /\ Len(q) \in Nat /\ NULL \notin Nodes
      /\ ~Pushing(p) \/ p # Popper
  BY Actors, NodeAssumption DEF PopWriteLength, Go, Chain, Owned
<1>2. Meet(Popper) /\ pc' = [pc EXCEPT ![Popper] = "return"]
  BY DEF PopWriteLength, Go
<1>3. /\ UNCHANGED <<front, rear, heap, next, data, node, count, items, pushed, popped,
                     freed, fault>>
      /\ length' = count[Popper] - 1
  BY DEF PopWriteLength, memory
<1>4. ~met /\ (~Pushing(p) \/ ~Short)
  BY <1>2, PopCalm
<1>5. /\ pc'[Popper] = "return"
      /\ \A u \in Threads : u # Popper => pc'[u] = pc[u]
  BY <1>1, <1>2 DEF TypeOK
<1>6. /\ Popping /\ Popping'
      /\ Pushing(p)' = Pushing(p)
      /\ p # Popper => pc'[p] = pc[p]
  BY <1>1, <1>5 DEF Pushing, Popping, PushSteps, PopSteps
<1>7. Exclusive => length = n /\ count[Popper] = n
  BY <1>1 DEF Chain, Counted, Turns
<1>8. Exclusive => pc'[p] # "writeLength"
  BY <1>1, <1>6 DEF Chain, Turns, Pushing, PushSteps
<1>9. Exclusive => length' = n - 1 /\ pc'[Popper] = "return"
  BY <1>7, <1>3, <1>5
<1>10. Len(q) >= 2
  BY <1>1 DEF Chain, Placed
<1>11. Turns(p)'
  BY <1>1, <1>2, <1>3, <1>6 DEF Chain, Turns
<1>12. Owned(q)'
  BY <1>3 DEF Chain, Owned
<1>13. Links(q, p)'
  BY <1>1, <1>3, <1>6 DEF Chain, Links
<1>14. Ends(q, p)'
  BY <1>1, <1>2, <1>3, <1>4, <1>5, <1>6, <1>7, <1>8, <1>9, <1>10 DEF Chain, Ends, Placed
<1>15. Placed(q, p)'
  BY <1>3, <1>5, <1>6 DEF Chain, Placed
<1>16. Exclusive => Counted(q, p)'
  BY <1>8, <1>9 DEF Counted
<1>17. pc'[Popper] \notin {"free", "done"} => Carried(q, p)'
  BY <1>1, <1>3, <1>6, <1>10 DEF Chain, Carried, Kept
<1>. QED
  BY <1>3, <1>4, <1>11, <1>12, <1>13, <1>14, <1>15, <1>16, <1>17 DEF Chain

-----------------------------------------------------------------------------
(* Types.                                                                  *)

(* A thread takes the steps of its own routines.                           *)
LEMMA WhoMoves ==
  ASSUME TypeOK, NEW t \in Threads
  PROVE  /\ Push(t) => t \in Pushers
         /\ Pop(t) \/ FreeQueue(t) => t = Popper
<1>1. ASSUME Push(t) PROVE t \in Pushers
  <2>1. t \in Pushers \/ pc[t] \in PushSteps
    BY <1>1
       DEF Push, PushStart, PushNoMemory, PushSetFront, PushTestRear, PushLink, PushSetRear,
           PushReadLength, PushWriteLength, PushReturn, Go, PushSteps
  <2>. QED
    BY <2>1, Actors DEF Pushing
<1>2. ASSUME Pop(t) \/ FreeQueue(t) PROVE t = Popper
  <2>1. t = Popper \/ pc[t] \in PopSteps \cup {"free"}
    BY <1>2
       DEF Pop, FreeQueue, PopStart, PopTestOne, PopClearFront, PopClearRear,
           PopClearLength, PopAdvance, PopReadLength, PopWriteLength, PopReturn, FreeStart,
           FreeNode, FreeDone, Go, PopSteps
  <2>2. pc[t] \notin PushSteps \cup {"idle"} => t \notin Pushers
    BY Actors
  <2>3. \A x \in PopSteps \cup {"free"} : x \notin PushSteps \cup {"idle"}
    BY DEF PopSteps, PushSteps
  <2>. QED
    BY <2>1, <2>2, <2>3 DEF Threads
<1>. QED
  BY <1>1, <1>2

(* A thread that moves on stays within its routines.                       *)
LEMMA MoveTypes ==
  ASSUME TypeOK, NEW t \in Threads, NEW x, pc' = [pc EXCEPT ![t] = x],
         t \in Pushers => x \in PushSteps \cup {"idle"},
         t = Popper => x \in PopSteps \cup {"idle", "free", "done"}
  PROVE  /\ pc' \in [Threads -> PCs] /\ pc'[t] = x
         /\ \A u \in Pushers : pc'[u] \in PushSteps \cup {"idle"}
         /\ pc'[Popper] \in PopSteps \cup {"idle", "free", "done"}
         /\ \A u \in Pushers : u # t => pc'[u] = pc[u]
<1>1. x \in PCs
  BY DEF Threads, PCs, PushSteps, PopSteps
<1>2. \A u \in Threads : pc'[u] = IF u = t THEN x ELSE pc[u]
  BY DEF TypeOK
<1>. QED
  BY <1>1, <1>2, Actors DEF TypeOK

(* A step inside a call keeps the types.                                   *)
LEMMA StepTypes ==
  ASSUME TypeOK, NEW t \in Threads, NEW x,
         pc' = [pc EXCEPT ![t] = x],
         t \in Pushers => x \in PushSteps \cup {"idle"},
         t = Popper => x \in PopSteps \cup {"idle", "free", "done"},
         t \in Pushers => pc[t] # "idle",
         front' \in Nodes \cup {NULL}, rear' \in Nodes \cup {NULL}, length' \in Int,
         heap' \subseteq Nodes, next' \in [Nodes -> Nodes \cup {NULL}],
         UNCHANGED <<data, items, fault>>,
         node' = node \/ (t = Popper /\ node' = [node EXCEPT ![t] = front]),
         count' \in [Threads -> Int],
         pushed' \in Seq(0..MaxItems), popped' \in Seq(0..MaxItems),
         freed' \in BOOLEAN, met' \in BOOLEAN
  PROVE  TypeOK'
<1>1. /\ pc' \in [Threads -> PCs] /\ pc'[t] = x
      /\ \A u \in Pushers : pc'[u] \in PushSteps \cup {"idle"}
      /\ pc'[Popper] \in PopSteps \cup {"idle", "free", "done"}
      /\ \A u \in Pushers : u # t => pc'[u] = pc[u]
  BY MoveTypes
<1>2. /\ node' \in [Threads -> Nodes \cup {NULL}]
      /\ \A u \in Pushers : node'[u] = node[u]
  BY Actors DEF TypeOK
<1>3. \A u \in Pushers : pc'[u] # "idle" => node'[u] \in Nodes
  BY <1>1, <1>2 DEF TypeOK
<1>4. data' \in [Nodes -> 0..MaxItems] /\ items' \in 0..MaxItems /\ fault' \in BOOLEAN
  BY DEF TypeOK
<1>. QED
  BY <1>1, <1>2, <1>3, <1>4 DEF TypeOK

(* met stays a truth value.                                                *)
LEMMA MetTypes ==
  ASSUME TypeOK, NEW t \in Threads, Meet(t)
  PROVE  met' \in BOOLEAN
<1>1. Short \in BOOLEAN
  BY DEF Short
<1>2. Busy(t) \in BOOLEAN
  BY DEF Busy
<1>3. met \in BOOLEAN
  BY DEF TypeOK
<1>. QED
  BY <1>1, <1>2, <1>3 DEF Meet

(* So do the types when the behaviour becomes undefined.                   *)
LEMMA FaultTypes ==
  ASSUME TypeOK, Fault
  PROVE  TypeOK'
<1>1. /\ UNCHANGED <<front, rear, length, heap, next, data, pc, node, count, items, pushed,
                     popped, met, freed>>
      /\ fault'
  BY DEF Fault, list, memory, local, history
<1>2. fault' \in BOOLEAN
  BY DEF Fault
<1>. QED
  BY <1>1, <1>2 DEF TypeOK

(* A push that starts keeps the types.                                     *)
LEMMA PushStartTypes ==
  ASSUME TypeOK, NEW t \in Pushers, PushStart(t)
  PROVE  TypeOK'
<1>1. PICK m \in Nodes \ heap :
        /\ heap' = heap \cup {m}
        /\ data' = [data EXCEPT ![m] = items + 1]
        /\ next' = [next EXCEPT ![m] = NULL]
        /\ node' = [node EXCEPT ![t] = m]
  BY DEF PushStart
<1>2. /\ UNCHANGED <<front, rear, length, count, pushed, popped, freed, fault>>
      /\ items' = items + 1 /\ items < MaxItems /\ t \in Threads /\ Meet(t)
  BY DEF PushStart, list, Threads
<1>. DEFINE x == IF front = NULL THEN "setFront" ELSE "testRear"
<1>3. pc' = [pc EXCEPT ![t] = x]
  BY DEF PushStart, Go
<1>4. x \in PushSteps /\ t # Popper
  BY Actors DEF PushSteps
<1>. HIDE DEF x
<1>5. /\ pc' \in [Threads -> PCs]
      /\ \A u \in Pushers : pc'[u] \in PushSteps \cup {"idle"}
      /\ pc'[Popper] \in PopSteps \cup {"idle", "free", "done"}
      /\ \A u \in Pushers : u # t => pc'[u] = pc[u]
  BY <1>2, <1>3, <1>4, MoveTypes
<1>6. items + 1 \in 0..MaxItems
  BY <1>2, ModeAssumption DEF TypeOK
<1>7. /\ heap' \subseteq Nodes /\ next' \in [Nodes -> Nodes \cup {NULL}]
      /\ data' \in [Nodes -> 0..MaxItems] /\ node' \in [Threads -> Nodes \cup {NULL}]
      /\ \A u \in Pushers : node'[u] = IF u = t THEN m ELSE node[u]
  BY <1>1, <1>6, Actors DEF TypeOK
<1>8. \A u \in Pushers : pc'[u] # "idle" => node'[u] \in Nodes
  BY <1>1, <1>5, <1>7 DEF TypeOK
<1>9. met' \in BOOLEAN
  BY <1>2, MetTypes
<1>. QED
  BY <1>2, <1>5, <1>6, <1>7, <1>8, <1>9 DEF TypeOK

(* Every step of a push keeps the types.                                   *)
LEMMA PushTypes ==
  ASSUME TypeOK, NEW t \in Pushers, Push(t)
  PROVE  TypeOK'
<1>1. /\ t \in Threads /\ t # Popper /\ node[t] \in Nodes \cup {NULL}
      /\ (Meet(t) => met' \in BOOLEAN)
  BY Actors, MetTypes DEF TypeOK
<1>2. \A x \in PushSteps : x # "idle"
  BY DEF PushSteps
<1>3. /\ "setFront" \in PushSteps /\ "testRear" \in PushSteps /\ "link" \in PushSteps
      /\ "setRear" \in PushSteps /\ "readLength" \in PushSteps /\ "writeLength" \in PushSteps
      /\ "returnPush" \in PushSteps
  BY DEF PushSteps
<1>4. /\ front \in Nodes \cup {NULL} /\ rear \in Nodes \cup {NULL} /\ length \in Int
      /\ heap \subseteq Nodes /\ next \in [Nodes -> Nodes \cup {NULL}]
      /\ data \in [Nodes -> 0..MaxItems] /\ count \in [Threads -> Int]
      /\ pushed \in Seq(0..MaxItems) /\ popped \in Seq(0..MaxItems) /\ freed \in BOOLEAN
  BY DEF TypeOK
<1>5. CASE PushStart(t)
  BY <1>5, PushStartTypes
<1>6. CASE PushNoMemory(t)
  <2>1. /\ UNCHANGED <<front, rear, length, heap, next, data, pc, node, count, pushed,
                       popped, met, freed, fault>>
        /\ items' \in 0..MaxItems
    BY <1>6, ModeAssumption DEF PushNoMemory, list, memory, local, TypeOK
  <2>. QED
    BY <2>1 DEF TypeOK
<1>7. CASE PushSetFront(t)
  <2>1. /\ pc' = [pc EXCEPT ![t] = "testRear"] /\ pc[t] # "idle" /\ Meet(t) /\ front' = node[t]
        /\ UNCHANGED <<rear, length, heap, next, data, node, count, items, pushed, popped,
                       freed, fault>>
    BY <1>7 DEF PushSetFront, Go, memory
  <2>. QED
    BY <1>1, <1>3, <1>4, <2>1, StepTypes
<1>8. CASE PushTestRear(t)
  <2>. DEFINE x == IF rear = NULL THEN "setRear" ELSE "link"
  <2>1. /\ pc' = [pc EXCEPT ![t] = x] /\ pc[t] # "idle" /\ Meet(t)
        /\ UNCHANGED <<front, rear, length, heap, next, data, node, count, items, pushed,
                       popped, freed, fault>>
    BY <1>8 DEF PushTestRear, Go, memory, list
  <2>2. x \in PushSteps
    BY <1>3
  <2>. HIDE DEF x
  <2>. QED
    BY <1>1, <1>4, <2>1, <2>2, StepTypes
<1>9. CASE PushLink(t)
  <2>1. CASE Valid(rear)
    <3>1. /\ pc' = [pc EXCEPT ![t] = "setRear"] /\ pc[t] # "idle" /\ Meet(t)
          /\ next' = [next EXCEPT ![rear] = node[t]]
          /\ UNCHANGED <<front, rear, length, heap, data, node, count, items, pushed,
                         popped, freed, fault>>
      BY <1>9, <2>1 DEF PushLink, Go, list
    <3>2. next' \in [Nodes -> Nodes \cup {NULL}]
      BY <1>1, <1>4, <3>1
    <3>. QED
      BY <1>1, <1>3, <1>4, <3>1, <3>2, StepTypes
  <2>2. CASE ~Valid(rear)
    BY <1>9, <2>2, FaultTypes DEF PushLink
  <2>. QED
    BY <2>1, <2>2
<1>10. CASE PushSetRear(t)
  <2>1. /\ pc' = [pc EXCEPT ![t] = "readLength"] /\ pc[t] # "idle" /\ Meet(t) /\ rear' = node[t]
        /\ UNCHANGED <<front, length, heap, next, data, node, count, items, pushed, popped,
                       freed, fault>>
    BY <1>10 DEF PushSetRear, Go, memory
  <2>. QED
    BY <1>1, <1>3, <1>4, <2>1, StepTypes
<1>11. CASE PushReadLength(t)
  <2>1. /\ pc' = [pc EXCEPT ![t] = "writeLength"] /\ pc[t] # "idle" /\ Meet(t)
        /\ count' = [count EXCEPT ![t] = length]
        /\ UNCHANGED <<front, rear, length, heap, next, data, node, items, pushed, popped,
                       freed, fault>>
    BY <1>11 DEF PushReadLength, Go, memory, list
  <2>2. count' \in [Threads -> Int]
    BY <1>4, <2>1
  <2>. QED
    BY <1>1, <1>3, <1>4, <2>1, <2>2, StepTypes
<1>12. CASE PushWriteLength(t)
  <2>1. /\ pc' = [pc EXCEPT ![t] = "returnPush"] /\ pc[t] # "idle" /\ Meet(t)
        /\ length' = count[t] + 1
        /\ UNCHANGED <<front, rear, heap, next, data, node, count, items, pushed, popped,
                       freed, fault>>
    BY <1>12 DEF PushWriteLength, Go, memory
  <2>2. length' \in Int
    BY <1>1, <1>4, <2>1
  <2>. QED
    BY <1>1, <1>3, <1>4, <2>1, <2>2, StepTypes
<1>13. CASE PushReturn(t)
  <2>1. /\ pc' = [pc EXCEPT ![t] = "idle"] /\ pc[t] = "returnPush" /\ Meet(t)
        /\ pushed' = Append(pushed, data[node[t]])
        /\ UNCHANGED <<front, rear, length, heap, next, data, node, count, items, popped,
                       freed, fault>>
    BY <1>13 DEF PushReturn, Go, memory, list
  <2>2. pushed' \in Seq(0..MaxItems)
    <3>1. node[t] \in Nodes
      BY <2>1 DEF TypeOK
    <3>. QED
      BY <1>4, <2>1, <3>1
  <2>. QED
    BY <1>1, <1>4, <2>1, <2>2, StepTypes
<1>. QED
  BY <1>5, <1>6, <1>7, <1>8, <1>9, <1>10, <1>11, <1>12, <1>13 DEF Push

(* Every step of a pop and of free_queue keeps the types.                  *)
LEMMA PopTypes ==
  ASSUME TypeOK, Pop(Popper) \/ FreeQueue(Popper)
  PROVE  TypeOK'
<1>1. /\ Popper \in Threads /\ Popper \notin Pushers /\ node[Popper] \in Nodes \cup {NULL}
      /\ (Meet(Popper) => met' \in BOOLEAN) /\ met \in BOOLEAN
  BY Actors, MetTypes DEF TypeOK
<1>3. /\ "testOne" \in PopSteps /\ "clearFront" \in PopSteps /\ "clearRear" \in PopSteps
      /\ "clearLength" \in PopSteps /\ "advance" \in PopSteps /\ "readLengthPop" \in PopSteps
      /\ "writeLengthPop" \in PopSteps /\ "return" \in PopSteps
  BY DEF PopSteps
<1>4. /\ front \in Nodes \cup {NULL} /\ rear \in Nodes \cup {NULL} /\ length \in Int
      /\ heap \subseteq Nodes /\ next \in [Nodes -> Nodes \cup {NULL}]
      /\ data \in [Nodes -> 0..MaxItems] /\ count \in [Threads -> Int]
      /\ pushed \in Seq(0..MaxItems) /\ popped \in Seq(0..MaxItems) /\ freed \in BOOLEAN
  BY DEF TypeOK
<1>5. CASE PopStart(Popper)
  <2>1. /\ pc' = [pc EXCEPT ![Popper] = "testOne"] /\ Meet(Popper)
        /\ node' = [node EXCEPT ![Popper] = front]
        /\ UNCHANGED <<front, rear, length, heap, next, data, count, items, pushed, popped,
                       freed, fault>>
    BY <1>5 DEF PopStart, Go, memory, list
  <2>. QED
    BY <1>1, <1>3, <1>4, <2>1, StepTypes
<1>6. CASE PopTestOne(Popper)
  <2>. DEFINE x == IF front = rear THEN "clearFront" ELSE "advance"
  <2>1. /\ pc' = [pc EXCEPT ![Popper] = x] /\ Meet(Popper)
        /\ UNCHANGED <<front, rear, length, heap, next, data, node, count, items, pushed,
                       popped, freed, fault>>
    BY <1>6 DEF PopTestOne, Go, memory, list
  <2>2. x \in PopSteps \cup {"idle", "free", "done"}
    BY <1>3
  <2>. HIDE DEF x
  <2>. QED
    BY <1>1, <1>4, <2>1, <2>2, StepTypes
<1>7. CASE PopClearFront(Popper)
  <2>1. /\ pc' = [pc EXCEPT ![Popper] = "clearRear"] /\ Meet(Popper) /\ front' = NULL
        /\ UNCHANGED <<rear, length, heap, next, data, node, count, items, pushed, popped,
                       freed, fault>>
    BY <1>7 DEF PopClearFront, Go, memory
  <2>. QED
    BY <1>1, <1>3, <1>4, <2>1, StepTypes
<1>8. CASE PopClearRear(Popper)
  <2>1. /\ pc' = [pc EXCEPT ![Popper] = "clearLength"] /\ Meet(Popper) /\ rear' = NULL
        /\ UNCHANGED <<front, length, heap, next, data, node, count, items, pushed, popped,
                       freed, fault>>
    BY <1>8 DEF PopClearRear, Go, memory
  <2>2. "clearLength" \in PopSteps \cup {"idle", "free", "done"} /\ rear' \in Nodes \cup {NULL}
    BY <1>3, <2>1
  <2>. QED
    BY <1>1, <1>4, <2>1, <2>2, StepTypes
<1>9. CASE PopClearLength(Popper)
  <2>1. /\ pc' = [pc EXCEPT ![Popper] = "return"] /\ Meet(Popper) /\ length' = 0
        /\ UNCHANGED <<front, rear, heap, next, data, node, count, items, pushed, popped,
                       freed, fault>>
    BY <1>9 DEF PopClearLength, Go, memory
  <2>2. "return" \in PopSteps \cup {"idle", "free", "done"} /\ length' \in Int
    BY <1>3, <2>1
  <2>. QED
    BY <1>1, <1>4, <2>1, <2>2, StepTypes
<1>10. CASE PopAdvance(Popper)
  <2>1. CASE Valid(front)
    <3>1. /\ pc' = [pc EXCEPT ![Popper] = "readLengthPop"] /\ Meet(Popper)
          /\ front' = next[front]
          /\ UNCHANGED <<rear, length, heap, next, data, node, count, items, pushed, popped,
                         freed, fault>>
      BY <1>10, <2>1 DEF PopAdvance, Go, memory
    <3>2. front' \in Nodes \cup {NULL}
      BY <1>4, <2>1, <3>1 DEF Valid
    <3>. QED
      BY <1>1, <1>3, <1>4, <3>1, <3>2, StepTypes
  <2>2. CASE ~Valid(front)
    BY <1>10, <2>2, FaultTypes DEF PopAdvance
  <2>. QED
    BY <2>1, <2>2
<1>11. CASE PopReadLength(Popper)
  <2>1. /\ pc' = [pc EXCEPT ![Popper] = "writeLengthPop"] /\ Meet(Popper)
        /\ count' = [count EXCEPT ![Popper] = length]
        /\ UNCHANGED <<front, rear, length, heap, next, data, node, items, pushed, popped,
                       freed, fault>>
    BY <1>11 DEF PopReadLength, Go, memory, list
  <2>2. count' \in [Threads -> Int]
    BY <1>4, <2>1
  <2>. QED
    BY <1>1, <1>3, <1>4, <2>1, <2>2, StepTypes
<1>12. CASE PopWriteLength(Popper)
  <2>1. /\ pc' = [pc EXCEPT ![Popper] = "return"] /\ Meet(Popper)
        /\ length' = count[Popper] - 1
        /\ UNCHANGED <<front, rear, heap, next, data, node, count, items, pushed, popped,
                       freed, fault>>
    BY <1>12 DEF PopWriteLength, Go, memory
  <2>2. length' \in Int
    BY <1>1, <1>4, <2>1
  <2>. QED
    BY <1>1, <1>3, <1>4, <2>1, <2>2, StepTypes
<1>13. CASE PopReturn(Popper)
  <2>1. CASE Valid(node[Popper])
    <3>1. /\ pc' = [pc EXCEPT ![Popper] = "idle"] /\ Meet(Popper)
          /\ popped' = Append(popped, data[node[Popper]])
          /\ heap' = heap \ {node[Popper]}
          /\ UNCHANGED <<front, rear, length, next, data, node, count, items, pushed, freed,
                         fault>>
      BY <1>13, <2>1 DEF PopReturn, Go, list
    <3>2. popped' \in Seq(0..MaxItems) /\ heap' \subseteq Nodes
      BY <1>4, <2>1, <3>1 DEF Valid
    <3>. QED
      BY <1>1, <1>3, <1>4, <3>1, <3>2, StepTypes
  <2>2. CASE ~Valid(node[Popper])
    BY <1>13, <2>2, FaultTypes DEF PopReturn
  <2>. QED
    BY <2>1, <2>2
<1>14. CASE FreeStart(Popper)
  <2>1. /\ pc' = [pc EXCEPT ![Popper] = "free"]
        /\ UNCHANGED <<front, rear, length, heap, next, data, node, count, items, pushed,
                       popped, met, freed, fault>>
    BY <1>14 DEF FreeStart, Go, memory, list, history
  <2>. QED
    BY <1>1, <1>3, <1>4, <2>1, StepTypes
<1>15. CASE FreeNode(Popper)
  <2>1. UNCHANGED <<next, data, pc, node, count, items, pushed, popped, met, freed, fault>>
    BY <1>15 DEF FreeNode, local, history
  <2>2. /\ front' \in Nodes \cup {NULL} /\ rear' \in Nodes \cup {NULL} /\ length' \in Int
        /\ heap' \subseteq Nodes
    <3>1. CASE front = NULL
      BY <1>4, <1>15, <3>1 DEF FreeNode
    <3>2. CASE front # NULL
      BY <1>4, <1>15, <3>2 DEF FreeNode
    <3>. QED
      BY <3>1, <3>2
  <2>. QED
    BY <2>1, <2>2 DEF TypeOK
<1>16. CASE FreeDone(Popper)
  <2>1. /\ pc' = [pc EXCEPT ![Popper] = "done"] /\ freed' = TRUE
        /\ UNCHANGED <<front, rear, length, heap, next, data, node, count, items, pushed,
                       popped, met, fault>>
    BY <1>16 DEF FreeDone, Go, memory, list, history
  <2>. QED
    BY <1>1, <1>3, <1>4, <2>1, StepTypes
<1>. QED
  BY <1>5, <1>6, <1>7, <1>8, <1>9, <1>10, <1>11, <1>12, <1>13, <1>14, <1>15, <1>16
     DEF Pop, FreeQueue

-----------------------------------------------------------------------------
(* The invariant and what follows from it.                                 *)

(* Callers that take turns do not meet.                                    *)
LEMMA TurnsCalm ==
  ASSUME TypeOK, Exclusive, NEW q, NEW p \in Threads, Chain(q, p), NEW t \in Threads,
         MayStart(t) \/ (t = p /\ Pushing(p)) \/ (t = Popper /\ Popping)
  PROVE  ~Busy(t)
<1>1. CASE MayStart(t)
  BY <1>1 DEF MayStart, Busy
<1>2. CASE t = p /\ Pushing(p)
  BY <1>2 DEF Busy, Chain, Turns, Threads
<1>3. CASE t = Popper /\ Popping
  <2>1. ~Pushing(p)
    BY <1>3 DEF Chain, Turns, Popping, PopSteps
  <2>2. \A u \in Pushers : pc[u] = "idle"
    BY <2>1, Actors DEF Chain, Turns, Pushing
  <2>. QED
    BY <1>3, <2>2 DEF Busy, Threads
<1>. QED
  BY <1>1, <1>2, <1>3

(* Every step of a push keeps some chain, unless it meets a pop on a short *)
(* list.                                                                   *)
LEMMA PushKeeps ==
  ASSUME TypeOK, Disciplined, NEW q, NEW p \in Threads, Chain(q, p), ~met, ~fault,
         NEW t \in Pushers, Push(t)
  PROVE  /\ Exclusive => ~met'
         /\ ~met' => ~fault' /\ \E r \in Seq(Nodes), u \in Threads : Chain(r, u)'
<1>. PICK n \in Nat : n = Len(q)
  BY DEF Chain, Owned
<1>0. q \in Seq(Nodes) /\ t \in Threads /\ t # Popper
  BY Actors DEF Chain, Owned
<1>1. CASE PushStart(t)
  <2>1. MayStart(t) /\ Meet(t)
    BY <1>1 DEF PushStart
  <2>2. Exclusive => ~met'
    BY <1>0, <2>1, TurnsCalm DEF Meet
  <2>. QED
    BY <1>0, <1>1, <2>2, PushStartKeeps
<1>2. CASE PushNoMemory(t)
  BY <1>0, <1>2, StillKeeps DEF PushNoMemory
<1>3. CASE ~PushStart(t) /\ ~PushNoMemory(t)
  <2>1. pc[t] \in PushSteps /\ (Meet(t) \/ fault')
    BY <1>3
       DEF Push, PushSetFront, PushTestRear, PushLink, PushSetRear, PushReadLength,
           PushWriteLength, PushReturn, Go, PushSteps, Fault
  <2>2. p = t /\ Pushing(p)
    BY <2>1 DEF Chain, Turns, Pushing, PushSteps
  <2>3. ~met' => ~met /\ ~fault' /\ Chain(q, p)'
    BY <1>3, <2>2, PushSetFrontKeeps, PushTestRearKeeps, PushLinkKeeps, PushSetRearKeeps,
       PushReadLengthKeeps, PushWriteLengthKeeps, PushReturnKeeps DEF Push
  <2>4. Exclusive => ~Busy(t)
    BY <1>0, <2>2, TurnsCalm
  <2>5. fault' => met' = met
    BY <1>3
       DEF Push, PushSetFront, PushTestRear, PushLink, PushSetRear, PushReadLength,
           PushWriteLength, PushReturn, Fault, history
  <2>6. Exclusive => ~met'
    BY <2>1, <2>4, <2>5 DEF Meet
  <2>. QED
    BY <1>0, <2>3, <2>6
<1>. QED
  BY <1>1, <1>2, <1>3

(* Every step of a pop keeps some chain, unless it meets a push on a short *)
(* list.                                                                   *)
LEMMA PopKeeps ==
  ASSUME TypeOK, Disciplined, NEW q, NEW p \in Threads, Chain(q, p), ~met, ~fault, Pop(Popper)
  PROVE  /\ Exclusive => ~met'
         /\ ~met' => ~fault' /\ \E r \in Seq(Nodes), u \in Threads : Chain(r, u)'
<1>. PICK n \in Nat : n = Len(q)
  BY DEF Chain, Owned
<1>0. q \in Seq(Nodes) /\ Popper \in Threads
  BY Actors DEF Chain, Owned
<1>1. CASE PopStart(Popper)
  <2>1. MayStart(Popper) /\ Meet(Popper)
    BY <1>1 DEF PopStart
  <2>2. Exclusive => ~met'
    BY <1>0, <2>1, TurnsCalm DEF Meet
  <2>. QED
    BY <1>0, <1>1, <2>2, PopStartKeeps
<1>2. CASE ~PopStart(Popper)
  <2>1. pc[Popper] \in PopSteps /\ (Meet(Popper) \/ (fault' /\ met' = met))
    BY <1>2
       DEF Pop, PopTestOne, PopClearFront, PopClearRear, PopClearLength, PopAdvance,
           PopReadLength, PopWriteLength, PopReturn, Go, PopSteps, Fault, history
  <2>2. Exclusive => ~Busy(Popper)
    BY <1>0, <2>1, TurnsCalm DEF Popping
  <2>3. Exclusive => ~met'
    BY <2>1, <2>2 DEF Meet
  <2>4. CASE PopReturn(Popper)
    BY <1>0, <2>3, <2>4, PopReturnKeeps
  <2>5. CASE ~PopReturn(Popper)
    <3>1. ~met' => ~met /\ ~fault' /\ Chain(q, p)'
      BY <1>2, <2>5, PopTestOneKeeps, PopClearFrontKeeps, PopClearRearKeeps,
         PopClearLengthKeeps, PopAdvanceKeeps, PopReadLengthKeeps, PopWriteLengthKeeps
         DEF Pop
    <3>. QED
      BY <1>0, <2>3, <3>1
  <2>. QED
    BY <2>4, <2>5
<1>. QED
  BY <1>1, <1>2

(* Every step of free_queue keeps some chain.                              *)
LEMMA FreeKeeps ==
  ASSUME TypeOK, Disciplined, NEW q, NEW p \in Threads, Chain(q, p), ~met, ~fault,
         FreeQueue(Popper)
  PROVE  ~met' /\ ~fault' /\ \E r \in Seq(Nodes), u \in Threads : Chain(r, u)'
<1>. PICK n \in Nat : n = Len(q)
  BY DEF Chain, Owned
<1>0. q \in Seq(Nodes)
  BY DEF Chain, Owned
<1>1. ~met'
  BY DEF FreeQueue, FreeStart, FreeNode, FreeDone, history
<1>2. CASE FreeStart(Popper)
  BY <1>0, <1>1, <1>2, FreeStartKeeps
<1>3. CASE FreeNode(Popper)
  BY <1>0, <1>1, <1>3, FreeNodeKeeps
<1>4. CASE FreeDone(Popper)
  BY <1>0, <1>1, <1>4, FreeDoneKeeps
<1>. QED
  BY <1>2, <1>3, <1>4 DEF FreeQueue

(* create_queue: the chain is empty.                                       *)
LEMMA InitHolds ==
  ASSUME Init
  PROVE  IInv
<1>1. TypeOK
  <2>1. \A t \in Threads : pc[t] = "idle"
    BY DEF Init
  <2>2. pc \in [Threads -> PCs]
    BY DEF Init, PCs
  <2>3. /\ front \in Nodes \cup {NULL} /\ rear \in Nodes \cup {NULL} /\ length \in Int
        /\ heap \subseteq Nodes /\ items \in 0..MaxItems
    BY ModeAssumption DEF Init
  <2>7. freed \in BOOLEAN /\ met \in BOOLEAN /\ fault \in BOOLEAN
    BY Zenon DEF Init
  <2>4. /\ next \in [Nodes -> Nodes \cup {NULL}] /\ node \in [Threads -> Nodes \cup {NULL}]
    BY DEF Init
  <2>5. /\ data \in [Nodes -> 0..MaxItems] /\ count \in [Threads -> Int]
    BY ModeAssumption DEF Init
  <2>6. pushed \in Seq(0..MaxItems) /\ popped \in Seq(0..MaxItems)
    BY DEF Init
  <2>. QED
    BY <2>1, <2>2, <2>3, <2>4, <2>5, <2>6, <2>7 DEF TypeOK, Threads
<1>2. Popper \in Threads /\ \A t \in Threads : pc[t] = "idle"
  BY DEF Init, Threads
<1>3. ~Pushing(Popper) /\ ~Popping
  BY <1>2 DEF Pushing, Popping, PushSteps, PopSteps
<1>4. Turns(Popper)
  BY <1>2, <1>3 DEF Turns, Init, Threads
<1>5. Owned(<<>>) /\ Links(<<>>, Popper)
  BY DEF Owned, Links, Init
<1>6. Ends(<<>>, Popper)
  BY DEF Ends, Init
<1>7. Placed(<<>>, Popper)
  BY <1>2, <1>3 DEF Placed
<1>8. Counted(<<>>, Popper)
  BY <1>2, <1>3 DEF Counted, Init
<1>9. Carried(<<>>, Popper)
  BY <1>3 DEF Carried, Kept, Init
<1>10. Chain(<<>>, Popper) /\ <<>> \in Seq(Nodes)
  BY <1>4, <1>5, <1>6, <1>7, <1>8, <1>9 DEF Chain
<1>. QED
  BY <1>1, <1>2, <1>10 DEF IInv, Init

(* The invariant is inductive: one case per thread, by the lemmas above.   *)
LEMMA NextKeeps ==
  ASSUME Disciplined, IInv, [Next]_vars
  PROVE  IInv'
<1>1. CASE UNCHANGED vars
  <2>1. /\ UNCHANGED <<list, memory, local, pushed, popped, freed, fault>>
        /\ UNCHANGED <<items, met>>
    BY <1>1 DEF vars, history
  <2>2. UNCHANGED <<front, rear, length, heap, next, data, pc, node, count>>
    BY <2>1 DEF list, memory, local
  <2>3. TypeOK'
    BY <2>1, <2>2 DEF IInv, TypeOK
  <2>4. ASSUME ~met PROVE ~fault' /\ \E q \in Seq(Nodes), p \in Threads : Chain(q, p)'
    <3>1. PICK q \in Seq(Nodes), p \in Threads : Chain(q, p)
      BY <2>4 DEF IInv
    <3>2. ~fault' /\ Chain(q, p)'
      BY <2>1, <2>4, <3>1, StillKeeps DEF IInv
    <3>. QED
      BY <3>2
  <2>. QED
    BY <2>1, <2>3, <2>4 DEF IInv
<1>2. ASSUME ~fault, NEW t \in Threads, Push(t) \/ Pop(t) \/ FreeQueue(t)
      PROVE  IInv'
  <2>1. \/ t \in Pushers /\ Push(t)
        \/ Pop(Popper)
        \/ FreeQueue(Popper)
    BY <1>2, WhoMoves DEF IInv
  <2>2. TypeOK'
    BY <2>1, PushTypes, PopTypes DEF IInv
  <2>3. CASE met
    <3>1. met'
      BY <2>1, <2>3
         DEF Push, Pop, FreeQueue, PushStart, PushNoMemory, PushSetFront, PushTestRear,
             PushLink, PushSetRear, PushReadLength, PushWriteLength, PushReturn, PopStart,
             PopTestOne, PopClearFront, PopClearRear, PopClearLength, PopAdvance,
             PopReadLength, PopWriteLength, PopReturn, FreeStart, FreeNode, FreeDone, Meet,
             Fault, history
    <3>. QED
      BY <2>2, <2>3, <3>1 DEF IInv
  <2>4. CASE ~met
    <3>1. PICK q \in Seq(Nodes), p \in Threads : Chain(q, p)
      BY <2>4 DEF IInv
    <3>2. /\ Exclusive => ~met'
          /\ ~met' => ~fault' /\ \E r \in Seq(Nodes), u \in Threads : Chain(r, u)'
      BY <1>2, <2>1, <2>4, <3>1, PushKeeps, PopKeeps, FreeKeeps DEF IInv
    <3>. QED
      BY <2>2, <3>2 DEF IInv
  <2>. QED
    BY <2>3, <2>4
<1>. QED
  BY <1>1, <1>2 DEF Next

(* For every set of pushers and of nodes and every number of items, the    *)
(* invariant holds of callers that take turns, and of one pusher against   *)
(* the popper.                                                             *)
THEOREM Invariant == ASSUME Disciplined PROVE Spec => []IInv
<1>1. Init => IInv
  BY InitHolds
<1>2. Disciplined /\ IInv /\ [Next]_vars => IInv'
  BY NextKeeps
<1>3. Disciplined
  OBVIOUS
<1>4. IInv /\ [Next]_vars => IInv'
  BY <1>2, <1>3
<1>. QED
  BY <1>1, <1>4, PTL DEF Spec

(* Between calls, what the walk reaches is the chain, and Content its      *)
(* data.                                                                   *)
LEMMA ContentIs ==
  ASSUME IInv, ~met, AllIdle, ~freed
  PROVE  \E q \in Seq(Nodes), p \in Threads :
            /\ Chain(q, p) /\ Linked(q) /\ Reached = q
            /\ Content = [k \in 1..Len(q) |-> data[q[k]]]
            /\ Kept(q, p) = Len(q) /\ Carried(q, p)
            /\ pc[Popper] = "idle" /\ pc[p] = "idle"
<1>1. PICK q \in Seq(Nodes), p \in Threads : Chain(q, p)
  BY DEF IInv
<1>2. pc[Popper] = "idle"
  BY Actors DEF AllIdle, Chain, Turns, IInv
<1>3. pc[p] = "idle"
  BY <1>1, <1>2, Actors DEF AllIdle, IInv, PushSteps, Threads
<1>4. ~Pushing(p)
  BY <1>3 DEF Pushing, PushSteps
<1>5. Linked(q)
  <2>1. front = IF Len(q) = 0 THEN NULL ELSE q[1]
    BY <1>1, <1>2, <1>3 DEF Chain, Ends
  <2>2. \A i \in 1..(Len(q) - 1) : next[q[i]] = q[i + 1]
    BY <1>1, <1>3 DEF Chain, Links
  <2>. QED
    BY <1>1, <2>1, <2>2 DEF Chain, Owned, Links, Linked
<1>6. Reached = q
  BY <1>5, ReachedIs
<1>7. Content = [k \in 1..Len(q) |-> data[q[k]]]
  BY <1>6 DEF Content
<1>8. Kept(q, p) = Len(q) /\ Carried(q, p)
  BY <1>1, <1>2, <1>4 DEF Kept, Chain
<1>. QED
  BY <1>1, <1>2, <1>3, <1>5, <1>6, <1>7, <1>8

(* The elements of two sequences joined.                                   *)
LEMMA JoinIs ==
  ASSUME NEW S, NEW a \in Seq(S), NEW b \in Seq(S), NEW n \in Nat, n = Len(b)
  PROVE  /\ a \o b \in Seq(S) /\ Len(a \o b) = Len(a) + n
         /\ \A i \in 1..Len(a) : (a \o b)[i] = a[i]
         /\ \A i \in 1..n : (a \o b)[Len(a) + i] = b[i]
OBVIOUS

(* Sequences of the same elements are the same.                            *)
LEMMA SameItems ==
  ASSUME NEW S, NEW a \in Seq(S), NEW b \in Seq(S), Len(a) = Len(b),
         \A i \in 1..Len(b) : a[i] = b[i]
  PROVE  a = b
OBVIOUS

(* A chain that carries what was pushed, as a concatenation.               *)
LEMMA PushedIs ==
  ASSUME TypeOK, NEW q \in Seq(Nodes), NEW p, Kept(q, p) = Len(q), Carried(q, p),
         Content = [k \in 1..Len(q) |-> data[q[k]]]
  PROVE  pushed = popped \o Content /\ Len(Content) = Len(q)
<1>1. /\ pushed \in Seq(0..MaxItems) /\ popped \in Seq(0..MaxItems)
      /\ Len(q) \in Nat /\ \A i \in 1..Len(q) : data[q[i]] \in 0..MaxItems
  BY DEF TypeOK
<1>2. Content \in Seq(0..MaxItems) /\ Len(Content) = Len(q)
  BY <1>1
<1>. DEFINE c == Content
            s == popped \o c
<1>3. c \in Seq(0..MaxItems) /\ Len(c) = Len(q) /\ \A i \in 1..Len(q) : c[i] = data[q[i]]
  BY <1>1, <1>2
<1>. HIDE DEF c
<1>. HIDE DEF s
<1>4. /\ s \in Seq(0..MaxItems) /\ Len(s) = Len(popped) + Len(q)
      /\ \A i \in 1..Len(popped) : s[i] = popped[i]
      /\ \A i \in 1..Len(q) : s[Len(popped) + i] = c[i]
  BY <1>1, <1>3, JoinIs DEF s
<1>5. Len(pushed) = Len(s) /\ Len(popped) \in Nat
  BY <1>1, <1>4 DEF Carried
<1>6. ASSUME NEW i \in 1..Len(s) PROVE pushed[i] = s[i]
  <2>1. CASE i \in 1..Len(popped)
    BY <1>4, <2>1 DEF Carried
  <2>2. CASE i \notin 1..Len(popped)
    <3>0. Len(q) \in Nat /\ Len(s) = Len(popped) + Len(q) /\ Len(popped) \in Nat
      BY <1>1, <1>4, <1>5
    <3>1. i - Len(popped) \in 1..Len(q) /\ Len(popped) + (i - Len(popped)) = i
      BY <1>6, <2>2, <3>0
    <3>2. \A k \in 1..Len(q) : pushed[Len(popped) + k] = s[Len(popped) + k]
      BY <1>3, <1>4 DEF Carried
    <3>. QED
      BY <3>1, <3>2
  <2>. QED
    BY <2>1, <2>2
<1>7. pushed = s
  BY <1>1, <1>4, <1>5, <1>6, SameItems
<1>. QED
  BY <1>2, <1>7 DEF s, c

(* The invariant implies ListIntact when callers take turns.               *)
LEMMA IntactNow ==
  ASSUME IInv, Exclusive
  PROVE  ListIntact
<1>1. ~met /\ ~fault
  BY DEF IInv
<1>2. ASSUME freed PROVE heap = {}
  <2>1. PICK q \in Seq(Nodes), p \in Threads : Chain(q, p)
    BY <1>1 DEF IInv
  <2>2. Len(q) = 0
    BY <1>2, <2>1 DEF Chain, Turns, Placed
  <2>. QED
    BY <2>1, <2>2 DEF Chain, Owned
<1>3. ASSUME AllIdle, ~freed
      PROVE  /\ pushed = popped \o Content
             /\ rear = IF front = NULL THEN NULL ELSE Reached[Len(Reached)]
             /\ length = Len(Content)
             /\ heap = {Reached[k] : k \in DOMAIN Reached}
  <2>1. PICK q \in Seq(Nodes), p \in Threads :
            /\ Chain(q, p) /\ Linked(q) /\ Reached = q
            /\ Content = [k \in 1..Len(q) |-> data[q[k]]]
            /\ Kept(q, p) = Len(q) /\ Carried(q, p)
            /\ pc[Popper] = "idle" /\ pc[p] = "idle"
    BY <1>1, <1>3, ContentIs
  <2>2. pushed = popped \o Content /\ Len(Content) = Len(q)
    BY <2>1, PushedIs DEF IInv
  <2>3. ~Pushing(p)
    BY <2>1 DEF Pushing, PushSteps
  <2>4. length = Len(q)
    BY <2>1, <2>3 DEF Chain, Counted
  <2>5. heap = {q[k] : k \in DOMAIN q}
    BY <2>1 DEF Chain, Owned
  <2>6. front = NULL <=> Len(q) = 0
    BY <2>1, NodesFinite DEF Linked
  <2>7. rear = IF Len(q) = 0 THEN NULL ELSE q[Len(q)]
    BY <2>1 DEF Chain, Ends
  <2>. QED
    BY <2>1, <2>2, <2>4, <2>5, <2>6, <2>7
<1>. QED
  BY <1>1, <1>2, <1>3 DEF ListIntact

(* safe_queue.c with callers that take turns, for every number of threads, *)
(* nodes and items: the list holds what was pushed and not popped, in      *)
(* order, rear and length agree with it, no freed node is touched, and     *)
(* free_queue gives every node back.                                       *)
THEOREM QueueIntact == ASSUME Exclusive PROVE Spec => []ListIntact
<1>1. Disciplined /\ Exclusive
  BY DEF Disciplined
<1>2. IInv => ListIntact
  BY <1>1, IntactNow
<1>. QED
  BY <1>1, <1>2, Invariant, PTL

(* safe_queue.c without a lock, one pusher against the popper, for every   *)
(* number of nodes and items: as long as the two never meet on a list of   *)
(* at most one node, the links are intact and nothing is lost.             *)
THEOREM LongListKept ==
  ASSUME ~Freeing, \A t, u \in Pushers : t = u
  PROVE  Spec => []LongListSurvives
<1>1. Disciplined
  BY DEF Disciplined
<1>2. ASSUME IInv PROVE LongListSurvives
  <2>1. ASSUME ~met, AllIdle PROVE pushed = popped \o Content
    <3>1. ~freed
      <4>1. PICK q \in Seq(Nodes), p \in Threads : Chain(q, p)
        BY <1>2, <2>1 DEF IInv
      <4>2. Freeing \/ pc[Popper] # "done"
        BY <4>1 DEF Chain, Turns
      <4>. QED
        BY <4>1, <4>2 DEF Chain, Turns
    <3>2. PICK q \in Seq(Nodes), p \in Threads :
              /\ Content = [k \in 1..Len(q) |-> data[q[k]]]
              /\ Kept(q, p) = Len(q) /\ Carried(q, p)
      BY <1>2, <2>1, <3>1, ContentIs
    <3>. QED
      BY <1>2, <3>2, PushedIs DEF IInv
  <2>. QED
    BY <1>2, <2>1 DEF IInv, LongListSurvives
<1>3. IInv => LongListSurvives
  BY <1>2
<1>. QED
  BY <1>1, <1>3, Invariant, PTL

-----------------------------------------------------------------------------
(* The list implements the channel.                                        *)

(* A step of a push is a Send of the channel, when push_data returns, or a *)
(* stutter.                                                                *)
LEMMA PushSends ==
  ASSUME IInv, Exclusive, ~fault, NEW t \in Pushers, Push(t)
  PROVE  [Channel!Next]_(Channel!vars)
<1>1. CASE PushReturn(t)
  <2>1. PICK q \in Seq(Nodes), p \in Threads : Chain(q, p)
    BY DEF IInv
  <2>2. /\ pc[t] = "returnPush" /\ pushed' = Append(pushed, data[node[t]])
        /\ UNCHANGED <<popped, freed>>
    BY <1>1 DEF PushReturn, Go
  <2>3. t = p /\ Pushing(p)
    BY <2>1, <2>2 DEF Chain, Turns, Pushing, PushSteps
  <2>4. ~freed
    BY <2>1, <2>3 DEF Chain, Turns
  <2>5. data[node[t]] \in 1..MaxItems
    <3>1. node[t] = q[Len(q)] /\ Len(q) \in 1..Len(q)
      BY <2>1, <2>3 DEF Chain, Placed, Owned
    <3>2. data[node[t]] # 0 /\ node[t] \in Nodes
      BY <2>1, <3>1 DEF Chain, Owned
    <3>. QED
      BY <3>2 DEF IInv, TypeOK
  <2>. QED
    BY <2>2, <2>4, <2>5 DEF Channel!Next, Channel!Send
<1>2. CASE ~PushReturn(t)
  <2>1. UNCHANGED <<pushed, popped, freed>>
    BY <1>2
       DEF Push, PushStart, PushNoMemory, PushSetFront, PushTestRear, PushLink, PushSetRear,
           PushReadLength, PushWriteLength, Fault, history
  <2>. QED
    BY <2>1 DEF Channel!vars
<1>. QED
  BY <1>1, <1>2

(* A step of a pop is a Deliver, when the caller gets the data, or a       *)
(* stutter.                                                                *)
LEMMA PopDelivers ==
  ASSUME IInv, Exclusive, ~fault, ~met', Pop(Popper)
  PROVE  [Channel!Next]_(Channel!vars)
<1>1. CASE PopReturn(Popper)
  <2>1. PICK q \in Seq(Nodes), p \in Threads : Chain(q, p)
    BY DEF IInv
  <2>2. PICK n \in Nat : n = Len(q)
    BY DEF Chain, Owned
  <2>3. Len(popped) < Len(pushed) /\ popped' = Append(popped, pushed[Len(popped) + 1])
    BY <1>1, <2>1, <2>2, PopReturnKeeps DEF IInv
  <2>4. ~fault'
    BY <1>1, <2>1, <2>2, PopReturnKeeps DEF IInv
  <2>5. UNCHANGED <<pushed, freed>>
    BY <1>1, <2>4 DEF PopReturn, Fault
  <2>. QED
    BY <2>3, <2>5 DEF Channel!Next, Channel!Deliver
<1>2. CASE ~PopReturn(Popper)
  <2>1. UNCHANGED <<pushed, popped, freed>>
    BY <1>2
       DEF Pop, PopStart, PopTestOne, PopClearFront, PopClearRear, PopClearLength,
           PopAdvance, PopReadLength, PopWriteLength, Fault, history
  <2>. QED
    BY <2>1 DEF Channel!vars
<1>. QED
  BY <1>1, <1>2

(* A step of free_queue is a Close, when it ends, or a stutter.            *)
LEMMA FreeCloses ==
  ASSUME IInv, Exclusive, FreeQueue(Popper)
  PROVE  [Channel!Next]_(Channel!vars)
<1>1. CASE FreeDone(Popper)
  <2>1. PICK q \in Seq(Nodes), p \in Threads : Chain(q, p)
    BY DEF IInv
  <2>2. freed' /\ UNCHANGED <<pushed, popped>> /\ pc[Popper] = "free"
    BY <1>1 DEF FreeDone, history, Go
  <2>3. ~freed
    BY <2>1, <2>2 DEF Chain, Turns
  <2>. QED
    BY <2>2, <2>3 DEF Channel!Next, Channel!Close
<1>2. CASE ~FreeDone(Popper)
  <2>1. UNCHANGED <<pushed, popped, freed>>
    BY <1>2 DEF FreeQueue, FreeStart, FreeNode, history
  <2>. QED
    BY <2>1 DEF Channel!vars
<1>. QED
  BY <1>1, <1>2

(* With callers that take turns the linked list, pointer by pointer,       *)
(* implements FrameChannel: it hands back what was pushed, in order, once, *)
(* until free_queue.                                                       *)
THEOREM QueueIsChannel == ASSUME Exclusive PROVE Spec => ImplementsChannel
<1>1. Disciplined
  BY DEF Disciplined
<1>2. Init => Channel!Init
  BY DEF Init, Channel!Init
<1>3. ASSUME IInv, IInv', [Next]_vars
      PROVE  [Channel!Next]_(Channel!vars)
  <2>1. CASE UNCHANGED vars
    BY <2>1 DEF vars, history, Channel!vars
  <2>2. ASSUME ~fault, NEW t \in Threads, Push(t) \/ Pop(t) \/ FreeQueue(t)
        PROVE  [Channel!Next]_(Channel!vars)
    <3>1. (t \in Pushers /\ Push(t)) \/ Pop(Popper) \/ FreeQueue(Popper)
      BY <2>2, WhoMoves, <1>3 DEF IInv
    <3>2. ~met'
      BY <1>3 DEF IInv
    <3>. QED
      BY <1>3, <2>2, <3>1, <3>2, PushSends, PopDelivers, FreeCloses
  <2>. QED
    BY <1>3, <2>1, <2>2 DEF Next
<1>. QED
  BY <1>1, <1>2, <1>3, Invariant, PTL DEF Spec, ImplementsChannel, Channel!Spec

=============================================================================

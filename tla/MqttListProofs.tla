--------------------------- MODULE MqttListProofs ---------------------------
(***************************************************************************)
(* The list of awaited acknowledgements, pointer by pointer, for any       *)
(* number of threads and nodes.  As long as no two threads have met on the *)
(* pointers (overlapped), the ring is whole, however they interleave:      *)
(* several threads may be recording, a scan or a search may walk along the *)
(* list while another thread adds to it, and nodes may be taken out        *)
(* between the search and the add of a record.                             *)
(***************************************************************************)
EXTENDS MqttList, TLAPS

(* The list as a ring: place 0 and the place behind the last node are the  *)
(* list's own node.                                                        *)
At(i) == IF i \in 1 .. Len(order) THEN order[i] ELSE List

(* A thread that records, from the call to the last pointer. *)
Recording(t) == pc[t] # "idle" /\ op[t] = "record"

(* It has written the pointer back from the list's own node. *)
TailTaken(t) == pc[t] = "link" /\ stores[t] >= 1

(* The yield thread has written the pointer back over the node it takes    *)
(* out, but not yet the one that leads there.                              *)
Unlinking == pc[Yield] = "unlink"

(* What a thread can be doing. *)
Busy(t) ==
  pc[t] # "idle" =>
    /\ t \in Apps => op[t] = "record"
    /\ op[t] # "none"
    /\ op[t] # "scan" => arg[t] \in Node
    /\ pc[t] \in {"add", "link"} => op[t] = "record"
    /\ pc[t] \in {"unlink", "unlinked"} => t = Yield /\ op[t] # "record"
    /\ op[t] = "record" => IF arg[t] \in Received THEN t = Yield ELSE writeLock = t

(* No two threads meet on the pointers. *)
Exclusive == ~Clash /\ \A t \in Thread : Busy(t)

(* Where a thread looks through the list. *)
Looking == {"first", "second", "visit"}

(* No node is on the list with the key of another. *)
OneEach ==
  \A i, j \in DOMAIN order : Key(order[i]) = Key(order[j]) => i = j

(* No node is on the list twice. *)
Distinct ==
  \A i, j \in 1 .. Len(order) : order[i] = order[j] => i = j

(* A node that is being recorded is new to the list and to every           *)
(* traversal; a traversal has met only nodes that were recorded.           *)
Fresh ==
  /\ \A t \in Thread : seen[t] \subseteq used /\ curr[t] \in used \cup {List}
  /\ \A i \in 1 .. Len(order) : order[i] \in used
  /\ \A t \in Thread : Recording(t) =>
       /\ arg[t] \in used
       /\ \A i \in 1 .. Len(order) : order[i] # arg[t]
       /\ \A u \in Thread : arg[t] \notin seen[u] /\ arg[t] # curr[u]

(* The pointers forward are right at every step. *)
Forward ==
  \A i \in 0 .. Len(order) : next[At(i)] = At(i + 1)

(* Those back are, but for the one that is being written. *)
Backward ==
  \A i \in 1 .. Len(order) + 1 :
    \/ prev[At(i)] = At(i - 1)
    \/ i = Len(order) + 1 /\ \E t \in Thread : TailTaken(t)
    \/ Unlinking /\ At(i - 1) = curr[Yield]

(* The pointers of mqtt_list_add_tail, as far as they have been written. *)
Linking ==
  \A t \in Thread : pc[t] = "link" =>
    /\ stores[t] \in 0 .. 3
    /\ tail[t] = At(Len(order))
    /\ stores[t] >= 1 => prev[List] = arg[t]
    /\ stores[t] >= 2 => next[arg[t]] = List
    /\ stores[t] = 3 => prev[arg[t]] = tail[t]

(* The first pointer of mqtt_list_del has been written. *)
HalfUnlinked ==
  Unlinking => \E c \in 1 .. Len(order) :
                 order[c] = curr[Yield] /\ prev[At(c + 1)] = At(c - 1)

-----------------------------------------------------------------------------
(* No node from place c on has been visited. *)
AheadOf(t, c) == \A i \in c .. Len(order) : order[i] \notin seen[t]

(* What a traversal still has to visit lies from place c on. *)
DueFrom(t, c) ==
  \A m \in due[t] : m \in seen[t] \/ \E i \in c .. Len(order) : order[i] = m

(* A traversal at a node: the other pointer leads to the next node, or to  *)
(* the end; then what has been added behind is not seen any more.          *)
AtNode(t) ==
  \E c \in 1 .. Len(order) :
    /\ curr[t] = order[c]
    /\ AheadOf(t, c)
    /\ \/ save[t] = List /\ due[t] \subseteq seen[t] \cup {order[c]}
       \/ c < Len(order) /\ save[t] = order[c + 1] /\ DueFrom(t, c)

(* A traversal whose node has just been taken out. *)
PastNode(t) ==
  /\ curr[t] \in Node
  /\ \A i \in 1 .. Len(order) : order[i] # curr[t]
  /\ \/ save[t] = List /\ due[t] \subseteq seen[t] \cup {curr[t]}
     \/ \E c \in 1 .. Len(order) : save[t] = order[c] /\ AheadOf(t, c) /\ DueFrom(t, c)

(* A traversal before its first visit. *)
Starting(t) == Len(order) >= 1 /\ seen[t] = {} /\ DueFrom(t, 1)

(* Where each traversal is. *)
WalkOf(t) ==
  /\ pc[t] = "first" => Starting(t)
  /\ pc[t] = "second" => Starting(t) /\ curr[t] = order[1]
  /\ pc[t] = "visit" => (curr[t] = List /\ due[t] \subseteq seen[t]) \/ AtNode(t)
  /\ pc[t] = "unlink" => AtNode(t)
  /\ pc[t] = "unlinked" => PastNode(t)

(* mqtt_ack_list_node_is_exist meets the nodes with the key, wherever they *)
(* are: none of those it has visited has it, and at its end none of the    *)
(* list, to which others may have added nodes of other keys.               *)
SearchOf(t) ==
  Recording(t) =>
    /\ pc[t] \in {"first", "second", "visit"} =>
         /\ \A i \in 1 .. Len(order) : Key(order[i]) = Key(arg[t]) => order[i] \in due[t]
         /\ \A m \in seen[t] : Key(m) # Key(arg[t])
    /\ pc[t] \in {"add", "link"} =>
         \A i \in 1 .. Len(order) : Key(order[i]) # Key(arg[t])

Walking == \A t \in Thread : WalkOf(t) /\ SearchOf(t)

(* What holds of the pointers, and of the threads. *)
Ring == Distinct /\ Forward /\ Backward /\ Linking /\ HalfUnlinked /\ OneEach
Inv == Typed /\ Exclusive /\ Fresh /\ Ring /\ Walking

-----------------------------------------------------------------------------
(* The ring's places are nodes of the list, or the list's own node. *)
LEMMA AtPlaces ==
  ASSUME Typed
  PROVE  /\ Len(order) \in Nat
         /\ \A i \in 1 .. Len(order) : order[i] \in Node /\ At(i) = order[i] /\ order[i] # List
         /\ At(0) = List /\ At(Len(order) + 1) = List
         /\ \A i : At(i) \in Place
<1>1. order \in Seq(Node)
  BY DEF Typed
<1>2. Len(order) \in Nat /\ \A i \in 1 .. Len(order) : order[i] \in Node
  BY <1>1
<1>. QED  BY <1>2, ListAssumption DEF At, Place

(* No place occurs twice, but for the list's own node at both ends. *)
LEMMA AtInjective ==
  ASSUME Typed, Distinct
  PROVE  /\ \A i, j \in 0 .. Len(order) : At(i) = At(j) => i = j
         /\ \A i, j \in 1 .. Len(order) + 1 : At(i) = At(j) => i = j
BY AtPlaces DEF Distinct, At

(* A step of another thread leaves u where it is, on a list that is as it  *)
(* was.                                                                    *)
Stays(u) ==
  /\ pc'[u] = pc[u] /\ op'[u] = op[u] /\ arg'[u] = arg[u]
  /\ curr'[u] = curr[u] /\ save'[u] = save[u]
  /\ due'[u] = due[u] /\ seen'[u] = seen[u]

(* A step that leaves the pointers alone, of a thread that is not writing  *)
(* any, leaves the ring as it is.                                          *)
LEMMA QuietRing ==
  ASSUME Inv, NEW t \in Thread,
         UNCHANGED <<next, prev, order, tail, stores>>,
         \A u \in Thread \ {t} : Stays(u),
         pc[t] \notin {"link", "unlink"}, pc'[t] \notin {"link", "unlink"}
  PROVE  Ring'
<1>1. Distinct' /\ OneEach'
  BY DEF Inv, Ring, Distinct, OneEach
<1>2. Forward'
  BY DEF Inv, Ring, Forward, At
<1>3. \A u \in Thread : pc'[u] = "link" => u # t /\ pc[u] = "link" /\ arg'[u] = arg[u]
  BY DEF Stays
<1>4. \A u \in Thread : TailTaken(u) => TailTaken(u)'
  BY DEF TailTaken, Stays
<1>5. Unlinking' <=> Unlinking
  BY DEF Unlinking, Thread, Stays
<1>6. Unlinking => curr'[Yield] = curr[Yield]
  BY DEF Unlinking, Thread, Stays
<1>7. Backward'
  BY <1>4, <1>5, <1>6 DEF Inv, Ring, Backward, At
<1>8. Linking'
  BY <1>3 DEF Inv, Ring, Linking, At
<1>9. HalfUnlinked'
  BY <1>5, <1>6 DEF Inv, Ring, HalfUnlinked, At
<1>. QED  BY <1>1, <1>2, <1>7, <1>8, <1>9 DEF Ring

(* A thread that stays keeps its place in the traversal. *)
LEMMA QuietWalk ==
  ASSUME NEW u \in Thread, WalkOf(u), SearchOf(u), order' = order, Stays(u)
  PROVE  WalkOf(u)' /\ SearchOf(u)'
<1>1. WalkOf(u)'
  BY DEF WalkOf, Starting, AtNode, PastNode, AheadOf, DueFrom, Stays
<1>2. SearchOf(u)'
  BY DEF SearchOf, Recording, Stays
<1>. QED  BY <1>1, <1>2

(* Two threads that are recording at a time record nodes of different      *)
(* keys: at most one of them has the write lock, and the other records a   *)
(* received message.                                                       *)
LEMMA Apart ==
  ASSUME Exclusive, NEW t \in Thread, NEW u \in Thread, t # u, Recording(t), Recording(u)
  PROVE  /\ arg[t] \in Node /\ arg[u] \in Node
         /\ arg[t] # arg[u] /\ Key(arg[t]) # Key(arg[u])
<1>1. Busy(t) /\ Busy(u)
  BY DEF Exclusive
<1>2. arg[t] \in Node /\ arg[u] \in Node
  BY <1>1 DEF Busy, Recording
<1>3. arg[t] \in Received <=> arg[u] \notin Received
  BY <1>1 DEF Busy, Recording
<1>. QED  BY <1>2, <1>3, ListAssumption

(* The threads write no pointers before or after a step of t, and t is     *)
(* looking through the list only if it was, or if it is the yield thread.  *)
LEMMA NoClash ==
  ASSUME ~Clash, NEW t \in Thread,
         \A u \in Thread \ {t} : Stays(u),
         pc'[t] \notin {"link", "unlink"},
         pc'[t] \in Looking => pc[t] \in Looking \/ t = Yield
  PROVE  ~Clash'
<1>1. \A u \in Thread \ {t} : pc'[u] = pc[u]
  BY DEF Stays
<1>2. ASSUME NEW u \in Thread, NEW v \in Thread, u # v, {pc'[u], pc'[v]} \subseteq {"link", "unlink"}
      PROVE  FALSE
  <2>1. u # t /\ v # t
    BY <1>2
  <2>. QED  BY <1>1, <1>2, <2>1 DEF Clash
<1>3. ASSUME pc'[Yield] = "unlink", NEW a \in Apps, pc'[a] \in Looking
      PROVE  FALSE
  <2>1. Yield \in Thread /\ a \in Thread /\ t # Yield
    BY <1>3 DEF Thread
  <2>2. pc[Yield] = "unlink" /\ pc[a] \in Looking
    BY <1>1, <1>3, <2>1
  <2>. QED  BY <2>2 DEF Clash, Looking
<1>. QED  BY <1>2, <1>3 DEF Clash, Looking

(* A step of t takes the write lock from nobody else. *)
KeepsLock(t) == \A u \in Thread \ {t} : writeLock = u => writeLock' = u

(* A step that brings no two threads together.                             *)
LEMMA ExclusiveStep ==
  ASSUME Exclusive, NEW t \in Thread,
         \A u \in Thread \ {t} : Stays(u), KeepsLock(t),
         ~Clash', Busy(t)'
  PROVE  Exclusive'
<1>1. \A u \in Thread : Busy(u)'
  BY DEF Exclusive, Busy, Stays, KeepsLock
<1>. QED  BY <1>1 DEF Exclusive

(* A step of one thread along the list, or past it. *)
LEMMA QuietInv ==
  ASSUME Inv, NEW t \in Thread,
         UNCHANGED <<next, prev, order, tail, stores>>,
         \A u \in Thread \ {t} : Stays(u), KeepsLock(t),
         pc[t] \notin {"link", "unlink"}, pc'[t] \notin {"link", "unlink"},
         (pc'[t] \in Looking => pc[t] \in Looking \/ t = Yield) \/ ~Clash',
         Busy(t)',
         Typed', Fresh', WalkOf(t)', SearchOf(t)'
  PROVE  Inv'
<1>1. Ring'
  BY QuietRing
<1>2. Exclusive'
  BY ExclusiveStep, NoClash DEF Inv, Exclusive
<1>3. \A u \in Thread \ {t} : WalkOf(u)' /\ SearchOf(u)'
  BY QuietWalk DEF Inv, Walking
<1>4. Walking'
  BY <1>3 DEF Walking
<1>. QED  BY <1>1, <1>2, <1>4 DEF Inv

(* The pointers of t come from the list, and what it has visited. *)
Follows(t) ==
  /\ \A m \in seen'[t] : m \in seen[t] \/ (m = curr[t] /\ m \in Node)
  /\ \/ curr'[t] \in {curr[t], List}
     \/ \E i \in 1 .. Len(order) : curr'[t] = order[i]

(* A traversal that does not begin to record: its pointers and what it has *)
(* visited come from the list, so that new nodes stay new.                 *)
LEMMA FreshStep ==
  ASSUME Typed, Fresh, NEW t \in Thread,
         UNCHANGED <<order, used>>,
         \A u \in Thread \ {t} : Stays(u),
         Recording(t)' => Recording(t) /\ arg'[t] = arg[t],
         Follows(t)
  PROVE  Fresh'
<1>1. \A u \in Thread : Recording(u)' => Recording(u) /\ arg'[u] = arg[u]
  BY DEF Recording, Stays
<1>2. \A u \in Thread : Recording(u) => arg[u] \in used /\ used' = used
  BY DEF Fresh
<1>3. curr'[t] \in used' \cup {List} /\ seen'[t] \subseteq used'
  BY ListAssumption DEF Fresh, Place, Follows
<1>4. \A u \in Thread : seen'[u] \subseteq used' /\ curr'[u] \in used' \cup {List}
  BY <1>3 DEF Fresh, Stays
<1>5. ASSUME NEW u \in Thread, Recording(u)'
      PROVE  /\ \A i \in 1 .. Len(order') : order'[i] # arg'[u]
             /\ \A v \in Thread : arg'[u] \notin seen'[v] /\ arg'[u] # curr'[v]
  <2>1. Recording(u) /\ arg'[u] = arg[u]
    BY <1>1, <1>5
  <2>2. /\ \A i \in 1 .. Len(order) : order[i] # arg[u]
        /\ \A v \in Thread : arg[u] \notin seen[v] /\ arg[u] # curr[v]
        /\ arg[u] # List
    BY <2>1, ListAssumption DEF Fresh, Typed
  <2>3. arg[u] \notin seen'[t] /\ arg[u] # curr'[t]
    BY <2>2 DEF Follows
  <2>. QED  BY <2>1, <2>2, <2>3 DEF Stays
<1>. QED  BY <1>1, <1>2, <1>4, <1>5 DEF Fresh

-----------------------------------------------------------------------------
(* A record begins: the node is one that nobody has met. *)
LEMMA RecordInv ==
  ASSUME Inv, NEW t \in Thread, Record(t) \/ (t = Yield /\ RecordReceived)
  PROVE  Inv'
<1>1. PICK n \in Node \ used :
        /\ BeginRecord(t, n)
        /\ IF n \in Received THEN t = Yield ELSE writeLock' = t
        /\ writeLock' = writeLock \/ (writeLock = None /\ writeLock' = t)
  BY ListAssumption DEF Record, RecordReceived
<1>2. /\ pc[t] = "idle" /\ pc' = [pc EXCEPT ![t] = "empty"]
      /\ op' = [op EXCEPT ![t] = "record"] /\ arg' = [arg EXCEPT ![t] = n]
      /\ used' = used \cup {n}
      /\ UNCHANGED <<next, prev, curr, save, tail, stores, order, due, seen>>
  BY <1>1 DEF BeginRecord, BeginWalk
<1>3. Typed /\ Fresh
  BY DEF Inv
<1>4. pc'[t] = "empty" /\ op'[t] = "record" /\ arg'[t] = n
  BY <1>2, <1>3 DEF Typed
<1>5. Typed'
  BY <1>1, <1>2, <1>3 DEF Typed
<1>6. KeepsLock(t) /\ \A u \in Thread \ {t} : Stays(u)
  BY <1>1, <1>2, <1>3, ListAssumption DEF Typed, Stays, KeepsLock
<1>7. Fresh'
  <2>1. n \notin used /\ n # List /\ \A u \in Thread : n \notin seen[u] /\ n # curr[u]
    BY <1>3, ListAssumption DEF Fresh, Place
  <2>2. \A u \in Thread \ {t} : (Recording(u)' <=> Recording(u)) /\ arg'[u] = arg[u]
    BY <1>6 DEF Recording, Stays
  <2>. QED  BY <1>2, <1>3, <1>4, <2>1, <2>2 DEF Fresh
<1>8. WalkOf(t)' /\ SearchOf(t)'
  BY <1>4 DEF WalkOf, SearchOf
<1>9. Busy(t)' /\ pc'[t] \notin Looking
  BY <1>1, <1>4, ListAssumption DEF Busy, Looking
<1>. QED
  BY <1>2, <1>4, <1>5, <1>6, <1>7, <1>8, <1>9, QuietInv

(* The yield thread begins to take nodes out, or to scan. *)
LEMMA YieldBeginsInv ==
  ASSUME Inv, Unrecord \/ Scan
  PROVE  Inv'
<1>1. PICK what \in {"unrecord", "scan"}, n \in Node \cup {None} :
        /\ BeginWalk(Yield, what, n) /\ UNCHANGED <<writeLock, used>>
        /\ what = "unrecord" => n \in Node
  BY DEF Unrecord, Scan, Inv, Typed
<1>2. /\ pc[Yield] = "idle" /\ pc' = [pc EXCEPT ![Yield] = "empty"]
      /\ op' = [op EXCEPT ![Yield] = what] /\ arg' = [arg EXCEPT ![Yield] = n]
      /\ UNCHANGED <<next, prev, curr, save, tail, stores, order, due, seen>>
  BY <1>1 DEF BeginWalk
<1>3. Typed /\ Fresh /\ Yield \in Thread /\ Yield \notin Apps
  BY ListAssumption DEF Inv, Thread
<1>4. pc'[Yield] = "empty" /\ op'[Yield] = what /\ arg'[Yield] = n
  BY <1>2, <1>3 DEF Typed
<1>5. Typed'
  BY <1>1, <1>2, <1>3 DEF Typed
<1>6. KeepsLock(Yield) /\ \A u \in Thread \ {Yield} : Stays(u)
  BY <1>1, <1>2, <1>3 DEF Typed, Stays, KeepsLock
<1>7. ~Recording(Yield)'
  BY <1>4 DEF Recording
<1>8. Fresh'
  <2>1. UNCHANGED <<order, used>> /\ Follows(Yield)
    BY <1>1, <1>2 DEF Follows
  <2>. QED  BY <1>3, <1>6, <1>7, <2>1, FreshStep
<1>9. WalkOf(Yield)' /\ SearchOf(Yield)'
  BY <1>4, <1>7 DEF WalkOf, SearchOf
<1>10. Busy(Yield)'
  BY <1>1, <1>3, <1>4 DEF Busy
<1>. QED
  BY <1>2, <1>3, <1>4, <1>5, <1>6, <1>8, <1>9, <1>10, QuietInv

(* An operation ends, or the node of a record is to be added. *)
LEMMA EndWalkTypes ==
  ASSUME Typed, NEW t \in Thread, EndWalk(t) \/ Leave(t)
  PROVE  /\ pc' = [pc EXCEPT ![t] = pc'[t]]
         /\ pc'[t] \in {"idle", "add"}
         /\ pc'[t] = "add" => op[t] = "record" /\ EndWalk(t)
         /\ writeLock' \in Thread \cup {None} /\ KeepsLock(t)
         /\ pc'[t] = "add" => writeLock' = writeLock
BY DEF EndWalk, Leave, Typed, KeepsLock

(* mqtt_list_is_empty: on an empty list nothing has the key. *)
LEMMA IsEmptyInv ==
  ASSUME Inv, NEW t \in Thread, IsEmpty(t), ~overlapped'
  PROVE  Inv'
<1>1. Typed /\ Fresh /\ Exclusive /\ Forward
  BY DEF Inv, Ring
<1>2. /\ pc[t] = "empty" /\ due' = [due EXCEPT ![t] = OnList]
      /\ seen' = [seen EXCEPT ![t] = {}]
      /\ UNCHANGED <<next, prev, op, arg, curr, save, tail, stores, used, order>>
  BY DEF IsEmpty
<1>3. \/ next[List] = List /\ EndWalk(t)
      \/ next[List] # List /\ pc' = [pc EXCEPT ![t] = "first"] /\ UNCHANGED writeLock
  BY DEF IsEmpty
<1>4. /\ pc' = [pc EXCEPT ![t] = pc'[t]] /\ pc'[t] \in {"idle", "add", "first"}
      /\ pc'[t] = "add" => op[t] = "record" /\ next[List] = List
      /\ pc'[t] = "first" => next[List] # List
      /\ pc'[t] # "idle" => writeLock' = writeLock
      /\ writeLock' \in Thread \cup {None} /\ KeepsLock(t)
  BY <1>1, <1>3, EndWalkTypes DEF Typed, KeepsLock
<1>5. OnList = {order[i] : i \in 1 .. Len(order)} /\ OnList \subseteq Node
  BY <1>1, AtPlaces DEF Typed, OnList
<1>6. Typed'
  BY <1>1, <1>2, <1>4, <1>5 DEF Typed
<1>7. \A u \in Thread \ {t} : Stays(u)
  BY <1>1, <1>2, <1>4 DEF Typed, Stays
<1>8. due'[t] = OnList /\ seen'[t] = {} /\ curr'[t] = curr[t]
  BY <1>1, <1>2 DEF Typed
<1>9. ~Clash'
  BY DEF IsEmpty, Note
<1>10. Recording(t)' => Recording(t) /\ arg'[t] = arg[t]
  BY <1>2 DEF Recording
<1>11. Fresh'
  <2>1. Follows(t)
    BY <1>8 DEF Follows
  <2>. QED  BY <1>1, <1>2, <1>7, <1>10, <2>1, FreshStep
<1>12. /\ next[List] = List => Len(order) = 0
       /\ next[List] # List => Len(order) >= 1
  <2>1. next[List] = At(1) /\ Len(order) \in Nat
    BY <1>1, AtPlaces DEF Forward
  <2>2. Len(order) >= 1 => At(1) # List
    BY <1>1, <2>1, AtPlaces
  <2>. QED  BY <2>1, <2>2 DEF At
<1>13. WalkOf(t)'
  BY <1>2, <1>4, <1>5, <1>8, <1>12 DEF WalkOf, Starting, DueFrom
<1>14. SearchOf(t)'
  BY <1>2, <1>4, <1>5, <1>8, <1>12 DEF SearchOf
<1>15. Busy(t)'
  BY <1>1, <1>2, <1>4 DEF Exclusive, Busy
<1>. QED
  BY <1>2, <1>4, <1>6, <1>7, <1>9, <1>11, <1>13, <1>14, <1>15, QuietInv

(* LIST_FOR_EACH_SAFE before its first round. *)
LEMMA FirstNodeInv ==
  ASSUME Inv, NEW t \in Thread, FirstNode(t)
  PROVE  Inv'
<1>1. Typed /\ Fresh /\ Exclusive /\ Forward /\ WalkOf(t) /\ SearchOf(t)
  BY DEF Inv, Ring, Walking
<1>2. /\ pc[t] = "first" /\ pc' = [pc EXCEPT ![t] = "second"]
      /\ curr' = [curr EXCEPT ![t] = next[List]]
      /\ UNCHANGED <<next, prev, writeLock, op, arg, save, tail, stores, used, order, due, seen>>
  BY DEF FirstNode
<1>3. Starting(t)
  BY <1>1, <1>2 DEF WalkOf
<1>4. next[List] = order[1] /\ order[1] \in Place /\ 1 \in 1 .. Len(order)
  BY <1>1, <1>3, AtPlaces DEF Forward, Starting, Place
<1>5. /\ pc'[t] = "second" /\ curr'[t] = order[1]
      /\ \A u \in Thread \ {t} : Stays(u)
  BY <1>1, <1>2, <1>4 DEF Typed, Stays
<1>6. Typed'
  BY <1>1, <1>2, <1>4 DEF Typed
<1>7. Recording(t)' => Recording(t) /\ arg'[t] = arg[t]
  BY <1>2 DEF Recording
<1>8. Fresh'
  <2>1. Follows(t)
    BY <1>2, <1>4, <1>5 DEF Follows
  <2>. QED  BY <1>1, <1>2, <1>5, <1>7, <2>1, FreshStep
<1>9. WalkOf(t)'
  BY <1>2, <1>3, <1>5 DEF WalkOf, Starting, DueFrom
<1>10. SearchOf(t)'
  BY <1>1, <1>2, <1>5 DEF SearchOf, Recording
<1>11. KeepsLock(t) /\ pc[t] \in Looking
  BY <1>2 DEF KeepsLock, Looking
<1>12. Busy(t)'
  BY <1>1, <1>2, <1>5 DEF Busy, Exclusive
<1>. QED
  BY <1>2, <1>5, <1>6, <1>8, <1>9, <1>10, <1>11, <1>12, QuietInv

(* The second pointer leads to the second node, or to the end. *)
LEMMA SecondNodeInv ==
  ASSUME Inv, NEW t \in Thread, SecondNode(t)
  PROVE  Inv'
<1>1. Typed /\ Fresh /\ Exclusive /\ Forward /\ WalkOf(t) /\ SearchOf(t)
  BY DEF Inv, Ring, Walking
<1>2. /\ pc[t] = "second" /\ pc' = [pc EXCEPT ![t] = "visit"]
      /\ save' = [save EXCEPT ![t] = next[curr[t]]]
      /\ UNCHANGED <<next, prev, writeLock, op, arg, curr, tail, stores, used, order, due, seen>>
  BY DEF SecondNode
<1>3. Starting(t) /\ curr[t] = order[1]
  BY <1>1, <1>2 DEF WalkOf
<1>4. next[order[1]] = At(2) /\ At(2) \in Place /\ 1 \in 1 .. Len(order)
  BY <1>1, <1>3, AtPlaces DEF Forward, Starting
<1>5. /\ pc'[t] = "visit" /\ save'[t] = At(2)
      /\ \A u \in Thread \ {t} : Stays(u)
  BY <1>1, <1>2, <1>3, <1>4 DEF Typed, Stays
<1>6. Typed'
  BY <1>1, <1>2, <1>3, <1>4 DEF Typed
<1>7. Recording(t)' => Recording(t) /\ arg'[t] = arg[t]
  BY <1>2 DEF Recording
<1>8. Fresh'
  <2>1. Follows(t)
    BY <1>2 DEF Follows
  <2>. QED  BY <1>1, <1>2, <1>5, <1>7, <2>1, FreshStep
<1>9. AtNode(t)'
  <2>1. seen'[t] = {} /\ due'[t] = due[t] /\ DueFrom(t, 1)
    BY <1>2, <1>3 DEF Starting
  <2>2. CASE Len(order) = 1
    <3>1. save'[t] = List
      BY <1>5, <2>2 DEF At
    <3>2. due'[t] \subseteq {order[1]}
      BY <1>2, <1>3, <2>1, <2>2 DEF DueFrom, Starting
    <3>. QED  BY <1>2, <1>3, <1>4, <2>1, <3>1, <3>2 DEF AtNode, AheadOf
  <2>3. CASE Len(order) > 1
    <3>1. PICK c \in 1 .. Len(order) : c = 1
      BY <1>4
    <3>2. save'[t] = order[c + 1] /\ c < Len(order)
      BY <1>1, <1>5, <2>3, <3>1, AtPlaces DEF At
    <3>3. DueFrom(t, c)' /\ AheadOf(t, c)' /\ curr'[t] = order[c]
      BY <1>2, <1>3, <2>1, <3>1 DEF DueFrom, AheadOf
    <3>. QED  BY <1>2, <3>2, <3>3 DEF AtNode
  <2>4. Len(order) = 1 \/ Len(order) > 1
    <3>1. PICK n \in Nat : n = Len(order)
      BY <1>1, AtPlaces
    <3>2. n >= 1
      BY <1>3, <3>1 DEF Starting
    <3>3. n = 1 \/ n > 1
      BY <3>2
    <3>. QED  BY <3>1, <3>3
  <2>. QED  BY <2>2, <2>3, <2>4
<1>10. WalkOf(t)'
  BY <1>5, <1>9 DEF WalkOf
<1>11. SearchOf(t)'
  BY <1>1, <1>2, <1>5 DEF SearchOf, Recording
<1>12. KeepsLock(t) /\ pc[t] \in Looking
  BY <1>2 DEF KeepsLock, Looking
<1>13. Busy(t)'
  BY <1>1, <1>2, <1>5 DEF Busy, Exclusive
<1>. QED
  BY <1>2, <1>5, <1>6, <1>8, <1>10, <1>11, <1>12, <1>13, QuietInv

(* A traversal comes to its end: the whole list has been looked through.   *)
LEMMA AtEndInv ==
  ASSUME Inv, NEW t \in Thread, AtEnd(t)
  PROVE  Inv'
<1>1. Typed /\ Fresh /\ Exclusive /\ WalkOf(t) /\ SearchOf(t)
  BY DEF Inv, Walking
<1>2. /\ pc[t] = "visit" /\ curr[t] = List /\ EndWalk(t)
      /\ UNCHANGED <<next, prev, op, arg, curr, save, tail, stores, used, order, due, seen>>
  BY DEF AtEnd
<1>3. /\ pc' = [pc EXCEPT ![t] = pc'[t]] /\ pc'[t] \in {"idle", "add"}
      /\ pc'[t] = "add" => op[t] = "record" /\ writeLock' = writeLock
      /\ writeLock' \in Thread \cup {None} /\ KeepsLock(t)
  BY <1>1, <1>2, EndWalkTypes
<1>4. Typed'
  BY <1>1, <1>2, <1>3 DEF Typed
<1>5. \A u \in Thread \ {t} : Stays(u)
  BY <1>1, <1>2, <1>3 DEF Typed, Stays
<1>6. Recording(t)' => Recording(t) /\ arg'[t] = arg[t]
  BY <1>2 DEF Recording
<1>7. Fresh'
  <2>1. Follows(t)
    BY <1>2 DEF Follows
  <2>. QED  BY <1>1, <1>2, <1>5, <1>6, <2>1, FreshStep
<1>8. WalkOf(t)'
  BY <1>3 DEF WalkOf
<1>9. SearchOf(t)'
  <2>1. \A i \in 1 .. Len(order) : order[i] # curr[t]
    BY <1>1, <1>2, AtPlaces
  <2>2. due[t] \subseteq seen[t]
    BY <1>1, <1>2, <2>1 DEF WalkOf, AtNode
  <2>. QED  BY <1>1, <1>2, <1>3, <2>2 DEF SearchOf, Recording
<1>10. pc[t] \in Looking
  BY <1>2 DEF Looking
<1>11. Busy(t)'
  BY <1>1, <1>2, <1>3 DEF Busy, Exclusive
<1>. QED
  BY <1>2, <1>3, <1>4, <1>5, <1>7, <1>8, <1>9, <1>10, <1>11, QuietInv

(* The key is there already: nothing is recorded. *)
LEMMA ExistsInv ==
  ASSUME Inv, NEW t \in Thread, Exists(t)
  PROVE  Inv'
<1>1. Typed /\ Fresh /\ Exclusive
  BY DEF Inv
<1>2. /\ pc[t] = "visit" /\ Leave(t)
      /\ UNCHANGED <<next, prev, op, arg, curr, save, tail, stores, used, order, due, seen>>
  BY DEF Exists
<1>3. /\ pc' = [pc EXCEPT ![t] = "idle"] /\ writeLock' \in Thread \cup {None} /\ KeepsLock(t)
  BY <1>1, <1>2 DEF Leave, Typed, KeepsLock
<1>4. Typed'
  BY <1>1, <1>2, <1>3 DEF Typed
<1>5. pc'[t] = "idle" /\ \A u \in Thread \ {t} : Stays(u)
  BY <1>1, <1>2, <1>3 DEF Typed, Stays
<1>6. ~Recording(t)'
  BY <1>5 DEF Recording
<1>7. Fresh'
  <2>1. Follows(t)
    BY <1>2 DEF Follows
  <2>. QED  BY <1>1, <1>2, <1>5, <1>6, <2>1, FreshStep
<1>8. WalkOf(t)' /\ SearchOf(t)' /\ Busy(t)' /\ pc[t] \in Looking
  BY <1>2, <1>5 DEF WalkOf, SearchOf, Recording, Busy, Looking
<1>. QED
  BY <1>2, <1>3, <1>4, <1>5, <1>7, <1>8, QuietInv

(* One round of LIST_FOR_EACH_SAFE, from a node that is on the list. *)
LEMMA StepOn ==
  ASSUME Inv, NEW t \in Thread, AtNode(t), Step(t), UNCHANGED <<order, due>>
  PROVE  /\ curr'[t] = List \/ \E i \in 1 .. Len(order) : curr'[t] = order[i]
         /\ curr' = [curr EXCEPT ![t] = curr'[t]] /\ curr' \in [Thread -> Place]
         /\ save' = [save EXCEPT ![t] = save'[t]] /\ save' \in [Thread -> Place]
         /\ seen' = [seen EXCEPT ![t] = seen[t] \cup {curr[t]}]
         /\ (curr'[t] = List /\ due'[t] \subseteq seen'[t]) \/ AtNode(t)'
<1>1. Typed /\ Distinct /\ Forward
  BY DEF Inv, Ring
<1>2. /\ curr' = [curr EXCEPT ![t] = save[t]]
      /\ save' = [save EXCEPT ![t] = next[save[t]]]
      /\ seen' = [seen EXCEPT ![t] = seen[t] \cup {curr[t]}]
  BY DEF Step
<1>3. PICK c \in 1 .. Len(order) :
        /\ curr[t] = order[c]
        /\ AheadOf(t, c)
        /\ \/ save[t] = List /\ due[t] \subseteq seen[t] \cup {order[c]}
           \/ c < Len(order) /\ save[t] = order[c + 1] /\ DueFrom(t, c)
  BY DEF AtNode
<1>4. curr'[t] = save[t] /\ save'[t] = next[save[t]] /\ seen'[t] = seen[t] \cup {order[c]}
  BY <1>1, <1>2, <1>3 DEF Typed
<1>5. Len(order) \in Nat /\ \A i \in 1 .. Len(order) : order[i] \in Place /\ At(i) = order[i]
  BY <1>1, AtPlaces DEF Place
<1>6. CASE save[t] = List
  <2>1. next[List] \in Place
    <3>1. next[List] = At(1)
      BY <1>1, <1>5, AtPlaces DEF Forward
    <3>. QED  BY <1>1, <3>1, AtPlaces
  <2>2. due'[t] \subseteq seen'[t]
    BY <1>3, <1>4, <1>6, <1>1, AtPlaces
  <2>. QED  BY <1>1, <1>2, <1>4, <1>6, <2>1, <2>2 DEF Typed, Place
<1>7. CASE c < Len(order) /\ save[t] = order[c + 1] /\ DueFrom(t, c)
  <2>1. PICK d \in 1 .. Len(order) : d = c + 1
    BY <1>5, <1>7
  <2>2. next[order[d]] = At(d + 1) /\ At(d + 1) \in Place
    BY <1>1, <1>5, <2>1, AtPlaces DEF Forward
  <2>3. curr'[t] = order[d] /\ save'[t] = At(d + 1)
    BY <1>4, <1>7, <2>1, <2>2
  <2>4. AheadOf(t, d)'
    BY <1>1, <1>3, <1>4, <1>5, <2>1 DEF AheadOf, Distinct
  <2>5. DueFrom(t, d)'
    BY <1>3, <1>4, <1>5, <1>7, <2>1 DEF DueFrom
  <2>6. CASE d = Len(order)
    <3>1. save'[t] = List
      BY <1>5, <2>3, <2>6 DEF At
    <3>2. due'[t] \subseteq seen'[t] \cup {order[d]}
      BY <1>5, <2>5, <2>6 DEF DueFrom
    <3>3. AtNode(t)'
      BY <2>3, <2>4, <3>1, <3>2 DEF AtNode
    <3>. QED  BY <1>1, <1>2, <1>5, <2>2, <2>3, <3>1, <3>3 DEF Typed, Place
  <2>7. CASE d < Len(order)
    <3>1. save'[t] = order[d + 1]
      BY <1>5, <2>3, <2>7 DEF At
    <3>2. AtNode(t)'
      BY <2>3, <2>4, <2>5, <2>7, <3>1 DEF AtNode
    <3>. QED  BY <1>1, <1>2, <1>5, <2>2, <2>3, <3>1, <3>2 DEF Typed, Place
  <2>. QED  BY <1>5, <2>6, <2>7
<1>. QED  BY <1>3, <1>6, <1>7

(* A node is passed. *)
LEMMA PassInv ==
  ASSUME Inv, NEW t \in Thread, Pass(t)
  PROVE  Inv'
<1>1. Typed /\ Fresh /\ Exclusive /\ WalkOf(t) /\ SearchOf(t)
  BY DEF Inv, Walking
<1>2. /\ pc[t] = "visit" /\ curr[t] # List /\ ~Matches(t) /\ Step(t)
      /\ UNCHANGED <<next, prev, writeLock, pc, op, arg, tail, stores, used, order, due>>
  BY DEF Pass
<1>3. AtNode(t)
  BY <1>1, <1>2 DEF WalkOf
<1>4. /\ curr'[t] = List \/ \E i \in 1 .. Len(order) : curr'[t] = order[i]
      /\ curr' = [curr EXCEPT ![t] = curr'[t]] /\ curr' \in [Thread -> Place]
      /\ save' = [save EXCEPT ![t] = save'[t]] /\ save' \in [Thread -> Place]
      /\ seen' = [seen EXCEPT ![t] = seen[t] \cup {curr[t]}]
      /\ (curr'[t] = List /\ due'[t] \subseteq seen'[t]) \/ AtNode(t)'
  BY <1>2, <1>3, StepOn
<1>5. seen'[t] = seen[t] \cup {curr[t]} /\ curr[t] \in Node
  BY <1>1, <1>2, <1>4 DEF Typed, Place
<1>6. Typed'
  BY <1>1, <1>2, <1>4, <1>5 DEF Typed, Place
<1>7. \A u \in Thread \ {t} : Stays(u)
  BY <1>1, <1>2, <1>4 DEF Typed, Stays
<1>8. Recording(t)' => Recording(t) /\ arg'[t] = arg[t]
  BY <1>2 DEF Recording
<1>9. Fresh'
  <2>1. Follows(t)
    BY <1>4, <1>5 DEF Follows
  <2>. QED  BY <1>1, <1>2, <1>7, <1>8, <2>1, FreshStep
<1>10. WalkOf(t)'
  BY <1>2, <1>4 DEF WalkOf
<1>11. SearchOf(t)'
  BY <1>1, <1>2, <1>5 DEF SearchOf, Recording, Matches
<1>12. KeepsLock(t) /\ pc[t] \in Looking /\ Busy(t)'
  BY <1>1, <1>2 DEF KeepsLock, Looking, Busy, Exclusive
<1>. QED
  BY <1>2, <1>6, <1>7, <1>9, <1>10, <1>11, <1>12, QuietInv

(* The traversal goes on behind the node that was taken out. *)
LEMMA GoOnInv ==
  ASSUME Inv, GoOn
  PROVE  Inv'
<1>1. Typed /\ Fresh /\ Exclusive /\ Forward /\ Distinct
  BY DEF Inv, Ring
<1>2. /\ pc[Yield] = "unlinked" /\ Step(Yield) /\ pc' = [pc EXCEPT ![Yield] = "visit"]
      /\ UNCHANGED <<next, prev, writeLock, op, arg, tail, stores, used, order, due>>
  BY DEF GoOn
<1>3. Yield \in Thread
  BY DEF Thread
<1>4. PastNode(Yield) /\ ~Recording(Yield)
  BY <1>1, <1>2, <1>3 DEF Inv, Walking, WalkOf, Exclusive, Busy, Recording
<1>5. /\ curr'[Yield] = save[Yield] /\ save'[Yield] = next[save[Yield]]
      /\ seen'[Yield] = seen[Yield] \cup {curr[Yield]}
      /\ pc'[Yield] = "visit" /\ op'[Yield] = op[Yield] /\ due'[Yield] = due[Yield]
      /\ curr[Yield] \in Node
  BY <1>1, <1>2, <1>3, <1>4 DEF Step, Typed, PastNode
<1>6. Len(order) \in Nat /\ \A i \in 1 .. Len(order) : order[i] \in Place /\ At(i) = order[i]
  BY <1>1, AtPlaces DEF Place
<1>7. /\ (curr'[Yield] = List /\ due'[Yield] \subseteq seen'[Yield]) \/ AtNode(Yield)'
      /\ curr'[Yield] = List \/ \E i \in 1 .. Len(order) : curr'[Yield] = order[i]
      /\ save[Yield] \in Place /\ next[save[Yield]] \in Place
  <2>1. CASE save[Yield] = List /\ due[Yield] \subseteq seen[Yield] \cup {curr[Yield]}
    <3>1. next[List] = At(1) /\ At(1) \in Place
      BY <1>1, <1>6, AtPlaces DEF Forward
    <3>. QED  BY <1>5, <2>1, <3>1 DEF Place
  <2>2. ASSUME NEW c \in 1 .. Len(order),
               save[Yield] = order[c], AheadOf(Yield, c), DueFrom(Yield, c)
        PROVE  /\ (curr'[Yield] = List /\ due'[Yield] \subseteq seen'[Yield]) \/ AtNode(Yield)'
               /\ curr'[Yield] = List \/ \E i \in 1 .. Len(order) : curr'[Yield] = order[i]
               /\ save[Yield] \in Place /\ next[save[Yield]] \in Place
    <3>1. next[order[c]] = At(c + 1) /\ At(c + 1) \in Place
      BY <1>1, <1>6, AtPlaces DEF Forward
    <3>2. curr'[Yield] = order[c] /\ save'[Yield] = At(c + 1)
      BY <1>5, <2>2, <3>1
    <3>3. AheadOf(Yield, c)'
      BY <1>2, <1>4, <1>5, <1>6, <2>2 DEF AheadOf, PastNode
    <3>4. DueFrom(Yield, c)'
      BY <1>2, <1>5, <2>2 DEF DueFrom
    <3>5. CASE c = Len(order)
      <4>1. save'[Yield] = List
        BY <1>6, <3>2, <3>5 DEF At
      <4>2. due'[Yield] \subseteq seen'[Yield] \cup {order[c]}
        BY <1>2, <1>6, <3>4, <3>5 DEF DueFrom
      <4>3. AtNode(Yield)'
        BY <1>2, <3>2, <3>3, <4>1, <4>2 DEF AtNode
      <4>. QED  BY <1>5, <1>6, <2>2, <3>1, <3>2, <4>3
    <3>6. CASE c < Len(order)
      <4>1. save'[Yield] = order[c + 1]
        BY <1>6, <3>2, <3>6 DEF At
      <4>2. AtNode(Yield)'
        BY <1>2, <3>2, <3>3, <3>4, <3>6, <4>1 DEF AtNode
      <4>. QED  BY <1>5, <1>6, <2>2, <3>1, <3>2, <4>2
    <3>. QED  BY <1>6, <3>5, <3>6
  <2>. QED  BY <1>4, <2>1, <2>2 DEF PastNode
<1>8. Typed'
  BY <1>1, <1>2, <1>3, <1>5, <1>7 DEF Typed, Place, Step
<1>9. \A u \in Thread \ {Yield} : Stays(u)
  BY <1>1, <1>2 DEF Typed, Stays, Step
<1>10. ~Recording(Yield)'
  BY <1>2, <1>4, <1>5 DEF Recording
<1>11. Fresh'
  <2>1. Follows(Yield)
    BY <1>5, <1>7 DEF Follows
  <2>. QED  BY <1>1, <1>2, <1>3, <1>9, <1>10, <2>1, FreshStep
<1>12. WalkOf(Yield)' /\ SearchOf(Yield)'
  BY <1>5, <1>7, <1>10 DEF WalkOf, SearchOf
<1>13. KeepsLock(Yield) /\ Busy(Yield)'
  BY <1>1, <1>2, <1>3, <1>5 DEF KeepsLock, Busy, Exclusive
<1>. QED
  BY <1>2, <1>3, <1>5, <1>8, <1>9, <1>11, <1>12, <1>13, QuietInv

-----------------------------------------------------------------------------
(* While one thread is writing pointers no other is: its pointers are as   *)
(* they should be.                                                         *)
LEMMA NobodyElse ==
  ASSUME ~Clash, NEW t \in Thread, pc[t] \in {"link", "unlink"}
  PROVE  /\ \A u \in Thread \ {t} : pc[u] \notin {"link", "unlink"} /\ ~TailTaken(u)
         /\ t # Yield => ~Unlinking
<1>1. \A u \in Thread \ {t} : pc[u] \notin {"link", "unlink"}
  BY DEF Clash
<1>. QED  BY <1>1 DEF TailTaken, Unlinking, Thread

(* mqtt_list_add_tail reads the last node. *)
LEMMA ReadTailInv ==
  ASSUME Inv, NEW t \in Thread, ReadTail(t), ~overlapped'
  PROVE  Inv'
<1>1. /\ Typed /\ Fresh /\ Exclusive /\ Distinct /\ Forward /\ Backward
      /\ Linking /\ HalfUnlinked /\ OneEach /\ WalkOf(t) /\ SearchOf(t)
  BY DEF Inv, Ring, Walking
<1>2. /\ pc[t] = "add"
      /\ tail' = [tail EXCEPT ![t] = prev[List]] /\ stores' = [stores EXCEPT ![t] = 0]
      /\ pc' = [pc EXCEPT ![t] = "link"]
      /\ next' = [next EXCEPT ![arg[t]] = arg[t]]
      /\ prev' = [prev EXCEPT ![arg[t]] = arg[t]]
      /\ UNCHANGED <<writeLock, op, arg, curr, save, used, order, due, seen>>
  BY DEF ReadTail
<1>3. /\ op[t] = "record" /\ Recording(t) /\ arg[t] \in Node
      /\ pc'[t] = "link" /\ \A u \in Thread \ {t} : Stays(u)
      /\ ~Clash' /\ KeepsLock(t)
  BY <1>1, <1>2 DEF Exclusive, Busy, Recording, ReadTail, Note, Typed, Stays, KeepsLock
<1>4. \A u \in Thread : ~TailTaken(u) /\ pc[u] \notin {"link", "unlink"}
  BY <1>2, <1>3 DEF Clash, Stays, TailTaken
<1>5. ~Unlinking
  BY <1>4 DEF Unlinking, Thread
<1>6. Len(order) \in Nat /\ \A i : At(i) \in Place
  BY <1>1, AtPlaces
<1>7. prev[List] = At(Len(order))
  BY <1>1, <1>4, <1>5, <1>6, AtPlaces DEF Backward
<1>8. \A i : At(i) # arg[t]
  BY <1>1, <1>3, ListAssumption DEF At, Fresh
<1>9. Typed'
  BY <1>1, <1>2, <1>3, <1>6, <1>7 DEF Typed, Pointer, Place
<1>10. /\ pc'[t] = "link" /\ tail'[t] = At(Len(order)) /\ stores'[t] = 0
       /\ \A u \in Thread \ {t} : Stays(u)
  BY <1>1, <1>2, <1>7 DEF Typed, Stays
<1>11. \A i : At(i) \in Place => next'[At(i)] = next[At(i)] /\ prev'[At(i)] = prev[At(i)]
  BY <1>1, <1>2, <1>8 DEF Typed
<1>12. \A i : At(i)' = At(i)
  BY <1>2 DEF At
<1>13. Distinct' /\ OneEach'
  BY <1>1, <1>2 DEF Distinct, OneEach
<1>14. Forward'
  BY <1>1, <1>2, <1>6, <1>11, <1>12 DEF Forward
<1>15. Backward'
  BY <1>1, <1>2, <1>4, <1>5, <1>6, <1>11, <1>12 DEF Backward
<1>16. Linking'
  <2>1. \A u \in Thread \ {t} : pc'[u] # "link"
    BY <1>4, <1>10 DEF Stays
  <2>. QED  BY <1>2, <1>10, <1>12, <2>1 DEF Linking
<1>17. HalfUnlinked'
  BY <1>2, <1>5, <1>10 DEF HalfUnlinked, Unlinking, Thread, Stays
<1>18. Exclusive'
  <2>1. Busy(t)'
    BY <1>1, <1>2, <1>3 DEF Exclusive, Busy
  <2>. QED  BY <1>1, <1>3, <2>1, ExclusiveStep
<1>19. Fresh'
  <2>1. Follows(t)
    BY <1>2 DEF Follows
  <2>. QED  BY <1>1, <1>2, <1>3, <1>10, <2>1, FreshStep
<1>20. WalkOf(t)' /\ SearchOf(t)'
  BY <1>1, <1>2, <1>3, <1>10 DEF WalkOf, SearchOf
<1>21. Walking'
  BY <1>2, <1>10, <1>20, QuietWalk DEF Inv, Walking
<1>. QED
  BY <1>9, <1>13, <1>14, <1>15, <1>16, <1>17, <1>18, <1>19, <1>21 DEF Inv, Ring

(* What a thread that adds a node can rely on. *)
LEMMA AddFacts ==
  ASSUME Inv, NEW t \in Thread, pc[t] = "link"
  PROVE  /\ op[t] = "record" /\ Recording(t) /\ arg[t] \in Node
         /\ ~Unlinking /\ \A u \in Thread \ {t} : pc[u] \notin {"link", "unlink"}
         /\ stores[t] \in 0 .. 3 /\ tail[t] = At(Len(order))
         /\ \A i : At(i) # arg[t]
<1>1. Typed /\ Fresh /\ Exclusive /\ Linking
  BY DEF Inv, Ring
<1>2. op[t] = "record" /\ Recording(t) /\ arg[t] \in Node
  BY <1>1 DEF Exclusive, Busy, Recording
<1>3. ~Unlinking /\ \A u \in Thread \ {t} : pc[u] \notin {"link", "unlink"}
  BY <1>1, NobodyElse DEF Exclusive, Unlinking
<1>4. \A i : At(i) # arg[t]
  BY <1>1, <1>2, ListAssumption DEF At, Fresh
<1>. QED  BY <1>1, <1>2, <1>3, <1>4 DEF Linking

(* One of the first three pointers of _mqtt_list_add. *)
LEMMA AddPointerInv ==
  ASSUME Inv, NEW t \in Thread, AddNode(t), stores[t] # 3
  PROVE  Inv'
<1>1. /\ Typed /\ Fresh /\ Exclusive /\ Distinct /\ Forward /\ Backward
      /\ Linking /\ HalfUnlinked /\ OneEach /\ WalkOf(t) /\ SearchOf(t)
  BY DEF Inv, Ring, Walking
<1>2. pc[t] = "link"
  BY DEF AddNode
<1>3. /\ op[t] = "record" /\ Recording(t) /\ arg[t] \in Node
      /\ ~Unlinking /\ \A u \in Thread \ {t} : pc[u] \notin {"link", "unlink"}
      /\ stores[t] \in 0 .. 3 /\ tail[t] = At(Len(order))
      /\ \A i : At(i) # arg[t]
  BY <1>2, AddFacts
<1>4. stores[t] \in {0, 1, 2} /\ stores[t] + 1 \in {1, 2, 3} /\ stores[t] + 1 # 4
  BY <1>3
<1>5. /\ stores' = [stores EXCEPT ![t] = stores[t] + 1]
      /\ Link(t, StoreOrder[stores[t] + 1])
      /\ UNCHANGED <<order, pc, writeLock, op, arg, curr, save, tail, used, due, seen>>
  BY <1>4 DEF AddNode
<1>6. \/ stores[t] = 0 /\ prev' = [prev EXCEPT ![List] = arg[t]] /\ next' = next
      \/ stores[t] = 1 /\ next' = [next EXCEPT ![arg[t]] = List] /\ prev' = prev
      \/ stores[t] = 2 /\ prev' = [prev EXCEPT ![arg[t]] = tail[t]] /\ next' = next
  <2>1. CASE stores[t] = 0
    <3>1. Link(t, "next->prev")
      BY <1>5, <2>1 DEF StoreOrder
    <3>. QED  BY <2>1, <3>1 DEF Link
  <2>2. CASE stores[t] = 1
    <3>1. Link(t, "node->next")
      BY <1>5, <2>2 DEF StoreOrder
    <3>. QED  BY <2>2, <3>1 DEF Link
  <2>3. CASE stores[t] = 2
    <3>1. Link(t, "node->prev")
      BY <1>5, <2>3 DEF StoreOrder
    <3>. QED  BY <2>3, <3>1 DEF Link
  <2>. QED  BY <1>4, <2>1, <2>2, <2>3
<1>7. Len(order) \in Nat /\ \A i : At(i) \in Place
  BY <1>1, AtPlaces
<1>8. Typed'
  <2>1. arg[t] \in Place /\ List \in Place /\ tail[t] \in Place
    BY <1>3, <1>7 DEF Place
  <2>2. next' \in [Pointer -> Pointer] /\ prev' \in [Pointer -> Pointer]
    BY <1>1, <1>6, <2>1 DEF Typed, Pointer
  <2>3. stores' \in [Thread -> 0 .. 4]
    BY <1>1, <1>4, <1>5 DEF Typed
  <2>. QED  BY <1>1, <1>5, <2>2, <2>3 DEF Typed
<1>9. /\ pc'[t] = "link" /\ stores'[t] = stores[t] + 1
      /\ \A u \in Thread \ {t} : Stays(u)
  BY <1>1, <1>2, <1>5 DEF Typed, Stays
<1>10. \A i : At(i)' = At(i)
  BY <1>5 DEF At
<1>11. \A i : next'[At(i)] = next[At(i)]
  BY <1>1, <1>3, <1>6, <1>7 DEF Typed, Pointer
<1>12. \A i : At(i) # List => prev'[At(i)] = prev[At(i)]
  BY <1>1, <1>3, <1>6, <1>7 DEF Typed, Pointer
<1>13. Distinct' /\ OneEach'
  BY <1>1, <1>5 DEF Distinct, OneEach
<1>14. Forward'
  BY <1>1, <1>5, <1>10, <1>11 DEF Forward
<1>15. Backward'
  <2>1. TailTaken(t)'
    BY <1>4, <1>9 DEF TailTaken
  <2>2. \A i \in 1 .. Len(order) : prev'[At(i)] = At(i - 1)
    <3>1. \A i \in 1 .. Len(order) : prev[At(i)] = At(i - 1)
      BY <1>1, <1>3, <1>7 DEF Backward
    <3>. QED  BY <1>1, <1>12, <3>1, AtPlaces
  <2>. QED  BY <1>5, <1>7, <1>10, <2>1, <2>2 DEF Backward
<1>16. Linking'
  <2>1. \A u \in Thread \ {t} : pc'[u] # "link"
    BY <1>3, <1>9 DEF Stays
  <2>2. List \in Place /\ arg[t] \in Place /\ arg[t] # List
    BY <1>3, ListAssumption DEF Place
  <2>3. /\ stores[t] >= 1 => prev[List] = arg[t]
        /\ stores[t] >= 2 => next[arg[t]] = List
    BY <1>1, <1>2 DEF Linking
  <2>4. /\ prev'[List] = arg[t]
        /\ stores[t] >= 1 => next'[arg[t]] = List
        /\ stores[t] = 2 => prev'[arg[t]] = tail[t]
    BY <1>1, <1>4, <1>6, <2>2, <2>3 DEF Typed, Pointer
  <2>5. /\ stores'[t] \in 0 .. 3 /\ tail'[t] = At(Len(order))'
        /\ stores'[t] >= 2 => stores[t] >= 1
        /\ stores'[t] = 3 => stores[t] = 2
    BY <1>3, <1>4, <1>5, <1>9, <1>10
  <2>. QED  BY <1>5, <2>1, <2>4, <2>5 DEF Linking
<1>17. HalfUnlinked'
  BY <1>3, <1>5 DEF HalfUnlinked, Unlinking
<1>18. Exclusive'
  BY <1>1, <1>5 DEF Exclusive, Clash, Busy
<1>19. Fresh'
  BY <1>1, <1>5 DEF Fresh, Recording
<1>20. WalkOf(t)' /\ SearchOf(t)'
  BY <1>1, <1>2, <1>3, <1>5 DEF WalkOf, SearchOf
<1>21. Walking'
  BY <1>5, <1>9, <1>20, QuietWalk DEF Inv, Walking
<1>. QED
  BY <1>8, <1>13, <1>14, <1>15, <1>16, <1>17, <1>18, <1>19, <1>21 DEF Inv, Ring

(* A traversal does not lose its place when a node is added behind. *)
LEMMA WalkBesideAdd ==
  ASSUME Typed, Fresh, NEW u \in Thread, NEW t \in Thread, Recording(t),
         WalkOf(u), Stays(u), order' = Append(order, arg[t]), arg[t] \in Node,
         pc[u] # "unlink"
  PROVE  WalkOf(u)'
<1>1. /\ order \in Seq(Node) /\ Len(order) \in Nat
      /\ Len(order') = Len(order) + 1 /\ order'[Len(order) + 1] = arg[t]
      /\ \A i \in 1 .. Len(order) : order'[i] = order[i]
  BY DEF Typed
<1>2. arg[t] \notin seen[u] /\ arg[t] # curr[u]
  BY DEF Fresh
<1>3. ASSUME NEW c \in 1 .. Len(order), AheadOf(u, c)
      PROVE  AheadOf(u, c)'
  <2>1. ASSUME NEW i \in c .. Len(order') PROVE order'[i] \notin seen[u]
    <3>1. i \in c .. Len(order) \/ i = Len(order) + 1
      BY SMT, <1>1
    <3>2. CASE i \in c .. Len(order)
      <4>1. i \in 1 .. Len(order)
        BY SMT, <1>1, <3>2
      <4>. QED  BY <1>1, <1>3, <3>2, <4>1 DEF AheadOf
    <3>. QED  BY <1>1, <1>2, <3>1, <3>2
  <2>. QED  BY <2>1 DEF AheadOf, Stays
<1>4. ASSUME NEW c \in 1 .. Len(order), DueFrom(u, c)
      PROVE  DueFrom(u, c)'
  <2>1. ASSUME NEW m \in due'[u], m \notin seen'[u]
        PROVE  \E i \in c .. Len(order') : order'[i] = m
    <3>1. PICK i \in c .. Len(order) : order[i] = m
      BY <1>4, <2>1 DEF DueFrom, Stays
    <3>2. i \in 1 .. Len(order) /\ i \in c .. Len(order')
      BY <1>1, <3>1
    <3>. QED  BY <1>1, <3>1, <3>2
  <2>. QED  BY <2>1 DEF DueFrom
<1>5. ASSUME Starting(u)
      PROVE  Starting(u)' /\ order'[1] = order[1]
  <2>1. PICK n \in Nat : n = Len(order)
    BY <1>1
  <2>2. n >= 1 /\ seen[u] = {} /\ DueFrom(u, 1)
    BY <1>5, <2>1 DEF Starting
  <2>3. 1 \in 1 .. Len(order) /\ Len(order') >= 1
    BY <1>1, <2>1, <2>2
  <2>. QED  BY <1>1, <1>4, <2>2, <2>3 DEF Starting, Stays
<1>6. ASSUME AtNode(u)
      PROVE  AtNode(u)'
  <2>1. PICK c \in 1 .. Len(order) :
          /\ curr[u] = order[c]
          /\ AheadOf(u, c)
          /\ \/ save[u] = List /\ due[u] \subseteq seen[u] \cup {order[c]}
             \/ c < Len(order) /\ save[u] = order[c + 1] /\ DueFrom(u, c)
    BY <1>6 DEF AtNode
  <2>2. c \in 1 .. Len(order') /\ curr'[u] = order'[c] /\ AheadOf(u, c)'
    BY <1>1, <1>3, <2>1 DEF Stays
  <2>3. CASE save[u] = List /\ due[u] \subseteq seen[u] \cup {order[c]}
    BY <1>1, <2>2, <2>3 DEF AtNode, Stays
  <2>4. CASE c < Len(order) /\ save[u] = order[c + 1] /\ DueFrom(u, c)
    <3>1. c + 1 \in 1 .. Len(order) /\ c < Len(order')
      BY <1>1, <2>4
    <3>2. save'[u] = order'[c + 1] /\ DueFrom(u, c)'
      BY <1>1, <1>4, <2>4, <3>1 DEF Stays
    <3>. QED  BY <2>2, <3>1, <3>2 DEF AtNode
  <2>. QED  BY <2>1, <2>3, <2>4
<1>7. ASSUME PastNode(u)
      PROVE  PastNode(u)'
  <2>1. /\ curr[u] \in Node
        /\ \A i \in 1 .. Len(order) : order[i] # curr[u]
        /\ \/ save[u] = List /\ due[u] \subseteq seen[u] \cup {curr[u]}
           \/ \E c \in 1 .. Len(order) : save[u] = order[c] /\ AheadOf(u, c) /\ DueFrom(u, c)
    BY <1>7 DEF PastNode
  <2>2. curr'[u] \in Node /\ \A i \in 1 .. Len(order') : order'[i] # curr'[u]
    BY <1>1, <1>2, <2>1 DEF Stays
  <2>3. CASE save[u] = List /\ due[u] \subseteq seen[u] \cup {curr[u]}
    BY <2>2, <2>3 DEF PastNode, Stays
  <2>4. ASSUME NEW c \in 1 .. Len(order), save[u] = order[c], AheadOf(u, c), DueFrom(u, c)
        PROVE  PastNode(u)'
    <3>1. c \in 1 .. Len(order') /\ save'[u] = order'[c] /\ AheadOf(u, c)' /\ DueFrom(u, c)'
      BY <1>1, <1>3, <1>4, <2>4 DEF Stays
    <3>. QED  BY <2>2, <3>1 DEF PastNode
  <2>. QED  BY <2>1, <2>3, <2>4
<1>. QED  BY <1>5, <1>6, <1>7 DEF WalkOf, Stays

(* The last pointer of _mqtt_list_add: the node can be reached. *)
LEMMA AddLastInv ==
  ASSUME Inv, NEW t \in Thread, AddNode(t), stores[t] = 3
  PROVE  Inv'
<1>1. /\ Typed /\ Fresh /\ Exclusive /\ Distinct /\ Forward /\ Backward
      /\ Linking /\ HalfUnlinked /\ OneEach /\ WalkOf(t) /\ SearchOf(t)
  BY DEF Inv, Ring, Walking
<1>2. pc[t] = "link"
  BY DEF AddNode
<1>3. /\ op[t] = "record" /\ Recording(t) /\ arg[t] \in Node
      /\ ~Unlinking /\ \A u \in Thread \ {t} : pc[u] \notin {"link", "unlink"}
      /\ tail[t] = At(Len(order))
      /\ \A i : At(i) # arg[t]
  BY <1>2, AddFacts
<1>4. /\ stores' = [stores EXCEPT ![t] = 4] /\ next' = [next EXCEPT ![tail[t]] = arg[t]]
      /\ order' = Append(order, arg[t]) /\ Leave(t)
      /\ UNCHANGED <<prev, op, arg, curr, save, tail, used, due, seen>>
  <2>1. stores[t] + 1 = 4 /\ Link(t, StoreOrder[4])
    BY DEF AddNode
  <2>2. Link(t, "prev->next")
    BY <2>1 DEF StoreOrder
  <2>3. next' = [next EXCEPT ![tail[t]] = arg[t]] /\ UNCHANGED prev
    BY <2>2 DEF Link
  <2>. QED  BY <2>1, <2>3 DEF AddNode
<1>5. /\ order \in Seq(Node) /\ Len(order) \in Nat /\ \A i : At(i) \in Place
      /\ order' \in Seq(Node)
      /\ Len(order') = Len(order) + 1 /\ order'[Len(order) + 1] = arg[t]
      /\ \A i \in 1 .. Len(order) : order'[i] = order[i]
  BY <1>1, <1>3, <1>4, AtPlaces DEF Typed
<1>6. /\ pc' = [pc EXCEPT ![t] = "idle"] /\ writeLock' \in Thread \cup {None} /\ KeepsLock(t)
  BY <1>1, <1>4 DEF Leave, Typed, KeepsLock
<1>7. Typed'
  <2>1. next' \in [Pointer -> Pointer]
    BY <1>1, <1>3, <1>4, <1>5 DEF Typed, Pointer, Place
  <2>2. stores' \in [Thread -> 0 .. 4] /\ pc' \in [Thread -> {"idle", "empty", "first", "second",
          "visit", "add", "link", "unlink", "unlinked"}]
    BY <1>1, <1>4, <1>6 DEF Typed
  <2>. QED  BY <1>1, <1>4, <1>5, <1>6, <2>1, <2>2 DEF Typed
<1>8. pc'[t] = "idle" /\ \A u \in Thread \ {t} : Stays(u)
  BY <1>1, <1>4, <1>6 DEF Typed, Stays
<1>. DEFINE n == Len(order)
<1>. HIDE DEF n
<1>0. n \in Nat /\ n' = n + 1 /\ n = Len(order) /\ Len(order') = n + 1
  BY <1>5 DEF n
<1>9. /\ \A i \in 0 .. n : At(i)' = At(i)
      /\ \A i : i = n + 1 => At(i)' = arg[t]
      /\ \A i : i = n + 2 => At(i)' = List
  BY <1>0, <1>5 DEF At
<1>10. /\ next'[arg[t]] = List /\ prev[arg[t]] = At(Len(order)) /\ prev[List] = arg[t]
       /\ next'[At(Len(order))] = arg[t]
       /\ \A i \in 0 .. Len(order) : i # Len(order) => next'[At(i)] = next[At(i)]
  <2>1. /\ next[arg[t]] = List /\ prev[arg[t]] = tail[t] /\ prev[List] = arg[t]
    BY <1>1, <1>2 DEF Linking
  <2>2. \A i \in 0 .. Len(order) : i # Len(order) => At(i) # At(Len(order))
    BY <1>1, <1>5, AtInjective
  <2>3. arg[t] \in Place /\ arg[t] # At(Len(order))
    BY <1>3 DEF Place
  <2>. QED  BY <1>1, <1>3, <1>4, <1>5, <2>1, <2>2, <2>3 DEF Typed, Pointer
<1>11. Distinct'
  <2>1. \A i \in 1 .. Len(order) : order[i] # arg[t]
    BY <1>1, <1>3 DEF Fresh
  <2>. QED  BY <1>1, <1>5, <2>1 DEF Distinct
<1>12. OneEach'
  <2>1. \A i \in 1 .. Len(order) : Key(order[i]) # Key(arg[t])
    BY <1>1, <1>2, <1>3 DEF SearchOf
  <2>2. DOMAIN order = 1 .. Len(order) /\ DOMAIN order' = 1 .. Len(order')
    BY <1>5
  <2>. QED  BY <1>1, <1>5, <2>1, <2>2 DEF OneEach
<1>13. Forward'
  <2>. SUFFICES ASSUME NEW i \in 0 .. n + 1
                PROVE  next'[At(i)'] = At(i + 1)'
    BY <1>0 DEF Forward
  <2>1. CASE i < n
    <3>1. i + 1 \in 0 .. n /\ i \in 0 .. n /\ i # n
      BY <1>0, <2>1
    <3>2. next[At(i)] = At(i + 1)
      BY <1>0, <1>1, <3>1 DEF Forward
    <3>. QED  BY <1>0, <1>9, <1>10, <3>1, <3>2
  <2>2. CASE i = n
    <3>1. At(i)' = At(i)
      BY <1>0, <1>9, <2>2
    <3>2. At(i + 1)' = arg[t]
      BY <1>0, <1>9, <2>2
    <3>. QED  BY <1>0, <1>10, <2>2, <3>1, <3>2
  <2>3. CASE i = n + 1
    <3>1. At(i)' = arg[t]
      BY <1>0, <1>9, <2>3
    <3>2. At(i + 1)' = List
      BY <1>0, <1>9, <2>3
    <3>. QED  BY <1>10, <3>1, <3>2
  <2>. QED  BY <1>0, <2>1, <2>2, <2>3
<1>14. Backward'
  <2>. SUFFICES ASSUME NEW i \in 1 .. n + 2
                PROVE  prev'[At(i)'] = At(i - 1)'
    BY <1>0 DEF Backward
  <2>1. CASE i \in 1 .. n
    <3>1. i \in 0 .. n /\ i - 1 \in 0 .. n /\ i # n + 1 /\ i \in 1 .. n + 1
      BY <1>0, <2>1
    <3>2. prev[At(i)] = At(i - 1)
      BY <1>0, <1>1, <1>3, <3>1 DEF Backward
    <3>. QED  BY <1>4, <1>9, <3>1, <3>2
  <2>2. CASE i = n + 1
    <3>1. At(i)' = arg[t]
      BY <1>0, <1>9, <2>2
    <3>2. i - 1 = n /\ n \in 0 .. n
      BY <1>0, <2>2
    <3>3. At(i - 1)' = At(n)
      BY <1>9, <3>2
    <3>. QED  BY <1>0, <1>4, <1>10, <3>1, <3>3
  <2>3. CASE i = n + 2
    <3>1. At(i)' = List
      BY <1>0, <1>9, <2>3
    <3>2. i - 1 = n + 1
      BY <1>0, <2>3
    <3>3. At(i - 1)' = arg[t]
      BY <1>9, <3>2
    <3>. QED  BY <1>4, <1>10, <3>1, <3>3
  <2>. QED  BY <1>0, <2>1, <2>2, <2>3
<1>15. Linking'
  BY <1>3, <1>8 DEF Linking, Stays
<1>16. HalfUnlinked'
  BY <1>3, <1>8 DEF HalfUnlinked, Unlinking, Thread, Stays
<1>17. Exclusive'
  <2>1. Busy(t)' /\ ~Clash'
    BY <1>1, <1>8, NoClash DEF Exclusive, Busy, Looking
  <2>. QED  BY <1>1, <1>6, <1>8, <2>1, ExclusiveStep
<1>18. Fresh'
  <2>1. \A i \in 1 .. Len(order') : order'[i] \in used'
    BY <1>1, <1>3, <1>4, <1>5 DEF Fresh
  <2>2. ASSUME NEW u \in Thread, Recording(u)'
        PROVE  /\ arg'[u] \in used'
               /\ \A i \in 1 .. Len(order') : order'[i] # arg'[u]
               /\ \A v \in Thread : arg'[u] \notin seen'[v] /\ arg'[u] # curr'[v]
    <3>1. u # t /\ Recording(u) /\ arg'[u] = arg[u]
      BY <1>8, <2>2 DEF Recording, Stays
    <3>2. arg[u] # arg[t]
      BY <1>1, <1>3, <3>1, Apart
    <3>. QED  BY <1>1, <1>4, <1>5, <3>1, <3>2 DEF Fresh
  <2>. QED  BY <1>1, <1>4, <2>1, <2>2 DEF Fresh
<1>19. Walking'
  <2>1. WalkOf(t)' /\ SearchOf(t)'
    BY <1>8 DEF WalkOf, SearchOf, Recording
  <2>2. ASSUME NEW u \in Thread \ {t}
        PROVE  WalkOf(u)' /\ SearchOf(u)'
    <3>1. pc[u] # "unlink" /\ WalkOf(u) /\ Stays(u)
      BY <1>1, <1>3, <1>8 DEF Exclusive, Busy, Unlinking, Inv, Walking
    <3>2. WalkOf(u)'
      BY <1>1, <1>3, <1>4, <3>1, WalkBesideAdd
    <3>3. ASSUME Recording(u)
          PROVE  SearchOf(u)'
      <4>1. SearchOf(u) /\ Key(arg[u]) # Key(arg[t])
        BY <1>1, <1>3, <3>3, Apart DEF Inv, Walking
      <4>2. /\ due'[u] = due[u] /\ seen'[u] = seen[u] /\ arg'[u] = arg[u] /\ pc'[u] = pc[u]
            /\ pc[u] \in {"first", "second", "visit"} =>
                 /\ \A i \in 1 .. Len(order) : Key(order[i]) = Key(arg[u]) => order[i] \in due[u]
                 /\ \A m \in seen[u] : Key(m) # Key(arg[u])
            /\ pc[u] \in {"add", "link"} =>
                 \A i \in 1 .. Len(order) : Key(order[i]) # Key(arg[u])
        BY <3>1, <3>3, <4>1 DEF SearchOf, Stays
      <4>3. \A i \in 1 .. Len(order') : i \in 1 .. Len(order) \/ i = Len(order) + 1
        BY <1>5
      <4>4. \A i \in 1 .. Len(order') :
              \/ i \in 1 .. Len(order) /\ order'[i] = order[i]
              \/ order'[i] = arg[t]
        BY <1>5, <4>3
      <4>. QED  BY <4>1, <4>2, <4>4 DEF SearchOf
    <3>. QED  BY <3>1, <3>2, <3>3 DEF SearchOf, Recording, Stays
  <2>. QED  BY <2>1, <2>2 DEF Walking
<1>. QED
  BY <1>7, <1>11, <1>12, <1>13, <1>14, <1>15, <1>16, <1>17, <1>18, <1>19 DEF Inv, Ring

-----------------------------------------------------------------------------
(* A node is taken out: the pointer back over it is written. *)
LEMMA UnlinkInv ==
  ASSUME Inv, Unlink, ~overlapped'
  PROVE  Inv'
<1>1. /\ Typed /\ Fresh /\ Exclusive /\ Distinct /\ Forward /\ Backward
      /\ Linking /\ HalfUnlinked /\ OneEach /\ Yield \in Thread /\ WalkOf(Yield)
  BY DEF Inv, Ring, Walking, Thread
<1>2. /\ pc[Yield] = "visit" /\ curr[Yield] # List
      /\ op[Yield] = "scan" \/ op[Yield] = "unrecord"
      /\ prev' = [prev EXCEPT ![next[curr[Yield]]] = prev[curr[Yield]]]
      /\ pc' = [pc EXCEPT ![Yield] = "unlink"]
      /\ UNCHANGED <<next, writeLock, op, arg, curr, save, tail, stores, used, order, due, seen>>
  BY DEF Unlink
<1>3. AtNode(Yield)
  BY <1>1, <1>2 DEF WalkOf
<1>4. PICK c \in 1 .. Len(order) : curr[Yield] = order[c]
  BY <1>3 DEF AtNode
<1>. DEFINE n == Len(order)
<1>5. n \in Nat /\ At(c) = order[c] /\ \A i : At(i) \in Place
  BY <1>1, AtPlaces
<1>6. /\ ~Clash' /\ KeepsLock(Yield)
      /\ \A u \in Thread \ {Yield} : pc[u] \notin {"link", "unlink"}
  <2>1. ~Clash' /\ pc'[Yield] = "unlink" /\ KeepsLock(Yield)
    BY <1>1, <1>2 DEF Unlink, Note, Typed, KeepsLock
  <2>2. \A u \in Thread \ {Yield} : pc'[u] = pc[u]
    BY <1>1, <1>2 DEF Typed
  <2>. QED  BY <1>1, <2>1, <2>2 DEF Clash
<1>7. \A u \in Thread : ~TailTaken(u)
  BY <1>2, <1>6 DEF TailTaken
<1>8. \A i \in 1 .. n + 1 : prev[At(i)] = At(i - 1)
  BY <1>1, <1>2, <1>7 DEF Backward, Unlinking
<1>9. /\ c \in 1 .. n /\ c + 1 \in 1 .. n + 1 /\ c \in 0 .. n /\ c \in 1 .. n + 1
      /\ (c + 1) - 1 = c
  BY <1>5
<1>10. next[order[c]] = At(c + 1) /\ prev[order[c]] = At(c - 1)
  BY <1>1, <1>5, <1>8, <1>9 DEF Forward
<1>11. prev' = [prev EXCEPT ![At(c + 1)] = At(c - 1)]
  BY <1>2, <1>4, <1>10
<1>12. Typed'
  <2>1. prev' \in [Pointer -> Pointer]
    BY <1>1, <1>5, <1>11 DEF Typed, Pointer
  <2>. HIDE DEF n
  <2>. QED  BY <1>1, <1>2, <2>1 DEF Typed
<1>13. \A i : At(i)' = At(i)
  BY <1>2 DEF At
<1>14. pc'[Yield] = "unlink" /\ \A u \in Thread \ {Yield} : Stays(u)
  BY <1>1, <1>2 DEF Typed, Stays
<1>15. Distinct' /\ OneEach' /\ Forward'
  BY <1>1, <1>2, <1>13 DEF Distinct, OneEach, Forward
<1>16. Backward'
  <2>. SUFFICES ASSUME NEW i \in 1 .. n + 1
                PROVE  prev'[At(i)] = At(i - 1) \/ (Unlinking' /\ At(i - 1) = curr'[Yield])
    BY <1>2, <1>13 DEF Backward
  <2>1. CASE i = c + 1
    BY <1>2, <1>4, <1>5, <1>9, <1>14, <2>1 DEF Unlinking
  <2>2. CASE i # c + 1
    <3>1. At(i) # At(c + 1)
      BY <1>1, <1>9, <2>2, AtInjective
    <3>. QED  BY <1>1, <1>5, <1>8, <1>11, <3>1 DEF Typed
  <2>. QED  BY <2>1, <2>2
<1>17. Linking'
  BY <1>6, <1>14 DEF Linking, Stays
<1>18. HalfUnlinked'
  <2>1. prev'[At(c + 1)] = At(c - 1)
    BY <1>1, <1>5, <1>11 DEF Typed, Pointer
  <2>. QED  BY <1>2, <1>4, <1>9, <1>13, <2>1 DEF HalfUnlinked
<1>19. Exclusive'
  <2>1. Busy(Yield)'
    BY <1>1, <1>2, <1>14, ListAssumption DEF Busy, Exclusive
  <2>. QED  BY <1>1, <1>6, <1>14, <2>1, ExclusiveStep
<1>20. ~Recording(Yield)' /\ ~Recording(Yield)
  BY <1>2 DEF Recording
<1>21. Fresh'
  <2>1. Follows(Yield)
    BY <1>2 DEF Follows
  <2>. QED  BY <1>1, <1>2, <1>14, <1>20, <2>1, FreshStep
<1>22. WalkOf(Yield)' /\ SearchOf(Yield)'
  <2>1. AtNode(Yield)'
    BY <1>2, <1>3 DEF AtNode, AheadOf, DueFrom
  <2>. QED  BY <1>14, <1>20, <2>1 DEF WalkOf, SearchOf
<1>23. Walking'
  BY <1>2, <1>14, <1>22, QuietWalk DEF Inv, Walking
<1>. QED
  BY <1>12, <1>15, <1>16, <1>17, <1>18, <1>19, <1>21, <1>23 DEF Inv, Ring

(* The list without the node at place c. *)
LEMMA WithoutShape ==
  ASSUME Typed, Distinct, NEW c \in 1 .. Len(order), NEW w, w = Without(order, order[c])
  PROVE  /\ w \in Seq(Node) /\ Len(w) \in Nat /\ Len(order) = Len(w) + 1
         /\ \A i \in 1 .. Len(w) : w[i] = order[IF i < c THEN i ELSE i + 1]
<1>1. order \in Seq(Node) /\ DOMAIN order = 1 .. Len(order) /\ Len(order) \in Nat
  BY DEF Typed
<1>2. (CHOOSE i \in DOMAIN order : order[i] = order[c]) = c
  BY <1>1 DEF Distinct
<1>3. w = [i \in 1 .. Len(order) - 1 |-> order[IF i < c THEN i ELSE i + 1]]
  BY <1>2 DEF Without
<1>4. Len(order) - 1 \in Nat /\ c \in Nat
  BY <1>1
<1>5. \A i \in 1 .. Len(order) - 1 : order[IF i < c THEN i ELSE i + 1] \in Node
  <2>1. \A i \in 1 .. Len(order) : order[i] \in Node
    BY <1>1
  <2>2. \A i \in 1 .. Len(order) - 1 : i \in 1 .. Len(order) /\ i + 1 \in 1 .. Len(order)
    BY <1>1
  <2>. QED  BY <2>1, <2>2
<1>6. w \in Seq(Node) /\ Len(w) = Len(order) - 1
  BY <1>3, <1>4, <1>5
<1>. QED  BY <1>1, <1>3, <1>4, <1>6

(* The pointer forward is written, and the node freed. *)
LEMMA FinishUnlinkInv ==
  ASSUME Inv, FinishUnlink
  PROVE  Inv'
<1>1. /\ Typed /\ Fresh /\ Exclusive /\ Distinct /\ Forward /\ Backward
      /\ Linking /\ HalfUnlinked /\ OneEach /\ Yield \in Thread /\ WalkOf(Yield)
  BY DEF Inv, Ring, Walking, Thread
<1>. DEFINE x == curr[Yield]
            n == Len(order')
<1>2. /\ pc[Yield] = "unlink"
      /\ next' = [[next EXCEPT ![prev[x]] = next[x]] EXCEPT ![x] = None]
      /\ prev' = [prev EXCEPT ![x] = None]
      /\ order' = Without(order, x)
      /\ due' = [u \in Thread |-> due[u] \ {x}]
      /\ pc' = [pc EXCEPT ![Yield] = "unlinked"]
      /\ UNCHANGED <<writeLock, op, arg, curr, save, tail, stores, used, seen>>
  BY DEF FinishUnlink, Freed
<1>3. AtNode(Yield) /\ op[Yield] # "record"
  BY <1>1, <1>2 DEF WalkOf, Exclusive, Busy
<1>4. PICK c \in 1 .. Len(order) :
        /\ x = order[c]
        /\ AheadOf(Yield, c)
        /\ \/ save[Yield] = List /\ due[Yield] \subseteq seen[Yield] \cup {order[c]}
           \/ c < Len(order) /\ save[Yield] = order[c + 1] /\ DueFrom(Yield, c)
  BY <1>3 DEF AtNode
<1>. HIDE DEF x, n
<1>5. /\ order' \in Seq(Node) /\ n \in Nat /\ Len(order) = n + 1 /\ n = Len(order')
      /\ \A i \in 1 .. n : order'[i] = order[IF i < c THEN i ELSE i + 1]
      /\ c \in 1 .. n + 1 /\ c \in Nat
  BY <1>1, <1>2, <1>4, WithoutShape DEF n
<1>6. \A u \in Thread \ {Yield} : pc[u] \in {"idle", "empty", "add"}
  <2>1. \A u \in Thread \ {Yield} : u \in Apps /\ pc[u] \notin {"link", "unlink", "unlinked"}
    BY <1>1, <1>2, NobodyElse DEF Exclusive, Busy, Thread
  <2>2. \A u \in Thread \ {Yield} : pc[u] \notin {"first", "second", "visit"}
    BY <1>1, <1>2, <2>1 DEF Exclusive, Clash
  <2>. QED  BY <1>1, <2>1, <2>2 DEF Typed
<1>7. /\ \A i : i \in 0 .. c - 1 => At(i)' = At(i)
      /\ \A i : i \in c .. n + 1 => At(i)' = At(i + 1)
      /\ \A i : At(i) \in Place
      /\ At(c) = x /\ x \in Node /\ x \in Place
  <2>1. \A i : i \in 1 .. c - 1 => At(i)' = At(i)
    BY <1>5 DEF At
  <2>2. At(0)' = At(0)
    BY <1>5 DEF At
  <2>3. \A i : i \in c .. n => At(i)' = At(i + 1)
    BY <1>5 DEF At
  <2>4. \A i : i = n + 1 => At(i)' = At(i + 1)
    BY <1>5 DEF At
  <2>5. (\A i : At(i) \in Place) /\ At(c) = x /\ x \in Node /\ x \in Place
    BY <1>1, <1>4, AtPlaces DEF Place
  <2>. QED  BY <1>5, <2>1, <2>2, <2>3, <2>4, <2>5
<1>8. \A i, j \in 0 .. n + 1 : At(i) = At(j) => i = j
  BY <1>1, <1>5, AtInjective
<1>9. \A i, j \in 1 .. n + 2 : At(i) = At(j) => i = j
  BY <1>1, <1>5, AtInjective
<1>10. \A i \in 0 .. n + 1 : next[At(i)] = At(i + 1)
  BY <1>1, <1>5 DEF Forward
<1>11. \A i \in 1 .. n + 2 : i # c + 1 => prev[At(i)] = At(i - 1)
  <2>1. \A u \in Thread : ~TailTaken(u)
    BY <1>2, <1>6 DEF TailTaken
  <2>2. \A i \in 1 .. n + 2 : i # c + 1 => At(i - 1) # x
    BY <1>5, <1>7, <1>8
  <2>. QED  BY <1>1, <1>5, <2>1, <2>2 DEF Backward, x
<1>12. prev[At(c + 1)] = At(c - 1) /\ prev[x] = At(c - 1) /\ next[x] = At(c + 1)
  <2>1. PICK d \in 1 .. n + 1 : order[d] = x /\ prev[At(d + 1)] = At(d - 1)
    BY <1>1, <1>2, <1>5 DEF HalfUnlinked, Unlinking, x
  <2>2. d = c
    BY <1>1, <1>4, <1>5, <2>1 DEF Distinct
  <2>3. c \in 0 .. n + 1 /\ c \in 1 .. n + 2 /\ c # c + 1
    BY <1>5
  <2>. QED  BY <1>7, <1>10, <1>11, <2>1, <2>2, <2>3
<1>13. Typed'
  <2>1. /\ prev' \in [Pointer -> Pointer] /\ next' \in [Pointer -> Pointer]
    BY <1>1, <1>2, <1>7, <1>12 DEF Typed, Pointer
  <2>2. pc' \in [Thread -> {"idle", "empty", "first", "second", "visit", "add", "link",
                            "unlink", "unlinked"}]
    BY <1>1, <1>2 DEF Typed
  <2>3. due' \in [Thread -> SUBSET Node]
    BY <1>1, <1>2 DEF Typed
  <2>. QED  BY <1>1, <1>2, <1>5, <2>1, <2>2, <2>3 DEF Typed
<1>14. /\ pc'[Yield] = "unlinked" /\ ~Recording(Yield)' /\ KeepsLock(Yield)
       /\ \A u \in Thread \ {Yield} : pc'[u] = pc[u] /\ pc'[u] \in {"idle", "empty", "add"}
  BY <1>1, <1>2, <1>3, <1>6 DEF Typed, Recording, KeepsLock
<1>15. \A i \in 1 .. n : /\ (IF i < c THEN i ELSE i + 1) \in 1 .. Len(order)
                         /\ (IF i < c THEN i ELSE i + 1) # c
  BY <1>5
<1>16. Distinct'
  BY <1>1, <1>5, <1>15 DEF Distinct
<1>17. OneEach'
  <2>1. DOMAIN order = 1 .. Len(order) /\ DOMAIN order' = 1 .. n
    BY <1>1, <1>5 DEF Typed
  <2>. QED  BY <1>1, <1>5, <1>15, <2>1 DEF OneEach
<1>18. \A y \in Place : /\ prev'[y] = IF y = x THEN None ELSE prev[y]
                        /\ next'[y] = IF y = x THEN None
                                      ELSE IF y = At(c - 1) THEN At(c + 1) ELSE next[y]
  BY <1>1, <1>2, <1>12 DEF Typed, Pointer
<1>19. Forward'
  <2>. SUFFICES ASSUME NEW i \in 0 .. n
                PROVE  next'[At(i)'] = At(i + 1)'
    BY <1>5 DEF Forward
  <2>1. CASE i < c - 1
    <3>1. /\ i \in 0 .. c - 1 /\ i + 1 \in 0 .. c - 1 /\ i \in 0 .. n + 1
          /\ c - 1 \in 0 .. n + 1 /\ c \in 0 .. n + 1 /\ i # c - 1 /\ i # c
      BY <1>5, <2>1
    <3>2. At(i)' = At(i) /\ At(i + 1)' = At(i + 1) /\ next[At(i)] = At(i + 1)
      BY <1>7, <1>10, <3>1
    <3>3. At(i) # x /\ At(i) # At(c - 1)
      BY <1>7, <1>8, <3>1
    <3>. QED  BY <1>7, <1>18, <3>2, <3>3
  <2>2. CASE i = c - 1
    <3>1. /\ i \in 0 .. c - 1 /\ i + 1 = c /\ c \in c .. n + 1 /\ i \in 0 .. n + 1
          /\ c \in 0 .. n + 1 /\ i # c
      BY <1>5, <2>2
    <3>2. At(i)' = At(i) /\ At(i + 1)' = At(c + 1)
      BY <1>7, <3>1
    <3>3. At(i) # x /\ At(i) = At(c - 1)
      BY <1>7, <1>8, <2>2, <3>1
    <3>. QED  BY <1>7, <1>18, <3>2, <3>3
  <2>3. CASE i >= c
    <3>1. /\ i \in c .. n + 1 /\ i + 1 \in c .. n + 1 /\ i + 1 \in 0 .. n + 1
          /\ c - 1 \in 0 .. n + 1 /\ c \in 0 .. n + 1 /\ i + 1 # c - 1 /\ i + 1 # c
      BY <1>5, <2>3
    <3>2. At(i)' = At(i + 1) /\ At(i + 1)' = At((i + 1) + 1) /\ next[At(i + 1)] = At((i + 1) + 1)
      BY <1>7, <1>10, <3>1
    <3>3. At(i + 1) # x /\ At(i + 1) # At(c - 1)
      BY <1>7, <1>8, <3>1
    <3>. QED  BY <1>7, <1>18, <3>2, <3>3
  <2>. QED  BY <1>5, <2>1, <2>2, <2>3
<1>20. Backward'
  <2>. SUFFICES ASSUME NEW i \in 1 .. n + 1
                PROVE  prev'[At(i)'] = At(i - 1)'
    BY <1>5 DEF Backward
  <2>1. CASE i < c
    <3>1. /\ i \in 0 .. c - 1 /\ i - 1 \in 0 .. c - 1 /\ i \in 1 .. n + 2
          /\ c \in 1 .. n + 2 /\ i # c /\ i # c + 1
      BY <1>5, <2>1
    <3>2. At(i)' = At(i) /\ At(i - 1)' = At(i - 1) /\ prev[At(i)] = At(i - 1)
      BY <1>7, <1>11, <3>1
    <3>3. At(i) # x
      BY <1>7, <1>9, <3>1
    <3>. QED  BY <1>7, <1>18, <3>2, <3>3
  <2>2. CASE i = c
    <3>1. /\ i \in c .. n + 1 /\ i - 1 \in 0 .. c - 1 /\ c + 1 \in 1 .. n + 2
          /\ c \in 1 .. n + 2 /\ c + 1 # c
      BY <1>5, <2>2
    <3>2. At(i)' = At(c + 1) /\ At(i - 1)' = At(c - 1)
      BY <1>7, <2>2, <3>1
    <3>3. At(c + 1) # x
      BY <1>7, <1>9, <3>1
    <3>. QED  BY <1>7, <1>12, <1>18, <3>2, <3>3
  <2>3. CASE i > c
    <3>1. /\ i \in c .. n + 1 /\ i - 1 \in c .. n + 1 /\ i + 1 \in 1 .. n + 2
          /\ c \in 1 .. n + 2 /\ i + 1 # c /\ i + 1 # c + 1
          /\ (i - 1) + 1 = i /\ (i + 1) - 1 = i
      BY <1>5, <2>3
    <3>2. At(i)' = At(i + 1) /\ At(i - 1)' = At(i) /\ prev[At(i + 1)] = At(i)
      BY <1>7, <1>11, <3>1
    <3>3. At(i + 1) # x
      BY <1>7, <1>9, <3>1
    <3>. QED  BY <1>7, <1>18, <3>2, <3>3
  <2>. QED  BY <1>5, <2>1, <2>2, <2>3
<1>21. Linking' /\ HalfUnlinked'
  BY <1>14 DEF Linking, HalfUnlinked, Unlinking, Thread
<1>22. Exclusive'
  <2>1. \A u \in Thread : Busy(u)'
    BY <1>1, <1>2, <1>14 DEF Exclusive, Busy
  <2>2. ~Clash'
    BY <1>14 DEF Clash
  <2>. QED  BY <2>1, <2>2 DEF Exclusive
<1>23. Fresh'
  <2>1. \A i \in 1 .. n : order'[i] \in used
    BY <1>1, <1>5, <1>15 DEF Fresh
  <2>2. \A u \in Thread : Recording(u)' => Recording(u) /\ u # Yield
    BY <1>2, <1>14 DEF Recording
  <2>3. \A u \in Thread : Recording(u)' => \A i \in 1 .. n : order'[i] # arg'[u]
    BY <1>1, <1>2, <1>5, <1>15, <2>2 DEF Fresh
  <2>. QED  BY <1>1, <1>2, <1>5, <2>1, <2>2, <2>3 DEF Fresh
<1>24. PastNode(Yield)'
  <2>1. /\ curr'[Yield] = x /\ save'[Yield] = save[Yield] /\ seen'[Yield] = seen[Yield]
        /\ due'[Yield] = due[Yield] \ {x}
    BY <1>1, <1>2 DEF x
  <2>2. \A i \in 1 .. n : order'[i] # x
    BY <1>1, <1>4, <1>5, <1>15 DEF Distinct
  <2>3. CASE save[Yield] = List /\ due[Yield] \subseteq seen[Yield] \cup {order[c]}
    BY <1>4, <1>5, <1>7, <2>1, <2>2, <2>3 DEF PastNode
  <2>4. CASE c < Len(order) /\ save[Yield] = order[c + 1] /\ DueFrom(Yield, c)
    <3>1. c \in 1 .. n /\ order'[c] = order[c + 1]
      BY <1>5, <2>4
    <3>2. \A i \in c .. n : i \in 1 .. n /\ i + 1 \in c .. Len(order) /\ order'[i] = order[i + 1]
      BY <1>5, <3>1
    <3>3. AheadOf(Yield, c)'
      BY <1>4, <1>5, <2>1, <3>2 DEF AheadOf
    <3>4. ASSUME NEW m \in due'[Yield], m \notin seen'[Yield]
          PROVE  \E i \in c .. n : order'[i] = m
      <4>1. PICK i \in c .. Len(order) : order[i] = m
        BY <2>1, <2>4, <3>4 DEF DueFrom
      <4>2. i # c
        BY <1>4, <2>1, <3>4, <4>1
      <4>3. i - 1 \in c .. n /\ (i - 1) + 1 = i
        BY <1>5, <4>1, <4>2
      <4>. QED  BY <3>2, <4>1, <4>3
    <3>5. DueFrom(Yield, c)'
      BY <1>5, <3>4 DEF DueFrom
    <3>. QED  BY <1>5, <1>7, <2>1, <2>2, <2>4, <3>1, <3>3, <3>5 DEF PastNode
  <2>. QED  BY <1>4, <2>3, <2>4
<1>25. Walking'
  <2>1. WalkOf(Yield)' /\ SearchOf(Yield)'
    BY <1>14, <1>24 DEF WalkOf, SearchOf
  <2>2. ASSUME NEW u \in Thread \ {Yield}
        PROVE  WalkOf(u)' /\ SearchOf(u)'
    <3>1. WalkOf(u)'
      BY <1>14 DEF WalkOf
    <3>2. ASSUME pc'[u] = "add", Recording(u)'
          PROVE  \A i \in 1 .. n : Key(order'[i]) # Key(arg'[u])
      <4>1. pc[u] = "add" /\ Recording(u) /\ arg'[u] = arg[u] /\ SearchOf(u)
        BY <1>2, <1>14, <3>2 DEF Recording, Inv, Walking
      <4>. QED  BY <1>5, <1>15, <4>1 DEF SearchOf
    <3>. QED  BY <1>5, <1>14, <3>1, <3>2 DEF SearchOf
  <2>. QED  BY <2>1, <2>2 DEF Walking
<1>. QED
  BY <1>13, <1>16, <1>17, <1>19, <1>20, <1>21, <1>22, <1>23, <1>25 DEF Inv, Ring

-----------------------------------------------------------------------------
(* The empty list is a ring, and nobody walks along it. *)
LEMMA InitInv ==
  ASSUME Init
  PROVE  Inv
<1>1. order = << >> /\ Len(order) = 0 /\ order \in Seq(Node)
  BY DEF Init
<1>2. Typed
  BY <1>1 DEF Init, Typed, Place, Pointer
<1>3. \A t \in Thread : pc[t] = "idle" /\ seen[t] = {} /\ curr[t] = List
  BY DEF Init
<1>4. Exclusive /\ Fresh /\ Walking /\ Linking /\ HalfUnlinked
  BY <1>1, <1>3 DEF Exclusive, Clash, Busy, Fresh, Recording, Walking, WalkOf, SearchOf,
     Linking, HalfUnlinked, Unlinking, Thread
<1>5. Distinct /\ OneEach
  BY <1>1 DEF Distinct, OneEach
<1>6. next[List] = List /\ prev[List] = List
  BY DEF Init, Place, Pointer
<1>7. Forward /\ Backward
  BY <1>1, <1>6 DEF Forward, Backward, At
<1>. QED  BY <1>2, <1>4, <1>5, <1>7 DEF Inv, Ring

(* Threads that have met stay so. *)
LEMMA OverlapStays ==
  ASSUME overlapped \in BOOLEAN, [Next]_vars
  PROVE  overlapped' \in BOOLEAN /\ (overlapped => overlapped')
<1>1. overlapped' = overlapped \/ Note
  BY DEF Next, vars, Record, RecordReceived, BeginRecord, BeginWalk, Unrecord, Scan, Continue,
     IsEmpty, FirstNode, SecondNode, AtEnd, Pass, Exists, ReadTail, AddNode, YieldOnly, Unlink,
     FinishUnlink, GoOn
<1>. QED  BY <1>1 DEF Note

(* Every step keeps the invariant, as long as no two threads meet on the   *)
(* pointers.                                                               *)
LEMMA StepInv ==
  ASSUME Inv, ~overlapped', [Next]_vars
  PROVE  Inv'
<1>1. CASE (\E t \in Thread : Record(t)) \/ RecordReceived
  BY <1>1, RecordInv DEF Thread
<1>2. ASSUME NEW t \in Thread, Continue(t)
      PROVE  Inv'
  <2>1. CASE AddNode(t)
    BY <2>1, AddPointerInv, AddLastInv
  <2>. QED
    BY <1>2, <2>1, IsEmptyInv, FirstNodeInv, SecondNodeInv, AtEndInv, PassInv, ExistsInv,
       ReadTailInv DEF Continue
<1>3. CASE Unrecord \/ Scan
  BY <1>3, YieldBeginsInv
<1>4. CASE YieldOnly
  BY <1>4, UnlinkInv, FinishUnlinkInv, GoOnInv DEF YieldOnly
<1>5. CASE UNCHANGED vars
  <2>1. Typed' /\ Exclusive' /\ Fresh'
    BY <1>5 DEF vars, threadVars, Inv, Typed, Exclusive, Clash, Busy, Fresh, Recording
  <2>2. Ring'
    BY <1>5 DEF vars, threadVars, Inv, Ring, Distinct, Forward, Backward, Linking,
       HalfUnlinked, OneEach, TailTaken, Unlinking, At
  <2>3. \A u \in Thread : Stays(u)
    BY <1>5 DEF vars, threadVars, Stays
  <2>4. Walking'
    BY <1>5, <2>3, QuietWalk DEF vars, Inv, Walking
  <2>. QED  BY <2>1, <2>2, <2>4 DEF Inv
<1>. QED  BY <1>1, <1>2, <1>3, <1>4, <1>5 DEF Next

(* What holds of every state. *)
IInv == overlapped \in BOOLEAN /\ (~overlapped => Inv)

LEMMA IInvHolds ==
  ASSUME TRUE
  PROVE  (Init => IInv) /\ (IInv /\ [Next]_vars => IInv')
<1>1. Init => IInv
  BY InitInv DEF Init, IInv
<1>2. ASSUME IInv, [Next]_vars PROVE IInv'
  <2>1. overlapped' \in BOOLEAN /\ (overlapped => overlapped')
    BY <1>2, OverlapStays DEF IInv
  <2>2. ~overlapped' => Inv'
    BY <1>2, <2>1, StepInv DEF IInv
  <2>. QED  BY <2>1, <2>2 DEF IInv
<1>. QED  BY <1>1, <1>2

(* What the invariant says of the runs' properties. *)
LEMMA InvShows ==
  ASSUME IInv
  PROVE  TypeOK /\ Linked /\ SeesAll /\ VisitedOnce /\ KeysUnique
<1>. SUFFICES ASSUME Inv
              PROVE  Typed /\ Ringed /\ OneEach /\ \A t \in Thread : pc[t] = "visit" =>
                       (curr[t] = List => due[t] \subseteq seen[t]) /\ curr[t] \notin seen[t]
  BY DEF IInv, TypeOK, Linked, SeesAll, VisitedOnce, KeysUnique, OneEach
<1>1. Typed /\ Fresh /\ Exclusive /\ Forward /\ Backward /\ OneEach
  BY DEF Inv, Ring
<1>2. order \in Seq(Node) /\ Len(order) \in Nat
  BY <1>1 DEF Typed
<1>3. Ringed
  <2>. DEFINE n == Len(order)
              ring == <<List>> \o order \o <<List>>
  <2>1. n \in Nat /\ Len(ring) = n + 2 /\ \A i \in 1 .. n + 2 : ring[i] = At(i - 1)
    BY <1>2 DEF At
  <2>. SUFFICES ASSUME \A t \in Thread : pc[t] \notin {"link", "unlink"},
                       NEW i \in 1 .. Len(ring) - 1
                PROVE  next[ring[i]] = ring[i + 1] /\ prev[ring[i + 1]] = ring[i]
    BY DEF Ringed
  <2>2. /\ i \in 1 .. n + 2 /\ i + 1 \in 1 .. n + 2 /\ i - 1 \in 0 .. n
        /\ i \in 1 .. n + 1 /\ (i - 1) + 1 = i /\ (i + 1) - 1 = i
    BY <2>1
  <2>. HIDE DEF ring
  <2>3. ring[i] = At(i - 1) /\ ring[i + 1] = At(i)
    BY <2>1, <2>2
  <2>4. next[At(i - 1)] = At(i)
    BY <1>1, <2>2 DEF Forward
  <2>5. prev[At(i)] = At(i - 1)
    BY <1>1, <2>2 DEF Backward, TailTaken, Unlinking, Thread
  <2>. QED  BY <2>3, <2>4, <2>5
<1>4. ASSUME NEW t \in Thread, pc[t] = "visit"
      PROVE  /\ curr[t] = List => due[t] \subseteq seen[t]
             /\ curr[t] \notin seen[t]
  <2>1. (curr[t] = List /\ due[t] \subseteq seen[t]) \/ AtNode(t)
    BY <1>4 DEF Inv, Walking, WalkOf
  <2>2. List \notin seen[t]
    BY <1>1, ListAssumption DEF Fresh, Typed
  <2>3. CASE AtNode(t)
    <3>1. PICK c \in 1 .. Len(order) : curr[t] = order[c] /\ AheadOf(t, c)
      BY <2>3 DEF AtNode
    <3>2. curr[t] # List /\ c \in c .. Len(order)
      BY <1>1, <1>2, <3>1, AtPlaces
    <3>. QED  BY <3>1, <3>2 DEF AheadOf
  <2>. QED  BY <2>1, <2>2, <2>3
<1>. QED  BY <1>1, <1>3, <1>4

(* No thread follows a pointer out of freed memory, and none gets stuck on *)
(* a node that leads nowhere, for any number of threads and nodes and any  *)
(* interleaving of them, as long as no two have met on the pointers: two   *)
(* writing some, or an application searching while the yield thread takes  *)
(* a node out (mqttclient.c:397, 547).                                     *)
THEOREM ListTypeCorrect == Spec => []TypeOK
<1>1. (Init => IInv) /\ (IInv /\ [Next]_vars => IInv')
  BY IInvHolds
<1>2. IInv => TypeOK
  BY InvShows
<1>. QED  BY <1>1, <1>2, PTL DEF Spec

(* Read forwards and backwards the list is the nodes recorded and not      *)
(* taken out, in the order of their records (mqtt_list.c:11): no node is   *)
(* lost and none is left, whatever else two threads do at a time.          *)
THEOREM ListLinked == Spec => []Linked
<1>1. (Init => IInv) /\ (IInv /\ [Next]_vars => IInv')
  BY IInvHolds
<1>2. IInv => Linked
  BY InvShows
<1>. QED  BY <1>1, <1>2, PTL DEF Spec

(* A traversal that comes to its end has visited every node that was there *)
(* at its beginning and still is (mqttclient.c:538), although other        *)
(* threads record nodes in the middle of it.                               *)
THEOREM ScanSeesAll == Spec => []SeesAll
<1>1. (Init => IInv) /\ (IInv /\ [Next]_vars => IInv')
  BY IInvHolds
<1>2. IInv => SeesAll
  BY InvShows
<1>. QED  BY <1>1, <1>2, PTL DEF Spec

(* No traversal visits a node twice: a scan sends nothing twice.           *)
THEOREM ScanVisitsOnce == Spec => []VisitedOnce
<1>1. (Init => IInv) /\ (IInv /\ [Next]_vars => IInv')
  BY IInvHolds
<1>2. IInv => VisitedOnce
  BY InvShows
<1>. QED  BY <1>1, <1>2, PTL DEF Spec

(* At most one node of the list has a given type and packet identifier     *)
(* (mqttclient.c:373): what keeps a second thread from recording the same  *)
(* one between the search and the add is the write lock, and that only the *)
(* yield thread records received messages without it.                      *)
THEOREM ListKeysUnique == Spec => []KeysUnique
<1>1. (Init => IInv) /\ (IInv /\ [Next]_vars => IInv')
  BY IInvHolds
<1>2. IInv => KeysUnique
  BY InvShows
<1>. QED  BY <1>1, <1>2, PTL DEF Spec
=============================================================================

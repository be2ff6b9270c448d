------------------------------ MODULE MqttList ------------------------------
(***************************************************************************)
(* The list of awaited acknowledgements, pointer by pointer:               *)
(* common/mqtt_list.c with the three ways mqttclient.c uses it.  A thread  *)
(* records a node (mqtt_ack_list_record: look for one with the same key,   *)
(* then add it at the tail), takes the nodes with a key out                *)
(* (mqtt_ack_list_unrecord), or scans the list (mqtt_ack_list_scan).       *)
(* Nodes are recorded under the write lock, but those of received messages *)
(* are not (mqttclient.c:769); the yield thread takes nodes out and scans  *)
(* without a lock.  A step reads or writes one pointer of the list.        *)
(* Nothing in the code keeps the steps of two threads apart.  The model    *)
(* has all of them, and notes in the history variable overlapped when the  *)
(* threads have met where a lock for the list would have kept them apart.  *)
(***************************************************************************)
EXTENDS Naturals, Sequences, FiniteSets

CONSTANTS List,          \* the list's own node, mqtt_ack_handler_list
          Node,          \* the nodes that may be recorded
          None,          \* no node: what a freed node points to
          Key(_),        \* type and packet identifier of a node
          Apps,          \* threads of the application
          Yield,         \* the yield thread
          Received       \* the nodes of type PUBREL, one for each received
                         \* message: only the yield thread records them

Thread == Apps \cup {Yield}
Place == Node \cup {List}
Pointer == Place \cup {None}

(* The list's own node is no record of an acknowledgement, the yield       *)
(* thread no thread of the application, and the type is part of the key.   *)
ASSUME ListAssumption ==
  /\ List \notin Node /\ None \notin Place /\ None \notin Thread /\ Yield \notin Apps
  /\ Received \subseteq Node
  /\ \A n \in Received, m \in Node : Key(n) = Key(m) => m \in Received

VARIABLES next, prev,    \* the pointers
          writeLock,     \* mqtt_write_lock: the thread that holds it, or None
          pc,            \* where each thread is
          op,            \* what it is doing
          arg,           \* the node it records, or one with the key it removes
          curr, save,    \* the pointers of LIST_FOR_EACH_SAFE
          tail,          \* what mqtt_list_add_tail has read as the last node
          stores,        \* how many pointers it has written
          used,          \* the nodes allocated so far
          order,         \* history: the nodes on the list, first to last
          due, seen,     \* history: what a traversal has to visit, and has
          overlapped     \* history: two threads have met on the pointers

threadVars == <<pc, op, arg, curr, save, tail, stores>>
vars == <<next, prev, writeLock, threadVars, used, order, due, seen, overlapped>>

Init ==
  /\ next = [p \in Pointer |-> IF p = List THEN List ELSE None]
  /\ prev = [p \in Pointer |-> IF p = List THEN List ELSE None]
  /\ writeLock = None /\ used = {} /\ order = <<>>
  /\ pc = [t \in Thread |-> "idle"] /\ op = [t \in Thread |-> "none"]
  /\ arg = [t \in Thread |-> None] /\ curr = [t \in Thread |-> List]
  /\ save = [t \in Thread |-> List] /\ tail = [t \in Thread |-> List]
  /\ stores = [t \in Thread |-> 0]
  /\ due = [t \in Thread |-> {}] /\ seen = [t \in Thread |-> {}]
  /\ overlapped = FALSE

-----------------------------------------------------------------------------
(* Two threads meet on the pointers: both are writing some, or an          *)
(* application looks through the list while the yield thread is taking a   *)
(* node out.  A lock for the list would exclude it; there is none.         *)
Clash ==
  \/ \E t, u \in Thread : t # u /\ {pc[t], pc[u]} \subseteq {"link", "unlink"}
  \/ pc[Yield] = "unlink" /\ \E a \in Apps : pc[a] \in {"first", "second", "visit"}

Note == overlapped' = (overlapped \/ Clash')

OnList == {order[i] : i \in DOMAIN order}

(* A traversal begins with mqtt_list_is_empty. *)
BeginWalk(t, what, n) ==
  /\ pc[t] = "idle"
  /\ op' = [op EXCEPT ![t] = what]
  /\ arg' = [arg EXCEPT ![t] = n]
  /\ pc' = [pc EXCEPT ![t] = "empty"]
  /\ UNCHANGED <<next, prev, curr, save, tail, stores, order, due, seen, overlapped>>

(* The node n that is to be recorded is allocated when the list has been   *)
(* looked through; it is chosen here for its key.                          *)
BeginRecord(t, n) == BeginWalk(t, "record", n) /\ used' = used \cup {n}

(* Faulty variant: a publication is recorded without the write lock.       *)
RecordUnlocked(t) ==
  /\ writeLock' = writeLock
  /\ \E n \in Node \ (used \cup Received) : BeginRecord(t, n)

(* mqtt_ack_list_record under the write lock. *)
Record(t) ==
  /\ writeLock = None /\ writeLock' = t
  /\ \E n \in Node \ (used \cup Received) : BeginRecord(t, n)

(* A message has come: its PUBREL is awaited, which is recorded without    *)
(* the lock.                                                               *)
RecordReceived ==
  /\ \E n \in Received \ used : BeginRecord(Yield, n)
  /\ UNCHANGED writeLock

(* mqtt_ack_list_unrecord *)
Unrecord ==
  /\ \E n \in used : BeginWalk(Yield, "unrecord", n)
  /\ UNCHANGED <<writeLock, used>>

(* mqtt_ack_list_scan *)
Scan == BeginWalk(Yield, "scan", None) /\ UNCHANGED <<writeLock, used>>

(* The operation is over; a thread that has the lock unlocks. *)
Leave(t) ==
  /\ pc' = [pc EXCEPT ![t] = "idle"]
  /\ writeLock' = IF writeLock = t THEN None ELSE writeLock

(* What follows a traversal that found no node to stop at. *)
EndWalk(t) ==
  IF op[t] = "record"
  THEN pc' = [pc EXCEPT ![t] = "add"] /\ UNCHANGED writeLock
  ELSE Leave(t)

(* mqtt_list_is_empty *)
IsEmpty(t) ==
  /\ pc[t] = "empty"
  /\ IF next[List] = List THEN EndWalk(t)
     ELSE pc' = [pc EXCEPT ![t] = "first"] /\ UNCHANGED writeLock
  /\ due' = [due EXCEPT ![t] = OnList]
  /\ seen' = [seen EXCEPT ![t] = {}]
  /\ Note
  /\ UNCHANGED <<next, prev, op, arg, curr, save, tail, stores, used, order>>

(* Faulty variant: the traversal begins at the other end. *)
FirstNodeOfTail(t) ==
  /\ pc[t] = "first"
  /\ curr' = [curr EXCEPT ![t] = prev[List]]
  /\ pc' = [pc EXCEPT ![t] = "second"]
  /\ UNCHANGED <<next, prev, writeLock, op, arg, save, tail, stores, used, order, due, seen, overlapped>>

(* LIST_FOR_EACH_SAFE: curr = list->next, ... *)
FirstNode(t) ==
  /\ pc[t] = "first"
  /\ curr' = [curr EXCEPT ![t] = next[List]]
  /\ pc' = [pc EXCEPT ![t] = "second"]
  /\ UNCHANGED <<next, prev, writeLock, op, arg, save, tail, stores, used, order, due, seen, overlapped>>

(* ... next = curr->next *)
SecondNode(t) ==
  /\ pc[t] = "second"
  /\ save' = [save EXCEPT ![t] = next[curr[t]]]
  /\ pc' = [pc EXCEPT ![t] = "visit"]
  /\ UNCHANGED <<next, prev, writeLock, op, arg, curr, tail, stores, used, order, due, seen, overlapped>>

(* Faulty variant: LIST_FOR_EACH, which follows the pointer of the node    *)
(* that has just been visited.                                             *)
StepUnsafe(t) ==
  /\ curr' = [curr EXCEPT ![t] = next[curr[t]]]
  /\ save' = [save EXCEPT ![t] = next[save[t]]]
  /\ seen' = [seen EXCEPT ![t] = @ \cup {curr[t]}]

(* curr = next, next = curr->next *)
Step(t) ==
  /\ curr' = [curr EXCEPT ![t] = save[t]]
  /\ save' = [save EXCEPT ![t] = next[save[t]]]
  /\ seen' = [seen EXCEPT ![t] = @ \cup {curr[t]}]

(* The node is one that is looked for. *)
Matches(t) == op[t] # "scan" /\ Key(curr[t]) = Key(arg[t])

(* The traversal is back at the list's own node. *)
AtEnd(t) ==
  /\ pc[t] = "visit" /\ curr[t] = List
  /\ EndWalk(t)
  /\ UNCHANGED <<next, prev, op, arg, curr, save, tail, stores, used, order, due, seen, overlapped>>

(* Faulty variant: the traversal stays at a node that is not looked for.   *)
PassStays(t) ==
  /\ pc[t] = "visit" /\ curr[t] # List /\ ~Matches(t)
  /\ seen' = [seen EXCEPT ![t] = @ \cup {curr[t]}]
  /\ UNCHANGED <<next, prev, writeLock, pc, op, arg, curr, save, tail, stores, used, order, due, overlapped>>

(* A node that is not looked for, or one the scan leaves (it is not due,   *)
(* or it is sent again). *)
Pass(t) ==
  /\ pc[t] = "visit" /\ curr[t] # List /\ ~Matches(t)
  /\ Step(t)
  /\ UNCHANGED <<next, prev, writeLock, pc, op, arg, tail, stores, used, order, due, overlapped>>

(* mqtt_ack_list_node_is_exist finds the key: nothing is recorded. *)
Exists(t) ==
  /\ pc[t] = "visit" /\ curr[t] # List /\ Matches(t) /\ op[t] = "record"
  /\ Leave(t)
  /\ UNCHANGED <<next, prev, op, arg, curr, save, tail, stores, used, order, due, seen, overlapped>>

-----------------------------------------------------------------------------
(* mqtt_list_add_tail: the last node is read. *)
ReadTail(t) ==
  /\ pc[t] = "add"
  /\ tail' = [tail EXCEPT ![t] = prev[List]]
  /\ stores' = [stores EXCEPT ![t] = 0]
  /\ pc' = [pc EXCEPT ![t] = "link"]
  \* the node is created: mqtt_list_init
  /\ next' = [next EXCEPT ![arg[t]] = arg[t]]
  /\ prev' = [prev EXCEPT ![arg[t]] = arg[t]]
  /\ Note
  /\ UNCHANGED <<writeLock, op, arg, curr, save, used, order, due, seen>>

(* Faulty variant: the node can be reached before it leads on. *)
StoreOrderEarly == <<"next->prev", "prev->next", "node->next", "node->prev">>

(* The order in which _mqtt_list_add writes. *)
StoreOrder == <<"next->prev", "node->next", "node->prev", "prev->next">>

(* Faulty variant: the node before the new one is not written. *)
LinkForgets(t, which) ==
  CASE which = "next->prev" -> prev' = [prev EXCEPT ![List] = arg[t]] /\ UNCHANGED next
    [] which = "node->next" -> next' = [next EXCEPT ![arg[t]] = List] /\ UNCHANGED prev
    [] which = "node->prev" -> UNCHANGED <<prev, next>>
    [] which = "prev->next" -> next' = [next EXCEPT ![tail[t]] = arg[t]] /\ UNCHANGED prev

(* One pointer of _mqtt_list_add(node, tail, List). *)
Link(t, which) ==
  CASE which = "next->prev" -> prev' = [prev EXCEPT ![List] = arg[t]] /\ UNCHANGED next
    [] which = "node->next" -> next' = [next EXCEPT ![arg[t]] = List] /\ UNCHANGED prev
    [] which = "node->prev" -> prev' = [prev EXCEPT ![arg[t]] = tail[t]] /\ UNCHANGED next
    [] which = "prev->next" -> next' = [next EXCEPT ![tail[t]] = arg[t]] /\ UNCHANGED prev

AddNode(t) ==
  /\ pc[t] = "link"
  /\ LET i == stores[t] + 1 IN
       /\ stores' = [stores EXCEPT ![t] = i]
       /\ Link(t, StoreOrder[i])
       /\ IF i = 4 THEN order' = Append(order, arg[t]) /\ Leave(t)
          ELSE UNCHANGED <<order, pc, writeLock>>
  /\ UNCHANGED <<op, arg, curr, save, tail, used, due, seen, overlapped>>

(* A node is taken out: by its key, or by a scan, which destroys those of  *)
(* SUBSCRIBE and UNSUBSCRIBE.  _mqtt_list_del: next->prev = prev.          *)
Unlink ==
  LET t == Yield
      n == curr[t] IN
  /\ pc[t] = "visit" /\ n # List
  /\ op[t] = "scan" \/ (op[t] = "unrecord" /\ Matches(t))
  /\ prev' = [prev EXCEPT ![next[n]] = prev[n]]
  /\ pc' = [pc EXCEPT ![t] = "unlink"]
  /\ Note
  /\ UNCHANGED <<next, writeLock, op, arg, curr, save, tail, stores, used, order, due, seen>>

(* The node is freed: what it points to is gone. *)
Freed(f, n) == [f EXCEPT ![n] = None]

(* The sequence s without its element n, if it has it. *)
Without(s, n) ==
  LET c == CHOOSE i \in DOMAIN s : s[i] = n
  IN  IF \A i \in DOMAIN s : s[i] # n THEN s
      ELSE [i \in 1 .. Len(s) - 1 |-> s[IF i < c THEN i ELSE i + 1]]

(* prev->next = next, then the memory is freed and the traversal goes on.  *)
FinishUnlink ==
  LET t == Yield
      n == curr[t] IN
  /\ pc[t] = "unlink"
  /\ next' = Freed([next EXCEPT ![prev[n]] = next[n]], n)
  /\ prev' = Freed(prev, n)
  /\ order' = Without(order, n)
  /\ due' = [u \in Thread |-> due[u] \ {n}]
  /\ pc' = [pc EXCEPT ![t] = "unlinked"]
  /\ UNCHANGED <<writeLock, op, arg, curr, save, tail, stores, used, seen, overlapped>>

(* The traversal goes on after the node that was taken out. *)
GoOn ==
  /\ pc[Yield] = "unlinked"
  /\ Step(Yield)
  /\ pc' = [pc EXCEPT ![Yield] = "visit"]
  /\ UNCHANGED <<next, prev, writeLock, op, arg, tail, stores, used, order, due, overlapped>>

-----------------------------------------------------------------------------
(* Everything a thread does once it has begun. *)
Continue(t) == \/ IsEmpty(t) \/ FirstNode(t) \/ SecondNode(t) \/ AtEnd(t)
               \/ Pass(t) \/ Exists(t) \/ ReadTail(t) \/ AddNode(t)

YieldOnly == Unlink \/ FinishUnlink \/ GoOn

Next == \/ \E t \in Thread : Record(t) \/ Continue(t)
        \/ RecordReceived \/ Unrecord \/ Scan \/ YieldOnly

Spec == Init /\ [][Next]_vars

(* The scheduler runs every thread that is in the middle of an operation.  *)
FairSpec ==
  Spec /\ (\A t \in Apps : WF_vars(Continue(t))) /\ WF_vars(Continue(Yield) \/ YieldOnly)

-----------------------------------------------------------------------------
(* The code gives the list no lock of its own: what follows is what it     *)
(* does as long as two threads have not met on the pointers (Clash), while *)
(* everything else two threads may do at once, they do.                    *)

Typed ==
  /\ next \in [Pointer -> Pointer] /\ prev \in [Pointer -> Pointer]
  /\ writeLock \in Thread \cup {None}
  /\ pc \in [Thread -> {"idle", "empty", "first", "second", "visit", "add", "link",
                        "unlink", "unlinked"}]
  /\ op \in [Thread -> {"none", "record", "unrecord", "scan"}]
  /\ arg \in [Thread -> Node \cup {None}]
  /\ curr \in [Thread -> Place] /\ save \in [Thread -> Place] /\ tail \in [Thread -> Place]
  /\ stores \in [Thread -> 0 .. 4]
  /\ used \subseteq Node /\ order \in Seq(Node)
  /\ due \in [Thread -> SUBSET Node] /\ seen \in [Thread -> SUBSET Place]

(* Types: no thread follows a pointer out of freed memory, where None is   *)
(* what it would find.                                                     *)
TypeOK == overlapped \in BOOLEAN /\ (~overlapped => Typed)

(* While nobody is writing pointers, the list read forwards and backwards  *)
(* is the nodes recorded and not taken out, in the order of their records  *)
(* (mqtt_list.c:11): none is lost, none is left.                           *)
Ringed ==
  (\A t \in Thread : pc[t] \notin {"link", "unlink"}) =>
    LET ring == <<List>> \o order \o <<List>>
    IN  \A i \in 1 .. Len(ring) - 1 :
          next[ring[i]] = ring[i + 1] /\ prev[ring[i + 1]] = ring[i]

(* The ring is whole however the searches, records, scans and removals of  *)
(* the threads interleave, until two of them are writing pointers at once. *)
Linked == ~overlapped => Ringed

(* A traversal that comes to its end has visited every node that was on    *)
(* the list when it began and still is (mqttclient.c:538): none is left    *)
(* out of a retransmission because another thread adds one meanwhile.      *)
SeesAll ==
  ~overlapped => \A t \in Thread : pc[t] = "visit" /\ curr[t] = List => due[t] \subseteq seen[t]

(* No node is visited twice by one traversal: nothing is sent twice by one *)
(* scan, and no thread comes back to a node that is being added.           *)
VisitedOnce ==
  ~overlapped => \A t \in Thread : pc[t] = "visit" => curr[t] \notin seen[t]

(* At most one node has a given type and packet identifier                 *)
(* (mqttclient.c:373): no other thread records the same one between the    *)
(* search and the add, although two threads may be recording at a time.    *)
KeysUnique ==
  ~overlapped => \A i, j \in DOMAIN order : Key(order[i]) = Key(order[j]) => i = j

(* Every operation of the yield thread ends, however many nodes the        *)
(* applications add while it is under way, unless two threads have met on  *)
(* the pointers.                                                           *)
WalksEnd == (pc[Yield] # "idle") ~> (pc[Yield] = "idle" \/ overlapped)
=============================================================================

------------------------ MODULE MqttAnyServerProofs ------------------------
(***************************************************************************)
(* What holds of the MQTT client whatever a server sends: its types, the   *)
(* exclusion of the write lock, and then the list of awaited               *)
(* acknowledgements and its counter.                                       *)
(* mqtt_publish looks at the counter and adds its node two steps later, so *)
(* what bounds the list is not inductive as it stands: a publisher between *)
(* the two steps must know that there is still room for its node, which it *)
(* does because the write lock keeps every other publisher out.  All this  *)
(* holds of a build or a choice of priorities in which no thread runs      *)
(* between the load and the store of another's update of the counter's     *)
(* word; where one may, the run MCCounterTorn shows the bound to fail.     *)
(***************************************************************************)
EXTENDS MqttProofs, MqttAnyServer

(* The network and the server. *)
LEMMA EnvironmentType ==
  ASSUME TypeInv, LinkDown \/ ServerReads \/ \E p \in FromServer : ServerSends(p)
  PROVE  TypeInv'
<1>1. CASE LinkDown
  BY <1>1, LinkDownType
<1>2. CASE ServerReads
  <2>1. NetType'
    BY <1>2, TypeParts DEF ServerReads, NetType
  <2>. QED  BY <1>2, <2>1, OutsideType DEF ServerReads
<1>3. ASSUME NEW p \in FromServer, ServerSends(p) PROVE TypeInv'
  <2>1. NetType'
    BY <1>3, TypeParts, ServerAssumption DEF ServerSends, NetType
  <2>. QED  BY <1>3, <2>1, OutsideType DEF ServerSends
<1>. QED  BY <1>1, <1>2, <1>3

(* The types are inductive. *)
LEMMA NextType == ASSUME TypeInv, [Next]_vars PROVE TypeInv'
<1>1. CASE ClientNext
  BY <1>1, ClientType
<1>2. CASE LinkDown \/ ServerReads \/ \E p \in FromServer : ServerSends(p)
  BY <1>2, EnvironmentType
<1>3. CASE UNCHANGED vars
  BY <1>3, StutterType
<1>. QED  BY <1>1, <1>2, <1>3 DEF Next

(* Whatever the server sends, every variable of the client stays in its     *)
(* type: identifiers wrap inside their range, a published packet carries a  *)
(* message, and the counter of the list never becomes negative.             *)
THEOREM TypeCorrect == Spec => []TypeOK
<1>1. TypeInv => TypeOK
  BY DEF TypeInv
<1>. QED  BY <1>1, InitType, NextType, PTL DEF Spec, AnyServerInit

(* The exclusion is inductive. *)
LEMMA LockNext == ASSUME LockInv, [Next]_vars PROVE LockInv'
<1>1. TypeInv'
  BY NextType DEF LockInv
<1>2. CASE ClientNext
  BY <1>1, <1>2, ClientLock DEF LockInv
<1>3. CASE LinkDown \/ ServerReads \/ (\E p \in FromServer : ServerSends(p)) \/ UNCHANGED vars
  <2>1. UNCHANGED <<pc, write_lock>>
    BY <1>3 DEF LinkDown, ServerReads, ServerSends, vars, lockVars
  <2>. QED  BY <1>1, <2>1, LockUntouched DEF LockInv
<1>. QED  BY <1>1, <1>2, <1>3 DEF Next, LockInv

(* At no time are two threads inside sections that mqtt_write_lock is to    *)
(* keep apart, for any number of threads and calls.                         *)
THEOREM WriteLockExcludes == Spec => []LockExclusion
<1>1. LockInv => LockExclusion
  BY DEF LockInv
<1>. QED  BY <1>1, LockInit, LockNext, PTL DEF Spec, AnyServerInit
-----------------------------------------------------------------------------
PubPC == {"pub_send", "pub_record"}

(* There is room for the node of a publisher past the test of the bound.   *)
Room == \A t \in Thread : pc[t] \in PubPC /\ Qos[pkt[t].body] # 0
                            => Cardinality(Unanswered) < AckMax

BoundInv == ~ WordRaces /\ LockInv /\ AckNumCoversList /\ PublishedBounded /\ Room

(* Nobody passes the test of the bound.                                    *)
PubStays == \A u \in Thread : pc'[u] \in PubPC => pc[u] \in PubPC /\ pkt'[u] = pkt[u]

(* A step that is not a publisher's: nodes may go, and a node may come that *)
(* does not await the reply to a published message.                        *)
Quiet ==
  /\ PubStays
  /\ \/ ack_list' \subseteq ack_list /\ AckNumCoversList'
     \/ \E t \in Thread, type \in AckType \ {"PUBACK", "PUBREC"} : \E id, payload :
          AddNode(t, type, id, payload)

(* The sizes of the sets of nodes are numbers. *)
LEMMA Sizes ==
  ASSUME TypeInv
  PROVE  /\ IsFiniteSet(ack_list) /\ Cardinality(ack_list) \in Nat
         /\ IsFiniteSet(Unanswered) /\ Cardinality(Unanswered) \in Nat
         /\ Unanswered \subseteq ack_list
         /\ Cardinality(Unanswered) <= Cardinality(ack_list)
         /\ ack_num \in Nat /\ AckMax \in Nat
<1>1. IsFiniteSet(ack_list) /\ Unanswered \subseteq ack_list
  BY DEF TypeInv, Unanswered
<1>2. IsFiniteSet(Unanswered) /\ Cardinality(Unanswered) <= Cardinality(ack_list)
  BY <1>1, FS_Subset
<1>. QED  BY <1>1, <1>2, FS_CardinalityType, BoundAssumption DEF TypeInv, TypeOK

(* With a node more the list is larger by at most one. *)
LEMMA AddCovers ==
  ASSUME BoundInv, NEW t, NEW type, NEW id, NEW payload, AddNode(t, type, id, payload)
  PROVE  AckNumCoversList'
<1>. DEFINE n == [type |-> type, id |-> id, payload |-> payload]
<1>1. ack_list' = ack_list \cup {n} /\ ack_num' = ack_num + 1
  BY DEF AddNode, SetNumber, BoundInv
<1>2. IsFiniteSet(ack_list) /\ Cardinality(ack_list) \in Nat /\ ack_num \in Nat
  BY Sizes DEF BoundInv, LockInv
<1>. HIDE DEF n
<1>. DEFINE L == ack_list \cup {n}
<1>3. Cardinality(ack_list') <= Cardinality(ack_list) + 1 /\ Cardinality(ack_list') \in Nat
  <2>1. Cardinality(L) = Cardinality(ack_list) \/ Cardinality(L) = Cardinality(ack_list) + 1
    BY <1>2, FS_AddElement, Zenon
  <2>2. ack_list' = L
    BY <1>1
  <2>. HIDE DEF L
  <2>. QED  BY <1>2, <2>1, <2>2
<1>. QED  BY <1>1, <1>2, <1>3 DEF AckNumCoversList, BoundInv

(* mqtt_ack_list_unrecord counts what it takes. *)
LEMMA UnrecordCovers ==
  ASSUME BoundInv, NEW t, NEW type, NEW id, UnrecordNodes(t, type, id)
  PROVE  ack_list' \subseteq ack_list /\ AckNumCoversList'
<1>. DEFINE N == Matching(type, id)
<1>1. /\ ack_list' = ack_list \ N
      /\ ack_num' = IF ack_num >= Cardinality(N) THEN ack_num - Cardinality(N) ELSE 0
  BY DEF UnrecordNodes, SetNumber, BoundInv
<1>2. N \subseteq ack_list
  BY DEF Matching
<1>. HIDE DEF N
<1>3. IsFiniteSet(ack_list) /\ Cardinality(ack_list) \in Nat /\ ack_num \in Nat
  BY Sizes DEF BoundInv, LockInv
<1>4. IsFiniteSet(N) /\ Cardinality(N) \in Nat
  BY <1>2, <1>3, FS_Subset, FS_CardinalityType
<1>5. Cardinality(ack_list \ N) = Cardinality(ack_list) - Cardinality(ack_list \cap N)
  BY <1>3, FS_Difference
<1>6. ack_list \cap N = N
  BY <1>2
<1>7. Cardinality(ack_list) <= ack_num
  BY DEF BoundInv, AckNumCoversList
<1>. QED  BY <1>1, <1>3, <1>4, <1>5, <1>6, <1>7 DEF AckNumCoversList

(* A step that is not a publisher's keeps the three bounds. *)
LEMMA QuietBound == ASSUME BoundInv, Quiet PROVE AckNumCoversList' /\ PublishedBounded' /\ Room'
<1>1. AckNumCoversList'
  BY AddCovers DEF Quiet
<1>2. IsFiniteSet(Unanswered) /\ Cardinality(Unanswered) \in Nat /\ AckMax \in Nat
  BY Sizes DEF BoundInv, LockInv
<1>3. Unanswered' \subseteq Unanswered
  BY DEF Quiet, Unanswered, AddNode
<1>4. Cardinality(Unanswered') \in Nat /\ Cardinality(Unanswered') <= Cardinality(Unanswered)
  BY <1>2, <1>3, FS_Subset, FS_CardinalityType
<1>5. PublishedBounded'
  BY <1>2, <1>4 DEF BoundInv, PublishedBounded
<1>6. Room'
  BY <1>2, <1>4 DEF BoundInv, Room, Quiet, PubStays
<1>. QED  BY <1>1, <1>5, <1>6

(* t moves, and not past the test of the bound. *)
LEMMA GotoStays ==
  ASSUME BoundInv, NEW t \in Thread, NEW label, Goto(t, label), label \notin PubPC,
         \A u \in Thread \ {t} : pkt'[u] = pkt[u]
  PROVE  PubStays
BY DEF BoundInv, LockInv, TypeInv, TypeOK, Goto, PubStays

(* The list and its counter stay as they are. *)
LEMMA ListSame == ASSUME BoundInv, UNCHANGED ackVars PROVE ack_list' \subseteq ack_list /\ AckNumCoversList'
BY DEF BoundInv, AckNumCoversList, ackVars

(* A step of t that leaves the list alone. *)
LEMMA GotoQuiet ==
  ASSUME BoundInv, NEW t \in Thread, NEW label, Goto(t, label), label \notin PubPC,
         \A u \in Thread \ {t} : pkt'[u] = pkt[u], UNCHANGED ackVars
  PROVE  Quiet
BY GotoStays, ListSame DEF Quiet

(* Sending does not touch the list. *)
LEMMA SendQuiet ==
  ASSUME BoundInv, NEW t \in Thread, NEW from, NEW label, SendOrReturn(t, from, label),
         label \in PubPC => from \in PubPC
  PROVE  Quiet
<1>1. pc[t] = from /\ UNCHANGED <<pkt, ackVars>>
  BY DEF SendOrReturn
<1>2. Goto(t, label) \/ Goto(t, IF t = Yield THEN "resub" ELSE "idle")
  BY DEF SendOrReturn, Return
<1>3. PubStays
  BY <1>1, <1>2 DEF BoundInv, LockInv, TypeInv, TypeOK, Goto, PubStays, PubPC
<1>. QED  BY <1>1, <1>3, ListSame DEF Quiet

(* Neither does the start of a call ... *)
LEMMA StartQuiet ==
  ASSUME BoundInv, NEW t \in Thread, NEW c, NEW label, Start(t, c, label), label \notin PubPC
  PROVE  Quiet
BY GotoQuiet DEF Start

(* ... nor taking the lock and serializing a packet ... *)
LEMMA LockQuiet ==
  ASSUME BoundInv, NEW t \in Thread, NEW p, NEW label, LockAndSerialize(t, p, label),
         label \notin PubPC
  PROVE  Quiet
BY GotoQuiet DEF LockAndSerialize, BoundInv, LockInv, TypeInv, TypeOK

(* ... nor a move. *)
LEMMA MoveQuiet ==
  ASSUME BoundInv, NEW t \in Thread, NEW label, Move(t, label), label \notin PubPC
  PROVE  Quiet
BY GotoQuiet DEF Move

(* Past the test: the counter, hence the list, is below the maximum. *)
LEMMA PublishLockBound ==
  ASSUME BoundInv, NEW t \in Thread, PublishLock(t)
  PROVE  AckNumCoversList' /\ PublishedBounded' /\ Room'
<1>. DEFINE m == op[t].arg
            p == Plain("PUBLISH", IF Qos[m] = 0 THEN 0 ELSE NextId, m)
<1>1. UNCHANGED ackVars /\ pkt' = [pkt EXCEPT ![t] = p] /\ Goto(t, "pub_send")
  BY DEF PublishLock, LockAndSerialize
<1>2. p.body = m
  BY DEF Plain
<1>3. Qos[m] = 0 \/ ~ ack_num >= AckMax
  BY DEF PublishLock, AckHandlerIsMaximum
<1>. HIDE DEF p
<1>4. Qos[m] = 0 \/ Cardinality(Unanswered) < AckMax
  BY <1>3, Sizes DEF BoundInv, LockInv, AckNumCoversList
<1>5. Unanswered' = Unanswered
  BY <1>1 DEF Unanswered, ackVars
<1>6. Room'
  BY <1>1, <1>2, <1>4, <1>5 DEF BoundInv, Room, Goto, LockInv, TypeInv, TypeOK
<1>. QED  BY <1>1, <1>5, <1>6, ListSame DEF BoundInv, PublishedBounded

(* The node is added while the lock keeps every other publisher out. *)
LEMMA PublishRecordBound ==
  ASSUME BoundInv, NEW t \in Thread, PublishRecord(t)
  PROVE  AckNumCoversList' /\ PublishedBounded' /\ Room'
<1>1. AckNumCoversList'
  BY AddCovers, ListSame DEF PublishRecord
<1>2. /\ IsFiniteSet(Unanswered) /\ Cardinality(Unanswered) \in Nat /\ AckMax \in Nat
      /\ Cardinality(Unanswered) <= AckMax
  BY Sizes DEF BoundInv, LockInv, PublishedBounded
<1>3. PublishedBounded'
  <2>1. CASE UNCHANGED ackVars
    BY <1>2, <2>1 DEF PublishedBounded, Unanswered, ackVars
  <2>2. CASE Qos[pkt[t].body] # 0 /\ \E type, id, payload : AddNode(t, type, id, payload)
    <3>1. Cardinality(Unanswered) < AckMax
      BY <2>2 DEF PublishRecord, BoundInv, Room, PubPC
    <3>2. PICK n : ack_list' = ack_list \cup {n}
      BY <2>2 DEF AddNode
    <3>3. Unanswered' = Unanswered \/ Unanswered' = Unanswered \cup {n}
      BY <3>2 DEF Unanswered
    <3>. DEFINE U == Unanswered \cup {n}
    <3>4. Cardinality(U) = Cardinality(Unanswered) \/ Cardinality(U) = Cardinality(Unanswered) + 1
      BY <1>2, FS_AddElement, Zenon
    <3>5. Unanswered' = Unanswered \/ Unanswered' = U
      BY <3>3
    <3>. HIDE DEF U
    <3>. QED  BY <1>2, <3>1, <3>4, <3>5 DEF PublishedBounded
  <2>. QED  BY <2>1, <2>2 DEF PublishRecord
<1>4. ASSUME NEW u \in Thread PROVE pc'[u] \notin PubPC
  <2>1. write_lock = t /\ \A v \in Thread \ {t} : pc[v] \notin PubPC
    BY ThreadAssumption DEF PublishRecord, BoundInv, LockInv, LockExclusion, LockedPC, PubPC
  <2>2. Goto(t, "pub_disc") \/ Goto(t, IF t = Yield THEN "resub" ELSE "idle")
    BY DEF PublishRecord, Return
  <2>. QED  BY <2>1, <2>2 DEF Goto, BoundInv, LockInv, TypeInv, TypeOK, PubPC
<1>5. Room'
  BY <1>4 DEF Room
<1>. QED  BY <1>1, <1>3, <1>5

(* The steps of mqtt_publish, mqtt_subscribe and mqtt_unsubscribe. *)
LEMMA CallsBound ==
  ASSUME BoundInv, NEW t \in Thread, PublishStep(t) \/ SubscribeStep(t)
  PROVE  AckNumCoversList' /\ PublishedBounded' /\ Room'
<1>1. CASE PublishLock(t)
  BY <1>1, PublishLockBound
<1>2. CASE PublishRecord(t)
  BY <1>2, PublishRecordBound
<1>3. CASE \/ \E m \in Msg : PublishCall(t, m)
           \/ \E x \in Topic : SubscribeCall(t, x) \/ UnsubscribeCall(t, x)
  BY <1>3, StartQuiet, QuietBound DEF PublishCall, SubscribeCall, UnsubscribeCall, PubPC
<1>4. CASE PublishRefuse(t)
  BY <1>4, MoveQuiet, QuietBound DEF PublishRefuse, PubPC
<1>5. CASE PublishSend(t) \/ SubscribeSend(t) \/ UnsubscribeSend(t)
  BY <1>5, SendQuiet, QuietBound DEF PublishSend, SubscribeSend, UnsubscribeSend, PubPC
<1>6. CASE SubscribeLock(t) \/ UnsubscribeLock(t)
  BY <1>6, LockQuiet, QuietBound DEF SubscribeLock, UnsubscribeLock, PubPC
<1>7. CASE PublishDisc(t)
  BY <1>7, GotoQuiet, QuietBound DEF PublishDisc, Return, PubPC
<1>8. CASE SubscribeRecord(t) \/ UnsubscribeRecord(t)
  <2>1. \/ UNCHANGED ackVars
        \/ \E type \in {"SUBACK", "UNSUBACK"} : AddNode(t, type, pkt[t].id, pkt[t])
    BY <1>8 DEF SubscribeRecord, UnsubscribeRecord, Record
  <2>2. UNCHANGED pkt /\ Goto(t, IF t = Yield THEN "resub" ELSE "idle")
    BY <1>8 DEF SubscribeRecord, UnsubscribeRecord, Return
  <2>3. PubStays
    BY <2>2, GotoStays DEF PubPC
  <2>4. {"SUBACK", "UNSUBACK"} \subseteq AckType \ {"PUBACK", "PUBREC"}
    BY DEF AckType
  <2>5. Quiet
    BY <2>1, <2>3, <2>4, ListSame DEF Quiet
  <2>. QED  BY <2>5, QuietBound
<1>. QED  BY <1>1, <1>2, <1>3, <1>4, <1>5, <1>6, <1>7, <1>8 DEF PublishStep, SubscribeStep

(* The steps of mqtt_connect. *)
LEMMA ConnectBound ==
  ASSUME BoundInv, NEW t \in Thread, ConnectStep(t)
  PROVE  AckNumCoversList' /\ PublishedBounded' /\ Room'
<1>1. AfterConnect(t) \notin PubPC
  BY DEF AfterConnect, PubPC
<1>2. CASE ConnectCall(t)
  BY <1>2, StartQuiet, QuietBound DEF ConnectCall, PubPC
<1>3. CASE ConnectLock(t)
  BY <1>3, LockQuiet, QuietBound DEF ConnectLock, PubPC
<1>4. CASE ConnectReturn(t)
  BY <1>1, <1>4, MoveQuiet, QuietBound DEF ConnectReturn
<1>5. CASE ConnectTimeout(t) \/ ConnectRefused(t)
  BY <1>5, MoveQuiet, QuietBound DEF ConnectTimeout, ConnectRefused, PubPC
<1>6. CASE \/ ConnectNetwork(t) \/ ConnectSend(t) \/ ConnectFail(t) \/ ConnectAccepted(t)
           \/ ConnectCreateThread(t) \/ ConnectNoThread(t) \/ ConnectStoreThread(t)
           \/ ConnectSetState(t) \/ ConnectStartThread(t)
  <2>1. UNCHANGED <<pkt, ackVars>>
    BY <1>6 DEF ConnectNetwork, ConnectSend, ConnectFail, ConnectAccepted, ConnectUp,
                ConnectCreateThread, ConnectNoThread, ConnectStoreThread, ConnectSetState,
                ConnectStartThread
  <2>2. \A u \in Thread : pc'[u] \in PubPC => pc[u] \in PubPC
    <3>1. \/ UNCHANGED pc
          \/ \E label \in {"conn_lock", "read", "conn_fail", "conn_start", AfterConnect(t), "idle",
                           "resub"} : Goto(t, label)
          \/ ConnectCreateThread(t) \/ ConnectStartThread(t)
      BY <1>6 DEF ConnectNetwork, ConnectSend, ConnectFail, ConnectAccepted,
                  ConnectNoThread, ConnectStoreThread, ConnectSetState, Return
    <3>2. pc \in [Thread -> PC]
      BY DEF BoundInv, LockInv, TypeInv, TypeOK
    <3>3. CASE ConnectCreateThread(t)
      BY <3>2, <3>3 DEF ConnectCreateThread, PubPC
    <3>4. CASE ConnectStartThread(t)
      BY <3>2, <3>4 DEF ConnectStartThread, PubPC
    <3>5. CASE \E label \in {"conn_lock", "read", "conn_fail", "conn_start", AfterConnect(t), "idle",
                             "resub"} : Goto(t, label)
      BY <1>1, <3>2, <3>5 DEF Goto, PubPC
    <3>. QED  BY <3>1, <3>3, <3>4, <3>5
  <2>. QED  BY <2>1, <2>2, ListSame, QuietBound DEF Quiet, PubStays
<1>. QED  BY <1>2, <1>3, <1>4, <1>5, <1>6 DEF ConnectStep

(* The steps of mqtt_disconnect and mqtt_release. *)
LEMMA DisconnectBound ==
  ASSUME BoundInv, NEW t \in Thread, DisconnectStep(t)
  PROVE  AckNumCoversList' /\ PublishedBounded' /\ Room'
<1>1. CASE DisconnectCall(t)
  BY <1>1, StartQuiet, QuietBound DEF DisconnectCall, PubPC
<1>2. CASE DisconnectLock(t)
  BY <1>2, LockQuiet, QuietBound DEF DisconnectLock, PubPC
<1>3. CASE DisconnectSend(t) \/ DisconnectState(t)
  BY <1>3, GotoQuiet, QuietBound DEF DisconnectSend, DisconnectState, Return, PubPC
<1>4. CASE Release(t)
  <2>1. ack_list' = {} /\ ack_num' = 0 /\ UNCHANGED <<pc, pkt>>
    BY <1>4 DEF Release
  <2>2. AckNumCoversList'
    BY <2>1, FS_EmptySet DEF AckNumCoversList
  <2>. QED  BY <2>1, <2>2, QuietBound DEF Quiet, PubStays
<1>. QED  BY <1>1, <1>2, <1>3, <1>4 DEF DisconnectStep

(* Reading a packet and handling it. *)
LEMMA HandleBound ==
  ASSUME BoundInv, NEW t \in Thread, HandleStep(t)
  PROVE  AckNumCoversList' /\ PublishedBounded' /\ Room'
<1>1. PubStays
  <2>1. \E label \in {"handle", "keepalive", "scan", "rec_record", "unrecord"} : Goto(t, label)
    BY DEF HandleStep, Read, ReadTimeout, HandleNotConnected, HandleConnack, HandleAck,
           HandleSuback, HandleUnsuback, HandlePublish, RecordPubrel, HandlePubrec,
           HandlePubrel, Unrecord, HandlePingresp, Finish, Move
  <2>2. UNCHANGED pkt \/ \E p : pkt' = [pkt EXCEPT ![t] = p]
    BY DEF HandleStep, Read, ReadTimeout, HandleNotConnected, HandleConnack, HandleAck,
           HandleSuback, HandleUnsuback, HandlePublish, RecordPubrel, HandlePubrec,
           HandlePubrel, Unrecord, HandlePingresp, Finish, Move
  <2>3. \A u \in Thread \ {t} : pkt'[u] = pkt[u]
    BY <2>2 DEF BoundInv, LockInv, TypeInv, TypeOK
  <2>. QED  BY <2>1, <2>3, GotoStays DEF PubPC
<1>2. \/ UNCHANGED ackVars
      \/ \E type, id : UnrecordNodes(t, type, id)
      \/ \E type \in {"PUBREL", "PUBCOMP"} : \E id, payload : AddNode(t, type, id, payload)
  BY DEF HandleStep, Read, ReadTimeout, HandleNotConnected, HandleConnack, HandleAck,
         HandleSuback, HandleUnsuback, HandlePublish, RecordPubrel, HandlePubrec,
         HandlePubrel, Unrecord, HandlePingresp, Move
<1>3. {"PUBREL", "PUBCOMP"} \subseteq AckType \ {"PUBACK", "PUBREC"}
  BY DEF AckType
<1>4. Quiet
  BY <1>1, <1>2, <1>3, ListSame, UnrecordCovers DEF Quiet
<1>. QED  BY <1>4, QuietBound

(* The steps of mqtt_keep_alive. *)
LEMMA KeepAliveBound ==
  ASSUME BoundInv, NEW t \in Thread, KeepAliveStep(t)
  PROVE  AckNumCoversList' /\ PublishedBounded' /\ Room'
<1>1. /\ UNCHANGED ackVars
      /\ UNCHANGED pkt \/ \E p : pkt' = [pkt EXCEPT ![t] = p]
      /\ \E label \in {Handled(t), HandleError(t), "ka_send", "ka_disc", "clean"} : Goto(t, label)
  BY DEF KeepAliveStep, KeepAliveQuiet, KeepAlivePing, KeepAliveSend, KeepAliveDead,
         KeepAliveDisc, Move
<1>2. \A label \in {Handled(t), HandleError(t), "ka_send", "ka_disc", "clean"} : label \notin PubPC
  BY DEF Handled, HandleError, PubPC
<1>3. \A u \in Thread \ {t} : pkt'[u] = pkt[u]
  BY <1>1 DEF BoundInv, LockInv, TypeInv, TypeOK
<1>. QED  BY <1>1, <1>2, <1>3, GotoQuiet, QuietBound

(* The steps of the yield thread: nodes only leave the list. *)
LEMMA YieldBound ==
  ASSUME BoundInv, YieldStep
  PROVE  AckNumCoversList' /\ PublishedBounded' /\ Room'
<1>1. UNCHANGED pkt /\ (\/ UNCHANGED pc
                        \/ \E label \in {"top", "suspended", "dead", "clean", "read",
                              "conn_begin", "scan_loop", "resub", "sub_lock", "destroy",
                              "start_stop"} :
                             Goto(Yield, label))
  BY DEF YieldStep, YieldStart, YieldSuspend, YieldTop, ReconnectBeaten, ReconnectScan, Resubscribe, AckListScan,
         AckHandlerResend, AckHandlerDestroy, AckListScanned, CleanSession, YieldDestroy, Move
<1>2. PubStays
  BY <1>1, GotoStays DEF PubStays, PubPC, Thread
<1>3. ack_list' \subseteq ack_list /\ (UNCHANGED ackVars \/ UNCHANGED ack_num)
  BY DEF YieldStep, YieldStart, YieldSuspend, YieldTop, ReconnectBeaten, ReconnectScan, Resubscribe, AckListScan,
         AckHandlerResend, AckHandlerDestroy, AckListScanned, CleanSession, YieldDestroy,
         Move, ackVars
<1>4. AckNumCoversList'
  <2>1. Cardinality(ack_list') <= Cardinality(ack_list) /\ Cardinality(ack_list') \in Nat
    BY <1>3, Sizes, FS_Subset, FS_CardinalityType DEF BoundInv, LockInv
  <2>. QED  BY <1>3, <2>1, Sizes DEF BoundInv, LockInv, AckNumCoversList, ackVars
<1>. QED  BY <1>2, <1>3, <1>4, QuietBound DEF Quiet

(* The bounds are inductive. *)
LEMMA BoundNext == ASSUME BoundInv, [Next]_vars PROVE BoundInv'
<1>1. LockInv'
  BY LockNext DEF BoundInv
<1>2. CASE YieldStep
  BY <1>1, <1>2, YieldBound DEF BoundInv
<1>3. ASSUME NEW t \in Thread, ThreadStep(t) PROVE BoundInv'
  BY <1>1, <1>3, CallsBound, ConnectBound, DisconnectBound, HandleBound, KeepAliveBound
     DEF ThreadStep, BoundInv
<1>4. CASE LinkDown \/ ServerReads \/ (\E p \in FromServer : ServerSends(p)) \/ UNCHANGED vars
  <2>1. UNCHANGED <<pc, pkt, ackVars>>
    BY <1>4 DEF LinkDown, ServerReads, ServerSends, vars
  <2>2. Quiet
    BY <2>1, ListSame DEF Quiet, PubStays
  <2>. QED  BY <1>1, <2>2, QuietBound DEF BoundInv
<1>. QED  BY <1>1, <1>2, <1>3, <1>4 DEF Next, ClientNext

(* The bounds hold of a new client. *)
LEMMA BoundInit == ~ WordRaces /\ Init => BoundInv
<1>1. SUFFICES ASSUME ~ WordRaces, Init PROVE BoundInv
  OBVIOUS
<1>2. ack_list = {} /\ Unanswered = {} /\ ack_num = 0
  BY <1>1 DEF Init, Unanswered
<1>3. AckNumCoversList /\ PublishedBounded
  BY <1>2, FS_EmptySet, BoundAssumption DEF AckNumCoversList, PublishedBounded
<1>4. Room
  BY <1>1 DEF Init, Room, PubPC
<1>. QED  BY <1>1, <1>3, <1>4, LockInit DEF BoundInv

(* The counter that mqtt_publish tests never understates the list, though   *)
(* mqtt_ack_list_scan and mqtt_clean_session free nodes without it.         *)
THEOREM CounterCovers == ~ WordRaces /\ Spec => []AckNumCoversList
<1>1. BoundInv => AckNumCoversList
  BY DEF BoundInv
<1>. QED  BY <1>1, BoundInit, BoundNext, PTL DEF Spec, AnyServerInit

(* However many threads publish, no more messages than the maximum are kept *)
(* for retransmission: the test of the bound and the record are under one   *)
(* lock.                                                                    *)
THEOREM PublishedWithinMaximum == ~ WordRaces /\ Spec => []PublishedBounded
<1>1. BoundInv => PublishedBounded
  BY DEF BoundInv
<1>. QED  BY <1>1, BoundInit, BoundNext, PTL DEF Spec, AnyServerInit
-----------------------------------------------------------------------------
(* What leaves the list, and when. *)

(* Only mqtt_clean_session makes the client INVALID, and the yield thread   *)
(* does not run it twice.                                                   *)
CleanInv == pc[Yield] = "clean" => client_state # "INVALID"

KeptInv == TypeInv /\ CleanInv

(* The condition of KeptUntilAnswered on one step. *)
Kept == \A n \in ack_list \ ack_list' :
          Resent(n) => \/ client_state' # client_state
                       \/ \E t \in Thread : pkt[t].type = n.type /\ pkt[t].id = n.id

(* No call and no handler drops a node but the one answered. *)
LEMMA ThreadKept == ASSUME TypeInv, NEW t \in Thread, ThreadStep(t) PROVE Kept
<1>1. CASE PublishStep(t) \/ SubscribeStep(t) \/ ConnectStep(t) \/ KeepAliveStep(t)
  <2>1. ack_list \subseteq ack_list'
    BY <1>1 DEF PublishStep, PublishCall, PublishRefuse, PublishLock, PublishSend,
       PublishRecord, PublishDisc, SubscribeStep, SubscribeCall, UnsubscribeCall,
       SubscribeLock, SubscribeSend, SubscribeRecord, UnsubscribeLock, UnsubscribeSend,
       UnsubscribeRecord, ConnectStep, ConnectCall, ConnectNetwork, ConnectReturn,
       ConnectLock, ConnectSend, ConnectTimeout, ConnectFail, ConnectAccepted, ConnectUp,
       ConnectCreateThread, ConnectNoThread, ConnectStoreThread, ConnectSetState,
       ConnectStartThread, ConnectRefused,
       KeepAliveStep, KeepAliveQuiet, KeepAlivePing, KeepAliveSend, KeepAliveDead,
       KeepAliveDisc, Move, Start, LockAndSerialize, SendOrReturn, Record, AddNode, ackVars
  <2>. QED  BY <2>1 DEF Kept
<1>2. CASE DisconnectStep(t)
  <2>1. ack_list \subseteq ack_list' \/ client_state' # client_state
    BY <1>2 DEF DisconnectStep, DisconnectCall, DisconnectLock, DisconnectSend,
       DisconnectState, Release, Start, LockAndSerialize, ackVars
  <2>. QED  BY <2>1 DEF Kept
<1>3. CASE HandleStep(t)
  <2>1. \/ ack_list \subseteq ack_list'
        \/ UnrecordNodes(t, pkt[t].type, pkt[t].id)
        \/ \E type \in {"SUBACK", "UNSUBACK"} : UnrecordNodes(t, type, pkt[t].id)
    BY <1>3 DEF HandleStep, Read, ReadTimeout, HandleNotConnected, HandleConnack, HandleAck,
           HandleSuback, HandleUnsuback, HandlePublish, RecordPubrel, HandlePubrec,
           HandlePubrel, Unrecord, HandlePingresp, Move, AddNode, ackVars
  <2>. QED  BY <2>1 DEF Kept, UnrecordNodes, Matching, Resent
<1>. QED  BY <1>1, <1>2, <1>3 DEF ThreadStep

(* Nor does a scan of the list; cleaning the session changes the state. *)
LEMMA YieldKept == ASSUME KeptInv, YieldStep PROVE Kept
<1>1. \/ ack_list \subseteq ack_list'
      \/ \E n : ~ Resent(n) /\ ack_list' = ack_list \ {n}
      \/ client_state' # client_state
  BY DEF YieldStep, YieldStart, YieldSuspend, YieldTop, ReconnectBeaten, ReconnectScan, Resubscribe, AckListScan,
         AckHandlerResend, AckHandlerDestroy, AckListScanned, CleanSession, YieldDestroy,
         Move, ackVars, KeptInv, CleanInv
<1>. QED  BY <1>1 DEF Kept

(* The session is cleaned once: CleanInv is inductive. *)
LEMMA CleanNext == ASSUME KeptInv, [Next]_vars PROVE CleanInv'
<1>1. pc \in [Thread -> PC] /\ Yield \in Thread
  BY DEF KeptInv, TypeInv, TypeOK, Thread
<1>2. ASSUME NEW t \in Thread, ThreadStep(t) PROVE CleanInv'
  <2>1. client_state' = "INVALID" => client_state = "INVALID"
    BY <1>2 DEF ThreadStep, PublishStep, PublishCall, PublishRefuse, PublishLock, PublishSend,
       PublishRecord, PublishDisc, SubscribeStep, SubscribeCall, UnsubscribeCall,
       SubscribeLock, SubscribeSend, SubscribeRecord, UnsubscribeLock, UnsubscribeSend,
       UnsubscribeRecord, ConnectStep, ConnectCall, ConnectNetwork, ConnectReturn,
       ConnectLock, ConnectSend, ConnectTimeout, ConnectFail, ConnectAccepted, ConnectUp,
       ConnectCreateThread, ConnectNoThread, ConnectStoreThread, ConnectSetState,
       ConnectStartThread, ConnectRefused,
       KeepAliveStep, KeepAliveQuiet, KeepAlivePing, KeepAliveSend, KeepAliveDead,
       KeepAliveDisc, DisconnectStep, DisconnectCall, DisconnectLock, DisconnectSend,
       DisconnectState, Release, HandleStep, Read, ReadTimeout, HandleNotConnected,
       HandleConnack, HandleAck, HandleSuback, HandleUnsuback, HandlePublish, RecordPubrel,
       HandlePubrec, HandlePubrel, Unrecord, HandlePingresp, Move, Start, LockAndSerialize,
       SendOrReturn, sessVars
  <2>2. pc'[Yield] = "clean" => pc[Yield] = "clean" \/ client_state' = "CLEAN_SESSION"
    <3>1. \/ UNCHANGED pc
          \/ \E label \in PC \ {"clean"} : Goto(t, label)
          \/ ConnectCreateThread(t) \/ ConnectStartThread(t)
          \/ client_state' = "CLEAN_SESSION"
      <4>1. CASE PublishStep(t)
        BY <4>1 DEF PublishStep, PublishCall, PublishRefuse, PublishLock, PublishSend,
           PublishRecord, PublishDisc, Move, Start, LockAndSerialize, SendOrReturn, Return,
           PC, LockedPC
      <4>2. CASE SubscribeStep(t)
        BY <4>2 DEF SubscribeStep, SubscribeCall, UnsubscribeCall, SubscribeLock,
           SubscribeSend, SubscribeRecord, UnsubscribeLock, UnsubscribeSend,
           UnsubscribeRecord, Start, LockAndSerialize, SendOrReturn, Return, PC, LockedPC
      <4>3. CASE ConnectStep(t)
        BY <4>3 DEF ConnectStep, ConnectCall, ConnectNetwork, ConnectReturn, ConnectLock,
           ConnectSend, ConnectTimeout, ConnectFail, ConnectAccepted, ConnectNoThread,
           ConnectStoreThread, ConnectSetState, ConnectRefused, AfterConnect, Move, Start, LockAndSerialize, Return, PC, LockedPC
      <4>4. CASE DisconnectStep(t)
        BY <4>4 DEF DisconnectStep, DisconnectCall, DisconnectLock, DisconnectSend,
           DisconnectState, Release, Start, LockAndSerialize, Return, PC, LockedPC
      <4>5. CASE HandleStep(t)
        BY <4>5 DEF HandleStep, Read, ReadTimeout, HandleNotConnected, HandleConnack,
           HandleAck, HandleSuback, HandleUnsuback, HandlePublish, RecordPubrel,
           HandlePubrec, HandlePubrel, Unrecord, HandlePingresp, Finish, Move, PC, LockedPC
      <4>6. CASE KeepAliveStep(t)
        BY <4>6 DEF KeepAliveStep, KeepAliveQuiet, KeepAlivePing, KeepAliveSend,
           KeepAliveDead, KeepAliveDisc, Handled, HandleError, Move, sessVars, PC, LockedPC
      <4>. QED  BY <1>2, <4>1, <4>2, <4>3, <4>4, <4>5, <4>6 DEF ThreadStep
    <3>. QED  BY <1>1, <3>1 DEF Goto, ConnectCreateThread, ConnectStartThread
  <2>. QED  BY <2>1, <2>2 DEF KeptInv, CleanInv
<1>3. CASE YieldStep
  <2>1. \/ pc'[Yield] # "clean"
        \/ client_state' = client_state /\ (pc[Yield] = "clean" \/ client_state = "CLEAN_SESSION")
    BY <1>1, <1>3 DEF YieldStep, YieldStart, YieldSuspend, YieldTop, ReconnectBeaten, ReconnectScan, Resubscribe, AckListScan,
         AckHandlerResend, AckHandlerDestroy, AckListScanned, CleanSession, YieldDestroy,
         Move, Goto, sessVars
  <2>. QED  BY <2>1 DEF KeptInv, CleanInv
<1>4. CASE LinkDown \/ ServerReads \/ (\E p \in FromServer : ServerSends(p)) \/ UNCHANGED vars
  BY <1>4 DEF LinkDown, ServerReads, ServerSends, vars, sessVars, KeptInv, CleanInv
<1>. QED  BY <1>2, <1>3, <1>4 DEF Next, ClientNext

(* A message kept for retransmission is given up only when its answer is    *)
(* handled or the session ends: no time-out, no lost connection, no failed  *)
(* send and no other thread takes it out of the list.                       *)
THEOREM PublishedIsKept == Spec => KeptUntilAnswered
<1>1. Init => KeptInv
  BY InitType DEF Init, KeptInv, CleanInv
<1>2. KeptInv /\ [Next]_vars => KeptInv'
  BY NextType, CleanNext DEF KeptInv
<1>3. KeptInv /\ [Next]_vars => [Kept]_vars
  <2>1. SUFFICES ASSUME KeptInv, Next PROVE Kept
    OBVIOUS
  <2>2. CASE LinkDown \/ ServerReads \/ \E p \in FromServer : ServerSends(p)
    BY <2>2 DEF LinkDown, ServerReads, ServerSends, ackVars, Kept
  <2>. QED  BY <2>1, <2>2, ThreadKept, YieldKept DEF Next, ClientNext, KeptInv
<1>4. Spec => [][Kept]_vars
  BY <1>1, <1>2, <1>3, PTL DEF Spec, AnyServerInit
<1>. QED  BY <1>4 DEF KeptUntilAnswered, Kept
=============================================================================

----------------------------- MODULE MqttProofs -----------------------------
(***************************************************************************)
(* What the steps of the MQTT client preserve, whatever network and server *)
(* do: for every set of application threads and every calls they make.     *)
(* First the types, which need to know what a thread that is in the middle *)
(* of a call is busy with; then the write lock.                            *)
(***************************************************************************)
EXTENDS MqttClient, FiniteSetTheorems, TLAPS

(* What a thread is busy with, by where it is. *)
Busy(t) ==
  /\ pc[t] = "pub_lock" => op[t].op = "publish"
  /\ pc[t] = "sub_lock" => op[t].op = "subscribe"
  /\ pc[t] = "unsub_lock" => op[t].op = "unsubscribe"
  /\ pc[t] \in {"pub_send", "pub_record", "rec_record"} => pkt[t].type = "PUBLISH"
  /\ pc[t] \in {"sub_send", "sub_record"} => pkt[t].type = "SUBSCRIBE"
  /\ pc[t] = "unrecord" => pkt[t].type \in {"PUBREC", "PUBREL"}

(* The inductive form of the type invariant. *)
TypeInv == TypeOK /\ IsFiniteSet(ack_list) /\ \A t \in Thread : Busy(t)

(* Packets made by the client are packets. *)
LEMMA PlainType ==
  ASSUME NEW type \in PacketType, NEW id \in 0 .. MaxPacketId,
         NEW body \in Msg \cup Topic \cup {None, "yes", "no"},
         type = "PUBLISH" => body \in Msg,
         type \in {"SUBSCRIBE", "UNSUBSCRIBE"} => body \in Topic
  PROVE  /\ Plain(type, id, body) \in Packet
         /\ Plain(type, id, body).type = type
         /\ Plain(type, id, body).body = body
BY DEF Plain, Packet

(* So are packets without a body. *)
LEMMA AckIsPacket ==
  ASSUME NEW type \in PacketType \ {"PUBLISH", "SUBSCRIBE", "UNSUBSCRIBE"},
         NEW id \in 0 .. MaxPacketId
  PROVE  Ack(type, id) \in Packet /\ Ack(type, id).type = type
BY PlainType DEF Ack

(* Bytes that are no packet of the client's have a type of their own. *)
LEMMA CorruptIsPacket == Corrupt \in Packet /\ Corrupt.type = "CORRUPT"
BY AckIsPacket, BoundAssumption DEF Corrupt, PacketType

(* mqtt_get_next_packet_id stays in its range and never gives 0. *)
LEMMA NextIdType == ASSUME TypeOK PROVE NextId \in 1 .. MaxPacketId
BY BoundAssumption DEF TypeOK, NextId

(* Setting the retransmission flag leaves a packet a packet. *)
LEMMA DupType ==
  ASSUME NEW p \in Packet
  PROVE  [p EXCEPT !.dup = TRUE] \in Packet
BY DEF Packet

(* The helpers of the actions, each with the part of the type invariant it *)
(* is answerable for. *)
NetType == link \in {"up", "down"} /\ c2s \in Seq(Packet) /\ s2c \in Seq(Packet)
             /\ connects \in Nat
AckInv == ack_list \in SUBSET Node /\ IsFiniteSet(ack_list) /\ ack_num \in Nat

(* Sending keeps the network's types ... *)
LEMMA SendOkType ==
  ASSUME NetType, NEW p \in Packet, SendOk(p)
  PROVE  NetType'
<1>1. \A s \in Seq(Packet) : Append(s, p) \in Seq(Packet)
  OBVIOUS
<1>. QED  BY <1>1 DEF NetType, SendOk

(* ... and so does a failure to send. *)
LEMMA SendFailsType == ASSUME NetType, SendFails PROVE NetType'
BY DEF NetType, SendFails, netVars

(* Nothing happens on the network. *)
LEMMA NetSame == ASSUME NetType, UNCHANGED netVars PROVE NetType'
BY DEF NetType, netVars

(* Nothing happens to the list. *)
LEMMA AckSame == ASSUME AckInv, UNCHANGED ackVars PROVE AckInv'
BY DEF AckInv, ackVars

(* A node more: a finite set of nodes, and a counter that is a number. *)
LEMMA AddNodeType ==
  ASSUME AckInv, NEW t, NEW type \in AckType, NEW id \in 0 .. MaxPacketId, NEW payload \in Packet,
         type = "SUBACK" => payload.type = "SUBSCRIBE", AddNode(t, type, id, payload)
  PROVE  AckInv'
<1>. DEFINE n == [type |-> type, id |-> id, payload |-> payload]
<1>1. n \in Node
  BY DEF Node
<1>2. ack_list' = ack_list \cup {n} /\ ack_num' \in {ack_num, ack_num + 1}
  BY DEF AddNode, SetNumber
<1>. HIDE DEF n
<1>3. IsFiniteSet(ack_list')
  BY <1>2, FS_AddElement DEF AckInv
<1>. QED  BY <1>1, <1>2, <1>3 DEF AckInv

(* Nodes less: the counter does not fall below 0. *)
LEMMA UnrecordNodesType ==
  ASSUME AckInv, NEW t, NEW type, NEW id, UnrecordNodes(t, type, id)
  PROVE  AckInv'
<1>. DEFINE N == Matching(type, id)
<1>1. N \subseteq ack_list /\ IsFiniteSet(N)
  BY FS_Subset DEF AckInv, Matching
<1>2. Cardinality(N) \in Nat
  BY <1>1, FS_CardinalityType
<1>3. /\ ack_list' = ack_list \ N
      /\ \/ ack_num' = ack_num
         \/ ack_num' = IF ack_num >= Cardinality(N) THEN ack_num - Cardinality(N) ELSE 0
  BY DEF UnrecordNodes, SetNumber
<1>. HIDE DEF N
<1>4. IsFiniteSet(ack_list')
  BY <1>1, <1>3, FS_Subset DEF AckInv
<1>. QED  BY <1>2, <1>3, <1>4 DEF AckInv
-----------------------------------------------------------------------------
(* The invariant in parts, one per group of variables. *)
SessType == /\ client_state \in ClientState
            /\ packet_id \in 0 .. MaxPacketId
            /\ msg_handlers \in SUBSET Topic
            /\ ping \in 0 .. 3
            /\ mqtt_thread \in BOOLEAN
LockType == write_lock \in Thread \cup {None} /\ write_buf \in Packet
CtlType  == /\ pc \in [Thread -> PC]
            /\ pkt \in [Thread -> Packet]
            /\ op \in [Thread -> ApiCall]
            /\ calls \in [Apps -> SUBSET ApiCall]
            /\ \A t \in Thread : Busy(t)
IterType == resub \in SUBSET Topic /\ expired \in SUBSET Node
HistType == /\ delivered \in Seq(Msg)
            /\ accepted \in SUBSET Msg
            /\ garbled \in SUBSET Msg
            /\ faults \in SUBSET {"null_thread", "wild_handler", "stale_client"}

(* The parts make up the invariant, in this state ... *)
LEMMA TypeParts ==
  TypeInv <=> SessType /\ LockType /\ AckInv /\ CtlType /\ IterType /\ NetType /\ HistType
BY DEF TypeInv, TypeOK, SessType, LockType, AckInv, CtlType, IterType, NetType, HistType

(* ... and in the next. *)
LEMMA TypePartsNext ==
  SessType' /\ LockType' /\ AckInv' /\ CtlType' /\ IterType' /\ NetType' /\ HistType'
    => TypeInv'
BY DEF TypeInv, TypeOK, SessType, LockType, AckInv, CtlType, IterType, NetType, HistType

(* A part holds on if its variables do not change. *)
LEMMA SessSame == ASSUME SessType, UNCHANGED sessVars PROVE SessType'
BY DEF SessType, sessVars
(* The same of the lock and the buffer. *)
LEMMA LockSame == ASSUME LockType, UNCHANGED lockVars PROVE LockType'
BY DEF LockType, lockVars
(* The same of the iterations under way. *)
LEMMA IterSame == ASSUME IterType, UNCHANGED iterVars PROVE IterType'
BY DEF IterType, iterVars
(* The same of the histories. *)
LEMMA HistSame == ASSUME HistType, UNCHANGED histVars PROVE HistType'
BY DEF HistType, histVars

(* A step that only moves t to a place where nothing is asked of it. *)
Free == PC \ {"pub_lock", "sub_lock", "unsub_lock", "pub_send", "pub_record",
              "rec_record", "sub_send", "sub_record", "unrecord"}

(* A thread may go anywhere it need not be busy with anything. *)
LEMMA GotoType ==
  ASSUME CtlType, NEW t \in Thread, NEW label \in Free, Goto(t, label),
         UNCHANGED <<pkt, op, calls>>
  PROVE  CtlType'
BY DEF CtlType, Goto, Busy, Free, PC, LockedPC

(* A handler is through with its packet. *)
LEMMA FinishType == ASSUME CtlType, NEW t \in Thread, Finish(t), UNCHANGED callVars PROVE CtlType'
BY CorruptIsPacket DEF CtlType, Finish, Goto, Busy, PC, LockedPC, callVars

(* A step that is nothing but a move. *)
LEMMA MoveType ==
  ASSUME TypeInv, NEW t \in Thread, NEW label \in Free, Move(t, label)
  PROVE  TypeInv'
<1>1. Goto(t, label) /\ UNCHANGED <<pkt, callVars>>
  BY DEF Move
<1>2. CtlType'
  BY <1>1, TypeParts, GotoType DEF callVars
<1>3. SessType' /\ LockType' /\ AckInv' /\ IterType' /\ NetType' /\ HistType'
  BY TypeParts, SessSame, LockSame, AckSame, IterSame, NetSame, HistSame DEF Move
<1>. QED  BY <1>2, <1>3, TypePartsNext

(* A thread that returns is busy with nothing. *)
LEMMA ReturnFree == ASSUME NEW t \in Thread PROVE (IF t = Yield THEN "resub" ELSE "idle") \in Free
BY DEF Free, PC, LockedPC

(* A thread starts one of its calls. *)
LEMMA StartType ==
  ASSUME TypeInv, NEW t \in Thread, NEW c, NEW label \in PC, Start(t, c, label),
         label \in Free \/ \/ label = "pub_lock" /\ c.op = "publish"
                           \/ label = "sub_lock" /\ c.op = "subscribe"
                           \/ label = "unsub_lock" /\ c.op = "unsubscribe"
  PROVE  TypeInv'
<1>1. SessType' /\ LockType' /\ AckInv' /\ IterType' /\ NetType' /\ HistType'
  BY TypeParts, SessSame, LockSame, AckSame, IterSame, NetSame, HistSame DEF Start
<1>2. t \in Apps /\ c \in calls[t] /\ CtlType
  BY TypeParts DEF Start
<1>3. c \in ApiCall
  BY <1>2 DEF CtlType
<1>4. /\ op' = [op EXCEPT ![t] = c] /\ calls' = [calls EXCEPT ![t] = @ \ {c}]
      /\ pc' = [pc EXCEPT ![t] = label] /\ pkt' = pkt
  BY DEF Start, Goto
<1>5. /\ op' \in [Thread -> ApiCall] /\ pkt' \in [Thread -> Packet]
      /\ pc' \in [Thread -> PC] /\ calls' \in [Apps -> SUBSET ApiCall]
  BY <1>2, <1>3, <1>4 DEF CtlType
<1>6. ASSUME NEW u \in Thread PROVE Busy(u)'
  BY <1>2, <1>4 DEF CtlType, Busy, Free
<1>. QED  BY <1>1, <1>5, <1>6, TypePartsNext DEF CtlType

(* A thread takes the lock and serializes a packet. *)
LEMMA LockAndSerializeType ==
  ASSUME TypeInv, NEW t \in Thread, NEW p \in Packet, NEW label \in PC,
         LockAndSerialize(t, p, label), packet_id' \in 0 .. MaxPacketId,
         label \in Free \/ \/ label = "pub_send" /\ p.type = "PUBLISH"
                           \/ label = "sub_send" /\ p.type = "SUBSCRIBE"
  PROVE  TypeInv'
<1>1. AckInv' /\ IterType' /\ NetType' /\ HistType'
  BY TypeParts, AckSame, IterSame, NetSame, HistSame DEF LockAndSerialize
<1>2. SessType' /\ LockType'
  BY TypeParts DEF LockAndSerialize, SessType, LockType, Acquire
<1>3. CtlType'
  BY TypeParts DEF CtlType, LockAndSerialize, Goto, Busy, callVars, Free
<1>. QED  BY <1>1, <1>2, <1>3, TypePartsNext

(* What leaves the write buffer is a packet. *)
LEMMA InBufferType == ASSUME TypeInv, NEW t \in Thread PROVE InBuffer(t) \in Packet
BY CorruptIsPacket DEF TypeInv, TypeOK, InBuffer

(* A thread sends its packet, or its call fails. *)
LEMMA SendOrReturnType ==
  ASSUME TypeInv, NEW t \in Thread, NEW from, NEW label \in PC, SendOrReturn(t, from, label),
         label \in Free \/ \/ from = "pub_send" /\ label = "pub_record"
                           \/ from = "sub_send" /\ label = "sub_record"
  PROVE  TypeInv'
<1>1. SessType' /\ AckInv' /\ IterType' /\ HistType'
  BY TypeParts, SessSame, AckSame, IterSame, HistSame DEF SendOrReturn
<1>2. NetType'
  BY TypeParts, InBufferType, SendOkType, SendFailsType DEF SendOrReturn
<1>3. LockType'
  BY TypeParts DEF SendOrReturn, LockType
<1>4. Goto(t, label) \/ Goto(t, IF t = Yield THEN "resub" ELSE "idle")
  BY DEF SendOrReturn, Return
<1>5. CtlType'
  <2>1. CtlType /\ pc[t] = from /\ UNCHANGED <<pkt, op, calls>>
    BY TypeParts DEF SendOrReturn, callVars
  <2>2. CASE Goto(t, label)
    BY <2>1, <2>2 DEF CtlType, Goto, Busy, Free
  <2>3. CASE Goto(t, IF t = Yield THEN "resub" ELSE "idle")
    BY <2>1, <2>3, GotoType, ReturnFree
  <2>. QED  BY <1>4, <2>2, <2>3
<1>. QED  BY <1>1, <1>2, <1>3, <1>5, TypePartsNext
-----------------------------------------------------------------------------
(* Each group of actions keeps the types. *)

(* The steps that leave everything but the control of t and some of the     *)
(* session, the lock and the network alone. *)
LEMMA StepType ==
  ASSUME TypeInv, NEW t \in Thread, NEW label \in Free, Goto(t, label),
         UNCHANGED <<pkt, callVars, ackVars, histVars>>,
         SessType', LockType', IterType', NetType'
  PROVE  TypeInv'
<1>1. AckInv' /\ HistType' /\ CtlType'
  BY TypeParts, AckSame, HistSame, GotoType DEF callVars
<1>. QED  BY <1>1, TypePartsNext

(* The steps of mqtt_publish. *)
LEMMA PublishType == ASSUME TypeInv, NEW t \in Thread, PublishStep(t) PROVE TypeInv'
<1>1. ASSUME NEW m \in Msg, PublishCall(t, m) PROVE TypeInv'
  BY <1>1, StartType DEF PublishCall, Call, PC
<1>2. CASE PublishRefuse(t)
  BY <1>2, MoveType DEF PublishRefuse, Free, PC, LockedPC
<1>3. CASE PublishLock(t)
  <2>. DEFINE m == op[t].arg
              id == IF Qos[m] = 0 THEN 0 ELSE NextId
              p == Plain("PUBLISH", id, m)
  <2>1. m \in Msg
    BY <1>3 DEF PublishLock, TypeInv, TypeOK, Busy, ApiCall
  <2>2. id \in 0 .. MaxPacketId
    BY NextIdType, BoundAssumption DEF TypeInv
  <2>3. LockAndSerialize(t, p, "pub_send")
    BY <1>3 DEF PublishLock
  <2>4. packet_id' \in 0 .. MaxPacketId
    BY <1>3, NextIdType, BoundAssumption DEF PublishLock, TypeInv, TypeOK
  <2>. HIDE DEF m, id
  <2>5. p \in Packet /\ p.type = "PUBLISH"
    BY <2>1, <2>2, PlainType DEF PacketType
  <2>. HIDE DEF p
  <2>. QED  BY <2>3, <2>4, <2>5, LockAndSerializeType DEF PC, LockedPC
<1>4. CASE PublishSend(t)
  BY <1>4, SendOrReturnType DEF PublishSend, PC, LockedPC
<1>5. CASE PublishRecord(t)
  <2>. DEFINE p == pkt[t]
              type == IF Qos[p.body] = 1 THEN "PUBACK" ELSE "PUBREC"
              saved == IF write_buf = p THEN [p EXCEPT !.dup = TRUE] ELSE Corrupt
  <2>1. p \in Packet /\ p.type = "PUBLISH" /\ write_buf \in Packet
    BY <1>5 DEF PublishRecord, TypeInv, TypeOK, Busy
  <2>2. p.body \in Msg /\ p.id \in 0 .. MaxPacketId
    BY <2>1 DEF Packet
  <2>3. saved \in Packet
    BY <2>1, DupType, CorruptIsPacket
  <2>4. AddNode(t, type, p.id, saved) \/ UNCHANGED ackVars
    BY <1>5 DEF PublishRecord
  <2>5. type \in AckType /\ type # "SUBACK"
    BY DEF AckType
  <2>6. LockType'
    BY <1>5, <2>1, DupType DEF PublishRecord, LockType
  <2>7. accepted' \in SUBSET Msg /\ garbled' \in SUBSET Msg
    BY <1>5, <2>2, TypeParts DEF PublishRecord, HistType
  <2>8. Goto(t, "pub_disc") \/ Goto(t, IF t = Yield THEN "resub" ELSE "idle")
    BY <1>5 DEF PublishRecord, Return
  <2>9. UNCHANGED <<sessVars, pkt, callVars, iterVars, netVars, delivered, faults>>
    BY <1>5 DEF PublishRecord
  <2>. HIDE DEF type, saved
  <2>10. AckInv'
    BY <2>2, <2>3, <2>4, <2>5, TypeParts, AddNodeType, AckSame
  <2>11. CtlType'
    BY <2>8, <2>9, TypeParts, GotoType, ReturnFree DEF callVars, Free, PC, LockedPC
  <2>12. SessType' /\ IterType' /\ NetType'
    BY <2>9, TypeParts, SessSame, IterSame, NetSame
  <2>13. HistType'
    BY <2>7, <2>9, TypeParts DEF HistType
  <2>. QED  BY <2>6, <2>10, <2>11, <2>12, <2>13, TypePartsNext
<1>6. CASE PublishDisc(t)
  <2>1. SessType'
    BY <1>6, TypeParts DEF PublishDisc, SessType, ClientState
  <2>2. LockType' /\ IterType' /\ NetType'
    BY <1>6, TypeParts, LockSame, IterSame, NetSame DEF PublishDisc
  <2>. QED  BY <1>6, <2>1, <2>2, StepType, ReturnFree DEF PublishDisc, Return
<1>. QED  BY <1>1, <1>2, <1>3, <1>4, <1>5, <1>6 DEF PublishStep

(* Recording the reply awaited by a subscription or its cancellation. *)
LEMMA RecordType ==
  ASSUME TypeInv, NEW t \in Thread, NEW type \in {"SUBACK", "UNSUBACK"}, Record(t, type),
         type = "SUBACK" => pkt[t].type = "SUBSCRIBE"
  PROVE  AckInv' /\ write_lock' = None
<1>1. pkt[t] \in Packet /\ pkt[t].id \in 0 .. MaxPacketId
  BY DEF TypeInv, TypeOK, Packet
<1>2. AddNode(t, type, pkt[t].id, pkt[t]) \/ UNCHANGED ackVars
  BY DEF Record
<1>3. type \in AckType
  BY DEF AckType
<1>. QED  BY <1>1, <1>2, <1>3, TypeParts, AddNodeType, AckSame DEF Record

(* The steps of mqtt_subscribe and mqtt_unsubscribe. *)
LEMMA SubscribeType == ASSUME TypeInv, NEW t \in Thread, SubscribeStep(t) PROVE TypeInv'
<1>1. ASSUME NEW x \in Topic, SubscribeCall(t, x) PROVE TypeInv'
  BY <1>1, StartType DEF SubscribeCall, Call, PC
<1>2. ASSUME NEW x \in Topic, UnsubscribeCall(t, x) PROVE TypeInv'
  BY <1>2, StartType DEF UnsubscribeCall, Call, PC
<1>3. NextId \in 0 .. MaxPacketId
  BY NextIdType, BoundAssumption DEF TypeInv
<1>4. ASSUME NEW type \in {"SUBSCRIBE", "UNSUBSCRIBE"},
             op[t].op \in {"subscribe", "unsubscribe"}
      PROVE  /\ Plain(type, NextId, op[t].arg) \in Packet
             /\ Plain(type, NextId, op[t].arg).type = type
  <2>1. op[t].arg \in Topic
    BY <1>4 DEF TypeInv, TypeOK, ApiCall
  <2>2. type \in PacketType /\ type # "PUBLISH"
    BY DEF PacketType
  <2>. QED  BY <1>3, <2>1, <2>2, PlainType
<1>5. CASE SubscribeLock(t)
  <2>1. op[t].op = "subscribe" /\ packet_id' = NextId
    BY <1>5 DEF SubscribeLock, TypeInv, Busy
  <2>2. LockAndSerialize(t, Plain("SUBSCRIBE", NextId, op[t].arg), "sub_send")
    BY <1>5 DEF SubscribeLock
  <2>. QED  BY <1>3, <1>4, <2>1, <2>2, LockAndSerializeType DEF PC, LockedPC
<1>6. CASE UnsubscribeLock(t)
  <2>1. op[t].op = "unsubscribe" /\ packet_id' = NextId
    BY <1>6 DEF UnsubscribeLock, TypeInv, Busy
  <2>2. LockAndSerialize(t, Plain("UNSUBSCRIBE", NextId, op[t].arg), "unsub_send")
    BY <1>6 DEF UnsubscribeLock
  <2>. QED  BY <1>3, <1>4, <2>1, <2>2, LockAndSerializeType DEF Free, PC, LockedPC
<1>7. CASE SubscribeSend(t)
  BY <1>7, SendOrReturnType DEF SubscribeSend, PC, LockedPC
<1>8. CASE UnsubscribeSend(t)
  BY <1>8, SendOrReturnType DEF UnsubscribeSend, Free, PC, LockedPC
<1>9. CASE SubscribeRecord(t)
  <2>1. pkt[t].type = "SUBSCRIBE"
    BY <1>9 DEF SubscribeRecord, TypeInv, Busy
  <2>2. AckInv' /\ write_lock' = None
    BY <1>9, <2>1, RecordType DEF SubscribeRecord
  <2>3. LockType'
    BY <1>9, <2>2, TypeParts DEF SubscribeRecord, LockType
  <2>4. CtlType'
    BY <1>9, TypeParts, GotoType, ReturnFree DEF SubscribeRecord, Return, callVars
  <2>5. SessType' /\ IterType' /\ NetType' /\ HistType'
    BY <1>9, TypeParts, SessSame, IterSame, NetSame, HistSame DEF SubscribeRecord
  <2>. QED  BY <2>2, <2>3, <2>4, <2>5, TypePartsNext
<1>10. CASE UnsubscribeRecord(t)
  <2>1. AckInv' /\ write_lock' \in {None, write_lock}
    <3>1. CASE Record(t, "UNSUBACK")
      BY <3>1, RecordType
    <3>2. CASE UNCHANGED <<ackVars, write_lock>>
      BY <3>2, TypeParts, AckSame
    <3>. QED  BY <1>10, <3>1, <3>2 DEF UnsubscribeRecord
  <2>2. LockType'
    BY <1>10, <2>1, TypeParts DEF UnsubscribeRecord, LockType
  <2>3. CtlType'
    BY <1>10, TypeParts, GotoType, ReturnFree DEF UnsubscribeRecord, Return, callVars
  <2>4. SessType' /\ IterType' /\ NetType' /\ HistType'
    BY <1>10, TypeParts, SessSame, IterSame, NetSame, HistSame DEF UnsubscribeRecord
  <2>. QED  BY <2>1, <2>2, <2>3, <2>4, TypePartsNext
<1>. QED  BY <1>1, <1>2, <1>5, <1>6, <1>7, <1>8, <1>9, <1>10 DEF SubscribeStep

(* A thread that leaves mqtt_connect is busy with nothing. *)
LEMMA AfterConnectFree == ASSUME NEW t \in Thread PROVE AfterConnect(t) \in Free
BY DEF AfterConnect, Free, PC, LockedPC

(* The end of a successful mqtt_connect. *)
LEMMA ConnectUpType ==
  ASSUME TypeInv, NEW t \in Thread, ConnectUp(t)
  PROVE  SessType' /\ LockType' /\ IterType' /\ NetType' /\ AckInv' /\ HistType'
<1>1. AckInv' /\ NetType' /\ HistType'
  BY TypeParts, AckSame, NetSame, HistSame DEF ConnectUp
<1>2. SessType' /\ LockType' /\ IterType'
  BY TypeParts DEF ConnectUp, SetPing, SessType, LockType, IterType, ClientState
<1>. QED  BY <1>1, <1>2

(* The steps of mqtt_connect. *)
LEMMA ConnectType == ASSUME TypeInv, NEW t \in Thread, ConnectStep(t) PROVE TypeInv'
<1>1. CASE ConnectCall(t)
  BY <1>1, StartType DEF ConnectCall, Call, Free, PC, LockedPC
<1>2. CASE ConnectNetwork(t)
  <2>1. NetType'
    BY <1>2, TypeParts DEF ConnectNetwork, NetType
  <2>2. SessType' /\ LockType' /\ IterType'
    BY <1>2, TypeParts, SessSame, LockSame, IterSame DEF ConnectNetwork
  <2>. QED  BY <1>2, <2>1, <2>2, StepType DEF ConnectNetwork, Free, PC, LockedPC
<1>3. CASE ConnectReturn(t)
  BY <1>3, MoveType, AfterConnectFree DEF ConnectReturn
<1>4. CASE ConnectLock(t)
  <2>1. Ack("CONNECT", 0) \in Packet
    BY AckIsPacket, BoundAssumption DEF PacketType
  <2>2. packet_id' \in 0 .. MaxPacketId
    BY <1>4 DEF ConnectLock, TypeInv, TypeOK
  <2>. QED  BY <1>4, <2>1, <2>2, LockAndSerializeType DEF ConnectLock, Free, PC, LockedPC
<1>5. CASE ConnectSend(t)
  <2>1. NetType'
    BY <1>5, TypeParts, InBufferType, SendOkType, SendFailsType DEF ConnectSend
  <2>2. SessType' /\ LockType' /\ IterType'
    BY <1>5, TypeParts, SessSame, LockSame, IterSame DEF ConnectSend
  <2>3. Goto(t, "read") \/ Goto(t, "conn_fail")
    BY <1>5 DEF ConnectSend
  <2>. QED  BY <1>5, <2>1, <2>2, <2>3, StepType DEF ConnectSend, Free, PC, LockedPC
<1>6. CASE ConnectTimeout(t)
  BY <1>6, MoveType DEF ConnectTimeout, Free, PC, LockedPC
<1>7. CASE ConnectFail(t)
  <2>1. SessType' /\ LockType'
    BY <1>7, TypeParts DEF ConnectFail, SessType, LockType, ClientState
  <2>2. IterType' /\ NetType'
    BY <1>7, TypeParts, IterSame, NetSame DEF ConnectFail
  <2>. QED  BY <1>7, <2>1, <2>2, StepType, AfterConnectFree DEF ConnectFail
<1>8. CASE ConnectAccepted(t)
  <2>1. ConnectUp(t) /\ Goto(t, IF t = Yield THEN "resub" ELSE "idle")
    BY <1>8 DEF ConnectAccepted, Return
  <2>. QED  BY <2>1, ConnectUpType, StepType, ReturnFree DEF ConnectUp, callVars
<1>9. CASE ConnectCreateThread(t)
  <2>1. CtlType'
    BY <1>9, TypeParts DEF ConnectCreateThread, CtlType, Busy, callVars, PC, LockedPC
  <2>2. SessType' /\ LockType' /\ AckInv' /\ IterType' /\ NetType' /\ HistType'
    BY <1>9, TypeParts, SessSame, LockSame, AckSame, IterSame, NetSame, HistSame
       DEF ConnectCreateThread
  <2>. QED  BY <2>1, <2>2, TypePartsNext
<1>10. CASE ConnectStoreThread(t)
  <2>0. SessType'
    BY <1>10, TypeParts DEF ConnectStoreThread, SessType
  <2>1. CtlType'
    BY <1>10, TypeParts DEF ConnectStoreThread, CtlType, Busy, callVars
  <2>2. LockType' /\ AckInv' /\ IterType' /\ NetType' /\ HistType'
    BY <1>10, TypeParts, LockSame, AckSame, IterSame, NetSame, HistSame
       DEF ConnectStoreThread
  <2>. QED  BY <2>0, <2>1, <2>2, TypePartsNext
<1>11. CASE ConnectSetState(t)
  <2>1. Goto(t, "conn_start") /\ UNCHANGED <<pkt, callVars, ackVars, histVars>>
    BY <1>11 DEF ConnectSetState
  <2>2. SessType'
    BY <1>11, TypeParts DEF ConnectSetState, SessType, ClientState
  <2>3. LockType' /\ IterType' /\ NetType'
    BY <1>11, TypeParts, LockSame, IterSame, NetSame DEF ConnectSetState
  <2>. QED  BY <2>1, <2>2, <2>3, StepType DEF Free, PC, LockedPC
<1>14. CASE ConnectStartThread(t)
  <2>1. UNCHANGED <<pkt, op, calls>>
    BY <1>14 DEF ConnectStartThread, callVars
  <2>2. CtlType'
    <3>1. CtlType
      BY TypeParts
    <3>2. pc' \in [Thread -> PC]
      BY <1>14, <3>1 DEF ConnectStartThread, CtlType, PC
    <3>3. \A u \in Thread : pc'[u] \in {pc[u], "idle", "top"}
      BY <1>14, <3>1 DEF ConnectStartThread, CtlType
    <3>4. \A u \in Thread : Busy(u)'
      BY <2>1, <3>1, <3>3 DEF CtlType, Busy
    <3>. QED  BY <2>1, <3>1, <3>2, <3>4 DEF CtlType
  <2>3. SessType' /\ LockType'
    BY <1>14, TypeParts DEF ConnectStartThread, SetPing, SessType, LockType
  <2>4. IterType' /\ NetType' /\ AckInv' /\ HistType'
    BY <1>14, TypeParts, IterSame, NetSame, AckSame, HistSame DEF ConnectStartThread
  <2>. QED  BY <2>2, <2>3, <2>4, TypePartsNext
<1>12. CASE ConnectRefused(t)
  BY <1>12, MoveType DEF ConnectRefused, Free, PC, LockedPC
<1>13. CASE ConnectNoThread(t)
  <2>1. SessType' /\ LockType'
    BY <1>13, TypeParts DEF ConnectNoThread, SetPing, SessType, LockType
  <2>2. IterType' /\ NetType'
    BY <1>13, TypeParts, IterSame, NetSame DEF ConnectNoThread
  <2>. QED  BY <1>13, <2>1, <2>2, StepType, ReturnFree DEF ConnectNoThread, Return
<1>. QED  BY <1>1, <1>2, <1>3, <1>4, <1>5, <1>6, <1>7, <1>8, <1>9, <1>10, <1>11, <1>12, <1>13,
             <1>14 DEF ConnectStep

(* The steps of mqtt_disconnect and mqtt_release. *)
LEMMA DisconnectType == ASSUME TypeInv, NEW t \in Thread, DisconnectStep(t) PROVE TypeInv'
<1>1. CASE DisconnectCall(t)
  BY <1>1, StartType DEF DisconnectCall, Call, Free, PC, LockedPC
<1>2. CASE DisconnectLock(t)
  <2>1. Ack("DISCONNECT", 0) \in Packet
    BY AckIsPacket, BoundAssumption DEF PacketType
  <2>2. packet_id' \in 0 .. MaxPacketId
    BY <1>2 DEF DisconnectLock, TypeInv, TypeOK
  <2>. QED  BY <1>2, <2>1, <2>2, LockAndSerializeType DEF DisconnectLock, Free, PC, LockedPC
<1>3. CASE DisconnectSend(t)
  <2>1. NetType'
    BY <1>3, TypeParts, InBufferType, SendOkType, SendFailsType DEF DisconnectSend
  <2>2. SessType' /\ IterType'
    BY <1>3, TypeParts, SessSame, IterSame DEF DisconnectSend
  <2>3. LockType'
    BY <1>3, TypeParts DEF DisconnectSend, LockType
  <2>. QED  BY <1>3, <2>1, <2>2, <2>3, StepType DEF DisconnectSend, Free, PC, LockedPC
<1>4. CASE DisconnectState(t)
  <2>1. SessType'
    BY <1>4, TypeParts DEF DisconnectState, SessType, ClientState
  <2>2. LockType' /\ IterType' /\ NetType'
    BY <1>4, TypeParts, LockSame, IterSame, NetSame DEF DisconnectState
  <2>. QED  BY <1>4, <2>1, <2>2, StepType, ReturnFree DEF DisconnectState, Return
<1>5. CASE Release(t)
  <2>1. SessType'
    <3>1. /\ client_state' = "INITIALIZED" /\ packet_id' = 0 /\ msg_handlers' = {}
          /\ ping' = 0 /\ mqtt_thread' = FALSE
      BY <1>5 DEF Release
    <3>2. 0 \in 0 .. MaxPacketId
      BY BoundAssumption
    <3>3. mqtt_thread' \in BOOLEAN
      BY <3>1, Zenon
    <3>. QED  BY <3>1, <3>2, <3>3 DEF SessType, ClientState
  <2>2. AckInv'
    BY <1>5, FS_EmptySet DEF Release, AckInv
  <2>3. CtlType'
    BY <1>5, TypeParts DEF Release, CtlType, Busy
  <2>4. LockType' /\ IterType' /\ NetType' /\ HistType'
    BY <1>5, TypeParts, LockSame, IterSame, NetSame, HistSame DEF Release
  <2>. QED  BY <2>1, <2>2, <2>3, <2>4, TypePartsNext
<1>. QED  BY <1>1, <1>2, <1>3, <1>4, <1>5 DEF DisconnectStep

(* The steps of mqtt_keep_alive. *)
LEMMA KeepAliveType == ASSUME TypeInv, NEW t \in Thread, KeepAliveStep(t) PROVE TypeInv'
<1>0. Handled(t) \in Free /\ HandleError(t) \in Free
  BY DEF Handled, HandleError, Free, PC, LockedPC
<1>1. CASE KeepAliveQuiet(t)
  <2>1. "clean" \in Free
    BY DEF Free, PC, LockedPC
  <2>. QED  BY <1>0, <1>1, <2>1, MoveType DEF KeepAliveQuiet
<1>2. CASE KeepAlivePing(t)
  <2>1. Ack("PINGREQ", 0) \in Packet
    BY AckIsPacket, BoundAssumption DEF PacketType
  <2>2. LockType' /\ CtlType'
    BY <1>2, <2>1, TypeParts DEF KeepAlivePing, LockType, CtlType, Goto, Busy, callVars, PC, LockedPC
  <2>3. SessType' /\ AckInv' /\ IterType' /\ NetType' /\ HistType'
    BY <1>2, TypeParts, SessSame, AckSame, IterSame, NetSame, HistSame DEF KeepAlivePing
  <2>. QED  BY <2>2, <2>3, TypePartsNext
<1>3. CASE KeepAliveSend(t)
  <2>1. NetType'
    BY <1>3, TypeParts, InBufferType, SendOkType, SendFailsType DEF KeepAliveSend
  <2>2. SessType'
    <3>1. ping \in {0, 1, 2, 3} /\ ping' \in {ping, (ping + 1) % 4}
      BY <1>3, TypeParts DEF KeepAliveSend, SetPing, SessType
    <3>2. ping' \in 0 .. 3
      BY <3>1
    <3>. QED  BY <1>3, <3>2, TypeParts DEF KeepAliveSend, SessType
  <2>3. LockType' /\ IterType'
    BY <1>3, TypeParts, LockSame, IterSame DEF KeepAliveSend
  <2>4. Goto(t, Handled(t)) \/ Goto(t, HandleError(t))
    BY <1>3 DEF KeepAliveSend
  <2>. QED  BY <1>0, <1>3, <2>1, <2>2, <2>3, <2>4, StepType DEF KeepAliveSend
<1>4. CASE KeepAliveDead(t)
  BY <1>4, MoveType DEF KeepAliveDead, Free, PC, LockedPC
<1>5. CASE KeepAliveDisc(t)
  <2>1. SessType'
    BY <1>5, TypeParts DEF KeepAliveDisc, SessType, ClientState
  <2>2. LockType' /\ IterType' /\ NetType'
    BY <1>5, TypeParts, LockSame, IterSame, NetSame DEF KeepAliveDisc
  <2>. QED  BY <1>0, <1>5, <2>1, <2>2, StepType DEF KeepAliveDisc
<1>. QED  BY <1>1, <1>2, <1>3, <1>4, <1>5 DEF KeepAliveStep

(* Reading a packet and handling it. *)
LEMMA HandleType == ASSUME TypeInv, NEW t \in Thread, HandleStep(t) PROVE TypeInv'
<1>1. CASE Read(t)
  <2>1. Head(s2c) \in Packet /\ Tail(s2c) \in Seq(Packet)
    BY <1>1, TypeParts DEF Read, NetType
  <2>2. NetType' /\ CtlType'
    BY <1>1, <2>1, TypeParts
       DEF Read, NetType, CtlType, Goto, Busy, callVars, PC, LockedPC
  <2>3. SessType' /\ LockType' /\ AckInv' /\ IterType' /\ HistType'
    BY <1>1, TypeParts, SessSame, LockSame, AckSame, IterSame, HistSame DEF Read
  <2>. QED  BY <2>2, <2>3, TypePartsNext
<1>2. CASE ReadTimeout(t)
  BY <1>2, MoveType DEF ReadTimeout, Free, PC, LockedPC
<1>3. CASE HandleNotConnected(t)
  <2>1. CtlType'
    BY <1>3, TypeParts, FinishType DEF HandleNotConnected
  <2>2. SessType' /\ LockType' /\ AckInv' /\ IterType' /\ NetType' /\ HistType'
    BY <1>3, TypeParts, SessSame, LockSame, AckSame, IterSame, NetSame, HistSame
       DEF HandleNotConnected
  <2>. QED  BY <2>1, <2>2, TypePartsNext
<1>4. CASE HandleConnack(t)
  BY <1>4, MoveType DEF HandleConnack, Free, PC, LockedPC
<1>5. CASE HandleAck(t)
  <2>1. CtlType' /\ AckInv'
    BY <1>5, TypeParts, FinishType, UnrecordNodesType DEF HandleAck
  <2>2. SessType' /\ LockType' /\ IterType' /\ NetType' /\ HistType'
    BY <1>5, TypeParts, SessSame, LockSame, IterSame, NetSame, HistSame DEF HandleAck
  <2>. QED  BY <2>1, <2>2, TypePartsNext
<1>6. CASE HandleSuback(t)
  <2>. DEFINE granted == {n.payload.body : n \in Matching("SUBACK", pkt[t].id)}
  <2>1. CtlType' /\ AckInv'
    BY <1>6, TypeParts, FinishType, UnrecordNodesType DEF HandleSuback
  <2>2. granted \subseteq Topic
    BY TypeParts DEF AckInv, Matching, Node, Packet
  <2>3. msg_handlers' = msg_handlers \cup granted \/ msg_handlers' = msg_handlers
    BY <1>6 DEF HandleSuback
  <2>. HIDE DEF granted
  <2>4. SessType'
    BY <1>6, <2>2, <2>3, TypeParts DEF HandleSuback, SessType
  <2>5. LockType' /\ IterType' /\ NetType' /\ HistType'
    BY <1>6, TypeParts, LockSame, IterSame, NetSame, HistSame DEF HandleSuback
  <2>. QED  BY <2>1, <2>4, <2>5, TypePartsNext
<1>7. CASE HandleUnsuback(t)
  <2>1. CtlType' /\ AckInv'
    BY <1>7, TypeParts, FinishType, UnrecordNodesType DEF HandleUnsuback
  <2>2. SessType' /\ LockType' /\ IterType' /\ NetType'
    BY <1>7, TypeParts, SessSame, LockSame, IterSame, NetSame DEF HandleUnsuback
  <2>3. HistType'
    BY <1>7, TypeParts DEF HandleUnsuback, HistType
  <2>. QED  BY <2>1, <2>2, <2>3, TypePartsNext
<1>8. CASE HandlePublish(t)
  <2>. DEFINE m == pkt[t].body
              ack == Ack(IF Qos[m] = 1 THEN "PUBACK" ELSE "PUBREC", pkt[t].id)
  <2>1. pkt[t] \in Packet /\ pkt[t].type = "PUBLISH"
    BY <1>8 DEF HandlePublish, Handling, TypeInv, TypeOK
  <2>2. m \in Msg /\ pkt[t].id \in 0 .. MaxPacketId
    BY <2>1 DEF Packet
  <2>3. ack \in Packet
    BY <2>2, AckIsPacket DEF PacketType
  <2>4. \/ Deliver(m) /\ Finish(t) /\ UNCHANGED <<write_buf, netVars>>
        \/ /\ write_buf' = ack
           /\ \/ SendOk(ack) /\ Deliver(m) /\ Finish(t)
              \/ SendOk(ack) /\ UNCHANGED <<delivered, pkt>> /\ Goto(t, "rec_record")
              \/ SendFails /\ UNCHANGED delivered /\ Finish(t)
    BY <1>8 DEF HandlePublish
  <2>5. UNCHANGED <<sessVars, write_lock, ackVars, callVars, iterVars, accepted, garbled, faults>>
    BY <1>8 DEF HandlePublish
  <2>. HIDE DEF m, ack
  <2>6. Deliver(m) \/ UNCHANGED delivered
    BY <2>4
  <2>7. HistType'
    BY <2>2, <2>5, <2>6, TypeParts DEF Deliver, HistType
  <2>8. NetType'
    BY <2>3, <2>4, TypeParts, NetSame, SendOkType, SendFailsType
  <2>9. LockType'
    BY <2>3, <2>4, <2>5, TypeParts DEF LockType
  <2>10. CtlType'
    <3>1. CASE Finish(t)
      BY <2>5, <3>1, TypeParts, FinishType
    <3>2. CASE UNCHANGED pkt /\ Goto(t, "rec_record")
      BY <2>1, <2>5, <3>2, TypeParts DEF CtlType, Goto, Busy, callVars, PC, LockedPC
    <3>. QED  BY <2>4, <3>1, <3>2
  <2>11. SessType' /\ AckInv' /\ IterType'
    BY <2>5, TypeParts, SessSame, AckSame, IterSame
  <2>. QED  BY <2>7, <2>8, <2>9, <2>10, <2>11, TypePartsNext
<1>9. CASE RecordPubrel(t)
  <2>. DEFINE p == pkt[t]
              saved == IF write_buf = Ack("PUBREC", p.id) THEN write_buf ELSE Corrupt
  <2>1. p \in Packet /\ p.type = "PUBLISH" /\ write_buf \in Packet
    BY <1>9 DEF RecordPubrel, TypeInv, TypeOK, Busy
  <2>2. p.body \in Msg /\ p.id \in 0 .. MaxPacketId
    BY <2>1 DEF Packet
  <2>3. saved \in Packet
    BY <2>1, CorruptIsPacket
  <2>4. AddNode(t, "PUBREL", p.id, saved) \/ UNCHANGED ackVars
    BY <1>9 DEF RecordPubrel
  <2>5. Deliver(p.body) \/ UNCHANGED delivered
    BY <1>9 DEF RecordPubrel
  <2>6. UNCHANGED <<sessVars, lockVars, callVars, iterVars, netVars, accepted, garbled, faults>>
    BY <1>9 DEF RecordPubrel
  <2>7. Finish(t)
    BY <1>9 DEF RecordPubrel
  <2>. HIDE DEF saved, p
  <2>8. AckInv'
    BY <2>2, <2>3, <2>4, TypeParts, AddNodeType, AckSame DEF AckType
  <2>9. HistType'
    BY <2>2, <2>5, <2>6, TypeParts DEF Deliver, HistType
  <2>10. SessType' /\ LockType' /\ CtlType' /\ IterType' /\ NetType'
    BY <2>6, <2>7, TypeParts, SessSame, LockSame, FinishType, IterSame, NetSame
  <2>. QED  BY <2>8, <2>9, <2>10, TypePartsNext
<1>10. CASE HandlePubrec(t)
  <2>. DEFINE id == pkt[t].id
              rel == Ack("PUBREL", id)
  <2>1. pkt[t] \in Packet /\ pkt[t].type = "PUBREC" /\ id \in 0 .. MaxPacketId
    BY <1>10 DEF HandlePubrec, Handling, TypeInv, TypeOK, Packet
  <2>2. rel \in Packet
    BY <2>1, AckIsPacket DEF PacketType
  <2>3. \/ AddNode(t, "PUBCOMP", id, rel) /\ (SendOk(rel) \/ SendFails)
        \/ UNCHANGED <<ackVars, netVars>>
    BY <1>10 DEF HandlePubrec
  <2>4. UNCHANGED <<sessVars, write_lock, pkt, callVars, iterVars, histVars>>
    BY <1>10 DEF HandlePubrec
  <2>5. write_buf' = rel /\ Goto(t, "unrecord")
    BY <1>10 DEF HandlePubrec
  <2>. HIDE DEF id, rel
  <2>6. AckInv'
    BY <2>1, <2>2, <2>3, TypeParts, AddNodeType, AckSame DEF AckType
  <2>7. NetType'
    BY <2>2, <2>3, TypeParts, NetSame, SendOkType, SendFailsType
  <2>8. LockType' /\ CtlType'
    BY <2>1, <2>2, <2>4, <2>5, TypeParts
       DEF LockType, CtlType, Goto, Busy, callVars, PC, LockedPC
  <2>9. SessType' /\ IterType' /\ HistType'
    BY <2>4, TypeParts, SessSame, IterSame, HistSame
  <2>. QED  BY <2>6, <2>7, <2>8, <2>9, TypePartsNext
<1>11. CASE HandlePubrel(t)
  <2>. DEFINE comp == Ack("PUBCOMP", pkt[t].id)
  <2>1. pkt[t] \in Packet /\ pkt[t].type = "PUBREL" /\ pkt[t].id \in 0 .. MaxPacketId
    BY <1>11 DEF HandlePubrel, Handling, TypeInv, TypeOK, Packet
  <2>2. comp \in Packet
    BY <2>1, AckIsPacket DEF PacketType
  <2>3. write_buf' = comp /\ Goto(t, "unrecord") /\ (SendOk(comp) \/ SendFails)
    BY <1>11 DEF HandlePubrel
  <2>4. UNCHANGED <<sessVars, write_lock, ackVars, pkt, callVars, iterVars, histVars>>
    BY <1>11 DEF HandlePubrel
  <2>. HIDE DEF comp
  <2>5. NetType'
    BY <2>2, <2>3, TypeParts, SendOkType, SendFailsType
  <2>6. LockType' /\ CtlType'
    BY <2>1, <2>2, <2>3, <2>4, TypeParts
       DEF LockType, CtlType, Goto, Busy, callVars, PC, LockedPC
  <2>7. SessType' /\ AckInv' /\ IterType' /\ HistType'
    BY <2>4, TypeParts, SessSame, AckSame, IterSame, HistSame
  <2>. QED  BY <2>5, <2>6, <2>7, TypePartsNext
<1>12. CASE Unrecord(t)
  <2>1. CtlType' /\ AckInv'
    BY <1>12, TypeParts, FinishType, UnrecordNodesType DEF Unrecord
  <2>2. SessType' /\ LockType' /\ IterType' /\ NetType' /\ HistType'
    BY <1>12, TypeParts, SessSame, LockSame, IterSame, NetSame, HistSame DEF Unrecord
  <2>. QED  BY <2>1, <2>2, TypePartsNext
<1>13. CASE HandlePingresp(t)
  <2>1. CtlType'
    BY <1>13, TypeParts, FinishType DEF HandlePingresp
  <2>2. SessType'
    BY <1>13, TypeParts DEF HandlePingresp, SetPing, SessType
  <2>3. LockType' /\ AckInv' /\ IterType' /\ NetType' /\ HistType'
    BY <1>13, TypeParts, LockSame, AckSame, IterSame, NetSame, HistSame DEF HandlePingresp
  <2>. QED  BY <2>1, <2>2, <2>3, TypePartsNext
<1>. QED  BY <1>1, <1>2, <1>3, <1>4, <1>5, <1>6, <1>7, <1>8, <1>9, <1>10, <1>11, <1>12,
             <1>13 DEF HandleStep

(* The steps of the yield thread. *)
LEMMA YieldType == ASSUME TypeInv, YieldStep PROVE TypeInv'
<1>0. Yield \in Thread
  BY DEF Thread
<1>1. CASE YieldStart
  BY <1>0, <1>1, MoveType DEF YieldStart, Free, PC, LockedPC
<1>12. CASE YieldSuspend
  <2>1. Goto(Yield, "suspended") \/ Goto(Yield, "dead")
    BY <1>12 DEF YieldSuspend
  <2>2. CtlType'
    BY <1>0, <1>12, <2>1, TypeParts, GotoType DEF YieldSuspend, callVars, Free, PC, LockedPC
  <2>3. HistType'
    BY <1>12, TypeParts DEF YieldSuspend, HistType
  <2>4. SessType' /\ LockType' /\ AckInv' /\ IterType' /\ NetType'
    BY <1>12, TypeParts, SessSame, LockSame, AckSame, IterSame, NetSame DEF YieldSuspend
  <2>. QED  BY <2>2, <2>3, <2>4, TypePartsNext
<1>2. CASE YieldTop
  BY <1>0, <1>2, MoveType DEF YieldTop, Free, PC, LockedPC
<1>11. CASE ReconnectBeaten
  <2>1. IterType'
    BY <1>11, TypeParts DEF ReconnectBeaten, IterType, SessType
  <2>2. SessType' /\ LockType' /\ NetType'
    BY <1>11, TypeParts, SessSame, LockSame, NetSame DEF ReconnectBeaten
  <2>. QED  BY <1>0, <1>11, <2>1, <2>2, StepType DEF ReconnectBeaten, Free, PC, LockedPC
<1>3. CASE ReconnectScan
  <2>1. IterType'
    BY <1>3, TypeParts DEF ReconnectScan, IterType, AckInv
  <2>2. SessType' /\ LockType' /\ NetType'
    BY <1>3, TypeParts, SessSame, LockSame, NetSame DEF ReconnectScan
  <2>. QED  BY <1>0, <1>3, <2>1, <2>2, StepType DEF ReconnectScan, Free, PC, LockedPC
<1>4. ASSUME NEW x \in resub, Resubscribe(x) PROVE TypeInv'
  <2>1. x \in Topic /\ Call("subscribe", x) \in ApiCall /\ Call("subscribe", x).op = "subscribe"
    BY TypeParts DEF IterType, Call, ApiCall
  <2>2. op' = [op EXCEPT ![Yield] = Call("subscribe", x)]
    BY <1>4 DEF Resubscribe
  <2>3. /\ Goto(Yield, "sub_lock") \/ Goto(Yield, "resub")
        /\ UNCHANGED <<pkt, calls>>
    BY <1>4 DEF Resubscribe
  <2>4. CtlType'
    BY <1>0, <2>1, <2>2, <2>3, TypeParts DEF CtlType, Goto, Busy, PC, LockedPC
  <2>5. IterType'
    BY <1>4, TypeParts DEF Resubscribe, IterType
  <2>6. SessType' /\ LockType' /\ AckInv' /\ NetType' /\ HistType'
    BY <1>4, TypeParts, SessSame, LockSame, AckSame, NetSame, HistSame DEF Resubscribe
  <2>. QED  BY <2>4, <2>5, <2>6, TypePartsNext
<1>5. ASSUME NEW S \in SUBSET ack_list, AckListScan(S) PROVE TypeInv'
  <2>1. IterType'
    BY <1>5, TypeParts DEF AckListScan, IterType, AckInv
  <2>2. SessType' /\ LockType' /\ NetType'
    BY <1>5, TypeParts, SessSame, LockSame, NetSame DEF AckListScan
  <2>. QED  BY <1>0, <1>5, <2>1, <2>2, StepType DEF AckListScan, Free, PC, LockedPC
<1>6. ASSUME NEW n \in expired, AckHandlerResend(n) PROVE TypeInv'
  <2>1. n.payload \in Packet
    BY TypeParts DEF IterType, Node
  <2>2. /\ write_buf' = n.payload /\ UNCHANGED write_lock
        /\ SendOk(n.payload) \/ SendFails
        /\ expired' = expired \ {n} /\ UNCHANGED resub
        /\ UNCHANGED <<sessVars, ackVars, pc, pkt, callVars, histVars>>
    BY <1>6 DEF AckHandlerResend
  <2>3. NetType'
    BY <2>1, <2>2, TypeParts, SendOkType, SendFailsType
  <2>4. LockType' /\ IterType' /\ CtlType'
    BY <2>1, <2>2, TypeParts DEF LockType, IterType, CtlType, Busy, callVars
  <2>5. SessType' /\ AckInv' /\ HistType'
    BY <2>2, TypeParts, SessSame, AckSame, HistSame
  <2>. QED  BY <2>3, <2>4, <2>5, TypePartsNext
<1>7. ASSUME NEW n \in expired, AckHandlerDestroy(n) PROVE TypeInv'
  <2>1. AckInv'
    BY <1>7, TypeParts, FS_Subset DEF AckHandlerDestroy, AckInv
  <2>2. IterType' /\ CtlType'
    BY <1>7, TypeParts DEF AckHandlerDestroy, IterType, CtlType, Busy, callVars
  <2>3. SessType' /\ LockType' /\ NetType' /\ HistType'
    BY <1>7, TypeParts, SessSame, LockSame, NetSame, HistSame DEF AckHandlerDestroy
  <2>. QED  BY <2>1, <2>2, <2>3, TypePartsNext
<1>8. CASE AckListScanned
  BY <1>0, <1>8, MoveType DEF AckListScanned, Free, PC, LockedPC
<1>9. CASE CleanSession
  <2>1. AckInv'
    BY <1>9, TypeParts, FS_EmptySet DEF CleanSession, AckInv
  <2>2. SessType' /\ NetType'
    BY <1>9, TypeParts DEF CleanSession, SessType, NetType, ClientState
  <2>3. CtlType'
    BY <1>0, <1>9, TypeParts, GotoType DEF CleanSession, callVars, Free, PC, LockedPC
  <2>4. LockType' /\ IterType' /\ HistType'
    BY <1>9, TypeParts, LockSame, IterSame, HistSame DEF CleanSession
  <2>. QED  BY <2>1, <2>2, <2>3, <2>4, TypePartsNext
<1>10. CASE YieldDestroy
  <2>1. HistType'
    BY <1>10, TypeParts DEF YieldDestroy, HistType
  <2>2. CtlType'
    BY <1>0, <1>10, TypeParts, GotoType DEF YieldDestroy, callVars, Free, PC, LockedPC
  <2>3. SessType' /\ LockType' /\ AckInv' /\ IterType' /\ NetType'
    BY <1>10, TypeParts, SessSame, LockSame, AckSame, IterSame, NetSame DEF YieldDestroy
  <2>. QED  BY <2>1, <2>2, <2>3, TypePartsNext
<1>. QED  BY <1>1, <1>2, <1>3, <1>4, <1>5, <1>6, <1>7, <1>8, <1>9, <1>10,
         <1>11, <1>12 DEF YieldStep

(* A new client is of the right types. *)
LEMMA InitType == Init => TypeInv
<1>1. SUFFICES ASSUME Init PROVE TypeInv
  OBVIOUS
<1>2. SessType /\ IterType /\ NetType /\ HistType
  <2>1. mqtt_thread \in BOOLEAN
    BY <1>1, Zenon DEF Init
  <2>2. client_state \in ClientState /\ packet_id \in 0 .. MaxPacketId
    BY <1>1, BoundAssumption DEF Init, ClientState
  <2>. QED  BY <1>1, <2>1, <2>2 DEF Init, SessType, IterType, NetType, HistType
<1>3. LockType
  BY <1>1, CorruptIsPacket DEF Init, LockType
<1>4. AckInv
  BY <1>1, FS_EmptySet DEF Init, AckInv
<1>5. CtlType
  <2>1. /\ pc \in [Thread -> PC] /\ pkt \in [Thread -> Packet]
        /\ calls \in [Apps -> SUBSET ApiCall]
    BY <1>1, CorruptIsPacket, DataAssumption DEF Init, PC
  <2>2. op \in [Thread -> ApiCall]
    BY <1>1 DEF Init, Call, ApiCall
  <2>3. \A t \in Thread : Busy(t)
    BY <1>1 DEF Init, Busy
  <2>. QED  BY <2>1, <2>2, <2>3 DEF CtlType
<1>. QED  BY <1>2, <1>3, <1>4, <1>5, TypeParts

(* The types are inductive, as far as the client's steps go ... *)
LEMMA ClientType == ASSUME TypeInv, ClientNext PROVE TypeInv'
<1>1. CASE YieldStep
  BY <1>1, YieldType
<1>2. ASSUME NEW t \in Thread, ThreadStep(t) PROVE TypeInv'
  BY <1>2, PublishType, SubscribeType, ConnectType, DisconnectType, HandleType, KeepAliveType
     DEF ThreadStep
<1>. QED  BY <1>1, <1>2 DEF ClientNext

(* ... and if a step of anybody else only changes what is under way. *)
LEMMA OutsideType ==
  ASSUME TypeInv, NetType',
         UNCHANGED <<sessVars, lockVars, ackVars, pc, pkt, callVars, iterVars, histVars>>
  PROVE  TypeInv'
<1>1. CtlType'
  BY TypeParts DEF CtlType, Busy, callVars
<1>2. SessType' /\ LockType' /\ AckInv' /\ IterType' /\ HistType'
  BY TypeParts, SessSame, LockSame, AckSame, IterSame, HistSame
<1>. QED  BY <1>1, <1>2, TypePartsNext

(* So it is when the connection is lost, and when nothing happens. *)
LEMMA LinkDownType == ASSUME TypeInv, LinkDown PROVE TypeInv'
<1>1. NetType'
  BY TypeParts DEF LinkDown, NetType
<1>. QED  BY <1>1, OutsideType DEF LinkDown

(* A stutter keeps the types. *)
LEMMA StutterType == ASSUME TypeInv, UNCHANGED vars PROVE TypeInv'
<1>1. NetType'
  BY TypeParts, NetSame DEF vars
<1>. QED  BY <1>1, OutsideType DEF vars
-----------------------------------------------------------------------------
(* The write lock.  A step either leaves the lock alone and brings nobody   *)
(* into a locked section who does not hold it, or takes it when it is free, *)
(* or gives it back while leaving the section.                              *)

LockInv == TypeInv /\ LockExclusion

(* The lock stays as it is. *)
LEMMA LockKept ==
  ASSUME LockInv, NEW t \in Thread, NEW label, Goto(t, label), UNCHANGED write_lock,
         label \in LockedPC => write_lock = t
  PROVE  LockExclusion'
BY DEF LockInv, TypeInv, TypeOK, LockExclusion, Goto

(* The lock was free: nobody is in a locked section. *)
LEMMA LockTaken ==
  ASSUME LockInv, NEW t \in Thread, NEW label, Goto(t, label), Acquire(t)
  PROVE  LockExclusion'
BY ThreadAssumption DEF LockInv, TypeInv, TypeOK, LockExclusion, Goto, Acquire

(* The holder leaves its section. *)
LEMMA LockGiven ==
  ASSUME LockInv, NEW t \in Thread, NEW label, Goto(t, label), label \notin LockedPC,
         write_lock = t \/ pc[t] \in LockedPC
  PROVE  LockExclusion'
BY DEF LockInv, TypeInv, TypeOK, LockExclusion, Goto

(* Neither the lock nor any thread moves. *)
LEMMA LockUntouched ==
  ASSUME LockInv, UNCHANGED <<pc, write_lock>>
  PROVE  LockExclusion'
BY DEF LockInv, LockExclusion

(* A step that is nothing but a move. *)
LEMMA MoveLock ==
  ASSUME LockInv, NEW t \in Thread, NEW label, Move(t, label),
         label \in LockedPC => write_lock = t
  PROVE  LockExclusion'
BY LockKept DEF Move, lockVars

(* A thread that returns is in no locked section. *)
LEMMA ReturnUnlocked == ASSUME NEW t PROVE (IF t = Yield THEN "resub" ELSE "idle") \notin LockedPC
BY DEF LockedPC

(* A thread sends under the lock, and goes on or gives it back. *)
LEMMA SendOrReturnLock ==
  ASSUME LockInv, NEW t \in Thread, NEW from \in LockedPC, NEW label \in LockedPC,
         SendOrReturn(t, from, label)
  PROVE  LockExclusion'
<1>1. write_lock = t
  BY DEF SendOrReturn, LockInv, LockExclusion
<1>2. \/ Goto(t, label) /\ UNCHANGED write_lock
      \/ Goto(t, IF t = Yield THEN "resub" ELSE "idle")
  BY DEF SendOrReturn, Return
<1>. QED  BY <1>1, <1>2, LockKept, LockGiven, ReturnUnlocked

(* The steps of mqtt_publish, mqtt_subscribe and mqtt_unsubscribe. *)
LEMMA CallsLock ==
  ASSUME LockInv, NEW t \in Thread, PublishStep(t) \/ SubscribeStep(t)
  PROVE  LockExclusion'
<1>1. ASSUME NEW c, NEW label \in {"pub_lock", "sub_lock", "unsub_lock"}, Start(t, c, label)
      PROVE  LockExclusion'
  BY <1>1, LockKept DEF Start, lockVars, LockedPC
<1>2. CASE (\E m \in Msg : PublishCall(t, m)) \/ \E x \in Topic : SubscribeCall(t, x) \/ UnsubscribeCall(t, x)
  BY <1>1, <1>2 DEF PublishCall, SubscribeCall, UnsubscribeCall
<1>3. CASE PublishRefuse(t)
  BY <1>3, MoveLock DEF PublishRefuse, LockedPC
<1>4. CASE PublishLock(t) \/ SubscribeLock(t) \/ UnsubscribeLock(t)
  BY <1>4, LockTaken DEF PublishLock, SubscribeLock, UnsubscribeLock, LockAndSerialize
<1>5. CASE PublishSend(t) \/ SubscribeSend(t) \/ UnsubscribeSend(t)
  BY <1>5, SendOrReturnLock DEF PublishSend, SubscribeSend, UnsubscribeSend, LockedPC
<1>6. CASE PublishRecord(t) \/ SubscribeRecord(t) \/ UnsubscribeRecord(t)
  <2>1. pc[t] \in LockedPC
    BY <1>6 DEF PublishRecord, SubscribeRecord, UnsubscribeRecord, LockedPC
  <2>2. Goto(t, "pub_disc") \/ Goto(t, IF t = Yield THEN "resub" ELSE "idle")
    BY <1>6 DEF PublishRecord, SubscribeRecord, UnsubscribeRecord, Return
  <2>3. "pub_disc" \notin LockedPC
    BY DEF LockedPC
  <2>. QED  BY <2>1, <2>2, <2>3, LockGiven, ReturnUnlocked
<1>7. CASE PublishDisc(t)
  BY <1>7, LockKept, ReturnUnlocked DEF PublishDisc, Return, lockVars
<1>. QED  BY <1>2, <1>3, <1>4, <1>5, <1>6, <1>7 DEF PublishStep, SubscribeStep

(* A thread that leaves mqtt_connect is in no locked section. *)
LEMMA AfterConnectUnlocked == ASSUME NEW t PROVE AfterConnect(t) \notin LockedPC
BY DEF AfterConnect, LockedPC

(* The steps of mqtt_connect. *)
LEMMA ConnectLockExclusion ==
  ASSUME LockInv, NEW t \in Thread, ConnectStep(t)
  PROVE  LockExclusion'
<1>1. CASE ConnectCall(t)
  BY <1>1, LockKept DEF ConnectCall, Start, lockVars, LockedPC
<1>2. CASE ConnectNetwork(t)
  BY <1>2, LockKept DEF ConnectNetwork, lockVars, LockedPC
<1>3. CASE ConnectReturn(t)
  BY <1>3, MoveLock, AfterConnectUnlocked DEF ConnectReturn
<1>4. CASE ConnectLock(t)
  BY <1>4, LockTaken DEF ConnectLock, LockAndSerialize
<1>5. CASE ConnectSend(t)
  <2>1. write_lock = t
    BY <1>5 DEF ConnectSend, LockInv, LockExclusion, LockedPC
  <2>2. (Goto(t, "read") \/ Goto(t, "conn_fail")) /\ UNCHANGED write_lock
    BY <1>5 DEF ConnectSend, lockVars
  <2>. QED  BY <2>1, <2>2, LockKept
<1>6. CASE ConnectTimeout(t) \/ ConnectRefused(t)
  BY <1>6, MoveLock DEF ConnectTimeout, ConnectRefused, Connecting
<1>7. CASE ConnectFail(t)
  BY <1>7, LockGiven, AfterConnectUnlocked DEF ConnectFail, LockedPC
<1>8. CASE ConnectAccepted(t)
  BY <1>8, LockGiven, ReturnUnlocked DEF ConnectAccepted, Accepted, Connecting, Return
<1>9. CASE ConnectCreateThread(t)
  BY <1>9 DEF ConnectCreateThread, Accepted, Connecting, lockVars, LockedPC,
              LockInv, TypeInv, TypeOK, LockExclusion
<1>10. CASE ConnectStoreThread(t)
  BY <1>10, LockUntouched DEF ConnectStoreThread, lockVars
<1>11. CASE ConnectSetState(t)
  BY <1>11 DEF ConnectSetState, Goto, lockVars, LockedPC, LockInv, TypeInv, TypeOK, LockExclusion
<1>13. CASE ConnectStartThread(t)
  BY <1>13 DEF ConnectStartThread, LockedPC, LockInv, TypeInv, TypeOK, LockExclusion
<1>12. CASE ConnectNoThread(t)
  BY <1>12, LockGiven, ReturnUnlocked DEF ConnectNoThread, Accepted, Connecting, Return
<1>. QED  BY <1>1, <1>2, <1>3, <1>4, <1>5, <1>6, <1>7, <1>8, <1>9, <1>10, <1>11, <1>12,
             <1>13 DEF ConnectStep

(* The steps of mqtt_disconnect and mqtt_release. *)
LEMMA DisconnectLockExclusion ==
  ASSUME LockInv, NEW t \in Thread, DisconnectStep(t)
  PROVE  LockExclusion'
<1>1. CASE DisconnectCall(t)
  BY <1>1, LockKept DEF DisconnectCall, Start, lockVars, LockedPC
<1>2. CASE DisconnectLock(t)
  BY <1>2, LockTaken DEF DisconnectLock, LockAndSerialize
<1>3. CASE DisconnectSend(t)
  BY <1>3, LockGiven DEF DisconnectSend, LockedPC
<1>4. CASE DisconnectState(t)
  BY <1>4, LockKept, ReturnUnlocked DEF DisconnectState, Return, lockVars
<1>5. CASE Release(t)
  BY <1>5, LockUntouched DEF Release, lockVars
<1>. QED  BY <1>1, <1>2, <1>3, <1>4, <1>5 DEF DisconnectStep

(* Reading and handling a packet leave the lock as it is. *)
LEMMA HandleLock ==
  ASSUME LockInv, NEW t \in Thread, HandleStep(t)
  PROVE  LockExclusion'
<1>1. /\ UNCHANGED write_lock
      /\ \E label \in {"handle", "keepalive", "scan", "rec_record", "unrecord"} : Goto(t, label)
  BY DEF HandleStep, Read, ReadTimeout, HandleNotConnected, HandleConnack, HandleAck,
         HandleSuback, HandleUnsuback, HandlePublish, RecordPubrel, HandlePubrec,
         HandlePubrel, Unrecord, HandlePingresp, Finish, Move, lockVars
<1>. QED  BY <1>1, LockKept DEF LockedPC

(* mqtt_keep_alive, on its way back to the holder of the lock or to none. *)
LEMMA KeepAliveLock ==
  ASSUME LockInv, NEW t \in Thread, KeepAliveStep(t)
  PROVE  LockExclusion'
<1>1. /\ UNCHANGED write_lock
      /\ \E label \in {Handled(t), HandleError(t), "ka_send", "ka_disc", "clean"} : Goto(t, label)
  BY DEF KeepAliveStep, KeepAliveQuiet, KeepAlivePing, KeepAliveSend, KeepAliveDead,
         KeepAliveDisc, Move, lockVars
<1>2. \A label \in {Handled(t), HandleError(t), "ka_send", "ka_disc", "clean"} :
        label \in LockedPC => write_lock = t
  BY DEF Handled, HandleError, Connecting, LockedPC
<1>. QED  BY <1>1, <1>2, LockKept

(* The steps of the yield thread. *)
LEMMA YieldLock == ASSUME LockInv, YieldStep PROVE LockExclusion'
<1>1. \/ UNCHANGED <<pc, write_lock>>
      \/ /\ UNCHANGED write_lock
         /\ \E label \in {"top", "suspended", "dead", "clean", "read", "conn_begin",
                          "scan_loop", "resub", "sub_lock", "destroy", "start_stop"} : Goto(Yield, label)
  BY DEF YieldStep, YieldStart, YieldSuspend, YieldTop, ReconnectBeaten, ReconnectScan, Resubscribe, AckListScan,
         AckHandlerResend, AckHandlerDestroy, AckListScanned, CleanSession, YieldDestroy,
         Move, lockVars
<1>. QED  BY <1>1, LockKept, LockUntouched DEF LockedPC, Thread

(* The exclusion is inductive, as far as the client's steps go ... *)
LEMMA ClientLock == ASSUME LockInv, ClientNext PROVE LockExclusion'
<1>1. CASE YieldStep
  BY <1>1, YieldLock
<1>2. ASSUME NEW t \in Thread, ThreadStep(t) PROVE LockExclusion'
  BY <1>2, CallsLock, ConnectLockExclusion, DisconnectLockExclusion, HandleLock, KeepAliveLock
     DEF ThreadStep
<1>. QED  BY <1>1, <1>2 DEF ClientNext

(* Nobody has the lock at first. *)
LEMMA LockInit == Init => LockInv
<1>1. Init => LockExclusion
  BY DEF Init, LockExclusion, LockedPC
<1>. QED  BY <1>1, InitType DEF LockInv

=============================================================================

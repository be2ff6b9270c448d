------------------------- MODULE MqttDeliveryProofs -------------------------
(***************************************************************************)
(* What client and server promise together, for every number of threads,   *)
(* messages, topics and connections, as long as the packet identifiers     *)
(* have not wrapped: a message mqtt_publish accepts is kept until the      *)
(* server has it (AcceptedKept), and one of quality of service 2 is handed *)
(* on once (OutboundIsOnce); a message the server may forget was delivered *)
(* to its handler (ForgottenDelivered).                                    *)
(***************************************************************************)
EXTENDS MqttSystemProofs

(* mqtt_get_next_packet_id has not come to where it starts again.           *)
IdsLast == packet_id # MaxPacketId

(* No message is published by two threads. *)
PublishedOnce == \A a, b \in Apps, m \in Msg :
                   Call("publish", m) \in Calls[a] \cap Calls[b] => a = b
-----------------------------------------------------------------------------
(* What a thread is about to send, if it does not publish, is neither       *)
(* PUBLISH nor PUBREL.                                                      *)
SendsPlain == \A t \in Thread : pc[t] \in OtherSend => ~ Speaks(pkt[t])

(* Who publishes after a step did so before, or takes the lock now.         *)
LEMMA PublishingFrom ==
  ASSUME TypeInv, NEW t \in Thread, Frame(t), NEW u \in Thread, Publishing(u)'
  PROVE  (Publishing(u) /\ pkt'[u] = pkt[u]) \/ (u = t /\ PublishLock(t))
BY FramePackets DEF Frame, Publishing

(* It stays so. *)
LEMMA ClientSends == ASSUME TypeInv, SendsPlain, ClientNext PROVE SendsPlain'
<1>1. PICK t \in Thread : Step(t)
  BY ClientSteps
<1>2. Frame(t)
  BY <1>1, StepFrame
<1>3. ASSUME NEW u \in Thread, pc'[u] \in OtherSend PROVE ~ Speaks(pkt'[u])
  BY <1>2, <1>3, FramePackets DEF Frame, SendsPlain, OtherSend
<1>. QED  BY <1>3 DEF SendsPlain
-----------------------------------------------------------------------------
(* What a step of t sends, records, forgets and accepts.  A node keeps the  *)
(* message of t, or bytes that PINGREQ has been written into.               *)
Copy(t) == [pkt[t] EXCEPT !.dup = TRUE]
Saved(t) == [type |-> IF Qos[pkt[t].body] = 1 THEN "PUBACK" ELSE "PUBREC",
             id |-> pkt[t].id, payload |-> IF write_buf = pkt[t] THEN Copy(t) ELSE Corrupt]
Wire(t) ==
  \/ c2s' \in {c2s, << >>}
  \/ \E p \in Packet : /\ c2s' = Append(c2s, p)
                       /\ \/ ~ Speaks(p)
                          \/ pc[t] = "pub_send" /\ p = pkt[t]
                          \/ \E n \in expired : Resent(n) /\ p = n.payload
                          \/ HandlePubrec(t) /\ p = Ack("PUBREL", pkt[t].id)
Records(t) ==
  \A n \in ack_list' \ ack_list :
    \/ n.type \in {"SUBACK", "UNSUBACK"}
    \/ n.type = "PUBREL" /\ ~ Speaks(n.payload)
    \/ HandlePubrec(t) /\ n.type = "PUBCOMP" /\ n.id = pkt[t].id /\ n.payload = Ack("PUBREL", n.id)
    \/ pc[t] = "pub_record" /\ Qos[pkt[t].body] # 0 /\ n = Saved(t)
Forgets(t) ==
  \A n \in ack_list \ ack_list' :
    \/ ~ Resent(n)
    \/ CleanSession \/ Release(t)
    \/ /\ HandleAck(t) \/ Unrecord(t)
       /\ pc[t] \in {"handle", "unrecord"} /\ pkt[t].type = n.type /\ pkt[t].id = n.id
Accepts(t) ==
  /\ garbled \subseteq garbled'
  /\ \A m \in accepted' \ accepted :
       /\ pc[t] = "pub_record" /\ m = pkt[t].body /\ Saved(t) \in ack_list'
       /\ Qos[m] # 0
       /\ Saved(t).payload = Copy(t) \/ m \in garbled'
Numbers(t) == packet_id' \in {packet_id, NextId} \/ Release(t)
Scans == expired' \subseteq expired \cup ack_list
Does(t) == Wire(t) /\ Records(t) /\ Forgets(t) /\ Accepts(t) /\ Receives(t) /\ Numbers(t) /\ Scans

(* What leaves is the packet of t, or no packet of the client's. *)
LEMMA BufferSends ==
  ASSUME TypeInv, NEW t \in Thread, SendOk(InBuffer(t)) \/ SendFails, SendsPlain,
         pc[t] \in OtherSend \cup {"pub_send"}
  PROVE  Wire(t) /\ UNCHANGED s2c
<1>1. InBuffer(t) \in Packet
  BY InBufferType
<1>2. InBuffer(t) = pkt[t] \/ ~ Speaks(InBuffer(t))
  BY CorruptIsPacket DEF InBuffer, Speaks
<1>3. c2s' = c2s \/ c2s' = Append(c2s, InBuffer(t))
  BY DEF SendOk, SendFails, netVars
<1>. QED  BY <1>1, <1>2, <1>3 DEF Wire, SendsPlain, SendOk, SendFails, netVars

(* What the handlers answer is neither PUBLISH nor PUBREL but for PUBREC.   *)
LEMMA AnswerSends ==
  ASSUME TypeInv, NEW t \in Thread, NEW p \in Packet, SendOk(p) \/ SendFails,
         \/ ~ Speaks(p)
         \/ \E n \in expired : Resent(n) /\ p = n.payload
         \/ HandlePubrec(t) /\ p = Ack("PUBREL", pkt[t].id)
  PROVE  Wire(t) /\ UNCHANGED s2c
<1>1. c2s' = c2s \/ c2s' = Append(c2s, p)
  BY DEF SendOk, SendFails, netVars
<1>. QED  BY <1>1 DEF Wire, SendOk, SendFails, netVars

(* A step that changes none of all this. *)
LEMMA QuietDoes ==
  ASSUME NEW t, UNCHANGED <<ack_list, accepted, garbled>>, expired' \subseteq expired \cup ack_list,
         Wire(t), Receives(t), packet_id' \in {packet_id, NextId}
  PROVE  Does(t)
BY DEF Does, Records, Forgets, Accepts, Numbers, Scans

(* Publishing. *)
LEMMA PublishDoes ==
  ASSUME TypeInv, SendsPlain, NEW t \in Thread, PublishStep(t)
  PROVE  Does(t)
<1>1. CASE PublishRecord(t)
  <2>1. /\ pc[t] = "pub_record" /\ UNCHANGED <<c2s, s2c, packet_id, expired>>
        /\ \/ /\ Qos[pkt[t].body] # 0 /\ ack_list' = ack_list \cup {Saved(t)}
              /\ accepted' = accepted \cup {pkt[t].body}
              /\ garbled' = IF Saved(t).payload = Corrupt THEN garbled \cup {pkt[t].body}
                                                          ELSE garbled
           \/ UNCHANGED <<ack_list, accepted, garbled>>
    BY <1>1 DEF PublishRecord, AddNode, Saved, Copy, sessVars, netVars, iterVars, ackVars
  <2>2. Saved(t).payload \in {Copy(t), Corrupt}
    BY DEF Saved
  <2>. HIDE DEF Saved, Copy
  <2>. QED  BY <2>1, <2>2 DEF Does, Wire, Records, Forgets, Accepts, Receives, Numbers, Scans
<1>2. CASE PublishSend(t)
  <2>1. /\ pc[t] = "pub_send" /\ (SendOk(InBuffer(t)) \/ SendFails)
        /\ UNCHANGED <<ack_list, accepted, garbled, expired, packet_id>>
    BY <1>2 DEF PublishSend, SendOrReturn, ackVars, histVars, iterVars, sessVars
  <2>. QED  BY <2>1, BufferSends, QuietDoes DEF Receives
<1>3. CASE (\E m \in Msg : PublishCall(t, m)) \/ PublishRefuse(t) \/ PublishLock(t) \/ PublishDisc(t)
  <2>1. /\ UNCHANGED <<ack_list, accepted, garbled, expired, c2s, s2c>> /\ packet_id' \in {packet_id, NextId}
    BY <1>3 DEF PublishCall, PublishRefuse, PublishLock, PublishDisc, Start, Move,
                LockAndSerialize, ackVars, histVars, iterVars, netVars, sessVars
  <2>. QED  BY <2>1, QuietDoes DEF Wire, Receives
<1>. QED  BY <1>1, <1>2, <1>3 DEF PublishStep

(* Subscribing and unsubscribing. *)
LEMMA SubscribeDoes ==
  ASSUME TypeInv, SendsPlain, NEW t \in Thread, SubscribeStep(t)
  PROVE  Does(t)
<1>1. CASE SubscribeRecord(t) \/ UnsubscribeRecord(t)
  <2>1. /\ UNCHANGED <<c2s, s2c, packet_id, expired, accepted, garbled>>
        /\ ack_list \subseteq ack_list'
        /\ \A n \in ack_list' \ ack_list : n.type \in {"SUBACK", "UNSUBACK"}
    BY <1>1 DEF SubscribeRecord, UnsubscribeRecord, Record, AddNode, sessVars, netVars, iterVars,
                ackVars, histVars
  <2>. QED  BY <2>1 DEF Does, Wire, Records, Forgets, Accepts, Receives, Numbers, Scans
<1>2. CASE SubscribeSend(t) \/ UnsubscribeSend(t)
  <2>1. /\ pc[t] \in OtherSend /\ (SendOk(InBuffer(t)) \/ SendFails)
        /\ UNCHANGED <<ack_list, accepted, garbled, expired, packet_id>>
    BY <1>2 DEF SubscribeSend, UnsubscribeSend, SendOrReturn, OtherSend, ackVars, histVars,
                iterVars, sessVars
  <2>. QED  BY <2>1, BufferSends, QuietDoes DEF Receives
<1>3. CASE \/ \E x \in Topic : SubscribeCall(t, x) \/ UnsubscribeCall(t, x)
           \/ SubscribeLock(t) \/ UnsubscribeLock(t)
  <2>1. /\ UNCHANGED <<ack_list, accepted, garbled, expired, c2s, s2c>> /\ packet_id' \in {packet_id, NextId}
    BY <1>3 DEF SubscribeCall, UnsubscribeCall, SubscribeLock, UnsubscribeLock, Start,
                LockAndSerialize, ackVars, histVars, iterVars, netVars, sessVars
  <2>. QED  BY <2>1, QuietDoes DEF Wire, Receives
<1>. QED  BY <1>1, <1>2, <1>3 DEF SubscribeStep

(* Connecting and disconnecting. *)
LEMMA ConnectDoes ==
  ASSUME TypeInv, SendsPlain, NEW t \in Thread, ConnectStep(t) \/ DisconnectStep(t)
  PROVE  Does(t)
<1>1. CASE ConnectSend(t) \/ DisconnectSend(t)
  <2>1. /\ pc[t] \in OtherSend /\ (SendOk(InBuffer(t)) \/ SendFails)
        /\ UNCHANGED <<ack_list, accepted, garbled, expired, packet_id>>
    BY <1>1 DEF ConnectSend, DisconnectSend, OtherSend, ackVars, histVars, iterVars, sessVars
  <2>. QED  BY <2>1, BufferSends, QuietDoes DEF Receives
<1>2. CASE Release(t)
  <2>1. UNCHANGED <<accepted, garbled, expired, c2s, s2c>> /\ ack_list' = {}
    BY <1>2 DEF Release, histVars, iterVars, netVars
  <2>. QED  BY <1>2, <2>1 DEF Does, Wire, Records, Forgets, Accepts, Receives, Numbers, Scans
<1>3. CASE (ConnectStep(t) \/ DisconnectStep(t)) /\ ~ ConnectSend(t) /\ ~ DisconnectSend(t) /\ ~ Release(t)
  <2>1. /\ UNCHANGED <<ack_list, accepted, garbled, expired, packet_id>>
        /\ (c2s' = << >> /\ s2c' = << >>) \/ UNCHANGED <<c2s, s2c>>
    BY <1>3 DEF ConnectStep, ConnectCall, ConnectNetwork, ConnectReturn, ConnectLock,
        ConnectTimeout, ConnectFail, ConnectAccepted, ConnectUp, ConnectCreateThread,
        ConnectNoThread, ConnectStoreThread, ConnectSetState, ConnectStartThread, ConnectRefused,
        DisconnectStep, DisconnectCall, DisconnectLock, DisconnectState,
        Start, Move, LockAndSerialize, ackVars, histVars, iterVars, netVars, sessVars
  <2>. QED  BY <2>1, QuietDoes DEF Wire, Receives
<1>. QED  BY <1>1, <1>2, <1>3 DEF ConnectStep, DisconnectStep

(* Handling a packet, and keeping alive. *)
LEMMA HandleDoes ==
  ASSUME TypeInv, SendsPlain, NEW t \in Thread,
         HandleStep(t) \/ KeepAliveStep(t)
  PROVE  Does(t)
<1>0. pkt[t].id \in 0 .. MaxPacketId
  BY DEF TypeInv, TypeOK, Packet
<1>1. CASE Read(t)
  <2>1. UNCHANGED <<ack_list, accepted, garbled, expired, c2s, packet_id>>
    BY <1>1 DEF Read, ackVars, histVars, iterVars, sessVars
  <2>. QED  BY <1>1, <2>1, QuietDoes DEF Wire, Receives
<1>2. CASE HandleAck(t) \/ Unrecord(t)
  <2>1. /\ UNCHANGED <<accepted, garbled, expired, c2s, s2c, packet_id>>
        /\ ack_list' = ack_list \ Matching(pkt[t].type, pkt[t].id)
        /\ pc[t] \in {"handle", "unrecord"}
    BY <1>2 DEF HandleAck, Unrecord, UnrecordNodes, Handling, histVars, iterVars, netVars, sessVars
  <2>. QED  BY <1>2, <2>1
            DEF Does, Wire, Records, Forgets, Accepts, Receives, Numbers, Scans, Matching
<1>3. CASE HandleSuback(t) \/ HandleUnsuback(t)
  <2>1. /\ UNCHANGED <<accepted, garbled, expired, c2s, s2c, packet_id>>
        /\ \E type \in {"SUBACK", "UNSUBACK"} : ack_list' = ack_list \ Matching(type, pkt[t].id)
    BY <1>3 DEF HandleSuback, HandleUnsuback, UnrecordNodes, histVars, iterVars, netVars, sessVars
  <2>. QED  BY <2>1
            DEF Does, Wire, Records, Forgets, Accepts, Receives, Numbers, Scans, Matching, Resent
<1>4. CASE HandlePublish(t)
  <2>. DEFINE ack == Ack(IF Qos[pkt[t].body] = 1 THEN "PUBACK" ELSE "PUBREC", pkt[t].id)
  <2>1. /\ UNCHANGED <<ack_list, accepted, garbled, expired, packet_id>>
        /\ UNCHANGED <<c2s, s2c>> \/ SendOk(ack) \/ SendFails
    BY <1>4 DEF HandlePublish, ackVars, histVars, iterVars, netVars, sessVars
  <2>2. ack \in Packet /\ ~ Speaks(ack)
    BY <1>0, AckIsPacket DEF PacketType, Speaks
  <2>. HIDE DEF ack
  <2>. QED  BY <2>1, <2>2, AnswerSends, QuietDoes DEF Wire, Receives
<1>5. CASE RecordPubrel(t)
  <2>1. /\ UNCHANGED <<accepted, garbled, expired, c2s, s2c, packet_id>>
        /\ \/ UNCHANGED ack_list
           \/ \E p : ~ Speaks(p) /\ ack_list' =
                ack_list \cup {[type |-> "PUBREL", id |-> pkt[t].id, payload |-> p]}
    <3>1. ~ Speaks(IF write_buf = Ack("PUBREC", pkt[t].id) THEN write_buf ELSE Corrupt)
      BY DEF Speaks, Ack, Plain, Corrupt
    <3>. QED  BY <1>5, <3>1 DEF RecordPubrel, AddNode, histVars, iterVars, netVars, sessVars, ackVars
  <2>. QED  BY <2>1 DEF Does, Wire, Records, Forgets, Accepts, Receives, Numbers, Scans
<1>6. CASE HandlePubrec(t)
  <2>. DEFINE rel == Ack("PUBREL", pkt[t].id)
  <2>1. /\ UNCHANGED <<accepted, garbled, expired, packet_id>>
        /\ UNCHANGED <<c2s, s2c>> \/ SendOk(rel) \/ SendFails
        /\ \/ UNCHANGED ack_list
           \/ ack_list' = ack_list \cup {[type |-> "PUBCOMP", id |-> pkt[t].id, payload |-> rel]}
    BY <1>6 DEF HandlePubrec, AddNode, histVars, iterVars, netVars, sessVars, ackVars
  <2>2. Wire(t) /\ Receives(t)
    <3>1. rel \in Packet
      BY <1>0, AckIsPacket DEF PacketType
    <3>. HIDE DEF rel
    <3>2. (UNCHANGED <<c2s, s2c>>) => Wire(t) /\ Receives(t)
      BY DEF Wire, Receives
    <3>3. SendOk(rel) \/ SendFails => Wire(t) /\ Receives(t)
      BY <1>6, <3>1, AnswerSends DEF rel, Receives
    <3>. QED  BY <2>1, <3>2, <3>3
  <2>. HIDE DEF rel
  <2>3. Records(t)
    BY <1>6, <2>1 DEF Records, rel
  <2>. QED  BY <2>1, <2>2, <2>3 DEF Does, Forgets, Accepts, Numbers, Scans
<1>7. CASE HandlePubrel(t)
  <2>. DEFINE comp == Ack("PUBCOMP", pkt[t].id)
  <2>1. /\ UNCHANGED <<ack_list, accepted, garbled, expired, packet_id>>
        /\ SendOk(comp) \/ SendFails
    BY <1>7 DEF HandlePubrel, ackVars, histVars, iterVars, netVars, sessVars
  <2>2. comp \in Packet /\ ~ Speaks(comp)
    BY <1>0, AckIsPacket DEF PacketType, Speaks
  <2>. HIDE DEF comp
  <2>. QED  BY <2>1, <2>2, AnswerSends, QuietDoes DEF Receives
<1>8. CASE KeepAliveSend(t)
  <2>1. /\ pc[t] \in OtherSend /\ (SendOk(InBuffer(t)) \/ SendFails)
        /\ UNCHANGED <<ack_list, accepted, garbled, expired, packet_id>>
    BY <1>8 DEF KeepAliveSend, OtherSend, ackVars, histVars, iterVars, sessVars
  <2>. QED  BY <2>1, BufferSends, QuietDoes DEF Receives
<1>9. CASE \/ ReadTimeout(t) \/ HandleNotConnected(t) \/ HandleConnack(t) \/ HandlePingresp(t)
           \/ KeepAliveQuiet(t) \/ KeepAlivePing(t) \/ KeepAliveDead(t) \/ KeepAliveDisc(t)
  <2>1. UNCHANGED <<ack_list, accepted, garbled, expired, c2s, s2c, packet_id>>
    BY <1>9 DEF ReadTimeout, HandleNotConnected, HandleConnack, HandlePingresp, KeepAliveQuiet,
         KeepAlivePing, KeepAliveDead, KeepAliveDisc, Move, ackVars, histVars, iterVars, netVars,
         sessVars
  <2>. QED  BY <2>1, QuietDoes DEF Wire, Receives
<1>. QED  BY <1>1, <1>2, <1>3, <1>4, <1>5, <1>6, <1>7, <1>8, <1>9 DEF HandleStep, KeepAliveStep

(* The loop of the yield thread. *)
LEMMA YieldDoes == ASSUME TypeInv, YieldStep PROVE Does(Yield)
<1>1. Yield \in Thread
  BY DEF Thread
<1>2. CASE \E n \in expired : AckHandlerResend(n)
  <2>1. PICK n \in expired : AckHandlerResend(n)
    BY <1>2
  <2>2. /\ UNCHANGED <<ack_list, accepted, garbled, packet_id>> /\ expired' \subseteq expired
        /\ Resent(n) /\ (SendOk(n.payload) \/ SendFails)
    BY <2>1 DEF AckHandlerResend, ackVars, histVars, sessVars
  <2>3. n.payload \in Packet
    BY DEF TypeInv, TypeOK, Node
  <2>4. Wire(Yield) /\ UNCHANGED s2c
    <3>. DEFINE p == n.payload
    <3>1. p \in Packet /\ (SendOk(p) \/ SendFails) /\ \E k \in expired : Resent(k) /\ p = k.payload
      BY <2>2, <2>3
    <3>. HIDE DEF p
    <3>. QED  BY <1>1, <3>1, AnswerSends
  <2>. QED  BY <2>2, <2>4, QuietDoes DEF Receives
<1>3. CASE (\E n \in expired : AckHandlerDestroy(n)) \/ CleanSession
  <2>1. /\ UNCHANGED <<accepted, garbled, packet_id>> /\ expired' \subseteq expired
        /\ (c2s' = << >> /\ s2c' = << >>) \/ UNCHANGED <<c2s, s2c>>
        /\ ack_list' \subseteq ack_list
        /\ CleanSession \/ \A n \in ack_list \ ack_list' : ~ Resent(n)
    BY <1>3 DEF AckHandlerDestroy, CleanSession, histVars, iterVars, sessVars, netVars
  <2>. QED  BY <2>1 DEF Does, Wire, Records, Forgets, Accepts, Receives, Numbers, Scans
<1>4. CASE YieldStep /\ ~ CleanSession /\ ~ \E n \in expired : AckHandlerResend(n) \/ AckHandlerDestroy(n)
  <2>1. /\ UNCHANGED <<ack_list, accepted, garbled, packet_id, c2s, s2c>>
        /\ expired' \subseteq expired \cup ack_list
    BY <1>4 DEF YieldStep, YieldStart, YieldSuspend, YieldTop, ReconnectBeaten, ReconnectScan, Resubscribe,
         AckListScan, AckListScanned, YieldDestroy, Move, histVars, iterVars, sessVars, netVars,
         ackVars
  <2>. QED  BY <2>1, QuietDoes DEF Wire, Receives
<1>. QED  BY <1>2, <1>3, <1>4 DEF YieldStep

(* Together. *)
LEMMA StepDoes ==
  ASSUME TypeInv, SendsPlain, NEW t \in Thread, Step(t)
  PROVE  Does(t)
BY PublishDoes, SubscribeDoes, ConnectDoes, HandleDoes, YieldDoes DEF Step, ThreadStep
-----------------------------------------------------------------------------
(* Where a message that was published is, under its identifier: under way,  *)
(* kept for retransmission, or with the thread that publishes it.           *)
Ids == 0 .. MaxPacketId
IsPub(p, i, m) == p.type = "PUBLISH" /\ p.id = i /\ p.body = m
OnWire(i, m) == \E j \in 1 .. Len(c2s) : IsPub(c2s[j], i, m)
InNodes(i, m) == \E n \in ack_list \cup expired : Resent(n) /\ IsPub(n.payload, i, m)
AtThread(i, m) == \E t \in Thread : Publishing(t) /\ IsPub(pkt[t], i, m)
Bears(i, m) == OnWire(i, m) \/ InNodes(i, m) \/ AtThread(i, m)

(* The identifier is not one that is still to be given. *)
Used(i) == i <= packet_id \/ Zeroed

(* A reply of the server to a PUBLISH of identifier i. *)
IsReply(p, i) == p.type \in {"PUBACK", "PUBREC"} /\ p.id = i
Acked(i) == \/ \E j \in 1 .. Len(s2c) : IsReply(s2c[j], i)
            \/ \E t \in Thread : pc[t] \in {"handle", "unrecord"} /\ IsReply(pkt[t], i)

(* A node keeps the packet it awaits the reply to, or garbled bytes.        *)
Fits(n) ==
  /\ n.type \in {"PUBACK", "PUBREC"} /\ n.payload # Corrupt =>
       /\ n.payload.type = "PUBLISH" /\ n.payload.id = n.id
       /\ Qos[n.payload.body] = IF n.type = "PUBACK" THEN 1 ELSE 2
  /\ n.type = "PUBCOMP" => n.payload = Ack("PUBREL", n.id)
  /\ n.type = "PUBREL" => ~ Speaks(n.payload)
NodesFit == \A n \in ack_list \cup expired : Fits(n)
(* No identifier is under way that was not given; only quality 0 has none.  *)
Known == \A i \in Ids, m \in Msg : Bears(i, m) => Used(i) /\ (i = 0 <=> Qos[m] = 0)
(* An identifier stands for one message.                                    *)
OneMessage == \A i \in Ids \ {0}, m, k \in Msg : Bears(i, m) /\ Bears(i, k) => m = k
(* What is acknowledged the server has.                                     *)
AckedHas == \A i \in Ids : Acked(i) => /\ i # 0 /\ Used(i)
                                       /\ \A m \in Msg : Bears(i, m) => m \in b_has
(* What is accepted is kept, under its identifier.                          *)
Keeps(m) == \E n \in Unanswered : IsPub(n.payload, n.id, m)
NothingLost == \A m \in accepted \ garbled : m \in b_has \/ Keeps(m) \/ Cleaned
Held == NodesFit /\ Known /\ OneMessage /\ AckedHas /\ NothingLost

(* The thread gives its message an identifier. *)
NewId(m) == IF Qos[m] = 0 THEN 0 ELSE NextId
Gives(t, i, m) == PublishLock(t) /\ m = op[t].arg /\ i = NewId(m)

(* Where a message is after a step it was before, but that of the thread    *)
(* that gives it its identifier.                                            *)
LEMMA BearsFrom ==
  ASSUME TypeInv, NEW t \in Thread, Frame(t), Does(t), NEW i, NEW m, Bears(i, m)'
  PROVE  Bears(i, m) \/ Gives(t, i, m)
<1>1. CASE OnWire(i, m)'
  <2>1. c2s \in Seq(Packet)
    BY DEF TypeInv, TypeOK
  <2>2. CASE c2s' \in {c2s, << >>}
    BY <1>1, <2>2 DEF OnWire, Bears
  <2>3. ASSUME NEW p \in Packet, c2s' = Append(c2s, p), ~ OnWire(i, m)
        PROVE  IsPub(p, i, m)
    BY <1>1, <2>1, <2>3 DEF OnWire
  <2>4. ASSUME NEW p \in Packet, c2s' = Append(c2s, p), IsPub(p, i, m),
               \/ ~ Speaks(p)
               \/ pc[t] = "pub_send" /\ p = pkt[t]
               \/ \E n \in expired : Resent(n) /\ p = n.payload
               \/ HandlePubrec(t) /\ p = Ack("PUBREL", pkt[t].id)
        PROVE  Bears(i, m)
    <3>1. Speaks(p)
      BY <2>4 DEF IsPub, Speaks
    <3>2. p # Ack("PUBREL", pkt[t].id)
      BY <2>4 DEF IsPub, Ack, Plain
    <3>3. pc[t] = "pub_send" /\ p = pkt[t] => AtThread(i, m)
      BY <2>4 DEF AtThread, Publishing
    <3>. QED  BY <2>4, <3>1, <3>2, <3>3 DEF Bears, InNodes
  <2>5. Wire(t)
    BY DEF Does
  <2>. QED  BY <2>2, <2>3, <2>4, <2>5 DEF Wire, Bears
<1>2. CASE InNodes(i, m)'
  <2>1. PICK n \in ack_list' \cup expired' : Resent(n) /\ IsPub(n.payload, i, m)
    BY <1>2 DEF InNodes, Resent, IsPub
  <2>2. CASE n \in ack_list \cup expired
    BY <2>1, <2>2 DEF Bears, InNodes
  <2>3. CASE n \in ack_list' \ ack_list
    <3>1. n.payload.type = "PUBLISH" /\ Speaks(n.payload)
      BY <2>1 DEF IsPub, Speaks
    <3>2. n.type # "SUBACK" /\ n.type # "UNSUBACK"
      BY <2>1 DEF Resent
    <3>3. n.payload # Ack("PUBREL", n.id)
      BY <3>1 DEF Ack, Plain
    <3>4. pc[t] = "pub_record" /\ n = Saved(t)
      BY <2>3, <3>1, <3>2, <3>3 DEF Does, Records
    <3>5. pkt[t] \in Packet
      BY DEF TypeInv, TypeOK
    <3>6. IsPub(pkt[t], i, m)
      BY <2>1, <3>4, <3>5 DEF Saved, Copy, IsPub, Packet, Corrupt, Ack, Plain
    <3>. QED  BY <3>4, <3>6 DEF Bears, AtThread, Publishing
  <2>. QED  BY <2>1, <2>2, <2>3 DEF Does, Scans
<1>3. CASE AtThread(i, m)'
  <2>1. PICK u \in Thread : Publishing(u)' /\ IsPub(pkt'[u], i, m)
    BY <1>3 DEF AtThread, IsPub
  <2>2. CASE Publishing(u) /\ pkt'[u] = pkt[u]
    BY <2>1, <2>2 DEF Bears, AtThread
  <2>3. CASE u = t /\ PublishLock(t)
    <3>1. pkt'[t] = Plain("PUBLISH", NewId(op[t].arg), op[t].arg)
      BY <2>3 DEF PublishLock, LockAndSerialize, NewId, TypeInv, TypeOK
    <3>. QED  BY <2>1, <2>3, <3>1 DEF Gives, IsPub, Plain
  <2>. QED  BY <2>1, <2>2, <2>3, PublishingFrom
<1>. QED  BY <1>1, <1>2, <1>3 DEF Bears

(* No step of the client makes up a reply. *)
LEMMA AckedFrom ==
  ASSUME TypeInv, NEW t \in Thread, Frame(t), Does(t), NEW i, Acked(i)'
  PROVE  Acked(i)
<1>1. s2c \in Seq(Packet)
  BY DEF TypeInv, TypeOK
<1>2. CASE \E j \in 1 .. Len(s2c') : IsReply(s2c'[j], i)
  <2>1. CASE s2c' \in {s2c, << >>}
    BY <1>2, <2>1 DEF Acked
  <2>2. CASE Read(t)
    <3>1. s2c # << >> /\ s2c' = Tail(s2c)
      BY <2>2 DEF Read
    <3>. QED  BY <1>1, <1>2, <3>1 DEF Acked
  <2>. QED  BY <2>1, <2>2 DEF Does, Receives
<1>3. ASSUME NEW u \in Thread, pc'[u] \in {"handle", "unrecord"}, IsReply(pkt'[u], i)
      PROVE  Acked(i)
  <2>1. CASE u # t
    <3>1. pc'[u] = pc[u] /\ pkt'[u] = pkt[u]
      BY <1>3, <2>1, FramePackets DEF Frame
    <3>. QED  BY <1>3, <3>1 DEF Acked
  <2>2. CASE pc[t] = "handle" /\ UNCHANGED pkt /\ u = t
    BY <1>3, <2>2 DEF Acked
  <2>3. CASE Read(t) /\ u = t
    <3>1. s2c # << >> /\ pkt'[t] = s2c[1] /\ 1 \in 1 .. Len(s2c)
      BY <1>1, <2>3 DEF Read, TypeInv, TypeOK
    <3>. QED  BY <1>3, <2>3, <3>1 DEF Acked
  <2>. QED  BY <1>3, <2>1, <2>2, <2>3 DEF Frame
<1>4. \/ \E j \in 1 .. Len(s2c') : IsReply(s2c'[j], i)
      \/ \E u \in Thread : pc'[u] \in {"handle", "unrecord"} /\ IsReply(pkt'[u], i)
  BY DEF Acked, IsReply
<1>. QED  BY <1>2, <1>3, <1>4

(* An identifier that was given stays so, until they wrap ... *)
LEMMA UsedStays ==
  ASSUME IdsLast, TypeInv, NEW t \in Thread, Numbers(t), Release(t) => Zeroed',
         Zeroed => Zeroed', NEW i \in Ids, Used(i)
  PROVE  Used(i)'
<1>1. packet_id \in Int /\ NextId = packet_id + 1 /\ i \in Int
  BY BoundAssumption DEF TypeInv, TypeOK, IdsLast, NextId, Ids
<1>2. i <= packet_id => i <= NextId
  BY <1>1
<1>. QED  BY <1>2 DEF Used, Numbers

(* ... and the one given next was not.                                      *)
LEMMA GivesNew ==
  ASSUME IdsLast, TypeInv, NEW t \in Thread, NEW i, NEW m, Gives(t, i, m)
  PROVE  /\ i \in Ids /\ m \in Msg /\ (i = 0 <=> Qos[m] = 0)
         /\ Used(i)' /\ (i # 0 => ~ Used(i))
<1>1. pc[t] = "pub_lock" /\ m \in Msg
  BY DEF Gives, PublishLock, TypeInv, TypeOK, Busy, ApiCall
<1>2. ~ Zeroed
  BY <1>1 DEF Zeroed, Gone, Thread
<1>3. packet_id \in Nat /\ NextId = packet_id + 1 /\ NextId \in 1 .. MaxPacketId
  BY NextIdType DEF TypeInv, TypeOK, IdsLast, NextId
<1>4. packet_id' = IF Qos[m] = 0 THEN packet_id ELSE NextId
  BY DEF Gives, PublishLock
<1>5. CASE Qos[m] = 0
  <2>1. i = 0 /\ packet_id' = packet_id
    BY <1>4, <1>5 DEF Gives, NewId
  <2>. QED  BY <1>1, <1>3, <1>5, <2>1, BoundAssumption DEF Used, Ids
<1>6. CASE Qos[m] # 0
  <2>1. i = NextId /\ packet_id' = NextId
    BY <1>4, <1>6 DEF Gives, NewId
  <2>2. i \in Ids /\ i # 0 /\ i <= packet_id' /\ ~ (i <= packet_id)
    BY <1>3, <2>1 DEF Ids
  <2>. QED  BY <1>1, <1>2, <1>6, <2>2 DEF Used
<1>. QED  BY <1>5, <1>6

(* The nodes a step adds keep their message. *)
LEMMA FitsStays ==
  ASSUME TypeInv, NEW t \in Thread, Does(t), NodesFit
  PROVE  NodesFit'
<1>. SUFFICES ASSUME NEW n \in ack_list' \cup expired' PROVE Fits(n)
  BY DEF NodesFit, Fits, Speaks
<1>1. CASE n \in ack_list \cup expired
  BY <1>1 DEF NodesFit
<1>2. CASE n \in ack_list' \ ack_list
  <2>1. CASE pc[t] = "pub_record" /\ n = Saved(t) /\ Qos[pkt[t].body] # 0
    <3>1. pkt[t] \in Packet /\ pkt[t].type = "PUBLISH"
      BY <2>1 DEF TypeInv, TypeOK, Busy
    <3>2. pkt[t].body \in Msg /\ Qos[pkt[t].body] \in {1, 2}
      BY <2>1, <3>1, DataAssumption DEF Packet
    <3>3. /\ n.type = IF Qos[pkt[t].body] = 1 THEN "PUBACK" ELSE "PUBREC"
          /\ n.id = pkt[t].id /\ n.payload \in {Copy(t), Corrupt}
      BY <2>1 DEF Saved
    <3>4. n.payload # Corrupt => /\ n.payload.type = "PUBLISH" /\ n.payload.id = pkt[t].id
                                 /\ n.payload.body = pkt[t].body
      BY <3>1, <3>3 DEF Copy, Packet
    <3>. QED  BY <3>2, <3>3, <3>4 DEF Fits
  <2>. QED  BY <1>2, <2>1 DEF Does, Records, Fits
<1>. QED  BY <1>1, <1>2 DEF Does, Scans

(* What is accepted is kept: the node is added with it, and goes when the   *)
(* server is known to have it, or with the session.                         *)
LEMMA AcceptedStays ==
  ASSUME SystemTypeInv, NEW t \in Thread, Frame(t), Does(t), UNCHANGED peer, Held,
         Cleaned => Cleaned', Release(t) => Cleaned', CleanSession => Cleaned'
  PROVE  NothingLost'
<1>. SUFFICES ASSUME NEW m \in accepted' \ garbled', ~ Cleaned'
              PROVE  m \in b_has \/ Keeps(m)'
  BY DEF NothingLost, b_has, Keeps, IsPub
<1>1. CASE m \in accepted
  <2>1. m \notin garbled
    BY DEF Does, Accepts
  <2>2. m \in b_has \/ Keeps(m)
    BY <1>1, <2>1 DEF Held, NothingLost
  <2>3. ASSUME NEW n \in Unanswered, IsPub(n.payload, n.id, m), n \notin ack_list'
        PROVE  m \in b_has
    <3>1. n \in ack_list /\ n.type \in {"PUBACK", "PUBREC"} /\ Resent(n)
      BY DEF Unanswered, Resent
    <3>2. pc[t] \in {"handle", "unrecord"} /\ pkt[t].type = n.type /\ pkt[t].id = n.id
      BY <2>3, <3>1 DEF Does, Forgets
    <3>3. n.id \in Ids /\ m \in Msg
      BY <1>1, <3>1 DEF SystemTypeInv, TypeInv, TypeOK, Node, Ids
    <3>4. Acked(n.id)
      BY <3>1, <3>2 DEF Acked, IsReply
    <3>5. Bears(n.id, m)
      BY <2>3, <3>1 DEF Bears, InNodes
    <3>. QED  BY <3>3, <3>4, <3>5 DEF Held, AckedHas
  <2>4. ASSUME NEW n \in Unanswered, n \in ack_list' PROVE n \in Unanswered'
    BY <2>4 DEF Unanswered
  <2>. QED  BY <2>2, <2>3, <2>4 DEF Keeps, IsPub
<1>2. CASE m \notin accepted
  <2>1. /\ pc[t] = "pub_record" /\ m = pkt[t].body
        /\ Saved(t) \in ack_list' /\ Saved(t).payload = Copy(t)
    BY <1>2 DEF Does, Accepts
  <2>2. pkt[t] \in Packet /\ pkt[t].type = "PUBLISH"
    BY <2>1 DEF SystemTypeInv, TypeInv, TypeOK, Busy
  <2>3. IsPub(Copy(t), pkt[t].id, m)
    BY <2>1, <2>2 DEF Copy, IsPub, Packet
  <2>4. Saved(t).type \in {"PUBACK", "PUBREC"} /\ Saved(t).id = pkt[t].id
    BY DEF Saved
  <2>. HIDE DEF Saved, Copy
  <2>. QED  BY <2>1, <2>3, <2>4 DEF Unanswered, Keeps, IsPub
<1>. QED  BY <1>1, <1>2

(* A step of the client keeps all that. *)
LEMMA ClientHolds ==
  ASSUME IdsLast, SystemTypeInv, NEW t \in Thread, Frame(t), Does(t), UNCHANGED peer, Held,
         Cleaned => Cleaned', Zeroed => Zeroed', Release(t) => Cleaned' /\ Zeroed',
         CleanSession => Cleaned'
  PROVE  Held'
<1>1. TypeInv
  BY DEF SystemTypeInv
<1>2. NodesFit' /\ NothingLost'
  BY <1>1, FitsStays, AcceptedStays DEF Held
<1>3. \A i \in Ids : Used(i) => Used(i)'
  BY <1>1, UsedStays DEF Does
<1>4. \A i, m : Bears(i, m)' => Bears(i, m) \/ Gives(t, i, m)
  BY <1>1, BearsFrom
<1>5. \A i, m : Gives(t, i, m) => (i = 0 <=> Qos[m] = 0) /\ Used(i)' /\ (i # 0 => ~ Used(i))
  BY <1>1, GivesNew
<1>6. \A i : Acked(i)' => Acked(i)
  BY <1>1, AckedFrom
<1>7. Known'
  BY <1>3, <1>4, <1>5, Zenon DEF Held, Known
<1>8. ASSUME NEW i \in Ids \ {0}, NEW m \in Msg, NEW k \in Msg, Bears(i, m)', Bears(i, k)'
      PROVE  m = k
  <2>1. CASE Bears(i, m) /\ Bears(i, k)
    BY <2>1 DEF Held, OneMessage
  <2>2. Gives(t, i, m) /\ Gives(t, i, k) => m = k
    BY DEF Gives
  <2>3. Bears(i, m) \/ Bears(i, k) => Used(i)
    BY DEF Held, Known
  <2>4. Gives(t, i, m) \/ Gives(t, i, k) => ~ Used(i)
    BY <1>5
  <2>. QED  BY <1>4, <1>8, <2>1, <2>2, <2>3, <2>4
<1>9. ASSUME NEW i \in Ids, Acked(i)'
      PROVE  i # 0 /\ Used(i)' /\ \A m \in Msg : Bears(i, m)' => m \in b_has
  <2>1. i # 0 /\ Used(i) /\ \A m \in Msg : Bears(i, m) => m \in b_has
    BY <1>6, <1>9 DEF Held, AckedHas
  <2>2. \A m : ~ Gives(t, i, m)
    BY <1>5, <2>1
  <2>. QED  BY <1>3, <1>4, <2>1, <2>2
<1>10. OneMessage' /\ AckedHas'
  BY <1>8, <1>9 DEF OneMessage, AckedHas, b_has
<1>. QED  BY <1>2, <1>7, <1>10 DEF Held

(* p is the reply to the PUBLISH that is the first packet under way.        *)
Replies(p) == /\ Head(c2s) \in Packet /\ Head(c2s).type = "PUBLISH" /\ c2s # << >>
              /\ Qos[Head(c2s).body] # 0 /\ p.id = Head(c2s).id
              /\ Head(c2s).body \in peer'.has

(* The server takes packets in their order, forgets no message, and         *)
(* acknowledges those it has.                                               *)
LEMMA ServerReplies ==
  ASSUME SystemTypeInv, ServerWorks
  PROVE  /\ c2s' = c2s \/ (c2s # << >> /\ c2s' = Tail(c2s))
         /\ peer.has \subseteq peer'.has
         /\ \/ s2c' = s2c
            \/ \E p : s2c' = Append(s2c, p) /\ (p.type \notin {"PUBACK", "PUBREC"} \/ Replies(p))
<1>1. PeerType
  BY DEF SystemTypeInv
<1>2. CASE ServerPublish
  <2>1. /\ c2s # << >> /\ c2s' = Tail(c2s) /\ Head(c2s).type = "PUBLISH"
        /\ peer'.has = peer.has \cup {Head(c2s).body}
        /\ s2c' = s2c
           \/ (/\ Qos[Head(c2s).body] # 0
               /\ \E p : s2c' = Append(s2c, p) /\ p.id = Head(c2s).id)
    BY <1>1, <1>2 DEF ServerPublish, Takes, Answer, NoAnswer, Ack, Plain, PeerType, b_has
  <2>2. Head(c2s) \in Packet
    BY <2>1 DEF SystemTypeInv, TypeInv, TypeOK
  <2>. QED  BY <2>1, <2>2 DEF Replies
<1>3. CASE ServerConnect \/ ServerSubscribe \/ ServerUnsubscribe \/ ServerPing \/ ServerPubrel
  <2>. DEFINE Ps == {Plain("CONNACK", 0, "yes"), Plain("SUBACK", Head(c2s).id, "yes"),
                    Ack("UNSUBACK", Head(c2s).id), Ack("PINGRESP", 0),
                    Ack("PUBCOMP", Head(c2s).id)}
  <2>1. c2s # << >> /\ c2s' = Tail(c2s) /\ \E p \in Ps : s2c' = Append(s2c, p)
    BY <1>3 DEF ServerConnect, ServerSubscribe, ServerUnsubscribe, ServerPing, ServerPubrel,
                Takes, Answer
  <2>2. \A p \in Ps : p.type \notin {"PUBACK", "PUBREC"}
    BY DEF Ack, Plain
  <2>3. peer'.has = peer.has
    BY <1>1, <1>3 DEF ServerConnect, ServerSubscribe, ServerUnsubscribe, ServerPing, ServerPubrel,
                      PeerType
  <2>. HIDE DEF Ps
  <2>. QED  BY <2>1, <2>2, <2>3
<1>4. CASE ServerAcked
  <2>1. c2s # << >> /\ c2s' = Tail(c2s) /\ peer'.has = peer.has /\ s2c' = s2c
    BY <1>1, <1>4 DEF ServerAcked, Takes, NoAnswer, PeerType
  <2>. QED  BY <2>1
<1>5. CASE \E m \in ServerMsg : ServerSend(m)
  <2>1. c2s' = c2s /\ peer'.has = peer.has
        /\ \E p : s2c' = Append(s2c, p) /\ p.type \notin {"PUBACK", "PUBREC"}
    BY <1>1, <1>5 DEF ServerSend, Ack, Plain, PeerType
  <2>. QED  BY <2>1
<1>. QED  BY <1>2, <1>3, <1>4, <1>5 DEF ServerWorks

(* With the client where it was, and less under way, less is borne.         *)
LEMMA BearsFewer ==
  ASSUME SystemTypeInv, UNCHANGED <<ack_list, expired, pc, pkt>>,
         c2s' \in {c2s, << >>} \/ (c2s # << >> /\ c2s' = Tail(c2s)),
         NEW i, NEW m, Bears(i, m)'
  PROVE  Bears(i, m)
<1>1. c2s \in Seq(Packet)
  BY DEF SystemTypeInv, TypeInv, TypeOK
<1>2. OnWire(i, m)' => OnWire(i, m)
  BY <1>1 DEF OnWire
<1>3. InNodes(i, m)' = InNodes(i, m) /\ AtThread(i, m)' = AtThread(i, m)
  BY DEF InNodes, AtThread, Publishing
<1>. QED  BY <1>2, <1>3 DEF Bears

(* What is borne by the first packet under way, is borne. *)
LEMMA HeadBears ==
  ASSUME SystemTypeInv, c2s # << >>, Head(c2s).type = "PUBLISH"
  PROVE  Bears(Head(c2s).id, Head(c2s).body)
<1>1. c2s \in Seq(Packet)
  BY DEF SystemTypeInv, TypeInv, TypeOK
<1>2. 1 \in 1 .. Len(c2s) /\ Head(c2s) = c2s[1]
  BY <1>1
<1>. QED  BY <1>2 DEF Bears, OnWire, IsPub

(* The steps outside the client keep all that. *)
LEMMA ServerHolds ==
  ASSUME SystemTypeInv, ServerWorks \/ LinkDown \/ UNCHANGED vars, Held
  PROVE  Held'
<1>1. UNCHANGED <<ack_list, expired, pc, pkt, packet_id, calls, accepted, garbled, faults>>
  BY ServerApart DEF LinkDown, vars, sessVars, ackVars, iterVars, callVars, histVars
<1>2. /\ c2s' \in {c2s, << >>} \/ (c2s # << >> /\ c2s' = Tail(c2s))
      /\ peer.has \subseteq peer'.has
      /\ \/ s2c' \in {s2c, << >>}
         \/ \E p : s2c' = Append(s2c, p) /\ (p.type \notin {"PUBACK", "PUBREC"} \/ Replies(p))
  BY ServerReplies DEF LinkDown, vars, netVars
<1>3. \A i, m : Bears(i, m)' => Bears(i, m)
  BY <1>1, <1>2, BearsFewer
<1>4. \A i : Used(i)' = Used(i)
  BY <1>1 DEF Used, Zeroed, Gone
<1>5. ASSUME NEW i \in Ids, Acked(i)', ~ Acked(i)
      PROVE  \E p : Replies(p) /\ p.id = i
  <2>1. s2c \in Seq(Packet)
    BY DEF SystemTypeInv, TypeInv, TypeOK
  <2>2. \E j \in 1 .. Len(s2c') : IsReply(s2c'[j], i)
    BY <1>1, <1>5 DEF Acked
  <2>3. s2c' \notin {s2c, << >>}
    BY <1>5, <2>2 DEF Acked
  <2>4. PICK p : s2c' = Append(s2c, p) /\ (p.type \notin {"PUBACK", "PUBREC"} \/ Replies(p))
    BY <1>2, <2>3
  <2>5. IsReply(p, i)
    BY <1>5, <2>1, <2>2, <2>4 DEF Acked
  <2>. QED  BY <2>4, <2>5 DEF IsReply
<1>6. ASSUME NEW i \in Ids, Acked(i)'
      PROVE  i # 0 /\ Used(i)' /\ \A m \in Msg : Bears(i, m)' => m \in peer'.has
  <2>1. CASE Acked(i)
    BY <1>2, <1>3, <1>4, <2>1 DEF Held, AckedHas, b_has
  <2>2. CASE ~ Acked(i)
    <3>. DEFINE k == Head(c2s).body
    <3>1. PICK p : Replies(p) /\ p.id = i
      BY <1>5, <1>6, <2>2
    <3>2. Bears(i, k) /\ Qos[k] # 0 /\ k \in peer'.has
      BY <3>1, HeadBears DEF Replies
    <3>3. k \in Msg
      BY <3>1 DEF Replies, Packet
    <3>. HIDE DEF k
    <3>4. i # 0 /\ Used(i)
      BY <3>2, <3>3 DEF Held, Known
    <3>5. \A m \in Msg : Bears(i, m) => m = k
      BY <3>2, <3>3, <3>4 DEF Held, OneMessage
    <3>. QED  BY <1>3, <1>4, <3>2, <3>4, <3>5
  <2>. QED  BY <2>1, <2>2
<1>7. NodesFit' /\ NothingLost'
  BY <1>1, <1>2 DEF Held, NodesFit, Fits, Speaks, NothingLost, Keeps, IsPub, Unanswered,
                    Cleaned, b_has
<1>8. Known' /\ OneMessage'
  BY <1>3, <1>4, Zenon DEF Held, Known, OneMessage
<1>9. AckedHas'
  BY <1>6 DEF AckedHas, b_has
<1>. QED  BY <1>7, <1>8, <1>9 DEF Held

(* The inductive invariant. *)
KeptInv == /\ SystemTypeInv /\ LockExclusion /\ Control
           /\ SendsPlain /\ Held

(* Nothing is published at first. *)
LEMMA KeptInit == SystemInit => KeptInv
<1>. SUFFICES ASSUME SystemInit PROVE KeptInv
  OBVIOUS
<1>1. SystemTypeInv /\ LockExclusion
  BY SystemTypeInit, LockInit DEF SystemInit, LockInv
<1>2. /\ \A t \in Thread : pc[t] \in {"none", "idle"}
      /\ c2s = << >> /\ s2c = << >> /\ ack_list = {} /\ expired = {} /\ accepted = {}
      /\ client_state = "INITIALIZED" /\ faults = {}
      /\ Yield \in Thread /\ pc[Yield] = "none" /\ Apps \subseteq Thread
  BY ThreadAssumption, Zenon DEF SystemInit, Init, Thread
<1>3. Control
  BY <1>2 DEF Control, AppReads, ThreadMade, InvalidIsCleaned, NullIsDead, ScanOnly, InsidePC
<1>4. SendsPlain
  BY <1>2 DEF SendsPlain, OtherSend
<1>5. \A i, m : ~ Bears(i, m)
  BY <1>2 DEF Bears, OnWire, InNodes, AtThread, Publishing
<1>6. \A i : ~ Acked(i)
  BY <1>2 DEF Acked
<1>7. Held
  BY <1>2, <1>5, <1>6 DEF Held, NodesFit, Known, OneMessage, AckedHas, NothingLost
<1>. QED  BY <1>1, <1>3, <1>4, <1>7 DEF KeptInv

(* It is inductive as long as the identifiers last. *)
LEMMA KeptNext ==
  ASSUME IdsLast, KeptInv, [SystemNext]_vars
  PROVE  KeptInv'
<1>0. TypeInv
  BY DEF KeptInv, SystemTypeInv
<1>1. SystemTypeInv' /\ LockExclusion'
  BY SystemTypeNext, SystemLockNext DEF KeptInv
<1>2. CASE ClientNext
  <2>1. Control' /\ (Cleaned => Cleaned') /\ (Zeroed => Zeroed')
    BY <1>0, <1>2, ClientControl DEF KeptInv
  <2>2. SendsPlain'
    BY <1>0, <1>2, ClientSends DEF KeptInv
  <2>3. PICK t \in Thread : Step(t)
    BY <1>2, ClientSteps
  <2>4. Frame(t) /\ Does(t) /\ UNCHANGED peer
    BY <1>0, <1>2, <2>3, StepFrame, StepDoes, ClientPeer DEF KeptInv
  <2>5. Release(t) => Cleaned' /\ Zeroed'
    BY <1>0, ReleaseControl DEF KeptInv
  <2>6. CleanSession => Cleaned'
    <3>. SUFFICES ASSUME CleanSession PROVE Cleaned'
      OBVIOUS
    <3>1. pc[Yield] = "clean" /\ pc'[Yield] = "destroy" /\ UNCHANGED faults
      BY <1>0 DEF CleanSession, Goto, TypeInv, TypeOK, Thread, histVars
    <3>. QED  BY <3>1 DEF KeptInv, Control, NullIsDead, Cleaned
  <2>7. Held'
    BY <2>1, <2>4, <2>5, <2>6, ClientHolds DEF KeptInv
  <2>. QED  BY <1>1, <2>1, <2>2, <2>7 DEF KeptInv
<1>3. CASE ServerWorks \/ LinkDown \/ UNCHANGED vars
  <2>1. /\ UNCHANGED <<pc, pkt, write_lock, write_buf, mqtt_thread, client_state, faults, calls,
                       expired>>
    BY <1>3, ServerApart DEF LinkDown, vars, sessVars, lockVars, callVars, iterVars, histVars
  <2>2. Control' /\ SendsPlain'
    BY <2>1 DEF KeptInv, Control, AppReads, ThreadMade, InvalidIsCleaned, NullIsDead, ScanOnly,
                Cleaned, Zeroed, Gone, SendsPlain
  <2>3. Held'
    BY <1>3, ServerHolds DEF KeptInv
  <2>. QED  BY <1>1, <2>2, <2>3 DEF KeptInv
<1>. QED  BY <1>2, <1>3, StepKinds

(* A message mqtt_publish has accepted is not lost: over every interleaving *)
(* of threads, keep-alive included, every retransmission and every          *)
(* reconnection, it is in the list with its own bytes until the server has  *)
(* it or the session is cleaned, as long as the identifiers have not        *)
(* wrapped (then another message's acknowledgement may remove it).          *)
(* Excepted are only messages whose bytes PINGREQ had overwritten in the    *)
(* buffer at the moment their node was recorded (mqttclient.c:1146).        *)
THEOREM AcceptedKept == SystemSpec /\ []IdsLast => []AcceptedIsKept
<1>1. KeptInv => AcceptedIsKept
  BY DEF KeptInv, Held, NothingLost, Keeps, IsPub, AcceptedIsKept
<1>2. IdsLast /\ KeptInv /\ [SystemNext]_vars => KeptInv'
  BY KeptNext
<1>. QED  BY <1>1, <1>2, KeptInit, PTL DEF SystemSpec
-----------------------------------------------------------------------------
(* Quality of service 2, from mqtt_publish to the server.  A call is made   *)
(* once; before it has its identifier nothing of its message is under way.  *)
Asked == /\ pc[Yield] # "pub_lock"
         /\ \A a \in Apps : /\ calls[a] \subseteq Calls[a]
                            /\ pc[a] = "pub_lock" => op[a] \in Calls[a] \ calls[a]
Pending(m) == \E a \in Apps : \/ Call("publish", m) \in calls[a]
                              \/ pc[a] = "pub_lock" /\ op[a] = Call("publish", m)
BegunOnly == \A i, m : Bears(i, m) => \E a \in Apps : Begins(a, m)
PendingNone == \A m \in Msg : Pending(m) => ~ Occurs(m, b_log) /\ \A i : ~ Bears(i, m)
OneId == \A i, j, m : Bears(i, m) /\ Bears(j, m) => i = j
OncePublished == Asked /\ BegunOnly /\ PendingNone /\ OneId

(* What a step of t does to the calls. *)
Asks(t) ==
  /\ \/ UNCHANGED calls \/ calls' = [u \in Apps |-> {}]
     \/ \E c : calls' = [calls EXCEPT ![t] = @ \ {c}]
  /\ op' = op \/ \E c : op' = [op EXCEPT ![t] = c]

(* Each step of the client does no more. *)
LEMMA StepAsks == ASSUME NEW t, Step(t) PROVE Asks(t)
<1>1. CASE PublishStep(t) \/ SubscribeStep(t)
  BY <1>1 DEF PublishStep, PublishCall, PublishRefuse, PublishLock, PublishSend, PublishRecord,
         PublishDisc, SubscribeStep, SubscribeCall, UnsubscribeCall, SubscribeLock,
         SubscribeSend, SubscribeRecord, UnsubscribeLock, UnsubscribeSend, UnsubscribeRecord,
         Start, Move, LockAndSerialize, SendOrReturn, callVars, Asks
<1>2. CASE ConnectStep(t) \/ DisconnectStep(t)
  BY <1>2 DEF ConnectStep, ConnectCall, ConnectNetwork, ConnectReturn, ConnectLock, ConnectSend,
        ConnectTimeout, ConnectFail, ConnectAccepted, ConnectUp, ConnectCreateThread,
        ConnectNoThread, ConnectStoreThread, ConnectSetState, ConnectStartThread, ConnectRefused,
        DisconnectStep, DisconnectCall, DisconnectLock, DisconnectSend, DisconnectState,
        Release, Start, Move, LockAndSerialize, callVars, Asks
<1>3. CASE HandleStep(t) \/ KeepAliveStep(t)
  BY <1>3 DEF HandleStep, Read, ReadTimeout, HandleNotConnected, HandleConnack, HandleAck,
        HandleSuback, HandleUnsuback, HandlePublish, RecordPubrel, HandlePubrec, HandlePubrel,
        Unrecord, HandlePingresp, KeepAliveStep, KeepAliveQuiet, KeepAlivePing, KeepAliveSend,
        KeepAliveDead, KeepAliveDisc, Move, callVars, Asks
<1>4. CASE t = Yield /\ YieldStep
  BY <1>4 DEF YieldStep, YieldStart, YieldSuspend, YieldTop, ReconnectBeaten, ReconnectScan, Resubscribe,
           AckListScan, AckHandlerResend, AckHandlerDestroy, AckListScanned, CleanSession,
           YieldDestroy, Move, callVars, Asks
<1>. QED  BY <1>1, <1>2, <1>3, <1>4 DEF Step, ThreadStep

(* Calls become fewer, and a thread comes to publish from one it had. *)
LEMMA AskedStays ==
  ASSUME TypeInv, Asked, NEW t \in Thread, Frame(t), Asks(t)
  PROVE  /\ Asked'
         /\ \A a \in Apps : calls'[a] \subseteq calls[a]
         /\ \A m \in Msg : Pending(m)' => Pending(m)
<1>1. \A a \in Apps : calls'[a] \subseteq calls[a]
  BY DEF Asks, TypeInv, TypeOK
<1>2. ASSUME NEW u \in Thread, pc'[u] = "pub_lock"
      PROVE  \/ u # t /\ pc[u] = "pub_lock" /\ op'[u] = op[u]
             \/ \E m \in Msg : u = t /\ PublishCall(t, m)
  BY <1>2 DEF Frame, Asks, TypeInv, TypeOK
<1>3. ASSUME NEW m \in Msg, PublishCall(t, m)
      PROVE  /\ t \in Apps /\ op'[t] = Call("publish", m) /\ Call("publish", m) \in calls[t]
             /\ Call("publish", m) \notin calls'[t]
  BY <1>3 DEF PublishCall, Start, TypeInv, TypeOK
<1>4. Yield \in Thread /\ Apps \subseteq Thread /\ Yield \notin Apps
  BY ThreadAssumption DEF Thread
<1>5. pc'[Yield] # "pub_lock"
  BY <1>2, <1>3, <1>4 DEF Asked
<1>6. ASSUME NEW a \in Apps
      PROVE  calls'[a] \subseteq Calls[a] /\ (pc'[a] = "pub_lock" => op'[a] \in Calls[a] \ calls'[a])
  BY <1>1, <1>2, <1>3, <1>4 DEF Asked
<1>7. ASSUME NEW m \in Msg, Pending(m)' PROVE Pending(m)
  <2>1. PICK a \in Apps : \/ Call("publish", m) \in calls'[a]
                          \/ pc'[a] = "pub_lock" /\ op'[a] = Call("publish", m)
    BY <1>7 DEF Pending
  <2>. QED  BY <1>1, <1>2, <1>3, <1>4, <2>1 DEF Pending
<1>. QED  BY <1>1, <1>5, <1>6, <1>7 DEF Asked

(* The thread that gives a message its identifier had it pending, and       *)
(* nobody has after that.                                                   *)
LEMMA GivesAsked ==
  ASSUME PublishedOnce, TypeInv, Asked, NEW t \in Thread, Frame(t), Asks(t), NEW i, NEW m,
         Gives(t, i, m)
  PROVE  /\ m \in Msg /\ Pending(m) /\ ~ Pending(m)'
         /\ \E a \in Apps : Begins(a, m)'
<1>1. /\ pc[t] = "pub_lock" /\ op[t].op = "publish" /\ op[t].arg = m
      /\ op[t] = Call("publish", m) /\ m \in Msg
  <2>1. pc[t] = "pub_lock" /\ op[t].arg = m
    BY DEF Gives, PublishLock
  <2>2. op[t] \in ApiCall /\ op[t].op = "publish"
    BY <2>1 DEF TypeInv, TypeOK, Busy
  <2>3. op[t] \in [op : {"publish"}, arg : Msg]
    BY <2>2 DEF ApiCall
  <2>. QED  BY <2>1, <2>2, <2>3 DEF Call
<1>2. t \in Apps /\ Call("publish", m) \in Calls[t] \ calls[t]
  BY <1>1 DEF Asked, Thread
<1>3. calls' = calls /\ op' = op /\ \A u \in Thread : pc'[u] = IF u = t THEN "pub_send" ELSE pc[u]
  BY DEF Gives, PublishLock, LockAndSerialize, Goto, callVars, TypeInv, TypeOK
<1>4. Pending(m)
  BY <1>1, <1>2 DEF Pending
<1>5. ASSUME NEW a \in Apps, \/ Call("publish", m) \in calls'[a]
                             \/ pc'[a] = "pub_lock" /\ op'[a] = Call("publish", m)
      PROVE  FALSE
  <2>1. a \in Thread
    BY DEF Thread
  <2>2. Call("publish", m) \in Calls[a]
    BY <1>2, <1>3, <1>5, <2>1 DEF Asked
  <2>3. a = t
    BY <1>1, <1>2, <2>2 DEF PublishedOnce
  <2>. QED  BY <1>2, <1>3, <1>5, <2>1, <2>3
<1>6. ~ Pending(m)'
  BY <1>5 DEF Pending
<1>. QED  BY <1>1, <1>2, <1>3, <1>4, <1>6 DEF Begins

(* A step of the client keeps all that. *)
LEMMA ClientPublishes ==
  ASSUME PublishedOnce, TypeInv, OncePublished, NEW t \in Thread, Frame(t), Does(t), Asks(t),
         UNCHANGED peer
  PROVE  OncePublished'
<1>1. /\ Asked' /\ \A a \in Apps : calls'[a] \subseteq calls[a]
      /\ \A m \in Msg : Pending(m)' => Pending(m)
  BY AskedStays DEF OncePublished
<1>2. \A i, m : Bears(i, m)' => Bears(i, m) \/ Gives(t, i, m)
  BY BearsFrom
<1>3. \A i, m : Gives(t, i, m) => /\ m \in Msg /\ Pending(m) /\ ~ Pending(m)'
                                  /\ \E a \in Apps : Begins(a, m)'
  BY GivesAsked DEF OncePublished
<1>4. \A a \in Apps : \A m : Begins(a, m) => Begins(a, m)'
  BY <1>1 DEF Begins
<1>5. BegunOnly'
  <2>. SUFFICES ASSUME NEW i, NEW m, Bears(i, m)' PROVE \E a \in Apps : Begins(a, m)'
    BY DEF BegunOnly
  <2>1. Bears(i, m) => \E a \in Apps : Begins(a, m)
    BY DEF OncePublished, BegunOnly
  <2>. QED  BY <1>2, <1>3, <1>4, <2>1
<1>6. PendingNone'
  <2>. SUFFICES ASSUME NEW m \in Msg, Pending(m)'
                PROVE  ~ Occurs(m, b_log)' /\ \A i : ~ Bears(i, m)'
    BY DEF PendingNone
  <2>1. ~ Occurs(m, b_log) /\ \A i : ~ Bears(i, m)
    BY <1>1 DEF OncePublished, PendingNone
  <2>2. Occurs(m, b_log)' = Occurs(m, b_log)
    BY DEF Occurs, b_log
  <2>. QED  BY <1>2, <1>3, <2>1, <2>2
<1>7. OneId'
  <2>. SUFFICES ASSUME NEW i, NEW j, NEW m, Bears(i, m)', Bears(j, m)' PROVE i = j
    BY DEF OneId
  <2>1. CASE Bears(i, m) /\ Bears(j, m)
    BY <2>1 DEF OncePublished, OneId
  <2>2. Gives(t, i, m) \/ Gives(t, j, m) => ~ Bears(i, m) /\ ~ Bears(j, m)
    BY <1>3 DEF OncePublished, PendingNone
  <2>3. CASE Gives(t, i, m) /\ Gives(t, j, m)
    BY <2>3 DEF Gives
  <2>. QED  BY <1>2, <2>1, <2>2, <2>3
<1>. QED  BY <1>1, <1>5, <1>6, <1>7 DEF OncePublished

(* PUBREL for an identifier is under way, or kept to be sent again.  From   *)
(* the moment it is made PUBLISH is not sent again: no thread publishes     *)
(* with the identifier, and the node that holds PUBLISH goes in the next    *)
(* step of the yield thread, before it scans the list.                      *)
IsRel(p, i) == p.type = "PUBREL" /\ p.id = i
Releasing(i) == \/ \E j \in 1 .. Len(c2s) : IsRel(c2s[j], i)
                \/ \E n \in ack_list \cup expired : n.type = "PUBCOMP" /\ n.id = i
AtUnrecord(i) == pc[Yield] = "unrecord" /\ pkt[Yield].type = "PUBREC" /\ pkt[Yield].id = i
Left(i) == /\ \A t \in Thread : Publishing(t) => pkt[t].id # i
           /\ \A n \in expired : ~ (n.type = "PUBREC" /\ n.id = i)
           /\ AtUnrecord(i) \/ Matching("PUBREC", i) = {}
IsTwo(p, i) == p.type = "PUBLISH" /\ p.id = i /\ Qos[p.body] = 2
ReleasedLeft ==
  \A i \in Ids : Releasing(i) =>
    /\ i # 0 /\ Used(i) /\ Left(i)
    /\ \A j, k \in 1 .. Len(c2s) : j < k /\ IsRel(c2s[j], i) => ~ IsTwo(c2s[k], i)

(* Of a message that was handed on the server knows the identifier, unless  *)
(* no copy of it is under way or will be sent.                              *)
InUse == \A m \in Msg, i \in Ids :
           Qos[m] = 2 /\ Bears(i, m) /\ Occurs(m, b_log) =>
             \/ i \in b_ids
             \/ AtUnrecord(i) /\ ~ OnWire(i, m) /\ Left(i)
OutboundInv == KeptInv /\ OncePublished /\ ReleasedLeft /\ InUse

(* The thread that handles PUBREC is left alone until it has removed the    *)
(* node. *)
LEMMA UnrecordNext ==
  ASSUME TypeInv, LockExclusion, Control, NEW t \in Thread, Step(t), Frame(t),
         pc[Yield] = "unrecord"
  PROVE  (t = Yield /\ Unrecord(t)) \/ (pc'[Yield] = "unrecord" /\ pkt'[Yield] = pkt[Yield])
<1>1. Yield \in Thread
  BY DEF Thread
<1>2. CASE t = Yield
  BY <1>2, YieldAlone
<1>3. CASE t # Yield
  BY <1>1, <1>3, FramePackets, YieldRests
<1>. QED  BY <1>2, <1>3

(* What is left stays so ... *)
LEMMA LeftStays ==
  ASSUME IdsLast, KeptInv, KeptInv', NEW t \in Thread, Step(t), Frame(t), Does(t),
         NEW i \in Ids, i # 0, Used(i), Left(i)
  PROVE  Left(i)'
<1>0. TypeInv /\ LockExclusion /\ Control /\ Control'
  BY DEF KeptInv, SystemTypeInv
<1>1. ASSUME NEW u \in Thread, Publishing(u)' PROVE pkt'[u].id # i
  <2>1. CASE Publishing(u) /\ pkt'[u] = pkt[u]
    BY <2>1 DEF Left
  <2>2. CASE u = t /\ PublishLock(t)
    <3>1. pkt'[t] = Plain("PUBLISH", NewId(op[t].arg), op[t].arg)
      BY <1>0, <2>2 DEF PublishLock, LockAndSerialize, NewId, TypeInv, TypeOK
    <3>2. pkt'[t].id = NewId(op[t].arg)
      BY <3>1 DEF Plain
    <3>3. Gives(t, NewId(op[t].arg), op[t].arg)
      BY <2>2 DEF Gives
    <3>4. NewId(op[t].arg) # i
      BY <1>0, <3>3, GivesNew
    <3>. QED  BY <2>2, <3>2, <3>4
  <2>. QED  BY <1>0, <1>1, <2>1, <2>2, PublishingFrom
<1>2. pc[Yield] = "unrecord" => \/ t = Yield /\ Unrecord(t)
                                \/ pc'[Yield] = "unrecord" /\ pkt'[Yield] = pkt[Yield]
  BY <1>0, UnrecordNext
<1>3. ASSUME NEW n \in expired', n.type = "PUBREC", n.id = i PROVE FALSE
  <2>1. n \notin expired
    BY <1>3 DEF Left
  <2>2. n \in Matching("PUBREC", i)
    BY <1>3, <2>1 DEF Does, Scans, Matching
  <2>3. pc[Yield] = "unrecord"
    BY <2>2 DEF Left, AtUnrecord
  <2>4. Unrecord(Yield) => pc'[Yield] = "keepalive"
    BY <1>0 DEF Unrecord, Finish, Goto, TypeInv, TypeOK, Thread
  <2>5. pc'[Yield] # "scan_loop"
    BY <1>2, <2>3, <2>4
  <2>. QED  BY <1>0, <1>3, <2>5 DEF Control, ScanOnly
<1>4. ASSUME NEW n \in ack_list', n.type = "PUBREC", n.id = i PROVE n \in Matching("PUBREC", i)
  <2>1. CASE n \in ack_list
    BY <1>4, <2>1 DEF Matching
  <2>2. CASE n \notin ack_list
    <3>1. pc[t] = "pub_record" /\ pkt[t].id = i
      BY <1>4, <2>2 DEF Does, Records, Saved
    <3>. QED  BY <3>1 DEF Left, Publishing
  <2>. QED  BY <2>1, <2>2
<1>5. AtUnrecord(i)' \/ Matching("PUBREC", i)' = {}
  <2>1. CASE Matching("PUBREC", i) = {}
    BY <1>4, <2>1 DEF Matching
  <2>2. CASE AtUnrecord(i) /\ pc'[Yield] = "unrecord" /\ pkt'[Yield] = pkt[Yield]
    BY <2>2 DEF AtUnrecord
  <2>3. CASE AtUnrecord(i) /\ t = Yield /\ Unrecord(t)
    <3>1. ack_list' = ack_list \ Matching("PUBREC", i)
      BY <2>3 DEF AtUnrecord, Unrecord, UnrecordNodes
    <3>. QED  BY <3>1 DEF Matching
  <2>. QED  BY <1>2, <2>1, <2>2, <2>3 DEF Left, AtUnrecord
<1>. QED  BY <1>1, <1>3, <1>5 DEF Left, Publishing

(* ... and is not sent again; PUBREL is made from PUBREC only. *)
LEMMA WireLeft ==
  ASSUME KeptInv, NEW t \in Thread, Does(t), NEW i \in Ids
  PROVE  \/ c2s' \in {c2s, << >>}
         \/ \E p \in Packet : /\ c2s' = Append(c2s, p)
                              /\ Left(i) => ~ IsTwo(p, i)
                              /\ IsRel(p, i) => \/ Releasing(i)
                                                \/ HandlePubrec(t) /\ pkt[t].id = i
<1>1. CASE c2s' \in {c2s, << >>}
  BY <1>1
<1>2. ASSUME NEW p \in Packet, c2s' = Append(c2s, p),
             \/ ~ Speaks(p)
             \/ pc[t] = "pub_send" /\ p = pkt[t]
             \/ \E n \in expired : Resent(n) /\ p = n.payload
             \/ HandlePubrec(t) /\ p = Ack("PUBREL", pkt[t].id)
      PROVE  /\ Left(i) => ~ IsTwo(p, i)
             /\ IsRel(p, i) => Releasing(i) \/ (HandlePubrec(t) /\ pkt[t].id = i)
  <2>1. CASE ~ Speaks(p)
    BY <2>1 DEF Speaks, IsTwo, IsRel
  <2>2. CASE pc[t] = "pub_send" /\ p = pkt[t]
    <3>1. p.type = "PUBLISH"
      BY <2>2 DEF KeptInv, SystemTypeInv, TypeInv, Busy
    <3>. QED  BY <2>2, <3>1 DEF Left, Publishing, IsTwo, IsRel
  <2>3. ASSUME NEW n \in expired, Resent(n), p = n.payload
        PROVE  (Left(i) => ~ IsTwo(p, i)) /\ (IsRel(p, i) => Releasing(i))
    <3>1. Fits(n)
      BY DEF KeptInv, Held, NodesFit
    <3>2. n.type \in {"PUBACK", "PUBREC", "PUBREL", "PUBCOMP"}
      BY <2>3 DEF Resent
    <3>3. CASE n.type \in {"PUBACK", "PUBREC"}
      BY <2>3, <3>1, <3>3 DEF Fits, Left, IsTwo, IsRel, Corrupt, Ack, Plain
    <3>4. CASE n.type = "PUBREL"
      BY <2>3, <3>1, <3>4 DEF Fits, Speaks, IsTwo, IsRel
    <3>5. CASE n.type = "PUBCOMP"
      BY <2>3, <3>1, <3>5 DEF Fits, Ack, Plain, IsTwo, IsRel, Releasing
    <3>. QED  BY <3>2, <3>3, <3>4, <3>5
  <2>4. CASE HandlePubrec(t) /\ p = Ack("PUBREL", pkt[t].id)
    BY <2>4 DEF Ack, Plain, IsTwo, IsRel
  <2>. QED  BY <1>2, <2>1, <2>2, <2>3, <2>4
<1>3. Wire(t)
  BY DEF Does
<1>. QED  BY <1>1, <1>2, <1>3 DEF Wire

(* When PUBREC is handled, nobody publishes: what it releases is left.      *)
LEMMA PubrecLeft ==
  ASSUME KeptInv, KeptInv', NEW t \in Thread, Frame(t), HandlePubrec(t), NEW i, pkt[t].id = i
  PROVE  i \in Ids \ {0} /\ Used(i) /\ Left(i)'
<1>0. TypeInv /\ LockExclusion /\ Control /\ Control'
  BY DEF KeptInv, SystemTypeInv
<1>1. /\ pc[t] = "handle" /\ pkt[t].type = "PUBREC" /\ write_lock = None
      /\ Goto(t, "unrecord") /\ UNCHANGED pkt
  BY DEF HandlePubrec, Handling
<1>2. t = Yield
  BY <1>0, <1>1, ThreadAssumption DEF Control, AppReads, InsidePC, Thread
<1>3. pkt[t] \in Packet /\ i \in Ids
  BY <1>0 DEF TypeInv, TypeOK, Packet, Ids
<1>4. Acked(i)
  BY <1>1 DEF Acked, IsReply
<1>5. i # 0 /\ Used(i)
  BY <1>3, <1>4 DEF KeptInv, Held, AckedHas
<1>6. pc'[Yield] = "unrecord"
  BY <1>0, <1>1, <1>2, GotoFrame
<1>7. expired' = {}
  BY <1>0, <1>6 DEF Control, ScanOnly
<1>8. \A u \in Thread : ~ Publishing(u)
  BY <1>0, <1>1, ThreadAssumption DEF LockExclusion, LockedPC, Publishing
<1>9. \A u \in Thread : ~ Publishing(u)'
  BY <1>0, <1>1, <1>8, PublishingFrom DEF PublishLock
<1>10. AtUnrecord(i)'
  BY <1>1, <1>2, <1>6 DEF AtUnrecord
<1>. QED  BY <1>1, <1>3, <1>5, <1>7, <1>9, <1>10 DEF Left, AtUnrecord, Publishing

(* Where PUBREL comes from. *)
LEMMA ReleasingFrom ==
  ASSUME KeptInv, NEW t \in Thread, Does(t), NEW i \in Ids, Releasing(i)'
  PROVE  Releasing(i) \/ (HandlePubrec(t) /\ pkt[t].id = i)
<1>1. c2s \in Seq(Packet)
  BY DEF KeptInv, SystemTypeInv, TypeInv, TypeOK
<1>2. CASE \E j \in 1 .. Len(c2s') : IsRel(c2s'[j], i)
  <2>1. CASE c2s' \in {c2s, << >>}
    BY <1>2, <2>1 DEF Releasing
  <2>2. ASSUME NEW p \in Packet, c2s' = Append(c2s, p),
               IsRel(p, i) => Releasing(i) \/ (HandlePubrec(t) /\ pkt[t].id = i)
        PROVE  Releasing(i) \/ (HandlePubrec(t) /\ pkt[t].id = i)
    <3>1. CASE \E j \in 1 .. Len(c2s) : IsRel(c2s[j], i)
      BY <3>1 DEF Releasing
    <3>2. CASE ~ \E j \in 1 .. Len(c2s) : IsRel(c2s[j], i)
      <4>1. IsRel(p, i)
        BY <1>1, <1>2, <2>2, <3>2
      <4>. QED  BY <2>2, <4>1
    <3>. QED  BY <3>1, <3>2
  <2>. QED  BY <2>1, <2>2, WireLeft
<1>3. ASSUME NEW n \in ack_list' \cup expired', n.type = "PUBCOMP", n.id = i
      PROVE  Releasing(i) \/ (HandlePubrec(t) /\ pkt[t].id = i)
  <2>1. CASE n \in ack_list \cup expired
    BY <1>3, <2>1 DEF Releasing
  <2>2. CASE n \in ack_list' \ ack_list
    BY <1>3, <2>2 DEF Does, Records, Saved
  <2>. QED  BY <2>1, <2>2 DEF Does, Scans
<1>4. \/ \E j \in 1 .. Len(c2s') : IsRel(c2s'[j], i)
      \/ \E n \in ack_list' \cup expired' : n.type = "PUBCOMP" /\ n.id = i
  BY DEF Releasing, IsRel
<1>. QED  BY <1>2, <1>3, <1>4

(* Behind PUBREL no PUBLISH of the identifier is sent. *)
LEMMA ClientReleases ==
  ASSUME IdsLast, KeptInv, KeptInv', ReleasedLeft, NEW t \in Thread, Step(t), Frame(t), Does(t),
         \A i \in Ids : Used(i) => Used(i)'
  PROVE  ReleasedLeft'
<1>. SUFFICES ASSUME NEW i \in Ids, Releasing(i)'
              PROVE  /\ i # 0 /\ Used(i)' /\ Left(i)'
                     /\ \A j, k \in 1 .. Len(c2s') :
                          j < k /\ IsRel(c2s'[j], i) => ~ IsTwo(c2s'[k], i)
  BY DEF ReleasedLeft, IsRel, IsTwo
<1>1. c2s \in Seq(Packet)
  BY DEF KeptInv, SystemTypeInv, TypeInv, TypeOK
<1>2. CASE Releasing(i)
  <2>1. /\ i # 0 /\ Used(i) /\ Left(i)
        /\ \A j, k \in 1 .. Len(c2s) : j < k /\ IsRel(c2s[j], i) => ~ IsTwo(c2s[k], i)
    BY <1>2 DEF ReleasedLeft
  <2>2. Left(i)' /\ Used(i)'
    BY <2>1, LeftStays
  <2>3. c2s' \in {c2s, << >>} \/ \E p \in Packet : c2s' = Append(c2s, p) /\ ~ IsTwo(p, i)
    BY <2>1, WireLeft
  <2>4. ASSUME NEW p \in Packet, c2s' = Append(c2s, p), ~ IsTwo(p, i),
               NEW j \in 1 .. Len(c2s'), NEW k \in 1 .. Len(c2s'), j < k, IsRel(c2s'[j], i)
        PROVE  ~ IsTwo(c2s'[k], i)
    <3>1. /\ Len(c2s') = Len(c2s) + 1 /\ Len(c2s) \in Nat /\ c2s'[Len(c2s) + 1] = p
          /\ \A l \in 1 .. Len(c2s) : c2s'[l] = c2s[l]
      BY <1>1, <2>4
    <3>2. j \in 1 .. Len(c2s) /\ (k \in 1 .. Len(c2s) \/ k = Len(c2s) + 1)
      BY <2>4, <3>1
    <3>. QED  BY <2>1, <2>4, <3>1, <3>2
  <2>. QED  BY <2>1, <2>2, <2>3, <2>4
<1>3. CASE ~ Releasing(i)
  <2>1. HandlePubrec(t) /\ pkt[t].id = i
    BY <1>3, ReleasingFrom
  <2>2. i # 0 /\ Used(i) /\ Left(i)'
    BY <2>1, PubrecLeft
  <2>3. \A j \in 1 .. Len(c2s) : ~ IsRel(c2s[j], i)
    BY <1>3 DEF Releasing
  <2>4. CASE c2s' \in {c2s, << >>}
    BY <2>2, <2>3, <2>4
  <2>5. ASSUME NEW p \in Packet, c2s' = Append(c2s, p),
               NEW j \in 1 .. Len(c2s'), NEW k \in 1 .. Len(c2s'), j < k
        PROVE  ~ IsRel(c2s'[j], i)
    <3>1. Len(c2s') = Len(c2s) + 1 /\ Len(c2s) \in Nat
          /\ \A l \in 1 .. Len(c2s) : c2s'[l] = c2s[l]
      BY <1>1, <2>5
    <3>2. j \in 1 .. Len(c2s)
      BY <2>5, <3>1
    <3>. QED  BY <2>3, <3>1, <3>2
  <2>. QED  BY <2>2, <2>4, <2>5, WireLeft
<1>. QED  BY <1>2, <1>3

(* What is left is borne by nothing but the wire and the node that goes.    *)
LEMMA LeftBears ==
  ASSUME NodesFit', NEW i, NEW m, Qos[m] = 2, Left(i)', Bears(i, m)'
  PROVE  OnWire(i, m)' \/ AtUnrecord(i)'
<1>1. ~ AtThread(i, m)'
  BY DEF Left, AtThread, IsPub, Publishing
<1>2. ASSUME NEW n \in ack_list' \cup expired', Resent(n), IsPub(n.payload, i, m)
      PROVE  AtUnrecord(i)'
  <2>1. Fits(n)
    BY DEF NodesFit, Fits, Speaks
  <2>2. n.payload.type = "PUBLISH" /\ n.payload.id = i /\ Qos[n.payload.body] = 2
    BY <1>2 DEF IsPub
  <2>3. n.type = "PUBREC" /\ n.id = i
    <3>1. n.type \in {"PUBACK", "PUBREC", "PUBREL", "PUBCOMP"}
      BY <1>2 DEF Resent
    <3>2. n.type # "PUBREL" /\ n.type # "PUBCOMP"
      BY <2>1, <2>2 DEF Fits, Speaks, Ack, Plain
    <3>3. n.payload # Corrupt
      BY <2>2 DEF Corrupt, Ack, Plain
    <3>. QED  BY <2>1, <2>2, <3>1, <3>2, <3>3 DEF Fits
  <2>4. n \notin expired'
    BY <2>3 DEF Left
  <2>5. Matching("PUBREC", i)' # {}
    BY <2>3, <2>4 DEF Matching
  <2>. QED  BY <2>5 DEF Left
<1>3. InNodes(i, m)' => AtUnrecord(i)'
  BY <1>2 DEF InNodes, Resent, IsPub
<1>. QED  BY <1>1, <1>3 DEF Bears

(* The messages that were handed on, over a step of the client. *)
LEMMA ClientInUse ==
  ASSUME PublishedOnce, IdsLast, OutboundInv, KeptInv', NEW t \in Thread, Step(t), Frame(t),
         Does(t), Asks(t), UNCHANGED peer
  PROVE  InUse'
<1>. SUFFICES ASSUME NEW m \in Msg, NEW i \in Ids, Qos[m] = 2, Bears(i, m)', Occurs(m, b_log),
                     i \notin b_ids
              PROVE  AtUnrecord(i)' /\ ~ OnWire(i, m)' /\ Left(i)'
  BY DEF InUse, b_ids, b_log, Occurs
<1>0. TypeInv /\ Asked
  BY DEF OutboundInv, OncePublished, KeptInv, SystemTypeInv
<1>1. ~ Gives(t, i, m)
  BY <1>0, GivesAsked DEF OutboundInv, OncePublished, PendingNone
<1>2. Bears(i, m)
  BY <1>0, <1>1, BearsFrom
<1>3. AtUnrecord(i) /\ ~ OnWire(i, m) /\ Left(i)
  BY <1>2 DEF OutboundInv, InUse
<1>4. i # 0 /\ Used(i)
  BY <1>2 DEF OutboundInv, KeptInv, Held, Known
<1>5. Left(i)'
  BY <1>3, <1>4, LeftStays DEF OutboundInv
<1>6. ~ OnWire(i, m)'
  <2>1. c2s \in Seq(Packet)
    BY <1>0 DEF TypeInv, TypeOK
  <2>2. c2s' \in {c2s, << >>} \/ \E p \in Packet : c2s' = Append(c2s, p) /\ ~ IsTwo(p, i)
    BY <1>3, WireLeft DEF OutboundInv
  <2>3. CASE c2s' \in {c2s, << >>}
    BY <1>3, <2>3 DEF OnWire
  <2>4. ASSUME NEW p \in Packet, c2s' = Append(c2s, p), ~ IsTwo(p, i)
        PROVE  ~ OnWire(i, m)'
    <3>1. ~ IsPub(p, i, m)
      BY <2>4 DEF IsPub, IsTwo
    <3>. QED  BY <1>3, <2>1, <2>4, <3>1 DEF OnWire
  <2>. QED  BY <2>2, <2>3, <2>4
<1>7. AtUnrecord(i)'
  BY <1>5, <1>6, LeftBears DEF KeptInv, Held
<1>. QED  BY <1>5, <1>6, <1>7

(* The server takes a PUBLISH of quality of service 2, or PUBREL.           *)
HandsOn == /\ c2s # << >> /\ IsTwo(Head(c2s), Head(c2s).id) /\ c2s' = Tail(c2s)
           /\ peer'.ids = peer.ids \cup {Head(c2s).id}
           /\ peer'.log = IF Head(c2s).id \notin peer.ids THEN Append(peer.log, Head(c2s).body)
                                                          ELSE peer.log
Releases == /\ c2s # << >> /\ Head(c2s).type = "PUBREL" /\ c2s' = Tail(c2s)
            /\ peer'.log = peer.log /\ peer'.ids = peer.ids \ {Head(c2s).id}

(* What the server hands on, and which identifiers it remembers. *)
LEMMA ServerLogs ==
  ASSUME SystemTypeInv, ServerWorks
  PROVE  \/ peer'.log = peer.log /\ peer'.ids = peer.ids
         \/ HandsOn \/ Releases
<1>1. PeerType
  BY DEF SystemTypeInv
<1>2. CASE ServerPublish
  <2>1. /\ c2s # << >> /\ Head(c2s).type = "PUBLISH" /\ c2s' = Tail(c2s)
        /\ peer' = [peer EXCEPT !.has = @ \cup {Head(c2s).body},
                  !.log = IF Qos[Head(c2s).body] = 2 /\ Head(c2s).id \notin peer.ids
                            THEN Append(@, Head(c2s).body) ELSE @,
                  !.ids = IF Qos[Head(c2s).body] = 2 THEN @ \cup {Head(c2s).id} ELSE @]
    BY <1>2 DEF ServerPublish, Takes, Answer, NoAnswer, b_ids
  <2>2. /\ peer'.log = IF Qos[Head(c2s).body] = 2 /\ Head(c2s).id \notin peer.ids
                         THEN Append(peer.log, Head(c2s).body) ELSE peer.log
        /\ peer'.ids = IF Qos[Head(c2s).body] = 2 THEN peer.ids \cup {Head(c2s).id} ELSE peer.ids
    BY <1>1, <2>1 DEF PeerType
  <2>. QED  BY <2>1, <2>2 DEF HandsOn, IsTwo
<1>3. CASE ServerPubrel
  BY <1>1, <1>3 DEF ServerPubrel, Takes, Answer, PeerType, Releases
<1>4. CASE ServerConnect \/ ServerSubscribe \/ ServerUnsubscribe \/ ServerPing \/ ServerAcked
           \/ \E m \in ServerMsg : ServerSend(m)
  BY <1>1, <1>4 DEF ServerConnect, ServerSubscribe, ServerUnsubscribe, ServerPing, ServerAcked,
                    ServerSend, PeerType
<1>. QED  BY <1>2, <1>3, <1>4 DEF ServerWorks

(* What it hands on it has not handed on before. *)
LEMMA HandsOnNew ==
  ASSUME OutboundInv, HandsOn
  PROVE  /\ Head(c2s) \in Packet /\ Head(c2s).body \in Msg
         /\ Bears(Head(c2s).id, Head(c2s).body)
         /\ Head(c2s).id \notin b_ids => ~ Occurs(Head(c2s).body, b_log)
<1>. DEFINE p == Head(c2s)
<1>1. c2s \in Seq(Packet) /\ c2s # << >> /\ p.type = "PUBLISH" /\ Qos[p.body] = 2
  BY DEF OutboundInv, KeptInv, SystemTypeInv, TypeInv, TypeOK, HandsOn, IsTwo
<1>2. p \in Packet /\ p = c2s[1] /\ 1 \in 1 .. Len(c2s)
  BY <1>1
<1>3. p.body \in Msg /\ p.id \in Ids
  BY <1>1, <1>2 DEF Packet, Ids
<1>4. OnWire(p.id, p.body)
  BY <1>1, <1>2 DEF OnWire, IsPub
<1>5. Bears(p.id, p.body)
  BY <1>4 DEF Bears
<1>. HIDE DEF p
<1>6. p.id \notin b_ids => ~ Occurs(p.body, b_log)
  BY <1>1, <1>3, <1>4, <1>5 DEF OutboundInv, InUse
<1>. QED  BY <1>2, <1>3, <1>5, <1>6 DEF p

(* After PUBREL no PUBLISH of quality of service 2 is behind it. *)
LEMMA ReleasesLast ==
  ASSUME OutboundInv, Releases, NEW i, i = Head(c2s).id
  PROVE  /\ i \in Ids /\ Left(i)
         /\ \A m : Qos[m] = 2 => ~ OnWire(i, m)'
<1>1. c2s \in Seq(Packet) /\ c2s # << >> /\ Head(c2s).type = "PUBREL" /\ c2s' = Tail(c2s)
  BY DEF OutboundInv, KeptInv, SystemTypeInv, TypeInv, TypeOK, Releases
<1>2. /\ Head(c2s) \in Packet /\ Head(c2s) = c2s[1] /\ 1 \in 1 .. Len(c2s)
      /\ \A k \in 1 .. Len(c2s') : c2s'[k] = c2s[k + 1] /\ k + 1 \in 1 .. Len(c2s) /\ 1 < k + 1
  BY <1>1
<1>3. i \in Ids
  BY <1>2 DEF Packet, Ids
<1>4. IsRel(c2s[1], i)
  BY <1>1, <1>2 DEF IsRel
<1>5. Releasing(i)
  BY <1>2, <1>4 DEF Releasing
<1>6. Left(i) /\ \A j, k \in 1 .. Len(c2s) : j < k /\ IsRel(c2s[j], i) => ~ IsTwo(c2s[k], i)
  BY <1>3, <1>5 DEF OutboundInv, ReleasedLeft
<1>7. \A k \in 1 .. Len(c2s') : ~ IsTwo(c2s'[k], i)
  BY <1>2, <1>4, <1>6
<1>. QED  BY <1>3, <1>6, <1>7 DEF OnWire, IsPub, IsTwo

(* The steps outside the client. *)
LEMMA ServerOnce ==
  ASSUME OutboundInv, KeptInv', ServerWorks \/ LinkDown \/ UNCHANGED vars
  PROVE  OutboundInv'
<1>0. SystemTypeInv /\ c2s \in Seq(Packet)
  BY DEF OutboundInv, KeptInv, SystemTypeInv, TypeInv, TypeOK
<1>1. UNCHANGED <<ack_list, expired, pc, pkt, packet_id, calls, op>>
  BY ServerApart DEF LinkDown, vars, sessVars, ackVars, iterVars, callVars
<1>2. c2s' \in {c2s, << >>} \/ (c2s # << >> /\ c2s' = Tail(c2s))
  BY <1>0, ServerReplies DEF LinkDown, vars, netVars
<1>3. (peer'.log = peer.log /\ peer'.ids = peer.ids) \/ HandsOn \/ Releases
  BY <1>0, ServerLogs DEF LinkDown, vars, netVars
<1>4. \A i, m : Bears(i, m)' => Bears(i, m)
  BY <1>0, <1>1, <1>2, BearsFewer
<1>5. \A i : Used(i)' = Used(i) /\ Left(i)' = Left(i) /\ AtUnrecord(i)' = AtUnrecord(i)
  BY <1>1 DEF Used, Zeroed, Gone, Left, AtUnrecord, Publishing, Matching
<1>6. \A m : Pending(m)' = Pending(m)
  BY <1>1 DEF Pending
<1>7. ASSUME NEW m \in Msg, Occurs(m, b_log)', ~ Occurs(m, b_log)
      PROVE  HandsOn /\ m = Head(c2s).body
  <2>1. peer'.log # peer.log
    BY <1>7 DEF Occurs, b_log
  <2>2. HandsOn /\ peer'.log = Append(peer.log, Head(c2s).body)
    BY <1>3, <2>1 DEF HandsOn, Releases
  <2>3. peer.log \in Seq(Msg) /\ Head(c2s).body \in Msg
    BY <1>0, <2>2, HandsOnNew DEF SystemTypeInv, PeerType
  <2>4. Occurs(m, Append(peer.log, Head(c2s).body)) /\ ~ Occurs(m, peer.log)
    BY <1>7, <2>2 DEF b_log, Occurs
  <2>. QED  BY <2>2, <2>3, <2>4, OccursAppended
<1>8. OncePublished'
  <2>1. Asked'
    BY <1>1 DEF OutboundInv, OncePublished, Asked
  <2>2. BegunOnly' /\ OneId'
    BY <1>1, <1>4 DEF OutboundInv, OncePublished, BegunOnly, OneId, Begins
  <2>3. ASSUME NEW m \in Msg, Pending(m)'
        PROVE  ~ Occurs(m, b_log)' /\ \A i : ~ Bears(i, m)'
    <3>1. ~ Occurs(m, b_log) /\ \A i : ~ Bears(i, m)
      BY <1>6, <2>3 DEF OutboundInv, OncePublished, PendingNone
    <3>2. HandsOn => m # Head(c2s).body
      BY <3>1, HandsOnNew
    <3>. QED  BY <1>4, <1>7, <3>1, <3>2
  <2>. QED  BY <2>1, <2>2, <2>3 DEF OncePublished, PendingNone
<1>9. ReleasedLeft'
  <2>. SUFFICES ASSUME NEW i \in Ids, Releasing(i)'
                PROVE  /\ i # 0 /\ Used(i)' /\ Left(i)'
                       /\ \A j, k \in 1 .. Len(c2s') :
                            j < k /\ IsRel(c2s'[j], i) => ~ IsTwo(c2s'[k], i)
    BY DEF ReleasedLeft, IsRel, IsTwo
  <2>1. CASE c2s' \in {c2s, << >>}
    <3>1. Releasing(i)
      BY <1>1, <2>1 DEF Releasing
    <3>2. i # 0 /\ Used(i) /\ Left(i)
      BY <3>1 DEF OutboundInv, ReleasedLeft
    <3>. QED  BY <1>5, <2>1, <3>1, <3>2 DEF OutboundInv, ReleasedLeft
  <2>2. CASE c2s # << >> /\ c2s' = Tail(c2s)
    <3>1. \A k \in 1 .. Len(c2s') : c2s'[k] = c2s[k + 1] /\ k + 1 \in 1 .. Len(c2s)
      BY <1>0, <2>2
    <3>2. Releasing(i)
      BY <1>1, <3>1 DEF Releasing, IsRel
    <3>3. i # 0 /\ Used(i) /\ Left(i)
          /\ \A j, k \in 1 .. Len(c2s) : j < k /\ IsRel(c2s[j], i) => ~ IsTwo(c2s[k], i)
      BY <3>2 DEF OutboundInv, ReleasedLeft
    <3>4. \A j, k \in 1 .. Len(c2s') : j < k => j + 1 < k + 1
      OBVIOUS
    <3>. QED  BY <1>5, <3>1, <3>3, <3>4
  <2>. QED  BY <1>2, <2>1, <2>2
<1>10. InUse'
  <2>. SUFFICES ASSUME NEW m \in Msg, NEW i \in Ids, Qos[m] = 2, Bears(i, m)', Occurs(m, b_log)',
                       i \notin peer'.ids
                PROVE  AtUnrecord(i)' /\ ~ OnWire(i, m)' /\ Left(i)'
    BY DEF InUse, b_ids
  <2>1. Bears(i, m)
    BY <1>4
  <2>2. CASE Occurs(m, b_log) /\ i \notin peer.ids
    <3>1. AtUnrecord(i) /\ ~ OnWire(i, m) /\ Left(i)
      BY <2>1, <2>2 DEF OutboundInv, InUse, b_ids
    <3>2. ~ OnWire(i, m)'
      BY <1>0, <1>2, <3>1 DEF OnWire
    <3>. QED  BY <1>5, <3>1, <3>2
  <2>3. CASE Occurs(m, b_log) /\ i \in peer.ids
    <3>1. Releases /\ i = Head(c2s).id
      BY <1>3, <2>3 DEF HandsOn, Releases
    <3>2. Left(i) /\ ~ OnWire(i, m)'
      BY <3>1, ReleasesLast
    <3>3. Left(i)'
      BY <1>5, <3>2
    <3>4. AtUnrecord(i)'
      BY <3>2, <3>3, LeftBears DEF KeptInv, Held
    <3>. QED  BY <3>2, <3>3, <3>4
  <2>4. CASE ~ Occurs(m, b_log)
    <3>1. HandsOn /\ m = Head(c2s).body
      BY <1>7, <2>4
    <3>2. Bears(Head(c2s).id, m) /\ Head(c2s).id \in peer'.ids
      BY <3>1, HandsOnNew DEF HandsOn
    <3>3. i = Head(c2s).id
      BY <2>1, <3>2 DEF OutboundInv, OncePublished, OneId
    <3>. QED  BY <3>2, <3>3
  <2>. QED  BY <2>2, <2>3, <2>4
<1>. QED  BY <1>8, <1>9, <1>10 DEF OutboundInv

(* No message is under way or handed on at first. *)
LEMMA OutboundInit == SystemInit => OutboundInv
<1>. SUFFICES ASSUME SystemInit PROVE OutboundInv
  OBVIOUS
<1>1. KeptInv
  BY KeptInit
<1>2. /\ \A t \in Thread : pc[t] \in {"none", "idle"}
      /\ c2s = << >> /\ ack_list = {} /\ expired = {} /\ calls = Calls
      /\ Yield \in Thread /\ Apps \subseteq Thread
  BY Zenon DEF SystemInit, Init, Thread
<1>3. \A i, m : ~ Bears(i, m)
  BY <1>2 DEF Bears, OnWire, InNodes, AtThread, Publishing
<1>4. \A m : ~ Occurs(m, b_log)
  BY DEF SystemInit, b_log, Occurs
<1>5. OncePublished
  BY <1>2, <1>3, <1>4 DEF OncePublished, Asked, BegunOnly, PendingNone, OneId
<1>6. ReleasedLeft /\ InUse
  BY <1>2, <1>3 DEF ReleasedLeft, Releasing, InUse
<1>. QED  BY <1>1, <1>5, <1>6 DEF OutboundInv

(* The invariant is inductive as long as the identifiers last. *)
LEMMA OutboundNext ==
  ASSUME PublishedOnce, IdsLast, OutboundInv, [SystemNext]_vars
  PROVE  OutboundInv'
<1>1. KeptInv /\ TypeInv
  BY DEF OutboundInv, KeptInv, SystemTypeInv
<1>2. KeptInv'
  BY <1>1, KeptNext
<1>3. CASE ClientNext
  <2>1. PICK t \in Thread : Step(t)
    BY <1>3, ClientSteps
  <2>2. Frame(t) /\ Does(t) /\ Asks(t) /\ UNCHANGED peer
    BY <1>1, <1>3, <2>1, StepFrame, StepDoes, StepAsks, ClientPeer DEF KeptInv
  <2>3. \A i \in Ids : Used(i) => Used(i)'
    <3>1. (Zeroed => Zeroed') /\ (Release(t) => Zeroed')
      BY <1>1, <1>3, ClientControl, ReleaseControl DEF KeptInv
    <3>. QED  BY <1>1, <2>2, <3>1, UsedStays DEF Does
  <2>4. OncePublished'
    BY <1>1, <2>2, ClientPublishes DEF OutboundInv
  <2>5. ReleasedLeft'
    BY <1>1, <1>2, <2>1, <2>2, <2>3, ClientReleases DEF OutboundInv
  <2>6. InUse'
    BY <1>2, <2>1, <2>2, ClientInUse
  <2>. QED  BY <1>2, <2>4, <2>5, <2>6 DEF OutboundInv
<1>4. CASE ServerWorks \/ LinkDown \/ UNCHANGED vars
  BY <1>2, <1>4, ServerOnce
<1>. QED  BY <1>3, <1>4, StepKinds

(* The messages mqtt_publish was called with. *)
Offered == {m \in Msg : \E a \in Apps : Begins(a, m)}

(* A step of the client only offers messages. *)
LEMMA ClientOffers ==
  ASSUME PublishedOnce, IdsLast, OutboundInv, ClientNext
  PROVE  Offered \subseteq Offered' /\ UNCHANGED peer
<1>1. TypeInv /\ Asked
  BY DEF OutboundInv, OncePublished, KeptInv, SystemTypeInv
<1>2. PICK t \in Thread : Step(t)
  BY ClientSteps
<1>3. \A a \in Apps : calls'[a] \subseteq calls[a]
  BY <1>1, <1>2, StepFrame, StepAsks, AskedStays
<1>. QED  BY <1>3, ClientPeer DEF Offered, Begins

(* mqttclient.c and the server together implement OnceDelivery from         *)
(* mqtt_publish to the server: over lost connections, timeouts, resent      *)
(* PUBLISH and PUBREL packets and every interleaving of the threads, no     *)
(* message of quality of service 2 is handed on twice.  It needs that no    *)
(* message is published by two threads and that the identifiers have not    *)
(* wrapped; a PINGREQ written into the locked buffer makes the server close *)
(* the connection, never take a message twice.                              *)
THEOREM OutboundIsOnce ==
  ASSUME PublishedOnce
  PROVE  SystemSpec /\ []IdsLast => OutboundOnce
<1>1. SystemInit => Outbound!Init
  <2>. SUFFICES ASSUME SystemInit PROVE Outbound!Init
    OBVIOUS
  <2>1. peer.log = << >> /\ calls = Calls
    BY DEF SystemInit, Init
  <2>2. \A m \in Msg : Times(Msg, peer.log)[m] = 0
    BY <2>1, TimesZero DEF Occurs
  <2>3. Times(Msg, peer.log) = [m \in Msg |-> 0]
    BY <2>2 DEF Times
  <2>. QED  BY <2>1, <2>3 DEF Outbound!Init, b_log, Begins
<1>2. IdsLast /\ OutboundInv /\ [SystemNext]_vars => [Outbound!Next]_<<Offered, Times(Msg, b_log)>>
  <2>. SUFFICES ASSUME IdsLast, OutboundInv, [SystemNext]_vars
                PROVE  [Outbound!Next]_<<Offered, Times(Msg, b_log)>>
    OBVIOUS
  <2>1. CASE ClientNext
    <3>1. Offered \subseteq Offered' /\ UNCHANGED peer
      BY <2>1, ClientOffers
    <3>2. UNCHANGED Times(Msg, b_log)
      BY <3>1 DEF Times, b_log
    <3>3. Offered' \in SUBSET Msg /\ Offered' = Offered \cup Offered'
      BY <3>1 DEF Offered
    <3>. QED  BY <3>2, <3>3 DEF Outbound!Next, Outbound!Offer, Offered
  <2>2. CASE ServerWorks \/ LinkDown \/ UNCHANGED vars
    <3>1. Offered' = Offered
      BY <2>2, ServerApart DEF LinkDown, vars, callVars, Offered, Begins
    <3>2. peer'.log = peer.log \/ HandsOn
      BY <2>2, ServerLogs DEF LinkDown, vars, netVars, Releases, OutboundInv, KeptInv
    <3>3. CASE peer'.log = peer.log
      BY <3>1, <3>3 DEF Times, b_log
    <3>4. CASE HandsOn /\ peer'.log # peer.log
      <4>. DEFINE k == Head(c2s).body
      <4>1. /\ peer'.log = Append(peer.log, k) /\ Head(c2s).id \notin peer.ids
        BY <3>4 DEF HandsOn
      <4>2. k \in Msg /\ ~ Occurs(k, peer.log) /\ Bears(Head(c2s).id, k)
        BY <3>4, <4>1, HandsOnNew DEF b_ids, b_log
      <4>3. peer.log \in Seq(Msg)
        BY DEF OutboundInv, KeptInv, SystemTypeInv, PeerType
      <4>4. k \in Offered
        BY <4>2 DEF OutboundInv, OncePublished, BegunOnly, Offered
      <4>. HIDE DEF k
      <4>5. Times(Msg, b_log)[k] = 0
        BY <4>2, TimesZero DEF b_log
      <4>6. Times(Msg, b_log)' = [Times(Msg, b_log) EXCEPT ![k] = 1]
        <5>1. Times(Msg, b_log)' = Times(Msg, peer'.log)
          BY DEF Times, b_log
        <5>2. Times(Msg, Append(peer.log, k)) = [Times(Msg, peer.log) EXCEPT ![k] = 1]
          BY <4>2, <4>3, TimesAppended
        <5>. QED  BY <4>1, <5>1, <5>2 DEF b_log
      <4>. QED  BY <3>1, <4>2, <4>4, <4>5, <4>6 DEF Outbound!Next, Outbound!HandOver, Offered
    <3>. QED  BY <3>2, <3>3, <3>4
  <2>. QED  BY <2>1, <2>2, StepKinds
<1>3. SystemInit => OutboundInv
  BY OutboundInit
<1>4. IdsLast /\ OutboundInv /\ [SystemNext]_vars => OutboundInv'
  BY OutboundNext
<1>. QED  BY <1>1, <1>2, <1>3, <1>4, PTL DEF SystemSpec, OutboundOnce, Outbound!Spec, Offered
-----------------------------------------------------------------------------
(* Nothing of topic x is asked for by two threads. *)
SubscribedOnce == \A a, b \in Apps, x \in Topic :
                    Call("subscribe", x) \in Calls[a] \cap Calls[b] => a = b

(* A request for topic x: still to be made, at a thread, under way.         *)
ToAsk(a, x) == Call("subscribe", x) \in calls[a]
Asking(t, x) == \/ pc[t] = "sub_lock" /\ op[t].arg = x
                \/ pc[t] = "sub_send" /\ pkt[t].body = x
Requests(p, x) == p.type = "SUBSCRIBE" /\ p.body = x
Waiting(x) == \/ \E a \in Apps : ToAsk(a, x)
              \/ \E t \in Thread : Asking(t, x)
              \/ \E j \in 1 .. Len(c2s) : Requests(c2s[j], x)

(* Identifier i stands for topic x: what a SUBACK of it would install.      *)
IsSub(p, i, x) == Requests(p, x) /\ p.id = i
SubWire(i, x) == \E j \in 1 .. Len(c2s) : IsSub(c2s[j], i, x)
SubThread(i, x) == \E t \in Thread : pc[t] \in {"sub_send", "sub_record"} /\ IsSub(pkt[t], i, x)
SubNode(i, x) == \E n \in ack_list : n.type = "SUBACK" /\ n.id = i /\ n.payload.body = x
Stands(i, x) == SubWire(i, x) \/ SubThread(i, x) \/ SubNode(i, x)

(* A SUBACK that would install the handler of x. *)
Grants(p, x) == p.type = "SUBACK" /\ Stands(p.id, x)
Granted(i) == \/ \E j \in 1 .. Len(s2c) : s2c[j].type = "SUBACK" /\ s2c[j].id = i
              \/ \E t \in Thread : pc[t] = "handle" /\ pkt[t].type = "SUBACK" /\ pkt[t].id = i

SubKnown == \A i \in Ids : (Granted(i) \/ \E x \in Topic : Stands(i, x)) => Used(i)
OneTopic == \A i \in Ids, x, y \in Topic : Stands(i, x) /\ Stands(i, y) => x = y

(* Nobody will ask for x again, and no grant of it is under way ...         *)
Over(x) == ~ Waiting(x) /\ \A j \in 1 .. Len(s2c) : ~ Grants(s2c[j], x)
(* ... nor at a thread: x has no handler and never will. *)
Lost(x) == /\ x \notin msg_handlers /\ Over(x)
           /\ \A t \in Thread : pc[t] = "handle" => ~ Grants(pkt[t], x)

(* A topic is asked for once ... *)
Single(x) ==
  /\ \A a, b \in Apps : ToAsk(a, x) /\ ToAsk(b, x) => a = b
  /\ \A t, u \in Thread : Asking(t, x) /\ Asking(u, x) => t = u
  /\ \A j, k \in 1 .. Len(c2s) : Requests(c2s[j], x) /\ Requests(c2s[k], x) => j = k
  /\ \A a \in Apps, t \in Thread : ~ (ToAsk(a, x) /\ Asking(t, x))
  /\ \A a \in Apps, j \in 1 .. Len(c2s) : ~ (ToAsk(a, x) /\ Requests(c2s[j], x))
  /\ \A t \in Thread, j \in 1 .. Len(c2s) : ~ (Asking(t, x) /\ Requests(c2s[j], x))
(* ... and until it has been the server sends nothing of it ...             *)
Fresh(x) == Waiting(x) => /\ x \notin b_subs
                          /\ \A m \in ServerMsg : TopicOf[m] = x => b_out[m] = "new"
(* ... nor before it has granted it. *)
Behind(x) == \A m \in ServerMsg, j, k \in 1 .. Len(s2c) :
               TopicOf[m] = x /\ IsPublish(s2c[j], m) /\ j < k => ~ Grants(s2c[k], x)
Subscribing == \/ Gone
               \/ /\ resub \subseteq msg_handlers
                  /\ \A x \in Topic \ msg_handlers : Single(x) /\ Fresh(x) /\ Behind(x)

(* What the server sends, and the yield thread reads, is the server's.      *)
Sent == /\ \A j \in 1 .. Len(s2c) : IsServed(s2c[j])
        /\ pc[Yield] \in {"handle", "rec_record"} => IsServed(pkt[Yield])
        /\ \A m \in ServerMsg, j \in 1 .. Len(s2c) :
             /\ IsPublish(s2c[j], m) => b_out[m] # "new"
             /\ IsPubrel(s2c[j], m) => Confirmed(m)
        /\ \A m \in ServerMsg : pc[Yield] = "handle" /\ IsPubrel(pkt[Yield], m) => Confirmed(m)

(* A message without a handler comes too late for one. *)
Missed == \A m \in ServerMsg :
            IsPublish(pkt[Yield], m) /\ TopicOf[m] \notin msg_handlers =>
              /\ pc[Yield] = "handle" => Over(TopicOf[m])
              /\ pc[Yield] = "rec_record" => Lost(TopicOf[m])

Done(m) == Occurs(m, delivered) \/ Lost(TopicOf[m])
IsDelivering(m) == pc[Yield] = "rec_record" /\ IsPublish(pkt[Yield], m)
AckReply == {"PUBACK", "PUBREC", "PUBCOMP"}
OwnPC == {"unsub_send", "unsub_record", "conn_send", "disc_send", "ka_send"}
SendsOwn == \A t \in Thread : pc[t] \in OwnPC =>
              pkt[t].type \notin AckReply \cup {"SUBSCRIBE"}
NodesReply == \A n \in ack_list \cup expired :
  /\ Resent(n) => n.payload.type # "SUBSCRIBE"
  /\ n.payload.type \in AckReply => n.type = "PUBREL" /\ n.payload.id = n.id
  /\ n.type = "PUBREL" => \A m \in ServerMsg : n.id = ServerId[m] => Done(m)
Replied(m) == \/ \E j \in 1 .. Len(c2s) : c2s[j].type \in AckReply /\ c2s[j].id = ServerId[m]
              \/ Confirmed(m)
RepliedDone == \A m \in ServerMsg : Replied(m) => Done(m) \/ IsDelivering(m)
-----------------------------------------------------------------------------
(* What a step of t sends, keeps and installs.                              *)
Tells(t) ==
  \/ c2s' \in {c2s, << >>}
  \/ \E p \in Packet : /\ c2s' = Append(c2s, p)
                       /\ \/ p.type \notin AckReply \cup {"SUBSCRIBE"}
                          \/ pc[t] = "sub_send" /\ p = pkt[t] /\ pc'[t] = "sub_record"
                          \/ \E n \in expired : Resent(n) /\ p = n.payload
                          \/ /\ HandlePublish(t) \/ HandlePubrel(t)
                             /\ p.id = pkt[t].id /\ p.type # "SUBSCRIBE"
Adds(t) ==
  \A n \in ack_list' \ ack_list :
    \/ n.type = "SUBACK" /\ pc[t] = "sub_record" /\ n.id = pkt[t].id /\ n.payload = pkt[t]
    \/ /\ n.type = "PUBREL" /\ RecordPubrel(t) /\ n.id = pkt[t].id
       /\ n.payload \in {Ack("PUBREC", n.id), Corrupt}
    \/ /\ n.type \notin {"SUBACK", "PUBREL"} /\ n.payload.type \notin AckReply
       /\ Resent(n) => n.payload.type # "SUBSCRIBE"
Installs(t) ==
  /\ msg_handlers \subseteq msg_handlers' \/ CleanSession \/ Release(t)
  /\ \A x \in msg_handlers' \ msg_handlers :
       pc[t] = "handle" /\ pkt[t].type = "SUBACK" /\ SubNode(pkt[t].id, x)
Revisits == resub' \subseteq resub \cup msg_handlers
Delivers == UNCHANGED delivered \/ \E k \in Msg : delivered' = Append(delivered, k)
Learns(t) == /\ Tells(t) /\ Adds(t) /\ Scans /\ Installs(t) /\ Revisits /\ Delivers
             /\ Receives(t) /\ Numbers(t)

(* What t comes to. *)
Comes(t) ==
  /\ op' = op \/ \E c : op' = [op EXCEPT ![t] = c]
  /\ \A a \in Apps : calls'[a] \subseteq calls[a]
  /\ pc'[t] = "sub_lock" => \/ \E x \in Topic : SubscribeCall(t, x)
                            \/ t = Yield /\ \E x \in resub : Resubscribe(x)
  /\ pc'[t] = "sub_send" => SubscribeLock(t)
  /\ pc'[t] = "sub_record" => pc[t] = "sub_send" /\ UNCHANGED pkt
  /\ pc'[t] = "rec_record" => HandlePublish(t) /\ write_lock = None /\ UNCHANGED pkt
  /\ pc'[t] \in OwnPC => pkt'[t].type \notin AckReply \cup {"SUBSCRIBE"}

(* Going to none of those places. *)
LEMMA PlainComes ==
  ASSUME TypeInv, NEW t \in Thread, NEW label, Goto(t, label),
         label \notin OwnPC \cup {"sub_lock", "sub_send", "sub_record", "rec_record"},
         op' = op \/ \E c : op' = [op EXCEPT ![t] = c],
         calls' = calls \/ \E c : calls' = [calls EXCEPT ![t] = @ \ {c}]
  PROVE  Comes(t)
<1>1. pc'[t] = label
  BY GotoFrame
<1>2. \A a \in Apps : calls'[a] \subseteq calls[a]
  BY DEF TypeInv, TypeOK
<1>. QED  BY <1>1, <1>2 DEF Comes

(* Taking the lock with a packet of one's own. *)
LEMMA LockComes ==
  ASSUME TypeInv, NEW t \in Thread, NEW p, p.type \notin AckReply \cup {"SUBSCRIBE"},
         NEW label \in OwnPC, LockAndSerialize(t, p, label)
  PROVE  Comes(t)
<1>1. pc'[t] = label /\ pkt'[t] = p /\ UNCHANGED <<op, calls>>
  BY GotoFrame DEF LockAndSerialize, TypeInv, TypeOK, callVars
<1>. QED  BY <1>1 DEF Comes, OwnPC

(* Publishing. *)
LEMMA PublishComes ==
  ASSUME TypeInv, NEW t \in Thread, PublishStep(t)
  PROVE  Comes(t)
<1>1. /\ \E label \in {"pub_lock", "pub_disc", "pub_send", "pub_record", "idle", "resub"} :
           Goto(t, label)
      /\ op' = op \/ \E c : op' = [op EXCEPT ![t] = c]
      /\ calls' = calls \/ \E c : calls' = [calls EXCEPT ![t] = @ \ {c}]
  BY DEF PublishStep, PublishCall, PublishRefuse, PublishLock, PublishSend, PublishRecord,
         PublishDisc, Start, Move, LockAndSerialize, SendOrReturn, Return, callVars
<1>. QED  BY <1>1, PlainComes DEF OwnPC

(* Subscribing and unsubscribing. *)
LEMMA SubscribeComes ==
  ASSUME TypeInv, SendsOwn, NEW t \in Thread, SubscribeStep(t)
  PROVE  Comes(t)
<1>1. CASE \E x \in Topic : SubscribeCall(t, x)
  <2>1. /\ pc'[t] = "sub_lock" /\ \E c : op' = [op EXCEPT ![t] = c]
        /\ \E c : calls' = [calls EXCEPT ![t] = @ \ {c}]
    BY <1>1, GotoFrame DEF SubscribeCall, Start
  <2>2. \A a \in Apps : calls'[a] \subseteq calls[a]
    BY <2>1 DEF TypeInv, TypeOK
  <2>. QED  BY <1>1, <2>1, <2>2 DEF Comes, OwnPC
<1>2. CASE SubscribeLock(t)
  <2>1. pc'[t] = "sub_send" /\ UNCHANGED <<op, calls>>
    BY <1>2, GotoFrame DEF SubscribeLock, LockAndSerialize, callVars
  <2>. QED  BY <1>2, <2>1 DEF Comes, OwnPC
<1>3. CASE SubscribeSend(t) \/ UnsubscribeSend(t)
  <2>1. /\ UNCHANGED <<pkt, op, calls>>
        /\ \/ pc[t] = "sub_send" /\ Goto(t, "sub_record")
           \/ pc[t] = "unsub_send" /\ Goto(t, "unsub_record")
           \/ \E label \in {"idle", "resub"} : Goto(t, label)
    BY <1>3 DEF SubscribeSend, UnsubscribeSend, SendOrReturn, Return, callVars
  <2>2. CASE \E label \in {"idle", "resub"} : Goto(t, label)
    BY <2>1, <2>2, PlainComes DEF OwnPC
  <2>3. CASE pc[t] = "sub_send" /\ Goto(t, "sub_record")
    BY <2>1, <2>3, GotoFrame DEF Comes, OwnPC
  <2>4. CASE pc[t] = "unsub_send" /\ Goto(t, "unsub_record")
    BY <2>1, <2>4, GotoFrame DEF Comes, OwnPC, SendsOwn
  <2>. QED  BY <2>1, <2>2, <2>3, <2>4
<1>4. CASE UnsubscribeLock(t)
  <2>. DEFINE p == Plain("UNSUBSCRIBE", NextId, op[t].arg)
  <2>1. LockAndSerialize(t, p, "unsub_send") /\ p.type \notin AckReply \cup {"SUBSCRIBE"}
    BY <1>4 DEF UnsubscribeLock, Plain, AckReply
  <2>. QED  BY <2>1, LockComes DEF OwnPC
<1>5. CASE (\E x \in Topic : UnsubscribeCall(t, x)) \/ SubscribeRecord(t) \/ UnsubscribeRecord(t)
  <2>1. /\ \E label \in {"unsub_lock", "idle", "resub"} : Goto(t, label)
        /\ op' = op \/ \E c : op' = [op EXCEPT ![t] = c]
        /\ calls' = calls \/ \E c : calls' = [calls EXCEPT ![t] = @ \ {c}]
    BY <1>5 DEF UnsubscribeCall, SubscribeRecord, UnsubscribeRecord, Start, Return, callVars
  <2>. QED  BY <2>1, PlainComes DEF OwnPC
<1>. QED  BY <1>1, <1>2, <1>3, <1>4, <1>5 DEF SubscribeStep

(* Connecting and disconnecting. *)
LEMMA ConnectComes ==
  ASSUME TypeInv, NEW t \in Thread, ConnectStep(t) \/ DisconnectStep(t)
  PROVE  Comes(t)
<1>1. CASE ConnectLock(t)
  <2>1. LockAndSerialize(t, Ack("CONNECT", 0), "conn_send")
        /\ Ack("CONNECT", 0).type \notin AckReply \cup {"SUBSCRIBE"}
    BY <1>1 DEF ConnectLock, Ack, Plain, AckReply
  <2>. QED  BY <2>1, LockComes DEF OwnPC
<1>2. CASE DisconnectLock(t)
  <2>1. LockAndSerialize(t, Ack("DISCONNECT", 0), "disc_send")
        /\ Ack("DISCONNECT", 0).type \notin AckReply \cup {"SUBSCRIBE"}
    BY <1>2 DEF DisconnectLock, Ack, Plain, AckReply
  <2>. QED  BY <2>1, LockComes DEF OwnPC
<1>3. CASE \/ ConnectCall(t) \/ (ConnectOn(t) /\ ~ ConnectLock(t))
           \/ DisconnectCall(t) \/ DisconnectSend(t) \/ DisconnectState(t)
  <2>1. /\ \E label \in {"conn_begin", "conn_lock", "idle", "top", "read", "conn_fail", "resub",
                         "disc_lock", "disc_state"} : Goto(t, label)
        /\ op' = op \/ \E c : op' = [op EXCEPT ![t] = c]
        /\ calls' = calls \/ \E c : calls' = [calls EXCEPT ![t] = @ \ {c}]
    BY <1>3 DEF ConnectCall, ConnectOn, ConnectNetwork, ConnectReturn, ConnectSend, ConnectTimeout,
                ConnectFail, ConnectAccepted, ConnectUp, ConnectNoThread, ConnectRefused,
                DisconnectCall, DisconnectSend, DisconnectState, Start, Move, AfterConnect, Return,
                callVars
  <2>. QED  BY <2>1, PlainComes DEF OwnPC
<1>6. CASE ConnectSetState(t)
  <2>1. Goto(t, "conn_start") /\ UNCHANGED <<op, calls>>
    BY <1>6 DEF ConnectSetState, callVars
  <2>. QED  BY <2>1, PlainComes DEF OwnPC
<1>4. CASE ConnectCreateThread(t) \/ ConnectStartThread(t) \/ ConnectStoreThread(t)
  <2>1. /\ UNCHANGED <<op, calls>>
        /\ pc'[t] \in {"conn_new", "idle", "start", "top"}
    BY <1>4 DEF ConnectCreateThread, ConnectStartThread, ConnectStoreThread, ConnectUp, TypeInv,
                TypeOK, callVars
  <2>. QED  BY <2>1 DEF Comes, OwnPC
<1>5. CASE Release(t)
  <2>1. UNCHANGED <<pc, op>> /\ pc[t] = "idle" /\ calls' = [u \in Apps |-> {}]
    BY <1>5 DEF Release
  <2>. QED  BY <2>1 DEF Comes, OwnPC
<1>. QED  BY <1>1, <1>2, <1>3, <1>4, <1>5, <1>6 DEF ConnectStep, ConnectOn, DisconnectStep

(* Handling and keeping alive. *)
LEMMA HandleComes ==
  ASSUME TypeInv, NEW t \in Thread, HandleStep(t) \/ KeepAliveStep(t)
  PROVE  Comes(t)
<1>0. UNCHANGED <<op, calls>>
  BY DEF HandleStep, Read, ReadTimeout, HandleNotConnected, HandleConnack, HandleAck,
         HandleSuback, HandleUnsuback, HandlePublish, RecordPubrel, HandlePubrec, HandlePubrel,
         Unrecord, HandlePingresp, KeepAliveStep, KeepAliveQuiet, KeepAlivePing, KeepAliveSend,
         KeepAliveDead, KeepAliveDisc, Move, callVars
<1>1. CASE HandlePublish(t)
  <2>1. Goto(t, "keepalive") \/ (Goto(t, "rec_record") /\ write_lock = None /\ UNCHANGED pkt)
    BY <1>1 DEF HandlePublish, Finish
  <2>2. pc'[t] = "keepalive" \/ (pc'[t] = "rec_record" /\ write_lock = None /\ UNCHANGED pkt)
    BY <2>1, GotoFrame
  <2>. QED  BY <1>0, <1>1, <2>2 DEF Comes, OwnPC
<1>2. CASE KeepAlivePing(t)
  <2>1. pc'[t] = "ka_send" /\ pkt'[t] = Ack("PINGREQ", 0)
    BY <1>2, GotoFrame DEF KeepAlivePing, TypeInv, TypeOK
  <2>. QED  BY <1>0, <2>1 DEF Comes, OwnPC, Ack, Plain, AckReply
<1>3. CASE HandleStep(t) /\ ~ HandlePublish(t)
  <2>1. \E label \in {"handle", "keepalive", "scan", "unrecord"} : Goto(t, label)
    BY <1>3 DEF HandleStep, Read, ReadTimeout, HandleNotConnected, HandleConnack, HandleAck,
         HandleSuback, HandleUnsuback, RecordPubrel, HandlePubrec, HandlePubrel,
         Unrecord, HandlePingresp, Finish, Move
  <2>. QED  BY <1>0, <2>1, PlainComes DEF OwnPC
<1>4. CASE KeepAliveStep(t) /\ ~ KeepAlivePing(t)
  <2>1. \E label \in {"read", "scan", "conn_fail", "top", "ka_disc", "clean"} : Goto(t, label)
    BY <1>4 DEF KeepAliveStep, KeepAliveQuiet, KeepAliveSend, KeepAliveDead, KeepAliveDisc, Move,
                Handled, HandleError
  <2>. QED  BY <1>0, <2>1, PlainComes DEF OwnPC
<1>. QED  BY <1>1, <1>2, <1>3, <1>4

(* The loop of the yield thread. *)
LEMMA YieldComes == ASSUME TypeInv, YieldStep PROVE Comes(Yield)
<1>0. Yield \in Thread /\ UNCHANGED calls
  BY DEF Thread, YieldStep, YieldStart, YieldSuspend, YieldTop, ReconnectBeaten, ReconnectScan, Resubscribe,
         AckListScan, AckHandlerResend, AckHandlerDestroy, AckListScanned, CleanSession,
         YieldDestroy, Move, callVars
<1>1. CASE \E x \in resub : Resubscribe(x)
  <2>1. \/ Goto(Yield, "sub_lock") \/ Goto(Yield, "resub")
    BY <1>1 DEF Resubscribe
  <2>2. pc'[Yield] \in {"sub_lock", "resub"} /\ \E c : op' = [op EXCEPT ![Yield] = c]
    BY <1>0, <1>1, <2>1, GotoFrame DEF Resubscribe
  <2>. QED  BY <1>0, <1>1, <2>2 DEF Comes, OwnPC
<1>2. CASE YieldStep /\ ~ \E x \in resub : Resubscribe(x)
  <2>1. /\ UNCHANGED op
        /\ \/ UNCHANGED pc /\ pc[Yield] = "scan_loop"
           \/ \E label \in {"top", "start_stop", "suspended", "dead", "clean", "read",
                            "conn_begin", "resub", "scan_loop", "destroy"} : Goto(Yield, label)
    BY <1>2 DEF YieldStep, YieldStart, YieldSuspend, YieldTop, ReconnectBeaten, ReconnectScan,
         AckListScan, AckHandlerResend, AckHandlerDestroy, AckListScanned, CleanSession,
         YieldDestroy, Move, callVars
  <2>2. CASE UNCHANGED pc /\ pc[Yield] = "scan_loop"
    BY <1>0, <2>1, <2>2 DEF Comes, OwnPC
  <2>. QED  BY <1>0, <2>1, <2>2, PlainComes DEF OwnPC
<1>. QED  BY <1>1, <1>2

(* Together. *)
LEMMA StepComes ==
  ASSUME TypeInv, SendsOwn, NEW t \in Thread, Step(t)
  PROVE  Comes(t)
BY PublishComes, SubscribeComes, ConnectComes, HandleComes, YieldComes DEF Step, ThreadStep

(* A step that changes nothing but what is sent and read. *)
LEMMA QuietLearns ==
  ASSUME NEW t, UNCHANGED <<ack_list, msg_handlers, delivered>>,
         expired' \subseteq expired \cup ack_list, Revisits, Tells(t), Receives(t),
         packet_id' \in {packet_id, NextId}
  PROVE  Learns(t)
BY DEF Learns, Adds, Scans, Installs, Delivers, Numbers

(* What leaves the write buffer is the packet of t or no packet at all.     *)
LEMMA BufferTells ==
  ASSUME TypeInv, SendsOwn, NEW t \in Thread,
         SendFails \/ (SendOk(InBuffer(t)) /\ (pc[t] = "sub_send" => pc'[t] = "sub_record")),
         pc[t] \in OwnPC \cup {"pub_send", "sub_send"}
  PROVE  Tells(t) /\ UNCHANGED s2c
<1>1. InBuffer(t) \in Packet
  BY InBufferType
<1>2. InBuffer(t) \in {pkt[t], Corrupt} /\ Corrupt.type \notin AckReply \cup {"SUBSCRIBE"}
  BY CorruptIsPacket DEF InBuffer, AckReply
<1>3. \/ c2s' = c2s
      \/ /\ c2s' = Append(c2s, InBuffer(t))
         /\ pc[t] = "sub_send" => pc'[t] = "sub_record"
  BY DEF SendOk, SendFails, netVars
<1>4. UNCHANGED s2c
  BY DEF SendOk, SendFails, netVars
<1>5. pc[t] = "pub_send" => pkt[t].type = "PUBLISH"
  BY DEF TypeInv, Busy
<1>. QED  BY <1>1, <1>2, <1>3, <1>4, <1>5 DEF Tells, SendsOwn, AckReply

(* Publishing. *)
LEMMA PublishLearns ==
  ASSUME TypeInv, SendsOwn, NEW t \in Thread, PublishStep(t)
  PROVE  Learns(t)
<1>1. CASE PublishRecord(t)
  <2>1. /\ UNCHANGED <<c2s, s2c, packet_id, expired, msg_handlers, resub, delivered>>
        /\ \/ UNCHANGED ack_list
           \/ \E p, type : /\ type \in {"PUBACK", "PUBREC"} /\ p.type \notin AckReply \cup {"SUBSCRIBE"}
                           /\ ack_list' = ack_list \cup
                                {[type |-> type, id |-> pkt[t].id, payload |-> p]}
    <3>. DEFINE saved == IF write_buf = pkt[t] THEN [pkt[t] EXCEPT !.dup = TRUE] ELSE Corrupt
                type == IF Qos[pkt[t].body] = 1 THEN "PUBACK" ELSE "PUBREC"
    <3>1. pkt[t].type = "PUBLISH" /\ pkt[t] \in Packet
      BY <1>1 DEF PublishRecord, TypeInv, TypeOK, Busy
    <3>2. saved.type \notin AckReply \cup {"SUBSCRIBE"}
      BY <3>1, CorruptIsPacket DEF AckReply, Packet
    <3>3. UNCHANGED ack_list \/ AddNode(t, type, pkt[t].id, saved)
      BY <1>1 DEF PublishRecord, ackVars
    <3>4. UNCHANGED <<c2s, s2c, packet_id, expired, msg_handlers, resub, delivered>>
      BY <1>1 DEF PublishRecord, sessVars, netVars, iterVars
    <3>5. type \in {"PUBACK", "PUBREC"}
      OBVIOUS
    <3>. HIDE DEF saved, type
    <3>. QED  BY <3>2, <3>3, <3>4, <3>5 DEF AddNode
  <2>. QED  BY <2>1 DEF Learns, Tells, Adds, Scans, Installs, Revisits, Delivers, Receives, Numbers
<1>2. CASE PublishSend(t)
  <2>1. /\ pc[t] = "pub_send" /\ (SendFails \/ SendOk(InBuffer(t)))
        /\ UNCHANGED <<ack_list, msg_handlers, delivered, expired, packet_id, resub>>
    BY <1>2 DEF PublishSend, SendOrReturn, ackVars, histVars, iterVars, sessVars
  <2>. QED  BY <2>1, BufferTells, QuietLearns DEF Receives, Revisits
<1>3. CASE (\E m \in Msg : PublishCall(t, m)) \/ PublishRefuse(t) \/ PublishLock(t) \/ PublishDisc(t)
  <2>1. /\ UNCHANGED <<ack_list, msg_handlers, delivered, expired, resub, c2s, s2c>>
        /\ packet_id' \in {packet_id, NextId}
    BY <1>3 DEF PublishCall, PublishRefuse, PublishLock, PublishDisc, Start, Move,
                LockAndSerialize, ackVars, histVars, iterVars, netVars, sessVars
  <2>. QED  BY <2>1, QuietLearns DEF Tells, Receives, Revisits
<1>. QED  BY <1>1, <1>2, <1>3 DEF PublishStep

(* Subscribing and unsubscribing. *)
LEMMA SubscribeLearns ==
  ASSUME TypeInv, SendsOwn, NEW t \in Thread, SubscribeStep(t)
  PROVE  Learns(t)
<1>1. CASE SubscribeRecord(t) \/ UnsubscribeRecord(t)
  <2>1. /\ UNCHANGED <<c2s, s2c, packet_id, expired, msg_handlers, resub, delivered>>
        /\ \/ UNCHANGED ack_list
           \/ /\ pc[t] = "sub_record"
              /\ ack_list' = ack_list \cup {[type |-> "SUBACK", id |-> pkt[t].id, payload |-> pkt[t]]}
           \/ /\ pc[t] = "unsub_record"
              /\ ack_list' = ack_list \cup {[type |-> "UNSUBACK", id |-> pkt[t].id, payload |-> pkt[t]]}
    BY <1>1 DEF SubscribeRecord, UnsubscribeRecord, Record, AddNode, sessVars, netVars, iterVars,
                ackVars, histVars
  <2>2. pc[t] = "unsub_record" => pkt[t].type \notin AckReply
    BY DEF SendsOwn, OwnPC
  <2>. QED  BY <2>1, <2>2
            DEF Learns, Tells, Adds, Scans, Installs, Revisits, Delivers, Receives, Numbers, Resent
<1>2. CASE SubscribeSend(t) \/ UnsubscribeSend(t)
  <2>1. /\ pc[t] \in {"sub_send", "unsub_send"}
        /\ SendFails \/ (SendOk(InBuffer(t)) /\ (pc[t] = "sub_send" => Goto(t, "sub_record")))
        /\ UNCHANGED <<ack_list, msg_handlers, delivered, expired, packet_id, resub>>
    BY <1>2 DEF SubscribeSend, UnsubscribeSend, SendOrReturn, ackVars, histVars, iterVars, sessVars
  <2>. QED  BY <2>1, BufferTells, QuietLearns, GotoFrame DEF Receives, Revisits, OwnPC
<1>3. CASE \/ \E x \in Topic : SubscribeCall(t, x) \/ UnsubscribeCall(t, x)
           \/ SubscribeLock(t) \/ UnsubscribeLock(t)
  <2>1. /\ UNCHANGED <<ack_list, msg_handlers, delivered, expired, resub, c2s, s2c>>
        /\ packet_id' \in {packet_id, NextId}
    BY <1>3 DEF SubscribeCall, UnsubscribeCall, SubscribeLock, UnsubscribeLock, Start,
                LockAndSerialize, ackVars, histVars, iterVars, netVars, sessVars
  <2>. QED  BY <2>1, QuietLearns DEF Tells, Receives, Revisits
<1>. QED  BY <1>1, <1>2, <1>3 DEF SubscribeStep

(* Connecting and disconnecting. *)
LEMMA ConnectLearns ==
  ASSUME TypeInv, SendsOwn, NEW t \in Thread, ConnectStep(t) \/ DisconnectStep(t)
  PROVE  Learns(t)
<1>1. CASE ConnectSend(t) \/ DisconnectSend(t)
  <2>1. /\ pc[t] \in OwnPC /\ pc[t] # "sub_send" /\ (SendFails \/ SendOk(InBuffer(t)))
        /\ UNCHANGED <<ack_list, msg_handlers, delivered, expired, packet_id, resub>>
    BY <1>1 DEF ConnectSend, DisconnectSend, OwnPC, ackVars, histVars, iterVars, sessVars
  <2>. QED  BY <2>1, BufferTells, QuietLearns DEF Receives, Revisits
<1>2. CASE Release(t)
  <2>1. /\ UNCHANGED <<delivered, expired, resub, c2s, s2c>>
        /\ ack_list' = {} /\ msg_handlers' = {}
    BY <1>2 DEF Release, histVars, iterVars, netVars
  <2>. QED  BY <1>2, <2>1
            DEF Learns, Tells, Adds, Scans, Installs, Revisits, Delivers, Receives, Numbers
<1>3. CASE \/ (ConnectStep(t) /\ ~ ConnectSend(t))
           \/ DisconnectCall(t) \/ DisconnectLock(t) \/ DisconnectState(t)
  <2>1. /\ UNCHANGED <<ack_list, msg_handlers, delivered, expired, packet_id>>
        /\ resub' \in {resub, msg_handlers}
        /\ UNCHANGED <<c2s, s2c>> \/ (c2s' = << >> /\ s2c' = << >>)
    BY <1>3 DEF ConnectStep, ConnectCall, ConnectNetwork, ConnectReturn, ConnectLock,
        ConnectTimeout, ConnectFail, ConnectAccepted, ConnectUp, ConnectCreateThread,
        ConnectNoThread, ConnectStoreThread, ConnectSetState, ConnectStartThread, ConnectRefused, DisconnectCall,
        DisconnectLock, DisconnectState, Start, Move, LockAndSerialize, ackVars, histVars,
        iterVars, netVars, sessVars
  <2>. QED  BY <2>1, QuietLearns DEF Tells, Receives, Revisits
<1>. QED  BY <1>1, <1>2, <1>3 DEF DisconnectStep, ConnectStep

(* Handling and keeping alive. *)
LEMMA HandleLearns ==
  ASSUME TypeInv, SendsOwn, NEW t \in Thread, HandleStep(t) \/ KeepAliveStep(t)
  PROVE  Learns(t)
<1>0. pkt[t] \in Packet /\ pkt[t].id \in 0 .. MaxPacketId
  BY DEF TypeInv, TypeOK, Packet
<1>1. CASE Read(t)
  <2>1. UNCHANGED <<ack_list, msg_handlers, delivered, expired, packet_id, resub, c2s>>
    BY <1>1 DEF Read, ackVars, histVars, iterVars, sessVars
  <2>. QED  BY <1>1, <2>1, QuietLearns DEF Tells, Receives, Revisits
<1>2. CASE HandleAck(t) \/ HandleUnsuback(t) \/ Unrecord(t)
  <2>1. /\ UNCHANGED <<msg_handlers, delivered, expired, packet_id, resub, c2s, s2c>>
        /\ ack_list' \subseteq ack_list
    BY <1>2 DEF HandleAck, HandleUnsuback, Unrecord, UnrecordNodes, histVars, iterVars, netVars,
                sessVars
  <2>. QED  BY <2>1
            DEF Learns, Tells, Adds, Scans, Installs, Revisits, Delivers, Receives, Numbers
<1>3. CASE HandleSuback(t)
  <2>1. /\ UNCHANGED <<delivered, expired, packet_id, resub, c2s, s2c>>
        /\ ack_list' \subseteq ack_list /\ msg_handlers \subseteq msg_handlers'
        /\ pc[t] = "handle" /\ pkt[t].type = "SUBACK"
        /\ \A x \in msg_handlers' \ msg_handlers : SubNode(pkt[t].id, x)
    BY <1>3 DEF HandleSuback, UnrecordNodes, Handling, Matching, SubNode, histVars, iterVars, netVars
  <2>. QED  BY <2>1
            DEF Learns, Tells, Adds, Scans, Installs, Revisits, Delivers, Receives, Numbers
<1>4. CASE HandlePublish(t)
  <2>. DEFINE ack == Ack(IF Qos[pkt[t].body] = 1 THEN "PUBACK" ELSE "PUBREC", pkt[t].id)
  <2>1. /\ UNCHANGED <<ack_list, msg_handlers, expired, packet_id, resub, s2c>>
        /\ c2s' \in {c2s, Append(c2s, ack)}
        /\ UNCHANGED delivered \/ delivered' = Append(delivered, pkt[t].body)
    BY <1>4 DEF HandlePublish, Deliver, SendOk, SendFails, ackVars, histVars, iterVars, netVars,
                sessVars
  <2>2. ack \in Packet /\ ack.id = pkt[t].id /\ ack.type # "SUBSCRIBE"
    BY <1>0, AckIsPacket DEF PacketType, Ack, Plain
  <2>3. pkt[t].body \in Msg
    BY <1>0, <1>4 DEF HandlePublish, Handling, Packet
  <2>. HIDE DEF ack
  <2>4. Tells(t) /\ Delivers
    BY <1>4, <2>1, <2>2, <2>3 DEF Tells, Delivers
  <2>. QED  BY <2>1, <2>4 DEF Learns, Adds, Scans, Installs, Revisits, Receives, Numbers
<1>5. CASE RecordPubrel(t)
  <2>1. /\ UNCHANGED <<msg_handlers, expired, packet_id, resub, c2s, s2c>>
        /\ UNCHANGED delivered \/ delivered' = Append(delivered, pkt[t].body)
        /\ \/ UNCHANGED ack_list
           \/ \E p \in {Ack("PUBREC", pkt[t].id), Corrupt} : ack_list' =
                ack_list \cup {[type |-> "PUBREL", id |-> pkt[t].id, payload |-> p]}
    BY <1>5 DEF RecordPubrel, AddNode, Deliver, histVars, iterVars, netVars, sessVars, ackVars
  <2>2. pkt[t].body \in Msg
    BY <1>0, <1>5 DEF RecordPubrel, TypeInv, Busy, Packet
  <2>3. Adds(t)
    BY <1>5, <2>1 DEF Adds
  <2>. QED  BY <2>1, <2>2, <2>3 DEF Learns, Tells, Scans, Installs, Revisits, Delivers, Receives, Numbers
<1>6. CASE HandlePubrec(t)
  <2>. DEFINE rel == Ack("PUBREL", pkt[t].id)
  <2>1. /\ UNCHANGED <<msg_handlers, delivered, expired, packet_id, resub, s2c>>
        /\ c2s' \in {c2s, Append(c2s, rel)}
        /\ \/ UNCHANGED ack_list
           \/ ack_list' = ack_list \cup {[type |-> "PUBCOMP", id |-> pkt[t].id, payload |-> rel]}
    BY <1>6 DEF HandlePubrec, AddNode, SendOk, SendFails, histVars, iterVars, netVars, sessVars,
                ackVars
  <2>2. rel \in Packet /\ rel.type \notin AckReply \cup {"SUBSCRIBE"}
    BY <1>0, AckIsPacket DEF PacketType, AckReply
  <2>. HIDE DEF rel
  <2>. QED  BY <2>1, <2>2
            DEF Learns, Tells, Adds, Scans, Installs, Revisits, Delivers, Receives, Numbers
<1>7. CASE HandlePubrel(t)
  <2>. DEFINE comp == Ack("PUBCOMP", pkt[t].id)
  <2>1. /\ UNCHANGED <<ack_list, msg_handlers, delivered, expired, packet_id, resub, s2c>>
        /\ c2s' \in {c2s, Append(c2s, comp)}
    BY <1>7 DEF HandlePubrel, SendOk, SendFails, ackVars, histVars, iterVars, netVars, sessVars
  <2>2. comp \in Packet /\ comp.id = pkt[t].id /\ comp.type # "SUBSCRIBE"
    BY <1>0, AckIsPacket DEF PacketType, Ack, Plain
  <2>. HIDE DEF comp
  <2>. QED  BY <1>7, <2>1, <2>2, QuietLearns DEF Tells, Receives, Revisits
<1>8. CASE KeepAliveSend(t)
  <2>1. /\ pc[t] \in OwnPC /\ pc[t] # "sub_send" /\ (SendFails \/ SendOk(InBuffer(t)))
        /\ UNCHANGED <<ack_list, msg_handlers, delivered, expired, packet_id, resub>>
    BY <1>8 DEF KeepAliveSend, OwnPC, ackVars, histVars, iterVars, sessVars
  <2>. QED  BY <2>1, BufferTells, QuietLearns DEF Receives, Revisits
<1>9. CASE \/ ReadTimeout(t) \/ HandleNotConnected(t) \/ HandleConnack(t) \/ HandlePingresp(t)
           \/ KeepAliveQuiet(t) \/ KeepAlivePing(t) \/ KeepAliveDead(t) \/ KeepAliveDisc(t)
  <2>1. UNCHANGED <<ack_list, msg_handlers, delivered, expired, c2s, s2c, packet_id, resub>>
    BY <1>9 DEF ReadTimeout, HandleNotConnected, HandleConnack, HandlePingresp, KeepAliveQuiet,
         KeepAlivePing, KeepAliveDead, KeepAliveDisc, Move, ackVars, histVars, iterVars, netVars,
         sessVars
  <2>. QED  BY <2>1, QuietLearns DEF Tells, Receives, Revisits
<1>. QED  BY <1>1, <1>2, <1>3, <1>4, <1>5, <1>6, <1>7, <1>8, <1>9 DEF HandleStep, KeepAliveStep

(* The loop of the yield thread. *)
LEMMA YieldLearns == ASSUME TypeInv, YieldStep PROVE Learns(Yield)
<1>1. CASE \E n \in expired : AckHandlerResend(n)
  <2>1. PICK n \in expired : AckHandlerResend(n)
    BY <1>1
  <2>2. /\ UNCHANGED <<ack_list, msg_handlers, delivered, packet_id, resub, s2c>>
        /\ expired' \subseteq expired /\ Resent(n) /\ c2s' \in {c2s, Append(c2s, n.payload)}
    BY <2>1 DEF AckHandlerResend, SendOk, SendFails, ackVars, histVars, sessVars, netVars
  <2>3. n.payload \in Packet
    BY DEF TypeInv, TypeOK, Node
  <2>. QED  BY <2>2, <2>3, QuietLearns DEF Tells, Receives, Revisits
<1>2. CASE (\E n \in expired : AckHandlerDestroy(n)) \/ CleanSession
  <2>1. /\ UNCHANGED <<delivered, packet_id, resub>> /\ expired' \subseteq expired
        /\ (c2s' = << >> /\ s2c' = << >>) \/ UNCHANGED <<c2s, s2c>>
        /\ ack_list' \subseteq ack_list /\ msg_handlers' \subseteq msg_handlers
        /\ CleanSession \/ UNCHANGED msg_handlers
    BY <1>2 DEF AckHandlerDestroy, CleanSession, histVars, iterVars, sessVars, netVars
  <2>. QED  BY <2>1
            DEF Learns, Tells, Adds, Scans, Installs, Revisits, Delivers, Receives, Numbers
<1>3. CASE YieldStep /\ ~ CleanSession /\ ~ \E n \in expired : AckHandlerResend(n) \/ AckHandlerDestroy(n)
  <2>1. /\ UNCHANGED <<ack_list, msg_handlers, delivered, packet_id, c2s, s2c>>
        /\ expired' \subseteq expired \cup ack_list /\ resub' \subseteq resub \cup msg_handlers
    BY <1>3 DEF YieldStep, YieldStart, YieldSuspend, YieldTop, ReconnectBeaten, ReconnectScan, Resubscribe,
         AckListScan, AckListScanned, YieldDestroy, Move, histVars, iterVars, sessVars, netVars,
         ackVars
  <2>. QED  BY <2>1, QuietLearns DEF Tells, Receives, Revisits
<1>. QED  BY <1>1, <1>2, <1>3 DEF YieldStep

(* Together. *)
LEMMA StepLearns ==
  ASSUME TypeInv, SendsOwn, NEW t \in Thread, Step(t)
  PROVE  Learns(t)
BY PublishLearns, SubscribeLearns, ConnectLearns, HandleLearns, YieldLearns DEF Step, ThreadStep
-----------------------------------------------------------------------------
(* How a step of the client moves a request ...                             *)

(* An application thread asks for what was in its calls.                    *)
LEMMA SubscribeTaken ==
  ASSUME TypeInv, NEW t \in Thread, NEW x, SubscribeCall(t, x)
  PROVE  /\ t \in Apps /\ pc[t] = "idle" /\ ToAsk(t, x) /\ ~ ToAsk(t, x)'
         /\ op'[t] = Call("subscribe", x) /\ UNCHANGED <<c2s, packet_id>>
BY DEF SubscribeCall, Start, ToAsk, TypeInv, TypeOK, netVars, sessVars

(* A thread that asks did so before, or has come to it now.                 *)
LEMMA AskingFrom ==
  ASSUME TypeInv, NEW t \in Thread, Frame(t), Comes(t), NEW x, NEW u \in Thread, Asking(u, x)'
  PROVE  \/ Asking(u, x)
         \/ u = t /\ SubscribeCall(t, x)
         \/ u = t /\ t = Yield /\ Resubscribe(x)
<1>1. op'[u] = op[u] \/ u = t
  BY DEF Comes, TypeInv, TypeOK
<1>2. CASE u # t
  <2>1. pkt'[u] = pkt[u] /\ (pc'[u] \in {"sub_lock", "sub_send"} => pc[u] = pc'[u])
    BY <1>2, FramePackets DEF Frame
  <2>. QED  BY <1>1, <1>2, <2>1 DEF Asking
<1>3. CASE u = t /\ pc'[t] = "sub_lock"
  <2>1. ASSUME NEW y, SubscribeCall(t, y) PROVE op'[t].arg = y
    <3>1. op'[t] = Call("subscribe", y)
      BY <2>1, SubscribeTaken
    <3>. QED  BY <3>1 DEF Call
  <2>2. \A y : t = Yield /\ Resubscribe(y) => op'[t].arg = y
    BY DEF Resubscribe, Call, TypeInv, TypeOK
  <2>3. op'[t].arg = x
    BY <1>3 DEF Asking
  <2>. QED  BY <1>3, <2>1, <2>2, <2>3 DEF Comes
<1>4. CASE u = t /\ pc'[t] = "sub_send"
  <2>1. SubscribeLock(t)
    BY <1>4 DEF Comes
  <2>2. pc[t] = "sub_lock" /\ pkt'[t] = Plain("SUBSCRIBE", NextId, op[t].arg)
    BY <2>1 DEF SubscribeLock, LockAndSerialize, TypeInv, TypeOK
  <2>. QED  BY <1>4, <2>2 DEF Asking, Plain
<1>. QED  BY <1>2, <1>3, <1>4 DEF Asking

(* What is sent for x leaves the thread that asked.                         *)
LEMMA RequestsFrom ==
  ASSUME TypeInv, NodesReply, NEW t \in Thread, Learns(t)
  PROVE  \/ c2s' \in {c2s, << >>}
         \/ \E p \in Packet :
              /\ c2s' = Append(c2s, p)
              /\ p.type = "SUBSCRIBE" => pc[t] = "sub_send" /\ p = pkt[t] /\ pc'[t] = "sub_record"
<1>1. \A n \in expired : Resent(n) => n.payload.type # "SUBSCRIBE"
  BY DEF NodesReply
<1>. QED  BY <1>1 DEF Learns, Tells

(* Nobody waits for x who did not, unless x is subscribed to again.         *)
LEMMA WaitingFrom ==
  ASSUME TypeInv, NodesReply, NEW t \in Thread, Frame(t), Comes(t), Learns(t), NEW x,
         ~ (t = Yield /\ Resubscribe(x)), Waiting(x)'
  PROVE  Waiting(x)
<1>1. CASE \E a \in Apps : ToAsk(a, x)'
  BY <1>1 DEF Waiting, ToAsk, Comes
<1>2. CASE \E u \in Thread : Asking(u, x)'
  <2>1. \E u \in Thread : Asking(u, x) \/ SubscribeCall(t, x)
    BY <1>2, AskingFrom
  <2>. QED  BY <2>1, SubscribeTaken DEF Waiting
<1>3. CASE \E j \in 1 .. Len(c2s') : Requests(c2s'[j], x)
  <2>1. c2s \in Seq(Packet)
    BY DEF TypeInv, TypeOK
  <2>2. CASE c2s' \in {c2s, << >>}
    BY <1>3, <2>2 DEF Waiting
  <2>3. ASSUME NEW p \in Packet, c2s' = Append(c2s, p),
               p.type = "SUBSCRIBE" => pc[t] = "sub_send" /\ p = pkt[t]
        PROVE  Waiting(x)
    <3>1. Requests(p, x) \/ \E j \in 1 .. Len(c2s) : Requests(c2s[j], x)
      BY <1>3, <2>1, <2>3
    <3>. QED  BY <2>3, <3>1 DEF Waiting, Requests, Asking
  <2>. QED  BY <2>2, <2>3, RequestsFrom
<1>. QED  BY <1>1, <1>2, <1>3 DEF Waiting, Asking, Requests, ToAsk

(* One request stays one. *)
LEMMA SingleStays ==
  ASSUME TypeInv, NodesReply, NEW t \in Thread, Frame(t), Comes(t), Learns(t), NEW x,
         ~ (t = Yield /\ Resubscribe(x)), Single(x)
  PROVE  Single(x)'
<1>0. c2s \in Seq(Packet) /\ Apps \subseteq Thread
  BY DEF TypeInv, TypeOK, Thread
<1>1. \A a \in Apps : ToAsk(a, x)' => ToAsk(a, x) /\ ~ (a = t /\ SubscribeCall(t, x))
  BY SubscribeTaken DEF ToAsk, Comes
<1>2. \A u \in Thread : Asking(u, x)' => Asking(u, x) \/ (u = t /\ SubscribeCall(t, x))
  BY AskingFrom
<1>3. SubscribeCall(t, x) => t \in Apps /\ ToAsk(t, x) /\ c2s' = c2s
  BY SubscribeTaken
<1>4. ASSUME NEW j \in 1 .. Len(c2s'), Requests(c2s'[j], x)
      PROVE  \/ j \in 1 .. Len(c2s) /\ Requests(c2s[j], x)
             \/ j = Len(c2s) + 1 /\ Asking(t, x) /\ ~ Asking(t, x)' /\ ~ SubscribeCall(t, x)
  <2>1. CASE c2s' \in {c2s, << >>}
    BY <1>4, <2>1
  <2>2. ASSUME NEW p \in Packet, c2s' = Append(c2s, p), Requests(p, x),
               p.type = "SUBSCRIBE" => pc[t] = "sub_send" /\ p = pkt[t] /\ pc'[t] = "sub_record"
        PROVE  Asking(t, x) /\ ~ Asking(t, x)' /\ ~ SubscribeCall(t, x)
    <3>1. pc[t] = "sub_send" /\ p = pkt[t] /\ pc'[t] = "sub_record"
      BY <2>2 DEF Requests
    <3>. QED  BY <2>2, <3>1, SubscribeTaken DEF Requests, Asking
  <2>3. ASSUME NEW p \in Packet, c2s' = Append(c2s, p)
        PROVE  (j \in 1 .. Len(c2s) /\ c2s'[j] = c2s[j]) \/ (j = Len(c2s) + 1 /\ c2s'[j] = p)
    BY <1>0, <1>4, <2>3
  <2>. QED  BY <1>4, <2>1, <2>2, <2>3, RequestsFrom
<1>5. \A a, b \in Apps : ToAsk(a, x)' /\ ToAsk(b, x)' => a = b
  BY <1>1 DEF Single
<1>6. \A u, v \in Thread : Asking(u, x)' /\ Asking(v, x)' => u = v
  BY <1>2, <1>3 DEF Single
<1>7. \A j, k \in 1 .. Len(c2s') : Requests(c2s'[j], x) /\ Requests(c2s'[k], x) => j = k
  BY <1>4 DEF Single
<1>8. \A a \in Apps, u \in Thread : ~ (ToAsk(a, x)' /\ Asking(u, x)')
  BY <1>1, <1>2, <1>3 DEF Single
<1>9. \A a \in Apps, j \in 1 .. Len(c2s') : ~ (ToAsk(a, x)' /\ Requests(c2s'[j], x))
  BY <1>1, <1>4 DEF Single
<1>10. \A u \in Thread, j \in 1 .. Len(c2s') : ~ (Asking(u, x)' /\ Requests(c2s'[j], x))
  <2>. SUFFICES ASSUME NEW u \in Thread, NEW j \in 1 .. Len(c2s'), Asking(u, x)',
                       Requests(c2s'[j], x)
                PROVE  FALSE
    OBVIOUS
  <2>1. CASE j \in 1 .. Len(c2s) /\ Requests(c2s[j], x)
    BY <1>2, <1>3, <2>1 DEF Single
  <2>2. CASE Asking(t, x) /\ ~ Asking(t, x)' /\ ~ SubscribeCall(t, x)
    BY <1>2, <2>2 DEF Single
  <2>. QED  BY <1>4, <2>1, <2>2
<1>. QED  BY <1>5, <1>6, <1>7, <1>8, <1>9, <1>10 DEF Single, ToAsk, Asking, Requests

(* ... and an identifier that stands for a topic.                           *)
LEMMA StandsFrom ==
  ASSUME TypeInv, NodesReply, NEW t \in Thread, Frame(t), Comes(t), Learns(t), NEW i, NEW x,
         Stands(i, x)'
  PROVE  Stands(i, x) \/ (SubscribeLock(t) /\ i = NextId /\ x = op[t].arg)
<1>0. \A u \in Thread : pc[u] \in {"sub_send", "sub_record"} => pkt[u].type = "SUBSCRIBE"
  BY DEF TypeInv, Busy
<1>1. CASE SubWire(i, x)'
  <2>1. c2s \in Seq(Packet)
    BY DEF TypeInv, TypeOK
  <2>2. CASE c2s' \in {c2s, << >>}
    BY <1>1, <2>2 DEF SubWire, Stands
  <2>3. ASSUME NEW p \in Packet, c2s' = Append(c2s, p),
               p.type = "SUBSCRIBE" => pc[t] = "sub_send" /\ p = pkt[t]
        PROVE  Stands(i, x)
    <3>1. IsSub(p, i, x) \/ \E j \in 1 .. Len(c2s) : IsSub(c2s[j], i, x)
      BY <1>1, <2>1, <2>3 DEF SubWire
    <3>2. IsSub(p, i, x) => SubThread(i, x)
      BY <2>3 DEF IsSub, Requests, SubThread
    <3>. QED  BY <3>1, <3>2 DEF Stands, SubWire
  <2>. QED  BY <2>2, <2>3, RequestsFrom
<1>2. CASE SubThread(i, x)'
  <2>1. PICK u \in Thread : pc'[u] \in {"sub_send", "sub_record"} /\ IsSub(pkt'[u], i, x)
    BY <1>2 DEF SubThread, IsSub, Requests
  <2>2. CASE u # t
    <3>1. pkt'[u] = pkt[u] /\ pc'[u] = pc[u]
      BY <2>1, <2>2, FramePackets DEF Frame
    <3>. QED  BY <2>1, <3>1 DEF Stands, SubThread
  <2>3. CASE u = t /\ pc'[t] = "sub_record"
    BY <2>1, <2>3 DEF Comes, Stands, SubThread
  <2>4. CASE u = t /\ pc'[t] = "sub_send"
    <3>1. SubscribeLock(t)
      BY <2>4 DEF Comes
    <3>2. pkt'[t] = Plain("SUBSCRIBE", NextId, op[t].arg)
      BY <3>1 DEF SubscribeLock, LockAndSerialize, TypeInv, TypeOK
    <3>. QED  BY <2>1, <2>4, <3>1, <3>2 DEF IsSub, Requests, Plain
  <2>. QED  BY <2>1, <2>2, <2>3, <2>4
<1>3. CASE SubNode(i, x)'
  <2>1. PICK n \in ack_list' : n.type = "SUBACK" /\ n.id = i /\ n.payload.body = x
    BY <1>3 DEF SubNode
  <2>2. CASE n \in ack_list
    BY <2>1, <2>2 DEF Stands, SubNode
  <2>3. CASE n \notin ack_list
    <3>1. pc[t] = "sub_record" /\ n.id = pkt[t].id /\ n.payload = pkt[t]
      BY <2>1, <2>3 DEF Learns, Adds
    <3>. QED  BY <1>0, <2>1, <3>1 DEF Stands, SubThread, IsSub, Requests
  <2>. QED  BY <2>2, <2>3
<1>. QED  BY <1>1, <1>2, <1>3 DEF Stands, SubWire, SubThread, SubNode, IsSub, Requests

(* The identifier a subscription is given is new. *)
LEMMA SubscribeNew ==
  ASSUME IdsLast, TypeInv, NEW t \in Thread, SubscribeLock(t), NEW i, i = NextId
  PROVE  i \in Ids /\ ~ Used(i) /\ Used(i)'
<1>1. pc[t] = "sub_lock" /\ packet_id' = i
  BY DEF SubscribeLock
<1>2. ~ Zeroed
  BY <1>1 DEF Zeroed, Gone, Thread
<1>3. packet_id \in Nat /\ i = packet_id + 1 /\ i \in 1 .. MaxPacketId
  BY NextIdType DEF TypeInv, TypeOK, IdsLast, NextId
<1>4. i \in Ids /\ ~ (i <= packet_id) /\ i <= packet_id'
  BY <1>1, <1>3, BoundAssumption DEF Ids
<1>. QED  BY <1>2, <1>4 DEF Used

(* A grant is received, not made up. *)
LEMMA GrantedFrom ==
  ASSUME TypeInv, NEW t \in Thread, Frame(t), Receives(t), NEW i, Granted(i)'
  PROVE  Granted(i)
<1>. DEFINE G(p) == p.type = "SUBACK" /\ p.id = i
<1>1. s2c \in Seq(Packet)
  BY DEF TypeInv, TypeOK
<1>2. CASE \E j \in 1 .. Len(s2c') : G(s2c'[j])
  <2>1. CASE s2c' \in {s2c, << >>}
    BY <1>2, <2>1 DEF Granted
  <2>2. CASE Read(t)
    <3>1. s2c # << >> /\ s2c' = Tail(s2c)
      BY <2>2 DEF Read
    <3>. QED  BY <1>1, <1>2, <3>1 DEF Granted
  <2>. QED  BY <2>1, <2>2 DEF Receives
<1>3. ASSUME NEW u \in Thread, pc'[u] = "handle", G(pkt'[u])
      PROVE  Granted(i)
  <2>1. CASE u # t
    <3>1. pc'[u] = pc[u] /\ pkt'[u] = pkt[u]
      BY <1>3, <2>1, FramePackets DEF Frame
    <3>. QED  BY <1>3, <3>1 DEF Granted
  <2>2. CASE pc[t] = "handle" /\ UNCHANGED pkt /\ u = t
    BY <1>3, <2>2 DEF Granted
  <2>3. CASE Read(t) /\ u = t
    <3>1. s2c # << >> /\ pkt'[t] = s2c[1] /\ 1 \in 1 .. Len(s2c)
      BY <1>1, <2>3 DEF Read, TypeInv, TypeOK
    <3>. QED  BY <1>3, <2>3, <3>1 DEF Granted
  <2>. QED  BY <1>3, <2>1, <2>2, <2>3 DEF Frame
<1>. QED  BY <1>2, <1>3 DEF Granted

(* Of an identifier that is granted nothing new is meant. *)
LEMMA GrantedStands ==
  ASSUME IdsLast, TypeInv, NodesReply, SubKnown, NEW t \in Thread, Frame(t), Comes(t), Learns(t),
         NEW i \in Ids, Granted(i), NEW x, Stands(i, x)'
  PROVE  Stands(i, x)
<1>1. Used(i)
  BY DEF SubKnown
<1>. QED  BY <1>1, StandsFrom, SubscribeNew

(* The identifiers of subscriptions stay known, and each to one topic.      *)
LEMMA ClientKnown ==
  ASSUME IdsLast, TypeInv, NodesReply, SubKnown, OneTopic,
         NEW t \in Thread, Frame(t), Comes(t), Learns(t), \A i \in Ids : Used(i) => Used(i)'
  PROVE  SubKnown' /\ OneTopic'
<1>1. ASSUME NEW i \in Ids, Granted(i)' PROVE Used(i)'
  BY <1>1, GrantedFrom DEF SubKnown, Learns
<1>2. ASSUME NEW i \in Ids, NEW x \in Topic, Stands(i, x)' PROVE Used(i)'
  BY <1>2, StandsFrom, SubscribeNew DEF SubKnown
<1>3. ASSUME NEW i \in Ids, NEW x \in Topic, NEW y \in Topic, Stands(i, x)', Stands(i, y)'
      PROVE  x = y
  <2>1. (Stands(i, x) \/ Stands(i, y)) => Used(i)
    BY DEF SubKnown
  <2>. QED  BY <1>3, <2>1, StandsFrom, SubscribeNew DEF OneTopic
<1>. QED  BY <1>1, <1>2, <1>3 DEF SubKnown, OneTopic
-----------------------------------------------------------------------------
(* The inductive invariant. *)
ForgottenInv == /\ SystemTypeInv /\ LockExclusion /\ Control
                /\ SubKnown /\ OneTopic /\ Subscribing
                /\ Sent /\ Missed /\ AppsRecord
                /\ SendsOwn /\ NodesReply /\ RepliedDone

(* A step of t, with all that is known of it. *)
Makes(t) == Step(t) /\ Frame(t) /\ Comes(t) /\ Learns(t) /\ UNCHANGED peer

(* Handlers are removed with the session only. *)
LEMMA HandlersStay ==
  ASSUME ForgottenInv, NEW t \in Thread, Makes(t)
  PROVE  msg_handlers \subseteq msg_handlers' \/ Gone'
<1>1. TypeInv /\ Control /\ Yield \in Thread
  BY DEF ForgottenInv, SystemTypeInv, Thread
<1>2. CleanSession => Gone'
  BY <1>1, GotoFrame DEF CleanSession, Gone
<1>3. Release(t) => Gone
  BY <1>1, ReleaseControl DEF Cleaned, Gone
<1>4. Gone => Gone'
  BY <1>1, GoneStays DEF ForgottenInv, Makes
<1>. QED  BY <1>2, <1>3, <1>4 DEF Makes, Learns, Installs

(* A topic without a handler is not subscribed to again. *)
LEMMA NotAgain ==
  ASSUME ForgottenInv, NEW t \in Thread, NEW x, x \notin msg_handlers
  PROVE  ~ (t = Yield /\ Resubscribe(x))
BY DEF ForgottenInv, Subscribing, Resubscribe, Gone

(* What is over stays so ... *)
LEMMA OverStays ==
  ASSUME IdsLast, ForgottenInv, NEW t \in Thread, Makes(t), NEW x, x \notin msg_handlers, Over(x)
  PROVE  Over(x)'
<1>1. TypeInv /\ SubKnown /\ NodesReply /\ s2c \in Seq(Packet)
  BY DEF ForgottenInv, SystemTypeInv, TypeInv, TypeOK
<1>2. ~ Waiting(x)'
  BY <1>1, WaitingFrom, NotAgain DEF Makes, Over
<1>3. ASSUME NEW j \in 1 .. Len(s2c') PROVE \E k \in 1 .. Len(s2c) : s2c'[j] = s2c[k]
  <2>1. CASE s2c' \in {s2c, << >>}
    BY <1>3, <2>1
  <2>2. CASE Read(t)
    <3>1. s2c # << >> /\ s2c' = Tail(s2c)
      BY <2>2 DEF Read
    <3>. QED  BY <1>1, <1>3, <3>1
  <2>. QED  BY <2>1, <2>2 DEF Makes, Learns, Receives
<1>4. ASSUME NEW p \in Packet, NEW k \in 1 .. Len(s2c), p = s2c[k], p.type = "SUBACK",
             Stands(p.id, x)'
      PROVE  FALSE
  <2>. DEFINE i == p.id
  <2>1. i \in Ids /\ Granted(i)
    BY <1>4 DEF Packet, Ids, Granted
  <2>. HIDE DEF i
  <2>2. Stands(i, x)
    BY <1>1, <1>4, <2>1, GrantedStands DEF Makes, i
  <2>. QED  BY <1>4, <2>2 DEF Over, Grants, i
<1>5. ASSUME NEW j \in 1 .. Len(s2c'), Grants(s2c[j], x)' PROVE FALSE
  <2>1. PICK k \in 1 .. Len(s2c) : s2c'[j] = s2c[k]
    BY <1>3
  <2>2. PICK p \in Packet : p = s2c[k]
    BY <1>1
  <2>3. p.type = "SUBACK" /\ Stands(p.id, x)'
    BY <1>5, <2>1, <2>2 DEF Grants
  <2>. QED  BY <1>4, <2>2, <2>3
<1>. QED  BY <1>2, <1>5 DEF Over

(* ... and what is lost is lost. *)
LEMMA LostStays ==
  ASSUME IdsLast, ForgottenInv, NEW t \in Thread, Makes(t), NEW x, Lost(x)
  PROVE  Lost(x)'
<1>1. TypeInv /\ SubKnown /\ NodesReply /\ s2c \in Seq(Packet) /\ \A u \in Thread : pkt[u] \in Packet
  BY DEF ForgottenInv, SystemTypeInv, TypeInv, TypeOK
<1>2. x \notin msg_handlers /\ Over(x) /\ \A u \in Thread : pc[u] = "handle" => ~ Grants(pkt[u], x)
  BY DEF Lost
<1>3. Over(x)'
  BY <1>2, OverStays
<1>4. x \notin msg_handlers'
  <2>. SUFFICES ASSUME x \in msg_handlers' PROVE FALSE
    OBVIOUS
  <2>1. pc[t] = "handle" /\ pkt[t].type = "SUBACK" /\ SubNode(pkt[t].id, x)
    BY <1>2 DEF Makes, Learns, Installs
  <2>. QED  BY <1>2, <2>1 DEF Grants, Stands
<1>5. ASSUME NEW u \in Thread, pc'[u] = "handle", Grants(pkt[u], x)' PROVE FALSE
  <2>1. ASSUME pc[u] = "handle", pkt'[u] = pkt[u] PROVE FALSE
    <3>1. PICK k \in Ids : k = pkt[u].id
      BY <1>1 DEF Packet, Ids
    <3>2. pkt[u].type = "SUBACK" /\ Stands(k, x)'
      BY <1>5, <2>1, <3>1 DEF Grants
    <3>3. Granted(k)
      BY <2>1, <3>1, <3>2 DEF Granted
    <3>4. Stands(k, x)
      BY <1>1, <3>2, <3>3, GrantedStands DEF Makes
    <3>. QED  BY <1>2, <2>1, <3>1, <3>2, <3>4 DEF Grants
  <2>2. CASE Read(t) /\ u = t
    <3>1. s2c # << >> /\ pkt'[t] = s2c[1] /\ 1 \in 1 .. Len(s2c)
      BY <1>1, <2>2 DEF Read, TypeInv, TypeOK
    <3>2. PICK k \in Ids : k = s2c[1].id
      BY <1>1, <3>1 DEF Packet, Ids
    <3>3. s2c[1].type = "SUBACK" /\ Stands(k, x)'
      BY <1>5, <2>2, <3>1, <3>2 DEF Grants
    <3>4. Granted(k)
      BY <3>1, <3>2, <3>3 DEF Granted
    <3>5. Stands(k, x)
      BY <1>1, <3>3, <3>4, GrantedStands DEF Makes
    <3>. QED  BY <1>2, <3>1, <3>2, <3>3, <3>5 DEF Over, Grants
  <2>3. u # t => pc'[u] = pc[u] /\ pkt'[u] = pkt[u]
    BY <1>1, <1>5, FramePackets DEF Makes, Frame
  <2>. QED  BY <1>5, <2>1, <2>2, <2>3 DEF Makes, Frame
<1>. QED  BY <1>3, <1>4, <1>5 DEF Lost

(* A message may arrive only after its topic was granted, and so it stays.  *)
LEMMA ClientBehind ==
  ASSUME IdsLast, ForgottenInv, NEW t \in Thread, Makes(t), NEW x, Behind(x)
  PROVE  Behind(x)'
<1>1. TypeInv /\ SubKnown /\ NodesReply /\ s2c \in Seq(Packet)
  BY DEF ForgottenInv, SystemTypeInv, TypeInv, TypeOK
<1>. SUFFICES ASSUME NEW m \in ServerMsg, TopicOf[m] = x, NEW j \in 1 .. Len(s2c'),
                     NEW k \in 1 .. Len(s2c'), IsPublish(s2c'[j], m), j < k, Grants(s2c[k], x)'
              PROVE  FALSE
  BY DEF Behind, IsPublish
<1>2. PICK l \in 1 .. Len(s2c), n \in 1 .. Len(s2c) : s2c'[j] = s2c[l] /\ s2c'[k] = s2c[n] /\ l < n
  <2>1. CASE s2c' \in {s2c, << >>}
    BY <2>1
  <2>2. CASE Read(t)
    <3>1. s2c # << >> /\ s2c' = Tail(s2c)
      BY <2>2 DEF Read
    <3>2. /\ j + 1 \in 1 .. Len(s2c) /\ k + 1 \in 1 .. Len(s2c)
          /\ s2c'[j] = s2c[j + 1] /\ s2c'[k] = s2c[k + 1] /\ j + 1 < k + 1
      BY <1>1, <3>1
    <3>. QED  BY <3>2
  <2>. QED  BY <2>1, <2>2 DEF Makes, Learns, Receives
<1>3. PICK i \in Ids : i = s2c[n].id
  BY <1>1 DEF Packet, Ids
<1>4. s2c[n].type = "SUBACK" /\ Stands(i, x)'
  BY <1>2, <1>3 DEF Grants
<1>5. Granted(i)
  BY <1>3, <1>4 DEF Granted
<1>6. Stands(i, x)
  BY <1>1, <1>4, <1>5, GrantedStands DEF Makes
<1>. QED  BY <1>2, <1>3, <1>4, <1>6 DEF Behind, Grants

(* A step of the client keeps how a topic is subscribed to.                 *)
LEMMA ClientSubscribing ==
  ASSUME IdsLast, ForgottenInv, NEW t \in Thread, Makes(t)
  PROVE  Subscribing'
<1>1. TypeInv /\ NodesReply /\ Subscribing
  BY DEF ForgottenInv, SystemTypeInv
<1>2. CASE Gone'
  BY <1>2 DEF Subscribing
<1>3. CASE ~ Gone'
  <2>1. ~ Gone /\ msg_handlers \subseteq msg_handlers'
    <3>1. ~ Gone
      BY <1>1, <1>3, GoneStays DEF ForgottenInv, Makes
    <3>. QED  BY <1>3, <3>1, HandlersStay
  <2>2. resub' \subseteq msg_handlers'
    BY <1>1, <2>1 DEF Subscribing, Makes, Learns, Revisits
  <2>3. ASSUME NEW x \in Topic, x \notin msg_handlers' PROVE Single(x)' /\ Fresh(x)' /\ Behind(x)'
    <3>1. x \notin msg_handlers /\ Single(x) /\ Fresh(x) /\ Behind(x)
      BY <1>1, <2>1, <2>3 DEF Subscribing
    <3>2. ~ (t = Yield /\ Resubscribe(x))
      BY <3>1, NotAgain
    <3>3. Single(x)'
      BY <1>1, <3>1, <3>2, SingleStays DEF Makes
    <3>4. Waiting(x)' => Waiting(x)
      BY <1>1, <3>2, WaitingFrom DEF Makes
    <3>5. Fresh(x)'
      BY <3>1, <3>4 DEF Fresh, Makes, b_subs, b_out
    <3>6. Behind(x)'
      BY <3>1, ClientBehind
    <3>. QED  BY <3>3, <3>5, <3>6
  <2>. QED  BY <2>2, <2>3 DEF Subscribing
<1>. QED  BY <1>2, <1>3

(* Who handles a packet while nobody has the lock, is the yield thread.     *)
LEMMA HandlesUnlocked ==
  ASSUME ForgottenInv, NEW t \in Thread, pc[t] = "handle", write_lock = None
  PROVE  t = Yield /\ \A a \in Apps : pc[a] # "handle"
BY ThreadAssumption DEF ForgottenInv, Control, AppReads, InsidePC, Thread

(* What the yield thread has to handle it had, or reads.                    *)
LEMMA YieldHolds ==
  ASSUME ForgottenInv, NEW t \in Thread, Makes(t), pc'[Yield] \in {"handle", "rec_record"}
  PROVE  \/ /\ pc[Yield] = pc'[Yield] /\ pkt'[Yield] = pkt[Yield]
         \/ /\ t = Yield /\ pc'[Yield] = "rec_record" /\ pc[Yield] = "handle"
            /\ write_lock = None /\ pkt'[Yield] = pkt[Yield]
         \/ /\ t = Yield /\ pc'[Yield] = "handle" /\ pc[Yield] = "read" /\ s2c # << >>
            /\ pkt'[Yield] = s2c[1] /\ s2c' = Tail(s2c)
<1>1. TypeInv /\ Yield \in Thread
  BY DEF ForgottenInv, SystemTypeInv, Thread
<1>2. CASE t # Yield
  BY <1>1, <1>2, FramePackets DEF Makes, Frame
<1>3. CASE t = Yield /\ pc'[Yield] = "rec_record"
  BY <1>3 DEF Makes, Comes, HandlePublish, Handling
<1>4. CASE t = Yield /\ pc'[Yield] = "handle"
  <2>1. Read(Yield) => /\ pc[Yield] = "read" /\ s2c # << >> /\ pkt'[Yield] = s2c[1]
                       /\ s2c' = Tail(s2c)
    BY <1>1 DEF Read, TypeInv, TypeOK
  <2>. QED  BY <1>4, <2>1 DEF Makes, Frame
<1>. QED  BY <1>2, <1>3, <1>4

(* What is under way to the client, and read from it, is the server's.      *)
LEMMA ClientSent ==
  ASSUME ForgottenInv, NEW t \in Thread, Makes(t)
  PROVE  Sent'
<1>1. TypeInv /\ Sent /\ s2c \in Seq(Packet)
  BY DEF ForgottenInv, SystemTypeInv, TypeInv, TypeOK
<1>2. \A m \in ServerMsg : Confirmed(m)' = Confirmed(m)
  BY DEF Makes, Confirmed
<1>3. ASSUME NEW j \in 1 .. Len(s2c') PROVE \E k \in 1 .. Len(s2c) : s2c'[j] = s2c[k]
  <2>1. CASE s2c' \in {s2c, << >>}
    BY <1>3, <2>1
  <2>2. CASE Read(t)
    <3>1. s2c # << >> /\ s2c' = Tail(s2c)
      BY <2>2 DEF Read
    <3>. QED  BY <1>1, <1>3, <3>1
  <2>. QED  BY <2>1, <2>2 DEF Makes, Learns, Receives
<1>4. \A j \in 1 .. Len(s2c') : IsServed(s2c'[j])
  BY <1>1, <1>3 DEF Sent
<1>5. ASSUME NEW m \in ServerMsg, NEW j \in 1 .. Len(s2c')
      PROVE  /\ IsPublish(s2c'[j], m) => b_out'[m] # "new"
             /\ IsPubrel(s2c'[j], m) => Confirmed(m)
  <2>1. PICK k \in 1 .. Len(s2c) : s2c'[j] = s2c[k]
    BY <1>3
  <2>. QED  BY <1>1, <2>1 DEF Sent, Makes, b_out
<1>6. s2c # << >> => 1 \in 1 .. Len(s2c)
  BY <1>1
<1>7. pc'[Yield] \in {"handle", "rec_record"} => IsServed(pkt'[Yield])
  BY <1>1, <1>6, YieldHolds DEF Sent
<1>8. ASSUME NEW m \in ServerMsg, pc'[Yield] = "handle", IsPubrel(pkt'[Yield], m)
      PROVE  Confirmed(m)
  BY <1>1, <1>6, <1>8, YieldHolds DEF Sent
<1>. QED  BY <1>2, <1>4, <1>5, <1>7, <1>8 DEF Sent, IsServed, IsPublish, IsPubrel

(* A message whose handling the yield thread ends, while nobody has the     *)
(* lock, is lost if it has no handler.                                      *)
LEMMA MissedLost ==
  ASSUME IdsLast, ForgottenInv, NEW t \in Thread, Makes(t), NEW m \in ServerMsg,
         pc[Yield] = "handle", pc'[Yield] # "handle", write_lock = None,
         IsPublish(pkt[Yield], m), TopicOf[m] \notin msg_handlers, UNCHANGED msg_handlers
  PROVE  Lost(TopicOf[m])'
<1>. DEFINE x == TopicOf[m]
<1>1. TypeInv /\ Yield \in Thread /\ Apps \subseteq Thread
  BY DEF ForgottenInv, SystemTypeInv, Thread
<1>2. Over(x)'
  BY OverStays DEF ForgottenInv, Missed
<1>3. t = Yield
  BY <1>1, YieldRests DEF Makes, ForgottenInv
<1>4. \A a \in Apps : pc'[a] # "handle"
  BY <1>1, <1>3, HandlesUnlocked, ThreadAssumption DEF Makes, Frame
<1>. QED  BY <1>2, <1>4 DEF Lost, Thread

(* So it is with what the yield thread reads and records. *)
LEMMA ClientMissed ==
  ASSUME IdsLast, ForgottenInv, NEW t \in Thread, Makes(t)
  PROVE  Missed' /\ AppsRecord'
<1>1. TypeInv /\ Missed /\ Sent /\ s2c \in Seq(Packet) /\ Yield \in Thread /\ Apps \subseteq Thread
  BY DEF ForgottenInv, SystemTypeInv, TypeInv, TypeOK, Thread
<1>2. AppsRecord'
  BY <1>1, AppsRecordNext DEF ForgottenInv, Makes
<1>3. ASSUME NEW m \in ServerMsg, IsPublish(pkt'[Yield], m), TopicOf[m] \notin msg_handlers',
             pc'[Yield] \in {"handle", "rec_record"}
      PROVE  /\ pc'[Yield] = "handle" => Over(TopicOf[m])'
             /\ pc'[Yield] = "rec_record" => Lost(TopicOf[m])'
  <2>. DEFINE x == TopicOf[m]
  <2>1. x \in Topic /\ x \notin msg_handlers
    <3>1. ~ Gone'
      BY <1>3 DEF Gone
    <3>. QED  BY <1>3, <3>1, HandlersStay, ServerAssumption, DataAssumption
  <2>2. CASE pc[Yield] = pc'[Yield] /\ pkt'[Yield] = pkt[Yield]
    BY <1>1, <1>3, <2>1, <2>2, OverStays, LostStays DEF Missed
  <2>3. CASE /\ t = Yield /\ pc'[Yield] = "rec_record" /\ pc[Yield] = "handle"
             /\ write_lock = None /\ pkt'[Yield] = pkt[Yield]
    <3>1. UNCHANGED msg_handlers
      BY <2>3 DEF Makes, Comes, HandlePublish, sessVars
    <3>. QED  BY <1>3, <2>1, <2>3, <3>1, MissedLost
  <2>4. CASE /\ t = Yield /\ pc'[Yield] = "handle" /\ pc[Yield] = "read" /\ s2c # << >>
             /\ pkt'[Yield] = s2c[1]
    <3>1. 1 \in 1 .. Len(s2c) /\ IsPublish(s2c[1], m) /\ \A k \in 1 .. Len(s2c) : k = 1 \/ 1 < k
      BY <1>1, <1>3, <2>4
    <3>2. b_out[m] # "new"
      BY <1>1, <3>1 DEF Sent
    <3>3. Fresh(x) /\ Behind(x)
      BY <2>1, <2>4 DEF ForgottenInv, Subscribing, Gone
    <3>4. ~ Waiting(x)
      BY <3>2, <3>3 DEF Fresh
    <3>5. \A k \in 1 .. Len(s2c) : ~ Grants(s2c[k], x)
      BY <3>1, <3>3 DEF Behind, Grants, IsPublish
    <3>6. Over(x)
      BY <3>4, <3>5 DEF Over
    <3>. QED  BY <2>1, <2>4, <3>6, OverStays
  <2>. QED  BY <1>3, <2>2, <2>3, <2>4, YieldHolds
<1>. QED  BY <1>2, <1>3 DEF Missed, IsPublish

(* What a thread sends of its own is no acknowledgement. *)
LEMMA ClientOwns ==
  ASSUME ForgottenInv, NEW t \in Thread, Makes(t)
  PROVE  SendsOwn'
<1>1. TypeInv /\ SendsOwn
  BY DEF ForgottenInv, SystemTypeInv
<1>2. ASSUME NEW u \in Thread, pc'[u] \in OwnPC
      PROVE  pkt'[u].type \notin AckReply \cup {"SUBSCRIBE"}
  <2>1. CASE u # t
    <3>1. pc'[u] = pc[u] /\ pkt'[u] = pkt[u]
      BY <1>1, <1>2, <2>1, FramePackets DEF Makes, Frame, OwnPC
    <3>. QED  BY <1>1, <1>2, <3>1 DEF SendsOwn
  <2>2. CASE u = t
    BY <1>2, <2>2 DEF Makes, Comes
  <2>. QED  BY <2>1, <2>2
<1>. QED  BY <1>2 DEF SendsOwn, OwnPC

(* What is done with stays so. *)
LEMMA DoneStays ==
  ASSUME IdsLast, ForgottenInv, NEW t \in Thread, Makes(t), NEW m, Done(m)
  PROVE  Done(m)'
<1>1. Occurs(m, delivered) => Occurs(m, delivered')
  <2>1. delivered \in Seq(Msg)
    BY DEF ForgottenInv, SystemTypeInv, TypeInv, TypeOK
  <2>2. delivered' = delivered \/ \E k \in Msg : delivered' = Append(delivered, k)
    BY DEF Makes, Learns, Delivers
  <2>. QED  BY <2>1, <2>2 DEF Occurs
<1>2. Occurs(m, delivered)' = Occurs(m, delivered')
  BY DEF Occurs
<1>. QED  BY <1>1, <1>2, LostStays DEF Done

(* A message is delivered if it has a handler. *)
LEMMA DeliverOccurs ==
  ASSUME TypeInv, NEW m \in Msg, Deliver(m), TopicOf[m] \in msg_handlers
  PROVE  Occurs(m, delivered)'
<1>1. delivered \in Seq(Msg) /\ delivered' = Append(delivered, m)
  BY DEF Deliver, TypeInv, TypeOK
<1>2. Len(delivered) + 1 \in 1 .. Len(delivered') /\ delivered'[Len(delivered) + 1] = m
  BY <1>1
<1>. QED  BY <1>2 DEF Occurs

(* The packet a thread handles has the identifier of one message.           *)
LEMMA ServedIs ==
  ASSUME IdsDiffer, ForgottenInv, NEW m \in ServerMsg, pc[Yield] \in {"handle", "rec_record"},
         pkt[Yield].type = "PUBLISH", pkt[Yield].id = ServerId[m]
  PROVE  IsPublish(pkt[Yield], m)
BY DEF ForgottenInv, Sent, IsServed, IdsDiffer, IsPublish

(* The record of a message ends with it delivered, or lost. *)
LEMMA RecordDone ==
  ASSUME IdsLast, IdsDiffer, ForgottenInv, Makes(Yield), RecordPubrel(Yield), NEW m \in ServerMsg,
         pkt[Yield].id = ServerId[m]
  PROVE  Done(m)'
<1>1. TypeInv /\ Yield \in Thread /\ m \in Msg
  BY ServerAssumption DEF ForgottenInv, SystemTypeInv, Thread
<1>2. pc[Yield] = "rec_record" /\ pkt[Yield].type = "PUBLISH"
  BY <1>1 DEF RecordPubrel, TypeInv, Busy
<1>3. IsPublish(pkt[Yield], m)
  BY <1>2, ServedIs
<1>4. CASE NodeExists("PUBREL", pkt[Yield].id)
  <2>1. PICK n \in ack_list : n.type = "PUBREL" /\ n.id = ServerId[m]
    BY <1>4 DEF NodeExists, Matching
  <2>2. Done(m)
    BY <2>1 DEF ForgottenInv, NodesReply
  <2>. QED  BY <1>1, <2>2, DoneStays
<1>5. CASE ~ NodeExists("PUBREL", pkt[Yield].id)
  <2>1. Deliver(m)
    BY <1>3, <1>5 DEF RecordPubrel, IsPublish
  <2>2. CASE TopicOf[m] \in msg_handlers
    BY <1>1, <2>1, <2>2, DeliverOccurs DEF Done
  <2>3. CASE TopicOf[m] \notin msg_handlers
    <3>1. Lost(TopicOf[m])
      BY <1>2, <1>3, <2>3 DEF ForgottenInv, Missed
    <3>. QED  BY <1>1, <3>1, LostStays DEF Done
  <2>. QED  BY <2>2, <2>3
<1>. QED  BY <1>4, <1>5

(* The node of an awaited PUBREL means that its message is done with.       *)
LEMMA ClientNodes ==
  ASSUME IdsLast, IdsDiffer, ForgottenInv, NEW t \in Thread, Makes(t)
  PROVE  NodesReply'
<1>1. TypeInv /\ NodesReply
  BY DEF ForgottenInv, SystemTypeInv
<1>2. ASSUME NEW n \in ack_list' \cup expired'
      PROVE  /\ Resent(n) => n.payload.type # "SUBSCRIBE"
             /\ n.payload.type \in AckReply => n.type = "PUBREL" /\ n.payload.id = n.id
             /\ n.type = "PUBREL" => \A m \in ServerMsg : n.id = ServerId[m] => Done(m)'
  <2>1. CASE n \in ack_list \cup expired
    BY <1>1, <2>1, DoneStays DEF NodesReply
  <2>2. CASE n \in ack_list' \ ack_list
    <3>1. CASE n.type = "SUBACK" /\ pc[t] = "sub_record" /\ n.payload = pkt[t]
      <4>1. n.payload.type = "SUBSCRIBE"
        BY <1>1, <3>1 DEF TypeInv, Busy
      <4>. QED  BY <3>1, <4>1 DEF Resent, AckReply
    <3>2. CASE n.type \notin {"SUBACK", "PUBREL"} /\ n.payload.type \notin AckReply
               /\ (Resent(n) => n.payload.type # "SUBSCRIBE")
      BY <3>2
    <3>3. CASE /\ n.type = "PUBREL" /\ RecordPubrel(t) /\ n.id = pkt[t].id
               /\ n.payload \in {Ack("PUBREC", n.id), Corrupt}
      <4>1. t = Yield
        BY <3>3 DEF RecordPubrel, ForgottenInv, AppsRecord, Thread
      <4>2. \A m \in ServerMsg : n.id = ServerId[m] => Done(m)'
        BY <3>3, <4>1, RecordDone
      <4>3. /\ n.payload.type # "SUBSCRIBE"
            /\ n.payload.type \in AckReply => n.payload.id = n.id
        BY <3>3 DEF Corrupt, Ack, Plain, AckReply
      <4>. QED  BY <3>3, <4>2, <4>3
    <3>. QED  BY <2>2, <3>1, <3>2, <3>3 DEF Makes, Learns, Adds
  <2>. QED  BY <1>2, <2>1, <2>2 DEF Makes, Learns, Scans
<1>. QED  BY <1>2, Zenon DEF NodesReply, Resent

(* What the handler acknowledges it has delivered, or goes on to record.    *)
LEMMA HandledDone ==
  ASSUME IdsLast, IdsDiffer, ForgottenInv, NEW t \in Thread, Makes(t), HandlePublish(t),
         c2s' # c2s, NEW m \in ServerMsg, pkt[t].id = ServerId[m]
  PROVE  Done(m)' \/ IsDelivering(m)'
<1>1. TypeInv /\ m \in Msg /\ Yield \in Thread
  BY ServerAssumption DEF ForgottenInv, SystemTypeInv, Thread
<1>2. /\ pc[t] = "handle" /\ pkt[t].type = "PUBLISH" /\ write_lock = None
      /\ UNCHANGED msg_handlers
      /\ \/ Deliver(pkt[t].body) /\ Finish(t)
         \/ Goto(t, "rec_record") /\ UNCHANGED pkt
  BY DEF HandlePublish, Handling, netVars, SendFails, sessVars
<1>3. t = Yield
  BY <1>2, HandlesUnlocked
<1>4. IsPublish(pkt[Yield], m)
  BY <1>2, <1>3, ServedIs
<1>5. CASE Goto(t, "rec_record") /\ UNCHANGED pkt
  BY <1>1, <1>3, <1>4, <1>5, GotoFrame DEF IsDelivering, IsPublish
<1>6. CASE Deliver(pkt[t].body) /\ Finish(t)
  <2>1. pc'[Yield] = "keepalive" /\ Deliver(m)
    BY <1>1, <1>3, <1>4, <1>6, GotoFrame DEF Finish, IsPublish
  <2>2. CASE TopicOf[m] \in msg_handlers
    BY <1>1, <2>1, <2>2, DeliverOccurs DEF Done
  <2>3. CASE TopicOf[m] \notin msg_handlers
    BY <1>2, <1>3, <1>4, <2>1, <2>3, MissedLost DEF Done
  <2>. QED  BY <2>2, <2>3
<1>. QED  BY <1>2, <1>5, <1>6

(* What the client acknowledges it is done with. *)
LEMMA ClientReplied ==
  ASSUME IdsLast, IdsDiffer, ForgottenInv, NEW t \in Thread, Makes(t)
  PROVE  RepliedDone'
<1>1. TypeInv /\ NodesReply /\ RepliedDone /\ Sent /\ c2s \in Seq(Packet) /\ Yield \in Thread
  BY DEF ForgottenInv, SystemTypeInv, TypeInv, TypeOK, Thread
<1>. SUFFICES ASSUME NEW m \in ServerMsg, Replied(m)' PROVE Done(m)' \/ IsDelivering(m)'
  BY DEF RepliedDone
<1>2. CASE Replied(m)
  <2>1. CASE Done(m)
    BY <2>1, DoneStays
  <2>2. CASE IsDelivering(m)
    <3>1. CASE t = Yield
      <4>1. RecordPubrel(Yield)
        BY <2>2, <3>1, YieldAlone DEF Makes, IsDelivering
      <4>2. pkt[Yield].id = ServerId[m]
        BY <1>1, <2>2 DEF IsDelivering, IsPublish, Sent, IsServed
      <4>. QED  BY <3>1, <4>1, <4>2, RecordDone
    <3>2. CASE t # Yield
      <4>1. pc'[Yield] = pc[Yield] /\ pkt'[Yield] = pkt[Yield]
        BY <1>1, <2>2, <3>2, YieldRests, FramePackets DEF Makes, ForgottenInv, IsDelivering
      <4>. QED  BY <2>2, <4>1 DEF IsDelivering, IsPublish
    <3>. QED  BY <3>1, <3>2
  <2>. QED  BY <1>1, <1>2, <2>1, <2>2 DEF RepliedDone
<1>3. CASE ~ Replied(m)
  <2>1. ~ Confirmed(m)
    BY <1>3 DEF Replied
  <2>2. PICK j \in 1 .. Len(c2s') : c2s'[j].type \in AckReply /\ c2s'[j].id = ServerId[m]
    BY <2>1 DEF Replied, Makes, Confirmed
  <2>3. c2s' \notin {c2s, << >>}
    BY <1>3, <2>2 DEF Replied
  <2>4. PICK p \in Packet :
          /\ c2s' = Append(c2s, p)
          /\ \/ p.type \notin AckReply \cup {"SUBSCRIBE"}
             \/ pc[t] = "sub_send" /\ p = pkt[t] /\ pc'[t] = "sub_record"
             \/ \E n \in expired : Resent(n) /\ p = n.payload
             \/ /\ HandlePublish(t) \/ HandlePubrel(t)
                /\ p.id = pkt[t].id /\ p.type # "SUBSCRIBE"
    BY <2>3 DEF Makes, Learns, Tells
  <2>5. p.type \in AckReply /\ p.id = ServerId[m]
    <3>1. c2s'[j] = p \/ (j \in 1 .. Len(c2s) /\ c2s'[j] = c2s[j])
      BY <1>1, <2>2, <2>4
    <3>. QED  BY <1>3, <2>2, <3>1 DEF Replied
  <2>6. ~ (pc[t] = "sub_send" /\ p = pkt[t])
    BY <1>1, <2>5 DEF TypeInv, Busy, AckReply
  <2>7. ASSUME NEW n \in expired, p = n.payload PROVE Done(m)'
    <3>1. n.type = "PUBREL" /\ n.id = ServerId[m]
      BY <1>1, <2>5, <2>7 DEF NodesReply
    <3>2. Done(m)
      BY <1>1, <3>1 DEF NodesReply
    <3>. QED  BY <3>2, DoneStays
  <2>8. ASSUME HandlePubrel(t), p.id = pkt[t].id PROVE FALSE
    <3>1. pc[t] = "handle" /\ write_lock = None /\ pkt[t].type = "PUBREL"
      BY <2>8 DEF HandlePubrel, Handling
    <3>2. t = Yield
      BY <3>1, HandlesUnlocked
    <3>. QED  BY <1>1, <2>1, <2>5, <2>8, <3>1, <3>2 DEF Sent, IsPubrel
  <2>. QED  BY <2>3, <2>4, <2>5, <2>6, <2>7, <2>8, HandledDone
<1>. QED  BY <1>2, <1>3
-----------------------------------------------------------------------------
(* What the server, and the loss of the connection, do to all that.         *)
Serves ==
  /\ c2s' \in {c2s, << >>} \/ (c2s # << >> /\ c2s' = Tail(c2s))
  /\ \/ s2c' \in {s2c, << >>}
     \/ \E p \in Packet :
          /\ s2c' = Append(s2c, p) /\ Says(p)
          /\ p.type = "SUBACK" => c2s # << >> /\ Head(c2s).type = "SUBSCRIBE" /\ p.id = Head(c2s).id
  /\ \A x \in b_subs' \ b_subs : c2s # << >> /\ c2s' = Tail(c2s) /\ Requests(Head(c2s), x)
  /\ \A m \in ServerMsg : /\ Confirmed(m) => Confirmed(m)'
                          /\ Confirmed(m)' => Replied(m)
                          /\ b_out'[m] = "new" => b_out[m] = "new"
                          /\ b_out[m] = "new" => b_out'[m] = "new" \/ TopicOf[m] \in b_subs

(* The server does so. *)
LEMMA ServerServes == ASSUME SystemTypeInv, ServerWorks PROVE Serves
<1>1. PeerType /\ NetType
  BY TypeParts DEF SystemTypeInv
<1>2. /\ s2c' = s2c \/ \E p \in Packet : Says(p) /\ s2c' = Append(s2c, p)
      /\ \A m \in ServerMsg : /\ Confirmed(m) => Confirmed(m)'
                              /\ peer'.out[m] = "new" => peer.out[m] = "new"
  BY ServerSays
<1>3. CASE ServerSubscribe
  <2>. DEFINE p == Plain("SUBACK", Head(c2s).id, "yes")
  <2>1. /\ c2s # << >> /\ c2s' = Tail(c2s) /\ s2c' = Append(s2c, p)
        /\ Head(c2s).type = "SUBSCRIBE"
        /\ peer'.out = peer.out /\ peer'.subs = peer.subs \cup {Head(c2s).body}
    BY <1>1, <1>3 DEF ServerSubscribe, Takes, Answer, PeerType
  <2>2. p \in Packet /\ Says(p) /\ p.id = Head(c2s).id
    <3>1. p \in Packet
      BY <1>1, <2>1, TakenType, ServerPackets
    <3>2. p.type = "SUBACK" /\ p.id = Head(c2s).id
      BY DEF Plain
    <3>. QED  BY <3>1, <3>2 DEF Says
  <2>. HIDE DEF p
  <2>. QED  BY <2>1, <2>2 DEF Serves, Requests, b_subs, b_out, Confirmed, Replied
<1>4. CASE \/ ServerConnect \/ ServerUnsubscribe \/ ServerPing \/ ServerPublish \/ ServerPubrel
           \/ ServerAcked \/ \E m \in ServerMsg : ServerSend(m)
  <2>1. c2s' = c2s \/ (c2s # << >> /\ c2s' = Tail(c2s))
    BY <1>4 DEF ServerConnect, ServerUnsubscribe, ServerPing, ServerPublish, ServerPubrel,
                ServerAcked, ServerSend, Takes, Answer, NoAnswer
  <2>2. s2c' = s2c \/ \E p \in Packet : s2c' = Append(s2c, p) /\ p.type # "SUBACK"
    <3>1. CASE \E m \in ServerMsg : ServerSend(m)
      <4>1. PICK m \in ServerMsg : \/ s2c' = Append(s2c, Plain("PUBLISH", ServerId[m], m))
                                   \/ s2c' = Append(s2c, Ack("PUBREL", ServerId[m]))
        BY <3>1 DEF ServerSend
      <4>2. ServerId[m] \in 0 .. MaxPacketId /\ m \in Msg
        BY ServerAssumption
      <4>3. /\ Plain("PUBLISH", ServerId[m], m) \in Packet
            /\ Ack("PUBREL", ServerId[m]) \in Packet
        BY <4>2, ServerPackets
      <4>. QED  BY <4>1, <4>3 DEF Plain, Ack
    <3>2. CASE ~ \E m \in ServerMsg : ServerSend(m)
      <4>. DEFINE id == Head(c2s).id
      <4>1. c2s # << >>
        BY <1>4, <3>2 DEF ServerConnect, ServerUnsubscribe, ServerPing, ServerPublish,
                          ServerPubrel, ServerAcked, Takes
      <4>2. id \in 0 .. MaxPacketId /\ 0 \in 0 .. MaxPacketId
        BY <1>1, <4>1, TakenType, BoundAssumption
      <4>3. \/ NoAnswer \/ Answer(Plain("CONNACK", 0, "yes")) \/ Answer(Ack("PINGRESP", 0))
            \/ \E type \in {"PUBACK", "PUBREC", "PUBCOMP", "UNSUBACK"} : Answer(Ack(type, id))
        BY <1>4, <3>2 DEF ServerConnect, ServerUnsubscribe, ServerPing, ServerPublish,
                          ServerPubrel, ServerAcked
      <4>. HIDE DEF id
      <4>. QED  BY <4>2, <4>3, ServerPackets DEF Answer, NoAnswer, Plain, Ack
    <3>. QED  BY <3>1, <3>2
  <2>3. b_subs' \subseteq b_subs
    BY <1>1, <1>4 DEF ServerConnect, ServerUnsubscribe, ServerPing, ServerPublish, ServerPubrel,
                ServerAcked, ServerSend, PeerType, b_subs
  <2>4. s2c' = s2c \/ \E p \in Packet : Says(p) /\ s2c' = Append(s2c, p) /\ p.type # "SUBACK"
    <3>1. ASSUME NEW p \in Packet, NEW q \in Packet, s2c' = Append(s2c, p), s2c' = Append(s2c, q) PROVE p = q
      <4>1. s2c \in Seq(Packet)
        BY <1>1 DEF NetType
      <4>2. Append(s2c, p)[Len(s2c) + 1] = p
        BY <4>1
      <4>3. Append(s2c, q)[Len(s2c) + 1] = q
        BY <4>1
      <4>. QED  BY <3>1, <4>2, <4>3
    <3>. QED  BY <1>2, <2>2, <3>1
  <2>5. ASSUME NEW m \in ServerMsg
        PROVE  /\ Confirmed(m)' => Replied(m)
               /\ b_out[m] = "new" => b_out'[m] = "new" \/ TopicOf[m] \in b_subs
    <3>1. CASE ServerConnect
      <4>1. peer'.out[m] = CASE peer.out[m] = "sent" -> "again"
                             [] peer.out[m] = "released" -> "release"
                             [] OTHER -> peer.out[m]
        BY <1>1, <3>1 DEF ServerConnect, PeerType, b_out
      <4>. QED  BY <4>1 DEF Replied, Confirmed, b_out
    <3>2. CASE ServerUnsubscribe \/ ServerPing \/ ServerPublish \/ ServerPubrel
      <4>1. peer'.out = peer.out
        BY <1>1, <3>2 DEF ServerUnsubscribe, ServerPing, ServerPublish, ServerPubrel, PeerType
      <4>. QED  BY <4>1 DEF Replied, Confirmed, b_out
    <3>3. CASE ServerAcked
      <4>1. /\ c2s # << >> /\ Head(c2s).type \in AckReply
            /\ peer'.out[m] # peer.out[m] => Head(c2s).id = ServerId[m]
            /\ peer.out[m] = "new" => peer'.out[m] = "new"
        BY <1>1, <3>3 DEF ServerAcked, Takes, AckReply, PeerType
      <4>2. 1 \in 1 .. Len(c2s) /\ c2s[1] = Head(c2s)
        BY <1>1, <4>1 DEF NetType
      <4>. QED  BY <4>1, <4>2 DEF Replied, Confirmed, b_out
    <3>4. ASSUME NEW k \in ServerMsg, ServerSend(k)
          PROVE  /\ Confirmed(m)' => Replied(m)
                 /\ b_out[m] = "new" => b_out'[m] = "new" \/ TopicOf[m] \in b_subs
      <4>1. /\ m # k => peer'.out[m] = peer.out[m]
            /\ m = k => \/ peer.out[k] \in {"new", "again"} /\ TopicOf[k] \in peer.subs
                           /\ peer'.out[k] = "sent"
                        \/ peer.out[k] = "release"
        BY <1>1, <3>4 DEF ServerSend, PeerType, b_out, b_subs
      <4>. QED  BY <4>1 DEF Replied, Confirmed, b_out, b_subs
    <3>. QED  BY <1>4, <3>1, <3>2, <3>3, <3>4
  <2>. QED  BY <1>2, <2>1, <2>3, <2>4, <2>5 DEF Serves, b_out
<1>. QED  BY <1>3, <1>4 DEF ServerWorks

(* So do the loss of the connection and a step of nothing. *)
LEMMA OutsideServes == ASSUME LinkDown \/ UNCHANGED vars PROVE Serves
<1>1. c2s' \in {c2s, << >>} /\ s2c' \in {s2c, << >>} /\ peer' = peer
  BY DEF LinkDown, vars, netVars
<1>2. \A m : Confirmed(m)' = Confirmed(m)
  BY <1>1 DEF Confirmed
<1>. QED  BY <1>1, <1>2 DEF Serves, Replied, b_subs, b_out

(* What the client knows, and where its threads are. *)
clientAt == <<pc, pkt, op, calls, ack_list, expired, msg_handlers, resub, packet_id, delivered>>

(* With the client where it was less is under way to the server ...         *)
LEMMA FewerAsk ==
  ASSUME TypeInv, Serves, UNCHANGED clientAt
  PROVE  /\ \A i, x : Stands(i, x)' => Stands(i, x)
         /\ \A x : Waiting(x)' => Waiting(x)
         /\ \A x : Single(x) => Single(x)'
         /\ \A x : Single(x) /\ x \in b_subs' \ b_subs => ~ Waiting(x)'
<1>1. c2s \in Seq(Packet)
  BY DEF TypeInv, TypeOK
<1>2. /\ \A i, x : SubThread(i, x)' = SubThread(i, x) /\ SubNode(i, x)' = SubNode(i, x)
      /\ \A a, x : ToAsk(a, x)' = ToAsk(a, x) /\ Asking(a, x)' = Asking(a, x)
  BY DEF clientAt, SubThread, SubNode, ToAsk, Asking
<1>3. PICK d \in {0, 1} :
        /\ \A j \in 1 .. Len(c2s') : j + d \in 1 .. Len(c2s) /\ c2s'[j] = c2s[j + d]
        /\ d = 1 <=> c2s # << >> /\ c2s' = Tail(c2s)
  <2>1. CASE c2s # << >> /\ c2s' = Tail(c2s)
    <3>1. \A j \in 1 .. Len(c2s') : j + 1 \in 1 .. Len(c2s) /\ c2s'[j] = c2s[j + 1]
      BY <1>1, <2>1
    <3>. QED  BY <2>1, <3>1
  <2>2. CASE ~ (c2s # << >> /\ c2s' = Tail(c2s))
    <3>1. \A j \in 1 .. Len(c2s') : j + 0 \in 1 .. Len(c2s) /\ c2s'[j] = c2s[j + 0]
      BY <1>1, <2>2 DEF Serves
    <3>. QED  BY <2>2, <3>1
  <2>. QED  BY <2>1, <2>2
<1>4. \A i, x : SubWire(i, x)' => SubWire(i, x)
  BY <1>3 DEF SubWire
<1>5. ASSUME NEW x, Waiting(x)' PROVE Waiting(x)
  BY <1>2, <1>3, <1>5 DEF Waiting
<1>6. ASSUME NEW x, Single(x) PROVE Single(x)'
  <2>1. \A j, k \in 1 .. Len(c2s') : Requests(c2s'[j], x) /\ Requests(c2s'[k], x) => j = k
    <3>. SUFFICES ASSUME NEW j \in 1 .. Len(c2s'), NEW k \in 1 .. Len(c2s'),
                         Requests(c2s'[j], x), Requests(c2s'[k], x)
                  PROVE  j = k
      OBVIOUS
    <3>1. j + d = k + d
      BY <1>3, <1>6 DEF Single
    <3>. QED  BY <3>1
  <2>. QED  BY <1>2, <1>3, <1>6, <2>1 DEF Single, Requests
<1>7. ASSUME NEW x, Single(x), x \in b_subs' \ b_subs, Waiting(x)' PROVE FALSE
  <2>1. c2s # << >> /\ c2s' = Tail(c2s) /\ Requests(Head(c2s), x)
    BY <1>7 DEF Serves
  <2>2. 1 \in 1 .. Len(c2s) /\ Requests(c2s[1], x)
    BY <1>1, <2>1
  <2>3. ~ \E j \in 1 .. Len(c2s') : Requests(c2s'[j], x)
    <3>. SUFFICES ASSUME NEW j \in 1 .. Len(c2s'), Requests(c2s'[j], x) PROVE FALSE
      OBVIOUS
    <3>1. j + 1 \in 1 .. Len(c2s) /\ Requests(c2s[j + 1], x) /\ j + 1 # 1
      BY <1>3, <2>1
    <3>. QED  BY <1>7, <2>2, <3>1 DEF Single
  <2>. QED  BY <1>2, <1>7, <2>2, <2>3 DEF Single, Waiting, Requests
<1>. QED  BY <1>2, <1>4, <1>5, <1>6, <1>7 DEF Stands

(* ... and the server grants what it was asked for. *)
LEMMA NewGrant ==
  ASSUME TypeInv, SubKnown, OneTopic, Serves, UNCHANGED clientAt,
         NEW p \in Packet, p.type = "SUBACK", c2s # << >>, Head(c2s).type = "SUBSCRIBE",
         p.id = Head(c2s).id
  PROVE  /\ p.id \in Ids /\ Used(p.id)
         /\ \A x \in Topic : Grants(p, x)' => Waiting(x)
<1>1. /\ 1 \in 1 .. Len(c2s) /\ c2s[1] = Head(c2s) /\ c2s[1] \in Packet
  BY DEF TypeInv, TypeOK
<1>. DEFINE y == c2s[1].body
<1>2. y \in Topic /\ p.id \in Ids
  BY <1>1 DEF Packet, Ids
<1>3. Stands(p.id, y) /\ Waiting(y)
  BY <1>1 DEF Stands, SubWire, IsSub, Requests, Waiting
<1>. HIDE DEF y
<1>4. Used(p.id)
  BY <1>2, <1>3 DEF SubKnown
<1>5. ASSUME NEW x \in Topic, Grants(p, x)' PROVE Waiting(x)
  <2>1. Stands(p.id, x)
    BY <1>5, FewerAsk DEF Grants
  <2>2. x = y
    BY <1>2, <1>3, <2>1 DEF OneTopic
  <2>. QED  BY <1>3, <2>2
<1>. QED  BY <1>2, <1>4, <1>5

(* A packet the server may add. *)
Sends(p) ==
  /\ p \in Packet /\ Says(p)
  /\ p.type = "SUBACK" => c2s # << >> /\ Head(c2s).type = "SUBSCRIBE" /\ p.id = Head(c2s).id

(* What is under way to the client was so, or is the last packet sent.      *)
LEMMA UnderWay ==
  ASSUME TypeInv, Serves, NEW j \in 1 .. Len(s2c')
  PROVE  \/ j \in 1 .. Len(s2c) /\ s2c'[j] = s2c[j]
         \/ j = Len(s2c') /\ Sends(s2c'[j])
<1>1. s2c \in Seq(Packet)
  BY DEF TypeInv, TypeOK
<1>2. CASE s2c' \in {s2c, << >>}
  BY <1>2
<1>3. ASSUME NEW p \in Packet, s2c' = Append(s2c, p), Sends(p)
      PROVE  \/ j \in 1 .. Len(s2c) /\ s2c'[j] = s2c[j]
             \/ j = Len(s2c') /\ Sends(s2c'[j])
  <2>1. \/ j \in 1 .. Len(s2c) /\ s2c'[j] = s2c[j]
        \/ j = Len(s2c') /\ s2c'[j] = p
    BY <1>1, <1>3
  <2>. QED  BY <1>3, <2>1
<1>. QED  BY <1>2, <1>3 DEF Serves, Sends

(* A new grant is of a known identifier, for a topic that was waited for.   *)
LEMMA SendsGrant ==
  ASSUME ForgottenInv, Serves, UNCHANGED clientAt, NEW p, Sends(p), p.type = "SUBACK"
  PROVE  /\ p.id \in Ids /\ Used(p.id)
         /\ \A x \in Topic : Grants(p, x)' => Waiting(x)
BY NewGrant DEF Sends, ForgottenInv, SystemTypeInv

(* The identifiers of subscriptions. *)
LEMMA ServerKnown ==
  ASSUME ForgottenInv, Serves, UNCHANGED clientAt
  PROVE  SubKnown' /\ OneTopic'
<1>1. TypeInv /\ SubKnown /\ OneTopic
  BY DEF ForgottenInv, SystemTypeInv
<1>2. \A i, x : Stands(i, x)' => Stands(i, x)
  BY <1>1, FewerAsk
<1>3. \A i : Used(i)' = Used(i)
  BY DEF clientAt, Used, Zeroed, Gone
<1>4. ASSUME NEW i \in Ids, Granted(i)' PROVE Used(i)
  <2>1. CASE Granted(i)
    BY <1>1, <2>1 DEF SubKnown
  <2>2. CASE ~ Granted(i)
    <3>1. PICK j \in 1 .. Len(s2c') : s2c'[j].type = "SUBACK" /\ s2c'[j].id = i
      BY <1>4, <2>2 DEF Granted, clientAt
    <3>2. Sends(s2c'[j])
      BY <1>1, <2>2, <3>1, UnderWay DEF Granted
    <3>. QED  BY <3>1, <3>2, SendsGrant
  <2>. QED  BY <2>1, <2>2
<1>. QED  BY <1>1, <1>2, <1>3, <1>4 DEF SubKnown, OneTopic

(* What is over, and what is lost. *)
LEMMA ServerOver ==
  ASSUME ForgottenInv, Serves, UNCHANGED clientAt, NEW x \in Topic
  PROVE  (Over(x) => Over(x)') /\ (Lost(x) => Lost(x)')
<1>1. TypeInv
  BY DEF ForgottenInv, SystemTypeInv
<1>2. /\ \A i, y : Stands(i, y)' => Stands(i, y)
      /\ \A y : Waiting(y)' => Waiting(y)
  BY <1>1, FewerAsk
<1>3. ASSUME Over(x), NEW j \in 1 .. Len(s2c'), Grants(s2c[j], x)' PROVE FALSE
  <2>1. CASE j \in 1 .. Len(s2c) /\ s2c'[j] = s2c[j]
    BY <1>2, <1>3, <2>1 DEF Over, Grants
  <2>2. CASE Sends(s2c'[j])
    <3>1. PICK p : p = s2c'[j]
      OBVIOUS
    <3>2. p.type = "SUBACK" /\ Grants(p, x)' /\ Sends(p)
      BY <1>3, <2>2, <3>1 DEF Grants
    <3>. QED  BY <1>3, <3>2, SendsGrant DEF Over
  <2>. QED  BY <1>1, <2>1, <2>2, UnderWay
<1>4. Over(x) => Over(x)'
  BY <1>2, <1>3 DEF Over
<1>5. ASSUME Lost(x) PROVE Lost(x)'
  BY <1>2, <1>4, <1>5 DEF Lost, Grants, clientAt
<1>. QED  BY <1>4, <1>5

(* The server sends nothing of a topic nobody has been granted. *)
LEMMA ServerSubscribing ==
  ASSUME ForgottenInv, Serves, UNCHANGED clientAt
  PROVE  Subscribing'
<1>1. TypeInv /\ Subscribing /\ Sent
  BY DEF ForgottenInv, SystemTypeInv
<1>2. CASE Gone
  BY <1>2 DEF Subscribing, Gone, clientAt
<1>3. CASE ~ Gone
  <2>1. resub' \subseteq msg_handlers'
    BY <1>1, <1>3 DEF Subscribing, clientAt
  <2>2. ASSUME NEW x \in Topic, x \notin msg_handlers'
        PROVE  Single(x)' /\ Fresh(x)' /\ Behind(x)'
    <3>1. Single(x) /\ Fresh(x) /\ Behind(x)
      BY <1>1, <1>3, <2>2 DEF Subscribing, clientAt
    <3>2. /\ Single(x)' /\ (Waiting(x)' => Waiting(x))
          /\ x \in b_subs' \ b_subs => ~ Waiting(x)'
          /\ \A i : Stands(i, x)' => Stands(i, x)
      BY <1>1, <3>1, FewerAsk
    <3>3. Fresh(x)'
      <4>. SUFFICES ASSUME Waiting(x)'
                    PROVE  x \notin b_subs' /\ \A m \in ServerMsg : TopicOf[m] = x => b_out'[m] = "new"
        BY DEF Fresh
      <4>1. x \notin b_subs /\ \A m \in ServerMsg : TopicOf[m] = x => b_out[m] = "new"
        BY <3>1, <3>2 DEF Fresh
      <4>. QED  BY <3>2, <4>1 DEF Serves
    <3>4. Behind(x)'
      <4>. SUFFICES ASSUME NEW m \in ServerMsg, TopicOf[m] = x, NEW j \in 1 .. Len(s2c'),
                           NEW k \in 1 .. Len(s2c'), IsPublish(s2c'[j], m), j < k, Grants(s2c[k], x)'
                    PROVE  FALSE
        BY DEF Behind, IsPublish
      <4>1. j \in 1 .. Len(s2c) /\ s2c'[j] = s2c[j]
        BY <1>1, UnderWay
      <4>2. CASE k \in 1 .. Len(s2c) /\ s2c'[k] = s2c[k]
        BY <3>1, <3>2, <4>1, <4>2 DEF Behind, Grants
      <4>3. CASE Sends(s2c'[k])
        <5>1. PICK p : p = s2c'[k]
          OBVIOUS
        <5>2. p.type = "SUBACK" /\ Grants(p, x)' /\ Sends(p)
          BY <4>3, <5>1 DEF Grants
        <5>3. Waiting(x)
          BY <5>2, SendsGrant
        <5>. QED  BY <1>1, <3>1, <4>1, <5>3 DEF Fresh, Sent
      <4>. QED  BY <1>1, <4>2, <4>3, UnderWay
    <3>. QED  BY <3>2, <3>3, <3>4
  <2>. QED  BY <2>1, <2>2 DEF Subscribing
<1>. QED  BY <1>2, <1>3

(* What is under way to the client is the server's. *)
LEMMA ServerSent ==
  ASSUME IdsDiffer, ForgottenInv, Serves, UNCHANGED clientAt
  PROVE  Sent'
<1>1. TypeInv /\ Sent
  BY DEF ForgottenInv, SystemTypeInv
<1>2. \A m \in ServerMsg : Confirmed(m) => Confirmed(m)'
  BY DEF Serves
<1>3. ASSUME NEW j \in 1 .. Len(s2c')
      PROVE  /\ IsServed(s2c'[j])
             /\ \A m \in ServerMsg : /\ IsPublish(s2c'[j], m) => b_out'[m] # "new"
                                     /\ IsPubrel(s2c'[j], m) => Confirmed(m)
  <2>1. CASE j \in 1 .. Len(s2c) /\ s2c'[j] = s2c[j]
    BY <1>1, <2>1 DEF Sent, Serves
  <2>2. CASE Sends(s2c'[j])
    <3>1. PICK p : p = s2c'[j]
      OBVIOUS
    <3>2. Says(p)
      BY <2>2, <3>1 DEF Sends
    <3>3. CASE p.type \notin {"PUBLISH", "PUBREL"}
      BY <3>1, <3>3 DEF IsServed, IsPublish, IsPubrel
    <3>4. ASSUME NEW k \in ServerMsg, p = Plain("PUBLISH", ServerId[k], k), peer'.out[k] = "sent"
          PROVE  /\ IsServed(p)
                 /\ \A m \in ServerMsg : /\ IsPublish(p, m) => b_out'[m] # "new"
                                         /\ IsPubrel(p, m) => Confirmed(m)
      <4>1. p.type = "PUBLISH" /\ p.id = ServerId[k] /\ p.body = k
        BY <3>4 DEF Plain
      <4>. QED  BY <3>4, <4>1 DEF IsServed, IsPublish, IsPubrel, b_out
    <3>5. ASSUME NEW k \in ServerMsg, p = Ack("PUBREL", ServerId[k]), Confirmed(k)
          PROVE  /\ IsServed(p)
                 /\ \A m \in ServerMsg : /\ IsPublish(p, m) => b_out'[m] # "new"
                                         /\ IsPubrel(p, m) => Confirmed(m)
      <4>1. p.type = "PUBREL" /\ p.id = ServerId[k]
        BY <3>5 DEF Plain, Ack
      <4>. QED  BY <3>5, <4>1 DEF IsServed, IsPublish, IsPubrel, IdsDiffer
    <3>. QED  BY <3>1, <3>2, <3>3, <3>4, <3>5 DEF Says
  <2>. QED  BY <1>1, <2>1, <2>2, UnderWay
<1>4. pc' = pc /\ pkt' = pkt
  BY DEF clientAt
<1>. QED  BY <1>1, <1>2, <1>3, <1>4 DEF Sent, IsServed, IsPublish, IsPubrel

(* The steps outside the client keep the invariant. *)
LEMMA ServerForgets ==
  ASSUME IdsDiffer, ForgottenInv, SystemTypeInv', LockExclusion',
         ServerWorks \/ LinkDown \/ UNCHANGED vars
  PROVE  ForgottenInv'
<1>1. TypeInv /\ SystemTypeInv /\ TopicOf \in [Msg -> Topic] /\ ServerMsg \subseteq Msg
  BY DataAssumption, ServerAssumption DEF ForgottenInv, SystemTypeInv
<1>2. Serves
  BY <1>1, ServerServes, OutsideServes
<1>3. UNCHANGED clientAt /\ UNCHANGED <<write_lock, mqtt_thread, client_state, faults>>
  BY ServerApart
  DEF LinkDown, vars, sessVars, ackVars, lockVars, callVars, iterVars, histVars, clientAt
<1>4. Control'
  BY <1>3 DEF clientAt, ForgottenInv, Control, AppReads, ThreadMade, InvalidIsCleaned,
              NullIsDead, ScanOnly, Cleaned, Zeroed, Gone
<1>5. SubKnown' /\ OneTopic' /\ Subscribing' /\ Sent'
  BY <1>2, <1>3, ServerKnown, ServerSubscribing, ServerSent
<1>6. \A m \in ServerMsg : /\ Over(TopicOf[m]) => Over(TopicOf[m])'
                           /\ Lost(TopicOf[m]) => Lost(TopicOf[m])'
  BY <1>1, <1>2, <1>3, ServerOver
<1>7. Missed' /\ AppsRecord' /\ SendsOwn'
  <2>1. pc' = pc /\ pkt' = pkt /\ msg_handlers' = msg_handlers
    BY <1>3 DEF clientAt
  <2>. QED  BY <1>6, <2>1 DEF ForgottenInv, Missed, AppsRecord, SendsOwn, IsPublish
<1>8. \A m \in ServerMsg : Done(m) => Done(m)'
  BY <1>3, <1>6 DEF Done, Occurs, clientAt
<1>9. NodesReply'
  <2>1. ack_list' = ack_list /\ expired' = expired
    BY <1>3 DEF clientAt
  <2>. QED  BY <1>8, <2>1 DEF ForgottenInv, NodesReply, Resent
<1>10. ASSUME NEW m \in ServerMsg, Replied(m)' PROVE Done(m)' \/ IsDelivering(m)'
  <2>1. Replied(m)
    <3>1. CASE Confirmed(m)'
      BY <1>2, <3>1 DEF Serves
    <3>2. ASSUME NEW j \in 1 .. Len(c2s'), c2s'[j].type \in AckReply, c2s'[j].id = ServerId[m]
          PROVE  Replied(m)
      <4>1. c2s \in Seq(Packet)
        BY <1>1 DEF TypeInv, TypeOK
      <4>2. \E k \in 1 .. Len(c2s) : c2s'[j] = c2s[k]
        <5>1. CASE c2s' \in {c2s, << >>}
          BY <5>1
        <5>2. CASE c2s # << >> /\ c2s' = Tail(c2s)
          <6>1. j + 1 \in 1 .. Len(c2s) /\ c2s'[j] = c2s[j + 1]
            BY <4>1, <5>2
          <6>. QED  BY <6>1
        <5>. QED  BY <1>2, <5>1, <5>2 DEF Serves
      <4>. QED  BY <3>2, <4>2 DEF Replied
    <3>. QED  BY <1>10, <3>1, <3>2 DEF Replied
  <2>2. IsDelivering(m)' = IsDelivering(m)
    BY <1>3 DEF IsDelivering, IsPublish, clientAt
  <2>. QED  BY <1>8, <2>1, <2>2 DEF ForgottenInv, RepliedDone
<1>11. RepliedDone'
  BY <1>10 DEF RepliedDone
<1>. QED  BY <1>4, <1>5, <1>7, <1>9, <1>11 DEF ForgottenInv

(* At first nothing is under way, and every topic is asked for once.        *)
LEMMA ForgottenInit == ASSUME SubscribedOnce, SystemInit PROVE ForgottenInv
<1>1. SystemTypeInv /\ LockExclusion
  BY SystemTypeInit, LockInit DEF SystemInit, LockInv
<1>2. /\ \A t \in Thread : pc[t] \in {"none", "idle"}
      /\ c2s = << >> /\ s2c = << >> /\ ack_list = {} /\ expired = {} /\ resub = {}
      /\ client_state = "INITIALIZED" /\ faults = {} /\ calls = Calls
      /\ b_subs = {} /\ \A m \in ServerMsg : b_out[m] = "new"
      /\ Yield \in Thread /\ pc[Yield] = "none" /\ Apps \subseteq Thread
  BY ThreadAssumption, Zenon DEF SystemInit, Init, Thread, b_subs, b_out
<1>3. Control
  BY <1>2 DEF Control, AppReads, ThreadMade, InvalidIsCleaned, NullIsDead, ScanOnly, InsidePC
<1>4. Len(c2s) = 0 /\ Len(s2c) = 0
  BY <1>2
<1>5. \A m \in ServerMsg : ~ Confirmed(m)
  BY <1>2 DEF Confirmed, b_out
<1>6. \A i, x : ~ Stands(i, x) /\ ~ Granted(i)
  BY <1>2, <1>4 DEF Stands, Granted, SubWire, SubThread, SubNode
<1>7. SubKnown /\ OneTopic
  BY <1>6 DEF SubKnown, OneTopic
<1>8. Subscribing
  <2>. SUFFICES ASSUME NEW x \in Topic PROVE Single(x) /\ Fresh(x) /\ Behind(x)
    BY <1>2 DEF Subscribing
  <2>1. /\ \A t \in Thread : ~ Asking(t, x)
        /\ \A a, b \in Apps : ToAsk(a, x) /\ ToAsk(b, x) => a = b
    BY <1>2 DEF Asking, ToAsk, SubscribedOnce
  <2>. QED  BY <1>2, <1>4, <2>1 DEF Single, Fresh, Behind
<1>9. Sent /\ Missed /\ AppsRecord /\ SendsOwn
  BY <1>2, <1>4 DEF Sent, Missed, AppsRecord, SendsOwn, OwnPC
<1>10. NodesReply /\ RepliedDone
  BY <1>2, <1>4, <1>5 DEF NodesReply, RepliedDone, Replied
<1>. QED  BY <1>1, <1>3, <1>7, <1>8, <1>9, <1>10 DEF ForgottenInv

(* It is inductive as long as the identifiers last. *)
LEMMA ForgottenNext ==
  ASSUME IdsDiffer, IdsLast, ForgottenInv, [SystemNext]_vars
  PROVE  ForgottenInv'
<1>1. /\ TypeInv /\ SystemTypeInv /\ LockExclusion /\ Control
      /\ SendsOwn /\ NodesReply /\ SubKnown /\ OneTopic
  BY DEF ForgottenInv, SystemTypeInv
<1>2. SystemTypeInv' /\ LockExclusion'
  BY <1>1, SystemTypeNext, SystemLockNext
<1>3. CASE ClientNext
  <2>1. PICK t \in Thread : Step(t)
    BY <1>3, ClientSteps
  <2>2. Makes(t)
    BY <1>1, <1>3, <2>1, StepFrame, StepComes, StepLearns, ClientPeer DEF Makes
  <2>3. Control' /\ (Zeroed => Zeroed') /\ (Release(t) => Zeroed')
    BY <1>1, <1>3, ClientControl, ReleaseControl
  <2>4. \A i \in Ids : Used(i) => Used(i)'
    BY <1>1, <2>2, <2>3, UsedStays DEF Makes, Learns
  <2>5. SubKnown' /\ OneTopic'
    BY <1>1, <2>2, <2>4, ClientKnown DEF Makes
  <2>6. Subscribing' /\ Sent' /\ Missed' /\ AppsRecord' /\ SendsOwn'
    BY <2>2, ClientSubscribing, ClientSent, ClientMissed, ClientOwns
  <2>7. NodesReply' /\ RepliedDone'
    BY <2>2, ClientNodes, ClientReplied
  <2>. QED  BY <1>2, <2>3, <2>5, <2>6, <2>7 DEF ForgottenInv
<1>4. CASE ServerWorks \/ LinkDown \/ UNCHANGED vars
  BY <1>2, <1>4, ServerForgets
<1>. QED  BY <1>3, <1>4, StepKinds

(* What the server may forget has been delivered: once it has the client's  *)
(* acknowledgement of a message whose topic has a handler, the handler was  *)
(* called, or the yield thread is on its way to call it.  So it is over     *)
(* every interleaving of subscriptions, SUBACK and the first message of the *)
(* topic, over lost connections and retransmissions, as long as the         *)
(* identifiers of the client have not wrapped, the server's messages have   *)
(* identifiers of their own and no topic is subscribed to by two threads.   *)
THEOREM ForgottenDelivered ==
  ASSUME IdsDiffer, SubscribedOnce
  PROVE  SystemSpec /\ []IdsLast => []ForgottenIsDelivered
<1>1. ForgottenInv => ForgottenIsDelivered
  <2>. SUFFICES ASSUME ForgottenInv, NEW m \in ServerMsg, TopicOf[m] \in msg_handlers,
                       b_out[m] \in {"release", "released", "done"}
                PROVE  \/ Occurs(m, delivered)
                       \/ pc[Yield] = "rec_record" /\ pkt[Yield].body = m
    BY DEF ForgottenIsDelivered
  <2>1. Replied(m)
    BY DEF Replied, Confirmed, b_out
  <2>2. Done(m) \/ IsDelivering(m)
    BY <2>1 DEF ForgottenInv, RepliedDone
  <2>. QED  BY <2>2 DEF Done, Lost, IsDelivering, IsPublish
<1>2. SystemInit => ForgottenInv
  BY ForgottenInit
<1>3. IdsLast /\ ForgottenInv /\ [SystemNext]_vars => ForgottenInv'
  BY ForgottenNext
<1>. QED  BY <1>1, <1>2, <1>3, PTL DEF SystemSpec
=============================================================================

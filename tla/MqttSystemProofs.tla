-------------------------- MODULE MqttSystemProofs --------------------------
(***************************************************************************)
(* What holds of the MQTT client and its server together: the types, the   *)
(* exclusion of the write lock, where the threads are, and the promise of  *)
(* quality of service 2 from the server to the message handlers, for every *)
(* number of threads, messages, topics and connections.                    *)
(***************************************************************************)
EXTENDS MqttProofs, MqttSystem

PeerType == peer \in [conn : Nat, subs : SUBSET Topic, has : SUBSET Msg, log : Seq(Msg),
                      ids : SUBSET (0 .. MaxPacketId), out : [ServerMsg -> OutState]]

SystemTypeInv == TypeInv /\ PeerType

(* A packet of the server's behind what is under way. *)
LEMMA AnswerType ==
  ASSUME NetType, c2s # << >>, NEW p \in Packet, Answer(p) \/ NoAnswer, UNCHANGED <<link, connects>>
  PROVE  NetType'
<1>1. c2s' \in Seq(Packet)
  <2>1. c2s' = Tail(c2s)
    BY DEF Answer, NoAnswer
  <2>. QED  BY <2>1 DEF NetType
<1>2. s2c' \in Seq(Packet)
  <2>1. s2c' = Append(s2c, p) \/ s2c' = s2c
    BY DEF Answer, NoAnswer
  <2>. QED  BY <2>1 DEF NetType
<1>. QED  BY <1>1, <1>2 DEF NetType

(* The packet the server takes is one. *)
LEMMA TakenType ==
  ASSUME NetType, c2s # << >>
  PROVE  /\ Head(c2s) \in Packet
         /\ Head(c2s).id \in 0 .. MaxPacketId
         /\ Head(c2s).type = "PUBLISH" => Head(c2s).body \in Msg
         /\ Head(c2s).type = "SUBSCRIBE" => Head(c2s).body \in Topic
<1>1. Head(c2s) \in Packet
  BY DEF NetType
<1>. QED  BY <1>1 DEF Packet

(* What the server answers with is a packet. *)
LEMMA ServerPackets ==
  ASSUME NEW id \in 0 .. MaxPacketId
  PROVE  /\ \A type \in {"PUBACK", "PUBREC", "PUBREL", "PUBCOMP", "UNSUBACK", "PINGRESP"} :
              Ack(type, id) \in Packet
         /\ Plain("CONNACK", 0, "yes") \in Packet
         /\ Plain("SUBACK", id, "yes") \in Packet
         /\ \A m \in Msg : Plain("PUBLISH", id, m) \in Packet
BY BoundAssumption DEF Ack, Plain, Packet, PacketType

(* The steps of the server but the closing of the connection. *)
ServerWorks == \/ ServerConnect \/ ServerSubscribe \/ ServerUnsubscribe \/ ServerPing
               \/ ServerPublish \/ ServerPubrel \/ ServerAcked
               \/ \E m \in ServerMsg : ServerSend(m)

(* They touch nothing of the client's. *)
LEMMA ServerApart ==
  ASSUME ServerWorks
  PROVE  UNCHANGED <<sessVars, lockVars, ackVars, pc, pkt, callVars, iterVars, histVars,
                     link, connects>>
BY DEF ServerWorks, ServerConnect, ServerSubscribe, ServerUnsubscribe, ServerPing,
       ServerPublish, ServerPubrel, ServerAcked, ServerSend, Takes, clientRest

(* What they send keeps the network's types. *)
LEMMA ServerNetType == ASSUME NetType, ServerWorks PROVE NetType'
<1>1. UNCHANGED <<link, connects>>
  BY ServerApart
<1>2. CASE ServerConnect
  BY <1>1, <1>2, AnswerType, ServerPackets, BoundAssumption DEF ServerConnect, Takes
<1>3. CASE ServerSubscribe
  BY <1>1, <1>3, AnswerType, TakenType, ServerPackets DEF ServerSubscribe, Takes
<1>4. CASE ServerUnsubscribe
  BY <1>1, <1>4, AnswerType, TakenType, ServerPackets DEF ServerUnsubscribe, Takes
<1>5. CASE ServerPing
  BY <1>1, <1>5, AnswerType, ServerPackets, BoundAssumption DEF ServerPing, Takes
<1>6. CASE ServerPublish
  <2>1. \/ NoAnswer \/ Answer(Ack("PUBACK", Head(c2s).id)) \/ Answer(Ack("PUBREC", Head(c2s).id))
    BY <1>6 DEF ServerPublish
  <2>. QED  BY <1>1, <1>6, <2>1, AnswerType, TakenType, ServerPackets DEF ServerPublish, Takes
<1>7. CASE ServerPubrel
  BY <1>1, <1>7, AnswerType, TakenType, ServerPackets DEF ServerPubrel, Takes
<1>8. CASE ServerAcked
  BY <1>1, <1>8, AnswerType, TakenType DEF ServerAcked, Takes
<1>9. ASSUME NEW m \in ServerMsg, ServerSend(m) PROVE NetType'
  <2>1. ServerId[m] \in 0 .. MaxPacketId /\ m \in Msg
    BY ServerAssumption
  <2>2. \E p \in Packet : s2c' = Append(s2c, p)
    BY <1>9, <2>1, ServerPackets DEF ServerSend
  <2>3. UNCHANGED c2s
    BY <1>9 DEF ServerSend
  <2>. QED  BY <1>1, <2>2, <2>3 DEF NetType
<1>. QED  BY <1>2, <1>3, <1>4, <1>5, <1>6, <1>7, <1>8, <1>9 DEF ServerWorks

(* What the server remembers keeps its types. *)
LEMMA ServerPeerType == ASSUME NetType, PeerType, ServerWorks PROVE PeerType'
<1>1. CASE ServerConnect
  BY <1>1 DEF ServerConnect, PeerType, NetType, OutState, b_out
<1>2. CASE ServerSubscribe
  BY <1>2, TakenType DEF ServerSubscribe, PeerType, Takes
<1>3. CASE ServerUnsubscribe
  BY <1>3 DEF ServerUnsubscribe, PeerType
<1>4. CASE ServerPing
  BY <1>4 DEF ServerPing, PeerType
<1>5. CASE ServerPublish
  <2>. DEFINE p == Head(c2s)
  <2>1. p.body \in Msg /\ p.id \in 0 .. MaxPacketId
    BY <1>5, TakenType DEF ServerPublish, Takes
  <2>2. PICK log \in {Append(peer.log, p.body), peer.log}, ids \in {peer.ids, peer.ids \cup {p.id}} :
          peer' = [peer EXCEPT !.has = @ \cup {p.body}, !.log = log, !.ids = ids]
    BY <1>5 DEF ServerPublish, PeerType
  <2>. HIDE DEF p
  <2>3. log \in Seq(Msg) /\ ids \in SUBSET (0 .. MaxPacketId)
    BY <2>1, <2>2 DEF PeerType
  <2>. QED  BY <2>1, <2>2, <2>3 DEF PeerType
<1>6. CASE ServerPubrel
  BY <1>6 DEF ServerPubrel, PeerType
<1>7. CASE ServerAcked
  BY <1>7 DEF ServerAcked, PeerType, OutState
<1>8. ASSUME NEW m \in ServerMsg, ServerSend(m) PROVE PeerType'
  <2>1. \E o \in OutState : peer' = [peer EXCEPT !.out[m] = o]
    BY <1>8 DEF ServerSend, OutState
  <2>. QED  BY <2>1 DEF PeerType
<1>. QED  BY <1>1, <1>2, <1>3, <1>4, <1>5, <1>6, <1>7, <1>8 DEF ServerWorks

(* No step of the client changes it. *)
LEMMA PublishPeer == ASSUME NEW t, PublishStep(t) \/ SubscribeStep(t) PROVE UNCHANGED peer
BY DEF PublishStep, PublishCall, PublishRefuse, PublishLock, PublishSend, PublishRecord,
       PublishDisc, SubscribeStep, SubscribeCall, UnsubscribeCall, SubscribeLock, SubscribeSend,
       SubscribeRecord, UnsubscribeLock, UnsubscribeSend, UnsubscribeRecord, Start, Move,
       LockAndSerialize, SendOrReturn, SendOk, SendFails, netVars
(* The same of connecting and disconnecting. *)
LEMMA ConnectPeer == ASSUME NEW t, ConnectStep(t) \/ DisconnectStep(t) PROVE UNCHANGED peer
BY DEF ConnectStep, ConnectCall, ConnectNetwork, ConnectReturn, ConnectLock, ConnectSend,
       ConnectTimeout, ConnectFail, ConnectAccepted, ConnectUp, ConnectCreateThread,
       ConnectNoThread, ConnectStoreThread, ConnectSetState, ConnectStartThread,
       ConnectRefused, DisconnectStep,
       DisconnectCall, DisconnectLock, DisconnectSend, DisconnectState, Release, Start, Move,
       LockAndSerialize, SendOk, SendFails, netVars
(* The same of handling a packet. *)
LEMMA HandlePeer == ASSUME NEW t, HandleStep(t) \/ KeepAliveStep(t) PROVE UNCHANGED peer
BY DEF HandleStep, Read, ReadTimeout, HandleNotConnected, HandleConnack, HandleAck,
       HandleSuback, HandleUnsuback, HandlePublish, RecordPubrel, HandlePubrec, HandlePubrel,
       Unrecord, HandlePingresp, KeepAliveStep, KeepAliveQuiet, KeepAlivePing, KeepAliveSend,
       KeepAliveDead, KeepAliveDisc, Move, SendOk, SendFails, netVars
(* The same of the yield thread. *)
LEMMA YieldPeer == ASSUME YieldStep PROVE UNCHANGED peer
BY DEF YieldStep, YieldStart, YieldSuspend, YieldTop, ReconnectBeaten, ReconnectScan, Resubscribe,
       AckListScan, AckHandlerResend, AckHandlerDestroy, AckListScanned, CleanSession,
       YieldDestroy, Move, SendOk, SendFails, netVars
(* Together. *)
LEMMA ClientPeer == ASSUME ClientNext PROVE UNCHANGED peer
BY PublishPeer, ConnectPeer, HandlePeer, YieldPeer DEF ClientNext, ThreadStep

(* A step of the whole is one of the client, one of the server that leaves  *)
(* the connection up, or the loss of the connection.                        *)
LEMMA StepKinds ==
  ASSUME [SystemNext]_vars
  PROVE  ClientNext \/ ServerWorks \/ LinkDown \/ UNCHANGED vars
BY DEF SystemNext, ServerStep, ServerWorks, ServerCloses

(* The types are inductive. *)
LEMMA SystemTypeNext ==
  ASSUME SystemTypeInv, [SystemNext]_vars
  PROVE  SystemTypeInv'
<1>1. CASE ClientNext
  BY <1>1, ClientType, ClientPeer DEF SystemTypeInv, PeerType
<1>2. CASE ServerWorks
  <2>1. NetType /\ PeerType
    BY TypeParts DEF SystemTypeInv
  <2>2. TypeInv'
    BY <1>2, <2>1, ServerNetType, ServerApart, OutsideType DEF SystemTypeInv
  <2>. QED  BY <1>2, <2>1, <2>2, ServerPeerType DEF SystemTypeInv
<1>3. CASE LinkDown
  BY <1>3, LinkDownType DEF SystemTypeInv, PeerType, LinkDown
<1>4. CASE UNCHANGED vars
  BY <1>4, StutterType DEF SystemTypeInv, PeerType, vars, netVars
<1>. QED  BY <1>1, <1>2, <1>3, <1>4, StepKinds

(* The system starts with the types it keeps. *)
LEMMA SystemTypeInit == SystemInit => SystemTypeInv
<1>1. SystemInit => PeerType
  BY DEF SystemInit, PeerType, OutState
<1>. QED  BY <1>1, InitType DEF SystemInit, SystemTypeInv

(* Over lost connections, retransmissions and every order in which client   *)
(* and server act, each variable of the client, each packet under way and   *)
(* what the server remembers stay in their types: the identifiers the       *)
(* client makes wrap inside their range, its counter never is negative, and *)
(* no packet of one side lacks what the other reads from it.                *)
THEOREM SystemTypeCorrect == SystemSpec => []SystemTypeOK
<1>1. SystemTypeInv => SystemTypeOK
  BY DEF SystemTypeInv, SystemTypeOK, TypeInv, PeerType
<1>. QED  BY <1>1, SystemTypeInit, SystemTypeNext, PTL DEF SystemSpec
-----------------------------------------------------------------------------
(* The exclusion is inductive. *)
LEMMA SystemLockNext ==
  ASSUME SystemTypeInv, LockExclusion, [SystemNext]_vars
  PROVE  LockExclusion'
<1>1. LockInv
  BY DEF SystemTypeInv, LockInv
<1>2. CASE ClientNext
  BY <1>1, <1>2, ClientLock
<1>3. CASE ServerWorks \/ LinkDown \/ UNCHANGED vars
  <2>1. UNCHANGED <<pc, write_lock>>
    BY <1>3, ServerApart DEF LinkDown, vars, lockVars
  <2>. QED  BY <1>1, <2>1, LockUntouched
<1>. QED  BY <1>2, <1>3, StepKinds

(* With the server it is written for, and any number of threads that        *)
(* connect, publish, subscribe and disconnect, no two threads ever are      *)
(* inside sections that mqtt_write_lock is to keep apart.                   *)
THEOREM SystemLockExcludes == SystemSpec => []LockExclusion
<1>1. SystemInit => LockExclusion
  BY LockInit DEF SystemInit, LockInv
<1>. QED  BY <1>1, SystemTypeInit, SystemTypeNext, SystemLockNext, PTL DEF SystemSpec
-----------------------------------------------------------------------------
(* Where the threads are.  An application thread reads packets only inside  *)
(* mqtt_connect, with the write lock; the yield thread is made once, and    *)
(* ends when it has cleaned the session; only its scan has nodes to treat.  *)
InsidePC == {"read", "handle", "rec_record", "unrecord", "keepalive", "ka_send", "ka_disc"}
AppReads == \A a \in Apps : (pc[a] \in InsidePC => write_lock = a) /\ pc[a] # "scan"

(* The session is cleaned, and the yield thread reads no more; mqtt_release *)
(* was called besides, and no call is left.                                 *)
Gone == pc[Yield] \in {"destroy", "dead"}
Zeroed == Gone /\ \A a \in Apps : calls[a] = {} /\ pc[a] = "idle"
ThreadMade == pc[Yield] # "none" =>
                mqtt_thread \/ (\E a \in Apps : pc[a] = "conn_new") \/ Zeroed
InvalidIsCleaned == client_state = "INVALID" => Cleaned
NullIsDead == "null_thread" \in faults => pc[Yield] = "dead"
ScanOnly == pc[Yield] # "scan_loop" => expired = {}
Control == AppReads /\ ThreadMade /\ InvalidIsCleaned /\ NullIsDead /\ ScanOnly

(* What a step of a thread does to that, but for those that make the yield  *)
(* thread and mqtt_release.                                                 *)
EndPC == {"none", "start", "start_stop", "suspended", "scan_loop", "conn_new", "conn_start",
          "destroy", "dead"}
Walks(t, label) ==
  /\ Goto(t, label) /\ label \in PC \ EndPC /\ pc[t] \notin EndPC
  /\ pc[t] = "idle" => t \in Apps /\ calls[t] # {}
  /\ t \in Apps => /\ label # "scan"
                   /\ label \in InsidePC => write_lock = t /\ UNCHANGED write_lock
Apart(t) ==
  /\ write_lock # None /\ write_lock # t => UNCHANGED write_lock
  /\ UNCHANGED <<mqtt_thread, expired>>
  /\ client_state' = "INVALID" => client_state = "INVALID"
  /\ "null_thread" \in faults' => "null_thread" \in faults
  /\ \A a \in Apps : calls'[a] \subseteq calls[a]

(* Such a step leaves the control as it is. *)
LEMMA WalksControl ==
  ASSUME TypeInv, Control, NEW t \in Thread, NEW label, Walks(t, label), Apart(t)
  PROVE  Control' /\ (Cleaned => Cleaned') /\ (Zeroed => Zeroed')
<1>1. \A u \in Thread : pc'[u] = IF u = t THEN label ELSE pc[u]
  BY DEF Walks, Goto, TypeInv, TypeOK
<1>2. Yield \in Thread /\ Apps \subseteq Thread /\ Yield \notin Apps /\ None \notin Apps
  BY ThreadAssumption DEF Thread
<1>3. AppReads'
  BY <1>1, <1>2 DEF Control, AppReads, Walks, Apart
<1>4. Gone => Gone' /\ t # Yield /\ pc'[Yield] = pc[Yield]
  BY <1>1, <1>2 DEF Gone, Walks, EndPC
<1>5. ~ Zeroed
  BY <1>4 DEF Zeroed, Walks, Thread
<1>6. ThreadMade'
  <2>1. CASE t = Yield
    BY <1>1, <1>2, <1>5, <2>1 DEF Control, ThreadMade, Walks, Apart, EndPC
  <2>2. CASE t \in Apps
    BY <1>1, <1>2, <1>5, <2>2 DEF Control, ThreadMade, Walks, Apart, EndPC
  <2>. QED  BY <2>1, <2>2 DEF Thread
<1>7. Cleaned => Cleaned'
  BY <1>4 DEF Cleaned, Gone, Apart
<1>8. InvalidIsCleaned'
  BY <1>7 DEF Control, InvalidIsCleaned, Apart
<1>9. NullIsDead'
  BY <1>4 DEF Control, NullIsDead, Apart, Gone
<1>10. ScanOnly'
  BY <1>1, <1>2 DEF Control, ScanOnly, Walks, Apart, EndPC
<1>. QED  BY <1>3, <1>5, <1>6, <1>7, <1>8, <1>9, <1>10 DEF Control

(* Publishing, subscribing and unsubscribing. *)
LEMMA CallsWalk ==
  ASSUME TypeInv, LockExclusion, Control, NEW t \in Thread, PublishStep(t) \/ SubscribeStep(t)
  PROVE  (\E label \in PC : Walks(t, label)) /\ Apart(t)
<1>. DEFINE Labels == {"pub_lock", "pub_disc", "pub_send", "pub_record", "idle", "resub",
                      "sub_lock", "sub_send", "sub_record", "unsub_lock", "unsub_send",
                      "unsub_record"}
<1>1. PICK label \in Labels : Goto(t, label)
  BY DEF PublishStep, PublishCall, PublishRefuse, PublishLock, PublishSend, PublishRecord,
       PublishDisc, SubscribeStep, SubscribeCall, UnsubscribeCall, SubscribeLock, SubscribeSend,
       SubscribeRecord, UnsubscribeLock, UnsubscribeSend, UnsubscribeRecord, Start, Move,
       LockAndSerialize, SendOrReturn, Return
<1>2. pc[t] \in Labels
  BY DEF PublishStep, PublishCall, PublishRefuse, PublishLock, PublishSend, PublishRecord,
       PublishDisc, SubscribeStep, SubscribeCall, UnsubscribeCall, SubscribeLock, SubscribeSend,
       SubscribeRecord, UnsubscribeLock, UnsubscribeSend, UnsubscribeRecord, Start, Move,
       LockAndSerialize, SendOrReturn, Return
<1>3. pc[t] = "idle" => t \in Apps /\ calls[t] # {}
  BY DEF PublishStep, PublishCall, PublishRefuse, PublishLock, PublishSend, PublishRecord,
       PublishDisc, SubscribeStep, SubscribeCall, UnsubscribeCall, SubscribeLock, SubscribeSend,
       SubscribeRecord, UnsubscribeLock, UnsubscribeSend, UnsubscribeRecord, Start, Move,
       LockAndSerialize, SendOrReturn, Return
<1>4. \A a \in Apps : calls'[a] \subseteq calls[a]
  <2>1. calls' = calls \/ \E c : calls' = [calls EXCEPT ![t] = @ \ {c}]
    BY DEF PublishStep, PublishCall, PublishRefuse, PublishLock, PublishSend, PublishRecord,
         PublishDisc, SubscribeStep, SubscribeCall, UnsubscribeCall, SubscribeLock,
         SubscribeSend, SubscribeRecord, UnsubscribeLock, UnsubscribeSend, UnsubscribeRecord,
         Start, Move, LockAndSerialize, SendOrReturn, callVars
  <2>. QED  BY <2>1 DEF TypeInv, TypeOK
<1>5. /\ UNCHANGED <<mqtt_thread, expired, faults>>
      /\ client_state' = "INVALID" => client_state = "INVALID"
  BY DEF PublishStep, PublishCall, PublishRefuse, PublishLock, PublishSend, PublishRecord,
         PublishDisc, SubscribeStep, SubscribeCall, UnsubscribeCall, SubscribeLock,
         SubscribeSend, SubscribeRecord, UnsubscribeLock, UnsubscribeSend, UnsubscribeRecord,
         Start, Move, LockAndSerialize, SendOrReturn, sessVars, iterVars, histVars
<1>6. UNCHANGED write_lock \/ write_lock = None \/ pc[t] \in LockedPC
  BY DEF PublishStep, PublishCall, PublishRefuse, PublishLock, PublishSend, PublishRecord,
         PublishDisc, SubscribeStep, SubscribeCall, UnsubscribeCall, SubscribeLock,
         SubscribeSend, SubscribeRecord, UnsubscribeLock, UnsubscribeSend, UnsubscribeRecord,
         Start, Move, LockAndSerialize, SendOrReturn, Acquire, lockVars, LockedPC
<1>7. write_lock # None /\ write_lock # t => UNCHANGED write_lock
  BY <1>6 DEF LockExclusion
<1>8. Labels \subseteq PC \ (InsidePC \cup EndPC \cup {"scan"})
  BY DEF PC, LockedPC, InsidePC, EndPC
<1>9. Walks(t, label)
  BY <1>1, <1>2, <1>3, <1>8 DEF Walks
<1>10. Apart(t)
  BY <1>4, <1>5, <1>7 DEF Apart
<1>. QED  BY <1>8, <1>9, <1>10

(* The steps of mqtt_connect, but its start and the creation of the thread. *)
ConnectOn(t) == \/ ConnectNetwork(t) \/ ConnectReturn(t) \/ ConnectLock(t) \/ ConnectSend(t)
                \/ ConnectTimeout(t) \/ ConnectFail(t) \/ ConnectAccepted(t)
                \/ ConnectNoThread(t) \/ ConnectRefused(t)

(* Connecting, once the network is asked for a connection. *)
LEMMA ConnectWalks ==
  ASSUME TypeInv, LockExclusion, Control, NEW t \in Thread, ConnectOn(t)
  PROVE  (\E label \in PC : Walks(t, label)) /\ Apart(t)
<1>. DEFINE Labels == {"conn_lock", "idle", "top", "conn_send", "read", "conn_fail", "resub"}
<1>1. PICK label \in Labels : Goto(t, label) /\ (label = "read" => pc[t] = "conn_send" /\ UNCHANGED lockVars)
  BY DEF ConnectOn, ConnectNetwork, ConnectReturn, ConnectLock, ConnectSend, ConnectTimeout, ConnectFail,
         ConnectAccepted, ConnectUp, ConnectNoThread, ConnectRefused, Accepted, Move,
         LockAndSerialize, AfterConnect, Return
<1>2. pc[t] \in {"conn_begin", "conn_lock", "conn_send", "read", "conn_fail", "handle"}
  BY DEF ConnectOn, ConnectNetwork, ConnectReturn, ConnectLock, ConnectSend, ConnectTimeout, ConnectFail,
         ConnectAccepted, ConnectUp, ConnectNoThread, ConnectRefused, Accepted, Move,
         LockAndSerialize
<1>3. /\ UNCHANGED <<mqtt_thread, expired, faults, calls>>
      /\ client_state' = "INVALID" => client_state = "INVALID"
  BY DEF ConnectOn, ConnectNetwork, ConnectReturn, ConnectLock, ConnectSend, ConnectTimeout, ConnectFail,
         ConnectAccepted, ConnectUp, ConnectNoThread, ConnectRefused, Accepted, Move,
         LockAndSerialize, sessVars, iterVars, histVars, callVars
<1>4. UNCHANGED write_lock \/ write_lock = None \/ write_lock = t \/ pc[t] = "conn_fail"
  BY DEF ConnectOn, ConnectNetwork, ConnectReturn, ConnectLock, ConnectSend, ConnectTimeout, ConnectFail,
         ConnectAccepted, ConnectUp, ConnectNoThread, ConnectRefused, Accepted, Move,
         LockAndSerialize, Acquire, Connecting, lockVars
<1>5. {"conn_send", "conn_fail"} \subseteq LockedPC
  BY DEF LockedPC
<1>6. write_lock # None /\ write_lock # t => UNCHANGED write_lock
  BY <1>4, <1>5 DEF LockExclusion
<1>7. label = "read" => write_lock = t /\ UNCHANGED write_lock
  BY <1>1, <1>5 DEF LockExclusion, lockVars
<1>8. /\ Labels \subseteq PC \ (EndPC \cup {"scan"}) /\ Labels \cap InsidePC = {"read"}
      /\ {"conn_begin", "conn_lock", "conn_send", "read", "conn_fail", "handle"} \cap (EndPC \cup {"idle"}) = {}
  BY DEF PC, LockedPC, InsidePC, EndPC
<1>9. Walks(t, label)
  BY <1>1, <1>2, <1>7, <1>8 DEF Walks
<1>10. Apart(t)
  BY <1>3, <1>6 DEF Apart
<1>. QED  BY <1>8, <1>9, <1>10

(* The start of mqtt_connect, and mqtt_disconnect. *)
LEMMA DisconnectWalks ==
  ASSUME TypeInv, LockExclusion, Control, NEW t \in Thread,
         \/ ConnectCall(t)
         \/ DisconnectCall(t) \/ DisconnectLock(t) \/ DisconnectSend(t) \/ DisconnectState(t)
  PROVE  (\E label \in PC : Walks(t, label)) /\ Apart(t)
<1>. DEFINE Labels == {"conn_begin", "disc_lock", "disc_send", "disc_state", "idle", "resub"}
<1>1. PICK label \in Labels : Goto(t, label)
  BY DEF ConnectCall, DisconnectCall, DisconnectLock, DisconnectSend, DisconnectState, Start,
         LockAndSerialize, Return
<1>2. pc[t] \in Labels /\ (pc[t] = "idle" => t \in Apps /\ calls[t] # {})
  BY DEF ConnectCall, DisconnectCall, DisconnectLock, DisconnectSend, DisconnectState, Start
<1>3. /\ UNCHANGED <<mqtt_thread, expired, faults>>
      /\ client_state' = "INVALID" => client_state = "INVALID"
  BY DEF ConnectCall, DisconnectCall, DisconnectLock, DisconnectSend, DisconnectState, Start,
         LockAndSerialize, sessVars, iterVars, histVars
<1>4. UNCHANGED write_lock \/ write_lock = None \/ pc[t] = "disc_send"
  BY DEF ConnectCall, DisconnectCall, DisconnectLock, DisconnectSend, DisconnectState, Start,
         LockAndSerialize, Acquire, lockVars
<1>5. write_lock # None /\ write_lock # t => UNCHANGED write_lock
  BY <1>4 DEF LockExclusion, LockedPC
<1>6. \A a \in Apps : calls'[a] \subseteq calls[a]
  <2>1. calls' = calls \/ \E c : calls' = [calls EXCEPT ![t] = @ \ {c}]
    BY DEF ConnectCall, DisconnectCall, DisconnectLock, DisconnectSend, DisconnectState, Start,
           LockAndSerialize, callVars
  <2>. QED  BY <2>1 DEF TypeInv, TypeOK
<1>7. Labels \subseteq PC \ (InsidePC \cup EndPC \cup {"scan"})
  BY DEF PC, LockedPC, InsidePC, EndPC
<1>8. Walks(t, label)
  BY <1>1, <1>2, <1>7 DEF Walks
<1>9. Apart(t)
  BY <1>3, <1>5, <1>6 DEF Apart
<1>. QED  BY <1>7, <1>8, <1>9

(* Handling a packet, and keeping alive: inside mqtt_connect or in the      *)
(* yield thread. *)
LEMMA HandleWalks ==
  ASSUME TypeInv, LockExclusion, Control, NEW t \in Thread, HandleStep(t) \/ KeepAliveStep(t)
  PROVE  (\E label \in PC : Walks(t, label)) /\ Apart(t)
<1>. DEFINE Labels == {"handle", "keepalive", "scan", "rec_record", "unrecord", "read",
                      "conn_fail", "top", "ka_send", "ka_disc", "clean"}
<1>1. PICK label \in Labels :
        Goto(t, label) /\ (label = "scan" => write_lock # t)
  <2>1. CASE HandleStep(t)
    <3>1. \E label \in {"handle", "keepalive", "rec_record", "unrecord"} : Goto(t, label)
          \/ (Goto(t, "scan") /\ write_lock # t)
      BY <2>1 DEF HandleStep, Read, ReadTimeout, HandleNotConnected, HandleConnack, HandleAck,
         HandleSuback, HandleUnsuback, HandlePublish, RecordPubrel, HandlePubrec, HandlePubrel,
         Unrecord, HandlePingresp, Handling, Finish, Move, Connecting
    <3>. QED  BY <3>1
  <2>2. CASE KeepAliveStep(t)
    <3>1. \/ \E label \in {"ka_send", "ka_disc"} : Goto(t, label)
          \/ Goto(t, Handled(t)) \/ Goto(t, HandleError(t)) \/ Goto(t, "clean")
      BY <2>2 DEF KeepAliveStep, KeepAliveQuiet, KeepAlivePing, KeepAliveSend, KeepAliveDead,
         KeepAliveDisc, Move
    <3>. QED  BY <3>1 DEF Handled, HandleError, Connecting
  <2>. QED  BY <2>1, <2>2
<1>2. pc[t] \in InsidePC
  BY DEF HandleStep, Read, ReadTimeout, HandleNotConnected, HandleConnack, HandleAck,
         HandleSuback, HandleUnsuback, HandlePublish, RecordPubrel, HandlePubrec, HandlePubrel,
         Unrecord, HandlePingresp, Handling, Finish, Move, KeepAliveStep, KeepAliveQuiet,
         KeepAlivePing, KeepAliveSend, KeepAliveDead, KeepAliveDisc, InsidePC
<1>3. /\ UNCHANGED <<mqtt_thread, expired, calls, write_lock>>
      /\ client_state' = "INVALID" => client_state = "INVALID"
  BY DEF HandleStep, Read, ReadTimeout, HandleNotConnected, HandleConnack, HandleAck,
         HandleSuback, HandleUnsuback, HandlePublish, RecordPubrel, HandlePubrec, HandlePubrel,
         Unrecord, HandlePingresp, Handling, Finish, Move, KeepAliveStep, KeepAliveQuiet,
         KeepAlivePing, KeepAliveSend, KeepAliveDead, KeepAliveDisc, sessVars, iterVars,
         callVars, lockVars
<1>4. "null_thread" \in faults' => "null_thread" \in faults
  <2>1. UNCHANGED faults \/ faults' = faults \cup {"wild_handler"}
    BY DEF HandleStep, Read, ReadTimeout, HandleNotConnected, HandleConnack, HandleAck,
           HandleSuback, HandleUnsuback, HandlePublish, RecordPubrel, HandlePubrec, HandlePubrel,
           Unrecord, HandlePingresp, Handling, Finish, Move, KeepAliveStep, KeepAliveQuiet,
           KeepAlivePing, KeepAliveSend, KeepAliveDead, KeepAliveDisc, histVars
  <2>. QED  BY <2>1
<1>5. t \in Apps => write_lock = t
  BY <1>2 DEF Control, AppReads
<1>6. /\ Labels \subseteq PC \ EndPC
      /\ InsidePC \cap (EndPC \cup {"idle"}) = {}
  BY DEF PC, LockedPC, InsidePC, EndPC
<1>7. Walks(t, label)
  BY <1>1, <1>2, <1>3, <1>5, <1>6 DEF Walks
<1>8. Apart(t)
  BY <1>3, <1>4 DEF Apart
<1>. QED  BY <1>6, <1>7, <1>8

(* The yield thread is made once, by an application thread. *)
LEMMA ThreadControl ==
  ASSUME TypeInv, LockExclusion, Control, NEW t \in Thread,
         \/ ConnectCreateThread(t) \/ ConnectStoreThread(t)
         \/ ConnectSetState(t) \/ ConnectStartThread(t)
  PROVE  Control' /\ (Cleaned => Cleaned') /\ (Zeroed => Zeroed')
<1>1. Yield \in Thread /\ Apps \subseteq Thread /\ Yield \notin Apps /\ None \notin Apps
  BY ThreadAssumption DEF Thread
<1>2. CASE ConnectCreateThread(t)
  <2>1. /\ pc[t] = "handle" /\ write_lock = t /\ ~ mqtt_thread
        /\ pc' = [pc EXCEPT ![t] = "conn_new", ![Yield] = "start"]
        /\ UNCHANGED <<mqtt_thread, write_lock, client_state, faults, expired, calls>>
    BY <1>2 DEF ConnectCreateThread, Accepted, Connecting, sessVars, lockVars, histVars,
                iterVars, callVars
  <2>2. \A a \in Apps : pc[a] # "conn_new"
    BY <1>1, <2>1 DEF LockExclusion, LockedPC
  <2>3. t \in Apps => ~ Zeroed
    BY <2>1 DEF Zeroed
  <2>4. t = Yield => ~ Zeroed
    BY <2>1 DEF Zeroed, Gone
  <2>5. pc[Yield] = "none" /\ t \in Apps
    BY <2>1, <2>2, <2>3, <2>4 DEF Control, ThreadMade, Thread
  <2>6. \A u \in Thread : pc'[u] = IF u = Yield THEN "start" ELSE IF u = t THEN "conn_new" ELSE pc[u]
    BY <1>1, <2>1, <2>5 DEF TypeInv, TypeOK
  <2>7. AppReads' /\ ThreadMade' /\ NullIsDead' /\ ScanOnly'
    <3>1. AppReads'
      <4>1. \A a \in Apps : pc'[a] \in {pc[a], "conn_new"}
        BY <1>1, <2>6
      <4>. QED  BY <2>1, <4>1 DEF Control, AppReads, InsidePC
    <3>2. ThreadMade'
      BY <1>1, <2>5, <2>6 DEF ThreadMade
    <3>3. NullIsDead' /\ ScanOnly'
      BY <2>1, <2>5 DEF Control, NullIsDead, ScanOnly
    <3>. QED  BY <3>1, <3>2, <3>3
  <2>8. ~ Gone
    BY <2>5 DEF Gone
  <2>9. InvalidIsCleaned'
    BY <2>1, <2>8 DEF Control, InvalidIsCleaned, Cleaned, Gone
  <2>. QED  BY <2>7, <2>8, <2>9 DEF Control, Cleaned, Zeroed, Gone
<1>3. CASE ConnectStoreThread(t)
  <2>1. mqtt_thread' /\ UNCHANGED <<pc, write_lock, client_state, faults, expired, calls>>
    BY <1>3 DEF ConnectStoreThread, lockVars, histVars, iterVars, callVars
  <2>. QED  BY <2>1 DEF Control, AppReads, ThreadMade, InvalidIsCleaned, NullIsDead, ScanOnly,
                        Cleaned, Zeroed, Gone
<1>5. CASE ConnectSetState(t)
  <2>1. /\ pc[t] = "conn_new" /\ mqtt_thread' /\ client_state' # "INVALID"
        /\ Goto(t, "conn_start")
        /\ UNCHANGED <<mqtt_thread, write_lock, faults, expired, calls>>
    BY <1>5 DEF ConnectSetState, lockVars, histVars, iterVars, callVars
  <2>2. \A u \in Thread : pc'[u] = IF u = t THEN "conn_start" ELSE pc[u]
    BY <2>1 DEF Goto, TypeInv, TypeOK
  <2>3. ~ Zeroed /\ (Gone => Gone')
    BY <1>1, <2>1, <2>2 DEF Zeroed, Gone, Thread
  <2>4. AppReads' /\ ThreadMade' /\ NullIsDead' /\ ScanOnly'
    BY <1>1, <2>1, <2>2
       DEF Control, AppReads, ThreadMade, NullIsDead, ScanOnly, InsidePC
  <2>. QED  BY <2>1, <2>3, <2>4 DEF Control, InvalidIsCleaned, Cleaned, Gone
<1>4. CASE ConnectStartThread(t)
  <2>1. /\ pc[t] = "conn_start" /\ UNCHANGED client_state
        /\ pc' = [pc EXCEPT ![t] = "idle", ![Yield] = IF @ = "suspended" THEN "top" ELSE @]
        /\ write_lock' = None /\ UNCHANGED <<mqtt_thread, faults, expired, calls>>
    BY <1>4 DEF ConnectStartThread, histVars, iterVars, callVars
  <2>6. pc[Yield] # "none" => mqtt_thread
    <3>1. \A a \in Apps : pc[a] # "conn_new"
      BY <1>1, <2>1 DEF LockExclusion, LockedPC
    <3>2. ~ Zeroed
      BY <2>1 DEF Zeroed, Gone, Thread
    <3>. QED  BY <3>1, <3>2 DEF Control, ThreadMade
  <2>2. write_lock = t
    BY <2>1 DEF LockExclusion, LockedPC
  <2>3. \A a \in Apps : pc'[a] = IF a = t THEN "idle" ELSE pc[a]
    BY <1>1, <2>1 DEF TypeInv, TypeOK
  <2>4. CASE t = Yield
    <3>1. pc'[Yield] = "idle"
      BY <1>1, <2>1, <2>4 DEF TypeInv, TypeOK
    <3>2. ~ Gone /\ "null_thread" \notin faults
      BY <2>1, <2>4 DEF Gone, Control, NullIsDead
    <3>3. AppReads' /\ ThreadMade' /\ ScanOnly'
      BY <1>1, <2>1, <2>2, <2>3, <2>4, <2>6, <3>1
         DEF Control, AppReads, ThreadMade, ScanOnly, InsidePC
    <3>. QED  BY <2>1, <3>2, <3>3 DEF Control, InvalidIsCleaned, NullIsDead, Cleaned, Zeroed, Gone
  <2>5. CASE t # Yield
    <3>1. pc'[Yield] = pc[Yield] \/ (pc[Yield] = "suspended" /\ pc'[Yield] = "top")
      BY <1>1, <2>1, <2>5 DEF TypeInv, TypeOK
    <3>2. AppReads' /\ ThreadMade' /\ ScanOnly' /\ NullIsDead'
      <4>1. AppReads'
        <5>1. \A a \in Apps : pc[a] \in InsidePC => a = t
          BY <2>2 DEF Control, AppReads
        <5>2. \A a \in Apps : pc'[a] \notin InsidePC /\ pc'[a] # "scan"
          BY <2>3, <5>1 DEF Control, AppReads, InsidePC
        <5>. QED  BY <5>2 DEF AppReads
      <4>2. ThreadMade'
        BY <2>1, <2>6, <3>1 DEF ThreadMade
      <4>3. NullIsDead' /\ ScanOnly'
        BY <2>1, <3>1 DEF Control, NullIsDead, ScanOnly
      <4>. QED  BY <4>1, <4>2, <4>3
    <3>3. (Gone => Gone') /\ ~ Zeroed
      BY <2>1, <2>5, <3>1 DEF Gone, Zeroed, Thread
    <3>. QED  BY <2>1, <3>2, <3>3 DEF Control, InvalidIsCleaned, Cleaned, Gone
  <2>. QED  BY <2>4, <2>5
<1>. QED  BY <1>2, <1>3, <1>4, <1>5

(* The client is released when the yield thread is past cleaning.           *)
LEMMA ReleaseControl ==
  ASSUME TypeInv, Control, NEW t \in Thread, Release(t)
  PROVE  Control' /\ Cleaned /\ Cleaned' /\ Zeroed'
<1>1. /\ client_state = "INVALID" /\ client_state' = "INITIALIZED"
      /\ calls' = [u \in Apps |-> {}] /\ \A u \in Apps : pc[u] = "idle"
      /\ UNCHANGED <<pc, faults, expired, write_lock>>
  BY DEF Release, histVars, iterVars, lockVars
<1>2. Cleaned
  BY <1>1 DEF Control, InvalidIsCleaned
<1>3. Cleaned' /\ Zeroed'
  BY <1>1, <1>2 DEF Cleaned, Zeroed, Gone
<1>. QED  BY <1>1, <1>2, <1>3
          DEF Control, AppReads, ThreadMade, InvalidIsCleaned, NullIsDead, ScanOnly

(* The yield thread. *)
LEMMA YieldControl ==
  ASSUME TypeInv, Control, YieldStep
  PROVE  Control' /\ (Cleaned => Cleaned') /\ (Zeroed => Zeroed')
<1>1. Yield \in Thread /\ Apps \subseteq Thread /\ Yield \notin Apps
  BY ThreadAssumption DEF Thread
<1>2. /\ UNCHANGED <<mqtt_thread, write_lock, calls>>
      /\ client_state' = "INVALID" => client_state = "INVALID" \/ CleanSession
  BY DEF YieldStep, YieldStart, YieldSuspend, YieldTop, ReconnectBeaten, ReconnectScan, Resubscribe,
         AckListScan, AckHandlerResend, AckHandlerDestroy, AckListScanned, CleanSession,
         YieldDestroy, Move, sessVars, lockVars, callVars
<1>3. \A a \in Apps : pc'[a] = pc[a]
  BY <1>1 DEF YieldStep, YieldStart, YieldSuspend, YieldTop, ReconnectBeaten, ReconnectScan, Resubscribe,
         AckListScan, AckHandlerResend, AckHandlerDestroy, AckListScanned, CleanSession,
         YieldDestroy, Move, Goto, TypeInv, TypeOK
<1>4. pc[Yield] # "none"
  BY DEF YieldStep, YieldStart, YieldSuspend, YieldTop, ReconnectBeaten, ReconnectScan, Resubscribe,
         AckListScan, AckHandlerResend, AckHandlerDestroy, AckListScanned, CleanSession,
         YieldDestroy, Move
<1>5. Gone => pc'[Yield] = "dead"
  BY DEF YieldStep, YieldStart, YieldSuspend, YieldTop, ReconnectBeaten, ReconnectScan, Resubscribe,
         AckListScan, AckHandlerResend, AckHandlerDestroy, AckListScanned, CleanSession,
         YieldDestroy, Move, Goto, Gone, TypeInv, TypeOK, Thread
<1>6. "null_thread" \in faults' =>
        "null_thread" \in faults \/ (pc[Yield] = "start_stop" /\ pc'[Yield] = "dead")
  <2>1. \/ UNCHANGED faults \/ faults' = faults \cup {"stale_client"}
        \/ pc[Yield] = "start_stop" /\ Goto(Yield, "dead")
    BY DEF YieldStep, YieldStart, YieldSuspend, YieldTop, ReconnectBeaten, ReconnectScan, Resubscribe,
           AckListScan, AckHandlerResend, AckHandlerDestroy, AckListScanned, CleanSession,
           YieldDestroy, Move, histVars
  <2>. QED  BY <1>1, <2>1 DEF Goto, TypeInv, TypeOK
<1>7. CASE UNCHANGED pc
  <2>1. expired' \subseteq expired /\ ~ CleanSession /\ ~ Gone
    BY <1>7 DEF YieldStep, YieldStart, YieldSuspend, YieldTop, ReconnectBeaten, ReconnectScan, Resubscribe,
         AckListScan, AckHandlerResend, AckHandlerDestroy, AckListScanned, CleanSession,
         YieldDestroy, Move, Goto, TypeInv, TypeOK, Thread, iterVars, Gone
  <2>. QED  BY <1>2, <1>3, <1>6, <1>7, <2>1
            DEF Control, AppReads, ThreadMade, InvalidIsCleaned, NullIsDead, ScanOnly, Cleaned,
                Zeroed, Gone
<1>8. expired' = {} \/ pc'[Yield] = "scan_loop"
  <2>1. \/ (ReconnectScan \/ \E S \in SUBSET ack_list : AckListScan(S))
        \/ (\E n \in expired : AckHandlerResend(n) \/ AckHandlerDestroy(n))
        \/ UNCHANGED expired /\ (pc[Yield] = "scan_loop" => expired = {})
    BY DEF YieldStep, YieldStart, YieldSuspend, YieldTop, ReconnectBeaten, Resubscribe, AckListScanned,
           CleanSession, YieldDestroy, Move, iterVars
  <2>2. (ReconnectScan \/ \E S \in SUBSET ack_list : AckListScan(S)) => pc'[Yield] = "scan_loop"
    BY <1>1 DEF ReconnectScan, AckListScan, Goto, TypeInv, TypeOK
  <2>3. (\E n \in expired : AckHandlerResend(n) \/ AckHandlerDestroy(n)) => pc'[Yield] = "scan_loop"
    BY <1>1 DEF AckHandlerResend, AckHandlerDestroy
  <2>. QED  BY <2>1, <2>2, <2>3 DEF Control, ScanOnly
<1>9. AppReads' /\ ScanOnly'
  BY <1>2, <1>3, <1>8 DEF Control, AppReads, ScanOnly
<1>10. (Gone => Gone') /\ (Zeroed => Zeroed') /\ (Cleaned => Cleaned')
  BY <1>2, <1>3, <1>5, <1>6 DEF Gone, Zeroed, Cleaned
<1>11. NullIsDead'
  BY <1>5, <1>6 DEF Control, NullIsDead, Gone
<1>12. ThreadMade'
  BY <1>2, <1>3, <1>4, <1>10 DEF Control, ThreadMade
<1>13. InvalidIsCleaned'
  <2>1. CASE CleanSession
    <3>1. pc[Yield] = "clean" /\ pc'[Yield] = "destroy" /\ UNCHANGED faults
      BY <1>1, <2>1 DEF CleanSession, Goto, TypeInv, TypeOK, histVars
    <3>2. Cleaned'
      BY <3>1 DEF Control, NullIsDead, Cleaned
    <3>. QED  BY <3>2 DEF InvalidIsCleaned
  <2>2. CASE ~ CleanSession
    BY <1>2, <1>10, <2>2 DEF Control, InvalidIsCleaned
  <2>. QED  BY <2>1, <2>2
<1>. QED  BY <1>9, <1>10, <1>11, <1>12, <1>13 DEF Control

(* Together: the control is inductive, and a cleaned session stays so.      *)
LEMMA ClientControl ==
  ASSUME TypeInv, LockExclusion, Control, ClientNext
  PROVE  Control' /\ (Cleaned => Cleaned') /\ (Zeroed => Zeroed')
<1>1. CASE YieldStep
  BY <1>1, YieldControl
<1>2. ASSUME NEW t \in Thread, ThreadStep(t)
      PROVE  Control' /\ (Cleaned => Cleaned') /\ (Zeroed => Zeroed')
  <2>1. CASE (\E label \in PC : Walks(t, label)) /\ Apart(t)
    BY <2>1, WalksControl
  <2>2. CASE PublishStep(t) \/ SubscribeStep(t)
    BY <2>1, <2>2, CallsWalk
  <2>3. CASE ConnectStep(t)
    <3>1. \/ ConnectOn(t) \/ ConnectCall(t)
          \/ ConnectStoreThread(t) \/ ConnectSetState(t) \/ ConnectStartThread(t)
          \/ ConnectCreateThread(t)
      BY <2>3 DEF ConnectStep, ConnectOn
    <3>. QED  BY <2>1, <3>1, ConnectWalks, DisconnectWalks, ThreadControl
  <2>4. CASE DisconnectStep(t)
    BY <2>1, <2>4, DisconnectWalks, ReleaseControl DEF DisconnectStep
  <2>5. CASE HandleStep(t) \/ KeepAliveStep(t)
    BY <2>1, <2>5, HandleWalks
  <2>. QED  BY <1>2, <2>2, <2>3, <2>4, <2>5 DEF ThreadStep
<1>. QED  BY <1>1, <1>2 DEF ClientNext
-----------------------------------------------------------------------------
(* What the threads send and handle.  A step of t: of its own, or, for the  *)
(* yield thread, one of its loop.                                           *)
Step(t) == ThreadStep(t) \/ (t = Yield /\ YieldStep)

Publishing(t) == pc[t] \in {"pub_send", "pub_record"}
OtherSend == {"sub_send", "unsub_send", "conn_send", "disc_send", "ka_send"}
Speaks(p) == p.type \in {"PUBLISH", "PUBREL"}

(* A step of t moves no other thread, but for the yield thread it makes or  *)
(* wakes, and t comes to publish, send or handle in these steps only.       *)
Frame(t) ==
  /\ pkt' = pkt \/ \E p : pkt' = [pkt EXCEPT ![t] = p]
  /\ \A u \in Thread \ {t} : pc'[u] \in {pc[u], "start", "top"}
  /\ pc'[t] \in {"pub_send", "pub_record"} => PublishLock(t) \/ (pc[t] = "pub_send" /\ UNCHANGED pkt)
  /\ pc'[t] \in OtherSend => ~ Speaks(pkt'[t])
  /\ pc'[t] \in {"handle", "unrecord"} => Read(t) \/ (pc[t] = "handle" /\ UNCHANGED pkt)
  /\ pc'[t] \in {"rec_record", "unrecord"} => pc[t] = "handle" /\ write_lock = None /\ UNCHANGED pkt
  /\ pc'[t] = "pub_lock" => \E m \in Msg : PublishCall(t, m)

(* The others stay where they are if t goes somewhere. *)
LEMMA GotoFrame ==
  ASSUME TypeInv, NEW t \in Thread, NEW label, Goto(t, label)
  PROVE  pc'[t] = label /\ \A u \in Thread \ {t} : pc'[u] = pc[u]
BY DEF Goto, TypeInv, TypeOK

(* Taking the lock with a packet that is no PUBLISH. *)
LEMMA LockFrame ==
  ASSUME TypeInv, NEW t \in Thread, NEW p, ~ Speaks(p), NEW label \in OtherSend,
         LockAndSerialize(t, p, label)
  PROVE  Frame(t)
<1>1. pkt' = [pkt EXCEPT ![t] = p] /\ pkt'[t] = p
  BY DEF LockAndSerialize, TypeInv, TypeOK
<1>2. Goto(t, label)
  BY DEF LockAndSerialize
<1>. QED  BY <1>1, <1>2, GotoFrame DEF Frame, OtherSend

(* Going elsewhere with the same packets. *)
LEMMA PlainFrame ==
  ASSUME TypeInv, NEW t \in Thread, NEW label, Goto(t, label),
         label \notin OtherSend \cup {"pub_lock", "pub_send", "pub_record", "handle",
                                  "rec_record", "unrecord"},
         pkt' = pkt \/ \E p : pkt' = [pkt EXCEPT ![t] = p]
  PROVE  Frame(t)
BY GotoFrame DEF Frame

(* Publishing, subscribing and unsubscribing. *)
LEMMA CallsFrame ==
  ASSUME TypeInv, NEW t \in Thread, PublishStep(t) \/ SubscribeStep(t)
  PROVE  Frame(t)
<1>1. CASE PublishLock(t)
  <2>1. Goto(t, "pub_send") /\ \E p : pkt' = [pkt EXCEPT ![t] = p]
    BY <1>1 DEF PublishLock, LockAndSerialize
  <2>2. pc'[t] = "pub_send" /\ \A u \in Thread \ {t} : pc'[u] = pc[u]
    BY <2>1, GotoFrame
  <2>. QED  BY <1>1, <2>1, <2>2 DEF Frame, OtherSend
<1>2. CASE SubscribeLock(t)
  <2>. DEFINE p == Plain("SUBSCRIBE", NextId, op[t].arg)
  <2>1. LockAndSerialize(t, p, "sub_send") /\ ~ Speaks(p)
    BY <1>2 DEF SubscribeLock, Plain, Speaks
  <2>. QED  BY <2>1, LockFrame DEF OtherSend
<1>3. CASE UnsubscribeLock(t)
  <2>. DEFINE p == Plain("UNSUBSCRIBE", NextId, op[t].arg)
  <2>1. LockAndSerialize(t, p, "unsub_send") /\ ~ Speaks(p)
    BY <1>3 DEF UnsubscribeLock, Plain, Speaks
  <2>. QED  BY <2>1, LockFrame DEF OtherSend
<1>4. CASE \E m \in Msg : PublishCall(t, m)
  <2>1. Goto(t, "pub_lock") /\ UNCHANGED pkt
    BY <1>4 DEF PublishCall, Start
  <2>. QED  BY <1>4, <2>1, GotoFrame DEF Frame, OtherSend
<1>5. CASE PublishSend(t)
  <2>1. pc[t] = "pub_send" /\ UNCHANGED pkt
        /\ \E label \in {"pub_record", "resub", "idle"} : Goto(t, label)
    BY <1>5 DEF PublishSend, SendOrReturn, Return
  <2>. QED  BY <2>1, GotoFrame DEF Frame, OtherSend
<1>6. CASE \/ PublishRefuse(t) \/ PublishRecord(t) \/ PublishDisc(t) \/ SubscribeSend(t)
           \/ SubscribeRecord(t) \/ UnsubscribeSend(t) \/ UnsubscribeRecord(t)
           \/ \E x \in Topic : SubscribeCall(t, x) \/ UnsubscribeCall(t, x)
  <2>1. /\ UNCHANGED pkt
        /\ \E label \in {"pub_disc", "sub_lock", "unsub_lock", "resub", "idle", "sub_record",
                         "unsub_record"} : Goto(t, label)
    BY <1>6 DEF PublishRefuse, PublishRecord, PublishDisc, SubscribeSend, SubscribeRecord,
                UnsubscribeSend, UnsubscribeRecord, SubscribeCall, UnsubscribeCall, Start, Move,
                SendOrReturn, Return
  <2>. QED  BY <2>1, PlainFrame DEF OtherSend
<1>. QED  BY <1>1, <1>2, <1>3, <1>4, <1>5, <1>6 DEF PublishStep, SubscribeStep

(* Connecting and disconnecting. *)
LEMMA ConnectFrame ==
  ASSUME TypeInv, NEW t \in Thread, ConnectStep(t) \/ DisconnectStep(t)
  PROVE  Frame(t)
<1>1. CASE ConnectLock(t)
  <2>1. LockAndSerialize(t, Ack("CONNECT", 0), "conn_send") /\ ~ Speaks(Ack("CONNECT", 0))
    BY <1>1 DEF ConnectLock, Ack, Plain, Speaks
  <2>. QED  BY <2>1, LockFrame DEF OtherSend
<1>2. CASE DisconnectLock(t)
  <2>1. LockAndSerialize(t, Ack("DISCONNECT", 0), "disc_send") /\ ~ Speaks(Ack("DISCONNECT", 0))
    BY <1>2 DEF DisconnectLock, Ack, Plain, Speaks
  <2>. QED  BY <2>1, LockFrame DEF OtherSend
<1>3. CASE \/ ConnectCall(t) \/ (ConnectOn(t) /\ ~ ConnectLock(t))
           \/ DisconnectCall(t) \/ DisconnectSend(t) \/ DisconnectState(t)
  <2>1. /\ UNCHANGED pkt
        /\ \E label \in {"conn_begin", "conn_lock", "idle", "top", "read", "conn_fail", "resub",
                         "disc_lock", "disc_state"} : Goto(t, label)
    BY <1>3 DEF ConnectCall, ConnectOn, ConnectNetwork, ConnectReturn, ConnectSend, ConnectTimeout,
                ConnectFail, ConnectAccepted, ConnectUp, ConnectNoThread, ConnectRefused,
                DisconnectCall, DisconnectSend, DisconnectState, Start, Move, AfterConnect, Return
  <2>. QED  BY <2>1, PlainFrame DEF OtherSend
<1>6. CASE ConnectSetState(t)
  <2>1. Goto(t, "conn_start") /\ UNCHANGED pkt
    BY <1>6 DEF ConnectSetState
  <2>. QED  BY <2>1, PlainFrame DEF OtherSend
<1>4. CASE ConnectCreateThread(t) \/ ConnectStartThread(t)
  <2>1. /\ UNCHANGED pkt
        /\ pc'[t] \in {"conn_new", "idle", "start", "top"}
        /\ \A u \in Thread \ {t} : pc'[u] \in {pc[u], "start", "top"}
    BY <1>4 DEF ConnectCreateThread, ConnectStartThread, TypeInv, TypeOK
  <2>. QED  BY <2>1 DEF Frame, OtherSend
<1>5. CASE ConnectStoreThread(t) \/ Release(t)
  <2>1. UNCHANGED <<pc, pkt>> /\ pc[t] \in {"conn_new", "idle"}
    BY <1>5 DEF ConnectStoreThread, Release
  <2>. QED  BY <2>1 DEF Frame, OtherSend
<1>. QED  BY <1>1, <1>2, <1>3, <1>4, <1>5, <1>6 DEF ConnectStep, ConnectOn, DisconnectStep

(* Handling and keeping alive. *)
LEMMA HandleFrame ==
  ASSUME TypeInv, NEW t \in Thread, HandleStep(t) \/ KeepAliveStep(t)
  PROVE  Frame(t)
<1>1. CASE Read(t)
  <2>1. Goto(t, "handle") /\ \E p : pkt' = [pkt EXCEPT ![t] = p]
    BY <1>1 DEF Read
  <2>2. pc'[t] = "handle" /\ \A u \in Thread \ {t} : pc'[u] = pc[u]
    BY <2>1, GotoFrame
  <2>. QED  BY <1>1, <2>1, <2>2 DEF Frame, OtherSend
<1>2. CASE HandlePubrec(t) \/ HandlePubrel(t)
  <2>1. /\ Goto(t, "unrecord") /\ pc[t] = "handle" /\ UNCHANGED pkt
        /\ write_lock = None
    BY <1>2 DEF HandlePubrec, HandlePubrel, Handling
  <2>. QED  BY <2>1, GotoFrame DEF Frame, OtherSend
<1>3. CASE HandlePublish(t)
  <2>1. \/ Goto(t, "keepalive") /\ \E p : pkt' = [pkt EXCEPT ![t] = p]
        \/ Goto(t, "keepalive") /\ UNCHANGED pkt
        \/ /\ Goto(t, "rec_record") /\ pc[t] = "handle" /\ UNCHANGED pkt
           /\ write_lock = None
    BY <1>3 DEF HandlePublish, Handling, Finish
  <2>. QED  BY <2>1, GotoFrame, PlainFrame DEF Frame, OtherSend
<1>4. CASE HandleStep(t) /\ ~ Read(t) /\ ~ HandlePublish(t) /\ ~ HandlePubrec(t) /\ ~ HandlePubrel(t)
  <2>1. /\ UNCHANGED pkt \/ \E p : pkt' = [pkt EXCEPT ![t] = p]
        /\ \E label \in {"keepalive", "scan"} : Goto(t, label)
    BY <1>4 DEF HandleStep, ReadTimeout, HandleNotConnected, HandleConnack, HandleAck,
         HandleSuback, HandleUnsuback, RecordPubrel, Unrecord, HandlePingresp, Finish, Move
  <2>. QED  BY <2>1, PlainFrame DEF OtherSend
<1>5. CASE KeepAlivePing(t)
  <2>. DEFINE p == Ack("PINGREQ", 0)
  <2>1. Goto(t, "ka_send") /\ pkt' = [pkt EXCEPT ![t] = p] /\ ~ Speaks(p)
    BY <1>5 DEF KeepAlivePing, Ack, Plain, Speaks
  <2>2. pkt'[t] = p
    BY <2>1 DEF TypeInv, TypeOK
  <2>3. pc'[t] = "ka_send" /\ \A u \in Thread \ {t} : pc'[u] = pc[u]
    BY <2>1, GotoFrame
  <2>. HIDE DEF p
  <2>. QED  BY <2>1, <2>2, <2>3 DEF Frame
<1>6. CASE KeepAliveStep(t) /\ ~ KeepAlivePing(t)
  <2>1. /\ UNCHANGED pkt
        /\ \E label \in {"read", "scan", "conn_fail", "top", "ka_disc", "clean"} : Goto(t, label)
    BY <1>6 DEF KeepAliveStep, KeepAliveQuiet, KeepAliveSend, KeepAliveDead, KeepAliveDisc, Move,
                Handled, HandleError
  <2>. QED  BY <2>1, PlainFrame DEF OtherSend
<1>. QED  BY <1>1, <1>2, <1>3, <1>4, <1>5, <1>6 DEF HandleStep

(* The loop of the yield thread. *)
LEMMA YieldFrame ==
  ASSUME TypeInv, YieldStep
  PROVE  Frame(Yield) /\ UNCHANGED pkt
<1>1. Yield \in Thread
  BY DEF Thread
<1>2. UNCHANGED pkt
  BY DEF YieldStep, YieldStart, YieldSuspend, YieldTop, ReconnectBeaten, ReconnectScan, Resubscribe,
         AckListScan, AckHandlerResend, AckHandlerDestroy, AckListScanned, CleanSession,
         YieldDestroy, Move
<1>3. \/ UNCHANGED pc /\ pc[Yield] = "scan_loop"
      \/ \E label \in {"top", "start_stop", "suspended", "dead", "clean", "read", "conn_begin",
                       "resub", "sub_lock", "scan_loop", "destroy"} : Goto(Yield, label)
  BY DEF YieldStep, YieldStart, YieldSuspend, YieldTop, ReconnectBeaten, ReconnectScan, Resubscribe,
         AckListScan, AckHandlerResend, AckHandlerDestroy, AckListScanned, CleanSession,
         YieldDestroy, Move
<1>4. CASE UNCHANGED pc /\ pc[Yield] = "scan_loop"
  BY <1>2, <1>4 DEF Frame, OtherSend
<1>. QED  BY <1>1, <1>2, <1>3, <1>4, PlainFrame DEF OtherSend

(* Together. *)
LEMMA StepFrame == ASSUME TypeInv, NEW t \in Thread, Step(t) PROVE Frame(t)
BY CallsFrame, ConnectFrame, HandleFrame, YieldFrame DEF Step, ThreadStep

(* Every step of the client is one of a thread. *)
LEMMA ClientSteps == ASSUME ClientNext PROVE \E t \in Thread : Step(t)
BY DEF ClientNext, Step, Thread

(* The packets of the others are their own. *)
LEMMA FramePackets ==
  ASSUME TypeInv, NEW t \in Thread, Frame(t)
  PROVE  \A u \in Thread \ {t} : pkt'[u] = pkt[u]
BY DEF Frame, TypeInv, TypeOK

(* No other thread moves the yield thread, but to make or to wake it.       *)
LEMMA YieldRests ==
  ASSUME TypeInv, LockExclusion, Control, NEW t \in Thread, Step(t), t # Yield,
         pc[Yield] \notin {"none", "suspended"}
  PROVE  pc'[Yield] = pc[Yield]
<1>1. Yield \in Thread /\ Apps \subseteq Thread /\ Yield \notin Apps
  BY ThreadAssumption DEF Thread
<1>2. CASE \E label \in PC : Walks(t, label)
  BY <1>1, <1>2, GotoFrame DEF Walks
<1>3. CASE ConnectCreateThread(t)
  <2>1. /\ pc[t] = "handle" /\ write_lock = t /\ ~ mqtt_thread /\ t \in Apps
    BY <1>3 DEF ConnectCreateThread, Accepted, Connecting, Thread
  <2>2. \A a \in Apps : pc[a] # "conn_new"
    BY <1>1, <2>1 DEF LockExclusion, LockedPC
  <2>. QED  BY <2>1, <2>2 DEF Control, ThreadMade, Zeroed
<1>4. CASE ConnectStoreThread(t) \/ Release(t)
  BY <1>4 DEF ConnectStoreThread, Release
<1>7. CASE ConnectSetState(t)
  BY <1>1, <1>7, GotoFrame DEF ConnectSetState
<1>5. CASE ConnectStartThread(t)
  BY <1>1, <1>5 DEF ConnectStartThread, TypeInv, TypeOK
<1>6. \/ \E label \in PC : Walks(t, label)
      \/ ConnectCreateThread(t) \/ ConnectStoreThread(t) \/ ConnectSetState(t)
      \/ ConnectStartThread(t) \/ Release(t)
  <2>1. CASE PublishStep(t) \/ SubscribeStep(t)
    BY <2>1, CallsWalk
  <2>2. CASE ConnectStep(t)
    BY <2>2, ConnectWalks, DisconnectWalks DEF ConnectStep, ConnectOn
  <2>3. CASE DisconnectStep(t)
    BY <2>3, DisconnectWalks DEF DisconnectStep
  <2>4. CASE HandleStep(t) \/ KeepAliveStep(t)
    BY <2>4, HandleWalks
  <2>. QED  BY <2>1, <2>2, <2>3, <2>4 DEF Step, ThreadStep
<1>. QED  BY <1>2, <1>3, <1>4, <1>5, <1>6, <1>7

(* Where the yield thread has one step to make. *)
LEMMA YieldAlone ==
  ASSUME Step(Yield), pc[Yield] \in {"unrecord", "rec_record", "destroy", "dead"}
  PROVE  \/ pc[Yield] = "unrecord" /\ Unrecord(Yield)
         \/ pc[Yield] = "rec_record" /\ RecordPubrel(Yield)
         \/ pc[Yield] = "destroy" /\ YieldDestroy
<1>1. ~ PublishStep(Yield) /\ ~ SubscribeStep(Yield)
  BY DEF PublishStep, PublishCall, PublishRefuse, PublishLock, PublishSend, PublishRecord,
         PublishDisc, SubscribeStep, SubscribeCall, UnsubscribeCall, SubscribeLock,
         SubscribeSend, SubscribeRecord, UnsubscribeLock, UnsubscribeSend, UnsubscribeRecord,
         Start, SendOrReturn
<1>2. ~ ConnectStep(Yield) /\ ~ DisconnectStep(Yield)
  BY DEF ConnectStep, ConnectCall, ConnectNetwork, ConnectReturn, ConnectLock, ConnectSend,
         ConnectTimeout, ConnectFail, ConnectAccepted, ConnectCreateThread, Accepted,
         ConnectNoThread, ConnectStoreThread, ConnectSetState, ConnectStartThread, ConnectRefused,
         DisconnectStep, DisconnectCall, DisconnectLock, DisconnectSend, DisconnectState,
         Release, Start
<1>3. HandleStep(Yield) \/ KeepAliveStep(Yield) =>
        \/ pc[Yield] = "unrecord" /\ Unrecord(Yield)
        \/ pc[Yield] = "rec_record" /\ RecordPubrel(Yield)
  BY DEF HandleStep, Read, ReadTimeout, HandleNotConnected, HandleConnack, HandleAck,
         HandleSuback, HandleUnsuback, HandlePublish, RecordPubrel, Unrecord, HandlePubrec,
         HandlePubrel, HandlePingresp, KeepAliveStep, KeepAliveQuiet, KeepAlivePing,
         KeepAliveSend, KeepAliveDead, KeepAliveDisc, Handling
<1>4. YieldStep => pc[Yield] = "destroy" /\ YieldDestroy
  BY DEF YieldStep, YieldStart, YieldSuspend, YieldTop, ReconnectBeaten, ReconnectScan, Resubscribe,
         AckListScan, AckHandlerResend, AckHandlerDestroy, AckListScanned, CleanSession,
         YieldDestroy
<1>. QED  BY <1>1, <1>2, <1>3, <1>4 DEF Step, ThreadStep

(* It does not come back once it has cleaned the session. *)
LEMMA GoneStays ==
  ASSUME TypeInv, LockExclusion, Control, NEW t \in Thread, Step(t), Gone
  PROVE  Gone'
<1>1. CASE t = Yield
  <2>1. YieldDestroy
    BY <1>1, YieldAlone DEF Gone
  <2>. QED  BY <2>1, GotoFrame DEF YieldDestroy, Gone, Thread
<1>2. CASE t # Yield
  BY <1>2, YieldRests DEF Gone
<1>. QED  BY <1>1, <1>2
-----------------------------------------------------------------------------
(* Quality of service 2, from the server to the message handlers.  Any      *)
(* number of threads connect and read; but an application thread reads      *)
(* inside mqtt_connect, with the lock that every answer takes, so that only *)
(* the yield thread records and delivers.                                   *)
IdsDiffer == \A m, n \in ServerMsg : ServerId[m] = ServerId[n] => m = n
AppsRecord == \A a \in Apps : pc[a] \notin {"rec_record", "unrecord"}

(* A message of the server's and its packets: under way, and at the yield   *)
(* thread.                                                                  *)
Served == {m \in Qos2Msg : m \in ServerMsg}
HeldPC == {"handle", "rec_record", "unrecord"}
IsPublish(p, m) == p.type = "PUBLISH" /\ p.body = m
IsPubrel(p, m) == p.type = "PUBREL" /\ p.id = ServerId[m]
HoldsPublish(m) == pc[Yield] \in {"handle", "rec_record"} /\ IsPublish(pkt[Yield], m)
HoldsPubrel(m) == pc[Yield] \in {"handle", "unrecord"} /\ IsPubrel(pkt[Yield], m)
NoPublish(m) == ~ HoldsPublish(m) /\ \A i \in 1 .. Len(s2c) : ~ IsPublish(s2c[i], m)
Recorded(m) == \E n \in ack_list : n.type = "PUBREL" /\ n.id = ServerId[m]
Confirmed(m) == peer.out[m] \in {"release", "released", "done"}

(* A PUBLISH is the server's, with the identifier the server gave it.       *)
IsServed(p) == p.type = "PUBLISH" => p.body \in ServerMsg /\ p.id = ServerId[p.body]
Genuine == /\ \A i \in 1 .. Len(s2c) : IsServed(s2c[i])
           /\ pc[Yield] \in {"handle", "rec_record"} => IsServed(pkt[Yield])

(* What keeps m from a second delivery: while its PUBREL is awaited, the    *)
(* record; afterwards, that no copy of its PUBLISH is left.                 *)
Once(m) ==
  /\ Occurs(m, delivered) /\ ~ Recorded(m) => NoPublish(m) /\ Confirmed(m)
  /\ HoldsPubrel(m) => NoPublish(m) /\ Confirmed(m)
  /\ \A i \in 1 .. Len(s2c) : IsPubrel(s2c[i], m) =>
       /\ Confirmed(m)
       /\ \A j \in 1 .. Len(s2c) : j > i => ~ IsPublish(s2c[j], m)
  /\ peer.out[m] = "new" => NoPublish(m)

OnceInv == /\ SystemTypeInv /\ LockExclusion /\ Control /\ AppsRecord
           /\ Gone \/ (Genuine /\ \A m \in Served : Once(m))

(* A step of t takes packets from the connection, takes records of an       *)
(* awaited PUBREL out and delivers messages so.                             *)
Receives(t) == s2c' \in {s2c, << >>} \/ Read(t)
Outlives(t) ==
  \A n \in ack_list \ ack_list' :
    n.type # "PUBREL" \/ CleanSession \/ Release(t)
      \/ (Unrecord(t) /\ pkt[t].type = n.type /\ pkt[t].id = n.id)
Hears(t) ==
  \/ UNCHANGED delivered
  \/ /\ pkt[t].type = "PUBLISH" /\ pkt[t].body \in Msg
     /\ delivered' = Append(delivered, pkt[t].body)
     /\ \/ Qos[pkt[t].body] # 2
        \/ /\ pc[t] = "rec_record" /\ ~ NodeExists("PUBREL", pkt[t].id)
           /\ AllocFails \/ \E n \in ack_list' : n.type = "PUBREL" /\ n.id = pkt[t].id

(* Publishing, subscribing and unsubscribing. *)
LEMMA CallsHear ==
  ASSUME NEW t, PublishStep(t) \/ SubscribeStep(t)
  PROVE  Receives(t) /\ Outlives(t) /\ Hears(t)
<1>1. UNCHANGED <<s2c, delivered>>
  BY DEF PublishStep, PublishCall, PublishRefuse, PublishLock, PublishSend, PublishRecord,
         PublishDisc, SubscribeStep, SubscribeCall, UnsubscribeCall, SubscribeLock,
         SubscribeSend, SubscribeRecord, UnsubscribeLock, UnsubscribeSend, UnsubscribeRecord,
         Start, Move, LockAndSerialize, SendOrReturn, SendOk, SendFails, netVars, histVars
<1>2. ack_list \subseteq ack_list'
  BY DEF PublishStep, PublishCall, PublishRefuse, PublishLock, PublishSend, PublishRecord,
         PublishDisc, SubscribeStep, SubscribeCall, UnsubscribeCall, SubscribeLock,
         SubscribeSend, SubscribeRecord, UnsubscribeLock, UnsubscribeSend, UnsubscribeRecord,
         Start, Move, LockAndSerialize, SendOrReturn, Record, AddNode, ackVars
<1>. QED  BY <1>1, <1>2 DEF Receives, Outlives, Hears

(* Connecting and disconnecting. *)
LEMMA ConnectHears ==
  ASSUME NEW t, ConnectStep(t) \/ DisconnectStep(t)
  PROVE  Receives(t) /\ Outlives(t) /\ Hears(t)
<1>1. s2c' \in {s2c, << >>} /\ UNCHANGED delivered
  BY DEF ConnectStep, ConnectCall, ConnectNetwork, ConnectReturn, ConnectLock, ConnectSend,
        ConnectTimeout, ConnectFail, ConnectAccepted, ConnectUp, ConnectCreateThread,
        ConnectNoThread, ConnectStoreThread, ConnectSetState, ConnectStartThread, ConnectRefused,
        DisconnectStep, DisconnectCall, DisconnectLock, DisconnectSend, DisconnectState,
        Release, Start, Move, LockAndSerialize, SendOk, SendFails, netVars, histVars
<1>2. UNCHANGED ack_list \/ Release(t)
  BY DEF ConnectStep, ConnectCall, ConnectNetwork, ConnectReturn, ConnectLock, ConnectSend,
        ConnectTimeout, ConnectFail, ConnectAccepted, ConnectUp, ConnectCreateThread,
        ConnectNoThread, ConnectStoreThread, ConnectSetState, ConnectStartThread, ConnectRefused,
        DisconnectStep, DisconnectCall, DisconnectLock, DisconnectSend, DisconnectState,
        Start, Move, LockAndSerialize, ackVars
<1>. QED  BY <1>1, <1>2 DEF Receives, Outlives, Hears

(* Handling and keeping alive. *)
LEMMA HandleHears ==
  ASSUME TypeInv, NEW t \in Thread, HandleStep(t) \/ KeepAliveStep(t)
  PROVE  Receives(t) /\ Outlives(t) /\ Hears(t)
<1>1. UNCHANGED s2c \/ Read(t)
  BY DEF HandleStep, ReadTimeout, HandleNotConnected, HandleConnack, HandleAck, HandleSuback,
        HandleUnsuback, HandlePublish, RecordPubrel, HandlePubrec, HandlePubrel, Unrecord,
        HandlePingresp, KeepAliveStep, KeepAliveQuiet, KeepAlivePing, KeepAliveSend,
        KeepAliveDead, KeepAliveDisc, Move, SendOk, SendFails, netVars
<1>2. Outlives(t)
  BY DEF HandleStep, Read, ReadTimeout, HandleNotConnected, HandleConnack, HandleAck,
        HandleSuback, HandleUnsuback, HandlePublish, RecordPubrel, HandlePubrec, HandlePubrel,
        Unrecord, HandlePingresp, KeepAliveStep, KeepAliveQuiet, KeepAlivePing, KeepAliveSend,
        KeepAliveDead, KeepAliveDisc, Move, Handling, UnrecordNodes, Matching, AddNode, ackVars,
        Outlives
<1>3. CASE HandlePublish(t)
  <2>1. pkt[t].type = "PUBLISH" /\ pkt[t].body \in Msg
    BY <1>3 DEF HandlePublish, Handling, TypeInv, TypeOK, Packet
  <2>2. UNCHANGED delivered \/ (Deliver(pkt[t].body) /\ Qos[pkt[t].body] # 2)
    BY <1>3, DataAssumption DEF HandlePublish
  <2>. QED  BY <1>1, <1>2, <2>1, <2>2 DEF Deliver, Hears, Receives
<1>4. CASE RecordPubrel(t)
  <2>1. pkt[t].type = "PUBLISH" /\ pkt[t].body \in Msg
    BY <1>4 DEF RecordPubrel, TypeInv, TypeOK, Busy, Packet
  <2>2. \/ UNCHANGED delivered
        \/ /\ pc[t] = "rec_record" /\ ~ NodeExists("PUBREL", pkt[t].id) /\ Deliver(pkt[t].body)
           /\ AllocFails \/ \E saved : AddNode(t, "PUBREL", pkt[t].id, saved)
    BY <1>4 DEF RecordPubrel
  <2>3. ASSUME NEW saved, AddNode(t, "PUBREL", pkt[t].id, saved)
        PROVE  \E n \in ack_list' : n.type = "PUBREL" /\ n.id = pkt[t].id
    <3>1. [type |-> "PUBREL", id |-> pkt[t].id, payload |-> saved] \in ack_list'
      BY <2>3 DEF AddNode
    <3>. QED  BY <3>1
  <2>. QED  BY <1>1, <1>2, <2>1, <2>2, <2>3 DEF Deliver, Hears, Receives
<1>5. CASE ~ HandlePublish(t) /\ ~ RecordPubrel(t)
  <2>1. UNCHANGED delivered
    BY <1>5
    DEF HandleStep, Read, ReadTimeout, HandleNotConnected, HandleConnack, HandleAck,
        HandleSuback, HandleUnsuback, HandlePubrec, HandlePubrel, Unrecord, HandlePingresp,
        KeepAliveStep, KeepAliveQuiet, KeepAlivePing, KeepAliveSend, KeepAliveDead,
        KeepAliveDisc, Move, histVars
  <2>. QED  BY <1>1, <1>2, <2>1 DEF Hears, Receives
<1>. QED  BY <1>3, <1>4, <1>5

(* The loop of the yield thread. *)
LEMMA YieldHears ==
  ASSUME YieldStep
  PROVE  Receives(Yield) /\ Outlives(Yield) /\ Hears(Yield)
<1>1. s2c' \in {s2c, << >>}
  BY DEF YieldStep, YieldStart, YieldSuspend, YieldTop, ReconnectBeaten, ReconnectScan, Resubscribe,
         AckListScan, AckHandlerResend, AckHandlerDestroy, AckListScanned, CleanSession,
         YieldDestroy, Move, SendOk, SendFails, netVars
<1>2. UNCHANGED delivered
  BY DEF YieldStep, YieldStart, YieldSuspend, YieldTop, ReconnectBeaten, ReconnectScan, Resubscribe,
         AckListScan, AckHandlerResend, AckHandlerDestroy, AckListScanned, CleanSession,
         YieldDestroy, Move, histVars
<1>3. CleanSession \/ \A n \in ack_list \ ack_list' : n.type # "PUBREL"
  BY DEF YieldStep, YieldStart, YieldSuspend, YieldTop, ReconnectBeaten, ReconnectScan, Resubscribe,
         AckListScan, AckHandlerResend, AckHandlerDestroy, AckListScanned, YieldDestroy,
         Move, Resent, ackVars
<1>. QED  BY <1>1, <1>2, <1>3 DEF Receives, Outlives, Hears

(* Together. *)
LEMMA StepHears ==
  ASSUME TypeInv, NEW t \in Thread, Step(t)
  PROVE  Receives(t) /\ Outlives(t) /\ Hears(t)
BY CallsHear, ConnectHears, HandleHears, YieldHears DEF Step, ThreadStep

(* An application thread has the lock while it reads, and so never answers. *)
LEMMA AppsRecordNext ==
  ASSUME TypeInv, Control, AppsRecord, NEW t \in Thread, Frame(t)
  PROVE  AppsRecord'
<1>. SUFFICES ASSUME NEW a \in Apps, pc'[a] \in {"rec_record", "unrecord"} PROVE FALSE
  BY DEF AppsRecord
<1>1. Apps \subseteq Thread /\ None \notin Apps
  BY ThreadAssumption DEF Thread
<1>2. CASE a # t
  BY <1>1, <1>2 DEF Frame, AppsRecord
<1>3. CASE a = t
  <2>1. pc[a] = "handle" /\ write_lock = None
    BY <1>3 DEF Frame
  <2>. QED  BY <1>1, <2>1 DEF Control, AppReads, InsidePC
<1>. QED  BY <1>2, <1>3

(* What the yield thread holds it held, or reads. *)
LEMMA HoldsFrom ==
  ASSUME TypeInv, NEW t \in Thread, Frame(t), pc'[Yield] \in HeldPC
  PROVE  \/ pc[Yield] \in {pc'[Yield], "handle"} /\ pkt'[Yield] = pkt[Yield]
         \/ t = Yield /\ Read(t) /\ pc'[Yield] = "handle"
<1>1. Yield \in Thread
  BY DEF Thread
<1>2. CASE t = Yield
  <2>1. Read(t) => pc'[t] = "handle"
    BY GotoFrame DEF Read
  <2>. QED  BY <1>2, <2>1 DEF Frame, HeldPC
<1>3. CASE t # Yield
  BY <1>1, <1>3, FramePackets DEF Frame, HeldPC
<1>. QED  BY <1>2, <1>3

(* A message more in the log. *)
LEMMA OccursAppended ==
  ASSUME NEW S, NEW log \in Seq(S), NEW k \in S, NEW m, Occurs(m, Append(log, k))
  PROVE  Occurs(m, log) \/ m = k
BY DEF Occurs

(* A step of the client, while the session is not cleaned, keeps a message  *)
(* from its second delivery.                                                *)
LEMMA ClientOnce ==
  ASSUME ~ AllocFails, TypeInv, AppsRecord, Genuine, \A m \in Served : Once(m),
         NEW t \in Thread, Frame(t), Receives(t), Outlives(t), Hears(t),
         ~ CleanSession, ~ Release(t), UNCHANGED peer
  PROVE  Genuine' /\ \A m \in Served : Once(m)'
<1>0. s2c \in Seq(Packet) /\ delivered \in Seq(Msg) /\ Yield \in Thread
  BY DEF TypeInv, TypeOK, Thread
<1>1. PICK d \in {0, 1} :
        /\ \A i \in 1 .. Len(s2c') : i + d \in 1 .. Len(s2c) /\ s2c'[i] = s2c[i + d]
        /\ Read(t) => d = 1 /\ 1 \in 1 .. Len(s2c) /\ pkt'[t] = s2c[1]
  <2>1. CASE Read(t)
    <3>1. s2c # << >> /\ s2c' = Tail(s2c) /\ pkt'[t] = s2c[1]
      BY <1>0, <2>1 DEF Read, TypeInv, TypeOK
    <3>2. \A i \in 1 .. Len(s2c') : i + 1 \in 1 .. Len(s2c) /\ s2c'[i] = s2c[i + 1]
      BY <1>0, <3>1
    <3>. QED  BY <1>0, <3>1, <3>2
  <2>2. CASE ~ Read(t)
    <3>1. \A i \in 1 .. Len(s2c') : i + 0 \in 1 .. Len(s2c) /\ s2c'[i] = s2c[i + 0]
      BY <1>0, <2>2 DEF Receives
    <3>. QED  BY <2>2, <3>1
  <2>. QED  BY <2>1, <2>2
<1>2. pc'[Yield] \in HeldPC =>
        \/ pc[Yield] \in {pc'[Yield], "handle"} /\ pkt'[Yield] = pkt[Yield]
        \/ /\ t = Yield /\ Read(t) /\ d = 1 /\ 1 \in 1 .. Len(s2c)
           /\ pkt'[Yield] = s2c[1] /\ pc'[Yield] = "handle"
  BY <1>1, HoldsFrom
<1>3. Genuine'
  <2>1. \A i \in 1 .. Len(s2c') : IsServed(s2c'[i])
    BY <1>1 DEF Genuine
  <2>2. pc'[Yield] \in {"handle", "rec_record"} => IsServed(pkt'[Yield])
    BY <1>2 DEF Genuine, HeldPC
  <2>. QED  BY <2>1, <2>2 DEF Genuine, IsServed
<1>4. ASSUME NEW m \in Served PROVE Once(m)'
  <2>1. Once(m) /\ Confirmed(m)' = Confirmed(m)
    BY DEF Confirmed
  <2>2. NoPublish(m) => NoPublish(m)'
    BY <1>1, <1>2 DEF NoPublish, HoldsPublish, HeldPC, IsPublish
  <2>3. ASSUME NEW i \in 1 .. Len(s2c'), IsPubrel(s2c'[i], m)
        PROVE  Confirmed(m) /\ \A j \in 1 .. Len(s2c') : j > i => ~ IsPublish(s2c'[j], m)
    <3>1. IsPubrel(s2c[i + d], m)
      BY <1>1, <2>3
    <3>2. \A j \in 1 .. Len(s2c') : j > i => j + d > i + d
      OBVIOUS
    <3>. QED  BY <1>1, <2>1, <3>1, <3>2 DEF Once
  <2>4. ASSUME HoldsPubrel(m)' PROVE NoPublish(m)' /\ Confirmed(m)
    <3>1. CASE HoldsPubrel(m)
      BY <2>1, <2>2, <3>1 DEF Once
    <3>2. CASE ~ HoldsPubrel(m)
      <4>1. /\ d = 1 /\ 1 \in 1 .. Len(s2c) /\ IsPubrel(s2c[1], m)
            /\ IsPubrel(pkt'[Yield], m)
        BY <1>2, <2>4, <3>2 DEF HoldsPubrel, HeldPC, IsPubrel
      <4>2. Confirmed(m) /\ \A j \in 1 .. Len(s2c) : j > 1 => ~ IsPublish(s2c[j], m)
        BY <2>1, <4>1 DEF Once
      <4>3. \A i \in 1 .. Len(s2c') : i + 1 > 1
        OBVIOUS
      <4>4. \A i \in 1 .. Len(s2c') : ~ IsPublish(s2c'[i], m)
        BY <1>1, <4>1, <4>2, <4>3
      <4>. QED  BY <4>1, <4>2, <4>4 DEF NoPublish, HoldsPublish, IsPubrel, IsPublish
    <3>. QED  BY <3>1, <3>2
  <2>5. ASSUME Recorded(m), ~ Recorded(m)' PROVE NoPublish(m) /\ Confirmed(m)
    <3>1. PICK n \in ack_list \ ack_list' : n.type = "PUBREL" /\ n.id = ServerId[m]
      BY <2>5 DEF Recorded
    <3>2. pc[t] = "unrecord" /\ IsPubrel(pkt[t], m)
      BY <3>1 DEF Outlives, Unrecord, IsPubrel
    <3>3. t = Yield
      BY <3>2 DEF AppsRecord, Thread
    <3>. QED  BY <2>1, <3>2, <3>3 DEF HoldsPubrel, Once
  <2>6. ASSUME Occurs(m, delivered)', ~ Occurs(m, delivered) PROVE Recorded(m)'
    <3>1. ~ UNCHANGED delivered
      BY <2>6 DEF Occurs
    <3>2. /\ pkt[t].type = "PUBLISH" /\ pkt[t].body \in Msg
          /\ delivered' = Append(delivered, pkt[t].body)
          /\ \/ Qos[pkt[t].body] # 2
             \/ /\ pc[t] = "rec_record"
                /\ \E n \in ack_list' : n.type = "PUBREL" /\ n.id = pkt[t].id
      BY <3>1 DEF Hears
    <3>3. m = pkt[t].body
      <4>1. Occurs(m, Append(delivered, pkt[t].body))
        BY <2>6, <3>2 DEF Occurs
      <4>. QED  BY <1>0, <2>6, <3>2, <4>1, OccursAppended
    <3>4. pc[t] = "rec_record" /\ \E n \in ack_list' : n.type = "PUBREL" /\ n.id = pkt[t].id
      BY <3>2, <3>3 DEF Served, Qos2Msg
    <3>5. t = Yield
      BY <3>4 DEF AppsRecord, Thread
    <3>6. pkt[t].id = ServerId[m]
      BY <3>2, <3>3, <3>4, <3>5 DEF Genuine, IsServed
    <3>. QED  BY <3>4, <3>6 DEF Recorded
  <2>7. Occurs(m, delivered)' /\ ~ Recorded(m)' => NoPublish(m)' /\ Confirmed(m)
    BY <2>1, <2>2, <2>5, <2>6 DEF Once
  <2>8. peer'.out[m] = "new" => NoPublish(m)'
    BY <2>1, <2>2 DEF Once
  <2>. QED  BY <2>1, <2>3, <2>4, <2>7, <2>8 DEF Once, IsPubrel, IsPublish
<1>. QED  BY <1>3, <1>4

(* What the server may add to what is under way. *)
Says(p) ==
  p.type \in {"PUBLISH", "PUBREL"} =>
    \E k \in ServerMsg :
      \/ /\ p = Plain("PUBLISH", ServerId[k], k)
         /\ ~ Confirmed(k) /\ peer'.out[k] = "sent"
      \/ p = Ack("PUBREL", ServerId[k]) /\ Confirmed(k)

(* The server sends PUBLISH before the message is confirmed, and PUBREL     *)
(* after; what is confirmed stays so.                                       *)
LEMMA ServerSays ==
  ASSUME SystemTypeInv, ServerWorks
  PROVE  /\ s2c' = s2c \/ \E p \in Packet : Says(p) /\ s2c' = Append(s2c, p)
         /\ \A m \in ServerMsg : /\ Confirmed(m) => Confirmed(m)'
                                 /\ peer'.out[m] = "new" => peer.out[m] = "new"
<1>1. NetType /\ PeerType
  BY TypeParts DEF SystemTypeInv
<1>2. CASE ServerConnect
  <2>1. Plain("CONNACK", 0, "yes") \in Packet /\ Says(Plain("CONNACK", 0, "yes"))
    <3>1. 0 \in 0 .. MaxPacketId
      BY BoundAssumption
    <3>2. Plain("CONNACK", 0, "yes").type = "CONNACK"
      BY DEF Plain
    <3>. QED  BY <3>1, <3>2, ServerPackets DEF Says
  <2>2. s2c' = Append(s2c, Plain("CONNACK", 0, "yes"))
    BY <1>2 DEF ServerConnect, Answer
  <2>3. \A m \in ServerMsg : peer'.out[m] = CASE peer.out[m] = "sent" -> "again"
                                              [] peer.out[m] = "released" -> "release"
                                              [] OTHER -> peer.out[m]
    BY <1>1, <1>2 DEF ServerConnect, PeerType, b_out
  <2>. QED  BY <2>1, <2>2, <2>3 DEF Confirmed
<1>3. CASE ServerSubscribe \/ ServerUnsubscribe \/ ServerPing \/ ServerPublish \/ ServerPubrel
  <2>1. c2s # << >> /\ peer'.out = peer.out
    BY <1>1, <1>3 DEF ServerSubscribe, ServerUnsubscribe, ServerPing, ServerPublish,
                      ServerPubrel, Takes, PeerType
  <2>. DEFINE id == Head(c2s).id
  <2>2. id \in 0 .. MaxPacketId /\ 0 \in 0 .. MaxPacketId
    BY <1>1, <2>1, TakenType, BoundAssumption
  <2>3. \/ NoAnswer \/ Answer(Plain("SUBACK", id, "yes")) \/ Answer(Ack("PINGRESP", 0))
        \/ \E type \in {"PUBACK", "PUBREC", "PUBCOMP", "UNSUBACK"} : Answer(Ack(type, id))
    BY <1>3 DEF ServerSubscribe, ServerUnsubscribe, ServerPing, ServerPublish, ServerPubrel
  <2>. HIDE DEF id
  <2>4. s2c' = s2c \/ \E p \in Packet : p.type \notin {"PUBLISH", "PUBREL"} /\ s2c' = Append(s2c, p)
    BY <2>2, <2>3, ServerPackets DEF Answer, NoAnswer, Plain, Ack
  <2>. QED  BY <2>1, <2>4 DEF Says, Confirmed
<1>4. CASE ServerAcked
  BY <1>1, <1>4 DEF ServerAcked, NoAnswer, PeerType, Confirmed
<1>5. ASSUME NEW k \in ServerMsg, ServerSend(k)
      PROVE  /\ \E p \in Packet : Says(p) /\ s2c' = Append(s2c, p)
             /\ \A m \in ServerMsg : /\ Confirmed(m) => Confirmed(m)'
                                     /\ peer'.out[m] = "new" => peer.out[m] = "new"
  <2>1. ServerId[k] \in 0 .. MaxPacketId /\ k \in Msg
    BY ServerAssumption
  <2>2. CASE /\ peer.out[k] \in {"new", "again"}
             /\ s2c' = Append(s2c, Plain("PUBLISH", ServerId[k], k))
             /\ peer' = [peer EXCEPT !.out[k] = "sent"]
    <3>1. \A m \in ServerMsg : peer'.out[m] = IF m = k THEN "sent" ELSE peer.out[m]
      BY <1>1, <2>2 DEF PeerType
    <3>2. Says(Plain("PUBLISH", ServerId[k], k))
      BY <2>2, <3>1 DEF Says, Confirmed
    <3>. QED  BY <2>1, <2>2, <3>1, <3>2, ServerPackets DEF Confirmed
  <2>3. CASE /\ peer.out[k] = "release"
             /\ s2c' = Append(s2c, Ack("PUBREL", ServerId[k]))
             /\ peer' = [peer EXCEPT !.out[k] = "released"]
    <3>1. \A m \in ServerMsg : peer'.out[m] = IF m = k THEN "released" ELSE peer.out[m]
      BY <1>1, <2>3 DEF PeerType
    <3>2. Says(Ack("PUBREL", ServerId[k]))
      BY <2>3 DEF Says, Confirmed
    <3>. QED  BY <2>1, <2>3, <3>1, <3>2, ServerPackets DEF Confirmed
  <2>. QED  BY <1>5, <2>2, <2>3 DEF ServerSend, b_out
<1>. QED  BY <1>2, <1>3, <1>4, <1>5 DEF ServerWorks

(* The steps of the server keep a message from its second delivery.         *)
LEMMA ServerKeeps ==
  ASSUME IdsDiffer, SystemTypeInv, Genuine, \A m \in Served : Once(m), ServerWorks
  PROVE  Genuine' /\ \A m \in Served : Once(m)'
<1>1. UNCHANGED <<pc, pkt, ack_list, delivered>>
  BY ServerApart DEF ackVars, histVars
<1>2. \A m \in Served : /\ Once(m)
                        /\ Confirmed(m) => Confirmed(m)'
                        /\ peer'.out[m] = "new" => peer.out[m] = "new"
                        /\ Occurs(m, delivered)' = Occurs(m, delivered)
                        /\ Recorded(m)' = Recorded(m)
                        /\ HoldsPublish(m)' = HoldsPublish(m)
                        /\ HoldsPubrel(m)' = HoldsPubrel(m)
  BY <1>1, ServerSays DEF Served, Occurs, Recorded, HoldsPublish, HoldsPubrel
<1>3. CASE s2c' = s2c
  <2>1. Genuine'
    BY <1>1, <1>3 DEF Genuine
  <2>2. \A m \in Served : NoPublish(m)' = NoPublish(m)
    BY <1>2, <1>3 DEF NoPublish
  <2>. QED  BY <1>2, <1>3, <2>1, <2>2 DEF Once
<1>4. ASSUME NEW p \in Packet, Says(p), s2c' = Append(s2c, p)
      PROVE  Genuine' /\ \A m \in Served : Once(m)'
  <2>1. /\ Len(s2c) \in Nat /\ Len(s2c') = Len(s2c) + 1 /\ s2c'[Len(s2c')] = p
        /\ \A i \in 1 .. Len(s2c') : i = Len(s2c') \/ (i \in 1 .. Len(s2c) /\ s2c'[i] = s2c[i])
    BY <1>4 DEF SystemTypeInv, TypeInv, TypeOK
  <2>2. IsServed(p)
    BY <1>4 DEF Says, IsServed, Plain, Ack
  <2>3. Genuine'
    BY <1>1, <2>1, <2>2 DEF Genuine
  <2>4. ASSUME NEW m \in Served PROVE Once(m)'
    <3>1. IsPublish(p, m) => ~ Confirmed(m) /\ peer'.out[m] # "new"
      BY <1>4 DEF Says, IsPublish, Plain, Ack
    <3>2. IsPubrel(p, m) => Confirmed(m)
      BY <1>4, IdsDiffer DEF Says, IsPubrel, Plain, Ack, IdsDiffer, Served
    <3>3. NoPublish(m) /\ ~ IsPublish(p, m) => NoPublish(m)'
      BY <1>2, <2>1 DEF NoPublish
    <3>4. ASSUME NEW i \in 1 .. Len(s2c'), IsPubrel(s2c'[i], m)
          PROVE  Confirmed(m) /\ \A j \in 1 .. Len(s2c') : j > i => ~ IsPublish(s2c'[j], m)
      BY <1>2, <2>1, <3>1, <3>2, <3>4 DEF Once
    <3>. QED  BY <1>2, <3>1, <3>3, <3>4 DEF Once, IsPubrel, IsPublish
  <2>. QED  BY <2>3, <2>4
<1>. QED  BY <1>3, <1>4, ServerSays

(* The invariant is inductive. *)
LEMMA OnceNext ==
  ASSUME ~ AllocFails, IdsDiffer, OnceInv, [SystemNext]_vars
  PROVE  OnceInv'
<1>1. /\ SystemTypeInv' /\ LockExclusion'
      /\ TypeInv /\ LockExclusion /\ Control /\ AppsRecord
  BY SystemTypeNext, SystemLockNext DEF OnceInv, SystemTypeInv
<1>2. CASE ClientNext
  <2>1. PICK t \in Thread : Step(t) /\ Frame(t)
    BY <1>1, <1>2, ClientSteps, StepFrame
  <2>2. Control' /\ AppsRecord' /\ UNCHANGED peer
    BY <1>1, <1>2, <2>1, ClientControl, AppsRecordNext, ClientPeer
  <2>3. CASE Gone \/ CleanSession \/ Release(t)
    <3>1. Gone => Gone'
      BY <1>1, <2>1, GoneStays
    <3>2. CleanSession => Gone'
      BY <1>1, GotoFrame DEF CleanSession, Gone, Thread
    <3>3. Release(t) => Gone'
      BY <1>1, ReleaseControl DEF Zeroed
    <3>. QED  BY <1>1, <2>2, <2>3, <3>1, <3>2, <3>3 DEF OnceInv
  <2>4. CASE ~ Gone /\ ~ CleanSession /\ ~ Release(t)
    <3>1. Genuine /\ \A m \in Served : Once(m)
      BY <2>4 DEF OnceInv
    <3>2. Genuine' /\ \A m \in Served : Once(m)'
      BY <1>1, <2>1, <2>2, <2>4, <3>1, StepHears, ClientOnce
    <3>. QED  BY <1>1, <2>2, <3>2 DEF OnceInv, Served
  <2>. QED  BY <2>3, <2>4
<1>3. CASE ServerWorks \/ LinkDown \/ UNCHANGED vars
  <2>1. /\ UNCHANGED <<pc, calls, write_lock, mqtt_thread, client_state, faults, expired>>
        /\ UNCHANGED <<pkt, ack_list, delivered>>
    BY <1>3, ServerApart
       DEF LinkDown, vars, callVars, sessVars, lockVars, histVars, iterVars, ackVars
  <2>2. Control' /\ AppsRecord' /\ Gone' = Gone
    BY <1>1, <2>1 DEF Control, AppReads, ThreadMade, Zeroed, InvalidIsCleaned, Cleaned,
                      NullIsDead, ScanOnly, AppsRecord, Gone
  <2>3. ASSUME Genuine, \A m \in Served : Once(m)
        PROVE  Genuine' /\ \A m \in Served : Once(m)'
    <3>1. CASE ServerWorks
      BY <2>3, <3>1, ServerKeeps DEF OnceInv
    <3>2. CASE LinkDown \/ UNCHANGED vars
      <4>1. s2c' \in {s2c, << >>} /\ UNCHANGED peer
        BY <3>2 DEF LinkDown, vars, netVars
      <4>2. Genuine'
        BY <2>1, <2>3, <4>1 DEF Genuine
      <4>3. \A m \in Served : NoPublish(m) => NoPublish(m)'
        BY <2>1, <4>1 DEF NoPublish, HoldsPublish
      <4>. QED  BY <2>1, <2>3, <4>1, <4>2, <4>3 DEF Once, Recorded, Confirmed, HoldsPubrel, Occurs
    <3>. QED  BY <1>3, <3>1, <3>2
  <2>. QED  BY <1>1, <2>2, <2>3 DEF OnceInv, Served
<1>. QED  BY <1>2, <1>3, StepKinds

(* Nothing is under way at first. *)
LEMMA OnceInit == ASSUME SystemInit PROVE OnceInv
<1>1. SystemTypeInv /\ LockExclusion
  BY SystemTypeInit, LockInit DEF SystemInit, LockInv
<1>2. /\ \A t \in Thread : pc[t] = IF t = Yield THEN "none" ELSE "idle"
      /\ s2c = << >> /\ delivered = << >> /\ faults = {} /\ expired = {}
      /\ client_state = "INITIALIZED" /\ Yield \in Thread /\ Apps \subseteq Thread
      /\ Yield \notin Apps
  BY ThreadAssumption DEF SystemInit, Init, Thread
<1>3. Control /\ AppsRecord
  BY <1>2 DEF Control, AppReads, ThreadMade, InvalidIsCleaned, NullIsDead, ScanOnly, InsidePC,
              AppsRecord
<1>4. Genuine
  BY <1>2 DEF Genuine
<1>5. \A m \in Served : Once(m)
  BY <1>2 DEF Once, Occurs, NoPublish, HoldsPublish, HoldsPubrel
<1>. QED  BY <1>1, <1>3, <1>4, <1>5 DEF OnceInv

(* The count of a message is 0 until it occurs ... *)
LEMMA TimesZero ==
  ASSUME NEW S, NEW m \in S, NEW log, ~ Occurs(m, log)
  PROVE  Times(S, log)[m] = 0
<1>1. {i \in 1 .. Len(log) : log[i] = m} = {}
  BY DEF Occurs
<1>. QED  BY <1>1, FS_EmptySet DEF Times

(* ... 1 when it first does, and untouched by another.                      *)
LEMMA TimesAppended ==
  ASSUME NEW S, NEW log \in Seq(Msg), NEW k \in Msg, k \in S => ~ Occurs(k, log)
  PROVE  Times(S, Append(log, k)) =
           IF k \in S THEN [Times(S, log) EXCEPT ![k] = 1] ELSE Times(S, log)
<1>. DEFINE new == Append(log, k)
            At(l, m) == {i \in 1 .. Len(l) : l[i] = m}
<1>1. /\ Len(log) \in Nat /\ Len(new) = Len(log) + 1 /\ new[Len(new)] = k
      /\ \A i \in 1 .. Len(log) : new[i] = log[i] /\ i \in 1 .. Len(new)
      /\ \A i \in 1 .. Len(new) : i \in 1 .. Len(log) \/ i = Len(new)
  OBVIOUS
<1>. HIDE DEF new
<1>2. ASSUME NEW m \in S, m # k PROVE At(new, m) = At(log, m)
  BY <1>1, <1>2
<1>3. ASSUME k \in S PROVE Cardinality(At(new, k)) = 1
  <2>1. At(new, k) = {Len(new)}
    BY <1>1, <1>3 DEF Occurs
  <2>. QED  BY <2>1, FS_Singleton
<1>4. /\ Times(S, new) = [m \in S |-> Cardinality(At(new, m))]
      /\ Times(S, log) = [m \in S |-> Cardinality(At(log, m))]
  BY DEF Times
<1>. HIDE DEF At
<1>. QED  BY <1>2, <1>3, <1>4 DEF new

(* k is delivered, for the first time if its quality of service is 2.       *)
Hands(k) ==
  /\ delivered' = Append(delivered, k)
  /\ k \in Qos2Msg => /\ k \in ServerMsg /\ peer.out[k] # "new"
                      /\ ~ Occurs(k, delivered)

(* What a step of the client delivers, if anything. *)
LEMMA ClientHandsOver ==
  ASSUME ~ AllocFails, OnceInv, ClientNext
  PROVE  UNCHANGED delivered \/ \E k \in Msg : Hands(k)
<1>1. PICK t \in Thread : Hears(t)
  BY ClientSteps, StepHears DEF OnceInv, SystemTypeInv
<1>2. CASE ~ UNCHANGED delivered
  <2>. DEFINE k == pkt[t].body
  <2>1. /\ pkt[t].type = "PUBLISH" /\ k \in Msg /\ delivered' = Append(delivered, k)
        /\ Qos[k] = 2 => pc[t] = "rec_record" /\ ~ NodeExists("PUBREL", pkt[t].id)
    BY <1>1, <1>2 DEF Hears
  <2>2. ASSUME k \in Qos2Msg
        PROVE  k \in ServerMsg /\ peer.out[k] # "new" /\ ~ Occurs(k, delivered)
    <3>1. pc[t] = "rec_record" /\ ~ NodeExists("PUBREL", pkt[t].id)
      BY <2>1, <2>2 DEF Qos2Msg
    <3>2. t = Yield
      BY <3>1 DEF OnceInv, AppsRecord, Thread
    <3>3. Genuine /\ \A m \in Served : Once(m)
      BY <3>1, <3>2 DEF OnceInv, Gone
    <3>4. k \in ServerMsg /\ pkt[t].id = ServerId[k]
      BY <2>1, <3>1, <3>2, <3>3 DEF Genuine, IsServed
    <3>5. Once(k) /\ HoldsPublish(k) /\ ~ Recorded(k)
      BY <2>1, <2>2, <3>1, <3>2, <3>3, <3>4
         DEF Served, HoldsPublish, IsPublish, Recorded, NodeExists, Matching
    <3>. QED  BY <3>4, <3>5 DEF Once, NoPublish
  <2>. QED  BY <2>1, <2>2 DEF Hands
<1>. QED  BY <1>2

(* The messages the server has begun to send. *)
Begun == {m \in Qos2Msg : m \in ServerMsg /\ b_out[m] # "new"}

(* A step of the server begins to send at most one message.                 *)
LEMMA ServerOffers ==
  ASSUME SystemTypeInv, ServerWorks
  PROVE  Begun' = Begun \/ \E m \in Qos2Msg : Begun' = Begun \cup {m}
<1>1. PeerType
  BY DEF SystemTypeInv
<1>2. CASE ServerConnect
  <2>1. \A m \in ServerMsg : peer'.out[m] = "new" <=> peer.out[m] = "new"
    BY <1>1, <1>2 DEF ServerConnect, PeerType, b_out
  <2>. QED  BY <2>1 DEF Begun, b_out
<1>3. CASE ServerSubscribe \/ ServerUnsubscribe \/ ServerPing \/ ServerPublish \/ ServerPubrel
  <2>1. peer'.out = peer.out
    BY <1>1, <1>3 DEF ServerSubscribe, ServerUnsubscribe, ServerPing, ServerPublish,
                      ServerPubrel, PeerType
  <2>. QED  BY <2>1 DEF Begun, b_out
<1>4. CASE ServerAcked
  <2>1. \A m \in ServerMsg : peer'.out[m] = "new" <=> peer.out[m] = "new"
    BY <1>1, <1>4 DEF ServerAcked, PeerType
  <2>. QED  BY <2>1 DEF Begun, b_out
<1>5. ASSUME NEW k \in ServerMsg, ServerSend(k)
      PROVE  Begun' = Begun \/ \E m \in Qos2Msg : Begun' = Begun \cup {m}
  <2>1. PICK o \in {"sent", "released"} : peer' = [peer EXCEPT !.out[k] = o]
    BY <1>5 DEF ServerSend
  <2>2. \A m \in ServerMsg : peer'.out[m] = IF m = k THEN o ELSE peer.out[m]
    BY <1>1, <2>1 DEF PeerType
  <2>3. Begun' = Begun \cup (IF k \in Qos2Msg THEN {k} ELSE {})
    BY <2>2 DEF Begun, b_out
  <2>. QED  BY <2>3
<1>. QED  BY <1>2, <1>3, <1>4, <1>5 DEF ServerWorks

(* mqttclient.c and the server together implement OnceDelivery towards the  *)
(* message handlers: over lost connections, reconnections, retransmissions  *)
(* by either side and every interleaving of the threads, no QoS 2 message   *)
(* reaches a handler twice.  Any number of threads may connect, and take    *)
(* the connection from each other.  Of the configuration it needs that      *)
(* records can be allocated, and that the server gives no two messages one  *)
(* identifier.                                                              *)
THEOREM InboundIsOnce ==
  ASSUME ~ AllocFails, IdsDiffer
  PROVE  SystemSpec => InboundOnce
<1>1. SystemInit => Inbound!Init
  <2>. SUFFICES ASSUME SystemInit PROVE Inbound!Init
    OBVIOUS
  <2>1. peer.out = [m \in ServerMsg |-> "new"] /\ delivered = << >>
    BY DEF SystemInit, Init
  <2>2. \A m \in Qos2Msg : Times(Qos2Msg, delivered)[m] = 0
    BY <2>1, TimesZero DEF Occurs
  <2>3. Times(Qos2Msg, delivered) = [m \in Qos2Msg |-> 0]
    BY <2>2 DEF Times
  <2>. QED  BY <2>1, <2>3 DEF Inbound!Init, b_out
<1>2. OnceInv /\ [SystemNext]_vars => [Inbound!Next]_<<Begun, Times(Qos2Msg, delivered)>>
  <2>. SUFFICES ASSUME OnceInv, [SystemNext]_vars
                PROVE  [Inbound!Next]_<<Begun, Times(Qos2Msg, delivered)>>
    OBVIOUS
  <2>1. CASE ClientNext
    <3>1. Begun' = Begun
      BY <2>1, ClientPeer DEF Begun, b_out
    <3>2. CASE UNCHANGED delivered
      BY <3>1, <3>2 DEF Times
    <3>3. ASSUME NEW k \in Msg, Hands(k)
          PROVE  [Inbound!Next]_<<Begun, Times(Qos2Msg, delivered)>>
      <4>1. delivered \in Seq(Msg)
        BY DEF OnceInv, SystemTypeInv, TypeInv, TypeOK
      <4>2. Times(Qos2Msg, delivered)' =
              IF k \in Qos2Msg THEN [Times(Qos2Msg, delivered) EXCEPT ![k] = 1]
                               ELSE Times(Qos2Msg, delivered)
        <5>1. Times(Qos2Msg, delivered)' = Times(Qos2Msg, delivered')
          BY DEF Times, Qos2Msg
        <5>2. delivered' = Append(delivered, k) /\ (k \in Qos2Msg => ~ Occurs(k, delivered))
          BY <3>3 DEF Hands
        <5>. QED  BY <4>1, <5>1, <5>2, TimesAppended
      <4>3. CASE k \in Qos2Msg
        <5>1. k \in Begun /\ Times(Qos2Msg, delivered)[k] = 0
          BY <3>3, <4>3, TimesZero DEF Begun, b_out, Hands
        <5>. QED  BY <3>1, <4>2, <4>3, <5>1 DEF Inbound!Next, Inbound!HandOver, Begun
      <4>. QED  BY <3>1, <4>2, <4>3
    <3>. QED  BY <2>1, <3>2, <3>3, ClientHandsOver
  <2>2. CASE ServerWorks
    <3>1. UNCHANGED Times(Qos2Msg, delivered)
      BY <2>2, ServerApart DEF histVars, Times
    <3>2. Begun' = Begun \/ \E m \in Qos2Msg : Begun' = Begun \cup {m}
      BY <2>2, ServerOffers DEF OnceInv
    <3>3. Begun' = Begun \/ \E S \in SUBSET Qos2Msg : Begun' = Begun \cup S
      BY <3>2
    <3>. QED  BY <3>1, <3>3 DEF Inbound!Next, Inbound!Offer, Begun
  <2>3. CASE LinkDown \/ UNCHANGED vars
    BY <2>3 DEF LinkDown, vars, netVars, histVars, Begun, b_out, Times
  <2>. QED  BY <2>1, <2>2, <2>3, StepKinds
<1>3. SystemInit => OnceInv
  BY OnceInit
<1>4. OnceInv /\ [SystemNext]_vars => OnceInv'
  BY OnceNext
<1>. QED  BY <1>1, <1>2, <1>3, <1>4, PTL DEF SystemSpec, InboundOnce, Inbound!Spec, Begun
=============================================================================

----------------------------- MODULE MqttClient -----------------------------
(***************************************************************************)
(* The MQTT client of DRIVE/mqttclient/mqttclient/mqttclient.c: the        *)
(* application threads that call the API, the internal yield thread that   *)
(* reads every packet, and the state they share: client state, write lock, *)
(* write buffer, list of awaited acknowledgements, list of message         *)
(* handlers.  A step ends wherever another thread can run and see or       *)
(* change what the code goes on to use: at a lock, a send, a read.         *)
(* Timers elapse at any time; the order of the nodes of a list, which only *)
(* decides the order of retransmissions in one scan, is left open.  A call *)
(* that would fail at once because the client is not connected is made     *)
(* later: failing so, it changes nothing.                                  *)
(***************************************************************************)
EXTENDS Integers, Sequences, FiniteSets

CONSTANTS
  Apps,          \* application threads
  Yield,         \* the internal thread mqtt_yield_thread
  None,
  Msg,           \* messages, published by the client or by the server
  Topic,
  TopicOf,       \* the topic of each message
  Qos,           \* the quality of service of each message
  Calls,         \* the API calls each application thread makes
  MaxPacketId,   \* MQTT_MAX_PACKET_ID
  AckMax,        \* MQTT_ACK_HANDLER_NUM_MAX
  NetCap,        \* bound: packets in flight in one direction
  MaxConnects,   \* bound: network connections made in a run
  KeepAliveRuns, \* whether the keep-alive interval may elapse
  AllocFails,    \* whether platform_memory_alloc may return NULL
  WordRaces      \* whether a thread may run between the load and the store of another

Thread == Apps \cup {Yield}

ApiCall == [op : {"connect", "disconnect", "release"}, arg : {None}]
             \cup [op : {"publish"}, arg : Msg]
             \cup [op : {"subscribe", "unsubscribe"}, arg : Topic]

ASSUME ThreadAssumption == Yield \notin Apps /\ None \notin Thread
ASSUME BoundAssumption == /\ MaxPacketId \in Nat \ {0}
                          /\ {AckMax, NetCap, MaxConnects} \subseteq Nat
                          /\ {KeepAliveRuns, AllocFails, WordRaces} \subseteq BOOLEAN
ASSUME DataAssumption == /\ TopicOf \in [Msg -> Topic]
                         /\ Qos \in [Msg -> 0 .. 2]
                         /\ Calls \in [Apps -> SUBSET ApiCall]

ClientState == {"INVALID", "INITIALIZED", "CONNECTED", "DISCONNECTED", "CLEAN_SESSION"}

PacketType == {"CONNECT", "CONNACK", "PUBLISH", "PUBACK", "PUBREC", "PUBREL", "PUBCOMP",
               "SUBSCRIBE", "SUBACK", "UNSUBSCRIBE", "UNSUBACK", "PINGREQ", "PINGRESP",
               "DISCONNECT", "CORRUPT"}

(* body: the message of a PUBLISH, the topic of a SUBSCRIBE or UNSUBSCRIBE, *)
(* the verdict of a CONNACK or SUBACK.                                      *)
Packet == {p \in [type : PacketType, id : 0 .. MaxPacketId, dup : BOOLEAN,
                  body : Msg \cup Topic \cup {None, "yes", "no"}] :
             /\ p.type = "PUBLISH" => p.body \in Msg
             /\ p.type \in {"SUBSCRIBE", "UNSUBSCRIBE"} => p.body \in Topic}

Plain(type, id, body) == [type |-> type, id |-> id, dup |-> FALSE, body |-> body]
Ack(type, id) == Plain(type, id, None)
Corrupt == Ack("CORRUPT", 0)

(* ack_handlers_t: the reply awaited, and the bytes to send again.          *)
AckType == {"PUBACK", "PUBREC", "PUBREL", "PUBCOMP", "SUBACK", "UNSUBACK"}
Node == {n \in [type : AckType, id : 0 .. MaxPacketId, payload : Packet] :
           n.type = "SUBACK" => n.payload.type = "SUBSCRIBE"}

VARIABLES
  client_state, packet_id,
  msg_handlers,  \* topics that have a node in mqtt_msg_handler_list
  ping,          \* mqtt_ping_outstanding
  mqtt_thread,   \* whether c->mqtt_thread points to a thread
  write_lock, write_buf,
  ack_list,      \* mqtt_ack_handler_list, a set of nodes
  ack_num,       \* mqtt_ack_handler_number
  pc,            \* per thread: where it is
  pkt,           \* per thread: the packet it sends or handles
  op,            \* per thread: the call it executes
  calls,         \* per application thread: calls not yet made
  resub,         \* topics mqtt_try_resubscribe has yet to visit
  expired,       \* nodes mqtt_ack_list_scan has yet to treat
  link, c2s, s2c,  \* the network connection and the packets under way
  connects,      \* network connections made so far
  peer,          \* what the server remembers: no step of the client changes it
  delivered,     \* history: messages handed to a message handler
  accepted,      \* history: messages whose mqtt_publish returned success
  garbled,       \* history: those recorded when write_buf no longer held them
  faults         \* history: undefined behaviour met

sessVars == <<client_state, packet_id, msg_handlers, ping, mqtt_thread>>
lockVars == <<write_lock, write_buf>>
ackVars  == <<ack_list, ack_num>>
callVars == <<op, calls>>
iterVars == <<resub, expired>>
netVars  == <<link, c2s, s2c, connects, peer>>
histVars == <<delivered, accepted, garbled, faults>>
vars == <<sessVars, lockVars, ackVars, pc, pkt, callVars, iterVars, netVars, histVars>>

(* Where a thread is while it holds the write lock. *)
LockedPC == {"pub_send", "pub_record", "sub_send", "sub_record", "unsub_send",
             "unsub_record", "disc_send", "conn_send", "conn_new", "conn_start", "conn_fail"}

PC == LockedPC \cup
      {"idle", "pub_lock", "pub_disc", "sub_lock", "unsub_lock", "disc_lock", "disc_state",
       "conn_begin", "conn_lock", "read", "handle", "rec_record", "unrecord",
       "keepalive", "ka_send", "ka_disc",
       "none", "start", "start_stop", "suspended", "top", "resub", "scan", "scan_loop",
       "clean", "destroy", "dead"}

(* The type invariant. *)
TypeOK ==
  /\ client_state \in ClientState
  /\ packet_id \in 0 .. MaxPacketId
  /\ msg_handlers \in SUBSET Topic
  /\ ping \in 0 .. 3
  /\ mqtt_thread \in BOOLEAN
  /\ write_lock \in Thread \cup {None}
  /\ write_buf \in Packet
  /\ ack_list \in SUBSET Node
  /\ ack_num \in Nat
  /\ pc \in [Thread -> PC]
  /\ pkt \in [Thread -> Packet]
  /\ op \in [Thread -> ApiCall]
  /\ calls \in [Apps -> SUBSET ApiCall]
  /\ resub \in SUBSET Topic
  /\ expired \in SUBSET Node
  /\ link \in {"up", "down"}
  /\ c2s \in Seq(Packet)
  /\ s2c \in Seq(Packet)
  /\ connects \in Nat
  /\ delivered \in Seq(Msg)
  /\ accepted \in SUBSET Msg
  /\ garbled \in SUBSET Msg
  /\ faults \in SUBSET {"null_thread", "wild_handler", "stale_client"}

Call(o, a) == [op |-> o, arg |-> a]

(* The client as mqtt_lease returns it: mqtt_init ran, nothing is connected. *)
Init ==
  /\ client_state = "INITIALIZED"
  /\ packet_id = 1
  /\ msg_handlers = {}
  /\ ping = 0
  /\ mqtt_thread = FALSE
  /\ write_lock = None /\ write_buf = Corrupt
  /\ ack_list = {} /\ ack_num = 0
  /\ pc = [t \in Thread |-> IF t = Yield THEN "none" ELSE "idle"]
  /\ pkt = [t \in Thread |-> Corrupt]
  /\ op = [t \in Thread |-> Call("connect", None)]
  /\ calls = Calls
  /\ resub = {} /\ expired = {}
  /\ link = "down" /\ c2s = << >> /\ s2c = << >>
  /\ connects = 0
  /\ delivered = << >> /\ accepted = {} /\ garbled = {} /\ faults = {}
-----------------------------------------------------------------------------
(* Helpers *)

Goto(t, label) == pc' = [pc EXCEPT ![t] = label]

(* t moves on; nothing else changes. *)
Move(t, label) ==
  /\ Goto(t, label)
  /\ UNCHANGED <<sessVars, lockVars, ackVars, pkt, callVars, iterVars, netVars, histVars>>

(* mqtt_get_next_packet_id *)
NextId == IF packet_id = MaxPacketId THEN 1 ELSE packet_id + 1

Connected == client_state = "CONNECTED"

(* mqtt_send_packet: the packet goes out on a live connection, or is taken  *)
(* by the local stack on a dead one and lost ...                            *)
SendOk(p) == /\ \/ link = "up" /\ Len(c2s) < NetCap /\ c2s' = Append(c2s, p)
                \/ link = "down" /\ UNCHANGED c2s
             /\ UNCHANGED <<link, s2c, connects, peer>>
(* ... or the write times out or is refused. *)
SendFails == (link = "down" \/ Len(c2s) >= NetCap) /\ UNCHANGED netVars

(* What leaves when t sends the packet it serialized: the write buffer may  *)
(* have been written by another thread since.                               *)
InBuffer(t) == IF write_buf = pkt[t] THEN pkt[t] ELSE Corrupt

(* Faulty variant: the lock is taken without waiting for it.               *)
AcquireAtOnce(t) == write_lock' = t

(* platform_mutex_lock of the write lock. *)
Acquire(t) == write_lock = None /\ write_lock' = t

(* Take the write lock and serialize packet p. *)
LockAndSerialize(t, p, label) ==
  /\ Acquire(t)
  /\ write_buf' = p
  /\ pkt' = [pkt EXCEPT ![t] = p]
  /\ Goto(t, label)
  /\ UNCHANGED <<client_state, msg_handlers, ping, mqtt_thread, ackVars, callVars,
                 iterVars, netVars, histVars>>

(* The call of t returns; the yield thread calls only mqtt_subscribe, from  *)
(* the loop of mqtt_try_resubscribe, and mqtt_connect.                      *)
Return(t) == Goto(t, IF t = Yield THEN "resub" ELSE "idle")

(* Send the serialized packet; a failure ends the call. *)
SendOrReturn(t, from, label) ==
  /\ pc[t] = from
  /\ \/ SendOk(InBuffer(t)) /\ Goto(t, label) /\ UNCHANGED write_lock
     \/ SendFails /\ Return(t) /\ write_lock' = None
  /\ UNCHANGED <<sessVars, write_buf, ackVars, pkt, callVars, iterVars, histVars>>

(* mqtt_ack_list_node_is_exist *)
Matching(type, id) == {n \in ack_list : n.type = type /\ n.id = id}
NodeExists(type, id) == Matching(type, id) # {}

(* t waits for CONNACK inside mqtt_connect, where it holds the write lock.  *)
Connecting(t) == write_lock = t

(* mqtt_ping_outstanding and mqtt_ack_handler_number are bit-fields of one  *)
(* word, which every update loads and stores whole; mqtt_global_lock        *)
(* brackets those of the number only.  Where t is about to update ...       *)
UpdatesNumber(t) ==
  \/ pc[t] \in {"pub_record", "sub_record", "unsub_record", "rec_record", "unrecord"}
  \/ pc[t] = "handle" /\ pkt[t].type \in {"PUBACK", "PUBCOMP", "PUBREC", "SUBACK", "UNSUBACK"}
UpdatesPing(t) ==
  \/ pc[t] \in {"ka_send", "conn_start"}
  \/ pc[t] = "handle" /\ pkt[t].type \in {"PINGRESP", "CONNACK"}

(* ... what another thread stores may be overwritten by the old value.      *)
SetNumber(t, n) ==
  \/ ack_num' = n
  \/ WordRaces /\ (\E u \in Thread \ {t} : UpdatesPing(u)) /\ UNCHANGED ack_num
SetPing(t, n) ==
  \/ ping' = n
  \/ /\ WordRaces
     /\ \E u \in Thread \ {t} : UpdatesNumber(u) \/ UpdatesPing(u)
     /\ UNCHANGED ping

(* mqtt_ack_list_record of a node that does not exist yet. *)
AddNode(t, type, id, payload) ==
  /\ ack_list' = ack_list \cup {[type |-> type, id |-> id, payload |-> payload]}
  /\ SetNumber(t, ack_num + 1)

(* Faulty variant: the identifier is not compared.                          *)
UnrecordAnyId(t, type, id) ==
  LET gone == {n \in ack_list : n.type = type} IN
  /\ ack_list' = ack_list \ gone
  /\ SetNumber(t, ack_num - Cardinality(gone))

(* Faulty variant: the number goes down even if nothing was recorded.       *)
UnrecordAlways(t, type, id) ==
  /\ ack_list' = ack_list \ Matching(type, id)
  /\ ack_num' = ack_num - 1

(* mqtt_ack_list_unrecord *)
UnrecordNodes(t, type, id) ==
  LET N == Matching(type, id) IN
  /\ ack_list' = ack_list \ N
  /\ SetNumber(t, IF ack_num >= Cardinality(N) THEN ack_num - Cardinality(N) ELSE 0)

(* t starts call c. *)
Start(t, c, label) ==
  /\ t \in Apps
  /\ pc[t] = "idle"
  /\ c \in calls[t]
  /\ op' = [op EXCEPT ![t] = c]
  /\ calls' = [calls EXCEPT ![t] = @ \ {c}]
  /\ Goto(t, label)
  /\ UNCHANGED <<sessVars, lockVars, ackVars, pkt, iterVars, netVars, histVars>>
-----------------------------------------------------------------------------
(* mqtt_publish *)

PublishCall(t, m) == Connected /\ Start(t, Call("publish", m), "pub_lock")

(* Faulty variant: one node too many.                                       *)
AckHandlerAboveMaximum == ack_num > AckMax

(* mqtt_ack_handler_is_maximum *)
AckHandlerIsMaximum == ack_num >= AckMax

PublishLock(t) ==
  LET m == op[t].arg
      id == IF Qos[m] = 0 THEN 0 ELSE NextId
  IN
  /\ pc[t] = "pub_lock"
  /\ Qos[m] = 0 \/ ~ AckHandlerIsMaximum
  /\ packet_id' = IF Qos[m] = 0 THEN packet_id ELSE NextId
  /\ LockAndSerialize(t, Plain("PUBLISH", id, m), "pub_send")

(* Too many nodes recorded: the message is refused, the client is to        *)
(* reconnect.                                                               *)
PublishRefuse(t) ==
  /\ pc[t] = "pub_lock"
  /\ write_lock = None
  /\ Qos[op[t].arg] # 0 /\ AckHandlerIsMaximum
  /\ Move(t, "pub_disc")

PublishSend(t) == SendOrReturn(t, "pub_send", "pub_record")

(* mqtt_set_publish_dup, then the record of the acknowledgement awaited:    *)
(* the node keeps the bytes now in the write buffer.                        *)
PublishRecord(t) ==
  LET p == pkt[t]
      type == IF Qos[p.body] = 1 THEN "PUBACK" ELSE "PUBREC"
      saved == IF write_buf = p THEN [p EXCEPT !.dup = TRUE] ELSE Corrupt
      keeps == Qos[p.body] # 0
  IN
  /\ pc[t] = "pub_record"
  /\ write_lock' = None
  /\ write_buf' = IF keeps /\ write_buf.type = "PUBLISH"
                    THEN [write_buf EXCEPT !.dup = TRUE] ELSE write_buf
  /\ \/ /\ keeps /\ ~ NodeExists(type, p.id)
        /\ AddNode(t, type, p.id, saved)
        /\ accepted' = accepted \cup {p.body}
        /\ garbled' = IF saved = Corrupt THEN garbled \cup {p.body} ELSE garbled
        /\ Return(t)
     \/ /\ ~ keeps \/ NodeExists(type, p.id)
        /\ UNCHANGED <<ackVars, accepted, garbled>>
        /\ Return(t)
     \/ /\ AllocFails /\ keeps /\ ~ NodeExists(type, p.id)
        /\ UNCHANGED <<ackVars, accepted, garbled>>
        /\ Goto(t, "pub_disc")
  /\ UNCHANGED <<sessVars, pkt, callVars, iterVars, netVars, delivered, faults>>

(* The lock is already released when the state is set.                      *)
PublishDisc(t) ==
  /\ pc[t] = "pub_disc"
  /\ client_state' = "DISCONNECTED"
  /\ Return(t)
  /\ UNCHANGED <<packet_id, msg_handlers, ping, mqtt_thread, lockVars, ackVars, pkt,
                 callVars, iterVars, netVars, histVars>>
-----------------------------------------------------------------------------
(* mqtt_subscribe, called by an application or by mqtt_try_resubscribe *)

SubscribeCall(t, x) == Connected /\ Start(t, Call("subscribe", x), "sub_lock")

(* One turn of the loop of mqtt_try_resubscribe. *)
Resubscribe(x) ==
  /\ pc[Yield] = "resub"
  /\ x \in resub
  /\ resub' = resub \ {x}
  /\ op' = [op EXCEPT ![Yield] = Call("subscribe", x)]
  /\ Goto(Yield, IF Connected THEN "sub_lock" ELSE "resub")
  /\ UNCHANGED <<sessVars, lockVars, ackVars, pkt, calls, expired, netVars, histVars>>

SubscribeLock(t) ==
  /\ pc[t] = "sub_lock"
  /\ packet_id' = NextId
  /\ LockAndSerialize(t, Plain("SUBSCRIBE", NextId, op[t].arg), "sub_send")

SubscribeSend(t) == SendOrReturn(t, "sub_send", "sub_record")

(* Record the reply awaited by a subscription or its cancellation; the      *)
(* bytes saved are never sent again, only their topic matters.              *)
Record(t, type) ==
  /\ \/ ~ NodeExists(type, pkt[t].id) /\ AddNode(t, type, pkt[t].id, pkt[t])
     \/ (AllocFails \/ NodeExists(type, pkt[t].id)) /\ UNCHANGED ackVars
  /\ write_lock' = None

SubscribeRecord(t) ==
  /\ pc[t] = "sub_record"
  /\ Record(t, "SUBACK")
  /\ Return(t)
  /\ UNCHANGED <<sessVars, write_buf, pkt, callVars, iterVars, netVars, histVars>>
-----------------------------------------------------------------------------
(* mqtt_unsubscribe *)

UnsubscribeCall(t, x) == Connected /\ Start(t, Call("unsubscribe", x), "unsub_lock")

UnsubscribeLock(t) ==
  /\ pc[t] = "unsub_lock"
  /\ packet_id' = NextId
  /\ LockAndSerialize(t, Plain("UNSUBSCRIBE", NextId, op[t].arg), "unsub_send")

UnsubscribeSend(t) == SendOrReturn(t, "unsub_send", "unsub_record")

(* Without memory for the message handler the call returns and keeps the    *)
(* write lock.                                                              *)
UnsubscribeRecord(t) ==
  /\ pc[t] = "unsub_record"
  /\ Record(t, "UNSUBACK") \/ (AllocFails /\ UNCHANGED <<ackVars, write_lock>>)
  /\ Return(t)
  /\ UNCHANGED <<sessVars, write_buf, pkt, callVars, iterVars, netVars, histVars>>
-----------------------------------------------------------------------------
(* mqtt_connect: by an application, or by the yield thread to reconnect *)

ConnectCall(t) == Start(t, Call("connect", None), "conn_begin")

(* network_connect: a new connection, with nothing under way on it.         *)
ConnectNetwork(t) ==
  /\ pc[t] = "conn_begin"
  /\ ~ Connected
  /\ connects < MaxConnects
  /\ connects' = connects + 1
  /\ link' = "up" /\ c2s' = << >> /\ s2c' = << >>
  /\ Goto(t, "conn_lock")
  /\ UNCHANGED <<sessVars, lockVars, ackVars, pkt, callVars, iterVars, peer, histVars>>

(* mqtt_connect returns: an application is idle again, the yield thread is  *)
(* back in mqtt_yield.                                                      *)
AfterConnect(t) == IF t = Yield THEN "top" ELSE "idle"

(* Already connected, or no network: nothing happens.                       *)
ConnectReturn(t) == pc[t] = "conn_begin" /\ Move(t, AfterConnect(t))

(* An application connected after mqtt_try_do_reconnect looked at the state: *)
(* mqtt_connect reports success, and the yield thread subscribes again.     *)
ReconnectBeaten ==
  /\ pc[Yield] = "conn_begin"
  /\ Connected
  /\ resub' = msg_handlers
  /\ Goto(Yield, "resub")
  /\ UNCHANGED <<sessVars, lockVars, ackVars, pkt, callVars, expired, netVars, histVars>>

ConnectLock(t) ==
  /\ pc[t] = "conn_lock"
  /\ UNCHANGED packet_id
  /\ LockAndSerialize(t, Ack("CONNECT", 0), "conn_send")

ConnectSend(t) ==
  /\ pc[t] = "conn_send"
  /\ \/ SendOk(InBuffer(t)) /\ Goto(t, "read")
     \/ SendFails /\ Goto(t, "conn_fail")
  /\ UNCHANGED <<sessVars, lockVars, ackVars, pkt, callVars, iterVars, histVars>>

(* The command timeout of mqtt_wait_packet elapses. *)
ConnectTimeout(t) == pc[t] = "read" /\ Connecting(t) /\ Move(t, "conn_fail")

ConnectFail(t) ==
  /\ pc[t] = "conn_fail"
  /\ client_state' = "INITIALIZED"
  /\ write_lock' = None
  /\ Goto(t, AfterConnect(t))
  /\ UNCHANGED <<packet_id, msg_handlers, ping, mqtt_thread, write_buf, ackVars, pkt,
                 callVars, iterVars, netVars, histVars>>

(* The end of a successful mqtt_connect; the yield thread, when it is the   *)
(* one that connects, goes on to subscribe again.                           *)
ConnectUp(t) ==
  /\ client_state' = "CONNECTED"
  /\ SetPing(t, 0)
  /\ write_lock' = None
  /\ resub' = IF t = Yield THEN msg_handlers ELSE resub
  /\ UNCHANGED <<packet_id, msg_handlers, mqtt_thread, write_buf, ackVars, pkt,
                 callVars, expired, netVars, histVars>>

Accepted(t) == /\ pc[t] = "handle" /\ Connecting(t)
               /\ pkt[t].type = "CONNACK" /\ pkt[t].body = "yes"

ConnectAccepted(t) == Accepted(t) /\ mqtt_thread /\ Return(t) /\ ConnectUp(t)

(* The first connection creates the thread, which may run at once ...       *)
ConnectCreateThread(t) ==
  /\ Accepted(t)
  /\ ~ mqtt_thread
  /\ pc' = [pc EXCEPT ![t] = "conn_new", ![Yield] = "start"]
  /\ UNCHANGED <<sessVars, lockVars, ackVars, pkt, callVars, iterVars, netVars, histVars>>

(* ... or fails to: the call succeeds, and the client is not connected.     *)
ConnectNoThread(t) ==
  /\ Accepted(t) /\ ~ mqtt_thread
  /\ AllocFails
  /\ SetPing(t, 0)
  /\ write_lock' = None
  /\ Return(t)
  /\ UNCHANGED <<client_state, packet_id, msg_handlers, mqtt_thread, write_buf, ackVars,
                 pkt, callVars, iterVars, netVars, histVars>>

(* The new thread may run before its handle is stored in c->mqtt_thread ... *)
ConnectStoreThread(t) ==
  /\ pc[t] = "conn_new" /\ ~ mqtt_thread
  /\ mqtt_thread' = TRUE
  /\ UNCHANGED <<client_state, packet_id, msg_handlers, ping, lockVars, ackVars, pc, pkt,
                 callVars, iterVars, netVars, histVars>>

(* ... before the state is set ...                                          *)
ConnectSetState(t) ==
  /\ pc[t] = "conn_new" /\ mqtt_thread
  /\ client_state' = "CONNECTED"
  /\ Goto(t, "conn_start")
  /\ UNCHANGED <<packet_id, msg_handlers, ping, mqtt_thread, lockVars, ackVars, pkt,
                 callVars, iterVars, netVars, histVars>>

(* ... and before it is resumed, which does nothing to a thread that is not *)
(* suspended at that moment.                                                *)
ConnectStartThread(t) ==
  /\ pc[t] = "conn_start"
  /\ pc' = [pc EXCEPT ![t] = "idle", ![Yield] = IF @ = "suspended" THEN "top" ELSE @]
  /\ SetPing(t, 0)
  /\ write_lock' = None
  /\ UNCHANGED <<client_state, packet_id, msg_handlers, mqtt_thread, write_buf, ackVars,
                 pkt, callVars, iterVars, netVars, histVars>>

(* CONNACK refuses. *)
ConnectRefused(t) ==
  /\ pc[t] = "handle" /\ Connecting(t)
  /\ pkt[t].type = "CONNACK" /\ pkt[t].body # "yes"
  /\ Move(t, "conn_fail")
-----------------------------------------------------------------------------
(* mqtt_disconnect and mqtt_release *)

DisconnectCall(t) == Start(t, Call("disconnect", None), "disc_lock")

DisconnectLock(t) ==
  /\ pc[t] = "disc_lock"
  /\ UNCHANGED packet_id
  /\ LockAndSerialize(t, Ack("DISCONNECT", 0), "disc_send")

DisconnectSend(t) ==
  /\ pc[t] = "disc_send"
  /\ SendOk(InBuffer(t)) \/ SendFails
  /\ write_lock' = None
  /\ Goto(t, "disc_state")
  /\ UNCHANGED <<sessVars, write_buf, ackVars, pkt, callVars, iterVars, histVars>>

(* The lock is already released when the state is set.                      *)
DisconnectState(t) ==
  /\ pc[t] = "disc_state"
  /\ client_state' = "CLEAN_SESSION"
  /\ Return(t)
  /\ UNCHANGED <<packet_id, msg_handlers, ping, mqtt_thread, lockVars, ackVars, pkt,
                 callVars, iterVars, netVars, histVars>>

(* The client structure is zeroed as soon as the state is INVALID; no call  *)
(* is under way then, and none is made afterwards.                          *)
Release(t) ==
  /\ t \in Apps
  /\ pc[t] = "idle" /\ Call("release", None) \in calls[t]
  /\ \A u \in Apps : pc[u] = "idle"
  /\ client_state = "INVALID"
  /\ client_state' = "INITIALIZED"
  /\ packet_id' = 0 /\ ping' = 0 /\ mqtt_thread' = FALSE
  /\ ack_list' = {} /\ ack_num' = 0 /\ msg_handlers' = {}
  /\ calls' = [u \in Apps |-> {}]
  /\ UNCHANGED <<lockVars, pc, pkt, op, iterVars, netVars, histVars>>
-----------------------------------------------------------------------------
(* mqtt_packet_handle: in mqtt_yield, or while mqtt_connect awaits CONNACK  *)

(* rc >= 0: mqtt_wait_packet reads on, mqtt_yield scans the list.           *)
Handled(t) == IF Connecting(t) THEN "read" ELSE "scan"
(* rc < 0 *)
HandleError(t) == IF Connecting(t) THEN "conn_fail" ELSE "top"

Read(t) ==
  /\ pc[t] = "read"
  /\ s2c # << >>
  /\ pkt' = [pkt EXCEPT ![t] = Head(s2c)]
  /\ s2c' = Tail(s2c)
  /\ Goto(t, "handle")
  /\ UNCHANGED <<sessVars, lockVars, ackVars, callVars, iterVars, link, c2s, connects, peer,
                 histVars>>

ReadTimeout(t) == pc[t] = "read" /\ s2c = << >> /\ Move(t, "keepalive")

(* The packet is done with; mqtt_keep_alive follows. *)
Finish(t) == Goto(t, "keepalive") /\ pkt' = [pkt EXCEPT ![t] = Corrupt]

Handling(t, types) == pc[t] = "handle" /\ pkt[t].type \in types

(* A handler returns at once unless the client is connected. *)
HandleNotConnected(t) ==
  /\ Handling(t, AckType \cup {"PUBLISH"}) /\ ~ Connected
  /\ Finish(t)
  /\ UNCHANGED <<sessVars, lockVars, ackVars, callVars, iterVars, netVars, histVars>>

(* A CONNACK nobody waits for. *)
HandleConnack(t) == Handling(t, {"CONNACK"}) /\ ~ Connecting(t) /\ Move(t, "scan")

(* mqtt_puback_and_pubcomp_packet_handle *)
HandleAck(t) ==
  /\ Handling(t, {"PUBACK", "PUBCOMP"}) /\ Connected
  /\ UnrecordNodes(t, pkt[t].type, pkt[t].id)
  /\ Finish(t)
  /\ UNCHANGED <<sessVars, lockVars, callVars, iterVars, netVars, histVars>>

(* mqtt_suback_packet_handle: only a recorded subscription is installed.    *)
HandleSuback(t) ==
  LET granted == {n.payload.body : n \in Matching("SUBACK", pkt[t].id)} IN
  /\ Handling(t, {"SUBACK"}) /\ Connected
  /\ UnrecordNodes(t, "SUBACK", pkt[t].id)
  /\ msg_handlers' = IF pkt[t].body = "yes" THEN msg_handlers \cup granted
                                            ELSE msg_handlers
  /\ Finish(t)
  /\ UNCHANGED <<client_state, packet_id, ping, mqtt_thread, lockVars, callVars,
                 iterVars, netVars, histVars>>

(* mqtt_unsuback_packet_handle destroys the handler node that               *)
(* mqtt_unsubscribe created, which is in no list; without a record it       *)
(* destroys whatever its uninitialized pointer holds, unless that is NULL.  *)
HandleUnsuback(t) ==
  /\ Handling(t, {"UNSUBACK"}) /\ Connected
  /\ UnrecordNodes(t, "UNSUBACK", pkt[t].id)
  /\ \/ UNCHANGED faults
     \/ ~ NodeExists("UNSUBACK", pkt[t].id) /\ faults' = faults \cup {"wild_handler"}
  /\ Finish(t)
  /\ UNCHANGED <<sessVars, lockVars, callVars, iterVars, netVars,
                 delivered, accepted, garbled>>

(* mqtt_deliver_message, without an interceptor. *)
Deliver(m) == delivered' = IF TopicOf[m] \in msg_handlers THEN Append(delivered, m)
                                                          ELSE delivered

(* mqtt_publish_packet_handle: QoS 0 is delivered; QoS 1 is acknowledged    *)
(* and delivered; QoS 2 is acknowledged and then recorded.  A message whose *)
(* acknowledgement cannot be sent is not delivered.                         *)
HandlePublish(t) ==
  LET m == pkt[t].body
      ack == Ack(IF Qos[m] = 1 THEN "PUBACK" ELSE "PUBREC", pkt[t].id)
  IN
  /\ Handling(t, {"PUBLISH"}) /\ Connected
  /\ \/ /\ Qos[m] = 0
        /\ Deliver(m)
        /\ Finish(t)
        /\ UNCHANGED <<write_buf, netVars>>
     \/ /\ Qos[m] # 0
        /\ write_lock = None
        /\ write_buf' = ack
        /\ \/ SendOk(ack) /\ Qos[m] = 1 /\ Deliver(m) /\ Finish(t)
           \/ SendOk(ack) /\ Qos[m] = 2 /\ UNCHANGED delivered /\ Goto(t, "rec_record") /\ UNCHANGED pkt
           \/ SendFails /\ UNCHANGED delivered /\ Finish(t)
  /\ UNCHANGED <<sessVars, write_lock, ackVars, callVars, iterVars,
                 accepted, garbled, faults>>

(* Faulty variant: nothing looks for the node.                              *)
RecordPubrelAfresh(t) ==
  /\ pc[t] = "rec_record"
  /\ AddNode(t, "PUBREL", pkt[t].id, write_buf)
  /\ Deliver(pkt[t].body)
  /\ Finish(t)
  /\ UNCHANGED <<sessVars, lockVars, callVars, iterVars, netVars, accepted, garbled, faults>>

(* Faulty variant: only a repetition is delivered.                          *)
RecordPubrelSwapped(t) ==
  /\ pc[t] = "rec_record"
  /\ IF NodeExists("PUBREL", pkt[t].id)
       THEN Deliver(pkt[t].body) /\ UNCHANGED ackVars
       ELSE AddNode(t, "PUBREL", pkt[t].id, write_buf) /\ UNCHANGED delivered
  /\ Finish(t)
  /\ UNCHANGED <<sessVars, lockVars, callVars, iterVars, netVars, accepted, garbled, faults>>

(* A QoS 2 message is delivered unless its PUBREL is awaited already.  The  *)
(* node keeps the bytes of the write buffer, which is no longer locked.     *)
RecordPubrel(t) ==
  LET p == pkt[t]
      saved == IF write_buf = Ack("PUBREC", p.id) THEN write_buf ELSE Corrupt
  IN
  /\ pc[t] = "rec_record"
  /\ \/ NodeExists("PUBREL", p.id) /\ UNCHANGED <<ackVars, delivered>>
     \/ /\ ~ NodeExists("PUBREL", p.id)
        /\ AddNode(t, "PUBREL", p.id, saved) \/ (AllocFails /\ UNCHANGED ackVars)
        /\ Deliver(p.body)
  /\ Finish(t)
  /\ UNCHANGED <<sessVars, lockVars, callVars, iterVars, netVars, accepted, garbled, faults>>

(* mqtt_pubrec_and_pubrel_packet_handle, mqtt_publish_ack_packet: PUBREC is *)
(* answered by PUBREL, which is recorded before it is sent, and only if no  *)
(* PUBCOMP is awaited already ...                                           *)
HandlePubrec(t) ==
  LET id == pkt[t].id IN
  /\ Handling(t, {"PUBREC"}) /\ Connected
  /\ write_lock = None
  /\ write_buf' = Ack("PUBREL", id)
  /\ \/ /\ ~ NodeExists("PUBCOMP", id)
        /\ AddNode(t, "PUBCOMP", id, Ack("PUBREL", id))
        /\ SendOk(Ack("PUBREL", id)) \/ SendFails
     \/ /\ AllocFails \/ NodeExists("PUBCOMP", id)
        /\ UNCHANGED <<ackVars, netVars>>
  /\ Goto(t, "unrecord")
  /\ UNCHANGED <<sessVars, write_lock, pkt, callVars, iterVars, histVars>>

(* ... and PUBREL by PUBCOMP ... *)
HandlePubrel(t) ==
  LET comp == Ack("PUBCOMP", pkt[t].id) IN
  /\ Handling(t, {"PUBREL"}) /\ Connected
  /\ write_lock = None
  /\ write_buf' = comp
  /\ SendOk(comp) \/ SendFails
  /\ Goto(t, "unrecord")
  /\ UNCHANGED <<sessVars, write_lock, ackVars, pkt, callVars, iterVars, histVars>>

(* Faulty variant: the node stays.                                          *)
UnrecordForgotten(t) ==
  /\ pc[t] = "unrecord"
  /\ Finish(t)
  /\ UNCHANGED <<sessVars, lockVars, ackVars, callVars, iterVars, netVars, histVars>>

(* ... and the node that awaited the packet goes. *)
Unrecord(t) ==
  /\ pc[t] = "unrecord"
  /\ UnrecordNodes(t, pkt[t].type, pkt[t].id)
  /\ Finish(t)
  /\ UNCHANGED <<sessVars, lockVars, callVars, iterVars, netVars, histVars>>

HandlePingresp(t) ==
  /\ Handling(t, {"PINGRESP"})
  /\ SetPing(t, 0)
  /\ Finish(t)
  /\ UNCHANGED <<client_state, packet_id, msg_handlers, mqtt_thread, lockVars, ackVars,
                 callVars, iterVars, netVars, histVars>>
-----------------------------------------------------------------------------
(* mqtt_keep_alive *)

(* Neither interval has elapsed, or the client is not connected; told so by *)
(* a requested clean session, mqtt_yield cleans without a further look at   *)
(* the state.                                                               *)
KeepAliveQuiet(t) ==
  /\ pc[t] = "keepalive"
  /\ Move(t, CASE Connected -> Handled(t)
               [] client_state = "CLEAN_SESSION" /\ ~ Connecting(t) -> "clean"
               [] OTHER -> HandleError(t))

(* PINGREQ is serialized into the write buffer without the write lock.      *)
KeepAlivePing(t) ==
  /\ KeepAliveRuns
  /\ pc[t] = "keepalive"
  /\ Connected /\ ping = 0
  /\ write_buf' = Ack("PINGREQ", 0)
  /\ pkt' = [pkt EXCEPT ![t] = Ack("PINGREQ", 0)]
  /\ Goto(t, "ka_send")
  /\ UNCHANGED <<sessVars, write_lock, ackVars, callVars, iterVars, netVars, histVars>>

KeepAliveSend(t) ==
  /\ pc[t] = "ka_send"
  /\ \/ SendOk(InBuffer(t)) /\ Goto(t, Handled(t))
     \/ SendFails /\ Goto(t, HandleError(t))
  /\ SetPing(t, (ping + 1) % 4)
  /\ UNCHANGED <<client_state, packet_id, msg_handlers, mqtt_thread, lockVars, ackVars,
                 pkt, callVars, iterVars, histVars>>

(* The last PINGREQ is not answered: the connection counts as lost.  The    *)
(* state is set a step after it was looked at.                              *)
KeepAliveDead(t) ==
  /\ KeepAliveRuns
  /\ pc[t] = "keepalive"
  /\ Connected /\ ping # 0
  /\ Move(t, "ka_disc")

KeepAliveDisc(t) ==
  /\ pc[t] = "ka_disc"
  /\ client_state' = "DISCONNECTED"
  /\ Goto(t, HandleError(t))
  /\ UNCHANGED <<packet_id, msg_handlers, ping, mqtt_thread, lockVars, ackVars, pkt,
                 callVars, iterVars, netVars, histVars>>
-----------------------------------------------------------------------------
(* mqtt_yield_thread, mqtt_yield, mqtt_try_reconnect, mqtt_ack_list_scan *)

(* Faulty variant: a requested clean session is taken for a lost connection. *)
YieldTopUnclean ==
  pc[Yield] = "top" /\ Move(Yield, IF Connected THEN "read" ELSE "conn_begin")

(* The new thread goes on to suspend itself unless the client is connected. *)
YieldStart ==
  /\ pc[Yield] = "start"
  /\ Move(Yield, IF Connected THEN "top" ELSE "start_stop")

(* It suspends itself through its handle; if the handle is not stored yet   *)
(* it dereferences NULL.                                                    *)
YieldSuspend ==
  /\ pc[Yield] = "start_stop"
  /\ \/ mqtt_thread /\ Goto(Yield, "suspended") /\ UNCHANGED faults
     \/ /\ ~ mqtt_thread
        /\ Goto(Yield, "dead")
        /\ faults' = faults \cup {"null_thread"}
  /\ UNCHANGED <<sessVars, lockVars, ackVars, pkt, callVars, iterVars, netVars,
                 delivered, accepted, garbled>>

YieldTop ==
  /\ pc[Yield] = "top"
  /\ Move(Yield, CASE client_state = "CLEAN_SESSION" -> "clean"
                   [] client_state = "CONNECTED" -> "read"
                   [] OTHER -> "conn_begin")

(* After the resubscriptions every node is treated, timed out or not.       *)
ReconnectScan ==
  /\ pc[Yield] = "resub"
  /\ resub = {}
  /\ expired' = IF Connected THEN ack_list ELSE {}
  /\ Goto(Yield, "scan_loop")
  /\ UNCHANGED <<sessVars, lockVars, ackVars, pkt, callVars, resub, netVars, histVars>>

(* Faulty variant: published messages are not among the resent.             *)
ResentReplies(n) == n.type \in {"PUBREL", "PUBCOMP"}

(* In a stable connection only the nodes whose timer has elapsed; one that  *)
(* is added while a scan is under way is left to the next.                  *)
AckListScan(S) ==
  /\ pc[Yield] = "scan"
  /\ expired' = IF Connected THEN S ELSE {}
  /\ Goto(Yield, "scan_loop")
  /\ UNCHANGED <<sessVars, lockVars, ackVars, pkt, callVars, resub, netVars, histVars>>

Resent(n) == n.type \in {"PUBACK", "PUBREC", "PUBREL", "PUBCOMP"}

(* Faulty variant: the timer is restarted, the packet is not sent again.    *)
AckHandlerRearm(n) ==
  /\ pc[Yield] = "scan_loop"
  /\ n \in expired /\ Resent(n)
  /\ write_lock = None
  /\ write_buf' = n.payload
  /\ expired' = expired \ {n}
  /\ UNCHANGED <<sessVars, write_lock, ackVars, pc, pkt, callVars, resub, netVars, histVars>>

(* mqtt_ack_handler_resend *)
AckHandlerResend(n) ==
  /\ pc[Yield] = "scan_loop"
  /\ n \in expired /\ Resent(n)
  /\ write_lock = None
  /\ write_buf' = n.payload
  /\ SendOk(n.payload) \/ SendFails
  /\ expired' = expired \ {n}
  /\ UNCHANGED <<sessVars, write_lock, ackVars, pc, pkt, callVars, resub, histVars>>

(* Any other node is destroyed; the number of nodes is not adjusted.        *)
AckHandlerDestroy(n) ==
  /\ pc[Yield] = "scan_loop"
  /\ n \in expired /\ ~ Resent(n)
  /\ ack_list' = ack_list \ {n}
  /\ expired' = expired \ {n}
  /\ UNCHANGED <<sessVars, lockVars, ack_num, pc, pkt, callVars, resub, netVars, histVars>>

AckListScanned == pc[Yield] = "scan_loop" /\ expired = {} /\ Move(Yield, "top")

(* network_disconnect and mqtt_clean_session: both lists are freed, the     *)
(* number of nodes stays as it is.                                          *)
CleanSession ==
  /\ pc[Yield] = "clean"
  /\ link' = "down" /\ c2s' = << >> /\ s2c' = << >>
  /\ ack_list' = {} /\ msg_handlers' = {}
  /\ client_state' = "INVALID"
  /\ Goto(Yield, "destroy")
  /\ UNCHANGED <<packet_id, ack_num, ping, mqtt_thread, lockVars, pkt, callVars,
                 iterVars, connects, peer, histVars>>

(* platform_thread_destroy(c->mqtt_thread): the client may be released.     *)
YieldDestroy ==
  /\ pc[Yield] = "destroy"
  /\ Goto(Yield, "dead")
  /\ faults' = IF mqtt_thread THEN faults ELSE faults \cup {"stale_client"}
  /\ UNCHANGED <<sessVars, lockVars, ackVars, pkt, callVars, iterVars, netVars,
                 delivered, accepted, garbled>>
-----------------------------------------------------------------------------
PublishStep(t) == \/ \E m \in Msg : PublishCall(t, m)
                  \/ PublishRefuse(t) \/ PublishLock(t) \/ PublishSend(t)
                  \/ PublishRecord(t) \/ PublishDisc(t)

SubscribeStep(t) == \/ \E x \in Topic : SubscribeCall(t, x) \/ UnsubscribeCall(t, x)
                    \/ SubscribeLock(t) \/ SubscribeSend(t) \/ SubscribeRecord(t)
                    \/ UnsubscribeLock(t) \/ UnsubscribeSend(t) \/ UnsubscribeRecord(t)

ConnectStep(t) == \/ ConnectCall(t) \/ ConnectNetwork(t) \/ ConnectReturn(t)
                  \/ ConnectLock(t) \/ ConnectSend(t) \/ ConnectTimeout(t)
                  \/ ConnectFail(t) \/ ConnectAccepted(t) \/ ConnectCreateThread(t)
                  \/ ConnectNoThread(t)
                  \/ ConnectStoreThread(t) \/ ConnectSetState(t)
                  \/ ConnectStartThread(t) \/ ConnectRefused(t)

DisconnectStep(t) == \/ DisconnectCall(t) \/ DisconnectLock(t) \/ DisconnectSend(t)
                     \/ DisconnectState(t) \/ Release(t)

HandleStep(t) == \/ Read(t) \/ ReadTimeout(t) \/ HandleNotConnected(t) \/ HandleConnack(t)
                 \/ HandleAck(t) \/ HandleSuback(t) \/ HandleUnsuback(t)
                 \/ HandlePublish(t) \/ RecordPubrel(t) \/ HandlePubrec(t)
                 \/ HandlePubrel(t) \/ Unrecord(t) \/ HandlePingresp(t)

KeepAliveStep(t) == \/ KeepAliveQuiet(t) \/ KeepAlivePing(t) \/ KeepAliveSend(t)
                    \/ KeepAliveDead(t) \/ KeepAliveDisc(t)

YieldStep == \/ YieldStart \/ YieldSuspend \/ YieldTop \/ ReconnectBeaten \/ ReconnectScan
             \/ \E x \in resub : Resubscribe(x)
             \/ \E S \in SUBSET ack_list : AckListScan(S)
             \/ \E n \in expired : AckHandlerResend(n) \/ AckHandlerDestroy(n)
             \/ AckListScanned \/ CleanSession \/ YieldDestroy

ThreadStep(t) == \/ PublishStep(t) \/ SubscribeStep(t) \/ ConnectStep(t)
                 \/ DisconnectStep(t) \/ HandleStep(t) \/ KeepAliveStep(t)

(* Everything the client does, whatever the network and the server do.      *)
ClientNext == YieldStep \/ \E t \in Thread : ThreadStep(t)

(* The connection is lost, with all that is under way on it.                *)
LinkDown ==
  /\ link = "up"
  /\ link' = "down" /\ c2s' = << >> /\ s2c' = << >>
  /\ UNCHANGED <<sessVars, lockVars, ackVars, pc, pkt, callVars, iterVars, connects,
                 peer, histVars>>
-----------------------------------------------------------------------------
(* Properties *)

(* The write lock excludes: a thread that is inside a section the code      *)
(* brackets with mqtt_write_lock is the holder of the lock, so no two       *)
(* threads ever are inside one at a time, over every early return and       *)
(* every failure of a send, an allocation or a connection.                  *)
LockExclusion == \A t \in Thread : pc[t] \in LockedPC => write_lock = t

(* mqtt_ack_handler_number never falls behind the list it counts, although  *)
(* a scan and a clean session take nodes off the list and leave the counter *)
(* as it is: the bound on the counter bounds the memory of the list.        *)
AckNumCoversList == Cardinality(ack_list) <= ack_num

(* The bound of mqtt_publish holds of the list itself: at most AckMax       *)
(* published messages are kept for retransmission, whatever the yield       *)
(* thread records between the test of the bound and the record.             *)
Unanswered == {n \in ack_list : n.type \in {"PUBACK", "PUBREC"}}
PublishedBounded == Cardinality(Unanswered) <= AckMax

(* What is kept for retransmission leaves the list only when the packet it  *)
(* awaits is handled, or with the whole session.                            *)
KeptUntilAnswered ==
  [][\A n \in ack_list \ ack_list' :
       Resent(n) => \/ client_state' # client_state
                    \/ \E t \in Thread : pkt[t].type = n.type /\ pkt[t].id = n.id]_vars
=============================================================================

----------------------------- MODULE MqttSystem -----------------------------
(***************************************************************************)
(* The MQTT client together with the server it is written for: an MQTT     *)
(* 3.1.1 server that keeps the session over connections (the client asks   *)
(* for it: clean_session is 0 by default).  The server is not part of the  *)
(* repository; it is modelled as mqttclient.c uses it.                     *)
(***************************************************************************)
EXTENDS MqttClient

CONSTANTS
  ServerMsg,     \* messages the server has for the client
  ServerId,      \* the packet identifier the server gives each of them
  Drops          \* whether the network may lose the connection

ASSUME ServerAssumption == /\ ServerMsg \subseteq Msg
                           /\ ServerId \in [ServerMsg -> 1 .. MaxPacketId]
                           /\ Drops \in BOOLEAN

(* What the server remembers.                                               *)
b_conn == peer.conn   \* the last connection on which CONNECT arrived
b_subs == peer.subs   \* topics the client is subscribed to
b_has  == peer.has    \* messages of the client that arrived
b_log  == peer.log    \* those of quality of service 2, as often as they are handed on
b_ids  == peer.ids    \* identifiers of such messages, from PUBLISH until PUBREL
b_out  == peer.out    \* where the delivery of each of its own messages stands

(* The server has had CONNECT on the present connection. *)
Serving == b_conn = connects

(* "again" and "release": PUBLISH or PUBREL is to be sent (again).          *)
OutState == {"new", "again", "sent", "release", "released", "done"}

(* The type invariant. *)
SystemTypeOK ==
  /\ TypeOK
  /\ peer \in [conn : Nat, subs : SUBSET Topic, has : SUBSET Msg, log : Seq(Msg),
               ids : SUBSET (0 .. MaxPacketId), out : [ServerMsg -> OutState]]

SystemInit ==
  /\ Init
  /\ peer = [conn |-> 0, subs |-> {}, has |-> {}, log |-> << >>, ids |-> {},
             out |-> [m \in ServerMsg |-> "new"]]

clientRest == <<sessVars, lockVars, ackVars, pc, pkt, callVars, iterVars, connects, histVars>>

(* The server takes the next packet, of one of these types, and answers.    *)
Takes(types) ==
  /\ c2s # << >> /\ Head(c2s).type \in types
  /\ Serving \/ types = {"CONNECT"}
  /\ Len(s2c) < NetCap
  /\ UNCHANGED <<clientRest, link>>
Answer(p) == c2s' = Tail(c2s) /\ s2c' = Append(s2c, p)
NoAnswer == c2s' = Tail(c2s) /\ UNCHANGED s2c

(* The deliveries the last connection left open are taken up again.         *)
ServerConnect ==
  /\ Takes({"CONNECT"})
  /\ Answer(Plain("CONNACK", 0, "yes"))
  /\ peer' = [peer EXCEPT !.conn = connects,
                          !.out = [m \in ServerMsg |->
                                     CASE b_out[m] = "sent" -> "again"
                                       [] b_out[m] = "released" -> "release"
                                       [] OTHER -> b_out[m]]]

ServerSubscribe ==
  LET p == Head(c2s) IN
  /\ Takes({"SUBSCRIBE"})
  /\ Answer(Plain("SUBACK", p.id, "yes"))
  /\ peer' = [peer EXCEPT !.subs = @ \cup {p.body}]

ServerUnsubscribe ==
  LET p == Head(c2s) IN
  /\ Takes({"UNSUBSCRIBE"})
  /\ Answer(Ack("UNSUBACK", p.id))
  /\ peer' = [peer EXCEPT !.subs = @ \ {p.body}]

ServerPing ==
  /\ Takes({"PINGREQ"})
  /\ Answer(Ack("PINGRESP", 0))
  /\ UNCHANGED peer

(* A message of the client arrives; one of quality of service 2 is handed   *)
(* on unless its identifier is still in use.                                *)
ServerPublish ==
  LET p == Head(c2s)
      fresh == Qos[p.body] = 2 /\ p.id \notin b_ids
  IN
  /\ Takes({"PUBLISH"})
  /\ peer' = [peer EXCEPT !.has = @ \cup {p.body},
                          !.log = IF fresh THEN Append(@, p.body) ELSE @,
                          !.ids = IF Qos[p.body] = 2 THEN @ \cup {p.id} ELSE @]
  /\ CASE Qos[p.body] = 0 -> NoAnswer
       [] Qos[p.body] = 1 -> Answer(Ack("PUBACK", p.id))
       [] OTHER -> Answer(Ack("PUBREC", p.id))

ServerPubrel ==
  /\ Takes({"PUBREL"})
  /\ Answer(Ack("PUBCOMP", Head(c2s).id))
  /\ peer' = [peer EXCEPT !.ids = @ \ {Head(c2s).id}]

(* An acknowledgement of a message of the server. *)
ServerAcked ==
  LET p == Head(c2s)
      next == IF p.type = "PUBREC" THEN "release" ELSE "done"
  IN
  /\ Takes({"PUBACK", "PUBREC", "PUBCOMP"})
  /\ NoAnswer
  /\ peer' = [peer EXCEPT !.out =
               [m \in ServerMsg |-> IF ServerId[m] = p.id /\ @[m] \notin {"new", "done"}
                                      THEN next ELSE @[m]]]

(* On DISCONNECT, on bytes that are no packet, and on a packet before       *)
(* CONNECT, the server closes the connection.                               *)
ServerCloses ==
  /\ c2s # << >>
  /\ Head(c2s).type \in {"DISCONNECT", "CORRUPT"} \/ (~ Serving /\ Head(c2s).type # "CONNECT")
  /\ LinkDown

ServerSend(m) ==
  /\ link = "up" /\ Serving /\ Len(s2c) < NetCap
  /\ \/ /\ b_out[m] \in {"new", "again"} /\ TopicOf[m] \in b_subs
        /\ s2c' = Append(s2c, Plain("PUBLISH", ServerId[m], m))
        /\ peer' = [peer EXCEPT !.out[m] = "sent"]
     \/ /\ b_out[m] = "release"
        /\ s2c' = Append(s2c, Ack("PUBREL", ServerId[m]))
        /\ peer' = [peer EXCEPT !.out[m] = "released"]
  /\ UNCHANGED <<clientRest, link, c2s>>

ServerStep == \/ ServerConnect \/ ServerSubscribe \/ ServerUnsubscribe \/ ServerPing
              \/ ServerPublish \/ ServerPubrel \/ ServerAcked \/ ServerCloses
              \/ \E m \in ServerMsg : ServerSend(m)

SystemNext == ClientNext \/ ServerStep \/ (Drops /\ LinkDown)

SystemSpec == SystemInit /\ [][SystemNext]_vars

(* Threads are scheduled, and a mutex is not withheld for ever from the     *)
(* yield thread, which has the highest priority.                            *)
WaitsForLock(t) == SubscribeLock(t) \/ ConnectLock(t)
Scheduling ==
  /\ \A t \in Apps : WF_vars(ThreadStep(t))
  /\ WF_vars(YieldStep \/ ThreadStep(Yield))
  /\ SF_vars(WaitsForLock(Yield))

ScheduledSpec == SystemSpec /\ Scheduling

(* The server works, a timer that elapses is seen to have elapsed, and the  *)
(* network does not refuse every reconnection or retransmission.            *)
Resends(n) == AckHandlerResend(n) /\ c2s' # c2s
Fairness ==
  /\ Scheduling
  /\ SF_vars(ConnectNetwork(Yield))
  /\ WF_vars(ServerStep)
  /\ SF_vars(\E m \in ServerMsg : ServerSend(m))
  /\ SF_vars(KeepAlivePing(Yield) \/ KeepAliveDead(Yield))
  /\ SF_vars(AckListScan(ack_list))
  /\ SF_vars(\E n \in ack_list : Resends(n))

FairSpec == SystemSpec /\ Fairness
-----------------------------------------------------------------------------
(* Properties *)

Qos2Msg == {m \in Msg : Qos[m] = 2}
Occurs(m, log) == \E i \in 1 .. Len(log) : log[i] = m

(* How often each message of S is in a log.                                 *)
Times(S, log) == [m \in S |-> Cardinality({i \in 1 .. Len(log) : log[i] = m})]

(* Exactly the service OnceDelivery promises, from the server to the        *)
(* message handlers: over retransmissions by either side, lost connections, *)
(* reconnections and packets dropped because the client is not connected,   *)
(* no message of quality of service 2 reaches a handler twice.              *)
Inbound == INSTANCE OnceDelivery
             WITH Msg <- Qos2Msg,
                  offered <- {m \in Qos2Msg : m \in ServerMsg /\ b_out[m] # "new"},
                  times <- Times(Qos2Msg, delivered)
InboundOnce == Inbound!Spec

(* The same from mqtt_publish to the server: a message is handed on once    *)
(* although the client resends PUBLISH and PUBREL on every timeout.         *)
Begins(a, m) == Call("publish", m) \in Calls[a] \ calls[a]
Outbound == INSTANCE OnceDelivery
              WITH offered <- {m \in Msg : \E a \in Apps : Begins(a, m)},
                   times <- Times(Msg, b_log)
OutboundOnce == Outbound!Spec

(* A message the server may forget has been delivered: once the server has  *)
(* the acknowledgement of one whose topic has a handler, the handler has    *)
(* been called, or the yield thread is on its way to call it.               *)
ForgottenIsDelivered ==
  \A m \in ServerMsg :
    /\ b_out[m] \in {"release", "released", "done"}
    /\ TopicOf[m] \in msg_handlers
    => \/ Occurs(m, delivered)
       \/ pc[Yield] = "rec_record" /\ pkt[Yield].body = m

(* The yield thread has been through CleanSession, and does nothing more.   *)
Cleaned == pc[Yield] \in {"destroy", "dead"} /\ "null_thread" \notin faults

(* What mqtt_publish has accepted is not lost: until the server has it, the *)
(* list holds its bytes for retransmission, over every reconnection, unless *)
(* the session has been cleaned, or PINGREQ, which is written without the   *)
(* lock (mqttclient.c:1146), had taken the place of the message in the      *)
(* buffer when its node was recorded.                                       *)
AcceptedIsKept ==
  \A m \in accepted \ garbled : \/ m \in b_has
                                \/ \E n \in Unanswered : n.payload.body = m
                                \/ Cleaned

(* The client needs a connection and the model allows it no further one.    *)
OutOfConnections == connects = MaxConnects /\ ~ (Connected /\ link = "up")

(* The yield thread is lost: it dereferenced its NULL handle, or suspended  *)
(* itself (mqttclient.c:921) with nobody left who resumes it.               *)
YieldLost == \/ "null_thread" \in faults
             \/ /\ pc[Yield] = "suspended"
                /\ \A a \in Apps : pc[a] \notin {"conn_new", "conn_start"}

(* Every message mqtt_publish has accepted arrives, and every packet kept   *)
(* for retransmission is answered in the end: the list does not stay        *)
(* occupied, although any send may fail, the connection may be lost at any  *)
(* time with all that is under way on it, and the client gives one up when  *)
(* a record cannot be allocated or a PINGREQ is not answered.  Excepted are *)
(* a message recorded garbled, a yield thread lost when it was created, and *)
(* that the model's connections are used up.                                *)
AcceptedArrives ==
  \A m \in Msg :
    m \in accepted ~> (m \in b_has \cup garbled \/ OutOfConnections \/ YieldLost)
ListDrains == <>[](ack_list = {} \/ OutOfConnections \/ YieldLost)


(* An application has returned with the write lock (mqttclient.c:1314).     *)
LockLeaked == \E a \in Apps : pc[a] = "idle" /\ write_lock = a

(* A clean session that is asked for while there is a yield thread is       *)
(* carried out, whatever this thread is doing and whoever holds the lock:   *)
(* both lists are freed and the state is INVALID, which mqtt_release waits  *)
(* for; unless another call overwrites the state first, as a refused or     *)
(* failed publication, a connection and a keep-alive may.                   *)
DisconnectCleans ==
  (client_state = "CLEAN_SESSION" /\ pc[Yield] \notin {"none", "destroy", "dead"})
    ~> \/ client_state = "INVALID" /\ ack_list = {} /\ msg_handlers = {}
       \/ client_state \notin {"CLEAN_SESSION", "INVALID"}
       \/ YieldLost \/ LockLeaked
-----------------------------------------------------------------------------
(* What the documents and comments of the client say of it, checked against *)
(* what it does.                                                            *)

(* Nothing is under way and nothing is awaited. *)
Quiet == /\ Connected /\ link = "up" /\ Serving
         /\ c2s = << >> /\ s2c = << >> /\ ack_list = {}
         /\ \A a \in Apps : pc[a] = "idle"
         /\ pc[Yield] = "read"

(* mqtt-design.md:242: the node of a subscribed topic is hung into          *)
(* mqtt_msg_handler_list when SUBACK is received.                           *)
SubscribedIsInstalled == Quiet => b_subs \subseteq msg_handlers

(* mqtt-design.md:271: on UNSUBACK the node of the topic is destroyed.      *)
UnsubscribedIsRemoved == Quiet => msg_handlers \subseteq b_subs

(* mqttclient.c:1347: a publication is refused when the recorded ack        *)
(* handlers have reached the maximum.                                       *)
RefusedAtMaximum ==
  [][\A t \in Apps : pc[t] = "pub_lock" /\ pc'[t] = "pub_disc"
                      => Cardinality(ack_list) >= AckMax]_vars

(* mqtt-config.md:12: MQTT_ACK_HANDLER_NUM_MAX is the maximum number of     *)
(* records in the list of awaited acknowledgements.                         *)
ListWithinMaximum == Cardinality(ack_list) <= AckMax

(* mqttclient.c:333: the data sent is saved in the ack handler.             *)
SavedIsSent == \A n \in ack_list : n.payload.type # "CORRUPT"

(* mqtt-design.md:333: a disconnection destroys the thread; once the clean  *)
(* session is asked for, only its completion changes the state.             *)
CleanSessionIsFinal ==
  [][client_state = "CLEAN_SESSION" => client_state' \in {client_state, "INVALID"}]_vars

(* mqtt-design.md:206: the thread is started when the time is right.        *)
ThreadIsStored == "null_thread" \notin faults

(* mqttclient.c:1186: mqtt_release waits for the clean session to complete. *)
ReleaseWaits == "stale_client" \notin faults

(* mqttclient.c:768: a QoS 2 message is only processed when it is received  *)
(* for the first time.                                                      *)
ProcessedFirstTimeOnly ==
  \A i, j \in 1 .. Len(delivered) :
    i # j /\ delivered[i] \in Qos2Msg => delivered[i] # delivered[j]

(* mqttclient.c:717: the handler node is the one the record gives back.     *)
UnsubackIsRecorded == "wild_handler" \notin faults

(* mqtt-design.md:260: unsubscribing follows the logic of subscribing,      *)
(* where every return releases the lock.                                    *)
LockIsReleased == \A a \in Apps : pc[a] = "idle" => write_lock # a
=============================================================================

--------------------------- MODULE MCMqttAnyServer ---------------------------
(* Small instances of MqttAnyServer. *)
EXTENDS MqttAnyServer, TLC

CONSTANTS a1, a2, m1, m2, x1

(* One application thread connects and uses everything; every message has   *)
(* the one topic.                                                           *)
AllTopics == [m \in Msg |-> x1]
QosMixed == [m \in Msg |-> IF m = m1 THEN 1 ELSE 2]

PublishersCalls == (a1 :> {Call("connect", None), Call("publish", m1)})
                     @@ (a2 :> {Call("publish", m2)})

Grant == Plain("CONNACK", 0, "yes")
Refusal == Plain("CONNACK", 0, "no")
PublisherReplies == {Grant, Refusal, Ack("PUBACK", 2), Ack("PUBREC", 2), Ack("PUBREC", 3),
                     Ack("PUBCOMP", 2), Ack("PUBCOMP", 3), Ack("PINGRESP", 0)}

(* One application goes through the life of a client; the server also       *)
(* refuses, and answers what it was not asked.                              *)
QosFull == [m \in Msg |-> IF m = m1 THEN 0 ELSE 2]
LifeCalls ==
  (a1 :> {Call("connect", None), Call("subscribe", x1), Call("unsubscribe", x1),
          Call("publish", m1), Call("disconnect", None), Call("release", None)})
LifeReplies == {Grant, Refusal, Plain("SUBACK", 2, "yes"),
                Plain("SUBACK", 2, "no"), Ack("UNSUBACK", 3), Ack("PUBREL", 1)}

(* One application connects, so does the other, and the yield thread        *)
(* reconnects and subscribes again when the server does not answer PINGREQ. *)
TrafficCalls ==
  (a1 :> {Call("connect", None), Call("subscribe", x1)}) @@ (a2 :> {Call("connect", None)})
TrafficReplies == {Grant, Plain("SUBACK", 2, "yes"),
                   Plain("PUBLISH", 1, m2)}
=============================================================================

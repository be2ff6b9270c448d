---------------------------- MODULE MCMqttSystem ----------------------------
(* Small instances of MqttSystem: the messages of each have one topic. *)
EXTENDS MqttSystem, TLC

CONSTANTS a1, a2, m1, m2, x1

AllTopics == [m \in Msg |-> x1]
QosTwo == [m \in Msg |-> 2]
QosMixed == [m \in Msg |-> IF m = m1 THEN 1 ELSE 2]

(* One application subscribes, the server sends. *)
SubscriberCalls == (a1 :> {Call("connect", None), Call("subscribe", x1)})
ServerIds == (m1 :> 1) @@ (m2 :> 2)
OneServerId == (m1 :> 1)
NoIds == << >>

(* One application publishes; another connects as well. *)
OneMessageCalls == (a1 :> {Call("connect", None), Call("publish", m1)})
TwoConnectCalls ==
  (a1 :> {Call("connect", None), Call("publish", m1)}) @@ (a2 :> {Call("connect", None)})

(* One application publishes two messages. *)
OnePublisherCalls ==
  (a1 :> {Call("connect", None), Call("publish", m1), Call("publish", m2)})

(* One application subscribes and unsubscribes. *)
UnsubscriberCalls ==
  (a1 :> {Call("connect", None), Call("subscribe", x1), Call("unsubscribe", x1)})

(* One application unsubscribes and disconnects while the other publishes,  *)
(* which is refused while UNSUBACK is awaited.                              *)
DisconnectCalls ==
  (a1 :> {Call("connect", None), Call("unsubscribe", x1), Call("disconnect", None),
          Call("release", None)})
    @@ (a2 :> {Call("publish", m1)})
LeaverCalls ==
  (a1 :> {Call("connect", None), Call("disconnect", None), Call("release", None)})
    @@ (a2 :> {Call("publish", m1), Call("publish", m2)})

(* One application subscribes, publishes, and is refused. *)
SubscriberPublisherCalls ==
  (a1 :> {Call("connect", None), Call("subscribe", x1)}) @@ (a2 :> {Call("publish", m1)})
=============================================================================

---------------------------- MODULE MqttAnyServer ----------------------------
(***************************************************************************)
(* The MQTT client facing a server of which nothing is assumed: it sends   *)
(* any of the packets of FromServer at any time, in any order, whether or  *)
(* not they answer anything, and reads what it likes.  What holds here is  *)
(* the client's own doing.                                                 *)
(***************************************************************************)
EXTENDS MqttClient

CONSTANTS
  FromServer,    \* packets the server may send
  MaxDelivered   \* bound: the server is silent after so many deliveries

ASSUME ServerAssumption == FromServer \subseteq Packet /\ MaxDelivered \in Nat

ServerSends(p) ==
  /\ link = "up"
  /\ Len(s2c) < NetCap
  /\ Len(delivered) < MaxDelivered
  /\ s2c' = Append(s2c, p)
  /\ UNCHANGED <<sessVars, lockVars, ackVars, pc, pkt, callVars, iterVars, link, c2s,
                 connects, peer, histVars>>

ServerReads ==
  /\ c2s # << >>
  /\ c2s' = Tail(c2s)
  /\ UNCHANGED <<sessVars, lockVars, ackVars, pc, pkt, callVars, iterVars, link, s2c,
                 connects, peer, histVars>>

Next == ClientNext \/ LinkDown \/ ServerReads \/ \E p \in FromServer : ServerSends(p)

(* Nothing is known of what this server remembers. *)
AnyServerInit == Init /\ peer = None

Spec == AnyServerInit /\ [][Next]_vars
=============================================================================

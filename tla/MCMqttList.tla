----------------------------- MODULE MCMqttList -----------------------------
(* A small instance of MqttList: two applications, the yield thread, and    *)
(* three nodes of which two have the same key.                             *)
EXTENDS MqttList, TLC

CONSTANTS n1, n2, n3, a1, a2

MCKey(n) == IF n = n3 THEN n1 ELSE n
=============================================================================

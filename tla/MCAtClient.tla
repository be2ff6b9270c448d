----------------------------- MODULE MCAtClient -----------------------------
(* A small instance of AtClient: two commands with a response, of which one *)
(* waits for one line, and one without, as platform_net_socket.c sends.    *)
EXTENDS AtClient, TLC

CONSTANTS c1, c2, c3

MCLineNum == (c1 :> 0) @@ (c2 :> 1)
MCBufSize == (c1 :> 3) @@ (c2 :> 5)
MCLength == [k \in Line |-> IF k \in {"ok", "rest"} THEN 1 ELSE 2]
MCAnswers == {<<"data", "data">>, <<"ok", "cme", "long">>}

(* The table of at_device_esp8266.c. *)
EspUrcKinds == {"ok", "error", "ipd"}
=============================================================================

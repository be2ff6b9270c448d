------------------------------ MODULE AtClient ------------------------------
(***************************************************************************)
(* The AT client of DRIVE/src/at_client.c with the URC table of            *)
(* DRIVE/src/at_device_esp8266.c: tasks that send commands to the ESP8266  *)
(* and wait for a response, and the task client_parser, which reads the    *)
(* lines of the serial line and fills the response that is registered in   *)
(* the device.  The mutex of the device serializes the senders only; what  *)
(* the parser shares with them (device->resp, device->resp_status and the  *)
(* response object) is guarded by nothing, so each access is a step.       *)
(* Every command is sent once and has a response object of its own, if it  *)
(* has one, which its sender deletes afterwards, as at_test does.          *)
(***************************************************************************)
EXTENDS Integers, Sequences

CONSTANTS
  Cmd,       \* commands
  None,
  HasResp,   \* commands sent with a response object
  LineNum,   \* at_response.line_num
  BufSize,   \* at_response.buf_size
  Answers,   \* what the device may answer to a command: sequences of lines
  UrcKinds,  \* the lines that have an entry in the URC table
  Length,    \* the length of a line
  SemMax,    \* the maximum count of resp_semphr
  MaxUrc     \* bound: lines the device sends unasked

(* "cme": a line that contains ERROR without beginning with it; "ipd" and   *)
(* "rest": the readline of a +IPD line breaks off at the length of its      *)
(* entry; "long": a line that does not fit into recv_line_buf.              *)
Line == {"data", "ok", "error", "fail", "cme", "ipd", "rest", "long"}

ASSUME CmdAssumption == None \notin Cmd /\ HasResp \subseteq Cmd
ASSUME RespAssumption == LineNum \in [HasResp -> Nat] /\ BufSize \in [HasResp -> Nat \ {0}]
ASSUME LineAssumption == /\ Answers \subseteq Seq(Line)
                         /\ UrcKinds \subseteq Line
                         /\ Length \in [Line -> Nat]
ASSUME NatAssumption == SemMax \in Nat \ {0} /\ MaxUrc \in Nat

VARIABLES
  mutex,        \* device->mutex: the command whose sender holds it
  resp,         \* device->resp
  resp_status,  \* device->resp_status
  resp_semphr,  \* the count of device->resp_semphr
  buf_len,      \* per response object
  line_counts,  \* per response object
  phase,        \* per command: where its sender is
  ret,          \* what the at_send_obj_cmd under way will return
  line,         \* lines the device has yet to deliver
  parser,       \* where client_parser is
  cur,          \* device->recv_line_buf: the line it handles
  r,            \* its local variable resp
  seen,         \* resp->buf_len as it was loaded
  urcs,         \* lines sent unasked so far
  timeouts,     \* history: commands that timed out
  ended,        \* history: commands whose response the parser ended
  faults        \* history: undefined behaviour met

devVars == <<mutex, resp, resp_status, resp_semphr>>
objVars == <<buf_len, line_counts>>
sendVars == <<phase, ret>>
parserVars == <<parser, cur, r, seen>>
histVars == <<timeouts, ended, faults>>
vars == <<devVars, objVars, sendVars, line, parserVars, urcs, histVars>>

(* Where the sender of a command holds the mutex. *)
Sending == {"registered", "reset", "sent", "wait", "clear"}
Phase == {"lock", "returned", "deleted"} \cup Sending

(* Where the parser holds the pointer of a response object. *)
Holding == {"room", "store", "decide", "end"}
ParserPC == {"first", "second", "check", "load", "give", "dead"} \cup Holding

(* The type invariant. *)
TypeOK ==
  /\ mutex \in Cmd \cup {None}
  /\ resp \in HasResp \cup {None}
  /\ resp_status \in {"ok", "error", "timeout", "full"}
  /\ resp_semphr \in 0 .. SemMax
  /\ buf_len \in [HasResp -> Nat]
  /\ line_counts \in [HasResp -> Nat]
  /\ phase \in [Cmd -> Phase]
  /\ ret \in {"ok", "error", "timeout"}
  /\ line \in Seq(Line)
  /\ parser \in ParserPC
  /\ cur \in Line
  /\ r \in HasResp \cup {None}
  /\ parser \in Holding \cup {"give"} => r \in HasResp
  /\ seen \in Nat
  /\ urcs \in 0 .. MaxUrc
  /\ timeouts \in Nat
  /\ ended \in SUBSET HasResp
  /\ faults \in SUBSET {"null_resp", "freed_resp", "before_buffer"}

(* at_client_init, at_obj_set_urc_table; every command is about to be sent. *)
Init ==
  /\ mutex = None /\ resp = None /\ resp_status = "ok" /\ resp_semphr = 0
  /\ buf_len = [c \in HasResp |-> 0] /\ line_counts = [c \in HasResp |-> 0]
  /\ phase = [c \in Cmd |-> "lock"] /\ ret = "ok"
  /\ line = << >>
  /\ parser = "first" /\ cur = "data" /\ r = None /\ seen = 0
  /\ urcs = 0 /\ timeouts = 0 /\ ended = {} /\ faults = {}
-----------------------------------------------------------------------------
(* at_send_obj_cmd *)

Step(c, from, to) == phase[c] = from /\ phase' = [phase EXCEPT ![c] = to]

(* Faulty variant: the mutex is taken without waiting for it.               *)
RegisterAtOnce(c) ==
  /\ mutex' = c
  /\ resp_status' = "ok"
  /\ resp' = IF c \in HasResp THEN c ELSE None
  /\ ret' = "ok"
  /\ Step(c, "lock", "registered")
  /\ UNCHANGED <<resp_semphr, objVars, line, parserVars, urcs, histVars>>

(* The mutex is taken and the response registered, if there is one ...      *)
Register(c) ==
  /\ mutex = None
  /\ mutex' = c
  /\ resp_status' = "ok"
  /\ resp' = IF c \in HasResp THEN c ELSE None
  /\ ret' = "ok"
  /\ Step(c, "lock", "registered")
  /\ UNCHANGED <<resp_semphr, objVars, line, parserVars, urcs, histVars>>

(* ... and emptied, while the parser may be filling it already.             *)
ResetResp(c) ==
  /\ c \in HasResp
  /\ Step(c, "registered", "reset")
  /\ buf_len' = [buf_len EXCEPT ![c] = 0]
  /\ line_counts' = [line_counts EXCEPT ![c] = 0]
  /\ UNCHANGED <<devVars, ret, line, parserVars, urcs, histVars>>

(* HAL_AT_send_cmd: the device will answer, after what it still has to say. *)
SendCmd(c) ==
  /\ Step(c, IF c \in HasResp THEN "reset" ELSE "registered", "sent")
  /\ \E a \in Answers : line' = line \o a
  /\ UNCHANGED <<devVars, objVars, ret, parserVars, urcs, histVars>>

(* The status is looked at before the response is waited for; without a     *)
(* response object nothing is waited for.                                   *)
LookAtStatus(c) ==
  /\ c \in HasResp
  /\ Step(c, "sent", "wait")
  /\ ret' = IF resp_status = "ok" THEN "ok" ELSE "error"
  /\ UNCHANGED <<devVars, objVars, line, parserVars, urcs, histVars>>

(* Faulty variant: nothing is waited for.                                   *)
TakeSemphrUncounted(c) ==
  /\ Step(c, "wait", "clear")
  /\ resp_semphr' = resp_semphr - 1
  /\ UNCHANGED <<mutex, resp, resp_status, objVars, ret, line, parserVars, urcs, histVars>>

TakeSemphr(c) ==
  /\ Step(c, "wait", "clear")
  /\ resp_semphr > 0
  /\ resp_semphr' = resp_semphr - 1
  /\ UNCHANGED <<mutex, resp, resp_status, objVars, ret, line, parserVars, urcs, histVars>>

(* resp->timeout elapses. *)
Timeout(c) ==
  /\ Step(c, "wait", "clear")
  /\ resp_semphr = 0
  /\ resp_status' = "timeout"
  /\ ret' = "timeout"
  /\ timeouts' = timeouts + 1
  /\ UNCHANGED <<mutex, resp, resp_semphr, objVars, line, parserVars, urcs, ended, faults>>

(* Faulty variant: the mutex is kept after a timeout.                       *)
ReturnLocked(c) ==
  /\ Step(c, IF c \in HasResp THEN "clear" ELSE "sent", "returned")
  /\ resp' = None
  /\ mutex' = IF ret = "timeout" THEN mutex ELSE None
  /\ UNCHANGED <<resp_status, resp_semphr, objVars, ret, line, parserVars, urcs, histVars>>

ReturnFromSend(c) ==
  /\ Step(c, IF c \in HasResp THEN "clear" ELSE "sent", "returned")
  /\ resp' = None
  /\ mutex' = None
  /\ UNCHANGED <<resp_status, resp_semphr, objVars, ret, line, parserVars, urcs, histVars>>

(* at_delete_resp *)
DeleteResp(c) ==
  /\ c \in HasResp
  /\ Step(c, "returned", "deleted")
  /\ UNCHANGED <<devVars, objVars, ret, line, parserVars, urcs, histVars>>
-----------------------------------------------------------------------------
(* client_parser *)

(* The next turn of the loop, where readline clears the line buffer.        *)
Again == parser' = "first" /\ cur' = "data" /\ r' = None /\ seen' = 0
GoOn(label) == parser' = label /\ UNCHANGED <<cur, r, seen>>

(* at_recv_readline for the test of the loop: the line is read and, as the  *)
(* next call of it follows at once, never looked at.                        *)
ReadFirst ==
  /\ parser = "first"
  /\ line # << >>
  /\ line' = Tail(line)
  /\ parser' = IF Head(line) = "long" THEN "first" ELSE "second"
  /\ UNCHANGED <<devVars, objVars, sendVars, cur, r, seen, urcs, histVars>>

(* at_recv_readline in the argument of printf, then get_urc_obj: a line     *)
(* with an entry in the URC table goes to the function of the entry, which  *)
(* only prints.                                                             *)
ReadSecond ==
  /\ parser = "second"
  /\ line # << >>
  /\ line' = Tail(line)
  /\ cur' = IF Head(line) \in UrcKinds THEN "data" ELSE Head(line)
  /\ parser' = IF Head(line) \in UrcKinds THEN "first" ELSE "check"
  /\ UNCHANGED <<devVars, objVars, sendVars, r, seen, urcs, histVars>>

(* device->resp is tested ... *)
CheckResp ==
  /\ parser = "check"
  /\ IF resp = None THEN Again ELSE GoOn("load")
  /\ UNCHANGED <<devVars, objVars, sendVars, line, urcs, histVars>>

(* ... and loaded again; then the line is terminated in its last byte, also *)
(* if it has none.                                                          *)
LoadResp ==
  /\ parser = "load"
  /\ r' = resp
  /\ parser' = IF resp = None THEN "dead" ELSE "room"
  /\ faults' = faults \cup (IF resp = None THEN {"null_resp"} ELSE {})
                      \cup (IF cur = "long" THEN {"before_buffer"} ELSE {})
  /\ UNCHANGED <<devVars, objVars, sendVars, line, cur, seen, urcs, timeouts, ended>>

(* The response object is accessed. *)
Access == faults' = faults \cup (IF phase[r] = "deleted" THEN {"freed_resp"} ELSE {})

(* A line that does not fit into recv_line_buf leaves a length of 0.        *)
CurLen == IF cur = "long" THEN 0 ELSE Length[cur]

(* Faulty variant: only what is there is compared, not what is added.       *)
RoomForAny == buf_len[r] < BufSize[r]

Room == buf_len[r] + CurLen < BufSize[r]

CheckRoom ==
  /\ parser = "room"
  /\ Access
  /\ seen' = buf_len[r]
  /\ parser' = IF Room THEN "store" ELSE "decide"
  /\ resp_status' = IF Room THEN resp_status ELSE "full"
  /\ UNCHANGED <<mutex, resp, resp_semphr, objVars, sendVars, line, cur, r, urcs,
                 timeouts, ended>>

(* The line is copied and counted; the length is loaded again, or not.      *)
StoreLine ==
  /\ parser = "store"
  /\ Access
  /\ \E n \in {seen, buf_len[r]} : buf_len' = [buf_len EXCEPT ![r] = n + CurLen]
  /\ line_counts' = [line_counts EXCEPT ![r] = @ + 1]
  /\ parser' = "decide"
  /\ UNCHANGED <<devVars, sendVars, line, cur, r, seen, urcs, timeouts, ended>>

EndsByOk == cur = "ok" /\ LineNum[r] = 0
EndsByError == cur \in {"error", "cme", "fail"}
EndsByCount == LineNum[r] # 0 /\ line_counts[r] = LineNum[r]

Decide ==
  /\ parser = "decide"
  /\ Access
  /\ IF EndsByOk \/ EndsByError \/ EndsByCount
       THEN /\ resp_status' = IF EndsByError THEN "error" ELSE "ok"
            /\ GoOn("end")
       ELSE UNCHANGED resp_status /\ Again
  /\ UNCHANGED <<mutex, resp, resp_semphr, objVars, sendVars, line, urcs, timeouts, ended>>

(* Faulty variant: the response stays registered.                           *)
EndRespKept ==
  /\ parser = "end"
  /\ ended' = ended \cup {r}
  /\ GoOn("give")
  /\ UNCHANGED <<devVars, objVars, sendVars, line, urcs, timeouts, faults>>

(* Whatever is registered now is forgotten ... *)
EndResp ==
  /\ parser = "end"
  /\ resp' = None
  /\ ended' = ended \cup {r}
  /\ GoOn("give")
  /\ UNCHANGED <<mutex, resp_status, resp_semphr, objVars, sendVars, line, urcs, timeouts,
                 faults>>

(* ... and whoever waits is woken.                                          *)
GiveSemphr ==
  /\ parser = "give"
  /\ resp_semphr' = IF resp_semphr = SemMax THEN SemMax ELSE resp_semphr + 1
  /\ Again
  /\ UNCHANGED <<mutex, resp, resp_status, objVars, sendVars, line, urcs, histVars>>

(* The device reports data of a connection, between two of its lines.       *)
Unsolicited ==
  /\ urcs < MaxUrc
  /\ \A i \in DOMAIN line : i = 1 => line[i] # "rest"
  /\ line' = <<"ipd", "rest">> \o line
  /\ urcs' = urcs + 1
  /\ UNCHANGED <<devVars, objVars, sendVars, parserVars, histVars>>
-----------------------------------------------------------------------------
SendStep(c) == \/ Register(c) \/ ResetResp(c) \/ SendCmd(c) \/ LookAtStatus(c)
               \/ TakeSemphr(c) \/ Timeout(c) \/ ReturnFromSend(c) \/ DeleteResp(c)

ParserStep == \/ ReadFirst \/ ReadSecond \/ CheckResp \/ LoadResp \/ CheckRoom
              \/ StoreLine \/ Decide \/ EndResp \/ GiveSemphr

Next == Unsolicited \/ ParserStep \/ \E c \in Cmd : SendStep(c)

Spec == Init /\ [][Next]_vars

(* The sending tasks are scheduled; the device may be silent for ever.      *)
FairSpec == Spec /\ \A c \in Cmd : WF_vars(SendStep(c))
-----------------------------------------------------------------------------
(* Properties *)

(* A response is never written beyond its buffer, although the parser tests *)
(* and uses buf_len in separate steps, lines of an earlier command arrive   *)
(* late, and the sender resets buf_len while the parser may be between.     *)
BufferBounded == \A c \in HasResp : buf_len[c] <= BufSize[c]

(* A count left in resp_semphr, which makes the next command return at      *)
(* once, is always the doing of a command that timed out: the parser gives  *)
(* the semaphore at most once for a command registered.                     *)
Waiting == mutex \in HasResp /\ phase[mutex] # "clear"
LeftoverIsTimeout == resp_semphr <= timeouts + (IF Waiting THEN 1 ELSE 0)

(* Until the first timeout the pointers of the parser, which nothing        *)
(* guards, are good: it meets neither NULL nor a deleted response, and a    *)
(* command returns only after its own response was ended.                   *)
SafeUntilTimeout ==
  timeouts = 0 =>
    /\ {"null_resp", "freed_resp"} \cap faults = {}
    /\ \A c \in HasResp : phase[c] \in {"clear", "returned", "deleted"} => c \in ended

(* Every command returns, whatever the device answers and if it is silent.  *)
CommandsReturn == \A c \in Cmd : <>(phase[c] \in {"returned", "deleted"})

(* at_client.c:27: without a number of lines the response returns when OK   *)
(* or ERROR is received: the line, once read, is not dropped.               *)
ReturnsOnOk ==
  [][/\ resp # None /\ LineNum[resp] = 0
     /\ line # << >> /\ Head(line) \in {"ok", "error"} /\ line' = Tail(line)
     => parser' = "check"]_vars
=============================================================================

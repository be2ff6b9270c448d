------------------------------ MODULE AtProofs ------------------------------
(***************************************************************************)
(* Proofs about AtClient, for every set of commands, every answer of the   *)
(* device and every URC table.                                             *)
(***************************************************************************)
EXTENDS AtClient, TLAPS

USE CmdAssumption, RespAssumption, LineAssumption, NatAssumption


(* The sender of the response that is registered holds the mutex.           *)
OwnerHolds ==
  /\ \A c \in Cmd : phase[c] \in Sending <=> mutex = c
  /\ resp # None => resp = mutex

(* Between test and use of buf_len it can only shrink.                      *)
RoomKept ==
  /\ \A c \in HasResp : buf_len[c] < BufSize[c]
  /\ parser = "store" => seen + CurLen < BufSize[r] /\ buf_len[r] <= seen

(* A give to come: the parser is on its way to it, or may set out for it.   *)
GivesToCome ==
  IF parser \in {"load"} \cup Holding THEN 1
  ELSE (IF parser = "give" THEN 1 ELSE 0) + (IF resp # None THEN 1 ELSE 0)
GivesBounded == resp_semphr + GivesToCome <= timeouts + (IF Waiting THEN 1 ELSE 0)

(* What the parser works on before the first timeout. *)
OnOwnResp ==
  timeouts = 0 =>
    /\ parser \in {"load"} \cup Holding => resp # None
    /\ parser \in Holding => r = resp
    /\ parser = "give" => r = mutex /\ r \in ended
    /\ resp_semphr > 0 => mutex \in ended

(* The inductive invariant. *)
IInv == OwnerHolds /\ RoomKept /\ GivesBounded /\ OnOwnResp /\ SafeUntilTimeout
-----------------------------------------------------------------------------
(* The types hold at first. *)
LEMMA InitTyped == Init => TypeOK
BY DEF Init, TypeOK, Phase, ParserPC, Holding, Line, Sending

(* Every step of a sender keeps the types. *)
LEMMA SendTyped == ASSUME TypeOK, NEW c \in Cmd, SendStep(c) PROVE TypeOK'
<1> USE DEF TypeOK, Phase, Sending, Step, sendVars, devVars, objVars, parserVars, histVars
<1>1. CASE Register(c) BY <1>1 DEF Register
<1>2. CASE ResetResp(c) BY <1>2 DEF ResetResp
<1>3. CASE SendCmd(c)
  <2>1. PICK a \in Answers : line' = line \o a BY <1>3 DEF SendCmd
  <2>2. line' \in Seq(Line) BY <2>1
  <2> QED BY <1>3, <2>2 DEF SendCmd
<1>4. CASE LookAtStatus(c) BY <1>4 DEF LookAtStatus
<1>5. CASE TakeSemphr(c) BY <1>5 DEF TakeSemphr
<1>6. CASE Timeout(c) BY <1>6 DEF Timeout
<1>7. CASE ReturnFromSend(c) BY <1>7 DEF ReturnFromSend
<1>8. CASE DeleteResp(c) BY <1>8 DEF DeleteResp
<1> HIDE DEF TypeOK, Phase, Sending, Step
<1> QED BY <1>1, <1>2, <1>3, <1>4, <1>5, <1>6, <1>7, <1>8 DEF SendStep

(* What the parser works on keeps its types when it goes on to the next line. *)
ParserTypes ==
  /\ parser \in ParserPC
  /\ cur \in Line
  /\ r \in HasResp \cup {None}
  /\ parser \in Holding \cup {"give"} => r \in HasResp
  /\ seen \in Nat

(* The parser begins with the next two lines. *)
LEMMA AgainTyped == ASSUME Again PROVE ParserTypes'
BY DEF Again, ParserTypes, ParserPC, Holding, Line

(* Every step of the parser keeps the types. *)
LEMMA ParserTyped == ASSUME TypeOK, ParserStep PROVE TypeOK'
<1> USE DEF TypeOK, ParserPC, Holding, devVars, objVars, sendVars, parserVars, histVars,
            Again, GoOn
<1>1. CASE ReadFirst
  <2>1. line' \in Seq(Line) BY <1>1 DEF ReadFirst
  <2>2. parser' \in {"first", "second"} BY <1>1 DEF ReadFirst
  <2> QED BY <1>1, <2>1, <2>2 DEF ReadFirst
<1>2. CASE ReadSecond
  <2>1. Head(line) \in Line /\ Tail(line) \in Seq(Line) BY <1>2 DEF ReadSecond
  <2> QED BY <1>2, <2>1 DEF ReadSecond, Line
<1>3. CASE CheckResp
  <2>1. CASE Again
    <3>1. ParserTypes'
      <4> HIDE DEF Again
      <4> QED BY <2>1, AgainTyped
    <3> QED BY <1>3, <3>1 DEF CheckResp, ParserTypes
  <2>2. CASE GoOn("load") BY <1>3, <2>2 DEF CheckResp
  <2> QED BY <1>3, <2>1, <2>2 DEF CheckResp
<1>4. CASE LoadResp BY <1>4 DEF LoadResp
<1>5. CASE CheckRoom
  <2>1. r \in HasResp /\ seen' \in Nat BY <1>5 DEF CheckRoom
  <2>2. resp_status' \in {"ok", "error", "timeout", "full"} BY <1>5 DEF CheckRoom
  <2>3. parser' \in Holding /\ r' = r BY <1>5 DEF CheckRoom
  <2>4. faults' \in SUBSET {"null_resp", "freed_resp", "before_buffer"}
    BY <1>5 DEF CheckRoom, Access
  <2> QED BY <1>5, <2>1, <2>2, <2>3, <2>4 DEF CheckRoom
<1>6. CASE StoreLine
  <2>1. r \in HasResp BY <1>6 DEF StoreLine
  <2>2. CurLen \in Nat BY DEF CurLen
  <2>3. PICK n \in {seen, buf_len[r]} : buf_len' = [buf_len EXCEPT ![r] = n + CurLen]
    BY <1>6 DEF StoreLine
  <2>4. buf_len' \in [HasResp -> Nat] BY <2>1, <2>2, <2>3
  <2> QED BY <1>6, <2>1, <2>4 DEF StoreLine, Access
<1>7. CASE Decide
  <2>1. cur' \in Line /\ seen' \in Nat /\ r' \in HasResp \cup {None} /\ parser' \in ParserPC
        /\ (parser' \in Holding \cup {"give"} => r' \in HasResp)
    <3>1. CASE Again
      <4>1. ParserTypes'
        <5> HIDE DEF Again
        <5> QED BY <3>1, AgainTyped
      <4> QED BY <4>1 DEF ParserTypes
    <3>2. CASE GoOn("end") BY <1>7, <3>2 DEF Decide
    <3> QED BY <1>7, <3>1, <3>2 DEF Decide
  <2>2. resp_status' \in {"ok", "error", "timeout", "full"} BY <1>7 DEF Decide
  <2> QED BY <1>7, <2>1, <2>2 DEF Decide, Access
<1>8. CASE EndResp BY <1>8 DEF EndResp
<1>9. CASE GiveSemphr
  <2>1. resp_semphr' \in 0 .. SemMax BY <1>9 DEF GiveSemphr
  <2>2. ParserTypes'
    <3>1. Again BY <1>9 DEF GiveSemphr
    <3> HIDE DEF Again
    <3> QED BY <3>1, AgainTyped
  <2>3. UNCHANGED <<mutex, resp, resp_status, objVars, sendVars, line, urcs, histVars>>
    BY <1>9 DEF GiveSemphr
  <2> QED BY <2>1, <2>2, <2>3 DEF ParserTypes
<1> HIDE DEF TypeOK, ParserPC, Holding, Again, GoOn
<1> QED BY <1>1, <1>2, <1>3, <1>4, <1>5, <1>6, <1>7, <1>8, <1>9 DEF ParserStep

(* Together, the types are inductive. *)
LEMMA NextTyped == TypeOK /\ [Next]_vars => TypeOK'
<1> SUFFICES ASSUME TypeOK, [Next]_vars PROVE TypeOK'
  OBVIOUS
<1>1. CASE Unsolicited
  <2>1. line' \in Seq(Line) BY <1>1 DEF Unsolicited, TypeOK, Line
  <2> QED BY <1>1, <2>1 DEF Unsolicited, TypeOK, devVars, objVars, sendVars, parserVars, histVars
<1>2. CASE ParserStep BY <1>2, ParserTyped
<1>3. ASSUME NEW c \in Cmd, SendStep(c) PROVE TypeOK' BY <1>3, SendTyped
<1>4. CASE UNCHANGED vars
  BY <1>4 DEF vars, TypeOK, devVars, objVars, sendVars, parserVars, histVars
<1> QED BY <1>1, <1>2, <1>3, <1>4 DEF Next

(* Type correctness of the AT client, for any commands and answers. *)
THEOREM AtTypeCorrect == Spec => []TypeOK
BY InitTyped, NextTyped, PTL DEF Spec
-----------------------------------------------------------------------------
(* The invariant holds at first. *)
LEMMA InitInv == Init => IInv
<1> SUFFICES ASSUME Init PROVE IInv
  OBVIOUS
<1>1. OwnerHolds BY DEF Init, OwnerHolds, Sending
<1>2. RoomKept BY DEF Init, RoomKept
<1>3. GivesBounded BY DEF Init, GivesBounded, GivesToCome, Waiting, Holding
<1>4. OnOwnResp BY DEF Init, OnOwnResp, Holding
<1>5. SafeUntilTimeout BY DEF Init, SafeUntilTimeout
<1> QED BY <1>1, <1>2, <1>3, <1>4, <1>5 DEF IInv

(* A sender is where the mutex says. *)
LEMMA OwnerKept == ASSUME TypeOK, OwnerHolds, [Next]_vars PROVE OwnerHolds'
<1> USE DEF TypeOK, OwnerHolds, Sending, Step, devVars, objVars, sendVars, parserVars, histVars
<1>1. CASE Unsolicited BY <1>1 DEF Unsolicited
<1>2. CASE ParserStep
  <2>1. UNCHANGED <<phase, mutex>> /\ resp' \in {resp, None}
    BY <1>2 DEF ParserStep, ReadFirst, ReadSecond, CheckResp, LoadResp, CheckRoom, StoreLine,
                Decide, EndResp, GiveSemphr
  <2> QED BY <2>1
<1>3. ASSUME NEW c \in Cmd, SendStep(c) PROVE OwnerHolds'
  <2>1. CASE Register(c) BY <1>3, <2>1 DEF Register
  <2>2. CASE ResetResp(c) BY <1>3, <2>2 DEF ResetResp
  <2>3. CASE SendCmd(c) BY <1>3, <2>3 DEF SendCmd
  <2>4. CASE LookAtStatus(c) BY <1>3, <2>4 DEF LookAtStatus
  <2>5. CASE TakeSemphr(c) BY <1>3, <2>5 DEF TakeSemphr
  <2>6. CASE Timeout(c) BY <1>3, <2>6 DEF Timeout
  <2>7. CASE ReturnFromSend(c) BY <1>3, <2>7 DEF ReturnFromSend
  <2>8. CASE DeleteResp(c) BY <1>3, <2>8 DEF DeleteResp
  <2> QED BY <1>3, <2>1, <2>2, <2>3, <2>4, <2>5, <2>6, <2>7, <2>8 DEF SendStep
<1>4. CASE UNCHANGED vars BY <1>4 DEF vars
<1> QED BY <1>1, <1>2, <1>3, <1>4 DEF Next

(* No step makes a response longer than its buffer. *)
LEMMA RoomInductive == ASSUME TypeOK, RoomKept, [Next]_vars PROVE RoomKept'
<1> USE DEF TypeOK, RoomKept, devVars, objVars, sendVars, parserVars, histVars
<1>0. CurLen \in Nat BY DEF CurLen
<1>1. CASE Unsolicited BY <1>1 DEF Unsolicited, CurLen
<1>2. CASE ReadFirst BY <1>2 DEF ReadFirst
<1>3. CASE ReadSecond BY <1>3 DEF ReadSecond
<1>4. CASE CheckResp BY <1>4 DEF CheckResp, Again, GoOn
<1>5. CASE LoadResp BY <1>5 DEF LoadResp
<1>6. CASE CheckRoom BY <1>6 DEF CheckRoom, Room, Holding, CurLen
<1>7. CASE StoreLine
  <2>1. r \in HasResp BY <1>7 DEF StoreLine, Holding
  <2>2. PICK n \in {seen, buf_len[r]} : buf_len' = [buf_len EXCEPT ![r] = n + CurLen]
    BY <1>7 DEF StoreLine
  <2>3. n + CurLen < BufSize[r] BY <1>0, <1>7, <2>1 DEF StoreLine
  <2>4. \A c \in HasResp : buf_len'[c] < BufSize[c] BY <2>1, <2>2, <2>3
  <2> QED BY <1>7, <2>4 DEF StoreLine
<1>8. CASE Decide BY <1>8 DEF Decide, Again, GoOn
<1>9. CASE EndResp BY <1>9 DEF EndResp, GoOn
<1>10. CASE GiveSemphr BY <1>10 DEF GiveSemphr, Again
<1>11. ASSUME NEW c \in Cmd, SendStep(c) PROVE RoomKept'
  <2>1. CASE ResetResp(c)
    <3>1. parser = "store" => r \in HasResp BY DEF Holding
    <3> QED BY <2>1, <3>1 DEF ResetResp, CurLen
  <2>2. CASE ~ ResetResp(c)
    <3>1. UNCHANGED <<buf_len, parserVars>>
      BY <1>11, <2>2 DEF SendStep, Register, SendCmd, LookAtStatus, TakeSemphr, Timeout,
                         ReturnFromSend, DeleteResp
    <3> QED BY <3>1 DEF CurLen
  <2> QED BY <2>1, <2>2
<1>12. CASE UNCHANGED vars BY <1>12 DEF vars, CurLen
<1> QED BY <1>1, <1>2, <1>3, <1>4, <1>5, <1>6, <1>7, <1>8, <1>9, <1>10, <1>11, <1>12
        DEF Next, ParserStep

(* Every give is the end of a response that was registered. *)
LEMMA GivesInductive ==
  ASSUME TypeOK, OwnerHolds, GivesBounded, [Next]_vars PROVE GivesBounded'
<1> USE DEF TypeOK, GivesBounded, GivesToCome, Waiting, devVars, objVars, sendVars, parserVars,
            histVars
<1>1. CASE Unsolicited BY <1>1 DEF Unsolicited
<1>2. CASE ReadFirst BY <1>2 DEF ReadFirst, Holding
<1>3. CASE ReadSecond BY <1>3 DEF ReadSecond, Holding
<1>4. CASE CheckResp BY <1>4 DEF CheckResp, Again, GoOn, Holding
<1>5. CASE LoadResp BY <1>5 DEF LoadResp, Holding
<1>6. CASE CheckRoom BY <1>6 DEF CheckRoom, Holding
<1>7. CASE StoreLine BY <1>7 DEF StoreLine, Holding
<1>8. CASE Decide BY <1>8 DEF Decide, Again, GoOn, Holding
<1>9. CASE EndResp BY <1>9 DEF EndResp, GoOn, Holding
<1>10. CASE GiveSemphr BY <1>10 DEF GiveSemphr, Again, Holding
<1>11. ASSUME NEW c \in Cmd, SendStep(c) PROVE GivesBounded'
  <2> USE DEF OwnerHolds, Sending, Step
  <2>1. CASE Register(c) BY <1>11, <2>1 DEF Register
  <2>2. CASE ResetResp(c) BY <1>11, <2>2 DEF ResetResp
  <2>3. CASE SendCmd(c) BY <1>11, <2>3 DEF SendCmd
  <2>4. CASE LookAtStatus(c) BY <1>11, <2>4 DEF LookAtStatus
  <2>5. CASE TakeSemphr(c) BY <1>11, <2>5 DEF TakeSemphr
  <2>6. CASE Timeout(c) BY <1>11, <2>6 DEF Timeout
  <2>7. CASE ReturnFromSend(c) BY <1>11, <2>7 DEF ReturnFromSend
  <2>8. CASE DeleteResp(c) BY <1>11, <2>8 DEF DeleteResp
  <2> QED BY <1>11, <2>1, <2>2, <2>3, <2>4, <2>5, <2>6, <2>7, <2>8 DEF SendStep
<1>12. CASE UNCHANGED vars BY <1>12 DEF vars
<1> QED BY <1>1, <1>2, <1>3, <1>4, <1>5, <1>6, <1>7, <1>8, <1>9, <1>10, <1>11, <1>12
        DEF Next, ParserStep

(* Before the first timeout the command that waits is the one the parser    *)
(* works for.                                                               *)
LEMMA OwnInductive ==
  ASSUME TypeOK, OwnerHolds, GivesBounded, OnOwnResp, SafeUntilTimeout, [Next]_vars,
         timeouts' = 0
  PROVE  OnOwnResp' /\ SafeUntilTimeout'
<1> USE DEF TypeOK, OnOwnResp, SafeUntilTimeout, devVars, objVars, sendVars, parserVars, histVars
<1>0. timeouts = 0
  BY DEF Next, Unsolicited, ParserStep, ReadFirst, ReadSecond, CheckResp, LoadResp, CheckRoom,
         StoreLine, Decide, EndResp, GiveSemphr, SendStep, Register, ResetResp, SendCmd,
         LookAtStatus, TakeSemphr, Timeout, ReturnFromSend, DeleteResp, vars
<1>1. CASE Unsolicited BY <1>0, <1>1 DEF Unsolicited
<1>2. CASE ReadFirst BY <1>0, <1>2 DEF ReadFirst, Holding
<1>3. CASE ReadSecond BY <1>0, <1>3 DEF ReadSecond, Holding
<1>4. CASE CheckResp BY <1>0, <1>4 DEF CheckResp, Again, GoOn, Holding
<1>5. CASE LoadResp BY <1>0, <1>5 DEF LoadResp, Holding
<1>6. parser \in Holding => phase[r] # "deleted" /\ r \in HasResp /\ r = mutex
  BY <1>0 DEF OwnerHolds, Sending
<1>7. CASE CheckRoom BY <1>0, <1>6, <1>7 DEF CheckRoom, Access, Holding
<1>8. CASE StoreLine BY <1>0, <1>6, <1>8 DEF StoreLine, Access, Holding
<1>9. CASE Decide BY <1>0, <1>6, <1>9 DEF Decide, Access, Again, GoOn, Holding
<1>10. CASE EndResp BY <1>0, <1>6, <1>10 DEF EndResp, GoOn, Holding
<1>11. CASE GiveSemphr BY <1>0, <1>11 DEF GiveSemphr, Again, Holding
<1>12. ASSUME NEW c \in Cmd, SendStep(c) PROVE OnOwnResp' /\ SafeUntilTimeout'
  <2> USE DEF OwnerHolds, Sending, Step
  (* What has been given or will be given is what the holder waits for.     *)
  <2>0. ~ Waiting => resp_semphr = 0 /\ parser \notin {"load", "give"} \cup Holding
    BY <1>0 DEF GivesBounded, GivesToCome
  <2>00. Waiting => resp_semphr = 0 \/ (resp_semphr = 1 /\ parser \notin {"load", "give"} \cup Holding)
    BY <1>0 DEF GivesBounded, GivesToCome
  <2>1. CASE Register(c) BY <1>0, <2>0, <2>1 DEF Register, Waiting
  <2>2. CASE ResetResp(c) BY <1>0, <2>2 DEF ResetResp
  <2>3. CASE SendCmd(c) BY <1>0, <2>3 DEF SendCmd
  <2>4. CASE LookAtStatus(c) BY <1>0, <2>4 DEF LookAtStatus
  <2>5. CASE TakeSemphr(c)
    <3>1. c = mutex /\ c \in ended BY <1>0, <2>5 DEF TakeSemphr
    <3>2. resp_semphr' = 0 /\ parser \notin {"load", "give"} \cup Holding
      BY <2>0, <2>00, <2>5 DEF TakeSemphr
    <3> QED BY <1>0, <2>5, <3>1, <3>2 DEF TakeSemphr, Holding
  <2>6. CASE Timeout(c) BY <1>0, <2>6 DEF Timeout
  <2>7. CASE ReturnFromSend(c)
    <3>1. ~ Waiting BY <2>7 DEF ReturnFromSend, Waiting
    <3> QED BY <1>0, <2>0, <2>7, <3>1 DEF ReturnFromSend, Holding
  <2>8. CASE DeleteResp(c) BY <1>0, <2>8 DEF DeleteResp
  <2> QED BY <1>12, <2>1, <2>2, <2>3, <2>4, <2>5, <2>6, <2>7, <2>8 DEF SendStep
<1>13. CASE UNCHANGED vars BY <1>0, <1>13 DEF vars
<1> QED BY <1>1, <1>2, <1>3, <1>4, <1>5, <1>7, <1>8, <1>9, <1>10, <1>11, <1>12, <1>13
        DEF Next, ParserStep

(* It is inductive, with the types. *)
LEMMA InvInductive == TypeOK /\ IInv /\ [Next]_vars => IInv'
<1> SUFFICES ASSUME TypeOK, IInv, [Next]_vars PROVE IInv'
  OBVIOUS
<1>1. OwnerHolds' BY OwnerKept DEF IInv
<1>2. RoomKept' BY RoomInductive DEF IInv
<1>3. GivesBounded' BY GivesInductive DEF IInv
<1>4. OnOwnResp' /\ SafeUntilTimeout'
  <2>1. CASE timeouts' = 0 BY <2>1, OwnInductive DEF IInv
  <2>2. CASE timeouts' # 0 BY <2>2 DEF OnOwnResp, SafeUntilTimeout
  <2> QED BY <2>1, <2>2
<1> QED BY <1>1, <1>2, <1>3, <1>4 DEF IInv

(* So it holds at all times. *)
LEMMA InvHolds == Spec => []IInv
<1>1. IInv /\ TypeOK /\ [Next]_vars => IInv' BY InvInductive
<1> QED BY <1>1, InitInv, AtTypeCorrect, PTL DEF Spec

(* No response is written beyond its buffer, over all the races on buf_len. *)
THEOREM AtBufferBounded == Spec => []BufferBounded
<1>1. TypeOK /\ IInv => BufferBounded BY DEF TypeOK, IInv, RoomKept, BufferBounded
<1> QED BY <1>1, InvHolds, AtTypeCorrect, PTL

(* A count left in resp_semphr is the doing of a command that timed out.    *)
THEOREM AtLeftoverIsTimeout == Spec => []LeftoverIsTimeout
<1>1. TypeOK /\ IInv => LeftoverIsTimeout
  BY DEF TypeOK, IInv, GivesBounded, GivesToCome, LeftoverIsTimeout
<1> QED BY <1>1, InvHolds, AtTypeCorrect, PTL

(* Until the first timeout the parser meets neither NULL nor a deleted      *)
(* response, and a command returns only after its own response was ended.   *)
THEOREM AtSafeUntilTimeout == Spec => []SafeUntilTimeout
<1>1. IInv => SafeUntilTimeout BY DEF IInv
<1> QED BY <1>1, InvHolds, PTL
=============================================================================

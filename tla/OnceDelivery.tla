---------------------------- MODULE OnceDelivery ----------------------------
(***************************************************************************)
(* What quality of service 2 promises, in either direction: a message that *)
(* is offered, alone or with others, is handed over at most once, and      *)
(* nothing else is.                                                        *)
(***************************************************************************)
EXTENDS Naturals

CONSTANT Msg

VARIABLES
  offered,   \* messages given to the sending side
  times      \* how often the receiving side has handed each one over

Init == offered = {} /\ times = [m \in Msg |-> 0]

Offer(S) ==
  /\ offered' = offered \cup S
  /\ UNCHANGED times

HandOver(m) ==
  /\ m \in offered
  /\ times[m] = 0
  /\ times' = [times EXCEPT ![m] = 1]
  /\ UNCHANGED offered

Next == (\E S \in SUBSET Msg : Offer(S)) \/ (\E m \in Msg : HandOver(m))

Spec == Init /\ [][Next]_<<offered, times>>
=============================================================================

----------------------------- MODULE ByteQueue -----------------------------
(***************************************************************************)
(* What a byte FIFO between one producer and one consumer promises: bytes  *)
(* leave in the order they entered, none is lost once it was accepted,     *)
(* none is delivered twice and no more than Capacity are held.  This is    *)
(* the abstract specification that DRIVE/src/fifo.c implements (Fifo.tla). *)
(***************************************************************************)
EXTENDS Naturals, Sequences

CONSTANTS Byte, Capacity

VARIABLE queue

Init == queue = << >>

(* Accept the bytes s, if they fit. *)
Put(s) == /\ Len(queue) + Len(s) <= Capacity
          /\ queue' = queue \o s

(* Hand the n oldest bytes to the consumer. *)
Get(n) == /\ n <= Len(queue)
          /\ queue' = SubSeq(queue, n + 1, Len(queue))

(* Any string of bytes that could fit an empty queue. *)
Chunks == UNION {[1 .. n -> Byte] : n \in 1 .. Capacity}

Next == \/ \E s \in Chunks : Put(s)
        \/ \E n \in 1 .. Capacity : Get(n)

Spec == Init /\ [][Next]_queue
=============================================================================

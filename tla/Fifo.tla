-------------------------------- MODULE Fifo --------------------------------
(***************************************************************************)
(* The byte FIFO of DRIVE/src/fifo.c, used by the UART driver for its      *)
(* receive and transmit sides.  fifo_write and fifo_read look at the fill  *)
(* count BEFORE they enter the critical section and move the bytes inside  *)
(* it, so each is two steps here: between them the other side may run.     *)
(* A process that is interrupted between its steps remembers what it saw.  *)
(***************************************************************************)
EXTENDS Integers, Sequences

CONSTANTS Byte,      \* the values a byte can have
          Size,      \* buf_size
          MaxReq,    \* the longest request a caller makes
          Writers,   \* contexts that call fifo_write
          Readers    \* contexts that call fifo_read

ASSUME SizeAssumption == Size \in Nat \ {0} /\ MaxReq \in Nat \ {0}

(* uart_dma_task is the only writer and the parser task the only reader of *)
(* the receive FIFO; nothing in fifo.c enforces it.                        *)
ASSUME SingleWriter == \A a, b \in Writers : a = b
ASSUME SingleReader == \A a, b \in Readers : a = b

VARIABLES buf,       \* the bytes, by offset
          buf_cnt,   \* how many are held
          pwrite,    \* offset of the next byte to write
          pread,     \* offset of the next byte to read
          wreq,      \* per writer: the bytes it will copy, << >> when outside
          rreq       \* per reader: how many it will copy, 0 when outside

vars == <<buf, buf_cnt, pwrite, pread, wreq, rreq>>

Requests == UNION {[1 .. n -> Byte] : n \in 1 .. MaxReq}

(* Lesser of two sizes. *)
Least(a, b) == IF a < b THEN a ELSE b

(* Faulty variant: the pointer wraps one byte too late. *)
WrapLate(i) == IF i > Size THEN i - Size ELSE i

(* A pointer that reaches the end of the buffer continues at its start. *)
Wrap(i) == IF i >= Size THEN i - Size ELSE i

(* How far offset i lies ahead of offset from. *)
Ahead(from, i) == IF i >= from THEN i - from ELSE (i + Size) - from

free_size == Size - buf_cnt

TypeOK == /\ buf \in [0 .. Size - 1 -> Byte]
          /\ buf_cnt \in Nat
          /\ pwrite \in 0 .. Size - 1
          /\ pread \in 0 .. Size - 1
          /\ wreq \in [Writers -> Seq(Byte)]
          /\ rreq \in [Readers -> Nat]

Init == /\ buf \in [0 .. Size - 1 -> Byte]
        /\ buf_cnt = 0
        /\ pwrite = 0
        /\ pread = 0
        /\ wreq = [w \in Writers |-> << >>]
        /\ rreq = [r \in Readers |-> 0]

(* Faulty variant: the request is not cut down to the free space. *)
WriteCheckUncut(w, s) ==
  /\ wreq[w] = << >>
  /\ free_size # 0
  /\ wreq' = [wreq EXCEPT ![w] = s]
  /\ UNCHANGED <<buf, buf_cnt, pwrite, pread, rreq>>

(* fifo_write up to lock(): an empty space of 0 refuses the call, otherwise *)
(* the request is cut down to the space seen now.                           *)
WriteCheck(w, s) ==
  /\ wreq[w] = << >>
  /\ free_size # 0
  /\ wreq' = [wreq EXCEPT ![w] = SubSeq(s, 1, Least(free_size, Len(s)))]
  /\ UNCHANGED <<buf, buf_cnt, pwrite, pread, rreq>>

(* The copy loop, which no task or interrupt can preempt. *)
WriteCopy(w) ==
  LET s == wreq[w] IN
  /\ s # << >>
  /\ buf' = [i \in 0 .. Size - 1 |->
               IF Ahead(pwrite, i) < Len(s) THEN s[Ahead(pwrite, i) + 1] ELSE buf[i]]
  /\ pwrite' = Wrap(pwrite + Len(s))
  /\ buf_cnt' = buf_cnt + Len(s)
  /\ wreq' = [wreq EXCEPT ![w] = << >>]
  /\ UNCHANGED <<pread, rreq>>

(* fifo_read up to lock(). *)
ReadCheck(r, n) ==
  /\ rreq[r] = 0
  /\ buf_cnt # 0
  /\ rreq' = [rreq EXCEPT ![r] = Least(buf_cnt, n)]
  /\ UNCHANGED <<buf, buf_cnt, pwrite, pread, wreq>>

(* Faulty variant: the count goes down by one, whatever was read. *)
ReadCopyOne(r) ==
  /\ rreq[r] # 0
  /\ pread' = Wrap(pread + rreq[r])
  /\ buf_cnt' = buf_cnt - 1
  /\ rreq' = [rreq EXCEPT ![r] = 0]
  /\ UNCHANGED <<buf, pwrite, wreq>>

(* The copy loop of fifo_read. *)
ReadCopy(r) ==
  /\ rreq[r] # 0
  /\ pread' = Wrap(pread + rreq[r])
  /\ buf_cnt' = buf_cnt - rreq[r]
  /\ rreq' = [rreq EXCEPT ![r] = 0]
  /\ UNCHANGED <<buf, pwrite, wreq>>

Next == \/ \E w \in Writers : WriteCopy(w) \/ \E s \in Requests : WriteCheck(w, s)
        \/ \E r \in Readers : ReadCopy(r) \/ \E n \in 1 .. MaxReq : ReadCheck(r, n)

Spec == Init /\ [][Next]_vars

-----------------------------------------------------------------------------
(* The stale space a writer saw is still there when it copies, the stale   *)
(* count a reader saw is still held when it copies, and the two pointers   *)
(* and the count agree: what the check-before-lock of fifo.c needs.        *)
Consistent ==
  /\ buf_cnt <= Size
  /\ pwrite = Wrap(pread + buf_cnt)
  /\ \A w \in Writers : Len(wreq[w]) <= free_size
  /\ \A r \in Readers : rreq[r] <= buf_cnt

(* What the FIFO holds, oldest byte first. *)
Contents == [k \in 1 .. buf_cnt |-> buf[Wrap(pread + (k - 1))]]

(* fifo.c is a bounded first-in first-out queue of bytes. *)
Q == INSTANCE ByteQueue WITH Capacity <- Size, queue <- Contents
(* Every fifo_write appends and every fifo_read removes from the front:    *)
(* no byte accepted is overwritten, lost, repeated or reordered, although  *)
(* both look at the count outside the critical section (fifo.c 95, 145).   *)
ImplementsQueue == Q!Spec

====

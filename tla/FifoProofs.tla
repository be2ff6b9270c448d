----------------------------- MODULE FifoProofs -----------------------------
(***************************************************************************)
(* Proofs about the UART byte FIFO for every buffer size, every alphabet   *)
(* and every request length, with at most one writer and one reader.       *)
(***************************************************************************)
EXTENDS Fifo, SequenceTheorems, TLAPS

(* The bytes held and the bytes promised by pending calls fit together:    *)
(* typing and Consistent are inductive only jointly, since the count stays *)
(* natural because a reader never takes more than is held.                 *)
IInv == TypeOK /\ Consistent

(* A request is a non-empty string of bytes. *)
LEMMA RequestType == \A s \in Requests : s \in Seq(Byte) /\ Len(s) > 0
<1>1. SUFFICES ASSUME NEW n \in 1 .. MaxReq, NEW s \in [1 .. n -> Byte]
               PROVE  s \in Seq(Byte) /\ Len(s) > 0
  BY DEF Requests
<1>. QED  BY SizeAssumption

(* Cutting a request down keeps it a string of bytes of that length. *)
LEMMA CutType ==
  ASSUME NEW s \in Seq(Byte), NEW n \in Nat, n <= Len(s)
  PROVE  SubSeq(s, 1, n) \in Seq(Byte) /\ Len(SubSeq(s, 1, n)) = n
OBVIOUS

(* A sequence is the function of its elements. *)
LEMMA SeqAsFunction ==
  ASSUME NEW S, NEW q \in Seq(S)
  PROVE  q = [k \in 1 .. Len(q) |-> q[k]]
<1>1. q \in [1 .. Len(q) -> S]
  BY LenProperties
<1>. QED  BY <1>1

(* The FIFO starts empty with both pointers at the start of the buffer. *)
LEMMA InitIInv == Init => IInv
BY SizeAssumption DEF Init, IInv, TypeOK, Consistent, Wrap, free_size

(* A write keeps the invariant: the space it saw can only have grown. *)
LEMMA WriteCheckIInv ==
  ASSUME IInv, NEW w \in Writers, NEW s \in Requests, WriteCheck(w, s)
  PROVE  IInv'
<1>. DEFINE n == Least(free_size, Len(s))
<1>1. s \in Seq(Byte) /\ Len(s) \in Nat /\ Len(s) > 0
  BY RequestType
<1>2. free_size \in Nat /\ n \in Nat /\ n <= Len(s) /\ n <= free_size
  BY <1>1, SizeAssumption DEF IInv, TypeOK, Consistent, free_size, Least
<1>3. SubSeq(s, 1, n) \in Seq(Byte) /\ Len(SubSeq(s, 1, n)) = n
  BY <1>1, <1>2, CutType
<1>4. wreq' = [wreq EXCEPT ![w] = SubSeq(s, 1, n)]
  BY DEF WriteCheck
<1>. HIDE DEF n
<1>5. TypeOK'
  BY <1>3, <1>4 DEF WriteCheck, IInv, TypeOK
<1>6. \A v \in Writers : Len(wreq'[v]) <= free_size
  BY <1>2, <1>3, <1>4, SingleWriter DEF IInv, TypeOK, Consistent
<1>7. Consistent'
  BY <1>6 DEF WriteCheck, IInv, Consistent, free_size
<1>. QED  BY <1>5, <1>7 DEF IInv

(* Copying what was checked to fit: the counts stay right. *)
LEMMA WriteCopyIInv ==
  ASSUME IInv, NEW w \in Writers, WriteCopy(w)
  PROVE  IInv'
<1>. DEFINE s == wreq[w]
<1>1. s \in Seq(Byte) /\ Len(s) \in Nat /\ Len(s) <= Size - buf_cnt
  BY DEF IInv, TypeOK, Consistent, free_size
<1>2. /\ buf_cnt' = buf_cnt + Len(s)
      /\ pwrite' = Wrap(pwrite + Len(s))
      /\ wreq' = [wreq EXCEPT ![w] = << >>]
      /\ pread' = pread /\ rreq' = rreq
  BY DEF WriteCopy
<1>3. \A i \in 0 .. Size - 1 : Ahead(pwrite, i) < Len(s) =>
          s[Ahead(pwrite, i) + 1] \in Byte
  BY <1>1, SizeAssumption DEF Ahead, IInv, TypeOK
<1>4. buf' \in [0 .. Size - 1 -> Byte]
  BY <1>3 DEF WriteCopy, IInv, TypeOK
<1>. HIDE DEF s
<1>5. buf_cnt' \in Nat /\ buf_cnt' <= Size /\ pwrite' \in 0 .. Size - 1
  BY <1>1, <1>2, SizeAssumption DEF Wrap, IInv, TypeOK
<1>6. pwrite' = Wrap(pread' + buf_cnt')
  BY <1>1, <1>2, SizeAssumption DEF Wrap, IInv, TypeOK, Consistent
<1>7. wreq' \in [Writers -> Seq(Byte)]
  BY <1>2 DEF IInv, TypeOK
<1>8. \A v \in Writers : Len(wreq'[v]) <= Size - buf_cnt'
  BY <1>2, <1>5, SingleWriter, SizeAssumption DEF IInv, TypeOK
<1>9. \A r \in Readers : rreq'[r] <= buf_cnt'
  BY <1>1, <1>2 DEF IInv, TypeOK, Consistent
<1>. QED
  BY <1>2, <1>4, <1>5, <1>6, <1>7, <1>8, <1>9
  DEF IInv, TypeOK, Consistent, free_size

(* A read keeps the invariant: the bytes it saw are still there. *)
LEMMA ReadCheckIInv ==
  ASSUME IInv, NEW r \in Readers, NEW n \in 1 .. MaxReq, ReadCheck(r, n)
  PROVE  IInv'
<1>1. Least(buf_cnt, n) \in Nat /\ Least(buf_cnt, n) <= buf_cnt
  BY SizeAssumption DEF Least, IInv, TypeOK
<1>2. rreq' \in [Readers -> Nat]
  BY <1>1 DEF ReadCheck, IInv, TypeOK
<1>3. \A v \in Readers : rreq'[v] <= buf_cnt
  BY <1>1, SingleReader DEF ReadCheck, IInv, TypeOK
<1>. QED
  BY <1>2, <1>3 DEF ReadCheck, IInv, TypeOK, Consistent, free_size

(* Taking what was checked to be there: the counts stay right. *)
LEMMA ReadCopyIInv ==
  ASSUME IInv, NEW r \in Readers, ReadCopy(r)
  PROVE  IInv'
<1>. DEFINE n == rreq[r]
<1>1. n \in Nat /\ n <= buf_cnt
  BY DEF IInv, TypeOK, Consistent
<1>2. /\ buf_cnt' = buf_cnt - n
      /\ pread' = Wrap(pread + n)
      /\ rreq' = [rreq EXCEPT ![r] = 0]
      /\ buf' = buf /\ pwrite' = pwrite /\ wreq' = wreq
  BY DEF ReadCopy
<1>. HIDE DEF n
<1>3. buf_cnt' \in Nat /\ buf_cnt' <= Size /\ pread' \in 0 .. Size - 1
  BY <1>1, <1>2, SizeAssumption DEF Wrap, IInv, TypeOK, Consistent
<1>4. pwrite' = Wrap(pread' + buf_cnt')
  BY <1>1, <1>2, SizeAssumption DEF Wrap, IInv, TypeOK, Consistent
<1>5. rreq' \in [Readers -> Nat] /\ \A v \in Readers : rreq'[v] = 0
  BY <1>2, SingleReader DEF IInv, TypeOK
<1>6. \A w \in Writers : Len(wreq'[w]) <= Size - buf_cnt'
  <2>. TAKE w \in Writers
  <2>1. Len(wreq[w]) \in Nat /\ Len(wreq[w]) <= Size - buf_cnt
    BY DEF IInv, TypeOK, Consistent, free_size
  <2>. QED  BY <2>1, <1>1, <1>2, SizeAssumption DEF IInv, TypeOK
<1>. QED
  BY <1>2, <1>3, <1>4, <1>5, <1>6 DEF IInv, TypeOK, Consistent, free_size

(* Every step of the FIFO keeps typing and consistency. *)
LEMMA NextIInv == IInv /\ [Next]_vars => IInv'
<1>. SUFFICES ASSUME IInv, [Next]_vars PROVE IInv'
  OBVIOUS
<1>1. ASSUME NEW w \in Writers, WriteCopy(w) PROVE IInv'
  BY <1>1, WriteCopyIInv
<1>2. ASSUME NEW w \in Writers, NEW s \in Requests, WriteCheck(w, s) PROVE IInv'
  BY <1>2, WriteCheckIInv
<1>3. ASSUME NEW r \in Readers, ReadCopy(r) PROVE IInv'
  BY <1>3, ReadCopyIInv
<1>4. ASSUME NEW r \in Readers, NEW n \in 1 .. MaxReq, ReadCheck(r, n) PROVE IInv'
  BY <1>4, ReadCheckIInv
<1>5. CASE UNCHANGED vars
  BY <1>5 DEF IInv, TypeOK, Consistent, free_size, vars
<1>. QED  BY <1>1, <1>2, <1>3, <1>4, <1>5 DEF Next

(* The typing of fifo.c and the agreement of its count, its two pointers   *)
(* and the space or bytes seen by a call that waits for the critical       *)
(* section hold for every Size, alphabet and request length.               *)
THEOREM FifoConsistent == Spec => [](TypeOK /\ Consistent)
<1>1. Init => IInv
  BY InitIInv
<1>2. IInv /\ [Next]_vars => IInv'
  BY NextIInv
<1>. QED  BY <1>1, <1>2, PTL DEF Spec, IInv

(* The count, the two pointers and the buffer of fifo.c stay in their      *)
(* types: the count, which a reader lowers by what it saw before the       *)
(* critical section, never falls below zero.                               *)
THEOREM FifoTypeCorrect == Spec => []TypeOK
<1>1. Init => IInv
  BY InitIInv
<1>2. IInv /\ [Next]_vars => IInv'
  BY NextIInv
<1>. QED  BY <1>1, <1>2, PTL DEF Spec, IInv

(* The bytes held form a string of buf_cnt bytes. *)
LEMMA ContentsType ==
  ASSUME IInv
  PROVE  Contents \in Seq(Byte) /\ Len(Contents) = buf_cnt
<1>1. \A k \in 1 .. buf_cnt : Wrap(pread + (k - 1)) \in 0 .. Size - 1
  BY SizeAssumption DEF Wrap, IInv, TypeOK, Consistent
<1>2. \A k \in 1 .. buf_cnt : buf[Wrap(pread + (k - 1))] \in Byte
  BY <1>1 DEF IInv, TypeOK
<1>. QED  BY <1>2 DEF Contents, IInv, TypeOK

(* The copy loop of fifo_write appends exactly the bytes it was given. *)
LEMMA WriteCopyAppends ==
  ASSUME IInv, NEW w \in Writers, WriteCopy(w)
  PROVE  Q!Put(wreq[w]) /\ wreq[w] \in Q!Chunks
<1>. DEFINE s == wreq[w]
<1>1. s \in Seq(Byte) /\ Len(s) \in Nat /\ Len(s) > 0 /\ Len(s) <= Size - buf_cnt
  BY DEF IInv, TypeOK, Consistent, free_size, WriteCopy
<1>2. Contents \in Seq(Byte) /\ Len(Contents) = buf_cnt
  BY ContentsType
<1>3. /\ buf_cnt' = buf_cnt + Len(s) /\ pread' = pread
      /\ buf' = [i \in 0 .. Size - 1 |->
                   IF Ahead(pwrite, i) < Len(s) THEN s[Ahead(pwrite, i) + 1] ELSE buf[i]]
  BY DEF WriteCopy
<1>. HIDE DEF s
<1>4. Contents' = [k \in 1 .. buf_cnt + Len(s) |-> buf'[Wrap(pread + (k - 1))]]
  BY <1>3 DEF Contents, Wrap
<1>5. ASSUME NEW k \in 1 .. buf_cnt + Len(s)
      PROVE  Contents'[k] = IF k <= buf_cnt THEN Contents[k] ELSE s[k - buf_cnt]
  <2>. DEFINE i == Wrap(pread + (k - 1))
  <2>0. k \in Nat /\ k >= 1 /\ k <= Size /\ buf_cnt \in Nat
    BY <1>1, SizeAssumption DEF IInv, TypeOK, Consistent
  <2>1. i \in 0 .. Size - 1
    BY <2>0, SizeAssumption DEF Wrap, IInv, TypeOK
  <2>2. Contents'[k] = IF Ahead(pwrite, i) < Len(s) THEN s[Ahead(pwrite, i) + 1] ELSE buf[i]
    BY <1>3, <1>4, <2>1
  <2>3. CASE k <= buf_cnt
    <3>1. Ahead(pwrite, i) >= Len(s)
      BY <1>1, <2>0, <2>3, SizeAssumption DEF Ahead, Wrap, IInv, TypeOK, Consistent
    <3>2. Contents[k] = buf[i]
      BY <2>0, <2>3 DEF Contents
    <3>3. Ahead(pwrite, i) \in Int
      BY <2>1, SizeAssumption DEF Ahead, IInv, TypeOK
    <3>. HIDE DEF i
    <3>. QED  BY <1>1, <2>2, <2>3, <3>1, <3>2, <3>3
  <2>4. CASE k > buf_cnt
    <3>1. Ahead(pwrite, i) = k - buf_cnt - 1
      BY <1>1, <2>0, <2>4, SizeAssumption DEF Ahead, Wrap, IInv, TypeOK, Consistent
    <3>2. k - buf_cnt - 1 < Len(s) /\ (k - buf_cnt - 1) + 1 = k - buf_cnt
      BY <1>1, <2>0
    <3>. HIDE DEF i
    <3>. QED  BY <2>0, <2>2, <2>4, <3>1, <3>2
  <2>. QED  BY <2>0, <2>3, <2>4
<1>6. Contents' = Contents \o s
  <2>1. /\ Contents \o s \in Seq(Byte)
        /\ Len(Contents \o s) = buf_cnt + Len(s)
        /\ \A k \in 1 .. buf_cnt + Len(s) :
              (Contents \o s)[k] = IF k <= buf_cnt THEN Contents[k] ELSE s[k - buf_cnt]
    BY <1>1, <1>2, ConcatProperties
  <2>2. Contents \o s = [k \in 1 .. buf_cnt + Len(s) |-> (Contents \o s)[k]]
    BY <2>1, SeqAsFunction
  <2>3. Contents' = [k \in 1 .. buf_cnt + Len(s) |-> Contents'[k]]
    BY <1>4
  <2>. QED  BY <1>5, <2>1, <2>2, <2>3
<1>7. s \in Q!Chunks
  <2>1. Len(s) \in 1 .. Size /\ s \in [1 .. Len(s) -> Byte]
    BY <1>1, SizeAssumption DEF IInv, TypeOK
  <2>. QED  BY <2>1 DEF Q!Chunks
<1>8. Q!Put(s)
  <2>1. Len(Contents) + Len(s) <= Size
    BY <1>1, <1>2, SizeAssumption DEF IInv, TypeOK
  <2>. QED  BY <1>6, <2>1 DEF Q!Put
<1>. QED  BY <1>7, <1>8 DEF s

(* The copy loop of fifo_read removes exactly the oldest bytes. *)
LEMMA ReadCopyRemoves ==
  ASSUME IInv, NEW r \in Readers, ReadCopy(r)
  PROVE  Q!Get(rreq[r]) /\ rreq[r] \in 1 .. Size
<1>. DEFINE n == rreq[r]
<1>1. n \in Nat /\ n >= 1 /\ n <= buf_cnt /\ buf_cnt \in Nat /\ buf_cnt <= Size
  BY DEF IInv, TypeOK, Consistent, ReadCopy
<1>2. Contents \in Seq(Byte) /\ Len(Contents) = buf_cnt
  BY ContentsType
<1>3. buf_cnt' = buf_cnt - n /\ pread' = Wrap(pread + n) /\ buf' = buf
  BY DEF ReadCopy
<1>. HIDE DEF n
<1>4. Contents' = [k \in 1 .. buf_cnt - n |-> buf[Wrap(pread' + (k - 1))]]
  BY <1>3 DEF Contents, Wrap
<1>5. ASSUME NEW k \in 1 .. buf_cnt - n
      PROVE  buf[Wrap(pread' + (k - 1))] = Contents[k + n]
  <2>1. Wrap(pread' + (k - 1)) = Wrap(pread + ((k + n) - 1))
    BY <1>1, <1>3, SizeAssumption DEF Wrap, IInv, TypeOK
  <2>2. k + n \in 1 .. buf_cnt
    BY <1>1
  <2>. QED  BY <2>1, <2>2 DEF Contents
<1>6. SubSeq(Contents, n + 1, buf_cnt) = [k \in 1 .. buf_cnt - n |-> Contents[k + n]]
  BY <1>1, <1>2
<1>7. Contents' = SubSeq(Contents, n + 1, buf_cnt)
  BY <1>4, <1>5, <1>6
<1>8. Q!Get(n)
  BY <1>1, <1>2, <1>7 DEF Q!Get
<1>9. n \in 1 .. Size
  BY <1>1, SizeAssumption
<1>. QED  BY <1>8, <1>9 DEF n

(* fifo.c implements a bounded first-in first-out queue for every Size,    *)
(* although both calls look at the count before they enter the critical    *)
(* section: the copy loops are Put and Get, everything else is a stutter.  *)
THEOREM FifoImplementsQueue == Spec => ImplementsQueue
<1>1. Init => Q!Init
  BY DEF Init, Q!Init, Contents
<1>2. IInv /\ [Next]_vars => [Q!Next]_Contents
  <2>. SUFFICES ASSUME IInv, [Next]_vars PROVE [Q!Next]_Contents
    OBVIOUS
  <2>1. ASSUME NEW w \in Writers, WriteCopy(w) PROVE Q!Next
    BY <2>1, WriteCopyAppends DEF Q!Next
  <2>2. ASSUME NEW w \in Writers, NEW s \in Requests, WriteCheck(w, s)
        PROVE  UNCHANGED Contents
    BY <2>2 DEF WriteCheck, Contents, Wrap
  <2>3. ASSUME NEW r \in Readers, ReadCopy(r) PROVE Q!Next
    BY <2>3, ReadCopyRemoves DEF Q!Next
  <2>4. ASSUME NEW r \in Readers, NEW n \in 1 .. MaxReq, ReadCheck(r, n)
        PROVE  UNCHANGED Contents
    BY <2>4 DEF ReadCheck, Contents, Wrap
  <2>5. CASE UNCHANGED vars
    BY <2>5 DEF vars, Contents, Wrap
  <2>. QED  BY <2>1, <2>2, <2>3, <2>4, <2>5 DEF Next
<1>3. Init => IInv
  BY InitIInv
<1>4. IInv /\ [Next]_vars => IInv'
  BY NextIInv
<1>. QED  BY <1>1, <1>2, <1>3, <1>4, PTL DEF Spec, Q!Spec, ImplementsQueue
=============================================================================

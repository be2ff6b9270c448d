---------------------------- MODULE ReaderProofs ----------------------------
(***************************************************************************)
(* How packets are taken off the byte stream, for the base the code uses   *)
(* and for every stream, every size, every timeout and every way the bytes *)
(* can arrive: the encoding of the remaining length, the types of the      *)
(* reader, the bound of its buffer, its time limits, and that it stays in  *)
(* step with the packets.                                                  *)
(***************************************************************************)
EXTENDS PacketReader, TLAPS

(* The limits of one, two, three and four digits. *)
LEMMA Limits ==
  ASSUME Base = 128
  PROVE  /\ Weight[1] = 1 /\ Weight[2] = 128 /\ Weight[3] = 16384 /\ Weight[4] = 2097152
         /\ MaxLength = 268435455
BY SMT DEF Weight, MaxLength

(* Every digit is below the base. *)
LEMMA DigitRange ==
  ASSUME Base = 128, NEW n \in Nat
  PROVE  \A i \in 1 .. 4 : Digit(n, i) \in 0 .. 127
BY SMTT(30), Limits DEF Digit

(* The top bit can be put on and taken off. *)
LEMMA TopBit ==
  ASSUME NEW d \in 0 .. 127
  PROVE  d % 128 = d /\ (d + 128) % 128 = d
BY SMT

(* Division by the base, and by its square and cube. *)
LEMMA Quotients ==
  ASSUME NEW n \in Nat
  PROVE  /\ n = 128 * (n \div 128) + (n % 128)
         /\ n \div 128 \in Nat /\ n % 128 \in 0 .. 127
         /\ n \div 16384 = (n \div 128) \div 128
         /\ n \div 2097152 = (n \div 16384) \div 128
<1>1. n = 128 * (n \div 128) + (n % 128) /\ n \div 128 \in Nat /\ n % 128 \in 0 .. 127
  BY SMT
<1>2. n \div 16384 = (n \div 128) \div 128
  BY SMTT(30)
<1>3. n \div 2097152 = (n \div 16384) \div 128
  BY SMTT(30)
<1>. QED  BY SMT, <1>1, <1>2, <1>3

(* The digits add up to the number. *)
LEMMA DigitsAddUp ==
  ASSUME Base = 128, NEW n \in Nat, n < 268435456
  PROVE  /\ n < 128 => n = Digit(n, 1)
         /\ n < 16384 => n = Digit(n, 1) + Digit(n, 2) * 128
         /\ n < 2097152 => n = Digit(n, 1) + Digit(n, 2) * 128 + Digit(n, 3) * 16384
         /\ n = Digit(n, 1) + Digit(n, 2) * 128 + Digit(n, 3) * 16384
                + Digit(n, 4) * 2097152
<1>. DEFINE q1 == n \div 128
            q2 == q1 \div 128
            q3 == q2 \div 128
<1>1. n \in Nat /\ n < 268435456
  BY SMT
<1>2. n = 128 * q1 + (n % 128) /\ q1 \in Nat /\ n % 128 \in 0 .. 127
  BY SMT, <1>1, Quotients
<1>3. q1 = 128 * q2 + (q1 % 128) /\ q2 \in Nat /\ q1 % 128 \in 0 .. 127
  BY SMT, <1>2, Quotients
<1>4. q2 = 128 * q3 + (q2 % 128) /\ q3 \in Nat /\ q2 % 128 \in 0 .. 127
  BY SMT, <1>3, Quotients
<1>5. n \div 16384 = q2 /\ n \div 2097152 = q3
  BY SMT, <1>1, Quotients
<1>6. /\ Digit(n, 1) = n % 128 /\ Digit(n, 2) = q1 % 128
      /\ Digit(n, 3) = q2 % 128 /\ Digit(n, 4) = q3 % 128
  <2>1. n \div 1 = n
    BY SMT, <1>1
  <2>. QED  BY SMT, <2>1, <1>5, Limits DEF Digit
<1>. HIDE DEF q1, q2, q3
<1>7. q3 < 128 /\ (n < 128 => q1 = 0) /\ (n < 16384 => q2 = 0) /\ (n < 2097152 => q3 = 0)
  BY SMTT(30), <1>1, <1>2, <1>3, <1>4
<1>8. q3 % 128 = q3
  BY SMT, <1>4, <1>7
<1>9. /\ q1 = 0 => q2 = 0 /\ q1 % 128 = 0
      /\ q2 = 0 => q3 = 0 /\ q2 % 128 = 0
  BY SMT, <1>2, <1>3, <1>4
<1>. DEFINE r0 == n % 128
            r1 == q1 % 128
            r2 == q2 % 128
<1>10. n = 128 * q1 + r0 /\ q1 = 128 * q2 + r1 /\ q2 = 128 * q3 + r2
  BY SMT, <1>2, <1>3, <1>4
<1>11. r0 \in Nat /\ r1 \in Nat /\ r2 \in Nat
  BY SMT, <1>2, <1>3, <1>4
<1>12. /\ Digit(n, 1) = r0 /\ Digit(n, 2) = r1 /\ Digit(n, 3) = r2 /\ Digit(n, 4) = q3
  BY SMT, <1>6, <1>8
<1>. HIDE DEF r0, r1, r2
<1>13. n = r0 + r1 * 128 + r2 * 16384 + q3 * 2097152
  BY SMT, <1>1, <1>2, <1>3, <1>4, <1>10, <1>11
<1>14. /\ n < 128 => r1 = 0 /\ r2 = 0 /\ q3 = 0
       /\ n < 16384 => r2 = 0 /\ q3 = 0
       /\ n < 2097152 => q3 = 0
  BY SMT, <1>1, <1>2, <1>3, <1>4, <1>7, <1>9 DEF r1, r2
<1>15. /\ n < 128 => n = r0
       /\ n < 16384 => n = r0 + r1 * 128
       /\ n < 2097152 => n = r0 + r1 * 128 + r2 * 16384
  BY SMT, <1>1, <1>4, <1>11, <1>13, <1>14
<1>. QED  BY SMT, <1>12, <1>13, <1>15

(* The encoder writes one digit for each power of the base reached. *)
LEMMA EncodeShape ==
  ASSUME Base = 128, NEW n \in Nat
  PROVE  /\ Digits(n) \in 1 .. 4
         /\ Len(Encode(n)) = Digits(n)
         /\ \A i \in 1 .. Digits(n) :
              Encode(n)[i] = Digit(n, i) + (IF i < Digits(n) THEN Base ELSE 0)
<1>1. Digits(n) \in 1 .. 4
  BY SMT, Limits DEF Digits
<1>. QED  BY SMT, <1>1 DEF Encode

(* Taken off its top bit, a byte of the encoding is the digit. *)
LEMMA DigitOfByte ==
  ASSUME Base = 128, NEW n \in Nat
  PROVE  \A i \in 1 .. 4 :
           /\ i <= Digits(n) => Part(Encode(n), i) = Digit(n, i) * Weight[i]
           /\ i > Digits(n) => Part(Encode(n), i) = 0
<1>. SUFFICES ASSUME NEW i \in 1 .. 4
              PROVE  /\ i <= Digits(n) => Part(Encode(n), i) = Digit(n, i) * Weight[i]
                     /\ i > Digits(n) => Part(Encode(n), i) = 0
  OBVIOUS
<1>1. PICK d \in 0 .. 127 : d = Digit(n, i)
  BY SMT, DigitRange
<1>2. PICK e : e = Encode(n)
  OBVIOUS
<1>3. PICK k \in 1 .. 4 : k = Digits(n)
  BY SMT, EncodeShape
<1>4. Len(e) = k
  BY SMT, <1>2, <1>3, EncodeShape
<1>5. i <= k => e[i] % 128 = d
  <2>1. i <= k => e[i] = d + (IF i < k THEN 128 ELSE 0)
    BY SMT, <1>1, <1>2, <1>3 DEF Encode
  <2>. QED  BY SMT, <2>1, TopBit
<1>6. /\ i <= Len(e) => Part(e, i) = (e[i] % 128) * Weight[i]
      /\ i > Len(e) => Part(e, i) = 0
  BY SMT, <1>4 DEF Part
<1>. QED  BY SMT, <1>1, <1>2, <1>3, <1>4, <1>5, <1>6

(* Which lengths have how many digits. *)
LEMMA DigitsOf ==
  ASSUME Base = 128, NEW n \in Nat
  PROVE  /\ Digits(n) \in 1 .. 4
         /\ Digits(n) = 1 => n < 128
         /\ Digits(n) = 2 => n < 16384
         /\ Digits(n) = 3 => n < 2097152
<1>1. Digits(n) = IF n < 128 THEN 1 ELSE IF n < 16384 THEN 2
                  ELSE IF n < 2097152 THEN 3 ELSE 4
  BY Limits DEF Digits
<1>. QED  BY SMT, <1>1

(* What the decoder adds up is what was encoded. *)
LEMMA ValueOfEncode ==
  ASSUME Base = 128, NEW n \in Nat, n < 268435456
  PROVE  Value(Encode(n)) = n
<1>. DEFINE e == Encode(n)
            d1 == Digit(n, 1)
            d2 == Digit(n, 2)
            d3 == Digit(n, 3)
            d4 == Digit(n, 4)
<1>1. /\ Part(e, 1) = d1 * Weight[1]
      /\ Digits(n) >= 2 => Part(e, 2) = d2 * Weight[2]
      /\ Digits(n) >= 3 => Part(e, 3) = d3 * Weight[3]
      /\ Digits(n) = 4 => Part(e, 4) = d4 * Weight[4]
      /\ Digits(n) < 2 => Part(e, 2) = 0
      /\ Digits(n) < 3 => Part(e, 3) = 0
      /\ Digits(n) < 4 => Part(e, 4) = 0
  <2>1. Digits(n) \in 1 .. 4
    BY SMT, EncodeShape
  <2>2. \A i \in 1 .. 4 :
          /\ i <= Digits(n) => Part(e, i) = Digit(n, i) * Weight[i]
          /\ i > Digits(n) => Part(e, i) = 0
    BY DigitOfByte
  <2>. HIDE DEF e
  <2>. QED  BY SMT, <2>1, <2>2
<1>2. Value(e) = Part(e, 1) + Part(e, 2) + Part(e, 3) + Part(e, 4)
  BY SMT DEF Value
<1>3. /\ Digits(n) \in 1 .. 4
      /\ Digits(n) = 1 => n < 128
      /\ Digits(n) = 2 => n < 16384
      /\ Digits(n) = 3 => n < 2097152
  BY DigitsOf
<1>4. d1 \in Nat /\ d2 \in Nat /\ d3 \in Nat /\ d4 \in Nat
  <2>1. \A i \in 1 .. 4 : Digit(n, i) \in Nat
    BY DigitRange
  <2>2. 1 \in 1 .. 4 /\ 2 \in 1 .. 4 /\ 3 \in 1 .. 4 /\ 4 \in 1 .. 4
    OBVIOUS
  <2>. QED  BY <2>1, <2>2
<1>5. /\ n < 128 => n = d1
      /\ n < 16384 => n = d1 + d2 * 128
      /\ n < 2097152 => n = d1 + d2 * 128 + d3 * 16384
      /\ n = d1 + d2 * 128 + d3 * 16384 + d4 * 2097152
  BY SMT, DigitsAddUp
<1>. HIDE DEF e, d1, d2, d3, d4
<1>6. Digits(n) = 1 => Value(e) = n
  BY SMT, <1>1, <1>2, <1>3, <1>4, <1>5, Limits
<1>7. Digits(n) = 2 => Value(e) = n
  BY SMT, <1>1, <1>2, <1>3, <1>4, <1>5, Limits
<1>8. Digits(n) = 3 => Value(e) = n
  BY SMT, <1>1, <1>2, <1>3, <1>4, <1>5, Limits
<1>9. Digits(n) = 4 => Value(e) = n
  BY SMT, <1>1, <1>2, <1>3, <1>4, <1>5, Limits
<1>. QED  BY SMT, <1>3, <1>6, <1>7, <1>8, <1>9 DEF e

(* Every length four digits can hold is read back as it was written, by a  *)
(* decoder that stops at the last digit: the encoder and the decoder of    *)
(* MQTTPacket.c agree on all 268435456 lengths.                            *)
THEOREM LengthReadBack == Base = 128 => DecodesWhatWasEncoded
<1>. SUFFICES ASSUME Base = 128, NEW n \in Lengths
              PROVE  /\ Value(Encode(n)) = n
                     /\ Len(Encode(n)) <= MaxDigits
                     /\ \A i \in 1 .. Len(Encode(n)) :
                          /\ Encode(n)[i] \in Byte
                          /\ More(Encode(n)[i]) <=> i < Len(Encode(n))
  BY SMT DEF DecodesWhatWasEncoded
<1>1. n \in Nat /\ n < 268435456
  BY SMT, Limits DEF Lengths
<1>2. Digits(n) \in 1 .. 4 /\ Len(Encode(n)) = Digits(n)
  BY SMT, <1>1, EncodeShape
<1>3. Value(Encode(n)) = n
  BY SMT, <1>1, ValueOfEncode
<1>4. ASSUME NEW i \in 1 .. Digits(n)
      PROVE  Encode(n)[i] \in Byte /\ (More(Encode(n)[i]) <=> i < Digits(n))
  <2>1. i \in 1 .. 4
    BY SMT, <1>2
  <2>2. Digit(n, i) \in 0 .. 127
    BY SMT, <1>1, <2>1, DigitRange
  <2>3. Encode(n)[i] = Digit(n, i) + (IF i < Digits(n) THEN 128 ELSE 0)
    BY SMT, <1>1, <1>2 DEF Encode
  <2>4. PICK d \in 0 .. 127 : d = Digit(n, i)
    BY SMT, <2>2
  <2>5. CASE i < Digits(n)
    <3>1. Encode(n)[i] = d + 128
      BY SMT, <2>3, <2>4, <2>5
    <3>. QED  BY SMT, <2>4, <2>5, <3>1 DEF Byte, More
  <2>6. CASE ~(i < Digits(n))
    <3>1. Encode(n)[i] = d
      BY SMT, <2>3, <2>4, <2>6
    <3>. QED  BY SMT, <2>4, <2>6, <3>1 DEF Byte, More
  <2>. QED  BY <2>5, <2>6
<1>. QED  BY SMT, <1>2, <1>3, <1>4 DEF MaxDigits

(* The test every serializer makes before it writes leaves room for the    *)
(* whole packet, and refuses at most the packets that would fill the       *)
(* buffer to the last byte, for every length.                              *)
THEOREM RoomSuffices == Base = 128 => RoomIsEnough
<1>. SUFFICES ASSUME Base = 128, NEW n \in Lengths
              PROVE  PacketLen(n) \in {1 + Len(Encode(n)) + n, 1 + Len(Encode(n)) + n + 1}
  BY SMT DEF RoomIsEnough
<1>1. n \in Nat
  BY SMT, Limits DEF Lengths
<1>2. Len(Encode(n)) = Digits(n)
  BY SMT, <1>1, EncodeShape
<1>3. PacketLen(n) = IF n + 1 < 128 THEN n + 2
                     ELSE IF n + 1 < 16384 THEN n + 3
                     ELSE IF n + 1 < 2097151 THEN n + 4 ELSE n + 5
  BY SMT, <1>1 DEF PacketLen
<1>4. Digits(n) = IF n < 128 THEN 1 ELSE IF n < 16384 THEN 2
                  ELSE IF n < 2097152 THEN 3 ELSE 4
  BY SMT, <1>1, Limits DEF Digits
<1>. QED  BY SMT, <1>1, <1>2, <1>3, <1>4

-----------------------------------------------------------------------------
(* The encoding is made of bytes, at most four. *)
LEMMA EncodeBytes ==
  ASSUME Base = 128, NEW n \in Nat
  PROVE  /\ Digits(n) \in 1 .. 4
         /\ \A i \in 1 .. Digits(n) : Encode(n)[i] \in Byte
<1>1. Digits(n) \in 1 .. 4
  BY SMT, EncodeShape
<1>2. ASSUME NEW i \in 1 .. Digits(n)
      PROVE  Encode(n)[i] \in Byte
  <2>1. i \in 1 .. 4
    BY SMT, <1>1
  <2>2. PICK d \in 0 .. 127 : d = Digit(n, i)
    BY SMT, <2>1, DigitRange
  <2>3. Encode(n)[i] = d + (IF i < Digits(n) THEN 128 ELSE 0)
    BY SMT, <1>1, <2>2 DEF Encode
  <2>. QED  BY SMT, <2>2, <2>3 DEF Byte
<1>. QED  BY SMT, <1>1, <1>2

(* What is added for a digit is a number. *)
LEMMA DigitWorth ==
  ASSUME Base = 128, NEW b \in Byte, NEW l \in Nat, NEW i \in 1 .. 4
  PROVE  l + (b % Base) * Weight[i] \in Nat
<1>1. b \in 0 .. 255
  BY SMT DEF Byte
<1>2. b % 128 \in 0 .. 127
  BY SMT, <1>1
<1>. QED  BY SMT, <1>2, Limits

(* Times are words. *)
LEMMA DueRange ==
  ASSUME NEW t \in Nat, NEW ms \in Nat
  PROVE  /\ Uptime(t) \in Nat /\ Due(t, ms) \in 0 .. Word - 1
         /\ \A d \in Nat : Remain(d, t) \in Nat
<1>1. ASSUME NEW x \in Nat
      PROVE  x % Word \in 0 .. Word - 1 /\ x \div Second \in Nat
  BY SMT, TimerAssumption
<1>2. t * Second \in Nat
  BY SMT, TimerAssumption
<1>3. ((t * Second) % Word) + Second - 1 \in Nat
  BY SMT, <1>1, <1>2, TimerAssumption
<1>4. (((t * Second) % Word) + Second - 1) % Word \in Nat
  BY SMT, <1>1, <1>3
<1>5. Uptime(t) \in Nat
  BY <1>1, <1>4 DEF Uptime
<1>6. Uptime(t) + ms \in Nat
  BY SMT, <1>5
<1>7. Due(t, ms) \in 0 .. Word - 1
  BY <1>1, <1>6 DEF Due
<1>. QED  BY SMT, <1>5, <1>7 DEF Remain

-----------------------------------------------------------------------------
(* What the reader asks for: a byte while it reads the header, never more  *)
(* than a buffer full, and never more than fits behind the length.         *)
AskFits ==
  /\ rpc \in {"header", "digit"} => want = 1 /\ count < MaxDigits
  /\ rpc = "drain" => want <= ReadBufSize
  /\ rpc = "body" => 1 + Digits(left) + want <= ReadBufSize

Inv == TypeOK /\ AskFits /\ SmallBufferSafe

(* The two numbers a count begins with. *)
LEMMA ZeroOne == 0 \in Nat /\ 1 \in Nat
OBVIOUS

(* The counts are numbers. *)
LEMMA CountTypes ==
  ASSUME TypeOK
  PROVE  /\ Len(stream.bytes) \in Nat /\ arrived \in Nat /\ pos \in Nat
         /\ tick \in Nat /\ time \in Nat
<1>1. stream.bytes \in Seq(Byte)
  BY ReaderAssumption DEF TypeOK
<1>2. Len(stream.bytes) \in Nat
  BY <1>1
<1>3. /\ arrived \in 0 .. Len(stream.bytes) /\ pos \in 0 .. arrived
      /\ tick \in 0 .. Word - 1 /\ time \in 0 .. Word - 1
  BY DEF TypeOK
<1>4. \A n \in Nat : \A i \in 0 .. n : i \in Nat
  BY SMT
<1>5. tick \in Nat /\ time \in Nat
  BY SMT, <1>3, TimerAssumption
<1>. QED  BY <1>2, <1>3, <1>4, <1>5

(* Place and stream: what every step of the reader needs. *)
LEMMA GotRange ==
  ASSUME TypeOK
  PROVE  /\ Got \in Nat /\ Got <= want /\ pos + Got <= arrived
         /\ \A i \in 1 .. Got : Taken[i] \in Byte
         /\ Got > 0 => stream.bytes[pos + 1] \in Byte
<1>1. /\ arrived \in 0 .. Len(stream.bytes) /\ pos \in 0 .. arrived /\ want \in Nat
      /\ stream.bytes \in Seq(Byte)
  BY ReaderAssumption DEF TypeOK
<1>2. Len(stream.bytes) \in Nat /\ \A i \in 1 .. Len(stream.bytes) : stream.bytes[i] \in Byte
  BY <1>1
<1>3. Got \in Nat /\ Got <= want /\ pos + Got <= arrived
  BY SMT, <1>1, <1>2 DEF Got, Available
<1>4. ASSUME NEW i \in 1 .. Got
      PROVE  stream.bytes[pos + i] \in Byte
  <2>1. pos + i \in 1 .. Len(stream.bytes)
    BY SMT, <1>1, <1>2, <1>3
  <2>. QED  BY <1>2, <2>1
<1>. QED  BY SMT, <1>3, <1>4 DEF Taken

(* A write of bytes leaves bytes in the buffer. *)
LEMMA FillTypes ==
  ASSUME TypeOK, NEW off \in Nat, NEW n \in Nat, NEW s,
         \A i \in 1 .. n : s[i] \in Byte, Fill(off, n, s)
  PROVE  /\ buf' \in [0 .. WriteBufSize - 1 -> Byte]
         /\ overrun' \in BOOLEAN
         /\ off + n <= WriteBufSize => overrun' = overrun
<1>1. buf \in [0 .. WriteBufSize - 1 -> Byte] /\ overrun \in BOOLEAN
  BY DEF TypeOK
<1>2. buf' \in [0 .. WriteBufSize - 1 -> Byte]
  BY SMT, <1>1, ReaderAssumption DEF Fill, Filled
<1>3. Beyond(off, n) \in BOOLEAN /\ (off + n <= WriteBufSize => ~Beyond(off, n))
  BY SMT, ReaderAssumption DEF Beyond
<1>. QED  BY <1>1, <1>2, <1>3 DEF Fill

(* The remaining time is a number. *)
LEMMA TimeRange ==
  ASSUME TypeOK
  PROVE  Remain(time, tick) \in Nat
<1>1. tick \in 0 .. Word - 1 /\ time \in 0 .. Word - 1
  BY DEF TypeOK
<1>2. tick \in Nat /\ time \in Nat
  BY SMT, <1>1, TimerAssumption
<1>. QED  BY <1>2, DueRange

(* A decoded length is dealt with inside the bounds of the buffer. *)
LEMMA DecodedStep ==
  ASSUME Base = 128, Inv, NEW n \in Nat, Decoded(n)
  PROVE  /\ left' \in Nat /\ buf' \in [0 .. WriteBufSize - 1 -> Byte]
         /\ overrun' \in BOOLEAN /\ SmallBufferSafe'
         /\ rpc' \in {"idle", "drain", "body"}
         /\ want' \in Nat /\ granted' \in Nat /\ waited' \in Nat
         /\ result' \in {"none", "nothing", "too short", "ok"}
         /\ rpc' = "drain" => want' <= ReadBufSize
         /\ rpc' = "body" => 1 + Digits(left') + want' <= ReadBufSize
<1>1. TypeOK /\ SmallBufferSafe
  BY DEF Inv
<1>2. Digits(n) \in 1 .. 4 /\ Digits(n) \in Nat /\ \A i \in 1 .. Digits(n) : Encode(n)[i] \in Byte
  BY SMT, EncodeBytes
<1>3. left' = n /\ Fill(1, Digits(n), Encode(n))
  BY DEF Decoded
<1>4. /\ buf' \in [0 .. WriteBufSize - 1 -> Byte] /\ overrun' \in BOOLEAN
      /\ 1 + Digits(n) <= WriteBufSize => overrun' = overrun
  <2>1. 1 \in Nat
    OBVIOUS
  <2>. QED  BY <1>1, <1>2, <1>3, <2>1, FillTypes
<1>5. SmallBufferSafe'
  BY SMT, <1>1, <1>2, <1>4, ReaderAssumption DEF SmallBufferSafe, MaxDigits
<1>6. Remain(time, tick) \in Nat
  BY <1>1, TimeRange
<1>7. result \in {"none", "nothing", "too short", "ok"}
  BY <1>1 DEF TypeOK
<1>8. Piece(n) \in Nat /\ Piece(n) <= ReadBufSize
  BY SMT, ReaderAssumption DEF Piece
<1>9. CASE TooLong(n)
  <2>1. /\ rpc' = "drain" /\ want' = Piece(n) /\ granted' = Remain(time, tick)
        /\ waited' = 0 /\ result' = result
    BY <1>9 DEF Decoded, Ask
  <2>. QED  BY <1>3, <1>4, <1>5, <1>6, <1>7, <1>8, <2>1
<1>10. CASE ~TooLong(n) /\ n > 0
  <2>1. /\ rpc' = "body" /\ want' = n /\ granted' = Remain(time, tick)
        /\ waited' = 0 /\ result' = result
    BY SMT, <1>10 DEF Decoded, Ask
  <2>2. 1 + Digits(n) + n <= ReadBufSize
    BY SMT, <1>2, <1>10, ReaderAssumption DEF TooLong
  <2>. QED  BY <1>3, <1>4, <1>5, <1>6, <1>7, <2>1, <2>2
<1>11. CASE ~TooLong(n) /\ n = 0
  <2>1. /\ rpc' = "idle" /\ want' = 0 /\ granted' = 0 /\ waited' = 0 /\ result' = "ok"
    BY SMT, <1>11 DEF Decoded, Return, AskNothing
  <2>. QED  BY <1>3, <1>4, <1>5, <2>1
<1>12. n > 0 \/ n = 0
  BY SMT
<1>. QED  BY <1>9, <1>10, <1>11, <1>12

-----------------------------------------------------------------------------
(* No byte is asked for at first. *)
LEMMA InitInv ==
  ASSUME Init
  PROVE  Inv
<1>1. stream \in Streams /\ stream.bytes \in Seq(Byte)
  BY ReaderAssumption DEF Init
<1>2. Len(stream.bytes) \in Nat
  BY <1>1
<1>3. 0 \in Byte /\ tick \in 0 .. Word - 1 /\ 0 \in 0 .. Word - 1
  BY SMT, ReaderAssumption, TimerAssumption, BaseAssumption DEF Init, Byte
<1>4. 0 \in 0 .. Len(stream.bytes) /\ 0 \in 0 .. 0 /\ 0 \in 0 .. MaxDigits
  BY SMT, <1>2 DEF MaxDigits
<1>5. buf \in [0 .. WriteBufSize - 1 -> Byte]
  BY <1>3 DEF Init
<1>6. TypeOK
  BY ZeroOne, <1>1, <1>3, <1>4, <1>5 DEF Init, TypeOK
<1>. QED  BY SMT, <1>6 DEF Init, Inv, AskFits, SmallBufferSafe

(* mqtt_read_packet begins. *)
LEMMA ReadPacketInv ==
  ASSUME Inv, ReadPacket
  PROVE  Inv'
<1>1. TypeOK /\ AskFits /\ SmallBufferSafe
  BY DEF Inv
<1>2. tick \in 0 .. Word - 1 /\ tick \in Nat /\ CmdTimeout \in Nat
  BY <1>1, CountTypes, ReaderAssumption DEF TypeOK
<1>3. Due(tick, CmdTimeout) \in 0 .. Word - 1 /\ Due(tick, CmdTimeout) \in Nat
  BY SMT, <1>2, DueRange, TimerAssumption
<1>4. Remain(Due(tick, CmdTimeout), tick) \in Nat
  BY <1>2, <1>3, DueRange
<1>5. 0 \in 0 .. MaxDigits
  BY SMT DEF MaxDigits
<1>6. TypeOK'
  BY ZeroOne, <1>1, <1>2, <1>3, <1>4, <1>5 DEF ReadPacket, Cutdown, Ask, TypeOK
<1>7. AskFits' /\ SmallBufferSafe'
  BY SMT, <1>1 DEF ReadPacket, Ask, AskFits, SmallBufferSafe, MaxDigits
<1>. QED  BY <1>6, <1>7 DEF Inv

(* The header byte comes, or nothing. *)
LEMMA GetHeaderInv ==
  ASSUME Inv, GetHeader
  PROVE  Inv'
<1>1. TypeOK /\ AskFits /\ SmallBufferSafe
  BY DEF Inv
<1>2. /\ Got \in Nat /\ Got <= want /\ pos + Got <= arrived
      /\ \A i \in 1 .. Got : Taken[i] \in Byte
  BY <1>1, GotRange
<1>3. rpc = "header" /\ want = 1 /\ count < MaxDigits
  BY <1>1 DEF GetHeader, AskFits
<1>4. pos' = pos + Got /\ pos' \in 0 .. arrived
  <2>1. pos \in Nat /\ arrived \in Nat
    BY <1>1, CountTypes
  <2>. QED  BY SMT, <1>2, <2>1 DEF GetHeader, Take
<1>5. UNCHANGED <<stream, arrived, count, left, gaveup, timerVars>>
  BY DEF GetHeader
<1>6. CASE Got = 0 /\ Return("nothing") /\ UNCHANGED <<buf, overrun>>
  <2>1. TypeOK'
    BY ZeroOne, <1>1, <1>4, <1>5, <1>6 DEF TypeOK, Return, AskNothing, timerVars
  <2>2. AskFits' /\ SmallBufferSafe'
    BY SMT, <1>1, <1>6 DEF Return, AskFits, SmallBufferSafe
  <2>. QED  BY <2>1, <2>2 DEF Inv
<1>7. CASE /\ Got = 1 /\ rpc' = "digit" /\ Fill(0, Got, Taken)
           /\ Ask(1, Remain(time, tick)) /\ UNCHANGED result
  <2>1. /\ buf' \in [0 .. WriteBufSize - 1 -> Byte] /\ overrun' \in BOOLEAN
        /\ 0 + Got <= WriteBufSize => overrun' = overrun
    <3>1. 0 \in Nat
      OBVIOUS
    <3>. QED  BY <1>1, <1>2, <1>7, <3>1, FillTypes
  <2>2. Remain(time, tick) \in Nat
    BY <1>1, TimeRange
  <2>3. TypeOK'
    BY ZeroOne, <1>1, <1>4, <1>5, <1>7, <2>1, <2>2 DEF TypeOK, Ask, timerVars
  <2>4. AskFits'
    BY SMT, <1>3, <1>5, <1>7 DEF Ask, AskFits
  <2>5. SmallBufferSafe'
    BY SMT, <1>1, <1>7, <2>1, ReaderAssumption DEF SmallBufferSafe, MaxDigits
  <2>. QED  BY <2>3, <2>4, <2>5 DEF Inv
<1>. QED  BY <1>6, <1>7 DEF GetHeader

(* A digit of the length comes, or none. *)
LEMMA GetDigitInv ==
  ASSUME Base = 128, Inv, GetDigit
  PROVE  Inv'
<1>1. TypeOK /\ AskFits /\ SmallBufferSafe
  BY DEF Inv
<1>. DEFINE b == stream.bytes[pos + 1]
            n == left + (b % Base) * Weight[count + 1]
<1>2. /\ Got \in Nat /\ Got <= want /\ pos + Got <= arrived
      /\ Got > 0 => b \in Byte
  BY <1>1, GotRange
<1>3. rpc = "digit" /\ want = 1 /\ count < MaxDigits /\ count \in 0 .. MaxDigits /\ left \in Nat
  BY <1>1 DEF GetDigit, AskFits, TypeOK
<1>4. pos' = pos + Got /\ pos' \in 0 .. arrived
  <2>1. pos \in Nat /\ arrived \in Nat
    BY <1>1, CountTypes
  <2>. QED  BY SMT, <1>2, <2>1 DEF GetDigit, Take
<1>5. UNCHANGED <<stream, arrived, timerVars>>
  BY DEF GetDigit
<1>6. Got = 1 => n \in Nat
  <2>1. count + 1 \in 1 .. 4
    BY SMT, <1>3 DEF MaxDigits
  <2>2. Got = 1 => b \in Byte
    BY SMT, <1>2
  <2>. QED  BY <1>3, <2>1, <2>2, DigitWorth
<1>7. ASSUME NEW m \in Nat, Decoded(m), count' \in 0 .. MaxDigits, gaveup' \in BOOLEAN
      PROVE  Inv'
  <2>1. /\ left' \in Nat /\ buf' \in [0 .. WriteBufSize - 1 -> Byte]
        /\ overrun' \in BOOLEAN /\ SmallBufferSafe'
        /\ rpc' \in {"idle", "drain", "body"}
        /\ want' \in Nat /\ granted' \in Nat /\ waited' \in Nat
        /\ result' \in {"none", "nothing", "too short", "ok"}
        /\ rpc' = "drain" => want' <= ReadBufSize
        /\ rpc' = "body" => 1 + Digits(left') + want' <= ReadBufSize
    BY <1>7, DecodedStep
  <2>2. TypeOK'
    BY ZeroOne, <1>1, <1>4, <1>5, <1>7, <2>1 DEF TypeOK, timerVars
  <2>3. AskFits'
    <3>1. rpc' \in {"idle", "drain", "body"}
      BY <2>1
    <3>2. rpc' \notin {"header", "digit"}
      BY SMT, <3>1
    <3>. QED  BY <2>1, <3>2 DEF AskFits
  <2>. QED  BY <2>1, <2>2, <2>3 DEF Inv
<1>8. CASE Got = 0 /\ gaveup' = TRUE /\ Decoded(left) /\ UNCHANGED count
  BY <1>3, <1>7, <1>8
<1>9. CASE /\ Got = 1 /\ More(b) /\ count + 1 < MaxDigits
           /\ count' = count + 1 /\ left' = n
           /\ Ask(1, granted)
           /\ UNCHANGED <<rpc, buf, result, gaveup, overrun>>
  <2>1. n \in Nat
    BY <1>6, <1>9
  <2>2. /\ count' \in 0 .. MaxDigits /\ count' < MaxDigits /\ left' \in Nat
        /\ UNCHANGED <<rpc, buf, result, gaveup, overrun>>
        /\ want' = 1 /\ granted' = granted /\ waited' = 0
    <3>. HIDE DEF n
    <3>. QED  BY SMT, <1>3, <1>9, <2>1 DEF MaxDigits, Ask
  <2>3. TypeOK'
    BY ZeroOne, <1>1, <1>4, <1>5, <2>2 DEF TypeOK, timerVars
  <2>4. AskFits'
    BY SMT, <1>3, <2>2 DEF AskFits
  <2>5. SmallBufferSafe'
    BY <1>1, <2>2 DEF SmallBufferSafe
  <2>. QED  BY <2>3, <2>4, <2>5 DEF Inv
<1>10. CASE /\ Got = 1 /\ (More(b) => count + 1 = MaxDigits)
            /\ count' = count + 1
            /\ gaveup' = (gaveup \/ More(b))
            /\ Decoded(n)
  <2>1. n \in Nat
    BY <1>6, <1>10
  <2>2. count' \in 0 .. MaxDigits
    BY SMT, <1>3, <1>10 DEF MaxDigits
  <2>3. gaveup' \in BOOLEAN
    BY <1>1, <1>10 DEF TypeOK
  <2>. HIDE DEF n, b
  <2>. QED  BY <1>7, <1>10, <2>1, <2>2, <2>3
<1>. QED  BY <1>8, <1>9, <1>10 DEF GetDigit

(* A piece of a packet that is thrown away. *)
LEMMA GetDrainInv ==
  ASSUME Inv, GetDrain
  PROVE  Inv'
<1>1. TypeOK /\ AskFits /\ SmallBufferSafe
  BY DEF Inv
<1>2. /\ Got \in Nat /\ Got <= want /\ pos + Got <= arrived
      /\ \A i \in 1 .. Got : Taken[i] \in Byte
  BY <1>1, GotRange
<1>3. rpc = "drain" /\ want <= ReadBufSize /\ want \in Nat /\ left \in Nat
  BY <1>1 DEF GetDrain, AskFits, TypeOK
<1>4. pos' = pos + Got /\ pos' \in 0 .. arrived
  <2>1. pos \in Nat /\ arrived \in Nat
    BY <1>1, CountTypes
  <2>2. Take
    BY DEF GetDrain
  <2>. QED  BY SMT, <1>2, <2>1, <2>2 DEF Take
<1>5. UNCHANGED <<stream, arrived, count, timerVars>>
  BY DEF GetDrain
<1>6. /\ buf' \in [0 .. WriteBufSize - 1 -> Byte] /\ overrun' \in BOOLEAN
      /\ 0 + Got <= WriteBufSize => overrun' = overrun
  <2>1. 0 \in Nat
    OBVIOUS
  <2>. QED  BY <1>1, <1>2, <2>1, FillTypes DEF GetDrain
<1>7. SmallBufferSafe'
  BY SMT, <1>1, <1>2, <1>3, <1>6, ReaderAssumption DEF SmallBufferSafe
<1>8. CASE /\ Got > 0 /\ Got < left
           /\ Ask(Piece(left - Got), Remain(time, tick))
           /\ UNCHANGED <<rpc, result, gaveup>>
  <2>1. left' = left - Got /\ left' \in Nat
    <3>1. left' = left - Got
      BY DEF GetDrain
    <3>. QED  BY SMT, <1>2, <1>3, <1>8, <3>1
  <2>2. Piece(left - Got) \in Nat /\ Piece(left - Got) <= ReadBufSize
    BY SMT, <1>2, <1>3, <1>8, ReaderAssumption DEF Piece
  <2>3. Remain(time, tick) \in Nat
    BY <1>1, TimeRange
  <2>4. TypeOK'
    BY ZeroOne, <1>1, <1>4, <1>5, <1>6, <1>8, <2>1, <2>2, <2>3 DEF TypeOK, Ask, timerVars
  <2>5. AskFits'
    BY SMT, <1>3, <1>8, <2>2 DEF AskFits, Ask
  <2>. QED  BY <1>7, <2>4, <2>5 DEF Inv
<1>9. CASE /\ Got = 0 \/ Got = left
           /\ gaveup' = (gaveup \/ Got < left)
           /\ Return("too short")
  <2>1. left' \in Nat
    <3>1. left' = left - Got
      BY DEF GetDrain
    <3>2. Got \in Nat /\ left \in Nat /\ (Got = 0 \/ Got = left)
      BY <1>2, <1>3, <1>9
    <3>. QED  BY SMT, <3>1, <3>2
  <2>2. gaveup' \in BOOLEAN
    BY <1>1, <1>9 DEF TypeOK
  <2>3. TypeOK'
    BY ZeroOne, <1>1, <1>4, <1>5, <1>6, <1>9, <2>1, <2>2 DEF TypeOK, Return, AskNothing, timerVars
  <2>4. AskFits'
    <3>1. rpc' = "idle"
      BY <1>9 DEF Return
    <3>. QED  BY SMT, <3>1 DEF AskFits
  <2>. QED  BY <1>7, <2>3, <2>4 DEF Inv
<1>. QED  BY <1>8, <1>9 DEF GetDrain

(* The rest of the packet. *)
LEMMA GetBodyInv ==
  ASSUME Base = 128, Inv, GetBody
  PROVE  Inv'
<1>1. TypeOK /\ AskFits /\ SmallBufferSafe
  BY DEF Inv
<1>2. /\ Got \in Nat /\ Got <= want /\ pos + Got <= arrived
      /\ \A i \in 1 .. Got : Taken[i] \in Byte
  BY <1>1, GotRange
<1>3. /\ rpc = "body" /\ 1 + Digits(left) + want <= ReadBufSize
      /\ want \in Nat /\ left \in Nat
  BY <1>1 DEF GetBody, AskFits, TypeOK
<1>4. pos' = pos + Got /\ pos' \in 0 .. arrived
  <2>1. pos \in Nat /\ arrived \in Nat
    BY <1>1, CountTypes
  <2>. QED  BY SMT, <1>2, <2>1 DEF GetBody, Take
<1>5. UNCHANGED <<stream, arrived, count, left, timerVars>>
  BY DEF GetBody
<1>6. Digits(left) \in 1 .. 4 /\ 1 + Digits(left) \in Nat
  BY SMT, <1>3, EncodeBytes
<1>7. /\ buf' \in [0 .. WriteBufSize - 1 -> Byte] /\ overrun' \in BOOLEAN
      /\ 1 + Digits(left) + Got <= WriteBufSize => overrun' = overrun
  BY <1>1, <1>2, <1>6, FillTypes DEF GetBody
<1>8. SmallBufferSafe'
  BY SMT, <1>1, <1>2, <1>3, <1>6, <1>7, ReaderAssumption DEF SmallBufferSafe
<1>9. gaveup' \in BOOLEAN
  BY <1>1 DEF GetBody, TypeOK
<1>10. /\ rpc' = "idle" /\ result' \in {"ok", "nothing"}
       /\ want' = 0 /\ granted' = 0 /\ waited' = 0
  BY SMT DEF GetBody, Return, AskNothing
<1>11. TypeOK'
  BY ZeroOne, <1>1, <1>4, <1>5, <1>7, <1>9, <1>10 DEF TypeOK, timerVars
<1>12. AskFits'
  BY SMT, <1>10 DEF AskFits
<1>. QED  BY <1>8, <1>11, <1>12 DEF Inv

(* A tick, and bytes that arrive. *)
LEMMA EnvironmentInv ==
  ASSUME Inv, Wait \/ Arrive
  PROVE  Inv'
<1>1. TypeOK /\ AskFits /\ SmallBufferSafe
  BY DEF Inv
<1>2. CASE Wait
  <2>1. tick' \in 0 .. Word - 1
    <3>1. tick + 1 \in Nat
      BY SMT, <1>1, CountTypes
    <3>. QED  BY SMT, <3>1, <1>2, TimerAssumption DEF Wait, TickPasses
  <2>2. waited' \in Nat /\ age' \in Nat
    <3>1. waited' = waited + 1 /\ age' = age + 1 /\ waited \in Nat /\ age \in Nat
      BY <1>1, <1>2 DEF TypeOK, Wait, TickPasses
    <3>. QED  BY SMT, <3>1
  <2>3. TypeOK'
    BY <1>1, <1>2, <2>1, <2>2 DEF TypeOK, Wait, TickPasses
  <2>4. AskFits' /\ SmallBufferSafe'
    BY SMT, <1>1, <1>2 DEF AskFits, SmallBufferSafe, Wait
  <2>. QED  BY <2>3, <2>4 DEF Inv
<1>3. CASE Arrive
  <2>1. PICK n \in arrived + 1 .. Len(stream.bytes) : arrived' = n
    BY <1>3 DEF Arrive
  <2>2. arrived' \in 0 .. Len(stream.bytes) /\ pos \in 0 .. arrived'
    <3>1. arrived \in Nat /\ pos \in Nat /\ Len(stream.bytes) \in Nat
      BY <1>1, CountTypes
    <3>2. pos <= arrived
      <4>1. pos \in 0 .. arrived
        BY <1>1 DEF TypeOK
      <4>. QED  BY SMT, <3>1, <4>1
    <3>. QED  BY SMT, <2>1, <3>1, <3>2
  <2>3. TypeOK'
    BY ZeroOne, <1>1, <1>3, <2>2 DEF TypeOK, Arrive, timerVars, readVars
  <2>4. AskFits' /\ SmallBufferSafe'
    BY SMT, <1>1, <1>3 DEF AskFits, SmallBufferSafe, Arrive, readVars
  <2>. QED  BY <2>3, <2>4 DEF Inv
<1>. QED  BY <1>2, <1>3

(* Together, the invariant is inductive. *)
LEMMA StepInv ==
  ASSUME Base = 128, Inv, [Next]_vars
  PROVE  Inv'
<1>1. CASE Next
  BY <1>1, ReadPacketInv, GetHeaderInv, GetDigitInv, GetDrainInv, GetBodyInv,
     EnvironmentInv DEF Next
<1>2. CASE UNCHANGED vars
  <2>1. TypeOK /\ AskFits /\ SmallBufferSafe
    BY DEF Inv
  <2>2. TypeOK'
    BY <1>2, <2>1 DEF vars, readVars, timerVars, TypeOK
  <2>3. AskFits' /\ SmallBufferSafe'
    BY SMT, <1>2, <2>1 DEF vars, readVars, AskFits, SmallBufferSafe
  <2>. QED  BY <2>2, <2>3 DEF Inv
<1>. QED  BY <1>1, <1>2

(* The reader's variables keep their types, whatever arrives and when:     *)
(* it never takes bytes that have not arrived, and what it decodes is a    *)
(* length.                                                                 *)
THEOREM ReaderTypeCorrect == Base = 128 => (Spec => []TypeOK)
<1>. SUFFICES ASSUME Base = 128 PROVE Spec => []TypeOK
  OBVIOUS
<1>1. Init => Inv
  BY InitInv
<1>2. Inv /\ [Next]_vars => Inv'
  BY StepInv
<1>3. Inv => TypeOK
  BY DEF Inv
<1>. QED  BY <1>1, <1>2, <1>3, PTL DEF Spec

(* Nothing is written beyond the read buffer as long as it is not larger   *)
(* than the write buffer (mqttclient.c:960), for any bytes the server      *)
(* sends: packets too long or cut off, and lengths that are none.          *)
THEOREM ReaderStaysInBuffer == Base = 128 => (Spec => []SmallBufferSafe)
<1>. SUFFICES ASSUME Base = 128 PROVE Spec => []SmallBufferSafe
  OBVIOUS
<1>1. Init => Inv
  BY InitInv
<1>2. Inv /\ [Next]_vars => Inv'
  BY StepInv
<1>3. Inv => SmallBufferSafe
  BY DEF Inv
<1>. QED  BY <1>1, <1>2, <1>3, PTL DEF Spec

-----------------------------------------------------------------------------
(* The timer's word holds the uptime and a timeout: 2^32 milliseconds,     *)
(* 1000 ticks to the second, and timeouts of at most 24 days.              *)
TimerFits == Second \in 2 .. Word /\ 2 * CmdTimeout <= Word

(* A remainder of a number below the divisor, below twice the divisor, and *)
(* of a multiple and something less than the divisor.                      *)
LEMMA Remainders ==
  ASSUME NEW w \in Nat, w > 0
  PROVE  /\ \A a \in Nat : a < w => a % w = a
         /\ \A a \in Nat : a >= w /\ a < 2 * w => a % w = a - w
         /\ \A a \in Nat : a = (a \div w) * w + (a % w) /\ a % w \in 0 .. w - 1 /\ a \div w \in Nat
         /\ \A q \in Nat : \A r \in 0 .. w - 1 : (q * w + r) % w = r
<1>1. \A a \in Nat : a < w => a % w = a
  BY SMTT(30)
<1>2. \A a \in Nat : a >= w /\ a < 2 * w => a % w = a - w
  BY SMTT(30)
<1>3. \A a \in Nat : a = (a \div w) * w + (a % w) /\ a % w \in 0 .. w - 1 /\ a \div w \in Nat
  BY SMTT(30)
<1>4. \A q \in Nat : \A r \in 0 .. w - 1 : (q * w + r) % w = r
  BY SMTT(30)
<1>. QED  BY <1>1, <1>2, <1>3, <1>4

(* Quotients grow with the number, and by one with the divisor. *)
LEMMA Quotient ==
  ASSUME NEW w \in Nat, w > 0
  PROVE  /\ \A a, b \in Nat : a <= b => a \div w <= b \div w
         /\ \A a \in Nat : (a + w) \div w = (a \div w) + 1
         /\ \A a \in Nat : a < w => a \div w = 0
<1>1. \A a, b \in Nat : a <= b => a \div w <= b \div w
  BY SMTT(30)
<1>2. \A a \in Nat : (a + w) \div w = (a \div w) + 1
  BY SMTT(30)
<1>3. \A a \in Nat : a < w => a \div w = 0
  BY SMTT(30)
<1>. QED  BY <1>1, <1>2, <1>3

(* Adding to a number before or after it is reduced makes no difference.   *)
LEMMA RemainderAdds ==
  ASSUME NEW w \in Nat, w > 0, NEW a \in Nat, NEW s \in 0 .. w
  PROVE  (a + s) % w = ((a % w) + s) % w
<1>. DEFINE q == a \div w
            r == a % w
<1>1. a = q * w + r /\ r \in 0 .. w - 1 /\ q \in Nat /\ q * w \in Nat
  BY SMT, Remainders
<1>. HIDE DEF q, r
<1>2. CASE r + s < w
  <2>1. a + s = q * w + (r + s) /\ r + s \in 0 .. w - 1
    BY SMT, <1>1, <1>2
  <2>. QED  BY SMT, <1>1, <1>2, <2>1, Remainders DEF r
<1>3. CASE r + s >= w /\ r + s < 2 * w
  <2>1. PICK k \in Nat : k = q + 1
    BY <1>1
  <2>2. PICK e \in 0 .. w - 1 : e = r + s - w
    BY SMT, <1>1, <1>3
  <2>3. a + s = k * w + e
    BY SMT, <1>1, <2>1, <2>2
  <2>4. (k * w + e) % w = e
    BY <2>1, <2>2, Remainders
  <2>5. (a + s) % w = r + s - w
    BY <2>2, <2>3, <2>4
  <2>6. (r + s) % w = r + s - w
    BY SMT, <1>1, <1>3, Remainders
  <2>. QED  BY <2>5, <2>6 DEF r
<1>. QED  BY SMT, <1>1, <1>2, <1>3

(* A tick adds at most a millisecond to the uptime, also when the tick     *)
(* counter or the product wraps.                                           *)
LEMMA UptimeStep ==
  ASSUME TimerFits, NEW t \in 0 .. Word - 1
  PROVE  Uptime((t + 1) % Word) <= Uptime(t) + 1
<1>. DEFINE Up(x) == ((x + Second - 1) % Word) \div Second
            x == (t * Second) % Word
<1>1. Word \in Nat /\ Word > 0 /\ Second \in Nat /\ Second > 0 /\ Second <= Word /\ t \in Nat
  BY SMT, TimerAssumption DEF TimerFits
<1>2. x \in 0 .. Word - 1 /\ t * Second \in Nat
  BY SMT, <1>1, Remainders
<1>3. Uptime(t) = Up(x)
  BY DEF Uptime
<1>4. CASE t + 1 = Word
  <2>1. (t + 1) % Word = 0
    BY SMT, <1>1, <1>4
  <2>2. Uptime(0) = 0
    <3>1. (0 * Second) % Word = 0
      BY SMT, <1>1
    <3>2. (0 + Second - 1) % Word = Second - 1
      BY SMT, <1>1, Remainders
    <3>3. (Second - 1) \div Second = 0
      BY SMT, <1>1, Quotient
    <3>. QED  BY <3>1, <3>2, <3>3 DEF Uptime
  <2>3. Uptime(t) \in Nat
    BY <1>1, DueRange
  <2>. QED  BY SMT, <2>1, <2>2, <2>3
<1>5. CASE t + 1 # Word
  <2>1. (t + 1) % Word = t + 1
    BY SMT, <1>1, <1>5, Remainders
  <2>2. (t + 1) * Second = t * Second + Second
    BY SMT, <1>1
  <2>3. ((t + 1) * Second) % Word = (x + Second) % Word
    <3>1. PICK a \in Nat : a = t * Second
      BY <1>2
    <3>2. (a + Second) % Word = ((a % Word) + Second) % Word
      <4>1. Second \in 0 .. Word
        BY SMT, <1>1
      <4>. QED  BY <1>1, <4>1, RemainderAdds
    <3>. QED  BY <2>2, <3>1, <3>2
  <2>4. Uptime(t + 1) = Up((x + Second) % Word)
    BY <2>3 DEF Uptime
  <2>. HIDE DEF x
  <2>5. CASE x + Second - 1 < Word
    <3>1. Up(x) = (x + Second - 1) \div Second
      BY SMT, <1>1, <1>2, <2>5, Remainders
    <3>2. CASE x + Second = Word
      <4>1. (x + Second) % Word = 0
        BY SMT, <1>1, <1>2, <3>2
      <4>2. Up(0) = 0
        <5>1. (0 + Second - 1) % Word = Second - 1
          BY SMT, <1>1, Remainders
        <5>2. (Second - 1) \div Second = 0
          BY SMT, <1>1, Quotient
        <5>. QED  BY <5>1, <5>2
      <4>3. Up(x) \in Nat
        BY SMT, <1>1, <1>2, <3>1, Remainders
      <4>. HIDE DEF Up
      <4>. QED  BY SMT, <1>3, <2>1, <2>4, <4>1, <4>2, <4>3
    <3>3. CASE x + Second < Word
      <4>1. (x + Second) % Word = x + Second
        BY SMT, <1>1, <1>2, <3>3, Remainders
      <4>. DEFINE a == x + Second - 1
      <4>2. a \in Nat /\ a + Second = x + Second + Second - 1 /\ a + Second < 2 * Word
        BY SMT, <1>1, <1>2, <3>3
      <4>3. (a + Second) % Word <= a + Second /\ (a + Second) % Word \in Nat
        BY SMT, <1>1, <4>2, Remainders
      <4>4. ((a + Second) % Word) \div Second <= (a \div Second) + 1
        BY SMT, <1>1, <4>2, <4>3, Quotient
      <4>5. Up(x + Second) = ((a + Second) % Word) \div Second
        BY <4>2
      <4>. QED  BY <1>3, <2>1, <2>4, <3>1, <4>1, <4>4, <4>5
    <3>. QED  BY SMT, <1>1, <1>2, <2>5, <3>2, <3>3
  <2>6. CASE x + Second - 1 >= Word
    <3>1. (x + Second) % Word = x + Second - Word
      BY SMT, <1>1, <1>2, <2>6, Remainders
    <3>2. x + Second - Word \in 0 .. Second - 1
      BY SMT, <1>1, <1>2, <2>6
    <3>. DEFINE b == (x + Second - Word) + Second - 1
    <3>3. b \in Nat /\ b < Second + Second
      BY SMT, <1>1, <3>2
    <3>4. b % Word \in Nat /\ b % Word <= b
      BY SMT, <1>1, <3>3, Remainders
    <3>5. (b % Word) \div Second <= 1
      <4>1. CASE b % Word < Second
        BY SMT, <1>1, <3>4, <4>1, Quotient
      <4>2. CASE b % Word >= Second
        <5>. DEFINE d == (b % Word) - Second
        <5>1. d \in Nat /\ d < Second /\ b % Word = d + Second
          BY SMT, <1>1, <3>3, <3>4, <4>2
        <5>2. (d + Second) \div Second = (d \div Second) + 1 /\ d \div Second = 0
          BY SMT, <1>1, <5>1, Quotient
        <5>. QED  BY SMT, <5>1, <5>2
      <4>. QED  BY SMT, <1>1, <3>4, <4>1, <4>2
    <3>6. Up(x) \in Nat
      <4>1. (x + Second - 1) % Word \in Nat
        BY SMT, <1>1, <1>2, Remainders
      <4>. QED  BY SMT, <1>1, <4>1, Remainders
    <3>7. Uptime(t + 1) <= 1
      BY <2>4, <3>1, <3>5
    <3>8. Uptime(t + 1) \in Nat
      BY SMT, <1>1, DueRange
    <3>. HIDE DEF Up, b
    <3>. QED  BY SMT, <1>3, <2>1, <3>6, <3>7, <3>8
  <2>. QED  BY SMT, <1>1, <1>2, <2>5, <2>6
<1>. QED  BY <1>4, <1>5

(* A timeout from now does not wrap. *)
LEMMA DueNotWrapped ==
  ASSUME TimerFits, ReaderAssumption, NEW t \in 0 .. Word - 1
  PROVE  /\ Due(t, CmdTimeout) = Uptime(t) + CmdTimeout
         /\ Remain(Due(t, CmdTimeout), t) = CmdTimeout
<1>. DEFINE y == (((t * Second) % Word) + Second - 1) % Word
<1>1. Word \in Nat /\ Word > 0 /\ Second \in Nat /\ Second >= 2 /\ t \in Nat
      /\ CmdTimeout \in Nat /\ 2 * CmdTimeout <= Word
  BY SMT, TimerAssumption DEF TimerFits, ReaderAssumption
<1>2. y \in 0 .. Word - 1
  <2>1. t * Second \in Nat
    BY SMT, <1>1
  <2>2. (t * Second) % Word \in Nat
    BY SMT, <1>1, <2>1, Remainders
  <2>. QED  BY SMT, <1>1, <2>2, Remainders
<1>3. Uptime(t) = y \div Second
  BY DEF Uptime
<1>. HIDE DEF y
<1>4. y \div Second \in Nat /\ 2 * (y \div Second) <= y
  <2>. DEFINE q == y \div Second
  <2>1. y = q * Second + (y % Second) /\ y % Second \in 0 .. Second - 1 /\ q \in Nat
    BY SMT, <1>1, <1>2, Remainders
  <2>. HIDE DEF q
  <2>2. q * Second >= 2 * q
    BY SMT, <1>1, <2>1
  <2>. QED  BY SMT, <1>1, <2>1, <2>2 DEF q
<1>5. Uptime(t) \in Nat /\ Uptime(t) + CmdTimeout < Word /\ Uptime(t) + CmdTimeout \in Nat
  BY SMT, <1>1, <1>2, <1>3, <1>4
<1>6. Due(t, CmdTimeout) = Uptime(t) + CmdTimeout
  BY SMT, <1>1, <1>5, Remainders DEF Due
<1>. QED  BY SMT, <1>1, <1>5, <1>6 DEF Remain
-----------------------------------------------------------------------------
(* The time limits.  While a call runs, it has not waited longer than it   *)
(* was granted; the uptime runs at most as fast as the ticks, so that what *)
(* was granted reaches at least to the end of the command timeout; and     *)
(* unless the uptime wraps, the calls of network_read add up as CallBounded*)
(* says.                                                                   *)
InTime ==
  /\ rpc = "header" => age = waited /\ granted <= CmdTimeout /\ count = 0
  /\ rpc = "digit" => /\ granted <= CmdTimeout
                      /\ age + granted <= CmdTimeout + (count * granted) + waited
  /\ rpc \in {"drain", "body"} => age + granted <= (MaxDigits * CmdTimeout) + waited

Timely ==
  rpc # "idle" =>
    /\ result = "none" /\ waited <= granted
    /\ Uptime(tick) + CmdTimeout <= time + age
    /\ CmdTimeout + waited <= granted + age
    /\ ~Wrapped => InTime

(* A due timer's remainder: the command timeout at least from when it was  *)
(* set, and exactly unless the uptime has wrapped.                         *)
LEMMA RemainBounds ==
  ASSUME Inv, Uptime(tick) + CmdTimeout <= time + age
  PROVE  /\ Remain(time, tick) \in Nat
         /\ CmdTimeout <= Remain(time, tick) + age
         /\ ~Wrapped => \/ Remain(time, tick) = 0 /\ CmdTimeout <= age
                        \/ Remain(time, tick) + age = CmdTimeout
<1>1. tick \in Nat /\ time \in Nat /\ age \in Nat /\ CmdTimeout \in Nat
  BY CountTypes, ReaderAssumption DEF Inv, TypeOK
<1>2. PICK u \in Nat : u = Uptime(tick)
  BY <1>1, DueRange
<1>. QED  BY SMT, <1>1, <1>2 DEF Remain, Wrapped

(* What the timer reasoning adds and compares are numbers. *)
LEMMA TimeTypes ==
  ASSUME Inv
  PROVE  /\ age \in Nat /\ granted \in Nat /\ CmdTimeout \in Nat /\ waited \in Nat
         /\ count \in Nat /\ (rpc = "digit" => count \in 0 .. 3)
<1>1. /\ age \in Nat /\ granted \in Nat /\ CmdTimeout \in Nat /\ waited \in Nat
      /\ count \in 0 .. MaxDigits /\ (rpc = "digit" => count < MaxDigits)
  BY ReaderAssumption DEF Inv, TypeOK, AskFits
<1>. QED  BY SMT, <1>1 DEF MaxDigits

(* What a step that asks for bytes has to do for the time limits. *)
LEMMA AskedInTime ==
  ASSUME Inv, Timely, rpc # "idle", UNCHANGED timerVars,
         waited' = 0, granted' = Remain(time, tick), result' = result,
         ~Wrapped => InTime'
  PROVE  Timely'
<1>1. /\ result = "none" /\ waited \in Nat /\ granted \in Nat
      /\ Uptime(tick) + CmdTimeout <= time + age
      /\ CmdTimeout \in Nat /\ age \in Nat
  BY ReaderAssumption DEF Timely, Inv, TypeOK
<1>2. Remain(time, tick) \in Nat /\ CmdTimeout <= Remain(time, tick) + age
  BY <1>1, RemainBounds
<1>3. Wrapped' <=> Wrapped
  BY DEF Wrapped, timerVars
<1>4. Uptime(tick') = Uptime(tick) /\ time' = time /\ age' = age
  BY DEF timerVars
<1>5. waited' <= granted' /\ CmdTimeout + waited' <= granted' + age'
  BY SMT, <1>1, <1>2, <1>4
<1>. QED  BY <1>1, <1>3, <1>4, <1>5 DEF Timely

(* A call that has ended has no time to keep to. *)
LEMMA IdleIsTimely ==
  ASSUME rpc' = "idle"
  PROVE  Timely'
BY DEF Timely

(* A call sets its timer, and may wait for that long. *)
LEMMA ReadPacketTimely ==
  ASSUME TimerFits, Inv, ReadPacket
  PROVE  Timely'
<1>1. /\ rpc' = "header" /\ count' = 0 /\ result' = "none" /\ tick' = tick
      /\ time' = Due(tick, CmdTimeout) /\ age' = 0
      /\ granted' = Remain(Due(tick, CmdTimeout), tick) /\ waited' = 0
  BY DEF ReadPacket, Cutdown, Ask
<1>2. tick \in 0 .. Word - 1 /\ tick \in Nat /\ CmdTimeout \in Nat
  BY CountTypes, ReaderAssumption DEF Inv, TypeOK
<1>3. time' = Uptime(tick) + CmdTimeout /\ granted' = CmdTimeout
  BY <1>1, <1>2, ReaderAssumption, DueNotWrapped
<1>4. PICK u \in Nat : u = Uptime(tick)
  BY <1>2, DueRange
<1>5. /\ waited' <= granted' /\ CmdTimeout + waited' <= granted' + age'
      /\ u + CmdTimeout <= time' + age' /\ age' = waited' /\ granted' <= CmdTimeout
  BY SMT, <1>1, <1>2, <1>3, <1>4
<1>6. InTime'
  BY SMT, <1>1, <1>5 DEF InTime
<1>. QED  BY <1>1, <1>4, <1>5, <1>6 DEF Timely

(* For the first digit it may wait for what is left of that. *)
LEMMA GetHeaderTimely ==
  ASSUME Inv, Timely, GetHeader
  PROVE  Timely'
<1>1. CASE rpc' = "idle"
  BY <1>1, IdleIsTimely
<1>2. CASE Got = 1 /\ rpc' = "digit" /\ Ask(1, Remain(time, tick)) /\ UNCHANGED result
  <2>1. rpc = "header" /\ UNCHANGED timerVars /\ count' = count
    BY DEF GetHeader
  <2>2. waited' = 0 /\ granted' = Remain(time, tick)
    BY <1>2 DEF Ask
  <2>3. ASSUME ~Wrapped PROVE InTime'
    <3>1. /\ age = waited /\ waited <= granted /\ granted <= CmdTimeout /\ count = 0
          /\ Uptime(tick) + CmdTimeout <= time + age
      BY <2>1, <2>3 DEF Timely, InTime
    <3>2. /\ age \in Nat /\ granted \in Nat /\ CmdTimeout \in Nat /\ waited \in Nat
          /\ age' = age
      BY <2>1, ReaderAssumption DEF Inv, TypeOK, timerVars
    <3>3. PICK r \in Nat : /\ r = Remain(time, tick)
                           /\ (r = 0 /\ CmdTimeout <= age) \/ r + age = CmdTimeout
      BY <2>3, <3>1, RemainBounds
    <3>4. /\ granted' <= CmdTimeout
          /\ age' + granted' <= CmdTimeout + (count' * granted') + waited'
      BY SMT, <2>1, <2>2, <3>1, <3>2, <3>3
    <3>. QED  BY SMT, <1>2, <3>4 DEF InTime
  <2>. QED  BY <1>2, <2>1, <2>2, <2>3, AskedInTime
<1>. QED  BY <1>1, <1>2 DEF GetHeader, Return

(* The time so far when a length is known. *)
LEMMA DigitsTime ==
  ASSUME Inv, Timely, rpc = "digit", ~Wrapped
  PROVE  age <= MaxDigits * CmdTimeout
<1>1. /\ age \in Nat /\ granted \in Nat /\ CmdTimeout \in Nat /\ waited \in Nat
      /\ count \in 0 .. 3
  BY TimeTypes
<1>2. /\ waited <= granted /\ granted <= CmdTimeout
      /\ age + granted <= CmdTimeout + (count * granted) + waited
  BY DEF Timely, InTime
<1>3. count * granted <= 3 * CmdTimeout
  <2>1. count = 0 \/ count = 1 \/ count = 2 \/ count = 3
    BY SMT, <1>1
  <2>. QED  BY SMT, <1>1, <1>2, <2>1
<1>4. PICK p \in Nat : p = count * granted
  BY SMT, <1>1
<1>. QED  BY SMT, <1>1, <1>2, <1>3, <1>4 DEF MaxDigits

(* What is read or drained after that gets what is left of the timeout. *)
LEMMA RestTimely ==
  ASSUME Inv, Timely, rpc # "idle", rpc' \in {"drain", "body"}, UNCHANGED timerVars,
         waited' = 0, granted' = Remain(time, tick), result' = result,
         ~Wrapped => age <= MaxDigits * CmdTimeout
  PROVE  Timely'
<1>1. ASSUME ~Wrapped PROVE InTime'
  <2>1. age \in Nat /\ CmdTimeout \in Nat /\ age' = age
    BY ReaderAssumption DEF Inv, TypeOK, timerVars
  <2>2. Uptime(tick) + CmdTimeout <= time + age
    BY DEF Timely
  <2>3. PICK r \in Nat : /\ r = Remain(time, tick)
                         /\ (r = 0 /\ CmdTimeout <= age) \/ r + age = CmdTimeout
    BY <1>1, <2>2, RemainBounds
  <2>4. age' + granted' <= (MaxDigits * CmdTimeout) + waited'
    BY SMT, <1>1, <2>1, <2>3 DEF MaxDigits
  <2>. QED  BY SMT, <2>4 DEF InTime
<1>. QED  BY <1>1, AskedInTime

(* So it may for the rest of the packet. *)
LEMMA DecodedTimely ==
  ASSUME Inv, Timely, rpc = "digit", UNCHANGED timerVars, NEW n, Decoded(n)
  PROVE  Timely'
<1>1. CASE rpc' = "idle"
  BY <1>1, IdleIsTimely
<1>2. CASE /\ rpc' \in {"drain", "body"} /\ waited' = 0 /\ granted' = Remain(time, tick)
           /\ result' = result
  BY <1>2, DigitsTime, RestTimely
<1>. QED  BY <1>1, <1>2 DEF Decoded, Ask, Return

(* Every digit may take as long as the first. *)
LEMMA GetDigitTimely ==
  ASSUME Inv, Timely, GetDigit
  PROVE  Timely'
<1>1. rpc = "digit" /\ UNCHANGED timerVars
  BY DEF GetDigit
<1>2. ASSUME NEW n, Decoded(n) PROVE Timely'
  BY <1>1, <1>2, DecodedTimely
<1>3. CASE count' = count + 1 /\ Ask(1, granted) /\ UNCHANGED <<rpc, result>>
  <2>1. /\ result = "none" /\ waited <= granted
        /\ Uptime(tick) + CmdTimeout <= time + age
        /\ CmdTimeout + waited <= granted + age
    BY <1>1 DEF Timely
  <2>2. /\ age \in Nat /\ granted \in Nat /\ CmdTimeout \in Nat /\ waited \in Nat
        /\ count \in Nat
    BY TimeTypes
  <2>3. waited' = 0 /\ granted' = granted /\ age' = age /\ tick' = tick /\ time' = time
    BY <1>1, <1>3 DEF Ask, timerVars
  <2>4. CmdTimeout + waited' <= granted' + age' /\ waited' <= granted'
    BY SMT, <2>1, <2>2, <2>3
  <2>5. ~Wrapped' => InTime'
    <3>1. SUFFICES ASSUME ~Wrapped PROVE InTime'
      BY <2>3 DEF Wrapped
    <3>2. granted <= CmdTimeout /\ age + granted <= CmdTimeout + (count * granted) + waited
      BY <1>1, <3>1 DEF Timely, InTime
    <3>3. (count + 1) * granted = (count * granted) + granted /\ count * granted \in Nat
      BY SMT, <2>2
    <3>4. PICK p \in Nat : p = count * granted
      BY <3>3
    <3>5. age + granted <= CmdTimeout + (p + granted) + 0
      BY SMT, <2>1, <2>2, <3>2, <3>4
    <3>6. age' + granted' <= CmdTimeout + (count' * granted') + waited'
      BY <1>3, <2>3, <3>3, <3>4, <3>5
    <3>. QED  BY SMT, <1>1, <1>3, <2>3, <3>2, <3>6 DEF InTime
  <2>. QED  BY <1>3, <2>1, <2>3, <2>4, <2>5 DEF Timely
<1>. QED  BY <1>2, <1>3 DEF GetDigit

(* Every piece thrown away may take what is left then. *)
LEMMA GetDrainTimely ==
  ASSUME Inv, Timely, GetDrain
  PROVE  Timely'
<1>1. rpc = "drain" /\ UNCHANGED timerVars
  BY DEF GetDrain
<1>2. CASE rpc' = "idle"
  BY <1>2, IdleIsTimely
<1>3. CASE /\ rpc' = "drain" /\ waited' = 0 /\ granted' = Remain(time, tick)
           /\ result' = result
  <2>1. ASSUME ~Wrapped PROVE age <= MaxDigits * CmdTimeout
    <3>1. waited <= granted /\ age + granted <= (MaxDigits * CmdTimeout) + waited
      BY <1>1, <2>1 DEF Timely, InTime
    <3>2. age \in Nat /\ granted \in Nat /\ CmdTimeout \in Nat /\ waited \in Nat
      BY ReaderAssumption DEF Inv, TypeOK
    <3>. QED  BY SMT, <3>1, <3>2 DEF MaxDigits
  <2>. QED  BY <1>1, <1>3, <2>1, RestTimely
<1>. QED  BY <1>1, <1>2, <1>3 DEF GetDrain, Ask, Return

(* A tick that passes is one less to wait, and one more that has passed. *)
LEMMA WaitTimely ==
  ASSUME TimerFits, Inv, Timely, Wait
  PROVE  Timely'
<1>1. /\ rpc # "idle" /\ tick' = (tick + 1) % Word /\ age' = age + 1 /\ time' = time
      /\ waited' = waited + 1
      /\ UNCHANGED <<rpc, granted, count, result>>
  BY DEF Wait, TickPasses
<1>2. /\ result = "none" /\ waited <= granted
      /\ Uptime(tick) + CmdTimeout <= time + age
      /\ CmdTimeout + waited <= granted + age
  BY <1>1 DEF Timely
<1>3. /\ age \in Nat /\ granted \in Nat /\ CmdTimeout \in Nat /\ waited \in Nat
      /\ tick \in 0 .. Word - 1 /\ tick \in Nat /\ time \in Nat
  BY CountTypes, ReaderAssumption DEF Inv, TypeOK
<1>4. PICK u \in Nat : u = Uptime(tick)
  BY <1>3, DueRange
<1>5. PICK v \in Nat : v = Uptime(tick') /\ v <= u + 1
  <2>1. tick' \in Nat
    BY SMT, <1>1, <1>3, TimerAssumption
  <2>2. Uptime(tick') \in Nat
    BY <2>1, DueRange
  <2>. QED  BY <1>1, <1>3, <1>4, <2>2, UptimeStep
<1>6. waited < granted
  <2>1. ~Ready
    BY DEF Wait
  <2>. QED  BY SMT, <1>3, <2>1 DEF Ready
<1>7. /\ waited' <= granted' /\ v + CmdTimeout <= time' + age'
      /\ CmdTimeout + waited' <= granted' + age'
  BY SMT, <1>1, <1>2, <1>3, <1>4, <1>5, <1>6
<1>8. ASSUME ~Wrapped' PROVE InTime'
  <2>1. ~Wrapped
    <3>1. v + CmdTimeout = time + (age + 1)
      BY <1>1, <1>5, <1>8 DEF Wrapped
    <3>. QED  BY SMT, <1>2, <1>3, <1>4, <1>5, <3>1 DEF Wrapped
  <2>2. InTime
    BY <1>1, <2>1 DEF Timely
  <2>3. CASE rpc = "digit"
    <3>1. count \in Nat
      BY TimeTypes
    <3>2. PICK p \in Nat : p = count * granted
      BY SMT, <1>3, <3>1
    <3>3. age + granted <= CmdTimeout + p + waited
      BY <2>2, <2>3, <3>2 DEF InTime
    <3>4. age + 1 + granted <= CmdTimeout + p + (waited + 1)
      BY SMT, <1>3, <3>3
    <3>5. age' + granted' <= CmdTimeout + (count' * granted') + waited'
      BY <1>1, <3>2, <3>4
    <3>6. granted <= CmdTimeout
      BY <2>2, <2>3 DEF InTime
    <3>. QED  BY SMT, <1>1, <2>3, <3>5, <3>6 DEF InTime
  <2>4. CASE rpc # "digit"
    BY SMT, <1>1, <1>3, <2>2, <2>4 DEF InTime, MaxDigits
  <2>. QED  BY <2>3, <2>4
<1>. QED  BY <1>1, <1>2, <1>5, <1>7, <1>8 DEF Timely

(* Together, the time kept is inductive. *)
LEMMA StepTimely ==
  ASSUME TimerFits, Inv, Timely, [Next]_vars
  PROVE  Timely'
<1>1. CASE GetBody
  <2>1. rpc' = "idle"
    BY <1>1 DEF GetBody, Return
  <2>. QED  BY <2>1, IdleIsTimely
<1>2. CASE Arrive \/ UNCHANGED vars
  BY <1>2 DEF Arrive, vars, readVars, timerVars, Timely, Wrapped, InTime
<1>. QED  BY <1>1, <1>2, ReadPacketTimely, GetHeaderTimely, GetDigitTimely, GetDrainTimely,
             WaitTimely DEF Next

(* The time so far, in every state of a call. *)
LEMMA TimelyBounds ==
  ASSUME Inv, Timely
  PROVE  CallBounded
<1>. SUFFICES ASSUME rpc # "idle", ~Wrapped PROVE age <= MaxDigits * CmdTimeout
  BY DEF CallBounded
<1>1. waited <= granted /\ InTime
  BY DEF Timely
<1>2. age \in Nat /\ granted \in Nat /\ CmdTimeout \in Nat /\ waited \in Nat
  BY ReaderAssumption DEF Inv, TypeOK
<1>3. CASE rpc = "digit"
  BY <1>3, DigitsTime
<1>4. CASE rpc = "header"
  BY SMT, <1>1, <1>2, <1>4 DEF InTime, MaxDigits
<1>5. CASE rpc \in {"drain", "body"}
  BY SMT, <1>1, <1>2, <1>5 DEF InTime, MaxDigits
<1>6. rpc \in {"idle", "header", "digit", "drain", "body"}
  BY DEF Inv, TypeOK
<1>. QED  BY SMT, <1>3, <1>4, <1>5, <1>6

(* Unless the uptime wraps, no call takes longer than four times the       *)
(* command timeout (mqttclient.c:168), for every timeout, every stream and *)
(* every way its bytes arrive.                                             *)
THEOREM ReaderCallBounded == Base = 128 /\ TimerFits => (Spec => []CallBounded)
<1>. SUFFICES ASSUME Base = 128, TimerFits PROVE Spec => []CallBounded
  OBVIOUS
<1>1. Init => Inv /\ Timely
  BY InitInv DEF Init, Timely
<1>2. Inv /\ Timely /\ [Next]_vars => (Inv /\ Timely)'
  BY StepInv, StepTimely
<1>3. Inv /\ Timely => CallBounded
  BY TimelyBounds
<1>. QED  BY <1>1, <1>2, <1>3, PTL DEF Spec

(* The first m bytes of packet k are in the buffer, those that fit.        *)
Holds(k, m) ==
  \A j \in 0 .. m - 1 : j \in DOMAIN buf => buf[j] = stream.bytes[stream.end[k - 1] + 1 + j]

HoldsNext(k, m) ==
  \A j \in 0 .. m - 1 :
    j \in DOMAIN buf' => buf'[j] = stream'.bytes[stream'.end[k - 1] + 1 + j]

(* What the first c digits of a length count. *)
Counted(s, c) == (IF c >= 1 THEN Part(s, 1) ELSE 0) + (IF c >= 2 THEN Part(s, 2) ELSE 0)
                 + (IF c >= 3 THEN Part(s, 3) ELSE 0)

Size(k) == stream.packets[k].len

(* The places inside packet k: its digits, its payload, and what is left   *)
(* of it when it is thrown away.                                           *)
InDigits(k) ==
  /\ pos = stream.end[k - 1] + 1 + count /\ count < Digits(Size(k))
  /\ left = Counted(Encode(Size(k)), count) /\ Holds(k, 1)
InBody(k) ==
  /\ pos = stream.end[k - 1] + 1 + Digits(left) /\ left = Size(k) /\ want = left
  /\ Holds(k, 1 + Digits(left))
InDrain(k) ==
  /\ pos + left = stream.end[k] /\ want = Piece(left)
  /\ stream.end[k] - stream.end[k - 1] > ReadBufSize

(* Where the reader is in the stream, as long as no read ended inside a    *)
(* packet.                                                                 *)
Packets == 1 .. Len(stream.packets)
Place ==
  /\ rpc \in {"idle", "header"} => \E k \in 0 .. Len(stream.packets) : pos = stream.end[k]
  /\ rpc = "idle" /\ result = "ok" =>
       \E k \in Packets : pos = stream.end[k] /\ Holds(k, pos - stream.end[k - 1])
  /\ rpc = "idle" /\ result = "too short" =>
       \E k \in Packets : pos = stream.end[k] /\ pos - stream.end[k - 1] > ReadBufSize
  /\ rpc = "header" => count = 0 /\ left = 0
  /\ rpc = "digit" => \E k \in Packets : InDigits(k)
  /\ rpc = "body" => \E k \in Packets : InBody(k)
  /\ rpc = "drain" => \E k \in Packets : InDrain(k)

InPlace == ~gaveup => Place

(* An element of a sequence. *)
LEMMA ElementOf ==
  ASSUME NEW S, NEW s \in Seq(S), NEW i \in 1 .. Len(s)
  PROVE  Len(s) \in Nat /\ s[i] \in S
OBVIOUS

(* Packet k lies behind place end[k - 1], up to place end[k]: its header   *)
(* byte, the bytes of its length and its payload.                          *)
LEMMA PacketBytes ==
  ASSUME Base = 128, WholePackets, TypeOK, NEW k \in Packets
  PROVE  /\ Size(k) \in Nat /\ Size(k) \in Lengths /\ Digits(Size(k)) \in 1 .. 4
         /\ stream.end[k - 1] \in Nat
         /\ stream.end[k] = stream.end[k - 1] + 1 + Digits(Size(k)) + Size(k)
         /\ \A i \in 1 .. Digits(Size(k)) :
              stream.bytes[stream.end[k - 1] + 1 + i] = Encode(Size(k))[i]
<1>. DEFINE n == Size(k)
            e == stream.end[k - 1]
            f == stream.end[k]
            bs == stream.bytes
<1>1. IsStream(stream)
  BY DEF WholePackets, TypeOK
<1>2. Len(stream.packets) \in Nat /\ stream.packets[k] \in [head : Byte, len : Lengths]
  <2>1. stream.packets \in Seq([head : Byte, len : Lengths]) /\ k \in 1 .. Len(stream.packets)
    BY <1>1 DEF IsStream, Packets
  <2>. QED  BY <2>1, ElementOf
<1>3. n \in Lengths /\ n \in Nat
  BY SMT, <1>2, Limits DEF Lengths, Size
<1>4. bs \in Seq(Byte) /\ Len(bs) \in Nat
  BY <1>1 DEF IsStream
<1>5. e \in 0 .. Len(bs) /\ f \in 0 .. Len(bs) /\ e \in Nat /\ f \in Nat
  <2>1. stream.end \in [0 .. Len(stream.packets) -> 0 .. Len(bs)]
    BY <1>1 DEF IsStream
  <2>2. k - 1 \in 0 .. Len(stream.packets) /\ k \in 0 .. Len(stream.packets)
    BY SMT, <1>2 DEF Packets
  <2>3. e \in 0 .. Len(bs) /\ f \in 0 .. Len(bs)
    BY <2>1, <2>2
  <2>. HIDE DEF e, f, bs
  <2>. QED  BY SMT, <1>4, <2>3
<1>6. SubSeq(bs, e + 1, f) = Raw(stream.packets[k])
  BY <1>1 DEF IsStream, Packets
<1>7. Digits(n) \in 1 .. 4 /\ Len(Encode(n)) = Digits(n) /\ \A i \in 1 .. Digits(n) : Encode(n)[i] \in Byte
  BY <1>3, EncodeShape, EncodeBytes
<1>. DEFINE h == stream.packets[k].head
            load == [i \in 1 .. n |-> (h + i) % (2 * Base)]
            enc == Encode(n)
<1>8. h \in Byte
  BY <1>2
<1>9. load \in Seq(Byte) /\ Len(load) = n
  <2>1. \A i \in 1 .. n : (h + i) % (2 * Base) \in Byte
    <3>1. \A x \in Nat : x % 256 \in 0 .. 255
      BY SMT
    <3>2. h \in 0 .. 255 /\ 2 * Base = 256
      BY SMT, <1>8 DEF Byte
    <3>3. \A i \in 1 .. n : h + i \in Nat
      <4>. HIDE DEF h, n
      <4>. QED  BY SMT, <1>3, <3>2
    <3>4. Byte = 0 .. 255
      BY SMT, <3>2 DEF Byte
    <3>5. \A i \in 1 .. n : (h + i) % 256 \in 0 .. 255
      BY <3>1, <3>3
    <3>. QED  BY <3>2, <3>4, <3>5
  <2>2. load \in [1 .. n -> Byte]
    BY <2>1
  <2>. HIDE DEF load
  <2>. QED  BY SMT, <1>3, <2>2
<1>10. enc \in Seq(Byte)
  <2>1. enc \in [1 .. Digits(n) -> Byte]
    BY <1>7 DEF Encode
  <2>. HIDE DEF enc
  <2>. QED  BY SMT, <1>7, <2>1
<1>11. Raw(stream.packets[k]) = <<h>> \o enc \o load
  BY DEF Raw, Size
<1>. HIDE DEF n, e, f, bs, h, load, enc
<1>12. <<h>> \o enc \in Seq(Byte) /\ Len(<<h>> \o enc) = 1 + Digits(n)
       /\ \A i \in 1 .. Digits(n) : (<<h>> \o enc)[1 + i] = enc[i]
  BY SMT, <1>7, <1>8, <1>10 DEF enc
<1>. DEFINE start == <<h>> \o enc
<1>. HIDE DEF start
<1>13. /\ Len(start \o load) = 1 + Digits(n) + n
       /\ \A i \in 1 .. Digits(n) : (start \o load)[1 + i] = enc[i]
  BY SMT, <1>3, <1>7, <1>9, <1>12 DEF start
<1>14. SubSeq(bs, e + 1, f) = start \o load
  BY <1>6, <1>11 DEF start
<1>15. /\ Len(SubSeq(bs, e + 1, f)) = IF e + 1 <= f THEN f - e ELSE 0
       /\ \A i \in 1 .. Len(SubSeq(bs, e + 1, f)) : SubSeq(bs, e + 1, f)[i] = bs[e + i]
  BY SMT, <1>4, <1>5
<1>16. f = e + 1 + Digits(n) + n
  BY SMT, <1>3, <1>5, <1>7, <1>13, <1>14, <1>15
<1>17. ASSUME NEW i \in 1 .. Digits(n)
       PROVE  bs[e + 1 + i] = enc[i]
  <2>1. 1 + i \in 1 .. Len(start \o load) /\ e + (1 + i) = e + 1 + i
    BY SMT, <1>3, <1>5, <1>7, <1>13
  <2>. QED  BY <1>13, <1>14, <1>15, <2>1
<1>. QED  BY <1>3, <1>5, <1>7, <1>16, <1>17 DEF n, e, f, bs, enc

(* The stream ends with its last packet. *)
LEMMA StreamEnds ==
  ASSUME WholePackets, TypeOK
  PROVE  /\ Len(stream.packets) \in Nat
         /\ \A k \in 0 .. Len(stream.packets) : stream.end[k] \in Nat
         /\ stream.end[0] = 0 /\ stream.end[Len(stream.packets)] = Len(stream.bytes)
<1>1. IsStream(stream)
  BY DEF WholePackets, TypeOK
<1>2. stream.packets \in Seq([head : Byte, len : Lengths]) /\ stream.bytes \in Seq(Byte)
  BY <1>1 DEF IsStream
<1>3. Len(stream.packets) \in Nat /\ Len(stream.bytes) \in Nat
  BY <1>2
<1>4. stream.end \in [0 .. Len(stream.packets) -> 0 .. Len(stream.bytes)]
  BY <1>1 DEF IsStream
<1>5. \A i \in 0 .. Len(stream.bytes) : i \in Nat
  BY SMT, <1>3
<1>. QED  BY <1>1, <1>3, <1>4, <1>5 DEF IsStream

(* The digit after the first c: what is counted with it, and the last one  *)
(* completes the length and is the only one without its top bit.           *)
LEMMA NextDigit ==
  ASSUME Base = 128, NEW n \in Lengths, NEW c \in 0 .. 3, c < Digits(n)
  PROVE  LET b == Encode(n)[c + 1]
             m == Counted(Encode(n), c) + (b % Base) * Weight[c + 1]
         IN  /\ More(b) <=> c + 1 < Digits(n)
             /\ c + 1 < Digits(n) => m = Counted(Encode(n), c + 1)
             /\ c + 1 = Digits(n) => m = n
<1>. DEFINE s == Encode(n)
<1>1. n \in Nat /\ n < 268435456
  BY SMT, Limits DEF Lengths
<1>2. PICK d \in 1 .. 4 : d = Digits(n) /\ Len(s) = d
  <2>1. Digits(n) \in 1 .. 4 /\ Len(s) = Digits(n)
    BY <1>1, EncodeShape
  <2>. HIDE DEF s
  <2>. QED  BY <2>1
<1>3. \A i \in 1 .. d : More(s[i]) <=> i < d
  BY <1>2, LengthReadBack DEF DecodesWhatWasEncoded
<1>4. Value(s) = n
  BY <1>1, ValueOfEncode
<1>5. \A i \in 1 .. 4 : Part(s, i) \in Nat
  <2>1. ASSUME NEW i \in 1 .. 4 PROVE Part(s, i) \in Nat
    <3>1. /\ i <= Digits(n) => Part(s, i) = Digit(n, i) * Weight[i]
          /\ i > Digits(n) => Part(s, i) = 0
      BY <1>1, DigitOfByte
    <3>2. PICK g \in 0 .. 127 : g = Digit(n, i)
      BY <1>1, DigitRange
    <3>3. g * Weight[i] \in Nat
      BY SMT, Limits
    <3>. HIDE DEF s
    <3>. QED  BY SMT, <1>2, <3>1, <3>2, <3>3
  <2>. QED  BY <2>1
<1>6. \A i \in 1 .. 4 : i > d => Part(s, i) = 0
  BY <1>1, <1>2, DigitOfByte
<1>. HIDE DEF s
<1>7. c + 1 \in 1 .. d
  BY SMT, <1>2
<1>8. (s[c + 1] % Base) * Weight[c + 1] = Part(s, c + 1)
  BY SMT, <1>2, <1>7 DEF Part
<1>. DEFINE p1 == Part(s, 1)
            p2 == Part(s, 2)
            p3 == Part(s, 3)
            p4 == Part(s, 4)
<1>9. /\ p1 \in Nat /\ p2 \in Nat /\ p3 \in Nat /\ p4 \in Nat
      /\ d < 2 => p2 = 0
      /\ d < 3 => p3 = 0
      /\ d < 4 => p4 = 0
      /\ n = p1 + p2 + p3 + p4
  BY SMT, <1>2, <1>4, <1>5, <1>6 DEF Value
<1>10. /\ c = 0 => Part(s, c + 1) = p1
       /\ c = 1 => Part(s, c + 1) = p2
       /\ c = 2 => Part(s, c + 1) = p3
       /\ c = 3 => Part(s, c + 1) = p4
  BY SMT
<1>11. /\ Counted(s, 0) = 0 /\ Counted(s, 1) = p1 /\ Counted(s, 2) = p1 + p2
       /\ Counted(s, 3) = p1 + p2 + p3
  BY SMT, <1>9 DEF Counted
<1>. HIDE DEF p1, p2, p3, p4
<1>12. /\ c = 0 => Counted(s, c) + Part(s, c + 1) = p1
       /\ c = 1 => Counted(s, c) + Part(s, c + 1) = p1 + p2
       /\ c = 2 => Counted(s, c) + Part(s, c + 1) = p1 + p2 + p3
       /\ c = 3 => Counted(s, c) + Part(s, c + 1) = p1 + p2 + p3 + p4
  BY SMT, <1>9, <1>10, <1>11
<1>13. c + 1 < d => Counted(s, c) + Part(s, c + 1) = Counted(s, c + 1)
  BY SMT, <1>2, <1>11, <1>12
<1>14. c + 1 = d => Counted(s, c) + Part(s, c + 1) = n
  BY SMT, <1>2, <1>9, <1>12
<1>. QED  BY <1>2, <1>3, <1>7, <1>8, <1>13, <1>14 DEF s

(* Once a call has given up inside a packet, that is remembered. *)
LEMMA GaveUpStays ==
  ASSUME TypeOK, Next, ~gaveup'
  PROVE  ~gaveup
BY DEF TypeOK, Next, ReadPacket, GetHeader, GetDigit, GetDrain, GetBody, Wait, Arrive, Decoded

(* A call begins where the last one ended. *)
LEMMA ReadPacketPlace ==
  ASSUME Place, ReadPacket
  PROVE  Place'
BY DEF ReadPacket, Place, Ask

(* The header byte is that of the next packet. *)
LEMMA GetHeaderPlace ==
  ASSUME Base = 128, WholePackets, Inv, Place, GetHeader
  PROVE  Place'
<1>. DEFINE N == Len(stream.packets)
<1>1. TypeOK /\ rpc = "header" /\ count = 0 /\ left = 0
  BY DEF Inv, GetHeader, Place
<1>2. /\ stream' = stream /\ count' = count /\ left' = left /\ pos' = pos + Got
      /\ pos \in Nat /\ arrived \in Nat /\ Len(stream.bytes) \in Nat
  BY <1>1, CountTypes DEF GetHeader, Take
<1>3. PICK l \in 0 .. N : pos = stream.end[l]
  BY <1>1 DEF Place
<1>4. CASE Got = 0 /\ Return("nothing")
  <2>1. pos' = pos /\ rpc' = "idle" /\ result' = "nothing"
    BY <1>2, <1>4 DEF Return
  <2>. QED  BY <1>2, <1>3, <2>1 DEF Place
<1>5. CASE Got = 1 /\ rpc' = "digit" /\ Fill(0, Got, Taken)
  <2>. DEFINE k == l + 1
  <2>1. N \in Nat /\ stream.end[N] = Len(stream.bytes)
    BY <1>1, StreamEnds
  <2>2. pos + 1 <= Len(stream.bytes)
    <3>1. pos + 1 <= arrived
      BY <1>1, <1>5, GotRange
    <3>2. arrived \in 0 .. Len(stream.bytes)
      BY <1>1 DEF TypeOK
    <3>. QED  BY SMT, <1>2, <3>1, <3>2
  <2>3. l # N
    <3>1. pos # Len(stream.bytes)
      BY SMT, <1>2, <2>2
    <3>. QED  BY <1>3, <2>1, <3>1
  <2>4. k \in Packets /\ k - 1 = l
    BY SMT, <2>1, <2>3 DEF Packets
  <2>. HIDE DEF k
  <2>5. /\ Size(k) \in Nat /\ Digits(Size(k)) \in 1 .. 4
    BY <1>1, <2>4, PacketBytes
  <2>6. pos' = stream.end[k - 1] + 1 + count'
    BY SMT, <1>1, <1>2, <1>3, <1>5, <2>4
  <2>7. Counted(Encode(Size(k)), count') = 0 /\ count' < Digits(Size(k))
    BY SMT, <1>1, <1>2, <2>5 DEF Counted
  <2>8. Holds(k, 1)'
    <3>1. \A j \in 0 .. 0 : j = 0
      BY SMT
    <3>2. 0 \in DOMAIN buf => buf'[0] = stream.bytes[pos + 1]
      <4>1. Taken[1] = stream.bytes[pos + 1] /\ 0 \in 0 .. 0 + 1 - 1
        BY SMT, <1>5 DEF Taken
      <4>2. 0 - 0 + 1 = 1
        OBVIOUS
      <4>. QED  BY <1>5, <4>1, <4>2 DEF Fill, Filled
    <3>3. DOMAIN buf' = DOMAIN buf
      BY <1>5 DEF Fill, Filled
    <3>4. stream.end[k - 1] + 1 + 0 = pos + 1
      BY SMT, <1>2, <1>3, <2>4
    <3>5. ASSUME NEW j \in 0 .. 1 - 1, j \in DOMAIN buf'
          PROVE  buf'[j] = stream'.bytes[stream'.end[k - 1] + 1 + j]
      BY <1>2, <3>1, <3>2, <3>3, <3>4, <3>5
    <3>. QED  BY <3>5 DEF Holds
  <2>9. InDigits(k)'
    BY <1>1, <1>2, <2>6, <2>7, <2>8 DEF InDigits, Size
  <2>. QED  BY <1>2, <1>5, <2>4, <2>9 DEF Place, Packets
<1>. QED  BY <1>4, <1>5 DEF GetHeader

(* A length that was read is its packet's. *)
LEMMA DecodedPlace ==
  ASSUME Base = 128, WholePackets, Inv, NEW k \in Packets, Decoded(Size(k)), stream' = stream,
         pos' = stream.end[k - 1] + 1 + Digits(Size(k)), Holds(k, 1)
  PROVE  Place'
<1>. DEFINE n == Size(k)
            e == stream.end[k - 1]
            f == stream.end[k]
<1>1. TypeOK
  BY DEF Inv
<1>2. /\ n \in Nat /\ Digits(n) \in 1 .. 4 /\ e \in Nat /\ f = e + 1 + Digits(n) + n
      /\ \A i \in 1 .. Digits(n) : stream.bytes[e + 1 + i] = Encode(n)[i]
  BY <1>1, PacketBytes
<1>3. Fill(1, Digits(n), Encode(n)) /\ left' = n
  BY DEF Decoded
<1>4. HoldsNext(k, 1 + Digits(n))
  <2>1. ASSUME NEW j \in 0 .. Digits(n), j \in DOMAIN buf
        PROVE  buf'[j] = stream.bytes[e + 1 + j]
    <3>1. buf'[j] = IF j \in 1 .. 1 + Digits(n) - 1 THEN Encode(n)[j - 1 + 1] ELSE buf[j]
      BY <1>3, <2>1 DEF Fill, Filled
    <3>2. CASE j = 0
      <4>1. buf[0] = stream.bytes[e + 1 + 0]
        <5>1. 0 \in 0 .. 1 - 1
          BY SMT
        <5>. QED  BY <2>1, <3>2, <5>1 DEF Holds
      <4>. QED  BY SMT, <3>1, <3>2, <4>1
    <3>3. CASE j # 0
      <4>1. j \in 1 .. 1 + Digits(n) - 1 /\ j - 1 + 1 = j /\ j \in 1 .. Digits(n)
        <5>. HIDE DEF n
        <5>. QED  BY SMT, <1>2, <3>3
      <4>. QED  BY <1>2, <3>1, <4>1
    <3>. QED  BY <3>2, <3>3
  <2>2. DOMAIN buf' = DOMAIN buf
    BY <1>3 DEF Fill, Filled
  <2>3. \A j \in 0 .. (1 + Digits(n)) - 1 : j \in 0 .. Digits(n)
    <3>. HIDE DEF n
    <3>. QED  BY SMT, <1>2
  <2>4. ASSUME NEW j \in 0 .. (1 + Digits(n)) - 1, j \in DOMAIN buf'
        PROVE  buf'[j] = stream'.bytes[stream'.end[k - 1] + 1 + j]
    BY <2>1, <2>2, <2>3, <2>4
  <2>. QED  BY <2>4 DEF HoldsNext
<1>5. k \in Packets'
  BY DEF Packets
<1>6. CASE TooLong(n) /\ rpc' = "drain" /\ want' = Piece(n)
  <2>1. pos' + left' = f /\ f - e > ReadBufSize
    <3>. HIDE DEF n, e, f
    <3>1. pos' = e + 1 + Digits(n)
      BY DEF n, e
    <3>. QED  BY SMT, <1>2, <1>3, <1>6, <3>1 DEF TooLong
  <2>2. Piece(left)' = Piece(n)
    BY <1>3 DEF Piece
  <2>3. InDrain(k)'
    BY <1>6, <2>1, <2>2 DEF InDrain
  <2>. QED  BY <1>5, <1>6, <2>3 DEF Place
<1>7. CASE rpc' = "body" /\ want' = n
  <2>1. left' = n /\ want' = left' /\ left' = Size(k)'
    BY <1>3, <1>7 DEF Size
  <2>2. Holds(k, 1 + Digits(left))'
    BY <1>4, <2>1 DEF Holds, HoldsNext
  <2>3. InBody(k)'
    BY <2>1, <2>2 DEF InBody
  <2>. QED  BY <1>5, <1>7, <2>3 DEF Place
<1>8. CASE n = 0 /\ rpc' = "idle" /\ result' = "ok"
  <2>1. pos' = f /\ pos' - e = 1 + Digits(n)
    <3>. HIDE DEF n, e, f
    <3>1. pos' = e + 1 + Digits(n)
      BY DEF n, e
    <3>. QED  BY SMT, <1>2, <1>8, <3>1
  <2>2. pos' - stream'.end[k - 1] = 1 + Digits(n)
    BY <2>1
  <2>3. Holds(k, pos - stream.end[k - 1])'
    BY <1>4, <2>2 DEF Holds, HoldsNext
  <2>4. k \in 0 .. Len(stream'.packets)
    BY SMT, <1>5 DEF Packets
  <2>. QED  BY <1>5, <1>8, <2>1, <2>3, <2>4 DEF Place
<1>. QED  BY <1>6, <1>7, <1>8 DEF Decoded, Ask, Return

(* The digits are its length. *)
LEMMA GetDigitPlace ==
  ASSUME Base = 128, WholePackets, Inv, Place, GetDigit, ~gaveup'
  PROVE  Place'
<1>1. TypeOK /\ rpc = "digit" /\ count \in 0 .. 3
  BY TimeTypes DEF Inv, GetDigit
<1>2. PICK k \in Packets : InDigits(k)
  BY <1>1 DEF Place
<1>. DEFINE n == Size(k)
            e == stream.end[k - 1]
            b == stream.bytes[pos + 1]
            m == left + (b % Base) * Weight[count + 1]
<1>3. /\ n \in Lengths /\ Digits(n) \in 1 .. 4 /\ e \in Nat
      /\ \A i \in 1 .. Digits(n) : stream.bytes[e + 1 + i] = Encode(n)[i]
  BY <1>1, PacketBytes
<1>4. /\ pos = e + 1 + count /\ count < Digits(n)
      /\ left = Counted(Encode(n), count) /\ Holds(k, 1)
  BY <1>2 DEF InDigits
<1>5. b = Encode(n)[count + 1]
  <2>1. pos + 1 = e + 1 + (count + 1) /\ count + 1 \in 1 .. Digits(n)
    <3>. HIDE DEF n, e
    <3>. QED  BY SMT, <1>1, <1>3, <1>4
  <2>. QED  BY <1>3, <2>1
<1>6. /\ More(b) <=> count + 1 < Digits(n)
      /\ count + 1 < Digits(n) => m = Counted(Encode(n), count + 1)
      /\ count + 1 = Digits(n) => m = n
  <2>. HIDE DEF n, b
  <2>. QED  BY <1>1, <1>3, <1>4, <1>5, NextDigit
<1>7. stream' = stream /\ pos' = pos + Got /\ pos \in Nat
  BY <1>1, CountTypes DEF GetDigit, Take
<1>8. CASE /\ Got = 1 /\ More(b) /\ count' = count + 1 /\ left' = m
           /\ UNCHANGED <<rpc, buf>>
  <2>1. pos' = e + 1 + count'
    <3>. HIDE DEF n, e, b, m
    <3>. QED  BY SMT, <1>1, <1>3, <1>4, <1>7, <1>8
  <2>2. Holds(k, 1)'
    BY <1>4, <1>7, <1>8 DEF Holds
  <2>3. InDigits(k)'
    <3>. HIDE DEF b, m
    <3>. QED  BY <1>6, <1>7, <1>8, <2>1, <2>2 DEF InDigits, Size
  <2>. QED  BY <1>1, <1>7, <1>8, <2>3 DEF Place, Packets
<1>9. CASE /\ Got = 1 /\ gaveup' = (gaveup \/ More(b)) /\ Decoded(m)
  <2>1. ~More(b)
    BY <1>9
  <2>2. count + 1 = Digits(n)
    <3>. HIDE DEF n, b
    <3>. QED  BY SMT, <1>1, <1>3, <1>4, <1>6, <2>1
  <2>3. Decoded(n)
    <3>. HIDE DEF n, b, m
    <3>. QED  BY <1>6, <1>9, <2>2
  <2>4. pos' = e + 1 + Digits(n)
    <3>. HIDE DEF n, e, b, m
    <3>. QED  BY SMT, <1>1, <1>3, <1>4, <1>7, <1>9, <2>2
  <2>. QED  BY <1>4, <1>7, <2>3, <2>4, DecodedPlace
<1>. QED  BY <1>8, <1>9 DEF GetDigit

(* The body is its payload, and ends with it. *)
LEMMA GetBodyPlace ==
  ASSUME Base = 128, WholePackets, Inv, Place, GetBody, ~gaveup'
  PROVE  Place'
<1>1. TypeOK /\ rpc = "body"
  BY DEF Inv, GetBody
<1>2. PICK k \in Packets : InBody(k)
  BY <1>1 DEF Place
<1>. DEFINE e == stream.end[k - 1]
            f == stream.end[k]
            off == 1 + Digits(left)
<1>3. /\ left \in Nat /\ Digits(left) \in 1 .. 4 /\ e \in Nat /\ f = e + 1 + Digits(left) + left
      /\ pos = e + 1 + Digits(left) /\ want = left /\ Holds(k, 1 + Digits(left))
  <2>1. left = Size(k) /\ pos = e + 1 + Digits(left) /\ want = left /\ Holds(k, 1 + Digits(left))
    BY <1>2 DEF InBody
  <2>. QED  BY <1>1, <2>1, PacketBytes
<1>4. /\ stream' = stream /\ pos' = pos + Got /\ pos \in Nat /\ rpc' = "idle"
      /\ Fill(off, Got, Taken)
  BY <1>1, CountTypes DEF GetBody, Take, Return
<1>5. Got = want
  <2>1. Got \in Nat /\ Got <= want /\ want \in Nat
    BY <1>1, GotRange DEF TypeOK
  <2>2. ~(Got < want)
    BY DEF GetBody
  <2>. QED  BY SMT, <2>1, <2>2
<1>6. pos' = f /\ pos' - e = off + left
  <2>. HIDE DEF e, f
  <2>. QED  BY SMT, <1>3, <1>4, <1>5
<1>7. HoldsNext(k, off + left)
  <2>1. ASSUME NEW j \in 0 .. (off + left) - 1, j \in DOMAIN buf
        PROVE  buf'[j] = stream.bytes[e + 1 + j]
    <3>1. buf'[j] = IF j \in off .. off + Got - 1 THEN Taken[j - off + 1] ELSE buf[j]
      BY <1>4, <2>1 DEF Fill, Filled
    <3>2. CASE j < off
      <4>1. j \notin off .. off + Got - 1 /\ j \in 0 .. 1 + Digits(left) - 1
        BY SMT, <1>3, <1>5, <3>2
      <4>. QED  BY <1>3, <2>1, <3>1, <4>1 DEF Holds
    <3>3. CASE j >= off
      <4>1. /\ j \in off .. off + Got - 1 /\ j - off + 1 \in 1 .. Got
            /\ pos + (j - off + 1) = e + 1 + j
        <5>. HIDE DEF e
        <5>. QED  BY SMT, <1>3, <1>5, <3>3
      <4>2. Taken[j - off + 1] = stream.bytes[pos + (j - off + 1)]
        BY <4>1 DEF Taken
      <4>. QED  BY <3>1, <4>1, <4>2
    <3>4. j < off \/ j >= off
      BY SMT, <1>3
    <3>. QED  BY <3>2, <3>3, <3>4
  <2>2. DOMAIN buf' = DOMAIN buf
    BY <1>4 DEF Fill, Filled
  <2>3. ASSUME NEW j \in 0 .. (off + left) - 1, j \in DOMAIN buf'
        PROVE  buf'[j] = stream'.bytes[stream'.end[k - 1] + 1 + j]
    BY <1>4, <2>1, <2>2, <2>3
  <2>. QED  BY <2>3 DEF HoldsNext
<1>8. Holds(k, pos - stream.end[k - 1])'
  <2>1. pos' - stream'.end[k - 1] = off + left
    BY <1>4, <1>6
  <2>. QED  BY <1>7, <2>1 DEF Holds, HoldsNext
<1>9. k \in Packets' /\ k \in 0 .. Len(stream'.packets)
  <2>1. k \in Packets'
    BY <1>4 DEF Packets
  <2>. QED  BY SMT, <2>1 DEF Packets
<1>10. result' = "ok"
  BY <1>5 DEF GetBody, Return
<1>. QED  BY <1>4, <1>6, <1>8, <1>9, <1>10 DEF Place

(* What is thrown away is its payload, piece by piece. *)
LEMMA GetDrainPlace ==
  ASSUME Base = 128, WholePackets, Inv, Place, GetDrain, ~gaveup'
  PROVE  Place'
<1>1. TypeOK /\ rpc = "drain"
  BY DEF Inv, GetDrain
<1>2. PICK k \in Packets : InDrain(k)
  BY <1>1 DEF Place
<1>3. /\ pos + left = stream.end[k] /\ want = Piece(left)
      /\ stream.end[k] - stream.end[k - 1] > ReadBufSize
  BY <1>2 DEF InDrain
<1>4. /\ stream' = stream /\ pos' = pos + Got /\ pos \in Nat /\ left' = left - Got
      /\ Got \in Nat /\ left \in Nat
  BY <1>1, CountTypes, GotRange DEF GetDrain, Take, TypeOK
<1>5. CASE /\ Got < left /\ Ask(Piece(left - Got), Remain(time, tick)) /\ rpc' = rpc
  <2>1. pos' + left' = stream.end[k]
    BY SMT, <1>3, <1>4, <1>5
  <2>2. want' = Piece(left)'
    BY <1>4, <1>5 DEF Ask, Piece
  <2>3. InDrain(k)'
    BY <1>3, <1>4, <2>1, <2>2 DEF InDrain
  <2>. QED  BY <1>1, <1>4, <1>5, <2>3 DEF Place, Packets
<1>6. CASE /\ Got = 0 \/ Got = left
           /\ gaveup' = (gaveup \/ Got < left) /\ Return("too short")
  <2>1. ~(Got < left)
    BY <1>6
  <2>2. pos' = stream.end[k]
    <3>1. Got = left
      <4>1. Got = 0 \/ Got = left
        BY <1>6
      <4>. QED  BY SMT, <1>4, <2>1, <4>1
    <3>. QED  BY <1>3, <1>4, <3>1
  <2>3. k \in Packets' /\ k \in 0 .. Len(stream'.packets)
    <3>1. k \in Packets'
      BY <1>4 DEF Packets
    <3>. QED  BY SMT, <3>1 DEF Packets
  <2>4. rpc' = "idle" /\ result' = "too short"
    BY <1>6 DEF Return
  <2>. QED  BY <1>3, <1>4, <2>2, <2>3, <2>4 DEF Place
<1>. QED  BY <1>5, <1>6 DEF GetDrain

(* Waiting, and bytes that arrive, leave the reader where it is. *)
LEMMA StayPlace ==
  ASSUME Place, UNCHANGED <<stream, pos, rpc, want, count, left, buf, result>>
  PROVE  Place'
<1>1. \A k, n : Holds(k, n)' = Holds(k, n)
  BY DEF Holds
<1>2. \A k : InDigits(k)' = InDigits(k)
  BY <1>1 DEF InDigits, Holds, Size
<1>3. \A k : InBody(k)' = InBody(k)
  BY <1>1 DEF InBody, Holds, Size
<1>4. \A k : InDrain(k)' = InDrain(k)
  BY DEF InDrain, Size
<1>5. Packets' = Packets
  BY DEF Packets
<1>. QED  BY <1>1, <1>2, <1>3, <1>4, <1>5 DEF Place

(* Together, unless a call gave up inside a packet. *)
LEMMA StepPlace ==
  ASSUME Base = 128, WholePackets, Inv, InPlace, [Next]_vars
  PROVE  InPlace'
<1>. SUFFICES ASSUME ~gaveup' PROVE Place'
  BY DEF InPlace
<1>1. CASE Next
  <2>1. Place
    BY <1>1, GaveUpStays DEF InPlace, Inv
  <2>2. CASE Wait \/ Arrive
    BY <2>1, <2>2, StayPlace DEF Wait, Arrive, readVars
  <2>. QED  BY <1>1, <2>1, <2>2, ReadPacketPlace, GetHeaderPlace, GetDigitPlace, GetDrainPlace,
               GetBodyPlace DEF Next
<1>2. CASE UNCHANGED vars
  BY <1>2, StayPlace DEF InPlace, vars, readVars
<1>. QED  BY <1>1, <1>2

(* The stream begins with a packet. *)
LEMMA InitPlace ==
  ASSUME WholePackets, Init
  PROVE  InPlace
<1>1. TypeOK
  BY InitInv DEF Inv
<1>2. 0 \in 0 .. Len(stream.packets) /\ stream.end[0] = 0
  BY SMT, <1>1, StreamEnds
<1>. QED  BY <1>2 DEF Init, InPlace, Place

(* Every call leaves the stream at the beginning of a packet as long as no *)
(* read ended inside one, the calls that throw a packet away               *)
(* (mqttclient.c:121) included: for every stream of packets, every length, *)
(* every size of the buffer and every way the bytes arrive.                *)
THEOREM ReaderAtBoundary == Base = 128 /\ WholePackets => (Spec => []AtBoundary)
<1>. SUFFICES ASSUME Base = 128, WholePackets PROVE Spec => []AtBoundary
  OBVIOUS
<1>1. Init => Inv /\ InPlace
  BY InitInv, InitPlace
<1>2. Inv /\ InPlace /\ [Next]_vars => (Inv /\ InPlace)'
  BY StepInv, StepPlace
<1>3. Inv /\ InPlace => AtBoundary
  BY DEF InPlace, Place, AtBoundary
<1>. QED  BY <1>1, <1>2, <1>3, PTL DEF Spec

(* A call that succeeds has put the bytes of one packet into the buffer as *)
(* they came, its length written back (mqttclient.c:171) included.         *)
THEOREM ReaderHoldsPacket == Base = 128 /\ WholePackets => (Spec => []HoldsPacket)
<1>. SUFFICES ASSUME Base = 128, WholePackets PROVE Spec => []HoldsPacket
  OBVIOUS
<1>1. Init => Inv /\ InPlace
  BY InitInv, InitPlace
<1>2. Inv /\ InPlace /\ [Next]_vars => (Inv /\ InPlace)'
  BY StepInv, StepPlace
<1>3. Inv /\ InPlace => HoldsPacket
  <2>. SUFFICES ASSUME Inv, InPlace, rpc = "idle", result = "ok", ~gaveup
                PROVE  \E k \in 1 .. Len(stream.packets) :
                         /\ pos = stream.end[k]
                         /\ \A i \in stream.end[k - 1] + 1 .. pos :
                              LET place == i - stream.end[k - 1] - 1
                              IN  place \in DOMAIN buf => buf[place] = stream.bytes[i]
    BY DEF HoldsPacket
  <2>1. PICK k \in Packets : pos = stream.end[k] /\ Holds(k, pos - stream.end[k - 1])
    BY DEF InPlace, Place
  <2>2. stream.end[k - 1] \in Nat /\ pos \in Nat
    BY PacketBytes, CountTypes DEF Inv
  <2>3. ASSUME NEW i \in stream.end[k - 1] + 1 .. pos,
               i - stream.end[k - 1] - 1 \in DOMAIN buf
        PROVE  buf[i - stream.end[k - 1] - 1] = stream.bytes[i]
    <3>. DEFINE j == i - stream.end[k - 1] - 1
    <3>1. j \in 0 .. pos - stream.end[k - 1] - 1 /\ stream.end[k - 1] + 1 + j = i
      BY SMT, <2>2
    <3>. HIDE DEF j
    <3>2. buf[j] = stream.bytes[stream.end[k - 1] + 1 + j]
      BY <2>1, <2>3, <3>1 DEF Holds, j
    <3>. QED  BY <3>1, <3>2 DEF j
  <2>. QED  BY <2>1, <2>3 DEF Packets
<1>. QED  BY <1>1, <1>2, <1>3, PTL DEF Spec

(* Only a packet that is longer than the read buffer is thrown away        *)
(* (mqttclient.c:173).                                                     *)
THEOREM ReaderDropsTooLong == Base = 128 /\ WholePackets => (Spec => []OnlyTooLongDropped)
<1>. SUFFICES ASSUME Base = 128, WholePackets PROVE Spec => []OnlyTooLongDropped
  OBVIOUS
<1>1. Init => Inv /\ InPlace
  BY InitInv, InitPlace
<1>2. Inv /\ InPlace /\ [Next]_vars => (Inv /\ InPlace)'
  BY StepInv, StepPlace
<1>3. Inv /\ InPlace => OnlyTooLongDropped
  BY DEF InPlace, Place, OnlyTooLongDropped, Packets
<1>. QED  BY <1>1, <1>2, <1>3, PTL DEF Spec

(* A read that ends without all its bytes has waited for the whole command *)
(* timeout.                                                                *)
LEMMA ShortIsLate ==
  ASSUME Inv, Timely, rpc # "idle", Ready, Got < want
  PROVE  age >= CmdTimeout
<1>1. /\ age \in Nat /\ granted \in Nat /\ CmdTimeout \in Nat /\ waited \in Nat
  BY TimeTypes
<1>2. CmdTimeout + waited <= granted + age
  BY DEF Timely
<1>3. waited >= granted
  <2>1. Available \in Nat /\ want \in Nat
    <3>1. pos \in 0 .. arrived /\ arrived \in Nat /\ want \in Nat
      BY CountTypes DEF Inv, TypeOK
    <3>. QED  BY SMT, <3>1 DEF Available
  <2>. QED  BY SMT, <2>1 DEF Ready, Got
<1>. QED  BY SMT, <1>1, <1>2, <1>3

(* A call that finds nothing, or leaves a packet half read, has waited for *)
(* the whole command timeout (mqttclient.c:159), also while the uptime     *)
(* wraps: so it is not the reader that loses step with a server that keeps *)
(* sending.                                                                *)
THEOREM ReaderGivesUpOnTime ==
  Base = 128 /\ WholePackets /\ TimerFits /\ ReadBufSize > 0 => (Spec => GivesUpOnTime)
<1>. SUFFICES ASSUME Base = 128, WholePackets, TimerFits, ReadBufSize > 0 PROVE Spec => GivesUpOnTime
  OBVIOUS
<1>. DEFINE Late == (rpc # "idle" /\ result' = "nothing") \/ (gaveup' /\ ~gaveup)
                    => age >= CmdTimeout
<1>1. Init => Inv /\ Timely /\ InPlace
  BY InitInv, InitPlace DEF Init, Timely
<1>2. Inv /\ Timely /\ InPlace /\ [Next]_vars => (Inv /\ Timely /\ InPlace)'
  BY StepInv, StepTimely, StepPlace
<1>3. Inv /\ Timely /\ InPlace /\ [Next]_vars => [Late]_vars
  <2>. SUFFICES ASSUME Inv, Timely, InPlace, Next,
                       (rpc # "idle" /\ result' = "nothing") \/ (gaveup' /\ ~gaveup)
                PROVE  age >= CmdTimeout
    OBVIOUS
  <2>1. Got \in Nat /\ want \in Nat /\ left \in Nat
    BY GotRange DEF Inv, TypeOK
  <2>2. CASE GetHeader
    <3>1. rpc = "header" /\ Ready /\ gaveup' = gaveup
      BY <2>2 DEF GetHeader
    <3>2. result = "none" /\ want = 1
      BY <3>1 DEF Timely, Inv, AskFits
    <3>3. Got = 0
      BY <2>2, <3>1, <3>2 DEF GetHeader
    <3>. QED  BY SMT, <3>1, <3>2, <3>3, ShortIsLate
  <2>3. CASE GetDigit
    <3>1. rpc = "digit" /\ Ready
      BY <2>3 DEF GetDigit
    <3>2. result = "none" /\ want = 1
      BY <3>1 DEF Timely, Inv, AskFits
    <3>3. gaveup' /\ ~gaveup
      BY <2>3, <3>1, <3>2 DEF GetDigit, Decoded, Return
    <3>4. Got # 1
      <4>. SUFFICES ASSUME Got = 1 PROVE FALSE
        OBVIOUS
      <4>. DEFINE b == stream.bytes[pos + 1]
      <4>1. More(b) /\ count + 1 = MaxDigits
        <5>1. Got # 0
          BY SMT
        <5>. QED  BY <2>3, <3>3, <5>1 DEF GetDigit
      <4>2. PICK k \in Packets : InDigits(k)
        BY <3>1, <3>3 DEF InPlace, Place
      <4>3. /\ Size(k) \in Lengths /\ Digits(Size(k)) \in 1 .. 4 /\ stream.end[k - 1] \in Nat
            /\ \A i \in 1 .. Digits(Size(k)) :
                 stream.bytes[stream.end[k - 1] + 1 + i] = Encode(Size(k))[i]
        BY <4>2, PacketBytes DEF Inv
      <4>4. pos = stream.end[k - 1] + 1 + count /\ count < Digits(Size(k)) /\ count \in 0 .. 3
        BY <3>1, <4>2, TimeTypes DEF InDigits
      <4>5. count + 1 \in 1 .. Digits(Size(k)) /\ pos + 1 = stream.end[k - 1] + 1 + (count + 1)
        BY SMT, <4>3, <4>4
      <4>6. b = Encode(Size(k))[count + 1]
        BY <4>3, <4>5
      <4>7. More(b) <=> count + 1 < Digits(Size(k))
        BY <4>3, <4>4, <4>6, NextDigit
      <4>. HIDE DEF b
      <4>. QED  BY SMT, <4>1, <4>3, <4>4, <4>7 DEF MaxDigits
    <3>5. Got < want
      <4>1. Got <= want
        BY GotRange DEF Inv
      <4>. QED  BY SMT, <2>1, <3>2, <3>4, <4>1
    <3>. QED  BY <3>1, <3>5, ShortIsLate
  <2>4. CASE GetDrain
    <3>1. rpc = "drain" /\ Ready
      BY <2>4 DEF GetDrain
    <3>2. result = "none"
      BY <3>1 DEF Timely
    <3>3. gaveup' /\ ~gaveup
      BY <2>4, <3>1, <3>2 DEF GetDrain, Return
    <3>4. Got = 0 /\ Got < left
      <4>1. (Got = 0 \/ Got = left) /\ Got < left
        BY <2>4, <3>3 DEF GetDrain
      <4>. QED  BY SMT, <2>1, <4>1
    <3>5. PICK k \in Packets : InDrain(k)
      BY <3>1, <3>3 DEF InPlace, Place
    <3>6. want = Piece(left)
      BY <3>5 DEF InDrain
    <3>7. Got < want
      BY SMT, <2>1, <3>4, <3>6, ReaderAssumption DEF Piece
    <3>. QED  BY <3>1, <3>7, ShortIsLate
  <2>5. CASE GetBody
    <3>1. rpc = "body" /\ Ready
      BY <2>5 DEF GetBody
    <3>2. Got <= want
      BY GotRange DEF Inv
    <3>3. Got # want
      <4>. SUFFICES ASSUME Got = want PROVE FALSE
        OBVIOUS
      <4>1. result' = "ok" /\ (gaveup' = (gaveup \/ Got < want))
        BY <2>5 DEF GetBody, Return
      <4>2. ~(Got < want)
        BY SMT, <2>1
      <4>. QED  BY <4>1, <4>2
    <3>4. Got < want
      BY SMT, <2>1, <3>2, <3>3
    <3>. QED  BY <3>1, <3>4, ShortIsLate
  <2>6. CASE ReadPacket
    <3>1. rpc = "idle" /\ gaveup' = gaveup
      BY <2>6 DEF ReadPacket
    <3>. QED  BY <3>1
  <2>7. CASE Wait \/ Arrive
    <3>1. result' = result /\ gaveup' = gaveup
      BY <2>7 DEF Wait, Arrive
    <3>2. rpc # "idle" => result = "none"
      BY DEF Timely
    <3>. QED  BY <3>1, <3>2
  <2>. QED  BY <2>2, <2>3, <2>4, <2>5, <2>6, <2>7 DEF Next
<1>. QED  BY <1>1, <1>2, <1>3, PTL DEF Spec, GivesUpOnTime
=============================================================================

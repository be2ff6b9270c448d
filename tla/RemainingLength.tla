-------------------------- MODULE RemainingLength --------------------------
(***************************************************************************)
(* The remaining length of an MQTT packet as mqtt/MQTTPacket.c writes and  *)
(* reads it: digits of base 128, the least significant first, at most      *)
(* four, each but the last with its top bit set.                           *)
(***************************************************************************)
EXTENDS Naturals, Sequences

CONSTANT Base      \* 128; a byte is a number below 2 * Base

ASSUME BaseAssumption == Base \in Nat /\ Base >= 2

(* MAX_NO_OF_REMAINING_LENGTH_BYTES *)
MaxDigits == 4

Byte == 0 .. 2 * Base - 1

(* What a digit counts, by its place: the multiplier of the decoder.       *)
Weight == <<1, Base, Base * Base, Base * Base * Base>>

(* The largest number four digits can hold: MQTT_MAX_PAYLOAD_SIZE.         *)
MaxLength == Base * Base * Base * Base - 1

(* How many digits the encoder writes for n. *)
Digits(n) == IF n < Weight[2] THEN 1
             ELSE IF n < Weight[3] THEN 2
             ELSE IF n < Weight[4] THEN 3 ELSE 4

(* Digit i of n, without its top bit. *)
Digit(n, i) == (n \div Weight[i]) % Base

(* MQTTPacket_encode: the bytes written for n. *)
Encode(n) == [i \in 1 .. Digits(n) |-> Digit(n, i) + (IF i < Digits(n) THEN Base ELSE 0)]

(* What the decoder has added up after it read the bytes s. *)
Part(s, i) == IF i <= Len(s) THEN (s[i] % Base) * Weight[i] ELSE 0
Value(s) == Part(s, 1) + Part(s, 2) + Part(s, 3) + Part(s, 4)

(* The top bit asks for another digit. *)
More(b) == b >= Base

(* MQTTPacket_len: room for a packet whose remaining length is n.  It      *)
(* compares n + 1 with the limits of n.                                    *)
PacketLen(n) == LET m == n + 1 IN
  IF m < Base THEN m + 1
  ELSE IF m < Base * Base THEN m + 2
  ELSE IF m < Base * Base * Base - 1 THEN m + 3 ELSE m + 4

-----------------------------------------------------------------------------
Lengths == 0 .. MaxLength

(* The decoder (mqttclient.c:99) reads back what the encoder wrote: it     *)
(* stops at the last digit, not before and not after, with the same value. *)
DecodesWhatWasEncoded ==
  \A n \in Lengths : LET s == Encode(n) IN
    /\ Value(s) = n
    /\ Len(s) <= MaxDigits
    /\ \A i \in 1 .. Len(s) : s[i] \in Byte /\ (More(s[i]) <=> i < Len(s))

(* The size every serializer compares with its buffer before it writes     *)
(* (MQTTSerializePublish.c:64) is never too small and at most one byte too *)
(* large: a packet that passes the test fits.                              *)
RoomIsEnough ==
  \A n \in Lengths : LET real == 1 + Len(Encode(n)) + n IN
    PacketLen(n) \in {real, real + 1}
=============================================================================

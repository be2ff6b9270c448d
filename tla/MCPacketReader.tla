--------------------------- MODULE MCPacketReader ---------------------------
(* Small instances of PacketReader: a byte holds 0 .. 3, a digit of the     *)
(* remaining length 0 .. 1, so that packets of up to 15 bytes of payload    *)
(* have lengths of one to four digits.                                      *)
EXTENDS PacketReader, TopicMatch, SequencesExt

P(head, len) == [head |-> head, len |-> len]

(* The stream of the packets ps. *)
StreamOf(ps) ==
  LET raw == [k \in DOMAIN ps |-> Raw(ps[k])]
  IN  [packets |-> ps, bytes |-> FlattenSeq(raw),
       end |-> [k \in 0 .. Len(ps) |-> Len(FlattenSeq(SubSeq(raw, 1, k)))]]

(* Packets of every number of digits; one that just fits a buffer of six    *)
(* bytes, one that does not, one that is drained in two pieces.             *)
MCStreams == {StreamOf(ps) : ps \in {<<P(1, 3), P(3, 0), P(2, 2)>>, <<P(2, 8), P(3, 1)>>, <<P(3, 4), P(1, 3)>>}}

(* A packet whose length is a single digit: no call that reads it may take  *)
(* longer than the command timeout by the digits alone.                    *)
OneDigit == {StreamOf(<<P(3, 1)>>)}

(* The streams of the instances are packets. *)
ASSUME StreamsWhole == WholePackets

(* With a word of 64 and five ticks to the second, as many milliseconds, the *)
(* uptime wraps at tick 12.                                                *)
MCBoots == {0}
LateBoots == {10}

(* The encoding and the size of a packet, for every length of the instance: *)
(* what ReaderProofs proves for the base 128.                              *)
ASSUME CodecAgrees == DecodesWhatWasEncoded /\ RoomIsEnough

(* The handler of a packet that was read is found as its filter says. *)
ASSUME TopicsAgree == TopicSound /\ TopicComplete
=============================================================================

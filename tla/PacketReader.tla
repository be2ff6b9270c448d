---------------------------- MODULE PacketReader ----------------------------
(***************************************************************************)
(* How mqttclient.c takes packets off the byte stream of a connection:     *)
(* mqtt_read_packet with mqtt_decode_packet and mqtt_packet_drain, one     *)
(* step for each network_read, the platform timer that limits them, and    *)
(* the read buffer, which mqtt_connect_with_results allocates with the     *)
(* size of the write buffer.                                               *)
(*                                                                         *)
(* network_read is the environment's: it returns when it has all bytes it  *)
(* was asked for, or when the time it was given has passed, with the bytes *)
(* that are there.  Time passes only while the reader waits: everything    *)
(* else takes less than a tick.                                            *)
(***************************************************************************)
EXTENDS RemainingLength, PlatformTimer

CONSTANTS ReadBufSize,     \* mqtt_read_buf_size
          WriteBufSize,    \* mqtt_write_buf_size
          CmdTimeout,      \* mqtt_cmd_timeout
          Streams,         \* what the server may send on a connection
          Boots,           \* ticks at which the connection is made
          LastTick         \* bound: time stops here

(* A packet is its header byte, its length and its payload; the bytes of a *)
(* payload differ from their neighbours.                                   *)
Raw(p) == <<p.head>> \o Encode(p.len) \o [i \in 1 .. p.len |-> (p.head + i) % (2 * Base)]

(* A stream is a sequence of packets with the bytes that go over the wire: *)
(* those of packet k lie behind place end[k - 1], up to place end[k].      *)
IsStream(s) ==
  /\ s.packets \in Seq([head : Byte, len : Lengths]) /\ s.bytes \in Seq(Byte)
  /\ s.end \in [0 .. Len(s.packets) -> 0 .. Len(s.bytes)]
  /\ s.end[0] = 0 /\ s.end[Len(s.packets)] = Len(s.bytes)
  /\ \A k \in 1 .. Len(s.packets) :
       SubSeq(s.bytes, s.end[k - 1] + 1, s.end[k]) = Raw(s.packets[k])

(* The server sends whole packets. *)
WholePackets == \A s \in Streams : IsStream(s)

ASSUME ReaderAssumption ==
  /\ ReadBufSize \in Nat /\ WriteBufSize \in Nat /\ CmdTimeout \in Nat
  /\ Boots \subseteq 0 .. Word - 1 /\ LastTick \in 0 .. Word - 1
  /\ \A s \in Streams : s.bytes \in Seq(Byte)

VARIABLES stream,      \* what the server sends on this connection
          arrived,     \* how many of their bytes have reached the client
          pos,         \* how many of them the client has taken
          rpc,         \* where the reader is
          want,        \* network_read: how many bytes it was asked for,
          granted,     \* ... how long it may take
          waited,      \* ... and how long it has waited
          count,       \* the digits decoded
          left,        \* remain_len, or what is left to drain
          buf,         \* mqtt_read_buf
          result,      \* what mqtt_read_packet returned last
          gaveup,      \* history: a read ended inside a packet
          overrun      \* history: a byte was written beyond the read buffer

readVars == <<want, granted, waited>>
vars == <<stream, arrived, pos, rpc, readVars, count, left, buf, result,
          gaveup, overrun, timerVars>>

-----------------------------------------------------------------------------
(* network_read *)
Available == arrived - pos
Got == IF Available < want THEN Available ELSE want
Ready == Available >= want \/ waited >= granted

(* The reader asks for n bytes within ms. *)
Ask(n, ms) == want' = n /\ granted' = ms /\ waited' = 0

(* Nothing is asked for any more. *)
AskNothing == want' = 0 /\ granted' = 0 /\ waited' = 0

(* Faulty variant: the bytes are put one place too far. *)
FilledLate(off, n, s) == [i \in DOMAIN buf |-> IF i \in off + 1 .. off + n
                                               THEN s[i - off] ELSE buf[i]]

(* The read buffer with the n bytes s at place off.  Those that do not fit *)
(* are written behind it.                                                  *)
Filled(off, n, s) == [i \in DOMAIN buf |-> IF i \in off .. off + n - 1
                                           THEN s[i - off + 1] ELSE buf[i]]
Beyond(off, n) == off + n > WriteBufSize

Fill(off, n, s) == buf' = Filled(off, n, s) /\ overrun' = (overrun \/ Beyond(off, n))

(* Faulty variant: all that was asked for counts as read. *)
TakeAsked == pos' = pos + want

(* The bytes network_read returns. *)
Take == pos' = pos + Got
Taken == [i \in 1 .. Got |-> stream.bytes[pos + i]]

(* Faulty variant: the size of the buffer is not looked at. *)
WholePiece(n) == n

(* mqtt_packet_drain: what is asked for of n bytes, at most a buffer full. *)
Piece(n) == IF n < ReadBufSize THEN n ELSE ReadBufSize

Init ==
  /\ stream \in Streams /\ arrived = 0 /\ pos = 0
  /\ tick \in Boots /\ time = 0 /\ age = 0
  /\ rpc = "idle" /\ want = 0 /\ granted = 0 /\ waited = 0
  /\ count = 0 /\ left = 0 /\ result = "none"
  /\ buf = [i \in 0 .. WriteBufSize - 1 |-> 0]
  /\ gaveup = FALSE /\ overrun = FALSE

(* mqtt_read_packet begins: the timer is set, and the header byte awaited. *)
ReadPacket ==
  /\ rpc = "idle"
  /\ Cutdown(CmdTimeout)
  /\ Ask(1, Remain(Due(tick, CmdTimeout), tick))
  /\ rpc' = "header" /\ count' = 0 /\ left' = 0 /\ result' = "none"
  /\ UNCHANGED <<stream, arrived, pos, buf, gaveup, overrun>>

(* mqtt_read_packet returns r. *)
Return(r) == rpc' = "idle" /\ result' = r /\ AskNothing

(* The header byte, or nothing to read. *)
GetHeader ==
  /\ rpc = "header" /\ Ready
  /\ Take
  /\ \/ /\ Got = 0
        /\ Return("nothing")
        /\ UNCHANGED <<buf, overrun>>
     \/ /\ Got = 1
        /\ rpc' = "digit"
        /\ Fill(0, Got, Taken)
        /\ Ask(1, Remain(time, tick))
        /\ UNCHANGED result
  /\ UNCHANGED <<stream, arrived, count, left, gaveup, timerVars>>

(* Faulty variant: a packet that would fill the buffer is taken for too    *)
(* long.                                                                   *)
TooLongEarly(n) == 1 + Digits(n) + n >= ReadBufSize

(* The test of the length against the size of the read buffer. *)
TooLong(n) == 1 + Digits(n) + n > ReadBufSize

(* Faulty variant: the bytes of a packet that is too long stay unread. *)
DecodedUndrained(n) ==
  /\ left' = n
  /\ Fill(1, Digits(n), Encode(n))
  /\ \/ /\ TooLong(n)
        /\ Return("too short")
     \/ /\ ~TooLong(n) /\ n > 0
        /\ rpc' = "body"
        /\ Ask(n, Remain(time, tick))
        /\ UNCHANGED result
     \/ /\ ~TooLong(n) /\ n = 0
        /\ Return("ok")

(* The length is known to be n: it is written back into the buffer, and    *)
(* the packet read or thrown away.                                         *)
Decoded(n) ==
  /\ left' = n
  /\ Fill(1, Digits(n), Encode(n))
  /\ \/ /\ TooLong(n)
        /\ rpc' = "drain"
        /\ Ask(Piece(n), Remain(time, tick))
        /\ UNCHANGED result
     \/ /\ ~TooLong(n) /\ n > 0
        /\ rpc' = "body"
        /\ Ask(n, Remain(time, tick))
        /\ UNCHANGED result
     \/ /\ ~TooLong(n) /\ n = 0
        /\ Return("ok")

(* mqtt_decode_packet: one digit.  Its result is not looked at: if no      *)
(* digit comes, or a fourth one asks for a fifth, the length added up so   *)
(* far is used.  Every digit may take all the time that was left when the  *)
(* first one was asked for.                                                *)
GetDigit ==
  /\ rpc = "digit" /\ Ready
  /\ Take
  /\ LET b == stream.bytes[pos + 1]
         n == left + (b % Base) * Weight[count + 1]
     IN  \/ /\ Got = 0
            /\ gaveup' = TRUE
            /\ Decoded(left)
            /\ UNCHANGED count
         \/ /\ Got = 1 /\ More(b) /\ count + 1 < MaxDigits
            /\ count' = count + 1 /\ left' = n
            /\ Ask(1, granted)
            /\ UNCHANGED <<rpc, buf, result, gaveup, overrun>>
         \/ /\ Got = 1 /\ (More(b) => count + 1 = MaxDigits)
            /\ count' = count + 1
            /\ gaveup' = (gaveup \/ More(b))
            /\ Decoded(n)
  /\ UNCHANGED <<stream, arrived, timerVars>>

(* mqtt_packet_drain: one piece, at most as long as the read buffer. *)
GetDrain ==
  /\ rpc = "drain" /\ Ready
  /\ Take
  /\ Fill(0, Got, Taken)
  /\ left' = left - Got
  /\ \/ /\ Got > 0 /\ Got < left
        /\ Ask(Piece(left - Got), Remain(time, tick))
        /\ UNCHANGED <<rpc, result, gaveup>>
     \/ /\ Got = 0 \/ Got = left
        /\ gaveup' = (gaveup \/ Got < left)
        /\ Return("too short")
  /\ UNCHANGED <<stream, arrived, count, timerVars>>

(* The rest of the packet, behind its length. *)
GetBody ==
  /\ rpc = "body" /\ Ready
  /\ Take
  /\ Fill(1 + Digits(left), Got, Taken)
  /\ gaveup' = (gaveup \/ Got < want)
  /\ Return(IF Got = want THEN "ok" ELSE "nothing")
  /\ UNCHANGED <<stream, arrived, count, left, timerVars>>

(* A tick passes while network_read has not enough bytes. *)
Wait ==
  /\ rpc # "idle" /\ ~Ready /\ tick # LastTick
  /\ TickPasses
  /\ waited' = waited + 1
  /\ UNCHANGED <<stream, arrived, pos, rpc, want, granted, count, left, buf,
                 result, gaveup, overrun>>

(* More bytes come from the server, in pieces of any size. *)
Arrive ==
  /\ \E n \in arrived + 1 .. Len(stream.bytes) : arrived' = n
  /\ UNCHANGED <<stream, pos, rpc, readVars, count, left, buf, result, gaveup,
                 overrun, timerVars>>

Next == \/ ReadPacket \/ GetHeader \/ GetDigit \/ GetDrain \/ GetBody
        \/ Wait \/ Arrive

Spec == Init /\ [][Next]_vars

-----------------------------------------------------------------------------
(* Types: places, counts and the bytes of the buffer. *)
TypeOK ==
  /\ stream \in Streams /\ arrived \in 0 .. Len(stream.bytes) /\ pos \in 0 .. arrived
  /\ rpc \in {"idle", "header", "digit", "drain", "body"}
  /\ want \in Nat /\ granted \in Nat /\ waited \in Nat
  /\ count \in 0 .. MaxDigits /\ left \in Nat
  /\ buf \in [0 .. WriteBufSize - 1 -> Byte]
  /\ result \in {"none", "nothing", "too short", "ok"}
  /\ gaveup \in BOOLEAN /\ overrun \in BOOLEAN
  /\ tick \in 0 .. Word - 1 /\ time \in 0 .. Word - 1 /\ age \in Nat

(* As long as no read ended inside a packet, every call leaves the stream  *)
(* at the beginning of a packet, the calls that throw a packet away        *)
(* (mqttclient.c:121) included.                                            *)
AtBoundary ==
  rpc = "idle" /\ ~gaveup => \E k \in 0 .. Len(stream.packets) : pos = stream.end[k]

(* A call that succeeds has put the packet's bytes into the buffer, as     *)
(* they came: header, length (written back, mqttclient.c:171), payload.    *)
HoldsPacket ==
  rpc = "idle" /\ result = "ok" /\ ~gaveup =>
    \E k \in 1 .. Len(stream.packets) :
      /\ pos = stream.end[k]
      /\ \A i \in stream.end[k - 1] + 1 .. pos :
           LET place == i - stream.end[k - 1] - 1
           IN  place \in DOMAIN buf => buf[place] = stream.bytes[i]

(* Only a packet that is longer than the read buffer is thrown away        *)
(* (mqttclient.c:173).                                                     *)
OnlyTooLongDropped ==
  rpc = "idle" /\ result = "too short" /\ ~gaveup =>
    \E k \in 1 .. Len(stream.packets) : pos = stream.end[k] /\ pos - stream.end[k - 1] > ReadBufSize

(* A call that finds nothing, or leaves a packet half read, has waited for *)
(* the whole command timeout (mqttclient.c:159), also while the uptime     *)
(* wraps.                                                                  *)
GivesUpOnTime ==
  [][ (rpc # "idle" /\ result' = "nothing") \/ (gaveup' /\ ~gaveup)
      => age >= CmdTimeout ]_vars

(* The uptime has wrapped since the timer was set. *)
Wrapped == Uptime(tick) + CmdTimeout # time + age

(* Unless the uptime wraps, a call takes at most four times the command    *)
(* timeout: one for each digit, since all of them get what was left before *)
(* the first (mqttclient.c:168).                                           *)
CallBounded == rpc # "idle" /\ ~Wrapped => age <= MaxDigits * CmdTimeout

(* With a read buffer not larger than the write buffer, whose size it is   *)
(* allocated with (mqttclient.c:960), nothing is written beyond it.        *)
SmallBufferSafe ==
  MaxDigits < ReadBufSize /\ ReadBufSize <= WriteBufSize => ~overrun

(* mqtt_set_read_buf_size sets the size of the read buffer                 *)
(* (mqtt-design.md:35): no byte is written beyond it.                      *)
ReadWithinBuffer == ~overrun

(* The command timeout is the time a read may take (mqtt-config.md:30).    *)
ReadEndsInTime == rpc # "idle" => age <= CmdTimeout
=============================================================================

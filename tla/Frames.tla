------------------------------- MODULE Frames -------------------------------
(***************************************************************************)
(* The frame codec (src/lib/frames.js) on sequences of bytes.  A hex       *)
(* session id stands for the bytes it names.                               *)
(***************************************************************************)
EXTENDS Integers, Sequences

CONSTANTS
  SidLen,  \* SID_LEN
  KeyLen,  \* KEY_LEN
  Null     \* null

ASSUME LengthAssumption == SidLen \in Nat /\ KeyLen \in Nat

Byte == 0 .. 255
Bytes == Seq(Byte)
Word == 0 .. 65535
Header == 1 + SidLen

\* buf.subarray(from, to), counted from 0 and clamped to the buffer
Cut(buf, from, to) == SubSeq(buf, from + 1, IF to < Len(buf) THEN to ELSE Len(buf))

EncodeFrame(type, id, payload) == <<type>> \o id \o payload

DecodeFrame(buf) ==
  IF Len(buf) < Header THEN Null
  ELSE [type |-> buf[1], id |-> Cut(buf, 1, Header), payload |-> Cut(buf, Header, Len(buf))]

EncodeCloseReason(reason) == IF reason = 0 THEN <<>> ELSE <<reason>>
DecodeCloseReason(payload) == IF Len(payload) > 0 THEN payload[1] ELSE 0

\* the psm as two bytes: what exceeds 16 bits is cut off
EncodeKeyPayload_one_byte(key, flags, psm) ==
  IF flags = 0 THEN key ELSE IF psm = Null THEN key \o <<flags>>
  ELSE key \o <<flags, 0, psm % 256>>
EncodeKeyPayload(key, flags, psm) ==
  IF flags = 0 THEN key ELSE IF psm = Null THEN key \o <<flags>>
  ELSE key \o <<flags, (psm \div 256) % 256, psm % 256>>

DecodeKeyPayload(payload) ==
  [key |-> Cut(payload, 0, KeyLen),
   flags |-> IF Len(payload) > KeyLen THEN payload[KeyLen + 1] ELSE 0,
   psm |-> IF Len(payload) >= KeyLen + 3
           THEN payload[KeyLen + 2] * 256 + payload[KeyLen + 3] ELSE Null]
=============================================================================

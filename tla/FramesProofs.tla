---------------------------- MODULE FramesProofs ----------------------------
(* What the codec gives back of what it was given, for frames and payloads  *)
(* of any length.                                                           *)
EXTENDS Frames, SequenceTheorems, TLAPS

LEMMA Concat ==
  ASSUME NEW s \in Bytes, NEW t \in Bytes
  PROVE  /\ s \o t \in Bytes /\ Len(s \o t) = Len(s) + Len(t)
         /\ Len(s) \in Nat /\ Len(t) \in Nat
         /\ \A i \in 1 .. Len(s) : (s \o t)[i] = s[i] /\ s[i] \in Byte
         /\ \A i \in 1 .. Len(t) : (s \o t)[Len(s) + i] = t[i] /\ t[i] \in Byte
<1>1. /\ s \o t \in Bytes /\ Len(s \o t) = Len(s) + Len(t)
      /\ \A i \in 1 .. Len(s) + Len(t) :
           (s \o t)[i] = IF i <= Len(s) THEN s[i] ELSE t[i - Len(s)]
  BY ConcatProperties, Zenon DEF Bytes
<1>2. Len(s) \in Nat /\ Len(t) \in Nat
  BY LenProperties, Zenon DEF Bytes
<1>3. /\ \A i \in 1 .. Len(s) : s[i] \in Byte
      /\ \A i \in 1 .. Len(t) : t[i] \in Byte
  BY ElementOfSeq, Zenon DEF Bytes
<1>4. \A i \in 1 .. Len(s) : (s \o t)[i] = s[i]
  BY <1>1, <1>2
<1>5. ASSUME NEW i \in 1 .. Len(t) PROVE (s \o t)[Len(s) + i] = t[i]
  <2>1. Len(s) + i \in 1 .. Len(s) + Len(t) /\ ~(Len(s) + i <= Len(s)) /\ Len(s) + i - Len(s) = i
    BY <1>2
  <2>2. (s \o t)[Len(s) + i] = t[Len(s) + i - Len(s)]
    BY <1>1, <2>1
  <2> QED BY <2>1, <2>2
<1> QED BY <1>1, <1>2, <1>3, <1>4, <1>5

\* A cut that takes in one part of a concatenation is that part.
LEMMA CutFirst ==
  ASSUME NEW s \in Bytes, NEW t \in Bytes
  PROVE  Cut(s \o t, 0, Len(s)) = s
<1>0. /\ s \o t \in Bytes /\ Len(s \o t) = Len(s) + Len(t)
      /\ Len(s) \in Nat /\ Len(t) \in Nat
      /\ \A i \in 1 .. Len(s) : (s \o t)[i] = s[i] /\ s[i] \in Byte
      /\ \A i \in 1 .. Len(t) : (s \o t)[Len(s) + i] = t[i] /\ t[i] \in Byte
  BY Concat, Zenon
<1> DEFINE u == SubSeq(s \o t, 1, Len(s))
<1>1. Cut(s \o t, 0, Len(s)) = u
  BY <1>0 DEF Cut
<1>2. 1 \in Int /\ Len(s) \in Int /\ \A i \in 1 .. Len(s) : (s \o t)[i] \in Byte
  BY <1>0
<1>3. /\ u \in Seq(Byte) /\ Len(u) = IF 1 <= Len(s) THEN Len(s) - 1 + 1 ELSE 0
      /\ \A i \in 1 .. Len(s) - 1 + 1 : u[i] = (s \o t)[1 + i - 1]
  BY ONLY <1>2, SubSeqProperties
<1> HIDE DEF u
<1>4. u \in Seq(Byte) /\ Len(u) = Len(s) /\ \A i \in 1 .. Len(s) : u[i] = s[i]
  BY <1>3, <1>0
<1>5. u = s
  BY <1>4, SeqEqual DEF Bytes
<1> QED BY <1>1, <1>5

LEMMA CutSecond ==
  ASSUME NEW s \in Bytes, NEW t \in Bytes
  PROVE  Cut(s \o t, Len(s), Len(s \o t)) = t
<1>0. /\ s \o t \in Bytes /\ Len(s \o t) = Len(s) + Len(t)
      /\ Len(s) \in Nat /\ Len(t) \in Nat
      /\ \A i \in 1 .. Len(s) : (s \o t)[i] = s[i] /\ s[i] \in Byte
      /\ \A i \in 1 .. Len(t) : (s \o t)[Len(s) + i] = t[i] /\ t[i] \in Byte
  BY Concat, Zenon
<1> DEFINE m == Len(s) + 1
           n == Len(s) + Len(t)
           u == SubSeq(s \o t, m, n)
<1>1. Cut(s \o t, Len(s), Len(s \o t)) = u
  BY <1>0 DEF Cut
<1>2. m \in Int /\ n \in Int /\ \A i \in m .. n : (s \o t)[i] \in Byte
  <2>1. m \in Int /\ n \in Int
    BY <1>0
  <2>2. ASSUME NEW i \in m .. n PROVE (s \o t)[i] \in Byte
    <3>1. i - Len(s) \in 1 .. Len(t) /\ Len(s) + (i - Len(s)) = i
      BY <1>0
    <3> QED BY <3>1, <1>0
  <2> QED BY <2>1, <2>2
<1>3. /\ u \in Seq(Byte) /\ Len(u) = IF m <= n THEN n - m + 1 ELSE 0
      /\ \A i \in 1 .. n - m + 1 : u[i] = (s \o t)[m + i - 1]
  <2> DEFINE st == s \o t
  <2>1. \A i \in m .. n : st[i] \in Byte
    BY <1>2
  <2> HIDE DEF m, n, st
  <2>2. /\ SubSeq(st, m, n) \in Seq(Byte)
        /\ Len(SubSeq(st, m, n)) = IF m <= n THEN n - m + 1 ELSE 0
        /\ \A i \in 1 .. n - m + 1 : SubSeq(st, m, n)[i] = st[m + i - 1]
    BY ONLY <1>2, <2>1, SubSeqProperties
  <2> QED BY <2>2 DEF u, st
<1> HIDE DEF u
<1>4. Len(u) = Len(t) /\ \A i \in 1 .. Len(t) : u[i] = t[i]
  <2>1. n - m + 1 = Len(t) /\ (m <= n <=> Len(t) > 0)
    BY <1>0
  <2>2. ASSUME NEW i \in 1 .. Len(t) PROVE u[i] = t[i]
    <3>1. m + i - 1 = Len(s) + i
      BY <1>0
    <3> QED BY <1>3, <2>1, <3>1, <1>0
  <2>3. Len(u) = Len(t)
    <3> HIDE DEF m, n
    <3> QED BY <1>3, <2>1, <1>0
  <2> QED BY <2>2, <2>3
<1>5. u = t
  BY <1>3, <1>4, SeqEqual DEF Bytes
<1> QED BY <1>1, <1>5

\* decodeFrame(encodeFrame(type, id, payload)) gives all three back, for every
\* id of the session id's length and every payload.
THEOREM FrameRoundTrip ==
  ASSUME NEW type \in Byte, NEW id \in Bytes, Len(id) = SidLen, NEW payload \in Bytes
  PROVE  DecodeFrame(EncodeFrame(type, id, payload))
           = [type |-> type, id |-> id, payload |-> payload]
<1> DEFINE head == <<type>> \o id
           buf == head \o payload
<1>1. /\ <<type>> \in Bytes /\ Len(<<type>>) = 1 /\ <<type>>[1] = type
      /\ SidLen \in Nat /\ Len(payload) \in Nat
  BY LengthAssumption DEF Bytes
<1>2. head \in Bytes /\ Len(head) = Header /\ head[1] = type
  BY <1>1, ConcatProperties DEF Bytes, Header
<1>3. Cut(head, 1, Len(head)) = id
  BY <1>1, <1>2, CutSecond
<1>4. buf \in Bytes /\ Len(buf) = Header + Len(payload) /\ buf[1] = type
  <2> HIDE DEF head
  <2>1. head[1] = type /\ 1 \in 1 .. Len(head)
    BY <1>1, <1>2 DEF Header
  <2> QED BY <1>2, <2>1, Concat
<1>5. Cut(buf, Header, Len(buf)) = payload
  BY <1>2, CutSecond
<1>6. Cut(buf, 1, Header) = Cut(head, 1, Header)
  <2>1. SubSeq(buf, 2, Header) = SubSeq(head, 2, Header)
    <3> HIDE DEF head
    <3>1. CASE SidLen = 0
      <4>1. 2 \in Int /\ Header \in Int /\ Header < 2
        BY <3>1 DEF Header
      <4> QED BY <4>1, SubSeqEmpty, Zenon
    <3>2. CASE SidLen > 0
      <4>1. 2 \in 1 .. Len(head) /\ Header \in 1 .. Len(head)
        BY <3>2, <1>1, <1>2 DEF Header
      <4> QED BY <4>1, <1>2, SubSeqOfConcat1, Zenon DEF Bytes
    <3>3. SidLen = 0 \/ SidLen > 0
      BY <1>1
    <3> QED BY <3>1, <3>2, <3>3, Zenon
  <2> HIDE DEF head
  <2> QED BY <2>1, <1>1, <1>2, <1>4 DEF Cut, Header
<1>7. EncodeFrame(type, id, payload) = buf
  BY ConcatAssociative DEF EncodeFrame
<1> HIDE DEF head, buf
<1>8. ~(Len(buf) < Header)
  BY <1>1, <1>4 DEF Header
<1>9. Cut(buf, 1, Header) = id
  BY <1>2, <1>3, <1>6
<1> QED BY <1>4, <1>5, <1>7, <1>8, <1>9 DEF DecodeFrame

\* Two bytes hold a psm.
LEMMA TwoBytes ==
  ASSUME NEW psm \in Word
  PROVE  /\ (psm \div 256) % 256 \in Byte /\ psm % 256 \in Byte
         /\ ((psm \div 256) % 256) * 256 + (psm % 256) = psm
<1>1. /\ psm \div 256 \in 0 .. 255 /\ psm % 256 \in 0 .. 255
      /\ psm = 256 * (psm \div 256) + (psm % 256)
  BY DEF Word
<1>2. (psm \div 256) % 256 = psm \div 256
  BY <1>1
<1> QED BY <1>1, <1>2 DEF Byte

\* What decodeKeyPayload reads behind a whole key.
LEMMA BehindKey ==
  ASSUME NEW key \in Bytes, Len(key) = KeyLen, NEW tail \in Bytes
  PROVE  /\ Len(key \o tail) = KeyLen + Len(tail) /\ KeyLen \in Nat /\ Len(tail) \in Nat
         /\ \A i \in 1 .. Len(tail) : (key \o tail)[KeyLen + i] = tail[i]
         /\ Cut(key \o tail, 0, KeyLen) = key
<1>1. Cut(key \o tail, 0, Len(key)) = key
  BY CutFirst, Zenon
<1>2. /\ Len(key \o tail) = Len(key) + Len(tail) /\ Len(key) \in Nat /\ Len(tail) \in Nat
      /\ \A i \in 1 .. Len(tail) : (key \o tail)[Len(key) + i] = tail[i]
  BY Concat, Zenon
<1> QED BY <1>1, <1>2, Zenon

\* The OPEN or HELLO payload carries the key and the flags always, and the psm
\* whenever there are flags; without flags the psm is dropped.
THEOREM KeyRoundTrip ==
  ASSUME NEW key \in Bytes, Len(key) = KeyLen, NEW flags \in Byte,
         NEW psm \in Word \cup {Null}
  PROVE  DecodeKeyPayload(EncodeKeyPayload(key, flags, psm))
           = [key |-> key, flags |-> flags, psm |-> IF flags = 0 THEN Null ELSE psm]
<1>1. CASE flags = 0
  <2>1. EncodeKeyPayload(key, flags, psm) = key
    BY <1>1 DEF EncodeKeyPayload
  <2>2. key = key \o << >> /\ << >> \in Bytes /\ Len(<< >>) = 0
    BY ConcatEmptySeq, EmptySeq DEF Bytes
  <2>3. Cut(key, 0, KeyLen) = key
    BY <2>2, BehindKey
  <2>4. ~(Len(key) > KeyLen) /\ ~(Len(key) >= KeyLen + 3)
    BY LengthAssumption
  <2> QED BY <1>1, <2>1, <2>3, <2>4, Zenon DEF DecodeKeyPayload
<1>2. CASE flags # 0 /\ psm = Null
  <2> DEFINE buf == key \o <<flags>>
  <2>1. EncodeKeyPayload(key, flags, psm) = buf
    BY <1>2, Zenon DEF EncodeKeyPayload
  <2>2. <<flags>> \in Bytes /\ Len(<<flags>>) = 1 /\ <<flags>>[1] = flags
    BY DEF Bytes
  <2>3. /\ Len(buf) = KeyLen + Len(<<flags>>) /\ KeyLen \in Nat
        /\ \A i \in 1 .. Len(<<flags>>) : buf[KeyLen + i] = <<flags>>[i]
        /\ Cut(buf, 0, KeyLen) = key
    BY <2>2, BehindKey, Zenon
  <2> HIDE DEF buf
  <2>4. Len(buf) > KeyLen /\ ~(Len(buf) >= KeyLen + 3) /\ buf[KeyLen + 1] = flags
    BY <2>2, <2>3
  <2> QED BY <1>2, <2>1, <2>3, <2>4, Zenon DEF DecodeKeyPayload
<1>3. CASE flags # 0 /\ psm # Null
  <2> DEFINE tail == <<flags, (psm \div 256) % 256, psm % 256>>
             buf == key \o tail
  <2>1. EncodeKeyPayload(key, flags, psm) = buf
    BY <1>3, Zenon DEF EncodeKeyPayload
  <2>2. psm \in Word
    BY <1>3
  <2>3. /\ (psm \div 256) % 256 \in Byte /\ psm % 256 \in Byte
        /\ ((psm \div 256) % 256) * 256 + (psm % 256) = psm
    BY <2>2, TwoBytes
  <2>4. /\ tail \in Bytes /\ Len(tail) = 3 /\ tail[1] = flags
        /\ tail[2] = (psm \div 256) % 256 /\ tail[3] = psm % 256
    BY <2>3 DEF Bytes
  <2> HIDE DEF tail
  <2>5. /\ Len(buf) = KeyLen + Len(tail) /\ KeyLen \in Nat
        /\ \A i \in 1 .. Len(tail) : buf[KeyLen + i] = tail[i]
        /\ Cut(buf, 0, KeyLen) = key
    BY <2>4, BehindKey, Zenon
  <2> HIDE DEF buf
  <2>6. /\ Len(buf) > KeyLen /\ Len(buf) >= KeyLen + 3
        /\ buf[KeyLen + 1] = tail[1] /\ buf[KeyLen + 2] = tail[2] /\ buf[KeyLen + 3] = tail[3]
    BY <2>4, <2>5
  <2>7. buf[KeyLen + 1] = flags /\ buf[KeyLen + 2] * 256 + buf[KeyLen + 3] = psm
    BY <2>3, <2>4, <2>6, Zenon
  <2> QED BY <1>3, <2>1, <2>5, <2>6, <2>7, Zenon DEF DecodeKeyPayload
<1> QED BY <1>1, <1>2, <1>3
=============================================================================

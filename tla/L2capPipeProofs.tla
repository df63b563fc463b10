-------------------------- MODULE L2capPipeProofs --------------------------
(* Proofs about L2capPipe, for any lengths of id and key, any psms and any   *)
(* number of bytes, credit and buffer.                                       *)
EXTENDS L2capPipe, FramesProofs

-----------------------------------------------------------------------------
(* The psm *)

PsmInv == psm \in Word \cup {Null} /\ PsmCarried

LEMMA PsmRead ==
  ASSUME psm \in Word \cup {Null}
  PROVE  DecodeKeyPayload(Hello).psm = psm
<1>1. Key \in Bytes /\ Len(Key) = KeyLen
  BY LengthAssumption DEF Key, Bytes, Byte
<1>2. 1 \in Byte /\ 1 # 0
  BY DEF Byte
<1>3. DecodeKeyPayload(Hello)
        = [key |-> Key, flags |-> 1, psm |-> IF 1 = 0 THEN Null ELSE psm]
  BY <1>1, <1>2, KeyRoundTrip, Zenon DEF Hello
<1>4. (IF 1 = 0 THEN Null ELSE psm) = psm
  BY <1>2, Zenon
<1>5. DecodeKeyPayload(Hello) = [key |-> Key, flags |-> 1, psm |-> psm]
  BY <1>3, <1>4, Zenon
<1> QED BY ONLY <1>5

\* The central opens the psm the server published, for every psm of 16 bits.
THEOREM PsmCorrect == Spec => []PsmCarried
<1>1. Init => PsmInv
  BY L2capAssumption DEF Init, PsmInv, PsmCarried
<1>2. PsmInv /\ [Next]_vars => PsmInv'
  <2> SUFFICES ASSUME PsmInv, [Next]_vars PROVE PsmInv'
    OBVIOUS
  <2>1. psm' = psm
    BY DEF Next, vars, ends, Open, ChannelOpen, OpenTimeout, SessionEnds, HostWrites, Drain,
           Accept, Data, PreambleTimeout, Bind, SessionReaped, HostReads, Connects, Closes
  <2>2. CASE Open
    BY <2>1, <2>2, PsmRead DEF Open, PsmInv, PsmCarried
  <2>3. CASE ~Open
    <3>1. want' = want /\ (c' \in {"opening", "bound"} => c \in {"opening", "bound"})
      BY <2>3 DEF Next, vars, ends, EndBound, ChannelOpen, OpenTimeout, SessionEnds,
           HostWrites, Drain, Accept, Data, PreambleTimeout, Destroy, Bind, SessionReaped, HostReads,
           Connects, Closes
    <3> QED BY <2>1, <3>1 DEF PsmInv, PsmCarried
  <2> QED BY <2>2, <2>3
<1>3. PsmInv => PsmCarried
  BY DEF PsmInv
<1> QED BY <1>1, <1>2, <1>3, PTL DEF Spec

-----------------------------------------------------------------------------
(* The bytes *)

\* The server's stream has been pushed what the channel emitted behind the id;
\* what it emits was written.
ByteInv ==
  /\ wrote \in Nat /\ emitted \in Nat /\ rest \in Nat
  /\ sent \in Nat /\ pushed \in Nat /\ got \in Nat
  /\ emitted <= wrote /\ wrote <= SidLen + sent
  /\ c \in {"idle", "opening"} => wrote = 0
  /\ got <= pushed /\ pushed <= sent
  /\ s \in {"idle", "reading", "matched"} => pushed = 0
  /\ s = "matched" => rest = emitted - SidLen
  /\ s = "bound" => pushed = emitted - SidLen
  /\ torn = FALSE

LEMMA ByteInit == Init => ByteInv
BY LengthAssumption DEF Init, ByteInv

LEMMA ByteStep ==
  ASSUME ByteInv, BackToBack = FALSE, [Next]_vars
  PROVE  ByteInv' /\ [Channel!Write \/ Channel!Deliver]_<<sent, got, torn>>
<1> USE LengthAssumption
<1>1. CASE HostWrites
  <2> PICK n \in 1 .. MaxBytes - sent : sent' = sent + n /\ wrote' = wrote + n
    BY <1>1 DEF HostWrites
  <2>1. c = "bound" /\ UNCHANGED <<c, s, rest, pushed, emitted, got, torn>>
    BY <1>1 DEF HostWrites, ends, stream
  <2>2. MaxBytes \in Nat
    BY L2capAssumption
  <2> QED BY <2>1, <2>2 DEF ByteInv, Channel!Write
<1>2. CASE HostReads
  BY <1>2 DEF HostReads, ByteInv, ends, channel, Channel!Deliver
<1>3. CASE Data
  <2> PICK n \in 1 .. wrote - emitted :
         /\ emitted' = emitted + n
         /\ \/ /\ s = "reading"
               /\ IF emitted + n >= SidLen
                  THEN s' = "matched" /\ rest' = Rest(emitted + n)
                  ELSE UNCHANGED <<s, rest>>
               /\ UNCHANGED <<pushed, paused, torn>>
            \/ s = "matched" /\ UNCHANGED <<s, rest, pushed, paused, torn>>
            \/ /\ s = "bound"
               /\ Push(emitted + 1 - SidLen, emitted + n - SidLen)
               /\ UNCHANGED <<s, rest>>
    BY <1>3 DEF Data
  <2>1. s # "matched" /\ UNCHANGED <<c, wrote, sent, got>>
    BY <1>3 DEF Data
  <2>2. CASE s = "reading"
    BY <2>1, <2>2 DEF ByteInv, Rest
  <2>3. CASE s = "bound"
    <3>1. emitted + 1 - SidLen = pushed + 1
      BY <2>3 DEF ByteInv
    <3>2. pushed' = emitted + n - SidLen /\ UNCHANGED torn
      BY <2>3, <3>1 DEF Push
    <3> QED BY <2>1, <2>3, <3>2 DEF ByteInv
  <2> QED BY <2>1, <2>2, <2>3
<1>4. CASE Bind
  BY <1>4 DEF Bind, Receive, Destroy, EndBound, ChannelGone, ByteInv, host
<1>5. CASE ChannelOpen
  BY <1>5 DEF ChannelOpen, EndBound, ChannelGone, ByteInv, host, stream
<1>6. CASE \/ Open \/ OpenTimeout \/ SessionEnds \/ Drain \/ Accept \/ PreambleTimeout
           \/ SessionReaped \/ Connects \/ Closes \/ UNCHANGED vars
  <2>1. /\ UNCHANGED <<wrote, emitted, rest, pushed, sent, got, torn>>
        /\ c' \in {"idle", "opening"} => c \in {"idle", "opening"}
        /\ s' \in {"idle", "reading", "matched"} => s \in {"idle", "reading", "matched"}
        /\ s' = "matched" => s = "matched"
        /\ s' = "bound" => s = "bound"
    BY <1>6 DEF Open, OpenTimeout, SessionEnds, Drain, Accept, PreambleTimeout, Destroy, SessionReaped,
         Connects, Closes, vars, ends, channel, stream, host, HangUp, ChannelGone, EndBound
  <2> QED BY <2>1 DEF ByteInv
<1> QED BY <1>1, <1>2, <1>3, <1>4, <1>5, <1>6 DEF Next

\* The pipe behind the preamble is a byte stream, wherever the channel splits
\* or glues its bytes, provided that no two 'data' events come in one turn.
THEOREM L2capIsByteChannel == ASSUME BackToBack = FALSE PROVE Spec => BytePipe
<1>1. Init => Channel!Init
  BY DEF Init, Channel!Init
<1> QED BY <1>1, ByteInit, ByteStep, PTL DEF Spec, BytePipe, Channel!Spec

-----------------------------------------------------------------------------
(* The channel in hand *)

\* An open channel is at the side of the server in one of the states it passes
\* on its way to be bound; past the preamble, which only a bound central writes,
\* so is the central.
HandInv ==
  /\ wrote \in Nat /\ emitted \in Nat
  /\ link \in {"none", "asked", "open", "closed"}
  /\ c = "idle" => link = "none"
  /\ link \in {"none", "asked"} => s = "idle" /\ wrote = 0 /\ c # "bound"
  /\ link # "open" => events = {}
  /\ link = "open" => \/ s = "idle" /\ "s" \in events
                      \/ s = "reading"
                      \/ s \in {"matched", "bound"} /\ c = "bound"
  /\ link = "open" /\ wrote # 0 => c = "bound"

\* A step after which the channel is closed, or nothing that HandInv speaks of
\* is other than before.
LEMMA HandClosed ==
  ASSUME HandInv, link' = "closed", events' = {}, c' # "idle", wrote' \in Nat, emitted' \in Nat
  PROVE  HandInv'
BY DEF HandInv

LEMMA HandByCentral ==
  ASSUME HandInv,
         Open \/ ChannelOpen \/ OpenTimeout \/ SessionEnds \/ HostWrites \/ Drain
  PROVE  HandInv'
<1> USE DEF ends, channel, stream, host
<1>1. CASE Open
  <2>1. UNCHANGED <<s, events, wrote, emitted>> /\ c = "idle" /\ c' \in {"opening", "over"}
    BY <1>1 DEF Open
  <2>2. link' \in {link, "asked"}
    BY <1>1 DEF Open
  <2> QED BY <2>1, <2>2 DEF HandInv
<1>2. CASE ChannelOpen
  <2>1. "c" \in events /\ link = "open" /\ UNCHANGED emitted
    BY <1>2 DEF ChannelOpen, HandInv
  <2>2. wrote' \in Nat /\ c # "idle"
    BY <1>2, <2>1, LengthAssumption DEF ChannelOpen, HandInv
  <2>3. CASE ChannelGone
    <3>1. c' # "idle"
      BY <1>2, <2>2 DEF ChannelOpen
    <3> QED BY <2>1, <2>2, <2>3, <3>1, HandClosed DEF ChannelGone, HandInv
  <2>4. CASE ~ChannelGone
    <3>1. /\ UNCHANGED <<s, link>> /\ events' = events \ {"c"}
          /\ \/ c = "opening" /\ c' = "bound"
             \/ c # "opening" /\ UNCHANGED <<c, wrote>>
             \/ c = "opening" /\ c' = "over" /\ UNCHANGED wrote
      BY <1>2, <2>4 DEF ChannelOpen
    <3> QED BY <2>1, <2>2, <3>1 DEF HandInv
  <2> QED BY <2>3, <2>4
<1>3. CASE OpenTimeout
  <2>1. c = "opening" /\ c' = "over" /\ UNCHANGED <<wrote, emitted>>
    BY <1>3 DEF OpenTimeout
  <2>2. \/ UNCHANGED <<link, events, s>>
        \/ link' = "closed" /\ events' = {}
    BY <1>3 DEF OpenTimeout, HangUp, ChannelGone, HandInv
  <2>3. CASE link' = "closed" /\ events' = {}
    BY <2>1, <2>3, HandClosed DEF HandInv
  <2>4. CASE UNCHANGED <<link, events, s>>
    BY <2>1, <2>4 DEF HandInv
  <2> QED BY <2>2, <2>3, <2>4
<1>4. CASE SessionEnds \/ Drain
  <2>1. UNCHANGED <<c, s, link, events, wrote, emitted>>
    BY <1>4 DEF SessionEnds, Drain
  <2> QED BY <2>1 DEF HandInv
<1>5. CASE HostWrites
  <2>1. c = "bound" /\ UNCHANGED <<c, s, link, events, emitted>> /\ wrote' \in Int /\ wrote' > wrote
    BY <1>5 DEF HostWrites, HandInv
  <2> QED BY <2>1 DEF HandInv
<1> QED BY <1>1, <1>2, <1>3, <1>4, <1>5

LEMMA HandByServer ==
  ASSUME HandInv,
         \/ Accept \/ Data \/ PreambleTimeout \/ Bind \/ SessionReaped \/ HostReads
         \/ Connects \/ Closes \/ UNCHANGED vars
  PROVE  HandInv'
<1> USE DEF ends, channel, stream, host
<1>1. CASE Accept
  BY <1>1 DEF Accept, HandInv
<1>2. CASE Data
  <2>1. /\ link = "open" /\ UNCHANGED <<c, link, events, wrote>>
        /\ emitted' \in Nat /\ wrote # 0
        /\ s \in {"reading", "matched", "bound"}
        /\ s' = s \/ s' = "matched"
    BY <1>2 DEF Data, HandInv
  <2> QED BY <2>1 DEF HandInv
<1>3. CASE Bind /\ session
  <2>1. s = "matched" /\ s' = "bound" /\ UNCHANGED <<c, link, events, wrote, emitted>>
    BY <1>3 DEF Bind
  <2> QED BY <2>1 DEF HandInv
<1>4. CASE (Bind /\ ~session) \/ PreambleTimeout
  <2>1. s \in {"matched", "reading"} /\ c' = EndBound(c) /\ link' = "closed" /\ events' = {}
        /\ UNCHANGED <<wrote, emitted>>
    BY <1>4 DEF Bind, PreambleTimeout, PreambleDeadline, Destroy, ChannelGone
  <2>2. c' # "idle"
    BY <2>1 DEF HandInv, EndBound
  <2> QED BY <2>1, <2>2, HandClosed DEF HandInv
<1>5. CASE SessionReaped \/ HostReads \/ UNCHANGED vars
  <2>1. UNCHANGED <<c, s, link, events, wrote, emitted>>
    BY <1>5 DEF SessionReaped, HostReads, vars
  <2> QED BY <2>1 DEF HandInv
<1>6. CASE Connects
  <2>1. /\ link = "asked" /\ UNCHANGED <<c, s, wrote, emitted>>
        /\ \/ link' = "open" /\ events' = {"c", "s"}
           \/ link' = "closed" /\ events' = events
    BY <1>6 DEF Connects
  <2> QED BY <2>1 DEF HandInv
<1>7. CASE Closes
  <2>1. link = "open" /\ c' = EndBound(c) /\ link' = "closed" /\ events' = {}
        /\ UNCHANGED <<wrote, emitted>>
    BY <1>7 DEF Closes, ChannelGone
  <2>2. c' # "idle"
    BY <2>1 DEF HandInv, EndBound
  <2> QED BY <2>1, <2>2, HandClosed DEF HandInv
<1> QED BY <1>1, <1>2, <1>3, <1>4, <1>5, <1>6, <1>7

\* An open channel that is not bound at both sides is in somebody's hand, whose
\* event or deadline ends it: no orphan is ever left that nothing will close.
THEOREM ChannelsInHand == Spec => []ChannelInHand
<1>1. Init => HandInv
  BY DEF Init, HandInv
<1>2. HandInv /\ [Next]_vars => HandInv'
  BY HandByCentral, HandByServer DEF Next
<1>3. HandInv => ChannelInHand
  BY DEF HandInv, ChannelInHand
<1> QED BY <1>1, <1>2, <1>3, PTL DEF Spec

-----------------------------------------------------------------------------
(* Backpressure at the server *)

PauseInv ==
  /\ wrote \in Int /\ emitted \in Int /\ rest \in Int /\ pushed \in Int /\ got \in Int
  /\ PauseOwed

\* A paused channel is owed a resume, for any mark and any split of the bytes.
THEOREM PausesOwed == Spec => []PauseOwed
<1> USE LengthAssumption
<1>1. Init => PauseInv
  BY DEF Init, PauseInv, PauseOwed
<1>2. PauseInv /\ [Next]_vars => PauseInv'
  <2> SUFFICES ASSUME PauseInv, [Next]_vars PROVE PauseInv'
    OBVIOUS
  <2> USE DEF ends, channel, stream, host
  <2>h. HighWater \in Nat
    BY L2capAssumption
  <2>1. CASE Data
    <3>1. PICK n \in 1 .. wrote - emitted :
             /\ emitted' = emitted + n
             /\ \/ /\ s = "reading"
                   /\ IF emitted + n >= SidLen
                      THEN s' = "matched" /\ rest' = Rest(emitted + n)
                      ELSE UNCHANGED <<s, rest>>
                   /\ UNCHANGED <<pushed, paused, torn>>
                \/ s = "matched" /\ UNCHANGED <<s, rest, pushed, paused, torn>>
                \/ /\ s = "bound"
                   /\ Push(emitted + 1 - SidLen, emitted + n - SidLen)
                   /\ UNCHANGED <<s, rest>>
      BY <2>1 DEF Data
    <3>2. ~paused /\ UNCHANGED <<wrote, got>>
      BY <2>1 DEF Data
    <3>3. CASE s = "bound"
      <4>1. UNCHANGED <<s, rest>> /\ (pushed' = emitted + n - SidLen \/ pushed' = pushed)
        BY <3>1, <3>3 DEF Push
      <4>2. pushed' \in Int
        BY <3>1, <4>1 DEF PauseInv
      <4>3. paused' => pushed' - got >= HighWater
        <5>1. paused' = (paused \/ pushed' - got >= HighWater)
          BY <3>1, <3>3 DEF Push
        <5> QED BY <3>2, <5>1, Zenon
      <4> QED BY <3>1, <3>2, <3>3, <4>1, <4>2, <4>3 DEF PauseInv, PauseOwed
    <3>4. CASE s # "bound"
      BY <3>1, <3>2, <3>4 DEF Rest, PauseInv, PauseOwed
    <3> QED BY <3>3, <3>4
  <2>2. CASE Bind
    <3>1. ~paused
      BY <2>2 DEF Bind, PauseInv, PauseOwed
    <3> QED BY <2>2, <3>1 DEF Bind, Receive, PauseInv, PauseOwed
  <2>3. CASE HostReads
    <3>1. PICK n \in got + 1 .. pushed : got' = n /\ paused' = (paused /\ ~Resumes(pushed - n))
      BY <2>3 DEF HostReads
    <3>2. UNCHANGED <<s, wrote, emitted, rest, pushed>>
      BY <2>3 DEF HostReads
    <3>3. paused' => paused /\ ~(pushed - n < HighWater)
      BY <3>1, Zenon DEF Resumes
    <3> QED BY <2>h, <3>1, <3>2, <3>3 DEF PauseInv, PauseOwed
  <2>4. CASE ~Data /\ ~Bind /\ ~HostReads
    <3>1. UNCHANGED <<emitted, rest, pushed, paused, got>>
      BY <2>4 DEF Next, vars, Open, ChannelOpen, OpenTimeout, SessionEnds, HostWrites, Drain,
           Accept, PreambleTimeout, SessionReaped, Connects, Closes
    <3>2. s \in {"bound", "over"} => s' \in {"bound", "over"}
      BY <2>4 DEF Next, vars, Open, ChannelOpen, OpenTimeout, SessionEnds, HostWrites, Drain,
           Accept, PreambleTimeout, PreambleDeadline, SessionReaped, Connects, Closes, HangUp,
           EndBound
    <3>3. wrote' \in Int
      BY <2>4 DEF Next, vars, Open, ChannelOpen, OpenTimeout, SessionEnds, HostWrites, Drain,
           Accept, PreambleTimeout, SessionReaped, Connects, Closes, PauseInv
    <3> QED BY <3>1, <3>2, <3>3 DEF PauseInv, PauseOwed
  <2> QED BY <2>1, <2>2, <2>3, <2>4
<1>3. PauseInv => PauseOwed
  BY DEF PauseInv
<1> QED BY <1>1, <1>2, <1>3, PTL DEF Spec

\* An open channel is in somebody's hands, whatever the timing.
THEOREM ChannelsAttended == Spec => []ChannelAttended
BY ChannelsInHand, PausesOwed, PTL DEF ChannelAttended
=============================================================================

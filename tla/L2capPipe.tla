------------------------------ MODULE L2capPipe ------------------------------
(***************************************************************************)
(* The l2cap pipe of one session (src/lib/l2cap.js), from the HELLO that   *)
(* carries the server's psm to the bytes the central's host writes.  The   *)
(* central opens a channel under a deadline and writes the session id as a *)
(* preamble; the server reads it off the channel, byte by byte or glued to *)
(* what follows, and hands the channel over to an L2CapStream.             *)
(*                                                                         *)
(* The channel and the streams are counters: bytes 1 .. SidLen of the      *)
(* channel are the preamble, the rest are the bytes of the pipe.           *)
(***************************************************************************)
EXTENDS Frames

CONSTANTS
  MaxBytes,   \* bound: bytes the host writes
  Psms,       \* the psms the OS may give the server's listener, or Null
  Credit,     \* bytes a channel takes in before write() returns false
  HighWater,  \* bytes a stream buffers before push() returns false
  BackToBack, \* TRUE: two 'data' events may come in one turn
  Faults      \* the faults that may occur

ASSUME L2capAssumption ==
  /\ {MaxBytes, Credit, HighWater} \subseteq Nat /\ Credit > 0 /\ HighWater > 0
  /\ Psms \subseteq Word \cup {Null}
  /\ BackToBack \in BOOLEAN
  /\ Faults \subseteq {"slow", "silence", "throw", "close", "ended", "reaped"}

VARIABLES
  psm,      \* the server's l2cap.psm, which its HELLO carries
  want,     \* the psm openCentral opens, Null before
  c,        \* the central: "idle", "opening", "bound", "over"
  ended,    \* peripheral._session is no longer the session
  s,        \* the server: "idle", "reading", "matched", "bound", "over"
  session,  \* the server's session is in the table
  shared,   \* the peer's own dial keeps the physical link up
  link,     \* the channel: "none", "asked", "open", "closed"
  events,   \* the ends whose 'channelOpen' is to come
  wrote,    \* bytes written to the channel
  blocked,  \* a write waits for 'drain'
  emitted,  \* bytes the channel emitted at the server
  rest,     \* bytes behind the id that readIdPreamble returns
  pushed,   \* bytes pushed into the server's stream
  paused,   \* the server's channel is paused
  sent, got, torn \* bytes written and read by the hosts, as in ByteChannel

ends == <<psm, want, c, ended, s, session, shared>>
channel == <<link, events, wrote, blocked, emitted>>
stream == <<rest, pushed, paused>>
host == <<sent, got, torn>>
vars == <<ends, channel, stream, host>>

TypeOK ==
  /\ psm \in Psms /\ want \in Psms \cup {Null}
  /\ c \in {"idle", "opening", "bound", "over"}
  /\ s \in {"idle", "reading", "matched", "bound", "over"}
  /\ {ended, session, shared, blocked, paused, torn} \subseteq BOOLEAN
  /\ link \in {"none", "asked", "open", "closed"}
  /\ events \subseteq {"c", "s"}
  /\ wrote \in 0 .. SidLen + MaxBytes /\ emitted \in 0 .. wrote
  /\ rest \in 0 .. MaxBytes
  /\ sent \in 0 .. MaxBytes /\ pushed \in 0 .. sent /\ got \in 0 .. pushed

Init ==
  /\ psm \in Psms /\ want = Null
  /\ c = "idle" /\ ended = FALSE /\ s = "idle" /\ session = TRUE
  /\ shared \in BOOLEAN
  /\ link = "none" /\ events = {} /\ wrote = 0 /\ blocked = FALSE /\ emitted = 0
  /\ rest = 0 /\ pushed = 0 /\ paused = FALSE
  /\ sent = 0 /\ got = 0 /\ torn = FALSE

\* The channel goes: streams on it are destroyed, a preamble reader never looks.
ChannelGone == link' = "closed" /\ events' = {}
EndBound(x) == IF x = "bound" THEN "over" ELSE x

\* _abortDial hangs up; that ends the channel unless the link is shared
HangUp ==
  IF link = "open" /\ ~shared THEN ChannelGone /\ s' = EndBound(s)
  ELSE IF link = "asked" /\ ~shared THEN link' = "closed" /\ UNCHANGED <<events, s>>
  ELSE UNCHANGED <<link, events, s>>

-----------------------------------------------------------------------------
(* The central *)

Key == [i \in 1 .. KeyLen |-> 0]
Hello == EncodeKeyPayload(Key, 1, psm)

\* HELLO with our own pipe's flag: openCentral, or a refusal for want of a psm
Open ==
  /\ c = "idle"
  /\ LET hello == DecodeKeyPayload(Hello)
     IN  IF hello.flags = 1 /\ hello.psm # Null
         THEN \/ /\ c' = "opening" /\ want' = hello.psm /\ link' = "asked"
              \/ "throw" \in Faults /\ c' = "over" /\ UNCHANGED <<want, link>>
         ELSE c' = "over" /\ UNCHANGED <<want, link>>
  /\ UNCHANGED <<psm, ended, s, session, shared, events, wrote, blocked, emitted, stream, host>>

\* the first 'channelOpen' before the deadline; a later one nobody listens for.
\* A preamble that cannot be written aborts the dial and leaves the channel be.
ChannelOpen ==
  /\ "c" \in events
  /\ IF c = "opening" /\ ended
     THEN /\ c' = "over" /\ ChannelGone /\ s' = EndBound(s)
          /\ UNCHANGED wrote
     ELSE \/ /\ events' = events \ {"c"}
             /\ IF c = "opening" THEN c' = "bound" /\ wrote' = SidLen
                                 ELSE UNCHANGED <<c, wrote>>
             /\ UNCHANGED <<s, link>>
          \/ /\ "throw" \in Faults
             /\ c = "opening" /\ c' = "over"
             /\ IF shared THEN events' = events \ {"c"} /\ UNCHANGED <<s, link>>
                          ELSE ChannelGone /\ s' = EndBound(s)
             /\ UNCHANGED wrote
  /\ UNCHANGED <<psm, want, ended, session, shared, blocked, emitted, stream, host>>

\* OPEN_TIMEOUT: the dial is aborted, unless the session has ended meanwhile
OpenTimeout ==
  /\ c = "opening"
  /\ "c" \in events \/ (link = "asked" /\ want = psm) => "slow" \in Faults
  /\ c' = "over"
  /\ IF ended THEN UNCHANGED <<link, events, s>> ELSE HangUp
  /\ UNCHANGED <<psm, want, ended, session, shared, wrote, blocked, emitted, stream, host>>

\* a CLOSE ends the session while the channel is opening
SessionEnds ==
  /\ "ended" \in Faults
  /\ c = "opening" /\ ~ended
  /\ ended' = TRUE
  /\ UNCHANGED <<psm, want, c, s, session, shared, channel, stream, host>>

\* L2CapStream._write
HostWrites ==
  /\ c = "bound" /\ ~blocked
  /\ \E n \in 1 .. MaxBytes - sent :
       /\ sent' = sent + n /\ wrote' = wrote + n
       /\ blocked' = (wrote + n - emitted >= Credit)
  /\ UNCHANGED <<ends, link, events, emitted, stream, got, torn>>

Drain ==
  /\ c = "bound" /\ blocked /\ wrote - emitted < Credit
  /\ blocked' = FALSE
  /\ UNCHANGED <<ends, link, events, wrote, emitted, stream, host>>

-----------------------------------------------------------------------------
(* The server *)

\* acceptServer, up to the await
Accept ==
  /\ "s" \in events /\ s = "idle"
  /\ events' = events \ {"s"} /\ s' = "reading"
  /\ UNCHANGED <<psm, want, c, ended, session, shared, link, wrote, blocked, emitted, stream, host>>

\* push: the bytes a to b of the pipe, and the channel pauses on a full buffer
Push(a, b) ==
  /\ IF a = pushed + 1 THEN pushed' = b /\ UNCHANGED torn
                       ELSE torn' = TRUE /\ UNCHANGED pushed
  /\ paused' = (paused \/ pushed' - got >= HighWater)

\* buf.subarray(SID_LEN)
Rest_all(n) == n
Rest(n) == n - SidLen

\* a 'data' event of n bytes: to the preamble reader, to nobody, to the stream
Data ==
  /\ link = "open" /\ ~paused
  /\ \/ s \in {"reading", "bound"}
     \/ s = "matched" /\ BackToBack
  /\ \E n \in 1 .. wrote - emitted :
       /\ emitted' = emitted + n
       /\ \/ /\ s = "reading"
             /\ IF emitted + n >= SidLen
                THEN s' = "matched" /\ rest' = Rest(emitted + n)
                ELSE UNCHANGED <<s, rest>>
             /\ UNCHANGED <<pushed, paused, torn>>
          \/ s = "matched" /\ UNCHANGED <<s, rest, pushed, paused, torn>>
          \/ /\ s = "bound"
             /\ Push(emitted + 1 - SidLen, emitted + n - SidLen)
             /\ UNCHANGED <<s, rest>>
  /\ UNCHANGED <<psm, want, c, ended, session, shared, link, events, wrote, blocked, sent, got>>

\* channel.destroy() at the server, which closes it at the central too
Destroy_not == UNCHANGED <<c, link, events>>
Destroy == c' = EndBound(c) /\ ChannelGone

\* the timer of readIdPreamble
PreambleDeadline_none == FALSE
PreambleDeadline == s = "reading" /\ (link = "open" /\ c = "bound" => "slow" \in Faults)

PreambleTimeout ==
  /\ PreambleDeadline
  /\ s' = "over" /\ Destroy
  /\ UNCHANGED <<psm, want, ended, session, shared, wrote, blocked, emitted, stream, host>>

\* acceptServer behind the await: the stream takes the bytes glued to the id,
\* past any backpressure, and never hears of a channel that closed meanwhile
Receive_not(n) == UNCHANGED <<pushed, paused>>
Receive(n) == pushed' = n /\ UNCHANGED paused

Bind ==
  /\ s = "matched"
  /\ IF session
     THEN s' = "bound" /\ Receive(rest) /\ UNCHANGED <<c, link, events>>
     ELSE s' = "over" /\ Destroy /\ UNCHANGED <<pushed, paused>>
  /\ UNCHANGED <<psm, want, ended, session, shared, wrote, blocked, emitted, rest, host>>

\* the pending session is reaped: its pipe timer, a CLOSE, a superseding OPEN
SessionReaped ==
  /\ "reaped" \in Faults
  /\ session /\ s # "bound"
  /\ session' = FALSE
  /\ UNCHANGED <<psm, want, c, ended, s, shared, channel, stream, host>>

\* the Noise stream reads; a buffer below the mark calls _read, which resumes
Resumes_never(left) == FALSE
Resumes(left) == left < HighWater

HostReads ==
  /\ \E n \in got + 1 .. pushed :
       got' = n /\ paused' = (paused /\ ~Resumes(pushed - n))
  /\ UNCHANGED <<ends, channel, rest, pushed, sent, torn>>

-----------------------------------------------------------------------------
(* The radio *)

\* the OS opens the channel, unless it stays silent or the psm is not listening
Connects ==
  /\ link = "asked" /\ want = psm
  /\ \/ link' = "open" /\ events' = {"c", "s"}
     \/ "silence" \in Faults /\ link' = "closed" /\ UNCHANGED events
  /\ UNCHANGED <<ends, wrote, blocked, emitted, stream, host>>

\* either end closes the channel, or the link is lost
Closes ==
  /\ "close" \in Faults
  /\ link = "open"
  /\ ChannelGone /\ c' = EndBound(c) /\ s' = EndBound(s)
  /\ UNCHANGED <<psm, want, ended, session, shared, wrote, blocked, emitted, stream, host>>

Next ==
  \/ Open \/ ChannelOpen \/ OpenTimeout \/ SessionEnds \/ HostWrites \/ Drain
  \/ Accept \/ Data \/ PreambleTimeout \/ Bind \/ SessionReaped \/ HostReads
  \/ Connects \/ Closes

Spec == Init /\ [][Next]_vars

\* Timers fire, events are handled, the OS answers or has stayed silent, an open
\* channel carries its bytes and the Noise stream reads what is pushed to it.
FairSpec ==
  /\ Spec
  /\ WF_vars(ChannelOpen) /\ WF_vars(OpenTimeout) /\ WF_vars(Drain) /\ WF_vars(Accept)
  /\ WF_vars(Data) /\ WF_vars(PreambleTimeout) /\ WF_vars(Bind) /\ WF_vars(HostReads)
  /\ WF_vars(Connects)

-----------------------------------------------------------------------------
(* Properties *)

Channel == INSTANCE ByteChannel

\* The pipe behind the preamble is a byte stream: however the channel splits or
\* glues the id and the first Noise bytes, "no bytes race past the switchover",
\* and backpressure on either side loses none.
BytePipe == Channel!Spec

\* The same, as a state property.
InOrder == ~torn

\* The central opens the very psm the server published, whatever its value, so
\* a channel is never asked of a listener that is not there.
PsmCarried == c \in {"opening", "bound"} => want = psm

\* An open channel ends bound at both sides or closed: one that opens after the
\* central gave up, or whose session is gone, is not left behind.
NoOrphan == (link = "open") ~> (link = "closed" \/ (c = "bound" /\ s = "bound"))

\* The same, as what holds meanwhile: an open channel that is not bound at both
\* sides has a 'channelOpen' to be handled, or a preamble the server waits for
\* under its deadline or has just read.  At the server, a dial the central gave
\* up never gets past the preamble.
ChannelInHand ==
  link = "open" /\ ~(c = "bound" /\ s = "bound") =>
    \/ "s" \in events /\ s = "idle"
    \/ s = "reading"
    \/ s = "matched" /\ c = "bound"

\* A paused channel is owed a resume: the server's stream still holds the bytes
\* over its mark, so the read that will bring it below the mark is to come.
PauseOwed == paused => s \in {"bound", "over"} /\ pushed - got >= HighWater

\* An open channel is in somebody's hands: until it is bound at both sides, and
\* then whenever it is paused.
ChannelAttended == ChannelInHand /\ PauseOwed

\* What the host writes is read by the other host, or the channel closes.
BytesArrive ==
  \A n \in 1 .. MaxBytes : (sent >= n) ~> (got >= n \/ link = "closed")
=============================================================================

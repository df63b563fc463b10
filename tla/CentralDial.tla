---------------------------- MODULE CentralDial ----------------------------
(***************************************************************************)
(* One device's dials of one peer (src/lib/transport.js, _onDiscover to    *)
(* _bindCentralStream): discovery, connection, the chain of GATT requests, *)
(* OPEN and the server's answers, over the 'peripheral' event emitter and  *)
(* the listeners the transport leaves on it.  Some platforms hand out one  *)
(* emitter per device, reused by every later connection; others a fresh    *)
(* one per connection.  The pipe is gatt.  Other devices show by the       *)
(* errors of their connections alone.  Where emitters are fresh, a second  *)
(* one while the first is under probe is left out: Links has two attempts. *)
(***************************************************************************)
EXTENDS Integers

CONSTANTS
  MaxConnects,  \* bound: connections made
  MaxSessions,  \* bound: sessions started
  Reuse         \* the possible answers to: are the emitters reused?

ASSUME DialAssumption ==
  /\ MaxConnects \in Nat /\ MaxSessions \in Nat
  /\ Reuse \subseteq BOOLEAN

VARIABLES
  reuse,     \* the platform reuses its emitters
  timer,     \* d.timer, the deadline of the dial
  cool,      \* d.coolUntil lies ahead
  held,      \* d.peripheral is the emitter
  linked,    \* d.linked
  pending,   \* a 'connect' is to come; the calls for one peer merge
  link,      \* the radio link: "down", "dial" while it is probed, "kept"
  connects,  \* connections so far
  once,      \* once[e]: listeners registered with once() for e
  onNotify,  \* listeners for 'notify'
  onError,   \* listeners for 'error'
  due,       \* due[e]: answers of kind e still to come
  session,   \* peripheral._session, 0 for null
  stream,    \* peripheral._stream, as the number of its session, 0 for null
  sessions,  \* sessions started so far, numbered from 1
  asked,     \* sessions the server has not answered
  heard,     \* sessions it said HELLO to
  copies,    \* history: the most often that a stream was handed one DATA frame
  bare,      \* history: the link under probe has lost its deadline to an error of
             \* the adapter, or came when its deadline was over
  crossed    \* history: 'connect' came over a link under probe or a linked peer's
             \* open stream

device == <<timer, cool, held, linked>>
radio == <<pending, link, connects, due>>
listeners == <<once, onNotify, onError>>
pipe == <<session, stream, copies>>
server == <<sessions, asked, heard>>
history == <<bare, crossed>>
vars == <<reuse, device, radio, listeners, pipe, server, history>>

Steps == {"services", "characteristics", "notifyState"}
Ids == 1 .. MaxSessions

TypeOK ==
  /\ reuse \in BOOLEAN /\ timer \in BOOLEAN /\ cool \in BOOLEAN
  /\ held \in BOOLEAN /\ linked \in BOOLEAN /\ pending \in BOOLEAN
  /\ link \in {"down", "dial", "kept"} /\ connects \in 0 .. MaxConnects
  /\ once \in [Steps -> Nat] /\ due \in [Steps -> Nat]
  /\ onNotify \in Nat /\ onError \in Nat /\ copies \in Nat
  /\ sessions \in 0 .. MaxSessions /\ session \in 0 .. sessions /\ stream \in 0 .. sessions
  /\ asked \subseteq 1 .. sessions /\ heard \subseteq 1 .. sessions
  /\ bare \in BOOLEAN /\ crossed \in BOOLEAN

None == [e \in Steps |-> 0]

Init ==
  /\ reuse \in Reuse
  /\ timer = FALSE /\ cool = FALSE /\ held = FALSE /\ linked = FALSE
  /\ pending = FALSE /\ link = "down" /\ connects = 0
  /\ once = None /\ due = None /\ onNotify = 0 /\ onError = 0
  /\ session = 0 /\ stream = 0 /\ sessions = 0 /\ asked = {} /\ heard = {}
  /\ copies = 0 /\ bare = FALSE /\ crossed = FALSE

-----------------------------------------------------------------------------
(* Ends of a dial *)

\* the link goes, and with it what was under way on it, but a 'connect' that is
\* on its way may come all the same
LinkDown ==
  /\ link' = "down" /\ pending' \in {FALSE, pending} /\ due' = None
  /\ bare' = FALSE
  /\ UNCHANGED connects

Disconnected ==
  /\ LinkDown
  /\ asked' = {} /\ heard' = {} /\ UNCHANGED sessions
  /\ crossed' = (crossed /\ stream # 0)

\* _abortDial leaves the session and the stream of the emitter alone
AbortDial == timer' = FALSE /\ cool' = TRUE /\ held' = FALSE /\ Disconnected

\* _endCentral: a long cooldown, and the link is kept if the peer may dial back
EndCentral(keep) ==
  /\ session' = 0 /\ timer' = FALSE /\ cool' = TRUE /\ held' = keep
  /\ IF keep THEN link' = "kept" /\ bare' = FALSE /\ UNCHANGED <<pending, connects, due, crossed>>
             ELSE LinkDown /\ crossed' = FALSE

\* CONNECT_TIMEOUT
Timeout ==
  /\ timer /\ AbortDial
  /\ UNCHANGED <<reuse, linked, listeners, pipe>>

\* _onCentralError, CONNECTION_FAILED or DISCONNECT: every deadline is cleared,
\* whichever device failed to connect, lost its link, or is another
CentralError ==
  /\ \/ /\ pending /\ pending' = FALSE
        /\ UNCHANGED <<link, connects, due, server, crossed>>
     \/ link # "down" /\ Disconnected
     \/ timer /\ UNCHANGED <<radio, server, crossed>>
  /\ timer' = FALSE /\ bare' = (link' = "dial")
  /\ UNCHANGED <<reuse, cool, held, linked, listeners, pipe>>

\* 'error' of the peripheral: every listener aborts the dial
PeripheralError ==
  /\ link # "down"
  /\ IF onError > 0 THEN AbortDial ELSE Disconnected /\ UNCHANGED <<timer, cool, held>>
  /\ UNCHANGED <<reuse, linked, listeners, pipe>>

-----------------------------------------------------------------------------
(* The dial *)

\* _onDiscover
Dialable_while_dialing == ~linked /\ ~cool
Dialable == ~linked /\ ~cool /\ ~timer

\* central.connect may throw
Dial ==
  /\ Dialable
  /\ reuse \/ link # "dial"
  /\ connects < MaxConnects
  /\ \/ /\ timer' = TRUE /\ pending' = TRUE
        /\ UNCHANGED <<cool, held, link, connects, due, server, history>>
     \/ AbortDial
  /\ UNCHANGED <<reuse, linked, listeners, pipe>>

CoolExpires ==
  /\ cool /\ cool' = FALSE
  /\ UNCHANGED <<reuse, timer, held, linked, radio, listeners, pipe, server, history>>

Holds_not == UNCHANGED held
Holds == held' = TRUE

\* _onConnect: a fresh emitter has nothing on it, a reused one its listeners
Connected ==
  /\ pending
  /\ connects < MaxConnects
  /\ connects' = connects + 1 /\ pending' = FALSE /\ link' = "dial"
  /\ Holds
  /\ once' = [e \in Steps |-> IF reuse THEN once[e] + 1 ELSE 1]
  /\ onError' = IF reuse THEN onError + 1 ELSE 1
  /\ due' = IF reuse THEN [due EXCEPT !["services"] = @ + 1]
                     ELSE [None EXCEPT !["services"] = 1]
  /\ IF reuse THEN UNCHANGED <<onNotify, session, stream>>
              ELSE onNotify' = 0 /\ session' = 0 /\ stream' = 0
  /\ bare' = (bare \/ ~timer)
  /\ crossed' = (crossed \/ link = "dial" \/ (linked /\ stream # 0))
  /\ UNCHANGED <<reuse, timer, cool, linked, copies, server>>

\* 'servicesDiscover', 'characteristicsDiscover': each listener asks on
Discovered(e, next) ==
  /\ due[e] > 0
  /\ once' = [once EXCEPT ![e] = 0]
  /\ \/ /\ due' = [due EXCEPT ![e] = @ - 1, ![next] = @ + once[e]]
        /\ UNCHANGED <<timer, cool, held, pending, link, connects, server, history>>
     \/ once[e] > 0 /\ AbortDial
  /\ UNCHANGED <<reuse, linked, onNotify, onError, pipe>>

\* the dial timer runs on behind OPEN
DialTimer_cleared == timer' = FALSE
DialTimer_kept == UNCHANGED timer

\* on('notify'), once for each session started
Subscribed_twice(k) == onNotify' = onNotify + 2 * k
Subscribed(k) == onNotify' = onNotify + k

\* 'notifyState': each listener starts a session, of which the last stays
NotifyState ==
  /\ due["notifyState"] > 0
  /\ once' = [once EXCEPT !["notifyState"] = 0]
  /\ LET k == once["notifyState"]
     IN  \/ /\ sessions + k <= MaxSessions
            /\ due' = [due EXCEPT !["notifyState"] = @ - 1]
            /\ sessions' = sessions + k
            /\ session' = IF k > 0 THEN sessions + k ELSE session
            /\ Subscribed(k) /\ DialTimer_kept
            /\ asked' = asked \cup (sessions + 1 .. sessions + k)
            /\ UNCHANGED <<cool, held, pending, link, connects, heard, history>>
         \/ k > 0 /\ AbortDial /\ UNCHANGED <<session, onNotify>>
  /\ UNCHANGED <<reuse, linked, onError, stream, copies>>

-----------------------------------------------------------------------------
(* _onCentralNotify, run by every 'notify' listener *)

\* HELLO: refused, redundant (the link is kept), or accepted and the pipe bound,
\* by the first listener, so that the others find its stream
Hello(s) ==
  /\ s \in asked
  /\ asked' = asked \ {s}
  /\ IF s # session \/ stream # 0 \/ onNotify = 0
     THEN heard' = heard \cup {s} /\ UNCHANGED <<device, radio, pipe, history>>
     ELSE \/ \E keep \in BOOLEAN : EndCentral(keep) /\ UNCHANGED <<linked, stream, copies, heard>>
          \/ /\ stream' = s
             /\ timer' = FALSE /\ cool' = FALSE /\ linked' = TRUE
             /\ heard' = heard \cup {s}
             /\ UNCHANGED <<held, radio, session, copies, history>>
  /\ UNCHANGED <<reuse, listeners, sessions>>

\* DATA goes to the stream once per listener
Data(s) ==
  /\ s \in heard /\ s = session /\ stream # 0
  /\ copies' = IF onNotify > copies THEN onNotify ELSE copies
  /\ UNCHANGED <<reuse, device, radio, listeners, session, stream, server, history>>

\* CLOSE: the remote end of a live stream, or the answer to our OPEN
Close(s) ==
  /\ s \in asked \cup heard
  /\ asked' = asked \ {s} /\ heard' = heard \ {s}
  /\ IF s # session THEN UNCHANGED <<device, radio, pipe, history>>
     ELSE IF stream # 0
     THEN session' = 0 /\ UNCHANGED <<device, radio, stream, copies, history>>
     ELSE \E keep \in BOOLEAN : EndCentral(keep) /\ UNCHANGED <<linked, stream, copies>>
  /\ UNCHANGED <<reuse, listeners, sessions>>

StreamCloses_stale ==
  /\ stream # 0
  /\ session' = 0 /\ held' = FALSE /\ linked' = FALSE /\ Disconnected
  /\ UNCHANGED <<reuse, stream, timer, cool, listeners, copies>>

\* stream 'close', for whatever reason: the refs are dropped and the link hung up
StreamCloses ==
  /\ stream # 0
  /\ session' = 0 /\ stream' = 0 /\ held' = FALSE
  /\ LinkDown /\ crossed' = FALSE
  /\ asked' = {} /\ heard' = {}
  /\ UNCHANGED <<reuse, timer, cool, linked, listeners, copies, sessions>>

\* 'close' of its connection, which the stream's sets off
ConnCloses ==
  /\ linked /\ stream = 0
  /\ linked' = FALSE
  /\ UNCHANGED <<reuse, timer, cool, held, radio, listeners, pipe, server, history>>

Next ==
  \/ Dial \/ CoolExpires \/ Connected
  \/ Timeout \/ CentralError \/ PeripheralError
  \/ Discovered("services", "characteristics")
  \/ Discovered("characteristics", "notifyState")
  \/ NotifyState \/ StreamCloses \/ ConnCloses
  \/ \E s \in Ids : Hello(s) \/ Data(s) \/ Close(s)

Spec == Init /\ [][Next]_vars

-----------------------------------------------------------------------------
(* Properties *)

\* "the dial timer keeps running until the server answers": a link under probe
\* has a deadline until its pipe is bound and is not dialed again, unless an error
\* of the adapter, its own or another device's, has cleared the deadline or the
\* 'connect' came behind it.
Deadline ==
  link = "dial" /\ ~bare => ~pending /\ (stream = 0 => timer)

\* The same without the exception; the code violates it.
AlwaysTimed == link = "dial" /\ stream = 0 => timer

\* The stream of an emitter is that of its current session, so the DATA frames of
\* one session never reach the stream of another: "stale refs here would make the
\* next HELLO look like a live session" (_bindCentralStream), on emitters that
\* keep session, stream and listeners from every earlier connection.  Only a
\* 'connect' over a link under probe or over an open stream undoes it, and by
\* Deadline a probe is only dialed again when it has lost its deadline.
OwnStream == stream # 0 /\ ~crossed => session \in {0, stream}

\* The same with no exception; the code violates it.
AlwaysOwnStream == stream # 0 => session \in {0, stream}

\* suspend can say goodbye: the emitter of a session under way is held.
HeldForGoodbye == link = "dial" /\ session # 0 => held

\* Where the emitters are fresh, a connection opens one session and a DATA frame
\* reaches the stream once.
FreshOnce == ~reuse => sessions <= connects /\ copies <= 1

\* Every frame of a session reaches the stream of that session and, on a fresh
\* emitter, once.
FramesReachOwner == OwnStream /\ FreshOnce

\* The same where they are reused: "iOS reuses peripheral objects across
\* reconnects", so what a reconnection hands the stream must not depend on it.
DataOnce == copies <= 1
=============================================================================

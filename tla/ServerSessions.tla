--------------------------- MODULE ServerSessions ---------------------------
(***************************************************************************)
(* The server side of the l2cap pipe of one device: the session table of   *)
(* src/lib/transport.js and the published channel of src/lib/l2cap.js.     *)
(*                                                                         *)
(* A HELLO hands the central the psm of the published channel; the central *)
(* opens it and writes the session id as a preamble, which binds the       *)
(* channel to its session.  A dead session pins its psm, so the listener   *)
(* is rotated (unpublished and published anew), but not while a session is *)
(* still opening its channel.  The centrals are the environment.           *)
(***************************************************************************)
EXTENDS Integers, FiniteSets

CONSTANTS
  Ids,          \* session ids; random, so each serves one session
  MaxInbound,   \* maxInbound
  MaxPsm,       \* bound: how many listeners are asked for
  MaxDrains,    \* bound: how many suspend() calls drain at the same time
  Mac,          \* isMac: suspend retracts the listener
  SlowPublish   \* FALSE: 'channelPublish' follows publishChannel before anything else

ASSUME ServerAssumption ==
  /\ MaxInbound \in Nat \ {0}
  /\ MaxPsm \in Nat \ {0}
  /\ MaxDrains \in Nat \ {0}
  /\ {Mac, SlowPublish} \subseteq BOOLEAN

VARIABLES
  used,          \* ids whose OPEN was handled
  sessions,      \* the keys of transport._sessions
  stream,        \* stream[id]: session.stream, "none" before its channel is bound
  given,         \* given[id]: the psm the HELLO of id carried
  chan,          \* chan[id]: the channel the central opens for id
  psm,           \* l2cap.psm, 0 for null
  listeners,     \* the channels the OS has published for us
  publishing,    \* publishChannel calls whose 'channelPublish' is to come
  lastPsm,       \* the psm the OS handed out last
  cyclePending,  \* transport._cyclePending
  suspended,     \* transport._suspended
  draining,      \* how many suspend() calls await _sayGoodbye
  told,          \* history: ids _sayGoodbye sent a CLOSE to
  burned,        \* history: psms that carried the channel of a dead session
  torn           \* history: a suspend has ended on a transport resumed meanwhile

table == <<used, sessions, stream, given>>
listener == <<psm, listeners, publishing, lastPsm>>
toggles == <<suspended, draining, told, torn>>
vars == <<table, chan, listener, cyclePending, toggles, burned>>

TypeOK ==
  /\ used \subseteq Ids
  /\ sessions \subseteq used
  /\ stream \in [Ids -> {"none", "live", "dying", "closed"}]
  /\ given \in [Ids -> 0 .. MaxPsm]
  /\ \A id \in sessions : given[id] # 0
  /\ chan \in [Ids -> {"none", "opening", "unread", "done"}]
  /\ psm \in 0 .. MaxPsm
  /\ listeners \subseteq 1 .. MaxPsm
  /\ publishing \in Nat /\ lastPsm \in Nat /\ publishing + lastPsm <= MaxPsm
  /\ cyclePending \in BOOLEAN
  /\ suspended \in BOOLEAN
  /\ draining \in 0 .. MaxDrains
  /\ told \subseteq used
  /\ torn \in BOOLEAN
  /\ burned \subseteq 1 .. MaxPsm

\* _startServer has asked for the first channel
Init ==
  /\ used = {} /\ sessions = {}
  /\ stream = [id \in Ids |-> "none"]
  /\ given = [id \in Ids |-> 0]
  /\ chan = [id \in Ids |-> "none"]
  /\ psm = 0 /\ listeners = {} /\ publishing = 1 /\ lastPsm = 0
  /\ cyclePending = FALSE
  /\ suspended = FALSE /\ draining = 0 /\ told = {} /\ torn = FALSE
  /\ burned = {}

-----------------------------------------------------------------------------
(* The listener: l2cap.js *)

\* publish() issues publishChannel, unpublish() retracts the psm it knows of
Unpublished == listeners \ {psm}

Cycle_keeps_old ==
  /\ publishing + lastPsm < MaxPsm
  /\ psm' = 0
  /\ publishing' = publishing + 1
  /\ UNCHANGED <<listeners, lastPsm>>

Cycle ==
  /\ publishing + lastPsm < MaxPsm
  /\ listeners' = Unpublished
  /\ psm' = 0
  /\ publishing' = publishing + 1
  /\ UNCHANGED lastPsm

\* 'channelPublish'
ChannelPublished ==
  /\ publishing > 0
  /\ publishing' = publishing - 1
  /\ lastPsm' = lastPsm + 1
  /\ psm' = lastPsm + 1
  /\ listeners' = listeners \cup {lastPsm + 1}
  /\ UNCHANGED <<table, chan, cyclePending, toggles, burned>>

Pending == {id \in sessions : stream[id] = "none"}

\* _maybeCycle, once the table has changed
MaybeCycle_at_once == cyclePending' = FALSE /\ Cycle

MaybeCycle ==
  IF Pending' # {} THEN cyclePending' = TRUE /\ UNCHANGED listener
  ELSE cyclePending' = FALSE /\ Cycle

\* _reapSession
Reap_without_rotation(id) ==
  /\ sessions' = sessions \ {id}
  /\ burned' = IF stream[id] = "none" THEN burned ELSE burned \cup {given[id]}
  /\ UNCHANGED <<listener, cyclePending>>

Reap(id) ==
  /\ sessions' = sessions \ {id}
  /\ burned' = IF stream[id] = "none" THEN burned ELSE burned \cup {given[id]}
  /\ IF suspended THEN UNCHANGED <<listener, cyclePending>> ELSE MaybeCycle

-----------------------------------------------------------------------------
(* Frames: _onServerFrame, not reached while suspended *)

OpenAccepted_counts_bound(id) ==
  /\ ~suspended
  /\ id \notin used
  /\ psm # 0 /\ Cardinality(sessions \ Pending) < MaxInbound
  /\ used' = used \cup {id}
  /\ sessions' = sessions \cup {id}
  /\ given' = [given EXCEPT ![id] = psm]
  /\ chan' = [chan EXCEPT ![id] = "opening"]
  /\ UNCHANGED <<stream, listener, cyclePending, toggles, burned>>

OpenAccepted(id) ==
  /\ ~suspended
  /\ id \notin used
  /\ psm # 0 /\ Cardinality(sessions) < MaxInbound
  /\ used' = used \cup {id}
  /\ sessions' = sessions \cup {id}
  /\ given' = [given EXCEPT ![id] = psm]
  /\ chan' = [chan EXCEPT ![id] = "opening"]
  /\ UNCHANGED <<stream, listener, cyclePending, toggles, burned>>

OpenRefused(id) ==
  /\ ~suspended
  /\ id \notin used
  /\ psm = 0 \/ Cardinality(sessions) >= MaxInbound
  /\ used' = used \cup {id}
  /\ UNCHANGED <<sessions, stream, given, chan, listener, cyclePending, toggles, burned>>

SessionFrame_spares_stream(id) ==
  /\ ~suspended
  /\ id \in sessions
  /\ UNCHANGED stream
  /\ Reap(id)
  /\ UNCHANGED <<used, given, chan, toggles>>

\* CLOSE, which also ends a bound stream, or DATA before the channel is bound
SessionFrame(id) ==
  /\ ~suspended
  /\ id \in sessions
  /\ stream' = [stream EXCEPT ![id] = IF @ = "live" THEN "dying" ELSE @]
  /\ Reap(id)
  /\ UNCHANGED <<used, given, chan, toggles>>

-----------------------------------------------------------------------------
(* Channels and streams *)

\* 'channelOpen': the channel opens only on a published psm; a halted transport
\* destroys it
ChannelOpens(id) ==
  /\ chan[id] = "opening"
  /\ given[id] \in listeners
  /\ chan' = [chan EXCEPT ![id] = IF suspended THEN "done" ELSE "unread"]
  /\ UNCHANGED <<table, listener, cyclePending, toggles, burned>>

\* the central gives up on the channel, or the id preamble never arrives
ChannelGivenUp(id) ==
  /\ chan[id] \in {"opening", "unread"}
  /\ chan' = [chan EXCEPT ![id] = "done"]
  /\ UNCHANGED <<table, listener, cyclePending, toggles, burned>>

\* acceptServer after its await: no session to join
PreambleUnmatched(id) ==
  /\ chan[id] = "unread"
  /\ id \notin Pending
  /\ chan' = [chan EXCEPT ![id] = "done"]
  /\ UNCHANGED <<table, listener, cyclePending, toggles, burned>>

PreambleBinds_forgets(id) ==
  /\ chan[id] = "unread"
  /\ id \in Pending
  /\ chan' = [chan EXCEPT ![id] = "done"]
  /\ stream' = [stream EXCEPT ![id] = IF suspended THEN "dying" ELSE "live"]
  /\ UNCHANGED <<used, sessions, given, listener, cyclePending, toggles, burned>>

\* acceptServer after its await, _bindServerStream: a halted _onChannel destroys
\* the stream it was just given
PreambleBinds(id) ==
  /\ chan[id] = "unread"
  /\ id \in Pending
  /\ chan' = [chan EXCEPT ![id] = "done"]
  /\ stream' = [stream EXCEPT ![id] = IF suspended THEN "dying" ELSE "live"]
  /\ UNCHANGED <<used, sessions, given>>
  /\ IF cyclePending THEN MaybeCycle ELSE UNCHANGED <<listener, cyclePending>>
  /\ UNCHANGED <<toggles, burned>>

\* keepalive timeout, a retired duplicate, an error
StreamDies(id) ==
  /\ stream[id] = "live"
  /\ stream' = [stream EXCEPT ![id] = "dying"]
  /\ UNCHANGED <<used, sessions, given, chan, listener, cyclePending, toggles, burned>>

\* stream 'close': _closeServerSession
StreamCloses(id) ==
  /\ stream[id] = "dying"
  /\ stream' = [stream EXCEPT ![id] = "closed"]
  /\ IF id \in sessions THEN Reap(id)
     ELSE UNCHANGED <<sessions, listener, cyclePending, burned>>
  /\ UNCHANGED <<used, given, chan, toggles>>

PipeTimeout_spares_unopened(id) ==
  /\ id \in Pending
  /\ chan[id] # "opening"
  /\ sessions' = sessions \ {id}
  /\ UNCHANGED <<used, stream, given, chan, listener, cyclePending, toggles, burned>>

\* PIPE_PENDING_TIMEOUT: the session leaves the table without _reapSession
PipeTimeout(id) ==
  /\ id \in Pending
  /\ sessions' = sessions \ {id}
  /\ UNCHANGED <<used, stream, given, chan, listener, cyclePending, toggles, burned>>

-----------------------------------------------------------------------------
(* suspend() and resume() *)

Suspend_without_goodbye ==
  /\ draining < MaxDrains
  /\ suspended' = TRUE /\ draining' = draining + 1
  /\ UNCHANGED <<table, chan, listener, cyclePending, told, torn, burned>>

\* "Idempotent": each call drains on its own, also on a suspended transport
Suspend ==
  /\ draining < MaxDrains
  /\ suspended' = TRUE /\ draining' = draining + 1
  /\ told' = told \cup sessions
  /\ UNCHANGED <<table, chan, listener, cyclePending, torn, burned>>

\* suspend() after _sayGoodbye: _reapAllSessions destroys the streams.  It does
\* not look whether the transport has been resumed in the meantime.
ReapAll ==
  /\ draining > 0
  /\ draining' = draining - 1
  /\ torn' = (torn \/ ~suspended)
  /\ sessions' = {}
  /\ stream' = [id \in Ids |-> IF id \in sessions /\ stream[id] = "live" THEN "dying" ELSE stream[id]]
  /\ burned' = burned \cup {given[id] : id \in sessions \ Pending}
  /\ UNCHANGED <<used, given, chan, suspended, told>>

\* on a mac the listener is retracted
Retract ==
  IF Mac THEN listeners' = Unpublished /\ psm' = 0 /\ UNCHANGED <<publishing, lastPsm>>
  ELSE UNCHANGED listener

SuspendEnds_keeps_rotation == ReapAll /\ Retract /\ UNCHANGED cyclePending

SuspendEnds_stays_published == ReapAll /\ cyclePending' = FALSE /\ UNCHANGED listener

SuspendEnds == ReapAll /\ cyclePending' = FALSE /\ Retract

\* resume(), in the middle of a drain as well.  setTopic resumes right behind
\* the end of its suspend, when another call may have resumed the transport
\* already: the table is still empty then.
Resume ==
  /\ suspended \/ sessions = {}
  /\ suspended' = FALSE /\ torn' = FALSE
  /\ Cycle
  /\ UNCHANGED <<table, chan, cyclePending, draining, told, burned>>

-----------------------------------------------------------------------------
SessionStep(id) ==
  \/ OpenAccepted(id) \/ OpenRefused(id) \/ SessionFrame(id)
  \/ ChannelOpens(id) \/ ChannelGivenUp(id) \/ PreambleUnmatched(id) \/ PreambleBinds(id)
  \/ StreamDies(id) \/ StreamCloses(id) \/ PipeTimeout(id)

Next ==
  \/ ChannelPublished
  \/ /\ SlowPublish \/ publishing = 0
     /\ \/ \E id \in Ids : SessionStep(id)
        \/ Suspend \/ SuspendEnds \/ Resume

Spec == Init /\ [][Next]_vars

\* The pipe timer expires, a destroyed stream emits 'close', and a suspend in
\* progress completes; the centrals need not do anything.
Fairness ==
  /\ \A id \in Ids : WF_vars(PipeTimeout(id)) /\ WF_vars(StreamCloses(id))
  /\ WF_vars(SuspendEnds)

FairSpec == Spec /\ Fairness

-----------------------------------------------------------------------------
(* Properties *)

\* Why NeverYanked and DeadPsmRotates hold.  Psms grow, and what sessions were
\* given or have burned was handed out.
PsmOrder ==
  /\ psm <= lastPsm
  /\ given \in [Ids -> 0 .. lastPsm]
  /\ burned \subseteq 1 .. lastPsm

\* l2cap.psm is a published channel.
PsmPublished == psm # 0 => psm \in listeners

StreamOfUsed == \A id \in Ids : stream[id] # "none" => id \in used

\* A suspend that completed, and that nobody undid, left neither sessions nor a
\* held rotation.
SuspendClears == suspended /\ draining = 0 => sessions = {} /\ ~cyclePending

\* A suspended transport takes in no session, and has said goodbye to those it has.
GoodbyeSaid == suspended => sessions \subseteq told

\* "Never yank the psm out from under a session still opening its channel"
\* (_maybeCycle): a pending session can still reach the listener its HELLO
\* named, across reaps, rotations, suspends and resumes, unless a suspend has
\* told its central to close: resume() cycles without a look at the table.
NeverYanked == \A id \in Pending \ told : given[id] \in listeners

\* While the transport runs, a psm that carried a dead session is due for rotation.
BurnedIsDue == ~suspended /\ psm \in burned => cyclePending

\* A psm that carried a dead session is not handed out again, except while the
\* rotation is held for a pending session (_reapSession: "Rotate the listener
\* so the next HELLO carries a virgin psm"), or after a suspend that ended on a
\* resumed transport: it reaps the sessions of that transport and rotates nothing.
DeadPsmRotates == torn \/ BurnedIsDue

\* The inductive invariant: sessions only enter the table on a published psm
\* and the psm is only retracted from under a table whose pending sessions, if
\* any, have been told.
SessionsInv ==
  /\ TypeOK
  /\ PsmOrder
  /\ PsmPublished
  /\ StreamOfUsed
  /\ SuspendClears
  /\ GoodbyeSaid
  /\ NeverYanked
  /\ DeadPsmRotates

\* A held rotation has a pending session to wait for: "hold the rotation until
\* the last pending session resolves (bind or reap)".  The code violates it: a
\* pending session that times out leaves the rotation held.
HeldForSomeone == ~suspended /\ cyclePending => Pending # {}

\* The step that resolves the last pending session, by a bind, a reap or a late
\* end of a suspend, ends the hold as well (_maybeCycle, _bindServerStream),
\* unless it is the pipe timer, which takes the session out of the table and
\* leaves the rotation to the next reap.
LastOneRotates ==
  [][/\ ~suspended /\ cyclePending
     /\ Pending # {} /\ Pending' = {}
     => ~cyclePending' \/ \E id \in Pending : PipeTimeout(id)]_vars

\* No more than maxInbound channels are served or promised to a central at once,
\* although sessions leave the table before their streams close: what _sessions
\* does not count is over or about to be.
Served == {id \in Ids : id \in Pending \/ stream[id] = "live"}

ServedWithinMax == Cardinality(Served) <= MaxInbound

\* "publishes one channel per server" (L2CapPipe).
OneListener == Cardinality(listeners) <= 1

\* "Retract the published channel on suspend" (unpublish): on a mac no listener
\* outlives a completed suspend.
SuspendRetracts ==
  Mac /\ suspended /\ draining = 0 => listeners = {}

\* No listener is left behind, by rotations or suspends.
NoStrayListener == OneListener /\ SuspendRetracts

\* A session waiting for its channel is bound or reaped in the end, whatever
\* the central does, and stops counting against maxInbound.
PendingResolves ==
  \A id \in Ids : id \in Pending ~> id \notin Pending

=============================================================================

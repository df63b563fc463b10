------------------------------- MODULE Links -------------------------------
(***************************************************************************)
(* How ble-swarm devices turn discoveries into links                       *)
(* (src/lib/transport.js): a central dials a peripheral it discovered and  *)
(* sends OPEN, the server answers HELLO or CLOSE, both bind the session to *)
(* a data pipe (gatt or l2cap), run a Noise handshake over it, and _track  *)
(* keeps one of the channels two devices may have opened to one another.   *)
(*                                                                         *)
(* Every device runs both roles.  A session is one dial attempt of one     *)
(* device to another; its id is the random id of the OPEN frame.  An id    *)
(* has a central end "c" at the dialer and a server end "s" at the dialed. *)
(* Frames of one session stay in order; frames of different sessions may   *)
(* overtake each other, they ride different peripherals.                   *)
(***************************************************************************)
EXTENDS Integers, Sequences, FiniteSets, Functions

CONSTANTS
  Devices,      \* the devices in radio range of each other
  Key,          \* Key[d]: the static public key of d, as its rank in compare order
  Pipe,         \* Pipe[d]: the data pipe d was built with, "gatt" or "l2cap"
  Accepts,      \* Accepts[d]: the devices the shouldConnect policy of d lets in
  Sees,         \* Sees[d]: the devices whose advertisement d can discover
  MaxInbound,   \* MaxInbound[d]: the maxInbound option of d
  MaxOutbound,  \* MaxOutbound[d]: the maxOutbound option of d
  Slots,        \* bound: how many sessions of a dialer to one device may coexist
  Faults,       \* which faults the environment produces
  SharedLink,   \* TRUE: both directions of a pair ride one physical link, and a
                \* disconnect takes it down for both
  None          \* no session

ASSUME KeyAssumption ==
  /\ Key \in [Devices -> Nat]
  /\ \A d, e \in Devices : Key[d] = Key[e] => d = e

ASSUME ConfigAssumption ==
  /\ Pipe \in [Devices -> {"gatt", "l2cap"}]
  /\ Accepts \in [Devices -> SUBSET Devices]
  /\ Sees \in [Devices -> SUBSET Devices]
  /\ \A d \in Devices : d \notin Sees[d]
  /\ MaxInbound \in [Devices -> Nat]
  /\ MaxOutbound \in [Devices -> Nat]
  /\ Faults \subseteq {"slow", "error", "centralError", "loss", "psm"}
  /\ SharedLink \in BOOLEAN

Ids == {i \in [from : Devices, to : Devices, n : Slots] : i.to \in Sees[i.from]}

ASSUME NoneAssumption == None \notin Ids

Ends == {"c", "s"}
Other(r) == IF r = "c" THEN "s" ELSE "c"
Owner(r, id) == IF r = "c" THEN id.from ELSE id.to
Remote(r, id) == IF r = "c" THEN id.to ELSE id.from

\* none     no session object, or one that is gone for good
\* dialing  connect, service discovery and subscribe under way     (central)
\* opening  OPEN sent, no answer handled yet                       (central)
\* upgrading  HELLO handled, the l2cap channel is being opened     (central)
\* pending  accepted, waiting for its l2cap channel                (server)
\* raw      bound to a stream, Noise handshake under way
\* open     Noise handshake complete at this end
\* closing  stream and conn destroyed, their 'close' events still to come
States == {"none", "dialing", "opening", "upgrading", "pending", "raw", "open", "closing"}
Live == {"raw", "open"}

VARIABLES
  st,        \* st[r][id]: the state of end r of session id
  due,       \* due[r][id]: the 'close' events a closing end still has to emit
  up,        \* the sessions whose physical link is up
  noise,     \* noise[id]: how far the Noise handshake of id got
  offered,   \* sessions whose l2cap channel and id preamble are on their way
  sessions,  \* transport._sessions of every device (an id names its server)
  out,       \* out[id]: frames written by the central
  back,      \* back[id]: frames notified by the server
  dev,       \* dev[d][e]: the dial record d keeps of the peripheral e
  cand,      \* cand[d]: discoveries d holds for the next dial window
  peers,     \* peers[d][e]: the session d tracks as its link to e
  lost       \* history, lost[r][id]: the channel end r retired id in favour of

vars == <<st, due, up, noise, offered, sessions, out, back, dev, cand, peers, lost>>

DialRecord == [timer : Ids \cup {None}, linked : BOOLEAN, cool : BOOLEAN, known : BOOLEAN]

TypeOK ==
  /\ st \in [Ends -> [Ids -> States]]
  /\ due \in [Ends -> [Ids -> SUBSET {"raw", "conn"}]]
  /\ up \subseteq Ids
  /\ noise \in [Ids -> {"no", "answered", "final"}]
  /\ offered \subseteq Ids
  /\ sessions \subseteq Ids
  /\ out \in [Ids -> Seq({"OPEN", "CLOSE"})]
  /\ back \in [Ids -> Seq({"HELLO", "CLOSE", "FINAL"})]
  /\ dev \in [Devices -> [Devices -> DialRecord]]
  /\ cand \in [Devices -> SUBSET Devices]
  /\ peers \in [Devices -> [Devices -> Ids \cup {None}]]
  /\ lost \in [Ends -> [Ids -> Ids \cup {None}]]

Init ==
  /\ st = [r \in Ends |-> [id \in Ids |-> "none"]]
  /\ due = [r \in Ends |-> [id \in Ids |-> {}]]
  /\ up = {}
  /\ noise = [id \in Ids |-> "no"]
  /\ offered = {}
  /\ sessions = {}
  /\ out = [id \in Ids |-> <<>>]
  /\ back = [id \in Ids |-> <<>>]
  /\ dev = [d \in Devices |-> [e \in Devices |->
              [timer |-> None, linked |-> FALSE, cool |-> FALSE, known |-> FALSE]]]
  /\ cand = [d \in Devices |-> {}]
  /\ peers = [d \in Devices |-> [e \in Devices |-> None]]
  /\ lost = [r \in Ends |-> [id \in Ids |-> None]]

-----------------------------------------------------------------------------
(* Helpers: what the code reads *)

Serving(id) == st["s"][id] \in {"pending", "raw", "open"}
Linked(d) == {e \in Devices : peers[d][e] # None}
Inbound(d) == {id \in sessions : id.to = d}
IsDialing(d) == \E e \in Devices : dev[d][e].timer # None

\* The server's _initiatorWins and _track's `preferred`: of two channels of a
\* pair the one initiated by the smaller static key is kept.
InitiatorWins(id) == Key[id.from] < Key[id.to]
InitiatorIsUsSmaller(r, id) == Key[Owner(r, id)] < Key[Remote(r, id)]
Preferred_own_dial(r, id) == r = "c"
Preferred_newest(r, id) == TRUE
Preferred(r, id) == (r = "c") = InitiatorIsUsSmaller(r, id)

PipesAgree(d, e) == Pipe[d] = Pipe[e]
MayLink(d, e) == e \in Accepts[d] /\ d \in Accepts[e] /\ PipesAgree(d, e)

Dialable_during_dial(d, e) ==
  /\ e \in Sees[d]
  /\ ~dev[d][e].linked
  /\ ~(dev[d][e].known /\ peers[d][e] # None)
  /\ ~dev[d][e].cool
  /\ Cardinality(Linked(d)) < MaxOutbound[d]

Dialable_until_tracked(d, e) ==
  /\ e \in Sees[d]
  /\ ~(dev[d][e].known /\ peers[d][e] # None)
  /\ ~dev[d][e].cool
  /\ dev[d][e].timer = None
  /\ Cardinality(Linked(d)) < MaxOutbound[d]

\* the discoveries _onDiscover acts on
Dialable(d, e) ==
  /\ e \in Sees[d]
  /\ ~dev[d][e].linked
  /\ ~(dev[d][e].known /\ peers[d][e] # None)
  /\ ~dev[d][e].cool
  /\ dev[d][e].timer = None
  /\ Cardinality(Linked(d)) < MaxOutbound[d]

\* A session slot stands for fresh random ids: it is used again once nothing in
\* the system refers to the session it stood for.  An aborted dial leaves its
\* session object behind ("opening"), unreachable once the link is down.
Forgotten(id) ==
  /\ st["c"][id] = "none" \/ (st["c"][id] = "opening" /\ id \notin up)
  /\ st["s"][id] = "none"
  /\ out[id] = <<>> /\ back[id] = <<>>
  /\ id \notin offered
  /\ \A d, e \in Devices : dev[d][e].timer # id

(* Helpers: what the code writes *)

\* A frame handed to a link that is down goes nowhere.
Sent(id, frame) == IF id \in up THEN [out EXCEPT ![id] = Append(@, frame)] ELSE out
Notified(id, frame) == IF id \in up THEN [back EXCEPT ![id] = Append(@, frame)] ELSE back

\* central.disconnect(peripheral)
HungUp(id) ==
  IF SharedLink THEN {i \in up : {i.from, i.to} # {id.from, id.to}} ELSE up \ {id}

\* the record the dialer of id keeps of the peripheral it dialed
Record(id) == dev[id.from][id.to]
Noted(id, rec) == [dev EXCEPT ![id.from][id.to] = rec]
BackedOff_keeps_timer(rec) == [rec EXCEPT !.cool = TRUE]
BackedOff(rec) == [rec EXCEPT !.cool = TRUE, !.timer = None]
Bound(rec) == [rec EXCEPT !.timer = None, !.linked = TRUE, !.cool = FALSE]

Enter(r, id, s) == [st EXCEPT ![r][id] = s]

\* conn.destroy(), or the stream ended by the remote: both closes are to come
Die(r, id) ==
  /\ st' = Enter(r, id, "closing")
  /\ due' = [due EXCEPT ![r][id] = {"raw", "conn"}]

\* _abortDial: back off, forget the deadline, hang up.  The session object of
\* the peripheral survives.
AbortDial(id) ==
  /\ dev' = Noted(id, BackedOff(Record(id)))
  /\ up' = HungUp(id)

\* _endCentral: the session is over before any Noise work
EndCentral(id, keep) ==
  /\ st' = Enter("c", id, "none")
  /\ dev' = Noted(id, BackedOff(Record(id)))
  /\ up' = IF keep THEN up ELSE HungUp(id)

\* _bindCentralStream and the central half of _onChannel
BindCentral(id) ==
  /\ st' = Enter("c", id, "raw")
  /\ dev' = Noted(id, Bound(Record(id)))

-----------------------------------------------------------------------------
(* Dialing *)

\* _onDiscover past its guards, outside the rate limit: arm the dial deadline,
\* connect
Dial(id) ==
  /\ Forgotten(id)
  /\ st' = Enter("c", id, "dialing")
  /\ dev' = Noted(id, [Record(id) EXCEPT !.timer = id])
  /\ noise' = [noise EXCEPT ![id] = "no"]
  /\ up' = up \ {id}
  /\ lost' = [r \in Ends |-> [i \in Ids |->
                IF i = id \/ lost[r][i] = id THEN None ELSE lost[r][i]]]
  /\ UNCHANGED <<due, offered, sessions, out, back, peers>>

Discover(id) ==
  /\ Dialable(id.from, id.to)
  /\ cand[id.from] = {}
  /\ Dial(id)
  /\ UNCHANGED cand

\* _onDiscover within DIAL_MIN_INTERVAL of the last dial: hold the discovery
Hold(d, e) ==
  /\ Dialable(d, e)
  /\ cand' = [cand EXCEPT ![d] = @ \cup {e}]
  /\ UNCHANGED <<st, due, up, noise, offered, sessions, out, back, dev, peers, lost>>

\* _flushCandidates: the strongest eligible candidate is dialed, which
\* rate-limits the other eligible ones back into the candidates
Flush(id) ==
  /\ id.to \in cand[id.from]
  /\ Dialable(id.from, id.to)
  /\ Dial(id)
  /\ cand' = [cand EXCEPT ![id.from] = {e \in @ \ {id.to} : Dialable(id.from, e)}]

FlushNone(d) ==
  /\ cand[d] # {}
  /\ \A e \in cand[d] : ~Dialable(d, e)
  /\ cand' = [cand EXCEPT ![d] = {}]
  /\ UNCHANGED <<st, due, up, noise, offered, sessions, out, back, dev, peers, lost>>

\* _onConnect to notifyState, then _startCentralSession sends OPEN
Connected(id) ==
  /\ st["c"][id] = "dialing"
  /\ st' = Enter("c", id, "opening")
  /\ up' = up \cup {id}
  /\ out' = [out EXCEPT ![id] = Append(@, "OPEN")]
  /\ UNCHANGED <<due, noise, offered, sessions, back, dev, cand, peers, lost>>

\* coolUntil passes.  Cooldowns outlast the leftovers of an attempt unless the
\* environment is slow.
Settled(d, e) ==
  \A id \in Ids : id.from = d /\ id.to = e /\ id \notin up =>
    st["c"][id] # "upgrading" /\ out[id] = <<>> /\ back[id] = <<>>

CoolExpires(d, e) ==
  /\ dev[d][e].cool
  /\ "slow" \in Faults \/ Settled(d, e)
  /\ dev' = [dev EXCEPT ![d][e] = [@ EXCEPT !.cool = FALSE]]
  /\ UNCHANGED <<st, due, up, noise, offered, sessions, out, back, cand, peers, lost>>

-----------------------------------------------------------------------------
(* Server: _onServerFrame *)

ServerReads(id, frame) ==
  /\ out[id] # <<>>
  /\ Head(out[id]) = frame
  /\ out' = [out EXCEPT ![id] = Tail(@)]

\* the pair never links: _accept refused the key or no pipe suits both
RefuseFinal(id) == id.from \notin Accepts[id.to] \/ ~PipesAgree(id.to, id.from)

RefuseBusy_no_tiebreak(id) ==
  \/ Cardinality(Inbound(id.to)) >= MaxInbound[id.to]
  \/ IsDialing(id.to) \/ cand[id.to] # {}

\* the dialer may redial: full, or this device is dialing and its own
\* initiative wins
RefuseBusy(id) ==
  \/ Cardinality(Inbound(id.to)) >= MaxInbound[id.to]
  \/ ~InitiatorWins(id) /\ (IsDialing(id.to) \/ cand[id.to] # {})

\* every OPEN is for a session the server does not hold: ids are random
ServerRefuses(id) ==
  /\ ServerReads(id, "OPEN")
  /\ id \notin sessions
  /\ \/ RefuseFinal(id) /\ back' = Notified(id, "FINAL")
     \/ /\ ~RefuseFinal(id)
        /\ RefuseBusy(id) \/ (Pipe[id.to] = "l2cap" /\ "psm" \in Faults)
        /\ back' = Notified(id, "CLOSE")
  /\ UNCHANGED <<st, due, up, noise, offered, sessions, dev, cand, peers, lost>>

\* a gatt session is bound at once, an l2cap one waits for its channel
ServerAccepts(id) ==
  /\ ServerReads(id, "OPEN")
  /\ id \notin sessions
  /\ ~RefuseFinal(id) /\ ~RefuseBusy(id)
  /\ sessions' = sessions \cup {id}
  /\ st' = Enter("s", id, IF Pipe[id.to] = "l2cap" THEN "pending" ELSE "raw")
  /\ back' = Notified(id, "HELLO")
  /\ UNCHANGED <<due, up, noise, offered, dev, cand, peers, lost>>

\* CLOSE: a live session is reaped, its stream ended; any other drops the frame
ServerClose(id) ==
  /\ ServerReads(id, "CLOSE")
  /\ sessions' = sessions \ {id}
  /\ IF id \in sessions /\ st["s"][id] \in Live THEN Die("s", id)
     ELSE /\ st' = IF st["s"][id] = "pending" THEN Enter("s", id, "none") ELSE st
          /\ UNCHANGED due
  /\ UNCHANGED <<up, noise, offered, back, dev, cand, peers, lost>>

\* acceptServer once the id preamble arrived, or found no session to join
ServerChannel_unchecked(id) ==
  /\ id \in offered
  /\ offered' = offered \ {id}
  /\ st' = Enter("s", id, "raw")
  /\ UNCHANGED <<due, up, noise, sessions, out, back, dev, cand, peers, lost>>

ServerChannel(id) ==
  /\ id \in offered
  /\ offered' = offered \ {id}
  /\ st' = IF st["s"][id] = "pending" THEN Enter("s", id, "raw") ELSE st
  /\ UNCHANGED <<due, up, noise, sessions, out, back, dev, cand, peers, lost>>

\* PIPE_PENDING_TIMEOUT: the central never brought its channel
ChannelCannotCome(id) ==
  /\ id \notin offered
  /\ ~(st["c"][id] = "upgrading" /\ id \in up)
  /\ ~(st["c"][id] = "opening" /\ "HELLO" \in Range(back[id]))

PipeTimeout_keeps_session(id) ==
  /\ st["s"][id] = "pending"
  /\ "slow" \in Faults \/ ChannelCannotCome(id)
  /\ st' = Enter("s", id, "none")
  /\ back' = Notified(id, "CLOSE")
  /\ UNCHANGED <<due, up, noise, offered, sessions, out, dev, cand, peers, lost>>

PipeTimeout(id) ==
  /\ st["s"][id] = "pending"
  /\ "slow" \in Faults \/ ChannelCannotCome(id)
  /\ st' = Enter("s", id, "none")
  /\ sessions' = sessions \ {id}
  /\ back' = Notified(id, "CLOSE")
  /\ UNCHANGED <<due, up, noise, offered, out, dev, cand, peers, lost>>

-----------------------------------------------------------------------------
(* Central: _onCentralNotify and the dial deadlines *)

CentralReads(id, frame) ==
  /\ back[id] # <<>>
  /\ Head(back[id]) = frame
  /\ back' = [back EXCEPT ![id] = Tail(@)]

\* A session gets at most one HELLO, before any CLOSE, so HELLO always finds it
\* opening (_onCentralNotify drops any other).
Unwanted_pipe_only(id) == peers[id.from][id.to] = None /\ ~PipesAgree(id.from, id.to)

Unwanted(id) ==
  \/ id.to \notin Accepts[id.from]
  \/ peers[id.from][id.to] = None /\ ~PipesAgree(id.from, id.to)

HelloRefused(id) ==
  /\ st["c"][id] = "opening"
  /\ CentralReads(id, "HELLO")
  /\ Unwanted(id)
  /\ out' = Sent(id, "CLOSE")
  /\ EndCentral(id, FALSE)
  /\ UNCHANGED <<due, noise, offered, sessions, cand, peers, lost>>

\* already linked to that key: remember whose peripheral this is, yield
HelloRedundant(id) ==
  /\ st["c"][id] = "opening"
  /\ CentralReads(id, "HELLO")
  /\ ~Unwanted(id)
  /\ peers[id.from][id.to] # None
  /\ out' = Sent(id, "CLOSE")
  /\ st' = Enter("c", id, "none")
  /\ dev' = Noted(id, [BackedOff(Record(id)) EXCEPT !.known = TRUE])
  /\ UNCHANGED <<due, up, noise, offered, sessions, cand, peers, lost>>

HelloAccepted(id) ==
  /\ st["c"][id] = "opening"
  /\ CentralReads(id, "HELLO")
  /\ ~Unwanted(id)
  /\ peers[id.from][id.to] = None
  /\ IF Pipe[id.from] = "l2cap" THEN st' = Enter("c", id, "upgrading") /\ UNCHANGED dev
     ELSE BindCentral(id)
  /\ UNCHANGED <<due, up, noise, offered, sessions, out, cand, peers, lost>>

\* CLOSE: a bound session ends its stream, an unbound one is over; the link is
\* kept unless the refusal was final
CentralClose(id) ==
  /\ \E frame \in {"CLOSE", "FINAL"} :
       /\ CentralReads(id, frame)
       /\ \/ /\ st["c"][id] \in Live
             /\ Die("c", id)
             /\ UNCHANGED <<up, dev>>
          \/ /\ st["c"][id] \in {"opening", "upgrading"}
             /\ EndCentral(id, frame # "FINAL")
             /\ UNCHANGED due
          \/ /\ st["c"][id] \in {"none", "dialing", "closing"}
             /\ UNCHANGED <<st, due, up, dev>>
  /\ UNCHANGED <<noise, offered, sessions, out, cand, peers, lost>>

\* openCentral: the channel is open, the id preamble written, the stream bound
ChannelOpen(id) ==
  /\ st["c"][id] = "upgrading"
  /\ id \in up
  /\ BindCentral(id)
  /\ offered' = offered \cup {id}
  /\ UNCHANGED <<due, up, noise, sessions, out, back, cand, peers, lost>>

\* openCentral: OPEN_TIMEOUT, or the server retracted its listener
ChannelFail(id) ==
  /\ st["c"][id] = "upgrading"
  /\ id \notin up \/ st["s"][id] # "pending" \/ Faults \cap {"slow", "error"} # {}
  /\ st' = Enter("c", id, "opening")
  /\ AbortDial(id)
  /\ UNCHANGED <<due, noise, offered, sessions, out, back, cand, peers, lost>>

\* CONNECT_TIMEOUT of the dial that holds the timer
Unanswered(id) ==
  /\ st["c"][id] = "opening"
  /\ "OPEN" \notin Range(out[id]) /\ back[id] = <<>>

DialTimeout(id) ==
  /\ dev[id.from][id.to].timer = id
  /\ "slow" \in Faults \/ Unanswered(id)
  /\ st' = IF st["c"][id] = "dialing" THEN Enter("c", id, "none") ELSE st
  /\ AbortDial(id)
  /\ UNCHANGED <<due, noise, offered, sessions, out, back, cand, peers, lost>>

\* peripheral 'error', no service, no characteristic, subscribe failed; an
\* error during the channel open is ignored
PeripheralError(id) ==
  /\ "error" \in Faults
  /\ st["c"][id] = "dialing" \/ (st["c"][id] \in {"opening", "raw", "open"} /\ id \in up)
  /\ st' = IF st["c"][id] = "dialing" THEN Enter("c", id, "none") ELSE st
  /\ AbortDial(id)
  /\ UNCHANGED <<due, noise, offered, sessions, out, back, cand, peers, lost>>

\* central 'error' CONNECTION_FAILED or DISCONNECT: the attempt that failed is
\* over (it may have been to a peripheral outside Devices), and
\* _onCentralError clears the deadline of every dial, with no cooldown
FailedAttempts(d) ==
  {id \in Ids : id.from = d /\ (st["c"][id] = "dialing" \/ (st["c"][id] = "opening" /\ id \in up))}

CentralError(d) ==
  /\ "centralError" \in Faults
  /\ \/ UNCHANGED <<st, up>>
     \/ \E id \in FailedAttempts(d) :
          /\ st' = IF st["c"][id] = "dialing" THEN Enter("c", id, "none") ELSE st
          /\ up' = up \ {id}
  /\ dev' = [dev EXCEPT ![d] = [e \in Devices |-> [@[e] EXCEPT !.timer = None]]]
  /\ UNCHANGED <<due, noise, offered, sessions, out, back, cand, peers, lost>>

-----------------------------------------------------------------------------
(* Links: the Noise handshake, _track, closes and _untrack *)

\* the server end answered the first handshake message
NoiseAnswer(id) ==
  /\ st["c"][id] = "raw" /\ st["s"][id] = "raw" /\ id \in up
  /\ noise[id] = "no"
  /\ noise' = [noise EXCEPT ![id] = "answered"]
  /\ UNCHANGED <<st, due, up, offered, sessions, out, back, dev, cand, peers, lost>>

\* the handshake completes at end r: first the central's, which sends the last
\* message, then the server's
HandshakeDone(r, id) ==
  /\ st[r][id] = "raw" /\ id \in up
  /\ noise[id] = IF r = "c" THEN "answered" ELSE "final"
  /\ noise' = [noise EXCEPT ![id] = "final"]
  /\ dev' = IF r = "c" THEN Noted(id, [Record(id) EXCEPT !.known = TRUE]) ELSE dev

\* _track: a duplicate that is not preferred is retired in favour of the
\* channel already tracked
Yields(r, id) == peers[Owner(r, id)][Remote(r, id)] # None /\ ~Preferred(r, id)

TrackYields(r, id) ==
  /\ HandshakeDone(r, id)
  /\ Yields(r, id)
  /\ Die(r, id)
  /\ lost' = [lost EXCEPT ![r][id] = peers[Owner(r, id)][Remote(r, id)]]
  /\ UNCHANGED <<up, offered, sessions, out, back, cand, peers>>

\* _track: the channel becomes the link, one already tracked is retired
TrackKeeps(r, id) ==
  /\ HandshakeDone(r, id)
  /\ ~Yields(r, id)
  /\ LET d == Owner(r, id)
         e == Remote(r, id)
         old == peers[d][e]
         q == IF old # None /\ old.from = d THEN "c" ELSE "s"
         retired == old # None /\ st[q][old] # "closing"
     IN  /\ peers' = [peers EXCEPT ![d][e] = id]
         /\ st' = IF retired THEN [Enter(r, id, "open") EXCEPT ![q][old] = "closing"]
                  ELSE Enter(r, id, "open")
         /\ due' = IF retired THEN [due EXCEPT ![q][old] = {"raw", "conn"}] ELSE due
         /\ lost' = IF retired THEN [lost EXCEPT ![q][old] = id] ELSE lost
  /\ UNCHANGED <<up, offered, sessions, out, back, cand>>

\* Keepalive timeout, handshake timeout or the channel's own close: the end
\* finds the other gone.  An end whose answer or channel is on its way is not.
OtherGone(r, id) ==
  \/ id \notin up
  \/ /\ st[Other(r)][id] \notin Live
     /\ IF r = "s" THEN ~(st["c"][id] = "opening" /\ "HELLO" \in Range(back[id]))
        ELSE ~(st["s"][id] = "pending" /\ id \in offered)

Notice(r, id) ==
  /\ st[r][id] \in Live
  /\ "slow" \in Faults \/ OtherGone(r, id)
  /\ Die(r, id)
  /\ UNCHANGED <<up, noise, offered, sessions, out, back, dev, cand, peers, lost>>

\* one of the close events of a dying end is handled
Closes(r, id, event) ==
  /\ event \in due[r][id]
  /\ due' = [due EXCEPT ![r][id] = @ \ {event}]
  /\ st' = IF due[r][id] = {event} THEN Enter(r, id, "none") ELSE st

\* stream 'close' at the central (_bindCentralStream): CLOSE, then disconnect
CentralStreamCloses(id) ==
  /\ Closes("c", id, "raw")
  /\ out' = Sent(id, "CLOSE")
  /\ up' = HungUp(id)
  /\ UNCHANGED <<noise, offered, sessions, back, dev, cand, peers, lost>>

\* stream 'close' at the server: _closeServerSession, unless reaped before
ServerStreamCloses(id) ==
  /\ Closes("s", id, "raw")
  /\ sessions' = sessions \ {id}
  /\ back' = IF id \in sessions THEN Notified(id, "CLOSE") ELSE back
  /\ UNCHANGED <<up, noise, offered, out, dev, cand, peers, lost>>

Untracked_any(r, id) == [peers EXCEPT ![Owner(r, id)][Remote(r, id)] = None]
Untracked(r, id) == [peers EXCEPT ![Owner(r, id)][Remote(r, id)] = IF @ = id THEN None ELSE @]

\* conn 'close': the dial record is unlinked, _untrack forgets the link if it
\* is still this one
ConnCloses(r, id) ==
  /\ Closes(r, id, "conn")
  /\ dev' = IF r = "c" THEN Noted(id, [Record(id) EXCEPT !.linked = FALSE]) ELSE dev
  /\ peers' = Untracked(r, id)
  /\ UNCHANGED <<up, noise, offered, sessions, out, back, cand, lost>>

-----------------------------------------------------------------------------
(* The radio *)

\* the link breaks: the peer walked away
LinkLoss(id) ==
  /\ "loss" \in Faults
  /\ id \in up
  /\ up' = HungUp(id)
  /\ UNCHANGED <<st, due, noise, offered, sessions, out, back, dev, cand, peers, lost>>

\* what was on a link that went down may never arrive
LostInFlight(id) ==
  /\ id \notin up
  /\ \/ out[id] # <<>> /\ out' = [out EXCEPT ![id] = Tail(@)] /\ UNCHANGED <<back, offered>>
     \/ back[id] # <<>> /\ back' = [back EXCEPT ![id] = Tail(@)] /\ UNCHANGED <<out, offered>>
     \/ id \in offered /\ offered' = offered \ {id} /\ UNCHANGED <<out, back>>
  /\ UNCHANGED <<st, due, up, noise, sessions, dev, cand, peers, lost>>

-----------------------------------------------------------------------------
CentralStep(id) ==
  \/ Discover(id) \/ Flush(id) \/ Connected(id)
  \/ HelloRefused(id) \/ HelloRedundant(id) \/ HelloAccepted(id)
  \/ CentralClose(id) \/ ChannelOpen(id) \/ ChannelFail(id) \/ DialTimeout(id)
  \/ PeripheralError(id) \/ CentralStreamCloses(id)

ServerStep(id) ==
  \/ ServerRefuses(id) \/ ServerAccepts(id) \/ ServerClose(id) \/ ServerChannel(id)
  \/ PipeTimeout(id) \/ ServerStreamCloses(id)

ConnStep(r, id) ==
  \/ TrackYields(r, id) \/ TrackKeeps(r, id) \/ Notice(r, id) \/ ConnCloses(r, id)

DeviceStep(d) ==
  \/ \E e \in Devices : Hold(d, e) \/ CoolExpires(d, e)
  \/ FlushNone(d) \/ CentralError(d)

RadioStep(id) == NoiseAnswer(id) \/ LinkLoss(id) \/ LostInFlight(id)

Next ==
  \/ \E id \in Ids : CentralStep(id) \/ ServerStep(id) \/ RadioStep(id)
  \/ \E r \in Ends, id \in Ids : ConnStep(r, id)
  \/ \E d \in Devices : DeviceStep(d)

Spec == Init /\ [][Next]_vars

\* The event loop runs every handler whose event is there, the platform
\* delivers what is on a link that stays up, and every timer of the code
\* expires; faults need not happen.  _startScan keeps reporting whom it sees.
Fairness ==
  /\ \A id \in Ids :
       /\ WF_vars(Discover(id) \/ Flush(id))
       /\ WF_vars(Connected(id) \/ DialTimeout(id))
       /\ WF_vars(HelloRefused(id) \/ HelloRedundant(id) \/ HelloAccepted(id)
                  \/ CentralClose(id))
       /\ WF_vars(ChannelOpen(id) \/ ChannelFail(id))
       /\ WF_vars(ServerRefuses(id) \/ ServerAccepts(id) \/ ServerClose(id))
       /\ WF_vars(ServerChannel(id))
       /\ WF_vars(PipeTimeout(id))
       /\ WF_vars(NoiseAnswer(id))
       /\ WF_vars(CentralStreamCloses(id))
       /\ WF_vars(ServerStreamCloses(id))
       /\ WF_vars(LostInFlight(id))
       /\ \A r \in Ends : /\ WF_vars(TrackYields(r, id) \/ TrackKeeps(r, id))
                          /\ WF_vars(Notice(r, id))
                          /\ WF_vars(ConnCloses(r, id))
  /\ \A d, e \in Devices : WF_vars(CoolExpires(d, e))
  /\ \A d \in Devices : WF_vars(FlushNone(d))

FairSpec == Spec /\ Fairness

-----------------------------------------------------------------------------
(* Properties *)

\* Why LinkTable and RefusedBeforeNoise hold.  Close events are outstanding
\* exactly at the ends that are closing.
DueIffClosing == \A r \in Ends, id \in Ids : due[r][id] # {} <=> st[r][id] = "closing"

\* An OPEN is the first frame of its session and finds no server end.
OpenComesFirst ==
  \A id \in Ids :
    /\ \A i \in DOMAIN out[id] : out[id][i] = "OPEN" =>
         i = 1 /\ st["s"][id] = "none"
    /\ st["c"][id] = "dialing" => st["s"][id] = "none" /\ out[id] = <<>>

\* An end past its own check of the remote passed it.
EachEndChecked ==
  \A id \in Ids :
    /\ st["s"][id] \in {"pending", "raw", "open"} => ~RefuseFinal(id)
    /\ st["c"][id] \in {"upgrading", "raw", "open"} =>
         id.to \in Accepts[id.from] /\ PipesAgree(id.from, id.to)

\* The peers map and the live connections are the same thing: whatever order
\* duplicates open, die and are retired in, a connection handed to the host is
\* the tracked one, and a tracked one is alive or about to be untracked by its
\* own close event (_track, _untrack).
LinkTable ==
  /\ \A r \in Ends, id \in Ids :
       st[r][id] = "open" => peers[Owner(r, id)][Remote(r, id)] = id
  /\ \A d, e \in Devices : peers[d][e] # None =>
       \E r \in Ends :
         /\ d = Owner(r, peers[d][e]) /\ e = Remote(r, peers[d][e])
         /\ \/ st[r][peers[d][e]] = "open"
            \/ st[r][peers[d][e]] = "closing" /\ "conn" \in due[r][peers[d][e]]

\* A pair that one of the two refuses, by policy or for its pipe, never starts
\* a Noise handshake: "duplicate or unwanted peers are refused before any
\* Noise work" (README), though each end checks only its own policy.
RefusedBeforeNoise ==
  \A id \in Ids : noise[id] # "no" => MayLink(id.from, id.to)

\* The inductive invariant behind the two properties above.
LinkInv ==
  /\ TypeOK
  /\ DueIffClosing
  /\ OpenComesFirst
  /\ EachEndChecked
  /\ LinkTable
  /\ RefusedBeforeNoise

\* Two devices never retire each other's choice: if one retires channel x in
\* favour of y, the other does not retire y in favour of x (_track: "both must
\* retire the SAME channel").
RetireSameChannel ==
  \A r, q \in Ends, x, y \in Ids : ~(lost[r][x] = y /\ lost[q][y] = x)

\* A dial that got no answer yet has its deadline running: "the dial timer
\* keeps running until the server answers" (_startCentralSession).
DeadlineUntilAnswered ==
  \A id \in Ids :
    \/ st["c"][id] = "dialing"
    \/ st["c"][id] = "opening" /\ id \in up /\ back[id] = <<>>
    => dev[id.from][id.to].timer = id

\* Every server end that is not over is in the sessions table, where maxInbound
\* counts it and the rotation of the psm spares it, and what is in the table is
\* such an end or one whose stream close will take it out: a session leaves the
\* table on six paths (_closeServerSession, the pipe timeout, CLOSE, ...), none
\* may leave one behind or let one go on outside the table.
TableHolds ==
  \A id \in Ids :
    /\ Serving(id) => id \in sessions
    /\ id \in sessions => Serving(id) \/ "raw" \in due["s"][id]

\* However many devices dial one, and in whatever order sessions are refused,
\* time out and die, the channels it serves stay within maxInbound.
InboundCap ==
  \A d \in Devices : Cardinality({id \in Ids : id.to = d /\ Serving(id)}) <= MaxInbound[d]

\* What bars a dial ends.  A deadline that runs belongs to a dial that has not
\* bound its stream (it makes this device refuse OPENs, _isDialing), and a linked
\* record to a channel it dialed whose conn close is to come (_onDiscover drops
\* every report of a linked peripheral, only that close clears it).
BarredForAReason ==
  \A d, e \in Devices :
    /\ LET id == dev[d][e].timer
       IN  id # None => /\ id.from = d /\ id.to = e
                        /\ st["c"][id] \in {"dialing", "opening", "upgrading"}
    /\ dev[d][e].linked =>
         \E id \in Ids : /\ id.from = d /\ id.to = e
                         /\ st["c"][id] \in Live \/ "conn" \in due["c"][id]

\* Two devices name the same channel as their link, or both name none, whenever
\* no channel between them is half open or closing: nothing else keeps the two
\* peers maps together, _track decides at each end alone.
LinksAgree ==
  \A d, e \in Devices :
    (\A id \in Ids : {id.from, id.to} = {d, e} =>
       /\ st["c"][id] = "open" <=> st["s"][id] = "open"
       /\ st["c"][id] # "closing" /\ st["s"][id] # "closing")
    => peers[d][e] = peers[e][d]

\* What a device notes is so, in its sessions table, its dial records and its
\* peers map.
RecordsTrue == TableHolds /\ BarredForAReason /\ LinksAgree

\* "rediscovery must not dial a peripheral whose channel is still handshaking"
\* (_onChannel): a device never holds two bound channels it dialed to one peer.
OneChannelPerDirection ==
  \A x, y \in Ids : x.from = y.from /\ x.to = y.to
                    /\ st["c"][x] \in Live /\ st["c"][y] \in Live => x = y

\* Only its own failure takes the physical link from under a link both ends
\* track; no device hangs it up while it retires or refuses another channel ("a
\* yielding central must NEVER disconnect: both directions ride one physical
\* link, hanging up kills the peer's channel too").
RetiringSparesTheLink ==
  [][\A id \in up \ up' : st["c"][id] = "open" /\ st["s"][id] = "open" =>
       LinkLoss(id) \/ PeripheralError(id)]_vars

\* The host of a device sees what HostView promises: at most one connection per
\* peer, only to a peer both sides let in, replaced only by the channel both
\* keep and in the same step, and listed in peers until it is dead (_track,
\* _untrack).
Willing == {p \in Devices \X Devices : MayLink(p[1], p[2])}

HostOpen ==
  [d \in Devices |-> {id \in Ids : \E r \in Ends : Owner(r, id) = d /\ st[r][id] = "open"}]

View == INSTANCE HostView WITH link <- peers, open <- HostOpen

HostPromise == View!Spec

\* The links of a device stay within maxOutbound + maxInbound.
LinkCap ==
  \A d \in Devices : Cardinality(Linked(d)) <= MaxOutbound[d] + MaxInbound[d]

\* Every pair that may link ends up linked for good over a channel both ends
\* track, whatever duplicates, refusals and retirements come first, if each
\* direction has a physical link of its own: on a shared one the end of the
\* retired channel hangs up the link of the other (CentralStreamCloses).
LinksSettle ==
  <>[](\A d, e \in Devices : e \in Sees[d] /\ MayLink(d, e) =>
         peers[d][e] # None /\ peers[e][d] = peers[d][e])

\* A session the dialer has given up does not stay in the server's table, where
\* it counts against maxInbound and holds the psm.
SessionsReclaimed ==
  \A id \in Ids : (id \in sessions /\ st["c"][id] = "none") ~> id \notin sessions

\* No dial stays unresolved: a dialed peripheral is bound, refused or given up.
DialsResolve ==
  \A id \in Ids : (st["c"][id] \in {"dialing", "opening"} /\ dev[id.from][id.to].timer = id)
                  ~> (dev[id.from][id.to].timer # id)

=============================================================================

------------------------------ MODULE Lifecycle ------------------------------
(***************************************************************************)
(* The lifecycle of one swarm: the facade of index.js (intent, topic, the  *)
(* transport in use) and the part of each src/lib/transport.js it drives   *)
(* (halting, resuming, hosting the service, advertising, scanning, radio   *)
(* power).                                                                 *)
(*                                                                         *)
(* The methods are async.  What runs before an await is one action, what   *)
(* runs after it another; calls holds the methods waiting in between.      *)
(* Scanning stands for the whole cadence of the scan timer, dark phases    *)
(* included; links and sessions are left to Links and ServerSessions.      *)
(***************************************************************************)
EXTENDS Integers, Sequences, FiniteSets

CONSTANTS
  Topics,     \* the topics setTopic may be called with
  Platform,   \* "mac", "android", "ios" or "other" (which-runtime)
  MaxCalls,   \* bound: methods the user calls
  MaxCycles,  \* bound: times the radio is without power
  Hazards,    \* what may happen besides sequential use, see HazardKinds
  NoTopic     \* not on the air

\* "overlap": a method is called while an earlier call awaits
\* "rebuild": a method is called while a rebuild is in progress
\* "slow":    other things happen before new managers report their state and
\*            before 'serviceAdd' follows addService
\* "cycle":   managers report a change of power while setTopic bounces theirs
HazardKinds == {"overlap", "rebuild", "slow", "cycle"}

ASSUME LifecycleAssumption ==
  /\ Topics # {} /\ NoTopic \notin Topics
  /\ Platform \in {"mac", "android", "ios", "other"}
  /\ MaxCalls \in Nat /\ MaxCycles \in Nat
  /\ Hazards \subseteq HazardKinds

VARIABLES
  started, suspended,  \* the two axes of intent
  closing,             \* close() was called
  topic,               \* _topic
  current,             \* the index of the transport in use, 0 for null
  tr,                  \* the transports created so far, by _gen
  calls,               \* the async methods in progress
  power,               \* the radio: "on" or "off"
  called, cycled       \* how many calls and power losses so far

facade == <<started, suspended, closing, topic>>
bounds == <<called, cycled>>
vars == <<facade, current, tr, calls, power, bounds>>

\* n numbers the user's calls; the rebuild of a transport is 0
Call == [n : 0 .. MaxCalls, op : {"pause", "topic", "activate", "rebuild"},
         pc : {"drain", "after"}, t : 0 .. Len(tr)]

Transport ==
  [paused : BOOLEAN,        \* _suspended
   closed : BOOLEAN,        \* closing or closed
   radioCycled : BOOLEAN, radioWasDown : BOOLEAN, healing : BOOLEAN,
   serviceAdded : BOOLEAN, advertising : BOOLEAN, scanning : BOOLEAN,
   uuid : Topics,           \* discoveryUUID
   state : {"off", "starting", "waiting", "on"},
   server : {"unknown", "on", "off"}, central : {"unknown", "on", "off"},
   adding : BOOLEAN,        \* addService awaits its 'serviceAdd'
   advert : Topics \cup {NoTopic}, scan : Topics \cup {NoTopic},  \* on the air
   retired : BOOLEAN]       \* managers destroyed, on iOS services removed

TypeOK ==
  /\ {started, suspended, closing} \subseteq BOOLEAN
  /\ topic \in Topics
  /\ tr \in Seq(Transport)
  /\ current \in 0 .. Len(tr)
  /\ calls \subseteq Call
  /\ power \in {"on", "off"}
  /\ called \in 0 .. MaxCalls /\ cycled \in 0 .. MaxCycles
  /\ \A c \in calls : /\ c.pc = "drain" => c.t # 0
                      /\ c.op \in {"activate", "rebuild"} /\ current # 0 => c.t # current

Init ==
  /\ started = FALSE /\ suspended = FALSE /\ closing = FALSE
  /\ topic \in Topics
  /\ current = 0 /\ tr = <<>> /\ calls = {}
  /\ called = 0
  /\ \/ power = "on" /\ cycled = 0
     \/ power = "off" /\ cycled = 1 /\ MaxCycles > 0

-----------------------------------------------------------------------------
(* The transport: what its methods make of its record *)

\* _createTransport and _open: managers of unknown state
Fresh(topicUuid) ==
  [paused |-> FALSE, closed |-> FALSE,
   radioCycled |-> FALSE, radioWasDown |-> FALSE, healing |-> FALSE,
   serviceAdded |-> FALSE, advertising |-> FALSE, scanning |-> FALSE,
   uuid |-> topicUuid, state |-> "starting", server |-> "unknown", central |-> "unknown",
   adding |-> FALSE, advert |-> NoTopic, scan |-> NoTopic, retired |-> FALSE]

Halted(r) == r.paused \/ r.closed

OnAirAs(uuid) == IF power = "on" THEN uuid ELSE NoTopic

\* _startServer
ServerStarted(r) ==
  IF Halted(r) \/ (Platform = "ios" /\ r.radioWasDown) \/ r.server # "on" \/ r.serviceAdded
  THEN r ELSE [r EXCEPT !.adding = TRUE]

\* _maybeAdvertise
Advertised(r) ==
  IF r.advertising \/ ~r.serviceAdded THEN r
  ELSE [r EXCEPT !.advertising = TRUE, !.advert = OnAirAs(r.uuid)]

\* _startScan
Scanning(r) ==
  IF Halted(r) \/ r.scanning \/ r.central # "on" THEN r
  ELSE [r EXCEPT !.scanning = TRUE, !.scan = OnAirAs(r.uuid)]

\* _onRadioDown
RadioDown(r) ==
  [r EXCEPT !.radioWasDown = TRUE, !.radioCycled = TRUE,
            !.serviceAdded = FALSE, !.advertising = FALSE, !.scanning = FALSE]

\* STATE
StateOf(raw) == IF raw = "on" THEN "on" ELSE "waiting"

\* resume()
Resumed_keeps_state(r) ==
  IF r.closed THEN [r EXCEPT !.paused = FALSE]
  ELSE Scanning(Advertised([r EXCEPT !.paused = FALSE, !.advertising = FALSE]))

Resumed(r) ==
  IF r.closed THEN [r EXCEPT !.paused = FALSE]
  ELSE [Scanning(Advertised([r EXCEPT !.paused = FALSE, !.advertising = FALSE]))
        EXCEPT !.state = StateOf(r.central)]

Quieted_still_scanning(r) ==
  [r EXCEPT !.scan = NoTopic, !.advertising = FALSE, !.advert = NoTopic, !.state = "off"]

\* suspend() after _sayGoodbye
Quieted(r) ==
  [r EXCEPT !.scanning = FALSE, !.scan = NoTopic, !.advertising = FALSE, !.advert = NoTopic,
            !.state = "off"]

\* _close
Closed(r) ==
  [r EXCEPT !.closed = TRUE, !.scan = NoTopic, !.advert = NoTopic, !.state = "off"]

\* destroyManagers or removeServices, by _abandon
Retired(r) == IF Platform = "other" THEN r ELSE [r EXCEPT !.retired = TRUE]

Destroyed(r) == r.retired /\ Platform \in {"mac", "android"}

-----------------------------------------------------------------------------
(* Scheduling *)

\* managers that have not reported yet, services that are being added
Fledgling == \E t \in DOMAIN tr : /\ ~Destroyed(tr[t])
                                  /\ \/ "unknown" \in {tr[t].server, tr[t].central}
                                     \/ tr[t].adding

Prompt == "slow" \in Hazards \/ ~Fledgling

UserTurn ==
  /\ Prompt
  /\ called < MaxCalls                       \* bound
  /\ "overlap" \in Hazards \/ \A c \in calls : c.n = 0
  /\ "rebuild" \in Hazards \/ \A c \in calls : c.n # 0
  /\ called' = called + 1
  /\ UNCHANGED <<power, cycled>>

\* a method is called on transport t, or on none, and awaits
Await(op, pc, t) == calls' = calls \cup {[n |-> called + 1, op |-> op, pc |-> pc, t |-> t]}

Wanted == started /\ ~suspended

\* transport.suspend() up to its await, by the method op
SuspendTransport(op) ==
  /\ tr' = [tr EXCEPT ![current].paused = TRUE]
  /\ Await(op, "drain", current)

-----------------------------------------------------------------------------
(* The facade's methods up to their first await *)

\* _activate: resume the transport, or abandon it and wait, or wait with none
Activate_any ==
  \/ /\ current # 0
     /\ tr' = [tr EXCEPT ![current] = Resumed(@)]
     /\ UNCHANGED <<current, calls>>
  \/ /\ current = 0
     /\ Await("activate", "after", 0)
     /\ UNCHANGED <<current, tr>>

Activate_keeps_transport ==
  \/ /\ current # 0 /\ ~tr[current].radioCycled
     /\ tr' = [tr EXCEPT ![current] = Resumed(@)]
     /\ UNCHANGED <<current, calls>>
  \/ /\ current # 0 /\ tr[current].radioCycled
     /\ SuspendTransport("activate")
     /\ UNCHANGED current
  \/ /\ current = 0
     /\ Await("activate", "after", 0)
     /\ UNCHANGED <<current, tr>>

Activate ==
  \/ /\ current # 0 /\ ~tr[current].radioCycled
     /\ tr' = [tr EXCEPT ![current] = Resumed(@)]
     /\ UNCHANGED <<current, calls>>
  \/ /\ current # 0 /\ tr[current].radioCycled
     /\ SuspendTransport("activate")
     /\ current' = 0
  \/ /\ current = 0
     /\ Await("activate", "after", 0)
     /\ UNCHANGED <<current, tr>>

Start ==
  /\ UserTurn
  /\ ~started /\ ~closing
  /\ started' = TRUE
  /\ IF suspended THEN UNCHANGED <<current, tr, calls>> ELSE Activate
  /\ UNCHANGED <<suspended, closing, topic>>

Stop ==
  /\ UserTurn
  /\ started
  /\ started' = FALSE
  /\ IF current # 0 /\ ~suspended THEN SuspendTransport("pause") ELSE UNCHANGED <<tr, calls>>
  /\ UNCHANGED <<suspended, closing, topic, current>>

Suspend ==
  /\ UserTurn
  /\ ~suspended
  /\ suspended' = TRUE
  /\ IF started /\ current # 0 THEN SuspendTransport("pause") ELSE UNCHANGED <<tr, calls>>
  /\ UNCHANGED <<started, closing, topic, current>>

Resume ==
  /\ UserTurn
  /\ suspended
  /\ suspended' = FALSE
  /\ IF started THEN Activate ELSE UNCHANGED <<current, tr, calls>>
  /\ UNCHANGED <<started, closing, topic>>

SetTopic_if_live(next) ==
  /\ UserTurn
  /\ topic' = next
  /\ IF current # 0 /\ tr[current].uuid # next /\ Wanted
     THEN /\ tr' = [tr EXCEPT ![current].uuid = next, ![current].paused = TRUE]
          /\ Await("topic", "drain", current)
     ELSE UNCHANGED <<tr, calls>>
  /\ UNCHANGED <<started, suspended, closing, current>>

\* setTopic: a live transport on another topic is bounced
SetTopic(next) ==
  /\ UserTurn
  /\ topic' = next
  /\ IF current # 0 /\ tr[current].uuid # next
     THEN IF Wanted
          THEN /\ tr' = [tr EXCEPT ![current].uuid = next, ![current].paused = TRUE]
               /\ Await("topic", "drain", current)
          ELSE tr' = [tr EXCEPT ![current].uuid = next] /\ UNCHANGED calls
     ELSE UNCHANGED <<tr, calls>>
  /\ UNCHANGED <<started, suspended, closing, current>>

\* close(), with the transport's own close
Close ==
  /\ UserTurn
  /\ ~closing
  /\ closing' = TRUE /\ started' = FALSE
  /\ tr' = IF current = 0 THEN tr ELSE [tr EXCEPT ![current] = Closed(@)]
  /\ UNCHANGED <<suspended, topic, current, calls>>

-----------------------------------------------------------------------------
(* The methods after their awaits *)

\* transport.suspend() after _sayGoodbye; _abandon then retires the managers
SuspendEnds(c) ==
  /\ Prompt
  /\ c.pc = "drain"
  /\ tr' = [tr EXCEPT ![c.t] = IF c.op \in {"activate", "rebuild"} THEN Retired(Quieted(@))
                               ELSE Quieted(@)]
  /\ calls' = (calls \ {c}) \cup (IF c.op = "pause" THEN {} ELSE {[c EXCEPT !.pc = "after"]})
  /\ UNCHANGED <<facade, current, power, bounds>>

\* setTopic after the bounce's suspend
TopicEnds_always(c) ==
  /\ Prompt
  /\ c.op = "topic" /\ c.pc = "after"
  /\ calls' = calls \ {c}
  /\ tr' = IF current # 0 THEN [tr EXCEPT ![current] = Resumed(@)] ELSE tr
  /\ UNCHANGED <<facade, current, power, bounds>>

TopicEnds(c) ==
  /\ Prompt
  /\ c.op = "topic" /\ c.pc = "after"
  /\ calls' = calls \ {c}
  /\ tr' = IF Wanted /\ current # 0 THEN [tr EXCEPT ![current] = Resumed(@)] ELSE tr
  /\ UNCHANGED <<facade, current, power, bounds>>

\* _activate and _rebuild after _abandon
CreateEnds_unchecked(c) ==
  /\ Prompt
  /\ c.op \in {"activate", "rebuild"} /\ c.pc = "after"
  /\ calls' = calls \ {c}
  /\ IF current = 0
     THEN tr' = Append(tr, Fresh(topic)) /\ current' = Len(tr) + 1
     ELSE UNCHANGED <<tr, current>>
  /\ UNCHANGED <<facade, power, bounds>>

CreateEnds(c) ==
  /\ Prompt
  /\ c.op \in {"activate", "rebuild"} /\ c.pc = "after"
  /\ calls' = calls \ {c}
  /\ IF current = 0 /\ Wanted /\ ~closing
     THEN tr' = Append(tr, Fresh(topic)) /\ current' = Len(tr) + 1
     ELSE UNCHANGED <<tr, current>>
  /\ UNCHANGED <<facade, power, bounds>>

-----------------------------------------------------------------------------
(* The radio *)

\* Power toggles once every manager has heard of the last toggle; a radio
\* without power carries nothing.
Informed == \A t \in DOMAIN tr : Destroyed(tr[t]) \/ {tr[t].server, tr[t].central} = {power}

PowerOff ==
  /\ Prompt /\ Informed
  /\ power = "on" /\ cycled < MaxCycles     \* bound
  /\ power' = "off" /\ cycled' = cycled + 1
  /\ tr' = [t \in DOMAIN tr |-> [tr[t] EXCEPT !.advert = NoTopic, !.scan = NoTopic]]
  /\ UNCHANGED <<facade, current, calls, called>>

PowerOn ==
  /\ Prompt /\ Informed
  /\ power = "off"
  /\ power' = "on"
  /\ UNCHANGED <<facade, current, tr, calls, bounds>>

\* setTopic has paused its transport and has yet to resume it
Bouncing == \E c \in calls : c.op = "topic"

\* a manager that is there hears of a change of power
Hears(t, manager) ==
  /\ ~Destroyed(tr[t]) /\ tr[t][manager] # power
  /\ "cycle" \in Hazards \/ ~Bouncing

\* 'stateChange' on the server manager
ServerChanges(t) ==
  /\ Hears(t, "server")
  /\ LET r == [tr[t] EXCEPT !.server = power, !.state = StateOf(power)]
     IN tr' = [tr EXCEPT ![t] = IF power = "on" THEN ServerStarted(r)
                                ELSE [RadioDown(r) EXCEPT !.adding = FALSE]]
  /\ UNCHANGED <<facade, current, calls, power, bounds>>

\* 'serviceAdd'
ServiceAdded(t) ==
  /\ ~Destroyed(tr[t]) /\ tr[t].adding
  /\ tr' = [tr EXCEPT ![t] = Advertised([@ EXCEPT !.adding = FALSE, !.serviceAdded = TRUE])]
  /\ UNCHANGED <<facade, current, calls, power, bounds>>

\* _scheduleSelfHeal acts on this poweredOn
Heals(r) == power = "on" /\ r.radioWasDown /\ ~r.healing /\ ~Halted(r)

CentralChanges(t) ==
  /\ Hears(t, "central")
  /\ ~Heals(tr[t])
  /\ LET r == [tr[t] EXCEPT !.central = power, !.state = StateOf(power)]
     IN tr' = [tr EXCEPT ![t] = IF power = "off" THEN RadioDown(r)
                                ELSE IF r.radioWasDown THEN r ELSE Scanning(r)]
  /\ UNCHANGED <<facade, current, calls, power, bounds>>

\* 'stateChange' on a central manager that heals: _rebuild, up to the await of
\* _abandon
CentralHeals(t) ==
  /\ Hears(t, "central")
  /\ Heals(tr[t])
  /\ LET r == [tr[t] EXCEPT !.central = power, !.state = StateOf(power),
                            !.radioWasDown = FALSE, !.healing = TRUE]
     IN IF current = t /\ ~closing
        THEN /\ tr' = [tr EXCEPT ![t] = [r EXCEPT !.paused = TRUE]]
             /\ current' = 0
             /\ calls' = calls \cup {[n |-> 0, op |-> "rebuild", pc |-> "drain", t |-> t]}
        ELSE tr' = [tr EXCEPT ![t] = r] /\ UNCHANGED <<current, calls>>
  /\ UNCHANGED <<facade, power, bounds>>

-----------------------------------------------------------------------------
CallStep(c) == SuspendEnds(c) \/ TopicEnds(c) \/ CreateEnds(c)

RadioStep(t) == ServerChanges(t) \/ ServiceAdded(t) \/ CentralChanges(t) \/ CentralHeals(t)

Next ==
  \/ Start \/ Stop \/ Suspend \/ Resume \/ Close
  \/ \E next \in Topics : SetTopic(next)
  \/ \E c \in calls : CallStep(c)
  \/ \E t \in DOMAIN tr : RadioStep(t)
  \/ PowerOff \/ PowerOn

Spec == Init /\ [][Next]_vars

\* Promises settle (_sayGoodbye is a race with a timer) and managers report.
FairSpec ==
  /\ Spec
  /\ WF_vars(\E c \in calls : CallStep(c))
  /\ WF_vars(\E t \in DOMAIN tr : RadioStep(t))

-----------------------------------------------------------------------------
(* Properties *)

\* The radio carries a transport's advertisement or scan.
OnAir(t) == NoTopic \notin {tr[t].advert, tr[t].scan}
OffAir(t) == {tr[t].advert, tr[t].scan} = {NoTopic}

\* Every method has run to its end and every manager knows of the power.
AtRest == calls = {} /\ ~Fledgling /\ Informed

\* "The radio is live only while started AND not suspended": once the suspends
\* in progress have drained, no transport is on the air unless it is wanted, and
\* at any time at most the transport in use is, whatever calls overlapped.
QuietUnlessWanted ==
  /\ ~Wanted /\ (\A c \in calls : c.pc # "drain") => \A t \in DOMAIN tr : OffAir(t)
  /\ \A t \in DOMAIN tr : ~OffAir(t) => t = current \/ \E c \in calls : c.pc = "drain" /\ c.t = t

\* "resume() restores exactly that": at rest, with intent and power, the
\* transport in use runs, hosts its service, advertises and scans.
RestoredAtRest ==
  AtRest /\ Wanted /\ power = "on" =>
    /\ current # 0 /\ ~tr[current].paused
    /\ OnAir(current)
    /\ tr[current].state = "on"

\* "Switch the single active topic": at rest whatever is on the air carries
\* the topic set last, also by a transport created or resumed meanwhile.
OneTopicAtRest ==
  AtRest => \A t \in DOMAIN tr : {tr[t].advert, tr[t].scan} \subseteq {topic, NoTopic}

\* "cycled managers wedge": at rest with power, no transport in use survived a
\* power cycle.
NoWedgedManagers ==
  AtRest /\ Wanted /\ power = "on" /\ current # 0 => ~tr[current].radioCycled

\* Wanted and at rest, bt.state tells the power of the radio, whichever of the
\* two managers, a resume() or the end of a suspend() wrote it last.
StateTruthful ==
  AtRest /\ Wanted /\ current # 0 => tr[current].state = StateOf(power)

\* At rest the radio is what the intent asks for, works, and says so.
IntentKept == RestoredAtRest /\ NoWedgedManagers /\ StateTruthful

\* "Retire the old managers before new ones exist" (_abandon).
OldRetiredFirst ==
  Platform # "other" => \A t \in DOMAIN tr : t < Len(tr) => tr[t].retired

\* "suspended reads as off": once suspend() has drained, bt.state is off.
SuspendedReadsOff ==
  started /\ suspended /\ calls = {} /\ current # 0 => tr[current].state = "off"

\* Once the calls and the power cycles end, the radio follows the intent: no
\* call, rebuild or report is lost on the way.
RadioFollowsIntent ==
  <>[](IF Wanted /\ power = "on" THEN current # 0 /\ OnAir(current)
       ELSE \A t \in DOMAIN tr : OffAir(t))

=============================================================================

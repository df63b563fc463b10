---------------------------- MODULE ScanCadence ----------------------------
(***************************************************************************)
(* When one device scans (src/lib/transport.js): eagerly while it is       *)
(* lonely, on and off once it is linked or online, never beside a dial of  *)
(* its own, and not at all while suspended.  One timer drives it, and      *)
(* every handler that ends a dial or loses a link gives it a push.         *)
(*                                                                         *)
(* Links, dials and time are abstracted to counts and to which delay the   *)
(* pending timer was armed with; the fresh transport that the facade       *)
(* (src/index.js) builds after a radio power cycle replaces this one.      *)
(***************************************************************************)
EXTENDS Integers

CONSTANTS
  MaxPeers,    \* bound: links at once
  MaxDials,    \* bound: dials at once
  Overlap      \* TRUE: resume() may come while suspend() still drains

ASSUME ScanAssumption == MaxPeers \in Nat /\ MaxDials \in Nat /\ Overlap \in BOOLEAN

VARIABLES
  central,    \* central.state: "unknown", "poweredOn" or "off"
  wasDown,    \* _radioWasDown
  suspended,  \* _suspended
  draining,   \* suspend() awaits _sayGoodbye
  scanning,   \* _scanning
  timer,      \* _scanTimer: "none", or what its delay was for
  online,     \* _online
  hunting,    \* Date.now() < _huntUntil
  peers,      \* peers.size
  dials       \* connecting: devices with a dial timer

power == <<central, wasDown, suspended, draining>>
mood == <<online, hunting>>
vars == <<power, scanning, timer, mood, peers, dials>>

TypeOK ==
  /\ central \in {"unknown", "poweredOn", "off"}
  /\ timer \in {"none", "lonely", "on", "dark", "darkOnline"}
  /\ wasDown \in BOOLEAN /\ suspended \in BOOLEAN /\ draining \in BOOLEAN
  /\ scanning \in BOOLEAN /\ online \in BOOLEAN /\ hunting \in BOOLEAN
  /\ peers \in 0 .. MaxPeers /\ dials \in 0 .. MaxDials

\* a transport as its constructor leaves it, and before 'stateChange'
Init ==
  /\ central = "unknown" /\ wasDown = FALSE /\ suspended = FALSE /\ draining = FALSE
  /\ scanning = FALSE /\ timer = "none"
  /\ online \in BOOLEAN /\ hunting = FALSE
  /\ peers = 0 /\ dials = 0

-----------------------------------------------------------------------------
(* The helpers, on the values a handler leaves behind *)

Duty == peers > 0 \/ (online /\ ~hunting)

Delay ==
  IF ~Duty THEN "lonely"
  ELSE IF scanning THEN "on" ELSE IF peers > 0 THEN "dark" ELSE "darkOnline"

\* _armScanRestart
Arm == timer' = Delay'

\* _startScan, with _scanning at s
Starts(s) == ~suspended' /\ ~s /\ central' = "poweredOn"
StartScan(s) ==
  /\ scanning' = (s \/ Starts(s))
  /\ IF Starts(s) THEN Arm ELSE UNCHANGED timer

-----------------------------------------------------------------------------
(* The timer *)

GoDark_unarmed == scanning' = FALSE /\ timer' = "none"
GoDark == scanning' = FALSE /\ Arm

Restarts_lonely == ~Duty
Restarts_linked == ~Duty \/ ~scanning \/ peers > 0
Restarts == ~Duty \/ ~scanning

\* the timeout: a dial puts it off; else it goes dark, back on, or starts anew
TimerFires ==
  /\ timer # "none"
  /\ UNCHANGED <<power, mood, peers, dials>>
  /\ IF suspended THEN timer' = "none" /\ UNCHANGED scanning
     ELSE IF dials > 0 THEN UNCHANGED scanning /\ Arm
     ELSE IF Restarts
     THEN /\ scanning' = (central = "poweredOn")
          /\ timer' = IF scanning' THEN Delay' ELSE "none"
     ELSE GoDark

HuntEnds ==
  /\ hunting /\ hunting' = FALSE
  /\ UNCHANGED <<power, scanning, timer, online, peers, dials>>

\* setOnline
SetOnline ==
  /\ online' = ~online
  /\ UNCHANGED <<power, hunting, peers, dials>>
  /\ IF suspended THEN UNCHANGED <<scanning, timer>>
     ELSE IF ~scanning THEN StartScan(FALSE)
     ELSE UNCHANGED scanning /\ Arm

-----------------------------------------------------------------------------
(* Dials and links *)

\* _onDiscover, of a running scan or a held candidate: the scan stops
Dial ==
  /\ ~suspended /\ central = "poweredOn" /\ dials < MaxDials
  /\ dials' = dials + 1 /\ scanning' = FALSE
  /\ UNCHANGED <<power, timer, mood, peers>>

\* _abortDial, _endCentral, _onChannel: the dial, if it was one, is over
DialEnds ==
  /\ dials > 0 /\ dials' = dials - 1
  /\ UNCHANGED <<power, mood, peers>>
  /\ StartScan(scanning)

\* the same handlers for a link that is no dial's: an accepted one, a late error
Stray ==
  /\ UNCHANGED <<power, mood, peers, dials>>
  /\ StartScan(scanning)

\* _onCentralError gives up all dials and leaves the scan to the timer
CentralError ==
  /\ dials > 0 /\ dials' = 0
  /\ UNCHANGED <<power, scanning, timer, mood, peers>>

\* _track
Track ==
  /\ peers < MaxPeers
  /\ peers' = peers + 1
  /\ UNCHANGED <<power, scanning, timer, mood, dials>>

\* _untrack, of the tracked connection of a peer or of another one
Hunts_never == FALSE
Hunts_always == peers' = 0
Hunts == peers' = 0 /\ ~suspended

Untrack ==
  /\ peers' \in {peers, peers - 1} \cap Nat
  /\ UNCHANGED <<power, online, dials>>
  /\ IF Hunts
     THEN /\ hunting' = TRUE
          /\ scanning' = (scanning \/ Starts(scanning))
          /\ Arm
     ELSE UNCHANGED <<hunting, scanning, timer>>

-----------------------------------------------------------------------------
(* Radio, suspend and resume *)

\* _onRadioDown, on the report of either manager, the first one as well; the
\* links it destroys are untracked as they close
RadioDown ==
  /\ central' \in {central, "off"}
  /\ wasDown' = TRUE
  /\ scanning' = FALSE /\ dials' = 0
  /\ UNCHANGED <<suspended, draining, timer, mood, peers>>

\* a new transport in place of this one: _rebuild, _activate
Fresh ==
  /\ central' = "unknown" /\ wasDown' = FALSE /\ suspended' = FALSE /\ draining' = FALSE
  /\ scanning' = FALSE /\ timer' = "none" /\ hunting' = FALSE
  /\ peers' = 0 /\ dials' = 0 /\ UNCHANGED online

RadioOn ==
  /\ central # "poweredOn"
  /\ IF wasDown /\ ~suspended THEN Fresh
     ELSE /\ central' = "poweredOn"
          /\ UNCHANGED <<wasDown, suspended, draining, mood, peers, dials>>
          /\ IF wasDown THEN UNCHANGED <<scanning, timer>> ELSE StartScan(scanning)

\* suspend, up to its await
Suspend ==
  /\ ~suspended /\ suspended' = TRUE /\ draining' = TRUE
  /\ timer' = "none" /\ dials' = 0
  /\ UNCHANGED <<central, wasDown, scanning, mood, peers>>

\* suspend behind the await
Drained ==
  /\ draining /\ draining' = FALSE
  /\ scanning' = FALSE /\ peers' = 0
  /\ UNCHANGED <<central, wasDown, suspended, timer, mood, dials>>

\* resume; a transport whose radio cycled is replaced instead
Resume ==
  /\ suspended /\ (draining => Overlap)
  /\ IF wasDown THEN Fresh
     ELSE /\ suspended' = FALSE /\ hunting' = TRUE
          /\ UNCHANGED <<central, wasDown, draining, online, peers, dials>>
          /\ StartScan(scanning)

Next ==
  \/ TimerFires \/ HuntEnds \/ SetOnline
  \/ Dial \/ DialEnds \/ Stray \/ CentralError \/ Track \/ Untrack
  \/ RadioDown \/ RadioOn \/ Suspend \/ Drained \/ Resume

Spec == Init /\ [][Next]_vars

\* Timers fire: the scan timer, and CONNECT_TIMEOUT that ends a dial.  Nothing
\* else has to happen.  SF for the dials: without a scan only held candidates are
\* dialed, finitely many, so errors of the central cannot cut short every dial.
FairSpec == Spec /\ WF_vars(TimerFires) /\ SF_vars(DialEnds)

-----------------------------------------------------------------------------
(* Properties *)

Running == ~suspended /\ ~draining /\ central = "poweredOn" /\ ~wasDown

\* While the transport runs its timer pends: no handler, in whatever order they
\* come, leaves a device that never scans again.
CadenceAlive == Running => timer # "none"

\* A lonely device hunts at the eager cadence as long as it is offline or has
\* just lost its last link: no dark window that began earlier is waited out.
Eager == Running /\ ~Duty => timer = "lonely"

\* While the transport runs its timer pends, for the delay that is due.
CadenceRight == CadenceAlive /\ Eager

\* A suspended device neither scans nor dials nor will: close events and timers
\* that come late start nothing.
QuietWhileSuspended ==
  suspended /\ ~draining => ~scanning /\ timer = "none" /\ dials = 0

\* A running device scans, again and again, whatever dials it makes.
ScanRecurs == Running ~> (scanning \/ ~Running)

\* A linked device rests its scanner: the battery is saved, again and again.
ScanRests == (Running /\ peers > 0) ~> (~scanning \/ peers = 0 \/ ~Running)
=============================================================================

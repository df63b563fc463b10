------------------------- MODULE CentralDialProofs -------------------------
(* Proofs about CentralDial, for any number of connections and sessions and  *)
(* whether or not the platform reuses its emitters.                          *)
EXTENDS CentralDial, TLAPS

Counted ==
  /\ link \in {"down", "dial", "kept"}
  /\ once \in [Steps -> Nat] /\ due \in [Steps -> Nat]
  /\ onNotify \in Nat /\ connects \in Nat /\ copies \in Nat
  /\ sessions \in 0 .. MaxSessions /\ session \in Nat /\ stream \in Nat
  /\ asked \subseteq 1 .. sessions /\ heard \subseteq 1 .. sessions

\* What keeps the answers of one session from the next, unless 'connect' came
\* over a link under probe: a session under way has used up the listener that
\* started it, and so has a bound stream.
Orderly ==
  /\ link = "kept" => session = 0 /\ once["notifyState"] = 0
  /\ session \in asked \cup heard => link = "dial" /\ once["notifyState"] = 0
  /\ stream # 0 => session \in {0, stream}
  /\ stream # 0 /\ link = "dial" => once["notifyState"] = 0

\* On fresh emitters there is one listener, or the session it started.
Fresh ==
  /\ once["notifyState"] + onNotify <= 1
  /\ sessions + once["notifyState"] <= connects
  /\ copies <= 1

DialInv ==
  /\ Counted
  /\ link = "down" => \A e \in Steps : due[e] = 0
  /\ link = "dial" => held
  /\ stream # 0 => linked
  /\ Deadline
  /\ ~crossed => Orderly
  /\ ~reuse => Fresh

LEMMA DialInit == Init => DialInv
BY DialAssumption DEF Init, DialInv, Counted, Deadline, Orderly, Fresh, None, Steps, Ids

\* The link goes: nothing that was under way on it is left.
LEMMA DownKeeps ==
  ASSUME DialInv, LinkDown, asked' = {}, heard' = {}, sessions' = sessions,
         UNCHANGED <<reuse, linked, stream, copies>>,
         ~crossed' => ~crossed \/ stream = 0,
         once' \in [Steps -> Nat], \A e \in Steps : once'[e] <= once[e],
         session' = session, onNotify' = onNotify
  PROVE  DialInv'
<1>1. link' = "down" /\ due' = None /\ connects' = connects
  BY DEF LinkDown
<1>2. due' \in [Steps -> Nat] /\ \A e \in Steps : due'[e] = 0
  BY <1>1 DEF None
<1>3. "notifyState" \in Steps /\ once["notifyState"] \in Nat
  BY DEF DialInv, Counted, Steps
<1>4. Counted'
  BY <1>1, <1>2 DEF DialInv, Counted
<1>5. ~reuse' => Fresh'
  BY <1>1, <1>3 DEF DialInv, Counted, Fresh
<1>6. ~crossed' => Orderly'
  BY <1>1 DEF DialInv, Orderly
<1> QED BY <1>1, <1>2, <1>4, <1>5, <1>6 DEF DialInv, Deadline

LEMMA AbortKeeps ==
  ASSUME DialInv, AbortDial, UNCHANGED <<reuse, linked, stream, copies>>,
         once' \in [Steps -> Nat], \A e \in Steps : once'[e] <= once[e],
         session' = session, onNotify' = onNotify
  PROVE  DialInv'
BY DownKeeps DEF AbortDial, Disconnected

LEMMA EndKeeps ==
  ASSUME DialInv, NEW s \in asked \cup heard, s = session, NEW keep \in BOOLEAN,
         EndCentral(keep), asked' \subseteq asked, heard' \subseteq heard,
         stream = 0, UNCHANGED <<reuse, listeners, linked, stream, copies, sessions>>
  PROVE  DialInv'
<1>1. ~crossed => once["notifyState"] = 0
  BY DEF DialInv, Orderly
<1>2. 0 \notin asked \cup heard /\ 0 \notin asked' \cup heard'
  BY DEF DialInv, Counted
<1>3. UNCHANGED <<once, onNotify, connects>> /\ session' = 0
  BY DEF EndCentral, LinkDown, listeners
<1>4. CASE keep
  <2>1. link' = "kept" /\ due' = due /\ crossed' = crossed
    BY <1>4 DEF EndCentral
  <2>2. Counted'
    BY <1>3, <2>1 DEF DialInv, Counted
  <2> QED BY <1>1, <1>2, <1>3, <2>1, <2>2 DEF DialInv, Deadline, Orderly, Fresh
<1>5. CASE ~keep
  <2>1. link' = "down" /\ due' = None
    BY <1>5 DEF EndCentral, LinkDown
  <2>2. due' \in [Steps -> Nat] /\ \A e \in Steps : due'[e] = 0
    BY <2>1 DEF None
  <2>3. Counted'
    BY <1>3, <2>1, <2>2 DEF DialInv, Counted
  <2> QED BY <1>2, <1>3, <2>1, <2>2, <2>3 DEF DialInv, Deadline, Orderly, Fresh
<1> QED BY <1>4, <1>5

LEMMA DialStep ==
  ASSUME DialInv, [Next]_vars
  PROVE  DialInv'
<1>1. CASE Dial
  <2>1. CASE AbortDial
    BY <1>1, <2>1, AbortKeeps DEF Dial, listeners, pipe, DialInv, Counted, Steps
  <2>2. CASE ~AbortDial
    <3>1. /\ ~linked /\ ~timer
          /\ UNCHANGED <<cool, held, link, connects, due, sessions, asked, heard, bare, crossed,
                        reuse, linked, once, onNotify, session, stream, copies>>
      BY <1>1, <2>2 DEF Dial, Dialable, listeners, pipe, server, history
    <3>2. ~(link = "dial" /\ ~bare)
      BY <3>1 DEF DialInv, Deadline
    <3>3. Counted'
      BY <3>1 DEF DialInv, Counted
    <3> QED BY <3>1, <3>2, <3>3 DEF DialInv, Deadline, Orderly, Fresh
  <2> QED BY <2>1, <2>2
<1>2. CASE CoolExpires
  BY <1>2 DEF CoolExpires, DialInv, Counted, Deadline, Orderly, Fresh, radio, listeners, pipe,
              server, history, Steps, Ids
<1>3. CASE Connected
  <2>1. /\ once' \in [Steps -> Nat] /\ due' \in [Steps -> Nat]
        /\ ~reuse => once'["notifyState"] = 1
    BY <1>3 DEF Connected, DialInv, Counted, None, Steps
  <2>2. /\ pending /\ link' = "dial" /\ held' /\ ~pending' /\ connects' = connects + 1
        /\ UNCHANGED <<reuse, timer, linked, copies, sessions, asked, heard>>
    BY <1>3 DEF Connected, Holds, server
  <2>3. /\ reuse => UNCHANGED <<onNotify, session, stream>>
        /\ ~reuse => onNotify' = 0 /\ session' = 0 /\ stream' = 0
    BY <1>3 DEF Connected
  <2>4. Counted'
    BY <2>1, <2>2, <2>3 DEF DialInv, Counted
  <2>5. Deadline'
    <3>1. ~bare' => timer
      BY <1>3 DEF Connected
    <3> QED BY <2>2, <3>1 DEF Deadline
  <2>6. ~crossed' => Orderly'
    <3> SUFFICES ASSUME ~crossed' PROVE Orderly'
      OBVIOUS
    <3>1. ~crossed /\ link # "dial" /\ ~(linked /\ stream # 0)
      BY <1>3 DEF Connected
    <3>2. stream = 0 /\ Orderly
      BY <3>1 DEF DialInv
    <3>3. stream' = 0 /\ session' \in {0, session}
      BY <2>3, <3>2
    <3>4. 0 \notin asked \cup heard
      BY DEF DialInv, Counted
    <3>5. session' \notin asked' \cup heard'
      BY <2>2, <3>1, <3>2, <3>3, <3>4 DEF Orderly
    <3> QED BY <2>2, <3>3, <3>5 DEF Orderly
  <2>7. ~reuse' => Fresh'
    <3> SUFFICES ASSUME ~reuse PROVE Fresh'
      BY <2>2
    <3>1. sessions <= connects /\ copies <= 1
      BY DEF DialInv, Fresh, Counted, Steps
    <3> QED BY <2>1, <2>2, <2>3, <3>1 DEF Fresh, DialInv, Counted
  <2>8. stream' # 0 => linked'
    BY <2>2, <2>3 DEF DialInv
  <2> QED BY <2>2, <2>4, <2>5, <2>6, <2>7, <2>8 DEF DialInv
<1>4. CASE Timeout
  BY <1>4, AbortKeeps DEF Timeout, listeners, pipe, DialInv, Counted, Steps
<1>5. CASE PeripheralError
  <2>1. CASE onError > 0
    BY <1>5, <2>1, AbortKeeps DEF PeripheralError, listeners, pipe, DialInv, Counted, Steps
  <2>2. CASE ~(onError > 0)
    <3>1. /\ LinkDown /\ asked' = {} /\ heard' = {}
          /\ crossed' = (crossed /\ stream # 0)
          /\ UNCHANGED <<reuse, linked, stream, copies, session, sessions, once, onNotify>>
      BY <1>5, <2>2 DEF PeripheralError, Disconnected, listeners, pipe
    <3>2. ~crossed' => ~crossed \/ stream = 0
      BY <3>1
    <3>3. once' \in [Steps -> Nat] /\ \A e \in Steps : once'[e] <= once[e]
      BY <3>1 DEF DialInv, Counted
    <3> QED BY <3>1, <3>2, <3>3, DownKeeps
  <2> QED BY <2>1, <2>2
<1>6. CASE CentralError
  <2>1. CASE Disconnected
    <3>1. /\ link' = "down" /\ due' = None /\ asked' = {} /\ heard' = {}
          /\ crossed' = (crossed /\ stream # 0)
          /\ UNCHANGED <<reuse, linked, stream, copies, once, onNotify, session, sessions, connects>>
      BY <1>6, <2>1 DEF CentralError, Disconnected, LinkDown, listeners, pipe
    <3>2. due' \in [Steps -> Nat] /\ \A e \in Steps : due'[e] = 0
      BY <3>1 DEF None
    <3>3. Counted'
      BY <3>1, <3>2 DEF DialInv, Counted
    <3> QED BY <3>1, <3>2, <3>3 DEF DialInv, Deadline, Orderly, Fresh
  <2>2. CASE ~Disconnected
    <3>1. UNCHANGED <<link, connects, due, sessions, asked, heard, crossed, held, linked,
                      reuse, once, onNotify, session, stream, copies>>
      BY <1>6, <2>2 DEF CentralError, radio, server, listeners, pipe
    <3>2. Counted'
      BY <3>1 DEF DialInv, Counted
    <3>3. Deadline'
      BY <1>6 DEF CentralError, Deadline
    <3>4. (~crossed' => Orderly') /\ (~reuse' => Fresh')
      BY <3>1 DEF DialInv, Orderly, Fresh
    <3> QED BY <3>1, <3>2, <3>3, <3>4 DEF DialInv
  <2> QED BY <2>1, <2>2
<1>7. ASSUME NEW e \in Steps, NEW next \in Steps, e # next, e # "notifyState",
             Discovered(e, next)
      PROVE  DialInv'
  <2>1. CASE AbortDial
    BY <1>7, <2>1, AbortKeeps DEF Discovered, pipe, DialInv, Counted, Steps
  <2>2. CASE ~AbortDial
    <3>1. /\ due[e] > 0
          /\ due' = [due EXCEPT ![e] = @ - 1, ![next] = @ + once[e]]
          /\ once' = [once EXCEPT ![e] = 0]
          /\ UNCHANGED <<timer, cool, held, pending, link, connects, sessions, asked, heard,
                        reuse, linked, onNotify, session, stream, copies, bare, crossed>>
      BY <1>7, <2>2 DEF Discovered, pipe, server, history
    <3>2. once' \in [Steps -> Nat] /\ due' \in [Steps -> Nat] /\ link # "down"
      BY <3>1, <1>7 DEF DialInv, Counted
    <3>3. once'["notifyState"] = once["notifyState"]
      BY <3>1, <1>7 DEF DialInv, Counted, Steps
    <3>4. Counted'
      BY <3>1, <3>2 DEF DialInv, Counted
    <3> QED BY <3>1, <3>2, <3>3, <3>4 DEF DialInv, Deadline, Orderly, Fresh
  <2> QED BY <2>1, <2>2
<1>8. CASE NotifyState
  <2>1. CASE AbortDial /\ UNCHANGED <<session, onNotify>>
    BY <1>8, <2>1, AbortKeeps DEF NotifyState, DialInv, Counted, Steps
  <2>2. CASE ~(AbortDial /\ UNCHANGED <<session, onNotify>>)
    <3> DEFINE k == once["notifyState"]
    <3>1. /\ k \in Nat /\ due["notifyState"] \in Nat \ {0} /\ link \in {"dial", "kept"}
          /\ sessions \in Nat /\ session \in Nat /\ onNotify \in Nat
      BY <1>8 DEF NotifyState, DialInv, Counted, Steps
    <3>2. /\ sessions + k <= MaxSessions /\ sessions' = sessions + k
          /\ due' = [due EXCEPT !["notifyState"] = @ - 1]
          /\ session' = IF k > 0 THEN sessions + k ELSE session
          /\ onNotify' = onNotify + k
          /\ asked' = asked \cup (sessions + 1 .. sessions + k)
          /\ UNCHANGED <<timer, cool, held, pending, link, connects, heard, bare, crossed>>
      BY <1>8, <2>2 DEF NotifyState, Subscribed, DialTimer_kept, history
    <3>3. /\ once' = [once EXCEPT !["notifyState"] = 0]
          /\ UNCHANGED <<reuse, linked, stream, copies>>
      BY <1>8 DEF NotifyState
    <3> HIDE DEF k
    <3>4. k = once["notifyState"]
      BY DEF k
    <3>5. once' \in [Steps -> Nat] /\ due' \in [Steps -> Nat] /\ once'["notifyState"] = 0
      BY <3>1, <3>2, <3>3 DEF DialInv, Counted, Steps
    <3>6. /\ sessions' \in 0 .. MaxSessions /\ session' \in Nat /\ onNotify' \in Nat
          /\ asked' \subseteq 1 .. sessions' /\ heard' \subseteq 1 .. sessions'
      BY <3>1, <3>2, DialAssumption DEF DialInv, Counted
    <3>7. Counted'
      BY <3>2, <3>3, <3>5, <3>6 DEF DialInv, Counted
    <3>8. ~crossed' => Orderly'
      <4> SUFFICES ASSUME ~crossed PROVE Orderly'
        BY <3>2
      <4>1. Orderly
        BY DEF DialInv
      <4>2. CASE k > 0
        <5>1. link = "dial" /\ stream = 0
          BY <3>1, <3>4, <4>1, <4>2 DEF Orderly
        <5> QED BY <3>2, <3>3, <3>5, <5>1 DEF Orderly
      <4>3. CASE k = 0
        <5>1. session' = session /\ asked' = asked
          BY <3>1, <3>2, <4>3
        <5> QED BY <3>2, <3>3, <3>5, <4>1, <5>1 DEF Orderly
      <4> QED BY <3>1, <4>2, <4>3
    <3>9. ~reuse' => Fresh'
      BY <3>1, <3>2, <3>3, <3>4, <3>5 DEF DialInv, Counted, Fresh
    <3>10. link' # "down" /\ (link' = "dial" => held') /\ (stream' # 0 => linked') /\ Deadline'
      BY <3>1, <3>2, <3>3 DEF DialInv, Deadline
    <3> QED BY <3>7, <3>8, <3>9, <3>10 DEF DialInv
  <2> QED BY <2>1, <2>2
<1>9. ASSUME NEW s \in Ids, Hello(s) PROVE DialInv'
  <2>1. CASE s # session \/ stream # 0 \/ onNotify = 0
    <3>1. /\ s \in asked /\ asked' = asked \ {s} /\ heard' = heard \cup {s}
          /\ UNCHANGED <<timer, cool, held, linked, pending, link, connects, due, session,
                        stream, copies, reuse, once, onNotify, sessions, bare, crossed>>
      BY <1>9, <2>1 DEF Hello, device, radio, pipe, listeners, history
    <3>2. asked' \subseteq asked /\ asked' \cup heard' = asked \cup heard
      BY <3>1
    <3>3. Counted'
      BY <3>1, <3>2 DEF DialInv, Counted
    <3> QED BY <3>1, <3>2, <3>3 DEF DialInv, Deadline, Orderly, Fresh
  <2>2. CASE /\ s = session /\ stream = 0
             /\ \E keep \in BOOLEAN :
                  EndCentral(keep) /\ UNCHANGED <<linked, stream, copies, heard>>
    BY <1>9, <2>2, EndKeeps DEF Hello, listeners
  <2>3. CASE /\ s = session /\ stream = 0
             /\ stream' = s
             /\ timer' = FALSE /\ cool' = FALSE /\ linked' = TRUE
             /\ heard' = heard \cup {s}
             /\ UNCHANGED <<held, radio, session, copies, history>>
    <3>1. /\ s \in asked /\ asked' = asked \ {s}
          /\ UNCHANGED <<reuse, once, onNotify, sessions, held, pending, link, connects, due,
                         session, copies, bare, crossed>>
      BY <1>9, <2>3 DEF Hello, listeners, radio, history
    <3>2. s \in 1 .. sessions /\ sessions \in Nat /\ s \in Nat \ {0}
      BY <3>1 DEF DialInv, Counted
    <3>3. Counted'
      BY <2>3, <3>1, <3>2 DEF DialInv, Counted
    <3>4. ~crossed' => Orderly'
      BY <2>3, <3>1, <3>2 DEF DialInv, Orderly
    <3>5. linked' /\ stream' # 0 /\ (link' = "dial" => held') /\ Deadline'
      BY <2>3, <3>1, <3>2 DEF DialInv, Deadline
    <3> QED BY <3>1, <3>3, <3>4, <3>5 DEF DialInv, Fresh
  <2> QED BY <1>9, <2>1, <2>2, <2>3 DEF Hello
<1>10. ASSUME NEW s \in Ids, Data(s) PROVE DialInv'
  BY <1>10 DEF Data, DialInv, Counted, Deadline, Orderly, Fresh, device, radio, listeners, server,
               history, Steps, Ids
<1>11. ASSUME NEW s \in Ids, Close(s) PROVE DialInv'
  <2>1. CASE s # session
    BY <1>11, <2>1 DEF Close, DialInv, Counted, Deadline, Orderly, Fresh, device, radio, pipe,
                       listeners, history, Steps, Ids
  <2>2. CASE s = session /\ stream # 0
    BY <1>11, <2>2 DEF Close, DialInv, Counted, Deadline, Orderly, Fresh, device, radio, listeners,
                       history, Steps, Ids
  <2>3. CASE s = session /\ stream = 0
    BY <1>11, <2>3, EndKeeps DEF Close, listeners
  <2> QED BY <2>1, <2>2, <2>3
<1>12. CASE StreamCloses
  BY <1>12 DEF StreamCloses, LinkDown, DialInv, Counted, Deadline, Orderly, Fresh, None, listeners,
               Steps, Ids
<1>13. CASE ConnCloses
  BY <1>13 DEF ConnCloses, DialInv, Counted, Deadline, Orderly, Fresh, radio, listeners, pipe, server,
               history, Steps, Ids
<1>14. CASE UNCHANGED vars
  BY <1>14 DEF vars, DialInv, Counted, Deadline, Orderly, Fresh, device, radio, listeners, pipe,
               server, history, Steps, Ids
<1> QED
  BY <1>1, <1>2, <1>3, <1>4, <1>5, <1>6, <1>7, <1>8, <1>9, <1>10, <1>11, <1>12, <1>13, <1>14
     DEF Next, Steps

\* What the dials of one peer keep up, whatever fails, is reported for another
\* device, or comes late.
THEOREM DialInvariant == Spec => []DialInv
BY DialInit, DialStep, PTL DEF Spec

\* No radio link is probed without a deadline nor dialed again, whatever fails on
\* the way and however many listeners earlier connections left behind, until an
\* error of the adapter clears the deadline or 'connect' comes behind it.
THEOREM AlwaysADeadline == Spec => []Deadline
<1>1. DialInv => Deadline
  BY DEF DialInv
<1> QED BY <1>1, DialInvariant, PTL

\* The stream an emitter holds belongs to the session it holds, also where both
\* outlive the connections they were made for, unless the peer was connected anew
\* over a link under probe or an open stream.
THEOREM StreamOfItsSession == Spec => []OwnStream
<1>1. DialInv => OwnStream
  BY DEF DialInv, Orderly, OwnStream
<1> QED BY <1>1, DialInvariant, PTL

\* suspend finds the emitter of every session under way.
THEOREM GoodbyeReaches == Spec => []HeldForGoodbye
<1>1. DialInv => HeldForGoodbye
  BY DEF DialInv, HeldForGoodbye
<1> QED BY <1>1, DialInvariant, PTL

\* Fresh emitters see one OPEN per connection and each DATA frame once.
THEOREM FreshEmitters == Spec => []FreshOnce
<1>1. DialInv => FreshOnce
  BY DEF DialInv, Counted, Fresh, FreshOnce, Steps
<1> QED BY <1>1, DialInvariant, PTL

\* Frames reach the stream of their session, with that exception, and once on
\* fresh emitters.
THEOREM FramesReach == Spec => []FramesReachOwner
BY StreamOfItsSession, FreshEmitters, PTL DEF FramesReachOwner
=============================================================================

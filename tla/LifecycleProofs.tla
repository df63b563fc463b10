--------------------------- MODULE LifecycleProofs ---------------------------
(* Proofs about Lifecycle, for any topics, platform, number of calls and      *)
(* power losses: its types; whether or not the calls overlap, that the radio  *)
(* is quiet unless it is wanted, and that it is on one topic; for calls one   *)
(* after the other, that it runs when it is wanted and says so.               *)
EXTENDS Lifecycle, TLAPS

\* What a transport has on the air, or will have once its service is added.
Silent(r) == r.advert = NoTopic /\ r.scan = NoTopic
Live(r) == ~Silent(r) \/ (r.adding /\ ~Destroyed(r))

\* From r to q nothing wakes up, and nothing goes on the air while halted.
Calm(r, q) ==
  /\ q \in Transport
  /\ ~Halted(q) => ~Halted(r)
  /\ Live(q) => ~Halted(q) \/ (Live(r) /\ Halted(r))

-----------------------------------------------------------------------------
(* What the transport's methods make of its record                            *)

LEMMA FreshFacts ==
  ASSUME NEW u \in Topics
  PROVE  Fresh(u) \in Transport /\ ~Live(Fresh(u))
BY DEF Fresh, Transport, Live, Silent

LEMMA PausedFacts ==
  ASSUME NEW r \in Transport
  PROVE  /\ [r EXCEPT !.paused = TRUE] \in Transport
         /\ Halted([r EXCEPT !.paused = TRUE])
BY DEF Transport, Halted

LEMMA TopicFacts ==
  ASSUME NEW r \in Transport, NEW u \in Topics
  PROVE  Calm(r, [r EXCEPT !.uuid = u])
BY DEF Transport, Calm, Live, Silent, Halted, Destroyed

LEMMA OnAirFacts ==
  ASSUME NEW r \in Transport
  PROVE  OnAirAs(r.uuid) \in Topics \cup {NoTopic}
BY DEF OnAirAs, Transport

LEMMA AdvertisedFacts ==
  ASSUME NEW r \in Transport
  PROVE  /\ Advertised(r) \in Transport
         /\ Advertised(r).adding = r.adding
         /\ Advertised(r).paused = r.paused /\ Advertised(r).closed = r.closed
         /\ Advertised(r).retired = r.retired /\ Advertised(r).scan = r.scan
<1> DEFINE q == [r EXCEPT !.advertising = TRUE, !.advert = OnAirAs(r.uuid)]
<1>1. /\ q \in Transport /\ q.adding = r.adding /\ q.paused = r.paused
      /\ q.closed = r.closed /\ q.retired = r.retired /\ q.scan = r.scan
  BY OnAirFacts DEF Transport
<1>2. Advertised(r) = q \/ Advertised(r) = r
  BY DEF Advertised
<1> QED BY <1>1, <1>2

LEMMA ScanningFacts ==
  ASSUME NEW r \in Transport
  PROVE  /\ Scanning(r) \in Transport
         /\ Scanning(r).adding = r.adding
         /\ Scanning(r).paused = r.paused /\ Scanning(r).closed = r.closed
         /\ Scanning(r).retired = r.retired /\ Scanning(r).advert = r.advert
         /\ Halted(r) => Scanning(r) = r
<1> DEFINE q == [r EXCEPT !.scanning = TRUE, !.scan = OnAirAs(r.uuid)]
<1>1. /\ q \in Transport /\ q.adding = r.adding /\ q.paused = r.paused
      /\ q.closed = r.closed /\ q.retired = r.retired /\ q.advert = r.advert
  BY OnAirFacts DEF Transport
<1>2. Scanning(r) = q \/ Scanning(r) = r
  BY DEF Scanning
<1>3. Halted(r) => Scanning(r) = r
  BY DEF Scanning
<1> HIDE DEF q
<1> QED BY <1>1, <1>2, <1>3

LEMMA RadioDownFacts ==
  ASSUME NEW r \in Transport
  PROVE  /\ RadioDown(r) \in Transport
         /\ [RadioDown(r) EXCEPT !.adding = FALSE] \in Transport
BY DEF RadioDown, Transport

LEMMA ServerStartedFacts ==
  ASSUME NEW r \in Transport
  PROVE  Calm(r, ServerStarted(r))
<1> DEFINE q == [r EXCEPT !.adding = TRUE]
<1>1. q \in Transport /\ (Halted(q) <=> Halted(r))
  BY DEF Transport, Halted
<1>2. (ServerStarted(r) = q /\ ~Halted(r)) \/ ServerStarted(r) = r
  BY DEF ServerStarted
<1>3. Calm(r, r)
  BY DEF Calm
<1> HIDE DEF q
<1> QED BY <1>1, <1>2, <1>3 DEF Calm

\* resume() wakes a transport unless it is closed, and then it touches nothing.
LEMMA ResumedFacts ==
  ASSUME NEW r \in Transport
  PROVE  /\ Resumed(r) \in Transport
         /\ r.closed => Halted(Resumed(r)) /\ (Live(Resumed(r)) <=> Live(r))
         /\ ~r.closed => ~Halted(Resumed(r))
<1>1. CASE r.closed
  BY <1>1 DEF Resumed, Transport, Halted, Live, Silent, Destroyed
<1>2. CASE ~r.closed
  <2> DEFINE a == [r EXCEPT !.paused = FALSE, !.advertising = FALSE]
             b == Advertised(a)
             c == Scanning(b)
  <2>1. a \in Transport /\ ~a.closed /\ ~a.paused
    BY <1>2 DEF Transport
  <2> HIDE DEF a
  <2>2. b \in Transport /\ ~b.closed /\ ~b.paused
    BY <2>1, AdvertisedFacts
  <2> HIDE DEF b
  <2>3. c \in Transport /\ ~c.closed /\ ~c.paused
    BY <2>2, ScanningFacts
  <2>4. Resumed(r) = [c EXCEPT !.state = StateOf(r.central)]
    BY <1>2 DEF Resumed, a, b
  <2> HIDE DEF c
  <2>5. StateOf(r.central) \in {"waiting", "on"}
    BY DEF StateOf
  <2> QED BY <1>2, <2>3, <2>4, <2>5 DEF Transport, Halted
<1> QED BY <1>1, <1>2

\* The end of suspend(), or close(), takes a transport off the air.
LEMMA QuietedFacts ==
  ASSUME NEW r \in Transport
  PROVE  /\ Quieted(r) \in Transport /\ Silent(Quieted(r))
         /\ Quieted(r).adding = r.adding /\ Quieted(r).retired = r.retired
         /\ Quieted(r).paused = r.paused /\ Quieted(r).closed = r.closed
BY DEF Quieted, Transport, Silent

LEMMA ClosedType ==
  ASSUME NEW r \in Transport
  PROVE  Closed(r) \in Transport
BY DEF Closed, Transport

LEMMA RetiredFacts ==
  ASSUME NEW r \in Transport
  PROVE  Retired(r) \in Transport
<1>1. [r EXCEPT !.retired = TRUE] \in Transport
  BY DEF Transport
<1> QED BY <1>1 DEF Retired

LEMMA ClosedFacts ==
  ASSUME NEW r \in Transport, ~(r.adding /\ ~Destroyed(r))
  PROVE  Closed(r) \in Transport /\ Halted(Closed(r)) /\ ~Live(Closed(r))
BY DEF Closed, Transport, Silent, Halted, Live, Destroyed

LEMMA DrainedFacts ==
  ASSUME NEW r \in Transport, ~(r.adding /\ ~Destroyed(r)),
         NEW q, q = Quieted(r) \/ q = Retired(Quieted(r))
  PROVE  q \in Transport /\ ~Live(q) /\ (~Halted(q) => ~Halted(r))
<1> DEFINE s == Quieted(r)
<1>1. /\ s \in Transport /\ Silent(s) /\ s.adding = r.adding /\ s.retired = r.retired
      /\ s.paused = r.paused /\ s.closed = r.closed
  BY QuietedFacts
<1> HIDE DEF s
<1>2. CASE q = s
  BY <1>1, <1>2 DEF Live, Halted, Destroyed
<1>3. CASE q = [s EXCEPT !.retired = TRUE]
  <2>1. /\ q \in Transport /\ q.advert = s.advert /\ q.scan = s.scan /\ q.adding = s.adding
        /\ q.retired /\ q.paused = s.paused /\ q.closed = s.closed
    BY <1>1, <1>3 DEF Transport
  <2> QED BY <1>1, <2>1 DEF Live, Silent, Halted, Destroyed
<1> QED BY <1>2, <1>3 DEF Retired, s

-----------------------------------------------------------------------------
(* Typing                                                                     *)

Shape == tr \in Seq(Transport) /\ current \in 0 .. Len(tr)

\* A call in order while the transport in use is cur, of len created.
CallOK(c, cur, len) ==
  /\ c \in [n : 0 .. MaxCalls, op : {"pause", "topic", "activate", "rebuild"},
            pc : {"drain", "after"}, t : 0 .. len]
  /\ c.pc = "drain" => c.t # 0
  /\ c.op \in {"activate", "rebuild"} /\ cur # 0 => c.t # cur

CallsOK == \A c \in calls : CallOK(c, current, Len(tr))

RestOK ==
  /\ {started, suspended, closing} \subseteq BOOLEAN
  /\ topic \in Topics
  /\ power \in {"on", "off"}
  /\ called \in 0 .. MaxCalls /\ cycled \in 0 .. MaxCycles

LEMMA TypeParts == TypeOK <=> RestOK /\ Shape /\ CallsOK
BY DEF TypeOK, RestOK, Shape, CallOK, CallsOK, Call

\* The transports with one of them replaced.
LEMMA OneReplaced ==
  ASSUME tr \in Seq(Transport), NEW t \in DOMAIN tr, NEW q \in Transport
  PROVE  LET new == [tr EXCEPT ![t] = q]
         IN  /\ new \in Seq(Transport)
             /\ Len(new) = Len(tr) /\ DOMAIN new = DOMAIN tr
             /\ new[t] = q /\ \A s \in DOMAIN tr : s # t => new[s] = tr[s]
OBVIOUS

\* setTopic's two assignments to a transport are one replacement.
LEMMA BouncedIsOne ==
  ASSUME tr \in Seq(Transport), NEW t \in DOMAIN tr, NEW u
  PROVE  [tr EXCEPT ![t].uuid = u, ![t].paused = TRUE] =
           [tr EXCEPT ![t] = [[tr[t] EXCEPT !.uuid = u] EXCEPT !.paused = TRUE]]
<1> DEFINE a == [tr[t] EXCEPT !.uuid = u]
           b == [tr EXCEPT ![t] = a]
           q == [a EXCEPT !.paused = TRUE]
<1>1. b[t] = a
  OBVIOUS
<1>2. [b EXCEPT ![t] = q] = [tr EXCEPT ![t] = q]
  <2> HIDE DEF a, q
  <2> QED OBVIOUS
<1>3. [tr EXCEPT ![t].uuid = u, ![t].paused = TRUE] = [b EXCEPT ![t] = [b[t] EXCEPT !.paused = TRUE]]
  OBVIOUS
<1> HIDE DEF a, b
<1> QED BY <1>1, <1>2, <1>3 DEF a

LEMMA CurrentInDomain ==
  ASSUME Shape, current # 0
  PROVE  current \in DOMAIN tr /\ tr[current] \in Transport
BY DEF Shape

\* A new transport, or giving up the one in use, leaves the calls in order.
LEMMA CallsStay ==
  ASSUME TypeOK, Shape', Len(tr) <= Len(tr'),
         current' = current \/ current' = 0 \/ current' = Len(tr) + 1
  PROVE  \A c \in calls : CallOK(c, current', Len(tr'))
<1> SUFFICES ASSUME NEW c \in calls PROVE CallOK(c, current', Len(tr'))
  OBVIOUS
<1>1. CallOK(c, current, Len(tr)) /\ Len(tr) \in Nat /\ Len(tr') \in Nat
  BY TypeParts DEF Shape, CallsOK
<1> QED BY <1>1 DEF CallOK

\* A method that awaits with no transport, or with one that is not in use.
LEMMA CallStarts ==
  ASSUME TypeOK, Shape', NEW n \in 0 .. MaxCalls,
         NEW op \in {"pause", "topic", "activate", "rebuild"},
         NEW pc \in {"drain", "after"}, NEW t \in 0 .. Len(tr'),
         pc = "drain" => t # 0,
         op \in {"activate", "rebuild"} => current' = 0
  PROVE  CallOK([n |-> n, op |-> op, pc |-> pc, t |-> t], current', Len(tr'))
BY DEF CallOK

LEMMA InitTyped == Init => TypeOK
<1> SUFFICES ASSUME Init PROVE TypeOK
  OBVIOUS
<1>1. RestOK
  <2>1. {started, suspended, closing} \subseteq BOOLEAN /\ topic \in Topics
    BY DEF Init
  <2>2. called \in 0 .. MaxCalls /\ cycled \in 0 .. MaxCycles /\ power \in {"on", "off"}
    BY LifecycleAssumption DEF Init
  <2> QED BY <2>1, <2>2 DEF RestOK
<1>2. Shape
  BY DEF Init, Shape
<1>3. CallsOK
  BY DEF Init, CallsOK
<1> QED BY <1>1, <1>2, <1>3, TypeParts

LEMMA NextCall ==
  ASSUME TypeOK, called < MaxCalls
  PROVE  called + 1 \in 0 .. MaxCalls
<1>1. called \in 0 .. MaxCalls
  BY DEF TypeOK
<1> QED BY <1>1, LifecycleAssumption

\* Stopping a transport: it is paused, a call drains it.
LEMMA SuspendTyped ==
  ASSUME TypeOK, called < MaxCalls, current # 0,
         NEW op \in {"pause", "topic", "activate"}, SuspendTransport(op),
         current' = IF op = "activate" THEN 0 ELSE current
  PROVE  Shape' /\ CallsOK'
<1>1. /\ current \in DOMAIN tr /\ tr[current] \in Transport /\ Shape
      /\ called + 1 \in 0 .. MaxCalls
  BY CurrentInDomain, TypeParts, NextCall
<1>2. tr' = [tr EXCEPT ![current] = [tr[current] EXCEPT !.paused = TRUE]]
  BY DEF SuspendTransport
<1>3. Shape' /\ Len(tr') = Len(tr) /\ current \in 0 .. Len(tr')
  BY <1>1, <1>2, PausedFacts, OneReplaced DEF Shape
<1>a. op \in {"activate", "rebuild"} => current' = 0
  OBVIOUS
<1>4. CallOK([n |-> called + 1, op |-> op, pc |-> "drain", t |-> current], current', Len(tr'))
  BY <1>1, <1>3, <1>a, CallStarts
<1>5. \A c \in calls : CallOK(c, current', Len(tr'))
  BY <1>1, <1>3, CallsStay DEF Shape
<1> QED BY <1>3, <1>4, <1>5 DEF SuspendTransport, Await, CallsOK

LEMMA ResumeTyped ==
  ASSUME TypeOK, current # 0, tr' = [tr EXCEPT ![current] = Resumed(@)], current' = current,
         calls' \subseteq calls
  PROVE  Shape' /\ CallsOK'
<1>1. current \in DOMAIN tr /\ tr[current] \in Transport /\ Shape
  BY CurrentInDomain, TypeParts
<1>2. Shape' /\ Len(tr') = Len(tr)
  BY <1>1, ResumedFacts, OneReplaced DEF Shape
<1> QED BY <1>1, <1>2, CallsStay DEF Shape, CallsOK

LEMMA ActivateTyped ==
  ASSUME TypeOK, called < MaxCalls, Activate
  PROVE  Shape' /\ CallsOK'
<1>1. CASE /\ current # 0 /\ ~tr[current].radioCycled
           /\ tr' = [tr EXCEPT ![current] = Resumed(@)]
           /\ UNCHANGED <<current, calls>>
  BY <1>1, ResumeTyped
<1>2. CASE /\ current # 0 /\ SuspendTransport("activate") /\ current' = 0
  BY <1>2, SuspendTyped
<1>3. CASE current = 0 /\ Await("activate", "after", 0) /\ UNCHANGED <<current, tr>>
  <2>1. Shape' /\ Shape /\ called + 1 \in 0 .. MaxCalls /\ Len(tr) <= Len(tr')
    BY <1>3, TypeParts, NextCall DEF Shape
  <2>a. 0 \in 0 .. Len(tr') /\ current' = 0
    BY <1>3, <2>1 DEF Shape
  <2>2. CallOK([n |-> called + 1, op |-> "activate", pc |-> "after", t |-> 0], current', Len(tr'))
    BY <2>1, <2>a, CallStarts
  <2> QED BY <1>3, <2>1, <2>2, CallsStay DEF Await, CallsOK
<1> QED BY <1>1, <1>2, <1>3 DEF Activate

LEMMA StillTyped ==
  ASSUME TypeOK, UNCHANGED <<current, tr>>, calls' \subseteq calls
  PROVE  Shape' /\ CallsOK'
<1>1. Shape /\ Shape' /\ Len(tr) <= Len(tr')
  BY TypeParts DEF Shape
<1> QED BY <1>1, CallsStay DEF CallsOK

\* A step that replaces one transport and ends calls at most.
LEMMA OneTyped ==
  ASSUME TypeOK, NEW t \in DOMAIN tr, NEW q \in Transport, tr' = [tr EXCEPT ![t] = q],
         current' = current \/ current' = 0, calls' \subseteq calls
  PROVE  Shape' /\ CallsOK'
<1>1. Shape /\ Shape' /\ Len(tr) <= Len(tr')
  BY TypeParts, OneReplaced DEF Shape
<1> QED BY <1>1, CallsStay DEF CallsOK

LEMMA CallTyped ==
  ASSUME TypeOK, NEW c \in calls, CallStep(c)
  PROVE  Shape' /\ CallsOK'
<1>1. CallOK(c, current, Len(tr)) /\ Shape
  BY TypeParts DEF CallsOK
<1>2. CASE SuspendEnds(c)
  <2>1. c.t \in DOMAIN tr
    BY <1>1, <1>2 DEF SuspendEnds, CallOK, Shape
  <2>2. tr[c.t] \in Transport
    BY <1>1, <2>1 DEF Shape
  <2>3. PICK q : /\ q = Retired(Quieted(tr[c.t])) \/ q = Quieted(tr[c.t])
                 /\ tr' = [tr EXCEPT ![c.t] = q]
    BY <1>2 DEF SuspendEnds
  <2>4. q \in Transport
    BY <2>2, <2>3, QuietedFacts, RetiredFacts
  <2>5. Shape' /\ Len(tr') = Len(tr) /\ current' = current
    BY <1>1, <1>2, <2>1, <2>3, <2>4, OneReplaced DEF Shape, SuspendEnds
  <2>6. \A b \in calls : CallOK(b, current', Len(tr'))
    BY <1>1, <2>5, CallsStay DEF Shape
  <2>7. CallOK([c EXCEPT !.pc = "after"], current', Len(tr'))
    BY <1>1, <2>5 DEF CallOK
  <2> QED BY <1>2, <2>5, <2>6, <2>7 DEF SuspendEnds, CallsOK
<1>3. CASE TopicEnds(c)
  <2>1. CASE Wanted /\ current # 0
    BY <1>3, <2>1, ResumeTyped DEF TopicEnds
  <2>2. CASE ~(Wanted /\ current # 0)
    BY <1>3, <2>2, StillTyped DEF TopicEnds
  <2> QED BY <2>1, <2>2
<1>4. CASE CreateEnds(c)
  <2>1. CASE tr' = Append(tr, Fresh(topic)) /\ current' = Len(tr) + 1
    <3>1. topic \in Topics
      BY DEF TypeOK
    <3>2. Fresh(topic) \in Transport
      BY <3>1, FreshFacts
    <3>3. Shape' /\ Len(tr) <= Len(tr')
      BY <1>1, <2>1, <3>2 DEF Shape
    <3> QED BY <1>4, <2>1, <3>3, CallsStay DEF CreateEnds, CallsOK
  <2>2. CASE UNCHANGED <<tr, current>>
    BY <1>4, <2>2, StillTyped DEF CreateEnds
  <2> QED BY <1>4, <2>1, <2>2 DEF CreateEnds
<1> QED BY <1>2, <1>3, <1>4 DEF CallStep

LEMMA UserTyped ==
  ASSUME TypeOK,
         Start \/ Stop \/ Suspend \/ Resume \/ Close \/ \E next \in Topics : SetTopic(next)
  PROVE  Shape' /\ CallsOK'
<1>1. called < MaxCalls
  BY DEF Start, Stop, Suspend, Resume, Close, SetTopic, UserTurn
<1>2. CASE Start \/ Resume
  BY <1>1, <1>2, ActivateTyped, StillTyped DEF Start, Resume
<1>3. CASE Stop \/ Suspend
  <2>1. CASE SuspendTransport("pause") /\ current # 0 /\ current' = current
    BY <1>1, <2>1, SuspendTyped
  <2>2. CASE UNCHANGED <<current, tr, calls>>
    BY <2>2, StillTyped
  <2> QED BY <1>3, <2>1, <2>2 DEF Stop, Suspend
<1>4. CASE Close
  <2>1. CASE current = 0
    BY <1>4, <2>1, StillTyped DEF Close
  <2>2. CASE current # 0
    <3>1. current \in DOMAIN tr /\ tr[current] \in Transport
      BY <2>2, CurrentInDomain, TypeParts
    <3>2. Closed(tr[current]) \in Transport
      BY <3>1, ClosedType
    <3> QED BY <1>4, <2>2, <3>1, <3>2, OneTyped DEF Close
  <2> QED BY <2>1, <2>2
<1>5. ASSUME NEW next \in Topics, SetTopic(next)
      PROVE  Shape' /\ CallsOK'
  <2>1. CASE UNCHANGED <<tr, calls>>
    BY <1>5, <2>1, StillTyped DEF SetTopic
  <2>2. CASE current # 0 /\ tr' = [tr EXCEPT ![current].uuid = next] /\ UNCHANGED calls
    <3>1. current \in DOMAIN tr /\ tr[current] \in Transport
      BY <2>2, CurrentInDomain, TypeParts
    <3>2. [tr[current] EXCEPT !.uuid = next] \in Transport
      BY <3>1, TopicFacts DEF Calm
    <3> QED BY <1>5, <2>2, <3>1, <3>2, OneTyped DEF SetTopic
  <2>3. CASE /\ current # 0 /\ Await("topic", "drain", current)
             /\ tr' = [tr EXCEPT ![current].uuid = next, ![current].paused = TRUE]
    <3>1. current \in DOMAIN tr /\ tr[current] \in Transport /\ Shape
      BY <2>3, CurrentInDomain, TypeParts
    <3> DEFINE q == [[tr[current] EXCEPT !.uuid = next] EXCEPT !.paused = TRUE]
    <3>2. q \in Transport
      BY <3>1, TopicFacts, PausedFacts DEF Calm
    <3>3. tr' = [tr EXCEPT ![current] = q]
      <4>1. tr \in Seq(Transport)
        BY <3>1 DEF Shape
      <4>2. tr' = [tr EXCEPT ![current].uuid = next, ![current].paused = TRUE]
        BY <2>3
      <4> HIDE DEF q
      <4>3. [tr EXCEPT ![current].uuid = next, ![current].paused = TRUE] =
              [tr EXCEPT ![current] = [[tr[current] EXCEPT !.uuid = next] EXCEPT !.paused = TRUE]]
        BY <3>1, <4>1, BouncedIsOne
      <4> QED BY <4>2, <4>3 DEF q
    <3> HIDE DEF q
    <3>4. Shape' /\ Len(tr') = Len(tr) /\ current \in 0 .. Len(tr')
      BY <1>5, <3>1, <3>2, <3>3, OneReplaced DEF Shape, SetTopic
    <3>5. CallOK([n |-> called + 1, op |-> "topic", pc |-> "drain", t |-> current],
                 current', Len(tr'))
      <4>1. called + 1 \in 0 .. MaxCalls
        BY <1>1, NextCall
      <4>2. current # 0
        BY <2>3
      <4> QED BY <3>4, <4>1, <4>2, CallStarts
    <3>6. \A c \in calls : CallOK(c, current', Len(tr'))
      <4>1. current' = current
        BY <1>5 DEF SetTopic
      <4>2. Len(tr) <= Len(tr')
        BY <3>1, <3>4 DEF Shape
      <4> QED BY <3>4, <4>1, <4>2, CallsStay
    <3> QED BY <2>3, <3>4, <3>5, <3>6 DEF Await, CallsOK
  <2> QED BY <1>5, <2>1, <2>2, <2>3 DEF SetTopic
<1> QED BY <1>2, <1>3, <1>4, <1>5

LEMMA RadioTyped ==
  ASSUME TypeOK, NEW t \in DOMAIN tr, RadioStep(t)
  PROVE  Shape' /\ CallsOK'
<1>1. tr[t] \in Transport /\ Shape /\ t \in 0 .. Len(tr) /\ t # 0
  BY TypeParts DEF Shape
<1>2. StateOf(power) \in {"waiting", "on"} /\ power \in {"on", "off"}
  BY DEF TypeOK, StateOf
<1>3. CASE ServerChanges(t)
  <2> DEFINE r == [tr[t] EXCEPT !.server = power, !.state = StateOf(power)]
             q == IF power = "on" THEN ServerStarted(r) ELSE [RadioDown(r) EXCEPT !.adding = FALSE]
  <2>1. r \in Transport
    BY <1>1, <1>2 DEF Transport
  <2>2. tr' = [tr EXCEPT ![t] = q]
    BY <1>3 DEF ServerChanges
  <2> HIDE DEF r
  <2>3. q \in Transport
    BY <2>1, ServerStartedFacts, RadioDownFacts DEF Calm
  <2> HIDE DEF q
  <2> QED BY <1>3, <2>2, <2>3, OneTyped DEF ServerChanges
<1>4. CASE ServiceAdded(t)
  <2> DEFINE r == [tr[t] EXCEPT !.adding = FALSE, !.serviceAdded = TRUE]
             q == Advertised(r)
  <2>1. r \in Transport
    BY <1>1 DEF Transport
  <2>2. tr' = [tr EXCEPT ![t] = q]
    BY <1>4 DEF ServiceAdded
  <2> HIDE DEF r
  <2>3. q \in Transport
    BY <2>1, AdvertisedFacts
  <2> HIDE DEF q
  <2> QED BY <1>4, <2>2, <2>3, OneTyped DEF ServiceAdded
<1>5. CASE CentralChanges(t)
  <2> DEFINE r == [tr[t] EXCEPT !.central = power, !.state = StateOf(power)]
             q == IF power = "off" THEN RadioDown(r)
                  ELSE IF r.radioWasDown THEN r ELSE Scanning(r)
  <2>1. r \in Transport
    BY <1>1, <1>2 DEF Transport
  <2>2. tr' = [tr EXCEPT ![t] = q]
    BY <1>5 DEF CentralChanges
  <2> HIDE DEF r
  <2>3. q \in Transport
    BY <2>1, ScanningFacts, RadioDownFacts
  <2> HIDE DEF q
  <2> QED BY <1>5, <2>2, <2>3, OneTyped DEF CentralChanges
<1>6. CASE CentralHeals(t)
  <2> DEFINE r == [tr[t] EXCEPT !.central = power, !.state = StateOf(power),
                                !.radioWasDown = FALSE, !.healing = TRUE]
  <2>1. r \in Transport
    BY <1>1, <1>2 DEF Transport
  <2>2. CASE tr' = [tr EXCEPT ![t] = r] /\ UNCHANGED <<current, calls>>
    <3> HIDE DEF r
    <3> QED BY <2>1, <2>2, OneTyped
  <2>3. CASE /\ tr' = [tr EXCEPT ![t] = [r EXCEPT !.paused = TRUE]] /\ current' = 0
             /\ calls' = calls \cup {[n |-> 0, op |-> "rebuild", pc |-> "drain", t |-> t]}
    <3> HIDE DEF r
    <3> DEFINE q == [r EXCEPT !.paused = TRUE]
    <3>1. q \in Transport
      BY <2>1, PausedFacts
    <3> HIDE DEF q
    <3>2. Shape' /\ Len(tr') = Len(tr)
      BY <1>1, <2>3, <3>1, OneReplaced DEF Shape, q
    <3>3. CallOK([n |-> 0, op |-> "rebuild", pc |-> "drain", t |-> t], current', Len(tr'))
      BY <1>1, <2>3, <3>2, LifecycleAssumption DEF CallOK
    <3>4. \A c \in calls : CallOK(c, current', Len(tr'))
      BY <1>1, <2>3, <3>2, CallsStay DEF Shape
    <3> QED BY <2>3, <3>2, <3>3, <3>4 DEF CallsOK
  <2> QED BY <1>6, <2>2, <2>3 DEF CentralHeals
<1> QED BY <1>3, <1>4, <1>5, <1>6 DEF RadioStep

LEMMA PowerTyped ==
  ASSUME TypeOK, PowerOff \/ PowerOn
  PROVE  Shape' /\ CallsOK'
<1>1. CASE PowerOff
  <2>1. \A r \in Transport : [r EXCEPT !.advert = NoTopic, !.scan = NoTopic] \in Transport
    BY DEF Transport
  <2>2. Shape /\ DOMAIN tr = 1 .. Len(tr) /\ Len(tr) \in Nat
    BY TypeParts DEF Shape
  <2>3. \A t \in 1 .. Len(tr) : tr[t] \in Transport
    BY <2>2 DEF Shape
  <2>4. tr' \in [1 .. Len(tr) -> Transport]
    BY <1>1, <2>1, <2>2, <2>3 DEF PowerOff
  <2>5. tr' \in Seq(Transport) /\ Len(tr') = Len(tr)
    BY <2>2, <2>4
  <2>6. current' = current /\ calls' = calls
    BY <1>1 DEF PowerOff
  <2>7. Shape' /\ Len(tr) <= Len(tr')
    BY <2>2, <2>5, <2>6 DEF Shape
  <2> QED BY <2>6, <2>7, CallsStay DEF CallsOK
<1>2. CASE PowerOn
  BY <1>2, StillTyped DEF PowerOn
<1> QED BY <1>1, <1>2

\* The intent, the topic, the power and the bounds.
LEMMA RestTyped ==
  ASSUME TypeOK, [Next]_vars
  PROVE  RestOK'
<1>1. CASE Start \/ Stop \/ Suspend \/ Resume \/ Close
  <2>1. called' \in 0 .. MaxCalls
    BY <1>1, NextCall DEF Start, Stop, Suspend, Resume, Close, UserTurn
  <2>2. {started', suspended', closing'} \subseteq BOOLEAN
    BY <1>1 DEF Start, Stop, Suspend, Resume, Close, TypeOK
  <2>3. topic' = topic /\ power' = power /\ cycled' = cycled
    BY <1>1 DEF Start, Stop, Suspend, Resume, Close, UserTurn
  <2> QED BY <2>1, <2>2, <2>3, TypeParts DEF RestOK
<1>2. ASSUME NEW next \in Topics, SetTopic(next) PROVE RestOK'
  <2>1. called' \in 0 .. MaxCalls
    BY <1>2, NextCall DEF SetTopic, UserTurn
  <2> QED BY <1>2, <2>1, TypeParts DEF RestOK, SetTopic, UserTurn
<1>3. ASSUME NEW c \in calls, CallStep(c) PROVE RestOK'
  BY <1>3, TypeParts
     DEF RestOK, CallStep, SuspendEnds, TopicEnds, CreateEnds, facade, bounds
<1>4. ASSUME NEW t \in DOMAIN tr, RadioStep(t) PROVE RestOK'
  BY <1>4, TypeParts
     DEF RestOK, RadioStep, ServerChanges, ServiceAdded, CentralChanges, CentralHeals, facade, bounds
<1>5. CASE PowerOff
  <2>1. cycled' \in 0 .. MaxCycles
    <3>1. cycled \in 0 .. MaxCycles
      BY DEF TypeOK
    <3>2. cycled < MaxCycles /\ cycled' = cycled + 1
      BY <1>5 DEF PowerOff
    <3> QED BY <3>1, <3>2, LifecycleAssumption
  <2>2. power' = "off" /\ called' = called /\ UNCHANGED facade
    BY <1>5 DEF PowerOff
  <2>3. {started', suspended', closing'} \subseteq BOOLEAN /\ topic' \in Topics
    BY <2>2 DEF TypeOK, facade
  <2>4. called' \in 0 .. MaxCalls
    BY <2>2 DEF TypeOK
  <2> QED BY <2>1, <2>2, <2>3, <2>4 DEF RestOK
<1>6. CASE PowerOn
  BY <1>6, TypeParts DEF RestOK, PowerOn, facade, bounds
<1>7. CASE UNCHANGED vars
  BY <1>7, TypeParts DEF RestOK, vars, facade, bounds
<1> QED BY <1>1, <1>2, <1>3, <1>4, <1>5, <1>6, <1>7 DEF Next

LEMMA TypeStep == TypeOK /\ [Next]_vars => TypeOK'
<1> SUFFICES ASSUME TypeOK, [Next]_vars PROVE TypeOK'
  OBVIOUS
<1>1. Shape' /\ CallsOK'
  BY UserTyped, CallTyped, RadioTyped, PowerTyped, StillTyped DEF Next, vars
<1>2. RestOK'
  BY RestTyped
<1> QED BY <1>1, <1>2 DEF TypeOK, RestOK, Shape, CallsOK, CallOK, Call

\* Whatever calls overlap and however the radio cycles, what one method leaves
\* the others find well formed: no drained transport that was never created, no
\* _activate or _rebuild retiring the transport in use.
THEOREM LifecycleTyped == Spec => []TypeOK
BY InitTyped, TypeStep, PTL DEF Spec

-----------------------------------------------------------------------------
(* QuietUnlessWanted.  That nothing is on the air unless wanted is not enough  *)
(* to carry on: a halted transport must not wake up, nor one whose service is  *)
(* still being added come on the air later.  QuietInv says who may: the        *)
(* transport in use, while wanted, and one that a drain in progress quiets.    *)

Held(t) == \E c \in calls : c.pc = "drain" /\ c.t = t

QuietInv ==
  \A t \in DOMAIN tr :
    /\ ~Halted(tr[t]) => t = current /\ Wanted
    /\ Live(tr[t]) => ~Halted(tr[t]) \/ Held(t)

HeldStays == \A c \in calls : c.pc = "drain" => c \in calls'

\* Another transport than the one in use is halted.
LEMMA OthersHalted ==
  ASSUME QuietInv, NEW t \in DOMAIN tr, t # current
  PROVE  Halted(tr[t]) /\ (Live(tr[t]) => Held(t))
BY DEF QuietInv

LEMMA HeldByStays ==
  ASSUME HeldStays, NEW t, Held(t)
  PROVE  Held(t)'
BY DEF HeldStays, Held

\* Steps that wake nothing.
LEMMA QuietByCalm ==
  ASSUME TypeOK, QuietInv, HeldStays, NEW t \in DOMAIN tr, NEW q, Calm(tr[t], q),
         tr' = [tr EXCEPT ![t] = q], current' = current, Wanted => Wanted'
  PROVE  QuietInv'
<1>1. q \in Transport /\ tr \in Seq(Transport)
  BY DEF Calm, TypeOK
<1>2. DOMAIN tr' = DOMAIN tr /\ tr'[t] = q /\ \A s \in DOMAIN tr : s # t => tr'[s] = tr[s]
  BY <1>1, OneReplaced
<1> SUFFICES ASSUME NEW s \in DOMAIN tr
             PROVE  /\ ~Halted(tr'[s]) => s = current' /\ Wanted'
                    /\ Live(tr'[s]) => ~Halted(tr'[s]) \/ Held(s)'
  BY <1>2 DEF QuietInv
<1>3. CASE s = t
  BY <1>2, <1>3, HeldByStays DEF QuietInv, Calm
<1>4. CASE s # t
  BY <1>2, <1>4, HeldByStays DEF QuietInv
<1> QED BY <1>3, <1>4

\* The transport in use is stopped, and a call drains it if there is anything
\* to drain.
LEMMA QuietByStop ==
  ASSUME TypeOK, QuietInv, HeldStays, NEW t \in DOMAIN tr, t = current,
         NEW q \in Transport, Halted(q), tr' = [tr EXCEPT ![t] = q],
         Live(q) => Held(t)'
  PROVE  QuietInv'
<1>1. tr \in Seq(Transport)
  BY DEF TypeOK
<1>2. DOMAIN tr' = DOMAIN tr /\ tr'[t] = q /\ \A s \in DOMAIN tr : s # t => tr'[s] = tr[s]
  BY <1>1, OneReplaced
<1> SUFFICES ASSUME NEW s \in DOMAIN tr
             PROVE  Halted(tr'[s]) /\ (Live(tr'[s]) => Held(s)')
  BY <1>2 DEF QuietInv
<1>3. CASE s = t
  BY <1>2, <1>3
<1>4. CASE s # t
  BY <1>2, <1>4, OthersHalted, HeldByStays
<1> QED BY <1>3, <1>4

LEMMA DrainStarts ==
  ASSUME NEW op, NEW t, t = current, Await(op, "drain", current)
  PROVE  HeldStays /\ Held(t)'
<1>1. PICK c : c = [n |-> called + 1, op |-> op, pc |-> "drain", t |-> t]
  OBVIOUS
<1>2. calls' = calls \cup {c}
  BY <1>1 DEF Await
<1>3. c.pc = "drain" /\ c.t = t
  BY <1>1
<1> QED BY <1>2, <1>3 DEF HeldStays, Held

LEMMA QuietBySuspend ==
  ASSUME TypeOK, QuietInv, current # 0, NEW op, SuspendTransport(op)
  PROVE  QuietInv'
<1>1. PICK t \in DOMAIN tr : t = current /\ tr[t] \in Transport
  BY CurrentInDomain, TypeParts
<1>2. tr' = [tr EXCEPT ![t] = [tr[t] EXCEPT !.paused = TRUE]]
  BY <1>1 DEF SuspendTransport
<1>3. HeldStays /\ Held(t)'
  BY <1>1, DrainStarts DEF SuspendTransport
<1> QED BY <1>1, <1>2, <1>3, PausedFacts, QuietByStop

\* The transport in use is resumed because it is wanted.
LEMMA QuietByResume ==
  ASSUME TypeOK, QuietInv, HeldStays, current # 0, Wanted',
         tr' = [tr EXCEPT ![current] = Resumed(@)], current' = current
  PROVE  QuietInv'
<1>1. PICK t \in DOMAIN tr : t = current /\ tr[t] \in Transport
  BY CurrentInDomain, TypeParts
<1> DEFINE q == Resumed(tr[t])
<1>2. q \in Transport /\ tr \in Seq(Transport) /\ tr' = [tr EXCEPT ![t] = q]
  BY <1>1, ResumedFacts DEF TypeOK
<1>3. tr[t].closed => Halted(q) /\ (Live(q) => Live(tr[t]))
  BY <1>1, ResumedFacts
<1>4. ~tr[t].closed => ~Halted(q)
  BY <1>1, ResumedFacts
<1>5. tr[t].closed => Halted(tr[t])
  BY DEF Halted
<1> HIDE DEF q
<1>6. DOMAIN tr' = DOMAIN tr /\ tr'[t] = q /\ \A s \in DOMAIN tr : s # t => tr'[s] = tr[s]
  BY <1>2, OneReplaced
<1> SUFFICES ASSUME NEW s \in DOMAIN tr
             PROVE  /\ ~Halted(tr'[s]) => s = current' /\ Wanted'
                    /\ Live(tr'[s]) => ~Halted(tr'[s]) \/ Held(s)'
  BY <1>6 DEF QuietInv
<1>7. CASE s = t
  BY <1>1, <1>3, <1>4, <1>5, <1>6, <1>7, HeldByStays DEF QuietInv
<1>8. CASE s # t
  BY <1>1, <1>6, <1>8, OthersHalted, HeldByStays
<1> QED BY <1>7, <1>8

\* With no transport in use none is awake, whatever becomes wanted.
LEMMA QuietByNone ==
  ASSUME QuietInv, HeldStays, tr' = tr,
         (current # 0 /\ current' = current /\ (Wanted => Wanted'))
         \/ \A t \in DOMAIN tr : t # current
  PROVE  QuietInv'
<1> SUFFICES ASSUME NEW s \in DOMAIN tr
             PROVE  /\ ~Halted(tr[s]) => s = current' /\ Wanted'
                    /\ Live(tr[s]) => ~Halted(tr[s]) \/ Held(s)'
  BY DEF QuietInv
<1> QED BY HeldByStays DEF QuietInv

LEMMA ZeroIsNone ==
  ASSUME TypeOK, current = 0
  PROVE  \A t \in DOMAIN tr : t # current
BY DEF TypeOK

LEMMA QuietByActivate ==
  ASSUME TypeOK, QuietInv, Wanted', Activate
  PROVE  QuietInv'
<1>1. CASE /\ current # 0
           /\ tr' = [tr EXCEPT ![current] = Resumed(@)]
           /\ UNCHANGED <<current, calls>>
  BY <1>1, QuietByResume DEF HeldStays
<1>2. CASE current # 0 /\ SuspendTransport("activate")
  BY <1>2, QuietBySuspend
<1>3. CASE current = 0 /\ Await("activate", "after", 0) /\ UNCHANGED <<current, tr>>
  BY <1>3, ZeroIsNone, QuietByNone DEF Await, HeldStays
<1> QED BY <1>1, <1>2, <1>3 DEF Activate

LEMMA QuietByUser ==
  ASSUME TypeOK, QuietInv, "slow" \notin Hazards,
         Start \/ Stop \/ Suspend \/ Resume \/ Close \/ \E next \in Topics : SetTopic(next)
  PROVE  QuietInv'
<1>1. \A t \in DOMAIN tr : ~(tr[t].adding /\ ~Destroyed(tr[t]))
  BY DEF Start, Stop, Suspend, Resume, Close, SetTopic, UserTurn, Prompt, Fledgling
<1>2. CASE UNCHANGED <<current, tr, calls>> /\ (Wanted => Wanted')
  BY <1>2, ZeroIsNone, QuietByNone DEF HeldStays
<1>3. CASE Start \/ Resume
  BY <1>2, <1>3, QuietByActivate DEF Start, Resume, Wanted
<1>4. CASE Stop \/ Suspend
  <2>1. CASE current # 0 /\ SuspendTransport("pause")
    BY <2>1, QuietBySuspend
  <2>2. CASE current = 0 /\ UNCHANGED <<current, tr, calls>>
    BY <2>2, ZeroIsNone, QuietByNone DEF HeldStays
  <2>3. CASE ~Wanted /\ UNCHANGED <<current, tr, calls>>
    BY <1>2, <2>3
  <2> QED BY <1>4, <2>1, <2>2, <2>3 DEF Stop, Suspend, Wanted
<1>5. CASE Close
  <2>1. CASE current = 0
    BY <1>5, <2>1, ZeroIsNone, QuietByNone DEF Close, HeldStays
  <2>2. CASE current # 0
    <3>1. PICK t \in DOMAIN tr : t = current /\ tr[t] \in Transport
      BY <2>2, CurrentInDomain, TypeParts
    <3>2. Closed(tr[t]) \in Transport /\ Halted(Closed(tr[t])) /\ ~Live(Closed(tr[t]))
      BY <1>1, <3>1, ClosedFacts
    <3>3. tr' = [tr EXCEPT ![t] = Closed(tr[t])] /\ HeldStays
      BY <1>5, <2>2, <3>1 DEF Close, HeldStays
    <3> QED BY <3>1, <3>2, <3>3, QuietByStop
  <2> QED BY <2>1, <2>2
<1>6. ASSUME NEW next \in Topics, SetTopic(next)
      PROVE  QuietInv'
  <2>1. CASE UNCHANGED <<tr, calls>>
    BY <1>2, <1>6, <2>1 DEF SetTopic, Wanted
  <2>2. CASE current # 0 /\ tr' = [tr EXCEPT ![current].uuid = next] /\ UNCHANGED calls
    <3>1. PICK t \in DOMAIN tr : t = current /\ tr[t] \in Transport
      BY <2>2, CurrentInDomain, TypeParts
    <3>2. /\ tr' = [tr EXCEPT ![t] = [tr[t] EXCEPT !.uuid = next]]
          /\ HeldStays /\ current' = current /\ (Wanted => Wanted')
      BY <1>6, <2>2, <3>1 DEF SetTopic, HeldStays, Wanted
    <3> QED BY <3>1, <3>2, TopicFacts, QuietByCalm
  <2>3. CASE /\ current # 0 /\ Await("topic", "drain", current)
             /\ tr' = [tr EXCEPT ![current].uuid = next, ![current].paused = TRUE]
    <3>1. PICK t \in DOMAIN tr : t = current /\ tr[t] \in Transport
      BY <2>3, CurrentInDomain, TypeParts
    <3> DEFINE q == [[tr[t] EXCEPT !.uuid = next] EXCEPT !.paused = TRUE]
    <3>2. q \in Transport /\ Halted(q)
      BY <3>1, TopicFacts, PausedFacts DEF Calm
    <3>3. tr' = [tr EXCEPT ![t].uuid = next, ![t].paused = TRUE] /\ tr \in Seq(Transport)
      BY <2>3, <3>1 DEF TypeOK
    <3>4. tr' = [tr EXCEPT ![t] = q]
      BY <3>1, <3>3, BouncedIsOne
    <3> HIDE DEF q
    <3>5. HeldStays /\ Held(t)'
      BY <2>3, <3>1, DrainStarts
    <3> QED BY <3>1, <3>2, <3>4, <3>5, QuietByStop
  <2> QED BY <1>6, <2>1, <2>2, <2>3 DEF SetTopic
<1> QED BY <1>3, <1>4, <1>5, <1>6

\* The end of a suspend() quiets the transport its call held.
LEMMA QuietByDrain ==
  ASSUME TypeOK, QuietInv, "slow" \notin Hazards, NEW c \in calls, SuspendEnds(c)
  PROVE  QuietInv'
<1>1. \A t \in DOMAIN tr : ~(tr[t].adding /\ ~Destroyed(tr[t]))
  BY DEF SuspendEnds, Prompt, Fledgling
<1>2. CallOK(c, current, Len(tr)) /\ Shape
  BY TypeParts DEF CallsOK
<1>3. PICK t \in DOMAIN tr : t = c.t /\ tr[t] \in Transport
  BY <1>2 DEF SuspendEnds, CallOK, Shape
<1>4. PICK q : /\ q = Quieted(tr[t]) \/ q = Retired(Quieted(tr[t]))
               /\ tr' = [tr EXCEPT ![t] = q]
  BY <1>3 DEF SuspendEnds
<1>5. q \in Transport /\ ~Live(q) /\ (~Halted(q) => ~Halted(tr[t]))
  BY <1>1, <1>3, <1>4, DrainedFacts
<1>6. DOMAIN tr' = DOMAIN tr /\ tr'[t] = q /\ \A s \in DOMAIN tr : s # t => tr'[s] = tr[s]
  BY <1>2, <1>4, <1>5, OneReplaced DEF Shape
<1>7. current' = current /\ (Wanted => Wanted') /\ \A b \in calls : b # c => b \in calls'
  BY DEF SuspendEnds, facade, Wanted
<1>8. ASSUME NEW s, s # t, Held(s) PROVE Held(s)'
  BY <1>3, <1>7, <1>8 DEF Held
<1> SUFFICES ASSUME NEW s \in DOMAIN tr
             PROVE  /\ ~Halted(tr'[s]) => s = current' /\ Wanted'
                    /\ Live(tr'[s]) => ~Halted(tr'[s]) \/ Held(s)'
  BY <1>6 DEF QuietInv
<1>9. CASE s = t
  BY <1>5, <1>6, <1>7, <1>9 DEF QuietInv
<1>10. CASE s # t
  BY <1>6, <1>7, <1>8, <1>10 DEF QuietInv
<1> QED BY <1>9, <1>10

\* A transport created is not on the air yet, and no other one is awake.
LEMMA QuietByCreate ==
  ASSUME TypeOK, QuietInv, HeldStays, current = 0, Wanted',
         tr' = Append(tr, Fresh(topic)), current' = Len(tr) + 1
  PROVE  QuietInv'
<1>1. tr \in Seq(Transport) /\ Fresh(topic) \in Transport /\ ~Live(Fresh(topic))
  BY FreshFacts DEF TypeOK
<1>2. /\ DOMAIN tr' = DOMAIN tr \cup {current'} /\ tr'[current'] = Fresh(topic)
      /\ \A s \in DOMAIN tr : tr'[s] = tr[s] /\ s # current
  BY <1>1
<1> SUFFICES ASSUME NEW s \in DOMAIN tr'
             PROVE  /\ ~Halted(tr'[s]) => s = current'
                    /\ Live(tr'[s]) => ~Halted(tr'[s]) \/ Held(s)'
  BY DEF QuietInv
<1>3. CASE s = current'
  BY <1>1, <1>2, <1>3
<1>4. CASE s \in DOMAIN tr
  BY <1>2, <1>4, OthersHalted, HeldByStays
<1> QED BY <1>2, <1>3, <1>4

LEMMA QuietByCall ==
  ASSUME TypeOK, QuietInv, "slow" \notin Hazards, NEW c \in calls, CallStep(c)
  PROVE  QuietInv'
<1>1. CASE SuspendEnds(c)
  BY <1>1, QuietByDrain
<1>2. CASE TopicEnds(c)
  <2>1. HeldStays /\ current' = current /\ (Wanted <=> Wanted')
    BY <1>2 DEF TopicEnds, HeldStays, facade, Wanted
  <2>2. CASE Wanted /\ current # 0
    BY <1>2, <2>1, <2>2, QuietByResume DEF TopicEnds
  <2>3. CASE ~(Wanted /\ current # 0)
    <3>1. tr' = tr
      BY <1>2, <2>3 DEF TopicEnds
    <3> QED BY <2>1, <3>1, ZeroIsNone, QuietByNone
  <2> QED BY <2>2, <2>3
<1>3. CASE CreateEnds(c)
  <2>1. HeldStays /\ (Wanted <=> Wanted')
    BY <1>3 DEF CreateEnds, HeldStays, facade, Wanted
  <2>2. CASE UNCHANGED <<tr, current>>
    BY <2>1, <2>2, ZeroIsNone, QuietByNone
  <2>3. CASE /\ current = 0 /\ Wanted
             /\ tr' = Append(tr, Fresh(topic)) /\ current' = Len(tr) + 1
    BY <2>1, <2>3, QuietByCreate
  <2> QED BY <1>3, <2>2, <2>3 DEF CreateEnds
<1> QED BY <1>1, <1>2, <1>3 DEF CallStep

\* Bookkeeping in a record is calm, and calm steps compose.
LEMMA CalmChain ==
  ASSUME NEW a, NEW b, NEW c, Calm(a, b), Calm(b, c)
  PROVE  Calm(a, c)
BY DEF Calm

LEMMA CalmFields ==
  ASSUME NEW r \in Transport, NEW q \in Transport,
         q.paused = r.paused, q.closed = r.closed, q.retired = r.retired,
         q.advert = r.advert, q.scan = r.scan, q.adding => r.adding
  PROVE  Calm(r, q)
BY DEF Calm, Live, Silent, Halted, Destroyed

LEMMA CalmAir ==
  ASSUME NEW r \in Transport
  PROVE  /\ r.adding /\ ~Destroyed(r) =>
              Calm(r, Advertised([r EXCEPT !.adding = FALSE, !.serviceAdded = TRUE]))
         /\ Calm(r, Scanning(r))
<1>1. ASSUME r.adding, ~Destroyed(r)
      PROVE  Calm(r, Advertised([r EXCEPT !.adding = FALSE, !.serviceAdded = TRUE]))
  <2> DEFINE s == [r EXCEPT !.adding = FALSE, !.serviceAdded = TRUE]
             q == Advertised(s)
  <2>1. s \in Transport /\ s.paused = r.paused /\ s.closed = r.closed
    BY DEF Transport
  <2> HIDE DEF s
  <2>2. q \in Transport /\ q.paused = r.paused /\ q.closed = r.closed
    BY <2>1, AdvertisedFacts
  <2>3. Calm(r, q)
    <3> HIDE DEF q
    <3> QED BY <1>1, <2>2 DEF Calm, Live, Halted
  <2> QED BY <2>3 DEF q, s
<1>2. Calm(r, Scanning(r))
  <2>1. CASE Halted(r)
    BY <2>1, ScanningFacts DEF Calm
  <2>2. CASE ~Halted(r)
    BY <2>2, ScanningFacts DEF Calm, Halted
  <2> QED BY <2>1, <2>2
<1> QED BY <1>1, <1>2

LEMMA CalmRadioDown ==
  ASSUME NEW r \in Transport
  PROVE  /\ Calm(r, RadioDown(r))
         /\ Calm(r, [RadioDown(r) EXCEPT !.adding = FALSE])
<1> DEFINE a == RadioDown(r)
           b == [RadioDown(r) EXCEPT !.adding = FALSE]
<1>1. /\ a.paused = r.paused /\ a.closed = r.closed /\ a.retired = r.retired
      /\ a.advert = r.advert /\ a.scan = r.scan /\ a.adding = r.adding
  BY DEF RadioDown, Transport
<1>2. /\ b.paused = r.paused /\ b.closed = r.closed /\ b.retired = r.retired
      /\ b.advert = r.advert /\ b.scan = r.scan /\ b.adding = FALSE
  BY DEF RadioDown, Transport
<1>3. a \in Transport /\ b \in Transport
  BY RadioDownFacts
<1> HIDE DEF a, b
<1>4. Calm(r, a) /\ Calm(r, b)
  BY <1>1, <1>2, <1>3, CalmFields
<1> QED BY <1>4 DEF a, b

LEMMA QuietByRadio ==
  ASSUME TypeOK, QuietInv, NEW t \in DOMAIN tr, RadioStep(t)
  PROVE  QuietInv'
<1>1. tr[t] \in Transport
  BY DEF TypeOK
<1>2. StateOf(power) \in {"waiting", "on"} /\ power \in {"on", "off"}
  BY DEF TypeOK, StateOf
<1>3. ASSUME NEW q, Calm(tr[t], q), tr' = [tr EXCEPT ![t] = q],
             UNCHANGED <<facade, current, calls>>
      PROVE  QuietInv'
  BY <1>3, QuietByCalm DEF HeldStays, facade, Wanted
<1>4. CASE ServerChanges(t)
  <2> DEFINE r == [tr[t] EXCEPT !.server = power, !.state = StateOf(power)]
             q == IF power = "on" THEN ServerStarted(r) ELSE [RadioDown(r) EXCEPT !.adding = FALSE]
  <2>1. r \in Transport
    BY <1>1, <1>2 DEF Transport
  <2>2. Calm(tr[t], r)
    <3>1. /\ r.paused = tr[t].paused /\ r.closed = tr[t].closed /\ r.retired = tr[t].retired
          /\ r.advert = tr[t].advert /\ r.scan = tr[t].scan /\ r.adding = tr[t].adding
      BY <1>1 DEF Transport
    <3> HIDE DEF r
    <3> QED BY <1>1, <2>1, <3>1, CalmFields
  <2>3. tr' = [tr EXCEPT ![t] = q] /\ UNCHANGED <<facade, current, calls>>
    BY <1>4 DEF ServerChanges
  <2> HIDE DEF r
  <2>4. Calm(r, q)
    BY <2>1, ServerStartedFacts, CalmRadioDown
  <2> HIDE DEF q
  <2> QED BY <1>3, <2>2, <2>3, <2>4, CalmChain
<1>5. CASE ServiceAdded(t)
  <2> DEFINE q == Advertised([tr[t] EXCEPT !.adding = FALSE, !.serviceAdded = TRUE])
  <2>1. Calm(tr[t], q)
    BY <1>1, <1>5, CalmAir DEF ServiceAdded
  <2>2. tr' = [tr EXCEPT ![t] = q] /\ UNCHANGED <<facade, current, calls>>
    BY <1>5 DEF ServiceAdded
  <2> HIDE DEF q
  <2> QED BY <1>3, <2>1, <2>2
<1>6. CASE CentralChanges(t)
  <2> DEFINE r == [tr[t] EXCEPT !.central = power, !.state = StateOf(power)]
             q == IF power = "off" THEN RadioDown(r)
                  ELSE IF r.radioWasDown THEN r ELSE Scanning(r)
  <2>1. r \in Transport
    BY <1>1, <1>2 DEF Transport
  <2>2. Calm(tr[t], r)
    <3>1. /\ r.paused = tr[t].paused /\ r.closed = tr[t].closed /\ r.retired = tr[t].retired
          /\ r.advert = tr[t].advert /\ r.scan = tr[t].scan /\ r.adding = tr[t].adding
      BY <1>1 DEF Transport
    <3> HIDE DEF r
    <3> QED BY <1>1, <2>1, <3>1, CalmFields
  <2>3. tr' = [tr EXCEPT ![t] = q] /\ UNCHANGED <<facade, current, calls>>
    BY <1>6 DEF CentralChanges
  <2> HIDE DEF r
  <2>4. Calm(r, q)
    <3>1. Calm(r, r)
      BY <2>1 DEF Calm
    <3> QED BY <2>1, <3>1, CalmAir, CalmRadioDown
  <2> HIDE DEF q
  <2> QED BY <1>3, <2>2, <2>3, <2>4, CalmChain
<1>7. CASE CentralHeals(t)
  <2> DEFINE r == [tr[t] EXCEPT !.central = power, !.state = StateOf(power),
                                !.radioWasDown = FALSE, !.healing = TRUE]
  <2>1. r \in Transport
    BY <1>1, <1>2 DEF Transport
  <2>2. CASE tr' = [tr EXCEPT ![t] = r] /\ UNCHANGED <<current, calls>>
    <3>1. /\ r.paused = tr[t].paused /\ r.closed = tr[t].closed /\ r.retired = tr[t].retired
          /\ r.advert = tr[t].advert /\ r.scan = tr[t].scan /\ r.adding = tr[t].adding
      BY <1>1 DEF Transport
    <3> HIDE DEF r
    <3>2. Calm(tr[t], r)
      BY <1>1, <2>1, <3>1, CalmFields
    <3> QED BY <1>3, <1>7, <2>2, <3>2 DEF CentralHeals
  <2>3. CASE /\ current = t /\ tr' = [tr EXCEPT ![t] = [r EXCEPT !.paused = TRUE]]
             /\ calls' = calls \cup {[n |-> 0, op |-> "rebuild", pc |-> "drain", t |-> t]}
    <3> HIDE DEF r
    <3>1. PICK c : c = [n |-> 0, op |-> "rebuild", pc |-> "drain", t |-> t]
      OBVIOUS
    <3>2. c.pc = "drain" /\ c.t = t /\ calls' = calls \cup {c}
      BY <2>3, <3>1
    <3>3. HeldStays /\ Held(t)'
      BY <3>2 DEF HeldStays, Held
    <3> QED BY <2>1, <2>3, <3>3, PausedFacts, QuietByStop
  <2> QED BY <1>7, <2>2, <2>3 DEF CentralHeals
<1> QED BY <1>4, <1>5, <1>6, <1>7 DEF RadioStep

LEMMA QuietByPower ==
  ASSUME TypeOK, QuietInv, PowerOff \/ PowerOn
  PROVE  QuietInv'
<1>1. UNCHANGED <<facade, current, calls>>
  BY DEF PowerOff, PowerOn
<1>2. CASE PowerOff
  <2>1. DOMAIN tr' = DOMAIN tr
    BY <1>2 DEF PowerOff
  <2>2. ASSUME NEW t \in DOMAIN tr
        PROVE  Calm(tr[t], tr'[t])
    <3>1. tr[t] \in Transport
      BY DEF TypeOK
    <3>2. tr'[t] = [tr[t] EXCEPT !.advert = NoTopic, !.scan = NoTopic]
      BY <1>2 DEF PowerOff
    <3> QED BY <3>1, <3>2 DEF Calm, Transport, Live, Silent, Halted, Destroyed
  <2> QED BY <1>1, <2>1, <2>2 DEF QuietInv, Calm, Held, facade, Wanted
<1>3. CASE PowerOn
  <2>1. tr' = tr
    BY <1>3 DEF PowerOn
  <2> QED BY <1>1, <2>1 DEF QuietInv, Held, facade, Wanted
<1> QED BY <1>2, <1>3

LEMMA QuietStep ==
  ASSUME TypeOK, QuietInv, "slow" \notin Hazards, [Next]_vars
  PROVE  QuietInv'
<1>1. CASE UNCHANGED vars
  BY <1>1 DEF vars, facade, QuietInv, Held, Wanted
<1>2. CASE Next
  BY <1>2, QuietByUser, QuietByCall, QuietByRadio, QuietByPower DEF Next
<1> QED BY <1>1, <1>2

LEMMA QuietEnough == QuietInv => QuietUnlessWanted
<1> SUFFICES ASSUME QuietInv PROVE QuietUnlessWanted
  OBVIOUS
<1>1. \A t : ~OffAir(t) => Live(tr[t])
  BY DEF OffAir, Live, Silent
<1> QED BY <1>1 DEF QuietInv, QuietUnlessWanted, Held

\* "The radio is live only while started AND not suspended", for any calls,
\* overlapping or during a rebuild, and any power losses, on every platform,
\* provided new managers and services report before anything else happens (a
\* 'serviceAdd' that follows a suspend() advertises: _maybeAdvertise asks only
\* whether the service is there).
THEOREM RadioQuiet ==
  ASSUME "slow" \notin Hazards
  PROVE  Spec => []QuietUnlessWanted
<1>1. Init => QuietInv
  BY DEF Init, QuietInv
<1>2. TypeOK /\ QuietInv /\ [Next]_vars => QuietInv'
  BY QuietStep
<1> QED
  BY <1>1, <1>2, QuietEnough, LifecycleTyped, PTL DEF Spec

-----------------------------------------------------------------------------
(* OneTopicAtRest.  The transport in use has the topic set last, and what a    *)
(* transport has on the air is its own topic, unless a drain in progress is    *)
(* about to take it off.                                                       *)

Own(r) == r.advert \in {r.uuid, NoTopic} /\ r.scan \in {r.uuid, NoTopic}

TopicInv ==
  /\ current # 0 => tr[current].uuid = topic
  /\ \A t \in DOMAIN tr : Own(tr[t]) \/ Held(t)

\* From r to q nothing goes on the air but the transport's own topic.
Kept(r, q) == q.uuid = r.uuid /\ (Own(r) => Own(q))

LEMMA KeptChain ==
  ASSUME NEW a, NEW b, NEW c, Kept(a, b), Kept(b, c)
  PROVE  Kept(a, c)
BY DEF Kept

LEMMA KeptFields ==
  ASSUME NEW r, NEW q, q.uuid = r.uuid, q.advert = r.advert, q.scan = r.scan
  PROVE  Kept(r, q)
BY DEF Kept, Own

LEMMA KeptAdvertised ==
  ASSUME NEW r \in Transport
  PROVE  Kept(r, Advertised(r))
<1> DEFINE q == [r EXCEPT !.advertising = TRUE, !.advert = OnAirAs(r.uuid)]
<1>1. q.uuid = r.uuid /\ q.scan = r.scan /\ q.advert \in {r.uuid, NoTopic}
  BY DEF Transport, OnAirAs
<1>2. Advertised(r) = q \/ Advertised(r) = r
  BY DEF Advertised
<1> HIDE DEF q
<1> QED BY <1>1, <1>2 DEF Kept, Own

LEMMA KeptScanning ==
  ASSUME NEW r \in Transport
  PROVE  Kept(r, Scanning(r))
<1> DEFINE q == [r EXCEPT !.scanning = TRUE, !.scan = OnAirAs(r.uuid)]
<1>1. q.uuid = r.uuid /\ q.advert = r.advert /\ q.scan \in {r.uuid, NoTopic}
  BY DEF Transport, OnAirAs
<1>2. Scanning(r) = q \/ Scanning(r) = r
  BY DEF Scanning
<1> HIDE DEF q
<1> QED BY <1>1, <1>2 DEF Kept, Own

LEMMA KeptResumed ==
  ASSUME NEW r \in Transport
  PROVE  Kept(r, Resumed(r))
<1>1. CASE r.closed
  <2> DEFINE q == [r EXCEPT !.paused = FALSE]
  <2>1. q.uuid = r.uuid /\ q.advert = r.advert /\ q.scan = r.scan
    BY DEF Transport
  <2>2. Resumed(r) = q
    BY <1>1 DEF Resumed
  <2> HIDE DEF q
  <2> QED BY <2>1, <2>2, KeptFields
<1>2. CASE ~r.closed
  <2> DEFINE a == [r EXCEPT !.paused = FALSE, !.advertising = FALSE]
             b == Advertised(a)
             c == Scanning(b)
             d == [c EXCEPT !.state = StateOf(r.central)]
  <2>1. a \in Transport /\ a.uuid = r.uuid /\ a.advert = r.advert /\ a.scan = r.scan
    BY DEF Transport
  <2>2. Resumed(r) = d
    BY <1>2 DEF Resumed
  <2> HIDE DEF a
  <2>3. Kept(r, a) /\ Kept(a, b) /\ b \in Transport
    BY <2>1, KeptFields, KeptAdvertised, AdvertisedFacts
  <2> HIDE DEF b
  <2>4. Kept(b, c) /\ c \in Transport
    BY <2>3, KeptScanning, ScanningFacts
  <2> HIDE DEF c
  <2>5. d.uuid = c.uuid /\ d.advert = c.advert /\ d.scan = c.scan
    BY <2>4 DEF Transport
  <2> HIDE DEF d
  <2>6. Kept(c, d)
    BY <2>5, KeptFields
  <2> QED BY <2>2, <2>3, <2>4, <2>6, KeptChain
<1> QED BY <1>1, <1>2

LEMMA KeptRadio ==
  ASSUME NEW r \in Transport
  PROVE  /\ Kept(r, RadioDown(r))
         /\ Kept(r, [RadioDown(r) EXCEPT !.adding = FALSE])
         /\ Kept(r, ServerStarted(r))
<1> DEFINE a == RadioDown(r)
           b == [RadioDown(r) EXCEPT !.adding = FALSE]
           c == [r EXCEPT !.adding = TRUE]
<1>1. a.uuid = r.uuid /\ a.advert = r.advert /\ a.scan = r.scan
  BY DEF RadioDown, Transport
<1>2. b.uuid = r.uuid /\ b.advert = r.advert /\ b.scan = r.scan
  BY DEF RadioDown, Transport
<1>3. c.uuid = r.uuid /\ c.advert = r.advert /\ c.scan = r.scan
  BY DEF Transport
<1>4. ServerStarted(r) = c \/ ServerStarted(r) = r
  BY DEF ServerStarted
<1> HIDE DEF a, b, c
<1>5. Kept(r, a) /\ Kept(r, b) /\ Kept(r, c) /\ Kept(r, r)
  BY <1>1, <1>2, <1>3, KeptFields
<1> QED BY <1>4, <1>5 DEF a, b

\* The end of suspend(), or close(), leaves nothing on the air.
LEMMA OwnQuieted ==
  ASSUME NEW r \in Transport
  PROVE  /\ Own(Quieted(r)) /\ Quieted(r).uuid = r.uuid
         /\ Own(Retired(Quieted(r))) /\ Retired(Quieted(r)).uuid = r.uuid
         /\ Own(Closed(r)) /\ Closed(r).uuid = r.uuid
<1> DEFINE a == Quieted(r)
           b == [a EXCEPT !.retired = TRUE]
           c == Closed(r)
<1>1. a \in Transport /\ a.uuid = r.uuid /\ a.advert = NoTopic /\ a.scan = NoTopic
  BY DEF Quieted, Transport
<1>2. c.uuid = r.uuid /\ c.advert = NoTopic /\ c.scan = NoTopic
  BY DEF Closed, Transport
<1>3. Retired(a) = b \/ Retired(a) = a
  BY DEF Retired
<1> HIDE DEF a, c
<1>4. b.uuid = r.uuid /\ b.advert = NoTopic /\ b.scan = NoTopic
  BY <1>1 DEF Transport
<1> HIDE DEF b
<1>5. Own(a) /\ Own(b) /\ Own(c)
  BY <1>1, <1>2, <1>4 DEF Own
<1>6. Own(Retired(a)) /\ Retired(a).uuid = r.uuid
  BY <1>1, <1>3, <1>4, <1>5
<1> QED BY <1>1, <1>2, <1>5, <1>6 DEF a, c

\* A step that replaces one transport's record.
LEMMA TopicByOne ==
  ASSUME TypeOK, TopicInv, NEW t \in DOMAIN tr, NEW q \in Transport,
         tr' = [tr EXCEPT ![t] = q],
         current' = current \/ current' = 0,
         t = current => q.uuid = topic',
         t # current => topic' = topic,
         Own(tr[t]) \/ Held(t) => Own(q) \/ Held(t)',
         \A s \in DOMAIN tr : s # t /\ Held(s) => Held(s)'
  PROVE  TopicInv'
<1>1. DOMAIN tr' = DOMAIN tr /\ tr'[t] = q /\ \A s \in DOMAIN tr : s # t => tr'[s] = tr[s]
  BY OneReplaced DEF TypeOK
<1>2. current # 0 => current \in DOMAIN tr
  BY CurrentInDomain, TypeParts
<1>3. current' # 0 => tr'[current'].uuid = topic'
  BY <1>1, <1>2 DEF TopicInv
<1>4. ASSUME NEW s \in DOMAIN tr PROVE Own(tr'[s]) \/ Held(s)'
  BY <1>1 DEF TopicInv
<1> QED BY <1>1, <1>3, <1>4 DEF TopicInv

LEMMA TopicByKept ==
  ASSUME TypeOK, TopicInv, HeldStays, NEW t \in DOMAIN tr, NEW q \in Transport,
         tr' = [tr EXCEPT ![t] = q], Kept(tr[t], q) \/ (Own(q) /\ q.uuid = tr[t].uuid),
         current' = current \/ current' = 0, topic' = topic
  PROVE  TopicInv'
<1>1. t = current => tr[t].uuid = topic
  <2>1. t # 0
    BY DEF TypeOK
  <2> QED BY <2>1 DEF TopicInv
<1>2. q.uuid = tr[t].uuid /\ (Own(tr[t]) => Own(q))
  BY DEF Kept
<1>3. \A s : Held(s) => Held(s)'
  BY HeldByStays
<1> QED BY <1>1, <1>2, <1>3, TopicByOne

LEMMA TopicByNone ==
  ASSUME TypeOK, TopicInv, HeldStays, tr' = tr, current' = current \/ current' = 0,
         topic' = topic \/ current = 0
  PROVE  TopicInv'
<1>1. \A s : Held(s) => Held(s)'
  BY HeldByStays
<1> QED BY <1>1 DEF TopicInv

LEMMA TopicBySuspend ==
  ASSUME TypeOK, TopicInv, current # 0, NEW op, SuspendTransport(op),
         current' = current \/ current' = 0, topic' = topic
  PROVE  TopicInv'
<1>1. PICK t \in DOMAIN tr : t = current /\ tr[t] \in Transport
  BY CurrentInDomain, TypeParts
<1> DEFINE q == [tr[t] EXCEPT !.paused = TRUE]
<1>2. tr' = [tr EXCEPT ![t] = q] /\ HeldStays
  BY <1>1, DrainStarts DEF SuspendTransport
<1>3. q \in Transport /\ q.uuid = tr[t].uuid /\ q.advert = tr[t].advert /\ q.scan = tr[t].scan
  BY <1>1 DEF Transport
<1> HIDE DEF q
<1> QED BY <1>2, <1>3, KeptFields, TopicByKept

LEMMA TopicByResume ==
  ASSUME TypeOK, TopicInv, HeldStays, current # 0,
         tr' = [tr EXCEPT ![current] = Resumed(@)], current' = current, topic' = topic
  PROVE  TopicInv'
<1>1. PICK t \in DOMAIN tr : t = current /\ tr[t] \in Transport
  BY CurrentInDomain, TypeParts
<1> DEFINE q == Resumed(tr[t])
<1>2. q \in Transport /\ tr' = [tr EXCEPT ![t] = q] /\ Kept(tr[t], q)
  BY <1>1, ResumedFacts, KeptResumed
<1> HIDE DEF q
<1> QED BY <1>2, TopicByKept

LEMMA TopicByActivate ==
  ASSUME TypeOK, TopicInv, Activate, topic' = topic
  PROVE  TopicInv'
<1>1. CASE /\ current # 0
           /\ tr' = [tr EXCEPT ![current] = Resumed(@)]
           /\ UNCHANGED <<current, calls>>
  BY <1>1, TopicByResume DEF HeldStays
<1>2. CASE current # 0 /\ SuspendTransport("activate") /\ current' = 0
  BY <1>2, TopicBySuspend
<1>3. CASE current = 0 /\ Await("activate", "after", 0) /\ UNCHANGED <<current, tr>>
  BY <1>3, TopicByNone DEF Await, HeldStays
<1> QED BY <1>1, <1>2, <1>3 DEF Activate

\* A topic that is not wanted yet goes to a transport with nothing on the air,
\* or nothing a drain does not take off.
LEMMA TopicByRename ==
  ASSUME TypeOK, QuietInv, TopicInv, NEW next \in Topics, SetTopic(next)
  PROVE  TopicInv'
<1>1. current' = current /\ topic' = next
  BY DEF SetTopic
<1>2. CASE current = 0
  <2>1. tr' = tr /\ calls' = calls
    BY <1>2 DEF SetTopic
  <2> QED BY <1>1, <1>2, <2>1, TopicByNone DEF HeldStays
<1>3. CASE current # 0
  <2>1. PICK t \in DOMAIN tr : t = current /\ tr[t] \in Transport
    BY <1>3, CurrentInDomain, TypeParts
  <2> DEFINE a == [tr[t] EXCEPT !.uuid = next]
             b == [a EXCEPT !.paused = TRUE]
  <2>2. a \in Transport /\ a.uuid = next /\ a.advert = tr[t].advert /\ a.scan = tr[t].scan
    BY <2>1 DEF Transport
  <2>3. CASE tr[t].uuid = next
    <3>1. tr' = tr /\ calls' = calls
      BY <2>1, <2>3 DEF SetTopic
    <3> QED BY <1>1, <2>1, <2>3, <3>1 DEF TopicInv, Held
  <2>4. CASE tr[t].uuid # next /\ ~Wanted
    <3>1. tr' = [tr EXCEPT ![t] = a] /\ HeldStays
      BY <1>3, <2>1, <2>4 DEF SetTopic, HeldStays
    <3> HIDE DEF a
    <3>2. Held(t) \/ Own(a)
      BY <2>2, <2>4 DEF QuietInv, Live, Silent, Own
    <3>3. \A s : Held(s) => Held(s)'
      BY <3>1, HeldByStays
    <3> QED BY <1>1, <2>1, <2>2, <3>1, <3>2, <3>3, TopicByOne
  <2>5. CASE tr[t].uuid # next /\ Wanted
    <3>1. /\ tr' = [tr EXCEPT ![t].uuid = next, ![t].paused = TRUE]
          /\ Await("topic", "drain", current) /\ tr \in Seq(Transport)
      BY <1>3, <2>1, <2>5 DEF SetTopic, TypeOK
    <3>2. tr' = [tr EXCEPT ![t] = b]
      BY <2>1, <3>1, BouncedIsOne
    <3>3. HeldStays /\ Held(t)'
      BY <2>1, <3>1, DrainStarts
    <3> HIDE DEF a
    <3>4. b \in Transport /\ b.uuid = next
      BY <2>2 DEF Transport
    <3> HIDE DEF b
    <3>5. \A s : Held(s) => Held(s)'
      BY <3>3, HeldByStays
    <3> QED BY <1>1, <2>1, <3>2, <3>3, <3>4, <3>5, TopicByOne
  <2> QED BY <2>3, <2>4, <2>5
<1> QED BY <1>2, <1>3

LEMMA TopicByUser ==
  ASSUME TypeOK, QuietInv, TopicInv,
         Start \/ Stop \/ Suspend \/ Resume \/ Close \/ \E next \in Topics : SetTopic(next)
  PROVE  TopicInv'
<1>1. CASE UNCHANGED <<current, tr, calls, topic>>
  BY <1>1, TopicByNone DEF HeldStays
<1>2. CASE Start \/ Resume
  BY <1>1, <1>2, TopicByActivate DEF Start, Resume
<1>3. CASE Stop \/ Suspend
  BY <1>1, <1>3, TopicBySuspend DEF Stop, Suspend
<1>4. CASE Close
  <2>1. CASE current = 0
    BY <1>1, <1>4, <2>1 DEF Close
  <2>2. CASE current # 0
    <3>1. PICK t \in DOMAIN tr : t = current /\ tr[t] \in Transport
      BY <2>2, CurrentInDomain, TypeParts
    <3>2. tr' = [tr EXCEPT ![t] = Closed(tr[t])] /\ HeldStays /\ UNCHANGED <<current, topic>>
      BY <1>4, <2>2, <3>1 DEF Close, HeldStays
    <3>3. Closed(tr[t]) \in Transport /\ Own(Closed(tr[t])) /\ Closed(tr[t]).uuid = tr[t].uuid
      BY <3>1, ClosedType, OwnQuieted
    <3> QED BY <3>2, <3>3, TopicByKept
  <2> QED BY <2>1, <2>2
<1> QED BY <1>2, <1>3, <1>4, TopicByRename

LEMMA TopicByDrain ==
  ASSUME TypeOK, TopicInv, NEW c \in calls, SuspendEnds(c)
  PROVE  TopicInv'
<1>1. CallOK(c, current, Len(tr)) /\ Shape
  BY TypeParts DEF CallsOK
<1>2. PICK t \in DOMAIN tr : t = c.t /\ tr[t] \in Transport /\ t # 0
  BY <1>1 DEF SuspendEnds, CallOK, Shape
<1>3. PICK q : /\ q = Quieted(tr[t]) \/ q = Retired(Quieted(tr[t]))
               /\ tr' = [tr EXCEPT ![t] = q]
  BY <1>2 DEF SuspendEnds
<1>4. q \in Transport /\ Own(q) /\ q.uuid = tr[t].uuid
  BY <1>2, <1>3, OwnQuieted, QuietedFacts, RetiredFacts
<1>5. current' = current /\ topic' = topic /\ \A b \in calls : b # c => b \in calls'
  BY DEF SuspendEnds, facade
<1>6. ASSUME NEW s, s # t, Held(s) PROVE Held(s)'
  BY <1>2, <1>5, <1>6 DEF Held
<1>7. t = current => tr[t].uuid = topic
  BY <1>2 DEF TopicInv
<1> QED BY <1>3, <1>4, <1>5, <1>6, <1>7, TopicByOne

LEMMA TopicByCall ==
  ASSUME TypeOK, TopicInv, NEW c \in calls, CallStep(c)
  PROVE  TopicInv'
<1>1. CASE SuspendEnds(c)
  BY <1>1, TopicByDrain
<1>2. CASE TopicEnds(c)
  <2>1. HeldStays /\ current' = current /\ topic' = topic
    BY <1>2 DEF TopicEnds, HeldStays, facade
  <2> QED BY <1>2, <2>1, TopicByResume, TopicByNone DEF TopicEnds
<1>3. CASE CreateEnds(c)
  <2>1. HeldStays /\ topic' = topic /\ topic \in Topics /\ tr \in Seq(Transport)
    BY <1>3 DEF CreateEnds, HeldStays, facade, TypeOK
  <2>2. CASE UNCHANGED <<tr, current>>
    BY <2>1, <2>2, TopicByNone
  <2>3. CASE tr' = Append(tr, Fresh(topic)) /\ current' = Len(tr) + 1
    <3>1. /\ DOMAIN tr' = DOMAIN tr \cup {current'} /\ tr'[current'] = Fresh(topic)
          /\ \A s \in DOMAIN tr : tr'[s] = tr[s]
      BY <2>1, <2>3
    <3>2. Fresh(topic).uuid = topic /\ Own(Fresh(topic))
      BY DEF Fresh, Own
    <3>3. ASSUME NEW s \in DOMAIN tr' PROVE Own(tr'[s]) \/ Held(s)'
      BY <2>1, <3>1, <3>2, HeldByStays DEF TopicInv
    <3> QED BY <2>1, <3>1, <3>2, <3>3 DEF TopicInv
  <2> QED BY <1>3, <2>2, <2>3 DEF CreateEnds
<1> QED BY <1>1, <1>2, <1>3 DEF CallStep

LEMMA TopicByRadio ==
  ASSUME TypeOK, TopicInv, NEW t \in DOMAIN tr, RadioStep(t)
  PROVE  TopicInv'
<1>1. tr[t] \in Transport
  BY DEF TypeOK
<1>2. StateOf(power) \in {"waiting", "on"} /\ power \in {"on", "off"}
  BY DEF TypeOK, StateOf
<1>3. ASSUME NEW q \in Transport, Kept(tr[t], q), tr' = [tr EXCEPT ![t] = q],
             UNCHANGED <<facade, current, calls>>
      PROVE  TopicInv'
  <2>1. HeldStays /\ topic' = topic /\ current' = current
    BY <1>3 DEF HeldStays, facade
  <2> QED BY <1>3, <2>1, TopicByKept
<1>4. CASE ServerChanges(t)
  <2> DEFINE r == [tr[t] EXCEPT !.server = power, !.state = StateOf(power)]
             q == IF power = "on" THEN ServerStarted(r) ELSE [RadioDown(r) EXCEPT !.adding = FALSE]
  <2>1. r \in Transport /\ r.uuid = tr[t].uuid /\ r.advert = tr[t].advert /\ r.scan = tr[t].scan
    BY <1>1, <1>2 DEF Transport
  <2>2. tr' = [tr EXCEPT ![t] = q] /\ UNCHANGED <<facade, current, calls>>
    BY <1>4 DEF ServerChanges
  <2> HIDE DEF r
  <2>3. q \in Transport /\ Kept(r, q)
    BY <2>1, ServerStartedFacts, RadioDownFacts, KeptRadio DEF Calm
  <2> HIDE DEF q
  <2> QED BY <1>3, <2>1, <2>2, <2>3, KeptFields, KeptChain
<1>5. CASE ServiceAdded(t)
  <2> DEFINE r == [tr[t] EXCEPT !.adding = FALSE, !.serviceAdded = TRUE]
             q == Advertised(r)
  <2>1. r \in Transport /\ r.uuid = tr[t].uuid /\ r.advert = tr[t].advert /\ r.scan = tr[t].scan
    BY <1>1 DEF Transport
  <2>2. tr' = [tr EXCEPT ![t] = q] /\ UNCHANGED <<facade, current, calls>>
    BY <1>5 DEF ServiceAdded
  <2> HIDE DEF r
  <2>3. q \in Transport /\ Kept(r, q)
    BY <2>1, AdvertisedFacts, KeptAdvertised
  <2> HIDE DEF q
  <2> QED BY <1>3, <2>1, <2>2, <2>3, KeptFields, KeptChain
<1>6. CASE CentralChanges(t)
  <2> DEFINE r == [tr[t] EXCEPT !.central = power, !.state = StateOf(power)]
             q == IF power = "off" THEN RadioDown(r)
                  ELSE IF r.radioWasDown THEN r ELSE Scanning(r)
  <2>1. r \in Transport /\ r.uuid = tr[t].uuid /\ r.advert = tr[t].advert /\ r.scan = tr[t].scan
    BY <1>1, <1>2 DEF Transport
  <2>2. tr' = [tr EXCEPT ![t] = q] /\ UNCHANGED <<facade, current, calls>>
    BY <1>6 DEF CentralChanges
  <2> HIDE DEF r
  <2>3. q \in Transport /\ Kept(r, q)
    BY <2>1, ScanningFacts, RadioDownFacts, KeptRadio, KeptScanning, KeptFields
  <2> HIDE DEF q
  <2> QED BY <1>3, <2>1, <2>2, <2>3, KeptFields, KeptChain
<1>7. CASE CentralHeals(t)
  <2> DEFINE r == [tr[t] EXCEPT !.central = power, !.state = StateOf(power),
                                !.radioWasDown = FALSE, !.healing = TRUE]
             q == [r EXCEPT !.paused = TRUE]
  <2>1. r \in Transport /\ r.uuid = tr[t].uuid /\ r.advert = tr[t].advert /\ r.scan = tr[t].scan
    BY <1>1, <1>2 DEF Transport
  <2>2. topic' = topic
    BY <1>7 DEF CentralHeals, facade
  <2>3. CASE tr' = [tr EXCEPT ![t] = r] /\ UNCHANGED <<current, calls>>
    <3> HIDE DEF r
    <3> QED BY <2>1, <2>2, <2>3, KeptFields, TopicByKept DEF HeldStays
  <2>4. CASE /\ tr' = [tr EXCEPT ![t] = q] /\ current' = 0
             /\ calls' = calls \cup {[n |-> 0, op |-> "rebuild", pc |-> "drain", t |-> t]}
    <3>1. HeldStays
      BY <2>4 DEF HeldStays
    <3> HIDE DEF r
    <3>2. q \in Transport /\ q.uuid = r.uuid /\ q.advert = r.advert /\ q.scan = r.scan
      BY <2>1 DEF Transport
    <3> HIDE DEF q
    <3> QED BY <2>1, <2>2, <2>4, <3>1, <3>2, KeptFields, TopicByKept
  <2> QED BY <1>7, <2>3, <2>4 DEF CentralHeals
<1> QED BY <1>4, <1>5, <1>6, <1>7 DEF RadioStep

LEMMA TopicByPower ==
  ASSUME TypeOK, TopicInv, PowerOff \/ PowerOn
  PROVE  TopicInv'
<1>1. UNCHANGED <<facade, current, calls>>
  BY DEF PowerOff, PowerOn
<1>2. CASE PowerOff
  <2>1. DOMAIN tr' = DOMAIN tr
    BY <1>2 DEF PowerOff
  <2>2. ASSUME NEW t \in DOMAIN tr
        PROVE  tr'[t].uuid = tr[t].uuid /\ Own(tr'[t])
    <3>1. tr[t] \in Transport
      BY DEF TypeOK
    <3>2. tr'[t] = [tr[t] EXCEPT !.advert = NoTopic, !.scan = NoTopic]
      BY <1>2 DEF PowerOff
    <3> QED BY <3>1, <3>2 DEF Transport, Own
  <2>3. current # 0 => current \in DOMAIN tr
    BY CurrentInDomain, TypeParts
  <2> QED BY <1>1, <2>1, <2>2, <2>3 DEF TopicInv, facade
<1>3. CASE PowerOn
  <2>1. tr' = tr
    BY <1>3 DEF PowerOn
  <2> QED BY <1>1, <2>1, TopicByNone DEF HeldStays, facade
<1> QED BY <1>2, <1>3

LEMMA TopicStep ==
  ASSUME TypeOK, QuietInv, TopicInv, [Next]_vars
  PROVE  TopicInv'
<1>1. CASE UNCHANGED vars
  BY <1>1, TopicByNone DEF vars, facade, HeldStays
<1>2. CASE Next
  BY <1>2, TopicByUser, TopicByCall, TopicByRadio, TopicByPower DEF Next
<1> QED BY <1>1, <1>2

LEMMA TopicEnough == TypeOK /\ QuietInv /\ TopicInv => OneTopicAtRest
<1> SUFFICES ASSUME TypeOK, QuietInv, TopicInv, calls = {}, NEW t \in DOMAIN tr
             PROVE  {tr[t].advert, tr[t].scan} \subseteq {topic, NoTopic}
  BY DEF OneTopicAtRest, AtRest
<1>1. ~Held(t)
  BY DEF Held
<1>2. CASE t = current
  <2>1. current # 0
    BY <1>2, ZeroIsNone
  <2>2. Own(tr[t]) /\ tr[t].uuid = topic
    BY <1>1, <1>2, <2>1 DEF TopicInv
  <2> QED BY <2>2 DEF Own
<1>3. CASE t # current
  <2>1. Silent(tr[t])
    BY <1>1, <1>3, OthersHalted DEF Live
  <2> QED BY <2>1 DEF Silent
<1> QED BY <1>2, <1>3

\* "Switch the single active topic": once every call has run to its end, what
\* is on the air carries the topic set last, for any calls and power losses.
\* A late 'serviceAdd' is excluded as above: it puts a paused transport on the
\* air, whose topic the next setTopic() then changes without a bounce.
THEOREM OneTopic ==
  ASSUME "slow" \notin Hazards
  PROVE  Spec => []OneTopicAtRest
<1>1. Init => QuietInv /\ TopicInv
  BY DEF Init, QuietInv, TopicInv
<1>2. TypeOK /\ QuietInv /\ TopicInv /\ [Next]_vars => QuietInv' /\ TopicInv'
  BY QuietStep, TopicStep
<1> QED
  BY <1>1, <1>2, TopicEnough, LifecycleTyped, PTL DEF Spec

-----------------------------------------------------------------------------
(* RestoredAtRest, NoWedgedManagers and StateTruthful, for a device whose      *)
(* methods are called one after the other: the transport in use keeps what a   *)
(* resume() relies on, and while it is wanted it runs, or has yet to heal, or  *)
(* is bounced by setTopic().                                                   *)

\* With power p: what holds of the transport in use, wanted or not.
Sound(r, p) ==
  /\ ~r.closed /\ ~r.retired /\ ~r.healing
  /\ r.radioWasDown <=> r.radioCycled
  /\ "unknown" \in {r.server, r.central} => ~r.paused
  /\ r.server = "off" => ~r.adding /\ ~r.serviceAdded /\ ~r.advertising
  /\ r.central = "off" => ~r.scanning
  /\ r.advertising /\ p = "on" => r.advert # NoTopic
  /\ r.scanning /\ p = "on" => r.scan # NoTopic
  /\ ~r.radioCycled => /\ "off" \notin {r.server, r.central}
                       /\ r.server = "on" => r.adding \/ r.serviceAdded

\* With power p: the report that makes a power-cycled transport heal is to come.
Ready(r, p) == r.radioCycled /\ r.central = "on" => p = "off"

\* With power p: what holds of it as well while it is wanted and not bounced.
Awake(r, p) ==
  /\ Ready(r, p)
  /\ ~r.paused
  /\ r.server = r.central /\ r.server # "unknown" => r.state = StateOf(r.server)
  /\ ~r.radioCycled => /\ r.serviceAdded => r.advertising
                       /\ r.central = "on" => r.scanning

SteadyInv ==
  /\ closing => ~started
  /\ \A c \in calls : /\ c.op \in {"pause", "topic"} => c.n # 0
                      /\ c.op = "pause" => ~Wanted
                      /\ c.op = "topic" => Wanted /\ current # 0
  /\ Wanted /\ current = 0 => \E c \in calls : c.op \in {"activate", "rebuild"}
  /\ current # 0 /\ ~closing => Sound(tr[current], power)
  /\ current # 0 /\ Wanted => /\ Ready(tr[current], power)
                              /\ Bouncing \/ Awake(tr[current], power)

\* From r to q everything stays but what is told of advertising, the scan and
\* the state.
Same(r, q) ==
  /\ q \in Transport
  /\ q.paused = r.paused /\ q.closed = r.closed /\ q.retired = r.retired
  /\ q.healing = r.healing /\ q.radioWasDown = r.radioWasDown
  /\ q.radioCycled = r.radioCycled /\ q.server = r.server /\ q.central = r.central
  /\ q.adding = r.adding /\ q.serviceAdded = r.serviceAdded /\ q.uuid = r.uuid

LEMMA SteadyAdvertised ==
  ASSUME NEW r \in Transport, Sound(r, power)
  PROVE  LET q == Advertised(r)
         IN  /\ Same(r, q) /\ Sound(q, power)
             /\ q.scanning = r.scanning /\ q.state = r.state
             /\ q.serviceAdded => q.advertising
<1> DEFINE q == [r EXCEPT !.advertising = TRUE, !.advert = OnAirAs(r.uuid)]
<1>1. CASE r.advertising \/ ~r.serviceAdded
  BY <1>1 DEF Advertised, Same
<1>2. CASE ~r.advertising /\ r.serviceAdded
  <2>1. Advertised(r) = q
    BY <1>2 DEF Advertised
  <2>2. Same(r, q)
    BY OnAirFacts DEF Same, Transport
  <2>3. /\ q.scanning = r.scanning /\ q.scan = r.scan /\ q.state = r.state
        /\ q.advertising /\ q.advert = OnAirAs(r.uuid)
    BY DEF Transport
  <2>5. r.uuid # NoTopic
    BY LifecycleAssumption DEF Transport
  <2> HIDE DEF q
  <2>4. Sound(q, power)
    BY <1>2, <2>2, <2>3, <2>5 DEF Sound, Same, OnAirAs
  <2> QED BY <2>1, <2>2, <2>3, <2>4
<1> QED BY <1>1, <1>2

LEMMA SteadyScanning ==
  ASSUME NEW r \in Transport, Sound(r, power)
  PROVE  LET q == Scanning(r)
         IN  /\ Same(r, q) /\ Sound(q, power)
             /\ q.advertising = r.advertising /\ q.state = r.state
             /\ ~Halted(r) /\ r.central = "on" => q.scanning
<1> DEFINE q == [r EXCEPT !.scanning = TRUE, !.scan = OnAirAs(r.uuid)]
<1>1. CASE Halted(r) \/ r.scanning \/ r.central # "on"
  BY <1>1 DEF Scanning, Same
<1>2. CASE ~(Halted(r) \/ r.scanning \/ r.central # "on")
  <2>1. Scanning(r) = q
    BY <1>2 DEF Scanning
  <2>2. Same(r, q)
    BY OnAirFacts DEF Same, Transport
  <2>3. /\ q.advertising = r.advertising /\ q.advert = r.advert /\ q.state = r.state
        /\ q.scanning /\ q.scan = OnAirAs(r.uuid)
    BY DEF Transport
  <2>5. r.uuid # NoTopic
    BY LifecycleAssumption DEF Transport
  <2> HIDE DEF q
  <2>4. Sound(q, power)
    BY <1>2, <2>2, <2>3, <2>5 DEF Sound, Same, OnAirAs
  <2> QED BY <2>1, <2>2, <2>3, <2>4
<1> QED BY <1>1, <1>2

\* resume() of a transport that is whole, or is yet to heal, leaves nothing
\* undone.
LEMMA SteadyResumed ==
  ASSUME NEW r \in Transport, Sound(r, power), Ready(r, power)
  PROVE  LET q == Resumed(r) IN q \in Transport /\ Sound(q, power) /\ Awake(q, power)
<1> DEFINE a == [r EXCEPT !.paused = FALSE, !.advertising = FALSE]
           b == Advertised(a)
           c == Scanning(b)
           d == [c EXCEPT !.state = StateOf(r.central)]
<1>1. Resumed(r) = d
  BY DEF Resumed, Sound
<1>2. /\ a \in Transport /\ ~a.paused /\ ~a.advertising /\ a.closed = r.closed
      /\ a.retired = r.retired /\ a.healing = r.healing
      /\ a.radioWasDown = r.radioWasDown /\ a.radioCycled = r.radioCycled
      /\ a.server = r.server /\ a.central = r.central /\ a.adding = r.adding
      /\ a.serviceAdded = r.serviceAdded /\ a.scanning = r.scanning
      /\ a.scan = r.scan /\ a.uuid = r.uuid
  BY DEF Transport
<1> HIDE DEF a
<1>3. Sound(a, power)
  BY <1>2 DEF Sound
<1>4. Same(a, b) /\ Sound(b, power) /\ (b.serviceAdded => b.advertising)
  BY <1>2, <1>3, SteadyAdvertised
<1>5. b \in Transport /\ ~Halted(b)
  BY <1>2, <1>3, <1>4 DEF Same, Halted, Sound
<1> HIDE DEF b
<1>6. /\ Same(b, c) /\ Sound(c, power) /\ c.advertising = b.advertising
      /\ b.central = "on" => c.scanning
  BY <1>4, <1>5, SteadyScanning
<1> HIDE DEF c
<1>7. c \in Transport /\ StateOf(r.central) \in {"waiting", "on"}
  BY <1>6 DEF Same, StateOf
<1>8. /\ Same(c, d) /\ d.advertising = c.advertising /\ d.advert = c.advert
      /\ d.scanning = c.scanning /\ d.scan = c.scan /\ d.state = StateOf(r.central)
  BY <1>7 DEF Same, Transport
<1> HIDE DEF d
<1>9. Sound(d, power)
  BY <1>6, <1>8 DEF Sound, Same
<1>10. Awake(d, power)
  BY <1>2, <1>4, <1>6, <1>8 DEF Awake, Ready, Same, StateOf
<1> QED BY <1>1, <1>8, <1>9, <1>10 DEF Same

LEMMA SteadyQuieted ==
  ASSUME NEW r \in Transport, NEW p, Sound(r, p)
  PROVE  Sound(Quieted(r), p) /\ (Ready(r, p) => Ready(Quieted(r), p))
<1> DEFINE q == Quieted(r)
<1>1. Same(r, q) /\ ~q.advertising /\ ~q.scanning
  BY DEF Quieted, Same, Transport
<1> HIDE DEF q
<1> QED BY <1>1 DEF Sound, Ready, Same, q

LEMMA SteadyFresh ==
  ASSUME NEW u \in Topics, NEW p
  PROVE  Sound(Fresh(u), p) /\ Awake(Fresh(u), p)
BY DEF Sound, Awake, Ready, Fresh

-----------------------------------------------------------------------------
(* Every step keeps SteadyInv                                                 *)

\* A user's call meets no other call of the user, and managers that reported.
LEMMA IdleUser ==
  ASSUME TypeOK, SteadyInv, Hazards \cap {"overlap", "slow"} = {}, UserTurn
  PROVE  /\ ~Fledgling /\ power' = power
         /\ \A c \in calls : c.op \notin {"pause", "topic"}
         /\ ~Bouncing
         /\ called + 1 # 0
         /\ current # 0 /\ ~closing => /\ current \in DOMAIN tr /\ tr[current] \in Transport
                                       /\ "unknown" \notin {tr[current].server, tr[current].central}
<1>1. ~Fledgling /\ power' = power /\ \A c \in calls : c.n = 0
  BY DEF UserTurn, Prompt
<1>2. called + 1 # 0
  BY DEF TypeOK
<1>3. ASSUME current # 0, ~closing
      PROVE  /\ current \in DOMAIN tr /\ tr[current] \in Transport
             /\ "unknown" \notin {tr[current].server, tr[current].central}
  <2>1. current \in DOMAIN tr /\ tr[current] \in Transport
    BY <1>3, CurrentInDomain, TypeParts
  <2>2. ~Destroyed(tr[current])
    BY <1>3 DEF SteadyInv, Sound, Destroyed
  <2> QED BY <1>1, <2>1, <2>2 DEF Fledgling
<1> QED BY <1>1, <1>2, <1>3 DEF SteadyInv, Bouncing

\* Pausing a transport, and giving it a topic, leaves it sound.
LEMMA SteadyPaused ==
  ASSUME NEW r \in Transport, NEW p, Sound(r, p), "unknown" \notin {r.server, r.central},
         NEW u \in Topics, NEW b \in BOOLEAN, r.paused => b
  PROVE  LET q == [[r EXCEPT !.uuid = u] EXCEPT !.paused = b]
         IN  Sound(q, p) /\ (Ready(r, p) => Ready(q, p))
<1> DEFINE q == [[r EXCEPT !.uuid = u] EXCEPT !.paused = b]
<1>1. /\ q.closed = r.closed /\ q.retired = r.retired
      /\ q.healing = r.healing /\ q.radioWasDown = r.radioWasDown
      /\ q.radioCycled = r.radioCycled /\ q.server = r.server
      /\ q.central = r.central /\ q.adding = r.adding
      /\ q.serviceAdded = r.serviceAdded /\ q.scanning = r.scanning
      /\ q.scan = r.scan /\ q.advertising = r.advertising /\ q.advert = r.advert
  BY DEF Transport
<1> HIDE DEF q
<1>2. Sound(q, p) /\ (Ready(r, p) => Ready(q, p))
  BY <1>1 DEF Sound, Ready
<1> QED BY <1>2 DEF q

\* A method that pauses the transport and drains.
LEMMA SteadySuspend ==
  ASSUME TypeOK, SteadyInv, Hazards \cap {"overlap", "slow"} = {}, UserTurn,
         current # 0, NEW op \in {"pause", "activate"}, SuspendTransport(op),
         op = "pause" => ~Wanted', closing' => ~started', closing' = closing,
         current' = IF op = "activate" THEN 0 ELSE current
  PROVE  SteadyInv'
<1> DEFINE q == [tr[current] EXCEPT !.paused = TRUE]
           d == [n |-> called + 1, op |-> op, pc |-> "drain", t |-> current]
<1>1. current \in DOMAIN tr /\ tr[current] \in Transport /\ power' = power /\ called + 1 # 0
  BY CurrentInDomain, TypeParts, IdleUser
<1>2. tr' = [tr EXCEPT ![current] = q] /\ calls' = calls \cup {d}
  BY DEF SuspendTransport, Await
<1>3. ASSUME NEW c \in calls'
      PROVE  c.op # "topic" /\ (c.op = "pause" => c.n # 0 /\ ~Wanted')
  BY <1>1, <1>2, IdleUser
<1>6. Wanted' => current' = 0
  OBVIOUS
<1>4. Wanted' => current' = 0 /\ \E c \in calls' : c.op \in {"activate", "rebuild"}
  <2>1. d \in calls' /\ d.op = op
    BY <1>2
  <2> QED BY <2>1
<1>5. ASSUME current' # 0, ~closing'
      PROVE  Sound(tr'[current'], power')
  <2>1. current' = current /\ tr'[current] = q
    BY <1>1, <1>2, <1>5
  <2>3. /\ "unknown" \notin {tr[current].server, tr[current].central}
        /\ Sound(tr[current], power)
    BY <1>5, IdleUser DEF SteadyInv
  <2>4. /\ q.closed = tr[current].closed /\ q.retired = tr[current].retired
        /\ q.healing = tr[current].healing /\ q.radioWasDown = tr[current].radioWasDown
        /\ q.radioCycled = tr[current].radioCycled /\ q.server = tr[current].server
        /\ q.central = tr[current].central /\ q.adding = tr[current].adding
        /\ q.serviceAdded = tr[current].serviceAdded /\ q.scanning = tr[current].scanning
        /\ q.scan = tr[current].scan /\ q.uuid = tr[current].uuid
        /\ q.advertising = tr[current].advertising /\ q.advert = tr[current].advert
    BY <1>1 DEF Transport
  <2> HIDE DEF q
  <2> QED BY <1>1, <2>1, <2>3, <2>4 DEF Sound
<1> QED BY <1>3, <1>4, <1>5, <1>6 DEF SteadyInv

LEMMA SteadyActivate ==
  ASSUME TypeOK, SteadyInv, Hazards \cap {"overlap", "slow"} = {}, UserTurn, Activate,
         closing' = closing, ~closing
  PROVE  SteadyInv'
<1>1. /\ power' = power /\ called + 1 # 0
      /\ \A c \in calls : c.op \notin {"pause", "topic"}
  BY IdleUser
<1>2. CASE /\ current # 0 /\ ~tr[current].radioCycled
           /\ tr' = [tr EXCEPT ![current] = Resumed(@)]
           /\ UNCHANGED <<current, calls>>
  <2>1. current \in DOMAIN tr /\ tr[current] \in Transport /\ Sound(tr[current], power)
    BY <1>2, IdleUser DEF SteadyInv
  <2>2. tr'[current'] = Resumed(tr[current])
    BY <1>2, <2>1
  <2>3. Sound(tr'[current'], power') /\ Awake(tr'[current'], power')
    BY <1>1, <1>2, <2>1, <2>2, SteadyResumed DEF Ready
  <2> QED BY <1>1, <1>2, <2>3 DEF SteadyInv, Awake
<1>3. CASE current # 0 /\ SuspendTransport("activate") /\ current' = 0
  BY <1>3, SteadySuspend
<1>4. CASE current = 0 /\ Await("activate", "after", 0) /\ UNCHANGED <<current, tr>>
  <2> DEFINE d == [n |-> called + 1, op |-> "activate", pc |-> "after", t |-> 0]
  <2>1. calls' = calls \cup {d} /\ current' = 0
    BY <1>4 DEF Await
  <2>2. d \in calls' /\ d.op = "activate"
    BY <2>1
  <2>3. \A c \in calls' : c.op \notin {"pause", "topic"}
    BY <1>1, <2>1
  <2> QED BY <2>1, <2>2, <2>3 DEF SteadyInv
<1> QED BY <1>2, <1>3, <1>4 DEF Activate

\* A step that leaves the transports and the calls alone.
LEMMA SteadyByNone ==
  ASSUME SteadyInv, UNCHANGED <<current, tr, calls, power>>,
         closing' => ~started', closing => closing', Wanted' => Wanted, Bouncing => Wanted'
  PROVE  SteadyInv'
BY DEF SteadyInv, Bouncing

\* setTopic: a live transport is bounced, another only learns of its topic.
LEMMA SteadyByTopic ==
  ASSUME TypeOK, SteadyInv, Hazards \cap {"overlap", "slow"} = {},
         NEW next \in Topics, SetTopic(next)
  PROVE  SteadyInv'
<1> DEFINE r == tr[current]
           b == [r EXCEPT !.uuid = next]
<1>1. /\ UserTurn /\ power' = power /\ called + 1 # 0 /\ Wanted' = Wanted
      /\ UNCHANGED <<started, suspended, closing, current>>
      /\ \A c \in calls : c.op \notin {"pause", "topic"}
      /\ ~Bouncing /\ (Wanted => ~closing)
  BY IdleUser DEF SetTopic, Wanted, SteadyInv
<1>2. CASE UNCHANGED <<tr, calls>>
  BY <1>1, <1>2, SteadyByNone DEF SteadyInv
<1>3. CASE current # 0 /\ ~Wanted /\ calls' = calls /\ tr' = [tr EXCEPT ![current].uuid = next]
  <2>1. current \in DOMAIN tr /\ r \in Transport /\ tr'[current'] = b
    BY <1>1, <1>3, CurrentInDomain, TypeParts
  <2>2. ASSUME ~closing PROVE Sound(b, power)
    <3>1. Sound(r, power) /\ "unknown" \notin {r.server, r.central}
      BY <1>1, <1>3, <2>2, IdleUser DEF SteadyInv
    <3>2. r.paused \in BOOLEAN /\ b = [b EXCEPT !.paused = r.paused]
      BY <2>1 DEF Transport
    <3> QED BY <2>1, <3>1, <3>2, SteadyPaused
  <2> HIDE DEF r, b
  <2> QED BY <1>1, <1>3, <2>1, <2>2 DEF SteadyInv
<1>4. CASE /\ current # 0 /\ Wanted /\ Await("topic", "drain", current)
           /\ tr' = [tr EXCEPT ![current].uuid = next, ![current].paused = TRUE]
  <2> DEFINE d == [n |-> called + 1, op |-> "topic", pc |-> "drain", t |-> current]
             q == [b EXCEPT !.paused = TRUE]
  <2>1. current \in DOMAIN tr /\ r \in Transport
    BY <1>4, CurrentInDomain, TypeParts
  <2>2. tr' = [tr EXCEPT ![current] = q]
    BY <1>4, <2>1, BouncedIsOne, TypeParts DEF Shape
  <2>3. tr'[current'] = q
    <3> HIDE DEF q
    <3> QED BY <1>1, <2>1, <2>2
  <2>4. Sound(r, power) /\ Ready(r, power) /\ "unknown" \notin {r.server, r.central}
    BY <1>1, <1>4, IdleUser DEF SteadyInv
  <2>5. Sound(q, power) /\ Ready(q, power)
    BY <2>1, <2>4, SteadyPaused
  <2>6. d \in calls' /\ d.op = "topic" /\ d.n # 0
    BY <1>1, <1>4 DEF Await
  <2>7. \A c \in calls' : c \in calls \/ c = d
    BY <1>4 DEF Await
  <2>8. Bouncing'
    BY <2>6 DEF Bouncing
  <2> HIDE DEF q, d, r, b
  <2> QED BY <1>1, <1>4, <2>3, <2>5, <2>6, <2>7, <2>8 DEF SteadyInv
<1> QED BY <1>2, <1>3, <1>4 DEF SetTopic

LEMMA SteadyByUser ==
  ASSUME TypeOK, SteadyInv, Hazards \cap {"overlap", "slow"} = {},
         Start \/ Stop \/ Suspend \/ Resume \/ Close \/ \E next \in Topics : SetTopic(next)
  PROVE  SteadyInv'
<1>1. UserTurn /\ power' = power /\ ~Bouncing
  BY IdleUser DEF Start, Stop, Suspend, Resume, Close, SetTopic, UserTurn
<1>2. CASE Start
  <2>1. ~closing /\ closing' = closing
    BY <1>2 DEF Start
  <2>2. CASE suspended
    BY <1>1, <1>2, <2>1, <2>2, SteadyByNone DEF Start, Wanted
  <2>3. CASE ~suspended
    BY <1>1, <1>2, <2>1, <2>3, SteadyActivate DEF Start
  <2> QED BY <2>2, <2>3
<1>3. CASE Resume
  <2>1. closing' = closing /\ started' = started /\ (started => ~closing)
    BY <1>3 DEF Resume, SteadyInv
  <2>2. CASE ~started
    BY <1>1, <1>3, <2>1, <2>2, SteadyByNone DEF Resume, Wanted
  <2>3. CASE started
    BY <1>1, <1>3, <2>1, <2>3, SteadyActivate DEF Resume
  <2> QED BY <2>2, <2>3
<1>4. CASE Stop \/ Suspend
  <2>1. ~Wanted' /\ closing' = closing /\ (closing' => ~started') /\ current' = current
    BY <1>4 DEF Stop, Suspend, SteadyInv, Wanted
  <2>2. CASE current # 0 /\ SuspendTransport("pause")
    BY <1>1, <2>1, <2>2, SteadySuspend
  <2>3. CASE UNCHANGED <<tr, calls>>
    BY <1>1, <2>1, <2>3, SteadyByNone
  <2> QED BY <1>4, <2>2, <2>3 DEF Stop, Suspend
<1>5. CASE Close
  <2>1. ~Wanted' /\ closing' /\ ~started' /\ calls' = calls
    BY <1>5 DEF Close, Wanted
  <2>2. \A c \in calls : c.op \notin {"pause", "topic"}
    BY <1>1, IdleUser
  <2> QED BY <2>1, <2>2 DEF SteadyInv
<1>6. ASSUME NEW next \in Topics, SetTopic(next)
      PROVE  SteadyInv'
  BY <1>6, SteadyByTopic
<1> QED BY <1>2, <1>3, <1>4, <1>5, <1>6

LEMMA SteadyByCall ==
  ASSUME TypeOK, SteadyInv, NEW c \in calls, CallStep(c)
  PROVE  SteadyInv'
<1>1. CallOK(c, current, Len(tr)) /\ Shape
  BY TypeParts DEF CallsOK
<1>2. CASE SuspendEnds(c)
  <2>1. PICK t \in DOMAIN tr : t = c.t /\ tr[t] \in Transport
    BY <1>1, <1>2 DEF SuspendEnds, CallOK, Shape
  <2>2. /\ UNCHANGED <<current, power, started, suspended, closing>> /\ Wanted' = Wanted
    BY <1>2 DEF SuspendEnds, facade, Wanted
  <2>3. CASE c.op \in {"pause", "topic"}
    <3>2. tr' = [tr EXCEPT ![t] = Quieted(tr[t])]
      BY <1>2, <2>1, <2>3 DEF SuspendEnds
    <3>3. ASSUME current # 0, ~closing
          PROVE  /\ Sound(tr'[current], power)
                 /\ Ready(tr[current], power) => Ready(tr'[current], power)
      <4>1. current \in DOMAIN tr /\ tr[current] \in Transport /\ Sound(tr[current], power)
        BY <1>1, <3>3, CurrentInDomain DEF SteadyInv
      <4>2. tr'[current] = Quieted(tr[current]) \/ tr'[current] = tr[current]
        BY <2>1, <3>2, <4>1
      <4> QED BY <4>1, <4>2, SteadyQuieted
    <3>4. CASE c.op = "pause"
      <4>1. calls' = calls \ {c} /\ ~Wanted
        BY <1>2, <3>4 DEF SuspendEnds, SteadyInv
      <4> QED BY <2>2, <3>3, <4>1 DEF SteadyInv
    <3>5. CASE c.op = "topic"
      <4> DEFINE d == [c EXCEPT !.pc = "after"]
      <4>1. calls' = (calls \ {c}) \cup {d} /\ d.op = c.op /\ d.n = c.n
        BY <1>1, <1>2, <3>5 DEF SuspendEnds, CallOK
      <4>2. d \in calls' /\ \A x \in calls' : x \in calls \/ x = d
        BY <4>1
      <4> HIDE DEF d
      <4>3. Bouncing'
        BY <3>5, <4>1, <4>2 DEF Bouncing
      <4>4. Wanted /\ current # 0 /\ ~closing /\ d.n # 0
        BY <3>5, <4>1 DEF SteadyInv, Wanted
      <4>5. Sound(tr'[current], power) /\ Ready(tr'[current], power)
        BY <3>3, <4>4 DEF SteadyInv
      <4> QED BY <2>2, <3>5, <4>1, <4>2, <4>3, <4>4, <4>5 DEF SteadyInv
    <3> QED BY <2>3, <3>4, <3>5
  <2>4. CASE c.op \in {"activate", "rebuild"}
    <3> DEFINE d == [c EXCEPT !.pc = "after"]
    <3>1. calls' = (calls \ {c}) \cup {d} /\ d.op = c.op
      BY <1>1, <1>2, <2>4 DEF SuspendEnds, CallOK
    <3>2. current # 0 => current \in DOMAIN tr /\ t # current
      BY <1>1, <2>1, <2>4, CurrentInDomain DEF CallOK
    <3>3. current # 0 => tr'[current] = tr[current]
      BY <1>2, <2>1, <3>2 DEF SuspendEnds
    <3>4. d \in calls'
      BY <3>1
    <3>5. \A b \in calls' : b \in calls \/ b = d
      BY <3>1
    <3> HIDE DEF d
    <3>6. Bouncing => Bouncing'
      BY <2>4, <3>1 DEF Bouncing
    <3> QED BY <2>2, <2>4, <3>1, <3>3, <3>4, <3>5, <3>6 DEF SteadyInv
  <2> QED BY <1>1, <2>2, <2>3, <2>4 DEF CallOK
<1>3. CASE TopicEnds(c)
  <2>1. /\ UNCHANGED <<current, power, started, suspended, closing>> /\ Wanted' = Wanted
        /\ calls' = calls \ {c} /\ Wanted /\ current # 0 /\ ~closing
        /\ tr' = [tr EXCEPT ![current] = Resumed(tr[current])]
    BY <1>3 DEF TopicEnds, facade, Wanted, SteadyInv
  <2>2. current \in DOMAIN tr /\ tr[current] \in Transport
    BY <1>1, <2>1, CurrentInDomain
  <2>3. Sound(tr[current], power) /\ Ready(tr[current], power)
    BY <2>1 DEF SteadyInv
  <2>4. tr'[current'] = Resumed(tr[current])
    BY <2>1, <2>2
  <2>5. Sound(tr'[current'], power') /\ Awake(tr'[current'], power')
    BY <2>1, <2>2, <2>3, <2>4, SteadyResumed
  <2> QED BY <2>1, <2>5 DEF SteadyInv, Awake
<1>4. CASE CreateEnds(c)
  <2>1. /\ calls' = calls \ {c} /\ Wanted' = Wanted
        /\ UNCHANGED <<power, started, suspended, closing>>
    BY <1>4 DEF CreateEnds, facade, Wanted
  <2>2. CASE current = 0 /\ Wanted /\ ~closing
    <3>1. tr' = Append(tr, Fresh(topic)) /\ current' = Len(tr) + 1
      BY <1>4, <2>2 DEF CreateEnds
    <3>2. tr'[current'] = Fresh(topic) /\ current' # 0 /\ topic \in Topics
      BY <1>1, <3>1 DEF Shape, TypeOK
    <3> QED BY <2>1, <3>2, SteadyFresh DEF SteadyInv, Awake
  <2>3. CASE ~(current = 0 /\ Wanted /\ ~closing)
    <3>1. UNCHANGED <<tr, current>>
      BY <1>4, <2>3 DEF CreateEnds
    <3>2. Wanted => current # 0
      BY <2>3 DEF SteadyInv, Wanted
    <3>3. Bouncing => Bouncing'
      BY <1>4, <2>1 DEF Bouncing, CreateEnds
    <3> QED BY <2>1, <3>1, <3>2, <3>3 DEF SteadyInv
  <2> QED BY <2>2, <2>3
<1> QED BY <1>2, <1>3, <1>4 DEF CallStep

\* A step that replaces one transport and nothing else.
LEMMA SteadyByOne ==
  ASSUME TypeOK, SteadyInv, NEW t \in DOMAIN tr, NEW q, tr' = [tr EXCEPT ![t] = q],
         UNCHANGED <<facade, current, calls, power>>,
         Sound(tr[t], power) => Sound(q, power),
         Sound(tr[t], power) /\ Awake(tr[t], power) => Awake(q, power),
         Bouncing => (Sound(tr[t], power) => (Ready(tr[t], power) => Ready(q, power)))
  PROVE  SteadyInv'
<1>1. current # 0 => current \in DOMAIN tr
  BY CurrentInDomain, TypeParts
<1>2. current # 0 => tr'[current] = tr[current] \/ (t = current /\ tr'[current] = q)
  BY <1>1
<1>3. UNCHANGED <<started, suspended, closing, power, current, calls>> /\ Wanted' = Wanted
  BY DEF facade, Wanted
<1>4. Wanted => ~closing
  BY DEF SteadyInv, Wanted
<1>5. Bouncing' = Bouncing
  BY <1>3 DEF Bouncing
<1> QED BY <1>2, <1>3, <1>4, <1>5 DEF SteadyInv, Awake

\* 'stateChange' to poweredOn on the server manager.
LEMMA SteadyServerOn ==
  ASSUME NEW r \in Transport, power = "on", r.server # "on", Sound(r, power)
  PROVE  LET q == ServerStarted([r EXCEPT !.server = power, !.state = StateOf(power)])
         IN  Sound(q, power) /\ (Awake(r, power) => Awake(q, power))
<1> DEFINE s == [r EXCEPT !.server = power, !.state = StateOf(power)]
           u == [s EXCEPT !.adding = TRUE]
<1>1. /\ s \in Transport /\ s.server = "on" /\ s.state = "on"
      /\ s.paused = r.paused /\ s.closed = r.closed /\ s.retired = r.retired
      /\ s.healing = r.healing /\ s.radioWasDown = r.radioWasDown
      /\ s.radioCycled = r.radioCycled /\ s.central = r.central /\ s.adding = r.adding
      /\ s.serviceAdded = r.serviceAdded /\ s.uuid = r.uuid
      /\ s.advertising = r.advertising /\ s.advert = r.advert
      /\ s.scanning = r.scanning /\ s.scan = r.scan
  BY DEF Transport, StateOf
<1> HIDE DEF s
<1>2. /\ Same(s, [u EXCEPT !.adding = s.adding]) /\ u.adding
      /\ u.server = "on" /\ u.state = "on"
      /\ u.paused = r.paused /\ u.closed = r.closed /\ u.retired = r.retired
      /\ u.healing = r.healing /\ u.radioWasDown = r.radioWasDown
      /\ u.radioCycled = r.radioCycled /\ u.central = r.central
      /\ u.serviceAdded = r.serviceAdded /\ u.uuid = r.uuid
      /\ u.advertising = r.advertising /\ u.advert = r.advert
      /\ u.scanning = r.scanning /\ u.scan = r.scan
  BY <1>1 DEF Transport, Same
<1> HIDE DEF u
<1>3. CASE ServerStarted(s) = u
  BY <1>2, <1>3 DEF Sound, Awake, Ready, StateOf, s
<1>4. CASE ServerStarted(s) = s /\ (Halted(s) \/ s.radioWasDown \/ s.serviceAdded)
  <2>1. ~r.radioCycled => s.serviceAdded
    BY <1>1, <1>4 DEF Sound, Halted, Transport
  <2>2. Sound(s, power)
    BY <1>1, <2>1 DEF Sound
  <2>3. Awake(r, power) => Awake(s, power)
    BY <1>1 DEF Awake, Ready, StateOf, Sound
  <2> QED BY <1>4, <2>2, <2>3 DEF s
<1> QED BY <1>1, <1>3, <1>4 DEF ServerStarted, u

\* 'stateChange' to anything else, on either manager.
LEMMA SteadyDown ==
  ASSUME NEW r \in Transport, power = "off", Sound(r, power)
  PROVE  LET a == [r EXCEPT !.server = power, !.state = StateOf(power)]
             b == [r EXCEPT !.central = power, !.state = StateOf(power)]
             p == [RadioDown(a) EXCEPT !.adding = FALSE]
             q == RadioDown(b)
         IN  /\ Sound(p, power) /\ (Awake(r, power) => Awake(p, power))
             /\ Sound(q, power) /\ (Awake(r, power) => Awake(q, power))
<1> DEFINE a == [r EXCEPT !.server = power, !.state = StateOf(power)]
           b == [r EXCEPT !.central = power, !.state = StateOf(power)]
           p == [RadioDown(a) EXCEPT !.adding = FALSE]
           q == RadioDown(b)
<1>1. /\ p.paused = r.paused /\ p.closed = r.closed /\ p.retired = r.retired
      /\ p.healing = r.healing /\ p.radioWasDown /\ p.radioCycled
      /\ p.server = "off" /\ p.central = r.central /\ p.state = StateOf("off")
      /\ ~p.adding /\ ~p.serviceAdded /\ ~p.advertising /\ ~p.scanning
  BY DEF RadioDown, Transport
<1>2. /\ q.paused = r.paused /\ q.closed = r.closed /\ q.retired = r.retired
      /\ q.healing = r.healing /\ q.radioWasDown /\ q.radioCycled
      /\ q.server = r.server /\ q.central = "off" /\ q.adding = r.adding
      /\ q.state = StateOf("off")
      /\ ~q.serviceAdded /\ ~q.advertising /\ ~q.scanning
  BY DEF RadioDown, Transport
<1> HIDE DEF p, q
<1>3. Sound(p, power) /\ (Awake(r, power) => Awake(p, power))
  BY <1>1 DEF Sound, Awake, Ready
<1>4. Sound(q, power) /\ (Awake(r, power) => Awake(q, power))
  BY <1>2 DEF Sound, Awake, Ready
<1> QED BY <1>3, <1>4 DEF p, q

\* 'serviceAdd'
LEMMA SteadyService ==
  ASSUME NEW r \in Transport, r.adding, Sound(r, power)
  PROVE  LET q == Advertised([r EXCEPT !.adding = FALSE, !.serviceAdded = TRUE])
         IN  /\ Sound(q, power) /\ (Awake(r, power) => Awake(q, power))
             /\ Ready(r, power) => Ready(q, power)
<1> DEFINE s == [r EXCEPT !.adding = FALSE, !.serviceAdded = TRUE]
           q == Advertised(s)
<1>1. /\ s \in Transport /\ s.serviceAdded /\ ~s.adding
      /\ s.paused = r.paused /\ s.closed = r.closed /\ s.retired = r.retired
      /\ s.healing = r.healing /\ s.radioWasDown = r.radioWasDown
      /\ s.radioCycled = r.radioCycled /\ s.central = r.central /\ s.server = r.server
      /\ s.uuid = r.uuid /\ s.advertising = r.advertising /\ s.advert = r.advert
      /\ s.scanning = r.scanning /\ s.scan = r.scan /\ s.state = r.state
  <2>1. r.adding \in BOOLEAN /\ s \in Transport
    BY DEF Transport
  <2>2. s.serviceAdded = TRUE /\ s.adding = FALSE
    BY DEF Transport
  <2>3. /\ s.paused = r.paused /\ s.closed = r.closed /\ s.retired = r.retired
        /\ s.healing = r.healing /\ s.radioWasDown = r.radioWasDown
        /\ s.radioCycled = r.radioCycled /\ s.central = r.central /\ s.server = r.server
        /\ s.uuid = r.uuid /\ s.advertising = r.advertising /\ s.advert = r.advert
        /\ s.scanning = r.scanning /\ s.scan = r.scan /\ s.state = r.state
    BY DEF Transport
  <2> HIDE DEF s
  <2> QED BY <2>1, <2>2, <2>3
<1> HIDE DEF s
<1>2. Sound(s, power)
  BY <1>1 DEF Sound
<1>3. /\ Same(s, q) /\ Sound(q, power) /\ q.scanning = s.scanning /\ q.state = s.state
      /\ q.serviceAdded => q.advertising
  BY <1>1, <1>2, SteadyAdvertised
<1> HIDE DEF q
<1>4. Awake(r, power) => Awake(q, power)
  BY <1>1, <1>3 DEF Awake, Ready, Same
<1>5. Ready(r, power) => Ready(q, power)
  BY <1>1, <1>3 DEF Ready, Same
<1> QED BY <1>3, <1>4, <1>5 DEF s, q

\* 'stateChange' to poweredOn on a central manager that does not heal.
LEMMA SteadyCentralOn ==
  ASSUME NEW r \in Transport, power = "on", Sound(r, power), ~Heals(r)
  PROVE  LET s == [r EXCEPT !.central = power, !.state = StateOf(power)]
             q == IF s.radioWasDown THEN s ELSE Scanning(s)
         IN  Sound(q, power) /\ (Awake(r, power) => Awake(q, power))
<1> DEFINE s == [r EXCEPT !.central = power, !.state = StateOf(power)]
           q == Scanning(s)
<1>1. /\ s \in Transport /\ s.central = "on" /\ s.state = "on" /\ s.server = r.server
      /\ s.paused = r.paused /\ s.closed = r.closed /\ s.retired = r.retired
      /\ s.healing = r.healing /\ s.radioWasDown = r.radioWasDown
      /\ s.radioCycled = r.radioCycled /\ s.adding = r.adding
      /\ s.serviceAdded = r.serviceAdded /\ s.uuid = r.uuid
      /\ s.advertising = r.advertising /\ s.advert = r.advert
      /\ s.scanning = r.scanning /\ s.scan = r.scan
  BY DEF Transport, StateOf
<1>2. s.radioWasDown => ~Awake(r, power)
  <2>1. s.radioWasDown = r.radioWasDown
    BY <1>1
  <2> QED BY <2>1 DEF Heals, Halted, Sound, Awake, Ready
<1> HIDE DEF s
<1>3. Sound(s, power)
  BY <1>1 DEF Sound
<1>4. /\ Same(s, q) /\ Sound(q, power) /\ q.advertising = s.advertising /\ q.state = s.state
      /\ ~Halted(s) => q.scanning
  BY <1>1, <1>3, SteadyScanning
<1> HIDE DEF q
<1>5. Awake(r, power) => Awake(q, power) \/ s.radioWasDown
  BY <1>1, <1>3, <1>4 DEF Awake, Ready, StateOf, Same, Sound, Halted
<1> QED BY <1>2, <1>3, <1>4, <1>5 DEF s, q

LEMMA SteadyByRadio ==
  ASSUME TypeOK, SteadyInv, "cycle" \notin Hazards, NEW t \in DOMAIN tr, RadioStep(t)
  PROVE  SteadyInv'
<1>1. tr[t] \in Transport /\ power \in {"on", "off"} /\ t # 0
  BY DEF TypeOK
<1> DEFINE r == tr[t]
<1>2. ASSUME NEW q, tr' = [tr EXCEPT ![t] = q], UNCHANGED <<facade, current, calls, power>>,
             Sound(r, power) => Sound(q, power) /\ (Awake(r, power) => Awake(q, power)),
             Bouncing => (Sound(r, power) => (Ready(r, power) => Ready(q, power)))
      PROVE  SteadyInv'
  BY <1>2, SteadyByOne
<1>3. CASE ServerChanges(t)
  <2> DEFINE s == [r EXCEPT !.server = power, !.state = StateOf(power)]
             up == ServerStarted(s)
             down == [RadioDown(s) EXCEPT !.adding = FALSE]
  <2>1. /\ tr' = [tr EXCEPT ![t] = IF power = "on" THEN up ELSE down] /\ r.server # power
        /\ UNCHANGED <<facade, current, calls, power>> /\ ~Bouncing
    BY <1>3 DEF ServerChanges, Hears
  <2>2. CASE power = "on"
    <3>1. Sound(r, power) => Sound(up, power) /\ (Awake(r, power) => Awake(up, power))
      BY <1>1, <2>1, <2>2, SteadyServerOn
    <3> HIDE DEF r, up
    <3> QED BY <1>2, <2>1, <2>2, <3>1
  <2>3. CASE power = "off"
    <3>1. Sound(r, power) => Sound(down, power) /\ (Awake(r, power) => Awake(down, power))
      BY <1>1, <2>3, SteadyDown
    <3> HIDE DEF r, down
    <3> QED BY <1>2, <2>1, <2>3, <3>1
  <2> QED BY <1>1, <2>2, <2>3
<1>4. CASE ServiceAdded(t)
  <2> DEFINE q == Advertised([r EXCEPT !.adding = FALSE, !.serviceAdded = TRUE])
  <2>1. tr' = [tr EXCEPT ![t] = q] /\ r.adding /\ UNCHANGED <<facade, current, calls, power>>
    BY <1>4 DEF ServiceAdded
  <2>2. Sound(r, power) => /\ Sound(q, power) /\ (Awake(r, power) => Awake(q, power))
                           /\ Ready(r, power) => Ready(q, power)
    BY <1>1, <2>1, SteadyService
  <2> HIDE DEF r, q
  <2> QED BY <1>2, <2>1, <2>2
<1>5. CASE CentralChanges(t)
  <2> DEFINE s == [r EXCEPT !.central = power, !.state = StateOf(power)]
             up == IF s.radioWasDown THEN s ELSE Scanning(s)
             down == RadioDown(s)
  <2>1. /\ tr' = [tr EXCEPT ![t] = IF power = "off" THEN down ELSE up] /\ ~Heals(r)
        /\ UNCHANGED <<facade, current, calls, power>> /\ ~Bouncing
    BY <1>5 DEF CentralChanges, Hears
  <2>2. CASE power = "on"
    <3>1. Sound(r, power) => Sound(up, power) /\ (Awake(r, power) => Awake(up, power))
      BY <1>1, <2>1, <2>2, SteadyCentralOn
    <3> HIDE DEF r, up
    <3> QED BY <1>2, <2>1, <2>2, <3>1
  <2>3. CASE power = "off"
    <3>1. Sound(r, power) => Sound(down, power) /\ (Awake(r, power) => Awake(down, power))
      BY <1>1, <2>3, SteadyDown
    <3> HIDE DEF r, down
    <3> QED BY <1>2, <2>1, <2>3, <3>1
  <2> QED BY <1>1, <2>2, <2>3
<1>6. CASE CentralHeals(t)
  <2>1. /\ UNCHANGED <<started, suspended, closing, power>>
        /\ Wanted' = Wanted /\ (Wanted => ~closing) /\ ~Bouncing
    BY <1>6 DEF CentralHeals, Hears, facade, Wanted, SteadyInv
  <2>2. CASE current = t /\ ~closing
    <3> DEFINE d == [n |-> 0, op |-> "rebuild", pc |-> "drain", t |-> t]
    <3>1. current' = 0 /\ calls' = calls \cup {d}
      BY <1>6, <2>2 DEF CentralHeals
    <3>2. d \in calls' /\ d.op = "rebuild"
      BY <3>1
    <3>3. \A c \in calls' : c \in calls \/ c = d
      BY <3>1
    <3> QED BY <2>1, <3>1, <3>2, <3>3 DEF SteadyInv, Bouncing
  <2>3. CASE ~(current = t /\ ~closing)
    <3>1. UNCHANGED <<current, calls>>
      BY <1>6, <2>3 DEF CentralHeals
    <3>2. current # 0 /\ ~closing => tr'[current] = tr[current]
      <4>1. current # 0 => current \in DOMAIN tr
        BY CurrentInDomain, TypeParts
      <4> QED BY <1>6, <2>3, <4>1 DEF CentralHeals
    <3> QED BY <2>1, <3>1, <3>2 DEF SteadyInv
  <2> QED BY <2>2, <2>3
<1> QED BY <1>3, <1>4, <1>5, <1>6 DEF RadioStep

LEMMA SteadyByPower ==
  ASSUME TypeOK, SteadyInv, PowerOff \/ PowerOn
  PROVE  SteadyInv'
<1>1. UNCHANGED <<started, suspended, closing, current, calls>> /\ Wanted' = Wanted
  <2>1. UNCHANGED facade /\ UNCHANGED <<current, calls>>
    BY DEF PowerOff, PowerOn
  <2> QED BY ONLY <2>1 DEF facade, Wanted
<1>2. Wanted => ~closing
  BY DEF SteadyInv, Wanted
<1>3. current # 0 => current \in DOMAIN tr /\ tr[current] \in Transport
  BY CurrentInDomain, TypeParts
<1> DEFINE r == tr[current]
           q == tr'[current]
<1>4. CASE PowerOff
  <2>1. power' = "off"
    BY <1>4 DEF PowerOff
  <2>2. ASSUME current # 0
        PROVE  /\ Same(r, q) /\ q.advertising = r.advertising /\ q.scanning = r.scanning
               /\ q.state = r.state
    <3>1. q = [r EXCEPT !.advert = NoTopic, !.scan = NoTopic]
      BY <1>3, <1>4, <2>2 DEF PowerOff
    <3> HIDE DEF q
    <3> QED BY <1>3, <2>2, <3>1 DEF Same, Transport
  <2> HIDE DEF q, r
  <2>3. current # 0 /\ Sound(r, power) => Sound(q, "off")
    BY <2>2 DEF Sound, Same
  <2>4. /\ current # 0 /\ Awake(r, power) => Awake(q, "off")
        /\ Ready(q, "off")
    BY <2>2 DEF Awake, Ready, Same
  <2> QED BY <1>1, <1>2, <2>1, <2>3, <2>4 DEF SteadyInv, Bouncing, q, r
<1>5. CASE PowerOn
  <2>1. tr' = tr /\ power = "off" /\ power' = "on" /\ Informed
    BY <1>5 DEF PowerOn
  <2>2. ASSUME current # 0, Sound(r, power)
        PROVE  Sound(r, "on") /\ Ready(r, "on") /\ (Awake(r, power) => Awake(r, "on"))
    <3>1. r.server = "off" /\ r.central = "off"
      BY <1>3, <2>1, <2>2 DEF Informed, Destroyed, Sound
    <3> HIDE DEF r
    <3> QED BY <2>2, <3>1 DEF Sound, Ready, Awake
  <2> HIDE DEF r
  <2> QED BY <1>1, <1>2, <2>1, <2>2 DEF SteadyInv, Bouncing, r
<1> QED BY <1>4, <1>5

LEMMA SteadyStep ==
  ASSUME TypeOK, SteadyInv, Hazards \cap {"overlap", "slow", "cycle"} = {}, [Next]_vars
  PROVE  SteadyInv'
<1>1. CASE UNCHANGED vars
  BY <1>1, SteadyByNone DEF vars, facade, Wanted, SteadyInv
<1>2. CASE Next
  BY <1>2, SteadyByUser, SteadyByCall, SteadyByRadio, SteadyByPower DEF Next
<1> QED BY <1>1, <1>2

\* At rest a wanted device has a transport whose managers know of the power.
LEMMA SteadyAtRest ==
  ASSUME TypeOK, SteadyInv, AtRest, Wanted
  PROVE  /\ current # 0 /\ tr[current] \in Transport
         /\ Sound(tr[current], power) /\ Awake(tr[current], power)
         /\ tr[current].server = power /\ tr[current].central = power /\ ~tr[current].adding
<1>1. current # 0 /\ ~closing /\ ~Bouncing
  BY DEF SteadyInv, AtRest, Wanted, Bouncing
<1>2. current \in DOMAIN tr /\ tr[current] \in Transport
  BY <1>1, CurrentInDomain, TypeParts
<1>3. Sound(tr[current], power) /\ Awake(tr[current], power)
  BY <1>1 DEF SteadyInv
<1>4. ~Destroyed(tr[current])
  BY <1>3 DEF Sound, Destroyed
<1>5. ~tr[current].adding /\ {tr[current].server, tr[current].central} = {power}
  BY <1>2, <1>4 DEF AtRest, Fledgling, Informed
<1> QED BY <1>1, <1>2, <1>3, <1>5

LEMMA SteadyEnough ==
  TypeOK /\ SteadyInv => RestoredAtRest /\ NoWedgedManagers /\ StateTruthful
<1> SUFFICES ASSUME TypeOK, SteadyInv, AtRest, Wanted
             PROVE  /\ tr[current].state = StateOf(power)
                    /\ power = "on" => /\ current # 0 /\ ~tr[current].paused /\ OnAir(current)
                                       /\ ~tr[current].radioCycled
  BY DEF RestoredAtRest, NoWedgedManagers, StateTruthful, StateOf
<1> DEFINE r == tr[current]
<1>1. /\ current # 0 /\ r \in Transport /\ Sound(r, power) /\ Awake(r, power)
      /\ r.server = power /\ r.central = power /\ ~r.adding
  BY SteadyAtRest
<1> HIDE DEF r
<1>2. power # "unknown"
  BY DEF TypeOK
<1>3. ~r.paused /\ r.state = StateOf(power) /\ (power = "on" => ~r.radioCycled)
  BY <1>1, <1>2 DEF Awake, Ready
<1>4. power = "on" => r.advertising /\ r.scanning
  BY <1>1, <1>3 DEF Sound, Awake
<1>5. power = "on" => r.advert # NoTopic /\ r.scan # NoTopic
  BY <1>1, <1>4 DEF Sound
<1> QED BY <1>1, <1>3, <1>5 DEF r, OnAir

\* All that the theorems below rest on, for calls that do not overlap.
LEMMA Steady ==
  ASSUME Hazards \cap {"overlap", "slow", "cycle"} = {}
  PROVE  Spec => [](TypeOK /\ SteadyInv)
<1>1. Init => SteadyInv
  BY DEF Init, SteadyInv, Wanted
<1>2. TypeOK /\ SteadyInv /\ [Next]_vars => SteadyInv'
  BY SteadyStep
<1> QED
  BY <1>1, <1>2, LifecycleTyped, PTL DEF Spec

\* "resume() restores exactly that": once every call has run to its end, a
\* device that is wanted and has power runs, hosts, advertises and scans,
\* after any sequence of calls, changes of topic and power losses, also during
\* rebuilds.  Calls that overlap are excluded (the end of suspend() undoes a
\* start), and late reports (nothing hosts the service after a poweredOn that
\* came while paused), and power reports during a bounce, see ManagersFresh.
THEOREM IntentRestored ==
  ASSUME Hazards \cap {"overlap", "slow", "cycle"} = {}
  PROVE  Spec => []RestoredAtRest
BY Steady, SteadyEnough, PTL

\* "cycled managers wedge": at rest no transport in use has managers that
\* survived a power loss.  setTopic() resumes such a transport when the power
\* is reported gone and back during its bounce, hence without "cycle".
THEOREM ManagersFresh ==
  ASSUME Hazards \cap {"overlap", "slow", "cycle"} = {}
  PROVE  Spec => []NoWedgedManagers
BY Steady, SteadyEnough, PTL

\* At rest and wanted, bt.state tells the power of the radio: no interleaving of
\* the writers of state (two managers' reports, resume(), the end of suspend())
\* leaves an older value behind.
THEOREM StateTold ==
  ASSUME Hazards \cap {"overlap", "slow", "cycle"} = {}
  PROVE  Spec => []StateTruthful
BY Steady, SteadyEnough, PTL

\* At rest the radio is what the intent asks for, works, and says so, under the
\* conditions of the three theorems above.
THEOREM IntentIsKept ==
  ASSUME Hazards \cap {"overlap", "slow", "cycle"} = {}
  PROVE  Spec => []IntentKept
BY IntentRestored, ManagersFresh, StateTold, PTL DEF IntentKept
=============================================================================

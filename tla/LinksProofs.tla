---------------------------- MODULE LinksProofs ----------------------------
(* Proofs about Links: typing, the table of links, the refusals, what hosts  *)
(* see, retirements and dials, for any number of devices, sessions and       *)
(* faults.                                                                   *)
EXTENDS Links, FiniteSetTheorems, TLAPS

LEMMA IdFacts ==
  ASSUME NEW id \in Ids
  PROVE  /\ id.from \in Devices /\ id.to \in Devices
         /\ id.from # id.to
BY ConfigAssumption DEF Ids

LEMMA EndFacts ==
  ASSUME NEW r \in Ends, NEW id \in Ids
  PROVE  /\ Owner(r, id) \in Devices /\ Remote(r, id) \in Devices
         /\ Owner(r, id) # Remote(r, id)
         /\ Other(r) \in Ends
BY IdFacts DEF Owner, Remote, Other, Ends

\* Two ends with the same owner and remote of one session are the same end.
LEMMA EndUnique ==
  ASSUME NEW r \in Ends, NEW q \in Ends, NEW id \in Ids,
         Owner(r, id) = Owner(q, id)
  PROVE  r = q
BY IdFacts DEF Owner, Ends

\* What the code does to a dial record leaves a dial record.
LEMMA RecordTypes ==
  ASSUME NEW rec \in DialRecord
  PROVE  /\ BackedOff(rec) \in DialRecord
         /\ Bound(rec) \in DialRecord
         /\ [BackedOff(rec) EXCEPT !.known = TRUE] \in DialRecord
         /\ [rec EXCEPT !.known = TRUE] \in DialRecord
         /\ [rec EXCEPT !.linked = FALSE] \in DialRecord
         /\ [rec EXCEPT !.timer = None] \in DialRecord
         /\ [rec EXCEPT !.cool = FALSE] \in DialRecord
         /\ \A id \in Ids : [rec EXCEPT !.timer = id] \in DialRecord
BY DEF DialRecord, BackedOff, Bound

\* What the writing helpers return.
LEMMA HelperTypes ==
  ASSUME TypeOK, NEW id \in Ids
  PROVE  /\ \A r \in Ends, s \in States : Enter(r, id, s) \in [Ends -> [Ids -> States]]
         /\ Sent(id, "CLOSE") \in [Ids -> Seq({"OPEN", "CLOSE"})]
         /\ \A f \in {"HELLO", "CLOSE", "FINAL"} :
              Notified(id, f) \in [Ids -> Seq({"HELLO", "CLOSE", "FINAL"})]
         /\ HungUp(id) \subseteq up
         /\ Record(id) \in DialRecord
         /\ \A rec \in DialRecord : Noted(id, rec) \in [Devices -> [Devices -> DialRecord]]
<1>1. \A r \in Ends, s \in States : Enter(r, id, s) \in [Ends -> [Ids -> States]]
  BY DEF Enter, TypeOK
<1>2. Sent(id, "CLOSE") \in [Ids -> Seq({"OPEN", "CLOSE"})]
  BY DEF Sent, TypeOK
<1>3. \A f \in {"HELLO", "CLOSE", "FINAL"} :
         Notified(id, f) \in [Ids -> Seq({"HELLO", "CLOSE", "FINAL"})]
  BY DEF Notified, TypeOK
<1>4. HungUp(id) \subseteq up
  BY DEF HungUp
<1>5. Record(id) \in DialRecord
  BY IdFacts DEF Record, TypeOK
<1>6. \A rec \in DialRecord : Noted(id, rec) \in [Devices -> [Devices -> DialRecord]]
  BY IdFacts DEF Noted, TypeOK
<1> QED BY <1>1, <1>2, <1>3, <1>4, <1>5, <1>6

\* Reading a frame leaves a wire of frames.
LEMMA WireTypes ==
  ASSUME TypeOK, NEW id \in Ids
  PROVE  /\ \A f : CentralReads(id, f) => back' \in [Ids -> Seq({"HELLO", "CLOSE", "FINAL"})]
         /\ \A f : ServerReads(id, f) => out' \in [Ids -> Seq({"OPEN", "CLOSE"})]
         /\ [out EXCEPT ![id] = Append(@, "OPEN")] \in [Ids -> Seq({"OPEN", "CLOSE"})]
         /\ out[id] # <<>> => [out EXCEPT ![id] = Tail(@)] \in [Ids -> Seq({"OPEN", "CLOSE"})]
         /\ back[id] # <<>> =>
              [back EXCEPT ![id] = Tail(@)] \in [Ids -> Seq({"HELLO", "CLOSE", "FINAL"})]
<1>1. out[id] \in Seq({"OPEN", "CLOSE"}) /\ back[id] \in Seq({"HELLO", "CLOSE", "FINAL"})
  BY DEF TypeOK
<1>2. Append(out[id], "OPEN") \in Seq({"OPEN", "CLOSE"})
  BY <1>1
<1>3. out[id] # <<>> => Tail(out[id]) \in Seq({"OPEN", "CLOSE"})
  BY <1>1
<1>4. back[id] # <<>> => Tail(back[id]) \in Seq({"HELLO", "CLOSE", "FINAL"})
  BY <1>1
<1> QED
  BY <1>2, <1>3, <1>4 DEF TypeOK, CentralReads, ServerReads

LEMMA InitType == Init => TypeOK
BY DEF Init, TypeOK, States, DialRecord

\* Typing of the actions of the central.
LEMMA CentralType ==
  ASSUME TypeOK, NEW id \in Ids, CentralStep(id)
  PROVE  TypeOK'
<1>a. /\ \A s \in States : Enter("c", id, s) \in [Ends -> [Ids -> States]]
      /\ Sent(id, "CLOSE") \in [Ids -> Seq({"OPEN", "CLOSE"})]
      /\ HungUp(id) \subseteq up
      /\ \A rec \in DialRecord : Noted(id, rec) \in [Devices -> [Devices -> DialRecord]]
  BY HelperTypes DEF Ends
<1>b. /\ Noted(id, BackedOff(Record(id))) \in [Devices -> [Devices -> DialRecord]]
      /\ Noted(id, Bound(Record(id))) \in [Devices -> [Devices -> DialRecord]]
      /\ Noted(id, [BackedOff(Record(id)) EXCEPT !.known = TRUE])
           \in [Devices -> [Devices -> DialRecord]]
      /\ Noted(id, [Record(id) EXCEPT !.timer = id]) \in [Devices -> [Devices -> DialRecord]]
  BY HelperTypes, RecordTypes
<1>c. /\ \A f : CentralReads(id, f) => back' \in [Ids -> Seq({"HELLO", "CLOSE", "FINAL"})]
      /\ [out EXCEPT ![id] = Append(@, "OPEN")] \in [Ids -> Seq({"OPEN", "CLOSE"})]
  BY WireTypes
<1> USE <1>a, <1>b, <1>c
<1>1. ASSUME Dial(id), cand' \in [Devices -> SUBSET Devices]
      PROVE  TypeOK'
  <2>1. dev' \in [Devices -> [Devices -> DialRecord]]
    BY <1>1 DEF Dial, TypeOK
  <2>2. lost' \in [Ends -> [Ids -> Ids \cup {None}]]
    BY <1>1 DEF Dial, TypeOK
  <2> QED BY <1>1, <2>1, <2>2 DEF Dial, TypeOK, States, Ends
<1>2. CASE Discover(id)
  BY <1>1, <1>2 DEF Discover, TypeOK
<1>3. CASE Flush(id)
  BY <1>1, <1>3 DEF Flush, TypeOK
<1>4. CASE Connected(id)
  BY <1>4 DEF Connected, TypeOK, States, Ends
<1>5. CASE HelloRefused(id)
  BY <1>5 DEF HelloRefused, EndCentral, TypeOK, States, Ends
<1>6. CASE HelloRedundant(id)
  BY <1>6 DEF HelloRedundant, TypeOK, States, Ends
<1>7. CASE HelloAccepted(id)
  BY <1>7 DEF HelloAccepted, BindCentral, TypeOK, States, Ends
<1>8. CASE CentralClose(id)
  <2>1. PICK frame \in {"CLOSE", "FINAL"} : CentralReads(id, frame)
    BY <1>8 DEF CentralClose
  <2>2. back' \in [Ids -> Seq({"HELLO", "CLOSE", "FINAL"})]
    BY <2>1
  <2>3. /\ st' \in [Ends -> [Ids -> States]]
        /\ due' \in [Ends -> [Ids -> SUBSET {"raw", "conn"}]]
        /\ up' \subseteq Ids
        /\ dev' \in [Devices -> [Devices -> DialRecord]]
    <3>1. CASE Die("c", id) /\ UNCHANGED <<up, dev>>
      BY <3>1 DEF Die, TypeOK, States, Ends
    <3>2. CASE EndCentral(id, FALSE) /\ UNCHANGED due
      BY <3>2 DEF EndCentral, TypeOK, States
    <3>3. CASE EndCentral(id, TRUE) /\ UNCHANGED due
      BY <3>3 DEF EndCentral, TypeOK, States
    <3>4. CASE UNCHANGED <<st, due, up, dev>>
      BY <3>4 DEF TypeOK
    <3>5. \A keep : EndCentral(id, keep) => EndCentral(id, TRUE) \/ EndCentral(id, FALSE)
      BY DEF EndCentral
    <3> QED BY <1>8, <3>1, <3>2, <3>3, <3>4, <3>5 DEF CentralClose
  <2> QED BY <1>8, <2>2, <2>3 DEF CentralClose, TypeOK
<1>9. CASE ChannelOpen(id)
  BY <1>9 DEF ChannelOpen, BindCentral, TypeOK, States, Ends
<1>10. CASE ChannelFail(id)
  BY <1>10 DEF ChannelFail, AbortDial, TypeOK, States, Ends
<1>11. CASE DialTimeout(id)
  BY <1>11 DEF DialTimeout, AbortDial, TypeOK, States, Ends
<1>12. CASE PeripheralError(id)
  BY <1>12 DEF PeripheralError, AbortDial, TypeOK, States, Ends
<1>13. CASE CentralStreamCloses(id)
  BY <1>13 DEF CentralStreamCloses, Closes, TypeOK, States, Ends
<1> QED
  BY <1>2, <1>3, <1>4, <1>5, <1>6, <1>7, <1>8, <1>9, <1>10, <1>11, <1>12, <1>13
     DEF CentralStep

\* Typing of the actions of the server.
LEMMA ServerType ==
  ASSUME TypeOK, NEW id \in Ids, ServerStep(id)
  PROVE  TypeOK'
<1>a. /\ \A s \in States : Enter("s", id, s) \in [Ends -> [Ids -> States]]
      /\ \A f \in {"HELLO", "CLOSE", "FINAL"} :
           Notified(id, f) \in [Ids -> Seq({"HELLO", "CLOSE", "FINAL"})]
  BY HelperTypes DEF Ends
<1>b. \A f : ServerReads(id, f) => out' \in [Ids -> Seq({"OPEN", "CLOSE"})]
  BY WireTypes
<1> USE <1>a, <1>b
<1>1. CASE ServerRefuses(id)
  BY <1>1 DEF ServerRefuses, TypeOK
<1>2. CASE ServerAccepts(id)
  BY <1>2 DEF ServerAccepts, TypeOK, States
<1>3. CASE ServerClose(id)
  <2>1. /\ st' \in [Ends -> [Ids -> States]]
        /\ due' \in [Ends -> [Ids -> SUBSET {"raw", "conn"}]]
    <3>1. CASE Die("s", id)
      BY <3>1 DEF Die, TypeOK, States, Ends
    <3>2. CASE /\ st' = IF st["s"][id] = "pending" THEN Enter("s", id, "none") ELSE st
               /\ UNCHANGED due
      BY <3>2 DEF TypeOK, States
    <3> QED BY <1>3, <3>1, <3>2 DEF ServerClose
  <2> QED BY <1>3, <2>1 DEF ServerClose, TypeOK
<1>4. CASE ServerChannel(id)
  BY <1>4 DEF ServerChannel, TypeOK, States
<1>5. CASE PipeTimeout(id)
  BY <1>5 DEF PipeTimeout, TypeOK, States
<1>6. CASE ServerStreamCloses(id)
  BY <1>6 DEF ServerStreamCloses, Closes, TypeOK, States, Ends
<1> QED
  BY <1>1, <1>2, <1>3, <1>4, <1>5, <1>6 DEF ServerStep

\* Typing of the actions of a connection.
LEMMA ConnType ==
  ASSUME TypeOK, NEW r \in Ends, NEW id \in Ids, ConnStep(r, id)
  PROVE  TypeOK'
<1>a. /\ \A s \in States : Enter(r, id, s) \in [Ends -> [Ids -> States]]
      /\ Noted(id, [Record(id) EXCEPT !.known = TRUE]) \in [Devices -> [Devices -> DialRecord]]
      /\ Noted(id, [Record(id) EXCEPT !.linked = FALSE]) \in [Devices -> [Devices -> DialRecord]]
  BY HelperTypes, RecordTypes
<1>b. Owner(r, id) \in Devices /\ Remote(r, id) \in Devices
  BY EndFacts
<1> USE <1>a, <1>b
<1>1. CASE TrackYields(r, id)
  <2>1. peers[Owner(r, id)][Remote(r, id)] \in Ids \cup {None}
    BY DEF TypeOK
  <2> QED BY <1>1, <2>1 DEF TrackYields, HandshakeDone, Die, TypeOK, States
<1>2. CASE TrackKeeps(r, id)
  <2> DEFINE old == peers[Owner(r, id)][Remote(r, id)]
             q == IF old # None /\ old.from = Owner(r, id) THEN "c" ELSE "s"
             retired == old # None /\ st[q][old] # "closing"
  <2>1. old \in Ids \cup {None} /\ q \in Ends
    BY DEF TypeOK, Ends
  <2>2. /\ peers' = [peers EXCEPT ![Owner(r, id)][Remote(r, id)] = id]
        /\ st' = IF retired THEN [Enter(r, id, "open") EXCEPT ![q][old] = "closing"]
                 ELSE Enter(r, id, "open")
        /\ due' = IF retired THEN [due EXCEPT ![q][old] = {"raw", "conn"}] ELSE due
        /\ lost' = IF retired THEN [lost EXCEPT ![q][old] = id] ELSE lost
    BY <1>2 DEF TrackKeeps
  <2> HIDE DEF old, q
  <2>3. st' \in [Ends -> [Ids -> States]]
    BY <2>1, <2>2 DEF States
  <2>4. due' \in [Ends -> [Ids -> SUBSET {"raw", "conn"}]]
    BY <2>1, <2>2 DEF TypeOK
  <2>5. lost' \in [Ends -> [Ids -> Ids \cup {None}]]
    BY <2>1, <2>2 DEF TypeOK
  <2>6. peers' \in [Devices -> [Devices -> Ids \cup {None}]]
    BY <2>2 DEF TypeOK
  <2> QED
    BY <1>2, <2>3, <2>4, <2>5, <2>6 DEF TrackKeeps, HandshakeDone, TypeOK
<1>3. CASE Notice(r, id)
  BY <1>3 DEF Notice, Die, TypeOK, States
<1>4. CASE ConnCloses(r, id)
  <2>1. st' \in [Ends -> [Ids -> States]] /\ due' \in [Ends -> [Ids -> SUBSET {"raw", "conn"}]]
    BY <1>4 DEF ConnCloses, Closes, TypeOK, States
  <2>2. dev' \in [Devices -> [Devices -> DialRecord]]
    BY <1>4 DEF ConnCloses, TypeOK
  <2>3. peers' \in [Devices -> [Devices -> Ids \cup {None}]]
    BY <1>4 DEF ConnCloses, Untracked, TypeOK
  <2> QED BY <1>4, <2>1, <2>2, <2>3 DEF ConnCloses, TypeOK
<1> QED
  BY <1>1, <1>2, <1>3, <1>4 DEF ConnStep

\* Typing of the timers, the rate limit and the radio.
LEMMA DeviceType ==
  ASSUME TypeOK, NEW d \in Devices, DeviceStep(d)
  PROVE  TypeOK'
<1>1. ASSUME NEW e \in Devices, Hold(d, e)
      PROVE  TypeOK'
  BY <1>1 DEF Hold, TypeOK
<1>2. ASSUME NEW e \in Devices, CoolExpires(d, e)
      PROVE  TypeOK'
  <2>1. dev[d][e] \in DialRecord
    BY DEF TypeOK
  <2>2. [dev[d][e] EXCEPT !.cool = FALSE] \in DialRecord
    BY <2>1, RecordTypes
  <2>3. dev' \in [Devices -> [Devices -> DialRecord]]
    BY <1>2, <2>2 DEF CoolExpires, TypeOK
  <2> QED BY <1>2, <2>3 DEF CoolExpires, TypeOK
<1>3. CASE FlushNone(d)
  BY <1>3 DEF FlushNone, TypeOK
<1>4. CASE CentralError(d)
  <2>1. \A e \in Devices : [dev[d][e] EXCEPT !.timer = None] \in DialRecord
    <3>1. \A e \in Devices : dev[d][e] \in DialRecord
      BY DEF TypeOK
    <3> QED BY <3>1, RecordTypes
  <2>2. dev' \in [Devices -> [Devices -> DialRecord]]
    BY <1>4, <2>1 DEF CentralError, TypeOK
  <2>3. st' \in [Ends -> [Ids -> States]] /\ up' \subseteq Ids
    <3>1. CASE UNCHANGED <<st, up>>
      BY <3>1 DEF TypeOK
    <3>2. ASSUME NEW id \in Ids, up' = up \ {id},
                 st' = IF st["c"][id] = "dialing" THEN Enter("c", id, "none") ELSE st
          PROVE  st' \in [Ends -> [Ids -> States]] /\ up' \subseteq Ids
      BY <3>2, HelperTypes DEF TypeOK, Ends, States
    <3> QED BY <1>4, <3>1, <3>2 DEF CentralError, FailedAttempts
  <2> QED BY <1>4, <2>2, <2>3 DEF CentralError, TypeOK
<1> QED BY <1>1, <1>2, <1>3, <1>4 DEF DeviceStep

LEMMA RadioType ==
  ASSUME TypeOK, NEW id \in Ids, RadioStep(id)
  PROVE  TypeOK'
<1>1. CASE NoiseAnswer(id)
  BY <1>1 DEF NoiseAnswer, TypeOK
<1>2. CASE LinkLoss(id)
  BY <1>2, HelperTypes DEF LinkLoss, TypeOK
<1>3. CASE LostInFlight(id)
  <2>1. /\ out' \in [Ids -> Seq({"OPEN", "CLOSE"})]
        /\ back' \in [Ids -> Seq({"HELLO", "CLOSE", "FINAL"})]
    <3>1. CASE out[id] # <<>> /\ out' = [out EXCEPT ![id] = Tail(@)] /\ UNCHANGED back
      <4>1. out' \in [Ids -> Seq({"OPEN", "CLOSE"})]
        BY <3>1, WireTypes
      <4> QED BY <3>1, <4>1 DEF TypeOK
    <3>2. CASE back[id] # <<>> /\ back' = [back EXCEPT ![id] = Tail(@)] /\ UNCHANGED out
      <4>1. back' \in [Ids -> Seq({"HELLO", "CLOSE", "FINAL"})]
        BY <3>2, WireTypes
      <4> QED BY <3>2, <4>1 DEF TypeOK
    <3>3. CASE UNCHANGED <<out, back>>
      BY <3>3 DEF TypeOK
    <3> QED BY <1>3, <3>1, <3>2, <3>3 DEF LostInFlight
  <2> QED BY <1>3, <2>1 DEF LostInFlight, TypeOK
<1> QED BY <1>1, <1>2, <1>3 DEF RadioStep

LEMMA TypeStep == TypeOK /\ [Next]_vars => TypeOK'
<1> SUFFICES ASSUME TypeOK, [Next]_vars PROVE TypeOK'
  OBVIOUS
<1>1. CASE UNCHANGED vars
  BY <1>1 DEF vars, TypeOK
<1>2. CASE Next
  BY <1>2, CentralType, ServerType, ConnType, DeviceType, RadioType DEF Next
<1> QED BY <1>1, <1>2

\* Every variable of Links stays in its type: no handler, in any order of
\* events, stores what another does not expect.
THEOREM TypeCorrect == Spec => []TypeOK
BY InitType, TypeStep, PTL DEF Spec

-----------------------------------------------------------------------------
(* LinkInv: how one step moves one end of one session, then one lemma per     *)
(* conjunct of the invariant.                                                 *)

\* The moves of end q of session x: a change of state short of the end of a
\* stream, the death of a live end, one of its close events.
Progress(q, x) ==
  \/ q = "c" /\ st[q][x] \in {"none", "opening"} /\ st'[q][x] = "dialing" /\ Forgotten(x)
  \/ q = "c" /\ st[q][x] = "dialing" /\ st'[q][x] \in {"opening", "none"}
  \/ /\ q = "c" /\ st[q][x] = "opening" /\ st'[q][x] \in {"upgrading", "raw"}
     /\ ~Unwanted(x) /\ peers[x.from][x.to] = None
  \/ q = "c" /\ st[q][x] = "upgrading" /\ st'[q][x] \in {"raw", "opening", "none"}
  \/ q = "c" /\ st[q][x] = "opening" /\ st'[q][x] = "none"
  \/ /\ q = "s" /\ st[q][x] = "none" /\ st'[q][x] \in {"pending", "raw"}
     /\ ServerReads(x, "OPEN") /\ ~RefuseFinal(x)
  \/ q = "s" /\ st[q][x] = "pending" /\ st'[q][x] \in {"raw", "none"}
  \/ st[q][x] = "raw" /\ st'[q][x] = "open" /\ TrackKeeps(q, x)

Dies(q, x) ==
  /\ st[q][x] \in Live
  /\ st'[q][x] = "closing" /\ due'[q][x] = {"raw", "conn"}

EndMove(q, x) ==
  \/ due'[q][x] = due[q][x] /\ (st'[q][x] = st[q][x] \/ Progress(q, x))
  \/ Dies(q, x)
  \/ \E event \in due[q][x] :
       /\ event = "conn" => ConnCloses(q, x)
       /\ due'[q][x] = due[q][x] \ {event}
       /\ st'[q][x] = IF due[q][x] = {event} THEN "none" ELSE st[q][x]

LEMMA EnterAt ==
  ASSUME TypeOK, NEW r \in Ends, NEW id \in Ids, NEW s \in States
  PROVE  /\ Enter(r, id, s)[r][id] = s
         /\ \A q \in Ends, x \in Ids : q # r \/ x # id => Enter(r, id, s)[q][x] = st[q][x]
BY DEF Enter, TypeOK

\* A step that enters one state at one end and leaves every due event alone.
LEMMA MoveByEnter ==
  ASSUME TypeOK, NEW r \in Ends, NEW id \in Ids, NEW s \in States,
         st' = Enter(r, id, s), due' = due, st'[r][id] = s => Progress(r, id)
  PROVE  \A q \in Ends, x \in Ids : EndMove(q, x)
<1> SUFFICES ASSUME NEW q \in Ends, NEW x \in Ids PROVE EndMove(q, x)
  OBVIOUS
<1>1. CASE q = r /\ x = id
  BY <1>1, EnterAt DEF EndMove
<1>2. CASE q # r \/ x # id
  BY <1>2, EnterAt DEF EndMove
<1> QED BY <1>1, <1>2

LEMMA MoveByStill ==
  ASSUME st' = st, due' = due
  PROVE  \A q \in Ends, x \in Ids : EndMove(q, x)
BY DEF EndMove

LEMMA MoveByDie ==
  ASSUME TypeOK, NEW r \in Ends, NEW id \in Ids, Die(r, id), st[r][id] \in Live
  PROVE  \A q \in Ends, x \in Ids : EndMove(q, x)
<1> SUFFICES ASSUME NEW q \in Ends, NEW x \in Ids PROVE EndMove(q, x)
  OBVIOUS
<1>1. CASE q = r /\ x = id
  BY <1>1, EnterAt DEF EndMove, Dies, Die, States, TypeOK
<1>2. CASE q # r \/ x # id
  BY <1>2, EnterAt DEF EndMove, Die, States, TypeOK
<1> QED BY <1>1, <1>2

LEMMA MoveByCloses ==
  ASSUME TypeOK, NEW r \in Ends, NEW id \in Ids, NEW event, Closes(r, id, event),
         event = "conn" => ConnCloses(r, id)
  PROVE  \A q \in Ends, x \in Ids : EndMove(q, x)
<1> SUFFICES ASSUME NEW q \in Ends, NEW x \in Ids PROVE EndMove(q, x)
  OBVIOUS
<1>1. "none" \in States
  BY DEF States
<1>2. CASE q = r /\ x = id
  <2>1. due'[q][x] = due[q][x] \ {event}
    BY <1>2 DEF Closes, TypeOK
  <2>2. st'[q][x] = IF due[q][x] = {event} THEN "none" ELSE st[q][x]
    BY <1>1, <1>2, EnterAt DEF Closes
  <2> QED BY <1>2, <2>1, <2>2 DEF EndMove, Closes
<1>3. CASE q # r \/ x # id
  BY <1>1, <1>3, EnterAt DEF EndMove, Closes, TypeOK
<1> QED BY <1>2, <1>3

LEMMA CentralMoves ==
  ASSUME LinkInv, NEW id \in Ids, CentralStep(id)
  PROVE  \A q \in Ends, x \in Ids : EndMove(q, x)
<1>a. TypeOK /\ "c" \in Ends
  BY DEF LinkInv, Ends
<1>b. \A s \in {"dialing", "opening", "none", "upgrading", "raw"} : s \in States
  BY DEF States
<1>c. \A s \in {"dialing", "opening", "none", "upgrading", "raw"} :
        /\ st' = Enter("c", id, s)
        /\ due' = due
        /\ st'["c"][id] = s => Progress("c", id)
        => \A q \in Ends, x \in Ids : EndMove(q, x)
  BY <1>a, <1>b, MoveByEnter
<1> USE <1>c, MoveByStill
<1>1. CASE Discover(id) \/ Flush(id)
  BY <1>1 DEF Discover, Flush, Dial, Forgotten, Progress
<1>2. CASE Connected(id)
  BY <1>2 DEF Connected, Progress
<1>3. CASE HelloRefused(id) \/ HelloRedundant(id)
  BY <1>3 DEF HelloRefused, HelloRedundant, EndCentral, Progress
<1>4. CASE HelloAccepted(id)
  BY <1>4 DEF HelloAccepted, BindCentral, Progress
<1>5. CASE CentralClose(id)
  <2>1. CASE st["c"][id] \in Live /\ Die("c", id)
    BY <1>a, <2>1, MoveByDie
  <2>2. CASE st["c"][id] \in {"opening", "upgrading"} /\ st' = Enter("c", id, "none") /\ due' = due
    BY <2>2 DEF Progress
  <2>3. CASE st' = st /\ due' = due
    BY <2>3
  <2> QED BY <1>5, <2>1, <2>2, <2>3 DEF CentralClose, EndCentral
<1>6. CASE ChannelOpen(id)
  BY <1>6 DEF ChannelOpen, BindCentral, Progress
<1>7. CASE ChannelFail(id)
  BY <1>7 DEF ChannelFail, Progress
<1>8. CASE DialTimeout(id) \/ PeripheralError(id)
  BY <1>8 DEF DialTimeout, PeripheralError, Progress
<1>9. CASE CentralStreamCloses(id)
  BY <1>a, <1>9, MoveByCloses DEF CentralStreamCloses
<1> QED
  BY <1>1, <1>2, <1>3, <1>4, <1>5, <1>6, <1>7, <1>8, <1>9 DEF CentralStep

LEMMA ServerMoves ==
  ASSUME LinkInv, NEW id \in Ids, ServerStep(id)
  PROVE  \A q \in Ends, x \in Ids : EndMove(q, x)
<1>a. TypeOK /\ "s" \in Ends
  BY DEF LinkInv, Ends
<1>b. \A s \in {"pending", "none", "raw"} : s \in States
  BY DEF States
<1>c. \A s \in {"pending", "none", "raw"} :
        /\ st' = Enter("s", id, s)
        /\ due' = due
        /\ st'["s"][id] = s => Progress("s", id)
        => \A q \in Ends, x \in Ids : EndMove(q, x)
  BY <1>a, <1>b, MoveByEnter
<1> USE <1>c, MoveByStill
<1>1. CASE ServerRefuses(id)
  BY <1>1 DEF ServerRefuses
<1>2. CASE ServerAccepts(id)
  <2>1. st["s"][id] = "none"
    <3>1. out[id] \in Seq({"OPEN", "CLOSE"}) /\ out[id] # <<>> /\ Head(out[id]) = "OPEN"
      BY <1>a, <1>2 DEF ServerAccepts, ServerReads, TypeOK
    <3>2. 1 \in DOMAIN out[id] /\ out[id][1] = "OPEN"
      BY <3>1
    <3> QED BY <3>2 DEF LinkInv, OpenComesFirst
  <2> QED BY <1>2, <2>1 DEF ServerAccepts, Progress
<1>3. CASE ServerClose(id)
  <2>1. CASE st["s"][id] \in Live /\ Die("s", id)
    BY <1>a, <2>1, MoveByDie
  <2>2. CASE st["s"][id] = "pending" /\ st' = Enter("s", id, "none") /\ due' = due
    BY <2>2 DEF Progress
  <2>3. CASE st' = st /\ due' = due
    BY <2>3
  <2> QED BY <1>3, <2>1, <2>2, <2>3 DEF ServerClose
<1>4. CASE ServerChannel(id)
  BY <1>4 DEF ServerChannel, Progress
<1>5. CASE PipeTimeout(id)
  BY <1>5 DEF PipeTimeout, Progress
<1>6. CASE ServerStreamCloses(id)
  BY <1>a, <1>6, MoveByCloses DEF ServerStreamCloses
<1> QED
  BY <1>1, <1>2, <1>3, <1>4, <1>5, <1>6 DEF ServerStep

\* The session a device tracks for a peer, and the end at which it does.
LEMMA TrackedEnd ==
  ASSUME LinkInv, NEW d \in Devices, NEW e \in Devices, peers[d][e] # None,
         NEW q \in Ends, q = IF peers[d][e].from = d THEN "c" ELSE "s"
  PROVE  /\ peers[d][e] \in Ids
         /\ d = Owner(q, peers[d][e]) /\ e = Remote(q, peers[d][e])
         /\ \/ st[q][peers[d][e]] = "open"
            \/ st[q][peers[d][e]] = "closing" /\ "conn" \in due[q][peers[d][e]]
<1> DEFINE id == peers[d][e]
<1>1. id \in Ids
  BY DEF LinkInv, TypeOK
<1>2. PICK r \in Ends : /\ d = Owner(r, id) /\ e = Remote(r, id)
                        /\ \/ st[r][id] = "open"
                           \/ st[r][id] = "closing" /\ "conn" \in due[r][id]
  BY DEF LinkInv, LinkTable
<1>3. r = q
  BY <1>1, <1>2, IdFacts DEF Owner, Ends
<1> QED BY <1>1, <1>2, <1>3

\* The end at which the owner of end r of id holds its tracked channel.
TrackedAt(r, id) ==
  IF /\ peers[Owner(r, id)][Remote(r, id)] # None
     /\ peers[Owner(r, id)][Remote(r, id)].from = Owner(r, id) THEN "c" ELSE "s"

\* _track opens one end and retires at most one other.
LEMMA KeepsFacts ==
  ASSUME LinkInv, NEW r \in Ends, NEW id \in Ids, TrackKeeps(r, id),
         NEW old, old = peers[Owner(r, id)][Remote(r, id)],
         NEW q, q = TrackedAt(r, id)
  PROVE  /\ st[r][id] = "raw" /\ st'[r][id] = "open" /\ due'[r][id] = due[r][id]
         /\ \A p \in Ends, x \in Ids : (p # r \/ x # id) /\ (p # q \/ x # old) =>
              st'[p][x] = st[p][x] /\ due'[p][x] = due[p][x]
         /\ old # None =>
              /\ q \in Ends /\ old \in Ids
              /\ Owner(q, old) = Owner(r, id) /\ Remote(q, old) = Remote(r, id)
              /\ \/ Dies(q, old)
                 \/ /\ st[q][old] = "closing" /\ st'[q][old] = "closing"
                    /\ due'[q][old] = due[q][old]
<1> DEFINE retired == old # None /\ st[q][old] # "closing"
<1>a. TypeOK
  BY DEF LinkInv
<1>b. "open" \in States /\ Enter(r, id, "open") \in [Ends -> [Ids -> States]]
  BY <1>a, HelperTypes DEF States
<1>1. q \in Ends
  BY DEF TrackedAt, Ends
<1>2. /\ st' = IF retired THEN [Enter(r, id, "open") EXCEPT ![q][old] = "closing"]
               ELSE Enter(r, id, "open")
      /\ due' = IF retired THEN [due EXCEPT ![q][old] = {"raw", "conn"}] ELSE due
      /\ st[r][id] = "raw"
  BY DEF TrackKeeps, HandshakeDone, TrackedAt
<1>3. old # None => /\ old \in Ids
                    /\ Owner(q, old) = Owner(r, id) /\ Remote(q, old) = Remote(r, id)
                    /\ st[q][old] \in {"open", "closing"}
  BY <1>1, EndFacts, TrackedEnd DEF TrackedAt
<1>4. CASE ~retired
  <2>1. st' = Enter(r, id, "open") /\ due' = due
    BY <1>2, <1>4
  <2>2. old # None => st[q][old] = "closing" /\ (q # r \/ old # id)
    BY <1>2, <1>4
  <2> QED BY <1>a, <1>b, <1>1, <1>2, <1>3, <2>1, <2>2, EnterAt
<1>5. CASE retired
  <2>1. q # r \/ old # id
    BY <1>2, <1>3, <1>5
  <2>2. /\ st' = [Enter(r, id, "open") EXCEPT ![q][old] = "closing"]
        /\ due' = [due EXCEPT ![q][old] = {"raw", "conn"}]
        /\ old \in Ids /\ st[q][old] = "open"
    BY <1>2, <1>3, <1>5
  <2>3. Dies(q, old)
    BY <1>a, <1>b, <1>1, <2>2 DEF Dies, Live, TypeOK
  <2>4. st'[r][id] = "open" /\ due'[r][id] = due[r][id]
    BY <1>a, <1>b, <1>1, <2>1, <2>2, EnterAt DEF TypeOK
  <2>5. \A p \in Ends, x \in Ids : (p # r \/ x # id) /\ (p # q \/ x # old) =>
          st'[p][x] = st[p][x] /\ due'[p][x] = due[p][x]
    <3> SUFFICES ASSUME NEW p \in Ends, NEW x \in Ids, p # r \/ x # id, p # q \/ x # old
                 PROVE  st'[p][x] = st[p][x] /\ due'[p][x] = due[p][x]
      OBVIOUS
    <3>1. st'[p][x] = Enter(r, id, "open")[p][x]
      BY <1>b, <1>1, <2>2
    <3>2. Enter(r, id, "open")[p][x] = st[p][x]
      BY <1>a, <1>b, EnterAt
    <3>3. due'[p][x] = due[p][x]
      BY <1>a, <1>1, <2>2 DEF TypeOK
    <3> QED BY <3>1, <3>2, <3>3
  <2> QED BY <1>1, <1>2, <1>3, <2>3, <2>4, <2>5
<1> QED BY <1>4, <1>5

LEMMA ConnMoves ==
  ASSUME LinkInv, NEW r \in Ends, NEW id \in Ids, ConnStep(r, id)
  PROVE  \A q \in Ends, x \in Ids : EndMove(q, x)
<1>a. TypeOK
  BY DEF LinkInv
<1>1. CASE TrackYields(r, id)
  BY <1>a, <1>1, MoveByDie DEF TrackYields, HandshakeDone, Live
<1>2. CASE TrackKeeps(r, id)
  <2> SUFFICES ASSUME NEW p \in Ends, NEW x \in Ids PROVE EndMove(p, x)
    OBVIOUS
  <2> DEFINE old == peers[Owner(r, id)][Remote(r, id)]
             q == TrackedAt(r, id)
  <2>1. CASE p = r /\ x = id
    BY <1>2, <2>1, KeepsFacts DEF EndMove, Progress
  <2>2. CASE p = q /\ x = old /\ (p # r \/ x # id)
    <3>1. old # None
      BY <2>2, NoneAssumption
    <3> QED BY <1>2, <2>2, <3>1, KeepsFacts DEF EndMove
  <2>3. CASE (p # r \/ x # id) /\ (p # q \/ x # old)
    BY <1>2, <2>3, KeepsFacts DEF EndMove
  <2> QED BY <2>1, <2>2, <2>3
<1>3. CASE Notice(r, id)
  BY <1>a, <1>3, MoveByDie DEF Notice
<1>4. CASE ConnCloses(r, id)
  BY <1>a, <1>4, MoveByCloses DEF ConnCloses
<1> QED BY <1>1, <1>2, <1>3, <1>4 DEF ConnStep

LEMMA DeviceMoves ==
  ASSUME LinkInv, NEW d \in Devices, DeviceStep(d)
  PROVE  \A q \in Ends, x \in Ids : EndMove(q, x)
<1>1. CASE st' = st /\ due' = due
  BY <1>1, MoveByStill
<1>2. CASE CentralError(d)
  <2>1. CASE st' = st
    BY <1>2, <2>1, MoveByStill DEF CentralError
  <2>2. ASSUME NEW id \in Ids, st["c"][id] = "dialing", st' = Enter("c", id, "none")
        PROVE  \A q \in Ends, x \in Ids : EndMove(q, x)
    BY <1>2, <2>2, MoveByEnter DEF CentralError, LinkInv, Ends, States, Progress
  <2> QED BY <1>2, <2>1, <2>2 DEF CentralError, FailedAttempts
<1> QED BY <1>1, <1>2 DEF DeviceStep, Hold, CoolExpires, FlushNone

LEMMA EndMoves ==
  ASSUME LinkInv, [Next]_vars
  PROVE  \A q \in Ends, x \in Ids : EndMove(q, x)
<1>1. CASE st' = st /\ due' = due
  BY <1>1, MoveByStill
<1>2. ASSUME NEW id \in Ids, RadioStep(id) PROVE st' = st /\ due' = due
  BY <1>2 DEF RadioStep, NoiseAnswer, LinkLoss, LostInFlight
<1> QED
  BY <1>1, <1>2, CentralMoves, ServerMoves, ConnMoves, DeviceMoves DEF Next, vars

LEMMA DueStep ==
  ASSUME LinkInv, [Next]_vars
  PROVE  DueIffClosing'
<1> SUFFICES ASSUME NEW q \in Ends, NEW x \in Ids
             PROVE  due'[q][x] # {} <=> st'[q][x] = "closing"
  BY DEF DueIffClosing
<1>1. EndMove(q, x)
  BY EndMoves
<1>2. due[q][x] # {} <=> st[q][x] = "closing"
  BY DEF LinkInv, DueIffClosing
<1>3. CASE due'[q][x] = due[q][x] /\ (st'[q][x] = st[q][x] \/ Progress(q, x))
  BY <1>2, <1>3 DEF Progress
<1>4. CASE Dies(q, x)
  BY <1>4 DEF Dies
<1>5. ASSUME NEW event \in due[q][x],
             due'[q][x] = due[q][x] \ {event},
             st'[q][x] = IF due[q][x] = {event} THEN "none" ELSE st[q][x]
      PROVE  due'[q][x] # {} <=> st'[q][x] = "closing"
  BY <1>2, <1>5
<1> QED BY <1>1, <1>3, <1>4, <1>5 DEF EndMove

LEMMA CheckedStep ==
  ASSUME LinkInv, [Next]_vars
  PROVE  EachEndChecked'
<1> SUFFICES ASSUME NEW x \in Ids
             PROVE  /\ st'["s"][x] \in {"pending", "raw", "open"} => ~RefuseFinal(x)
                    /\ st'["c"][x] \in {"upgrading", "raw", "open"} =>
                         x.to \in Accepts[x.from] /\ PipesAgree(x.from, x.to)
  BY DEF EachEndChecked, RefuseFinal, PipesAgree
<1>1. EndMove("s", x) /\ EndMove("c", x)
  BY EndMoves DEF Ends
<1>2. /\ st["s"][x] \in {"pending", "raw", "open"} => ~RefuseFinal(x)
      /\ st["c"][x] \in {"upgrading", "raw", "open"} =>
           x.to \in Accepts[x.from] /\ PipesAgree(x.from, x.to)
      /\ \A q \in Ends : due[q][x] # {} => st[q][x] = "closing"
  BY DEF LinkInv, EachEndChecked, DueIffClosing
<1>3. st'["s"][x] \in {"pending", "raw", "open"} => ~RefuseFinal(x)
  BY <1>1, <1>2 DEF EndMove, Progress, Dies, Ends
<1>4. st'["c"][x] \in {"upgrading", "raw", "open"} =>
        x.to \in Accepts[x.from] /\ PipesAgree(x.from, x.to)
  BY <1>1, <1>2 DEF EndMove, Progress, Dies, Ends, Unwanted
<1> QED BY <1>3, <1>4

\* The handshake of a session starts only where both ends are bound.
LEMMA NoiseMoves ==
  ASSUME LinkInv, [Next]_vars, NEW x \in Ids, noise'[x] # "no"
  PROVE  \/ noise[x] # "no"
         \/ st["c"][x] = "raw" /\ st["s"][x] = "raw"
<1>1. noise \in [Ids -> {"no", "answered", "final"}]
  BY DEF LinkInv, TypeOK
<1>2. CASE noise' = noise
  BY <1>2
<1>3. ASSUME NEW id \in Ids, CentralStep(id)
      PROVE  noise' = noise \/ noise' = [noise EXCEPT ![id] = "no"]
  BY <1>3 DEF CentralStep, Discover, Flush, Dial, Connected, HelloRefused,
              HelloRedundant, HelloAccepted, CentralClose, ChannelOpen, ChannelFail,
              DialTimeout, PeripheralError, CentralStreamCloses
<1>4. ASSUME NEW id \in Ids, ServerStep(id)
      PROVE  noise' = noise
  BY <1>4 DEF ServerStep, ServerRefuses, ServerAccepts, ServerClose, ServerChannel,
              PipeTimeout, ServerStreamCloses
<1>5. ASSUME NEW r \in Ends, NEW id \in Ids, ConnStep(r, id)
      PROVE  \/ noise' = noise
             \/ noise[id] \in {"answered", "final"} /\ noise' = [noise EXCEPT ![id] = "final"]
  BY <1>5 DEF ConnStep, TrackYields, TrackKeeps, HandshakeDone, Notice, ConnCloses
<1>6. ASSUME NEW d \in Devices, DeviceStep(d)
      PROVE  noise' = noise
  BY <1>6 DEF DeviceStep, Hold, CoolExpires, FlushNone, CentralError
<1>7. ASSUME NEW id \in Ids, RadioStep(id)
      PROVE  \/ noise' = noise
             \/ /\ st["c"][id] = "raw" /\ st["s"][id] = "raw"
                /\ noise' = [noise EXCEPT ![id] = "answered"]
  BY <1>7 DEF RadioStep, NoiseAnswer, LinkLoss, LostInFlight
<1>8. \E id \in Ids : \/ noise' = noise
                      \/ noise' = [noise EXCEPT ![id] = "no"]
                      \/ noise[id] # "no" /\ noise' = [noise EXCEPT ![id] = "final"]
                      \/ /\ st["c"][id] = "raw" /\ st["s"][id] = "raw"
                         /\ noise' = [noise EXCEPT ![id] = "answered"]
  BY <1>3, <1>4, <1>5, <1>6, <1>7 DEF Next, vars
<1> QED BY <1>1, <1>8

LEMMA RefusedStep ==
  ASSUME LinkInv, [Next]_vars
  PROVE  RefusedBeforeNoise'
<1> SUFFICES ASSUME NEW x \in Ids, noise'[x] # "no"
             PROVE  MayLink(x.from, x.to)
  BY DEF RefusedBeforeNoise, MayLink, PipesAgree
<1>1. CASE noise[x] # "no"
  BY <1>1 DEF LinkInv, RefusedBeforeNoise
<1>2. CASE st["c"][x] = "raw" /\ st["s"][x] = "raw"
  BY <1>2 DEF LinkInv, EachEndChecked, RefuseFinal, MayLink, PipesAgree
<1> QED BY <1>1, <1>2, NoiseMoves

\* What a step does to the frames a central has under way.
LEMMA OutMoves ==
  ASSUME LinkInv, [Next]_vars
  PROVE  \/ out' = out
         \/ \E id \in Ids : /\ st["c"][id] \in {"opening", "closing"} /\ st'["c"][id] # "dialing"
                            /\ out' = [out EXCEPT ![id] = Append(@, "CLOSE")]
         \/ \E id \in Ids : out[id] # <<>> /\ out' = [out EXCEPT ![id] = Tail(@)]
         \/ \E id \in Ids : Connected(id)
<1> DEFINE Goal == \/ out' = out
                   \/ \E id \in Ids : /\ st["c"][id] \in {"opening", "closing"} /\ st'["c"][id] # "dialing"
                                      /\ out' = [out EXCEPT ![id] = Append(@, "CLOSE")]
                   \/ \E id \in Ids : out[id] # <<>> /\ out' = [out EXCEPT ![id] = Tail(@)]
                   \/ \E id \in Ids : Connected(id)
<1>1. ASSUME NEW id \in Ids, CentralStep(id) PROVE Goal
  <2>1. CASE /\ out' = Sent(id, "CLOSE")
             /\ st["c"][id] \in {"opening", "closing"} /\ st'["c"][id] # "dialing"
    BY <2>1 DEF Sent
  <2>2. CASE CentralStreamCloses(id)
    <3>1. due["c"][id] # {}
      BY <2>2 DEF CentralStreamCloses, Closes
    <3>2. st["c"][id] = "closing"
      BY <3>1 DEF LinkInv, DueIffClosing, Ends
    <3>3. st'["c"][id] # "dialing"
      BY <2>2, <3>2, EnterAt DEF CentralStreamCloses, Closes, LinkInv, Ends, States
    <3> QED BY <2>1, <2>2, <3>2, <3>3 DEF CentralStreamCloses
  <2>3. CASE HelloRefused(id) \/ HelloRedundant(id)
    <3>1. st'["c"][id] = "none"
      BY <2>3, EnterAt DEF HelloRefused, HelloRedundant, EndCentral, LinkInv, Ends, States
    <3> QED BY <2>1, <2>3, <3>1 DEF HelloRefused, HelloRedundant
  <2> QED
    BY <1>1, <2>2, <2>3 DEF CentralStep, Discover, Flush, Dial, HelloAccepted, CentralClose, ChannelOpen, ChannelFail, DialTimeout,
       PeripheralError
<1>2. ASSUME NEW id \in Ids, ServerStep(id) PROVE Goal
  BY <1>2 DEF ServerStep, ServerRefuses, ServerAccepts, ServerClose, ServerChannel,
              PipeTimeout, ServerStreamCloses, ServerReads
<1>3. ASSUME NEW r \in Ends, NEW id \in Ids, ConnStep(r, id) PROVE Goal
  BY <1>3 DEF ConnStep, TrackYields, TrackKeeps, Notice, ConnCloses
<1>4. ASSUME NEW d \in Devices, DeviceStep(d) PROVE Goal
  BY <1>4 DEF DeviceStep, Hold, CoolExpires, FlushNone, CentralError
<1>5. ASSUME NEW id \in Ids, RadioStep(id) PROVE Goal
  BY <1>5 DEF RadioStep, NoiseAnswer, LinkLoss, LostInFlight
<1> QED BY <1>1, <1>2, <1>3, <1>4, <1>5 DEF Next, vars

LEMMA OpenStep ==
  ASSUME LinkInv, [Next]_vars
  PROVE  OpenComesFirst'
<1> SUFFICES ASSUME NEW x \in Ids
             PROVE  /\ \A i \in DOMAIN out'[x] : out'[x][i] = "OPEN" =>
                         i = 1 /\ st'["s"][x] = "none"
                    /\ st'["c"][x] = "dialing" => st'["s"][x] = "none" /\ out'[x] = <<>>
  BY DEF OpenComesFirst
<1>a. /\ out \in [Ids -> Seq({"OPEN", "CLOSE"})]
      /\ out[x] \in Seq({"OPEN", "CLOSE"})
      /\ \A i \in DOMAIN out[x] : out[x][i] = "OPEN" => i = 1 /\ st["s"][x] = "none"
      /\ st["c"][x] = "dialing" => st["s"][x] = "none" /\ out[x] = <<>>
      /\ \A q \in Ends : due[q][x] # {} <=> st[q][x] = "closing"
  BY DEF LinkInv, OpenComesFirst, TypeOK, DueIffClosing
<1>1. EndMove("s", x) /\ EndMove("c", x)
  BY EndMoves DEF Ends
<1>2. \/ st["s"][x] = "none" => st'["s"][x] = "none"
      \/ ServerReads(x, "OPEN")
  BY <1>1, <1>a DEF EndMove, Progress, Dies, Live, Ends
<1>3. st'["c"][x] = "dialing" =>
        st["c"][x] = "dialing" \/ (out[x] = <<>> /\ st["s"][x] = "none" /\ st["c"][x] # "closing")
  BY <1>1, <1>a DEF EndMove, Progress, Dies, Live, Ends, Forgotten
<1>4. \/ out'[x] = out[x]
      \/ st'["c"][x] # "dialing" /\ out'[x] = Append(out[x], "CLOSE")
      \/ out[x] # <<>> /\ out'[x] = Tail(out[x])
      \/ Connected(x) /\ out'[x] = Append(out[x], "OPEN")
  BY <1>a, OutMoves DEF Connected
<1>5. ServerReads(x, "OPEN") => out[x] # <<>> /\ out'[x] = Tail(out[x])
  BY <1>a DEF ServerReads
<1>6. \A i \in DOMAIN out'[x] : out'[x][i] = "OPEN" => i = 1 /\ st'["s"][x] = "none"
  <2>1. CASE out[x] # <<>> /\ out'[x] = Tail(out[x])
    <3>1. \A i \in DOMAIN Tail(out[x]) :
            i \in Nat \ {0} /\ i + 1 \in DOMAIN out[x] /\ Tail(out[x])[i] = out[x][i + 1]
      BY <1>a, <2>1
    <3>2. \A i \in DOMAIN out'[x] : out'[x][i] # "OPEN"
      BY <1>a, <2>1, <3>1
    <3> QED BY <3>2
  <2>2. CASE out'[x] = out[x] /\ ~ServerReads(x, "OPEN")
    BY <1>a, <1>2, <2>2
  <2>3. CASE out'[x] = Append(out[x], "CLOSE") /\ ~ServerReads(x, "OPEN")
    BY <1>a, <1>2, <2>3
  <2>4. CASE Connected(x) /\ out'[x] = Append(out[x], "OPEN") /\ ~ServerReads(x, "OPEN")
    <3>1. st["c"][x] = "dialing"
      BY <2>4 DEF Connected
    <3> QED BY <1>a, <1>2, <2>4, <3>1
  <2> QED BY <1>4, <1>5, <2>1, <2>2, <2>3, <2>4
<1>7. st'["c"][x] = "dialing" => st'["s"][x] = "none" /\ out'[x] = <<>>
  <2>1. SUFFICES ASSUME st'["c"][x] = "dialing"
                 PROVE  st'["s"][x] = "none" /\ out'[x] = <<>>
    OBVIOUS
  <2>2. out[x] = <<>> /\ st["s"][x] = "none"
    BY <1>a, <1>3, <2>1
  <2>3. ~Connected(x)
    <3>1. CASE Connected(x)
      <4>1. st'["c"][x] = "opening"
        BY <3>1, EnterAt DEF Connected, LinkInv, Ends, States
      <4> QED BY <2>1, <4>1
    <3> QED BY <3>1
  <2>4. out'[x] = out[x]
    BY <1>4, <2>1, <2>2, <2>3
  <2> QED BY <1>2, <1>5, <2>2, <2>4
<1> QED BY <1>6, <1>7

\* The table of links after a step that leaves peers alone.
LEMMA TableByMoves ==
  ASSUME LinkInv, peers' = peers,
         \A q \in Ends, x \in Ids : EndMove(q, x) /\ ~TrackKeeps(q, x) /\ ~ConnCloses(q, x)
  PROVE  LinkTable'
<1>a. \A q \in Ends, x \in Ids : due[q][x] # {} <=> st[q][x] = "closing"
  BY DEF LinkInv, DueIffClosing
<1>1. ASSUME NEW q \in Ends, NEW x \in Ids, st'[q][x] = "open"
      PROVE  peers'[Owner(q, x)][Remote(q, x)] = x
  <2>1. st[q][x] = "open"
    BY <1>1 DEF EndMove, Progress, Dies
  <2> QED BY <2>1 DEF LinkInv, LinkTable
<1>2. ASSUME NEW d \in Devices, NEW e \in Devices, peers'[d][e] # None
      PROVE  \E r \in Ends : /\ d = Owner(r, peers'[d][e]) /\ e = Remote(r, peers'[d][e])
                            /\ \/ st'[r][peers'[d][e]] = "open"
                               \/ /\ st'[r][peers'[d][e]] = "closing"
                                  /\ "conn" \in due'[r][peers'[d][e]]
  <2> DEFINE id == peers[d][e]
  <2>1. id \in Ids
    BY <1>2 DEF LinkInv, TypeOK
  <2>2. PICK r \in Ends : /\ d = Owner(r, id) /\ e = Remote(r, id)
                          /\ \/ st[r][id] = "open"
                             \/ st[r][id] = "closing" /\ "conn" \in due[r][id]
    BY <1>2 DEF LinkInv, LinkTable
  <2>3. EndMove(r, id) /\ ~ConnCloses(r, id)
    BY <2>1, <2>2
  <2>4. \/ st'[r][id] = "open"
        \/ st'[r][id] = "closing" /\ "conn" \in due'[r][id]
    <3>1. CASE st[r][id] = "open"
      BY <1>a, <2>1, <2>3, <3>1 DEF EndMove, Progress, Dies
    <3>2. CASE st[r][id] = "closing" /\ "conn" \in due[r][id]
      BY <2>3, <3>2 DEF EndMove, Progress, Dies, Live
    <3> QED BY <2>2, <3>1, <3>2
  <2> QED BY <2>2, <2>4
<1> QED BY <1>1, <1>2 DEF LinkTable

LEMMA TableByKeeps ==
  ASSUME LinkInv, NEW r \in Ends, NEW id \in Ids, TrackKeeps(r, id)
  PROVE  LinkTable'
<1> DEFINE d == Owner(r, id)
           e == Remote(r, id)
           old == peers[d][e]
           q == TrackedAt(r, id)
<1>a. d \in Devices /\ e \in Devices
  BY EndFacts
<1>b. peers' = [peers EXCEPT ![d][e] = id] /\ peers \in [Devices -> [Devices -> Ids \cup {None}]]
  BY DEF TrackKeeps, LinkInv, TypeOK
<1>c. /\ st[r][id] = "raw" /\ st'[r][id] = "open"
      /\ \A p \in Ends, x \in Ids : (p # r \/ x # id) /\ (p # q \/ x # old) =>
           st'[p][x] = st[p][x] /\ due'[p][x] = due[p][x]
      /\ old # None => /\ q \in Ends /\ old \in Ids /\ Owner(q, old) = d /\ Remote(q, old) = e
                       /\ st'[q][old] = "closing"
  BY KeepsFacts DEF Dies
<1>1. ASSUME NEW p \in Ends, NEW x \in Ids, st'[p][x] = "open"
      PROVE  peers'[Owner(p, x)][Remote(p, x)] = x
  <2>1. CASE p = r /\ x = id
    BY <1>a, <1>b, <2>1
  <2>2. CASE p # r \/ x # id
    <3>1. p # q \/ x # old
      BY <1>1, <1>c, NoneAssumption
    <3>2. st[p][x] = "open"
      BY <1>1, <1>c, <2>2, <3>1
    <3>3. peers[Owner(p, x)][Remote(p, x)] = x
      BY <3>2 DEF LinkInv, LinkTable
    <3>4. ~(Owner(p, x) = d /\ Remote(p, x) = e)
      <4>1. SUFFICES ASSUME Owner(p, x) = d, Remote(p, x) = e PROVE FALSE
        OBVIOUS
      <4>2. x = old /\ old # None
        BY <3>3, <4>1, NoneAssumption
      <4>3. Owner(q, x) = d /\ q \in Ends
        BY <1>c, <4>2
      <4>4. p = q
        BY <4>1, <4>3, EndUnique
      <4> QED BY <3>1, <4>2, <4>4
    <3>5. Owner(p, x) \in Devices /\ Remote(p, x) \in Devices
      BY EndFacts
    <3> HIDE DEF d, e
    <3> QED BY <1>a, <1>b, <3>3, <3>4, <3>5
  <2> QED BY <2>1, <2>2
<1>2. ASSUME NEW d2 \in Devices, NEW e2 \in Devices, peers'[d2][e2] # None
      PROVE  \E p \in Ends : /\ d2 = Owner(p, peers'[d2][e2]) /\ e2 = Remote(p, peers'[d2][e2])
                            /\ \/ st'[p][peers'[d2][e2]] = "open"
                               \/ /\ st'[p][peers'[d2][e2]] = "closing"
                                  /\ "conn" \in due'[p][peers'[d2][e2]]
  <2>1. CASE d2 = d /\ e2 = e
    <3>1. peers'[d2][e2] = id
      BY <1>a, <1>b, <2>1
    <3> QED BY <1>c, <2>1, <3>1
  <2>2. CASE d2 # d \/ e2 # e
    <3> DEFINE y == peers[d2][e2]
    <3> HIDE DEF d, e
    <3>1. peers'[d2][e2] = y
      BY <1>a, <1>b, <2>2
    <3>2. y \in Ids
      BY <1>2, <1>b, <3>1
    <3>3. PICK p \in Ends : /\ d2 = Owner(p, y) /\ e2 = Remote(p, y)
                            /\ \/ st[p][y] = "open"
                               \/ st[p][y] = "closing" /\ "conn" \in due[p][y]
      BY <1>2, <3>1 DEF LinkInv, LinkTable
    <3>4. (p # r \/ y # id) /\ (p # q \/ y # old)
      BY <1>c, <2>2, <3>2, <3>3, NoneAssumption
    <3>5. st'[p][y] = st[p][y] /\ due'[p][y] = due[p][y]
      BY <1>c, <3>2, <3>4
    <3> QED BY <3>1, <3>3, <3>5
  <2> QED BY <2>1, <2>2
<1> QED BY <1>1, <1>2 DEF LinkTable

LEMMA TableByCloses ==
  ASSUME LinkInv, NEW r \in Ends, NEW id \in Ids, ConnCloses(r, id)
  PROVE  LinkTable'
<1> DEFINE d == Owner(r, id)
           e == Remote(r, id)
<1>a. d \in Devices /\ e \in Devices
  BY EndFacts
<1>b. /\ peers' = [peers EXCEPT ![d][e] = IF @ = id THEN None ELSE @]
      /\ peers \in [Devices -> [Devices -> Ids \cup {None}]]
      /\ due \in [Ends -> [Ids -> SUBSET {"raw", "conn"}]]
  BY DEF ConnCloses, Untracked, LinkInv, TypeOK
<1>c. st[r][id] = "closing"
  BY DEF ConnCloses, Closes, LinkInv, DueIffClosing
<1>d. /\ \A p \in Ends, x \in Ids : p # r \/ x # id =>
           st'[p][x] = st[p][x] /\ due'[p][x] = due[p][x]
      /\ st'[r][id] \in {"none", "closing"}
  <2>1. st' = Enter(r, id, "none") \/ st' = st
    BY DEF ConnCloses, Closes
  <2>2. due' = [due EXCEPT ![r][id] = @ \ {"conn"}]
    BY DEF ConnCloses, Closes
  <2> QED BY <1>b, <1>c, <2>1, <2>2, EnterAt DEF LinkInv, States
<1>1. ASSUME NEW p \in Ends, NEW x \in Ids, st'[p][x] = "open"
      PROVE  peers'[Owner(p, x)][Remote(p, x)] = x
  <2>1. st[p][x] = "open" /\ (p # r \/ x # id)
    BY <1>1, <1>d
  <2>2. peers[Owner(p, x)][Remote(p, x)] = x
    BY <2>1 DEF LinkInv, LinkTable
  <2>3. ~(x = id /\ Owner(p, x) = d)
    BY <2>1, EndUnique
  <2>4. Owner(p, x) \in Devices /\ Remote(p, x) \in Devices
    BY EndFacts
  <2> HIDE DEF d, e
  <2> QED BY <1>a, <1>b, <2>2, <2>3, <2>4
<1>2. ASSUME NEW d2 \in Devices, NEW e2 \in Devices, peers'[d2][e2] # None
      PROVE  \E p \in Ends : /\ d2 = Owner(p, peers'[d2][e2]) /\ e2 = Remote(p, peers'[d2][e2])
                            /\ \/ st'[p][peers'[d2][e2]] = "open"
                               \/ /\ st'[p][peers'[d2][e2]] = "closing"
                                  /\ "conn" \in due'[p][peers'[d2][e2]]
  <2> DEFINE y == peers[d2][e2]
  <2>1. peers'[d2][e2] = y /\ y # None /\ ~(d2 = d /\ e2 = e /\ y = id)
    <3> HIDE DEF d, e
    <3> QED BY <1>2, <1>a, <1>b
  <2>2. y \in Ids
    BY <1>b, <2>1
  <2>3. PICK p \in Ends : /\ d2 = Owner(p, y) /\ e2 = Remote(p, y)
                          /\ \/ st[p][y] = "open"
                             \/ st[p][y] = "closing" /\ "conn" \in due[p][y]
    BY <2>1 DEF LinkInv, LinkTable
  <2>4. p # r \/ y # id
    BY <2>1, <2>3
  <2>5. st'[p][y] = st[p][y] /\ due'[p][y] = due[p][y]
    BY <1>d, <2>2, <2>4
  <2> QED BY <2>1, <2>3, <2>5
<1> QED BY <1>1, <1>2 DEF LinkTable

\* Only _track and the close event of a connection write the peers map.
LEMMA PeersStay ==
  ASSUME [Next]_vars,
         \A r \in Ends, id \in Ids : ~TrackKeeps(r, id) /\ ~ConnCloses(r, id)
  PROVE  peers' = peers
<1>1. ASSUME NEW id \in Ids, CentralStep(id) PROVE peers' = peers
  BY <1>1 DEF CentralStep, Discover, Flush, Dial, Connected, HelloRefused,
              HelloRedundant, HelloAccepted, CentralClose, ChannelOpen, ChannelFail,
              DialTimeout, PeripheralError, CentralStreamCloses
<1>2. ASSUME NEW id \in Ids, ServerStep(id) PROVE peers' = peers
  BY <1>2 DEF ServerStep, ServerRefuses, ServerAccepts, ServerClose, ServerChannel,
              PipeTimeout, ServerStreamCloses
<1>3. ASSUME NEW r \in Ends, NEW id \in Ids, ConnStep(r, id) PROVE peers' = peers
  BY <1>3 DEF ConnStep, TrackYields, Notice
<1>4. ASSUME NEW d \in Devices, DeviceStep(d) PROVE peers' = peers
  BY <1>4 DEF DeviceStep, Hold, CoolExpires, FlushNone, CentralError
<1>5. ASSUME NEW id \in Ids, RadioStep(id) PROVE peers' = peers
  BY <1>5 DEF RadioStep, NoiseAnswer, LinkLoss, LostInFlight
<1> QED
  BY <1>1, <1>2, <1>3, <1>4, <1>5 DEF Next, vars

LEMMA TableStep ==
  ASSUME LinkInv, [Next]_vars
  PROVE  LinkTable'
<1>1. CASE \E r \in Ends, id \in Ids : TrackKeeps(r, id)
  BY <1>1, TableByKeeps
<1>2. CASE \E r \in Ends, id \in Ids : ConnCloses(r, id)
  BY <1>2, TableByCloses
<1>3. CASE \A r \in Ends, id \in Ids : ~TrackKeeps(r, id) /\ ~ConnCloses(r, id)
  BY <1>3, PeersStay, EndMoves, TableByMoves
<1> QED BY <1>1, <1>2, <1>3

LEMMA InvInit == Init => LinkInv
<1> SUFFICES ASSUME Init PROVE LinkInv
  OBVIOUS
<1>1. TypeOK
  BY InitType
<1>2. DueIffClosing /\ EachEndChecked /\ RefusedBeforeNoise
  BY DEF Init, DueIffClosing, EachEndChecked, RefusedBeforeNoise, Ends
<1>3. OpenComesFirst
  BY DEF Init, OpenComesFirst, Ends
<1>4. LinkTable
  BY DEF Init, LinkTable, Ends
<1> QED BY <1>1, <1>2, <1>3, <1>4 DEF LinkInv

LEMMA InvStep == LinkInv /\ [Next]_vars => LinkInv'
<1> SUFFICES ASSUME LinkInv, [Next]_vars PROVE LinkInv'
  OBVIOUS
<1>1. TypeOK'
  BY TypeStep DEF LinkInv
<1> QED
  BY <1>1, DueStep, OpenStep, CheckedStep, TableStep, RefusedStep DEF LinkInv

\* The invariant that carries the two results below.
THEOREM Invariant == Spec => []LinkInv
BY InvInit, InvStep, PTL DEF Spec

\* The peers map and the live connections agree, for any number of devices,
\* dials and failures: what the host was handed is what the transport tracks.
THEOREM LinkTableCorrect == Spec => []LinkTable
<1>1. LinkInv => LinkTable
  BY DEF LinkInv
<1> QED BY <1>1, Invariant, PTL

\* No Noise handshake between devices one of which refuses the other, whatever
\* the policies and pipes of the devices are.
THEOREM RefusalCorrect == Spec => []RefusedBeforeNoise
<1>1. LinkInv => RefusedBeforeNoise
  BY DEF LinkInv
<1> QED BY <1>1, Invariant, PTL

-----------------------------------------------------------------------------
(* The choice of _track *)

\* What _track compares at either end comes down to the dialer's key being the
\* smaller.
LEMMA PreferredByKey ==
  ASSUME NEW id \in Ids, NEW r \in Ends
  PROVE  Preferred(r, id) <=> Key[id.from] < Key[id.to]
<1>1. /\ Key[id.from] \in Nat /\ Key[id.to] \in Nat /\ Key[id.from] # Key[id.to]
  BY IdFacts, KeyAssumption
<1>2. CASE r = "c"
  BY <1>1, <1>2 DEF Preferred, InitiatorIsUsSmaller, Owner, Remote
<1>3. CASE r = "s"
  BY <1>1, <1>3 DEF Preferred, InitiatorIsUsSmaller, Owner, Remote
<1> QED
  BY <1>2, <1>3 DEF Ends

\* "Both must retire the SAME channel": whichever ends two devices look from,
\* they judge one channel alike, and of two channels in opposite directions
\* they prefer exactly one.
THEOREM OneWinner ==
  ASSUME NEW x \in Ids, NEW y \in Ids, NEW r \in Ends, NEW q \in Ends
  PROVE  /\ Preferred(r, x) <=> Preferred(q, x)
         /\ x.from = y.to /\ x.to = y.from => (Preferred(r, x) <=> ~Preferred(q, y))
<1>1. /\ Key[x.from] \in Nat /\ Key[x.to] \in Nat /\ Key[x.from] # Key[x.to]
  BY IdFacts, KeyAssumption
<1> QED
  BY <1>1, PreferredByKey

-----------------------------------------------------------------------------
(* Links implements HostView: a step of _track connects, the end of a        *)
(* connection lets it die, its close event lets the host's list forget it.   *)

\* The hosts' connections after _track opened end r of id.
LEMMA OpenByKeeps ==
  ASSUME LinkInv, NEW r \in Ends, NEW id \in Ids, TrackKeeps(r, id)
  PROVE  HostOpen' = [HostOpen EXCEPT ![Owner(r, id)] =
                        (@ \ {peers[Owner(r, id)][Remote(r, id)]}) \cup {id}]
<1> DEFINE d == Owner(r, id)
           e == Remote(r, id)
           old == peers[d][e]
           q == TrackedAt(r, id)
<1>1. d \in Devices
  BY EndFacts
<1>2. /\ st[r][id] = "raw" /\ st'[r][id] = "open"
      /\ \A p \in Ends, x \in Ids : (p # r \/ x # id) /\ (p # q \/ x # old) =>
           st'[p][x] = st[p][x]
      /\ old # None => /\ q \in Ends /\ old \in Ids /\ Owner(q, old) = d
                       /\ st'[q][old] = "closing"
  BY KeepsFacts DEF Dies
<1>3. ASSUME NEW c \in Devices, NEW x \in Ids
      PROVE  (x \in HostOpen'[c]) <=>
               IF c = d THEN x = id \/ (x \in HostOpen[c] /\ x # old) ELSE x \in HostOpen[c]
  <2>1. CASE c # d
    <3>1. \A p \in Ends : Owner(p, x) = c => st'[p][x] = st[p][x]
      BY <1>2, <2>1, NoneAssumption
    <3> QED BY <2>1, <3>1 DEF HostOpen
  <2>2. CASE c = d /\ x = id
    BY <1>2, <2>2 DEF HostOpen
  <2>3. CASE c = d /\ x = old /\ x # id
    <3>1. old # None /\ q \in Ends /\ Owner(q, x) = d /\ st'[q][x] = "closing"
      BY <1>2, <2>3, NoneAssumption
    <3>2. \A p \in Ends : Owner(p, x) = c => p = q
      BY <2>3, <3>1, EndUnique
    <3> QED BY <2>3, <3>1, <3>2 DEF HostOpen
  <2>4. CASE c = d /\ x # old /\ x # id
    <3>1. \A p \in Ends : st'[p][x] = st[p][x]
      BY <1>2, <2>4
    <3> QED BY <2>4, <3>1 DEF HostOpen
  <2> QED BY <2>1, <2>2, <2>3, <2>4
<1>4. \A c \in Devices : HostOpen[c] \subseteq Ids /\ HostOpen'[c] \subseteq Ids
  BY DEF HostOpen
<1>5. \A c \in Devices : HostOpen'[c] = IF c = d THEN (HostOpen[c] \ {old}) \cup {id} ELSE HostOpen[c]
  <2> HIDE DEF d, old
  <2>1. SUFFICES ASSUME NEW c \in Devices
                 PROVE  HostOpen'[c] = IF c = d THEN (HostOpen[c] \ {old}) \cup {id}
                                       ELSE HostOpen[c]
    OBVIOUS
  <2>2. id \in HostOpen'[d]
    BY <1>1, <1>3
  <2> QED BY <1>3, <1>4, <2>2
<1>6. HostOpen' = [c \in Devices |-> HostOpen'[c]] /\ HostOpen = [c \in Devices |-> HostOpen[c]]
  BY DEF HostOpen
<1> QED
  <2> HIDE DEF d, old
  <2>1. HostOpen' = [HostOpen EXCEPT ![d] = (@ \ {old}) \cup {id}]
    BY <1>5, <1>6
  <2> QED BY <2>1 DEF d, old, e

\* _track hands its host a connection the abstract host may get.
LEMMA KeepsConnects ==
  ASSUME LinkInv, NEW r \in Ends, NEW id \in Ids, TrackKeeps(r, id)
  PROVE  View!Next
<1> DEFINE d == Owner(r, id)
           e == Remote(r, id)
<1>1. d \in Devices /\ e \in Devices
  BY EndFacts
<1>2. View!Joins(id, d, e)
  BY DEF View!Joins, Owner, Remote
<1>3. <<d, e>> \in Willing
  <2>1. noise[id] # "no"
    BY DEF TrackKeeps, HandshakeDone
  <2>2. MayLink(id.from, id.to)
    BY <2>1 DEF LinkInv, RefusedBeforeNoise
  <2>3. MayLink(d, e)
    BY <2>2 DEF MayLink, PipesAgree, Owner, Remote
  <2> QED BY <1>1, <2>3 DEF Willing
<1>4. peers[d][e] = None \/ View!Kept(id)
  BY PreferredByKey DEF TrackKeeps, Yields, View!Kept
<1>5. peers' = [peers EXCEPT ![d][e] = id]
  BY DEF TrackKeeps
<1>6. View!Connect(d, e, id)
  BY <1>2, <1>3, <1>4, <1>5, OpenByKeeps DEF View!Connect
<1> QED BY <1>1, <1>6 DEF View!Next

\* Whatever else a step does, it opens no connection: ends only leave "open".
LEMMA OpenShrinks ==
  ASSUME LinkInv, [Next]_vars,
         \A q \in Ends, x \in Ids : ~TrackKeeps(q, x)
  PROVE  /\ HostOpen' \in [Devices -> SUBSET Ids]
         /\ \A d \in Devices : HostOpen'[d] \subseteq HostOpen[d]
<1>1. ASSUME NEW q \in Ends, NEW x \in Ids, st'[q][x] = "open" PROVE st[q][x] = "open"
  <2>1. EndMove(q, x) /\ ~TrackKeeps(q, x)
    BY EndMoves
  <2> QED BY <1>1, <2>1 DEF EndMove, Progress, Dies
<1> QED BY <1>1 DEF HostOpen

\* The close event of the tracked connection: the list forgets a dead one.
LEMMA ClosesForgets ==
  ASSUME LinkInv, NEW r \in Ends, NEW id \in Ids, ConnCloses(r, id)
  PROVE  View!Next \/ UNCHANGED <<peers, HostOpen>>
<1> DEFINE d == Owner(r, id)
           e == Remote(r, id)
<1>1. d \in Devices /\ e \in Devices
  BY EndFacts
<1>2. st[r][id] = "closing" /\ "none" \in States
  BY DEF ConnCloses, Closes, LinkInv, DueIffClosing, States
<1>3. HostOpen' = HostOpen
  <2>1. st' = Enter(r, id, "none") \/ st' = st
    BY DEF ConnCloses, Closes
  <2>2. \A q \in Ends, x \in Ids : st'[q][x] = "open" <=> st[q][x] = "open"
    BY <1>2, <2>1, EnterAt DEF LinkInv
  <2> QED BY <2>2 DEF HostOpen
<1>4. CASE peers[d][e] = id
  <2>1. peers' = [peers EXCEPT ![d][e] = None]
    BY <1>4 DEF ConnCloses, Untracked
  <2>2. id \notin HostOpen[d]
    <3>1. \A q \in Ends : Owner(q, id) = d => st[q][id] # "open"
      BY <1>2, EndUnique
    <3> QED BY <1>1, <3>1 DEF HostOpen
  <2>3. View!Forget(d, e)
    BY <1>3, <1>4, <2>1, <2>2 DEF View!Forget
  <2> QED BY <1>1, <2>3 DEF View!Next
<1>5. CASE peers[d][e] # id
  <2>1. peers' = peers
    BY <1>1, <1>5 DEF ConnCloses, Untracked, LinkInv, TypeOK
  <2> QED BY <1>3, <2>1
<1> QED BY <1>4, <1>5

\* Every step of the devices is a step of the abstract hosts or a stutter.
LEMMA ViewStep ==
  ASSUME LinkInv, [Next]_vars
  PROVE  View!Next \/ UNCHANGED <<peers, HostOpen>>
<1>1. CASE \E r \in Ends, id \in Ids : TrackKeeps(r, id)
  BY <1>1, KeepsConnects
<1>2. CASE \E r \in Ends, id \in Ids : ConnCloses(r, id)
  BY <1>2, ClosesForgets
<1>3. CASE \A r \in Ends, id \in Ids : ~TrackKeeps(r, id) /\ ~ConnCloses(r, id)
  <2>1. peers' = peers
    BY <1>3, PeersStay
  <2>2. View!Die
    BY <1>3, <2>1, OpenShrinks DEF View!Die
  <2> QED BY <2>2 DEF View!Next
<1> QED BY <1>1, <1>2, <1>3

\* The devices implement the abstract hosts, for every set of devices, keys,
\* policies, pipes and failures: a host is handed a connection only by a willing
\* peer's first channel or by the channel both ends keep, the connection listed
\* before is closed in that step, and a listed one is forgotten only when dead.
THEOREM HostPromiseKept == Spec => HostPromise
<1>1. Init => View!Init
  BY DEF Init, View!Init, HostOpen, Ends
<1>2. LinkInv /\ [Next]_vars => [View!Next]_<<peers, HostOpen>>
  BY ViewStep
<1> QED
  BY <1>1, <1>2, Invariant, PTL DEF Spec, HostPromise, View!Spec

-----------------------------------------------------------------------------
(* RetireSameChannel needs more than one comparison at one end: what an end   *)
(* retires is retired for a channel of the other direction that the smaller   *)
(* key dialed.  That fails when two channels of one direction coexist, so the *)
(* theorem has the hypothesis that a device has one dial to another at a time.*)

OneDialAtATime == \A x, y \in Ids : x.from = y.from /\ x.to = y.to => x = y

Opposite(x, y) == x.from = y.to /\ x.to = y.from

\* Every retirement on record chose the channel that the smaller key dialed.
RetiredForWinner ==
  \A r \in Ends, x \in Ids : lost[r][x] # None =>
    Opposite(x, lost[r][x]) /\ InitiatorWins(lost[r][x])

\* The channel tracked next to one that finishes its handshake runs the other
\* way.
LEMMA TrackedIsOpposite ==
  ASSUME LinkInv, OneDialAtATime, NEW r \in Ends, NEW id \in Ids, st[r][id] = "raw",
         NEW old, old = peers[Owner(r, id)][Remote(r, id)], old # None
  PROVE  old \in Ids /\ Opposite(id, old)
<1>1. Owner(r, id) \in Devices /\ Remote(r, id) \in Devices
  BY EndFacts
<1>2. PICK q \in Ends : /\ Owner(r, id) = Owner(q, old) /\ Remote(r, id) = Remote(q, old)
                        /\ st[q][old] \in {"open", "closing"}
  BY <1>1 DEF LinkInv, LinkTable
<1>3. old \in Ids
  BY <1>1 DEF LinkInv, TypeOK
<1>4. CASE q = r
  <2>1. old = id
    BY <1>2, <1>3, <1>4 DEF OneDialAtATime, Owner, Remote, Ends
  <2> QED BY <1>2, <1>4, <2>1
<1>5. CASE q # r
  BY <1>2, <1>3, <1>5 DEF Opposite, Owner, Remote, Ends
<1> QED BY <1>4, <1>5

\* A handshake that ends with _track retiring this channel or the tracked one.
LEMMA RetiredByTrack ==
  ASSUME LinkInv, OneDialAtATime, RetiredForWinner,
         NEW r \in Ends, NEW id \in Ids, TrackYields(r, id) \/ TrackKeeps(r, id)
  PROVE  RetiredForWinner'
<1> DEFINE old == peers[Owner(r, id)][Remote(r, id)]
           p == IF old # None /\ old.from = Owner(r, id) THEN "c" ELSE "s"
<1>1. st[r][id] = "raw"
  BY DEF TrackYields, TrackKeeps, HandshakeDone
<1>2. old # None => old \in Ids /\ Opposite(id, old)
  BY <1>1, TrackedIsOpposite
<1>3. lost \in [Ends -> [Ids -> Ids \cup {None}]]
  BY DEF LinkInv, TypeOK
<1>4. CASE TrackYields(r, id)
  <2>1. old # None /\ ~Preferred(r, id) /\ lost' = [lost EXCEPT ![r][id] = old]
    BY <1>4 DEF TrackYields, Yields
  <2>2. Preferred(r, old)
    BY <1>2, <2>1, OneWinner DEF Opposite
  <2>3. InitiatorWins(old)
    BY <1>2, <2>1, <2>2, PreferredByKey DEF InitiatorWins
  <2> HIDE DEF old
  <2> QED BY <1>2, <1>3, <2>1, <2>3 DEF RetiredForWinner, Opposite, InitiatorWins
<1>5. CASE TrackKeeps(r, id)
  <2>1. lost' = lost \/ (old # None /\ lost' = [lost EXCEPT ![p][old] = id])
    BY <1>5 DEF TrackKeeps
  <2>2. old # None => InitiatorWins(id)
    BY <1>5, PreferredByKey DEF TrackKeeps, Yields, InitiatorWins
  <2>3. p \in Ends
    BY DEF Ends
  <2> HIDE DEF old, p
  <2> QED BY <1>2, <1>3, <2>1, <2>2, <2>3 DEF RetiredForWinner, Opposite, InitiatorWins
<1> QED BY <1>4, <1>5

\* A new session of a slot leaves no record of the one it stood for.
LEMMA RetiredByDial ==
  ASSUME LinkInv, RetiredForWinner, NEW id \in Ids, Dial(id)
  PROVE  RetiredForWinner'
<1>1. \A r \in Ends, x \in Ids : lost'[r][x] = None \/ lost'[r][x] = lost[r][x]
  BY DEF Dial
<1> QED BY <1>1 DEF RetiredForWinner, Opposite, InitiatorWins

\* Only a dial and _track touch the record.
LEMMA LostStay ==
  ASSUME [Next]_vars,
         \A id \in Ids : ~Dial(id),
         \A r \in Ends, id \in Ids : ~TrackYields(r, id) /\ ~TrackKeeps(r, id)
  PROVE  lost' = lost
<1>1. ASSUME NEW id \in Ids, CentralStep(id) PROVE lost' = lost
  BY <1>1 DEF CentralStep, Discover, Flush, Connected, HelloRefused, HelloRedundant,
     HelloAccepted, CentralClose, ChannelOpen, ChannelFail, DialTimeout, PeripheralError,
     CentralStreamCloses
<1>2. ASSUME NEW id \in Ids, ServerStep(id) PROVE lost' = lost
  BY <1>2 DEF ServerStep, ServerRefuses, ServerAccepts, ServerClose, ServerChannel,
     PipeTimeout, ServerStreamCloses
<1>3. ASSUME NEW r \in Ends, NEW id \in Ids, ConnStep(r, id) PROVE lost' = lost
  BY <1>3 DEF ConnStep, Notice, ConnCloses
<1>4. ASSUME NEW d \in Devices, DeviceStep(d) PROVE lost' = lost
  BY <1>4 DEF DeviceStep, Hold, CoolExpires, FlushNone, CentralError
<1>5. ASSUME NEW id \in Ids, RadioStep(id) PROVE lost' = lost
  BY <1>5 DEF RadioStep, NoiseAnswer, LinkLoss, LostInFlight
<1>6. CASE UNCHANGED vars
  BY <1>6 DEF vars
<1> QED BY <1>1, <1>2, <1>3, <1>4, <1>5, <1>6 DEF Next

LEMMA RetiredStep ==
  ASSUME LinkInv, OneDialAtATime, RetiredForWinner, [Next]_vars
  PROVE  RetiredForWinner'
<1>1. CASE \E id \in Ids : Dial(id)
  BY <1>1, RetiredByDial
<1>2. CASE \E r \in Ends, id \in Ids : TrackYields(r, id) \/ TrackKeeps(r, id)
  BY <1>2, RetiredByTrack
<1>3. CASE lost' = lost
  BY <1>3 DEF RetiredForWinner, Opposite, InitiatorWins
<1> QED BY <1>1, <1>2, <1>3, LostStay

\* Two channels of a pair are not both dialed by the smaller key.
LEMMA WinnersAgree ==
  ASSUME RetiredForWinner
  PROVE  RetireSameChannel
<1> SUFFICES ASSUME NEW r \in Ends, NEW q \in Ends, NEW x \in Ids, NEW y \in Ids,
                    lost[r][x] = y, lost[q][y] = x
             PROVE  FALSE
  BY DEF RetireSameChannel
<1>1. Opposite(x, y) /\ InitiatorWins(x) /\ InitiatorWins(y)
  BY NoneAssumption DEF RetiredForWinner
<1>2. Key[x.from] \in Nat /\ Key[x.to] \in Nat
  BY IdFacts, KeyAssumption
<1> QED BY <1>1, <1>2 DEF Opposite, InitiatorWins

\* "Both must retire the SAME channel" (_track), for every set of devices, keys
\* and failures, provided a device never has two dials to one peer at a time:
\* if one end retires channel x in favour of y, no end retires y in favour of x.
THEOREM SameChannelRetired ==
  ASSUME OneDialAtATime
  PROVE  Spec => []RetireSameChannel
<1>1. Init => RetiredForWinner
  BY DEF Init, RetiredForWinner
<1>2. LinkInv /\ RetiredForWinner /\ [Next]_vars => RetiredForWinner'
  BY RetiredStep
<1> QED
  BY <1>1, <1>2, WinnersAgree, Invariant, PTL DEF Spec

-----------------------------------------------------------------------------
(* DeadlineUntilAnswered and OneChannelPerDirection.  Of the sessions a device *)
(* dialed to one peer at most one can still become a link, and the dial record *)
(* of the peer bars another dial as long as it can: by the deadline, by the    *)
(* cooldown after a failure, or by its linked flag.                            *)

Same(x, y) == x.from = y.from /\ x.to = y.to
Answered(x) == back[x] # <<>>
Carries(x) ==
  st["c"][x] \in Live \/ (st["c"][x] = "closing" /\ "conn" \in due["c"][x])

Engaged(x) ==
  \/ st["c"][x] \in {"dialing", "upgrading"} \/ Carries(x)
  \/ st["c"][x] = "opening" /\ (x \in up \/ Answered(x) \/ Record(x).timer = x)

Bars(x) ==
  /\ st["c"][x] = "dialing" => Record(x).timer = x
  /\ st["c"][x] \in {"opening", "upgrading"} /\ x \in up => Record(x).timer = x
  /\ st["c"][x] = "upgrading" \/ (st["c"][x] = "opening" /\ Answered(x)) =>
       Record(x).timer = x \/ Record(x).cool
  /\ Carries(x) => Record(x).linked

Early == {"dialing", "opening", "upgrading"}

TimerHeld(x) ==
  \A z \in Ids : Record(x).timer = z => Same(x, z) /\ st["c"][z] \in Early

DialInv ==
  /\ \A x, y \in Ids : Same(x, y) /\ Engaged(x) /\ Engaged(y) => x = y
  /\ \A x \in Ids : Bars(x) /\ TimerHeld(x)

LEMMA NotedAt ==
  ASSUME TypeOK, NEW x \in Ids, NEW rec
  PROVE  \A y \in Ids : Noted(x, rec)[y.from][y.to] = IF Same(x, y) THEN rec ELSE Record(y)
<1> SUFFICES ASSUME NEW y \in Ids
             PROVE  Noted(x, rec)[y.from][y.to] = IF Same(x, y) THEN rec ELSE Record(y)
  OBVIOUS
<1>1. /\ x.from \in Devices /\ x.to \in Devices /\ y.from \in Devices /\ y.to \in Devices
      /\ dev \in [Devices -> [Devices -> DialRecord]]
  BY IdFacts DEF TypeOK
<1> QED BY <1>1 DEF Noted, Same, Record

\* A step of the central end of one session, and its record.
LEMMA DialByOne ==
  ASSUME TypeOK, DialInv, NEW x \in Ids, NEW rec, dev' = Noted(x, rec),
         rec.timer \in {None, x},
         \A y \in Ids : y # x => /\ st'["c"][y] = st["c"][y] /\ due'["c"][y] = due["c"][y]
                                 /\ back'[y] = back[y] /\ (y \in up' => y \in up),
         \A y \in Ids : Same(x, y) /\ Engaged(y) => y = x,
         Bars(x)',
         rec.timer = x => st'["c"][x] \in Early
  PROVE  DialInv'
<1>1. \A y \in Ids : Record(y)' = IF Same(x, y) THEN rec ELSE Record(y)
  BY NotedAt DEF Record
<1>2. ASSUME NEW y \in Ids, y # x
      PROVE  /\ Carries(y)' <=> Carries(y)
             /\ Answered(y)' <=> Answered(y)
             /\ st'["c"][y] = st["c"][y] /\ (y \in up' => y \in up)
  BY <1>2 DEF Carries, Answered
<1>3. ASSUME NEW y \in Ids, y # x, Same(x, y)
      PROVE  ~Engaged(y)' /\ Bars(y)' /\ TimerHeld(y)'
  <2>1. ~Engaged(y)
    BY <1>3
  <2>2. Record(y)' = rec /\ rec.timer # y
    BY <1>1, <1>3, NoneAssumption
  <2>3. ~Engaged(y)'
    BY <1>2, <1>3, <2>1, <2>2 DEF Engaged
  <2>4. Bars(y)'
    BY <1>2, <1>3, <2>1, <2>2 DEF Engaged, Bars
  <2>5. TimerHeld(y)'
    BY <1>3, <2>2, NoneAssumption DEF TimerHeld, Same
  <2> QED BY <2>3, <2>4, <2>5
<1>4. ASSUME NEW y \in Ids, ~Same(x, y)
      PROVE  (Engaged(y)' => Engaged(y)) /\ Bars(y)' /\ TimerHeld(y)'
  <2>1. y # x /\ Record(y)' = Record(y)
    BY <1>1, <1>4 DEF Same
  <2>2. Engaged(y)' => Engaged(y)
    BY <1>2, <2>1 DEF Engaged
  <2>3. Bars(y)'
    BY <1>2, <2>1 DEF DialInv, Bars
  <2>4. TimerHeld(y)'
    <3> SUFFICES ASSUME NEW z \in Ids, Record(y).timer = z
                 PROVE  Same(y, z) /\ st'["c"][z] \in Early
      BY <2>1 DEF TimerHeld
    <3>1. Same(y, z) /\ st["c"][z] \in Early
      BY DEF DialInv, TimerHeld
    <3>2. z # x
      BY <1>4, <3>1 DEF Same
    <3> QED BY <1>2, <3>1, <3>2
  <2> QED BY <2>2, <2>3, <2>4
<1>5. TimerHeld(x)'
  <2>1. Record(x)' = rec
    BY <1>1 DEF Same
  <2> QED BY <2>1, NoneAssumption DEF TimerHeld, Same
<1>6. ASSUME NEW y \in Ids, NEW z \in Ids, Same(y, z), Engaged(y)', Engaged(z)'
      PROVE  y = z
  <2>1. CASE Same(x, y)
    <3>1. Same(x, z)
      BY <1>6, <2>1 DEF Same
    <3> QED BY <1>3, <1>6, <2>1, <3>1
  <2>2. CASE ~Same(x, y)
    <3>1. ~Same(x, z)
      BY <1>6, <2>2 DEF Same
    <3> QED BY <1>4, <1>6, <2>2, <3>1 DEF DialInv
  <2> QED BY <2>1, <2>2
<1>7. ASSUME NEW y \in Ids PROVE Bars(y)' /\ TimerHeld(y)'
  BY <1>3, <1>4, <1>5
<1> QED BY <1>6, <1>7 DEF DialInv, Same

\* A step that starts or ends no dial and no link: a frame only joins a wire
\* that is up, and what the record says of the dial stays.
LEMMA DialByRest ==
  ASSUME LinkInv, DialInv, up' \subseteq up,
         \A y \in Ids : EndMove("c", y),
         \A y \in Ids : st["c"][y] \in Early \/ st'["c"][y] \in Early => st'["c"][y] = st["c"][y],
         \A y \in Ids : "conn" \in due["c"][y] => "conn" \in due'["c"][y],
         \A y \in Ids : Answered(y)' => Answered(y) \/ y \in up,
         \A y \in Ids : /\ Record(y)'.timer = Record(y).timer
                        /\ Record(y)'.cool = Record(y).cool
                        /\ Record(y)'.linked = Record(y).linked
  PROVE  DialInv'
<1>1. ASSUME NEW y \in Ids
      PROVE  /\ Carries(y)' <=> Carries(y)
             /\ st'["c"][y] = st["c"][y] \/ (st["c"][y] \notin Early /\ st'["c"][y] \notin Early)
  <2>1. due["c"][y] # {} <=> st["c"][y] = "closing"
    BY DEF LinkInv, DueIffClosing, Ends
  <2>2. CASE due'["c"][y] = due["c"][y] /\ st'["c"][y] = st["c"][y]
    BY <2>2 DEF Carries
  <2>3. CASE Progress("c", y)
    BY <2>3 DEF Progress, Carries, Early, Live
  <2>4. CASE Dies("c", y)
    BY <2>4 DEF Dies, Carries, Early, Live
  <2>5. ASSUME NEW event \in due["c"][y], due'["c"][y] = due["c"][y] \ {event},
               st'["c"][y] = IF due["c"][y] = {event} THEN "none" ELSE st["c"][y]
        PROVE  Carries(y)' <=> Carries(y)
    <3>1. st["c"][y] = "closing" /\ event # "conn"
      BY <2>1, <2>5
    <3> QED BY <2>5, <3>1 DEF Carries, Live
  <2> QED BY <2>2, <2>3, <2>4, <2>5 DEF EndMove
<1>2. ASSUME NEW y \in Ids
      PROVE  (Engaged(y)' => Engaged(y)) /\ Bars(y)' /\ TimerHeld(y)'
  <2>1. Bars(y) /\ TimerHeld(y)
    BY DEF DialInv
  <2>2. Engaged(y)' => Engaged(y)
    BY <1>1 DEF Engaged, Early
  <2>3. Bars(y)'
    BY <1>1, <2>1 DEF Bars, Early
  <2>4. TimerHeld(y)'
    BY <1>1, <2>1 DEF TimerHeld, Early
  <2> QED BY <2>2, <2>3, <2>4
<1> QED BY <1>2 DEF DialInv, Same

\* The deadline of an engaged dial's record is its own.
LEMMA OwnTimer ==
  ASSUME TypeOK, DialInv, NEW x \in Ids, Engaged(x)
  PROVE  /\ Record(x).timer \in {None, x}
         /\ \A y \in Ids : Same(x, y) /\ Engaged(y) => y = x
<1>1. Record(x) \in DialRecord
  BY HelperTypes
<1>2. ASSUME NEW z \in Ids, Record(x).timer = z PROVE z = x
  <2>1. Same(x, z) /\ st["c"][z] \in Early
    BY <1>2 DEF DialInv, TimerHeld
  <2>2. Record(z) = Record(x)
    BY <2>1 DEF Record, Same
  <2>3. Engaged(z)
    BY <1>2, <2>1, <2>2 DEF Engaged, Early
  <2> QED BY <2>1, <2>3 DEF DialInv
<1>3. \A y \in Ids : Same(x, y) /\ Engaged(y) => y = x
  BY DEF DialInv
<1> QED BY <1>1, <1>2, <1>3 DEF DialRecord

\* A step of a dial short of the closes of its link: DialByOne with the record
\* the step writes and the state it enters.
LEMMA DialByMove ==
  ASSUME LinkInv, DialInv, NEW x \in Ids, NEW rec, dev' = Noted(x, rec),
         NEW s \in Early \cup Live \cup {"none"}, st' = Enter("c", x, s), due' = due,
         up' \subseteq up \cup {x},
         \A y \in Ids : y # x => back'[y] = back[y],
         \A y \in Ids : Same(x, y) /\ Engaged(y) => y = x,
         rec.timer \in {None, x},
         s = "dialing" \/ (s \in {"opening", "upgrading"} /\ x \in up') => rec.timer = x,
         s = "upgrading" \/ (s = "opening" /\ back'[x] # <<>>) => rec.timer = x \/ rec.cool,
         s \in Live => rec.linked /\ rec.timer = None,
         s = "none" => rec.timer = None
  PROVE  DialInv'
<1>1. TypeOK /\ "c" \in Ends
  BY DEF LinkInv, Ends
<1>2. st'["c"][x] = s /\ \A y \in Ids : y # x => st'["c"][y] = st["c"][y]
  BY <1>1, EnterAt DEF Early, Live, States
<1>3. Record(x)' = rec
  BY <1>1, NotedAt DEF Record, Same
<1>4. Bars(x)'
  BY <1>2, <1>3 DEF Bars, Carries, Answered, Early, Live
<1>5. rec.timer = x => s \in Early
  BY NoneAssumption
<1> QED BY <1>1, <1>2, <1>4, <1>5, DialByOne

\* A new dial finds no session of its record engaged: each would hold the
\* deadline, the cooldown or the linked flag.
LEMMA DialByDial ==
  ASSUME LinkInv, DialInv, NEW id \in Ids, Dial(id), Dialable(id.from, id.to)
  PROVE  DialInv'
<1>1. ~Record(id).linked /\ ~Record(id).cool /\ Record(id).timer = None
  BY DEF Dialable, Record
<1>2. \A y \in Ids : Same(id, y) => ~Engaged(y)
  <2> SUFFICES ASSUME NEW y \in Ids, Same(id, y) PROVE ~Engaged(y)
    OBVIOUS
  <2>1. Record(y) = Record(id)
    BY DEF Same, Record
  <2>2. Bars(y)
    BY DEF DialInv
  <2> QED BY <1>1, <2>1, <2>2, NoneAssumption DEF Engaged, Bars, Answered
<1> DEFINE rec == [Record(id) EXCEPT !.timer = id]
<1>3. rec.timer = id
  BY HelperTypes DEF LinkInv, DialRecord
<1>4. /\ dev' = Noted(id, rec) /\ st' = Enter("c", id, "dialing") /\ due' = due
      /\ up' \subseteq up /\ back' = back
  BY DEF Dial
<1> HIDE DEF rec
<1> QED BY <1>2, <1>3, <1>4, DialByMove DEF Early, Live

\* The steps of a dial that some session is engaged in.
LEMMA DialByCentral ==
  ASSUME LinkInv, DialInv, "slow" \notin Faults, NEW id \in Ids, CentralStep(id)
  PROVE  DialInv'
<1> DEFINE rec == Record(id)
           off == BackedOff(rec)
           known == [off EXCEPT !.known = TRUE]
           bound == Bound(rec)
<1>a. TypeOK /\ "c" \in Ends
  BY DEF LinkInv, Ends
<1>b. /\ rec \in DialRecord
      /\ off.timer = None /\ off.cool /\ known.timer = None /\ known.cool
      /\ off.linked = rec.linked
      /\ bound.timer = None /\ bound.linked
  BY <1>a, HelperTypes DEF DialRecord, BackedOff, Bound
<1>c. dev' = dev => dev' = Noted(id, rec)
  BY <1>a, IdFacts DEF Noted, Record, TypeOK
<1>d. Engaged(id) => /\ rec.timer \in {None, id}
                     /\ \A y \in Ids : Same(id, y) /\ Engaged(y) => y = id
  BY <1>a, OwnTimer
<1>e. \A f : CentralReads(id, f) =>
        Answered(id) /\ \A y \in Ids : y # id => back'[y] = back[y]
  BY <1>a DEF CentralReads, Answered, TypeOK
<1>f. Bars(id)
  BY DEF DialInv
<1>g. HungUp(id) \subseteq up /\ id \notin HungUp(id)
  BY DEF HungUp
<1>h. st = Enter("c", id, st["c"][id])
  BY <1>a DEF Enter, TypeOK
<1> HIDE DEF rec, off, known, bound
<1>1. CASE Discover(id) \/ Flush(id)
  BY <1>1, DialByDial DEF Discover, Flush
<1>2. CASE Connected(id)
  <2>1. Engaged(id) /\ rec.timer = id
    BY <1>2, <1>f DEF Connected, Engaged, Bars, rec
  <2>2. /\ st' = Enter("c", id, "opening") /\ due' = due /\ up' \subseteq up \cup {id}
        /\ back' = back /\ dev' = Noted(id, rec)
    BY <1>2, <1>c DEF Connected
  <2> QED BY <1>d, <2>1, <2>2, DialByMove DEF Early, Live
<1>3. CASE HelloRefused(id)
  <2>1. Engaged(id)
    BY <1>3, <1>e DEF HelloRefused, Engaged
  <2>2. /\ st' = Enter("c", id, "none") /\ due' = due /\ up' \subseteq up
        /\ dev' = Noted(id, off) /\ \A y \in Ids : y # id => back'[y] = back[y]
    BY <1>3, <1>e, <1>g DEF HelloRefused, EndCentral, off, rec
  <2> QED BY <1>b, <1>d, <2>1, <2>2, DialByMove DEF Early, Live
<1>4. CASE HelloRedundant(id)
  <2>1. Engaged(id)
    BY <1>4, <1>e DEF HelloRedundant, Engaged
  <2>2. /\ st' = Enter("c", id, "none") /\ due' = due /\ up' = up
        /\ dev' = Noted(id, known) /\ \A y \in Ids : y # id => back'[y] = back[y]
    BY <1>4, <1>e DEF HelloRedundant, known, off, rec
  <2> QED BY <1>b, <1>d, <2>1, <2>2, DialByMove DEF Early, Live
<1>5. CASE HelloAccepted(id)
  <2>1. st["c"][id] = "opening" /\ Answered(id)
    BY <1>5, <1>e DEF HelloAccepted
  <2>2. Engaged(id) /\ (id \in up => rec.timer = id) /\ (rec.timer = id \/ rec.cool)
    BY <1>f, <2>1 DEF Engaged, Bars, rec
  <2>3. due' = due /\ up' = up /\ \A y \in Ids : y # id => back'[y] = back[y]
    BY <1>5, <1>e DEF HelloAccepted
  <2>4. CASE st' = Enter("c", id, "upgrading") /\ dev' = dev
    BY <1>c, <1>d, <2>2, <2>3, <2>4, DialByMove DEF Early, Live
  <2>5. CASE st' = Enter("c", id, "raw") /\ dev' = Noted(id, bound)
    BY <1>b, <1>d, <2>2, <2>3, <2>5, DialByMove DEF Early, Live
  <2> QED BY <1>5, <2>4, <2>5 DEF HelloAccepted, BindCentral, bound, rec
<1>6. CASE CentralClose(id)
  <2>1. Answered(id) /\ \A y \in Ids : y # id => back'[y] = back[y]
    BY <1>6, <1>e DEF CentralClose
  <2>2. CASE /\ st["c"][id] \in {"opening", "upgrading"} /\ due' = due
             /\ EndCentral(id, TRUE) \/ EndCentral(id, FALSE)
    <3>1. Engaged(id)
      BY <2>1, <2>2 DEF Engaged
    <3>2. st' = Enter("c", id, "none") /\ up' \subseteq up /\ dev' = Noted(id, off)
      BY <1>g, <2>2 DEF EndCentral, off, rec
    <3> QED BY <1>b, <1>d, <2>1, <2>2, <3>1, <3>2, DialByMove DEF Early, Live
  <2>3. CASE /\ st["c"][id] \notin {"opening", "upgrading"}
             /\ \/ Die("c", id) /\ st["c"][id] \in Live
                \/ UNCHANGED <<st, due>>
             /\ UNCHANGED <<up, dev>>
    <3>1. \A y \in Ids : Answered(y)' => Answered(y)
      BY <2>1 DEF Answered
    <3>2. \A y \in Ids : "conn" \in due["c"][y] => "conn" \in due'["c"][y]
      <4>1. due' = due \/ due' = [due EXCEPT !["c"][id] = {"raw", "conn"}]
        BY <2>3 DEF Die
      <4>2. ASSUME NEW y \in Ids, due' = [due EXCEPT !["c"][id] = {"raw", "conn"}]
            PROVE  "conn" \in due["c"][y] => "conn" \in due'["c"][y]
        BY <1>a, <4>2 DEF TypeOK
      <4> QED BY <4>1, <4>2
    <3>3. \A y \in Ids : st["c"][y] \in Early \/ st'["c"][y] \in Early => st'["c"][y] = st["c"][y]
      <4>1. CASE Die("c", id) /\ st["c"][id] \in Live
        <5>1. st'["c"][id] = "closing" /\ \A y \in Ids : y # id => st'["c"][y] = st["c"][y]
          BY <1>a, <4>1, EnterAt DEF Die, States
        <5> QED BY <4>1, <5>1 DEF Early, Live
      <4>2. CASE UNCHANGED st
        BY <4>2
      <4> QED BY <2>3, <4>1, <4>2
    <3>4. \A y \in Ids : EndMove("c", y)
      BY <1>6, <1>a, CentralMoves DEF CentralStep
    <3> QED BY <2>3, <3>1, <3>2, <3>3, <3>4, DialByRest DEF Record
  <2> QED BY <1>6, <2>2, <2>3 DEF CentralClose, Live, EndCentral
<1>7. CASE ChannelOpen(id)
  <2>1. Engaged(id)
    BY <1>7 DEF ChannelOpen, Engaged
  <2>2. /\ st' = Enter("c", id, "raw") /\ due' = due /\ up' = up /\ back' = back
        /\ dev' = Noted(id, bound)
    BY <1>7 DEF ChannelOpen, BindCentral, bound, rec
  <2> QED BY <1>b, <1>d, <2>1, <2>2, DialByMove DEF Early, Live
<1>8. CASE ChannelFail(id)
  <2>1. Engaged(id)
    BY <1>8 DEF ChannelFail, Engaged
  <2>2. /\ st' = Enter("c", id, "opening") /\ due' = due /\ back' = back
        /\ up' \subseteq up /\ id \notin up' /\ dev' = Noted(id, off)
    BY <1>8, <1>g DEF ChannelFail, AbortDial, off, rec
  <2> QED BY <1>b, <1>d, <2>1, <2>2, DialByMove DEF Early, Live
<1>9. CASE DialTimeout(id)
  <2>1. st["c"][id] = "opening" /\ Engaged(id)
    BY <1>9 DEF DialTimeout, Unanswered, Engaged, Record
  <2>2. st' = Enter("c", id, "opening")
    BY <1>h, <1>9, <2>1 DEF DialTimeout
  <2>3. /\ due' = due /\ back' = back
        /\ up' \subseteq up /\ id \notin up' /\ dev' = Noted(id, off)
    BY <1>9, <1>g DEF DialTimeout, AbortDial, off, rec
  <2> QED BY <1>b, <1>d, <2>1, <2>2, <2>3, DialByMove DEF Early, Live
<1>10. CASE PeripheralError(id)
  <2>1. Engaged(id) /\ st["c"][id] \in {"dialing", "opening"} \cup Live
    BY <1>10 DEF PeripheralError, Engaged, Carries, Live
  <2>2. st["c"][id] \in Live => rec.linked
    BY <1>f DEF Bars, Carries, rec
  <2>3. PICK s \in {"none", "opening"} \cup Live :
          st' = Enter("c", id, s) /\ (s \in Live => st["c"][id] = s)
    <3>1. st["c"][id] = "dialing" => st' = Enter("c", id, "none")
      BY <1>10 DEF PeripheralError
    <3>2. st["c"][id] # "dialing" => st' = Enter("c", id, st["c"][id])
      BY <1>h, <1>10 DEF PeripheralError
    <3> QED BY <2>1, <3>1, <3>2 DEF Live
  <2>4. /\ due' = due /\ back' = back
        /\ up' \subseteq up /\ id \notin up' /\ dev' = Noted(id, off)
    BY <1>10, <1>g DEF PeripheralError, AbortDial, off, rec
  <2> QED BY <1>b, <1>d, <2>1, <2>2, <2>3, <2>4, DialByMove DEF Early, Live
<1>11. CASE CentralStreamCloses(id)
  <2>1. st["c"][id] = "closing" /\ "none" \in States
    BY <1>a, <1>11 DEF CentralStreamCloses, Closes, LinkInv, DueIffClosing, States
  <2>2. /\ up' \subseteq up /\ back' = back /\ dev' = dev
        /\ due' = [due EXCEPT !["c"][id] = @ \ {"raw"}]
        /\ st' = Enter("c", id, "none") \/ st' = st
    BY <1>11, <1>g DEF CentralStreamCloses, Closes
  <2>3. \A y \in Ids : "conn" \in due["c"][y] => "conn" \in due'["c"][y]
    BY <1>a, <2>2 DEF TypeOK
  <2>4. \A y \in Ids : st["c"][y] \in Early \/ st'["c"][y] \in Early => st'["c"][y] = st["c"][y]
    BY <1>a, <2>1, <2>2, EnterAt DEF Early
  <2>5. \A y \in Ids : EndMove("c", y)
    BY <1>11, <1>a, CentralMoves DEF CentralStep
  <2> QED BY <2>2, <2>3, <2>4, <2>5, DialByRest DEF Record, Answered
<1> QED
  BY <1>1, <1>2, <1>3, <1>4, <1>5, <1>6, <1>7, <1>8, <1>9, <1>10, <1>11 DEF CentralStep

\* A handshake, a death or a close event at one end of a connection.
LEMMA DialByConn ==
  ASSUME LinkInv, DialInv, NEW r \in Ends, NEW id \in Ids, ConnStep(r, id)
  PROVE  DialInv'
<1>a. TypeOK /\ "c" \in Ends
  BY DEF LinkInv, Ends
<1>b. \A y \in Ids : EndMove("c", y)
  BY <1>a, ConnMoves
<1>c. \A y \in Ids : Record(y) \in DialRecord
  BY <1>a, HelperTypes
<1>d. ASSUME dev' = dev \/ dev' = Noted(id, [Record(id) EXCEPT !.known = TRUE]),
             UNCHANGED <<up, back>>,
             \A y \in Ids : st["c"][y] \in Early \/ st'["c"][y] \in Early => st'["c"][y] = st["c"][y],
             \A y \in Ids : "conn" \in due["c"][y] => "conn" \in due'["c"][y]
      PROVE  DialInv'
  <2>1. ASSUME NEW y \in Ids
        PROVE  /\ Record(y)'.timer = Record(y).timer
               /\ Record(y)'.cool = Record(y).cool
               /\ Record(y)'.linked = Record(y).linked
    <3>1. Record(y)' \in {Record(y), [Record(y) EXCEPT !.known = TRUE]}
      <4>1. Same(id, y) => Record(id) = Record(y)
        BY DEF Same, Record
      <4>2. Noted(id, [Record(id) EXCEPT !.known = TRUE])[y.from][y.to] =
              IF Same(id, y) THEN [Record(id) EXCEPT !.known = TRUE] ELSE Record(y)
        BY <1>a, NotedAt
      <4>3. CASE dev' = dev
        BY <4>3 DEF Record
      <4>4. CASE dev' = Noted(id, [Record(id) EXCEPT !.known = TRUE])
        <5>1. Record(y)' = Noted(id, [Record(id) EXCEPT !.known = TRUE])[y.from][y.to]
          BY <4>4 DEF Record
        <5> QED BY <4>1, <4>2, <5>1
      <4> QED BY <1>d, <4>3, <4>4
    <3> QED BY <1>c, <3>1 DEF DialRecord
  <2> QED BY <1>b, <1>d, <2>1, DialByRest DEF Answered
<1>1. CASE TrackYields(r, id) \/ Notice(r, id)
  <2>1. /\ st[r][id] \in Live /\ st' = Enter(r, id, "closing")
        /\ due' = [due EXCEPT ![r][id] = {"raw", "conn"}]
    BY <1>1 DEF TrackYields, HandshakeDone, Notice, Die, Live
  <2>2. \A y \in Ids : "conn" \in due["c"][y] => "conn" \in due'["c"][y]
    BY <1>a, <2>1 DEF TypeOK
  <2>3. \A y \in Ids : st["c"][y] \in Early \/ st'["c"][y] \in Early => st'["c"][y] = st["c"][y]
    BY <1>a, <2>1, EnterAt DEF Early, Live, States
  <2> QED BY <1>1, <1>d, <2>2, <2>3 DEF TrackYields, HandshakeDone, Notice
<1>2. CASE TrackKeeps(r, id)
  <2> DEFINE old == peers[Owner(r, id)][Remote(r, id)]
             q == TrackedAt(r, id)
  <2>1. /\ st[r][id] = "raw" /\ st'[r][id] = "open" /\ due'[r][id] = due[r][id]
        /\ \A p \in Ends, x \in Ids : (p # r \/ x # id) /\ (p # q \/ x # old) =>
             st'[p][x] = st[p][x] /\ due'[p][x] = due[p][x]
        /\ old # None =>
             \/ Dies(q, old)
             \/ /\ st[q][old] = "closing" /\ st'[q][old] = "closing"
                /\ due'[q][old] = due[q][old]
    BY <1>2, KeepsFacts
  <2>2. old \in Ids => old # None
    BY NoneAssumption
  <2> HIDE DEF old, q
  <2>3. \A y \in Ids : "conn" \in due["c"][y] => "conn" \in due'["c"][y]
    BY <1>a, <2>1, <2>2 DEF Dies
  <2>4. \A y \in Ids : st["c"][y] \in Early \/ st'["c"][y] \in Early => st'["c"][y] = st["c"][y]
    BY <1>a, <2>1, <2>2 DEF Dies, Early, Live
  <2> QED BY <1>2, <1>d, <2>3, <2>4 DEF TrackKeeps, HandshakeDone
<1>3. CASE ConnCloses(r, id)
  <2>1. /\ "conn" \in due[r][id] /\ due' = [due EXCEPT ![r][id] = @ \ {"conn"}]
        /\ st' = Enter(r, id, "none") \/ st' = st
        /\ UNCHANGED <<up, back>>
    BY <1>3 DEF ConnCloses, Closes
  <2>2. st[r][id] = "closing" /\ "none" \in States
    BY <2>1 DEF LinkInv, DueIffClosing, States
  <2>3. CASE r = "c"
    <3> DEFINE rec == [Record(id) EXCEPT !.linked = FALSE]
    <3>1. Carries(id) /\ Engaged(id)
      BY <2>1, <2>2, <2>3 DEF Carries, Engaged
    <3>2. Record(id).timer = None /\ rec.timer = None
      <4>1. Record(id).timer \in {None, id}
        BY <1>a, <3>1, OwnTimer
      <4>2. Record(id).timer # id
        BY <2>2, <2>3 DEF DialInv, TimerHeld, Early
      <4> QED BY <1>c, <4>1, <4>2 DEF DialRecord
    <3>3. \A y \in Ids : Same(id, y) /\ Engaged(y) => y = id
      BY <1>a, <3>1, OwnTimer
    <3>4. dev' = Noted(id, rec)
      BY <1>3, <2>3 DEF ConnCloses
    <3>5. \A y \in Ids : y # id => /\ st'["c"][y] = st["c"][y]
                                   /\ due'["c"][y] = due["c"][y]
      BY <1>a, <2>1, <2>2, <2>3, EnterAt DEF TypeOK
    <3>6. st'["c"][id] \in {"none", "closing"} /\ "conn" \notin due'["c"][id]
      BY <1>a, <2>1, <2>2, <2>3, EnterAt DEF TypeOK
    <3>7. Bars(id)'
      BY <3>6 DEF Bars, Carries, Live
    <3> HIDE DEF rec
    <3> QED
      BY <1>a, <2>1, <3>2, <3>3, <3>4, <3>5, <3>7, NoneAssumption, DialByOne
  <2>4. CASE r = "s"
    <3>1. \A y \in Ids : st'["c"][y] = st["c"][y] /\ due'["c"][y] = due["c"][y]
      BY <1>a, <2>1, <2>2, <2>4, EnterAt DEF TypeOK
    <3>2. dev' = dev
      BY <1>3, <2>4 DEF ConnCloses
    <3> QED BY <1>d, <2>1, <3>1, <3>2
  <2> QED BY <2>3, <2>4 DEF Ends
<1> QED BY <1>1, <1>2, <1>3 DEF ConnStep

\* A cooldown outlasts what is left of the dial that set it.
LEMMA DialByCool ==
  ASSUME LinkInv, DialInv, "slow" \notin Faults,
         NEW d \in Devices, NEW e \in Devices, CoolExpires(d, e)
  PROVE  DialInv'
<1>1. dev \in [Devices -> [Devices -> DialRecord]]
  BY DEF LinkInv, TypeOK
<1>2. UNCHANGED <<st, due, up, back>> /\ Settled(d, e)
  BY DEF CoolExpires
<1>3. ASSUME NEW y \in Ids
      PROVE  /\ Record(y)'.timer = Record(y).timer
             /\ Record(y)'.linked = Record(y).linked
             /\ y.from # d \/ y.to # e => Record(y)'.cool = Record(y).cool
  <2>1. Record(y) \in DialRecord /\ y.from \in Devices /\ y.to \in Devices
    BY <1>1, IdFacts DEF Record
  <2>2. dev' = [dev EXCEPT ![d][e] = [@ EXCEPT !.cool = FALSE]]
    BY DEF CoolExpires
  <2>3. CASE y.from = d /\ y.to = e
    <3>1. Record(y)' = [Record(y) EXCEPT !.cool = FALSE]
      BY <1>1, <2>1, <2>2, <2>3 DEF Record
    <3> QED BY <2>1, <2>3, <3>1 DEF DialRecord
  <2>4. CASE y.from # d \/ y.to # e
    <3>1. Record(y)' = Record(y)
      BY <1>1, <2>1, <2>2, <2>4 DEF Record
    <3> QED BY <3>1
  <2> QED BY <2>3, <2>4
<1>4. ASSUME NEW y \in Ids
      PROVE  (Engaged(y)' => Engaged(y)) /\ Bars(y)' /\ TimerHeld(y)'
  <2>1. Bars(y) /\ TimerHeld(y)
    BY DEF DialInv
  <2>2. (Engaged(y)' => Engaged(y)) /\ TimerHeld(y)'
    BY <1>2, <1>3, <2>1 DEF Engaged, Carries, Answered, TimerHeld, Same
  <2>3. y.from = d /\ y.to = e /\ y \notin up => st["c"][y] # "upgrading" /\ ~Answered(y)
    BY <1>2 DEF Settled, Answered
  <2>4. Bars(y)'
    BY <1>2, <1>3, <2>1, <2>3 DEF Bars, Carries, Answered
  <2> QED BY <2>2, <2>4
<1> QED BY <1>4 DEF DialInv, Same

\* The servers and the radio leave the records and the central ends alone.
LEMMA ServerSpares ==
  ASSUME LinkInv, NEW id \in Ids, ServerStep(id) \/ RadioStep(id)
  PROVE  /\ dev' = dev
         /\ \A y \in Ids : st'["c"][y] = st["c"][y] /\ due'["c"][y] = due["c"][y]
<1>a. TypeOK /\ "c" \in Ends /\ "s" \in Ends
  BY DEF LinkInv, Ends
<1>1. dev' = dev
  BY DEF ServerStep, ServerRefuses, ServerAccepts, ServerClose, ServerChannel,
     PipeTimeout, ServerStreamCloses, RadioStep, NoiseAnswer, LinkLoss, LostInFlight
<1>3. \A y \in Ids : st'["c"][y] = st["c"][y] /\ due'["c"][y] = due["c"][y]
  <2>1. /\ st' = st \/ \E s \in States : st' = Enter("s", id, s)
        /\ due' = due \/ \E x \in SUBSET {"raw", "conn"} : due' = [due EXCEPT !["s"][id] = x]
    <3>1. {"none", "pending", "raw", "closing"} \subseteq States
      BY DEF States
    <3>2. due["s"][id] \ {"raw"} \in SUBSET {"raw", "conn"}
      BY <1>a DEF TypeOK
    <3>3. CASE st' = st /\ due' = due
      BY <3>3
    <3>4. CASE due' = due /\ \E s \in {"none", "pending", "raw"} : st' = Enter("s", id, s)
      BY <3>1, <3>4
    <3>5. CASE Die("s", id)
      BY <3>1, <3>5 DEF Die
    <3>6. CASE Closes("s", id, "raw")
      BY <3>1, <3>2, <3>6 DEF Closes
    <3>7. CASE ServerStep(id)
      BY <3>3, <3>4, <3>5, <3>6, <3>7 DEF ServerStep, ServerRefuses, ServerAccepts,
         ServerClose, ServerChannel, PipeTimeout, ServerStreamCloses
    <3>8. CASE RadioStep(id)
      BY <3>3, <3>8 DEF RadioStep, NoiseAnswer, LinkLoss, LostInFlight
    <3> QED BY <3>7, <3>8
  <2> TAKE y \in Ids
  <2>2. st'["c"][y] = st["c"][y]
    BY <1>a, <2>1, EnterAt
  <2>3. due'["c"][y] = due["c"][y]
    <3>1. \A x : [due EXCEPT !["s"][id] = x]["c"][y] = due["c"][y]
      BY <1>a DEF TypeOK
    <3> QED BY <2>1, <3>1
  <2> QED BY <2>2, <2>3
<1> QED BY <1>1, <1>3

LEMMA DialByServer ==
  ASSUME LinkInv, DialInv, NEW id \in Ids, ServerStep(id) \/ RadioStep(id)
  PROVE  DialInv'
<1>a. TypeOK /\ "c" \in Ends /\ "s" \in Ends
  BY DEF LinkInv, Ends
<1>1. dev' = dev /\ up' \subseteq up
  BY HelperTypes, ServerSpares, <1>a DEF ServerStep, ServerRefuses, ServerAccepts, ServerClose, ServerChannel,
     PipeTimeout, ServerStreamCloses, RadioStep, NoiseAnswer, LinkLoss, LostInFlight
<1>2. \A y \in Ids : Answered(y)' => Answered(y) \/ y \in up
  <2>1. /\ \A f : back' = Notified(id, f) => \A y \in Ids : Answered(y)' => Answered(y) \/ y \in up
        /\ back[id] # <<>> /\ back' = [back EXCEPT ![id] = Tail(@)] =>
             \A y \in Ids : Answered(y)' => Answered(y)
        /\ back' = back => \A y \in Ids : Answered(y)' => Answered(y)
    BY <1>a DEF Notified, Answered, TypeOK
  <2>2. \/ \E f : back' = Notified(id, f)
        \/ back[id] # <<>> /\ back' = [back EXCEPT ![id] = Tail(@)]
        \/ back' = back
    BY DEF ServerStep, ServerRefuses, ServerAccepts, ServerClose, ServerChannel,
       PipeTimeout, ServerStreamCloses, RadioStep, NoiseAnswer, LinkLoss, LostInFlight
  <2> QED BY <2>1, <2>2
<1>3. \A y \in Ids : st'["c"][y] = st["c"][y] /\ due'["c"][y] = due["c"][y]
  BY ServerSpares
<1>4. \A y \in Ids : EndMove("c", y)
  BY <1>3, <1>a DEF EndMove
<1> QED BY <1>1, <1>2, <1>3, <1>4, DialByRest DEF Record

LEMMA DialByStill ==
  ASSUME DialInv, UNCHANGED <<st, due, up, back, dev>>
  PROVE  DialInv'
BY DEF DialInv, Engaged, Bars, Carries, Answered, TimerHeld, Record, Same

LEMMA DialInit == Init => DialInv
<1> SUFFICES ASSUME Init PROVE DialInv
  OBVIOUS
<1>1. ASSUME NEW y \in Ids
      PROVE  /\ st["c"][y] = "none" /\ due["c"][y] = {} /\ back[y] = <<>> /\ y \notin up
             /\ Record(y).timer = None
  BY IdFacts DEF Init, Record, Ends
<1> QED
  BY <1>1, NoneAssumption DEF DialInv, Engaged, Bars, Carries, Answered, TimerHeld, Live

LEMMA DialStep ==
  ASSUME LinkInv, DialInv, Faults \cap {"slow", "centralError"} = {}, [Next]_vars
  PROVE  DialInv'
<1>1. "slow" \notin Faults /\ "centralError" \notin Faults
  OBVIOUS
<1>2. ASSUME NEW d \in Devices, DeviceStep(d) PROVE DialInv'
  <2>1. CASE \E e \in Devices : CoolExpires(d, e)
    BY <1>1, <2>1, DialByCool
  <2>2. CASE UNCHANGED <<st, due, up, back, dev>>
    BY <2>2, DialByStill
  <2> QED BY <1>1, <1>2, <2>1, <2>2 DEF DeviceStep, Hold, FlushNone, CentralError
<1>3. CASE UNCHANGED vars
  BY <1>3, DialByStill DEF vars
<1> QED
  BY <1>1, <1>2, <1>3, DialByCentral, DialByServer, DialByConn DEF Next

\* The invariant says what the two properties ask.
LEMMA DialProperties == DialInv => DeadlineUntilAnswered /\ OneChannelPerDirection
<1> SUFFICES ASSUME DialInv PROVE DeadlineUntilAnswered /\ OneChannelPerDirection
  OBVIOUS
<1>1. DeadlineUntilAnswered
  BY DEF DialInv, Bars, DeadlineUntilAnswered, Record
<1>2. OneChannelPerDirection
  BY DEF DialInv, Engaged, Carries, Same, OneChannelPerDirection
<1> QED BY <1>1, <1>2

\* "The dial timer keeps running until the server answers"
\* (_startCentralSession), for any number of devices, sessions and failures, if
\* a cooldown outlasts the leftovers of its dial and the adapter reports no
\* failed connection.
THEOREM DeadlineKept ==
  ASSUME Faults \cap {"slow", "centralError"} = {}
  PROVE  Spec => []DeadlineUntilAnswered
<1>1. LinkInv /\ DialInv /\ [Next]_vars => DialInv'
  BY DialStep
<1> QED
  BY <1>1, DialInit, DialProperties, Invariant, PTL DEF Spec

\* "Rediscovery must not dial a peripheral whose channel is still handshaking"
\* (_onChannel): under the same conditions a device never holds two bound
\* channels it dialed to one peer, however many dials to it came before.
THEOREM OneChannelKept ==
  ASSUME Faults \cap {"slow", "centralError"} = {}
  PROVE  Spec => []OneChannelPerDirection
<1>1. LinkInv /\ DialInv /\ [Next]_vars => DialInv'
  BY DialStep
<1> QED
  BY <1>1, DialInit, DialProperties, Invariant, PTL DEF Spec

-----------------------------------------------------------------------------
(* TableHolds, InboundCap and LinksAgree.                                     *)

\* Only the dialed device moves the server end of a session before its stream
\* is bound, and takes it out of the table.
LEMMA CentralSpares ==
  ASSUME LinkInv, NEW id \in Ids, CentralStep(id)
  PROVE  /\ sessions' = sessions
         /\ \A x \in Ids : st'["s"][x] = st["s"][x] /\ due'["s"][x] = due["s"][x]
<1>a. TypeOK
  BY DEF LinkInv
<1>b. \A s \in {"dialing", "opening", "none", "upgrading", "raw", "closing"} :
        \A x \in Ids : Enter("c", id, s)["s"][x] = st["s"][x]
  BY <1>a, EnterAt DEF Ends, States
<1>c. \A v : \A x \in Ids : [due EXCEPT !["c"][id] = v]["s"][x] = due["s"][x]
  BY <1>a DEF TypeOK, Ends
<1> USE <1>b, <1>c
<1>1. CASE Discover(id) \/ Flush(id)
  BY <1>1 DEF Discover, Flush, Dial
<1>2. CASE Connected(id)
  BY <1>2 DEF Connected
<1>3. CASE HelloRefused(id) \/ HelloRedundant(id)
  BY <1>3 DEF HelloRefused, HelloRedundant, EndCentral
<1>4. CASE HelloAccepted(id)
  BY <1>4 DEF HelloAccepted, BindCentral
<1>5. CASE CentralClose(id)
  <2>1. /\ sessions' = sessions
        /\ \/ st' = Enter("c", id, "closing") \/ st' = Enter("c", id, "none") \/ st' = st
        /\ \/ due' = [due EXCEPT !["c"][id] = {"raw", "conn"}] \/ due' = due
    BY <1>5 DEF CentralClose, Die, EndCentral
  <2>2. \A x \in Ids : [due EXCEPT !["c"][id] = {"raw", "conn"}]["s"][x] = due["s"][x]
    BY <1>a DEF TypeOK, Ends
  <2>3. \A x \in Ids : st'["s"][x] = st["s"][x]
    BY <2>1
  <2>4. \A x \in Ids : due'["s"][x] = due["s"][x]
    BY <2>1, <2>2
  <2> QED BY <2>1, <2>3, <2>4
<1>6. CASE ChannelOpen(id) \/ ChannelFail(id)
  BY <1>6 DEF ChannelOpen, BindCentral, ChannelFail
<1>7. CASE DialTimeout(id) \/ PeripheralError(id)
  BY <1>7 DEF DialTimeout, PeripheralError
<1>8. CASE CentralStreamCloses(id)
  <2>1. /\ sessions' = sessions
        /\ due' = [due EXCEPT !["c"][id] = @ \ {"raw"}]
        /\ st' = Enter("c", id, "none") \/ st' = st
    BY <1>8 DEF CentralStreamCloses, Closes
  <2> QED BY <2>1, <1>a DEF TypeOK, Ends
<1> QED
  BY <1>1, <1>2, <1>3, <1>4, <1>5, <1>6, <1>7, <1>8 DEF CentralStep

\* What a connection does to an end: nothing, its handshake ends, it dies, or
\* its conn closes.
EndKept(p, x) ==
  \/ /\ due'[p][x] = due[p][x]
     /\ \/ st'[p][x] = st[p][x]
        \/ st[p][x] = "raw" /\ st'[p][x] = "open"
  \/ Dies(p, x)
  \/ /\ due[p][x] # {} /\ due'[p][x] = due[p][x] \ {"conn"}
     /\ st'[p][x] \in {"closing", "none"}

LEMMA ConnSpares ==
  ASSUME LinkInv, NEW r \in Ends, NEW id \in Ids, ConnStep(r, id)
  PROVE  sessions' = sessions /\ \A p \in Ends, x \in Ids :
           /\ EndKept(p, x)
           /\ "conn" \in due[p][x] =>
                "conn" \in due'[p][x] \/ (p = r /\ x = id /\ ConnCloses(r, id))
<1>1. sessions' = sessions
  BY DEF ConnStep, TrackYields, TrackKeeps, Notice, ConnCloses
<1> SUFFICES ASSUME NEW p \in Ends, NEW x \in Ids
             PROVE  /\ EndKept(p, x)
                    /\ "conn" \in due[p][x] =>
                         "conn" \in due'[p][x] \/ (p = r /\ x = id /\ ConnCloses(r, id))
  BY <1>1
<1>a. TypeOK
  BY DEF LinkInv
<1>b. due[p][x] # {} <=> st[p][x] = "closing"
  BY DEF LinkInv, DueIffClosing
<1>2. CASE TrackYields(r, id) \/ Notice(r, id)
  <2>1. Die(r, id) /\ st[r][id] \in Live
    BY <1>2 DEF TrackYields, HandshakeDone, Notice, Live
  <2>2. CASE r = p /\ x = id
    BY <1>a, <2>1, <2>2, EnterAt DEF Die, EndKept, Dies, TypeOK, States
  <2>3. CASE r # p \/ x # id
    BY <1>a, <2>1, <2>3, EnterAt DEF Die, EndKept, TypeOK, States
  <2> QED BY <2>2, <2>3
<1>3. CASE TrackKeeps(r, id)
  <2> DEFINE old == peers[Owner(r, id)][Remote(r, id)]
             q == TrackedAt(r, id)
  <2>1. CASE p = r /\ x = id
    BY <1>3, <2>1, KeepsFacts DEF EndKept
  <2>2. CASE p = q /\ x = old /\ (p # r \/ x # id)
    <3>1. old # None
      BY <2>2, NoneAssumption
    <3>2. \/ Dies(p, x)
          \/ st'[p][x] = st[p][x] /\ due'[p][x] = due[p][x]
      BY <1>3, <2>2, <3>1, KeepsFacts
    <3> QED BY <3>2 DEF EndKept, Dies
  <2>3. CASE (p # r \/ x # id) /\ (p # q \/ x # old)
    BY <1>3, <2>3, KeepsFacts DEF EndKept
  <2> QED BY <2>1, <2>2, <2>3
<1>4. CASE ConnCloses(r, id)
  <2>1. /\ "conn" \in due[r][id] /\ due' = [due EXCEPT ![r][id] = @ \ {"conn"}]
        /\ st' = IF due[r][id] = {"conn"} THEN Enter(r, id, "none") ELSE st
    BY <1>4 DEF ConnCloses, Closes
  <2>2. CASE r = p /\ x = id
    BY <1>a, <1>b, <1>4, <2>1, <2>2, EnterAt DEF EndKept, TypeOK, States
  <2>3. CASE r # p \/ x # id
    BY <1>a, <2>1, <2>3, EnterAt DEF EndKept, TypeOK, States
  <2> QED BY <2>2, <2>3
<1> QED BY <1>2, <1>3, <1>4 DEF ConnStep

LEMMA ServerSpared ==
  ASSUME LinkInv, [Next]_vars, ~\E id \in Ids : ServerStep(id)
  PROVE  sessions' = sessions /\ \A x \in Ids : EndKept("s", x)
<1>1. CASE UNCHANGED vars
  BY <1>1 DEF vars, EndKept
<1>2. ASSUME NEW id \in Ids, CentralStep(id)
      PROVE  sessions' = sessions /\ \A x \in Ids : EndKept("s", x)
  BY <1>2, CentralSpares DEF EndKept
<1>3. ASSUME NEW id \in Ids, RadioStep(id)
      PROVE  sessions' = sessions /\ \A x \in Ids : EndKept("s", x)
  BY <1>3 DEF RadioStep, NoiseAnswer, LinkLoss, LostInFlight, EndKept
<1>4. ASSUME NEW d \in Devices, DeviceStep(d)
      PROVE  sessions' = sessions /\ \A x \in Ids : EndKept("s", x)
  <2>1. CASE st' = st /\ due' = due /\ sessions' = sessions
    BY <2>1 DEF EndKept
  <2>2. ASSUME NEW id \in Ids, st' = Enter("c", id, "none"), due' = due, sessions' = sessions
        PROVE  sessions' = sessions /\ \A x \in Ids : EndKept("s", x)
    BY <2>2, EnterAt DEF EndKept, LinkInv, Ends, States
  <2> QED
    BY <1>4, <2>1, <2>2 DEF DeviceStep, Hold, CoolExpires, FlushNone, CentralError, FailedAttempts
<1> QED BY <1>1, <1>2, <1>3, <1>4, ConnSpares DEF Next, Ends

\* What the server of a session does to its server end and the table.
LEMMA TableByServer ==
  ASSUME LinkInv, TableHolds, NEW id \in Ids, ServerStep(id)
  PROVE  TableHolds'
<1>a. TypeOK /\ "s" \in Ends
  BY DEF LinkInv, Ends
<1>b. due["s"][id] # {} <=> st["s"][id] = "closing"
  BY <1>a DEF LinkInv, DueIffClosing
<1>c. /\ \A s \in {"pending", "none", "raw", "closing"} :
            /\ Enter("s", id, s)["s"][id] = s
            /\ \A x \in Ids : x # id => Enter("s", id, s)["s"][x] = st["s"][x]
      /\ \A v : \A x \in Ids :
            [due EXCEPT !["s"][id] = v]["s"][x] = IF x = id THEN v ELSE due["s"][x]
  BY <1>a, EnterAt DEF States, TypeOK
<1>1. \A x \in Ids \ {id} : /\ st'["s"][x] = st["s"][x] /\ due'["s"][x] = due["s"][x]
                            /\ x \in sessions' <=> x \in sessions
  <2>1. CASE ServerRefuses(id) \/ ServerAccepts(id) \/ ServerChannel(id) \/ PipeTimeout(id)
    <3>1. /\ due' = due
          /\ sessions' \in {sessions, sessions \cup {id}, sessions \ {id}}
          /\ \/ st' = st
             \/ \E s \in {"pending", "none", "raw", "closing"} : st' = Enter("s", id, s)
      BY <2>1 DEF ServerRefuses, ServerAccepts, ServerChannel, PipeTimeout
    <3> QED BY <1>c, <3>1
  <2>2. CASE ServerClose(id)
    <3>1. /\ sessions' = sessions \ {id}
          /\ due' = due \/ due' = [due EXCEPT !["s"][id] = {"raw", "conn"}]
          /\ \/ st' = st
             \/ \E s \in {"none", "closing"} : st' = Enter("s", id, s)
      BY <2>2 DEF ServerClose, Die
    <3>2. \A x \in Ids : x # id => st'["s"][x] = st["s"][x]
      BY <1>c, <3>1
    <3>3. \A x \in Ids : x # id => due'["s"][x] = due["s"][x]
      BY <1>a, <3>1 DEF TypeOK
    <3> QED BY <3>1, <3>2, <3>3
  <2>3. CASE ServerStreamCloses(id)
    BY <1>c, <2>3 DEF ServerStreamCloses, Closes
  <2> QED BY <2>1, <2>2, <2>3 DEF ServerStep
<1>2. /\ Serving(id)' => id \in sessions'
      /\ id \in sessions' => Serving(id)' \/ "raw" \in due'["s"][id]
  <2>a. /\ Serving(id) => id \in sessions
        /\ id \in sessions => Serving(id) \/ "raw" \in due["s"][id]
    BY DEF TableHolds
  <2>1. CASE ServerRefuses(id)
    BY <2>a, <2>1 DEF ServerRefuses, Serving
  <2>2. CASE ServerAccepts(id)
    BY <1>c, <2>2 DEF ServerAccepts, Serving
  <2>3. CASE ServerClose(id)
    <3>1. id \notin sessions'
      BY <2>3 DEF ServerClose
    <3>2. CASE Die("s", id)
      BY <1>c, <3>1, <3>2 DEF Die, Serving
    <3>3. CASE /\ ~(id \in sessions /\ st["s"][id] \in Live)
               /\ st' = IF st["s"][id] = "pending" THEN Enter("s", id, "none") ELSE st
      BY <1>c, <2>a, <3>1, <3>3 DEF Serving, Live
    <3> QED BY <2>3, <3>2, <3>3 DEF ServerClose
  <2>4. CASE ServerChannel(id)
    BY <1>c, <2>a, <2>4 DEF ServerChannel, Serving
  <2>5. CASE PipeTimeout(id)
    BY <1>c, <2>5 DEF PipeTimeout, Serving
  <2>6. CASE ServerStreamCloses(id)
    <3>1. /\ id \notin sessions' /\ st["s"][id] = "closing"
          /\ st' = Enter("s", id, "none") \/ st' = st
      BY <1>b, <2>6 DEF ServerStreamCloses, Closes
    <3> QED BY <1>c, <3>1 DEF Serving
  <2> QED BY <2>1, <2>2, <2>3, <2>4, <2>5, <2>6 DEF ServerStep
<1> QED BY <1>1, <1>2 DEF TableHolds, Serving

LEMMA TableKept ==
  ASSUME LinkInv, TableHolds, [Next]_vars
  PROVE  TableHolds'
<1>1. CASE \E id \in Ids : ServerStep(id)
  BY <1>1, TableByServer
<1>2. CASE ~\E id \in Ids : ServerStep(id)
  <2> SUFFICES ASSUME NEW x \in Ids
               PROVE  /\ Serving(x)' => x \in sessions
                      /\ x \in sessions => Serving(x)' \/ "raw" \in due'["s"][x]
    BY <1>2, ServerSpared DEF TableHolds, Serving
  <2>1. EndKept("s", x)
    BY <1>2, ServerSpared
  <2>2. /\ Serving(x) => x \in sessions
        /\ x \in sessions => Serving(x) \/ "raw" \in due["s"][x]
        /\ due["s"][x] # {} <=> st["s"][x] = "closing"
    BY DEF TableHolds, LinkInv, DueIffClosing, Ends
  <2> QED BY <2>1, <2>2 DEF EndKept, Dies, Live, Serving
<1> QED BY <1>1, <1>2

\* The sessions table is finite and fits maxInbound; a session enters it only
\* by ServerAccepts.
TableFits ==
  /\ IsFiniteSet(sessions)
  /\ \A d \in Devices : Cardinality(Inbound(d)) <= MaxInbound[d]

LEMMA TableMoves ==
  ASSUME LinkInv, [Next]_vars
  PROVE  sessions' \subseteq sessions \/ \E id \in Ids : ServerAccepts(id)
<1>1. ASSUME NEW id \in Ids, ServerStep(id)
      PROVE  sessions' \subseteq sessions \/ ServerAccepts(id)
  BY <1>1 DEF ServerStep, ServerRefuses, ServerClose, ServerChannel, PipeTimeout,
              ServerStreamCloses
<1> QED BY <1>1, ServerSpared

LEMMA FitsKept ==
  ASSUME LinkInv, TableFits, [Next]_vars
  PROVE  TableFits'
<1>1. CASE sessions' \subseteq sessions
  <2>1. IsFiniteSet(sessions')
    BY <1>1, FS_Subset DEF TableFits
  <2>2. ASSUME NEW d \in Devices
        PROVE  Cardinality(Inbound(d)') <= MaxInbound[d]
    <3>1. IsFiniteSet(Inbound(d)) /\ Inbound(d)' \in SUBSET Inbound(d)
      BY <1>1, FS_Subset DEF TableFits, Inbound
    <3>2. /\ IsFiniteSet(Inbound(d)')
          /\ Cardinality(Inbound(d)') <= Cardinality(Inbound(d))
      BY <3>1, FS_Subset
    <3>3. /\ Cardinality(Inbound(d)) \in Nat /\ Cardinality(Inbound(d)') \in Nat
          /\ MaxInbound[d] \in Nat
      BY <3>1, <3>2, FS_CardinalityType, ConfigAssumption
    <3> QED BY <3>2, <3>3 DEF TableFits
  <2> QED BY <2>1, <2>2 DEF TableFits
<1>2. ASSUME NEW id \in Ids, ServerAccepts(id)
      PROVE  TableFits'
  <2>1. sessions' = sessions \cup {id} /\ ~(Cardinality(Inbound(id.to)) >= MaxInbound[id.to])
    BY <1>2 DEF ServerAccepts, RefuseBusy
  <2>2. IsFiniteSet(sessions')
    BY <2>1, FS_AddElement DEF TableFits
  <2>3. ASSUME NEW d \in Devices
        PROVE  Cardinality(Inbound(d)') <= MaxInbound[d]
    <3>1. IsFiniteSet(Inbound(d))
      BY FS_Subset DEF TableFits, Inbound
    <3>2. CASE id.to # d
      <4>1. Inbound(d)' = Inbound(d)
        BY <2>1, <3>2 DEF Inbound
      <4> QED BY <4>1 DEF TableFits
    <3>3. CASE id.to = d
      <4>1. Inbound(d)' = Inbound(d) \cup {id}
        BY <2>1, <3>3 DEF Inbound
      <4>2. Cardinality(Inbound(d)') <= Cardinality(Inbound(d)) + 1
        BY <3>1, <4>1, FS_AddElement, FS_CardinalityType
      <4>3. /\ Cardinality(Inbound(d)) \in Nat /\ Cardinality(Inbound(d)') \in Nat
            /\ MaxInbound[d] \in Nat
        BY <3>1, <4>1, FS_AddElement, FS_CardinalityType, ConfigAssumption
      <4> QED BY <2>1, <3>3, <4>2, <4>3
    <3> QED BY <3>2, <3>3
  <2> QED BY <2>2, <2>3 DEF TableFits
<1> QED BY <1>1, <1>2, TableMoves

LEMMA ServedFits ==
  ASSUME LinkInv, TableHolds, TableFits
  PROVE  InboundCap
<1> SUFFICES ASSUME NEW d \in Devices
             PROVE  Cardinality({id \in Ids : id.to = d /\ Serving(id)}) <= MaxInbound[d]
  BY DEF InboundCap
<1> DEFINE served == {id \in Ids : id.to = d /\ Serving(id)}
<1>1. IsFiniteSet(Inbound(d)) /\ served \in SUBSET Inbound(d)
  BY FS_Subset DEF TableFits, TableHolds, Inbound
<1>2. IsFiniteSet(served) /\ Cardinality(served) <= Cardinality(Inbound(d))
  BY <1>1, FS_Subset
<1>3. /\ Cardinality(Inbound(d)) \in Nat /\ Cardinality(served) \in Nat
      /\ MaxInbound[d] \in Nat
  BY <1>1, <1>2, FS_CardinalityType, ConfigAssumption
<1>4. Cardinality(Inbound(d)) <= MaxInbound[d]
  BY DEF TableFits
<1> QED BY <1>2, <1>3, <1>4

LEMMA TableInit == Init => TableHolds /\ TableFits
<1>1. Init => TableHolds
  BY DEF Init, TableHolds, Serving, Ends
<1>2. Init => IsFiniteSet(sessions) /\ \A d \in Devices : Inbound(d) = {}
  BY FS_EmptySet DEF Init, Inbound
<1>3. ASSUME Init, NEW d \in Devices
      PROVE  Cardinality(Inbound(d)) <= MaxInbound[d]
  <2>1. Cardinality(Inbound(d)) = 0
    BY <1>2, <1>3, FS_EmptySet
  <2> QED BY <2>1, ConfigAssumption
<1> QED BY <1>1, <1>2, <1>3 DEF TableFits

\* Every server end that is not over is in the sessions table, and what is in
\* the table is such an end or has its stream close to come: whatever order
\* refusals, timeouts, CLOSE frames, retirements and closes come in, and for
\* all faults.
THEOREM TableTrue == Spec => []TableHolds
BY TableInit, TableKept, Invariant, PTL DEF Spec

\* A device never serves more channels than maxInbound, however many dial it.
THEOREM InboundBounded == Spec => []InboundCap
BY TableInit, TableKept, FitsKept, ServedFits, Invariant, PTL DEF Spec

\* Two devices with no channel half open or closing between them name the same
\* channel as their link, or both name none.
THEOREM PeersAgree == Spec => []LinksAgree
<1>1. LinkInv => LinksAgree
  <2> SUFFICES ASSUME LinkInv, NEW d \in Devices, NEW e \in Devices,
                      \A id \in Ids : {id.from, id.to} = {d, e} =>
                        /\ st["c"][id] = "open" <=> st["s"][id] = "open"
                        /\ st["c"][id] # "closing" /\ st["s"][id] # "closing"
               PROVE  peers[d][e] = peers[e][d]
    BY Zenon DEF LinksAgree
  <2>1. ASSUME NEW a \in Devices, NEW b \in Devices, {a, b} = {d, e}, peers[a][b] # None
        PROVE  peers[b][a] = peers[a][b]
    <3> DEFINE id == peers[a][b]
               q == IF id.from = a THEN "c" ELSE "s"
    <3>1. /\ id \in Ids /\ q \in Ends /\ Owner(q, id) = a /\ Remote(q, id) = b
          /\ st[q][id] \in {"open", "closing"}
      BY <2>1, TrackedEnd DEF Ends
    <3>2. {id.from, id.to} = {d, e}
      BY <2>1, <3>1 DEF Owner, Remote
    <3>3. st["c"][id] = "open" /\ st["s"][id] = "open"
      BY <3>1, <3>2 DEF Ends
    <3>4. /\ peers[Owner("c", id)][Remote("c", id)] = id
          /\ peers[Owner("s", id)][Remote("s", id)] = id
      BY <3>1, <3>3 DEF LinkInv, LinkTable, Ends
    <3> QED BY <3>1, <3>4 DEF Owner, Remote
  <2> QED BY <2>1
<1> QED BY <1>1, Invariant, PTL

-----------------------------------------------------------------------------
(* BarredForAReason.                                                          *)

\* The channel of the central end of x has a conn close to come.
Carried(x) == st["c"][x] \in Live \/ "conn" \in due["c"][x]

LEMMA NotedElse ==
  ASSUME TypeOK, NEW x \in Ids, NEW rec
  PROVE  \A d, e \in Devices :
           Noted(x, rec)[d][e] = IF d = x.from /\ e = x.to THEN rec ELSE dev[d][e]
<1>1. /\ x.from \in Devices /\ x.to \in Devices
      /\ dev \in [Devices -> [Devices -> DialRecord]]
  BY IdFacts DEF TypeOK
<1> QED BY <1>1 DEF Noted

\* A step of the central end of one session, and its record.
LEMMA BarredByMove ==
  ASSUME TypeOK, BarredForAReason, NEW x \in Ids, NEW rec,
         dev' = Noted(x, rec) \/ (dev' = dev /\ rec = Record(x)),
         \A y \in Ids : y # x => /\ st'["c"][y] = st["c"][y] /\ due'["c"][y] = due["c"][y],
         rec.timer # None => \/ rec.timer = x /\ st'["c"][x] \in Early
                             \/ rec.timer = Record(x).timer /\ rec.timer # x,
         Carried(x) => Carried(x)' \/ ~rec.linked,
         rec.linked => Record(x).linked \/ Carried(x)'
  PROVE  BarredForAReason'
<1> SUFFICES ASSUME NEW d \in Devices, NEW e \in Devices
             PROVE  /\ dev'[d][e].timer # None =>
                         /\ dev'[d][e].timer.from = d /\ dev'[d][e].timer.to = e
                         /\ st'["c"][dev'[d][e].timer] \in Early
                    /\ dev'[d][e].linked =>
                         \E y \in Ids : y.from = d /\ y.to = e /\ Carried(y)'
  BY DEF BarredForAReason, Early, Carried, Live
<1>1. dev'[d][e] = IF d = x.from /\ e = x.to THEN rec ELSE dev[d][e]
  BY NotedElse DEF Record
<1>2. /\ dev[d][e].timer \in Ids \cup {None}
      /\ dev[d][e].timer # None =>
           /\ dev[d][e].timer.from = d /\ dev[d][e].timer.to = e
           /\ st["c"][dev[d][e].timer] \in Early
      /\ dev[d][e].linked => \E y \in Ids : y.from = d /\ y.to = e /\ Carried(y)
  <2>1. dev[d][e] \in DialRecord
    BY DEF TypeOK
  <2> QED BY <2>1 DEF DialRecord, BarredForAReason, Early, Carried
<1>3. \A y \in Ids : y # x => /\ st'["c"][y] = st["c"][y]
                             /\ Carried(y)' <=> Carried(y)
  BY DEF Carried
<1>4. CASE d = x.from /\ e = x.to
  BY <1>1, <1>2, <1>3, <1>4 DEF Record
<1>5. CASE ~(d = x.from /\ e = x.to)
  <2>1. dev'[d][e] = dev[d][e]
    BY <1>1, <1>5
  <2>2. \A y \in Ids : y.from = d /\ y.to = e => y # x
    BY <1>5
  <2> QED BY <1>2, <1>3, <2>1, <2>2
<1> QED BY <1>4, <1>5

\* A step that leaves timers and links alone, ends no dial and no connection.
LEMMA BarredByRest ==
  ASSUME TypeOK, BarredForAReason,
         \A d, e \in Devices : /\ dev'[d][e].timer = dev[d][e].timer
                               /\ dev'[d][e].linked = dev[d][e].linked,
         \A y \in Ids : st["c"][y] \in Early => st'["c"][y] = st["c"][y],
         \A y \in Ids : Carried(y) => Carried(y)'
  PROVE  BarredForAReason'
<1> SUFFICES ASSUME NEW d \in Devices, NEW e \in Devices
             PROVE  /\ dev'[d][e].timer # None =>
                         /\ dev'[d][e].timer.from = d /\ dev'[d][e].timer.to = e
                         /\ st'["c"][dev'[d][e].timer] \in Early
                    /\ dev'[d][e].linked =>
                         \E y \in Ids : y.from = d /\ y.to = e /\ Carried(y)'
  BY DEF BarredForAReason, Early, Carried, Live
<1>1. /\ dev[d][e].timer \in Ids \cup {None}
      /\ dev[d][e].timer # None =>
           /\ dev[d][e].timer.from = d /\ dev[d][e].timer.to = e
           /\ st["c"][dev[d][e].timer] \in Early
      /\ dev[d][e].linked => \E y \in Ids : y.from = d /\ y.to = e /\ Carried(y)
  <2>1. dev[d][e] \in DialRecord
    BY DEF TypeOK
  <2> QED BY <2>1 DEF DialRecord, BarredForAReason, Early, Carried
<1> QED BY <1>1

LEMMA BarredByCentral ==
  ASSUME LinkInv, BarredForAReason, NEW id \in Ids, CentralStep(id)
  PROVE  BarredForAReason'
<1>a. TypeOK /\ "c" \in Ends /\ Record(id) \in DialRecord
  BY HelperTypes DEF LinkInv, Ends
<1>b. due["c"][id] # {} <=> st["c"][id] = "closing"
  BY <1>a DEF LinkInv, DueIffClosing
<1>c. Record(id).timer = id => st["c"][id] \in Early
  BY <1>a, IdFacts, NoneAssumption DEF BarredForAReason, Record, Early
<1>d. ASSUME NEW s \in States, st' = Enter("c", id, s), due' = due
      PROVE  /\ st'["c"][id] = s /\ due'["c"][id] = due["c"][id]
             /\ \A y \in Ids : y # id =>
                  /\ st'["c"][y] = st["c"][y] /\ due'["c"][y] = due["c"][y]
  BY <1>a, <1>d, EnterAt
<1>e. /\ "none" \in States /\ "dialing" \in States /\ "opening" \in States
      /\ "upgrading" \in States /\ "raw" \in States
  BY DEF States
<1>f. /\ BackedOff(Record(id)).timer = None
      /\ BackedOff(Record(id)).linked = Record(id).linked
      /\ [BackedOff(Record(id)) EXCEPT !.known = TRUE].timer = None
      /\ [BackedOff(Record(id)) EXCEPT !.known = TRUE].linked = Record(id).linked
      /\ Bound(Record(id)).timer = None
      /\ [Record(id) EXCEPT !.timer = id].timer = id
      /\ [Record(id) EXCEPT !.timer = id].linked = Record(id).linked
  BY <1>a DEF BackedOff, Bound, DialRecord
<1>1. CASE Discover(id) \/ Flush(id)
  <2>1. /\ st' = Enter("c", id, "dialing") /\ due' = due
        /\ dev' = Noted(id, [Record(id) EXCEPT !.timer = id])
        /\ st["c"][id] \in {"none", "opening"}
    BY <1>1 DEF Discover, Flush, Dial, Forgotten
  <2>2. ~Carried(id)
    BY <1>b, <2>1 DEF Carried, Live
  <2> QED BY <1>a, <1>d, <1>e, <1>f, <2>1, <2>2, BarredByMove DEF Early
<1>2. CASE Connected(id) \/ (HelloAccepted(id) /\ Pipe[id.from] = "l2cap")
  <2>1. /\ st' = Enter("c", id, "opening") \/ st' = Enter("c", id, "upgrading")
        /\ due' = due /\ dev' = dev /\ st["c"][id] \in {"dialing", "opening"}
    BY <1>2 DEF Connected, HelloAccepted
  <2>2. ~Carried(id)
    BY <1>b, <2>1 DEF Carried, Live
  <2> QED BY <1>a, <1>d, <1>e, <2>1, <2>2, BarredByMove DEF Early
<1>3. CASE HelloRefused(id) \/ HelloRedundant(id)
  <2>1. /\ st' = Enter("c", id, "none") /\ due' = due /\ st["c"][id] = "opening"
        /\ \/ dev' = Noted(id, BackedOff(Record(id)))
           \/ dev' = Noted(id, [BackedOff(Record(id)) EXCEPT !.known = TRUE])
    BY <1>3 DEF HelloRefused, HelloRedundant, EndCentral
  <2>2. ~Carried(id)
    BY <1>b, <2>1 DEF Carried, Live
  <2> QED BY <1>a, <1>d, <1>e, <1>f, <2>1, <2>2, BarredByMove
<1>4. CASE ChannelOpen(id) \/ (HelloAccepted(id) /\ Pipe[id.from] # "l2cap")
  <2>1. /\ st' = Enter("c", id, "raw") /\ due' = due
        /\ dev' = Noted(id, Bound(Record(id)))
    BY <1>4 DEF ChannelOpen, HelloAccepted, BindCentral
  <2>2. Carried(id)'
    BY <1>d, <1>e, <2>1 DEF Carried, Live
  <2> QED BY <1>a, <1>d, <1>e, <1>f, <2>1, <2>2, BarredByMove
<1>5. CASE CentralClose(id)
  <2>1. CASE st["c"][id] \in Live /\ Die("c", id) /\ dev' = dev
    <3>1. /\ st' = Enter("c", id, "closing")
          /\ due' = [due EXCEPT !["c"][id] = {"raw", "conn"}]
      BY <2>1 DEF Die
    <3>2. /\ due'["c"][id] = {"raw", "conn"}
          /\ \A y \in Ids : y # id =>
               /\ st'["c"][y] = st["c"][y] /\ due'["c"][y] = due["c"][y]
      BY <1>a, <3>1, EnterAt DEF TypeOK, States
    <3>3. Carried(id)' /\ Record(id).timer # id
      BY <1>c, <2>1, <3>2 DEF Carried, Early, Live
    <3> QED BY <1>a, <2>1, <3>2, <3>3, BarredByMove
  <2>2. CASE /\ st["c"][id] \in {"opening", "upgrading"} /\ due' = due
             /\ st' = Enter("c", id, "none") /\ dev' = Noted(id, BackedOff(Record(id)))
    <3>1. ~Carried(id)
      BY <1>b, <2>2 DEF Carried, Live
    <3> QED BY <1>a, <1>d, <1>e, <1>f, <2>2, <3>1, BarredByMove
  <2>3. CASE st' = st /\ due' = due /\ dev' = dev
    BY <1>a, <2>3, BarredByRest DEF Carried
  <2> QED BY <1>5, <2>1, <2>2, <2>3 DEF CentralClose, EndCentral
<1>6. CASE ChannelFail(id) \/ DialTimeout(id) \/ PeripheralError(id)
  <2>1. /\ due' = due /\ dev' = Noted(id, BackedOff(Record(id)))
        /\ \/ st' = st
           \/ /\ st["c"][id] \in {"dialing", "upgrading"}
              /\ st' = Enter("c", id, "none") \/ st' = Enter("c", id, "opening")
    BY <1>6 DEF ChannelFail, DialTimeout, PeripheralError, AbortDial
  <2>2. Carried(id) => Carried(id)'
    BY <1>b, <2>1 DEF Carried, Live
  <2>3. \A y \in Ids : y # id => /\ st'["c"][y] = st["c"][y] /\ due'["c"][y] = due["c"][y]
    BY <1>d, <1>e, <2>1
  <2> QED BY <1>a, <1>f, <2>1, <2>2, <2>3, BarredByMove
<1>7. CASE CentralStreamCloses(id)
  <2>1. /\ "raw" \in due["c"][id] /\ due' = [due EXCEPT !["c"][id] = @ \ {"raw"}]
        /\ st' = IF due["c"][id] = {"raw"} THEN Enter("c", id, "none") ELSE st
        /\ dev' = dev /\ st["c"][id] = "closing"
    BY <1>b, <1>7 DEF CentralStreamCloses, Closes
  <2>2. /\ due'["c"][id] = due["c"][id] \ {"raw"}
        /\ \A y \in Ids : y # id =>
             /\ st'["c"][y] = st["c"][y] /\ due'["c"][y] = due["c"][y]
    BY <1>a, <1>e, <2>1, EnterAt DEF TypeOK
  <2>3. (Carried(id) => Carried(id)') /\ Record(id).timer # id
    BY <1>c, <2>1, <2>2 DEF Carried, Live, Early
  <2> QED BY <1>a, <2>1, <2>2, <2>3, BarredByMove
<1> QED
  BY <1>1, <1>2, <1>3, <1>4, <1>5, <1>6, <1>7 DEF CentralStep

LEMMA BarredByConn ==
  ASSUME LinkInv, BarredForAReason, NEW r \in Ends, NEW id \in Ids, ConnStep(r, id)
  PROVE  BarredForAReason'
<1>a. TypeOK /\ "c" \in Ends /\ Record(id) \in DialRecord
  BY HelperTypes DEF LinkInv, Ends
<1>b. \A y \in Ids : EndKept("c", y)
  BY <1>a, ConnSpares
<1>c. \A y \in Ids : due["c"][y] # {} <=> st["c"][y] = "closing"
  BY <1>a DEF LinkInv, DueIffClosing
<1>d. \A y \in Ids : st["c"][y] \in Early => st'["c"][y] = st["c"][y]
  BY <1>b, <1>c DEF EndKept, Dies, Early, Live
<1>1. CASE r = "c" /\ ConnCloses(r, id)
  <2>1. /\ "conn" \in due["c"][id] /\ due' = [due EXCEPT !["c"][id] = @ \ {"conn"}]
        /\ st' = IF due["c"][id] = {"conn"} THEN Enter("c", id, "none") ELSE st
        /\ dev' = Noted(id, [Record(id) EXCEPT !.linked = FALSE])
        /\ st["c"][id] = "closing"
    BY <1>1, <1>c DEF ConnCloses, Closes
  <2>2. \A y \in Ids : y # id => /\ st'["c"][y] = st["c"][y] /\ due'["c"][y] = due["c"][y]
    BY <1>a, <2>1, EnterAt DEF TypeOK, States
  <2>3. Record(id).timer # id
    BY <1>a, <2>1, IdFacts, NoneAssumption DEF BarredForAReason, Record
  <2>4. /\ [Record(id) EXCEPT !.linked = FALSE].timer = Record(id).timer
        /\ [Record(id) EXCEPT !.linked = FALSE].linked = FALSE
    BY <1>a DEF DialRecord
  <2> QED BY <1>a, <2>1, <2>2, <2>3, <2>4, BarredByMove
<1>2. CASE ~(r = "c" /\ ConnCloses(r, id))
  <2>1. dev' = dev \/ dev' = Noted(id, [Record(id) EXCEPT !.known = TRUE])
    BY <1>2 DEF ConnStep, TrackYields, TrackKeeps, HandshakeDone, Notice, ConnCloses
  <2>2. \A d, e \in Devices : /\ dev'[d][e].timer = dev[d][e].timer
                              /\ dev'[d][e].linked = dev[d][e].linked
    <3>1. /\ [Record(id) EXCEPT !.known = TRUE].timer = Record(id).timer
          /\ [Record(id) EXCEPT !.known = TRUE].linked = Record(id).linked
      BY <1>a DEF DialRecord
    <3>2. CASE dev' = Noted(id, [Record(id) EXCEPT !.known = TRUE])
      <4>1. Record(id) = dev[id.from][id.to]
        BY DEF Record
      <4>2. \A d, e \in Devices :
              dev'[d][e] = IF d = id.from /\ e = id.to
                           THEN [Record(id) EXCEPT !.known = TRUE] ELSE dev[d][e]
        BY <1>a, <3>2, NotedElse
      <4> QED BY <3>1, <4>1, <4>2
    <3> QED BY <2>1, <3>2
  <2>3. ASSUME NEW y \in Ids, Carried(y)
        PROVE  Carried(y)'
    <3>1. CASE "conn" \in due["c"][y]
      BY <1>a, <1>2, <3>1, ConnSpares DEF Carried
    <3>2. CASE st["c"][y] \in Live
      BY <1>b, <1>c, <3>2 DEF EndKept, Dies, Carried, Live
    <3> QED BY <2>3, <3>1, <3>2 DEF Carried
  <2> QED BY <1>a, <1>d, <2>2, <2>3, BarredByRest
<1> QED BY <1>1, <1>2

LEMMA BarredByDevice ==
  ASSUME LinkInv, BarredForAReason, NEW d \in Devices, DeviceStep(d)
  PROVE  BarredForAReason'
<1>a. TypeOK /\ "c" \in Ends
  BY DEF LinkInv, Ends
<1>b. \A y \in Ids : due["c"][y] # {} <=> st["c"][y] = "closing"
  BY <1>a DEF LinkInv, DueIffClosing
<1>c. \A a, b \in Devices : dev[a][b] \in DialRecord
  BY <1>a DEF TypeOK
<1>1. CASE dev' = dev /\ st' = st /\ due' = due
  BY <1>a, <1>1, BarredByRest DEF Carried
<1>2. ASSUME NEW e \in Devices, CoolExpires(d, e)
      PROVE  BarredForAReason'
  <2>1. \A a, b \in Devices : /\ dev'[a][b].timer = dev[a][b].timer
                              /\ dev'[a][b].linked = dev[a][b].linked
    BY <1>a, <1>c, <1>2 DEF CoolExpires, TypeOK, DialRecord
  <2> QED BY <1>a, <1>2, <2>1, BarredByRest DEF CoolExpires, Carried
<1>3. CASE CentralError(d)
  <2>1. \A a, b \in Devices : /\ dev'[a][b].timer \in {None, dev[a][b].timer}
                              /\ a = d => dev'[a][b].timer = None
                              /\ dev'[a][b].linked = dev[a][b].linked
    BY <1>a, <1>c, <1>3 DEF CentralError, TypeOK, DialRecord
  <2>2. /\ due' = due
        /\ \/ st' = st
           \/ \E id \in Ids : id.from = d /\ st["c"][id] = "dialing" /\ st' = Enter("c", id, "none")
    BY <1>3 DEF CentralError, FailedAttempts
  <2>3. \A y \in Ids : /\ Carried(y) => Carried(y)'
                       /\ y.from # d => st'["c"][y] = st["c"][y]
    BY <1>a, <2>2, EnterAt DEF Carried, Live, States
  <2> SUFFICES ASSUME NEW a \in Devices, NEW b \in Devices
               PROVE  /\ dev'[a][b].timer # None =>
                           /\ dev'[a][b].timer.from = a /\ dev'[a][b].timer.to = b
                           /\ st'["c"][dev'[a][b].timer] \in Early
                      /\ dev'[a][b].linked =>
                           \E y \in Ids : y.from = a /\ y.to = b /\ Carried(y)'
    BY DEF BarredForAReason, Early, Carried, Live
  <2>4. /\ dev[a][b].timer \in Ids \cup {None}
        /\ dev[a][b].timer # None =>
             /\ dev[a][b].timer.from = a /\ dev[a][b].timer.to = b
             /\ st["c"][dev[a][b].timer] \in Early
        /\ dev[a][b].linked => \E y \in Ids : y.from = a /\ y.to = b /\ Carried(y)
    BY <1>c DEF DialRecord, BarredForAReason, Early, Carried
  <2> QED BY <2>1, <2>3, <2>4
<1> QED
  BY <1>1, <1>2, <1>3 DEF DeviceStep, Hold, FlushNone

LEMMA BarredStep ==
  ASSUME LinkInv, BarredForAReason, [Next]_vars
  PROVE  BarredForAReason'
<1>a. TypeOK
  BY DEF LinkInv
<1>1. CASE UNCHANGED vars
  BY <1>a, <1>1, BarredByRest DEF vars, Carried
<1>2. ASSUME NEW id \in Ids, ServerStep(id) \/ RadioStep(id)
      PROVE  BarredForAReason'
  BY <1>a, <1>2, ServerSpares, BarredByRest DEF Carried
<1> QED
  BY <1>1, <1>2, BarredByCentral, BarredByConn, BarredByDevice DEF Next

\* Nothing keeps a peripheral from being dialed, or makes a device refuse OPENs
\* as dialing, without a dial or a channel that is to end: for all faults, also
\* where one device has several dials to a peer.
THEOREM BarsEnd == Spec => []BarredForAReason
<1>1. Init => BarredForAReason
  BY IdFacts DEF Init, BarredForAReason
<1> QED BY <1>1, BarredStep, Invariant, PTL DEF Spec

-----------------------------------------------------------------------------
(* RetireSameChannel where a device redials a peer whose last channel is not   *)
(* over yet at the other end: two channels of one direction then meet at the   *)
(* server, which may retire one for the other.  It never retires them both,    *)
(* because neither will finish a handshake again.                              *)

\* The server end of x is past its handshake and no OPEN brings it back.
Spent(x) ==
  /\ st["s"][x] \notin {"pending", "raw"}
  /\ st["c"][x] # "dialing"
  /\ \A i \in DOMAIN out[x] : out[x][i] # "OPEN"

RetiredWell ==
  \A r \in Ends, x \in Ids : lost[r][x] # None =>
    \/ Opposite(x, lost[r][x]) /\ InitiatorWins(lost[r][x])
    \/ /\ r = "s" /\ Same(x, lost[r][x])
       /\ Spent(x) /\ Spent(lost[r][x]) /\ lost["s"][lost[r][x]] # x

LEMMA DialingByDial ==
  ASSUME LinkInv, [Next]_vars, NEW x \in Ids, st'["c"][x] = "dialing"
  PROVE  st["c"][x] = "dialing" \/ Dial(x)
<1>a. TypeOK /\ "c" \in Ends
  BY DEF LinkInv, Ends
<1>1. CASE UNCHANGED vars
  BY <1>1 DEF vars
<1>2. ASSUME NEW id \in Ids, CentralStep(id)
      PROVE  st["c"][x] = "dialing" \/ Dial(x)
  <2>1. \/ Dial(id) /\ st' = Enter("c", id, "dialing")
        \/ st' = st
        \/ \E s \in {"opening", "none", "upgrading", "raw", "closing"} : st' = Enter("c", id, s)
    BY <1>2 DEF CentralStep, Discover, Flush, Dial, Connected, HelloRefused, HelloRedundant,
       HelloAccepted, CentralClose, ChannelOpen, ChannelFail, DialTimeout, PeripheralError,
       CentralStreamCloses, Closes, Die, BindCentral, EndCentral
  <2>2. \A s \in {"dialing", "opening", "none", "upgrading", "raw", "closing"} :
          /\ Enter("c", id, s)["c"][id] = s
          /\ x # id => Enter("c", id, s)["c"][x] = st["c"][x]
    BY <1>a, EnterAt DEF States
  <2> QED BY <2>1, <2>2
<1>3. ASSUME NEW id \in Ids, ServerStep(id) \/ RadioStep(id)
      PROVE  st["c"][x] = "dialing"
  BY <1>3, ServerSpares
<1>4. ASSUME NEW r \in Ends, NEW id \in Ids, ConnStep(r, id)
      PROVE  st["c"][x] = "dialing"
  <2>1. EndKept("c", x)
    BY <1>a, <1>4, ConnSpares
  <2> QED BY <2>1 DEF EndKept, Dies
<1>5. ASSUME NEW d \in Devices, DeviceStep(d)
      PROVE  st["c"][x] = "dialing"
  <2>1. st' = st \/ \E id \in Ids : st' = Enter("c", id, "none")
    BY <1>5 DEF DeviceStep, Hold, CoolExpires, FlushNone, CentralError, FailedAttempts
  <2> QED BY <1>a, <2>1, EnterAt DEF States
<1> QED BY <1>1, <1>2, <1>3, <1>4, <1>5 DEF Next

LEMMA SpentKept ==
  ASSUME LinkInv, [Next]_vars, NEW x \in Ids, Spent(x), ~Dial(x)
  PROVE  Spent(x)'
<1>a. /\ out \in [Ids -> Seq({"OPEN", "CLOSE"})] /\ out[x] \in Seq({"OPEN", "CLOSE"})
      /\ "s" \in Ends
  BY DEF LinkInv, TypeOK, Ends
<1>1. st'["c"][x] # "dialing"
  BY DialingByDial DEF Spent
<1>2. st'["s"][x] \notin {"pending", "raw"}
  <2>1. EndMove("s", x)
    BY <1>a, EndMoves
  <2>2. ~ServerReads(x, "OPEN")
    BY <1>a DEF Spent, ServerReads
  <2> QED BY <2>1, <2>2 DEF EndMove, Progress, Dies, Spent
<1>3. \A i \in DOMAIN out'[x] : out'[x][i] # "OPEN"
  <2>1. ASSUME NEW id \in Ids, out' = [out EXCEPT ![id] = Append(@, "CLOSE")]
        PROVE  \A i \in DOMAIN out'[x] : out'[x][i] # "OPEN"
    <3>1. out'[x] = out[x] \/ out'[x] = Append(out[x], "CLOSE")
      BY <1>a, <2>1
    <3>2. \A i \in DOMAIN Append(out[x], "CLOSE") :
            \/ i \in DOMAIN out[x] /\ Append(out[x], "CLOSE")[i] = out[x][i]
            \/ Append(out[x], "CLOSE")[i] = "CLOSE"
      BY <1>a
    <3> QED BY <3>1, <3>2 DEF Spent
  <2>2. ASSUME NEW id \in Ids, out[id] # <<>>, out' = [out EXCEPT ![id] = Tail(@)]
        PROVE  \A i \in DOMAIN out'[x] : out'[x][i] # "OPEN"
    <3>1. out'[x] = out[x] \/ (out[x] # <<>> /\ out'[x] = Tail(out[x]))
      BY <1>a, <2>2
    <3>2. CASE out[x] # <<>> /\ out'[x] = Tail(out[x])
      <4>1. \A i \in DOMAIN Tail(out[x]) : i + 1 \in DOMAIN out[x] /\ Tail(out[x])[i] = out[x][i + 1]
        BY <1>a, <3>2
      <4> QED BY <3>2, <4>1 DEF Spent
    <3> QED BY <3>1, <3>2 DEF Spent
  <2>3. ASSUME NEW id \in Ids, Connected(id)
        PROVE  \A i \in DOMAIN out'[x] : out'[x][i] # "OPEN"
    <3>1. out'[x] = out[x]
      BY <1>a, <2>3 DEF Connected, Spent
    <3> QED BY <3>1 DEF Spent
  <2>4. CASE out' = out
    BY <2>4 DEF Spent
  <2> QED BY <2>1, <2>2, <2>3, <2>4, OutMoves
<1> QED BY <1>1, <1>2, <1>3 DEF Spent

\* An end past the start of its handshake has consumed its OPEN.
LEMMA BoundIsSpent ==
  ASSUME LinkInv, NEW x \in Ids, st["s"][x] # "none"
  PROVE  /\ st["c"][x] # "dialing"
         /\ \A i \in DOMAIN out[x] : out[x][i] # "OPEN"
BY DEF LinkInv, OpenComesFirst

\* The channel tracked next to one that finishes its handshake runs the other
\* way, or both are at their server.
LEMMA TrackedBeside ==
  ASSUME LinkInv, DialInv, NEW r \in Ends, NEW id \in Ids, st[r][id] = "raw",
         NEW old, old = peers[Owner(r, id)][Remote(r, id)], old # None
  PROVE  /\ old \in Ids
         /\ \/ Opposite(id, old)
            \/ r = "s" /\ Same(id, old) /\ st["s"][old] \in {"open", "closing"}
<1>1. Owner(r, id) \in Devices /\ Remote(r, id) \in Devices
  BY EndFacts
<1>2. PICK q \in Ends : /\ Owner(r, id) = Owner(q, old) /\ Remote(r, id) = Remote(q, old)
                        /\ \/ st[q][old] = "open"
                           \/ st[q][old] = "closing" /\ "conn" \in due[q][old]
  BY <1>1 DEF LinkInv, LinkTable
<1>3. old \in Ids
  BY <1>1 DEF LinkInv, TypeOK
<1>4. CASE q # r
  BY <1>2, <1>3, <1>4 DEF Opposite, Owner, Remote, Ends
<1>5. CASE q = r /\ r = "s"
  BY <1>2, <1>3, <1>5 DEF Same, Owner, Remote
<1>6. CASE q = r /\ r = "c"
  <2>1. Engaged(id) /\ Engaged(old) /\ Same(id, old)
    BY <1>2, <1>6 DEF Engaged, Carries, Live, Same, Owner, Remote
  <2>2. id = old
    BY <1>3, <2>1 DEF DialInv
  <2> QED BY <1>2, <1>6, <2>2
<1> QED BY <1>3, <1>4, <1>5, <1>6 DEF Ends

\* Spent in the next state, and RetiredWell for one retirement.
SpentAfter(x) ==
  /\ st'["s"][x] \notin {"pending", "raw"}
  /\ st'["c"][x] # "dialing"
  /\ \A i \in DOMAIN out'[x] : out'[x][i] # "OPEN"

WellAfter(q, x) ==
  \/ Opposite(x, lost'[q][x]) /\ InitiatorWins(lost'[q][x])
  \/ /\ q = "s" /\ Same(x, lost'[q][x])
     /\ SpentAfter(x) /\ SpentAfter(lost'[q][x]) /\ lost'["s"][lost'[q][x]] # x

LEMMA WellByTrack ==
  ASSUME LinkInv, DialInv, RetiredWell, [Next]_vars, \A x \in Ids : ~Dial(x),
         NEW r \in Ends, NEW id \in Ids, TrackYields(r, id) \/ TrackKeeps(r, id),
         NEW old, old = peers[Owner(r, id)][Remote(r, id)],
         NEW p, p = IF old # None /\ old.from = Owner(r, id) THEN "c" ELSE "s"
  PROVE  RetiredWell'
<1>1. st[r][id] = "raw"
  BY DEF TrackYields, TrackKeeps, HandshakeDone
<1>2. old # None => /\ old \in Ids /\ old # id
                    /\ \/ Opposite(id, old)
                       \/ r = "s" /\ Same(id, old) /\ st["s"][old] \in {"open", "closing"}
  <2>1. old # None => /\ old \in Ids
                      /\ \/ Opposite(id, old)
                         \/ r = "s" /\ Same(id, old) /\ st["s"][old] \in {"open", "closing"}
    BY <1>1, TrackedBeside
  <2> QED BY <1>1, <2>1, IdFacts DEF Opposite
<1>3. lost \in [Ends -> [Ids -> Ids \cup {None}]]
  BY DEF LinkInv, TypeOK
<1>4. \A x \in Ids : Spent(x) => SpentAfter(x)
  BY SpentKept DEF Spent, SpentAfter
<1>5. r = "s" => /\ SpentAfter(id)
                 /\ ~Spent(id)
                 /\ old # None /\ Same(id, old) => SpentAfter(old)
  <2>1. SUFFICES ASSUME r = "s"
                 PROVE  /\ SpentAfter(id) /\ ~Spent(id)
                        /\ old # None /\ Same(id, old) => SpentAfter(old)
    OBVIOUS
  <2>2. /\ st["c"][id] # "dialing" /\ \A i \in DOMAIN out[id] : out[id][i] # "OPEN"
        /\ ~Spent(id)
    BY <1>1, <2>1, BoundIsSpent DEF Spent
  <2>3. SpentAfter(id)
    <3>1. st'["s"][id] \in {"open", "closing"}
      <4>1. CASE TrackYields(r, id)
        BY <2>1, <4>1, EnterAt DEF TrackYields, Die, LinkInv, States
      <4>2. CASE TrackKeeps(r, id)
        BY <2>1, <4>2, KeepsFacts DEF Ends
      <4> QED BY <4>1, <4>2
    <3>2. out' = out
      BY DEF TrackYields, TrackKeeps
    <3>3. st'["c"][id] # "dialing"
      BY <2>2, DialingByDial
    <3> QED BY <2>2, <3>1, <3>2, <3>3 DEF SpentAfter
  <2>4. old # None /\ Same(id, old) => SpentAfter(old)
    <3> SUFFICES ASSUME old # None, Same(id, old) PROVE SpentAfter(old)
      OBVIOUS
    <3>1. st["s"][old] \in {"open", "closing"} /\ old \in Ids
      BY <1>2, IdFacts DEF Same, Opposite
    <3> QED BY <1>4, <3>1, BoundIsSpent DEF Spent
  <2> QED BY <2>2, <2>3, <2>4
<1>6. CASE TrackYields(r, id)
  <2>1. old # None /\ ~Preferred(r, id) /\ lost' = [lost EXCEPT ![r][id] = old]
    BY <1>6 DEF TrackYields, Yields
  <2>2. Opposite(id, old) => InitiatorWins(old)
    <3>1. Opposite(id, old) => Preferred(r, old)
      BY <1>2, <2>1, OneWinner DEF Opposite
    <3> QED BY <1>2, <2>1, <3>1, PreferredByKey DEF InitiatorWins
  <2>3. r = "s" /\ Same(id, old) => lost["s"][old] # id
    <3> SUFFICES ASSUME r = "s", Same(id, old), lost["s"][old] = id PROVE FALSE
      OBVIOUS
    <3>1. "s" \in Ends /\ id # None /\ old \in Ids /\ ~Opposite(old, id)
      BY <1>2, <2>1, NoneAssumption, IdFacts DEF Ends, Opposite, Same
    <3>2. Spent(id)
      BY <3>1 DEF RetiredWell
    <3> QED BY <1>5, <3>2
  <2>4. ASSUME NEW q \in Ends, NEW x \in Ids, lost'[q][x] # None, ~(q = r /\ x = id)
        PROVE  WellAfter(q, x)
    <3>1. lost'[q][x] = lost[q][x] /\ lost[q][x] \in Ids
      BY <1>3, <2>1, <2>4
    <3>2. CASE q = "s" /\ Same(x, lost[q][x])
      <4>1. Spent(x) /\ Spent(lost[q][x]) /\ lost["s"][lost[q][x]] # x
        BY <2>4, <3>1, <3>2, IdFacts DEF RetiredWell, Opposite, Same
      <4>2. r = "s" => lost[q][x] # id
        BY <1>5, <4>1
      <4>3. lost'["s"][lost[q][x]] = lost["s"][lost[q][x]]
        BY <1>3, <2>1, <3>1, <4>2 DEF Ends
      <4>4. SpentAfter(x) /\ SpentAfter(lost[q][x])
        BY <1>4, <3>1, <4>1
      <4> QED BY <3>1, <3>2, <4>1, <4>3, <4>4 DEF WellAfter
    <3> QED BY <2>4, <3>1, <3>2 DEF RetiredWell, WellAfter
  <2>5. lost'[r][id] = old
    BY <1>3, <2>1
  <2>6. r = "s" /\ Same(id, old) => lost'["s"][old] = lost["s"][old]
    BY <1>2, <1>3, <2>1 DEF Ends
  <2>7. \/ Opposite(id, old) /\ InitiatorWins(old)
        \/ /\ r = "s" /\ Same(id, old)
           /\ SpentAfter(id) /\ SpentAfter(old) /\ lost'["s"][old] # id
    BY <1>2, <1>5, <2>1, <2>2, <2>3, <2>6
  <2> QED
    <3> SUFFICES ASSUME NEW q \in Ends, NEW x \in Ids, lost'[q][x] # None
                 PROVE  WellAfter(q, x)
      BY DEF RetiredWell, WellAfter, SpentAfter, Opposite, Same, InitiatorWins, Spent
    <3> QED BY <2>4, <2>5, <2>7 DEF WellAfter
<1>7. CASE TrackKeeps(r, id)
  <2>1. lost' = lost \/ (old # None /\ lost' = [lost EXCEPT ![p][old] = id])
    BY <1>7 DEF TrackKeeps
  <2>2. old # None => InitiatorWins(id)
    BY <1>7, PreferredByKey DEF TrackKeeps, Yields, InitiatorWins
  <2>3. p \in Ends /\ (r = "s" /\ old # None /\ Same(id, old) => p = "s")
    BY IdFacts DEF Ends, Owner, Same
  <2>4. ASSUME NEW q \in Ends, NEW x \in Ids, lost'[q][x] # None, lost'[q][x] = lost[q][x]
        PROVE  WellAfter(q, x)
    <3>1. lost[q][x] \in Ids
      BY <1>3, <2>4
    <3>2. CASE q = "s" /\ Same(x, lost[q][x])
      <4>1. Spent(x) /\ Spent(lost[q][x]) /\ lost["s"][lost[q][x]] # x
        BY <2>4, <3>1, <3>2, IdFacts DEF RetiredWell, Opposite, Same
      <4>2. lost'["s"][lost[q][x]] # x
        <5> SUFFICES ASSUME lost'["s"][lost[q][x]] = x PROVE FALSE
          OBVIOUS
        <5>1. p = "s" /\ old = lost[q][x] /\ x = id /\ old # None
          BY <1>3, <2>1, <2>3, <3>1, <4>1, NoneAssumption DEF Ends
        <5>2. r = "s"
          BY <1>2, <3>2, <5>1, IdFacts DEF Opposite, Same
        <5> QED BY <1>5, <4>1, <5>1, <5>2
      <4>3. SpentAfter(x) /\ SpentAfter(lost[q][x])
        BY <1>4, <3>1, <4>1
      <4> QED BY <2>4, <3>2, <4>2, <4>3 DEF WellAfter
    <3> QED BY <2>4, <3>1, <3>2 DEF RetiredWell, WellAfter
  <2>5. ASSUME old # None, lost' = [lost EXCEPT ![p][old] = id]
        PROVE  /\ lost'[p][old] = id
               /\ \/ Opposite(old, id) /\ InitiatorWins(id)
                  \/ /\ p = "s" /\ Same(old, id)
                     /\ SpentAfter(old) /\ SpentAfter(id) /\ lost'["s"][id] # old
    <3>1. lost'[p][old] = id /\ old \in Ids /\ old # id
      BY <1>2, <1>3, <2>3, <2>5
    <3>2. CASE Opposite(id, old)
      BY <2>2, <2>5, <3>1, <3>2 DEF Opposite
    <3>3. CASE r = "s" /\ Same(id, old)
      <4>1. lost'["s"][id] = lost["s"][id]
        BY <1>3, <2>3, <2>5, <3>1 DEF Ends
      <4>2. lost["s"][id] # old
        <5> SUFFICES ASSUME lost["s"][id] = old PROVE FALSE
          OBVIOUS
        <5>1. "s" \in Ends /\ ~Opposite(id, old)
          BY <3>3, IdFacts DEF Ends, Opposite, Same
        <5>2. Spent(id)
          BY <2>5, <5>1 DEF RetiredWell
        <5> QED BY <1>5, <3>3, <5>2
      <4> QED BY <1>5, <2>3, <2>5, <3>1, <3>3, <4>1, <4>2 DEF Same
    <3> QED BY <1>2, <2>5, <3>2, <3>3
  <2>6. \A q \in Ends, x \in Ids :
          \/ lost'[q][x] = lost[q][x]
          \/ q = p /\ x = old /\ old # None /\ lost' = [lost EXCEPT ![p][old] = id]
    BY <1>3, <2>1, <2>3
  <2> QED
    <3> SUFFICES ASSUME NEW q \in Ends, NEW x \in Ids, lost'[q][x] # None
                 PROVE  WellAfter(q, x)
      BY DEF RetiredWell, WellAfter, SpentAfter, Opposite, Same, InitiatorWins, Spent
    <3> QED BY <2>4, <2>5, <2>6 DEF WellAfter
<1> QED BY <1>6, <1>7

LEMMA WellByDial ==
  ASSUME LinkInv, RetiredWell, [Next]_vars, NEW id \in Ids, Dial(id)
  PROVE  RetiredWell'
<1>1. \A q \in Ends, x \in Ids : \/ lost'[q][x] = None
                                  \/ /\ lost'[q][x] = lost[q][x]
                                     /\ x # id /\ lost[q][x] # id
  BY DEF Dial
<1>2. \A x \in Ids : Spent(x) /\ x # id => SpentAfter(x)
  <2>1. \A x \in Ids : Dial(x) => x = id
    BY EnterAt, IdFacts DEF Dial, LinkInv, Ends, States, Forgotten
  <2> QED BY <2>1, SpentKept DEF Spent, SpentAfter
<1>3. lost \in [Ends -> [Ids -> Ids \cup {None}]]
  BY DEF LinkInv, TypeOK
<1> SUFFICES ASSUME NEW q \in Ends, NEW x \in Ids, lost'[q][x] # None
             PROVE  WellAfter(q, x)
  BY DEF RetiredWell, WellAfter, SpentAfter, Opposite, Same, InitiatorWins, Spent
<1>4. /\ lost'[q][x] = lost[q][x] /\ lost[q][x] \in Ids
      /\ x # id /\ lost[q][x] # id
  BY <1>1, <1>3
<1>5. CASE Opposite(x, lost[q][x]) /\ InitiatorWins(lost[q][x])
  BY <1>4, <1>5 DEF WellAfter
<1>6. CASE /\ q = "s" /\ Same(x, lost[q][x])
           /\ Spent(x) /\ Spent(lost[q][x]) /\ lost["s"][lost[q][x]] # x
  <2>1. lost'["s"][lost[q][x]] # x
    BY <1>1, <1>4, <1>6, NoneAssumption DEF Ends
  <2> QED BY <1>2, <1>4, <1>6, <2>1 DEF WellAfter
<1> QED BY <1>4, <1>5, <1>6 DEF RetiredWell

LEMMA WellStep ==
  ASSUME LinkInv, DialInv, RetiredWell, [Next]_vars
  PROVE  RetiredWell'
<1>1. CASE \E id \in Ids : Dial(id)
  BY <1>1, WellByDial
<1>2. CASE /\ \A id \in Ids : ~Dial(id)
           /\ \E r \in Ends, id \in Ids : TrackYields(r, id) \/ TrackKeeps(r, id)
  BY <1>2, WellByTrack
<1>3. CASE lost' = lost /\ \A id \in Ids : ~Dial(id)
  <2>1. \A x \in Ids : Spent(x) => SpentAfter(x)
    BY <1>3, SpentKept DEF Spent, SpentAfter
  <2>2. lost \in [Ends -> [Ids -> Ids \cup {None}]]
    BY DEF LinkInv, TypeOK
  <2> SUFFICES ASSUME NEW q \in Ends, NEW x \in Ids, lost'[q][x] # None
               PROVE  WellAfter(q, x)
    BY DEF RetiredWell, WellAfter, SpentAfter, Opposite, Same, InitiatorWins, Spent
  <2> QED BY <1>3, <2>1, <2>2 DEF RetiredWell, WellAfter
<1> QED BY <1>1, <1>2, <1>3, LostStay

LEMMA WellAgrees ==
  ASSUME RetiredWell
  PROVE  RetireSameChannel
<1> SUFFICES ASSUME NEW r \in Ends, NEW q \in Ends, NEW x \in Ids, NEW y \in Ids,
                    lost[r][x] = y, lost[q][y] = x
             PROVE  FALSE
  BY DEF RetireSameChannel
<1>1. x # None /\ y # None
  BY NoneAssumption
<1>2. CASE Opposite(x, y)
  <2>1. InitiatorWins(x) /\ InitiatorWins(y)
    BY <1>1, <1>2, IdFacts DEF RetiredWell, Opposite, Same
  <2>2. Key[x.from] \in Nat /\ Key[x.to] \in Nat
    BY IdFacts, KeyAssumption
  <2> QED BY <1>2, <2>1, <2>2 DEF Opposite, InitiatorWins
<1>3. CASE ~Opposite(x, y)
  <2>1. r = "s" /\ lost["s"][y] # x
    BY <1>1, <1>3 DEF RetiredWell
  <2>2. q = "s"
    BY <1>1, <1>3 DEF RetiredWell, Opposite
  <2> QED BY <2>1, <2>2
<1> QED BY <1>2, <1>3

\* "Both must retire the SAME channel" (_track) however often a device redials a
\* peer, if a cooldown outlasts the leftovers of its dial and the adapter
\* reports no failed connection.
THEOREM SameChannelRedialed ==
  ASSUME Faults \cap {"slow", "centralError"} = {}
  PROVE  Spec => []RetireSameChannel
<1>1. Init => RetiredWell
  BY DEF Init, RetiredWell
<1>2. LinkInv /\ DialInv /\ [Next]_vars => DialInv'
  BY DialStep
<1>3. LinkInv /\ DialInv /\ RetiredWell /\ [Next]_vars => RetiredWell'
  BY WellStep
<1> QED
  BY <1>1, <1>2, <1>3, DialInit, WellAgrees, Invariant, PTL DEF Spec

\* What a device notes of sessions, dials and links is so, for all faults.
THEOREM RecordsKept == Spec => []RecordsTrue
BY TableTrue, BarsEnd, PeersAgree, PTL DEF RecordsTrue
=============================================================================

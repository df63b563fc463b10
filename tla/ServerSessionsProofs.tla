------------------------ MODULE ServerSessionsProofs ------------------------
(* Proofs about ServerSessions for any ids, limits and platform.            *)
EXTENDS ServerSessions, FiniteSetTheorems, TLAPS

\* Rotating keeps the types, and retracts nothing but the current psm.
LEMMA CycleFacts ==
  ASSUME TypeOK, Cycle
  PROVE  /\ psm' = 0 /\ lastPsm' = lastPsm
         /\ listeners' \subseteq listeners
         /\ publishing' \in Nat /\ publishing' + lastPsm' <= MaxPsm
BY ServerAssumption DEF TypeOK, Cycle, Unpublished

\* _maybeCycle either holds the rotation for a pending session or rotates.
LEMMA MaybeCycleFacts ==
  ASSUME TypeOK, MaybeCycle
  PROVE  /\ cyclePending' \in BOOLEAN
         /\ lastPsm' = lastPsm /\ listeners' \subseteq listeners
         /\ psm' \in {0, psm}
         /\ publishing' \in Nat /\ publishing' + lastPsm' <= MaxPsm
         /\ \/ Pending' # {} /\ cyclePending' = TRUE /\ psm' = psm /\ listeners' = listeners
            \/ Pending' = {} /\ cyclePending' = FALSE /\ psm' = 0
<1>1. CASE Pending' # {}
  BY <1>1, ServerAssumption DEF MaybeCycle, TypeOK, listener
<1>2. CASE Pending' = {}
  <2>1. Cycle /\ cyclePending' = FALSE
    BY <1>2 DEF MaybeCycle
  <2> QED
    BY <1>2, <2>1, CycleFacts
<1> QED
  BY <1>1, <1>2

\* _reapSession takes one session out of the table and rotates unless suspended.
LEMMA ReapFacts ==
  ASSUME TypeOK, NEW id \in sessions, Reap(id)
  PROVE  /\ sessions' = sessions \ {id}
         /\ burned' \subseteq burned \cup {given[id]}
         /\ burned \subseteq burned'
         /\ cyclePending' \in BOOLEAN
         /\ lastPsm' = lastPsm /\ listeners' \subseteq listeners
         /\ psm' \in {0, psm}
         /\ publishing' \in Nat /\ publishing' + lastPsm' <= MaxPsm
         /\ \/ suspended /\ psm' = psm /\ listeners' = listeners /\ cyclePending' = cyclePending
            \/ /\ ~suspended
               /\ \/ Pending' # {} /\ cyclePending' = TRUE /\ psm' = psm /\ listeners' = listeners
                  \/ Pending' = {} /\ cyclePending' = FALSE /\ psm' = 0
<1>1. sessions' = sessions \ {id} /\ burned' \subseteq burned \cup {given[id]} /\ burned \subseteq burned'
  BY DEF Reap
<1>2. CASE suspended
  BY <1>1, <1>2 DEF Reap, toggles, listener, TypeOK
<1>3. CASE ~suspended
  <2>1. MaybeCycle
    BY <1>3 DEF Reap
  <2> QED
    BY <1>1, <1>3, <2>1, MaybeCycleFacts
<1> QED
  BY <1>2, <1>3

-----------------------------------------------------------------------------
\* A psm that is given to a session of the table, or burned, was handed out.
LEMMA PsmFacts ==
  ASSUME SessionsInv
  PROVE  /\ lastPsm \in Nat /\ lastPsm <= MaxPsm /\ MaxPsm \in Nat
         /\ 1 .. lastPsm \subseteq 1 .. MaxPsm
         /\ \A i \in sessions : given[i] \in 1 .. lastPsm
         /\ burned \subseteq 1 .. lastPsm
<1>1. lastPsm \in Nat /\ publishing \in Nat /\ publishing + lastPsm <= MaxPsm /\ MaxPsm \in Nat
  BY ServerAssumption DEF SessionsInv, TypeOK
<1>2. lastPsm <= MaxPsm
  BY <1>1
<1>3. 1 .. lastPsm \subseteq 1 .. MaxPsm
  BY <1>1, <1>2
<1>4. ASSUME NEW i \in sessions PROVE given[i] \in 1 .. lastPsm
  <2>1. i \in Ids /\ given[i] # 0
    BY DEF SessionsInv, TypeOK
  <2>2. given[i] \in 0 .. lastPsm
    BY <2>1 DEF SessionsInv, PsmOrder
  <2> QED
    BY <1>1, <2>1, <2>2
<1> QED
  BY <1>1, <1>2, <1>3, <1>4 DEF SessionsInv, PsmOrder

LEMMA InitInv == Init => SessionsInv
<1> SUFFICES ASSUME Init PROVE SessionsInv
  OBVIOUS
<1>1. TypeOK
  <2>1. MaxPsm \in Nat /\ 1 <= MaxPsm
    BY ServerAssumption
  <2>2. /\ used \subseteq Ids /\ sessions \subseteq used
        /\ stream \in [Ids -> {"none", "live", "dying", "closed"}]
        /\ chan \in [Ids -> {"none", "opening", "unread", "done"}]
        /\ cyclePending \in BOOLEAN /\ suspended \in BOOLEAN
        /\ told \subseteq used /\ torn \in BOOLEAN
        /\ \A id \in sessions : given[id] # 0
    BY DEF Init
  <2>3. given \in [Ids -> 0 .. MaxPsm] /\ psm \in 0 .. MaxPsm /\ draining \in 0 .. MaxDrains
    BY <2>1, ServerAssumption DEF Init
  <2>4. /\ listeners \subseteq 1 .. MaxPsm /\ burned \subseteq 1 .. MaxPsm
        /\ publishing \in Nat /\ lastPsm \in Nat /\ publishing + lastPsm <= MaxPsm
    BY <2>1 DEF Init
  <2> QED
    BY <2>2, <2>3, <2>4 DEF TypeOK
<1>2. PsmOrder /\ PsmPublished /\ StreamOfUsed /\ SuspendClears
  BY DEF Init, PsmOrder, PsmPublished, StreamOfUsed, SuspendClears
<1>3. GoodbyeSaid /\ NeverYanked /\ DeadPsmRotates
  BY DEF Init, GoodbyeSaid, NeverYanked, DeadPsmRotates, BurnedIsDue, Pending
<1> QED
  BY <1>1, <1>2, <1>3 DEF SessionsInv

\* What the steps that may rotate have in common: sessions leave the table or
\* get bound, and the listener is rotated with no session pending, or held for
\* one, or left alone.
Rotates ==
  /\ lastPsm' = lastPsm /\ publishing' \in Nat /\ publishing' + lastPsm' <= MaxPsm
  /\ listeners' \subseteq listeners
  /\ cyclePending' \in BOOLEAN
  /\ \/ Pending' # {} /\ cyclePending' = TRUE /\ psm' = psm /\ listeners' = listeners
     \/ Pending' = {} /\ cyclePending' = FALSE /\ psm' = 0

Rests ==
  /\ lastPsm' = lastPsm /\ publishing' = publishing
  /\ listeners' = listeners /\ cyclePending' = cyclePending /\ psm' = psm

LEMMA ShrinkInv ==
  ASSUME SessionsInv,
         used' = used, given' = given, sessions' \subseteq sessions,
         stream' \in [Ids -> {"none", "live", "dying", "closed"}],
         StreamOfUsed', Pending' \subseteq Pending,
         chan' \in [Ids -> {"none", "opening", "unread", "done"}],
         UNCHANGED toggles,
         \A b \in burned' : b \in burned \/ \E i \in sessions : b = given[i],
         \/ Rotates /\ (suspended => burned' = burned /\ sessions # {})
         \/ Rests /\ (suspended \/ burned' = burned)
  PROVE  SessionsInv'
<1> USE DEF SessionsInv
<1>1. burned' \subseteq 1 .. lastPsm /\ lastPsm' = lastPsm /\ lastPsm \in Nat /\ lastPsm <= MaxPsm
  BY PsmFacts DEF Rotates, Rests
<1>2. listeners' \subseteq listeners /\ psm' \in {0, psm} /\ cyclePending' \in BOOLEAN
  BY DEF Rotates, Rests, TypeOK
<1>3. TypeOK'
  <2>1. /\ used' \subseteq Ids /\ sessions' \subseteq used'
        /\ given' \in [Ids -> 0 .. MaxPsm] /\ \A i \in sessions' : given'[i] # 0
        /\ suspended' \in BOOLEAN /\ draining' \in 0 .. MaxDrains
        /\ told' \subseteq used' /\ torn' \in BOOLEAN
    BY DEF TypeOK, toggles
  <2>2. psm' \in 0 .. MaxPsm /\ listeners' \subseteq 1 .. MaxPsm /\ burned' \subseteq 1 .. MaxPsm
    BY <1>1, <1>2, PsmFacts DEF TypeOK
  <2>3. publishing' \in Nat /\ lastPsm' \in Nat /\ publishing' + lastPsm' <= MaxPsm
    BY DEF TypeOK, Rotates, Rests
  <2> QED
    BY <1>2, <2>1, <2>2, <2>3 DEF TypeOK
<1>4. PsmOrder'
  BY <1>1, <1>2 DEF PsmOrder, TypeOK
<1>5. PsmPublished'
  BY DEF PsmPublished, Rotates, Rests
<1>6. SuspendClears' /\ GoodbyeSaid'
  BY DEF SuspendClears, GoodbyeSaid, Rotates, Rests, toggles
<1>7. NeverYanked'
  BY DEF NeverYanked, Rotates, Rests, toggles
<1>8. DeadPsmRotates'
  BY <1>1 DEF DeadPsmRotates, BurnedIsDue, Rotates, Rests, toggles
<1> QED
  BY <1>3, <1>4, <1>5, <1>6, <1>7, <1>8

\* One step of one session.
LEMMA SessionInv ==
  ASSUME SessionsInv, NEW id \in Ids, SessionStep(id)
  PROVE  SessionsInv'
<1>t. TypeOK /\ StreamOfUsed
  BY DEF SessionsInv
<1>1. CASE OpenAccepted(id)
  BY <1>1, ServerAssumption
  DEF OpenAccepted, toggles, listener, SessionsInv, PsmOrder, PsmPublished, StreamOfUsed, SuspendClears,
      GoodbyeSaid, NeverYanked, DeadPsmRotates, BurnedIsDue, Pending, TypeOK
<1>2. CASE OpenRefused(id)
  BY <1>2, ServerAssumption
  DEF OpenRefused, toggles, listener, SessionsInv, PsmOrder, PsmPublished, StreamOfUsed, SuspendClears,
      GoodbyeSaid, NeverYanked, DeadPsmRotates, BurnedIsDue, Pending, TypeOK
<1>3. CASE SessionFrame(id)
  <2>1. id \in sessions /\ Reap(id) /\ ~suspended
    BY <1>3 DEF SessionFrame
  <2>2. /\ used' = used /\ given' = given /\ chan' = chan
        /\ UNCHANGED toggles
        /\ stream' = [stream EXCEPT ![id] = IF @ = "live" THEN "dying" ELSE @]
    BY <1>3 DEF SessionFrame
  <2>3. /\ stream' \in [Ids -> {"none", "live", "dying", "closed"}]
        /\ \A i \in Ids : stream'[i] = "none" <=> stream[i] = "none"
    BY <1>t, <2>2 DEF TypeOK
  <2>4. StreamOfUsed' /\ Pending' \subseteq Pending
    <3>1. sessions' \subseteq sessions /\ sessions \subseteq Ids
      BY <1>t, <2>1, ReapFacts DEF TypeOK
    <3> QED
      BY <1>t, <2>2, <2>3, <3>1 DEF StreamOfUsed, Pending
  <2>5. Rotates /\ \A b \in burned' : b \in burned \/ \E i \in sessions : b = given[i]
    BY <1>t, <2>1, ReapFacts DEF Rotates
  <2>6. chan' \in [Ids -> {"none", "opening", "unread", "done"}] /\ sessions' \subseteq sessions
    BY <1>t, <2>1, <2>2, ReapFacts DEF TypeOK
  <2> QED
    BY <2>1, <2>2, <2>3, <2>4, <2>5, <2>6, ShrinkInv
<1>4. CASE ChannelOpens(id)
  BY <1>4
  DEF ChannelOpens, toggles, listener, table, SessionsInv, PsmOrder, PsmPublished, StreamOfUsed,
      SuspendClears, GoodbyeSaid, NeverYanked, DeadPsmRotates, BurnedIsDue, Pending, TypeOK
<1>5. CASE ChannelGivenUp(id)
  BY <1>5
  DEF ChannelGivenUp, toggles, listener, table, SessionsInv, PsmOrder, PsmPublished, StreamOfUsed,
      SuspendClears, GoodbyeSaid, NeverYanked, DeadPsmRotates, BurnedIsDue, Pending, TypeOK
<1>6. CASE PreambleUnmatched(id)
  BY <1>6
  DEF PreambleUnmatched, toggles, listener, table, SessionsInv, PsmOrder, PsmPublished, StreamOfUsed,
      SuspendClears, GoodbyeSaid, NeverYanked, DeadPsmRotates, BurnedIsDue, Pending, TypeOK
<1>7. CASE PreambleBinds(id)
  <2>1. /\ id \in Pending /\ used' = used /\ given' = given /\ sessions' = sessions
        /\ UNCHANGED toggles /\ burned' = burned
        /\ chan' = [chan EXCEPT ![id] = "done"]
        /\ stream' = [stream EXCEPT ![id] = IF suspended THEN "dying" ELSE "live"]
    BY <1>7 DEF PreambleBinds
  <2>2. stream' \in [Ids -> {"none", "live", "dying", "closed"}]
        /\ \A i \in Ids : stream'[i] = "none" => stream[i] = "none"
    BY <1>t, <2>1 DEF TypeOK
  <2>3. id \in used /\ \A i \in Ids : i # id => stream'[i] = stream[i]
    BY <1>t, <2>1 DEF TypeOK, Pending
  <2>4. StreamOfUsed' /\ Pending' \subseteq Pending
    BY <1>t, <2>1, <2>2, <2>3 DEF StreamOfUsed, Pending, TypeOK
  <2>5. chan' \in [Ids -> {"none", "opening", "unread", "done"}] /\ sessions # {}
    BY <1>t, <2>1 DEF TypeOK, Pending
  <2>6. CASE cyclePending
    <3>1. MaybeCycle
      BY <1>7, <2>6 DEF PreambleBinds
    <3>2. Rotates
      BY <1>t, <3>1, MaybeCycleFacts DEF Rotates
    <3> QED
      BY <2>1, <2>2, <2>4, <2>5, <3>2, ShrinkInv
  <2>7. CASE ~cyclePending
    <3>1. Rests
      BY <1>7, <2>7 DEF PreambleBinds, Rests, listener
    <3> QED
      BY <2>1, <2>2, <2>4, <2>5, <3>1, ShrinkInv
  <2> QED
    BY <2>6, <2>7
<1>8. CASE StreamDies(id)
  BY <1>8
  DEF StreamDies, toggles, listener, SessionsInv, PsmOrder, PsmPublished, StreamOfUsed,
      SuspendClears, GoodbyeSaid, NeverYanked, DeadPsmRotates, BurnedIsDue, Pending, TypeOK
<1>9. CASE StreamCloses(id)
  <2>1. /\ used' = used /\ given' = given /\ chan' = chan
        /\ UNCHANGED toggles
        /\ stream[id] = "dying" /\ stream' = [stream EXCEPT ![id] = "closed"]
    BY <1>9 DEF StreamCloses
  <2>2. /\ stream' \in [Ids -> {"none", "live", "dying", "closed"}]
        /\ \A i \in Ids : stream'[i] = "none" <=> stream[i] = "none"
    BY <1>t, <2>1 DEF TypeOK
  <2>3. chan' \in [Ids -> {"none", "opening", "unread", "done"}]
    BY <1>t, <2>1 DEF TypeOK
  <2>4. CASE id \in sessions
    <3>1. Reap(id)
      BY <1>9, <2>4 DEF StreamCloses
    <3>2. StreamOfUsed' /\ Pending' \subseteq Pending /\ sessions' \subseteq sessions
      BY <1>t, <2>1, <2>2, <2>4, <3>1, ReapFacts DEF StreamOfUsed, Pending, TypeOK
    <3>3. \A b \in burned' : b \in burned \/ \E i \in sessions : b = given[i]
      BY <1>t, <2>4, <3>1, ReapFacts
    <3>4. CASE suspended
      <4>1. Rests
        BY <3>1, <3>4 DEF Reap, Rests, listener
      <4> QED
        BY <2>1, <2>2, <2>3, <3>2, <3>3, <3>4, <4>1, ShrinkInv
    <3>5. CASE ~suspended
      <4>1. Rotates
        BY <1>t, <2>4, <3>1, <3>5, ReapFacts DEF Rotates
      <4> QED
        BY <2>1, <2>2, <2>3, <3>2, <3>3, <3>5, <4>1, ShrinkInv
    <3> QED
      BY <3>4, <3>5
  <2>5. CASE id \notin sessions
    <3>1. Rests /\ burned' = burned /\ sessions' = sessions
      BY <1>9, <2>5 DEF StreamCloses, Rests, listener
    <3>2. StreamOfUsed' /\ Pending' \subseteq Pending
      BY <1>t, <2>1, <2>2, <3>1 DEF StreamOfUsed, Pending, TypeOK
    <3> QED
      BY <2>1, <2>2, <2>3, <3>1, <3>2, ShrinkInv
  <2> QED
    BY <2>4, <2>5
<1>10. CASE PipeTimeout(id)
  BY <1>10
  DEF PipeTimeout, toggles, listener, SessionsInv, PsmOrder, PsmPublished, StreamOfUsed,
      SuspendClears, GoodbyeSaid, NeverYanked, DeadPsmRotates, BurnedIsDue, Pending, TypeOK
<1> QED
  BY <1>1, <1>2, <1>3, <1>4, <1>5, <1>6, <1>7, <1>8, <1>9, <1>10 DEF SessionStep

LEMMA InvStep == SessionsInv /\ [Next]_vars => SessionsInv'
<1> SUFFICES ASSUME SessionsInv, [Next]_vars PROVE SessionsInv'
  OBVIOUS
<1>1. CASE \E id \in Ids : SessionStep(id)
  BY <1>1, SessionInv
<1>2. CASE ChannelPublished
  BY <1>2, ServerAssumption
  DEF ChannelPublished, toggles, table, SessionsInv, PsmOrder, PsmPublished, StreamOfUsed,
      SuspendClears, GoodbyeSaid, NeverYanked, DeadPsmRotates, BurnedIsDue, Pending, TypeOK
<1>3. CASE Suspend
  <2> USE DEF SessionsInv
  <2>1. /\ suspended' = TRUE /\ draining < MaxDrains /\ draining' = draining + 1
        /\ told' = told \cup sessions /\ torn' = torn
        /\ UNCHANGED <<used, sessions, stream, given, chan, cyclePending, burned>>
        /\ UNCHANGED <<psm, listeners, publishing, lastPsm>>
    BY <1>3 DEF Suspend, table, listener
  <2>2. draining \in Nat /\ draining' \in 0 .. MaxDrains /\ draining' # 0
    BY <2>1, ServerAssumption DEF TypeOK
  <2>3. TypeOK'
    BY <2>1, <2>2 DEF TypeOK
  <2>4. PsmOrder' /\ PsmPublished' /\ StreamOfUsed'
    BY <2>1 DEF PsmOrder, PsmPublished, StreamOfUsed
  <2>5. SuspendClears' /\ GoodbyeSaid' /\ NeverYanked' /\ DeadPsmRotates'
    BY <2>1, <2>2 DEF SuspendClears, GoodbyeSaid, NeverYanked, DeadPsmRotates, BurnedIsDue, Pending
  <2> QED
    BY <2>3, <2>4, <2>5
<1>4. CASE SuspendEnds
  <2> USE DEF SessionsInv
  <2>1. /\ draining > 0 /\ draining' = draining - 1 /\ suspended' = suspended /\ sessions' = {}
        /\ told' = told /\ torn' = (torn \/ ~suspended)
        /\ used' = used /\ given' = given /\ chan' = chan /\ cyclePending' = FALSE
        /\ publishing' = publishing /\ lastPsm' = lastPsm
        /\ psm' \in {0, psm} /\ listeners' \subseteq listeners
        /\ (psm' = psm /\ listeners' = listeners) \/ psm' = 0
    BY <1>4 DEF SuspendEnds, ReapAll, Retract, listener, Unpublished
  <2>2. \A b \in burned' : b \in burned \/ \E i \in sessions : b = given[i]
    BY <1>4 DEF SuspendEnds, ReapAll, Pending
  <2>3. /\ stream' \in [Ids -> {"none", "live", "dying", "closed"}]
        /\ \A i \in Ids : stream'[i] = "none" <=> stream[i] = "none"
    BY <1>4 DEF SuspendEnds, ReapAll, TypeOK
  <2>4. burned' \subseteq 1 .. lastPsm
    BY <2>2, PsmFacts
  <2>5. TypeOK'
    <3>1. burned' \subseteq 1 .. MaxPsm /\ listeners' \subseteq 1 .. MaxPsm /\ psm' \in 0 .. MaxPsm
      BY <2>1, <2>4, PsmFacts DEF TypeOK
    <3>2. /\ publishing' \in Nat /\ lastPsm' \in Nat /\ publishing' + lastPsm' <= MaxPsm
          /\ given' \in [Ids -> 0 .. MaxPsm]
      BY <2>1 DEF TypeOK
    <3>3. /\ used' \subseteq Ids /\ sessions' \subseteq used' /\ \A i \in sessions' : given'[i] # 0
          /\ chan' \in [Ids -> {"none", "opening", "unread", "done"}]
          /\ cyclePending' \in BOOLEAN /\ told' \subseteq used'
      BY <2>1 DEF TypeOK
    <3>4. draining' \in 0 .. MaxDrains
      BY <2>1, ServerAssumption DEF TypeOK
    <3>5. suspended' \in BOOLEAN /\ torn' \in BOOLEAN
      BY <2>1, Zenon DEF TypeOK
    <3> QED
      BY <2>3, <3>1, <3>2, <3>3, <3>4, <3>5 DEF TypeOK
  <2>6. PsmOrder' /\ PsmPublished' /\ StreamOfUsed'
    BY <2>1, <2>3, <2>4 DEF PsmOrder, PsmPublished, StreamOfUsed, TypeOK
  <2>7. SuspendClears' /\ GoodbyeSaid' /\ NeverYanked' /\ DeadPsmRotates'
    BY <2>1 DEF SuspendClears, GoodbyeSaid, NeverYanked, DeadPsmRotates, BurnedIsDue, Pending
  <2> QED
    BY <2>5, <2>6, <2>7
<1>5. CASE Resume
  <2> USE DEF SessionsInv
  <2>1. TypeOK /\ Cycle /\ suspended' = FALSE /\ torn' = FALSE
        /\ UNCHANGED <<used, sessions, stream, given, chan, cyclePending, draining, told, burned>>
        /\ sessions \subseteq told
    BY <1>5 DEF Resume, table, GoodbyeSaid
  <2>2. /\ psm' = 0 /\ lastPsm' = lastPsm /\ listeners' \subseteq listeners
        /\ publishing' \in Nat /\ publishing' + lastPsm' <= MaxPsm
    BY <2>1, CycleFacts
  <2>3. TypeOK'
    <3>1. psm' \in 0 .. MaxPsm /\ listeners' \subseteq 1 .. MaxPsm
      BY <2>2, PsmFacts DEF TypeOK
    <3>2. /\ used' \subseteq Ids /\ sessions' \subseteq used' /\ \A i \in sessions' : given'[i] # 0
          /\ stream' \in [Ids -> {"none", "live", "dying", "closed"}]
          /\ given' \in [Ids -> 0 .. MaxPsm] /\ burned' \subseteq 1 .. MaxPsm
          /\ chan' \in [Ids -> {"none", "opening", "unread", "done"}]
          /\ cyclePending' \in BOOLEAN /\ suspended' \in BOOLEAN /\ draining' \in 0 .. MaxDrains
          /\ told' \subseteq used' /\ torn' \in BOOLEAN
      BY <2>1, ServerAssumption DEF TypeOK
    <3>3. lastPsm' \in Nat
      BY <2>2, PsmFacts
    <3> QED
      BY <2>2, <3>1, <3>2, <3>3 DEF TypeOK
  <2>4. PsmOrder' /\ PsmPublished' /\ StreamOfUsed'
    BY <2>1, <2>2 DEF PsmOrder, PsmPublished, StreamOfUsed, TypeOK
  <2>5. SuspendClears' /\ GoodbyeSaid' /\ NeverYanked' /\ DeadPsmRotates'
    BY <2>1, <2>2, PsmFacts
    DEF SuspendClears, GoodbyeSaid, NeverYanked, DeadPsmRotates, BurnedIsDue, Pending
  <2> QED
    BY <2>3, <2>4, <2>5
<1>6. CASE UNCHANGED vars
  BY <1>6
  DEF vars, toggles, table, listener, SessionsInv, PsmOrder, PsmPublished, StreamOfUsed,
      SuspendClears, GoodbyeSaid, NeverYanked, DeadPsmRotates, BurnedIsDue, Pending, TypeOK
<1> QED
  BY <1>1, <1>2, <1>3, <1>4, <1>5, <1>6 DEF Next

\* The bookkeeping of the sessions and the listener is consistent.
THEOREM Invariant == Spec => []SessionsInv
<1>1. Init => SessionsInv
  BY InitInv
<1>2. SessionsInv /\ [Next]_vars => SessionsInv'
  BY InvStep
<1> QED
  BY <1>1, <1>2, PTL DEF Spec

\* The psm is never yanked from under a session opening its channel, whatever
\* the centrals do, however slowly the OS publishes and however suspends and
\* resumes overlap, unless a suspend has told the central to close.
THEOREM NeverYankedCorrect == Spec => []NeverYanked
<1>1. SessionsInv => NeverYanked
  BY DEF SessionsInv
<1> QED
  BY <1>1, Invariant, PTL

\* No HELLO carries a psm that a dead session pins, unless a rotation is due or a
\* suspend has ended on a transport resumed meanwhile.
THEOREM DeadPsmRotatesCorrect == Spec => []DeadPsmRotates
<1>1. SessionsInv => DeadPsmRotates
  BY DEF SessionsInv
<1> QED
  BY <1>1, Invariant, PTL

-----------------------------------------------------------------------------
\* Whatever step leaves no session pending, but for the pipe timer, has looked
\* after the rotation held for them.
LEMMA LastOneStep ==
  ASSUME SessionsInv, [Next]_vars, ~suspended, cyclePending, Pending # {}, Pending' = {}
  PROVE  ~cyclePending' \/ \E id \in Pending : PipeTimeout(id)
<1>t. TypeOK
  BY DEF SessionsInv
<1>1. ASSUME NEW id \in Ids, SessionStep(id)
      PROVE  ~cyclePending' \/ \E i \in Pending : PipeTimeout(i)
  <2>1. CASE SessionFrame(id)
    <3>1. id \in sessions /\ Reap(id)
      BY <2>1 DEF SessionFrame
    <3> QED
      BY <1>t, <3>1, ReapFacts
  <2>2. CASE PreambleBinds(id)
    <3>1. MaybeCycle
      BY <2>2 DEF PreambleBinds
    <3> QED
      BY <1>t, <3>1, MaybeCycleFacts
  <2>3. CASE StreamCloses(id)
    <3>1. CASE id \in sessions
      <4>1. Reap(id)
        BY <2>3, <3>1 DEF StreamCloses
      <4> QED
        BY <1>t, <3>1, <4>1, ReapFacts
    <3>2. CASE id \notin sessions
      <4>1. sessions' = sessions /\ stream[id] = "dying" /\ stream' = [stream EXCEPT ![id] = "closed"]
        BY <2>3, <3>2 DEF StreamCloses
      <4> QED
        BY <1>t, <3>2, <4>1 DEF Pending, TypeOK
    <3> QED
      BY <3>1, <3>2
  <2>4. CASE PipeTimeout(id)
    <3>1. id \in Pending
      BY <2>4 DEF PipeTimeout
    <3> QED
      BY <2>4, <3>1
  <2>5. CASE OpenAccepted(id)
    BY <1>t, <2>5 DEF OpenAccepted, Pending
  <2>6. CASE OpenRefused(id)
    BY <2>6 DEF OpenRefused, Pending
  <2>7. CASE ChannelOpens(id) \/ ChannelGivenUp(id) \/ PreambleUnmatched(id)
    BY <2>7 DEF ChannelOpens, ChannelGivenUp, PreambleUnmatched, Pending, table
  <2>8. CASE StreamDies(id)
    BY <1>t, <2>8 DEF StreamDies, Pending, TypeOK
  <2> QED
    BY <1>1, <2>1, <2>2, <2>3, <2>4, <2>5, <2>6, <2>7, <2>8 DEF SessionStep
<1>2. CASE ChannelPublished \/ Suspend \/ Resume \/ UNCHANGED vars
  BY <1>2 DEF ChannelPublished, Suspend, Resume, vars, table, Pending
<1>3. CASE SuspendEnds
  BY <1>3 DEF SuspendEnds
<1> QED
  BY <1>1, <1>2, <1>3 DEF Next

\* A held rotation is not forgotten by the step that resolves the last pending
\* session, whatever suspends and resumes overlap, unless that is the pipe timer.
THEOREM LastOneRotatesCorrect == Spec => LastOneRotates
<1>1. SessionsInv /\ [Next]_vars
      => [/\ ~suspended /\ cyclePending
          /\ Pending # {} /\ Pending' = {}
          => ~cyclePending' \/ \E id \in Pending : PipeTimeout(id)]_vars
  BY LastOneStep
<1> QED
  BY <1>1, Invariant, PTL DEF Spec, LastOneRotates

-----------------------------------------------------------------------------
\* Why OneListener and SuspendRetracts hold where the OS answers publishChannel
\* before anything else happens: the only channel published is the one unpublish
\* knows of, and none is being published when a suspend has completed.
OnlyCurrent ==
  /\ publishing \in {0, 1}
  /\ listeners \subseteq {psm}
  /\ publishing = 1 => listeners = {}

Retracted == Mac /\ suspended /\ draining = 0 => listeners = {} /\ publishing = 0

ListenerInv == OnlyCurrent /\ Retracted

\* Rotating leaves the listener alone or replaces the one there was.
Replaced ==
  /\ listeners' = {} /\ publishing' = 1

LEMMA CycleReplaces ==
  ASSUME OnlyCurrent, publishing = 0, Cycle
  PROVE  Replaced
BY DEF OnlyCurrent, Cycle, Unpublished, Replaced

LEMMA MaybeCycleReplaces ==
  ASSUME OnlyCurrent, publishing = 0, MaybeCycle
  PROVE  UNCHANGED listener \/ Replaced
BY CycleReplaces DEF MaybeCycle

LEMMA ListenerStep ==
  ASSUME SlowPublish = FALSE
  PROVE  SessionsInv /\ ListenerInv /\ [Next]_vars => ListenerInv'
<1> SUFFICES ASSUME SessionsInv, ListenerInv, [Next]_vars PROVE ListenerInv'
  OBVIOUS
<1>t. TypeOK /\ SuspendClears /\ OnlyCurrent /\ Retracted
  BY DEF SessionsInv, ListenerInv
<1>o. ASSUME UNCHANGED listener \/ Replaced PROVE OnlyCurrent'
  BY <1>t, <1>o DEF OnlyCurrent, toggles, listener, Replaced
<1>r. ASSUME UNCHANGED listener, UNCHANGED toggles
      PROVE  Retracted'
  BY <1>t, <1>r DEF Retracted, toggles, listener
<1>1. ASSUME NEW id \in Ids, SessionStep(id), publishing = 0 PROVE ListenerInv'
  <2>1. UNCHANGED toggles
    BY <1>1
    DEF SessionStep, OpenAccepted, OpenRefused, SessionFrame, ChannelOpens, ChannelGivenUp,
        PreambleUnmatched, PreambleBinds, StreamDies, StreamCloses, PipeTimeout
  <2>2. CASE UNCHANGED listener
    BY <1>o, <1>r, <2>1, <2>2 DEF ListenerInv
  <2>3. CASE ~UNCHANGED listener
    <3>1. \/ SessionFrame(id)
          \/ PreambleBinds(id) /\ cyclePending
          \/ StreamCloses(id) /\ id \in sessions
      BY <1>1, <2>3
      DEF SessionStep, OpenAccepted, OpenRefused, ChannelOpens, ChannelGivenUp,
          PreambleUnmatched, PreambleBinds, StreamDies, StreamCloses, PipeTimeout
    <3>2. MaybeCycle
      BY <3>1, <2>3 DEF SessionFrame, PreambleBinds, StreamCloses, Reap
    <3>3. Replaced
      BY <1>1, <1>t, <2>3, <3>2, MaybeCycleReplaces
    <3>4. ~(suspended /\ draining = 0)
      BY <1>t, <3>1 DEF SuspendClears, SessionFrame
    <3> QED
      BY <1>o, <2>1, <3>3, <3>4 DEF ListenerInv, Retracted, toggles
  <2> QED
    BY <2>2, <2>3
<1>2. CASE ChannelPublished
  <2>1. publishing = 1 /\ publishing' = 0 /\ psm' = lastPsm + 1 /\ listeners' = {psm'}
    BY <1>2, <1>t DEF ChannelPublished, OnlyCurrent
  <2>2. UNCHANGED toggles
    BY <1>2 DEF ChannelPublished
  <2> QED
    BY <1>t, <2>1, <2>2 DEF ListenerInv, OnlyCurrent, Retracted, toggles
<1>3. CASE Suspend
  BY <1>3, <1>o, <1>t DEF Suspend, ListenerInv, Retracted, TypeOK
<1>4. CASE SuspendEnds /\ publishing = 0
  <2>1. CASE Mac
    BY <1>4, <1>t, <2>1 DEF SuspendEnds, Retract, Unpublished, OnlyCurrent, ListenerInv, Retracted
  <2>2. CASE ~Mac
    BY <1>4, <1>o, <2>2 DEF SuspendEnds, Retract, ListenerInv, Retracted
  <2> QED
    BY <2>1, <2>2
<1>5. CASE Resume /\ publishing = 0
  BY <1>5, <1>t, <1>o, CycleReplaces DEF Resume, ListenerInv, Retracted
<1>6. CASE UNCHANGED vars
  BY <1>6, <1>o, <1>r DEF vars, ListenerInv
<1> QED
  BY <1>1, <1>2, <1>3, <1>4, <1>5, <1>6 DEF Next

LEMMA ListenerAlways ==
  ASSUME SlowPublish = FALSE
  PROVE  Spec => []ListenerInv
<1>1. Init => ListenerInv
  BY DEF Init, ListenerInv, OnlyCurrent, Retracted
<1>2. SessionsInv /\ ListenerInv /\ [Next]_vars => ListenerInv'
  BY ListenerStep
<1> QED
  BY <1>1, <1>2, Invariant, PTL DEF Spec

\* Where publishChannel is answered first, the OS never has two channels of
\* ours published, whatever is reaped, rotated, suspended and resumed.
THEOREM OneListenerCorrect ==
  ASSUME SlowPublish = FALSE
  PROVE  Spec => []OneListener
<1>1. ListenerInv => OneListener
  <2> SUFFICES ASSUME OnlyCurrent PROVE Cardinality(listeners) <= 1
    BY DEF ListenerInv, OneListener
  <2>1. listeners = {} \/ listeners = {psm}
    BY DEF OnlyCurrent
  <2>2. Cardinality({}) = 0
    BY FS_EmptySet
  <2>3. Cardinality({psm}) = 1
    BY FS_Singleton, Zenon
  <2> QED
    BY <2>1, <2>2, <2>3
<1> QED
  BY <1>1, ListenerAlways, PTL

\* There, a mac that has suspended has no channel published, and none on the
\* way: a rotation that a dying session asks for comes before the retraction.
THEOREM SuspendRetractsCorrect ==
  ASSUME SlowPublish = FALSE
  PROVE  Spec => []SuspendRetracts
<1>1. ListenerInv => SuspendRetracts
  BY DEF ListenerInv, Retracted, SuspendRetracts
<1> QED
  BY <1>1, ListenerAlways, PTL

\* No listener is left behind if each publish is answered before the next
\* rotation or suspend.
THEOREM NoneStray ==
  ASSUME SlowPublish = FALSE
  PROVE  Spec => []NoStrayListener
BY OneListenerCorrect, SuspendRetractsCorrect, PTL DEF NoStrayListener
-----------------------------------------------------------------------------
(* ServedWithinMax: the table is within its limit, and nothing is served       *)
(* outside of it.                                                             *)
TableWithinMax ==
  /\ \A id \in Ids : stream[id] = "live" => id \in sessions
  /\ IsFiniteSet(sessions)
  /\ Cardinality(sessions) <= MaxInbound

\* A table that takes in nobody stays within the limit.
LEMMA ShrunkWithinMax ==
  ASSUME TableWithinMax, sessions' \subseteq sessions,
         \A id \in Ids : stream'[id] = "live" => id \in sessions'
  PROVE  TableWithinMax'
<1>1. /\ IsFiniteSet(sessions')
      /\ Cardinality(sessions') <= Cardinality(sessions)
      /\ Cardinality(sessions') \in Nat /\ Cardinality(sessions) \in Nat
  BY FS_Subset, FS_CardinalityType DEF TableWithinMax
<1>2. Cardinality(sessions') <= MaxInbound
  BY <1>1, ServerAssumption DEF TableWithinMax
<1> QED
  BY <1>1, <1>2 DEF TableWithinMax

LEMMA WithinMaxStep ==
  ASSUME SessionsInv, TableWithinMax, [Next]_vars
  PROVE  TableWithinMax'
<1>t. TypeOK /\ \A i \in Ids : stream[i] = "live" => i \in sessions
  BY DEF SessionsInv, TableWithinMax
<1>1. ASSUME NEW id \in Ids, SessionStep(id) PROVE TableWithinMax'
  <2>1. CASE OpenAccepted(id)
    <3>1. sessions' = sessions \cup {id} /\ stream' = stream /\ Cardinality(sessions) < MaxInbound
      BY <2>1 DEF OpenAccepted
    <3>2. IsFiniteSet(sessions) /\ Cardinality(sessions) \in Nat /\ MaxInbound \in Nat
      BY FS_CardinalityType, ServerAssumption DEF TableWithinMax
    <3>3. /\ IsFiniteSet(sessions')
          /\ Cardinality(sessions') \in {Cardinality(sessions), Cardinality(sessions) + 1}
      BY <3>1, <3>2, FS_AddElement
    <3> QED
      BY <1>t, <3>1, <3>2, <3>3 DEF TableWithinMax
  <2>2. CASE SessionFrame(id)
    <3>1. /\ sessions' = sessions \ {id}
          /\ stream' = [stream EXCEPT ![id] = IF @ = "live" THEN "dying" ELSE @]
      BY <2>2 DEF SessionFrame, Reap
    <3>2. \A i \in Ids : stream'[i] = "live" => i \in sessions'
      BY <1>t, <3>1 DEF TypeOK
    <3> QED
      BY <3>1, <3>2, ShrunkWithinMax
  <2>3. CASE PreambleBinds(id)
    <3>1. id \in sessions /\ sessions' = sessions /\ \A i \in Ids : i # id => stream'[i] = stream[i]
      BY <1>t, <2>3 DEF PreambleBinds, Pending, TypeOK
    <3> QED
      BY <1>t, <3>1, ShrunkWithinMax
  <2>4. CASE StreamCloses(id)
    <3>1. /\ sessions' = sessions \/ sessions' = sessions \ {id}
          /\ stream' = [stream EXCEPT ![id] = "closed"]
      BY <2>4 DEF StreamCloses, Reap
    <3>2. \A i \in Ids : stream'[i] = "live" => i \in sessions'
      BY <1>t, <3>1 DEF TypeOK
    <3> QED
      BY <3>1, <3>2, ShrunkWithinMax
  <2>5. CASE PipeTimeout(id)
    <3>1. sessions' = sessions \ {id} /\ stream' = stream /\ stream[id] = "none"
      BY <2>5 DEF PipeTimeout, Pending
    <3>2. \A i \in Ids : stream'[i] = "live" => i \in sessions'
      BY <1>t, <3>1
    <3> QED
      BY <3>1, <3>2, ShrunkWithinMax
  <2>6. CASE StreamDies(id)
    <3>1. sessions' = sessions /\ \A i \in Ids : stream'[i] = "live" => stream[i] = "live"
      BY <1>t, <2>6 DEF StreamDies, TypeOK
    <3> QED
      BY <1>t, <3>1, ShrunkWithinMax
  <2>7. CASE OpenRefused(id) \/ ChannelOpens(id) \/ ChannelGivenUp(id) \/ PreambleUnmatched(id)
    <3>1. sessions' = sessions /\ stream' = stream
      BY <2>7 DEF OpenRefused, ChannelOpens, ChannelGivenUp, PreambleUnmatched, table
    <3> QED
      BY <1>t, <3>1, ShrunkWithinMax
  <2> QED
    BY <1>1, <2>1, <2>2, <2>3, <2>4, <2>5, <2>6, <2>7 DEF SessionStep
<1>2. CASE ChannelPublished \/ Suspend \/ Resume \/ UNCHANGED vars
  <2>1. sessions' = sessions /\ stream' = stream
    BY <1>2 DEF ChannelPublished, Suspend, Resume, vars, table
  <2> QED
    BY <1>t, <2>1, ShrunkWithinMax
<1>3. CASE SuspendEnds
  <2>1. sessions' = {} /\ \A i \in Ids : stream'[i] = "live" => stream[i] = "live" /\ i \notin sessions
    BY <1>3 DEF SuspendEnds, ReapAll
  <2> QED
    BY <1>t, <2>1, ShrunkWithinMax
<1> QED
  BY <1>1, <1>2, <1>3 DEF Next

\* However sessions are refused, time out, die and are suspended, what is served
\* stays within maxInbound.
THEOREM ServedBounded == Spec => []ServedWithinMax
<1>1. Init => TableWithinMax
  <2> SUFFICES ASSUME Init PROVE TableWithinMax
    OBVIOUS
  <2>1. sessions = {} /\ \A id \in Ids : stream[id] = "none"
    BY DEF Init
  <2>2. IsFiniteSet({}) /\ Cardinality({}) = 0
    BY FS_EmptySet
  <2> QED
    BY <2>1, <2>2, ServerAssumption DEF TableWithinMax
<1>2. SessionsInv /\ TableWithinMax /\ [Next]_vars => TableWithinMax'
  BY WithinMaxStep
<1>3. TableWithinMax => ServedWithinMax
  <2> SUFFICES ASSUME TableWithinMax PROVE ServedWithinMax
    OBVIOUS
  <2>1. Served \subseteq sessions
    BY DEF Served, Pending, TableWithinMax
  <2>2. /\ IsFiniteSet(Served) /\ Cardinality(Served) <= Cardinality(sessions)
        /\ Cardinality(Served) \in Nat /\ Cardinality(sessions) \in Nat
    BY <2>1, FS_Subset, FS_CardinalityType DEF TableWithinMax
  <2> QED
    BY <2>2, ServerAssumption DEF TableWithinMax, ServedWithinMax
<1> QED
  BY <1>1, <1>2, <1>3, Invariant, PTL DEF Spec
=============================================================================

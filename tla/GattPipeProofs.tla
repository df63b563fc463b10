--------------------------- MODULE GattPipeProofs ---------------------------
(* Proofs about GattPipe, for any payload sizes, queues and number of bytes,  *)
(* frames and faults.                                                         *)
EXTENDS GattPipe, SequenceTheorems, FunctionTheorems, FiniteSetTheorems, TLAPS

Frame == [kind : {"data", "ctrl"}, from : Nat, to : Nat]

\* Frames in the air carry the bytes from g + 1 to f, each frame from where the
\* one before ends, with control frames between them.
Lined(q, g, f) ==
  /\ \A i \in 1 .. Len(q) : q[i].kind = "data" =>
       /\ g < q[i].from /\ q[i].from <= q[i].to /\ q[i].to <= f
       /\ \/ q[i].from = g + 1
          \/ \E j \in 1 .. i - 1 : q[j].kind = "data" /\ q[j].to + 1 = q[i].from
  /\ \A i \in 1 .. Len(q), j \in 1 .. Len(q) :
       j < i /\ q[i].kind = "data" /\ q[j].kind = "data" => q[j].to < q[i].from
  /\ f = g \/ \E i \in 1 .. Len(q) : q[i].kind = "data" /\ q[i].to = f

LEMMA LinedEmpty == ASSUME NEW g \in Nat PROVE Lined(<< >>, g, g)
BY DEF Lined

LEMMA LinedAppend ==
  ASSUME NEW q \in Seq(Frame), NEW g \in Nat, NEW f \in Nat, Lined(q, g, f), NEW d \in Frame,
         d.kind = "data" => d.from = f + 1 /\ d.from <= d.to
  PROVE  Lined(Append(q, d), g, IF d.kind = "data" THEN d.to ELSE f)
<1> DEFINE r == Append(q, d)
<1>1. /\ Len(q) \in Nat /\ Len(r) = Len(q) + 1 /\ r[Len(q) + 1] = d
      /\ \A i \in 1 .. Len(q) : r[i] = q[i] /\ q[i] \in Frame
  BY ElementOfSeq, LenProperties
<1>2. /\ \A i \in 1 .. Len(q) : q[i].from \in Nat /\ q[i].to \in Nat
      /\ d.from \in Nat /\ d.to \in Nat
  BY <1>1 DEF Frame
<1>5. g <= f /\ \A i \in 1 .. Len(q) : q[i].kind = "data" => q[i].to <= f
  BY <1>2 DEF Lined
<1> HIDE DEF r
<1>3. CASE d.kind = "data"
  <2>1. ASSUME NEW i \in 1 .. Len(r), r[i].kind = "data"
        PROVE  /\ g < r[i].from /\ r[i].from <= r[i].to /\ r[i].to <= d.to
               /\ \/ r[i].from = g + 1
                  \/ \E j \in 1 .. i - 1 : r[j].kind = "data" /\ r[j].to + 1 = r[i].from
    <3>1. CASE i = Len(q) + 1
      <4>1. r[i] = d /\ d.from = f + 1 /\ d.from <= d.to /\ Len(q) = i - 1
        BY <3>1, <1>1, <1>3
      <4>2. f = g \/ \E j \in 1 .. Len(q) : r[j].kind = "data" /\ r[j].to = f
        BY <1>1 DEF Lined
      <4> QED BY <4>1, <4>2, <1>2, <1>5
    <3>2. CASE i \in 1 .. Len(q)
      <4>1. r[i] = q[i] /\ q[i].kind = "data" /\ \A j \in 1 .. i - 1 : r[j] = q[j]
        BY <3>2, <1>1, <2>1
      <4>2. q[i].to <= d.to
        BY <3>2, <4>1, <1>2, <1>3, <1>5
      <4> QED BY <3>2, <4>1, <4>2 DEF Lined
    <3> QED BY <1>1, <3>1, <3>2
  <2>2. ASSUME NEW i \in 1 .. Len(r), NEW j \in 1 .. Len(r), j < i,
               r[i].kind = "data", r[j].kind = "data"
        PROVE  r[j].to < r[i].from
    <3>1. j \in 1 .. Len(q) /\ r[j] = q[j]
      BY <1>1, <2>2
    <3>2. CASE i = Len(q) + 1
      <4>1. r[i] = d /\ d.from = f + 1
        BY <3>2, <1>1, <1>3
      <4> QED BY <3>1, <4>1, <1>2, <1>5, <2>2
    <3>3. CASE i \in 1 .. Len(q)
      BY <3>1, <3>3, <1>1, <2>2 DEF Lined
    <3> QED BY <1>1, <3>2, <3>3
  <2>3. \E i \in 1 .. Len(r) : r[i].kind = "data" /\ r[i].to = d.to
    BY <1>1, <1>3
  <2> QED BY <1>3, <2>1, <2>2, <2>3 DEF Lined, r
<1>4. CASE d.kind # "data"
  <2>1. \A i \in 1 .. Len(r) : r[i].kind = "data" => i \in 1 .. Len(q)
    BY <1>1, <1>4
  <2> QED BY <1>1, <1>4, <2>1 DEF Lined, r
<1> QED BY <1>3, <1>4

LEMMA LinedTail ==
  ASSUME NEW q \in Seq(Frame), q # << >>, NEW g \in Nat, NEW f \in Nat, Lined(q, g, f)
  PROVE  IF Head(q).kind = "data"
         THEN /\ Head(q).from = g + 1 /\ Head(q).to \in g + 1 .. f
              /\ Lined(Tail(q), Head(q).to, f)
         ELSE Lined(Tail(q), g, f)
<1> DEFINE r == Tail(q)
<1>1. /\ Len(q) \in Nat \ {0} /\ Len(r) = Len(q) - 1 /\ Head(q) = q[1]
      /\ \A i \in 1 .. Len(q) : q[i] \in Frame
      /\ \A i \in 1 .. Len(r) : r[i] = q[i + 1]
  BY ElementOfSeq, LenProperties, HeadTailProperties, EmptySeq
<1> HIDE DEF r
<1>2. CASE q[1].kind = "data"
  <2>1. q[1].from = g + 1 /\ q[1].to \in g + 1 .. f
    BY <1>1, <1>2 DEF Lined, Frame
  <2>2. ASSUME NEW i \in 1 .. Len(r), r[i].kind = "data"
        PROVE  /\ q[1].to < r[i].from /\ r[i].from <= r[i].to /\ r[i].to <= f
               /\ \/ r[i].from = q[1].to + 1
                  \/ \E j \in 1 .. i - 1 : r[j].kind = "data" /\ r[j].to + 1 = r[i].from
    <3>1. /\ i + 1 \in 1 .. Len(q) /\ r[i] = q[i + 1] /\ q[i + 1] \in Frame
          /\ q[1].to < q[i + 1].from /\ q[i + 1].from <= q[i + 1].to /\ q[i + 1].to <= f
      BY <1>1, <1>2, <2>2 DEF Lined
    <3>2. PICK j \in 1 .. i : q[j].kind = "data" /\ q[j].to + 1 = q[i + 1].from
      <4>1. \/ q[i + 1].from = g + 1
            \/ \E j \in 1 .. i : q[j].kind = "data" /\ q[j].to + 1 = q[i + 1].from
        <5>1. /\ i + 1 \in 1 .. Len(q) /\ q[i + 1].kind = "data"
              /\ i \in Nat /\ (i + 1) - 1 = i
          BY <2>2, <3>1, <1>1
        <5>2. \/ q[i + 1].from = g + 1
              \/ \E j \in 1 .. (i + 1) - 1 : q[j].kind = "data" /\ q[j].to + 1 = q[i + 1].from
          BY ONLY <5>1, Lined(q, g, f), Zenon DEF Lined
        <5> QED BY ONLY <5>1, <5>2, SMTT(30)
      <4>2. q[i + 1].from # g + 1
        <5>1. q[1] \in Frame /\ q[i + 1] \in Frame
          BY <1>1, <3>1
        <5>2. q[1].to \in Nat /\ q[i + 1].from \in Nat
          BY ONLY <5>1 DEF Frame
        <5> QED BY <5>2, <2>1, <3>1
      <4> QED BY <4>1, <4>2, Zenon
    <3>3. CASE j = 1
      BY <3>1, <3>2, <3>3
    <3>4. CASE j # 1
      <4>1. j - 1 \in 1 .. i - 1 /\ r[j - 1] = q[j]
        BY <1>1, <3>1, <3>4
      <4> QED BY <4>1, <3>1, <3>2
    <3> QED BY <3>3, <3>4
  <2>3. ASSUME NEW i \in 1 .. Len(r), NEW j \in 1 .. Len(r), j < i,
               r[i].kind = "data", r[j].kind = "data"
        PROVE  r[j].to < r[i].from
    BY <1>1, <2>3 DEF Lined
  <2>4. f = q[1].to \/ \E i \in 1 .. Len(r) : r[i].kind = "data" /\ r[i].to = f
    <3>1. PICK i \in 1 .. Len(q) : q[i].kind = "data" /\ q[i].to = f
      BY <2>1, <1>1 DEF Lined
    <3>2. CASE i # 1
      <4>1. i - 1 \in 1 .. Len(r) /\ r[i - 1] = q[i]
        BY <1>1, <3>2
      <4> QED BY <3>1, <4>1
    <3> QED BY <3>1, <3>2
  <2> QED BY <1>1, <1>2, <2>1, <2>2, <2>3, <2>4 DEF Lined, r
<1>3. CASE q[1].kind # "data"
  <2>1. ASSUME NEW i \in 1 .. Len(r), r[i].kind = "data"
        PROVE  /\ g < r[i].from /\ r[i].from <= r[i].to /\ r[i].to <= f
               /\ \/ r[i].from = g + 1
                  \/ \E j \in 1 .. i - 1 : r[j].kind = "data" /\ r[j].to + 1 = r[i].from
    <3>1. /\ i + 1 \in 1 .. Len(q) /\ r[i] = q[i + 1]
          /\ g < q[i + 1].from /\ q[i + 1].from <= q[i + 1].to /\ q[i + 1].to <= f
          /\ \/ q[i + 1].from = g + 1
             \/ \E j \in 1 .. i : q[j].kind = "data" /\ q[j].to + 1 = q[i + 1].from
      BY <1>1, <2>1 DEF Lined
    <3>2. ASSUME NEW j \in 1 .. i, q[j].kind = "data"
          PROVE  j - 1 \in 1 .. i - 1 /\ r[j - 1] = q[j]
      BY <1>1, <1>3, <3>2
    <3> QED BY <3>1, <3>2
  <2>2. ASSUME NEW i \in 1 .. Len(r), NEW j \in 1 .. Len(r), j < i,
               r[i].kind = "data", r[j].kind = "data"
        PROVE  r[j].to < r[i].from
    BY <1>1, <2>2 DEF Lined
  <2>3. f = g \/ \E i \in 1 .. Len(r) : r[i].kind = "data" /\ r[i].to = f
    <3>1. ASSUME NEW i \in 1 .. Len(q), q[i].kind = "data"
          PROVE  i - 1 \in 1 .. Len(r) /\ r[i - 1] = q[i]
      BY <1>1, <1>3, <3>1
    <3> QED BY <3>1 DEF Lined
  <2> QED BY <1>1, <1>3, <2>1, <2>2, <2>3 DEF Lined, r
<1> QED BY <1>2, <1>3

-----------------------------------------------------------------------------
(* The invariant *)

Slice == SliceFrom(at, sent)
IsData(i) == i \in 1 .. Len(queue) /\ queue[i].kind = "data"

\* At most one data frame is queued: the slice that _write awaits.
QueueInv ==
  /\ queue \in Seq(Frame) /\ told \in {"none", "sent", "failed"}
  /\ sent \in Nat /\ at \in Nat /\ payload \in Nat \ {0}
  /\ waiting => side = "central" /\ queue # << >>
  /\ draining \/ retry => side = "server"
  /\ busy => 1 <= at /\ at <= sent
  /\ told # "none" => busy
  /\ \A i \in 1 .. Len(queue) : queue[i].kind = "data" =>
       /\ queue[i] = Slice /\ busy /\ told = "none"
       /\ \A j \in 1 .. Len(queue) : queue[j].kind = "data" => j = i

\* The bytes up to f have been aired: the slice under way once it is the head
\* that was written, or was sent.
Aloft(f) ==
  /\ \A i \in 1 .. Len(queue) : queue[i].kind = "data" =>
       f = IF waiting /\ i = 1 THEN Slice.to ELSE at - 1
  /\ busy /\ told = "sent" => f = Slice.to
  /\ ~busy /\ open => f = sent

AirInv ==
  /\ air \in Seq(Frame) /\ got \in Nat /\ got <= sent /\ torn = FALSE
  /\ ~up => air = << >>
  /\ up => \E f \in 0 .. sent : Lined(air, got, f) /\ Aloft(f)

PipeInv == QueueInv /\ AirInv

LEMMA SliceFacts ==
  ASSUME NEW a \in Nat, NEW last \in Nat, 1 <= a, a <= last, payload \in Nat \ {0}
  PROVE  /\ SliceFrom(a, last) \in Frame /\ SliceFrom(a, last).kind = "data"
         /\ SliceFrom(a, last).from = a /\ a <= SliceFrom(a, last).to
         /\ SliceFrom(a, last).to <= last
         /\ a + payload <= last => SliceFrom(a, last).to = a + payload - 1
         /\ ~(a + payload <= last) => SliceFrom(a, last).to = last
<1> DEFINE e == IF a + payload - 1 < last THEN a + payload - 1 ELSE last
<1>1. SliceFrom(a, last) = [kind |-> "data", from |-> a, to |-> e]
  BY Zenon DEF SliceFrom, Data
<1>2. /\ e \in Nat /\ a <= e /\ e <= last
      /\ a + payload <= last => e = a + payload - 1
      /\ ~(a + payload <= last) => e = last
  OBVIOUS
<1> HIDE DEF e
<1>3. /\ SliceFrom(a, last).kind = "data" /\ SliceFrom(a, last).from = a
      /\ SliceFrom(a, last).to = e
  BY <1>1
<1>4. SliceFrom(a, last) \in Frame
  BY <1>1, <1>2 DEF Frame
<1> QED BY <1>2, <1>3, <1>4

\* Whatever its bounds, a slice is a data frame.
LEMMA SliceTyped ==
  ASSUME NEW a \in Nat, NEW last \in Nat, payload \in Nat \ {0}
  PROVE  SliceFrom(a, last) \in Frame /\ SliceFrom(a, last).kind = "data"
<1> DEFINE e == IF a + payload - 1 < last THEN a + payload - 1 ELSE last
<1>1. SliceFrom(a, last) = [kind |-> "data", from |-> a, to |-> e]
  BY Zenon DEF SliceFrom, Data
<1>2. e \in Nat
  OBVIOUS
<1> HIDE DEF e
<1> QED BY <1>1, <1>2 DEF Frame

LEMMA PipeInit == Init => PipeInv
<1> SUFFICES ASSUME Init PROVE PipeInv
  OBVIOUS
<1>1. QueueInv
  <2>1. payload \in Nat \ {0} /\ at = 1 /\ sent = 0 /\ queue = << >>
    BY GattAssumption DEF Init
  <2> QED BY <2>1, SMTT(30) DEF Init, QueueInv
<1>2. Lined(air, got, 0) /\ Aloft(0)
  BY LinedEmpty DEF Init, Aloft
<1>3. AirInv
  BY <1>2 DEF Init, AirInv
<1> QED BY <1>1, <1>3 DEF PipeInv

\* The head leaves the queue.
LEMMA Settles ==
  ASSUME QueueInv, queue # << >>, NEW o \in {"sent", "failed"}, Settle(o), ~waiting',
         UNCHANGED <<side, sent, at, busy, payload>>,
         draining' \/ retry' => side = "server"
  PROVE  /\ QueueInv'
         /\ IF Head(queue).kind = "data"
            THEN /\ told' = o /\ busy /\ Head(queue) = Slice
                 /\ \A i \in 1 .. Len(queue') : queue'[i].kind # "data"
            ELSE /\ told' = told
                 /\ \A i \in 1 .. Len(queue') : i + 1 \in 1 .. Len(queue) /\ queue'[i] = queue[i + 1]
<1>1. /\ Len(queue) \in Nat \ {0} /\ queue' = Tail(queue) /\ Len(queue') = Len(queue) - 1
      /\ Head(queue) = queue[1] /\ queue' \in Seq(Frame)
      /\ \A i \in 1 .. Len(queue') : i + 1 \in 1 .. Len(queue) /\ queue'[i] = queue[i + 1]
  BY HeadTailProperties, LenProperties, EmptySeq DEF QueueInv, Settle
<1>2. Slice' = Slice
  BY DEF Slice, SliceFrom, Data
<1>3. CASE queue[1].kind = "data"
  <2>1. queue[1] = Slice /\ busy /\ told' = o
    BY <1>1, <1>3 DEF QueueInv, Settle
  <2>2. \A i \in 1 .. Len(queue') : queue'[i].kind # "data"
    BY <1>1, <1>3 DEF QueueInv
  <2> QED BY <1>1, <1>3, <2>1, <2>2 DEF QueueInv
<1>4. CASE queue[1].kind # "data"
  <2>1. told' = told
    BY <1>1, <1>4 DEF Settle
  <2>2. ASSUME NEW i \in 1 .. Len(queue'), queue'[i].kind = "data"
        PROVE  /\ queue'[i] = Slice' /\ busy /\ told = "none"
               /\ \A j \in 1 .. Len(queue') : queue'[j].kind = "data" => j = i
    <3>1. i + 1 \in 1 .. Len(queue) /\ queue[i + 1].kind = "data"
      BY <1>1, <2>2
    <3>2. \A j \in 1 .. Len(queue') : queue'[j].kind = "data" => j + 1 = i + 1
      BY <1>1, <3>1 DEF QueueInv
    <3>3. \A j \in 1 .. Len(queue') : queue'[j].kind = "data" => j = i
      BY <3>2
    <3> QED BY <1>1, <1>2, <3>1, <3>3 DEF QueueInv
  <2> QED BY <1>1, <1>4, <2>1, <2>2 DEF QueueInv
<1> QED BY <1>3, <1>4

\* A settled head leaves what is aloft as it was, when no frame is aired.
LEMMA SettlesAloft ==
  ASSUME QueueInv, queue # << >>, NEW o \in {"sent", "failed"}, Settle(o), ~waiting',
         UNCHANGED <<side, sent, at, busy, open, payload>>,
         draining' \/ retry' => side = "server",
         waiting \/ o = "failed", NEW f \in Nat, Aloft(f)
  PROVE  Aloft(f)'
<1>1. Slice' = Slice /\ Slice.to' = Slice.to
  BY DEF Slice, SliceFrom, Data
<1>2. CASE Head(queue).kind = "data"
  <2>1. /\ told' = o /\ busy /\ \A i \in 1 .. Len(queue') : queue'[i].kind # "data"
    BY <1>2, Settles
  <2>2. waiting => f = Slice.to
    <3>1. 1 \in 1 .. Len(queue) /\ queue[1].kind = "data"
      BY <1>2, EmptySeq, HeadTailProperties DEF QueueInv
    <3> QED BY <3>1 DEF Aloft
  <2> QED BY <1>1, <2>1, <2>2 DEF Aloft
<1>3. CASE Head(queue).kind # "data"
  <2>1. /\ told' = told
        /\ \A i \in 1 .. Len(queue') : i + 1 \in 1 .. Len(queue) /\ queue'[i] = queue[i + 1]
    BY <1>3, Settles
  <2>2. ASSUME NEW i \in 1 .. Len(queue'), queue'[i].kind = "data" PROVE f = at - 1
    <3>1. i + 1 \in 1 .. Len(queue) /\ queue[i + 1].kind = "data" /\ i + 1 # 1
      BY <2>1, <2>2
    <3> QED BY <3>1 DEF Aloft
  <2> QED BY <1>1, <2>1, <2>2 DEF Aloft
<1> QED BY <1>2, <1>3

-----------------------------------------------------------------------------
(* The steps *)

\* A frame settles that was not aired now: it was before, or never is.
LEMMA JustSettles ==
  ASSUME PipeInv, queue # << >>, NEW o \in {"sent", "failed"}, Settle(o), ~waiting',
         waiting \/ o = "failed",
         UNCHANGED <<side, sent, at, busy, open, payload, got, torn>>,
         draining' \/ retry' => side = "server",
         UNCHANGED <<air, up>> \/ (up' = FALSE /\ air' = << >>)
  PROVE  PipeInv'
<1>1. QueueInv'
  BY Settles DEF PipeInv
<1>2. CASE UNCHANGED <<air, up>>
  <2>1. ASSUME NEW f \in 0 .. sent, Lined(air, got, f), Aloft(f)
        PROVE  Lined(air', got', f) /\ Aloft(f)'
    <3>1. f \in Nat
      BY DEF PipeInv, QueueInv
    <3>2. Aloft(f)'
      BY <2>1, <3>1, SettlesAloft DEF PipeInv
    <3> QED BY <1>2, <2>1, <3>2
  <2> QED BY <1>1, <1>2, <2>1 DEF PipeInv, AirInv
<1>3. CASE up' = FALSE /\ air' = << >>
  BY <1>1, <1>3 DEF PipeInv, AirInv
<1> QED BY <1>2, <1>3

\* The head is aired.
LEMMA AirsHead ==
  ASSUME PipeInv, queue # << >>, ~waiting, up, air' = Append(air, Head(queue)),
         NEW f \in 0 .. sent, Lined(air, got, f), Aloft(f)
  PROVE  LET g == IF Head(queue).kind = "data" THEN Slice.to ELSE f
         IN  air' \in Seq(Frame) /\ g \in 0 .. sent /\ Lined(air', got, g)
<1>1. /\ Head(queue) \in Frame /\ Head(queue) = queue[1] /\ 1 \in 1 .. Len(queue)
      /\ air \in Seq(Frame) /\ air' \in Seq(Frame) /\ got \in Nat /\ f \in Nat /\ sent \in Nat
  BY HeadTailProperties, EmptySeq, LenProperties DEF PipeInv, QueueInv, AirInv
<1>2. ASSUME queue[1].kind = "data"
      PROVE  /\ queue[1] = Slice /\ Slice.from = f + 1 /\ Slice.from <= Slice.to
             /\ Slice.to \in 0 .. sent
  <2>1. queue[1] = Slice /\ busy /\ f = at - 1
    BY <1>1, <1>2 DEF PipeInv, QueueInv, Aloft
  <2>2. at \in Nat /\ 1 <= at /\ at <= sent /\ payload \in Nat \ {0}
    BY <2>1 DEF PipeInv, QueueInv
  <2>3. Slice \in Frame /\ Slice.from = at /\ at <= Slice.to /\ Slice.to <= sent
    BY <1>1, <2>2, SliceFacts DEF Slice
  <2>4. Slice.to \in Nat
    BY ONLY <2>3 DEF Frame
  <2> QED BY <1>1, <2>1, <2>2, <2>3, <2>4
<1>3. Lined(air', got, IF Head(queue).kind = "data" THEN Head(queue).to ELSE f)
  BY <1>1, <1>2, LinedAppend
<1> QED BY <1>1, <1>2, <1>3

LEMMA AirsAndSettles ==
  ASSUME PipeInv, queue # << >>, ~waiting, Aired(Head(queue)), Settle("sent"), ~waiting',
         UNCHANGED <<side, sent, at, busy, open, payload, got, torn, up>>,
         draining' \/ retry' => side = "server"
  PROVE  PipeInv'
<1>1. QueueInv'
  BY Settles DEF PipeInv
<1>2. CASE ~up
  BY <1>1, <1>2 DEF PipeInv, AirInv, Aired
<1>3. CASE up
  <2> PICK f \in 0 .. sent : Lined(air, got, f) /\ Aloft(f)
    BY <1>3 DEF PipeInv, AirInv
  <2>0. PICK g \in 0 .. sent :
          /\ g = IF Head(queue).kind = "data" THEN Slice.to ELSE f
          /\ air' \in Seq(Frame) /\ Lined(air', got, g)
    BY <1>3, AirsHead DEF Aired
  <2>2. Slice' = Slice
    BY DEF Slice, SliceFrom, Data
  <2>3. Aloft(g)'
    <3>1. CASE Head(queue).kind = "data"
      <4>1. busy /\ \A i \in 1 .. Len(queue') : queue'[i].kind # "data"
        BY <3>1, Settles DEF PipeInv
      <4> QED BY <2>0, <2>2, <3>1, <4>1 DEF Aloft
    <3>2. CASE Head(queue).kind # "data"
      <4>1. /\ told' = told
            /\ \A i \in 1 .. Len(queue') : i + 1 \in 1 .. Len(queue) /\ queue'[i] = queue[i + 1]
        BY <3>2, Settles DEF PipeInv
      <4>2. ASSUME NEW i \in 1 .. Len(queue'), queue'[i].kind = "data" PROVE f = at - 1
        <5>1. i + 1 \in 1 .. Len(queue) /\ queue[i + 1].kind = "data"
          BY <4>1, <4>2
        <5> QED BY <5>1 DEF Aloft
      <4> QED BY <2>0, <2>2, <3>2, <4>1, <4>2 DEF Aloft
    <3> QED BY <3>1, <3>2
  <2> QED BY <1>1, <1>3, <2>0, <2>3 DEF PipeInv, AirInv
<1> QED BY <1>2, <1>3

\* _write queues a slice when everything before it is aloft.
LEMMA SendsSlice ==
  ASSUME PipeInv, at' \in Nat, sent' \in Nat, 1 <= at', at' <= sent', busy', told' = "none",
         \A i \in 1 .. Len(queue) : queue[i].kind # "data", sent <= sent',
         Send(SliceFrom(at', sent')), up => \E f \in 0 .. sent : Lined(air, got, f) /\ f = at' - 1,
         UNCHANGED <<side, open, payload, air, got, torn, up>>
  PROVE  PipeInv'
<1> DEFINE d == SliceFrom(at', sent')
<1>1. payload \in Nat \ {0} /\ queue \in Seq(Frame) /\ sent \in Nat
  BY DEF PipeInv, QueueInv
<1>2. /\ d \in Frame /\ d.kind = "data" /\ d.from = at' /\ at' <= d.to /\ d.to <= sent'
  BY <1>1, SliceFacts
<1>3. Slice' = d
  BY DEF Slice, SliceFrom, Data
<1> HIDE DEF d
<1>4. /\ queue' = Append(queue, d) /\ queue' \in Seq(Frame) /\ Len(queue) \in Nat
      /\ Len(queue') = Len(queue) + 1 /\ queue' # << >> /\ queue'[Len(queue) + 1] = d
      /\ \A i \in 1 .. Len(queue) : queue'[i] = queue[i]
  BY <1>1, <1>2, EmptySeq DEF Send, d
<1>5. \A i \in 1 .. Len(queue') : queue'[i].kind = "data" => i = Len(queue) + 1
  BY <1>4
<1>6. QueueInv'
  BY <1>1, <1>2, <1>3, <1>4, <1>5 DEF PipeInv, QueueInv, Send
<1>7. waiting => Len(queue) + 1 # 1
  BY <1>1, <1>4, EmptySeq DEF PipeInv, QueueInv
<1>8. ASSUME NEW f \in 0 .. sent, f = at' - 1 PROVE Aloft(f)'
  BY <1>4, <1>5, <1>7, <1>8 DEF Aloft, Send
<1>9. up => \E f \in 0 .. sent' : Lined(air, got, f) /\ Aloft(f)'
  <2> SUFFICES ASSUME up PROVE \E f \in 0 .. sent' : Lined(air, got, f) /\ Aloft(f)'
    OBVIOUS
  <2>1. PICK f \in 0 .. sent : Lined(air, got, f) /\ f = at' - 1
    OBVIOUS
  <2>2. f \in 0 .. sent'
    BY <1>1
  <2> QED BY <1>8, <2>1, <2>2
<1> QED BY <1>1, <1>6, <1>9 DEF PipeInv, AirInv

LEMMA PipeStep ==
  ASSUME PipeInv, MtuMidWrite = FALSE, [Next]_vars
  PROVE  PipeInv'
<1> USE DEF stream, carrier, radio, counts
<1>1. CASE StartWrite
  <2>1. /\ queue # << >> /\ ~waiting /\ side = "central" /\ told = "none"
        /\ UNCHANGED <<side, sent, at, busy, open, payload, got, torn, up, draining, retry>>
    BY <1>1 DEF StartWrite, Startable
  <2>2. CASE Settle("failed") /\ UNCHANGED <<air, waiting>>
    BY <2>1, <2>2, JustSettles DEF PipeInv, QueueInv
  <2>3. CASE Aired(Head(queue)) /\ Settle("sent") /\ UNCHANGED waiting
    BY <2>1, <2>3, AirsAndSettles DEF PipeInv, QueueInv
  <2>4. CASE Aired(Head(queue)) /\ waiting' = TRUE /\ UNCHANGED <<queue, told>>
    <3>1. Slice' = Slice
      BY <2>1 DEF Slice, SliceFrom, Data
    <3>2. QueueInv'
      BY <2>1, <2>4, <3>1 DEF PipeInv, QueueInv
    <3>3. CASE ~up
      BY <2>1, <2>4, <3>2, <3>3 DEF PipeInv, AirInv, Aired
    <3>4. CASE up
      <4> PICK f \in 0 .. sent : Lined(air, got, f) /\ Aloft(f)
        BY <3>4 DEF PipeInv, AirInv
      <4>1. PICK g \in 0 .. sent :
              /\ g = IF Head(queue).kind = "data" THEN Slice.to ELSE f
              /\ air' \in Seq(Frame) /\ Lined(air', got, g)
        BY <2>1, <2>4, <3>4, AirsHead DEF Aired
      <4>2. Head(queue) = queue[1] /\ 1 \in 1 .. Len(queue)
        BY <2>1, HeadTailProperties, EmptySeq DEF PipeInv, QueueInv
      <4>3. CASE queue[1].kind = "data"
        <5>1. busy /\ \A i \in 1 .. Len(queue) : queue[i].kind = "data" => i = 1
          BY <4>2, <4>3 DEF PipeInv, QueueInv
        <5>2. Aloft(g)'
          BY <2>1, <2>4, <3>1, <4>1, <4>2, <4>3, <5>1 DEF Aloft
        <5>3. \E h \in 0 .. sent' : Lined(air', got', h) /\ Aloft(h)'
          BY <2>1, <4>1, <5>2
        <5> QED BY <2>1, <3>2, <3>4, <4>1, <5>3 DEF PipeInv, AirInv
      <4>4. CASE queue[1].kind # "data"
        <5>1. Aloft(g)'
          BY <2>1, <2>4, <3>1, <4>1, <4>2, <4>4 DEF Aloft
        <5>2. \E h \in 0 .. sent' : Lined(air', got', h) /\ Aloft(h)'
          BY <2>1, <4>1, <5>1
        <5> QED BY <2>1, <3>2, <3>4, <4>1, <5>2 DEF PipeInv, AirInv
      <4> QED BY <4>3, <4>4
    <3> QED BY <3>3, <3>4
  <2> QED BY <1>1, <2>2, <2>3, <2>4 DEF StartWrite
<1>2. CASE Answer
  <2>1. UNCHANGED <<side, sent, at, busy, open, payload, got, torn, up, air, draining, retry>>
    BY <1>2 DEF Answer
  <2>2. CASE waiting
    BY <1>2, <2>1, <2>2, JustSettles DEF Answer, Complete, PipeInv, QueueInv
  <2>3. CASE ~waiting
    BY <1>2, <2>1, <2>3 DEF Answer, Complete, PipeInv, QueueInv, AirInv, Aloft, Slice,
         SliceFrom, Data
  <2> QED BY <2>2, <2>3
<1>3. CASE PeripheralError
  <2>1. /\ UNCHANGED <<side, sent, at, busy, open, payload, got, torn, draining, retry>>
        /\ up' = FALSE /\ air' = << >>
    BY <1>3 DEF PeripheralError
  <2>2. CASE waiting
    <3>1. Settle("failed") /\ ~waiting' /\ queue # << >> /\ (draining' \/ retry' => side = "server")
      BY <1>3, <2>1, <2>2 DEF PeripheralError, Complete, PipeInv, QueueInv
    <3> QED BY <2>1, <2>2, <3>1, JustSettles
  <2>3. CASE ~waiting
    BY <1>3, <2>1, <2>3 DEF PeripheralError, Complete, PipeInv, QueueInv, AirInv, Slice,
         SliceFrom, Data
  <2> QED BY <2>2, <2>3
<1>4. CASE WriteTimeout
  BY <1>4, JustSettles DEF WriteTimeout, PipeInv, QueueInv
<1>5. CASE Drain
  <2>1. /\ draining /\ side = "server" /\ ~waiting
        /\ UNCHANGED <<side, sent, at, busy, open, payload, got, torn, up, waiting>>
    BY <1>5 DEF Drain, PipeInv, QueueInv
  <2>2. CASE UNCHANGED <<queue, told, air>>
    BY <2>1, <2>2 DEF PipeInv, QueueInv, AirInv, Aloft, Slice, SliceFrom, Data
  <2>3. CASE queue # << >> /\ Aired(Head(queue)) /\ Settle("sent")
    BY <2>1, <2>3, AirsAndSettles
  <2>4. CASE queue # << >> /\ Settle("failed") /\ UNCHANGED air
    BY <2>1, <2>4, JustSettles
  <2> QED BY <1>5, <2>2, <2>3, <2>4 DEF Drain
<1>6. CASE RetryFires \/ ReadyToUpdate
  <2>1. /\ side = "server"
        /\ UNCHANGED <<side, sent, at, busy, open, payload, queue, waiting, told, air, up, got,
                      torn>>
    BY <1>6 DEF RetryFires, ReadyToUpdate, StartDrain, PipeInv, QueueInv
  <2> QED BY <2>1 DEF PipeInv, QueueInv, AirInv, Aloft, Slice, SliceFrom, Data
<1>7. CASE HostWrites
  <2>1. /\ open /\ ~busy /\ told = "none" /\ UNCHANGED <<side, open, payload, told, air, got, torn, up>>
        /\ at' = sent + 1 /\ busy'
        /\ sent' \in sent + 1 .. MaxBytes /\ Send(SliceFrom(sent + 1, sent'))
    BY <1>7 DEF HostWrites, PipeInv, QueueInv
  <2>2. sent \in Nat /\ \A i \in 1 .. Len(queue) : queue[i].kind # "data"
    BY <2>1 DEF PipeInv, QueueInv
  <2>3. at' \in Nat /\ sent' \in Nat /\ 1 <= at' /\ at' <= sent' /\ sent <= sent' /\ at' - 1 = sent
    BY <2>1, <2>2, GattAssumption
  <2>4. up => \E f \in 0 .. sent : Lined(air, got, f) /\ f = at' - 1
    BY <2>1, <2>3 DEF PipeInv, AirInv, Aloft
  <2> QED BY <2>1, <2>2, <2>3, <2>4, SendsSlice
<1>8. CASE Continue
  <2>1. /\ busy /\ told # "none" /\ told' = "none" /\ at' = at + payload
        /\ UNCHANGED <<side, sent, payload, air, got, torn, up>>
        /\ \A i \in 1 .. Len(queue) : queue[i].kind # "data"
        /\ sent \in Nat /\ at \in Nat /\ payload \in Nat \ {0} /\ 1 <= at /\ at <= sent
    BY <1>8 DEF Continue, PipeInv, QueueInv
  <2>2. /\ at + payload <= sent => Slice.to = at + payload - 1
        /\ ~(at + payload <= sent) => Slice.to = sent
    BY <2>1, SliceFacts DEF Slice
  <2>3. CASE told = "sent" /\ at + payload <= sent
    <3>1. Send(SliceFrom(at', sent')) /\ UNCHANGED <<busy, open>>
      BY <1>8, <2>1, <2>3 DEF Continue, Advance
    <3>2. at' \in Nat /\ sent' \in Nat /\ 1 <= at' /\ at' <= sent' /\ sent <= sent' /\ busy'
      BY <2>1, <2>3, <3>1
    <3>3. up => \E f \in 0 .. sent : Lined(air, got, f) /\ f = at' - 1
      BY <2>1, <2>2, <2>3 DEF PipeInv, AirInv, Aloft
    <3> QED BY <2>1, <3>1, <3>2, <3>3, SendsSlice
  <2>4. CASE ~(told = "sent" /\ at + payload <= sent)
    <3>1. /\ ~busy' /\ open' = (open /\ told = "sent")
          /\ UNCHANGED <<queue, waiting, draining, retry>>
      BY <1>8, <2>4 DEF Continue, Advance
    <3>2. QueueInv'
      BY <2>1, <3>1 DEF PipeInv, QueueInv
    <3>3. ASSUME NEW f \in 0 .. sent, Aloft(f) PROVE Aloft(f)'
      BY <2>1, <2>2, <2>4, <3>1, <3>3 DEF Aloft
    <3> QED BY <2>1, <3>2, <3>3 DEF PipeInv, AirInv
  <2> QED BY <2>3, <2>4
<1>9. CASE MtuChanged
  <2>1. /\ ~busy /\ told = "none" /\ payload' \in Nat \ {0}
        /\ UNCHANGED <<side, sent, at, busy, open, queue, waiting, draining, retry, told, air,
                      up, got, torn>>
        /\ \A i \in 1 .. Len(queue) : queue[i].kind # "data"
    BY <1>9, GattAssumption DEF MtuChanged, PipeInv, QueueInv
  <2> QED BY <2>1 DEF PipeInv, QueueInv, AirInv, Aloft
<1>10. CASE ControlFrame
  <2>1. UNCHANGED <<side, sent, at, busy, open, payload, told, air, up, got, torn, waiting>>
    BY <1>10 DEF ControlFrame, Send
  <2>2. /\ queue' = Append(queue, Control) /\ Control \in Frame /\ Control.kind # "data"
        /\ queue \in Seq(Frame)
    BY <1>10 DEF ControlFrame, Send, Control, Frame, PipeInv, QueueInv
  <2>3. /\ queue' \in Seq(Frame) /\ Len(queue) \in Nat /\ Len(queue') = Len(queue) + 1
        /\ queue' # << >> /\ queue'[Len(queue) + 1].kind # "data"
        /\ \A i \in 1 .. Len(queue) : queue'[i] = queue[i]
    BY <2>2, EmptySeq
  <2>4. \A i \in 1 .. Len(queue') : queue'[i].kind = "data" => i \in 1 .. Len(queue)
    BY <2>3
  <2>5. Slice' = Slice
    BY <2>1 DEF Slice, SliceFrom, Data
  <2>6. QueueInv'
    BY <1>10, <2>1, <2>3, <2>4, <2>5 DEF ControlFrame, Send, PipeInv, QueueInv
  <2>7. ASSUME NEW f \in 0 .. sent, Aloft(f) PROVE Aloft(f)'
    BY <2>1, <2>3, <2>4, <2>5, <2>7 DEF Aloft
  <2> QED BY <2>1, <2>6, <2>7 DEF PipeInv, AirInv
<1>11. CASE Deliver
  <2>1. /\ air # << >> /\ up /\ air' = Tail(air) /\ Delivered(Head(air))
        /\ UNCHANGED <<side, sent, at, busy, open, payload, queue, waiting, draining, retry,
                      told, up>>
    BY <1>11 DEF Deliver, PipeInv, AirInv
  <2>2. PICK f \in 0 .. sent : Lined(air, got, f) /\ Aloft(f)
    BY <2>1 DEF PipeInv, AirInv
  <2>3. /\ air \in Seq(Frame) /\ got \in Nat /\ f \in Nat /\ sent \in Nat
        /\ Head(air) \in Frame /\ air' \in Seq(Frame)
    BY <2>1, HeadTailProperties DEF PipeInv, AirInv, QueueInv
  <2>4. Lined(air', got', f) /\ torn' = FALSE /\ got' \in Nat /\ got' <= sent
    <3>1. CASE Head(air).kind = "data"
      BY <2>1, <2>2, <2>3, <3>1, LinedTail DEF Delivered, PipeInv, AirInv
    <3>2. CASE Head(air).kind # "data"
      <4>1. Head(air).kind = "ctrl"
        BY <2>3, <3>2 DEF Frame
      <4> QED BY <2>1, <2>2, <2>3, <3>2, <4>1, LinedTail DEF Delivered, PipeInv, AirInv
    <3> QED BY <3>1, <3>2
  <2>5. QueueInv' /\ Aloft(f)'
    BY <2>1, <2>2 DEF PipeInv, QueueInv, Aloft, Slice, SliceFrom, Data
  <2> QED BY <2>1, <2>3, <2>4, <2>5 DEF PipeInv, AirInv
<1>12. CASE LoseAnswer \/ LinkLoss \/ UNCHANGED vars
  <2>1. /\ UNCHANGED <<side, sent, at, busy, open, payload, queue, waiting, draining, retry,
                      told, got, torn>>
        /\ UNCHANGED <<up, air>> \/ (up' = FALSE /\ air' = << >>)
    BY <1>12 DEF LoseAnswer, LinkLoss, vars
  <2>2. Slice' = Slice
    BY <2>1 DEF Slice, SliceFrom, Data
  <2>3. QueueInv'
    BY <2>1, <2>2 DEF PipeInv, QueueInv
  <2>4. CASE UNCHANGED <<up, air>>
    BY <2>1, <2>2, <2>3, <2>4 DEF PipeInv, AirInv, Aloft
  <2>5. CASE up' = FALSE /\ air' = << >>
    BY <2>1, <2>3, <2>5 DEF PipeInv, AirInv
  <2> QED BY <2>1, <2>4, <2>5
<1>13. CASE Reset
  <2>1. /\ up' = FALSE /\ air' = << >> /\ UNCHANGED <<side, sent, at, busy, payload, waiting,
                                                    draining, got, torn>>
    BY <1>13 DEF Reset
  <2>2. CASE side = "server"
    <3>1. /\ queue' = << >> /\ retry' = FALSE /\ told' \in {"none", "sent", "failed"}
          /\ told' # "none" => busy
      BY <1>13, <2>2, LenProperties DEF Reset, Rejected, DataQueued, PipeInv, QueueInv
    <3>2. << >> \in Seq(Frame) /\ Len(<< >>) = 0
      BY EmptySeq
    <3> QED BY <2>1, <2>2, <3>1, <3>2 DEF PipeInv, QueueInv, AirInv
  <2>3. CASE side # "server"
    BY <1>13, <2>1, <2>3 DEF Reset, PipeInv, QueueInv, AirInv, Slice, SliceFrom, Data
  <2> QED BY <2>2, <2>3
<1> QED BY <1>1, <1>2, <1>3, <1>4, <1>5, <1>6, <1>7, <1>8, <1>9, <1>10, <1>11, <1>12, <1>13
       DEF Next

LEMMA PipeMoves ==
  ASSUME PipeInv, [Next]_vars
  PROVE  [Channel!Write \/ Channel!Deliver]_<<sent, got, torn>>
<1> USE DEF stream, carrier, radio, counts
<1>1. CASE HostWrites
  BY <1>1 DEF HostWrites, Channel!Write
<1>2. CASE Deliver
  <2>1. /\ air # << >> /\ up /\ Delivered(Head(air)) /\ UNCHANGED sent
    BY <1>2 DEF Deliver, PipeInv, AirInv
  <2>2. PICK f \in 0 .. sent : Lined(air, got, f)
    BY <2>1 DEF PipeInv, AirInv
  <2>3. /\ air \in Seq(Frame) /\ got \in Nat /\ f \in Nat /\ sent \in Nat /\ Head(air) \in Frame
    BY <2>1, HeadTailProperties DEF PipeInv, AirInv, QueueInv
  <2>4. CASE Head(air).kind = "data"
    <3>1. Head(air).from = got + 1 /\ Head(air).to \in got + 1 .. f
      BY <2>1, <2>2, <2>3, <2>4, LinedTail
    <3> QED BY <2>1, <2>3, <2>4, <3>1 DEF Delivered, Channel!Deliver
  <2>5. CASE Head(air).kind # "data"
    BY <2>1, <2>3, <2>5 DEF Delivered, Frame
  <2> QED BY <2>4, <2>5
<1>3. CASE ~HostWrites /\ ~Deliver
  BY <1>3 DEF Next, vars, StartWrite, Answer, PeripheralError, LoseAnswer, WriteTimeout, Drain,
       RetryFires, ReadyToUpdate, StartDrain, Continue, MtuChanged, ControlFrame, LinkLoss, Reset
<1> QED BY <1>1, <1>2, <1>3

\* What the pipe's host is handed is what the other wrote, in order, up to a
\* failure: whatever the carriers drop, refuse, fail or answer late, provided
\* that the payload size does not change in the middle of a write.
THEOREM GattIsByteChannel == ASSUME MtuMidWrite = FALSE PROVE Spec => BytePipe
<1>1. Init => Channel!Init
  BY DEF Init, Channel!Init
<1> QED BY <1>1, PipeInit, PipeStep, PipeMoves, PTL DEF Spec, BytePipe, Channel!Spec

-----------------------------------------------------------------------------
(* AckIsReceipt.  As long as no completion came late, the only write on its    *)
(* way is the one awaited, so that its completion can only be its own.         *)

Quiet == Len(air) = 0 /\ answers = 0

OnlyAwaited ==
  \/ Quiet
  \/ waiting /\ answers = 0 /\ Len(air) = 1 /\ air[1] = queue[1]
  \/ waiting /\ answers = 1 /\ Len(air) = 0 /\ (queue[1].kind = "data" => got >= Slice.to)

Receipt ==
  /\ told = "sent" => got >= Slice.to
  /\ open /\ busy => got >= at - 1
  /\ open /\ ~busy => got >= sent

AckInv == side = "central" /\ ack /\ late = 0 => OnlyAwaited /\ Receipt

AwaitedInv == AckInv /\ late \in Nat

LEMMA AckInit == Init => AckInv
<1> SUFFICES ASSUME Init PROVE Quiet /\ Receipt
  BY DEF AckInv, OnlyAwaited
<1>1. Len(air) = 0
  BY LenProperties, EmptySeq DEF Init
<1> QED BY <1>1 DEF Init, Quiet, Receipt

\* The head of the queue, and the slice, under a step that appends to the queue.
LEMMA HeadStays ==
  ASSUME QueueInv, queue # << >>, NEW f, queue' = Append(queue, f)
  PROVE  queue'[1] = queue[1]
<1>1. queue \in Seq(Frame) /\ Len(queue) \in Nat \ {0}
  BY EmptySeq, LenProperties DEF QueueInv
<1> QED BY <1>1

LEMMA HeadData ==
  ASSUME QueueInv, queue # << >>, queue[1].kind = "data"
  PROVE  queue[1] = Slice /\ busy /\ told = "none"
<1>1. 1 \in 1 .. Len(queue)
  BY EmptySeq, LenProperties DEF QueueInv
<1> QED BY <1>1 DEF QueueInv

\* A step after which nothing is on its way.
LEMMA AckByQuiet ==
  ASSUME Quiet', Receipt'
  PROVE  AckInv'
BY DEF AckInv, OnlyAwaited

\* The head leaves the queue, with nothing on its way any more.
LEMMA AckBySettle ==
  ASSUME PipeInv, queue # << >>, NEW o \in {"sent", "failed"}, Settle(o), Receipt, told = "none",
         UNCHANGED <<sent, at, busy, open, payload, got>>,
         o = "sent" => (queue[1].kind = "data" => got >= Slice.to), Quiet'
  PROVE  AckInv'
<1>1. Head(queue) = queue[1]
  BY HeadTailProperties DEF PipeInv, QueueInv
<1>2. Slice' = Slice
  BY DEF Slice, SliceFrom, Data
<1>3. told' = "sent" => got >= Slice.to
  BY <1>1 DEF Settle
<1> QED BY <1>2, <1>3, AckByQuiet DEF Receipt

\* What the writer sees does not change, nor what is on its way.
LEMMA AckByIdle ==
  ASSUME AckInv, UNCHANGED <<side, ack, late, answers, air, queue, waiting, sent, at, busy,
                             payload, told, got>>,
         open' => open
  PROVE  AckInv'
<1>1. Slice' = Slice
  BY DEF Slice, SliceFrom, Data
<1>2. OnlyAwaited => OnlyAwaited'
  BY <1>1 DEF OnlyAwaited, Quiet
<1>3. Receipt => Receipt'
  BY <1>1 DEF Receipt
<1> QED BY <1>2, <1>3 DEF AckInv

LEMMA AckByWrite ==
  ASSUME PipeInv, AckInv, StartWrite, side = "central", ack, late = 0
  PROVE  AckInv'
<1> USE DEF stream, carrier, radio, counts
<1>1. /\ queue # << >> /\ ~waiting /\ told = "none" /\ OnlyAwaited /\ Receipt
      /\ UNCHANGED <<side, ack, sent, at, busy, open, payload, got, answers, late>>
  BY DEF StartWrite, Startable, AckInv
<1>2. Quiet /\ air \in Seq(Frame) /\ queue[1] = Head(queue)
  BY <1>1, HeadTailProperties DEF OnlyAwaited, PipeInv, AirInv, QueueInv
<1>3. CASE Settle("failed") /\ air' = air
  BY <1>1, <1>2, <1>3, AckBySettle DEF Quiet
<1>4. CASE Aired(Head(queue)) /\ waiting' = TRUE /\ UNCHANGED <<queue, told>>
  <2>1. Slice' = Slice
    BY <1>1 DEF Slice, SliceFrom, Data
  <2>2. Len(air') = 0 \/ (Len(air') = 1 /\ air'[1] = queue[1])
    BY <1>2, <1>4 DEF Aired, Quiet
  <2>3. OnlyAwaited'
    BY <1>1, <1>2, <1>4, <2>2 DEF OnlyAwaited, Quiet
  <2>4. Receipt'
    BY <1>1, <1>4, <2>1 DEF Receipt
  <2> QED BY <2>3, <2>4 DEF AckInv
<1> QED BY <1>3, <1>4 DEF StartWrite, Acked

\* A slice that is delivered was the one awaited, and continues what was there.
LEMMA AckByDelivery ==
  ASSUME PipeInv, AckInv, PipeInv', Deliver, side = "central", ack, late = 0
  PROVE  AckInv'
<1> USE DEF stream, carrier, radio, counts
<1>1. /\ air # << >> /\ air' = Tail(air) /\ Delivered(Head(air)) /\ OnlyAwaited /\ Receipt
      /\ answers' = answers + 1
      /\ UNCHANGED <<side, ack, sent, at, busy, open, payload, queue, waiting, told, late>>
  BY DEF Deliver, Acked, AckInv
<1>2. /\ waiting /\ answers = 0 /\ Len(air) = 1 /\ air[1] = queue[1] /\ Head(air) = queue[1]
      /\ Len(air') = 0
  <2>1. air \in Seq(Frame) /\ Len(air) # 0
    BY <1>1, EmptySeq DEF PipeInv, AirInv
  <2>2. waiting /\ answers = 0 /\ Len(air) = 1 /\ air[1] = queue[1]
    BY <1>1, <2>1 DEF OnlyAwaited, Quiet
  <2>3. Head(air) = air[1] /\ Len(air') = Len(air) - 1
    BY <1>1, <2>1, HeadTailProperties
  <2> QED BY <2>2, <2>3
<1>3. queue # << >> /\ sent \in Nat /\ at \in Nat /\ payload \in Nat \ {0}
  BY <1>2 DEF PipeInv, QueueInv
<1>4. Slice' = Slice
  BY <1>1 DEF Slice, SliceFrom, Data
<1>5. CASE queue[1].kind = "data"
  <2>1. queue[1] = Slice /\ busy /\ told = "none" /\ 1 <= at /\ at <= sent
    BY <1>3, <1>5, HeadData DEF PipeInv, QueueInv
  <2>2. Slice.to \in Nat /\ at <= Slice.to
    BY <1>3, <2>1, SliceFacts DEF Slice, Frame
  <2>3. got' = Slice.to
    BY <1>1, <1>2, <1>5, <2>1 DEF Delivered, PipeInv, AirInv
  <2>4. OnlyAwaited'
    BY <1>1, <1>2, <1>4, <2>2, <2>3 DEF OnlyAwaited
  <2>5. Receipt'
    BY <1>1, <1>3, <2>1, <2>2, <2>3 DEF Receipt
  <2> QED BY <2>4, <2>5 DEF AckInv
<1>6. CASE queue[1].kind # "data"
  <2>1. queue[1].kind = "ctrl"
    <3>1. queue[1] \in Frame
      BY <1>3, EmptySeq, LenProperties, ElementOfSeq DEF PipeInv, QueueInv
    <3> QED BY <1>6, <3>1 DEF Frame
  <2>2. got' = got
    BY <1>1, <1>2, <2>1 DEF Delivered
  <2>3. OnlyAwaited'
    BY <1>1, <1>2, <1>6 DEF OnlyAwaited
  <2>4. Receipt'
    BY <1>1, <1>4, <2>2 DEF Receipt
  <2> QED BY <2>3, <2>4 DEF AckInv
<1> QED BY <1>5, <1>6

\* A completion, an error or a timeout ends the wait.
LEMMA AckByCompletion ==
  ASSUME PipeInv, AckInv, Answer \/ PeripheralError \/ WriteTimeout, side = "central", ack,
         late = 0, late' = 0
  PROVE  AckInv'
<1> USE DEF stream, carrier, radio, counts
<1>1. /\ told = "none" /\ OnlyAwaited /\ Receipt /\ air \in Seq(Frame)
      /\ UNCHANGED <<side, ack, sent, at, busy, open, payload, got>>
  BY DEF Answer, PeripheralError, WriteTimeout, Pending, AckInv, PipeInv, AirInv
<1>2. waiting => queue # << >>
  BY DEF PipeInv, QueueInv
<1>3. Slice' = Slice
  BY <1>1 DEF Slice, SliceFrom, Data
<1>4. CASE Answer
  <2>1. /\ answers = 1 /\ waiting /\ Len(air) = 0 /\ (queue[1].kind = "data" => got >= Slice.to)
        /\ answers' = 0 /\ air' = air
    BY <1>1, <1>4 DEF Answer, OnlyAwaited, Quiet
  <2>2. Settle("sent") /\ Quiet'
    BY <1>4, <2>1 DEF Answer, Complete, Quiet
  <2> QED BY <1>1, <1>2, <2>1, <2>2, AckBySettle
<1>5. CASE PeripheralError
  <2>1. Quiet'
    BY <1>5, LenProperties, EmptySeq DEF PeripheralError, Quiet
  <2>2. CASE waiting
    BY <1>1, <1>2, <1>5, <2>1, <2>2, AckBySettle DEF PeripheralError, Complete
  <2>3. CASE ~waiting
    BY <1>1, <1>3, <1>5, <2>1, <2>3, AckByQuiet DEF PeripheralError, Complete, Receipt
  <2> QED BY <2>2, <2>3
<1>6. CASE WriteTimeout
  <2>1. ~OnItsWay
    BY <1>6 DEF WriteTimeout
  <2>2. answers = 0 /\ Len(air) = 0
    <3>1. ~(answers > 0) /\ \A i \in DOMAIN air : ~Acked(air[i])
      BY <2>1 DEF OnItsWay
    <3>2. Len(air) # 1
      BY <1>1, <3>1 DEF Acked
    <3> QED BY <1>1, <3>1, <3>2 DEF OnlyAwaited, Quiet
  <2>3. waiting /\ Settle("failed") /\ Quiet'
    BY <1>6, <2>2 DEF WriteTimeout, Quiet
  <2> QED BY <1>1, <1>2, <2>3, AckBySettle
<1> QED BY <1>4, <1>5, <1>6

\* A frame goes to the end of the queue, a slice only when the last is done.
LEMMA AckBySend ==
  ASSUME PipeInv, OnlyAwaited, side = "central", NEW f, Send(f),
         UNCHANGED <<air, answers, got>>, Receipt',
         Slice' = Slice \/ \A i \in 1 .. Len(queue) : queue[i].kind # "data"
  PROVE  AckInv'
<1>1. queue' = Append(queue, f) /\ waiting' = waiting
  BY DEF Send
<1>2. CASE Quiet
  BY <1>2, AckByQuiet DEF Quiet
<1>3. CASE ~Quiet
  <2>1. waiting /\ queue # << >>
    BY <1>3 DEF OnlyAwaited, PipeInv, QueueInv
  <2>2. queue'[1] = queue[1]
    BY <1>1, <2>1, HeadStays DEF PipeInv
  <2>3. Slice' = Slice \/ queue[1].kind # "data"
    BY <2>1, EmptySeq, LenProperties DEF PipeInv, QueueInv
  <2>4. OnlyAwaited'
    BY <1>1, <1>3, <2>2, <2>3 DEF OnlyAwaited
  <2> QED BY <2>4 DEF AckInv
<1> QED BY <1>2, <1>3

LEMMA AckByStream ==
  ASSUME PipeInv, AckInv, HostWrites \/ Continue \/ ControlFrame, side = "central", ack, late = 0
  PROVE  AckInv'
<1> USE DEF stream, carrier, radio, counts
<1>1. /\ OnlyAwaited /\ Receipt /\ UNCHANGED <<side, ack, payload, got, air, answers, late>>
      /\ sent \in Nat /\ at \in Nat /\ payload \in Nat \ {0}
  BY DEF HostWrites, Continue, ControlFrame, AckInv, PipeInv, QueueInv
<1>2. CASE HostWrites
  <2>1. /\ open /\ ~busy /\ told = "none" /\ busy' /\ at' = sent + 1 /\ UNCHANGED <<open, told>>
        /\ Send(SliceFrom(sent + 1, sent'))
    BY <1>2 DEF HostWrites, Pending
  <2>2. Receipt'
    BY <1>1, <2>1 DEF Receipt
  <2>3. \A i \in 1 .. Len(queue) : queue[i].kind # "data"
    BY <2>1 DEF PipeInv, QueueInv
  <2> QED BY <1>1, <2>1, <2>2, <2>3, AckBySend
<1>3. CASE Continue
  <2>1. /\ busy /\ told # "none" /\ told' = "none" /\ at' = at + payload /\ sent' = sent
        /\ at <= sent /\ 1 <= at
        /\ \A i \in 1 .. Len(queue) : queue[i].kind # "data"
    BY <1>3 DEF Continue, PipeInv, QueueInv
  <2>2. /\ at + payload <= sent => Slice.to = at + payload - 1
        /\ ~(at + payload <= sent) => Slice.to = sent
    BY <1>1, <2>1, SliceFacts DEF Slice
  <2>3. CASE told = "sent" /\ at + payload <= sent
    <3>1. Send(SliceFrom(at + payload, sent)) /\ UNCHANGED <<busy, open>>
      BY <1>3, <2>3 DEF Continue, Advance
    <3>2. got >= at' - 1
      BY <1>1, <2>1, <2>2, <2>3 DEF Receipt
    <3>3. Receipt'
      BY <1>1, <2>1, <3>1, <3>2 DEF Receipt
    <3> QED BY <1>1, <2>1, <3>1, <3>3, AckBySend
  <2>4. CASE ~(told = "sent" /\ at + payload <= sent)
    <3>1. /\ ~busy' /\ open' = (open /\ told = "sent")
          /\ UNCHANGED <<queue, waiting>>
      BY <1>3, <2>4 DEF Continue, Advance
    <3>2. told = "sent" => got >= sent
      BY <1>1, <2>1, <2>2, <2>4 DEF Receipt
    <3>3. Receipt'
      BY <1>1, <2>1, <3>1, <3>2 DEF Receipt
    <3>4. waiting => queue[1].kind # "data"
      BY <2>1, EmptySeq, LenProperties DEF PipeInv, QueueInv
    <3>5. OnlyAwaited'
      BY <1>1, <3>1, <3>4 DEF OnlyAwaited, Quiet
    <3> QED BY <3>3, <3>5 DEF AckInv
  <2> QED BY <2>3, <2>4
<1>4. CASE ControlFrame
  <2>1. Send(Control) /\ UNCHANGED <<sent, at, busy, open, told>>
    BY <1>4 DEF ControlFrame
  <2>2. Slice' = Slice
    BY <1>1, <2>1 DEF Slice, SliceFrom, Data
  <2>3. Receipt'
    BY <1>1, <2>1, <2>2 DEF Receipt
  <2> QED BY <1>1, <2>1, <2>2, <2>3, AckBySend
<1> QED BY <1>2, <1>3, <1>4

\* The link or the transport goes, an answer is lost, the payload size changes.
LEMMA AckByRest ==
  ASSUME PipeInv, AckInv, side = "central", ack, late = 0, MtuMidWrite = FALSE,
         LoseAnswer \/ LinkLoss \/ Reset \/ MtuChanged \/ UNCHANGED vars
  PROVE  AckInv'
<1> USE DEF stream, carrier, radio, counts
<1>1. OnlyAwaited /\ Receipt
  BY DEF AckInv
<1>2. CASE UNCHANGED vars
  BY <1>2, AckByIdle DEF vars
<1>3. CASE MtuChanged
  <2>1. /\ ~busy /\ told = "none"
        /\ UNCHANGED <<sent, at, busy, open, queue, waiting, told, air, answers, got>>
    BY <1>3 DEF MtuChanged, Pending
  <2>2. waiting => queue[1].kind # "data"
    BY <2>1, EmptySeq, LenProperties DEF PipeInv, QueueInv
  <2>3. OnlyAwaited'
    BY <1>1, <2>1, <2>2 DEF OnlyAwaited, Quiet
  <2>4. Receipt'
    BY <1>1, <2>1 DEF Receipt
  <2> QED BY <2>3, <2>4 DEF AckInv
<1>4. CASE LoseAnswer \/ LinkLoss \/ Reset
  <2>1. /\ UNCHANGED <<sent, at, busy, payload, told, got>> /\ (open' => open)
    <3>1. CASE LoseAnswer
      BY <3>1 DEF LoseAnswer
    <3>2. CASE LinkLoss
      BY <3>2 DEF LinkLoss
    <3>3. CASE Reset
      <4>1. side # "server"
        OBVIOUS
      <4> QED BY <3>3, <4>1 DEF Reset
    <3> QED BY <1>4, <3>1, <3>2, <3>3
  <2>2. Slice' = Slice
    BY <2>1 DEF Slice, SliceFrom, Data
  <2>3. Receipt'
    BY <1>1, <2>1, <2>2 DEF Receipt
  <2>4. CASE LinkLoss \/ Reset
    BY <2>3, <2>4, AckByQuiet, LenProperties, EmptySeq DEF LinkLoss, Reset, Quiet
  <2>5. CASE LoseAnswer
    <3>1. answers > 0 /\ answers' = answers - 1 /\ air' = air
      BY <2>5 DEF LoseAnswer
    <3>2. Quiet'
      BY <1>1, <3>1 DEF OnlyAwaited, Quiet
    <3> QED BY <2>3, <3>2, AckByQuiet
  <2> QED BY <1>4, <2>4, <2>5
<1> QED BY <1>2, <1>3, <1>4

LEMMA LateStep ==
  ASSUME late \in Nat, [Next]_vars
  PROVE  late' \in Nat /\ (late' = 0 => late = 0) /\ side' = side /\ ack' = ack
<1> USE DEF stream, carrier, radio, counts
<1>1. side' = side /\ ack' = ack
  BY DEF Next, vars, StartWrite, Answer, PeripheralError, LoseAnswer, WriteTimeout, Drain,
      RetryFires, ReadyToUpdate, StartDrain, HostWrites, Continue, MtuChanged, ControlFrame,
      Deliver, LinkLoss, Reset
<1>2. late' = late \/ late' = late + 1
  BY DEF Next, vars, StartWrite, Answer, PeripheralError, LoseAnswer, WriteTimeout, Drain,
      RetryFires, ReadyToUpdate, StartDrain, HostWrites, Continue, MtuChanged, ControlFrame,
      Deliver, LinkLoss, Reset
<1> QED BY <1>1, <1>2

LEMMA AckStep ==
  ASSUME PipeInv, AckInv, late \in Nat, PipeInv', MtuMidWrite = FALSE, [Next]_vars
  PROVE  AckInv' /\ late' \in Nat
<1> SUFFICES ASSUME side' = "central", ack', late' = 0
             PROVE  AckInv'
  BY LateStep DEF AckInv
<1>1. side = "central" /\ ack /\ late = 0
  BY LateStep
<1>2. ~(Drain \/ RetryFires \/ ReadyToUpdate)
  BY <1>1 DEF Drain, RetryFires, ReadyToUpdate, PipeInv, QueueInv
<1> QED BY <1>1, <1>2, AckByWrite, AckByCompletion, AckByDelivery, AckByStream, AckByRest DEF Next

\* A slice that _write counts as sent has arrived, whatever frames share the
\* chain and whichever fail, as long as no completion comes after its timeout:
\* then the first completion to come is the one awaited.
THEOREM GattReceipts == ASSUME MtuMidWrite = FALSE PROVE Spec => []AckIsReceipt
<1>1. Init => AwaitedInv
  BY AckInit DEF Init, AwaitedInv
<1>2. AwaitedInv => AckIsReceipt
  BY DEF AwaitedInv, AckInv, Receipt, AckIsReceipt
<1>3. PipeInv /\ PipeInv' /\ AwaitedInv /\ [Next]_vars => AwaitedInv'
  BY AckStep DEF AwaitedInv
<1>4. PipeInv /\ [Next]_vars => PipeInv'
  BY PipeStep
<1> QED BY <1>1, <1>2, <1>3, <1>4, PipeInit, PTL DEF Spec

-----------------------------------------------------------------------------
(* OneWriteInFlight: a write joins the air only while none is awaited, and a  *)
(* wait ends with its completion or counts as late.                           *)

\* The acknowledged writes among frames in the air.
Owed(q) == {i \in DOMAIN q : Acked(q[i])}

LEMMA OwedCount ==
  ASSUME NEW q \in Seq(Frame)
  PROVE  IsFiniteSet(Owed(q)) /\ Cardinality(Owed(q)) \in Nat
<1>1. Len(q) \in Nat /\ DOMAIN q = 1 .. Len(q)
  BY LenProperties
<1>2. IsFiniteSet(1 .. Len(q))
  BY <1>1, FS_Interval
<1>3. IsFiniteSet(Owed(q))
  BY <1>1, <1>2, FS_Subset DEF Owed
<1> QED BY <1>3, FS_CardinalityType

LEMMA OwedAppend ==
  ASSUME NEW q \in Seq(Frame), NEW f \in Frame
  PROVE  Cardinality(Owed(Append(q, f))) <= Cardinality(Owed(q)) + (IF Acked(f) THEN 1 ELSE 0)
<1> DEFINE r == Append(q, f)
           n == Len(q) + 1
<1>1. /\ Len(q) \in Nat /\ DOMAIN q = 1 .. Len(q)
      /\ r \in Seq(Frame) /\ DOMAIN r = 1 .. n /\ r[n] = f
      /\ \A i \in 1 .. Len(q) : r[i] = q[i]
  BY LenProperties, AppendProperties
<1>2. IsFiniteSet(Owed(q)) /\ Cardinality(Owed(q)) \in Nat
  BY OwedCount
<1> HIDE DEF r
<1>3. CASE Acked(f)
  <2>1. Owed(r) \subseteq Owed(q) \cup {n}
    BY <1>1 DEF Owed
  <2>2. /\ IsFiniteSet(Owed(q) \cup {n})
        /\ Cardinality(Owed(q) \cup {n}) <= Cardinality(Owed(q)) + 1
    <3>1. /\ IsFiniteSet(Owed(q) \cup {n})
          /\ Cardinality(Owed(q) \cup {n}) =
               IF n \in Owed(q) THEN Cardinality(Owed(q)) ELSE Cardinality(Owed(q)) + 1
      BY <1>2, FS_AddElement
    <3> QED BY <1>2, <3>1
  <2>3. Cardinality(Owed(r)) <= Cardinality(Owed(q) \cup {n})
    BY <2>1, <2>2, FS_Subset
  <2>4. Cardinality(Owed(r)) \in Nat /\ Cardinality(Owed(q) \cup {n}) \in Nat
    BY <1>1, <2>2, OwedCount, FS_CardinalityType
  <2> QED BY <1>2, <1>3, <2>2, <2>3, <2>4 DEF r
<1>4. CASE ~Acked(f)
  <2>1. Owed(r) \subseteq Owed(q)
    <3> SUFFICES ASSUME NEW i \in 1 .. n, Acked(r[i]) PROVE i \in Owed(q)
      BY <1>1 DEF Owed
    <3>1. i # n
      BY <1>1, <1>4
    <3>2. i \in 1 .. Len(q)
      BY <1>1, <3>1
    <3> QED BY <1>1, <3>2 DEF Owed
  <2>2. Cardinality(Owed(r)) <= Cardinality(Owed(q))
    BY <1>2, <2>1, FS_Subset
  <2> QED BY <1>2, <1>4, <2>2 DEF r
<1> QED BY <1>3, <1>4

LEMMA OwedTail ==
  ASSUME NEW q \in Seq(Frame), q # << >>
  PROVE  Cardinality(Owed(Tail(q))) + (IF Acked(Head(q)) THEN 1 ELSE 0) <= Cardinality(Owed(q))
<1> DEFINE r == Tail(q)
           S == IF Acked(q[1]) THEN Owed(q) \ {1} ELSE Owed(q)
           up1 == [i \in Owed(r) |-> i + 1]
<1>1. /\ Len(q) \in Nat \ {0} /\ DOMAIN q = 1 .. Len(q) /\ Head(q) = q[1]
      /\ r \in Seq(Frame) /\ DOMAIN r = 1 .. Len(q) - 1
      /\ \A i \in 1 .. Len(q) - 1 : r[i] = q[i + 1]
  BY LenProperties, HeadTailProperties, EmptySeq
<1>2. IsFiniteSet(Owed(q)) /\ Cardinality(Owed(q)) \in Nat /\ Cardinality(Owed(r)) \in Nat
  BY <1>1, OwedCount
<1> HIDE DEF r
<1>3. ASSUME NEW i \in Owed(r) PROVE i \in Nat \ {0} /\ i + 1 \in Owed(q) \ {1}
  <2>1. i \in 1 .. Len(q) - 1 /\ Acked(r[i])
    BY <1>1, <1>3 DEF Owed
  <2>2. i + 1 \in 1 .. Len(q) /\ i + 1 # 1 /\ Acked(q[i + 1])
    BY <1>1, <2>1
  <2> QED BY <1>1, <2>1, <2>2 DEF Owed
<1>4. up1 \in Injection(Owed(r), S)
  <2>1. up1 \in [Owed(r) -> S]
    BY <1>3
  <2>2. \A i, j \in Owed(r) : up1[i] = up1[j] => i = j
    BY <1>3
  <2> QED BY <2>1, <2>2, Fun_IsInj
<1>5. IsFiniteSet(S) /\ Cardinality(S) + (IF Acked(q[1]) THEN 1 ELSE 0) = Cardinality(Owed(q))
  <2>1. Acked(q[1]) => 1 \in Owed(q)
    BY <1>1 DEF Owed
  <2>2. /\ IsFiniteSet(Owed(q) \ {1})
        /\ 1 \in Owed(q) => Cardinality(Owed(q) \ {1}) = Cardinality(Owed(q)) - 1
    BY <1>2, FS_RemoveElement
  <2>3. CASE Acked(q[1])
    BY <1>2, <2>1, <2>2, <2>3
  <2>4. CASE ~Acked(q[1])
    BY <1>2, <2>4
  <2> QED BY <2>3, <2>4
<1> HIDE DEF S, up1
<1>6. Cardinality(Owed(r)) <= Cardinality(S)
  BY <1>4, <1>5, FS_Injection
<1>7. Cardinality(S) \in Nat
  BY <1>5, FS_CardinalityType
<1> QED BY <1>1, <1>2, <1>5, <1>6, <1>7 DEF r

\* What the chain holds, whatever becomes of the payload size.
ChainInv ==
  /\ queue \in Seq(Frame) /\ air \in Seq(Frame)
  /\ sent \in Nat /\ at \in Nat /\ payload \in Nat \ {0}
  /\ answers \in Nat /\ late \in Nat
  /\ waiting => side = "central" /\ queue # << >>
  /\ draining \/ retry => side = "server"

\* Each write on the air or answered is the one awaited or came late.
FlightInv ==
  side = "central" =>
    answers + Cardinality(Owed(air)) <= late + (IF waiting THEN 1 ELSE 0)

LEMMA ChainStep ==
  ASSUME ChainInv, [Next]_vars
  PROVE  ChainInv'
<1> USE DEF stream, carrier, radio, counts
<1>a. /\ queue # << >> => Head(queue) \in Frame /\ Tail(queue) \in Seq(Frame)
      /\ air # << >> => Tail(air) \in Seq(Frame)
      /\ \A f \in Frame : /\ Append(queue, f) \in Seq(Frame) /\ Append(queue, f) # << >>
                           /\ Append(air, f) \in Seq(Frame)
      /\ << >> \in Seq(Frame)
  BY HeadTailProperties, AppendProperties, EmptySeq DEF ChainInv
<1>b. Control \in Frame
  BY DEF Control, Frame
<1>c. \A a, last \in Nat : SliceFrom(a, last) \in Frame
  BY SliceTyped DEF ChainInv
<1>1. CASE StartWrite
  <2>1. /\ side = "central" /\ queue # << >> /\ ~waiting /\ Head(queue) \in Frame
        /\ UNCHANGED <<side, sent, at, payload, draining, retry, answers, late>>
    BY <1>1, <1>a DEF StartWrite, Startable
  <2>2. air' \in Seq(Frame)
    <3>1. air' = air \/ air' = Append(air, Head(queue))
      BY <1>1 DEF StartWrite, Aired
    <3> QED BY <1>a, <2>1, <3>1 DEF ChainInv
  <2>3. CASE waiting' = TRUE /\ queue' = queue
    BY <2>1, <2>2, <2>3 DEF ChainInv
  <2>4. CASE waiting' = waiting /\ queue' = Tail(queue)
    BY <1>a, <2>1, <2>2, <2>4 DEF ChainInv
  <2> QED BY <1>1, <2>3, <2>4 DEF StartWrite, Settle
<1>2. CASE Answer \/ PeripheralError \/ LoseAnswer
  <2>1. /\ UNCHANGED <<side, sent, at, payload, draining, retry, late>>
        /\ air' = air \/ air' = << >>
        /\ answers' \in Nat
    BY <1>2 DEF Answer, PeripheralError, LoseAnswer, ChainInv
  <2>2. air' \in Seq(Frame)
    BY <1>a, <2>1 DEF ChainInv
  <2>3. CASE waiting' = waiting /\ queue' = queue
    BY <2>1, <2>2, <2>3 DEF ChainInv
  <2>4. CASE waiting /\ waiting' = FALSE /\ queue' = Tail(queue)
    BY <1>a, <2>1, <2>2, <2>4 DEF ChainInv
  <2> QED BY <1>2, <2>3, <2>4 DEF Answer, PeripheralError, LoseAnswer, Complete, Settle
<1>3. CASE WriteTimeout
  BY <1>3, <1>a DEF WriteTimeout, Settle, ChainInv
<1>4. CASE Drain
  BY <1>4, <1>a DEF Drain, Aired, Settle, ChainInv
<1>5. CASE RetryFires \/ ReadyToUpdate
  BY <1>5 DEF RetryFires, ReadyToUpdate, StartDrain, ChainInv
<1>6. CASE HostWrites
  BY <1>6, <1>a, <1>c, GattAssumption DEF HostWrites, Send, ChainInv
<1>7. CASE Continue
  <2>1. /\ UNCHANGED <<side, sent, payload, answers, late, air, waiting>>
        /\ at' = at + payload /\ at' \in Nat
    BY <1>7 DEF Continue, Send, ChainInv
  <2>2. CASE UNCHANGED <<queue, draining, retry>>
    BY <2>1, <2>2 DEF ChainInv
  <2>3. CASE Send(SliceFrom(at + payload, sent))
    <3>1. SliceFrom(at + payload, sent) \in Frame
      BY <1>c, <2>1 DEF ChainInv
    <3> QED BY <1>a, <2>1, <2>3, <3>1 DEF Send, ChainInv
  <2> QED BY <1>7, <2>2, <2>3 DEF Continue
<1>8. CASE MtuChanged
  BY <1>8, GattAssumption DEF MtuChanged, ChainInv
<1>9. CASE ControlFrame
  BY <1>9, <1>a, <1>b DEF ControlFrame, Send, ChainInv
<1>10. CASE Deliver
  BY <1>10, <1>a DEF Deliver, ChainInv
<1>11. CASE LinkLoss \/ Reset
  <2>1. /\ UNCHANGED <<side, sent, at, payload, waiting, draining, late>>
        /\ air' = << >> /\ answers' = 0
    BY <1>11 DEF LinkLoss, Reset
  <2>2. CASE UNCHANGED <<queue, retry>>
    BY <1>a, <2>1, <2>2 DEF ChainInv
  <2>3. CASE side = "server" /\ queue' = << >> /\ retry' = FALSE
    BY <1>a, <2>1, <2>3 DEF ChainInv
  <2> QED BY <1>11, <2>2, <2>3 DEF LinkLoss, Reset
<1>12. CASE UNCHANGED vars
  BY <1>12 DEF vars, ChainInv
<1> QED
  BY <1>1, <1>2, <1>3, <1>4, <1>5, <1>6, <1>7, <1>8, <1>9, <1>10, <1>11, <1>12 DEF Next

LEMMA FlightStep ==
  ASSUME ChainInv, FlightInv, [Next]_vars
  PROVE  FlightInv'
<1> USE DEF stream, carrier, radio, counts
<1>a. UNCHANGED <<side, ack>>
  BY DEF Next, vars, StartWrite, Answer, PeripheralError, LoseAnswer, WriteTimeout, Drain,
     RetryFires, ReadyToUpdate, StartDrain, HostWrites, Continue, MtuChanged, ControlFrame,
     Deliver, LinkLoss, Reset
<1>b. Owed(air)' = Owed(air')
  BY <1>a DEF Owed, Acked
<1>c. SUFFICES ASSUME side = "central"
               PROVE  answers' + Cardinality(Owed(air')) <= late' + (IF waiting' THEN 1 ELSE 0)
  BY <1>a, <1>b DEF FlightInv
<1> DEFINE n == Cardinality(Owed(air))
<1>d. /\ answers \in Nat /\ late \in Nat /\ n \in Nat
      /\ answers + n <= late + (IF waiting THEN 1 ELSE 0)
      /\ air \in Seq(Frame) /\ queue \in Seq(Frame)
  BY <1>c, OwedCount DEF ChainInv, FlightInv
<1>e. Cardinality(Owed(<< >>)) = 0
  <2>1. Owed(<< >>) = {}
    BY EmptySeq DEF Owed
  <2> QED BY <2>1, FS_EmptySet
<1>f. CASE UNCHANGED <<air, answers, late, waiting>>
  BY <1>d, <1>f
<1>g. CASE air' = << >> /\ answers' = 0 /\ late' = late
  BY <1>d, <1>e, <1>g
<1> HIDE DEF n
<1>1. CASE StartWrite
  <2> DEFINE f == Head(queue)
  <2>1. ~waiting /\ f \in Frame /\ answers' = answers /\ late' = late
    BY <1>1, <1>d, HeadTailProperties DEF StartWrite, Startable
  <2>2. CASE air' = air
    BY <1>1, <1>d, <2>1, <2>2 DEF n
  <2>3. CASE air' = Append(air, f) /\ (waiting' <=> Acked(f))
    <3>1. Cardinality(Owed(air')) <= n + (IF Acked(f) THEN 1 ELSE 0)
      BY <1>d, <2>1, <2>3, OwedAppend DEF n
    <3>2. Cardinality(Owed(air')) \in Nat
      BY <1>d, <2>1, <2>3, OwedCount, AppendProperties
    <3> QED BY <1>d, <2>1, <2>3, <3>1, <3>2
  <2> QED BY <1>1, <2>1, <2>2, <2>3 DEF StartWrite, Aired
<1>2. CASE Answer \/ LoseAnswer
  BY <1>2, <1>d DEF Answer, LoseAnswer, Complete, n
<1>3. CASE WriteTimeout
  <2>1. CASE OnItsWay
    BY <1>3, <1>d, <2>1 DEF WriteTimeout, n
  <2>2. CASE ~OnItsWay
    <3>1. Owed(air) = {} /\ answers = 0
      BY <1>d, <2>2 DEF OnItsWay, Owed
    <3>2. n = 0
      BY <3>1, FS_EmptySet DEF n
    <3> QED BY <1>3, <1>d, <2>2, <3>1, <3>2 DEF WriteTimeout, n
  <2> QED BY <2>1, <2>2
<1>4. CASE Deliver
  <2>1. /\ air # << >> /\ air' = Tail(air) /\ late' = late /\ waiting' = waiting
        /\ answers' = IF Acked(Head(air)) THEN answers + 1 ELSE answers
    BY <1>4, <1>c DEF Deliver
  <2>2. Cardinality(Owed(air')) + (IF Acked(Head(air)) THEN 1 ELSE 0) <= n
    BY <1>d, <2>1, OwedTail DEF n
  <2>3. Cardinality(Owed(air')) \in Nat
    BY <1>d, <2>1, OwedCount, HeadTailProperties
  <2> QED BY <1>d, <2>1, <2>2, <2>3
<1>5. CASE PeripheralError \/ LinkLoss \/ Reset
  BY <1>5, <1>g DEF PeripheralError, LinkLoss, Reset
<1>6. CASE HostWrites \/ Continue \/ MtuChanged \/ ControlFrame \/ UNCHANGED vars
  BY <1>6, <1>f DEF HostWrites, Continue, MtuChanged, ControlFrame, Send, vars
<1>7. ~(Drain \/ RetryFires \/ ReadyToUpdate)
  BY <1>c DEF Drain, RetryFires, ReadyToUpdate, ChainInv
<1> QED BY <1>1, <1>2, <1>3, <1>4, <1>5, <1>6, <1>7 DEF Next

\* "One write in flight per peripheral" (gatt.js, the central's chain of
\* writes), whatever is lost, late or resized: a second acknowledged write on
\* the air is owed to a wait that timed out before its completion.
THEOREM OneWrite == Spec => []OneWriteInFlight
<1>1. Init => ChainInv /\ FlightInv
  <2> SUFFICES ASSUME Init PROVE ChainInv /\ FlightInv
    OBVIOUS
  <2>1. ChainInv
    BY GattAssumption, EmptySeq DEF Init, ChainInv
  <2>2. Owed(air) = {}
    BY EmptySeq DEF Init, Owed
  <2> QED BY <2>1, <2>2, FS_EmptySet DEF Init, FlightInv
<1>2. ChainInv /\ FlightInv /\ [Next]_vars => ChainInv' /\ FlightInv'
  BY ChainStep, FlightStep
<1>3. ChainInv /\ FlightInv => OneWriteInFlight
  <2> SUFFICES ASSUME ChainInv, FlightInv, side = "central"
               PROVE  answers + Cardinality(Owed(air)) <= 1 + late
    BY DEF OneWriteInFlight, Owed
  <2>1. Cardinality(Owed(air)) \in Nat /\ answers \in Nat /\ late \in Nat
    BY OwedCount DEF ChainInv
  <2> QED BY <2>1 DEF FlightInv
<1> QED BY <1>1, <1>2, <1>3, PTL DEF Spec

-----------------------------------------------------------------------------
(* WriteHearsBack.  The queue never holds more than one data frame, so that    *)
(* what settles or drops it settles the one promise that _write awaits.        *)

DataIn(q) == \E i \in DOMAIN q : q[i].kind = "data"
OneSlice(q) ==
  \A i, j \in DOMAIN q : q[i].kind = "data" /\ q[j].kind = "data" => i = j

HeldInv == OneSlice(queue) /\ WriteHearsBack

LEMMA HeldTail ==
  ASSUME NEW q \in Seq(Frame), q # << >>, OneSlice(q)
  PROVE  /\ OneSlice(Tail(q))
         /\ Head(q).kind = "data" => DataIn(q) /\ ~DataIn(Tail(q))
         /\ Head(q).kind # "data" => (DataIn(q) <=> DataIn(Tail(q)))
<1> DEFINE r == Tail(q)
<1>1. /\ Len(q) \in Nat \ {0} /\ DOMAIN q = 1 .. Len(q) /\ Head(q) = q[1]
      /\ DOMAIN r = 1 .. Len(q) - 1
      /\ \A i \in 1 .. Len(q) - 1 : r[i] = q[i + 1]
  BY LenProperties, HeadTailProperties, EmptySeq
<1> HIDE DEF r
<1>2. OneSlice(r)
  <2> SUFFICES ASSUME NEW i \in DOMAIN r, NEW j \in DOMAIN r,
                      r[i].kind = "data", r[j].kind = "data"
               PROVE  i = j
    BY DEF OneSlice
  <2>1. i + 1 \in DOMAIN q /\ j + 1 \in DOMAIN q
    BY <1>1
  <2>2. i + 1 = j + 1
    BY <1>1, <2>1 DEF OneSlice
  <2> QED BY <1>1, <2>2
<1>3. ASSUME q[1].kind = "data" PROVE DataIn(q) /\ ~DataIn(r)
  <2>1. DataIn(q)
    BY <1>1, <1>3 DEF DataIn
  <2>2. ASSUME NEW i \in DOMAIN r, r[i].kind = "data" PROVE FALSE
    <3>1. i + 1 \in DOMAIN q /\ 1 \in DOMAIN q /\ q[i + 1].kind = "data" /\ i + 1 # 1
      BY <1>1, <2>2
    <3> QED BY <1>3, <3>1 DEF OneSlice
  <2> QED BY <2>1, <2>2 DEF DataIn
<1>4. ASSUME q[1].kind # "data" PROVE DataIn(q) <=> DataIn(r)
  <2>1. ASSUME NEW i \in DOMAIN q, q[i].kind = "data" PROVE DataIn(r)
    <3>1. i - 1 \in DOMAIN r /\ r[i - 1] = q[i]
      <4>1. i # 1
        BY <1>4, <2>1
      <4>2. i - 1 \in 1 .. Len(q) - 1 /\ (i - 1) + 1 = i
        BY <1>1, <4>1
      <4> QED BY <1>1, <4>2
    <3> QED BY <2>1, <3>1 DEF DataIn
  <2>2. ASSUME NEW i \in DOMAIN r, r[i].kind = "data" PROVE DataIn(q)
    <3>1. i + 1 \in DOMAIN q /\ r[i] = q[i + 1]
      BY <1>1
    <3> QED BY <2>2, <3>1 DEF DataIn
  <2> QED BY <2>1, <2>2 DEF DataIn
<1> QED BY <1>1, <1>2, <1>3, <1>4 DEF r

LEMMA HeldAppend ==
  ASSUME NEW q \in Seq(Frame), NEW f \in Frame, OneSlice(q), f.kind = "data" => ~DataIn(q)
  PROVE  /\ OneSlice(Append(q, f))
         /\ DataIn(Append(q, f)) <=> DataIn(q) \/ f.kind = "data"
<1> DEFINE r == Append(q, f)
           n == Len(q) + 1
<1>1. /\ Len(q) \in Nat /\ DOMAIN q = 1 .. Len(q)
      /\ DOMAIN r = 1 .. n /\ r[n] = f /\ n \in 1 .. n
      /\ \A i \in 1 .. Len(q) : r[i] = q[i] /\ i \in 1 .. n
      /\ \A i \in 1 .. n : i # n => i \in 1 .. Len(q)
  BY LenProperties, AppendProperties
<1> HIDE DEF r, n
<1>2. DataIn(r) <=> DataIn(q) \/ f.kind = "data"
  BY <1>1 DEF DataIn
<1>3. OneSlice(r)
  BY <1>1 DEF OneSlice, DataIn
<1> QED BY <1>2, <1>3 DEF r

\* The head leaves the queue and its promise settles.
LEMMA HeldBySettle ==
  ASSUME HeldInv, queue \in Seq(Frame), queue # << >>, NEW o \in {"sent", "failed"}, Settle(o),
         busy' = busy
  PROVE  HeldInv'
<1>1. queue' = Tail(queue) /\ told' = IF Head(queue).kind = "data" THEN o ELSE told
  BY DEF Settle
<1>2. (DataQueued <=> DataIn(queue)) /\ (DataQueued' <=> DataIn(queue'))
  BY DEF DataQueued, DataIn
<1>3. /\ OneSlice(queue')
      /\ Head(queue).kind = "data" => DataIn(queue) /\ ~DataIn(queue')
      /\ Head(queue).kind # "data" => (DataIn(queue) <=> DataIn(queue'))
  BY <1>1, HeldTail DEF HeldInv
<1>4. OneSlice(queue)'
  BY <1>3 DEF OneSlice
<1>5. CASE Head(queue).kind = "data"
  BY <1>1, <1>2, <1>3, <1>4, <1>5 DEF HeldInv, WriteHearsBack
<1>6. CASE Head(queue).kind # "data"
  BY <1>1, <1>2, <1>3, <1>4, <1>6 DEF HeldInv, WriteHearsBack
<1> QED BY <1>5, <1>6

\* A control frame joins the queue, or the slice of a write that had none there.
LEMMA HeldBySend ==
  ASSUME HeldInv, queue \in Seq(Frame), NEW f \in Frame, Send(f),
         \/ f.kind # "data" /\ UNCHANGED <<busy, told>>
         \/ f.kind = "data" /\ ~DataQueued /\ busy' = TRUE /\ told' = "none"
  PROVE  HeldInv'
<1>1. queue' = Append(queue, f)
  BY DEF Send
<1>2. (DataQueued <=> DataIn(queue)) /\ (DataQueued' <=> DataIn(queue'))
  BY DEF DataQueued, DataIn
<1>3. /\ OneSlice(queue')
      /\ DataIn(queue') <=> DataIn(queue) \/ f.kind = "data"
  BY <1>1, <1>2, HeldAppend DEF HeldInv
<1>4. OneSlice(queue)'
  BY <1>3 DEF OneSlice
<1> QED BY <1>2, <1>3, <1>4 DEF HeldInv, WriteHearsBack

\* Nothing of it changes.
LEMMA HeldByRest ==
  ASSUME HeldInv, UNCHANGED <<queue, busy, told>>
  PROVE  HeldInv'
BY DEF HeldInv, OneSlice, WriteHearsBack, DataQueued

LEMMA HeldStep ==
  ASSUME ChainInv, HeldInv, [Next]_vars
  PROVE  HeldInv'
<1> USE DEF stream, carrier, radio, counts
<1>a. queue \in Seq(Frame)
  BY DEF ChainInv
<1>1. CASE StartWrite
  <2>1. queue # << >> /\ UNCHANGED busy
    BY <1>1 DEF StartWrite, Startable
  <2>2. \/ UNCHANGED <<queue, told>>
        \/ \E o \in {"sent", "failed"} : Settle(o)
    BY <1>1 DEF StartWrite
  <2> QED BY <1>a, <2>1, <2>2, HeldBySettle, HeldByRest
<1>2. CASE Answer \/ PeripheralError \/ WriteTimeout
  <2>1. UNCHANGED busy
    BY <1>2 DEF Answer, PeripheralError, WriteTimeout
  <2>2. \/ UNCHANGED <<queue, told>>
        \/ queue # << >> /\ \E o \in {"sent", "failed"} : Settle(o)
    BY <1>2 DEF Answer, PeripheralError, WriteTimeout, Complete, ChainInv
  <2> QED BY <1>a, <2>1, <2>2, HeldBySettle, HeldByRest
<1>3. CASE Drain
  <2>1. UNCHANGED busy
    BY <1>3 DEF Drain
  <2>2. \/ UNCHANGED <<queue, told>>
        \/ queue # << >> /\ \E o \in {"sent", "failed"} : Settle(o)
    BY <1>3 DEF Drain
  <2> QED BY <1>a, <2>1, <2>2, HeldBySettle, HeldByRest
<1>4. CASE HostWrites
  <2>1. PICK last \in sent + 1 .. MaxBytes : Send(SliceFrom(sent + 1, last))
    BY <1>4 DEF HostWrites
  <2>2. ~busy /\ busy' = TRUE /\ told' = told
    BY <1>4 DEF HostWrites
  <2>3. ~DataQueued /\ told = "none"
    BY <2>2 DEF HeldInv, WriteHearsBack
  <2>4. SliceFrom(sent + 1, last) \in Frame /\ SliceFrom(sent + 1, last).kind = "data"
    <3>1. sent + 1 \in Nat /\ last \in Nat /\ payload \in Nat \ {0}
      BY GattAssumption DEF ChainInv
    <3> QED BY <3>1, SliceTyped
  <2> QED BY <1>a, <2>1, <2>2, <2>3, <2>4, HeldBySend
<1>5. CASE Continue
  <2>1. told # "none" /\ told' = "none" /\ ~DataQueued
    BY <1>5 DEF Continue, HeldInv, WriteHearsBack
  <2>2. CASE Send(SliceFrom(at + payload, sent)) /\ UNCHANGED busy
    <3>1. busy
      BY <2>1 DEF HeldInv, WriteHearsBack
    <3>2. \/ Send(SliceFrom(at + payload, sent)) /\ at + payload <= sent
          \/ busy' = FALSE /\ UNCHANGED queue
      BY <1>5 DEF Continue
    <3>3. SliceFrom(at + payload, sent) \in Frame
          /\ SliceFrom(at + payload, sent).kind = "data"
      <4>1. at + payload \in Nat /\ sent \in Nat /\ payload \in Nat \ {0}
        BY DEF ChainInv
      <4> QED BY <4>1, SliceTyped
    <3>4. busy' = TRUE
      <4>1. busy \in BOOLEAN
        BY <1>5 DEF Continue, HeldInv, WriteHearsBack
      <4> QED BY <2>2, <3>1, <4>1
    <3> QED BY <1>a, <2>1, <2>2, <3>3, <3>4, HeldBySend
  <2>3. CASE busy' = FALSE /\ UNCHANGED queue
    BY <2>1, <2>3 DEF HeldInv, OneSlice, WriteHearsBack, DataQueued
  <2> QED BY <1>5, <2>2, <2>3 DEF Continue
<1>6. CASE ControlFrame
  <2>1. Control \in Frame /\ Control.kind # "data"
    BY DEF Control, Frame
  <2>2. Send(Control) /\ UNCHANGED <<busy, told>>
    BY <1>6 DEF ControlFrame
  <2> QED BY <1>a, <2>1, <2>2, HeldBySend
<1>7. CASE Reset
  <2>1. CASE side = "server"
    <3>1. queue' = << >> /\ told' = Rejected /\ UNCHANGED busy
      BY <1>7, <2>1 DEF Reset
    <3>2. OneSlice(queue)' /\ ~DataQueued'
      BY <3>1, EmptySeq DEF OneSlice, DataQueued
    <3> QED BY <3>1, <3>2 DEF Rejected, HeldInv, WriteHearsBack
  <2>2. CASE side # "server"
    BY <1>7, <2>2, HeldByRest DEF Reset
  <2> QED BY <2>1, <2>2
<1>8. CASE \/ LoseAnswer \/ RetryFires \/ ReadyToUpdate \/ MtuChanged \/ Deliver \/ LinkLoss
           \/ UNCHANGED vars
  <2>1. UNCHANGED <<queue, busy, told>>
    BY <1>8 DEF LoseAnswer, RetryFires, ReadyToUpdate, StartDrain, MtuChanged, Deliver, LinkLoss,
         vars
  <2> QED BY <2>1, HeldByRest
<1> QED BY <1>1, <1>2, <1>3, <1>4, <1>5, <1>6, <1>7, <1>8 DEF Next

\* A write under way hears back exactly once, through every fault, reset and
\* change of the payload size.
THEOREM WritesHearBack == Spec => []WriteHearsBack
<1>1. Init => ChainInv /\ HeldInv
  BY GattAssumption, EmptySeq
     DEF Init, ChainInv, HeldInv, OneSlice, WriteHearsBack, DataQueued
<1>2. ChainInv /\ HeldInv /\ [Next]_vars => ChainInv' /\ HeldInv'
  BY ChainStep, HeldStep
<1>3. HeldInv => WriteHearsBack
  BY DEF HeldInv
<1> QED BY <1>1, <1>2, <1>3, PTL DEF Spec

-----------------------------------------------------------------------------
(* NoFrameStranded *)

LEMMA StrandedStep ==
  ASSUME ChainInv, NoFrameStranded, [Next]_vars
  PROVE  NoFrameStranded'
<1> USE DEF stream, carrier, radio, counts
<1>a. UNCHANGED <<side, ack>>
  BY DEF Next, vars, StartWrite, Answer, PeripheralError, LoseAnswer, WriteTimeout, Drain,
     RetryFires, ReadyToUpdate, StartDrain, HostWrites, Continue, MtuChanged, ControlFrame,
     Deliver, LinkLoss, Reset
<1>b. \A f \in Frame : Acked(f)' <=> Acked(f)
  BY <1>a DEF Acked
<1>c. queue # << >> => Head(queue) \in Frame
  BY HeadTailProperties DEF ChainInv
<1>s. ASSUME NEW f \in Frame, Send(f) PROVE NoFrameStranded'
  <2>1. queue' = Append(queue, f) /\ UNCHANGED waiting /\ (side = "server" => draining' = TRUE)
    BY <1>s DEF Send
  <2>2. ASSUME waiting
        PROVE  side = "central" /\ queue' # << >> /\ Head(queue') \in Frame /\ Acked(Head(queue'))
    <3>1. side = "central" /\ queue # << >> /\ Acked(Head(queue)) /\ queue \in Seq(Frame)
      BY <2>2 DEF NoFrameStranded, ChainInv
    <3>2. queue' # << >> /\ Head(queue') = Head(queue)
      BY <2>1, <3>1
    <3> QED BY <1>c, <3>1, <3>2
  <2>3. (waiting => side = "central" /\ queue # << >> /\ Acked(Head(queue)))'
    BY <1>a, <2>1, <2>2 DEF Acked
  <2> QED BY <1>a, <2>1, <2>3 DEF NoFrameStranded
<1>1. CASE StartWrite
  <2>1. side = "central" /\ queue # << >> /\ ~waiting
    BY <1>1 DEF StartWrite, Startable
  <2>2. waiting' => queue' = queue /\ Acked(Head(queue))
    BY <1>1, <2>1 DEF StartWrite
  <2> QED BY <1>a, <2>1, <2>2 DEF NoFrameStranded, Acked
<1>2. CASE Answer \/ PeripheralError \/ LoseAnswer \/ WriteTimeout \/ MtuChanged \/ Deliver
  <2>1. UNCHANGED <<draining, retry>> /\ (waiting' => waiting /\ queue' = queue)
    BY <1>2 DEF Answer, PeripheralError, LoseAnswer, WriteTimeout, MtuChanged, Deliver, Complete
  <2>2. side = "server" => queue' = queue
    BY <1>2 DEF Answer, PeripheralError, LoseAnswer, WriteTimeout, MtuChanged, Deliver, Complete,
         ChainInv
  <2> QED BY <1>a, <2>1, <2>2 DEF NoFrameStranded, Acked
<1>3. CASE Drain
  <2>1. side = "server" /\ ~waiting /\ UNCHANGED waiting
    BY <1>3 DEF Drain, ChainInv
  <2>2. queue' = << >> \/ draining' = TRUE \/ retry' = TRUE
    BY <1>3 DEF Drain, ArmRetry
  <2> QED BY <1>a, <2>1, <2>2 DEF NoFrameStranded
<1>4. CASE RetryFires \/ ReadyToUpdate
  <2>1. draining' = TRUE /\ UNCHANGED <<queue, waiting>>
    BY <1>4 DEF RetryFires, ReadyToUpdate, StartDrain
  <2> QED BY <1>a, <2>1 DEF NoFrameStranded, Acked
<1>5. CASE HostWrites
  <2>1. PICK last \in sent + 1 .. MaxBytes : Send(SliceFrom(sent + 1, last))
    BY <1>5 DEF HostWrites
  <2>2. SliceFrom(sent + 1, last) \in Frame
    <3>1. sent + 1 \in Nat /\ last \in Nat /\ payload \in Nat \ {0}
      BY GattAssumption DEF ChainInv
    <3> QED BY <3>1, SliceTyped
  <2> QED BY <1>s, <2>1, <2>2
<1>6. CASE Continue
  <2>1. SliceFrom(at + payload, sent) \in Frame
    <3>1. at + payload \in Nat /\ sent \in Nat /\ payload \in Nat \ {0}
      BY DEF ChainInv
    <3> QED BY <3>1, SliceTyped
  <2>2. \/ Send(SliceFrom(at + payload, sent))
        \/ UNCHANGED <<queue, waiting, draining, retry>>
    BY <1>6 DEF Continue
  <2>3. CASE UNCHANGED <<queue, waiting, draining, retry>>
    BY <1>a, <2>3 DEF NoFrameStranded, Acked
  <2> QED BY <1>s, <2>1, <2>2, <2>3
<1>7. CASE ControlFrame
  <2>1. Control \in Frame /\ Send(Control)
    BY <1>7 DEF ControlFrame, Control, Frame
  <2> QED BY <1>s, <2>1
<1>8. CASE LinkLoss \/ Reset \/ UNCHANGED vars
  <2>1. UNCHANGED <<waiting, draining>>
    BY <1>8 DEF LinkLoss, Reset, vars
  <2>2. UNCHANGED <<queue, retry>> \/ (side = "server" /\ queue' = << >>)
    BY <1>8 DEF LinkLoss, Reset, vars
  <2> QED BY <1>a, <2>1, <2>2 DEF NoFrameStranded, Acked
<1> QED BY <1>1, <1>2, <1>3, <1>4, <1>5, <1>6, <1>7, <1>8 DEF Next

\* No frame waits for an event that nobody owes, at either end.
THEOREM NoneStranded == Spec => []NoFrameStranded
<1>1. Init => ChainInv /\ NoFrameStranded
  BY GattAssumption, EmptySeq DEF Init, ChainInv, NoFrameStranded
<1>2. ChainInv /\ NoFrameStranded /\ [Next]_vars => ChainInv' /\ NoFrameStranded'
  BY ChainStep, StrandedStep
<1> QED BY <1>1, <1>2, PTL DEF Spec

\* Every write settles once and its settling is on the way, for all faults.
THEOREM WritesAttended == Spec => []WriteAttended
BY WritesHearBack, NoneStranded, PTL DEF WriteAttended
=============================================================================

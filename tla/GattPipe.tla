------------------------------ MODULE GattPipe ------------------------------
(***************************************************************************)
(* One direction of the gatt pipe of a session (src/lib/gatt.js): the      *)
(* GattStream that cuts what the host writes into frames, and the carrier  *)
(* that takes one frame at a time to the other side.  At the central the   *)
(* carrier is the write chain, one write in flight; at the server it is    *)
(* the notify queue in front of the platform's own.  Control frames of     *)
(* this and other sessions (OPEN, HELLO, CLOSE) share the carrier.         *)
(*                                                                         *)
(* The central's and the server's halves are alternatives: Init chooses.   *)
(***************************************************************************)
EXTENDS Integers, Sequences, FiniteSets

CONSTANTS
  MaxBytes,   \* bound: bytes the host writes
  MaxCtrl,    \* bound: control frames queued
  Payloads,   \* the payload sizes a link may have
  Capacity,   \* frames the platform's notify queue holds
  Faults,     \* the faults that may occur
  MaxFaults,  \* bound: how many occur
  MtuMidWrite \* TRUE: 'mtuChanged' may come while a write is under way

ASSUME GattAssumption ==
  /\ {MaxBytes, MaxCtrl, Capacity, MaxFaults} \subseteq Nat
  /\ Payloads \subseteq Nat \ {0}
  /\ Capacity > 0
  /\ Faults \subseteq {"slow", "silence", "error", "throw", "loss", "reset"}
  /\ MtuMidWrite \in BOOLEAN

VARIABLES
  side,      \* "central" or "server": which end writes
  ack,       \* ackWrites: DATA is written with response
  sent,      \* bytes the host has written
  at,        \* first byte of the slice under way in _write
  busy,      \* _write is under way
  open,      \* the stream still takes writes
  payload,   \* stream.maxPayload
  queue,     \* the frames on peripheral._writeChain, or in _queue
  waiting,   \* central: the head was written and its completion is awaited
  draining,  \* server: drain()'s loop is running
  retry,     \* server: the _retry timer is armed
  told,      \* what the promise of the slice under way settled to
  air,       \* frames in the platform and on the radio, oldest first
  answers,   \* 'write' events on their way to the central
  up,        \* the link is up
  got, torn, \* what the other side was handed, as in ByteChannel
  ctrl,      \* control frames queued so far
  late,      \* history: waits that timed out with their completion still to come
  spent      \* faults that occurred

stream == <<sent, at, busy, open, payload>>
carrier == <<queue, waiting, draining, retry, told>>
radio == <<air, answers, up, got, torn>>
counts == <<ctrl, late, spent>>
vars == <<side, ack, stream, carrier, radio, counts>>

Data(a, b) == [kind |-> "data", from |-> a, to |-> b]
Control == [kind |-> "ctrl", from |-> 0, to |-> 0]
Frames ==
  {Data(a, b) : a \in 1 .. MaxBytes, b \in 1 .. MaxBytes} \cup {Control}

TypeOK ==
  /\ side \in {"central", "server"} /\ ack \in BOOLEAN
  /\ sent \in 0 .. MaxBytes /\ at \in Nat /\ payload \in Payloads
  /\ queue \in Seq(Frames) /\ air \in Seq(Frames)
  /\ told \in {"none", "sent", "failed"}
  /\ {busy, open, waiting, draining, retry, up, torn} \subseteq BOOLEAN
  /\ got \in Nat /\ answers \in Nat
  /\ ctrl \in 0 .. MaxCtrl /\ late \in Nat /\ spent \in 0 .. MaxFaults

Init ==
  /\ side \in {"central", "server"} /\ ack \in BOOLEAN
  /\ payload \in Payloads
  /\ sent = 0 /\ at = 1 /\ busy = FALSE /\ open = TRUE
  /\ queue = <<>> /\ waiting = FALSE /\ draining = FALSE /\ retry = FALSE
  /\ told = "none"
  /\ air = <<>> /\ answers = 0 /\ up = TRUE /\ got = 0 /\ torn = FALSE
  /\ ctrl = 0 /\ late = 0 /\ spent = 0

Fault(f) == f \in Faults /\ spent < MaxFaults /\ spent' = spent + 1

-----------------------------------------------------------------------------
(* The carriers *)

\* send, notify: queue a frame; notify runs drain at once
Send(f) ==
  /\ queue' = Append(queue, f)
  /\ IF side = "server" THEN draining' = TRUE /\ retry' = FALSE
                        ELSE UNCHANGED <<draining, retry>>
  /\ UNCHANGED waiting

\* the head leaves the queue and its promise settles
Settle(outcome) ==
  /\ queue' = Tail(queue)
  /\ told' = IF Head(queue).kind = "data" THEN outcome ELSE told

Acked_ctrl_only(f) == f.kind = "ctrl"
Acked(f) == f.kind = "ctrl" \/ ack

\* a frame the platform takes; a dead link swallows it
Aired(f) == air' = IF up THEN Append(air, f) ELSE air

Startable_unchained == side = "central" /\ queue # <<>> /\ told = "none"
Startable == side = "central" /\ queue # <<>> /\ ~waiting /\ told = "none"

\* microtasks that run before the next event
Pending == Startable \/ draining \/ told # "none"

\* the .then of the chain: write the head; without response that is all
StartWrite ==
  /\ Startable
  /\ \/ /\ Aired(Head(queue))
        /\ IF Acked(Head(queue)) THEN waiting' = TRUE /\ UNCHANGED <<queue, told>>
                                 ELSE Settle("sent") /\ UNCHANGED waiting
        /\ UNCHANGED counts
     \/ /\ Fault("throw")
        /\ Settle("failed")
        /\ UNCHANGED <<air, waiting, ctrl, late>>
  /\ UNCHANGED <<side, ack, stream, draining, retry, answers, up, got, torn>>

\* onWrite, onError: the first completion event settles whatever is awaited
Complete(outcome) ==
  IF waiting THEN Settle(outcome) /\ waiting' = FALSE
             ELSE UNCHANGED <<queue, told, waiting>>

Answer ==
  /\ answers > 0 /\ ~Pending
  /\ answers' = answers - 1
  /\ Complete("sent")
  /\ UNCHANGED <<side, ack, stream, draining, retry, air, up, got, torn, counts>>

\* an 'error' of the peripheral fails the write, and _abortDial hangs up
PeripheralError ==
  /\ side = "central" /\ up /\ ~Pending
  /\ Fault("error")
  /\ Complete("failed")
  /\ up' = FALSE /\ air' = <<>> /\ answers' = 0
  /\ UNCHANGED <<side, ack, stream, draining, retry, got, torn, ctrl, late>>

\* the completion never comes
LoseAnswer ==
  /\ answers > 0 /\ ~Pending
  /\ Fault("silence")
  /\ answers' = answers - 1
  /\ UNCHANGED <<side, ack, stream, carrier, air, up, got, torn, ctrl, late>>

OnItsWay == answers > 0 \/ \E i \in DOMAIN air : Acked(air[i])

\* WRITE_TIMEOUT
WriteTimeout ==
  /\ waiting /\ ~Pending
  /\ IF OnItsWay THEN Fault("slow") /\ late' = late + 1 ELSE UNCHANGED <<late, spent>>
  /\ Settle("failed")
  /\ waiting' = FALSE
  /\ UNCHANGED <<side, ack, stream, draining, retry, radio, ctrl>>

Room == ~up \/ Len(air) < Capacity

ArmRetry_never == FALSE
ArmRetry == TRUE

\* one round of drain()'s loop, which nothing interrupts
Drain ==
  /\ draining
  /\ IF queue = <<>> THEN draining' = FALSE /\ UNCHANGED <<queue, told, air, retry, counts>>
     ELSE
     \/ /\ Room
        /\ Aired(Head(queue)) /\ Settle("sent")
        /\ UNCHANGED <<draining, retry, counts>>
     \/ /\ ~Room
        /\ draining' = FALSE /\ retry' = ArmRetry
        /\ UNCHANGED <<queue, told, air, counts>>
     \/ /\ Fault("throw")
        /\ Settle("failed")
        /\ UNCHANGED <<draining, retry, air, ctrl, late>>
  /\ UNCHANGED <<side, ack, stream, waiting, answers, up, got, torn>>

StartDrain ==
  /\ draining' = TRUE /\ retry' = FALSE
  /\ UNCHANGED <<side, ack, stream, queue, waiting, told, radio, counts>>

\* NOTIFY_RETRY, and the platform's 'readyToUpdate', which may be missed
RetryFires == retry /\ ~Pending /\ StartDrain
ReadyToUpdate == side = "server" /\ queue # <<>> /\ Room /\ ~Pending /\ StartDrain

-----------------------------------------------------------------------------
(* The stream *)

SliceFrom_unclamped(a, last) == Data(a, a + payload - 1)
SliceFrom(a, last) == Data(a, IF a + payload - 1 < last THEN a + payload - 1 ELSE last)

\* the host writes a chunk, of which _write sends the first slice
HostWrites ==
  /\ open /\ ~busy /\ ~Pending
  /\ \E last \in sent + 1 .. MaxBytes :
       /\ sent' = last
       /\ Send(SliceFrom(sent + 1, last))
  /\ at' = sent + 1 /\ busy' = TRUE
  /\ UNCHANGED <<side, ack, open, payload, told, radio, counts>>

\* the await in _write returns: on to the next slice, counted from the payload
\* size of now; an error ends the write and destroys the stream
Advance_swallow == told # "none"
Advance == told = "sent"

Continue ==
  /\ told # "none" /\ ~draining
  /\ told' = "none"
  /\ at' = at + payload
  /\ IF Advance /\ at + payload <= sent
     THEN Send(SliceFrom(at + payload, sent)) /\ UNCHANGED <<busy, open>>
     ELSE /\ busy' = FALSE
          /\ open' = (open /\ Advance)
          /\ UNCHANGED <<queue, waiting, draining, retry>>
  /\ UNCHANGED <<side, ack, sent, payload, radio, counts>>

\* 'mtuChanged' sizes the chunks anew
MtuChanged ==
  /\ side = "central" /\ up /\ ~Pending
  /\ busy => MtuMidWrite
  /\ payload' \in Payloads \ {payload}
  /\ UNCHANGED <<side, ack, sent, at, busy, open, carrier, radio, counts>>

\* a control frame of this or of another session
ControlFrame ==
  /\ ctrl < MaxCtrl /\ ~Pending
  /\ ctrl' = ctrl + 1
  /\ Send(Control)
  /\ UNCHANGED <<side, ack, stream, told, radio, late, spent>>

-----------------------------------------------------------------------------
(* The radio and the transport *)

Delivered(f) ==
  IF f.kind = "ctrl" THEN UNCHANGED <<got, torn>>
  ELSE IF f.from = got + 1 THEN got' = f.to /\ UNCHANGED torn
  ELSE torn' = TRUE /\ UNCHANGED got

\* the other side takes a frame; the server answers a write before it reads it
Deliver ==
  /\ air # <<>> /\ ~Pending
  /\ air' = Tail(air)
  /\ answers' = IF side = "central" /\ Acked(Head(air)) THEN answers + 1 ELSE answers
  /\ Delivered(Head(air))
  /\ UNCHANGED <<side, ack, stream, carrier, up, counts>>

\* the link goes, without a word to either side
LinkLoss ==
  /\ up /\ ~Pending
  /\ Fault("loss")
  /\ up' = FALSE /\ air' = <<>> /\ answers' = 0
  /\ UNCHANGED <<side, ack, stream, carrier, got, torn, ctrl, late>>

\* a data frame, that is the slice _write awaits, is among those queued
DataQueued == \E i \in DOMAIN queue : queue[i].kind = "data"

\* the promises of the frames a reset drops are rejected
Rejected_not == told
Rejected == IF DataQueued THEN "failed" ELSE told

\* radio down, suspend or close: the streams are destroyed, the notify queue
\* rejects what it holds; the write chain is left to its timeouts
Reset ==
  /\ up /\ ~Pending
  /\ Fault("reset")
  /\ open' = FALSE
  /\ up' = FALSE /\ air' = <<>> /\ answers' = 0
  /\ IF side = "server"
     THEN queue' = <<>> /\ retry' = FALSE /\ told' = Rejected
     ELSE UNCHANGED <<queue, retry, told>>
  /\ UNCHANGED <<side, ack, sent, at, busy, payload, waiting, draining, got, torn, ctrl, late>>

Next ==
  \/ StartWrite \/ Answer \/ PeripheralError \/ LoseAnswer \/ WriteTimeout
  \/ Drain \/ RetryFires \/ ReadyToUpdate
  \/ HostWrites \/ Continue \/ MtuChanged \/ ControlFrame
  \/ Deliver \/ LinkLoss \/ Reset

Spec == Init /\ [][Next]_vars

\* Microtasks run, timers fire, and a link that is up delivers and answers,
\* however often the retry timer runs drain() in between; no fairness for
\* 'readyToUpdate', which the code says can be missed.
FairSpec ==
  /\ Spec
  /\ WF_vars(StartWrite) /\ WF_vars(Drain) /\ WF_vars(Continue)
  /\ WF_vars(WriteTimeout) /\ WF_vars(RetryFires)
  /\ SF_vars(Deliver) /\ SF_vars(Answer)

-----------------------------------------------------------------------------
(* Properties *)

Channel == INSTANCE ByteChannel

\* The pipe is a byte stream: "fragments outbound writes, pushes inbound bytes"
\* come out whole and in order through slicing, the chain of writes, failed
\* writes and completions that answer another write; what fails, stops.
BytePipe == Channel!Spec

\* The same, as a state property: what arrived is a prefix of what was written.
InOrder == ~torn

\* "One write in flight per peripheral": each further acknowledged write on the
\* air is owed to one wait that timed out before its completion came.
OneWriteInFlight ==
  side = "central" =>
    answers + Cardinality({i \in DOMAIN air : Acked(air[i])}) <= 1 + late

\* With acknowledged writes, a slice that _write counts as sent has arrived,
\* unless some wait on the chain, this session's or another's, timed out before
\* its completion came.
AckIsReceipt ==
  side = "central" /\ ack /\ late = 0 /\ open => got >= at - 1 \/ ~busy

\* A write under way hears back once: its slice is still in the queue, or its
\* promise has settled and _write is about to go on, through refused and failed
\* frames and through a reset that drops the queue.  No promise settles that
\* nobody awaits.
WriteHearsBack ==
  /\ busy <=> DataQueued \/ told # "none"
  /\ DataQueued => told = "none"

\* No frame waits for an event that nobody owes: at the server drain() runs or
\* its timer is armed ("never stall the queue waiting for" readyToUpdate), and
\* the central only awaits the completion of the acknowledged frame at the head.
NoFrameStranded ==
  /\ side = "server" /\ queue # <<>> => draining \/ retry
  /\ waiting => side = "central" /\ queue # <<>> /\ Acked(Head(queue))

\* A write always has its answer coming: its promise is settled once, and what
\* is to settle it is on the way.
WriteAttended == WriteHearsBack /\ NoFrameStranded

\* Neither a full platform queue nor a lost completion wedges the carrier:
\* every frame leaves the queue, in the end.
CarrierDrains == (queue # <<>>) ~> (queue = <<>>)

\* What the host wrote arrives, or the pipe failed.
BytesArrive ==
  \A n \in 1 .. MaxBytes : (sent >= n) ~> (got >= n \/ ~open \/ ~up)
=============================================================================

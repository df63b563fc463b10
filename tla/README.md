# A formal model of ble-swarm

ble-swarm finds devices that advertise the same topic over Bluetooth LE, dials
them, and hands the application one encrypted duplex per peer. This directory
holds TLA+ modules of its control logic, the TLC configurations that check them
on small instances, and theorems about them that TLAPS has proved. Line numbers
refer to `src/`; `PROJECT.json` maps every definition to the lines it models.

Run `tlc -config <run>.cfg <module>` for a run (the `MC` module of its component)
and `tlapm <component>Proofs.tla` for the proofs.

## Inventory

| part | state | operations | modelled in |
|---|---|---|---|
| Swarm facade, `index.js` | `started`, `suspended`, topic, the current transport | `start stop suspend resume setTopic setOnline close`, `_activate _abandon _rebuild` | `Lifecycle`; `setOnline` in `ScanCadence` |
| Transport lifecycle, `lib/transport.js` | `_suspended closing closed _radioWasDown radioCycled _healing _serviceAdded _advertising state` | `_open suspend resume setTopic _close`, `stateChange`, `serviceAdd`, self-heal | `Lifecycle` |
| Scan cadence, `lib/transport.js` | `_scanning _scanTimer _online _huntUntil` | `_startScan _stopScan _armScanRestart setOnline` | `ScanCadence` |
| Dialing, `lib/transport.js` | `_devices` (timer, linked, cooldown, peer key), `_candidates`, `peripheral._session` | discover, connect, OPEN, HELLO/CLOSE, timeouts, errors | `Links` (devices), `CentralDial` (one emitter) |
| Links, `lib/transport.js` | `peers`, secret streams | `_onChannel _track _untrack` | `Links`, abstractly `HostView` |
| Server sessions, `lib/transport.js` | `_sessions`, `pipeTimer`, `_cyclePending` | OPEN/DATA/CLOSE, bind, reap, rotate | `Links` (per pair), `ServerSessions` (per server) |
| L2CAP pipe, `lib/l2cap.js` | `psm`, channels, stream | publish, unpublish, cycle, open under a deadline, id preamble, read and write | listener in `ServerSessions`, channel in `L2capPipe` |
| GATT pipe, `lib/gatt.js` | notify queue, write chain, stream | notify/drain/reset, send/`_writeOnce`, fragmentation | `GattPipe` |
| Frames, `lib/frames.js` | none | encode, decode | `Frames` |

How they interact: the facade calls the transport's methods and hears
`radio-cycled`. The transport hears the two managers of bare-bluetooth (server
and central), writes and notifies frames through the gatt pipe, and gets a byte
stream per session from one of the pipes; a secret-stream runs Noise over it and
reports `open` and `close`. Two transports talk through OPEN, HELLO and CLOSE
frames, each tagged with the random id of the session.

What is hard here: both devices dial, so a pair often opens two channels and
each end must drop the same one without talking about it; closes arrive late,
for channels that were replaced meanwhile; every method that awaits may come
back to a radio that was started, stopped, power-cycled or replaced; the OS
answers (`channelPublish`, `serviceAdd`, `stateChange`) come at any time; a
timer may race the answer it waits for. `PROJECT.json` lists the hazards line
by line.

What makes each part correct:
- links: the peers map and the live connections agree; both ends keep the same
  channel; an unwanted pair never reaches Noise; every dial and every session is
  resolved; pairs that may link do link, for good.
- server sessions: no pending session loses its psm, a psm burned by a dead
  session is not handed out again, a held rotation is carried out.
- lifecycle: quiet when not wanted, restored when wanted, one topic, no managers
  that survived a power cycle.
- scan cadence: the timer of a running device never dies, and it both scans and
  rests.
- one dial: no probed link without a deadline; a stream only gets the frames of
  its own session.
- pipes: each is a byte stream, whatever is fragmented, queued, retried or lost;
  what fails stops, and nothing waits forever.

## Modules

**`Links`** - any number of devices, both roles of each. A *session* is a record
`[from, to, n]`: the n-th dial slot of one device to another, standing for the
random id of an OPEN. `st["c"][id]` and `st["s"][id]` are its central and server
ends, from `none` through `dialing/opening/upgrading` (central) or `pending`
(server) to `raw` (stream bound, Noise running), `open` (tracked) and `closing`.
`out` and `back` are the frames in flight, `dev` is `_devices`, `cand` is
`_candidates`, `peers` the link tables, `sessions` the `_sessions` maps, `up` the
physical links. One action is one handler: `Discover`/`Hold`/`Flush`
(`_onDiscover`, `_flushCandidates`), `Connected`, `ServerRefuses`/
`ServerAccepts`/`ServerClose` (`_onServerFrame`), `Hello*` and `CentralClose`
(`_onCentralNotify`), `ChannelOpen`/`ChannelFail` (`openCentral`), `DialTimeout`,
`PeripheralError`, `CentralError`, `PipeTimeout`, `TrackKeeps`/`TrackYields`
(`_track`), the two close events of each end (`CentralStreamCloses`,
`ServerStreamCloses`, `ConnCloses`), which come in either order, and the radio
(`LinkLoss`, `LostInFlight`). The history variable `lost` records which channel
was retired for which.

A slot is used again only when nothing refers to the session it stood for
(`Forgotten`): the code draws a fresh random id.

`Faults` chooses what the environment may do: `"slow"` (timers fire although the
answer is on its way, cooldowns end while frames of the last attempt linger),
`"error"`, `"centralError"`, `"loss"`, `"psm"` (no channel published). Without
`"slow"` a timer fires only when what it waits for cannot come any more, which
is what its length (15 s, 20 s) is meant for. `SharedLink` makes both directions
of a pair ride one physical link; the safety runs of two devices have it,
`LinksSettle` only holds without (see "Other disagreements").

**`ServerSessions`** - one server on the l2cap pipe, its centrals being the
environment: the session table, the psm handed out by each HELLO, channels and
id preambles, `l2cap.psm` against the listeners the OS really has, the rotation
and `_cyclePending`, and suspend/resume with its await. `SlowPublish = FALSE`
says that `channelPublish` follows `publishChannel` before anything else.
`resume()` may come at any moment of a drain and `suspend()` on a transport that
is suspended already, as in the code: `draining` counts the calls that await
`_sayGoodbye`. Two history variables name what such a call meets: `told`, the
sessions a goodbye was sent to, which keep their place in the table until the end
of the drain, and `torn`, that a suspend has ended on a transport resumed
meanwhile.

**`Lifecycle`** - the facade and every transport it ever made (`tr`, with
`current` the one in use). Each method up to its first await is one action and
what follows the await another; `calls` holds those in between
(`SuspendEnds` is the second half of `transport.suspend()` together with the
retirement in `_abandon`, `TopicEnds` of `setTopic`, `CreateEnds` of `_activate`
and `_rebuild`). Two managers per transport report power separately.
`Platform` selects what `_abandon` may destroy. `Hazards` says what happens
besides sequential use: `"overlap"`, `"rebuild"` (calls during a rebuild),
`"slow"` (managers and `serviceAdd` answer late), `"cycle"` (managers report a
change of power while `setTopic` bounces its transport).

**`HostView`** - what a swarm promises its host, in three actions: `Connect` (a
willing peer's first channel, or the one both keep in the place of another,
which closes in that step), `Die`, `Forget` (only a dead connection leaves the
list). `Links!View` instantiates it with `peers` and the open ends, and
`Links!HostPromise` says that `Links` implements it.

**`ByteChannel`** - a unidirectional byte stream that may fail: `sent`, `got` and
`torn` (something else than the next byte arrived). Both pipes implement it.

**`GattPipe`** - one direction of the gatt pipe: `GattStream._write`, which slices a
chunk and awaits each slice, over either carrier. `Init` chooses the side: at the
central the write chain (`StartWrite`, `Answer`, `PeripheralError`,
`WriteTimeout`), at the server the notify queue (`StartDrain`, `Drain`,
`RetryFires`, `ReadyToUpdate`, `Reset`). `queue` is `_writeChain` or `_queue`,
head first; `air` is the platform's queue and the radio. `ControlFrame` puts
frames of other sessions between, `MtuChanged` sets `maxPayload`.

**`Frames`** - `encodeFrame`, `decodeFrame` and the key payload on byte sequences,
`L2capPipe` carries the psm through them. **`L2capPipe`** - one session from the
HELLO to the bytes the hosts read: `Open`, `ChannelOpen` (with the preamble
write, which may throw), `OpenTimeout`, the server's `Accept`, `Data`
(`readIdPreamble` byte by byte or glued to what follows), `Bind`,
`PreambleTimeout`, and backpressure on both sides. Bytes are counted, not stored.

**`ScanCadence`** - one device's scan timer, with the delay it was armed for,
against dials, links, `setOnline`, radio loss, suspend and resume. Dials and
links are counts.

**`CentralDial`** - one device's dials of one peer over its `peripheral` emitter
and the listeners the transport leaves there. `Reuse` says whether the platform
hands out one emitter for all connections (iOS) or a fresh one each time. A
`connect` may come after its dial was given up, and `CentralError`
(`_onCentralError`) clears the deadline whether the connection that failed is this
one or another device's. `bare` notes that the link under probe has no deadline
for one of these two reasons, `crossed` that a `connect` came over a link under
probe or an open stream. The `close` of a stream and of its connection are two
actions, in this order (in `Links` in either order). Left out: on fresh emitters, a
second one of the peer while the first is under probe; `Links` has two such
attempts.

`MC<module>` defines the instances; `<module>Proofs` holds the proofs.

Names that end in a description of a change (`Preferred_own_dial`,
`Cycle_keeps_old`, `StreamCloses_stale`, ...) are deliberately wrong variants of the definition that
follows them. Nothing uses them: substituted for it, each makes a property of
some run fail, which shows that the property depends on that code.

## Runs

| run | instance | what it shows |
|---|---|---|
| `LinksFaults` | two devices, both dial, l2cap, one slot each way, one shared physical link; loss, no psm, central errors | `LinkInv`, the inductive invariant; neither device retires the other's choice (`RetireSameChannel`); what a device notes is so (`RecordsTrue`: `TableHolds`, the sessions table is what is served or about to close; `BarredForAReason`, only a dial or channel in progress bars a dial; `LinksAgree`, once nothing between two devices is half open both name the same link) |
| `LinksRedial` | one device dials the other, two slots; loss, error; fair | `HostPromise` (the refinement), every unanswered dial has its deadline, at most one channel per direction, given-up sessions leave the server, every dial resolves |
| `LinksRing` | two gatt devices dial each other; a third dials one of them, whom it shuns, a fourth, on the l2cap pipe, the other; each direction on a link of its own; no faults; fair | `RefusedBeforeNoise`; `LinksSettle`: the two that dial each other end up linked for good, whether one OPEN is refused by the key tie-break, both channels open and one is retired, or the servers are busy with the others |
| `SessionsRotation` | three ids, four psms, slow publisher, pipe timeouts, up to two suspends draining at once and resumes in the middle of them | `SessionsInv`, the inductive invariant; `ServedWithinMax`: no more served than `maxInbound`, two; `DeadPsmRotates`: a psm a dead session pinned is due for rotation; `LastOneRotates`: whatever resolves the last pending session, the pipe timer excepted, ends the hold of the rotation |
| `SessionsMac` | the same with two ids, a mac and a prompt publisher; fair | `NeverYanked`, `NoStrayListener` (`OneListener`, `SuspendRetracts`), `PendingResolves` |
| `LifecycleIntent` | iOS, two topics, four calls, two power cycles, calls during rebuilds; fair | `RadioFollowsIntent`; `IntentKept`: at rest the wanted radio runs (`RestoredAtRest`), on managers that saw no power cycle (`NoWedgedManagers`), and says so (`StateTruthful`) |
| `LifecycleOverlap` | mac, two topics, five overlapping calls, one power cycle, reported at any moment | `TypeOK`, `QuietUnlessWanted`, `OneTopicAtRest` |
| `LifecycleDrain` | four overlapping calls | violation of `RestoredAtRest` |
| `GattCarrier` | either side, four bytes, payloads of 1 and 3, a platform queue of one, two control frames, two faults of any kind; fair | `BytePipe` (the refinement), `OneWriteInFlight`, `AckIsReceipt`, `WriteAttended` (`WriteHearsBack`: each write settles once; `NoFrameStranded`: every queued frame has somebody to send it), `CarrierDrains`, `BytesArrive` |
| `L2capBytes` | an id of two bytes, four bytes of data, psms at the edges of 16 bits, credit and mark of two, every fault; fair | `BytePipe`, `PsmCarried`, `ChannelAttended` (`ChannelInHand`: some handler or deadline is in charge of an open channel; `PauseOwed`: a paused one will be resumed), `NoOrphan`, `BytesArrive` |
| `ScanDuty` | up to three links and three dials; fair | `CadenceRight` (`CadenceAlive`, `Eager`), `QuietWhileSuspended`, `ScanRecurs`, `ScanRests` |
| `DialProbe` | four connections, five sessions, fresh or reused emitters, adapter errors, late connects | `Deadline`: a link under probe has one and is not dialed again, unless it is `bare`; `FramesReachOwner` (`OwnStream`: a stream is that of the current session, unless dials `crossed`; `FreshOnce`); `HeldForGoodbye` |

Beside the runs there are configurations that stand for a question of their own:
`LinksSlow.cfg` is `LinksFaults` with late answers instead of central errors, and
`LinksHub.cfg` has two l2cap devices dial a third that takes in one, with losses
and errors, where `InboundCap` (the counterpart of `ServedWithinMax` for many
servers) and `RecordsTrue` hold; both pass. `LinksDisagree.cfg`, `LinksShared.cfg`,
`SessionsHeld.cfg`, `SessionsTorn.cfg`, `LifecycleLateOn.cfg`, `GattMtu.cfg`,
`L2capRace.cfg`, `DialReuse.cfg`, `DialBare.cfg` and `DialCrossed.cfg` each end in the counterexample listed under "Other
disagreements".

Why the bounds suffice for what they are used for:
- Two devices with one slot each way already have the two crossing channels that
  `_track` decides between, and slots are reused, so dials repeat without limit.
  Two slots of one direction are needed for a redial that meets its predecessor.
  Three devices are needed for a server that is dialing somebody else, four for
  a device on the other pipe beside it.
- Three ids give one session to die, one that is still opening and one that is
  given the psm in between, and are one too many for a table of two. `MaxPsm = 4` allows the first publication
  and three rotations; a rotation beyond it is disabled, and with it the step that asks
  for it. `PendingResolves` is not affected: what resolves a pending session there,
  the pipe timer and the end of a suspend, asks for no listener. `MaxDrains = 2` lets
  a suspend begin while another drains, with a resume between them.
- `MaxCalls` is the longest sequence of API calls, `MaxCycles` the power losses;
  four calls hold start, stop, start and one more; a second power loss meets the
  managers of the first rebuild. Two topics let a transport be created, resumed
  and bounced for a topic other than the one it started with.
- Four bytes in payloads of three and one give a chunk of several slices, of one
  full slice, and a payload that grows or shrinks between chunks; a second fault
  hits the recovery of the first. A platform queue of one is full after each
  frame. Two bytes of id are split by `Data` in every way a longer one is: inside
  it, at its end, and glued to what follows.
- Three dials and links distinguish "the last one ended" from "one of several".
- Four connections let an emitter meet its listeners of two earlier ones.
- `CHECK_DEADLOCK FALSE`: the systems do stop. Linked devices have nothing to
  do without faults; ids, calls, bytes and connections run out by their bounds.

Fairness. `FairSpec` of `Links` says that handlers run when their event is there
(the event loop), the platform delivers on links that stay up, timers expire and
the scan keeps reporting (which `ScanCadence` shows; a device that is not in
range is not in `Sees`). Faults are never fair. In `ServerSessions` the pipe
timer, stream closes and the end of a suspend are fair; centrals promise
nothing. In `Lifecycle`, promises settle (`_sayGoodbye` races a 300 ms timer) and
managers report; users and power promise nothing. In `GattPipe`, microtasks run
and the two timers fire (weak); a link that is up delivers and answers (strong,
because the retry timer runs `drain` in between); `readyToUpdate` promises
nothing, the code says that it can be missed, so `CarrierDrains` rests on the
retry timer. In `L2capPipe` timers, events, an open channel and the Noise stream
that reads it are weakly fair; the OS may stay silent on an open, and then the
deadline fires. In `ScanCadence` only the scan timer and the end of a dial
(`CONNECT_TIMEOUT`) are fair. The latter is strong: `_onCentralError` ends a dial
early and a held candidate may take its place, but without a scan the held
candidates are finitely many, so this does not repeat forever. `CentralDial` has
no liveness of its own; that its deadlines resolve is `Links!DialsResolve`.

## What is proved

For every value of the constants allowed by the named assumptions of each module
(distinct keys, non-empty payloads, byte and word ranges, ...). A hypothesis that
a theorem has besides is one that the code needs: the last column of "Other
disagreements" is what happens without it.

| theorem | hypothesis | says |
|---|---|---|
| `LinksProofs!TypeCorrect`, `Invariant`, `LinkTableCorrect`, `RefusalCorrect` | | `Spec => []LinkInv` and its parts |
| `LinksProofs!OneWinner` | | all ends judge a channel alike; of two opposite ones exactly one is preferred |
| `LinksProofs!SameChannelRetired` | a device has one dial to a peer at a time | `Spec => []RetireSameChannel`, for all faults |
| `LinksProofs!SameChannelRedialed` | no `_onCentralError`, a cooldown outlasts what its dial left behind | the same for any number of dials of one device to one peer |
| `LinksProofs!RecordsKept` (`TableTrue`, `BarsEnd`, `PeersAgree`) | | `Spec => []RecordsTrue` and its parts |
| `LinksProofs!InboundBounded` | | `Spec => []InboundCap` |
| `LinksProofs!DeadlineKept`, `OneChannelKept` | no `_onCentralError`, a cooldown outlasts what its dial left behind | `Spec => []DeadlineUntilAnswered`, `Spec => []OneChannelPerDirection` |
| `LinksProofs!HostPromiseKept` | | `Links` implements `HostView` |
| `ServerSessionsProofs!Invariant`, `NeverYankedCorrect`, `DeadPsmRotatesCorrect` | | `Spec => []SessionsInv` and its parts, however suspends, drains and resumes overlap |
| `ServerSessionsProofs!ServedBounded` | | `Spec => []ServedWithinMax` |
| `ServerSessionsProofs!LastOneRotatesCorrect` | | `Spec => LastOneRotates` |
| `ServerSessionsProofs!NoneStray` (`OneListenerCorrect`, `SuspendRetractsCorrect`) | a publish is answered before the next rotation or suspend | `Spec => []NoStrayListener` and its parts |
| `LifecycleProofs!LifecycleTyped` | | `Spec => []TypeOK` |
| `LifecycleProofs!RadioQuiet` | new managers and services report first | `Spec => []QuietUnlessWanted`, also with overlapping calls |
| `LifecycleProofs!OneTopic` | the same | `Spec => []OneTopicAtRest` |
| `LifecycleProofs!IntentIsKept` (`IntentRestored`, `ManagersFresh`, `StateTold`) | the same, calls of the user do not overlap (rebuilds may), no power change is reported while `setTopic` bounces | `Spec => []IntentKept` and its parts, for any number of topics |
| `ScanCadenceProofs!CadenceIsRight` (`CadenceNeverDies`, `HuntsEagerly`), `SuspendedIsQuiet` | `resume()` waits for `suspend()` | the invariants of `ScanDuty` |
| `CentralDialProofs!AlwaysADeadline`, `GoodbyeReaches`, `FramesReach` (`StreamOfItsSession`, `FreshEmitters`) | | the invariants of `DialProbe`, with adapter errors and late connects |
| `GattPipeProofs!GattIsByteChannel` | no `mtuChanged` inside a chunk | either gatt carrier implements `ByteChannel` |
| `GattPipeProofs!OneWrite` | | `Spec => []OneWriteInFlight` |
| `GattPipeProofs!WritesAttended` (`WritesHearBack`, `NoneStranded`) | | `Spec => []WriteAttended` and its parts, also with `mtuChanged` inside a chunk |
| `GattPipeProofs!GattReceipts` | no `mtuChanged` inside a chunk | `Spec => []AckIsReceipt` |
| `L2capPipeProofs!L2capIsByteChannel` | microtasks run between `data` events | the l2cap pipe implements `ByteChannel` |
| `L2capPipeProofs!ChannelsAttended` (`ChannelsInHand`, `PausesOwed`) | | `Spec => []ChannelAttended` and its parts, whatever the timing |
| `L2capPipeProofs!PsmCorrect`, `FramesProofs!FrameRoundTrip`, `KeyRoundTrip` | | the codec loses nothing, and so the psm is carried |

How the proofs go:
- `LinkTable` alone is not inductive: a frame that opens a server end again would
  break it, hence `OpenComesFirst`; a close that came twice would, hence
  `DueIffClosing`; `RefusedBeforeNoise` needs `EachEndChecked`, because each end
  has checked only its own policy. The proof reduces the twenty-odd actions to how
  one end moves (`EndMoves`) and then treats `TrackKeeps` and the closes
  separately. The refinement maps `TrackKeeps` to `Connect`, the end of an open
  connection to `Die`, `ConnCloses` to `Forget`, and the rest to stutters.
- `RetireSameChannel` relates two retirements at two devices. Its invariant,
  `RetiredForWinner`, looks at one: what was retired was retired for a channel of
  the opposite direction that the smaller key dialed. By `LinkTable` the channel
  tracked beside one that finishes its handshake is an opposite one, if a
  direction has one channel at a time; two retirements against each other would
  then make both keys the smaller.
- With redials two channels of one direction do meet, at the server, whose end of
  the first may not have heard of its death; `_track` then prefers the later of
  the two, for no reason the other end shares. `RetiredWell` says what saves it:
  both have finished their handshakes there and no OPEN brings them back (`Spent`),
  so the one retired cannot in turn retire the other. `DialInv` keeps such pairs
  from the dialer. `_onCentralError` breaks `DialInv`, hence the hypothesis of
  `SameChannelRedialed`; `SameChannelRetired` allows it but not the redials.
- `TableHolds` is its own invariant beside `LinkInv`; the handlers differ in
  whether the table or the end goes first, so each is shown to change both or
  neither (a pipe timeout ends a session that is not bound, a CLOSE leaves its
  stream to close). The cap then needs only the table: sessions enter it in
  `ServerAccepts`, which compares its size with `maxInbound`.
- `BarredForAReason` follows every writer of a dial record: what sets a deadline or
  `linked` also puts the dial or channel there that will clear it, and what ends a
  channel leaves a conn close due, whose handler clears `linked`.
- `LinksAgree` is a consequence of `LinkTable`: what a device names as its link is
  an end of its own that is open or closing.
- `DialInv` calls a session engaged while it can still become a link, and says
  that a device has at most one engaged session to a peer and that the peer's
  dial record bars another: by the deadline while the link is up, by deadline or
  cooldown while an answer is under way, by `linked` once bound. A dial step
  moves one session and its record (`DialByMove`); handshakes, deaths and servers
  keep what the record says (`DialByRest`).
- `SessionsInv` ties the listener to the table: psms only grow (`PsmOrder`), the
  known psm is published, and nothing is retracted from under a pending session
  (`NeverYanked`) that has not been told to close. A `resume()` in mid-drain cycles
  whatever the table holds: by `GoodbyeSaid` all of it has been told, since a suspended
  server takes in nobody. `SuspendClears` says that a resume behind a completed drain
  finds an empty table. `LastOneRotates` is a step property: each action that empties
  the pending ones is shown to run `_maybeCycle` or to drop the hold. `ListenerInv` adds that only the published psm is listened on.
  `TableWithinMax` bounds the table and keeps every live stream in it, whichever
  of the six paths takes a session out.
- That the radio is off when not wanted does not carry itself: a halted transport
  must not wake, nor one whose service is being added come on the air later.
  `QuietInv` says who may: the transport in use while wanted, and one that a
  drain in progress will quiet. Most steps are `Calm`, they wake nothing; stop,
  resume, drain and creation are treated one by one. `TopicInv` goes along with
  it: whatever another topic left on the air belongs to a drain in progress.
- `SteadyInv` is about the transport in use. `Sound` is what a `resume()` relies on
  and holds while the device is not wanted too: a cycled transport is marked so,
  one that was never cycled hosts its service or is adding it, and flags tell the
  truth about the air. `Ready` and `Awake` are what wanted adds: whoever was cycled
  has yet to see its central power up, and then heals; it is not paused, and
  `state` is what its managers last reported. While `setTopic` bounces it
  (`Bouncing`) the transport is paused and only `Ready` is left, from which the
  `resume()` behind the bounce restores `Awake`. That is what a report of a power
  change during the bounce breaks. Without a transport in use some call is about
  to create one.
- `PipeInv` of the gatt pipe: at most one data frame waits on the carrier, it is
  the slice `_write` awaits, and the frames in the air line up from the first byte
  not yet received to the last one written. `AckInv` adds that, while no wait
  timed out early, the one write in flight is the one awaited; `FlightInv` counts
  the writes in flight against the wait and the early timeouts. `HeldInv` needs
  nothing of the bytes: the carrier holds at most one slice, so whoever takes it
  away (sent, refused, timed out, reset) settles the only promise.
- `ByteInv` of the l2cap pipe counts: what was pushed is what the channel emitted
  behind the id. `HandInv` lists who is in charge of an open channel at each pair
  of phases; that a central which gave up never wrote a preamble keeps the server
  from matching it. `PauseInv` carries the integers that `PauseOwed` compares.
- `ScanInv` and the `DialInv` of `CentralDial` are the properties with what each
  handler relies on: which listeners an emitter holds in which phase, and that a
  radio loss precedes the state it leaves.

Only model-checked: all liveness (`LinksSettle`, `SessionsReclaimed`,
`DialsResolve`, `PendingResolves`, `RadioFollowsIntent`, `CarrierDrains`,
`BytesArrive`, `NoOrphan`, `ScanRecurs`, `ScanRests`), which the prover does not
handle. Every invariant of a passing run is proved.

## Disagreements found

Kept as a run, with the quoted line in `PROJECT.json`:
- `LifecycleDrain`: `suspend()` (transport.js:953) does not look at `_suspended`
  again after its await; a `start()` or `resume()` during the drain is undone.

### Other disagreements

Found with TLC on the same modules and not kept as runs. The property is defined
in the module; the constants that produce the counterexample are given.

| property | constants | what happens |
|---|---|---|
| `RetireSameChannel` | `LinksDisagree.cfg` | `_onCentralError` (transport.js:840) clears the deadline of every dial. A peripheral in the middle of its OPEN can then be dialed again, and with two channels of one direction both ends prefer whichever opened second there: each retires what the other keeps |
| `DeadlineUntilAnswered` | `LinksDisagree.cfg` with `PairSees`, one slot | the same clearing of all deadlines |
| `LinksSettle` | `LinksShared.cfg`: a pair without faults on one physical link | when both channels opened, the end of the retired one hangs up the link of the kept one (transport.js:519), and both dial again; in step they do so forever |
| `HeldForSomeone` | `SessionsHeld.cfg` | the pipe timeout (transport.js:411) deletes its session without `_maybeCycle`, so a held rotation stays pending and the next HELLO carries the burned psm |
| `BurnedIsDue` | `SessionsTorn.cfg` | a `resume()` during the drain (transport.js:992) publishes a new channel and a session binds on it; the end of the drain (transport.js:971) reaps that session and rotates nothing, so the next HELLO carries a psm that a dead session pins |
| `RestoredAtRest` | `LifecycleLateOn.cfg` | if the first `poweredOn` arrives while paused, `_startServer` (transport.js:342) returns and nothing calls it again: after `resume()` the service is never hosted and the device not advertised |
| `QuietUnlessWanted` | `LifecycleLateOn.cfg` | a late `serviceAdd` advertises although paused or closed (transport.js:358 is not guarded by `_halted`) |
| `InOrder` | `GattMtu.cfg` | `_write` reads `maxPayload` again after its await (gatt.js:25): an `mtuChanged` in between makes the next slice skip or repeat bytes |
| `InOrder` | `L2capRace.cfg` | bytes of a second `data` event in the turn that ends the preamble find no listener (l2cap.js:71) |
| `DataOnce` | `DialReuse.cfg` | on a reused emitter each connection adds a `notify` listener (transport.js:721), so a DATA frame is pushed more than once into the new stream |
| `CadenceAlive` | `ScanDuty.cfg` with `Overlap = TRUE` | a `resume()` (transport.js:986) during the drain starts the scan, the end of the drain stops it and its timer |
| `AlwaysTimed` | `DialBare.cfg` | `_onCentralError` clears every deadline (transport.js:840), also of a peripheral in mid-probe, and a `connect` that comes after its dial was aborted (transport.js:678) arms none: the probe runs on without a deadline |
| `AlwaysOwnStream` | `DialCrossed.cfg` | such a device can be dialed again in the middle of its OPEN; on a reused emitter the first HELLO binds its stream, then the second `connect` starts a session of its own over it, whose frames go to that stream |
| `RetiringSparesTheLink` | a pair without faults, `SharedLink = TRUE` | the `close` of a retired central stream disconnects (transport.js:519) although ":782 a yielding central must NEVER disconnect" |
| `LinkCap` | a device with limits of one that sees two others and is seen by a fourth with the smallest key | `_onDiscover` (transport.js:642) counts links, not dials under way, so links can exceed `maxOutbound + maxInbound` |
| `OneListener` | `SessionsRotation.cfg` | a rotation before `channelPublish` (l2cap.js:107) asks for a second channel; the first is never retracted |
| `SuspendRetracts` | `SessionsRotation.cfg` with `Mac = TRUE` | `unpublish` before `channelPublish` retracts nothing (l2cap.js:128) |
| `OldRetiredFirst` | `LifecycleDrain.cfg` with `MaxCycles = 1`, `Hazards = {"rebuild"}` | while `_rebuild` drains, the facade has no transport: stop and start create new managers before the old ones are retired (index.js:112) |
| `NoWedgedManagers`, `RestoredAtRest` | `LifecycleOverlap.cfg`, android, four calls, `Hazards = {"cycle"}` | `setTopic` (index.js:188) resumes a transport that was power-cycled during its bounce: paused it does not heal (transport.js:616), and nothing heals it later |
| `SuspendedReadsOff` | `LifecycleDrain.cfg` with `MaxCycles = 1`, no hazards | `stateChange` writes `state` while suspended (transport.js:623) |

Without a property: `_startScan` is called by handlers of other peers in the
middle of a dial (transport.js:801, :817, :875), although the comment at :550 says
that the scan is not toggled during one.

## Not modelled

- A reused emitter on the l2cap pipe: a channel of an earlier session of the same
  peripheral that opens late. `CentralDial` has the gatt pipe, `L2capPipe` one
  session. In `Links` each session has an object of its own.
- An exception of `central.startScanning` behind `_scanning = true`
  (transport.js:531), which leaves the device believing that it scans: the
  bindings say nothing of when it is thrown.
- A peer that is suspended but whose radio still acknowledges writes: in
  `GattPipe` what is delivered is handed to the other host.
- Microtasks between the end of the preamble and the new `data` listener are one
  state of `L2capPipe` ("matched"), which covers every length of that gap.
- Noise itself (external: an answer by the server, then completion first at the
  initiator); signal strength (any candidate may be the strongest); cooldown
  lengths (a cooldown is on or over).
- Halting in `Links` and radio power in `ServerSessions`: links and lifecycle are
  separate modules. The device's own reflection is excluded from `Sees`.
- `bench/` (manual hardware scripts), `mock.js` (a radio without loss, delay or
  limits, for the repository's tests), `lib/unsupported.js`.

## Plan

Done: what decides correctness between devices, then one device's server, its
lifecycle, its scanning and dialing, and the pipes; each with proofs. Left:
1. `Links` composed with halting: suspend and resume of one device of a pair.
2. `CentralDial` over the l2cap pipe.

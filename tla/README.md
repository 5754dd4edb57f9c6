# A verification of RiftNet-Rust

TLA+ models of the networking core, the two programs' loops and the thread pool of
RiftNet-Rust, checked with TLC on small instances, and proofs, checked with TLAPS
for every instance, about each of the models and about the composition of the two
programs. Paths and line numbers are those of the repository.

## 1. The system

RiftNet-Rust is a UDP library for a server that simulates a world at 60 ticks a
second and clients that predict it. `bin/server.rs` and `bin/client.rs` are one
loop each: poll the socket, hand every datagram to the `ConnectionManager`, act on
what comes back, queue what is to be sent, flush.

| Component | State | Operations | Hard about it | What makes it correct |
|---|---|---|---|---|
| `ReliableConnectionState` (protocol) | next sequence number, highest received, 32-bit field, unacknowledged packets, RTT | `process_incoming_header`, `process_retransmissions` | loss, duplicates, reordering, wrap at 2^16, edges of the field | the field marks exactly what arrived; a packet is new once; a packet is only forgotten when the peer has it |
| `Connection` | queue, pipeline, pending pipeline, authenticated flag, the state above | `queue_pending_send`, `update` | the swap of the pipeline against queue and retransmissions; a failing pipeline | old pipeline for what was queued before the swap, new one after it |
| `ConnectionManager` | table from address to `Connection` | `handle_packet`, `send_to_client`, `flush_all`, `evict_stale_connections`, `set_pipeline` | a key exchange over a lossy network; eviction and restart on one side only | both ends settle on one key |
| `SecurePipeline`, `Cipher`, `Lz4Compressor` | a key | `process`, `inverse_process` | none here: library code | one inverts the other under the same key |
| `TaskThreadPool` (core) | queue under a mutex, condition variable, `stop`, `paused` | `enqueue`, `pause`, `resume`, `clear_queue`, `stop`, worker loop | interleavings of workers and callers, lost wakeups | no task lost, repeated or left waiting; `stop` drains and returns |
| `HistoryBuffer` (protocol) | ring of frame records | `insert`, `get` | slots reused after 128 ticks and after a rollback | `get` returns the record of the tick asked for, or none |
| `Interpolator` (transport) | sorted bounded queue of snapshots | `push_snapshot`, `interpolate` | late snapshots, a full buffer | sorted, bounded, the bracketing pair is found |
| Server program | tick, sessions with buffered inputs, world | the tick loop | inputs early, late, repeated, reordered; sessions against evictions | an input is applied at its tick and once |
| Client program | predicted tick, last server tick, world, history | sync loop, main loop | rollback against in-flight snapshots; clock adjustment | prediction agrees with the server when inputs do |
| Swarm client | one tick counter per server | tick controller | floating point | load generator, not part of the library |
| Reactor, Transporter | a socket | poll, send | none: I/O | - |

The components call each other; nothing is called back and, but for the thread
pool, nothing is shared between threads. Both programs create a pool and give it
no work. All concurrency is between processes (over UDP) and inside the pool.

## 2. Modules

| Module | Models | Used by |
|---|---|---|
| `ReliableConnectionState` | the pure part of `protocol.rs`: wrapped comparison, acknowledgement test, window shift, duplicate test | `ReliableChannel`, `SecureSession` |
| `ReliableChannel` | two `Connection`s exchanging reliable packets | `MCReliableChannel` |
| `AtMostOnceDelivery` | what the channel promises: only what was sent is reported as new, and once | refinement target of `ReliableChannel` |
| `RetransmissionTimer` | when unacknowledged packets are sent again: the timeout, its back-off, the loop | |
| `SecureSession` | client and server through first contact, key exchange, play, faults | `MCSecureSession` |
| `KeyExchange` | what the key exchange promises: the server takes a key and offers it at once, the client takes one offered key, once | refinement target of `SecureSession` |
| `ServerTick` | the server's loop: inputs, sessions, the tick, snapshots | `MCServerTick`, `Reconciliation` |
| `HistoryBuffer` | the ring of frame records | `ClientPrediction` |
| `RecentRecords` | what a history promises its reader | refinement target of `ClientPrediction` |
| `Interpolator` | the queue of snapshots and the pair that is blended | `ClientPrediction` |
| `ClientPrediction` | the client's loop: sync, prediction, snapshots, rollback and replay | `Reconciliation` |
| `Reconciliation` | one client playing on the server, over the network | `MCReconciliation` |
| `TaskThreadPool` | `threading.rs` | |
| `TaskQueue` | what the pool promises its callers: tasks begin in their order, each once | refinement target of `TaskThreadPool` |

The proofs about a module `M` are in `M_proofs` (section 5); those about
`HistoryBuffer` and `Interpolator`, whose values the client keeps, are in
`ClientPrediction_proofs`, and those about `Reconciliation` use the lemmas of the
two modules it composes.

A definition `Name_Variant` is `Name` with a plausible mistake. No specification
uses it; it is there to show that a property notices the mistake.

### ReliableConnectionState and ReliableChannel

`HALF_RANGE` and `BITFIELD_BITS` are 0x8000 and 32 in the code and parameters
here, so that TLC can put packets at the edge of the field and beyond the wrap. The
bit field is the set of the positions of its one-bits. The variables of
`ReliableChannel` have the names of the Rust fields, with an endpoint as index.
`Flush` is `Connection::update`: resend, drain, count; `Receive` is
`process_incoming_header`, with one action for each way through it, and each
begins by applying the acknowledgements (`TakeHeader`), as the function does. The
shift by 32 that the test `diff > 32` lets through panics in a build with overflow
checks and is taken modulo 32 in a release build; both outcomes are in the model.
A process that has panicked is silent from then on, which the other one has met
before, so the model ends there (`Running`).

Abstractions: clocks (any subset of the unacknowledged packets may be overdue,
which covers every outcome of the timer), payloads, the queue (its length), fields
never read. History variables: `sent`, `highestId`, `accepts`, `cleared`, and `id`
and `ackId` in packets, which are the unwrapped numbers. No guard that
stands for code reads them.

The comparison of wrapped numbers means something only less than half the space
(32768 packets) apart, and the code has no guard. What brings packets further
apart is not the network but the code itself: a packet that has left the field
cannot be acknowledged any more, and `process_retransmissions` resends it for
ever. Therefore there are two specifications. `Spec` is the code alone; in it
`AcceptOnce` does not hold (run `late_resend`). `LimitedSpec` adds a limit on the
*application*, `WithinHalfSpace`: nothing is sent that would put half the space
between a sender's newest packet and the newest its peer has, a packet of its own
still unacknowledged or in flight, or what such a packet of the peer acknowledges.
An application that stops sending reliable packets while an old one is
unacknowledged, or a copy of one may still be on its way, keeps it. Only the sending of new packets can break the limit, which is the theorem
`OnlySendsAreLimited`: no arrival, loss, repetition or resend is taken away from
the code or the network. The properties of the channel are claims about `LimitedSpec`.

### SecureSession

One client and one server, each with its table entry for the other (`conn`). A
pipeline is its key. `FirstContact` is the entry `handle_packet` opens for an
unknown address (a handshake in the queue and the session key as pending
pipeline), `Flushed` is `update`, and the five receiving actions are the ways
through `handle_packet`. `ClientPing`, `ClientTick` and `ServerTick` are the
sending halves of the loops of the two programs; the packets of one poll are
handled one by one before or between them. The session key is derived from an
address and the clock, and the clock's part is the time elapsed since "now": it is
close to constant, so the model lets a new session have an old key.

`process_incoming_header`'s answer is ignored by `handle_packet` (section 4), so a
repeated packet is handled again here as well; what an application would see of
that is left out, as both reliable packets of the programs may be repeated without harm.

`handle_packet` treats a `Disconnect` alike at both ends, without
authentication, so `SendDisconnect` addresses either. At the server the entry
goes and the client keeps its key. At the client the entry and the key go, and the
client's next entry hands out keys itself, as every entry opened by a first
contact does; `dismissed` records that this has happened. From then on the
roles are mixed and nothing but the types is claimed; everything else about the exchange
is claimed until then.

`KeyExchange` knows two keys, the set of keys on offer, and whether the promise is `over`. `ImplementsKeyExchange` maps
the offer to the session keys of the handshakes in flight or to be resent. What it adds to
the invariants is the order of things over several ticks: the server's pipeline changes in
the very step that sends the handshake, never before, never twice under one entry, and
back only by losing the entry; the client's changes once, unless it is told to forget it.

Faults: `Lose`, repeated delivery (`Arrives` may leave the datagram in flight),
any reordering (`network` is a set), eviction, restart of the server, a
`Disconnect` datagram. Not modelled: failing pipelines (see `ReliableChannel`),
several clients (entries do not interact), truncated or unknown datagrams.

### ServerTick

Any number of clients and one pass of the loop as a poll (receiving actions, in
any order) and `Tick` (the rest of the body, and the increment that begins the next
pass). The manager's table is the set of its addresses; whether a datagram can be
read is left open, since that is what `SecureSession` is about. Inputs stay in the
network for ever, so each arrives late, many times or never. A client sends one
input for a tick and may send it again, as `bin/client.rs` does after a rollback.
`arrived` is a history of what reached the session and when. The server's
interpolator is left out: it is written and never read.

### RetransmissionTimer

`ReliableChannel` and `SecureSession` let any packet be overdue at any time; this
module is about the time they leave out. There is one `retransmission_timeout` for
all packets of a connection, and it grows by half *inside* the loop over them, so
that the first packet found overdue makes the next one less so. The loop is
therefore one action per packet (`Resend`, `Skip`), between `BeginUpdate` and
`Drain`. Times are in units and rounded down; the estimate behind the timeout is
floating point, and any value its clamp lets through. `expired` is a history
variable: the timeout that ran out when the packet was last resent.

### HistoryBuffer, RecentRecords and Interpolator

`HistoryBuffer` is the ring: `Slot` is `tick & mask`, a slot keeps the record it
got last, and `get` compares the record's tick with the one asked for. Of a record
the tick and the position are kept. `InsertRun` is the loop of inserts of a replay.
`RecentRecords` says what that amounts to without slots: at most one record of a
tick, the last one written, and nothing is forgotten but what is a whole capacity away from
something written. `Interpolator` is `push_snapshot` with its two guards in their
order (too old, then full) and the search of `interpolate`; the blending is left out.

### ClientPrediction and Reconciliation

`ClientPrediction` is `bin/client.rs`. `Sync` and `StartPlaying` are its sync loop.
A snapshot in the main loop is `Agree` or `Rollback`, which share `Hear`
(everything done with every snapshot: the tick, the queue of the renderer, the round
trip measured with a dispatch time). The rest of a pass is one of `StepTwice`
followed by `StepAgain` (behind the target), `StepOnce` and `Wait` (too far ahead).
The server is whatever moves the world or not in a tick (`Publish`), and the
snapshots of the last `MaxDelay` ticks may arrive at any time, in any order,
again, or never. The round trip is any number of ticks up to `MaxPing`. The client's
input is 0x01 in every tick, as in the program. `base` and `unmoved` are history
variables: the snapshot the present timeline started from, and the ticks since
then that were taken without moving the world.

`Reconciliation` puts `ClientPrediction` and `ServerTick` together: the
client's steps send the inputs `ServerTick` receives, and the server's tick
sends the snapshots `ClientPrediction` handles. Each of the two modules assumes
something of the other side; here that is a property (`ImplementsServer`,
`ImplementsClient`) instead. `SidesAgree` is what one side knows of the other in
every state. An input may reach the server any number of times, up to `MaxLate` ticks
late, and a ping (an input for tick 0) in any tick. `NoRollbackOnceHeld` and
`PredictionExact` are what the two are for: once an input that came in time is held by the server, the client's record of a tick is the
server's position, and it is not taken back. Whether a datagram can be read is `SecureSession`'s
subject; an unreadable snapshot is a lost one.

### TaskThreadPool

One action for each step another thread can see: taking the mutex, each load or
store of a flag, the wait (releases the mutex and sleeps in one step), each
notify. The two loads in `worker_loop` are two actions, because `stop` and
`paused` are not protected by the mutex. `stop` takes `&mut self`, so it starts only
when no other call runs (`Shared`). A spurious wakeup is possible at any time.
`TaskQueue` knows neither mutex nor threads: a task is handed over, begins, ends with an
answer, or is dropped with all that wait. `ImplementsQueue` says that the pool does nothing else.
`NoLostWakeup` is what the mutex is for: with a task queued there is a worker awake, or a
notification still to be sent. It excludes `pause` and `resume`, whose notification takes
no mutex and can be missed.

## 3. Runs

| Run | Specification, bounds | Result |
|---|---|---|
| `channel` | within the limit; half range 4 (8 numbers), 2 bits, 8 packets one way and 2 back, 2 queued, 1 in flight | holds, 567 thousand states |
| `false_ack` | within the limit; half range 6, 3 bits, 3 packets and 1 back, 2 in flight | `ClearedWasAccepted` is violated |
| `late_resend` | without the limit; half range 4, 2 bits, 6 packets and 1 back, 1 in flight | `AcceptOnce` is violated |
| `timer` | fair; timeouts 2 to 4, first 3, back-off to 9, an update at least every 2 units, 3 packets | holds, 60 thousand states |
| `session_faults` | 2 session keys, 1 ping, 2 faults, until a `Disconnect` reaches the client | holds, 408 thousand states |
| `session_live` | fair, 2 pings, 1 lost datagram, no faults | holds, 10 thousand states |
| `early_snapshot` | 1 ping | `SyncedIsAuthenticated` is violated |
| `pool` | fair, 2 workers, 2 callers, 2 tasks, 1 pause | holds, 15 thousand states |
| `pool_hang` | fair, 1 of each, no pause | `StopReturns` is violated |
| `server_tick` | 2 clients, 2 inputs, ticks up to 4 | holds, 664 thousand states (clients interchangeable) |
| `prediction` | 4 slots, queue of 2, 1 tick replayed, round trip 0 or 1, 5 ticks, snapshots up to 1 tick late | holds, 1.4 million states |
| `reconciliation` | one client, 4 slots, queue of 1, 1 tick replayed, 4 ticks, datagrams up to 1 tick late, 3 arrivals in a session | holds, 576 thousand states |

Why the bounds are enough.

- `channel`: 8 packets use every number, and the last one is behind the wrap, so
  comparisons are made across it; half the space is twice the width of the field, so a packet can be inside
  the field, on its edge and behind it, and two packets in a row can be lost. One
  datagram is in flight at a time, but it may be delivered again and again,
  and an unacknowledged packet is resent with its old header after any number of newer
  ones: that is how packets and acknowledgements arrive late, repeated and out
  of order. (`false_ack` has two in flight.) `WithinHalfSpace` is a limit on the
  application, not a bound of the run; within it the 8 packets still go once round
  the numbers. `late_resend` shows why it is there: with a space of 8 the sixth
  packet is enough. The proofs of section 5 have no bound on any of this.
- `timer`: from 3 units the timeout passes 4, 6 and 9, so the cap is reached in
  the third step and stays; three packets can be resent in one loop at three
  different timeouts, and a sample in between takes it back to its clamp.
- `session_*`: `MaxPings` bounds what the client sends before it is synced, and
  retransmission repeats it without bound; after that sequence numbers no longer
  change, so the state space closes. Two faults let the server lose its entry,
  open a new one and lose that too; two keys tell an old session from a new
  one. `MaxFaults` is 0 where the property is stated for a server that keeps its entry.
  `session_faults` has safety properties only, and there a datagram that is never
  delivered is a lost one, so `MaxLosses` is 0; `session_live`, where what is in
  flight arrives in the end, loses one. `StillInSession` ends the run of
  `session_faults` where a `Disconnect` reaches the client: the step itself is
  checked, what follows is the types only (6 million states and more) and is covered by
  the proof of `TypeCorrect`.
- `pool*`: two workers and two tasks give every race for a job and for a wakeup;
  more callers add no new kind of step. `UnpausedTasksRun` is about the
  behaviours of the run without a pause.
- `server_tick`: two inputs of one client can arrive in either order, on time or
  late for 4 ticks, and two clients can be evicted, disconnected and back independently.
- `prediction`: the client simulates up to tick 10 with 4 slots, so that every slot
  is reused, also after a rollback has taken the client back; of 5 ticks any may move the
  world, snapshots overtake each other by one tick, and the queue of two is full
  after two. `MaxDispatched = 0` makes the dispatch times be dropped in every pass.
- `reconciliation`: `MaxLate` bounds how old a datagram may be that still arrives,
  in this run. `MaxArrivals` ends a behaviour after three arrivals in one session, pings
  included; one that comes again in the same tick is not counted, one that comes
  again in a later tick is, and three are enough for that before and after another. One tick is enough for an input to miss its tick
  and for two snapshots or inputs to change places. `MaxPing` is 0, as the lead
  is bounded for any value of it by the theorem `LeadIsBounded`. Of `PredictionExact`
  the run reaches the timelines in which every tick moved; one that replayed a tick
  without a record, with an input held and a record after it, takes a fifth tick (TLC
  then needs too long for all states), and is covered by the proof, which bounds nothing.

Deadlock is not checked in the channel (all packets sent and none in flight, or a panic) and in
the pool (all workers gone, no calls), which may really stop, nor in `server_tick`, `prediction`
and `reconciliation`, which end with the last tick of the bound. It is checked in
the session runs and in `timer`, whose loops never stop.

### Fairness

- `SecureSession`: weak fairness of the client's loop and the server's
  loop, because each is a timer loop without a blocking wait. The sync loop pings
  after a second of silence only (`client.rs:83,109`), so the ping is fair only if datagrams do
  not keep coming to the client for ever. The loops resend
  everything unacknowledged again and again, which is what `NeverGivenUp` of
  `RetransmissionTimer` says of the timer. Strong fairness of the delivery of each
  kind of datagram: what is sent again and again arrives again and again. Nothing
  is assumed of evictions, faults or losses.
- `RetransmissionTimer`: time passes, and the loop calls `update` and finishes it
  (weak fairness of `Pass` and `Update`). Acknowledgements need not come.
- `TaskThreadPool`: weak fairness of each worker and of the second halves of the
  calls: a thread that can run does. A worker asleep has no fair step; the spurious
  wakeup is possible and not fair. Nobody has to call the pool.

## 4. Findings

1. `protocol.rs:100`: the sender tests bit `diff - 1`, the receiver sets bit
   `diff`. An ack of *n* also clears *n - 1*; if that was lost it is never resent.
   What does hold, and is proved, is `ClearedNearAccepted`. (Run `false_ack`.)
2. `protocol.rs:124`: a packet that has left the bit field is resent for ever
   (`protocol.rs:152-165`), since no acknowledgement names it. When half the
   sequence space of newer packets has been sent, its resend compares as the
   newest: the window jumps back and the packet is reported as new a second
   time. No delay in the network is needed. (Run `late_resend`.)
3. `manager.rs:69-72`: the test that is to keep unreliable packets out during
   authentication is inside the branch for reliable ones and does nothing. The
   client can enter play without a session key. (Run `early_snapshot`.)
4. `threading.rs:87-91`: `stop` can miss a worker that is about to sleep, and joins
   for ever. The same happens when it is called while the pool is paused and has
   work. (Run `pool_hang`.)

Seen while modelling, without a run:

5. `protocol.rs:134,137`: a packet exactly 32 behind shifts a `u32` by 32. Both
   outcomes are in the model.
6. `manager.rs:75`: once the server has lost its entry for a client in play, the
   handshake of the new entry cannot be read under the client's key
   (`KeyKeptForGood`), so the two do not share a key again until the client's entry goes
   too; the client's main loop does not notice.
7. `manager.rs:64`: the answer of `process_incoming_header` is ignored; a
   retransmitted packet reaches the application twice.
8. `client.rs:145`: the client goes back to whatever snapshot disagrees, also one
   that a newer one has overtaken (DESIGN.md:10: "the last valid server
   snapshot"). `RollbackHasCause` is therefore stated for snapshots later than
   the start of the timeline; an older one takes the client to the older timeline, and
   the next snapshot back again.
9. `client.rs:147`: three ticks are replayed after a rollback whatever the round
   trip (against DESIGN.md:10); the client then catches up at two ticks a pass.
   A tick replayed without a record is taken without input.
10. `client_swarm.rs:94`: the swarm's controller is proportional only (against README.md:12).

## 5. Proofs

`ReliableConnectionState_proofs` proves the arithmetic: `x % SeqSpace` is
characterised by its range and its congruence, from which `WrappingSubExact` (the
wrapped difference of two numbers less than the space apart is their difference),
`ModInjective` and `SequenceOrder` (for numbers less than half the space apart, the
code's comparison is the comparison of the unwrapped numbers), and `AdvanceExact`
(the shift keeps exactly the marks still inside the field, and sets the new one).

`ReliableChannel_proofs` proves, for every pair of peers, half range, field width
smaller than it, and bounds (the assumptions `RangeAssumption` and
`PeersAssumption`; TLC evaluates both):

- `TypeCorrect`, of `Spec`, by an induction of its own; the rest is about `LimitedSpec`;
- `OnlySendsAreLimited`: from a state within the limit, every step of the code and the
  network that sends no new packet stays within it, a flush that only resends included;
- `Invariant`, for the inductive invariant `IInv`, and from it `WindowIsExact`,
  `NeverTwice`, `AcksTrue`, `ClearedIsNear`;
- `NothingNewRefused`, which follows from `IInv` in each state;
- `Refinement`: the channel implements `AtMostOnceDelivery`. `Init` maps to its
  `Init`; a flush is `Send` or a stutter, a receiving action is `Accept` or a
  stutter, everything else a stutter.

Why `IInv` is what it is. `WindowExact` alone is not inductive: to know that a
late packet is not marked twice one needs that its number is the unwrapped one
modulo the space and that the wrapped comparison is right (`CountersAgree`,
`PacketsTruthful`, and the limit: `ArrivalsNear` derives from `WithinHalfSpace` that
whatever can arrive is less than half the space away from what its receiver holds). `AcceptOnce` follows from
`WindowExact`: a packet that is reported is one whose bit was not set.
`ClearedNearAccepted` needs the truth of the acknowledgement fields of packets
however old, which is `PacketsTruthful`; that is stable because `Accepted` only grows.
The proof has one lemma per action and one step per conjunct.

`ServerTick_proofs` proves `Invariant`, `HeldIsLatest` and `BufferExact` for every set of
clients, number of ticks and inputs. `HeldInputIsLatest` needs `BufferIsPending` (when
a tick becomes due its input is in the buffer exactly if it came in time),
which needs that two inputs for one tick are the same (`OneInputPerTick`,
`ArrivedWasSent`). The lemmas `InsertKeeps` and `ApplyKeeps` state the two facts for one session, away
from the state. `SessionsFollow` proves the action property `SessionsFollowConnections`:
that a snapshot names an input of the very session it goes to, which a return after an
eviction could break, needs `LatestWasArrived` in `IInv`, the tick a session will name
being that of an input that arrived since the session was opened. `TypeCorrect` is also proved.

`RetransmissionTimer_proofs` proves `Invariant`, `NeverOverdueForLong` and
`RetransmissionsBackOff` for every setting of the timeouts and the update period.
`ResentInTime` is not inductive: a packet is young enough *because* the last loop
passed it over, hence `YoungerThanTimeout`, which bounds it by the time since that
loop and, inside the loop, speaks of the packets already looked at. `LoopDone`
carries it to the end of the loop. `BacksOff` compares a packet's age with the timeout
that ran out last time; that works because the timeout never shrinks
without a sample, which is `TimeoutsGrow`.

`ClientPrediction_proofs` begins with the arithmetic of the ring: two ticks less than a
capacity apart have different slots (`SlotApart`), and what is found after an insert
and after a run of inserts (`InsertHas`, `InsertRunHas`). It proves `Invariant`,
`TypeCorrect`, `LeadIsBounded`, `HistoryExact`, `QueueInOrder`, `RollbacksHaveCause` and
`Refinement`. `LeadBounded` needs `CatchUpBounded`, since the
second of two steps is decided before the first. `HistoryIsTimeline` needs
`TimelineStarts`: that the ticks not moved are those at the start of the
timeline and that nothing is recorded before the main loop. `SlotsRight` is what makes
`get` find a record that was inserted, and with `QueueOrdered` the pair
that brackets a tick is the one before the first later snapshot. `Refinement`
shows that one step of the client writes a run of records that fits the ring.
`RollbacksHaveCause` is the action property `RollbackHasCause`. Only a mismatch moves `base`
forward, so the record of the snapshot's tick, which is the timeline's position, is not
the server's; as both began at the same position there is a first tick at which they
differ (`FirstDifference`), and in that tick the server moved and the timeline did not, or the
other way round. The first tick is found with the library's theorem on well-founded
relations, in place of an induction over the ticks.

`SecureSession_proofs` proves `Invariant`, `HandshakesReadable`, `NotAhead` and
`KeyKept` for any keys and any number of pings, losses and faults, and
`TypeCorrect`. `IInv` is the types (with `KeysCarried`: every handshake, queued or on its way,
carries a key) and, unless a `Disconnect` has reached the client, `InSession`, which is
the conjunction of all that follows. The types are kept by connections that are
`Sound`, whoever hands out keys; that the client can only be dismissed by a fault is `DismissalIsFault`.
`HandshakeReadable` is about queues and networks at once: that a handshake is encrypted
under the old key needs to know that the queue holds at most the handshake of the
pending swap (`ConnectionsInOrder`) and that only the server resends handshakes
(`DatagramsInOrder`). `ClientNotAhead` needs `OneKeyOnly`: without faults there
is one first contact, so every handshake carries the server's present key.
`KeyKept` then is the observation that nothing a client with a session key can
read is a handshake. `Step` names the three things a step does to the keys
(`Withdraws`, `Adopts`, `Serves`), and `Refinement` maps each to the steps of `KeyExchange`.
That a flush which changes the pipeline also sends the handshake (`QueueHeadSent`) needs
the shape of the queue from `ConnectionsInOrder`; that a resent handshake is still on offer,
`DatagramsInOrder`; that the client is on the first key when it adopts, `HandshakeReadable`.
`AgreementLasts` is the part of `KeysEventuallyAgree` that is safety: without faults,
what has been agreed stays.

`TaskThreadPool_proofs` proves `Invariant`, `OnePlaceEver`, `WakeupsKept` and `Drained` for any
sets of workers, callers and tasks. `StopDrains` alone is not inductive: a worker leaves on
an empty queue, and one needs that nothing is enqueued afterwards, because no
worker is gone before `stop` is set (`GoneAfterStop`) and `stop` excludes every other call.
`NoLostWakeup`, the safety half of `UnpausedTasksRun`, needs two facts more. `MutexHeld`: a
worker between its lock and its wait is the holder of the mutex, so nothing is enqueued
there. `SleepersFoundNothing`: a worker about to wait, with nobody pausing, has
found the queue empty, and it still is. So the last worker that falls asleep leaves an empty
queue, and every `enqueue` has its `notify_one` before it, which wakes a sleeper (`NotifyOneWakes`).
`Refinement` shows that the pool is a `TaskQueue`: a worker that takes a job
begins the first task, one that has run it ends it, `enqueue` submits, `clear_queue` drops, and
every other step (locks, loads, sleeps, notifications, `pause`, `resume`, `stop`) changes nothing a
caller can see. That a task that begins or is submitted runs nowhere yet, and that
one that ends has no other worker, is `TaskInOnePlace`.

`Reconciliation_proofs` proves that the two programs fit together, for every capacity,
queue, lead, round trip, number of ticks and lateness. It instantiates
`ServerTick_proofs` and `ClientPrediction_proofs` with the substitutions of
`Reconciliation` (`SP` and `CP`; the lemmas `Same...` say that these are the
instances `S` and `C` of the model) and takes from them that each side's steps keep its
invariant. The invariant is `IInv`: the two invariants and `SidesAgree`. None of the
three is inductive without the others, since each side's step is one its own module
allows only because of the other's state:

- `ServerStep`: what the client sends is an input `ServerTick` may be sent. It is for a
  tick within `MaxLead` of the server's, which is `CatchUpBounded` of the client after the
  step, and it is either the one sent before for this tick or the first
  (`OwnInputs`); that there is still room among the `MaxInputs` of `ServerTick` is a count of
  ticks (`InputsFit`).
- `ClientStep`: the tick of the server is a `Publish` because it moves the world by at
  most one from the position last published (`ClocksAgree`), and a snapshot in the air is one
  the client may hear (`AirIsPublished`). A snapshot that names a tick without a
  dispatch time does what one that names none does (`HearsNamed`).

From the two steps follow `ServerImplemented` and `ClientImplemented`, and everything proved of
one side holds of the composition. `HeldMoves` (from the tick of an input that came
in time on, the server moves in every tick) needs `HeldInputIsLatest` of the server after
the tick (`TickHeld`). `NoRollbackWhenHeld` puts it against `RollbackStep` of the client: a
rollback has a tick in which the server moved differently, and there is none.
`PredictionIsExact` puts it against `HistoryIsTimeline`: from the start of the timeline the
server moved by one in each tick (`MovedSinceBase`), the client in each but those
counted in `unmoved` (`MovedAndUnmoved`). `BufferBounded` follows a buffered tick back to the
input that was sent for it. `SidesStayAgreed` is `SidesAgree`.

Only model-checked: liveness under fairness (`NeverGivenUp`, `KeysEventuallyAgree`,
`EventuallySynced`, `UnpausedTasksRun`), for which the prover has no rules that reach
through ENABLED; the safety halves `ResentInTime`, `AgreementLasts` and `NoLostWakeup` are proved. Every invariant, action property and refinement that a passing run
checks is proved. What is not even stated, because it needs an induction over data, is
that `InsertRun` and `Replay`, which describe the loop of a replay in one formula, are
what the code's loop computes: they are translated by hand.

## 6. Not modelled

- Floating point: the round trip estimate, the blending of two snapshots, the swarm's
  controller. Where they matter to something else they are any value of their range.
- Library code: cryptography (a key that inverts what it processed),
  compression, wire encoding; sockets (the models' networks); logging, telemetry
  and statistics.
- `AntiReplayWindow`, `is_timed_out` and `has_pending_ack_to_send`: nothing calls or reads them.
- The 1 MiB limit of a connection's queue: both programs drain it in every pass.
  The panic on an empty unreliable send: no caller makes one.
- The swarm client: it sends raw datagrams that the server's pipeline cannot
  read, and README.md:16 calls it under-developed.
- Several clients in `SecureSession`: the entries of the table do not interact. In
  `ServerTick` clients share the world, and there are any number of them.
- The `i32` overflow of the position (`server.rs:38`), and anything after 2^32 ticks.

What could still be done: a variant of `TaskThreadPool` that stores `stop` under
the mutex, to show that `StopReturns` then holds; and a client in
`SecureSession` that falls back to the well-known key, should the repository get one.

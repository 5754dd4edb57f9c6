---------------------------- MODULE ClientPrediction ----------------------------
(***************************************************************************)
(* The client's loop (bin/client.rs): it simulates ahead of the server,    *)
(* keeps what it predicted, and when a snapshot differs from its record of *)
(* that tick, it goes back to the snapshot and replays a few ticks.        *)
(*                                                                         *)
(* The server is anything that moves the world or not in each of its       *)
(* ticks: published holds the position after each.  The snapshot of every  *)
(* one may arrive at any time after that, often or never, so the network   *)
(* loses, delays, repeats and reorders.  Reconciliation puts the server of *)
(* ServerTick in its place.                                                *)
(*                                                                         *)
(* Every input the client simulates, sends and records is 0x01, which      *)
(* moves the world by one; the telemetry and the smoothed RTT are left     *)
(* out.  A poll is any number of handled snapshots; the two steps of a     *)
(* pass that catches up are two actions.                                   *)
(*                                                                         *)
(* A definition Name_Variant is Name with a mistake in it: it shows that   *)
(* the properties notice the mistake, and no specification uses it.        *)
(***************************************************************************)
EXTENDS HistoryBuffer, Interpolator, FiniteSets

CONSTANTS
  Lead,           \* ticks of lead beyond the round trip, and ticks replayed: 3
  MaxDispatched,  \* dispatch times kept before old ones are dropped: 128
  MaxPing,        \* bound: half a round trip, in ticks
  MaxTick,        \* bound: ticks of the server
  MaxDelay        \* bound: ticks a snapshot stays in the network

ASSUME ClientAssumption ==
  /\ Lead \in Nat \ {0}
  /\ Lead <= Capacity
  /\ MaxDispatched \in Nat
  /\ MaxPing \in Nat
  /\ MaxTick \in Nat
  /\ MaxDelay \in Nat

VARIABLES
  published,             \* the server's position after each of its ticks
  synced,
  playing,               \* the client is in its main loop
  world,
  history,
  interpolator,
  predicted_tick,
  last_server_tick,
  ping_ticks,            \* current_rtt_ms / 2 / 16
  input_dispatch_times,  \* the ticks in it
  owed,                  \* simulation steps still to do in this pass
  base,                  \* history: the snapshot the prediction started from
  unmoved                \* history: ticks since then taken without a movement

predictionVars == <<world, history, predicted_tick, base, unmoved>>
vars == <<published, synced, playing, predictionVars, interpolator, last_server_tick,
          ping_ticks, input_dispatch_times, owed>>

\* The furthest the client gets ahead of the newest snapshot.
MaxLead == MaxPing + Lead + 3
ClientTicks == 0 .. MaxTick + MaxLead

ServerTicks == 1 .. Len(published)

\* The ticks whose snapshots are still in the network.
InFlight == {t \in ServerTicks : Len(published) - t <= MaxDelay}

TypeOK ==
  /\ published \in Seq(Nat)
  /\ Len(published) <= MaxTick
  /\ synced \in BOOLEAN
  /\ playing \in BOOLEAN
  /\ world \in Nat
  /\ history \in Buffers
  /\ interpolator \in Seq(Nat)
  /\ predicted_tick \in Nat
  /\ last_server_tick \in 0 .. Len(published)
  /\ ping_ticks \in 0 .. MaxPing
  /\ input_dispatch_times \subseteq ClientTicks
  /\ owed \in 0 .. 1
  /\ base \in 0 .. Len(published)
  /\ unmoved \subseteq ClientTicks

Init ==
  /\ published = <<>>
  /\ synced = FALSE
  /\ playing = FALSE
  /\ world = 0
  /\ history = EmptyBuffer
  /\ interpolator = <<>>
  /\ predicted_tick = 0
  /\ last_server_tick = 0
  /\ ping_ticks = 0
  /\ input_dispatch_times = {}
  /\ owed = 0
  /\ base = 0
  /\ unmoved = {}

-------------------------------------------------------------------------------
(* The server. *)

Position(t) == IF t = 0 THEN 0 ELSE published[t]

\* One tick, in which somebody's input moves the world or nobody's does.
Publish(moved) ==
  /\ Len(published) < MaxTick
  /\ published' = Append(published, Position(Len(published)) + moved)
  /\ UNCHANGED <<synced, playing, predictionVars, interpolator, last_server_tick,
                 ping_ticks, input_dispatch_times, owed>>

-------------------------------------------------------------------------------
(* The sync loop. *)

\* The first snapshot, or one more of the same poll: the world is the
\* server's, and the prediction starts Lead ticks on without simulating them.
Sync(t) ==
  /\ ~playing
  /\ synced' = TRUE
  /\ world' = published[t]
  /\ last_server_tick' = t
  /\ predicted_tick' = t + Lead
  /\ interpolator' = PushSnapshot(interpolator, t)
  /\ base' = t
  /\ unmoved' = t + 1 .. t + Lead
  /\ UNCHANGED <<published, playing, history, ping_ticks, input_dispatch_times, owed>>

StartPlaying ==
  /\ synced
  /\ ~playing
  /\ playing' = TRUE
  /\ UNCHANGED <<published, synced, predictionVars, interpolator, last_server_tick,
                 ping_ticks, input_dispatch_times, owed>>

-------------------------------------------------------------------------------
(* The main loop: a snapshot. *)

\* What every snapshot does, whatever its tick: last_input_tick tells which
\* input's dispatch time measures the round trip.
Hear(t, last_input_tick) ==
  /\ playing
  /\ owed = 0
  /\ last_server_tick' = t
  /\ interpolator' = PushSnapshot(interpolator, t)
  /\ input_dispatch_times' = input_dispatch_times \ {last_input_tick}
  /\ IF last_input_tick \in input_dispatch_times
     THEN ping_ticks' \in 0 .. MaxPing
     ELSE ping_ticks' = ping_ticks
  /\ UNCHANGED <<published, synced, playing, owed>>

\* The hash recorded for the tick is not the server's.
Mismatch(t) == Has(history, t) /\ Get(history, t).position # published[t]

Agree(t, last_input_tick) ==
  /\ Hear(t, last_input_tick)
  /\ ~Mismatch(t)
  /\ UNCHANGED predictionVars

\* A replayed tick moves the world if its input was recorded; without a record
\* the input is taken to be zero.
Replayed(t) == t + 1 .. t + Lead

Replay_FromWorld(t) ==
  [i \in Replayed(t) |-> world + Cardinality({j \in t + 1 .. i : Has(history, j)})]

Replay(t) ==
  [i \in Replayed(t) |-> published[t] + Cardinality({j \in t + 1 .. i : Has(history, j)})]

Rollback(t, last_input_tick) ==
  /\ Hear(t, last_input_tick)
  /\ Mismatch(t)
  /\ world' = Replay(t)[t + Lead]
  /\ history' = InsertRun(history, Replayed(t), Replay(t))
  /\ predicted_tick' = t + Lead
  /\ base' = t
  /\ unmoved' = {i \in Replayed(t) : ~Has(history, i)}

-------------------------------------------------------------------------------
(* The main loop: the pass goes on. *)

TargetTick == last_server_tick + ping_ticks + Lead

\* Dispatch times of ticks the server has passed go when there are too many.
Kept(ticks) ==
  IF Cardinality(ticks) > MaxDispatched THEN {k \in ticks : k >= last_server_tick}
  ELSE ticks

\* One tick: simulated, recorded, its input queued for the server.
Simulate ==
  /\ predicted_tick' = predicted_tick + 1
  /\ world' = world + 1
  /\ history' = Insert(history, [tick |-> predicted_tick + 1, position |-> world + 1])
  /\ UNCHANGED <<published, synced, playing, interpolator, last_server_tick, ping_ticks,
                 base, unmoved>>

Dispatched == input_dispatch_times \cup {predicted_tick + 1}

\* Behind the target: two steps, of which this is the first.
Behind == predicted_tick < TargetTick

TooFarAhead_Never == FALSE

TooFarAhead == predicted_tick > TargetTick + 2

StepTwice ==
  /\ playing /\ owed = 0
  /\ Behind
  /\ Simulate
  /\ input_dispatch_times' = Dispatched
  /\ owed' = 1

StepAgain ==
  /\ owed = 1
  /\ Simulate
  /\ input_dispatch_times' = Kept(Dispatched)
  /\ owed' = 0

StepOnce ==
  /\ playing /\ owed = 0
  /\ ~Behind
  /\ ~TooFarAhead
  /\ Simulate
  /\ input_dispatch_times' = Kept(Dispatched)
  /\ UNCHANGED owed

Wait ==
  /\ playing /\ owed = 0
  /\ TooFarAhead
  /\ input_dispatch_times' = Kept(input_dispatch_times)
  /\ UNCHANGED <<published, synced, playing, predictionVars, interpolator,
                 last_server_tick, ping_ticks, owed>>

-------------------------------------------------------------------------------
Handle(t, last_input_tick) == Agree(t, last_input_tick) \/ Rollback(t, last_input_tick)

Advance == StepTwice \/ StepAgain \/ StepOnce \/ Wait

Next ==
  \/ \E moved \in 0 .. 1 : Publish(moved)
  \/ \E t \in InFlight : Sync(t)
  \/ StartPlaying
  \/ \E t \in InFlight, i \in input_dispatch_times \cup {0} : Handle(t, i)
  \/ Advance

Spec == Init /\ [][Next]_vars

-------------------------------------------------------------------------------
(* Properties. *)

\* The client is never more than MaxLead ticks ahead of the server, whatever is
\* lost, late or out of order: so the inputs it sends wait in the server's
\* buffer for at most that long.
LeadBounded == predicted_tick <= Len(published) + MaxLead

\* The position the present timeline has at a tick: one step for every tick
\* since the snapshot it started from, but those replayed without a record.
Timeline(t) == Position(base) + Cardinality((base + 1 .. t) \ unmoved)

\* The records of the ticks since then are the ones of this timeline, not of
\* one that was rolled back, and the last Capacity ticks that were simulated
\* have one; the world is where the timeline ends.
HistoryIsTimeline ==
  /\ world = Timeline(predicted_tick)
  /\ \A t \in base + 1 .. predicted_tick :
       Has(history, t) => Get(history, t).position = Timeline(t)
  /\ \A t \in base + Lead + 1 .. predicted_tick :
       t > predicted_tick - Capacity => Has(history, t)

\* A snapshot takes the client back to a tick of this timeline only if the
\* server moved differently in one of the ticks since the timeline started.
\* (base changes when the client syncs and when it rolls back.)
RollbackHasCause ==
  [][playing /\ base' > base /\ base' <= predicted_tick =>
       \E t \in base + 1 .. base' :
         Position(t) - Position(t - 1) # IF t \in unmoved THEN 0 ELSE 1]_vars

\* The renderer's queue is within its size, and for every tick between two of
\* its snapshots interpolate finds a pair around it, and only one, in whatever
\* order the snapshots came.
InterpolatorOrdered ==
  /\ Len(interpolator) <= IF BufferSize = 0 THEN 1 ELSE BufferSize
  /\ \A t \in ServerTicks :
       Cardinality(Brackets(interpolator, t)) =
         IF \E i, j \in DOMAIN interpolator : interpolator[i] <= t /\ t < interpolator[j]
         THEN 1 ELSE 0

\* The history keeps what RecentRecords promises.
RecordsFound == INSTANCE RecentRecords WITH records <- Records(history)

RecordsFoundSpec == RecordsFound!Spec

-------------------------------------------------------------------------------
(* The inductive invariant behind the invariants above and the refinement. *)

\* A step that is still owed fits below the bound of the lead.
CatchUpBounded == predicted_tick + owed <= Len(published) + MaxLead

SlotsRight == RightSlots(history)

\* Nothing is recorded before the main loop, which starts Lead ticks after a
\* snapshot; only the ticks up to there may be without a movement.
TimelineStarts ==
  /\ playing \/ history = EmptyBuffer
  /\ owed = 1 => playing
  /\ playing => synced
  /\ synced => base + Lead <= predicted_tick
  /\ unmoved \subseteq base + 1 .. base + Lead

QueueOrdered ==
  /\ Len(interpolator) <= IF BufferSize = 0 THEN 1 ELSE BufferSize
  /\ \A i, j \in 1 .. Len(interpolator) : i < j => interpolator[i] < interpolator[j]

IInv ==
  /\ TypeOK
  /\ CatchUpBounded
  /\ SlotsRight
  /\ TimelineStarts
  /\ QueueOrdered
  /\ HistoryIsTimeline

================================================================================

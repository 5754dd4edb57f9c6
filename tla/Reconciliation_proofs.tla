------------------------- MODULE Reconciliation_proofs -------------------------
(***************************************************************************)
(* Proofs about the client and the server together, for every lead, round  *)
(* trip, size of the history and of the renderer's queue, and any delay of *)
(* the network: each side is what the model of the other one takes it to   *)
(* be, and what holds of the two together.                                 *)
(*                                                                         *)
(* The lemmas of ServerTick_proofs and ClientPrediction_proofs are used    *)
(* here about the instances of the two modules.                            *)
(***************************************************************************)
EXTENDS Reconciliation, FiniteSetTheorems, TLAPS

SP == INSTANCE ServerTick_proofs WITH
        Clients <- {Client}, Bits <- {Move}, MoveBit <- Move,
        MaxTick <- MaxTick + C!MaxLead, MaxInputs <- MaxTick + C!MaxLead + 1

CP == INSTANCE ClientPrediction_proofs WITH MaxDelay <- MaxTick

-------------------------------------------------------------------------------
(* The instances S and SP, and C and CP, are the same specifications. *)

LEMMA CountIsCount ==
  /\ \A X : C!Cardinality(X) = Cardinality(X)
  /\ \A X : CP!Cardinality(X) = Cardinality(X)
  /\ \A X : S!Cardinality(X) = Cardinality(X)
  /\ \A X : SP!Cardinality(X) = Cardinality(X)
  BY DEF C!Cardinality, CP!Cardinality, S!Cardinality, SP!Cardinality, Cardinality

LEMMA SamePublish == \A m : C!Publish(m) <=> CP!Publish(m)
  BY DEF C!Publish, CP!Publish, C!Position, CP!Position, C!predictionVars,
         CP!predictionVars
LEMMA SameSync == \A t : C!Sync(t) <=> CP!Sync(t)
  BY DEF C!Sync, CP!Sync, C!PushSnapshot, CP!PushSnapshot, C!Outdated,
         CP!Outdated, C!MakeRoom, CP!MakeRoom
LEMMA SameStart == C!StartPlaying <=> CP!StartPlaying
  BY DEF C!StartPlaying, CP!StartPlaying, C!predictionVars,
         CP!predictionVars
LEMMA SameHas == \A b, t : C!Has(b, t) <=> CP!Has(b, t)
  BY DEF C!Has, CP!Has, C!Slot, CP!Slot
LEMMA SameMismatch == \A t : C!Mismatch(t) <=> CP!Mismatch(t)
  BY SameHas DEF C!Mismatch, CP!Mismatch, C!Get, CP!Get, C!Slot, CP!Slot
LEMMA SameHear == \A t, i : C!Hear(t, i) <=> CP!Hear(t, i)
  BY DEF C!Hear, CP!Hear, C!PushSnapshot, CP!PushSnapshot, C!Outdated, CP!Outdated,
         C!MakeRoom, CP!MakeRoom
LEMMA SameAgree == \A t, i : C!Agree(t, i) <=> CP!Agree(t, i)
  BY SameMismatch, SameHear DEF C!Agree, CP!Agree, C!predictionVars, CP!predictionVars
LEMMA SameReplayed == \A t : C!Replayed(t) = CP!Replayed(t)
  BY DEF C!Replayed, CP!Replayed
LEMMA SameReplay == \A t : C!Replay(t) = CP!Replay(t)
<1> TAKE t
<1>1. \A i : {j \in t + 1 .. i : C!Has(history, j)} = {j \in t + 1 .. i : CP!Has(history, j)}
  BY SameHas
<1>2. \A i : C!Cardinality({j \in t + 1 .. i : C!Has(history, j)})
            = CP!Cardinality({j \in t + 1 .. i : CP!Has(history, j)})
  BY <1>1, CountIsCount
<1> QED
  BY <1>2, SameReplayed DEF C!Replay, CP!Replay
LEMMA SameInsertRun == \A b, ticks, p : C!InsertRun(b, ticks, p) = CP!InsertRun(b, ticks, p)
  BY DEF C!InsertRun, CP!InsertRun, C!Slots, CP!Slots, C!Slot, CP!Slot
LEMMA SameRollback == \A t, i : C!Rollback(t, i) <=> CP!Rollback(t, i)
<1> TAKE t, i
<1>1. C!Replay(t) = CP!Replay(t) /\ C!Replayed(t) = CP!Replayed(t)
  BY SameReplay, SameReplayed
<1>2. C!InsertRun(history, C!Replayed(t), C!Replay(t))
        = CP!InsertRun(history, CP!Replayed(t), CP!Replay(t))
  BY <1>1, SameInsertRun
<1>3. {k \in C!Replayed(t) : ~C!Has(history, k)} = {k \in CP!Replayed(t) : ~CP!Has(history, k)}
  BY <1>1, SameHas
<1> QED
  BY <1>1, <1>2, <1>3, SameHear, SameMismatch DEF C!Rollback, CP!Rollback
LEMMA SameStepTwice == C!StepTwice <=> CP!StepTwice
  BY DEF C!StepTwice, CP!StepTwice, C!Simulate, CP!Simulate, C!Insert,
         CP!Insert, C!Slot, CP!Slot, C!Behind, CP!Behind, C!TargetTick,
         CP!TargetTick, C!Dispatched, CP!Dispatched
LEMMA SameStepAgain == C!StepAgain <=> CP!StepAgain
  BY CountIsCount DEF C!StepAgain, CP!StepAgain, C!Simulate, CP!Simulate, C!Insert,
         CP!Insert, C!Slot, CP!Slot, C!Kept, CP!Kept, C!Dispatched,
         CP!Dispatched
LEMMA SameStepOnce == C!StepOnce <=> CP!StepOnce
  BY CountIsCount DEF C!StepOnce, CP!StepOnce, C!Simulate, CP!Simulate, C!Insert,
         CP!Insert, C!Slot, CP!Slot, C!Behind, CP!Behind, C!TooFarAhead,
         CP!TooFarAhead, C!TargetTick, CP!TargetTick, C!Dispatched,
         CP!Dispatched, C!Kept, CP!Kept
LEMMA SameWait == C!Wait <=> CP!Wait
  BY CountIsCount DEF C!Wait, CP!Wait, C!TooFarAhead, CP!TooFarAhead, C!TargetTick,
         CP!TargetTick, C!Kept, CP!Kept, C!predictionVars, CP!predictionVars

LEMMA SameClientNext == C!Next <=> CP!Next
  BY SamePublish, SameSync, SameStart, SameAgree, SameRollback,
         SameStepTwice, SameStepAgain, SameStepOnce, SameWait DEF C!Next,
         CP!Next, C!vars, CP!vars, C!predictionVars, CP!predictionVars,
         C!InFlight, CP!InFlight, C!ServerTicks, CP!ServerTicks, C!Handle,
         CP!Handle, C!Advance, CP!Advance

LEMMA SameClientStep == [C!Next]_(C!vars) <=> [CP!Next]_(CP!vars)
  BY SameClientNext DEF C!vars, CP!vars, C!predictionVars, CP!predictionVars

LEMMA SameClientInit == C!Init <=> CP!Init
  BY DEF C!Init, CP!Init, C!EmptyBuffer, CP!EmptyBuffer, C!Slots, CP!Slots,
         C!None, CP!None

LEMMA SameClientInv == C!IInv <=> CP!IInv
  BY CountIsCount DEF C!IInv, CP!IInv, C!TypeOK, CP!TypeOK, C!Buffers, CP!Buffers,
         C!Slots, CP!Slots, C!FrameRecords, CP!FrameRecords, C!None,
         CP!None, C!ClientTicks, CP!ClientTicks, C!MaxLead, CP!MaxLead,
         C!CatchUpBounded, CP!CatchUpBounded, C!SlotsRight, CP!SlotsRight,
         C!RightSlots, CP!RightSlots, C!Slot, CP!Slot, C!TimelineStarts,
         CP!TimelineStarts, C!EmptyBuffer, CP!EmptyBuffer, C!QueueOrdered,
         CP!QueueOrdered, C!HistoryIsTimeline, CP!HistoryIsTimeline,
         C!Timeline, CP!Timeline, C!Position, CP!Position, C!Has, CP!Has,
         C!Get, CP!Get

LEMMA SameSendInput == \A m : S!SendInput(m) <=> SP!SendInput(m)
  BY CountIsCount DEF S!SendInput, SP!SendInput
LEMMA SameReceive == \A m : S!ReceiveInput(m) <=> SP!ReceiveInput(m)
  BY DEF S!ReceiveInput, SP!ReceiveInput, S!Contact, SP!Contact,
         S!WithSessions, SP!WithSessions, S!NewSession, SP!NewSession,
         S!Insert, SP!Insert, S!Arrival, SP!Arrival
LEMMA SameTick == \A stale : S!Tick(stale) <=> SP!Tick(stale)
  BY DEF S!Tick, SP!Tick, S!WithSessions, SP!WithSessions, S!NewSession,
         SP!NewSession, S!Apply, SP!Apply, S!Held, SP!Held, S!Later,
         SP!Later, S!Step, SP!Step, S!Purge, SP!Purge

LEMMA SameServerStep == [S!Next]_(S!vars) <=> [SP!Next]_(SP!vars)
  BY SameSendInput, SameReceive, SameTick DEF S!Next, SP!Next, S!vars,
         SP!vars, S!Inputs, SP!Inputs, S!Ticks, SP!Ticks, S!Bitmasks,
         SP!Bitmasks, S!ReceiveOther, SP!ReceiveOther, S!ReceiveDisconnect,
         SP!ReceiveDisconnect, S!Contact, SP!Contact

LEMMA SameServerInit == S!Init <=> SP!Init
  BY DEF S!Init, SP!Init, S!NewSession, SP!NewSession

LEMMA SameServerInv == S!IInv <=> SP!IInv
  BY DEF S!IInv, SP!IInv, S!TypeOK, SP!TypeOK, S!Ticks, SP!Ticks,
         S!Bitmasks, SP!Bitmasks, S!Inputs, SP!Inputs, S!Arrivals,
         SP!Arrivals, S!Buffers, SP!Buffers, S!Sessions, SP!Sessions,
         S!Snapshots, SP!Snapshots, S!OneInputPerTick, SP!OneInputPerTick,
         S!ArrivedWasSent, SP!ArrivedWasSent, S!LatestWasArrived,
         SP!LatestWasArrived, S!BufferIsPending, SP!BufferIsPending,
         S!Pending, SP!Pending, S!InTime, SP!InTime, S!HeldInputIsLatest,
         SP!HeldInputIsLatest, S!LatestDue, SP!LatestDue, S!Due, SP!Due

-------------------------------------------------------------------------------
(* What the constants are, for the two modules. *)

LEMMA Constants ==
  /\ MaxTick \in Nat /\ MaxPing \in Nat /\ Lead \in Nat \ {0}
  /\ C!MaxLead \in Nat \ {0}
  /\ C!MaxLead = MaxPing + Lead + 3
  /\ MaxTick + C!MaxLead \in Nat \ {0}
  BY ReconciliationAssumption DEF C!MaxLead

LEMMA ServerInitial == S!Init => S!IInv
<1>1. /\ Move \in {Move}
      /\ MaxTick + C!MaxLead \in Nat \ {0}
      /\ MaxTick + C!MaxLead + 1 \in Nat
  BY Constants
<1> QED
  BY <1>1, SP!InvInit, SameServerInit, SameServerInv

LEMMA ServerKeeps == S!IInv /\ [S!Next]_(S!vars) => S!IInv'
<1>1. /\ Move \in {Move}
      /\ MaxTick + C!MaxLead \in Nat \ {0}
      /\ MaxTick + C!MaxLead + 1 \in Nat
  BY Constants
<1>2. S!IInv' <=> SP!IInv'
  BY SameServerInv, PTL
<1> QED
  BY <1>1, <1>2, SP!InvStep, SameServerStep, SameServerInv

LEMMA ClientInitial == C!Init => C!IInv
  BY ReconciliationAssumption, CP!InitIInv, SameClientInit, SameClientInv

LEMMA ClientKeeps == C!IInv /\ [C!Next]_(C!vars) => C!IInv'
<1>1. C!IInv' <=> CP!IInv'
  BY SameClientInv, PTL
<1> QED
  BY <1>1, ReconciliationAssumption, CP!NextIInv, SameClientStep, SameClientInv

-------------------------------------------------------------------------------
(* What the steps of the two sides are to each other. *)

\* The invariant that both sides keep together.
IInv ==
  /\ S!IInv
  /\ C!IInv
  /\ SidesAgree

LEMMA Types ==
  ASSUME IInv
  PROVE  /\ Len(published) \in Nat /\ Len(published) <= MaxTick
         /\ current_tick = Len(published) + 1
         /\ position \in Nat /\ position = C!Position(Len(published))
         /\ predicted_tick \in Nat
         /\ predicted_tick + owed <= Len(published) + C!MaxLead
         /\ input_dispatch_times \subseteq Nat
         /\ \A m \in inputs : /\ m \in S!Inputs /\ m.from = Client /\ m.tick \in Nat
                              /\ m = [from |-> m.from, tick |-> m.tick,
                                      input_bitmask |-> m.input_bitmask]
         /\ \A a \in arrived[Client] : a.tick \in Nat /\ a.at \in Nat
<1>1. current_tick = Len(published) + 1 /\ position = C!Position(Len(published))
  BY DEF IInv, SidesAgree, ClocksAgree
<1>2. /\ Len(published) \in Nat /\ Len(published) <= MaxTick
      /\ predicted_tick \in Nat
      /\ predicted_tick + owed <= Len(published) + C!MaxLead
      /\ input_dispatch_times \subseteq Nat
  <2>1. C!ClientTicks \subseteq Nat
    BY Constants DEF C!ClientTicks
  <2> QED
    BY <2>1 DEF IInv, C!IInv, C!TypeOK, C!CatchUpBounded
<1>3. S!Ticks \subseteq Nat
  BY Constants DEF S!Ticks
<1>4. position \in Nat
  BY <1>3 DEF IInv, S!IInv, S!TypeOK
<1>5. \A m \in inputs : /\ m \in S!Inputs /\ m.from = Client /\ m.tick \in Nat
                        /\ m = [from |-> m.from, tick |-> m.tick,
                                input_bitmask |-> m.input_bitmask]
  BY <1>3 DEF IInv, S!IInv, S!TypeOK, S!Inputs
<1>6. \A a \in arrived[Client] : a.tick \in Nat /\ a.at \in Nat
  BY <1>3 DEF IInv, S!IInv, S!TypeOK, S!Arrivals
<1> QED
  BY <1>1, <1>2, <1>4, <1>5, <1>6

\* The same, without what is said of the sets.
LEMMA Clocks ==
  ASSUME IInv
  PROVE  /\ Len(published) \in Nat /\ Len(published) <= MaxTick
         /\ current_tick = Len(published) + 1
         /\ predicted_tick \in Nat
         /\ predicted_tick + owed <= Len(published) + C!MaxLead
  BY Types

\* A tick the client sends an input for.
LEMMA InputTicks ==
  ASSUME IInv, NEW m \in inputs
  PROVE  m.tick \in Nat /\ m.tick <= Len(published) + C!MaxLead
<1>1. m.tick \in Nat
  BY Types
<1>2. m.tick <= Len(published) + C!MaxLead
  BY DEF IInv, SidesAgree, OwnInputs
<1> QED
  BY <1>1, <1>2

LEMMA StepType == \A input : S!Step(input) \in 0 .. 1
  BY DEF S!Step

\* A client that sends what OwnInputs says sends fewer inputs than there are
\* ticks for them.
LEMMA InputsFit ==
  ASSUME IInv, NEW t \in 0 .. MaxTick + C!MaxLead, \A n \in inputs : n.tick # t
  PROVE  Cardinality(inputs) < MaxTick + C!MaxLead + 1
<1> DEFINE N == MaxTick + C!MaxLead
           f == [n \in inputs |-> n.tick]
<1>1. N \in Nat /\ t \in 0 .. N
  BY Constants
<1>2. ASSUME NEW n \in inputs PROVE n.tick \in (0 .. N) \ {t}
  <2>1. n.tick \in Nat /\ n.tick <= Len(published) + C!MaxLead /\ n.tick # t
    BY InputTicks
  <2> QED
    BY <2>1, Clocks, Constants
<1>3. f \in Injection(inputs, (0 .. N) \ {t})
  <2>1. f \in [inputs -> (0 .. N) \ {t}]
    BY <1>2
  <2>2. ASSUME NEW m \in inputs, NEW n \in inputs, m.tick = n.tick
        PROVE  m = n
    <3>1. m.input_bitmask = n.input_bitmask
      BY <2>2 DEF IInv, SidesAgree, OwnInputs
    <3> QED
      BY <2>2, <3>1, Types
  <2> QED
    BY <2>1, <2>2 DEF Injection, IsInjective
<1> HIDE DEF N, f
<1>4. IsFiniteSet(0 .. N) /\ Cardinality(0 .. N) = N + 1
  BY <1>1, FS_Interval
<1>5. IsFiniteSet((0 .. N) \ {t}) /\ Cardinality((0 .. N) \ {t}) = N
  <2>1. /\ IsFiniteSet((0 .. N) \ {t})
        /\ Cardinality((0 .. N) \ {t}) = Cardinality(0 .. N) - 1
    BY <1>1, <1>4, FS_RemoveElement, Zenon
  <2> QED
    BY <1>1, <1>4, <2>1
<1>6. IsFiniteSet(inputs) /\ Cardinality(inputs) <= N
  BY <1>3, <1>5, FS_Injection
<1>7. Cardinality(inputs) \in Nat
  BY <1>6, FS_CardinalityType
<1>8. Cardinality(inputs) < N + 1
  BY <1>1, <1>6, <1>7
<1> QED
  BY <1>8 DEF N

\* What the client sends is a new input for the server, or one it sent before.
LEMMA SendIsInput ==
  ASSUME IInv, NEW t \in 0 .. Len(published) + C!MaxLead,
         Send(t, IF t = 0 THEN {} ELSE {Move})
  PROVE  [S!Next]_(S!vars)
<1> DEFINE m == [from |-> Client, tick |-> t,
                 input_bitmask |-> IF t = 0 THEN {} ELSE {Move}]
<1>1. /\ inputs' = inputs \cup {m}
      /\ UNCHANGED <<current_tick, connections, client_sessions, position, snapshots,
                     heard, arrived>>
  BY DEF Send
<1>2. CASE m \in inputs
  BY <1>1, <1>2 DEF S!vars
<1>3. CASE m \notin inputs
  <2>1. \A n \in inputs : n.tick # t
    BY <1>3, Types DEF IInv, SidesAgree, OwnInputs
  <2>2. t \in 0 .. MaxTick + C!MaxLead
    BY Types, Constants
  <2>3. S!Cardinality(inputs) < MaxTick + C!MaxLead + 1
    BY <2>1, <2>2, InputsFit, CountIsCount
  <2>4. m \in S!Inputs
    BY <2>2 DEF S!Inputs, S!Ticks, S!Bitmasks
  <2>5. S!SendInput(m)
    BY <1>1, <2>1, <2>3 DEF S!SendInput
  <2> QED
    BY <2>4, <2>5 DEF S!Next
<1> QED
  BY <1>2, <1>3

\* A tick of the server is one that publishes what it moved the world by.
LEMMA TickMoves ==
  ASSUME IInv, NEW stale \in SUBSET (connections \ heard), ServerTicks(stale)
  PROVE  /\ position' - position \in 0 .. 1
         /\ Len(published') = Len(published) + 1
         /\ \A t \in 1 .. Len(published) : published'[t] = published[t]
         /\ published'[Len(published) + 1] = position'
         /\ published' \in Seq(Nat)
<1>1. PICK input : position' = position + S!Step(input)
  BY DEF ServerTicks, S!Tick
<1>2. position' - position \in 0 .. 1 /\ position' \in Nat
  BY <1>1, StepType, Types
<1>3. published' = Append(published, C!Position(Len(published)) + (position' - position))
  BY DEF ServerTicks, C!Publish
<1>4. published \in Seq(Nat) /\ Len(published) \in Nat
  BY DEF IInv, C!IInv, C!TypeOK
<1>5. published' = Append(published, position')
  BY <1>2, <1>3, Types
<1> QED
  BY <1>2, <1>4, <1>5

\* A snapshot names a dispatched tick, or one for which nothing changes, as for 0.
LEMMA HearsNamed ==
  ASSUME IInv, NEW t, NEW i, C!Handle(t, i)
  PROVE  \E k \in input_dispatch_times \cup {0} : C!Handle(t, k)
<1>1. CASE i \in input_dispatch_times
  BY <1>1
<1>2. CASE i \notin input_dispatch_times
  <2>1. 0 \notin input_dispatch_times
    BY DEF IInv, SidesAgree, OwnInputs
  <2>2. input_dispatch_times \ {i} = input_dispatch_times \ {0}
    BY <1>2, <2>1
  <2>3. C!Hear(t, i) => C!Hear(t, 0)
    BY <1>2, <2>1, <2>2 DEF C!Hear
  <2>4. C!Handle(t, 0)
    BY <2>3 DEF C!Handle, C!Agree, C!Rollback
  <2> QED
    BY <2>4
<1> QED
  BY <1>1, <1>2

LEMMA ClientStep == IInv /\ [Next]_vars => [C!Next]_(C!vars)
<1> SUFFICES ASSUME IInv, [Next]_vars
             PROVE  [C!Next]_(C!vars)
  OBVIOUS
<1>1. ASSUME UNCHANGED clientVars PROVE UNCHANGED C!vars
  BY <1>1 DEF clientVars, C!vars, C!predictionVars
<1>2. CASE ServerReceives \/ ClientPings \/ UNCHANGED vars
  BY <1>1, <1>2 DEF ServerReceives, ClientPings, vars
<1>3. CASE \E stale \in SUBSET (connections \ heard) : ServerTicks(stale)
  <2>1. position' - position \in 0 .. 1 /\ C!Publish(position' - position)
    BY <1>3, TickMoves DEF ServerTicks
  <2> QED
    BY <2>1 DEF C!Next
<1>4. CASE ClientHears
  <2>1. PICK s \in air : C!Sync(s.tick) \/ C!Handle(s.tick, s.last_input_tick)
    BY <1>4 DEF ClientHears
  <2>2. s.tick \in C!InFlight
    <3>1. s.tick \in C!ServerTicks
      BY DEF IInv, SidesAgree, AirIsPublished
    <3>2. s.tick \in 1 .. Len(published)
      BY <3>1 DEF C!ServerTicks
    <3>3. Len(published) - s.tick <= MaxTick
      BY <3>2, Clocks, Constants
    <3> QED
      BY <3>1, <3>3 DEF C!InFlight
  <2>3. CASE C!Sync(s.tick)
    BY <2>2, <2>3 DEF C!Next
  <2>4. CASE C!Handle(s.tick, s.last_input_tick)
    BY <2>2, <2>4, HearsNamed DEF C!Next
  <2> QED
    BY <2>1, <2>3, <2>4
<1>5. CASE ClientStarts
  BY <1>5 DEF ClientStarts, C!Next, C!Advance
<1>6. CASE ClientSteps
  BY <1>6 DEF ClientSteps, C!Next, C!Advance
<1> QED
  BY <1>2, <1>3, <1>4, <1>5, <1>6 DEF Next

\* The client's step, and the input it sends, are for one tick later.
LEMMA StepsOn ==
  ASSUME IInv, ClientSteps
  PROVE  /\ predicted_tick' = predicted_tick + 1
         /\ predicted_tick' \in 1 .. Len(published) + C!MaxLead
         /\ input_dispatch_times' \subseteq input_dispatch_times \cup {predicted_tick'}
         /\ published' = published
         /\ Send(predicted_tick', {Move})
<1>1. /\ predicted_tick' = predicted_tick + 1
      /\ published' = published
      /\ Send(predicted_tick', {Move})
  BY DEF ClientSteps, C!StepTwice, C!StepAgain, C!StepOnce, C!Simulate
<1>2. input_dispatch_times' \subseteq input_dispatch_times \cup {predicted_tick'}
  <2>1. \A ticks : C!Kept(ticks) \subseteq ticks
    BY DEF C!Kept
  <2> QED
    BY <1>1, <2>1 DEF ClientSteps, C!StepTwice, C!StepAgain, C!StepOnce, C!Dispatched
<1>3. C!IInv'
  BY ClientStep, ClientKeeps DEF IInv, Next
<1>4. predicted_tick' <= Len(published) + C!MaxLead
  <2>1. owed' \in 0 .. 1 /\ predicted_tick' + owed' <= Len(published') + C!MaxLead'
    BY <1>3 DEF C!IInv, C!TypeOK, C!CatchUpBounded
  <2>2. C!MaxLead' = C!MaxLead
    BY DEF C!MaxLead
  <2> QED
    BY <1>1, <2>1, <2>2, Clocks, Constants
<1>5. predicted_tick' \in 1 .. Len(published) + C!MaxLead
  BY <1>1, <1>4, Clocks, Constants
<1> QED
  BY <1>1, <1>2, <1>5

LEMMA ServerStep == IInv /\ [Next]_vars => [S!Next]_(S!vars)
<1> SUFFICES ASSUME IInv, [Next]_vars
             PROVE  [S!Next]_(S!vars)
  OBVIOUS
<1>1. CASE ServerReceives
  BY <1>1 DEF ServerReceives, S!Next
<1>2. CASE \E stale \in SUBSET (connections \ heard) : ServerTicks(stale)
  BY <1>2 DEF ServerTicks, S!Next
<1>3. CASE ClientPings
  <2>1. 0 \in 0 .. Len(published) + C!MaxLead
    <3>1. Len(published) \in Nat
      BY Types
    <3>2. C!MaxLead \in Nat
      BY Constants
    <3> QED
      BY <3>1, <3>2
  <2>2. Send(0, IF 0 = 0 THEN {} ELSE {Move})
    BY <1>3 DEF ClientPings
  <2> QED
    BY <2>1, <2>2, SendIsInput
<1>4. CASE ClientSteps
  <2> DEFINE t == predicted_tick'
  <2>1. t \in 1 .. Len(published) + C!MaxLead /\ Send(t, {Move})
    BY <1>4, StepsOn
  <2> HIDE DEF t
  <2>2. t \in 0 .. Len(published) + C!MaxLead /\ t # 0
    BY <2>1
  <2>3. Send(t, IF t = 0 THEN {} ELSE {Move})
    BY <2>1, <2>2
  <2> QED
    BY <2>2, <2>3, SendIsInput
<1>5. CASE ClientHears \/ ClientStarts \/ UNCHANGED vars
  BY <1>5 DEF ClientHears, ClientStarts, vars, serverVars, S!vars
<1> QED
  BY <1>1, <1>2, <1>3, <1>4, <1>5 DEF Next

-------------------------------------------------------------------------------
(* The sides go on agreeing. *)

LEMMA InitIInv == Init => IInv
<1> SUFFICES ASSUME Init
             PROVE  IInv
  OBVIOUS
<1>1. S!IInv /\ C!IInv
  BY ServerInitial, ClientInitial DEF Init
<1>2. /\ current_tick = 1 /\ position = 0 /\ inputs = {} /\ arrived = [c \in {Client} |-> {}]
      /\ published = <<>> /\ input_dispatch_times = {} /\ air = {}
  BY DEF Init, S!Init, C!Init
<1>3. SidesAgree
  BY <1>2 DEF SidesAgree, ClocksAgree, AirIsPublished, OwnInputs, HeldMoves, C!Position
<1> QED
  BY <1>1, <1>3 DEF IInv

\* Once an input that came in time is due, the server moves in every tick.
LEMMA TickHeld ==
  ASSUME IInv, S!IInv', NEW stale \in SUBSET (connections \ heard), ServerTicks(stale),
         NEW a \in arrived'[Client], a.at <= a.tick, a.tick <= current_tick
  PROVE  position' = position + 1
<1> DEFINE W == S!WithSessions(connections)
           applied == [c \in DOMAIN W |-> S!Apply(W[c])]
           together == UNION {applied[c].last_known_input : c \in DOMAIN applied}
<1>1. /\ client_sessions' = S!Purge(applied, connections \ stale)
      /\ position' = position + S!Step(together)
      /\ arrived'[Client] = arrived[Client] \/ arrived'[Client] = {}
      /\ current_tick' = current_tick + 1
      /\ inputs' = inputs
  BY DEF ServerTicks, S!Tick
<1> HIDE DEF applied
<1>2. a \in arrived[Client]
  BY <1>1
<1>3. a.at \in Nat /\ a.tick \in Nat /\ current_tick \in Nat /\ a.tick > 0
  BY <1>2, Types DEF IInv, SidesAgree, HeldMoves
<1>4. Client \in DOMAIN client_sessions'
  BY DEF S!IInv, S!ArrivedWasSent
<1>5. S!LatestDue(client_sessions'[Client].last_known_input, arrived'[Client], current_tick')
  BY <1>4 DEF S!IInv, S!HeldInputIsLatest
<1>6. a \in S!Due(arrived'[Client], current_tick')
  BY <1>1, <1>3 DEF S!Due, S!InTime
<1>7. PICK b \in S!Due(arrived'[Client], current_tick') :
        a.tick <= b.tick /\ client_sessions'[Client].last_known_input = b.input_bitmask
  BY <1>5, <1>6 DEF S!LatestDue
<1>8. b.input_bitmask = {Move}
  <2> DEFINE m == [from |-> Client, tick |-> b.tick, input_bitmask |-> b.input_bitmask]
  <2>1. b \in arrived[Client]
    BY <1>1, <1>7 DEF S!Due, S!InTime
  <2>2. m \in inputs
    BY <2>1 DEF IInv, S!IInv, S!ArrivedWasSent
  <2>3. b.tick # 0
    BY <1>3, <1>7, <2>1, Types
  <2> QED
    BY <2>2, <2>3 DEF IInv, SidesAgree, OwnInputs
<1>9. Move \in together
  <2>1. Client \in DOMAIN applied /\ client_sessions'[Client] = applied[Client]
    BY <1>1, <1>4 DEF S!Purge
  <2> QED
    BY <1>7, <1>8, <2>1
<1>10. S!Step(together) = 1
  BY <1>9 DEF S!Step
<1> QED
  BY <1>1, <1>10

LEMMA TickAgrees ==
  ASSUME IInv, S!IInv', NEW stale \in SUBSET (connections \ heard), ServerTicks(stale)
  PROVE  SidesAgree'
<1> DEFINE n == Len(published)
<1>1. /\ n \in Nat /\ Len(published') = n + 1
      /\ \A t \in 1 .. n : published'[t] = published[t]
      /\ published'[n + 1] = position'
      /\ current_tick = n + 1 /\ position = C!Position(n)
  BY TickMoves, Types
<1>2. /\ current_tick' = current_tick + 1
      /\ inputs' = inputs /\ input_dispatch_times' = input_dispatch_times
      /\ arrived'[Client] = arrived[Client] \/ arrived'[Client] = {}
  BY DEF ServerTicks, S!Tick, C!Publish
<1> HIDE DEF n
<1>3. \A t \in 0 .. n + 1 : C!Position(t)' = IF t = n + 1 THEN position' ELSE C!Position(t)
  BY <1>1 DEF C!Position
<1>4. ClocksAgree'
  BY <1>1, <1>2, <1>3 DEF ClocksAgree, C!Position
<1>5. AirIsPublished'
  <2>1. ASSUME NEW c \in DOMAIN snapshots' PROVE Header(snapshots'[c]).tick = n + 1
    BY <1>1, <2>1 DEF ServerTicks, S!Tick, Header
  <2>2. air' = air \cup {Header(snapshots'[c]) : c \in DOMAIN snapshots'}
    BY DEF ServerTicks
  <2>3. \A s \in air : s.tick \in 1 .. n
    BY DEF IInv, SidesAgree, AirIsPublished, C!ServerTicks, n
  <2>4. \A s \in air' : s.tick \in 1 .. n + 1
    BY <1>1, <2>1, <2>2, <2>3
  <2> QED
    BY <1>1, <2>4 DEF AirIsPublished, C!ServerTicks
<1>6. OwnInputs'
  <2>0. n \in Nat /\ Len(published') = n + 1 /\ C!MaxLead \in Nat
    BY <1>1, Constants
  <2>1. ASSUME NEW m \in inputs PROVE m.tick <= Len(published') + C!MaxLead
    <3>1. m.tick \in Nat /\ m.tick <= n + C!MaxLead
      BY InputTicks DEF n
    <3> QED
      BY <2>0, <3>1
  <2> QED
    BY <1>2, <2>1 DEF IInv, SidesAgree, OwnInputs, C!MaxLead
<1>7. HeldMoves'
  <2> SUFFICES ASSUME NEW a \in arrived'[Client]
               PROVE  /\ a.at > 0
                      /\ a.at <= a.tick => \A t \in a.tick .. Len(published') :
                                              published'[t] = C!Position(t - 1)' + 1
    BY DEF HeldMoves, C!Position
  <2>1. a \in arrived[Client]
    BY <1>2
  <2>2. a.at > 0 /\ a.tick \in Nat /\ a.at \in Nat
    BY <2>1, Types DEF IInv, SidesAgree, HeldMoves
  <2>3. ASSUME a.at <= a.tick, NEW t \in a.tick .. n + 1
        PROVE  published'[t] = C!Position(t - 1)' + 1
    <3>1. CASE t = n + 1
      <4>1. position' = position + 1
        BY <1>1, <2>2, <2>3, <3>1, TickHeld
      <4>2. t - 1 = n /\ n \in 0 .. n
        BY <1>1, <3>1
      <4> QED
        BY <1>1, <1>3, <3>1, <4>1, <4>2
    <3>2. CASE t # n + 1
      <4>1. t \in 1 .. n /\ t - 1 \in 0 .. n /\ t \in a.tick .. n
        BY <1>1, <2>2, <2>3, <3>2
      <4>2. published[t] = C!Position(t - 1) + 1
        BY <2>1, <2>3, <4>1 DEF IInv, SidesAgree, HeldMoves, n
      <4> QED
        BY <1>1, <1>3, <4>1, <4>2
    <3> QED
      BY <3>1, <3>2
  <2> QED
    BY <1>1, <2>2, <2>3
<1> QED
  BY <1>4, <1>5, <1>6, <1>7 DEF SidesAgree

\* Any other step leaves both clocks alone; an input may be sent or arrive.
LEMMA QuietAgrees ==
  ASSUME IInv, UNCHANGED <<current_tick, position, published, air>>,
         \A m \in inputs' \ inputs :
           /\ m.tick <= Len(published) + C!MaxLead
           /\ m.input_bitmask = IF m.tick = 0 THEN {} ELSE {Move},
         0 \notin input_dispatch_times',
         \A a \in arrived'[Client] \ arrived[Client] : a.tick \in Nat /\ a.at = current_tick
  PROVE  SidesAgree'
<1>1. ClocksAgree' /\ AirIsPublished'
  BY DEF IInv, SidesAgree, ClocksAgree, AirIsPublished, C!ServerTicks, C!Position
<1>2. OwnInputs'
  BY DEF IInv, SidesAgree, OwnInputs, C!MaxLead
<1>3. HeldMoves'
  <2> SUFFICES ASSUME NEW a \in arrived'[Client]
               PROVE  /\ a.at > 0
                      /\ a.at <= a.tick => \A t \in a.tick .. Len(published) :
                                              published[t] = C!Position(t - 1) + 1
    BY DEF HeldMoves, C!Position
  <2>1. CASE a \in arrived[Client]
    BY <2>1 DEF IInv, SidesAgree, HeldMoves
  <2>2. CASE a \notin arrived[Client]
    BY <2>2, Types
  <2> QED
    BY <2>1, <2>2
<1> QED
  BY <1>1, <1>2, <1>3 DEF SidesAgree

LEMMA NextIInv == IInv /\ [Next]_vars => IInv'
<1> SUFFICES ASSUME IInv, [Next]_vars
             PROVE  IInv'
  OBVIOUS
<1>1. S!IInv' /\ C!IInv'
  BY ServerStep, ClientStep, ServerKeeps, ClientKeeps DEF IInv
<1> SUFFICES SidesAgree'
  BY <1>1 DEF IInv
<1>2. 0 \notin input_dispatch_times /\ 0 <= Len(published) + C!MaxLead
  BY Types, Constants DEF IInv, SidesAgree, OwnInputs
<1>3. CASE ServerReceives
  <2>1. /\ UNCHANGED <<current_tick, position, published, air, inputs, input_dispatch_times>>
        /\ \/ \E m \in inputs : arrived' = [arrived EXCEPT ![Client] = @ \cup {S!Arrival(m)}]
           \/ arrived' = arrived
    BY <1>3, Types DEF ServerReceives, clientVars, S!ReceiveInput, S!ReceiveOther, S!Contact
  <2>2. arrived \in [{Client} -> SUBSET S!Arrivals]
    BY DEF IInv, S!IInv, S!TypeOK
  <2>3. \A a \in arrived'[Client] \ arrived[Client] : a.tick \in Nat /\ a.at = current_tick
    BY <2>1, <2>2, Types DEF S!Arrival
  <2> QED
    BY <1>2, <2>1, <2>3, QuietAgrees
<1>4. CASE \E stale \in SUBSET (connections \ heard) : ServerTicks(stale)
  BY <1>1, <1>4, TickAgrees
<1>5. CASE ClientPings
  <2>1. /\ UNCHANGED <<current_tick, position, published, air, arrived, input_dispatch_times>>
        /\ \A m \in inputs' \ inputs : m.tick = 0 /\ m.input_bitmask = {}
    BY <1>5 DEF ClientPings, Send, clientVars
  <2> QED
    BY <1>2, <2>1, QuietAgrees
<1>6. CASE ClientHears \/ ClientStarts
  <2>1. UNCHANGED <<current_tick, position, published, air, arrived, inputs>>
    BY <1>6 DEF ClientHears, ClientStarts, serverVars, C!Sync, C!Handle, C!Agree,
                C!Rollback, C!Hear, C!StartPlaying, C!Wait
  <2>2. input_dispatch_times' \subseteq input_dispatch_times
    BY <1>6 DEF ClientHears, ClientStarts, C!Sync, C!Handle, C!Agree, C!Rollback, C!Hear,
                C!StartPlaying, C!Wait, C!Kept
  <2> QED
    BY <1>2, <2>1, <2>2, QuietAgrees
<1>7. CASE ClientSteps
  <2> DEFINE t == predicted_tick'
  <2>1. /\ t \in 1 .. Len(published) + C!MaxLead
        /\ input_dispatch_times' \subseteq input_dispatch_times \cup {t}
        /\ published' = published /\ Send(t, {Move})
    BY <1>7, StepsOn
  <2>2. t <= Len(published) + C!MaxLead /\ t # 0
    BY <2>1, Types, Constants
  <2> HIDE DEF t
  <2>3. /\ UNCHANGED <<current_tick, position, air, arrived>>
        /\ \A m \in inputs' \ inputs : m.tick = t /\ m.input_bitmask = {Move}
    BY <2>1 DEF Send
  <2> QED
    BY <1>2, <2>1, <2>2, <2>3, QuietAgrees
<1>8. CASE UNCHANGED vars
  BY <1>2, <1>8, QuietAgrees DEF vars, serverVars, clientVars
<1> QED
  BY <1>3, <1>4, <1>5, <1>6, <1>7, <1>8 DEF Next

-------------------------------------------------------------------------------
\* In every reachable state the invariants of the two sides hold together, and
\* with them what each side may rely on in the other.
THEOREM Invariant == Spec => []IInv
<1> QED
  BY InitIInv, NextIInv, PTL DEF Spec

\* The two clocks stay together, the client sends one input for a tick, at most
\* MaxLead ticks ahead, and from the tick of an input that came in time on the
\* server moves the world.
THEOREM SidesStayAgreed == Spec => []SidesAgree
<1>1. IInv => SidesAgree
  BY DEF IInv
<1> QED
  BY <1>1, Invariant, PTL

\* With this client a session's buffer holds no tick that is MaxLead or more
\* ahead of the server's, for any delay and loss of snapshots and inputs.
THEOREM BufferBounded == Spec => []InputBufferBounded
<1>1. IInv => InputBufferBounded
  <2> SUFFICES ASSUME IInv, NEW c \in DOMAIN client_sessions,
                      NEW t \in DOMAIN client_sessions[c].input_buffer
               PROVE  t < current_tick + C!MaxLead
    BY DEF InputBufferBounded
  <2>1. c = Client
    BY DEF IInv, S!IInv, S!TypeOK
  <2>2. PICK a \in arrived[c] : a.tick = t
    BY DEF IInv, S!IInv, S!BufferIsPending, S!Pending
  <2>3. [from |-> c, tick |-> a.tick, input_bitmask |-> a.input_bitmask] \in inputs
    BY <2>1, <2>2 DEF IInv, S!IInv, S!ArrivedWasSent
  <2>4. t <= Len(published) + C!MaxLead /\ t \in Nat
    BY <2>2, <2>3, InputTicks
  <2> QED
    BY <2>4, Clocks, Constants
<1> QED
  BY <1>1, Invariant, PTL

\* The client of ClientPrediction is one that ServerTick allows: what it sends,
\* pings, first simulations, replays after a rollback and repetitions included,
\* is one input for each tick.
THEOREM ServerImplemented == Spec => ImplementsServer
<1>1. Init => S!Init
  BY DEF Init
<1> QED
  BY <1>1, Invariant, ServerStep, PTL DEF Spec, ImplementsServer, S!Spec

\* The server of ServerTick is one that ClientPrediction allows: each tick moves
\* the world or not, and a snapshot, however late, tells what that tick came to.
THEOREM ClientImplemented == Spec => ImplementsClient
<1>1. Init => C!Init
  BY DEF Init
<1> QED
  BY <1>1, Invariant, ClientStep, PTL DEF Spec, ImplementsClient, C!Spec

LEMMA SamePosition == \A t : C!Position(t) = CP!Position(t)
  BY DEF C!Position, CP!Position

\* A rollback within the timeline needs a tick in which the server moved
\* differently, and the input that is held leaves none.
LEMMA HeldHasNoCause ==
  ASSUME IInv, Next, playing, base' > base, base' <= predicted_tick,
         unmoved \cap (base + 1 .. base') = {},
         NEW a \in arrived[Client], a.at <= a.tick, a.tick <= base + 1,
         Move \in a.input_bitmask
  PROVE  FALSE
<1>1. [C!Next]_(C!vars)
  BY ClientStep
<1>2. C!Next
  <2>1. base \in Nat /\ base' # base
    BY DEF IInv, C!IInv, C!TypeOK
  <2> QED
    BY <1>1, <2>1 DEF C!vars, C!predictionVars
<1>3. PICK t \in base + 1 .. base' :
        C!Position(t) - C!Position(t - 1) # IF t \in unmoved THEN 0 ELSE 1
  <2>1. CP!IInv /\ CP!Next
    BY <1>2, SameClientInv, SameClientNext DEF IInv
  <2> QED
    BY <2>1, ReconciliationAssumption, CP!RollbackStep, SamePosition
<1>4. base \in Nat /\ base' \in 0 .. Len(published)
  <2>1. C!IInv'
    BY <1>1, ClientKeeps DEF IInv
  <2>2. base \in Nat /\ base' \in 0 .. Len(published') /\ base' # base
    BY <2>1 DEF IInv, C!IInv, C!TypeOK
  <2>3. published' = published
    BY <1>2, <2>2 DEF C!Next, C!Publish, C!predictionVars, C!Sync, C!StartPlaying, C!Handle,
                      C!Agree, C!Rollback, C!Hear, C!Advance, C!StepTwice, C!StepAgain,
                      C!StepOnce, C!Simulate, C!Wait
  <2> QED
    BY <2>2, <2>3
<1>5. /\ t \in a.tick .. Len(published) /\ t \in 1 .. Len(published)
      /\ t - 1 \in 0 .. Len(published)
      /\ t \notin unmoved
  BY <1>3, <1>4, Types
<1>6. C!Position(t) = published[t] /\ published[t] = C!Position(t - 1) + 1
  BY <1>5 DEF C!Position, IInv, SidesAgree, HeldMoves
<1>7. C!Position(t - 1) \in Nat
  BY <1>5 DEF C!Position, IInv, C!IInv, C!TypeOK
<1> QED
  BY <1>3, <1>5, <1>6, <1>7

\* Whatever is lost, late or out of order on the way back, a client whose input
\* reached the server in time, when its timeline started or before, is not taken
\* back within this timeline, unless it replayed a tick without a record.
THEOREM NoRollbackWhenHeld == Spec => NoRollbackOnceHeld
<1>1. IInv /\ [Next]_vars =>
        [playing /\ base' > base /\ base' <= predicted_tick
           /\ unmoved \cap (base + 1 .. base') = {}
         => ~\E a \in arrived[Client] :
              a.at <= a.tick /\ a.tick <= base + 1 /\ Move \in a.input_bitmask]_vars
  BY HeldHasNoCause
<1> QED
  BY <1>1, Invariant, PTL DEF Spec, NoRollbackOnceHeld

\* From the snapshot a timeline started from on, the server moved in every tick
\* if an input that came in time was due.
LEMMA MovedSinceBase ==
  ASSUME IInv, NEW a \in arrived[Client], a.at <= a.tick, a.tick <= base + 1,
         NEW t \in base .. Len(published)
  PROVE  C!Position(t) = C!Position(base) + (t - base)
<1> DEFINE n == Len(published)
           J == {k \in base .. n : C!Position(k) # C!Position(base) + (k - base)}
<1>1. base \in Nat /\ n \in Nat /\ base <= n /\ a.tick \in Nat /\ a.tick > 0
  <2>1. base \in Nat /\ base <= n
    BY DEF IInv, C!IInv, C!TypeOK
  <2>2. n \in Nat /\ a.tick \in Nat /\ a.at \in Nat
    BY Types
  <2>3. a.at > 0
    BY DEF IInv, SidesAgree, HeldMoves
  <2> QED
    BY <2>1, <2>2, <2>3
<1>2. \A k \in 0 .. n : C!Position(k) \in Nat
  BY DEF C!Position, IInv, C!IInv, C!TypeOK
<1>3. \A k \in a.tick .. n : published[k] = C!Position(k - 1) + 1
  BY DEF IInv, SidesAgree, HeldMoves
<1>4. \A k \in base + 1 .. n : C!Position(k) = C!Position(k - 1) + 1
  BY <1>1, <1>3 DEF C!Position
<1>5. J \in SUBSET Nat
  BY <1>1
<1> HIDE DEF n
<1>6. J = {}
  <2> SUFFICES ASSUME J # {} PROVE FALSE
    OBVIOUS
  <2>1. PICK j \in J : \A k \in J : j <= k
    BY <1>5, ReconciliationAssumption, CP!SmallestPosition
  <2>2. j \in base .. n /\ C!Position(j) # C!Position(base) + (j - base)
    BY <2>1
  <2>3. j # base
    BY <1>1, <1>2, <2>2
  <2>4. j - 1 \in base .. n /\ j \in base + 1 .. n /\ ~(j <= j - 1)
    BY <1>1, <2>2, <2>3
  <2>5. C!Position(j - 1) = C!Position(base) + (j - 1 - base)
    BY <2>1, <2>4
  <2> HIDE DEF J
  <2>6. C!Position(j) = C!Position(j - 1) + 1
    BY <1>4, <2>4
  <2>7. C!Position(base) \in Nat
    BY <1>1, <1>2
  <2> QED
    BY <1>1, <2>2, <2>4, <2>5, <2>6, <2>7
<1> QED
  BY <1>6 DEF n

\* Of the ticks of a timeline, those with and those without a movement are all.
LEMMA MovedAndUnmoved ==
  ASSUME IInv, NEW t \in base .. Len(published)
  PROVE  Cardinality((base + 1 .. t) \ unmoved)
           = (t - base) - Cardinality(unmoved \cap (base + 1 .. t))
<1> DEFINE b == base + 1
           R == base + 1 .. t
<1>1. base \in Nat /\ Len(published) \in Nat /\ t \in Nat /\ base <= t
  BY Types DEF IInv, C!IInv, C!TypeOK
<1>2. IsFiniteSet(R) /\ Cardinality(R) = t - base
  <2>1. b \in Int /\ t \in Int /\ R = b .. t
    BY <1>1
  <2> HIDE DEF b, R
  <2>2. IsFiniteSet(R) /\ Cardinality(R) = IF b > t THEN 0 ELSE t - b + 1
    BY <2>1, FS_Interval
  <2> QED
    BY <1>1, <2>1, <2>2 DEF b
<1>3. R \cap unmoved = unmoved \cap R
  OBVIOUS
<1> HIDE DEF R
<1>4. Cardinality(R \ unmoved) = Cardinality(R) - Cardinality(R \cap unmoved)
  BY <1>2, FS_Difference, Zenon
<1> QED
  BY <1>2, <1>3, <1>4 DEF R

\* Once an input that came in time is due at a timeline's first tick, the client
\* records for every tick the position the server comes to, less the ticks the
\* timeline took without a movement: for any capacity, lead, delay and loss.
THEOREM PredictionIsExact == Spec => []PredictionExact
<1>1. IInv => PredictionExact
  <2> SUFFICES ASSUME IInv,
                      NEW a \in arrived[Client], a.at <= a.tick, a.tick <= base + 1,
                      NEW t \in base + 1 .. predicted_tick, t <= Len(published),
                      C!Has(history, t)
               PROVE  published[t] = C!Get(history, t).position
                                       + Cardinality(unmoved \cap (base + 1 .. t))
    BY DEF PredictionExact
  <2> DEFINE moved == Cardinality((base + 1 .. t) \ unmoved)
             still == Cardinality(unmoved \cap (base + 1 .. t))
  <2>1. base \in Nat /\ t \in Nat /\ t # 0 /\ t \in base .. Len(published)
    <3>1. base \in 0 .. Len(published)
      BY DEF IInv, C!IInv, C!TypeOK
    <3> QED
      BY <3>1, Clocks
  <2>2. C!Position(t) = published[t] /\ C!Position(t) = C!Position(base) + (t - base)
    BY <2>1, MovedSinceBase DEF C!Position
  <2>3. C!Get(history, t).position = C!Position(base) + moved
    <3>1. C!Get(history, t).position = C!Timeline(t)
      BY DEF IInv, C!IInv, C!HistoryIsTimeline
    <3> QED
      BY <3>1, CountIsCount DEF C!Timeline
  <2>4. moved = (t - base) - still
    BY <2>1, MovedAndUnmoved
  <2>5. still \in Nat
    <3>1. IsFiniteSet(base + 1 .. t)
      BY <2>1, FS_Interval
    <3> QED
      BY <3>1, FS_Intersection, FS_CardinalityType
  <2>6. C!Position(base) \in Nat
    BY <2>1 DEF C!Position, IInv, C!IInv, C!TypeOK
  <2> HIDE DEF moved, still
  <2>7. published[t] = C!Get(history, t).position + still
    BY <2>1, <2>2, <2>3, <2>4, <2>5, <2>6
  <2> QED
    BY <2>7 DEF still
<1> QED
  BY <1>1, Invariant, PTL

================================================================================

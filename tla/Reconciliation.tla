----------------------------- MODULE Reconciliation -----------------------------
(***************************************************************************)
(* One client (ClientPrediction) playing on the server (ServerTick).  The  *)
(* client's inputs and the server's snapshots cross a network that loses,  *)
(* delays, repeats and reorders them.  Every datagram may also be one that *)
(* the receiver cannot read, which SecureSession is about; it is then lost *)
(* as a snapshot, and the server's ReceiveOther as an input.               *)
(***************************************************************************)
EXTENDS Integers, Sequences, FiniteSets

CONSTANTS
  Client,                                    \* the client's address
  Move,                                      \* bit 0x01 of an input
  Capacity, BufferSize, Lead, MaxDispatched, \* of ClientPrediction
  MaxPing, MaxTick,                          \* bounds of ClientPrediction
  MaxLate                                    \* bound: ticks a datagram is late

\* What the two modules assume of the constants they share, and of the client's.
ASSUME ReconciliationAssumption ==
  /\ Capacity \in Nat \ {0}
  /\ \E k \in 0 .. Capacity : Capacity = 2 ^ k
  /\ BufferSize \in Nat
  /\ Lead \in Nat \ {0}
  /\ Lead <= Capacity
  /\ MaxDispatched \in Nat
  /\ MaxPing \in Nat
  /\ MaxTick \in Nat
  /\ MaxLate \in Nat

VARIABLES
  current_tick, connections, client_sessions, position, snapshots, inputs, heard, arrived,
  published, synced, playing, world, history, interpolator, predicted_tick,
  last_server_tick, ping_ticks, input_dispatch_times, owed, base, unmoved,
  air   \* the headers of the snapshots sent to the client

C == INSTANCE ClientPrediction WITH MaxDelay <- MaxTick

S == INSTANCE ServerTick WITH
       Clients <- {Client}, Bits <- {Move}, MoveBit <- Move,
       MaxTick <- MaxTick + C!MaxLead, MaxInputs <- MaxTick + C!MaxLead + 1

serverVars == <<current_tick, connections, client_sessions, position, snapshots, inputs,
                heard, arrived>>
clientVars == <<published, synced, playing, world, history, interpolator, predicted_tick,
                last_server_tick, ping_ticks, input_dispatch_times, owed, base, unmoved>>
vars == <<serverVars, clientVars, air>>

Init == S!Init /\ C!Init /\ air = {}

-------------------------------------------------------------------------------
(* The server, whose flush sends the client its snapshot. *)

\* An input may come again, as often as the network repeats it, and each time it
\* is the one the next snapshot names.  A ping is sent again until it is acknowledged,
\* so it has no tick after which it is too late.
ServerReceives ==
  /\ \/ \E m \in inputs :
          /\ m.tick = 0 \/ m.tick >= current_tick - MaxLate
          /\ S!ReceiveInput(m)
     \/ inputs # {} /\ S!ReceiveOther(Client)
  /\ UNCHANGED <<clientVars, air>>

Header(snapshot) == [tick |-> snapshot.tick, last_input_tick |-> snapshot.last_input_tick]

ServerTicks(stale) ==
  /\ S!Tick(stale)
  /\ C!Publish(position' - position)
  /\ air' = air \cup {Header(snapshots'[c]) : c \in DOMAIN snapshots'}

-------------------------------------------------------------------------------
(* The client, whose flush sends the inputs it simulated. *)

Send_AgainWithoutBits(tick, input_bitmask) ==
  /\ inputs' = inputs \cup {[from |-> Client, tick |-> tick,
                             input_bitmask |-> IF tick \in input_dispatch_times THEN {}
                                               ELSE input_bitmask]}
  /\ UNCHANGED <<current_tick, connections, client_sessions, position, snapshots, heard,
                 arrived, air>>

Send(tick, input_bitmask) ==
  /\ inputs' = inputs \cup {[from |-> Client, tick |-> tick,
                             input_bitmask |-> input_bitmask]}
  /\ UNCHANGED <<current_tick, connections, client_sessions, position, snapshots, heard,
                 arrived, air>>

\* The ping of the sync loop is an input without a bit, for tick 0.
ClientPings ==
  /\ ~synced
  /\ Send(0, {})
  /\ UNCHANGED clientVars

ClientHears ==
  /\ \E s \in air :
       /\ s.tick >= Len(published) - MaxLate
       /\ C!Sync(s.tick) \/ C!Handle(s.tick, s.last_input_tick)
  /\ UNCHANGED <<serverVars, air>>

ClientStarts ==
  /\ C!StartPlaying \/ C!Wait
  /\ UNCHANGED <<serverVars, air>>

ClientSteps ==
  /\ C!StepTwice \/ C!StepAgain \/ C!StepOnce
  /\ Send(predicted_tick', {Move})

-------------------------------------------------------------------------------
Next ==
  \/ ServerReceives
  \/ \E stale \in SUBSET (connections \ heard) : ServerTicks(stale)
  \/ ClientPings
  \/ ClientHears
  \/ ClientStarts
  \/ ClientSteps

Spec == Init /\ [][Next]_vars

-------------------------------------------------------------------------------
(* Properties. *)

\* The client is what ServerTick takes a client to be: it sends one input for a
\* tick, and whatever it sends again is the same.
ImplementsServer == S!Spec

\* The server is what ClientPrediction takes a server to be: a snapshot tells
\* the position after its tick, however late it comes.
ImplementsClient == C!Spec

\* Nothing bounds a session's buffer in the server, but the client's clock
\* does: no input waits for more than MaxLead ticks.
InputBufferBounded ==
  \A c \in DOMAIN client_sessions : \A t \in DOMAIN client_sessions[c].input_buffer :
    t < current_tick + C!MaxLead

\* An input for the tick after the timeline's start, or one before, that came
\* in time is held by the server from then on, so the client is not taken back
\* in this timeline (unless it replayed a tick without a record).
NoRollbackOnceHeld ==
  [][playing /\ base' > base /\ base' <= predicted_tick
       /\ unmoved \cap (base + 1 .. base') = {}
     => ~\E a \in arrived[Client] :
          a.at <= a.tick /\ a.tick <= base + 1 /\ Move \in a.input_bitmask]_vars

\* With such an input held, what the client recorded for a tick is the position
\* the server comes to in it, less only the ticks the timeline took without a
\* movement: those it skipped at the sync, or replayed without a record.
PredictionExact ==
  \A a \in arrived[Client] : a.at <= a.tick /\ a.tick <= base + 1 =>
    \A t \in base + 1 .. predicted_tick : t <= Len(published) /\ C!Has(history, t) =>
      published[t] = C!Get(history, t).position + Cardinality(unmoved \cap (base + 1 .. t))

-------------------------------------------------------------------------------
(* What one side knows of the other: with the inductive invariants of the two  *)
(* modules, the inductive invariant behind these properties.                   *)

\* The server's pass is for the tick after the last one published.
ClocksAgree ==
  /\ current_tick = Len(published) + 1
  /\ position = C!Position(Len(published))

AirIsPublished == \A s \in air : s.tick \in C!ServerTicks

\* The client's inputs: a ping for tick 0, and Move for the ticks it simulated,
\* none of which is 0 or too far ahead.
OwnInputs ==
  /\ \A m \in inputs :
       /\ m.tick <= Len(published) + C!MaxLead
       /\ m.input_bitmask = IF m.tick = 0 THEN {} ELSE {Move}
  /\ 0 \notin input_dispatch_times

\* From the tick of an input that came in time on, the server has moved.
HeldMoves ==
  \A a \in arrived[Client] :
    /\ a.at > 0
    /\ a.at <= a.tick => \A t \in a.tick .. Len(published) :
                            published[t] = C!Position(t - 1) + 1

SidesAgree ==
  /\ ClocksAgree
  /\ AirIsPublished
  /\ OwnInputs
  /\ HeldMoves

================================================================================

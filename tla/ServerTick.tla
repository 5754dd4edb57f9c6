------------------------------- MODULE ServerTick -------------------------------
(***************************************************************************)
(* The server's loop (bin/server.rs): inputs of the clients are kept for   *)
(* the tick they are stamped with, each tick applies the ones that are     *)
(* due, sends a snapshot to every connection, evicts the stale ones and    *)
(* purges their sessions.                                                  *)
(*                                                                         *)
(* The table of the ConnectionManager is the set of the addresses it has   *)
(* entries for; SecureSession models the entries.  Whether a datagram can  *)
(* be read is left open.  A poll is any number of receiving actions, in    *)
(* any order, and Tick is the rest of the loop's body.  The world is its   *)
(* one coordinate, in steps.                                               *)
(*                                                                         *)
(* A definition Name_Variant is Name with a mistake in it: it shows that   *)
(* the properties notice the mistake, and no specification uses it.        *)
(***************************************************************************)
EXTENDS Naturals, FiniteSets

CONSTANTS
  Clients,    \* addresses
  Bits,       \* bits of an input_bitmask
  MoveBit,    \* the one step_physics looks at
  MaxTick,    \* bound: the tick the model ends with
  MaxInputs   \* bound: different inputs the clients send

ASSUME ServerAssumption ==
  /\ MoveBit \in Bits
  /\ MaxTick \in Nat \ {0}
  /\ MaxInputs \in Nat

VARIABLES
  current_tick,
  connections,      \* addresses in the manager's table
  client_sessions,  \* a function on the addresses that have a session
  position,         \* the world
  snapshots,        \* what the last flush sent, for each connection
  inputs,           \* the inputs sent: each may arrive often, late, or never
  heard,            \* addresses heard of since the last tick
  arrived           \* history: inputs that reached the session, and when

vars == <<current_tick, connections, client_sessions, position, snapshots, inputs,
          heard, arrived>>

Ticks == 0 .. MaxTick
Bitmasks == SUBSET Bits
Inputs == [from : Clients, tick : Ticks, input_bitmask : Bitmasks]
Arrivals == [tick : Ticks, input_bitmask : Bitmasks, at : Ticks]

Buffers == UNION {[T -> Bitmasks] : T \in SUBSET Ticks}

Sessions ==
  [input_buffer : Buffers,
   last_known_input : Bitmasks, latest_input_tick : Ticks]

Snapshots == [tick : Ticks, position : Nat, last_input_tick : Ticks]

TypeOK ==
  /\ current_tick \in Ticks
  /\ connections \subseteq Clients
  /\ DOMAIN client_sessions \subseteq Clients
  /\ client_sessions \in [DOMAIN client_sessions -> Sessions]
  /\ position \in 0 .. current_tick
  /\ DOMAIN snapshots \subseteq Clients
  /\ snapshots \in [DOMAIN snapshots -> Snapshots]
  /\ inputs \subseteq Inputs
  /\ heard \subseteq Clients
  /\ arrived \in [Clients -> SUBSET Arrivals]

NewSession ==
  [input_buffer |-> [t \in {} |-> {}], last_known_input |-> {}, latest_input_tick |-> 0]

\* entry(c).or_insert(NewSession), for every c of C.
WithSessions(C) ==
  [c \in DOMAIN client_sessions \cup C |->
     IF c \in DOMAIN client_sessions THEN client_sessions[c] ELSE NewSession]

\* current_tick is incremented before the first poll.
Init ==
  /\ current_tick = 1
  /\ connections = {}
  /\ client_sessions = [c \in {} |-> NewSession]
  /\ position = 0
  /\ snapshots = [c \in {} |-> {}]
  /\ inputs = {}
  /\ heard = {}
  /\ arrived = [c \in Clients |-> {}]
-------------------------------------------------------------------------------
(* The clients and the network. *)

\* A client sends its input for a tick, any tick, and always the same one for it.
SendInput(m) ==
  /\ Cardinality(inputs) < MaxInputs
  /\ \A n \in inputs : n.from = m.from => n.tick # m.tick
  /\ inputs' = inputs \cup {m}
  /\ UNCHANGED <<current_tick, connections, client_sessions, position, snapshots,
                 heard, arrived>>

-------------------------------------------------------------------------------
(* The poll. *)

\* handle_packet: the address has an entry from now on.
Contact(c) ==
  /\ connections' = connections \cup {c}
  /\ heard' = heard \cup {c}
  /\ UNCHANGED <<current_tick, position, snapshots, inputs>>

Insert_OnlyNewer(session, m) ==
  IF m.tick <= session.latest_input_tick THEN session
  ELSE [session EXCEPT
          !.input_buffer = [t \in DOMAIN @ \cup {m.tick} |->
                              IF t = m.tick THEN m.input_bitmask ELSE @[t]],
          !.latest_input_tick = m.tick]

\* input_buffer.insert, and the tick the next snapshots will name.
Insert(session, m) ==
  [session EXCEPT
     !.input_buffer = [t \in DOMAIN @ \cup {m.tick} |->
                         IF t = m.tick THEN m.input_bitmask ELSE @[t]],
     !.latest_input_tick = m.tick]

Arrival(m) == [tick |-> m.tick, input_bitmask |-> m.input_bitmask, at |-> current_tick]

\* An input that can be read goes into the session's buffer, whatever its tick.
ReceiveInput(m) ==
  /\ Contact(m.from)
  /\ client_sessions' =
       [WithSessions({m.from}) EXCEPT ![m.from] = Insert(@, m)]
  /\ arrived' =
       [arrived EXCEPT ![m.from] =
          @ \cup {Arrival(m)}]

\* Any other datagram, and an input that cannot be read.
ReceiveOther(c) ==
  /\ Contact(c)
  /\ UNCHANGED <<client_sessions, arrived>>

\* The entry goes; the session stays until the purge.
ReceiveDisconnect(c) ==
  /\ connections' = connections \ {c}
  /\ UNCHANGED <<current_tick, client_sessions, position, snapshots, inputs, heard,
                 arrived>>

-------------------------------------------------------------------------------
(* The tick. *)

Held_NotRepeated(session) ==
  IF current_tick \in DOMAIN session.input_buffer
  THEN session.input_buffer[current_tick]
  ELSE {}

\* The input that counts in this tick: the one stamped with it, or the last one.
Held(session) ==
  IF current_tick \in DOMAIN session.input_buffer
  THEN session.input_buffer[current_tick]
  ELSE session.last_known_input

Later_Equal(session) == {t \in DOMAIN session.input_buffer : t >= current_tick}

Later_NotNext(session) ==
  {t \in DOMAIN session.input_buffer : t > current_tick + 1}

\* What the buffer keeps: inputs for later ticks.
Later(session) == {t \in DOMAIN session.input_buffer : t > current_tick}

Apply(session) ==
  [session EXCEPT
     !.last_known_input = Held(session),
     !.input_buffer = [t \in Later(session) |-> @[t]]]

Step_Twice(input) == IF MoveBit \in input THEN 2 ELSE 0

\* step_physics on the inputs of all sessions together.
Step(input) == IF MoveBit \in input THEN 1 ELSE 0

Purge_KeepsDisconnected(sessions, kept) ==
  [c \in DOMAIN sessions \ (connections \ kept) |-> sessions[c]]

\* Sessions stay for the connections that are left.
Purge(sessions, kept) == [c \in DOMAIN sessions \cap kept |-> sessions[c]]

\* The loop's body after the poll, with the connections found stale evicted.  A
\* snapshot queued for one of those is not sent.
Tick(stale) ==
  LET applied == [c \in DOMAIN WithSessions(connections) |->
                    Apply(WithSessions(connections)[c])]
      together == UNION {applied[c].last_known_input : c \in DOMAIN applied}
      kept == connections \ stale
  IN  /\ current_tick < MaxTick
      /\ client_sessions' = Purge(applied, kept)
      /\ connections' = kept
      /\ position' = position + Step(together)
      /\ snapshots' =
           [c \in kept |-> [tick |-> current_tick, position |-> position',
                            last_input_tick |-> applied[c].latest_input_tick]]
      /\ arrived' = [c \in Clients |->
                       IF c \in DOMAIN Purge(applied, kept) THEN arrived[c] ELSE {}]
      /\ current_tick' = current_tick + 1
      /\ heard' = {}
      /\ UNCHANGED inputs

-------------------------------------------------------------------------------
Next ==
  \/ \E m \in Inputs : SendInput(m)
  \/ \E m \in inputs : ReceiveInput(m)
  \/ \E c \in Clients : ReceiveOther(c) \/ ReceiveDisconnect(c)
  \/ \E stale \in SUBSET (connections \ heard) : Tick(stale)

Spec == Init /\ [][Next]_vars

-------------------------------------------------------------------------------
(* Properties. *)

\* Of the inputs arr, the ones that were there before their tick was simulated,
\* and those of them that were due before tick now.
InTime(arr) == {a \in arr : a.at <= a.tick}
Due(arr, now) == {a \in InTime(arr) : a.tick < now}

LatestDue(input, arr, now) ==
  \/ Due(arr, now) = {} /\ input = {}
  \/ \E a \in Due(arr, now) :
       /\ \A b \in Due(arr, now) : b.tick <= a.tick
       /\ input = a.input_bitmask

\* A session's input is always the one stamped with the latest tick among those
\* that came in time, whatever came late, twice or out of order; without one it
\* is none.  So an input acts from its tick on until the next one, and a late one
\* never acts.
HeldInputIsLatest ==
  \A c \in DOMAIN client_sessions :
    LatestDue(client_sessions[c].last_known_input, arrived[c], current_tick)

Pending(buffer, arr, now) ==
  /\ \A a \in InTime(arr) : a.tick >= now =>
       a.tick \in DOMAIN buffer /\ buffer[a.tick] = a.input_bitmask
  /\ \A t \in DOMAIN buffer : \E a \in arr :
       a.tick = t /\ (t >= now \/ a.at = now)

\* The buffer holds what came in time and is not due, with what it said, and
\* nothing that is left over from a tick before.
BufferIsPending ==
  \A c \in DOMAIN client_sessions :
    Pending(client_sessions[c].input_buffer, arrived[c], current_tick)

\* After a tick there is a session for every connection and for nothing else,
\* and what was sent to a connection is about its own inputs.
SessionsFollowConnections ==
  [][current_tick' # current_tick =>
       /\ DOMAIN client_sessions' = connections'
       /\ \A c \in connections' :
            snapshots'[c].last_input_tick \in {0} \cup {a.tick : a \in arrived'[c]}]_vars

-------------------------------------------------------------------------------
(* The inductive invariant behind these properties. *)

\* What reached a session was sent, not later than now, and to a session that
\* is still there.
ArrivedWasSent ==
  \A c \in Clients : \A a \in arrived[c] :
    /\ c \in DOMAIN client_sessions
    /\ a.at <= current_tick
    /\ [from |-> c, tick |-> a.tick, input_bitmask |-> a.input_bitmask] \in inputs

OneInputPerTick ==
  \A m, n \in inputs : m.from = n.from /\ m.tick = n.tick => m = n

\* The tick the next snapshot will name is that of an input of this session.
LatestWasArrived ==
  \A c \in DOMAIN client_sessions :
    client_sessions[c].latest_input_tick \in {0} \cup {a.tick : a \in arrived[c]}

IInv ==
  /\ TypeOK
  /\ OneInputPerTick
  /\ ArrivedWasSent
  /\ LatestWasArrived
  /\ BufferIsPending
  /\ HeldInputIsLatest

===============================================================================

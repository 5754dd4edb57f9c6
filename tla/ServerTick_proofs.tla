--------------------------- MODULE ServerTick_proofs ---------------------------
(***************************************************************************)
(* The inputs a server's session holds are the right ones, for any number  *)
(* of clients, ticks and inputs.                                           *)
(***************************************************************************)
EXTENDS ServerTick, TLAPS

LEMMA TickType == MaxTick \in Nat \ {0} /\ Ticks \subseteq Nat
  BY ServerAssumption DEF Ticks

\* The ticks a snapshot may name: of an input that arrived, or none.
Named(arr) == {0} \cup {a.tick : a \in arr}

LEMMA BufferType ==
  ASSUME NEW b
  PROVE  b \in Buffers <=> /\ DOMAIN b \subseteq Ticks
                           /\ b \in [DOMAIN b -> Bitmasks]
  BY DEF Buffers

\* A new session is a session, and has what it should have when nothing arrived.
LEMMA NewSessionIs ==
  /\ NewSession \in Sessions
  /\ \A now : Pending(NewSession.input_buffer, {}, now)
  /\ \A now : LatestDue(NewSession.last_known_input, {}, now)
  /\ NewSession.latest_input_tick = 0
<1>1. 0 \in Ticks
  BY TickType DEF Ticks
<1>2. DOMAIN [t \in {} |-> {}] = {} /\ [t \in {} |-> {}] \in Buffers
  BY BufferType
<1>3. {} \in Bitmasks
  BY DEF Bitmasks
<1> QED
  BY <1>1, <1>2, <1>3 DEF NewSession, Sessions, Pending, LatestDue, Due, InTime

\* Insert keeps the type of a session.
LEMMA InsertType ==
  ASSUME NEW s \in Sessions, NEW m \in Inputs
  PROVE  /\ Insert(s, m) \in Sessions
         /\ Insert(s, m).last_known_input = s.last_known_input
         /\ Insert(s, m).latest_input_tick = m.tick
         /\ DOMAIN Insert(s, m).input_buffer = DOMAIN s.input_buffer \cup {m.tick}
         /\ \A t \in DOMAIN s.input_buffer \cup {m.tick} :
              Insert(s, m).input_buffer[t] =
                IF t = m.tick THEN m.input_bitmask ELSE s.input_buffer[t]
<1> DEFINE b == s.input_buffer
           n == [t \in DOMAIN b \cup {m.tick} |->
                   IF t = m.tick THEN m.input_bitmask ELSE b[t]]
<1>1. b \in Buffers /\ m.tick \in Ticks /\ m.input_bitmask \in Bitmasks
  BY DEF Sessions, Inputs
<1>2. DOMAIN b \subseteq Ticks /\ b \in [DOMAIN b -> Bitmasks]
  BY <1>1, BufferType
<1>3. n \in Buffers
  <2>1. DOMAIN n = DOMAIN b \cup {m.tick}
    OBVIOUS
  <2>2. n \in [DOMAIN n -> Bitmasks]
    BY <1>1, <1>2
  <2> QED
    BY <1>1, <1>2, <2>1, <2>2, BufferType
<1>4. Insert(s, m) = [s EXCEPT !.input_buffer = n, !.latest_input_tick = m.tick]
  BY DEF Insert
<1>5. /\ Insert(s, m).input_buffer = n
      /\ Insert(s, m).last_known_input = s.last_known_input
      /\ Insert(s, m).latest_input_tick = m.tick
  BY <1>4 DEF Sessions
<1>6. Insert(s, m) \in Sessions
  <2> HIDE DEF n
  <2> QED
    BY <1>1, <1>3, <1>4 DEF Sessions
<1> QED
  BY <1>5, <1>6

\* Apply keeps the type of a session.
LEMMA ApplyType ==
  ASSUME NEW s \in Sessions
  PROVE  /\ Apply(s) \in Sessions
         /\ Apply(s).last_known_input = Held(s)
         /\ Apply(s).latest_input_tick = s.latest_input_tick
         /\ DOMAIN Apply(s).input_buffer = Later(s)
         /\ \A t \in Later(s) : Apply(s).input_buffer[t] = s.input_buffer[t]
<1> DEFINE b == s.input_buffer
           n == [t \in Later(s) |-> b[t]]
<1>1. b \in Buffers /\ s.last_known_input \in Bitmasks
  BY DEF Sessions
<1>2. DOMAIN b \subseteq Ticks /\ b \in [DOMAIN b -> Bitmasks]
  BY <1>1, BufferType
<1>3. n \in Buffers
  <2>1. DOMAIN n \subseteq DOMAIN b
    BY DEF Later
  <2>2. n \in [DOMAIN n -> Bitmasks]
    BY <1>2, <2>1
  <2> QED
    BY <1>2, <2>1, <2>2, BufferType
<1>4. Held(s) \in Bitmasks
  BY <1>1, <1>2 DEF Held
<1>5. Apply(s) = [s EXCEPT !.last_known_input = Held(s), !.input_buffer = n]
  BY DEF Apply
<1> QED
  BY <1>3, <1>4, <1>5 DEF Sessions

\* An input that arrives changes what is pending, and not what is due.
LEMMA InsertKeeps ==
  ASSUME NEW s \in Sessions, NEW m \in Inputs, NEW arr \in SUBSET Arrivals,
         current_tick \in Ticks,
         \A a \in arr : a.tick = m.tick => a.input_bitmask = m.input_bitmask
  PROVE  /\ Pending(s.input_buffer, arr, current_tick) =>
              Pending(Insert(s, m).input_buffer, arr \cup {Arrival(m)}, current_tick)
         /\ LatestDue(s.last_known_input, arr, current_tick) =>
              LatestDue(Insert(s, m).last_known_input, arr \cup {Arrival(m)}, current_tick)
<1> DEFINE new == arr \cup {Arrival(m)}
<1>1. /\ Arrival(m).tick = m.tick /\ Arrival(m).at = current_tick
      /\ Arrival(m).input_bitmask = m.input_bitmask
  BY DEF Arrival
<1>2. m.tick \in Nat /\ current_tick \in Nat
  BY TickType DEF Inputs
<1>3. Due(new, current_tick) = Due(arr, current_tick)
  BY <1>1, <1>2 DEF Due, InTime
<1>4. ASSUME Pending(s.input_buffer, arr, current_tick)
      PROVE  Pending(Insert(s, m).input_buffer, new, current_tick)
  <2>1. ASSUME NEW a \in InTime(new), a.tick >= current_tick
        PROVE  /\ a.tick \in DOMAIN Insert(s, m).input_buffer
               /\ Insert(s, m).input_buffer[a.tick] = a.input_bitmask
    <3>1. CASE a.tick = m.tick
      BY <1>1, <3>1, InsertType DEF InTime
    <3>2. CASE a.tick # m.tick
      BY <1>1, <1>4, <2>1, <3>2, InsertType DEF InTime, Pending
    <3> QED
      BY <3>1, <3>2
  <2>2. ASSUME NEW t \in DOMAIN Insert(s, m).input_buffer
        PROVE  \E a \in new : a.tick = t /\ (t >= current_tick \/ a.at = current_tick)
    <3>1. CASE t = m.tick
      BY <1>1, <3>1
    <3>2. CASE t \in DOMAIN s.input_buffer
      BY <1>4, <3>2 DEF Pending
    <3> QED
      BY <3>1, <3>2, InsertType
  <2> QED
    BY <2>1, <2>2 DEF Pending
<1>5. Insert(s, m).last_known_input = s.last_known_input
  BY InsertType
<1> QED
  BY <1>3, <1>4, <1>5 DEF LatestDue

\* A tick applies what has become due, and keeps the rest.
LEMMA ApplyKeeps ==
  ASSUME NEW s \in Sessions, NEW arr \in SUBSET Arrivals,
         current_tick \in Ticks,
         \A a \in arr : a.at <= current_tick,
         Pending(s.input_buffer, arr, current_tick),
         LatestDue(s.last_known_input, arr, current_tick)
  PROVE  /\ Pending(Apply(s).input_buffer, arr, current_tick + 1)
         /\ LatestDue(Apply(s).last_known_input, arr, current_tick + 1)
<1> DEFINE now == current_tick
<1>1. /\ now \in Nat
      /\ DOMAIN s.input_buffer \subseteq Nat
      /\ \A a \in arr : a.tick \in Nat /\ a.at \in Nat
  BY TickType, BufferType DEF Arrivals, Sessions
<1>2. Pending(Apply(s).input_buffer, arr, now + 1)
  <2>1. ASSUME NEW a \in InTime(arr), a.tick >= now + 1
        PROVE  /\ a.tick \in DOMAIN Apply(s).input_buffer
               /\ Apply(s).input_buffer[a.tick] = a.input_bitmask
    <3>1. a.tick \in Nat /\ a.tick >= now /\ a.tick > now
      BY <1>1, <2>1 DEF InTime
    <3>2. a.tick \in DOMAIN s.input_buffer /\ s.input_buffer[a.tick] = a.input_bitmask
      BY <3>1 DEF Pending
    <3> QED
      BY <3>1, <3>2, ApplyType DEF Later
  <2>2. ASSUME NEW t \in DOMAIN Apply(s).input_buffer
        PROVE  \E a \in arr : a.tick = t /\ t >= now + 1
    <3>1. t \in DOMAIN s.input_buffer /\ t > now
      BY ApplyType DEF Later
    <3>2. PICK a \in arr : a.tick = t
      BY <3>1 DEF Pending
    <3> QED
      BY <1>1, <3>1, <3>2
  <2> QED
    BY <2>1, <2>2 DEF Pending
<1>3. LatestDue(Held(s), arr, now + 1)
  <2>1. CASE now \in DOMAIN s.input_buffer
    <3>1. PICK a \in arr : a.tick = now
      BY <2>1 DEF Pending
    <3>2. a \in InTime(arr) /\ a \in Due(arr, now + 1)
      BY <1>1, <3>1 DEF InTime, Due
    <3>3. s.input_buffer[now] = a.input_bitmask
      BY <1>1, <3>1, <3>2 DEF Pending
    <3>4. \A b \in Due(arr, now + 1) : b.tick <= a.tick
      BY <1>1, <3>1 DEF Due, InTime
    <3> QED
      BY <2>1, <3>2, <3>3, <3>4 DEF LatestDue, Held
  <2>2. CASE now \notin DOMAIN s.input_buffer
    <3>1. \A a \in InTime(arr) : a.tick # now
      BY <1>1, <2>2 DEF Pending, InTime
    <3>2. Due(arr, now + 1) = Due(arr, now)
      BY <1>1, <3>1 DEF Due, InTime
    <3> QED
      BY <2>2, <3>2 DEF LatestDue, Held
  <2> QED
    BY <2>1, <2>2
<1> QED
  BY <1>2, <1>3, ApplyType

-------------------------------------------------------------------------------
(* The specification. *)

\* The sessions, with the ones just opened: all of them are as they should be.
LEMMA WithSessionsFit ==
  ASSUME IInv, NEW C \in SUBSET Clients
  PROVE  /\ DOMAIN WithSessions(C) = DOMAIN client_sessions \cup C
         /\ \A c \in DOMAIN WithSessions(C) :
              /\ WithSessions(C)[c] \in Sessions
              /\ Pending(WithSessions(C)[c].input_buffer, arrived[c], current_tick)
              /\ LatestDue(WithSessions(C)[c].last_known_input, arrived[c], current_tick)
              /\ WithSessions(C)[c].latest_input_tick \in Named(arrived[c])
<1>1. DOMAIN WithSessions(C) = DOMAIN client_sessions \cup C
  BY DEF WithSessions
<1>2. ASSUME NEW c \in DOMAIN client_sessions
      PROVE  /\ WithSessions(C)[c] = client_sessions[c]
             /\ client_sessions[c] \in Sessions
             /\ Pending(client_sessions[c].input_buffer, arrived[c], current_tick)
             /\ LatestDue(client_sessions[c].last_known_input, arrived[c], current_tick)
             /\ client_sessions[c].latest_input_tick \in Named(arrived[c])
  BY <1>2 DEF WithSessions, IInv, TypeOK, BufferIsPending, HeldInputIsLatest,
              LatestWasArrived, Named
<1>3. ASSUME NEW c \in C, c \notin DOMAIN client_sessions
      PROVE  WithSessions(C)[c] = NewSession /\ arrived[c] = {}
  BY <1>3 DEF WithSessions, IInv, TypeOK, ArrivedWasSent
<1> QED
  BY <1>1, <1>2, <1>3, NewSessionIs DEF Named

LEMMA InvInit == Init => IInv
<1> SUFFICES ASSUME Init
             PROVE  IInv
  OBVIOUS
<1>1. 1 \in Ticks
  BY TickType DEF Ticks
<1>2. DOMAIN client_sessions = {} /\ DOMAIN snapshots = {}
  BY DEF Init
<1>3. client_sessions \in [DOMAIN client_sessions -> Sessions]
  BY <1>2 DEF Init
<1>4. snapshots \in [DOMAIN snapshots -> Snapshots]
  BY <1>2 DEF Init
<1>5. TypeOK
  BY <1>1, <1>2, <1>3, <1>4 DEF Init, TypeOK
<1>6. BufferIsPending /\ HeldInputIsLatest /\ LatestWasArrived
  BY <1>2 DEF BufferIsPending, HeldInputIsLatest, LatestWasArrived
<1>7. ArrivedWasSent /\ OneInputPerTick
  BY DEF Init, ArrivedWasSent, OneInputPerTick
<1> QED
  BY <1>5, <1>6, <1>7 DEF IInv

\* A new input is not sent for a tick the client has sent one for.
LEMMA SendKeeps ==
  ASSUME IInv, NEW m \in Inputs, SendInput(m)
  PROVE  IInv'
<1> USE DEF IInv, SendInput
<1>1. TypeOK'
  BY DEF TypeOK
<1>2. OneInputPerTick'
  BY DEF OneInputPerTick
<1>3. ArrivedWasSent'
  BY DEF ArrivedWasSent
<1>4. BufferIsPending' /\ HeldInputIsLatest' /\ LatestWasArrived'
  BY DEF BufferIsPending, HeldInputIsLatest, LatestWasArrived
<1> QED
  BY <1>1, <1>2, <1>3, <1>4

LEMMA ReceiveInputKeeps ==
  ASSUME IInv, NEW m \in inputs, ReceiveInput(m)
  PROVE  IInv'
<1> DEFINE W == WithSessions({m.from})
           c0 == m.from
<1>1. m \in Inputs /\ c0 \in Clients /\ current_tick \in Ticks
  BY DEF IInv, TypeOK, Inputs
<1>2. /\ DOMAIN W = DOMAIN client_sessions \cup {c0}
      /\ \A c \in DOMAIN W :
           /\ W[c] \in Sessions
           /\ Pending(W[c].input_buffer, arrived[c], current_tick)
           /\ LatestDue(W[c].last_known_input, arrived[c], current_tick)
           /\ W[c].latest_input_tick \in Named(arrived[c])
  BY <1>1, WithSessionsFit
<1>3. /\ DOMAIN client_sessions' = DOMAIN W
      /\ client_sessions'[c0] = Insert(W[c0], m)
      /\ \A c \in DOMAIN W \ {c0} : client_sessions'[c] = W[c]
  <2> HIDE DEF W
  <2>1. client_sessions' = [W EXCEPT ![c0] = Insert(W[c0], m)]
    BY DEF ReceiveInput, W
  <2>2. W = [c \in DOMAIN W |-> W[c]]
    BY DEF W, WithSessions
  <2> QED
    BY <1>2, <2>1, <2>2
<1>4. /\ arrived'[c0] = arrived[c0] \cup {Arrival(m)}
      /\ \A c \in Clients \ {c0} : arrived'[c] = arrived[c]
      /\ \A c \in Clients : arrived[c] \in SUBSET Arrivals
  BY <1>1 DEF ReceiveInput, IInv, TypeOK
<1>5. UNCHANGED <<current_tick, position, snapshots, inputs>>
  BY DEF ReceiveInput, Contact
<1>6. Arrival(m) \in Arrivals
  BY <1>1 DEF Arrival, Arrivals, Inputs
<1>7. Insert(W[c0], m) \in Sessions
  BY <1>1, <1>2, InsertType
<1>8. TypeOK'
  <2>1. DOMAIN client_sessions' \subseteq Clients
    BY <1>1, <1>2, <1>3 DEF IInv, TypeOK
  <2>2. client_sessions' \in [DOMAIN client_sessions' -> Sessions]
    <3>1. client_sessions' = [W EXCEPT ![c0] = Insert(W[c0], m)]
      BY DEF ReceiveInput
    <3>2. client_sessions' = [c \in DOMAIN client_sessions' |-> client_sessions'[c]]
      BY <3>1 DEF WithSessions
    <3> QED
      BY <1>2, <1>3, <1>7, <3>2
  <2>3. arrived' \in [Clients -> SUBSET Arrivals]
    BY <1>4, <1>6 DEF ReceiveInput, IInv, TypeOK
  <2>4. connections' \subseteq Clients /\ heard' \subseteq Clients
    BY <1>1 DEF ReceiveInput, Contact, IInv, TypeOK
  <2> QED
    BY <1>5, <2>1, <2>2, <2>3, <2>4 DEF IInv, TypeOK
<1>9. ArrivedWasSent'
  <2>1. /\ Arrival(m).at = current_tick /\ Arrival(m).tick = m.tick
        /\ Arrival(m).input_bitmask = m.input_bitmask
    BY DEF Arrival
  <2>2. [from |-> c0, tick |-> m.tick, input_bitmask |-> m.input_bitmask] = m
    BY <1>1 DEF Inputs
  <2>3. current_tick <= current_tick
    BY <1>1, TickType
  <2> QED
    BY <1>2, <1>3, <1>4, <1>5, <2>1, <2>2, <2>3 DEF IInv, ArrivedWasSent
<1>10. \A a \in arrived[c0] : a.tick = m.tick => a.input_bitmask = m.input_bitmask
  <2> SUFFICES ASSUME NEW a \in arrived[c0], a.tick = m.tick
               PROVE  a.input_bitmask = m.input_bitmask
    OBVIOUS
  <2> DEFINE n == [from |-> c0, tick |-> a.tick, input_bitmask |-> a.input_bitmask]
  <2>1. n \in inputs /\ n.from = m.from /\ n.tick = m.tick
    BY <1>1 DEF IInv, ArrivedWasSent
  <2>2. n = m
    BY <2>1 DEF IInv, OneInputPerTick
  <2> QED
    BY <2>2
<1>11. /\ Pending(Insert(W[c0], m).input_buffer, arrived[c0] \cup {Arrival(m)}, current_tick)
       /\ LatestDue(Insert(W[c0], m).last_known_input, arrived[c0] \cup {Arrival(m)},
                    current_tick)
  BY <1>1, <1>2, <1>4, <1>10, InsertKeeps
<1>12. BufferIsPending' /\ HeldInputIsLatest' /\ LatestWasArrived'
  <2> SUFFICES ASSUME NEW c \in DOMAIN client_sessions'
               PROVE  /\ Pending(client_sessions'[c].input_buffer, arrived'[c], current_tick')
                      /\ LatestDue(client_sessions'[c].last_known_input, arrived'[c],
                                   current_tick')
                      /\ client_sessions'[c].latest_input_tick \in Named(arrived'[c])
    BY DEF BufferIsPending, HeldInputIsLatest, LatestWasArrived, Named
  <2>1. CASE c = c0
    <3>1. Insert(W[c0], m).latest_input_tick = Arrival(m).tick
      BY <1>1, <1>2, InsertType DEF Arrival
    <3> QED
      BY <1>3, <1>4, <1>5, <1>11, <2>1, <3>1 DEF Named
  <2>2. CASE c # c0
    <3>1. c \in Clients
      BY <1>8 DEF TypeOK
    <3> QED
      BY <1>2, <1>3, <1>4, <1>5, <2>2, <3>1
  <2> QED
    BY <2>1, <2>2
<1>13. OneInputPerTick'
  BY <1>5 DEF IInv, OneInputPerTick
<1> QED
  BY <1>8, <1>9, <1>12, <1>13 DEF IInv

LEMMA TickKeeps ==
  ASSUME IInv, NEW stale \in SUBSET (connections \ heard), Tick(stale)
  PROVE  IInv'
<1> DEFINE W == WithSessions(connections)
           applied == [c \in DOMAIN W |-> Apply(W[c])]
           together == UNION {applied[c].last_known_input : c \in DOMAIN applied}
           kept == connections \ stale
<1>1. /\ connections \in SUBSET Clients /\ kept \subseteq Clients
      /\ current_tick \in Ticks /\ current_tick < MaxTick
  BY DEF IInv, TypeOK, Tick
<1>2. /\ DOMAIN W = DOMAIN client_sessions \cup connections
      /\ \A c \in DOMAIN W :
           /\ W[c] \in Sessions
           /\ Pending(W[c].input_buffer, arrived[c], current_tick)
           /\ LatestDue(W[c].last_known_input, arrived[c], current_tick)
           /\ W[c].latest_input_tick \in Named(arrived[c])
  BY <1>1, WithSessionsFit
<1>3. /\ client_sessions' = [c \in DOMAIN applied \cap kept |-> applied[c]]
      /\ arrived' = [c \in Clients |-> IF c \in DOMAIN applied \cap kept
                                        THEN arrived[c] ELSE {}]
      /\ connections' = kept
      /\ position' = position + Step(together)
      /\ snapshots' = [c \in kept |-> [tick |-> current_tick, position |-> position',
                                       last_input_tick |-> applied[c].latest_input_tick]]
      /\ current_tick' = current_tick + 1
      /\ heard' = {}
      /\ inputs' = inputs
  BY DEF Tick, Purge
<1> HIDE DEF W, together
<1>4. kept \subseteq DOMAIN applied /\ DOMAIN client_sessions' = kept
  BY <1>2, <1>3
<1>5. \A c \in kept : client_sessions'[c] = Apply(W[c]) /\ W[c] \in Sessions
  BY <1>2, <1>3, <1>4
<1>6. current_tick \in Nat /\ current_tick' \in Ticks
  BY <1>1, <1>3, TickType DEF Ticks
<1>7. position' \in 0 .. current_tick' /\ position' \in Nat
  <2>1. Step(together) \in 0 .. 1
    BY DEF Step
  <2>2. position \in 0 .. current_tick
    BY DEF IInv, TypeOK
  <2> QED
    BY <1>3, <1>6, <2>1, <2>2
<1>8. TypeOK'
  <2>1. client_sessions' \in [DOMAIN client_sessions' -> Sessions]
    BY <1>3, <1>4, <1>5, ApplyType
  <2>2. snapshots' \in [DOMAIN snapshots' -> Snapshots]
    <3>1. \A c \in kept : applied[c].latest_input_tick \in Ticks
      BY <1>2, <1>4, ApplyType DEF Sessions
    <3> QED
      BY <1>1, <1>3, <1>7, <3>1 DEF Snapshots
  <2>3. DOMAIN snapshots' \subseteq Clients
    BY <1>1, <1>3
  <2>4. arrived' \in [Clients -> SUBSET Arrivals]
    BY <1>3 DEF IInv, TypeOK
  <2> QED
    BY <1>1, <1>3, <1>4, <1>6, <1>7, <2>1, <2>2, <2>3, <2>4 DEF IInv, TypeOK
<1>9. ArrivedWasSent'
  <2> SUFFICES ASSUME NEW c \in Clients, NEW a \in arrived'[c]
               PROVE  /\ c \in DOMAIN client_sessions'
                      /\ a.at <= current_tick'
                      /\ [from |-> c, tick |-> a.tick, input_bitmask |-> a.input_bitmask]
                           \in inputs'
    BY DEF ArrivedWasSent
  <2>1. c \in kept /\ a \in arrived[c]
    BY <1>3
  <2>2. a.at \in Nat
    BY <2>1, TickType DEF IInv, TypeOK, Arrivals
  <2> QED
    BY <1>3, <1>4, <1>6, <2>1, <2>2 DEF IInv, ArrivedWasSent
<1>10. BufferIsPending' /\ HeldInputIsLatest' /\ LatestWasArrived'
  <2> SUFFICES ASSUME NEW c \in kept
               PROVE  /\ Pending(client_sessions'[c].input_buffer, arrived'[c], current_tick')
                      /\ LatestDue(client_sessions'[c].last_known_input, arrived'[c],
                                   current_tick')
                      /\ client_sessions'[c].latest_input_tick \in Named(arrived'[c])
    BY <1>4 DEF BufferIsPending, HeldInputIsLatest, LatestWasArrived, Named
  <2>1. c \in Clients /\ arrived'[c] = arrived[c] /\ c \in DOMAIN W
    BY <1>1, <1>2, <1>3, <1>4
  <2>2. arrived[c] \in SUBSET Arrivals /\ \A a \in arrived[c] : a.at <= current_tick
    BY <2>1 DEF IInv, TypeOK, ArrivedWasSent
  <2>3. /\ Pending(Apply(W[c]).input_buffer, arrived[c], current_tick + 1)
        /\ LatestDue(Apply(W[c]).last_known_input, arrived[c], current_tick + 1)
    BY <1>1, <1>2, <2>1, <2>2, ApplyKeeps
  <2>4. Apply(W[c]).latest_input_tick = W[c].latest_input_tick
    BY <1>5, ApplyType
  <2> QED
    BY <1>2, <1>3, <1>5, <2>1, <2>3, <2>4
<1>11. OneInputPerTick'
  BY <1>3 DEF IInv, OneInputPerTick
<1> QED
  BY <1>8, <1>9, <1>10, <1>11 DEF IInv

LEMMA InvStep == IInv /\ [Next]_vars => IInv'
<1> SUFFICES ASSUME IInv, [Next]_vars
             PROVE  IInv'
  OBVIOUS
<1> USE DEF IInv
<1>1. CASE \E m \in Inputs : SendInput(m)
  BY <1>1, SendKeeps
<1>2. CASE \E m \in inputs : ReceiveInput(m)
  BY <1>2, ReceiveInputKeeps
<1>3. ASSUME NEW c \in Clients, ReceiveOther(c) \/ ReceiveDisconnect(c)
      PROVE  IInv'
  <2>1. /\ UNCHANGED <<current_tick, client_sessions, position, snapshots, inputs, arrived>>
        /\ connections' \subseteq Clients /\ heard' \subseteq Clients
    BY <1>3 DEF ReceiveOther, ReceiveDisconnect, Contact, TypeOK
  <2> QED
    BY <2>1 DEF TypeOK, OneInputPerTick, ArrivedWasSent, BufferIsPending, HeldInputIsLatest,
                LatestWasArrived
<1>4. CASE \E stale \in SUBSET (connections \ heard) : Tick(stale)
  BY <1>4, TickKeeps
<1>5. CASE UNCHANGED vars
  BY <1>5 DEF vars, TypeOK, OneInputPerTick, ArrivedWasSent, BufferIsPending,
              HeldInputIsLatest, LatestWasArrived
<1> QED
  BY <1>1, <1>2, <1>3, <1>4, <1>5 DEF Next

\* The inductive invariant holds in every reachable state of the server.
THEOREM Invariant == Spec => []IInv
  BY InvInit, InvStep, PTL DEF Spec

\* For any number of clients and ticks, and any order in which inputs arrive, a
\* session holds the input with the latest tick that came in time.
THEOREM HeldIsLatest == Spec => []HeldInputIsLatest
<1>1. IInv => HeldInputIsLatest
  BY DEF IInv
<1> QED
  BY <1>1, Invariant, PTL

\* No input that came in time is lost, and none stays after its tick.
THEOREM BufferExact == Spec => []BufferIsPending
<1>1. IInv => BufferIsPending
  BY DEF IInv
<1> QED
  BY <1>1, Invariant, PTL

\* The variables of the server's loop keep their types: the position never leads
\* the tick, and every session is one of a known address.
THEOREM TypeCorrect == Spec => []TypeOK
<1>1. IInv => TypeOK
  BY DEF IInv
<1> QED
  BY <1>1, Invariant, PTL

\* What a tick leaves behind.
LEMMA TickFollows ==
  ASSUME IInv, NEW stale \in SUBSET (connections \ heard), Tick(stale)
  PROVE  /\ DOMAIN client_sessions' = connections'
         /\ \A c \in connections' :
              snapshots'[c].last_input_tick \in {0} \cup {a.tick : a \in arrived'[c]}
<1> DEFINE W == WithSessions(connections)
           applied == [c \in DOMAIN W |-> Apply(W[c])]
           kept == connections \ stale
<1>1. connections \in SUBSET Clients /\ kept \subseteq Clients
  BY DEF IInv, TypeOK
<1>2. /\ DOMAIN W = DOMAIN client_sessions \cup connections
      /\ \A c \in DOMAIN W : W[c] \in Sessions /\ W[c].latest_input_tick \in Named(arrived[c])
  BY <1>1, WithSessionsFit
<1>3. /\ client_sessions' = [c \in DOMAIN applied \cap kept |-> applied[c]]
      /\ arrived' = [c \in Clients |-> IF c \in DOMAIN applied \cap kept
                                        THEN arrived[c] ELSE {}]
      /\ connections' = kept
      /\ \A c \in kept : snapshots'[c].last_input_tick = applied[c].latest_input_tick
  BY DEF Tick, Purge
<1> HIDE DEF W
<1>4. kept \subseteq DOMAIN applied
  BY <1>2
<1>5. ASSUME NEW c \in kept
      PROVE  snapshots'[c].last_input_tick \in Named(arrived'[c])
  <2>1. c \in DOMAIN W /\ arrived'[c] = arrived[c]
    BY <1>1, <1>3, <1>4
  <2>2. applied[c].latest_input_tick = W[c].latest_input_tick
    BY <1>2, <2>1, ApplyType
  <2> QED
    BY <1>2, <1>3, <2>1, <2>2
<1> QED
  BY <1>3, <1>4, <1>5 DEF Named

\* The purge leaves a session for each connection and no other, and no client is
\* told of an input that is not its own.
THEOREM SessionsFollow == Spec => SessionsFollowConnections
<1>1. IInv /\ [Next]_vars =>
        [current_tick' # current_tick =>
           /\ DOMAIN client_sessions' = connections'
           /\ \A c \in connections' :
                snapshots'[c].last_input_tick \in {0} \cup {a.tick : a \in arrived'[c]}]_vars
  <2> SUFFICES ASSUME IInv, Next, current_tick' # current_tick
               PROVE  /\ DOMAIN client_sessions' = connections'
                      /\ \A c \in connections' :
                           snapshots'[c].last_input_tick \in
                             {0} \cup {a.tick : a \in arrived'[c]}
    BY DEF vars
  <2>1. PICK stale \in SUBSET (connections \ heard) : Tick(stale)
    BY DEF Next, SendInput, ReceiveInput, ReceiveOther, ReceiveDisconnect, Contact
  <2> QED
    BY <2>1, TickFollows
<1> QED
  BY <1>1, Invariant, PTL DEF Spec, SessionsFollowConnections

===============================================================================

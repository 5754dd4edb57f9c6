-------------------------- MODULE SecureSession_proofs --------------------------
(***************************************************************************)
(* Proofs about SecureSession, for any set of session keys and any number  *)
(* of pings, losses and faults: the handshake can be read by a new client  *)
(* whenever it arrives, a client in play keeps its key, without faults it  *)
(* is never on a key the server is not on, and the two ends together are   *)
(* an implementation of KeyExchange.                                       *)
(***************************************************************************)
EXTENDS SecureSession, ReliableConnectionState_proofs, FiniteSetTheorems

-------------------------------------------------------------------------------
(* Values. *)

LEMMA KeysApart ==
  /\ PocKey \notin SessionKeys /\ NoKey \notin SessionKeys /\ NoKey # PocKey
  /\ SessionKeys \subseteq Keys /\ PocKey \in Keys /\ NoKey \notin Keys
  BY KeyAssumption DEF Keys

LEMMA WrappingTypes ==
  ASSUME NEW a \in Int, NEW b \in Int
  PROVE  WrappingAdd(a, b) \in SequenceNumbers /\ WrappingSub(a, b) \in SequenceNumbers
  BY ModType DEF WrappingAdd, WrappingSub

LEMMA NumbersAreInts == SequenceNumbers \subseteq Int /\ 0 \in SequenceNumbers
  BY SpaceType DEF SequenceNumbers

\* What the window becomes is a bit field.
LEMMA WindowTypes ==
  ASSUME NEW field \in Bitfields, NEW n \in Int
  PROVE  /\ AdvanceField(field, n) \in Bitfields
         /\ field \cup {ShiftCount(n)} \in Bitfields
<1>1. BITFIELD_BITS \in Nat \ {0}
  BY RangeAssumption
<1>2. 0 \in 0 .. BITFIELD_BITS - 1
  BY <1>1
<1>3. ShiftCount(n) \in 0 .. BITFIELD_BITS - 1
  BY <1>1, DivMod DEF ShiftCount
<1>4. ShiftLeft(field, n) \subseteq 0 .. BITFIELD_BITS - 1
  BY DEF ShiftLeft
<1> QED
  BY <1>2, <1>3, <1>4 DEF Bitfields, AdvanceField

\* A connection's record has its fields.
LEMMA ConnectionFields ==
  ASSUME NEW c \in Connections
  PROVE  /\ c.open \in BOOLEAN
         /\ c.pipeline \in Keys
         /\ c.pending_pipeline_swap \in Keys \cup {NoKey}
         /\ c.pending_queue \in Seq(Sends)
         /\ c.is_authenticated \in BOOLEAN
         /\ c.next_outgoing_sequence \in SequenceNumbers
         /\ c.highest_received_sequence \in SequenceNumbers
         /\ c.received_sequence_bitfield \in Bitfields
         /\ c.unacknowledged_packets \in SUBSET Datagrams
  BY DEF Connections

LEMMA DatagramFields ==
  ASSUME NEW m \in Datagrams
  PROVE  /\ m.to \in Endpoints /\ m.kind \in Kinds
         /\ m.key \in Keys \cup {NoKey} /\ m.session_key \in Keys \cup {NoKey}
         /\ m.sequence \in SequenceNumbers /\ m.ack \in SequenceNumbers
         /\ m.ack_bitfield \in Bitfields
  BY DEF Datagrams

LEMMA SendFields ==
  ASSUME NEW s \in Sends
  PROVE  s.kind \in Kinds /\ s.session_key \in Keys \cup {NoKey}
  BY DEF Sends

LEMMA NewConnectionType ==
  /\ NoConnection \in Connections
  /\ NewConnection \in Connections
  /\ NewConnection = [NoConnection EXCEPT !.open = TRUE]
<1>1. WrappingAdd(0, 1) \in SequenceNumbers
  BY WrappingTypes
<1>2. {} \in Bitfields
  BY DEF Bitfields
<1>3. <<>> \in Seq(Sends)
  OBVIOUS
<1>4. NoConnection \in Connections
  BY <1>1, <1>2, <1>3, KeysApart, NumbersAreInts DEF NoConnection, Connections
<1>5. NewConnection \in Connections
  BY <1>4 DEF NewConnection, Connections
<1> QED
  BY <1>4, <1>5 DEF NewConnection

LEMMA FirstContactType ==
  ASSUME NEW k \in SessionKeys
  PROVE  /\ FirstContact(k) \in Connections
         /\ FirstContact(k).open
         /\ FirstContact(k).pipeline = PocKey
         /\ FirstContact(k).pending_pipeline_swap = k
         /\ FirstContact(k).pending_queue =
              <<[kind |-> "Handshake", session_key |-> k]>>
         /\ FirstContact(k).unacknowledged_packets = {}
<1> DEFINE q == <<[kind |-> "Handshake", session_key |-> k]>>
<1>1. [kind |-> "Handshake", session_key |-> k] \in Sends
  BY KeysApart DEF Sends, Kinds, ReliableKinds
<1>2. q \in Seq(Sends)
  BY <1>1
<1>3. k \in Keys \cup {NoKey}
  BY KeysApart
<1>4. NewConnection \in Connections
  BY NewConnectionType
<1> HIDE DEF q
<1>5. FirstContact(k) = [NewConnection EXCEPT !.pending_queue = q, !.pending_pipeline_swap = k]
  BY DEF FirstContact, q
<1>6. FirstContact(k) \in Connections
  BY <1>2, <1>3, <1>4, <1>5 DEF Connections
<1>7. /\ NewConnection.open /\ NewConnection.pipeline = PocKey
      /\ NewConnection.unacknowledged_packets = {}
  BY DEF NewConnection, NoConnection
<1> QED
  BY <1>4, <1>5, <1>6, <1>7 DEF Connections, q

LEMMA SendToType ==
  ASSUME NEW c \in Connections, NEW s \in Sends
  PROVE  /\ SendTo(c, s) \in Connections
         /\ SendTo(c, s).open
         /\ c.open => SendTo(c, s) = [c EXCEPT !.pending_queue = Append(@, s)]
         /\ ~c.open => SendTo(c, s) = [NewConnection EXCEPT !.pending_queue = Append(@, s)]
<1> DEFINE d == IF c.open THEN c ELSE NewConnection
<1>1. d \in Connections /\ d.open
  BY NewConnectionType DEF NewConnection, NoConnection
<1>2. SendTo(c, s) = [d EXCEPT !.pending_queue = Append(@, s)]
  BY DEF SendTo, QueuePendingSend
<1> HIDE DEF d
<1>3. Append(d.pending_queue, s) \in Seq(Sends)
  BY <1>1, ConnectionFields
<1>4. SendTo(c, s) \in Connections /\ SendTo(c, s).open
  BY <1>1, <1>2, <1>3 DEF Connections
<1> QED
  BY <1>2, <1>4 DEF d

\* process_incoming_header: acknowledged packets go, the window moves on, and
\* nothing else of the connection changes.
LEMMA ProcessedType ==
  ASSUME NEW c \in Connections, NEW m \in Datagrams
  PROVE  /\ ProcessIncomingHeader(c, m) \in Connections
         /\ ProcessIncomingHeader(c, m).open = c.open
         /\ ProcessIncomingHeader(c, m).pipeline = c.pipeline
         /\ ProcessIncomingHeader(c, m).pending_pipeline_swap = c.pending_pipeline_swap
         /\ ProcessIncomingHeader(c, m).pending_queue = c.pending_queue
         /\ ProcessIncomingHeader(c, m).unacknowledged_packets
              \subseteq c.unacknowledged_packets
<1> DEFINE highest == c.highest_received_sequence
           field == c.received_sequence_bitfield
           newer == IsSequenceMoreRecent(m.sequence, highest)
           window ==
             CASE newer -> AdvanceField(field, WrappingSub(m.sequence, highest))
               [] ~newer /\ IsDuplicateOrTooOld(highest, field, m.sequence) -> field
               [] OTHER -> field \cup {ShiftCount(WrappingSub(highest, m.sequence))}
           left == {u \in c.unacknowledged_packets : ~IsAcked(u.sequence, m)}
           next == IF newer THEN m.sequence ELSE highest
<1>1. /\ highest \in SequenceNumbers /\ field \in Bitfields
      /\ m.sequence \in SequenceNumbers
  BY ConnectionFields, DatagramFields
<1>2. window \in Bitfields
  <2>1. /\ WrappingSub(m.sequence, highest) \in Int
        /\ WrappingSub(highest, m.sequence) \in Int
    BY <1>1, WrappingTypes, NumbersAreInts
  <2>2. /\ AdvanceField(field, WrappingSub(m.sequence, highest)) \in Bitfields
        /\ field \cup {ShiftCount(WrappingSub(highest, m.sequence))} \in Bitfields
    BY <1>1, <2>1, WindowTypes
  <2>3. CASE newer
    BY <2>2, <2>3
  <2>4. CASE ~newer /\ IsDuplicateOrTooOld(highest, field, m.sequence)
    BY <1>1, <2>4
  <2>5. CASE ~newer /\ ~IsDuplicateOrTooOld(highest, field, m.sequence)
    BY <2>2, <2>5
  <2> QED
    BY <2>3, <2>4, <2>5
<1>3. next \in SequenceNumbers
  BY <1>1
<1>4. left \in SUBSET Datagrams /\ left \subseteq c.unacknowledged_packets
  BY ConnectionFields
<1>5. ProcessIncomingHeader(c, m) =
        [c EXCEPT !.unacknowledged_packets = left,
                  !.highest_received_sequence = next,
                  !.received_sequence_bitfield = window]
  BY DEF ProcessIncomingHeader
<1> HIDE DEF left, next, window
<1>6. ProcessIncomingHeader(c, m) \in Connections
  BY <1>2, <1>3, <1>4, <1>5 DEF Connections
<1> QED
  BY <1>4, <1>5, <1>6 DEF Connections

\* The connection with its header processed and the key of a handshake adopted.
LEMMA AdoptedType ==
  ASSUME NEW c \in Connections, NEW k \in Keys
  PROVE  LET d == [c EXCEPT !.is_authenticated = TRUE, !.pipeline = k]
         IN  /\ d \in Connections
             /\ d.open = c.open
             /\ d.pipeline = k
             /\ d.pending_pipeline_swap = c.pending_pipeline_swap
             /\ d.pending_queue = c.pending_queue
             /\ d.unacknowledged_packets = c.unacknowledged_packets
  BY DEF Connections

LEMMA ReliableAmongType ==
  ASSUME NEW queue, NEW n \in Nat
  PROVE  ReliableAmong(queue, n) \in Nat
<1> DEFINE R == {i \in 1 .. n : queue[i].kind \in ReliableKinds}
<1>1. IsFiniteSet(1 .. n)
  BY FS_Interval
<1>2. IsFiniteSet(R)
  BY <1>1, FS_Subset, R \subseteq 1 .. n
<1>3. Cardinality(R) \in Nat
  BY <1>2, FS_CardinalityType
<1> QED
  BY <1>3 DEF ReliableAmong

LEMMA NextNumberType ==
  ASSUME NEW c \in Connections, NEW n \in Nat
  PROVE  WrappingAdd(c.next_outgoing_sequence, ReliableAmong(c.pending_queue, n))
           \in SequenceNumbers
<1>1. c.next_outgoing_sequence \in Int
  BY ConnectionFields, NumbersAreInts
<1>2. ReliableAmong(c.pending_queue, n) \in Int
  BY ReliableAmongType
<1> QED
  BY <1>1, <1>2, WrappingTypes

\* The datagram of an entry of the queue: its kind, key and destination.
LEMMA WireType ==
  ASSUME NEW e \in Endpoints, NEW c \in Connections, NEW i \in DOMAIN c.pending_queue
  PROVE  /\ Wire(e, c, i) \in Datagrams
         /\ Wire(e, c, i).to = Peer(e)
         /\ Wire(e, c, i).kind = c.pending_queue[i].kind
         /\ Wire(e, c, i).key = c.pipeline
         /\ Wire(e, c, i).session_key = c.pending_queue[i].session_key
<1> DEFINE send == c.pending_queue[i]
           number == WrappingAdd(c.next_outgoing_sequence, ReliableAmong(c.pending_queue, i - 1))
           reliable == send.kind \in ReliableKinds
           s == IF reliable THEN number ELSE 0
           a == IF reliable THEN c.highest_received_sequence ELSE 0
           f == IF reliable THEN c.received_sequence_bitfield ELSE {}
<1>1. i \in Nat \ {0} /\ send \in Sends
  BY ConnectionFields
<1>2. i - 1 \in Nat
  BY <1>1
<1>3. number \in SequenceNumbers
  BY <1>2, NextNumberType
<1>4. s \in SequenceNumbers /\ a \in SequenceNumbers /\ f \in Bitfields
  <2>1. {} \in Bitfields
    BY DEF Bitfields
  <2> QED
    BY <1>3, <2>1, ConnectionFields, NumbersAreInts
<1>5. Wire(e, c, i) =
        [to |-> Peer(e), kind |-> send.kind, key |-> c.pipeline, sequence |-> s,
         ack |-> a, ack_bitfield |-> f, session_key |-> send.session_key]
  BY DEF Wire
<1>6. /\ Peer(e) \in Endpoints /\ send.kind \in Kinds
      /\ c.pipeline \in Keys \cup {NoKey} /\ send.session_key \in Keys \cup {NoKey}
  BY <1>1, SendFields, ConnectionFields DEF Peer, Endpoints
<1> HIDE DEF s, a, f
<1>7. Wire(e, c, i) \in Datagrams
  BY <1>4, <1>5, <1>6 DEF Datagrams
<1> QED
  BY <1>5, <1>7

LEMMA DrainedType ==
  ASSUME NEW e \in Endpoints, NEW c \in Connections
  PROVE  /\ Drained(e, c) \subseteq Datagrams
         /\ \A m \in Drained(e, c) :
              /\ m.to = Peer(e)
              /\ m.key = c.pipeline
              /\ \E i \in DOMAIN c.pending_queue :
                   /\ m.kind = c.pending_queue[i].kind
                   /\ m.session_key = c.pending_queue[i].session_key
  BY WireType DEF Drained

\* update: what it leaves of the connection.
LEMMA FlushedType ==
  ASSUME NEW e \in Endpoints, NEW c \in Connections
  PROVE  /\ Flushed(e, c) \in Connections
         /\ Flushed(e, c).open = c.open
         /\ Flushed(e, c).pending_queue = <<>>
         /\ Flushed(e, c).pending_pipeline_swap = NoKey
         /\ Flushed(e, c).pipeline =
              IF c.pending_pipeline_swap = NoKey THEN c.pipeline
              ELSE c.pending_pipeline_swap
         /\ Flushed(e, c).unacknowledged_packets =
              c.unacknowledged_packets
                \cup {m \in Drained(e, c) : m.kind \in ReliableKinds}
<1> DEFINE n == WrappingAdd(c.next_outgoing_sequence,
                            ReliableAmong(c.pending_queue, Len(c.pending_queue)))
           u == c.unacknowledged_packets
                  \cup {m \in Drained(e, c) : m.kind \in ReliableKinds}
           p == IF c.pending_pipeline_swap = NoKey THEN c.pipeline
                ELSE c.pending_pipeline_swap
           q == <<>>
<1>1. Len(c.pending_queue) \in Nat
  BY ConnectionFields
<1>2. n \in SequenceNumbers
  BY <1>1, NextNumberType
<1>3. NoKey \in Keys \cup {NoKey}
  OBVIOUS
<1>4. u \in SUBSET Datagrams
  BY ConnectionFields, DrainedType
<1>5. p \in Keys
  BY ConnectionFields
<1>6. q \in Seq(Sends)
  OBVIOUS
<1>7. u = c.unacknowledged_packets
              \cup {m \in Drained(e, c) : m.kind \in ReliableKinds}
  OBVIOUS
<1>8. Flushed(e, c) =
        [c EXCEPT !.pending_queue = q, !.next_outgoing_sequence = n,
                  !.unacknowledged_packets = u, !.pipeline = p,
                  !.pending_pipeline_swap = NoKey]
  BY DEF Flushed
<1>9. q = <<>> /\ p = IF c.pending_pipeline_swap = NoKey THEN c.pipeline
                      ELSE c.pending_pipeline_swap
  OBVIOUS
<1> HIDE DEF n, u, p, q
<1>10. Flushed(e, c) \in Connections
  BY <1>2, <1>3, <1>4, <1>5, <1>6, <1>8 DEF Connections
<1> QED
  BY <1>7, <1>8, <1>9, <1>10 DEF Connections

-------------------------------------------------------------------------------
(* What the steps do to the invariant. *)

LEMMA EndpointTypes ==
  ASSUME TypeOK
  PROVE  /\ conn["client"] \in Connections /\ conn["server"] \in Connections
         /\ \A e \in Endpoints : e = "client" \/ e = "server"
  BY DEF TypeOK, Endpoints

LEMMA InitIInv == Init => IInv
<1> SUFFICES ASSUME Init PROVE IInv
  OBVIOUS
<1>1. conn["client"] = NoConnection /\ conn["server"] = NoConnection
  BY DEF Init, Endpoints
<1>2. /\ NoConnection.pending_queue = <<>> /\ NoConnection.pending_pipeline_swap = NoKey
      /\ NoConnection.unacknowledged_packets = {} /\ NoConnection.pipeline = PocKey
      /\ ~NoConnection.open
  BY DEF NoConnection
<1>3. Handshakes = {}
  BY <1>1, <1>2 DEF Init, Handshakes
<1>4. TypeOK
  <2>1. conn \in [Endpoints -> Connections]
    BY NewConnectionType DEF Init
  <2>2. 0 \in 0 .. MaxPings /\ 0 \in 0 .. MaxLosses /\ 0 \in 0 .. MaxFaults
    BY KeyAssumption
  <2> QED
    BY <2>1, <2>2 DEF Init, TypeOK
<1>5. ConnectionsInOrder
  BY <1>1, <1>2 DEF Init, ConnectionsInOrder, Endpoints
<1>6. DatagramsInOrder
  BY <1>1, <1>2, <1>3 DEF Init, DatagramsInOrder
<1>7. HandshakeReadable /\ OneKeyOnly /\ ClientNotAhead
  BY <1>1, <1>2, <1>3 DEF Init, HandshakeReadable, OneKeyOnly, ClientNotAhead
<1>8. KeysCarried
  BY <1>1, <1>2 DEF Init, KeysCarried, CarryKeys, Endpoints
<1>9. dismissed = FALSE
  BY DEF Init
<1> QED
  BY <1>4, <1>5, <1>6, <1>7, <1>8, <1>9 DEF IInv, InSession

\* The client handles a packet that is no Disconnect: only a handshake it can read moves it to another
\* key, the one of the handshake.
LEMMA ClientReceives ==
  ASSUME InSession, NEW m \in network, NEW d \in Connections,
         conn' = [conn EXCEPT !["client"] = d],
         d.open,
         d.pending_queue = conn["client"].pending_queue,
         d.pending_pipeline_swap = conn["client"].pending_pipeline_swap,
         d.unacknowledged_packets \subseteq conn["client"].unacknowledged_packets,
         \/ d.pipeline = conn["client"].pipeline
         \/ m.kind = "Handshake" /\ d.pipeline = m.session_key,
         network' \subseteq network, UNCHANGED bounds,
         synced' \in BOOLEAN, heard' \in BOOLEAN, dismissed' = FALSE
  PROVE  InSession' /\ Handshakes' \subseteq Handshakes
<1> USE DEF InSession
<1>1. conn'["client"] = d /\ conn'["server"] = conn["server"]
  BY DEF TypeOK, Endpoints
<1>2. Handshakes' \subseteq Handshakes
  BY <1>1 DEF Handshakes
<1>3. TypeOK'
  <2>1. conn' \in [Endpoints -> Connections]
    BY DEF TypeOK
  <2> QED
    BY <2>1 DEF TypeOK, bounds
<1>4. ConnectionsInOrder'
  BY <1>1 DEF ConnectionsInOrder, Endpoints
<1>5. DatagramsInOrder'
  BY <1>1, <1>2 DEF DatagramsInOrder, bounds
<1>6. HandshakeReadable'
  BY <1>2 DEF HandshakeReadable
<1>7. m.kind = "Handshake" => m \in Handshakes
  BY DEF Handshakes
<1>8. OneKeyOnly'
  BY <1>1, <1>2, <1>7 DEF OneKeyOnly, bounds
<1>9. ClientNotAhead'
  BY <1>1, <1>7 DEF ClientNotAhead, OneKeyOnly, bounds
<1> QED
  BY <1>2, <1>3, <1>4, <1>5, <1>6, <1>8, <1>9

\* The server handles a packet, in the entry it has or in a new one.
LEMMA ServerReceives ==
  ASSUME InSession, NEW m \in network, NEW k \in SessionKeys, NEW d \in Connections,
         conn' = [conn EXCEPT !["server"] = d],
         d.open,
         d.pipeline = Entry("server", k).pipeline,
         d.pending_queue = Entry("server", k).pending_queue,
         d.pending_pipeline_swap = Entry("server", k).pending_pipeline_swap,
         d.unacknowledged_packets \subseteq Entry("server", k).unacknowledged_packets,
         network' \subseteq network, UNCHANGED bounds,
         synced' \in BOOLEAN, heard' \in BOOLEAN, dismissed' = FALSE
  PROVE  InSession' /\ Handshakes' \subseteq Handshakes
<1> USE DEF InSession
<1>1. conn'["server"] = d /\ conn'["client"] = conn["client"]
  BY DEF TypeOK, Endpoints
<1>2. conn["client"].open
  BY DEF ConnectionsInOrder
<1>3. TypeOK'
  <2>1. conn' \in [Endpoints -> Connections]
    BY DEF TypeOK
  <2> QED
    BY <2>1 DEF TypeOK, bounds
<1>4. CASE conn["server"].open
  <2>1. Entry("server", k) = conn["server"]
    BY <1>4 DEF Entry
  <2>2. /\ d.pipeline = conn["server"].pipeline
        /\ d.pending_queue = conn["server"].pending_queue
        /\ d.pending_pipeline_swap = conn["server"].pending_pipeline_swap
        /\ d.unacknowledged_packets \subseteq conn["server"].unacknowledged_packets
    BY <2>1
  <2>3. Handshakes' \subseteq Handshakes
    BY <1>1, <2>2 DEF Handshakes
  <2>4. ConnectionsInOrder'
    BY <1>1, <1>2, <2>2 DEF ConnectionsInOrder, Endpoints
  <2>5. DatagramsInOrder'
    BY <1>1, <2>2, <2>3 DEF DatagramsInOrder, bounds
  <2>6. HandshakeReadable'
    BY <2>3 DEF HandshakeReadable
  <2>7. OneKeyOnly' /\ ClientNotAhead'
    BY <1>1, <1>4, <2>2, <2>3 DEF OneKeyOnly, ClientNotAhead, bounds
  <2> QED
    BY <1>3, <2>3, <2>4, <2>5, <2>6, <2>7
<1>5. CASE ~conn["server"].open
  <2>1. Entry("server", k) = FirstContact(k)
    BY <1>5 DEF Entry
  <2>2. /\ d.pipeline = PocKey
        /\ d.pending_queue = <<[kind |-> "Handshake", session_key |-> k]>>
        /\ d.pending_pipeline_swap = k
        /\ d.unacknowledged_packets = {}
    BY <2>1, FirstContactType
  <2>3. Handshakes' \subseteq Handshakes
    BY <1>1, <2>2 DEF Handshakes
  <2>4. ConnectionsInOrder'
    BY <1>1, <1>2, <2>2 DEF ConnectionsInOrder, Endpoints
  <2>5. DatagramsInOrder'
    BY <1>1, <2>2, <2>3 DEF DatagramsInOrder, bounds
  <2>6. HandshakeReadable'
    BY <2>3 DEF HandshakeReadable
  <2>7. OneKeyOnly' /\ ClientNotAhead'
    BY <1>1, <1>5, <2>2, <2>3 DEF OneKeyOnly, ClientNotAhead, bounds
  <2> QED
    BY <1>3, <2>3, <2>4, <2>5, <2>6, <2>7
<1> QED
  BY <1>4, <1>5

\* The server's entry goes, which is a fault.
LEMMA ServerGone ==
  ASSUME InSession,
         conn' = [conn EXCEPT !["server"] = NoConnection],
         network' \subseteq network, faults' \in 1 .. MaxFaults, faults' >= faults,
         UNCHANGED <<synced, pings, losses>>, heard' \in BOOLEAN, dismissed' = FALSE
  PROVE  InSession' /\ Handshakes' \subseteq Handshakes
<1> USE DEF InSession
<1>1. conn'["server"] = NoConnection /\ conn'["client"] = conn["client"]
  BY DEF TypeOK, Endpoints
<1>2. /\ NoConnection.pending_queue = <<>> /\ NoConnection.pending_pipeline_swap = NoKey
      /\ NoConnection.unacknowledged_packets = {} /\ ~NoConnection.open
  BY DEF NoConnection
<1>3. Handshakes' \subseteq Handshakes
  BY <1>1, <1>2 DEF Handshakes
<1>4. TypeOK'
  <2>1. conn' \in [Endpoints -> Connections]
    BY NewConnectionType DEF TypeOK
  <2>2. faults' \in 0 .. MaxFaults
    BY KeyAssumption
  <2>3. dismissed' \in BOOLEAN
    OBVIOUS
  <2> QED
    BY <2>1, <2>2, <2>3 DEF TypeOK
<1>5. ConnectionsInOrder'
  BY <1>1, <1>2 DEF ConnectionsInOrder, Endpoints
<1>6. DatagramsInOrder'
  BY <1>1, <1>2, <1>3 DEF DatagramsInOrder
<1>7. HandshakeReadable'
  BY <1>3 DEF HandshakeReadable
<1>8. OneKeyOnly' /\ ClientNotAhead'
  BY DEF OneKeyOnly, ClientNotAhead
<1> QED
  BY <1>3, <1>4, <1>5, <1>6, <1>7, <1>8

\* The environment adds a goodbye or takes a datagram away.
LEMMA NetworkChanges ==
  ASSUME InSession, conn["client"].open, UNCHANGED <<conn, app>>,
         network' \subseteq Datagrams,
         \A m \in network' \ network : m.kind = "Disconnect" /\ faults' > 0,
         pings' \in 0 .. MaxPings, losses' \in 0 .. MaxLosses,
         faults' \in 0 .. MaxFaults, faults' >= faults
  PROVE  InSession' /\ Handshakes' \subseteq Handshakes
<1> USE DEF InSession
<1>1. Handshakes' \subseteq Handshakes
  BY DEF Handshakes
<1>2. TypeOK'
  BY DEF TypeOK, app
<1>3. ConnectionsInOrder'
  BY DEF ConnectionsInOrder
<1>4. faults \in Nat /\ faults' \in Nat
  BY KeyAssumption DEF TypeOK
<1>5. \A m \in network' : m.kind = "Disconnect" => faults' > 0
  BY <1>4 DEF DatagramsInOrder
<1>6. DatagramsInOrder'
  BY <1>1, <1>5 DEF DatagramsInOrder
<1>7. HandshakeReadable'
  BY <1>1 DEF HandshakeReadable
<1>8. OneKeyOnly' /\ ClientNotAhead'
  BY <1>1, <1>4 DEF OneKeyOnly, ClientNotAhead
<1> QED
  BY <1>1, <1>2, <1>3, <1>6, <1>7, <1>8 DEF app

\* A pass of the client's loop: what it has queued is sent in the open, and
\* nothing of it is a handshake.
LEMMA ClientFlushes ==
  ASSUME InSession, NEW c \in Connections,
         NEW overdue \in SUBSET conn["client"].unacknowledged_packets,
         FlushAll("client", c, overdue),
         c = conn["client"] \/ c.open,
         c.pipeline = conn["client"].pipeline,
         c.pending_pipeline_swap = conn["client"].pending_pipeline_swap,
         c.unacknowledged_packets = conn["client"].unacknowledged_packets,
         \A i \in DOMAIN c.pending_queue : c.pending_queue[i].kind \in {"Ping", "Input"},
         pings' \in 0 .. MaxPings, UNCHANGED <<app, losses, faults>>
  PROVE  InSession' /\ Handshakes' = Handshakes
<1> USE DEF InSession
<1> DEFINE d == IF c.open THEN Flushed("client", c) ELSE c
           sent == IF c.open THEN Drained("client", c) ELSE {}
<1>1. "client" \in Endpoints /\ conn["client"] \in Connections /\ Peer("client") = "server"
  BY EndpointTypes DEF Endpoints, Peer
<1>2. /\ conn' = [conn EXCEPT !["client"] = d]
      /\ network' = network \cup overdue \cup sent
  BY DEF FlushAll
<1>3. /\ d \in Connections
      /\ d.open \/ (d = conn["client"] /\ sent = {})
      /\ d.pending_queue = <<>> /\ d.pending_pipeline_swap = NoKey
      /\ d.pipeline = conn["client"].pipeline
      /\ \A m \in d.unacknowledged_packets : m.kind = "Ping"
  <2>1. CASE c.open
    <3>1. d = Flushed("client", c)
      BY <2>1
    <3>2. \A m \in Drained("client", c) : m.kind \in {"Ping", "Input"}
      BY <1>1, DrainedType
    <3>3. \A m \in d.unacknowledged_packets : m.kind = "Ping"
      BY <1>1, <3>1, <3>2, FlushedType DEF DatagramsInOrder, ReliableKinds
    <3>4. c.pending_pipeline_swap = NoKey
      BY DEF ConnectionsInOrder
    <3> QED
      BY <1>1, <2>1, <3>1, <3>3, <3>4, FlushedType
  <2>2. CASE ~c.open
    BY <1>1, <2>2 DEF ConnectionsInOrder, DatagramsInOrder
  <2> QED
    BY <2>1, <2>2
<1>4. /\ sent \subseteq Datagrams
      /\ \A m \in sent : m.kind \in {"Ping", "Input"}
  BY <1>1, DrainedType
<1>5. /\ overdue \subseteq Datagrams
      /\ \A m \in overdue : m.kind = "Ping"
  BY <1>1, ConnectionFields DEF DatagramsInOrder
<1> HIDE DEF d, sent
<1>6. conn'["client"] = d /\ conn'["server"] = conn["server"]
  BY <1>2 DEF TypeOK, Endpoints
<1>7. Handshakes' = Handshakes
  BY <1>2, <1>4, <1>5, <1>6 DEF Handshakes
<1>8. TypeOK'
  <2>1. conn' \in [Endpoints -> Connections]
    BY <1>2, <1>3 DEF TypeOK
  <2>2. network' \in SUBSET Datagrams
    BY <1>2, <1>4, <1>5 DEF TypeOK
  <2> QED
    BY <2>1, <2>2 DEF TypeOK, app
<1>9. ConnectionsInOrder'
  <2>1. CASE d.open
    BY <1>3, <1>6, <2>1 DEF ConnectionsInOrder, Endpoints
  <2>2. CASE ~d.open
    <3>1. conn["client"] = NoConnection /\ overdue = {} /\ sent = {}
      BY <1>3, <2>2 DEF ConnectionsInOrder, NoConnection, Endpoints
    <3>2. network' = network
      BY <1>2, <3>1
    <3> QED
      BY <1>3, <1>6, <2>2, <3>2 DEF ConnectionsInOrder, Endpoints
  <2> QED
    BY <2>1, <2>2
<1>10. \A m \in network' : m.kind = "Disconnect" => faults > 0
  BY <1>2, <1>4, <1>5 DEF DatagramsInOrder
<1>11. DatagramsInOrder'
  BY <1>3, <1>6, <1>7, <1>10 DEF DatagramsInOrder
<1>12. HandshakeReadable'
  BY <1>7 DEF HandshakeReadable
<1>13. OneKeyOnly' /\ ClientNotAhead'
  BY <1>3, <1>6, <1>7 DEF OneKeyOnly, ClientNotAhead
<1> QED
  BY <1>7, <1>8, <1>9, <1>11, <1>12, <1>13 DEF app

\* The client's queue in a pass: what it had, which is nothing, and the new sends.
LEMMA ClientQueues ==
  ASSUME InSession, NEW s \in Sends, s.kind \in {"Ping", "Input"},
         NEW c \in Connections,
         c = conn["client"] \/ c.open,
         c.pipeline = conn["client"].pipeline,
         c.pending_pipeline_swap = conn["client"].pending_pipeline_swap,
         c.unacknowledged_packets = conn["client"].unacknowledged_packets,
         \A i \in DOMAIN c.pending_queue : c.pending_queue[i].kind \in {"Ping", "Input"}
  PROVE  LET d == SendTo(c, s)
         IN  /\ d \in Connections
             /\ d.open
             /\ d.pipeline = conn["client"].pipeline
             /\ d.pending_pipeline_swap = conn["client"].pending_pipeline_swap
             /\ d.unacknowledged_packets = conn["client"].unacknowledged_packets
             /\ \A i \in DOMAIN d.pending_queue :
                  d.pending_queue[i].kind \in {"Ping", "Input"}
<1> USE DEF InSession
<1> DEFINE d == SendTo(c, s)
           b == IF c.open THEN c ELSE NewConnection
<1>1. b \in Connections /\ d \in Connections /\ d.open
  BY SendToType, NewConnectionType
<1>2. d = [b EXCEPT !.pending_queue = Append(b.pending_queue, s)]
  BY DEF SendTo, QueuePendingSend
<1>3. /\ b.pipeline = conn["client"].pipeline
      /\ b.pending_pipeline_swap = conn["client"].pending_pipeline_swap
      /\ b.unacknowledged_packets = conn["client"].unacknowledged_packets
      /\ \A i \in DOMAIN b.pending_queue : b.pending_queue[i].kind \in {"Ping", "Input"}
  <2>1. CASE c.open
    BY <2>1
  <2>2. CASE ~c.open
    <3>1. b = NewConnection
      BY <2>2
    <3>2. conn["client"] = NoConnection
      BY <2>2 DEF ConnectionsInOrder, Endpoints
    <3>3. b.pending_queue = <<>>
      BY <3>1 DEF NewConnection, NoConnection
    <3> QED
      BY <3>1, <3>2, <3>3 DEF NewConnection, NoConnection
  <2> QED
    BY <2>1, <2>2
<1> HIDE DEF b
<1>4. b.pending_queue \in Seq(Sends)
  BY <1>1, ConnectionFields
<1>5. /\ d.pipeline = b.pipeline
      /\ d.pending_pipeline_swap = b.pending_pipeline_swap
      /\ d.unacknowledged_packets = b.unacknowledged_packets
      /\ d.pending_queue = Append(b.pending_queue, s)
  BY <1>1, <1>2 DEF Connections
<1>6. \A i \in DOMAIN Append(b.pending_queue, s) :
        Append(b.pending_queue, s)[i].kind \in {"Ping", "Input"}
  BY <1>3, <1>4
<1> QED
  BY <1>1, <1>3, <1>5, <1>6

\* A tick of the server: it sends the snapshot and, after a first contact, the
\* handshake before it, both under the old pipeline, and then changes pipelines.
LEMMA ServerFlushes ==
  ASSUME InSession, NEW c \in Connections,
         NEW overdue \in SUBSET conn["server"].unacknowledged_packets,
         FlushAll("server", c, overdue),
         c.open = conn["server"].open,
         ~c.open => c = conn["server"],
         c.pipeline = conn["server"].pipeline,
         c.pending_pipeline_swap = conn["server"].pending_pipeline_swap,
         c.unacknowledged_packets = conn["server"].unacknowledged_packets,
         \A i \in DOMAIN c.pending_queue :
           \/ c.pending_queue[i].kind = "Snapshot"
           \/ /\ c.pending_queue[i].kind = "Handshake"
              /\ c.pending_queue[i].session_key = c.pending_pipeline_swap
              /\ c.pending_pipeline_swap \in SessionKeys
              /\ c.pipeline = PocKey,
         heard' \in BOOLEAN, UNCHANGED <<synced, dismissed, bounds>>
  PROVE  /\ InSession'
         /\ \A m \in Handshakes' :
              \/ m \in Handshakes
              \/ /\ m.session_key = c.pending_pipeline_swap
                 /\ c.pending_pipeline_swap \in SessionKeys
<1> USE DEF InSession
<1> DEFINE d == IF c.open THEN Flushed("server", c) ELSE c
           sent == IF c.open THEN Drained("server", c) ELSE {}
<1>1. "server" \in Endpoints /\ conn["server"] \in Connections /\ Peer("server") = "client"
  BY EndpointTypes DEF Endpoints, Peer
<1>2. /\ conn' = [conn EXCEPT !["server"] = d]
      /\ network' = network \cup overdue \cup sent
  BY DEF FlushAll
<1>3. /\ sent \subseteq Datagrams
      /\ \A m \in sent :
           /\ m.to = "client"
           /\ m.kind = "Snapshot" \/ m.kind = "Handshake"
           /\ m.kind = "Handshake" =>
                /\ m.key = PocKey
                /\ m.session_key = c.pending_pipeline_swap
                /\ m.session_key \in SessionKeys
  BY <1>1, DrainedType
<1>4. /\ d \in Connections
      /\ d.open = c.open
      /\ ~d.open => d = conn["server"] /\ sent = {}
      /\ d.pending_queue = <<>> /\ d.pending_pipeline_swap = NoKey
      /\ d.pipeline = IF c.pending_pipeline_swap = NoKey THEN c.pipeline
                      ELSE c.pending_pipeline_swap
      /\ d.unacknowledged_packets \subseteq conn["server"].unacknowledged_packets \cup sent
      /\ \A m \in d.unacknowledged_packets : m.kind = "Handshake"
  <2>1. CASE c.open
    <3>1. d = Flushed("server", c) /\ sent = Drained("server", c)
      BY <2>1
    <3>2. \A m \in d.unacknowledged_packets : m.kind = "Handshake"
      BY <1>1, <1>3, <3>1, FlushedType DEF DatagramsInOrder, ReliableKinds
    <3>3. d.unacknowledged_packets \subseteq conn["server"].unacknowledged_packets \cup sent
      BY <1>1, <3>1, FlushedType
    <3> QED
      BY <1>1, <2>1, <3>1, <3>2, <3>3, FlushedType
  <2>2. CASE ~c.open
    <3>1. c = NoConnection /\ d = c /\ sent = {}
      BY <1>1, <2>2 DEF ConnectionsInOrder
    <3> QED
      BY <1>1, <2>2, <3>1 DEF NoConnection
  <2> QED
    BY <2>1, <2>2
<1>5. overdue \subseteq Datagrams
  BY <1>1, ConnectionFields
<1> HIDE DEF d, sent
<1>6. conn'["server"] = d /\ conn'["client"] = conn["client"]
  BY <1>2 DEF TypeOK, Endpoints
<1>7. overdue \subseteq Handshakes
  BY DEF Handshakes, DatagramsInOrder
<1>8. \A m \in Handshakes' : m \in Handshakes \/ (m \in sent /\ m.kind = "Handshake")
  BY <1>2, <1>4, <1>6, <1>7 DEF Handshakes
<1>9. TypeOK'
  <2>1. conn' \in [Endpoints -> Connections]
    BY <1>2, <1>4 DEF TypeOK
  <2>2. network' \in SUBSET Datagrams
    BY <1>2, <1>3, <1>5 DEF TypeOK
  <2> QED
    BY <2>1, <2>2 DEF TypeOK, bounds
<1>10. ConnectionsInOrder'
  <2>1. CASE d.open
    <3>1. conn["client"].open
      BY <1>4, <2>1 DEF ConnectionsInOrder
    <3> QED
      BY <1>4, <1>6, <2>1, <3>1 DEF ConnectionsInOrder, Endpoints
  <2>2. CASE ~d.open
    <3>1. ~conn["server"].open /\ sent = {}
      BY <1>4, <2>2
    <3>2. conn["server"] = NoConnection
      BY <1>1, <3>1 DEF ConnectionsInOrder
    <3>3. overdue = {}
      BY <3>2 DEF NoConnection
    <3>4. network' = network
      BY <1>2, <3>1, <3>3
    <3> QED
      BY <1>4, <1>6, <2>2, <3>4 DEF ConnectionsInOrder, Endpoints
  <2> QED
    BY <2>1, <2>2
<1>11. \A m \in network' : m.kind = "Disconnect" => faults > 0
  BY <1>2, <1>3, <1>7 DEF DatagramsInOrder, Handshakes
<1>12. \A m \in Handshakes' : m.to = "client" /\ m.session_key \in SessionKeys
  BY <1>3, <1>8 DEF DatagramsInOrder
<1>13. DatagramsInOrder'
  BY <1>4, <1>6, <1>11, <1>12 DEF DatagramsInOrder, bounds
<1>14. HandshakeReadable'
  BY <1>3, <1>8 DEF HandshakeReadable
<1>15. faults = 0 =>
         /\ \A m \in Handshakes' : m.session_key = d.pipeline
         /\ conn["client"].pipeline = PocKey \/ conn["client"].pipeline = d.pipeline
         /\ ~d.open => Handshakes' = {} /\ conn["client"].pipeline = PocKey
  <2> SUFFICES ASSUME faults = 0
               PROVE  /\ \A m \in Handshakes' : m.session_key = d.pipeline
                      /\ \/ conn["client"].pipeline = PocKey
                         \/ conn["client"].pipeline = d.pipeline
                      /\ ~d.open => Handshakes' = {} /\ conn["client"].pipeline = PocKey
    OBVIOUS
  <2>1. CASE c.pending_pipeline_swap = NoKey
    <3>1. d.pipeline = conn["server"].pipeline
      BY <1>4, <2>1
    <3>2. \A m \in sent : m.kind # "Handshake"
      BY <1>3, <2>1, KeysApart
    <3>3. Handshakes' \subseteq Handshakes
      BY <1>8, <3>2
    <3> QED
      BY <1>4, <3>1, <3>3 DEF OneKeyOnly, ClientNotAhead
  <2>2. CASE c.pending_pipeline_swap # NoKey
    <3>1. Handshakes = {} /\ conn["client"].pipeline = PocKey
      BY <2>2 DEF OneKeyOnly
    <3>2. d.pipeline = c.pending_pipeline_swap
      BY <1>4, <2>2
    <3>3. \A m \in Handshakes' : m.session_key = d.pipeline
      BY <1>3, <1>8, <3>1, <3>2
    <3>4. ~d.open => Handshakes' = {}
      BY <1>4, <1>8, <3>1
    <3> QED
      BY <3>1, <3>3, <3>4
  <2> QED
    BY <2>1, <2>2
<1>16. OneKeyOnly' /\ ClientNotAhead'
  BY <1>4, <1>6, <1>15 DEF OneKeyOnly, ClientNotAhead, bounds
<1> QED
  BY <1>3, <1>8, <1>9, <1>10, <1>13, <1>14, <1>16

\* The first entry of a queue is among the datagrams it is drained into.
LEMMA QueueHeadSent ==
  ASSUME NEW e \in Endpoints, NEW c \in Connections, NEW h \in Sends, NEW s \in Sends,
         c.pending_queue = Append(<<h>>, s)
  PROVE  \E m \in Drained(e, c) : m.kind = h.kind /\ m.session_key = h.session_key
<1>1. 1 \in DOMAIN c.pending_queue /\ c.pending_queue[1] = h
  OBVIOUS
<1>2. /\ Wire(e, c, 1).kind = h.kind
      /\ Wire(e, c, 1).session_key = h.session_key
  BY <1>1, WireType
<1> QED
  BY <1>1, <1>2 DEF Drained

-------------------------------------------------------------------------------
(* The steps. *)

\* What a step does to the keys.  Nothing, or the server goes back to the key every
\* connection starts with; handshakes may get lost.
Withdraws ==
  /\ Handshakes' \subseteq Handshakes
  /\ conn'["client"].pipeline = conn["client"].pipeline
  /\ conn'["server"].pipeline \in {conn["server"].pipeline, PocKey}

\* The client, on the first key, takes the one of a handshake.
Adopts ==
  /\ Handshakes' \subseteq Handshakes
  /\ conn["client"].pipeline = PocKey
  /\ \E m \in Handshakes : conn'["client"].pipeline = m.session_key
  /\ conn'["server"].pipeline = conn["server"].pipeline

\* The server, on the first key, takes another and sends the handshake with it.
Serves ==
  /\ conn'["client"].pipeline = conn["client"].pipeline
  /\ conn["server"].pipeline = PocKey
  /\ conn'["server"].pipeline \in SessionKeys
  /\ Handshakes \subseteq Handshakes'
  /\ \A m \in Handshakes' :
       m \in Handshakes \/ m.session_key = conn'["server"].pipeline
  /\ \E m \in Handshakes' : m.session_key = conn'["server"].pipeline

\* handle_packet at the client, which has an entry for whoever writes to it.
LEMMA ClientHandles ==
  ASSUME InSession, NEW m \in network,
         \/ AdoptSessionKey("client", m) \/ DeliverReliable("client", m)
         \/ DropReliable("client", m) \/ ReceiveUnreliable("client", m)
         \/ ReceiveDisconnect("client", m),
         dismissed' = FALSE
  PROVE  InSession' /\ (Withdraws \/ Adopts)
<1> USE DEF InSession
<1> DEFINE c == conn["client"]
           p == ProcessIncomingHeader(c, m)
<1>1. c \in Connections /\ m \in Datagrams /\ c.open
  BY EndpointTypes DEF TypeOK, ConnectionsInOrder
<1>2. \A k : Entry("client", k) = c
  BY <1>1 DEF Entry
<1>3. /\ p \in Connections /\ p.open /\ p.pipeline = c.pipeline
      /\ p.pending_pipeline_swap = c.pending_pipeline_swap
      /\ p.pending_queue = c.pending_queue
      /\ p.unacknowledged_packets \subseteq c.unacknowledged_packets
  BY <1>1, ProcessedType
<1>4. m.to = "client" /\ network' \subseteq network /\ UNCHANGED bounds /\ heard' \in BOOLEAN
  BY DEF Arrives, AdoptSessionKey, DeliverReliable, DropReliable, ReceiveUnreliable,
         ReceiveDisconnect, TypeOK
<1> HIDE DEF p
<1>5. CASE AdoptSessionKey("client", m)
  <2> DEFINE d == [p EXCEPT !.is_authenticated = TRUE, !.pipeline = m.session_key]
  <2>1. /\ m.kind = "Handshake" /\ m.key = c.pipeline
        /\ conn' = [conn EXCEPT !["client"] = d] /\ UNCHANGED synced
    BY <1>2, <1>5 DEF AdoptSessionKey, p
  <2>2. m \in Handshakes
    BY <2>1 DEF Handshakes
  <2>3. c.pipeline = PocKey /\ m.session_key \in Keys
    BY <2>1, <2>2, KeysApart DEF HandshakeReadable, DatagramsInOrder
  <2>4. /\ d \in Connections /\ d.open
        /\ d.pipeline = m.session_key
        /\ d.pending_pipeline_swap = c.pending_pipeline_swap
        /\ d.pending_queue = c.pending_queue
        /\ d.unacknowledged_packets \subseteq c.unacknowledged_packets
    BY <1>3, <2>3, AdoptedType
  <2> HIDE DEF d
  <2>5. synced' \in BOOLEAN
    BY <2>1 DEF TypeOK
  <2>6. InSession' /\ Handshakes' \subseteq Handshakes
    BY <1>4, <2>1, <2>4, <2>5, ClientReceives
  <2>7. conn'["client"] = d /\ conn'["server"] = conn["server"]
    BY <2>1 DEF TypeOK, Endpoints
  <2> QED
    BY <2>2, <2>3, <2>4, <2>6, <2>7 DEF Adopts
<1>6. CASE DeliverReliable("client", m) \/ DropReliable("client", m)
  <2>1. conn' = [conn EXCEPT !["client"] = p] /\ UNCHANGED synced
    BY <1>2, <1>6 DEF DeliverReliable, DropReliable, p
  <2>2. synced' \in BOOLEAN
    BY <2>1 DEF TypeOK
  <2>3. InSession' /\ Handshakes' \subseteq Handshakes
    BY <1>3, <1>4, <2>1, <2>2, ClientReceives
  <2>4. conn'["client"] = p /\ conn'["server"] = conn["server"]
    BY <2>1 DEF TypeOK, Endpoints
  <2> QED
    BY <1>3, <2>3, <2>4 DEF Withdraws
<1>7. CASE ReceiveUnreliable("client", m)
  <2>1. conn' = [conn EXCEPT !["client"] = c] /\ synced' \in BOOLEAN
    BY <1>2, <1>7 DEF ReceiveUnreliable, TypeOK
  <2>2. InSession' /\ Handshakes' \subseteq Handshakes
    BY <1>1, <1>4, <2>1, ClientReceives
  <2>3. conn'["client"] = c /\ conn'["server"] = conn["server"]
    BY <2>1 DEF TypeOK, Endpoints
  <2> QED
    BY <2>2, <2>3 DEF Withdraws
<1>8. CASE ReceiveDisconnect("client", m)
  BY <1>8 DEF ReceiveDisconnect, Arrives
<1> QED
  BY <1>5, <1>6, <1>7, <1>8

\* handle_packet at the server, which no handshake reaches.
LEMMA ServerHandles ==
  ASSUME InSession, NEW m \in network,
         \/ AdoptSessionKey("server", m) \/ DeliverReliable("server", m)
         \/ DropReliable("server", m) \/ ReceiveUnreliable("server", m)
         \/ ReceiveDisconnect("server", m)
  PROVE  InSession' /\ Withdraws
<1> USE DEF InSession
<1>1. conn["server"] \in Connections /\ m \in Datagrams /\ conn["client"].open
  BY EndpointTypes DEF TypeOK, ConnectionsInOrder
<1>2. /\ m.to = "server" /\ network' \subseteq network /\ UNCHANGED bounds
      /\ heard' \in BOOLEAN /\ dismissed' = FALSE
  BY DEF Arrives, AdoptSessionKey, DeliverReliable, DropReliable, ReceiveUnreliable,
         ReceiveDisconnect, TypeOK
<1>3. m.kind # "Handshake"
  BY <1>2 DEF DatagramsInOrder, Handshakes
<1>4. ASSUME NEW k \in SessionKeys
      PROVE  /\ Entry("server", k) \in Connections
             /\ Entry("server", k).open
             /\ Entry("server", k).pipeline \in {conn["server"].pipeline, PocKey}
  BY <1>1, FirstContactType DEF Entry
<1>5. CASE DeliverReliable("server", m) \/ DropReliable("server", m)
  <2>1. PICK k \in SessionKeys :
          conn' = [conn EXCEPT !["server"] = ProcessIncomingHeader(Entry("server", k), m)]
    BY <1>5 DEF DeliverReliable, DropReliable
  <2> DEFINE c == Entry("server", k)
             d == ProcessIncomingHeader(c, m)
  <2>2. c \in Connections /\ c.open /\ c.pipeline \in {conn["server"].pipeline, PocKey}
    BY <1>4
  <2> HIDE DEF c
  <2>3. /\ d \in Connections /\ d.open /\ d.pipeline = c.pipeline
        /\ d.pending_pipeline_swap = c.pending_pipeline_swap
        /\ d.pending_queue = c.pending_queue
        /\ d.unacknowledged_packets \subseteq c.unacknowledged_packets
    BY <1>1, <2>2, ProcessedType
  <2>4. conn' = [conn EXCEPT !["server"] = d]
    BY <2>1 DEF c
  <2> HIDE DEF d
  <2>5. synced' \in BOOLEAN
    BY <1>5 DEF DeliverReliable, DropReliable, TypeOK
  <2>6. InSession' /\ Handshakes' \subseteq Handshakes
    BY <1>2, <2>3, <2>4, <2>5, ServerReceives DEF c
  <2>7. conn'["server"] = d /\ conn'["client"] = conn["client"]
    BY <2>4 DEF TypeOK, Endpoints
  <2> QED
    BY <2>2, <2>3, <2>6, <2>7 DEF Withdraws
<1>6. CASE ReceiveUnreliable("server", m)
  <2>1. PICK k \in SessionKeys : conn' = [conn EXCEPT !["server"] = Entry("server", k)]
    BY <1>6 DEF ReceiveUnreliable
  <2>2. synced' \in BOOLEAN
    BY <1>6 DEF ReceiveUnreliable, TypeOK
  <2>3. InSession' /\ Handshakes' \subseteq Handshakes
    BY <1>2, <1>4, <2>1, <2>2, ServerReceives
  <2>4. conn'["server"] = Entry("server", k) /\ conn'["client"] = conn["client"]
    BY <2>1 DEF TypeOK, Endpoints
  <2> QED
    BY <1>4, <2>3, <2>4 DEF Withdraws
<1>7. CASE ReceiveDisconnect("server", m)
  <2>1. conn' = [conn EXCEPT !["server"] = NoConnection] /\ UNCHANGED synced
    BY <1>7 DEF ReceiveDisconnect
  <2>2. faults' \in 1 .. MaxFaults /\ faults' >= faults
    BY <1>2, <1>7, KeyAssumption DEF ReceiveDisconnect, DatagramsInOrder, TypeOK, bounds
  <2>3. InSession' /\ Handshakes' \subseteq Handshakes
    BY <1>1, <1>2, <2>1, <2>2, ServerGone DEF bounds
  <2>4. conn'["server"] = NoConnection /\ conn'["client"] = conn["client"]
    BY <2>1 DEF TypeOK, Endpoints
  <2> QED
    BY <2>3, <2>4 DEF Withdraws, NoConnection
<1> QED
  BY <1>3, <1>5, <1>6, <1>7 DEF AdoptSessionKey

\* The client's loops only send, so the pipeline stays.
LEMMA ClientSends ==
  ASSUME InSession, NEW overdue \in SUBSET conn["client"].unacknowledged_packets,
         ClientPing(overdue) \/ ClientTick(overdue)
  PROVE  InSession' /\ Withdraws
<1> USE DEF InSession
<1> DEFINE c == conn["client"]
           ping == [kind |-> "Ping", session_key |-> NoKey]
           input == [kind |-> "Input", session_key |-> NoKey]
<1>1. c \in Connections /\ c.pending_queue = <<>> /\ c.pending_pipeline_swap = NoKey
  BY EndpointTypes DEF ConnectionsInOrder
<1>2. /\ ping \in Sends /\ input \in Sends
      /\ ping.kind \in {"Ping", "Input"} /\ input.kind \in {"Ping", "Input"}
  BY DEF Sends, Kinds, ReliableKinds
<1> HIDE DEF ping, input
<1> DEFINE Ready(b) ==
             /\ b \in Connections
             /\ b = c \/ b.open
             /\ b.pipeline = c.pipeline
             /\ b.pending_pipeline_swap = c.pending_pipeline_swap
             /\ b.unacknowledged_packets = c.unacknowledged_packets
             /\ \A i \in DOMAIN b.pending_queue : b.pending_queue[i].kind \in {"Ping", "Input"}
<1>3. Ready(c)
  BY <1>1
<1>4. ASSUME NEW b, Ready(b), NEW s \in {ping, input} PROVE Ready(SendTo(b, s))
  BY <1>2, <1>4, ClientQueues
<1>5. Ready(SendTo(c, ping)) /\ Ready(SendTo(c, input)) /\ Ready(SendTo(SendTo(c, input), input))
  BY <1>3, <1>4
<1>6. PICK b : /\ Ready(b) /\ FlushAll("client", b, overdue)
               /\ pings' \in 0 .. MaxPings /\ UNCHANGED <<app, losses, faults>>
  <2>1. CASE ClientPing(overdue)
    <3>1. FlushAll("client", SendTo(c, ping), overdue)
      BY <2>1 DEF ClientPing, ping
    <3>2. pings' \in 0 .. MaxPings /\ UNCHANGED <<app, losses, faults>>
      BY <2>1, KeyAssumption DEF ClientPing, TypeOK
    <3> QED
      BY <1>5, <3>1, <3>2
  <2>2. CASE ClientTick(overdue)
    <3>1. \/ FlushAll("client", c, overdue)
          \/ FlushAll("client", SendTo(c, input), overdue)
          \/ FlushAll("client", SendTo(SendTo(c, input), input), overdue)
      BY <2>2 DEF ClientTick, input
    <3>2. pings' \in 0 .. MaxPings /\ UNCHANGED <<app, losses, faults>>
      BY <2>2 DEF ClientTick, TypeOK, bounds
    <3> QED
      BY <1>3, <1>5, <3>1, <3>2
  <2> QED
    BY <2>1, <2>2
<1>7. InSession' /\ Handshakes' = Handshakes
  BY <1>6, ClientFlushes
<1>8. /\ conn'["client"] = IF b.open THEN Flushed("client", b) ELSE b
      /\ conn'["server"] = conn["server"]
  BY <1>6 DEF FlushAll, TypeOK, Endpoints
<1>9. conn'["client"].pipeline = c.pipeline
  BY <1>1, <1>6, <1>8, FlushedType DEF Endpoints
<1> QED
  BY <1>7, <1>8, <1>9 DEF Withdraws

\* What is in a queue once a send is appended.
LEMMA Appended ==
  ASSUME NEW queue \in Seq(Sends), NEW s \in Sends
  PROVE  \A i \in DOMAIN Append(queue, s) :
           \/ i \in DOMAIN queue /\ Append(queue, s)[i] = queue[i]
           \/ Append(queue, s)[i] = s
  OBVIOUS

\* A tick of the server.
LEMMA ServerSends ==
  ASSUME InSession, NEW overdue \in SUBSET conn["server"].unacknowledged_packets,
         ServerTick(overdue)
  PROVE  InSession' /\ (Withdraws \/ Serves)
<1> USE DEF InSession
<1> DEFINE c == conn["server"]
           snapshot == [kind |-> "Snapshot", session_key |-> NoKey]
           b == IF c.open THEN SendTo(c, snapshot) ELSE c
<1>1. /\ c \in Connections /\ c.pending_queue \in Seq(Sends)
      /\ FlushAll("server", b, overdue)
      /\ heard' \in BOOLEAN /\ UNCHANGED <<synced, dismissed, bounds>>
  BY EndpointTypes, ConnectionFields DEF ServerTick
<1>2. snapshot \in Sends /\ snapshot.kind = "Snapshot"
  BY DEF Sends, Kinds
<1> HIDE DEF snapshot
<1>3. \A i \in DOMAIN c.pending_queue :
        /\ c.pending_queue[i].kind = "Handshake"
        /\ c.pending_queue[i].session_key = c.pending_pipeline_swap
        /\ c.pending_pipeline_swap \in SessionKeys
        /\ c.pipeline = PocKey
  BY DEF ConnectionsInOrder
<1>4. CASE c.open
  <2>1. /\ b = [c EXCEPT !.pending_queue = Append(c.pending_queue, snapshot)]
        /\ b \in Connections /\ b.open
    BY <1>1, <1>2, <1>4, SendToType
  <2>2. /\ b.pipeline = c.pipeline
        /\ b.pending_pipeline_swap = c.pending_pipeline_swap
        /\ b.unacknowledged_packets = c.unacknowledged_packets
        /\ b.pending_queue = Append(c.pending_queue, snapshot)
    BY <1>1, <2>1 DEF Connections
  <2> HIDE DEF b
  <2>3. \A i \in DOMAIN b.pending_queue :
          \/ i \in DOMAIN c.pending_queue /\ b.pending_queue[i] = c.pending_queue[i]
          \/ b.pending_queue[i] = snapshot
    <3> DEFINE q == c.pending_queue
    <3>1. snapshot \in Sends /\ q \in Seq(Sends) /\ b.pending_queue = Append(q, snapshot)
      BY <1>1, <1>2, <2>2
    <3> HIDE DEF q
    <3>2. \A i \in DOMAIN Append(q, snapshot) :
            \/ i \in DOMAIN q /\ Append(q, snapshot)[i] = q[i]
            \/ Append(q, snapshot)[i] = snapshot
      BY <3>1, Appended
    <3>3. \A i \in DOMAIN b.pending_queue :
            \/ i \in DOMAIN q /\ b.pending_queue[i] = q[i]
            \/ b.pending_queue[i] = snapshot
      BY <3>1, <3>2, Zenon
    <3> QED
      BY <3>3 DEF q
  <2>4. \A i \in DOMAIN b.pending_queue :
          \/ b.pending_queue[i].kind = "Snapshot"
          \/ /\ b.pending_queue[i].kind = "Handshake"
             /\ b.pending_queue[i].session_key = b.pending_pipeline_swap
             /\ b.pending_pipeline_swap \in SessionKeys
             /\ b.pipeline = PocKey
    BY <1>2, <1>3, <2>2, <2>3
  <2>5. /\ InSession'
        /\ \A m \in Handshakes' :
             \/ m \in Handshakes
             \/ /\ m.session_key = c.pending_pipeline_swap
                /\ c.pending_pipeline_swap \in SessionKeys
    BY <1>1, <1>4, <2>1, <2>2, <2>4, ServerFlushes
  <2>6. /\ conn'["server"] = Flushed("server", b) /\ conn'["client"] = conn["client"]
        /\ network' = network \cup overdue \cup Drained("server", b)
    BY <1>1, <2>1 DEF FlushAll, TypeOK, Endpoints
  <2> DEFINE f == Flushed("server", b)
  <2>7. /\ f.pipeline = IF b.pending_pipeline_swap = NoKey THEN b.pipeline
                        ELSE b.pending_pipeline_swap
        /\ b.unacknowledged_packets \subseteq f.unacknowledged_packets
    <3>1. "server" \in Endpoints /\ b \in Connections
      BY <2>1 DEF Endpoints
    <3>2. /\ f.pipeline = IF b.pending_pipeline_swap = NoKey THEN b.pipeline
                          ELSE b.pending_pipeline_swap
          /\ f.unacknowledged_packets =
               b.unacknowledged_packets
                 \cup {m \in Drained("server", b) : m.kind \in ReliableKinds}
      BY <3>1, FlushedType
    <3> QED
      BY <3>2
  <2> HIDE DEF f
  <2>8. /\ conn'["server"].pipeline = IF c.pending_pipeline_swap = NoKey THEN c.pipeline
                                      ELSE c.pending_pipeline_swap
        /\ c.unacknowledged_packets \subseteq conn'["server"].unacknowledged_packets
    BY <2>2, <2>6, <2>7 DEF f
  <2>9. CASE c.pending_pipeline_swap = NoKey
    <3>1. Handshakes' \subseteq Handshakes
      BY <2>5, <2>9, KeysApart
    <3> QED
      BY <2>5, <2>6, <2>8, <2>9, <3>1 DEF Withdraws
  <2>10. CASE c.pending_pipeline_swap # NoKey
    <3>1. /\ c.pending_pipeline_swap \in SessionKeys /\ c.pipeline = PocKey
          /\ c.pending_queue =
               <<[kind |-> "Handshake", session_key |-> c.pending_pipeline_swap]>>
      BY <2>10 DEF ConnectionsInOrder
    <3>2. conn'["server"].pipeline = c.pending_pipeline_swap
      BY <2>8, <2>10
    <3>3. Handshakes \subseteq Handshakes'
      BY <2>6, <2>8 DEF Handshakes
    <3> DEFINE h == [kind |-> "Handshake", session_key |-> c.pending_pipeline_swap]
    <3>4. h \in Sends /\ h.kind = "Handshake" /\ h.session_key = c.pending_pipeline_swap
      BY <3>1, KeysApart DEF Sends, Kinds, ReliableKinds
    <3>5. b.pending_queue = Append(<<h>>, snapshot)
      BY <2>2, <3>1
    <3> HIDE DEF h
    <3>6. \E m \in Drained("server", b) : m.kind = h.kind /\ m.session_key = h.session_key
      BY <1>2, <2>1, <3>4, <3>5, QueueHeadSent DEF Endpoints
    <3>7. \E m \in Handshakes' : m.session_key = c.pending_pipeline_swap
      BY <2>6, <3>4, <3>6 DEF Handshakes
    <3> QED
      BY <2>5, <2>6, <3>1, <3>2, <3>3, <3>7 DEF Serves
  <2> QED
    BY <2>5, <2>9, <2>10
<1>5. CASE ~c.open
  <2>1. b = c
    BY <1>5
  <2>2. /\ InSession'
        /\ \A m \in Handshakes' :
             \/ m \in Handshakes
             \/ /\ m.session_key = c.pending_pipeline_swap
                /\ c.pending_pipeline_swap \in SessionKeys
    BY <1>1, <1>3, <1>5, <2>1, ServerFlushes
  <2>3. c.pending_pipeline_swap = NoKey
    BY <1>5 DEF ConnectionsInOrder, NoConnection, Endpoints
  <2>4. conn'["server"] = c /\ conn'["client"] = conn["client"]
    BY <1>1, <1>5, <2>1 DEF FlushAll, TypeOK, Endpoints
  <2> QED
    BY <2>2, <2>3, <2>4, KeysApart DEF Withdraws
<1> QED
  BY <1>4, <1>5

\* The server's entry is evicted or lost in a restart.
LEMMA ServerForgets ==
  ASSUME InSession, ServerEvicts \/ ServerRestarts
  PROVE  InSession' /\ Withdraws
<1> USE DEF InSession
<1>1. /\ conn' = [conn EXCEPT !["server"] = NoConnection]
      /\ network' = network /\ UNCHANGED <<synced, pings, losses>> /\ heard' \in BOOLEAN
      /\ dismissed' = FALSE
      /\ faults < MaxFaults /\ faults' = faults + 1
  BY DEF ServerEvicts, ServerRestarts, app, TypeOK
<1>2. faults' \in 1 .. MaxFaults /\ faults' >= faults
  BY <1>1, KeyAssumption DEF TypeOK
<1>3. conn'["client"] = conn["client"] /\ conn'["server"] = NoConnection
  BY <1>1 DEF TypeOK, Endpoints
<1>4. InSession' /\ Handshakes' \subseteq Handshakes
  BY <1>1, <1>2, ServerGone
<1> QED
  BY <1>3, <1>4 DEF Withdraws, NoConnection

\* A goodbye, or a loss.
LEMMA EnvironmentSteps ==
  ASSUME InSession,
         (\E e \in Endpoints : SendDisconnect(e)) \/ \E m \in network : Lose(m)
  PROVE  InSession' /\ Withdraws
<1> USE DEF InSession
<1>1. CASE \E e \in Endpoints : SendDisconnect(e)
  <2> PICK e \in Endpoints : SendDisconnect(e)
    BY <1>1
  <2> DEFINE bye == [to |-> Peer(e), kind |-> "Disconnect", key |-> NoKey, sequence |-> 0,
                     ack |-> 0, ack_bitfield |-> {}, session_key |-> NoKey]
  <2>1. bye \in Datagrams /\ bye.kind = "Disconnect"
    <3>1. {} \in Bitfields /\ Peer(e) \in Endpoints
      BY DEF Bitfields, Peer, Endpoints
    <3> QED
      BY <3>1, NumbersAreInts DEF Datagrams, Kinds
  <2>2. /\ conn[e].open /\ network' = network \cup {bye}
        /\ faults < MaxFaults /\ faults' = faults + 1
        /\ UNCHANGED <<conn, app, pings, losses>>
    BY DEF SendDisconnect
  <2> HIDE DEF bye
  <2>3. network' \subseteq Datagrams
    BY <2>1, <2>2 DEF TypeOK
  <2>4. faults' \in 1 .. MaxFaults /\ faults' >= faults
    BY <2>2, KeyAssumption DEF TypeOK
  <2>5. \A m \in network' \ network : m.kind = "Disconnect" /\ faults' > 0
    BY <2>1, <2>2, <2>4
  <2>6. conn["client"].open
    BY <2>2 DEF ConnectionsInOrder, Endpoints
  <2>7. pings' \in 0 .. MaxPings /\ losses' \in 0 .. MaxLosses /\ faults' \in 0 .. MaxFaults
    BY <2>2, <2>4, KeyAssumption DEF TypeOK
  <2>8. InSession' /\ Handshakes' \subseteq Handshakes
    BY <2>2, <2>3, <2>4, <2>5, <2>6, <2>7, NetworkChanges
  <2> QED
    BY <2>2, <2>8 DEF Withdraws
<1>2. CASE \E m \in network : Lose(m)
  <2>1. /\ network' \subseteq network /\ network # {}
        /\ losses < MaxLosses /\ losses' = losses + 1
        /\ UNCHANGED <<conn, app, pings, faults>>
    BY <1>2 DEF Lose
  <2>2. conn["client"].open
    BY <2>1 DEF ConnectionsInOrder
  <2>3. losses' \in 0 .. MaxLosses /\ faults' >= faults
    BY <2>1, KeyAssumption DEF TypeOK
  <2>4. /\ network' \subseteq Datagrams /\ network' \ network = {}
        /\ pings' \in 0 .. MaxPings /\ faults' \in 0 .. MaxFaults
    BY <2>1 DEF TypeOK
  <2>5. InSession' /\ Handshakes' \subseteq Handshakes
    BY <2>1, <2>2, <2>3, <2>4, NetworkChanges
  <2> QED
    BY <2>1, <2>5 DEF Withdraws
<1> QED
  BY <1>1, <1>2

\* As long as no Disconnect has reached the client, every step keeps the invariant,
\* and is one of the three for the keys.
LEMMA Step ==
  InSession /\ [Next]_vars /\ dismissed' = FALSE =>
    InSession' /\ (Withdraws \/ Adopts \/ Serves)
<1> SUFFICES ASSUME InSession, [Next]_vars, dismissed' = FALSE
             PROVE  InSession' /\ (Withdraws \/ Adopts \/ Serves)
  OBVIOUS
<1>1. CASE UNCHANGED vars
  <2>1. InSession'
    BY <1>1 DEF vars, InSession, TypeOK, ConnectionsInOrder, DatagramsInOrder, HandshakeReadable,
                OneKeyOnly, ClientNotAhead, Handshakes
  <2>2. Withdraws
    BY <1>1 DEF vars, Withdraws, Handshakes
  <2> QED
    BY <2>1, <2>2
<1>2. ASSUME NEW m \in network, Receive(m)
      PROVE  InSession' /\ (Withdraws \/ Adopts \/ Serves)
  BY <1>2, ClientHandles, ServerHandles DEF Receive, Endpoints
<1>3. CASE (\E e \in Endpoints : SendDisconnect(e)) \/ \E m \in network : Lose(m)
  BY <1>3, EnvironmentSteps
<1>4. CASE \E overdue \in SUBSET conn["client"].unacknowledged_packets :
             ClientPing(overdue) \/ ClientTick(overdue)
  BY <1>4, ClientSends
<1>5. CASE \E overdue \in SUBSET conn["server"].unacknowledged_packets : ServerTick(overdue)
  BY <1>5, ServerSends
<1>6. CASE ServerEvicts \/ ServerRestarts
  BY <1>6, ServerForgets
<1> QED
  BY <1>1, <1>2, <1>3, <1>4, <1>5, <1>6 DEF Next

-------------------------------------------------------------------------------
(* The types, also after a Disconnect has reached the client. *)

\* A connection of the right type, and what it has to send carries its key.
Sound(c) ==
  /\ c \in Connections
  /\ CarryKeys(c.unacknowledged_packets)
  /\ CarryKeys({c.pending_queue[i] : i \in DOMAIN c.pending_queue})

LEMMA SoundNew ==
  /\ Sound(NoConnection) /\ Sound(NewConnection)
  /\ \A k \in SessionKeys : Sound(FirstContact(k))
<1>1. /\ NoConnection.unacknowledged_packets = {} /\ NoConnection.pending_queue = <<>>
      /\ NewConnection.unacknowledged_packets = {} /\ NewConnection.pending_queue = <<>>
  BY DEF NoConnection, NewConnection
<1>2. Sound(NoConnection) /\ Sound(NewConnection)
  BY <1>1, NewConnectionType DEF Sound, CarryKeys
<1>3. ASSUME NEW k \in SessionKeys PROVE Sound(FirstContact(k))
  <2> DEFINE h == [kind |-> "Handshake", session_key |-> k]
  <2>1. h.session_key \in Keys
    BY KeysApart
  <2> HIDE DEF h
  <2>2. FirstContact(k).pending_queue = <<h>>
    BY FirstContactType DEF h
  <2>3. \A i \in DOMAIN FirstContact(k).pending_queue : FirstContact(k).pending_queue[i] = h
    BY <2>2
  <2> QED
    BY <2>1, <2>3, FirstContactType DEF Sound, CarryKeys
<1> QED
  BY <1>2, <1>3

LEMMA SoundSend ==
  ASSUME NEW c, Sound(c), NEW s \in Sends, s.kind # "Handshake"
  PROVE  Sound(SendTo(c, s))
<1> DEFINE b == IF c.open THEN c ELSE NewConnection
           d == SendTo(c, s)
<1>1. Sound(b) /\ d \in Connections
  <2>1. Sound(b)
    BY SoundNew
  <2>2. c \in Connections
    BY DEF Sound
  <2> QED
    BY <2>1, <2>2, SendToType
<1>2. d = [b EXCEPT !.pending_queue = Append(b.pending_queue, s)]
  BY DEF SendTo, QueuePendingSend
<1> HIDE DEF b, d
<1>3. /\ b \in Connections /\ b.pending_queue \in Seq(Sends)
      /\ d.unacknowledged_packets = b.unacknowledged_packets
      /\ d.pending_queue = Append(b.pending_queue, s)
  BY <1>1, <1>2, ConnectionFields DEF Sound, Connections
<1>4. \A i \in DOMAIN d.pending_queue :
        \/ d.pending_queue[i] = s
        \/ i \in DOMAIN b.pending_queue /\ d.pending_queue[i] = b.pending_queue[i]
  BY <1>3
<1>5. CarryKeys({d.pending_queue[i] : i \in DOMAIN d.pending_queue})
  BY <1>1, <1>4 DEF Sound, CarryKeys
<1>6. Sound(d)
  BY <1>1, <1>3, <1>5 DEF Sound
<1> QED
  BY <1>6 DEF d

LEMMA SoundProcessed ==
  ASSUME NEW c, Sound(c), NEW m \in Datagrams
  PROVE  Sound(ProcessIncomingHeader(c, m))
  BY ProcessedType DEF Sound, CarryKeys

LEMMA SoundAdopted ==
  ASSUME NEW c, Sound(c), NEW k \in Keys
  PROVE  Sound([c EXCEPT !.is_authenticated = TRUE, !.pipeline = k])
<1> DEFINE d == [c EXCEPT !.is_authenticated = TRUE, !.pipeline = k]
<1>1. /\ d \in Connections /\ d.pending_queue = c.pending_queue
      /\ d.unacknowledged_packets = c.unacknowledged_packets
  BY AdoptedType DEF Sound
<1> HIDE DEF d
<1>2. Sound(d)
  BY <1>1 DEF Sound
<1> QED
  BY <1>2 DEF d

LEMMA SoundFlushed ==
  ASSUME NEW e \in Endpoints, NEW c, Sound(c)
  PROVE  /\ Sound(Flushed(e, c))
         /\ Drained(e, c) \subseteq Datagrams /\ CarryKeys(Drained(e, c))
<1>1. c \in Connections
  BY DEF Sound
<1>2. Drained(e, c) \subseteq Datagrams
  BY <1>1, DrainedType
<1>3. CarryKeys(Drained(e, c))
  BY <1>1, DrainedType DEF Sound, CarryKeys
<1>4. CarryKeys(Flushed(e, c).unacknowledged_packets)
  BY <1>1, <1>3, FlushedType DEF Sound, CarryKeys
<1>5. CarryKeys({Flushed(e, c).pending_queue[i] : i \in DOMAIN Flushed(e, c).pending_queue})
  BY <1>1, FlushedType DEF CarryKeys
<1> QED
  BY <1>1, <1>2, <1>3, <1>4, <1>5, FlushedType DEF Sound

\* Between the calls both connections are sound.
LEMMA ConnectionsAreSound ==
  ASSUME TypeOK, KeysCarried
  PROVE  /\ \A e \in Endpoints : Sound(conn[e])
         /\ \A e \in Endpoints, k \in SessionKeys : Sound(Entry(e, k))
         /\ network \subseteq Datagrams /\ CarryKeys(network)
<1>1. \A e \in Endpoints : Sound(conn[e])
  BY DEF TypeOK, KeysCarried, Sound
<1> QED
  BY <1>1, SoundNew DEF Entry, TypeOK, KeysCarried

\* A step changes one connection, and puts nothing on the wire that lacks its key.
LEMMA TypesKept ==
  ASSUME TypeOK, KeysCarried, NEW e \in Endpoints, NEW d, Sound(d),
         conn' = [conn EXCEPT ![e] = d],
         network' \subseteq Datagrams, CarryKeys(network'),
         synced' \in BOOLEAN, heard' \in BOOLEAN, dismissed' \in BOOLEAN,
         pings' \in 0 .. MaxPings, losses' \in 0 .. MaxLosses, faults' \in 0 .. MaxFaults
  PROVE  TypeOK' /\ KeysCarried'
<1>1. conn' \in [Endpoints -> Connections]
  BY DEF TypeOK, Sound
<1>2. \A f \in Endpoints : Sound(conn'[f])
  BY ConnectionsAreSound DEF TypeOK
<1>3. ASSUME NEW f \in Endpoints
      PROVE  /\ CarryKeys(conn'[f].unacknowledged_packets)
             /\ CarryKeys({conn'[f].pending_queue[i] : i \in DOMAIN conn'[f].pending_queue})
  BY <1>2, <1>3 DEF Sound
<1> QED
  BY <1>1, <1>3 DEF TypeOK, KeysCarried, CarryKeys

LEMMA TypesFlushed ==
  ASSUME TypeOK, KeysCarried, NEW e \in Endpoints, NEW c, Sound(c),
         NEW overdue \in SUBSET conn[e].unacknowledged_packets,
         FlushAll(e, c, overdue),
         heard' \in BOOLEAN, pings' \in 0 .. MaxPings,
         UNCHANGED <<synced, dismissed, losses, faults>>
  PROVE  TypeOK' /\ KeysCarried'
<1> DEFINE d == IF c.open THEN Flushed(e, c) ELSE c
           sent == IF c.open THEN Drained(e, c) ELSE {}
<1>1. Sound(d) /\ sent \subseteq Datagrams /\ CarryKeys(sent)
  BY SoundFlushed DEF CarryKeys
<1>2. overdue \subseteq Datagrams /\ CarryKeys(overdue)
  BY ConnectionsAreSound, ConnectionFields DEF Sound, CarryKeys
<1>3. conn' = [conn EXCEPT ![e] = d] /\ network' = network \cup overdue \cup sent
  BY DEF FlushAll
<1> HIDE DEF d, sent
<1>4. network' \subseteq Datagrams /\ CarryKeys(network')
  BY <1>1, <1>2, <1>3, ConnectionsAreSound DEF CarryKeys
<1> QED
  BY <1>1, <1>3, <1>4, TypesKept DEF TypeOK

\* handle_packet keeps the types, at either end.
LEMMA TypesHandled ==
  ASSUME TypeOK, KeysCarried, NEW m \in network, NEW e \in Endpoints,
         \/ AdoptSessionKey(e, m) \/ DeliverReliable(e, m) \/ DropReliable(e, m)
         \/ ReceiveUnreliable(e, m) \/ ReceiveDisconnect(e, m)
  PROVE  TypeOK' /\ KeysCarried'
<1>1. m \in Datagrams /\ (m.kind = "Handshake" => m.session_key \in Keys)
  BY ConnectionsAreSound DEF CarryKeys
<1>2. /\ network' \subseteq network /\ UNCHANGED bounds
      /\ synced' \in BOOLEAN /\ heard' \in BOOLEAN /\ dismissed' \in BOOLEAN
  BY DEF Arrives, AdoptSessionKey, DeliverReliable, DropReliable, ReceiveUnreliable,
         ReceiveDisconnect, TypeOK
<1>3. network' \subseteq Datagrams /\ CarryKeys(network')
  BY <1>2, ConnectionsAreSound DEF CarryKeys
<1>4. /\ pings' \in 0 .. MaxPings /\ losses' \in 0 .. MaxLosses
      /\ faults' \in 0 .. MaxFaults
  BY <1>2 DEF bounds, TypeOK
<1>5. \E d : Sound(d) /\ conn' = [conn EXCEPT ![e] = d]
  <2>1. CASE AdoptSessionKey(e, m)
    <3>1. PICK k \in SessionKeys :
            conn' = [conn EXCEPT ![e] =
                       [ProcessIncomingHeader(Entry(e, k), m) EXCEPT
                          !.is_authenticated = TRUE, !.pipeline = m.session_key]]
      BY <2>1 DEF AdoptSessionKey
    <3>2. Sound(ProcessIncomingHeader(Entry(e, k), m))
      BY <1>1, ConnectionsAreSound, SoundProcessed
    <3>3. m.session_key \in Keys
      BY <1>1, <2>1 DEF AdoptSessionKey
    <3> QED
      BY <3>1, <3>2, <3>3, SoundAdopted
  <2>2. CASE DeliverReliable(e, m) \/ DropReliable(e, m)
    <3>1. PICK k \in SessionKeys :
            conn' = [conn EXCEPT ![e] = ProcessIncomingHeader(Entry(e, k), m)]
      BY <2>2 DEF DeliverReliable, DropReliable
    <3> QED
      BY <1>1, <3>1, ConnectionsAreSound, SoundProcessed
  <2>3. CASE ReceiveUnreliable(e, m)
    BY <2>3, ConnectionsAreSound DEF ReceiveUnreliable
  <2>4. CASE ReceiveDisconnect(e, m)
    BY <2>4, SoundNew DEF ReceiveDisconnect
  <2> QED
    BY <2>1, <2>2, <2>3, <2>4
<1> QED
  BY <1>2, <1>3, <1>4, <1>5, TypesKept

LEMMA TypesSent ==
  ASSUME TypeOK, KeysCarried,
         \/ \E overdue \in SUBSET conn["client"].unacknowledged_packets :
              ClientPing(overdue) \/ ClientTick(overdue)
         \/ \E overdue \in SUBSET conn["server"].unacknowledged_packets : ServerTick(overdue)
  PROVE  TypeOK' /\ KeysCarried'
<1> DEFINE ping == [kind |-> "Ping", session_key |-> NoKey]
           input == [kind |-> "Input", session_key |-> NoKey]
           snapshot == [kind |-> "Snapshot", session_key |-> NoKey]
           c == conn["client"]
<1>1. \A s \in {ping, input, snapshot} : s \in Sends /\ s.kind # "Handshake"
  BY DEF Sends, Kinds, ReliableKinds
<1>2. "client" \in Endpoints /\ "server" \in Endpoints /\ Sound(c) /\ Sound(conn["server"])
  BY ConnectionsAreSound DEF Endpoints
<1> HIDE DEF ping, input, snapshot
<1>3. ASSUME NEW overdue \in SUBSET c.unacknowledged_packets, ClientPing(overdue)
      PROVE  TypeOK' /\ KeysCarried'
  <2>1. FlushAll("client", SendTo(c, ping), overdue)
    BY <1>3 DEF ClientPing, ping
  <2>2. /\ heard' \in BOOLEAN /\ pings' \in 0 .. MaxPings
        /\ UNCHANGED <<synced, dismissed, losses, faults>>
    BY <1>3, KeyAssumption DEF ClientPing, TypeOK, app
  <2>3. Sound(SendTo(c, ping))
    BY <1>1, <1>2, SoundSend
  <2> QED
    BY <1>2, <2>1, <2>2, <2>3, TypesFlushed
<1>4. ASSUME NEW overdue \in SUBSET c.unacknowledged_packets, ClientTick(overdue)
      PROVE  TypeOK' /\ KeysCarried'
  <2>1. PICK b \in {c, SendTo(c, input), SendTo(SendTo(c, input), input)} :
          FlushAll("client", b, overdue)
    BY <1>4 DEF ClientTick, input
  <2>2. /\ heard' \in BOOLEAN /\ pings' \in 0 .. MaxPings
        /\ UNCHANGED <<synced, dismissed, losses, faults>>
    BY <1>4 DEF ClientTick, TypeOK, app, bounds
  <2>3. Sound(b)
    BY <1>1, <1>2, SoundSend
  <2> QED
    BY <1>2, <2>1, <2>2, <2>3, TypesFlushed
<1>5. ASSUME NEW overdue \in SUBSET conn["server"].unacknowledged_packets, ServerTick(overdue)
      PROVE  TypeOK' /\ KeysCarried'
  <2>1. PICK b \in {conn["server"], SendTo(conn["server"], snapshot)} :
          FlushAll("server", b, overdue)
    BY <1>5 DEF ServerTick, snapshot
  <2>2. /\ heard' \in BOOLEAN /\ pings' \in 0 .. MaxPings
        /\ UNCHANGED <<synced, dismissed, losses, faults>>
    BY <1>5 DEF ServerTick, TypeOK, bounds
  <2>3. Sound(b)
    BY <1>1, <1>2, SoundSend
  <2> QED
    BY <1>2, <2>1, <2>2, <2>3, TypesFlushed
<1> QED
  BY <1>3, <1>4, <1>5

LEMMA TypesLeft ==
  ASSUME TypeOK, KeysCarried,
         \/ ServerEvicts \/ ServerRestarts
         \/ \E e \in Endpoints : SendDisconnect(e)
         \/ \E m \in network : Lose(m)
  PROVE  TypeOK' /\ KeysCarried'
<1>1. CASE ServerEvicts \/ ServerRestarts
  <2>1. /\ conn' = [conn EXCEPT !["server"] = NoConnection] /\ network' = network
        /\ synced' \in BOOLEAN /\ heard' \in BOOLEAN /\ dismissed' \in BOOLEAN
        /\ pings' \in 0 .. MaxPings /\ losses' \in 0 .. MaxLosses
        /\ faults' \in 0 .. MaxFaults
    <3>1. /\ conn' = [conn EXCEPT !["server"] = NoConnection]
          /\ UNCHANGED <<network, synced, dismissed, pings, losses>>
          /\ heard' = FALSE \/ heard' = heard
          /\ faults < MaxFaults /\ faults' = faults + 1
      BY <1>1 DEF ServerEvicts, ServerRestarts, app
    <3>2. faults' \in 0 .. MaxFaults
      BY <3>1, KeyAssumption DEF TypeOK
    <3> QED
      BY <3>1, <3>2 DEF TypeOK
  <2>2. "server" \in Endpoints /\ Sound(NoConnection)
        /\ network' \subseteq Datagrams /\ CarryKeys(network')
    BY <2>1, SoundNew, ConnectionsAreSound DEF Endpoints
  <2> QED
    BY <2>1, <2>2, TypesKept
<1>2. ASSUME NEW e \in Endpoints, SendDisconnect(e)
      PROVE  TypeOK' /\ KeysCarried'
  <2> DEFINE bye == [to |-> Peer(e), kind |-> "Disconnect", key |-> NoKey, sequence |-> 0,
                     ack |-> 0, ack_bitfield |-> {}, session_key |-> NoKey]
  <2>1. bye \in Datagrams /\ bye.kind # "Handshake"
    <3>1. {} \in Bitfields /\ Peer(e) \in Endpoints
      BY DEF Bitfields, Peer, Endpoints
    <3> QED
      BY <3>1, NumbersAreInts DEF Datagrams, Kinds
  <2> HIDE DEF bye
  <2>2. network' = network \cup {bye}
    BY <1>2 DEF SendDisconnect, bye
  <2>3. network' \subseteq Datagrams /\ CarryKeys(network')
    BY <2>1, <2>2, ConnectionsAreSound DEF CarryKeys
  <2>4. /\ conn' = conn /\ synced' \in BOOLEAN /\ heard' \in BOOLEAN /\ dismissed' \in BOOLEAN
        /\ pings' \in 0 .. MaxPings /\ losses' \in 0 .. MaxLosses
        /\ faults' \in 0 .. MaxFaults
    BY <1>2, KeyAssumption DEF SendDisconnect, app, TypeOK
  <2> QED
    BY <2>3, <2>4 DEF TypeOK, KeysCarried, CarryKeys
<1>3. ASSUME NEW m \in network, Lose(m)
      PROVE  TypeOK' /\ KeysCarried'
  <2>1. /\ conn' = conn /\ synced' \in BOOLEAN /\ heard' \in BOOLEAN /\ dismissed' \in BOOLEAN
        /\ pings' \in 0 .. MaxPings /\ losses' \in 0 .. MaxLosses
        /\ faults' \in 0 .. MaxFaults /\ network' \subseteq network
    BY <1>3, KeyAssumption DEF Lose, app, TypeOK
  <2> QED
    BY <2>1 DEF TypeOK, KeysCarried, CarryKeys
<1> QED
  BY <1>1, <1>2, <1>3

LEMMA TypesStay ==
  TypeOK /\ KeysCarried /\ [Next]_vars => TypeOK' /\ KeysCarried'
<1> SUFFICES ASSUME TypeOK, KeysCarried, [Next]_vars
             PROVE  TypeOK' /\ KeysCarried'
  OBVIOUS
<1>1. CASE UNCHANGED vars
  BY <1>1 DEF vars, TypeOK, KeysCarried, CarryKeys
<1>2. ASSUME NEW m \in network, Receive(m)
      PROVE  TypeOK' /\ KeysCarried'
  BY <1>2, TypesHandled DEF Receive
<1> QED
  BY <1>1, <1>2, TypesSent, TypesLeft DEF Next

\* Once a Disconnect has reached the client it has; and one that does is a fault.
LEMMA DismissalIsFault ==
  ASSUME IInv, [Next]_vars, dismissed'
  PROVE  faults' > 0
<1>1. faults \in Nat /\ faults' \in Nat /\ faults' >= faults
  <2>1. faults' = faults \/ faults' = faults + 1
    BY DEF Next, Receive, AdoptSessionKey, DeliverReliable, DropReliable, ReceiveUnreliable,
       ReceiveDisconnect, Arrives, Lose, ClientPing, ClientTick, ServerTick, ServerEvicts,
       ServerRestarts, SendDisconnect, vars, bounds
  <2>2. faults \in Nat
    BY KeyAssumption DEF IInv, TypeOK
  <2> QED
    BY <2>1, <2>2
<1>2. CASE dismissed
  BY <1>1, <1>2 DEF IInv, InSession
<1>3. CASE ~dismissed
  <2>1. PICK m \in network : m.kind = "Disconnect"
    BY <1>3 DEF Next, Receive, AdoptSessionKey, DeliverReliable, DropReliable,
       ReceiveUnreliable, ReceiveDisconnect, Arrives, Lose, ClientPing, ClientTick,
       ServerTick, ServerEvicts, ServerRestarts, SendDisconnect, vars, app
  <2>2. faults > 0
    BY <1>3, <2>1 DEF IInv, InSession, DatagramsInOrder
  <2> QED
    BY <1>1, <2>2
<1> QED
  BY <1>2, <1>3

\* No step takes back that a Disconnect has reached the client.
LEMMA DismissedStays ==
  [Next]_vars /\ dismissed => dismissed'
  BY DEF Next, Receive, AdoptSessionKey, DeliverReliable, DropReliable,
     ReceiveUnreliable, ReceiveDisconnect, Arrives, Lose, ClientPing, ClientTick,
     ServerTick, ServerEvicts, ServerRestarts, SendDisconnect, vars, app

LEMMA DismissedIsFlag ==
  ASSUME IInv, IInv'
  PROVE  dismissed \in BOOLEAN /\ dismissed' \in BOOLEAN
  BY DEF IInv, TypeOK

\* Before that, the stronger invariant holds, and it did in the step before.
LEMMA StillIn ==
  ASSUME IInv, IInv', [Next]_vars, ~dismissed'
  PROVE  InSession /\ dismissed' = FALSE
<1>1. ~dismissed
  BY DismissedStays
<1> QED
  BY <1>1, DismissedIsFlag DEF IInv

-------------------------------------------------------------------------------
(* The theorems. *)

\* In every reachable state the inductive invariant holds.
THEOREM Invariant == Spec => []IInv
<1>1. Init => IInv
  BY InitIInv
<1>2. IInv /\ [Next]_vars => IInv'
  <2> SUFFICES ASSUME IInv, [Next]_vars PROVE IInv'
    OBVIOUS
  <2>1. TypeOK' /\ KeysCarried'
    BY TypesStay DEF IInv
  <2>2. CASE dismissed'
    BY <2>1, <2>2, DismissalIsFault DEF IInv
  <2>3. CASE ~dismissed'
    <3>1. InSession /\ dismissed' = FALSE
      BY <2>1, <2>3, DismissedStays DEF IInv, TypeOK
    <3> QED
      BY <2>1, <3>1, Step DEF IInv
  <2> QED
    BY <2>2, <2>3
<1> QED
  BY <1>1, <1>2, PTL DEF Spec

\* The connections, the network and the loops keep their types, whatever a peer
\* that was told goodbye goes on to do.
THEOREM TypeCorrect == Spec => []TypeOK
<1>1. IInv => TypeOK
  BY DEF IInv
<1> QED
  BY <1>1, Invariant, PTL

\* Every handshake that is on the wire, or may be resent, is one that a client
\* on the well-known key can read, through evictions, restarts and disconnects,
\* until a Disconnect reaches the client.
THEOREM HandshakesReadable == Spec => []HandshakeReadable
<1>1. IInv => HandshakeReadable
  BY DEF IInv, InSession, HandshakeReadable
<1> QED
  BY <1>1, Invariant, PTL

\* Without faults the client is never on a key the server is not on.
THEOREM NotAhead == Spec => []ClientNotAhead
<1>1. IInv => ClientNotAhead
  BY DEF IInv, InSession, ClientNotAhead
<1> QED
  BY <1>1, Invariant, PTL

\* handle_packet moves a client that has a session key to another one only when it
\* is handed a Disconnect, or was before.
THEOREM KeyKept == Spec => KeyKeptForGood
<1>1. IInv /\ IInv' /\ [Next]_vars =>
        [conn["client"].pipeline \in SessionKeys /\ ~dismissed' =>
           conn'["client"].pipeline = conn["client"].pipeline]_vars
  BY StillIn, Step, KeysApart DEF Withdraws, Adopts, Serves
<1> QED
  BY <1>1, Invariant, PTL DEF Spec, KeyKeptForGood

\* Without faults, two ends that have agreed on a session key stay agreed: what
\* KeysEventuallyAgree leaves to liveness is that they agree once.
THEOREM AgreementLasts == Spec => [][KeysAgree /\ faults' = 0 => KeysAgree']_vars
<1>1. IInv /\ IInv' /\ [Next]_vars => [KeysAgree /\ faults' = 0 => KeysAgree']_vars
  <2> SUFFICES ASSUME IInv, IInv', [Next]_vars, KeysAgree, faults' = 0
               PROVE  KeysAgree'
    OBVIOUS
  <2>1. ~dismissed'
    BY DEF IInv, InSession
  <2>2. conn'["client"].pipeline = conn["client"].pipeline
    BY <2>1, StillIn, Step, KeysApart DEF KeysAgree, Withdraws, Adopts, Serves
  <2> QED
    BY <2>1, <2>2, KeysApart DEF KeysAgree, IInv, InSession, ClientNotAhead
<1> QED
  BY <1>1, Invariant, PTL DEF Spec

\* One step of the two programs is one of the abstract exchange, or none.
LEMMA ExchangeStep ==
  ASSUME InSession, Withdraws \/ Adopts \/ Serves, dismissed' = FALSE
  PROVE  [Promised!Next]_(Promised!vars)
<1> DEFINE offered == {m.session_key : m \in Handshakes}
<1>0. UNCHANGED dismissed
  BY DEF InSession
<1>1. CASE Withdraws
  <2>1. offered' \in SUBSET offered
    BY <1>1 DEF Withdraws
  <2>2. Promised!Withdraw \/ Promised!Forget
    BY <1>1, <2>1 DEF Withdraws, Promised!Withdraw, Promised!Forget
  <2> QED
    BY <1>0, <2>2 DEF Promised!Next
<1>2. CASE Adopts
  <2>1. offered' \in SUBSET offered
    BY <1>2 DEF Adopts
  <2>2. PICK m \in Handshakes : conn'["client"].pipeline = m.session_key
    BY <1>2 DEF Adopts
  <2>3. m.session_key \in SessionKeys /\ m.session_key \in offered
    BY <2>2 DEF InSession, DatagramsInOrder
  <2>4. Promised!Adopt(m.session_key)
    BY <1>2, <2>1, <2>2, <2>3 DEF Adopts, Promised!Adopt
  <2> QED
    BY <1>0, <2>3, <2>4 DEF Promised!Next
<1>3. CASE Serves
  <2>1. PICK k \in SessionKeys : k = conn'["server"].pipeline
    BY <1>3 DEF Serves
  <2>2. offered' = offered \cup {k}
    BY <1>3, <2>1 DEF Serves
  <2>3. Promised!Serve(k)
    BY <1>3, <2>1, <2>2 DEF Serves, Promised!Serve
  <2> QED
    BY <1>0, <2>3 DEF Promised!Next
<1> QED
  BY <1>1, <1>2, <1>3

\* Both programs together, with the network and every fault, implement KeyExchange.
THEOREM Refinement == Spec => ImplementsKeyExchange
<1>1. Init => Promised!Init
  <2> SUFFICES ASSUME Init PROVE Promised!Init
    OBVIOUS
  <2>1. /\ conn["client"] = NoConnection /\ conn["server"] = NoConnection /\ network = {}
        /\ dismissed = FALSE
    BY DEF Init, Endpoints
  <2>2. Handshakes = {}
    BY <2>1 DEF Handshakes, NoConnection
  <2> QED
    BY <2>1, <2>2 DEF Promised!Init, NoConnection
<1>2. IInv /\ IInv' /\ [Next]_vars => [Promised!Next]_(Promised!vars)
  <2> SUFFICES ASSUME IInv, IInv', [Next]_vars
               PROVE  [Promised!Next]_(Promised!vars)
    OBVIOUS
  <2>1. CASE dismissed'
    BY <2>1, DismissedIsFlag DEF Promised!Next, Promised!Over
  <2>2. CASE ~dismissed'
    BY <2>2, StillIn, Step, ExchangeStep
  <2> QED
    BY <2>1, <2>2
<1> QED
  BY <1>1, <1>2, Invariant, PTL DEF Spec, ImplementsKeyExchange, Promised!Spec

===============================================================================

----------------------------- MODULE SecureSession -----------------------------
(***************************************************************************)
(* One client and the server, from first contact to play: the connection   *)
(* table entry each ConnectionManager keeps for the other                  *)
(* (crates/connection/src/manager.rs), its Connection with queue, pipeline *)
(* and reliability state (connection.rs), and the calls bin/client.rs and  *)
(* bin/server.rs make on them.                                             *)
(*                                                                         *)
(* A SecurePipeline is its key: what was processed under one key is only   *)
(* inverted under the same one.  The key of a new session is any session   *)
(* key, so it may repeat an earlier one.  Time is left out: a packet may   *)
(* be overdue whenever the loop looks, and a connection may be stale if    *)
(* nothing arrived since the tick before.  A pipeline that fails to        *)
(* process a packet is left to ReliableChannel.                            *)
(*                                                                         *)
(* A definition Name_Variant is Name with a mistake in it: it shows that   *)
(* the properties notice the mistake, and no specification uses it.        *)
(***************************************************************************)
EXTENDS ReliableConnectionState, FiniteSets, Sequences

CONSTANTS
  SessionKeys,   \* keys a handshake may carry
  PocKey,        \* static_poc_key, which every connection starts with
  NoKey,         \* None
  MaxPings,      \* bound: pings of the client's sync loop
  MaxLosses,     \* bound: datagrams the network loses
  MaxFaults      \* bound: evictions, restarts of the server and disconnects

ASSUME KeyAssumption ==
  /\ PocKey \notin SessionKeys
  /\ NoKey \notin SessionKeys \cup {PocKey}
  /\ MaxPings \in Nat /\ MaxPings < HALF_RANGE
  /\ MaxLosses \in Nat
  /\ MaxFaults \in Nat

VARIABLES
  conn,      \* conn[e]: e's table entry for the other endpoint
  network,   \* the datagrams in flight
  synced,    \* the client has left its sync loop
  pings,     \* bound: pings sent
  losses,    \* bound: datagrams lost
  faults,    \* bound: evictions, restarts and disconnects so far
  heard,     \* the server handled a packet since its last tick
  dismissed  \* history: a Disconnect has reached the client

vars == <<conn, network, synced, pings, losses, faults, heard, dismissed>>
bounds == <<pings, losses, faults>>
app == <<synced, heard, dismissed>>

Endpoints == {"client", "server"}
Peer(e) == IF e = "client" THEN "server" ELSE "client"
Keys == SessionKeys \cup {PocKey}

ReliableKinds == {"Handshake", "Ping"}
Kinds == ReliableKinds \cup {"Input", "Snapshot", "Disconnect"}

Datagrams ==
  [to : Endpoints, kind : Kinds, key : Keys \cup {NoKey}, sequence : SequenceNumbers,
   ack : SequenceNumbers, ack_bitfield : Bitfields, session_key : Keys \cup {NoKey}]

Sends == [kind : Kinds, session_key : Keys \cup {NoKey}]

Connections ==
  [open : BOOLEAN, pipeline : Keys, pending_pipeline_swap : Keys \cup {NoKey},
   pending_queue : Seq(Sends), is_authenticated : BOOLEAN,
   next_outgoing_sequence : SequenceNumbers,
   highest_received_sequence : SequenceNumbers,
   received_sequence_bitfield : Bitfields,
   unacknowledged_packets : SUBSET Datagrams]

TypeOK ==
  /\ conn \in [Endpoints -> Connections]
  /\ network \in SUBSET Datagrams
  /\ synced \in BOOLEAN
  /\ pings \in 0 .. MaxPings
  /\ losses \in 0 .. MaxLosses
  /\ faults \in 0 .. MaxFaults
  /\ heard \in BOOLEAN
  /\ dismissed \in BOOLEAN

-------------------------------------------------------------------------------
(* Connections. *)

\* No entry in the table; also the fields of Connection::new.
NoConnection ==
  [open |-> FALSE, pipeline |-> PocKey, pending_pipeline_swap |-> NoKey,
   pending_queue |-> <<>>, is_authenticated |-> FALSE,
   next_outgoing_sequence |-> WrappingAdd(0, 1),
   highest_received_sequence |-> 0,
   received_sequence_bitfield |-> {},
   unacknowledged_packets |-> {}]

NewConnection == [NoConnection EXCEPT !.open = TRUE]

\* handle_packet opens an entry for an address it does not know: a handshake
\* with key k goes to the queue and the pipeline is to change after the flush.
FirstContact(k) ==
  [NewConnection EXCEPT
     !.pending_queue = <<[kind |-> "Handshake", session_key |-> k]>>,
     !.pending_pipeline_swap = k]

QueuePendingSend(c, send) == [c EXCEPT !.pending_queue = Append(@, send)]

\* send_to_client: the entry is opened without a handshake if there is none.
SendTo(c, send) == QueuePendingSend(IF c.open THEN c ELSE NewConnection, send)

ReliableAmong(queue, n) == Cardinality({i \in 1 .. n : queue[i].kind \in ReliableKinds})

Wire_AfterSwap(e, c, i) ==
  LET send == c.pending_queue[i]
  IN  [to |-> Peer(e), kind |-> send.kind,
       key |-> IF c.pending_pipeline_swap = NoKey THEN c.pipeline
               ELSE c.pending_pipeline_swap,
       sequence |-> IF send.kind \in ReliableKinds
                    THEN WrappingAdd(c.next_outgoing_sequence,
                                     ReliableAmong(c.pending_queue, i - 1))
                    ELSE 0,
       ack |-> 0, ack_bitfield |-> {}, session_key |-> send.session_key]

\* The datagram for entry i of the queue, under the pipeline in use now.
Wire(e, c, i) ==
  LET send == c.pending_queue[i]
      reliable == send.kind \in ReliableKinds
  IN  [to |-> Peer(e), kind |-> send.kind, key |-> c.pipeline,
       sequence |-> IF reliable
                    THEN WrappingAdd(c.next_outgoing_sequence,
                                     ReliableAmong(c.pending_queue, i - 1))
                    ELSE 0,
       ack |-> IF reliable THEN c.highest_received_sequence ELSE 0,
       ack_bitfield |-> IF reliable THEN c.received_sequence_bitfield ELSE {},
       session_key |-> send.session_key]

Drained(e, c) == {Wire(e, c, i) : i \in DOMAIN c.pending_queue}

Flushed_NoSwap(e, c) ==
  [c EXCEPT
     !.pending_queue = <<>>,
     !.next_outgoing_sequence =
        WrappingAdd(@, ReliableAmong(c.pending_queue, Len(c.pending_queue))),
     !.unacknowledged_packets =
        @ \cup {m \in Drained(e, c) : m.kind \in ReliableKinds}]

\* The connection after update: queue drained, then the pending pipeline put in.
Flushed(e, c) ==
  [c EXCEPT
     !.pending_queue = <<>>,
     !.next_outgoing_sequence =
        WrappingAdd(@, ReliableAmong(c.pending_queue, Len(c.pending_queue))),
     !.unacknowledged_packets =
        @ \cup {m \in Drained(e, c) : m.kind \in ReliableKinds},
     !.pipeline = IF c.pending_pipeline_swap = NoKey THEN @ ELSE c.pending_pipeline_swap,
     !.pending_pipeline_swap = NoKey]

FlushAll_NoResend(e, c, overdue) ==
  /\ conn' = [conn EXCEPT ![e] = IF c.open THEN Flushed(e, c) ELSE c]
  /\ network' = network \cup (IF c.open THEN Drained(e, c) ELSE {})

\* flush_all for the one entry c of e: overdue packets are sent again first.
FlushAll(e, c, overdue) ==
  /\ conn' = [conn EXCEPT ![e] = IF c.open THEN Flushed(e, c) ELSE c]
  /\ network' = network \cup overdue \cup (IF c.open THEN Drained(e, c) ELSE {})

\* process_incoming_header.  Its answer is not used by handle_packet.
ProcessIncomingHeader(c, m) ==
  LET highest == c.highest_received_sequence
      field == c.received_sequence_bitfield
      newer == IsSequenceMoreRecent(m.sequence, highest)
      window == CASE newer -> AdvanceField(field, WrappingSub(m.sequence, highest))
                  [] ~newer /\ IsDuplicateOrTooOld(highest, field, m.sequence) -> field
                  [] OTHER -> field \cup {ShiftCount(WrappingSub(highest, m.sequence))}
  IN  [c EXCEPT
         !.unacknowledged_packets = {u \in @ : ~IsAcked(u.sequence, m)},
         !.highest_received_sequence = IF newer THEN m.sequence ELSE @,
         !.received_sequence_bitfield = window]

-------------------------------------------------------------------------------
(* handle_packet. *)

\* The table entry the packet is handled with.
Entry(e, k) == IF conn[e].open THEN conn[e] ELSE FirstContact(k)

\* The datagram is taken off the network, or stays there for another delivery.
Arrives(e, m) ==
  /\ m.to = e
  /\ network' \in {network, network \ {m}}
  /\ heard' = (heard \/ e = "server")
  /\ dismissed' = (dismissed \/ (e = "client" /\ m.kind = "Disconnect"))
  /\ UNCHANGED bounds

AdoptSessionKey_AnyKey(e, m) ==
  /\ Arrives(e, m)
  /\ m.kind = "Handshake"
  /\ \E k \in SessionKeys :
       conn' = [conn EXCEPT ![e] =
                  [ProcessIncomingHeader(Entry(e, k), m) EXCEPT
                     !.is_authenticated = TRUE, !.pipeline = m.session_key]]
  /\ UNCHANGED synced

\* A handshake the pipeline can read: its key replaces the pipeline's.
AdoptSessionKey(e, m) ==
  /\ Arrives(e, m)
  /\ m.kind = "Handshake"
  /\ \E k \in SessionKeys :
       /\ m.key = Entry(e, k).pipeline
       /\ conn' = [conn EXCEPT ![e] =
                     [ProcessIncomingHeader(Entry(e, k), m) EXCEPT
                        !.is_authenticated = TRUE, !.pipeline = m.session_key]]
  /\ UNCHANGED synced

\* A reliable packet the pipeline can read: the payload goes to the caller.
DeliverReliable(e, m) ==
  /\ Arrives(e, m)
  /\ m.kind = "Ping"
  /\ \E k \in SessionKeys :
       /\ m.key = Entry(e, k).pipeline
       /\ conn' = [conn EXCEPT ![e] = ProcessIncomingHeader(Entry(e, k), m)]
  /\ UNCHANGED synced

\* A reliable packet it cannot read: its header has been processed all the same.
DropReliable(e, m) ==
  /\ Arrives(e, m)
  /\ m.kind \in ReliableKinds
  /\ \E k \in SessionKeys :
       /\ m.key # Entry(e, k).pipeline
       /\ conn' = [conn EXCEPT ![e] = ProcessIncomingHeader(Entry(e, k), m)]
  /\ UNCHANGED synced

\* An Input or a Snapshot.  The first Snapshot the client reads ends its sync loop.
ReceiveUnreliable(e, m) ==
  /\ Arrives(e, m)
  /\ m.kind \in {"Input", "Snapshot"}
  /\ \E k \in SessionKeys :
       /\ conn' = [conn EXCEPT ![e] = Entry(e, k)]
       /\ synced' = (synced \/ (m.kind = "Snapshot" /\ m.key = Entry(e, k).pipeline))

\* process_disconnect: the entry goes, also one that was only just opened.  A client
\* that has lost its entry this way opens a new one when it sends, or as a server
\* does, with a handshake of its own, when something arrives.
ReceiveDisconnect(e, m) ==
  /\ Arrives(e, m)
  /\ m.kind = "Disconnect"
  /\ conn' = [conn EXCEPT ![e] = NoConnection]
  /\ UNCHANGED synced

Receive(m) ==
  \E e \in Endpoints :
    \/ AdoptSessionKey(e, m)
    \/ DeliverReliable(e, m)
    \/ DropReliable(e, m)
    \/ ReceiveUnreliable(e, m)
    \/ ReceiveDisconnect(e, m)

-------------------------------------------------------------------------------
(* The client's and the server's loops. *)

\* The sync loop, after a second without packets: ping, and flush.  There is no
\* clock here: any time may be a second after the last packet (but see Fairness).
ClientPing(overdue) ==
  /\ ~synced
  /\ pings < MaxPings
  /\ pings' = pings + 1
  /\ FlushAll("client",
              SendTo(conn["client"], [kind |-> "Ping", session_key |-> NoKey]),
              overdue)
  /\ UNCHANGED <<app, losses, faults>>

\* A pass of the main loop: inputs for the ticks simulated, if any, and flush.
ClientTick(overdue) ==
  /\ synced
  /\ \E steps \in 0 .. 2 :
       LET input == [kind |-> "Input", session_key |-> NoKey]
           c == IF steps = 0 THEN conn["client"]
                ELSE IF steps = 1 THEN SendTo(conn["client"], input)
                ELSE SendTo(SendTo(conn["client"], input), input)
       IN  FlushAll("client", c, overdue)
  /\ UNCHANGED <<app, bounds>>

\* A tick of the server: a snapshot for the connection, eviction of a stale one,
\* and flush.
ServerTick(overdue) ==
  LET c == conn["server"]
      snapshot == [kind |-> "Snapshot", session_key |-> NoKey]
  IN  /\ FlushAll("server", IF c.open THEN SendTo(c, snapshot) ELSE c, overdue)
      /\ heard' = FALSE
      /\ UNCHANGED <<synced, dismissed, bounds>>

\* The same tick when evict_stale_connections finds the connection stale: it is
\* gone, with what it had queued, before the flush.
ServerEvicts ==
  /\ faults < MaxFaults
  /\ conn["server"].open
  /\ ~heard
  /\ conn' = [conn EXCEPT !["server"] = NoConnection]
  /\ faults' = faults + 1
  /\ UNCHANGED <<network, app, pings, losses>>

\* The server process is started anew; nothing of its table is kept.
ServerRestarts ==
  /\ faults < MaxFaults
  /\ conn' = [conn EXCEPT !["server"] = NoConnection]
  /\ heard' = FALSE
  /\ faults' = faults + 1
  /\ UNCHANGED <<network, synced, dismissed, pings, losses>>

-------------------------------------------------------------------------------
(* The environment. *)

\* A peer says goodbye (no program of this repository does), and goes on.
SendDisconnect(e) ==
  /\ faults < MaxFaults
  /\ conn[e].open
  /\ network' = network \cup
       {[to |-> Peer(e), kind |-> "Disconnect", key |-> NoKey, sequence |-> 0,
         ack |-> 0, ack_bitfield |-> {}, session_key |-> NoKey]}
  /\ faults' = faults + 1
  /\ UNCHANGED <<conn, app, pings, losses>>

Lose(m) ==
  /\ losses < MaxLosses
  /\ network' = network \ {m}
  /\ losses' = losses + 1
  /\ UNCHANGED <<conn, app, pings, faults>>

-------------------------------------------------------------------------------
Init ==
  /\ conn = [e \in Endpoints |-> NoConnection]
  /\ network = {}
  /\ synced = FALSE
  /\ pings = 0 /\ losses = 0 /\ faults = 0
  /\ heard = FALSE
  /\ dismissed = FALSE

Next ==
  \/ \E m \in network : Receive(m) \/ Lose(m)
  \/ \E overdue \in SUBSET conn["client"].unacknowledged_packets :
       ClientPing(overdue) \/ ClientTick(overdue)
  \/ \E overdue \in SUBSET conn["server"].unacknowledged_packets : ServerTick(overdue)
  \/ ServerEvicts
  \/ ServerRestarts
  \/ \E e \in Endpoints : SendDisconnect(e)

Spec == Init /\ [][Next]_vars

\* Both loops go round for ever, what stays unacknowledged is sent again (the
\* timeout is at most two seconds), and a kind of datagram that is sent again
\* and again is taken off the network again and again.  The sync loop pings after a
\* second of silence only, so nothing is promised of it while datagrams keep coming.
Fairness ==
  /\ \/ WF_vars(ClientPing(conn["client"].unacknowledged_packets))
     \/ []<><<\E m \in network : m.to = "client" /\ Receive(m)>>_vars
  /\ WF_vars(ClientTick(conn["client"].unacknowledged_packets))
  /\ WF_vars(ServerTick(conn["server"].unacknowledged_packets))
  /\ \A kind \in Kinds :
       SF_vars(\E m \in network :
                 m.kind = kind /\ Receive(m) /\ network' = network \ {m})

FairSpec == Spec /\ Fairness

-------------------------------------------------------------------------------
(* Properties. *)

Handshakes == {m \in network \cup conn["server"].unacknowledged_packets :
                 m.kind = "Handshake"}

\* A handshake, first sent or sent again, is always under the key a new client
\* has: update changes the pipeline after the flush, never before.  (A client that
\* was told goodbye hands out keys itself, and then nothing of this kind holds.)
HandshakeReadable == ~dismissed => \A m \in Handshakes : m.key = PocKey

\* While the server keeps its connection the client is on the first key or on
\* the server's: a client that has adopted a key finds the server on it too.
ClientNotAhead ==
  faults = 0 =>
    \/ conn["client"].pipeline = PocKey
    \/ conn["client"].pipeline = conn["server"].pipeline

\* The connections between the calls: a closed entry keeps nothing; nothing is on
\* the wire before the client has sent something; the client's loop flushes what
\* it queues; the server queues a handshake on first contact, and until the next
\* flush the connection stays on the well-known key and waits for the new one.
ConnectionsInOrder ==
  /\ \A e \in Endpoints : conn[e].open \/ conn[e] = NoConnection
  /\ conn["client"].open \/ (~conn["server"].open /\ network = {})
  /\ conn["client"].pending_queue = <<>>
  /\ conn["client"].pending_pipeline_swap = NoKey
  /\ LET c == conn["server"]
     IN  \/ c.pending_queue = <<>> /\ c.pending_pipeline_swap = NoKey
         \/ /\ c.pending_pipeline_swap \in SessionKeys
            /\ c.pending_queue =
                 <<[kind |-> "Handshake", session_key |-> c.pending_pipeline_swap]>>
            /\ c.pipeline = PocKey

\* Only the server hands out keys, and they are session keys; each end resends
\* its one kind of reliable packet; and a goodbye is a fault.
DatagramsInOrder ==
  /\ \A m \in Handshakes : m.to = "client" /\ m.session_key \in SessionKeys
  /\ \A m \in conn["client"].unacknowledged_packets : m.kind = "Ping"
  /\ \A m \in conn["server"].unacknowledged_packets : m.kind = "Handshake"
  /\ \A m \in network : m.kind = "Disconnect" => faults > 0

\* Without faults there is one first contact: the one key it hands out is the
\* server's from the flush on, and before the flush nobody has seen it.
OneKeyOnly ==
  faults = 0 =>
    /\ \A m \in Handshakes : m.session_key = conn["server"].pipeline
    /\ (~conn["server"].open \/ conn["server"].pending_pipeline_swap # NoKey) =>
         Handshakes = {} /\ conn["client"].pipeline = PocKey

\* A handshake that is queued, kept or on its way carries a key, whoever sends it.
CarryKeys(S) == \A s \in S : s.kind = "Handshake" => s.session_key \in Keys

KeysCarried ==
  /\ CarryKeys(network)
  /\ \A e \in Endpoints :
       /\ CarryKeys(conn[e].unacknowledged_packets)
       /\ CarryKeys({conn[e].pending_queue[i] : i \in DOMAIN conn[e].pending_queue})

\* The state as long as no Disconnect has reached the client.
InSession ==
  /\ dismissed = FALSE
  /\ TypeOK
  /\ ConnectionsInOrder
  /\ DatagramsInOrder
  /\ HandshakeReadable
  /\ OneKeyOnly
  /\ ClientNotAhead

\* The inductive invariant.
IInv ==
  /\ TypeOK
  /\ KeysCarried
  /\ InSession \/ (dismissed /\ faults > 0)

\* A client that has a session key keeps it, whatever else arrives, until a
\* Disconnect reaches it: no later handshake, also of a server that has forgotten
\* it, can be read under it.
KeyKeptForGood ==
  [][conn["client"].pipeline \in SessionKeys /\ ~dismissed' =>
       conn'["client"].pipeline = conn["client"].pipeline]_vars

Promised == INSTANCE KeyExchange WITH
              FirstKey <- PocKey, over <- dismissed,
              clientKey <- conn["client"].pipeline, serverKey <- conn["server"].pipeline,
              offered <- {m.session_key : m \in Handshakes}

\* Through losses, repetitions, evictions, restarts and disconnects the two ends do
\* no more than KeyExchange: the server is on a key from the moment a handshake
\* offers it, and the client takes one such key and no other, until a Disconnect
\* makes it forget that it had one.
ImplementsKeyExchange == Promised!Spec

KeysAgree ==
  /\ conn["client"].pipeline = conn["server"].pipeline
  /\ conn["client"].pipeline \in SessionKeys

\* Without evictions, restarts and disconnects both ends settle on one session
\* key, although the handshake may be lost, repeated and overtaken.
KeysEventuallyAgree == <>[]KeysAgree

\* And the client leaves its sync loop.
EventuallySynced == <>synced

\* Only handshake and reliable packets get through during authentication: the
\* client that has read a snapshot has been given a session key.
SyncedIsAuthenticated == synced => conn["client"].is_authenticated

===============================================================================

---------------------------- MODULE ReliableChannel ----------------------------
(***************************************************************************)
(* Two Connections (crates/connection/src/connection.rs) that exchange     *)
(* reliable packets over UDP, each with the ReliableConnectionState of     *)
(* crates/protocol/src/protocol.rs.  The network loses, duplicates and     *)
(* reorders.                                                               *)
(*                                                                         *)
(* Clocks are left out: Flush resends any subset of the unacknowledged     *)
(* packets, which covers every outcome of elapsed >= RTO.  Fields that the *)
(* code writes and never reads (has_pending_ack_to_send, the statistics)   *)
(* are left out too.                                                       *)
(*                                                                         *)
(* Packets carry two history fields no guard of the code reads: id, the    *)
(* number of the packet counted without wrapping, and ackId, the same for  *)
(* the packet its ack names.                                               *)
(***************************************************************************)
EXTENDS ReliableConnectionState, FiniteSets

CONSTANTS
  Peers,        \* the two endpoints
  MaxSent,      \* bound: reliable packets each peer ever sends, per peer
  MaxPending,   \* max_pending_bytes, counted in packets
  MaxInFlight   \* bound: packets in the network at a time

ASSUME PeersAssumption ==
  /\ \E a, b \in Peers : a # b /\ Peers = {a, b}
  /\ MaxSent \in [Peers -> Nat]
  /\ MaxPending \in Nat
  /\ MaxInFlight \in Nat

VARIABLES
  pending,                      \* length of pending_queue (reliable sends)
  next_outgoing_sequence,
  highest_received_sequence,
  received_sequence_bitfield,
  unacknowledged_packets,       \* the wire packets kept for retransmission
  panicked,                     \* the process died of an overflowing shift
  network,                      \* the wire packets in flight
  sent,                         \* history: sequence numbers handed out
  highestId,                    \* history: id of highest_received_sequence
  accepts,                      \* history: how often each id was reported new
  cleared                       \* history: ids dropped as acknowledged

connVars == <<pending, next_outgoing_sequence, sent>>
windowVars == <<highest_received_sequence, received_sequence_bitfield, highestId,
                accepts, panicked>>
ackVars == <<unacknowledged_packets, cleared>>
vars == <<connVars, windowVars, ackVars, network>>

Other(p) == CHOOSE q \in Peers : q # p
Ids(p) == 1 .. MaxSent[p]

Packets == [from : Peers, id : Nat, ackId : Nat, sequence : SequenceNumbers,
            ack : SequenceNumbers, ack_bitfield : Bitfields]

Accepted(q) == {i \in Ids(Other(q)) : accepts[q][i] > 0}

TypeOK ==
  /\ pending \in [Peers -> 0 .. MaxPending]
  /\ next_outgoing_sequence \in [Peers -> SequenceNumbers]
  /\ highest_received_sequence \in [Peers -> SequenceNumbers]
  /\ received_sequence_bitfield \in [Peers -> Bitfields]
  /\ unacknowledged_packets \in [Peers -> SUBSET Packets]
  /\ panicked \in [Peers -> BOOLEAN]
  /\ network \in SUBSET Packets
  /\ sent \in [Peers -> Nat]
  /\ highestId \in [Peers -> Nat]
  /\ DOMAIN accepts = Peers
  /\ \A q \in Peers : accepts[q] \in [Ids(Other(q)) -> Nat]
  /\ cleared \in [Peers -> SUBSET Nat]

Init ==
  /\ pending = [p \in Peers |-> 0]
  /\ next_outgoing_sequence = [p \in Peers |-> WrappingAdd(0, 1)]
  /\ highest_received_sequence = [p \in Peers |-> 0]
  /\ received_sequence_bitfield = [p \in Peers |-> {}]
  /\ unacknowledged_packets = [p \in Peers |-> {}]
  /\ panicked = [p \in Peers |-> FALSE]
  /\ network = {}
  /\ sent = [p \in Peers |-> 0]
  /\ highestId = [p \in Peers |-> 0]
  /\ accepts = [q \in Peers |-> [i \in Ids(Other(q)) |-> 0]]
  /\ cleared = [p \in Peers |-> {}]

-------------------------------------------------------------------------------
(* Sending. *)

\* queue_pending_send: a send beyond the capacity is dropped, a stuttering step.
QueuePendingSend(p) ==
  /\ pending[p] + 1 <= MaxPending
  /\ sent[p] + pending[p] < MaxSent[p]
  /\ pending' = [pending EXCEPT ![p] = @ + 1]
  /\ UNCHANGED <<next_outgoing_sequence, sent, windowVars, ackVars, network>>

\* The packet with number i of this flush: the header carries the window as it
\* stands now, and a retransmission repeats these bytes.
WirePacket(p, i) ==
  [from |-> p, id |-> i, ackId |-> highestId[p],
   sequence |-> WrappingAdd(next_outgoing_sequence[p], i - sent[p] - 1),
   ack |-> highest_received_sequence[p],
   ack_bitfield |-> received_sequence_bitfield[p]]

\* Connection::update: resend what is overdue, then drain the queue.  A packet
\* whose pipeline fails has used up its sequence number and is dropped.
Flush(p) ==
  /\ \E overdue \in SUBSET unacknowledged_packets[p],
        failed \in SUBSET (sent[p] + 1 .. sent[p] + pending[p]) :
       LET drained == sent[p] + 1 .. sent[p] + pending[p]
           fresh == {WirePacket(p, i) : i \in drained \ failed}
       IN  /\ network' = network \cup overdue \cup fresh
           /\ unacknowledged_packets' =
                [unacknowledged_packets EXCEPT ![p] = @ \cup fresh]
  /\ Cardinality(network') <= MaxInFlight
  /\ sent' = [sent EXCEPT ![p] = @ + pending[p]]
  /\ next_outgoing_sequence' =
       [next_outgoing_sequence EXCEPT ![p] = WrappingAdd(@, pending[p])]
  /\ pending' = [pending EXCEPT ![p] = 0]
  /\ UNCHANGED <<windowVars, cleared>>

-------------------------------------------------------------------------------
(* Receiving: process_incoming_header.  Each action is one way through it.  *)

\* The datagram is taken off the network (or stays there once more, a
\* duplicate) and its acknowledgements are applied.
TakeHeader(q, m) ==
  /\ m.from = Other(q)
  /\ network' \in {network, network \ {m}}
  /\ LET acked == {u \in unacknowledged_packets[q] : IsAcked(u.sequence, m)}
     IN  /\ unacknowledged_packets' =
              [unacknowledged_packets EXCEPT ![q] = @ \ acked]
         /\ cleared' = [cleared EXCEPT ![q] = @ \cup {u.id : u \in acked}]
  /\ UNCHANGED connVars

ReportNew(q, m) == accepts' = [accepts EXCEPT ![q][m.id] = @ + 1]

\* More recent than everything seen: the window moves.
ReceiveNewest(q, m) ==
  /\ TakeHeader(q, m)
  /\ IsSequenceMoreRecent(m.sequence, highest_received_sequence[q])
  /\ received_sequence_bitfield' =
       [received_sequence_bitfield EXCEPT ![q] =
          AdvanceField(@, WrappingSub(m.sequence, highest_received_sequence[q]))]
  /\ highest_received_sequence' =
       [highest_received_sequence EXCEPT ![q] = m.sequence]
  /\ highestId' = [highestId EXCEPT ![q] = m.id]
  /\ ReportNew(q, m)
  /\ UNCHANGED panicked

\* Late, but inside the window and not seen before: its bit is set.
ReceiveLate(q, m) ==
  /\ TakeHeader(q, m)
  /\ ~IsSequenceMoreRecent(m.sequence, highest_received_sequence[q])
  /\ ~IsDuplicateOrTooOld(highest_received_sequence[q],
                          received_sequence_bitfield[q], m.sequence)
  /\ received_sequence_bitfield' =
       [received_sequence_bitfield EXCEPT ![q] =
          @ \cup {ShiftCount(WrappingSub(highest_received_sequence[q], m.sequence))}]
  /\ ReportNew(q, m)
  /\ UNCHANGED <<highest_received_sequence, highestId, panicked>>

\* A duplicate, or too far behind: the window stays and the caller is told so.
ReceiveDuplicate(q, m) ==
  /\ TakeHeader(q, m)
  /\ ~IsSequenceMoreRecent(m.sequence, highest_received_sequence[q])
  /\ IsDuplicateOrTooOld(highest_received_sequence[q],
                         received_sequence_bitfield[q], m.sequence)
  /\ UNCHANGED windowVars

\* A build with overflow checks panics where a release build wraps the shift.
ReceivePanics(q, m) ==
  /\ TakeHeader(q, m)
  /\ ShiftOverflows(highest_received_sequence[q], m.sequence)
  /\ panicked' = [panicked EXCEPT ![q] = TRUE]
  /\ UNCHANGED <<highest_received_sequence, received_sequence_bitfield, highestId,
                 accepts>>

Receive(q) ==
  \E m \in network :
    \/ ReceiveNewest(q, m)
    \/ ReceiveLate(q, m)
    \/ ReceiveDuplicate(q, m)
    \/ ReceivePanics(q, m)

\* The network drops a datagram.
Lose(m) ==
  /\ network' = network \ {m}
  /\ UNCHANGED <<connVars, windowVars, ackVars>>

-------------------------------------------------------------------------------
\* A process that has panicked does nothing more, and the other one cannot tell
\* it from one that is silent; so the model ends there.
Running == \A p \in Peers : ~panicked[p]

Next ==
  /\ Running
  /\ \/ \E p \in Peers : QueuePendingSend(p) \/ Flush(p) \/ Receive(p)
     \/ \E m \in network : Lose(m)

Spec == Init /\ [][Next]_vars

\* A limit the application has to keep, since the code has none: no endpoint sends
\* half the sequence numbers beyond the newest packet its peer has, beyond one it
\* still keeps or has on its way, or beyond what such a packet of the peer
\* acknowledges.  It is needed because the sender resends without end a packet no
\* ack can name any more (it left the bit field), and such a resend, half the space
\* later, compares as newer than all.  Only sends can break it, never what arrives.
WithinHalfSpace ==
  \A p \in Peers :
    /\ sent[p] - highestId[Other(p)] < HALF_RANGE
    /\ \A m \in network \cup unacknowledged_packets[p] : m.from = p =>
         /\ sent[p] - m.id < HALF_RANGE
         /\ sent[Other(p)] - m.ackId < HALF_RANGE

\* The code used within the limit.  Loss, repetition and reordering are the same in
\* both specifications.
LimitedSpec == Init /\ [][Next /\ WithinHalfSpace']_vars

-------------------------------------------------------------------------------
(* Properties: of LimitedSpec, unless they say otherwise. *)

\* Within the limit the channel implements the abstract one: process_incoming_header
\* returns true for a packet only if the peer really sent it, and only once,
\* whatever the network loses, repeats or reorders.
Delivery ==
  INSTANCE AtMostOnceDelivery WITH Incoming <- [q \in Peers |-> Ids(Other(q))]

ImplementsDelivery == Delivery!Spec

\* Within the limit the window says exactly which packets arrived: bit d of the
\* field is set if and only if the packet d behind the highest one was reported new,
\* across reordering, gaps and the wrap of the sequence numbers.  A wrong shift in
\* process_incoming_header acknowledges packets that never came.
WindowExact ==
  \A q \in Peers :
    /\ received_sequence_bitfield[q] =
         {d \in 0 .. BITFIELD_BITS - 1 : highestId[q] - d \in Accepted(q)}
    /\ \A i \in Accepted(q) : i <= highestId[q]
    /\ highest_received_sequence[q] = highestId[q] % SeqSpace

\* process_incoming_header reports each packet as new at most once.  Within the
\* limit that is so however often the network or a retransmission repeats it.
\* Without (Spec) it is not: the sender's own resend of a packet that was reported
\* half the space ago is reported again, and takes the window back with it.
AcceptOnce ==
  \A q \in Peers : \A i \in Ids(Other(q)) : accepts[q][i] <= 1

\* Within the limit the answer is `false` only for a packet reported before, or one further
\* behind than the field can tell: nothing new inside the window is lost,
\* neither at its edge nor at the wrap.
NewIsAccepted ==
  \A m \in network : LET q == Other(m.from) IN
    /\ ~IsSequenceMoreRecent(m.sequence, highest_received_sequence[q])
    /\ IsDuplicateOrTooOld(highest_received_sequence[q],
                           received_sequence_bitfield[q], m.sequence)
    => m.id \in Accepted(q) \/ highestId[q] - m.id >= BITFIELD_BITS

\* Within the limit a packet is dropped from unacknowledged_packets only if the peer
\* accepted it or the packet right after it.  (The second case is what the code does:
\* the sender reads bit diff - 1 where the receiver sets bit diff.)
ClearedNearAccepted ==
  \A p \in Peers : \A i \in cleared[p] :
    {i, i + 1} \cap Accepted(Other(p)) # {}

\* What the receiver's meaning of the field promises a sender: a packet dropped
\* from unacknowledged_packets was accepted by the peer.
ClearedWasAccepted ==
  \A p \in Peers : \A i \in cleared[p] : i \in Accepted(Other(p))

-------------------------------------------------------------------------------
(* The inductive invariant behind these properties. *)

\* The counters and the queue agree with the numbers handed out so far.
CountersAgree ==
  \A p \in Peers :
    /\ next_outgoing_sequence[p] = (sent[p] + 1) % SeqSpace
    /\ sent[p] + pending[p] <= MaxSent[p]
    /\ highestId[p] = 0 \/ highestId[p] \in Accepted(p)
    /\ highestId[p] <= sent[Other(p)]

\* What the bytes of a packet of p say is true, then and, within the limit, ever
\* after: bit d stands for a packet p accepted.
Truthful(p, m) ==
  /\ m.from = p
  /\ m.id \in 1 .. sent[p]
  /\ m.sequence = m.id % SeqSpace
  /\ m.ack = m.ackId % SeqSpace
  /\ m.ackId = 0 \/ m.ackId \in Accepted(p)
  /\ \A d \in m.ack_bitfield : m.ackId - d \in Accepted(p)

PacketsTruthful ==
  /\ \A m \in network : Truthful(m.from, m)
  /\ \A p \in Peers : \A u \in unacknowledged_packets[p] : Truthful(p, u)

IInv ==
  /\ TypeOK
  /\ CountersAgree
  /\ PacketsTruthful
  /\ WindowExact
  /\ AcceptOnce
  /\ ClearedNearAccepted

===============================================================================

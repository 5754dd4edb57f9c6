------------------------- MODULE ReliableChannel_proofs -------------------------
(***************************************************************************)
(* Proofs about ReliableChannel, for every half range, field width and     *)
(* number of packets: the type invariant, the inductive invariant IInv and *)
(* the properties that follow from it, and the refinement of               *)
(* AtMostOnceDelivery.  All but the types hold of LimitedSpec only.        *)
(***************************************************************************)
EXTENDS ReliableChannel, ReliableConnectionState_proofs

LEMMA OtherPeer ==
  ASSUME NEW p \in Peers
  PROVE  /\ Other(p) \in Peers
         /\ Other(p) # p
         /\ Other(Other(p)) = p
         /\ \A q \in Peers : q # p => q = Other(p)
<1>1. PICK a \in Peers, b \in Peers : a # b /\ Peers = {a, b}
  BY PeersAssumption
<1>2. \A x \in Peers : Other(x) \in Peers /\ Other(x) # x
  BY <1>1 DEF Other
<1> QED
  BY <1>1, <1>2

-------------------------------------------------------------------------------
(* Types. *)

LEMMA WirePacketType ==
  ASSUME TypeOK, NEW p \in Peers, NEW i \in Nat
  PROVE  WirePacket(p, i) \in Packets
<1>1. next_outgoing_sequence[p] \in Int /\ sent[p] \in Int
  BY SpaceType DEF TypeOK, SequenceNumbers
<1>2. next_outgoing_sequence[p] + (i - sent[p] - 1) \in Int
  BY <1>1
<1>3. WrappingAdd(next_outgoing_sequence[p], i - sent[p] - 1) \in SequenceNumbers
  BY <1>2, ModType DEF WrappingAdd
<1> QED
  BY <1>3 DEF WirePacket, Packets, TypeOK

LEMMA WindowType ==
  ASSUME NEW field \in Bitfields, NEW n \in Nat
  PROVE  AdvanceField(field, n) \in Bitfields /\ field \cup {ShiftCount(n)} \in Bitfields
<1>1. 0 \in 0 .. BITFIELD_BITS - 1 /\ ShiftCount(n) \in 0 .. BITFIELD_BITS - 1
  BY RangeAssumption, DivMod DEF ShiftCount
<1> QED
  BY <1>1 DEF AdvanceField, ShiftLeft, Bitfields

LEMMA TypeInit == Init => TypeOK
<1> SUFFICES ASSUME Init PROVE TypeOK
  OBVIOUS
<1>1. 0 \in SequenceNumbers /\ WrappingAdd(0, 1) \in SequenceNumbers
  BY SpaceType, ModType DEF WrappingAdd, SequenceNumbers
<1>2. {} \in Bitfields /\ 0 \in 0 .. MaxPending
  BY PeersAssumption DEF Bitfields
<1> QED
  BY <1>1, <1>2 DEF Init, TypeOK

LEMMA FlushType ==
  ASSUME TypeOK, NEW p \in Peers, Flush(p)
  PROVE  TypeOK'
<1>1. PICK overdue \in SUBSET unacknowledged_packets[p],
           failed \in SUBSET (sent[p] + 1 .. sent[p] + pending[p]) :
        LET drained == sent[p] + 1 .. sent[p] + pending[p]
            fresh == {WirePacket(p, i) : i \in drained \ failed}
        IN  /\ network' = network \cup overdue \cup fresh
            /\ unacknowledged_packets' =
                 [unacknowledged_packets EXCEPT ![p] = @ \cup fresh]
  BY DEF Flush
<1> DEFINE drained == sent[p] + 1 .. sent[p] + pending[p]
           fresh == {WirePacket(p, i) : i \in drained \ failed}
<1>2. sent[p] \in Nat /\ pending[p] \in 0 .. MaxPending /\ pending[p] \in Nat
  BY PeersAssumption DEF TypeOK
<1>3. fresh \subseteq Packets
  <2>1. \A i \in drained : i \in Nat
    BY <1>2
  <2> QED
    BY <2>1, WirePacketType
<1>4. overdue \subseteq Packets
  BY DEF TypeOK
<1> HIDE DEF fresh, drained
<1>5. network' \in SUBSET Packets /\ unacknowledged_packets' \in [Peers -> SUBSET Packets]
  BY <1>1, <1>3, <1>4 DEF TypeOK, fresh, drained
<1>6. next_outgoing_sequence' \in [Peers -> SequenceNumbers]
  <2>1. next_outgoing_sequence[p] + pending[p] \in Int
    BY <1>2, SpaceType DEF TypeOK, SequenceNumbers
  <2>2. WrappingAdd(next_outgoing_sequence[p], pending[p]) \in SequenceNumbers
    BY <2>1, ModType DEF WrappingAdd
  <2> QED
    BY <2>2 DEF Flush, TypeOK
<1>7. sent' \in [Peers -> Nat] /\ pending' \in [Peers -> 0 .. MaxPending]
  <2>1. sent[p] + pending[p] \in Nat /\ 0 \in 0 .. MaxPending
    BY <1>2, PeersAssumption
  <2> QED
    BY <2>1 DEF Flush, TypeOK
<1> QED
  BY <1>5, <1>6, <1>7 DEF Flush, TypeOK, windowVars

LEMMA TakeHeaderType ==
  ASSUME TypeOK, NEW q \in Peers, NEW m \in network, TakeHeader(q, m)
  PROVE  /\ m \in Packets
         /\ network' \in SUBSET Packets
         /\ unacknowledged_packets' \in [Peers -> SUBSET Packets]
         /\ cleared' \in [Peers -> SUBSET Nat]
         /\ UNCHANGED connVars
<1>1. m \in Packets /\ network' \in SUBSET Packets /\ UNCHANGED connVars
  BY DEF TypeOK, TakeHeader
<1> DEFINE acked == {u \in unacknowledged_packets[q] : IsAcked(u.sequence, m)}
<1>2. unacknowledged_packets[q] \subseteq Packets
  BY DEF TypeOK
<1>3. \A u \in acked : u.id \in Nat
  BY <1>2 DEF Packets
<1>4. unacknowledged_packets' = [unacknowledged_packets EXCEPT ![q] = @ \ acked]
  BY DEF TakeHeader
<1>5. cleared' = [cleared EXCEPT ![q] = @ \cup {u.id : u \in acked}]
  BY DEF TakeHeader
<1> HIDE DEF acked
<1>6. unacknowledged_packets' \in [Peers -> SUBSET Packets]
  BY <1>4 DEF TypeOK
<1>7. cleared' \in [Peers -> SUBSET Nat]
  BY <1>3, <1>5 DEF TypeOK
<1> QED
  BY <1>1, <1>6, <1>7

LEMMA ReportNewType ==
  ASSUME TypeOK, NEW q \in Peers, NEW m, ReportNew(q, m)
  PROVE  DOMAIN accepts' = Peers /\ \A r \in Peers : accepts'[r] \in [Ids(Other(r)) -> Nat]
<1> DEFINE count == [accepts[q] EXCEPT ![m.id] = accepts[q][m.id] + 1]
<1>1. accepts' = [accepts EXCEPT ![q] = count]
  BY DEF ReportNew
<1>2. accepts[q] \in [Ids(Other(q)) -> Nat]
  BY DEF TypeOK
<1>3. count \in [Ids(Other(q)) -> Nat]
  <2>1. CASE m.id \in Ids(Other(q))
    BY <1>2, <2>1
  <2>2. CASE m.id \notin Ids(Other(q))
    BY <1>2, <2>2
  <2> QED
    BY <2>1, <2>2
<1> HIDE DEF count
<1> QED
  BY <1>1, <1>3 DEF TypeOK

LEMMA TypeStep == TypeOK /\ [Next]_vars => TypeOK'
<1> SUFFICES ASSUME TypeOK, [Next]_vars PROVE TypeOK'
  OBVIOUS
<1>1. ASSUME NEW p \in Peers, QueuePendingSend(p)
      PROVE  TypeOK'
  <2>1. pending[p] + 1 \in 0 .. MaxPending
    BY <1>1, PeersAssumption DEF TypeOK, QueuePendingSend
  <2> QED
    BY <1>1, <2>1 DEF TypeOK, QueuePendingSend, windowVars, ackVars
<1>2. ASSUME NEW p \in Peers, Flush(p)
      PROVE  TypeOK'
  BY <1>2, FlushType
<1>3. ASSUME NEW q \in Peers, NEW m \in network, ReceiveNewest(q, m)
      PROVE  TypeOK'
  <2>1. TakeHeader(q, m) /\ ReportNew(q, m)
    BY <1>3 DEF ReceiveNewest
  <2>2. m \in Packets
    BY <2>1, TakeHeaderType
  <2>3. WrappingSub(m.sequence, highest_received_sequence[q]) \in Nat
    <3>1. m.sequence - highest_received_sequence[q] \in Int
      BY <2>2, SpaceType DEF TypeOK, Packets, SequenceNumbers
    <3> QED
      BY <3>1, SpaceType, ModType DEF WrappingSub, SequenceNumbers
  <2>4. AdvanceField(received_sequence_bitfield[q],
          WrappingSub(m.sequence, highest_received_sequence[q])) \in Bitfields
    BY <2>3, WindowType DEF TypeOK
  <2>5. /\ received_sequence_bitfield' \in [Peers -> Bitfields]
        /\ highest_received_sequence' \in [Peers -> SequenceNumbers]
        /\ highestId' \in [Peers -> Nat]
        /\ panicked' \in [Peers -> BOOLEAN]
    BY <1>3, <2>2, <2>4 DEF TypeOK, ReceiveNewest, Packets
  <2> QED
    BY <2>1, <2>5, TakeHeaderType, ReportNewType DEF TypeOK, connVars
<1>4. ASSUME NEW q \in Peers, NEW m \in network, ReceiveLate(q, m)
      PROVE  TypeOK'
  <2>1. TakeHeader(q, m) /\ ReportNew(q, m)
    BY <1>4 DEF ReceiveLate
  <2>2. m \in Packets
    BY <2>1, TakeHeaderType
  <2>3. WrappingSub(highest_received_sequence[q], m.sequence) \in Nat
    <3>1. highest_received_sequence[q] - m.sequence \in Int
      BY <2>2, SpaceType DEF TypeOK, Packets, SequenceNumbers
    <3> QED
      BY <3>1, SpaceType, ModType DEF WrappingSub, SequenceNumbers
  <2>4. received_sequence_bitfield[q] \cup
          {ShiftCount(WrappingSub(highest_received_sequence[q], m.sequence))} \in Bitfields
    BY <2>3, WindowType DEF TypeOK
  <2>5. received_sequence_bitfield' \in [Peers -> Bitfields]
    BY <1>4, <2>4 DEF TypeOK, ReceiveLate
  <2> QED
    BY <1>4, <2>1, <2>5, TakeHeaderType, ReportNewType DEF TypeOK, ReceiveLate, connVars
<1>5. ASSUME NEW q \in Peers, NEW m \in network, ReceiveDuplicate(q, m)
      PROVE  TypeOK'
  BY <1>5, TakeHeaderType DEF TypeOK, ReceiveDuplicate, windowVars, connVars
<1>6. ASSUME NEW q \in Peers, NEW m \in network, ReceivePanics(q, m)
      PROVE  TypeOK'
  BY <1>6, TakeHeaderType DEF TypeOK, ReceivePanics, connVars
<1>7. ASSUME NEW m \in network, Lose(m)
      PROVE  TypeOK'
  BY <1>7 DEF TypeOK, Lose, connVars, windowVars, ackVars
<1>8. ASSUME UNCHANGED vars
      PROVE  TypeOK'
  BY <1>8 DEF TypeOK, vars, connVars, windowVars, ackVars
<1> QED
  BY <1>1, <1>2, <1>3, <1>4, <1>5, <1>6, <1>7, <1>8 DEF Next, Receive

\* The state of the two connections and of the network keeps its types.
THEOREM TypeCorrect == Spec => []TypeOK
BY TypeInit, TypeStep, PTL DEF Spec


-------------------------------------------------------------------------------
(* What is accepted, and what a header that arrives says.                    *)

LEMMA AcceptedSame ==
  ASSUME NEW r \in Peers, accepts'[r] = accepts[r]
  PROVE  Accepted(r)' = Accepted(r)
BY DEF Accepted

LEMMA AcceptedGrows ==
  ASSUME TypeOK, NEW q \in Peers, NEW m, m.id \in Ids(Other(q)), ReportNew(q, m)
  PROVE  /\ Accepted(q)' = Accepted(q) \cup {m.id}
         /\ \A r \in Peers : r # q => Accepted(r)' = Accepted(r)
         /\ accepts'[q] = [accepts[q] EXCEPT ![m.id] = @ + 1]
<1>1. accepts[q] \in [Ids(Other(q)) -> Nat] /\ DOMAIN accepts = Peers
  BY DEF TypeOK
<1>2. accepts'[q] = [accepts[q] EXCEPT ![m.id] = @ + 1]
  BY <1>1 DEF ReportNew
<1>3. \A r \in Peers : r # q => accepts'[r] = accepts[r]
  BY <1>1 DEF ReportNew
<1>4. \A i \in Ids(Other(q)) : accepts'[q][i] > 0 <=> accepts[q][i] > 0 \/ i = m.id
  BY <1>1, <1>2
<1>5. Accepted(q)' = Accepted(q) \cup {m.id}
  BY <1>4 DEF Accepted
<1> QED
  BY <1>2, <1>3, <1>5, AcceptedSame

LEMMA AcceptedNat ==
  ASSUME TypeOK, NEW r \in Peers
  PROVE  Accepted(r) \in SUBSET (Nat \ {0})
<1>1. Ids(Other(r)) \subseteq Nat \ {0}
  BY OtherPeer, PeersAssumption DEF Ids
<1> QED
  BY <1>1 DEF Accepted

\* Within the limit whatever can arrive is near what its receiver holds.
LEMMA ArrivalsNear ==
  ASSUME IInv, WithinHalfSpace, NEW q \in Peers, NEW m \in network, m.from = Other(q)
  PROVE  /\ m.id - highestId[q] < HALF_RANGE /\ highestId[q] - m.id < HALF_RANGE
         /\ \A u \in unacknowledged_packets[q] :
              m.ackId - u.id < HALF_RANGE /\ u.id - m.ackId < HALF_RANGE
<1> DEFINE p == Other(q)
<1>1. p \in Peers /\ Other(p) = q
  BY OtherPeer
<1> HIDE DEF p
<1>2. /\ sent[p] \in Nat /\ sent[q] \in Nat /\ highestId[q] \in Nat /\ highestId[p] \in Nat
      /\ m.id \in Nat /\ m.ackId \in Nat
  BY <1>1 DEF IInv, TypeOK, Packets
<1>3. Truthful(p, m)
  BY DEF IInv, PacketsTruthful, p
<1>4. highestId[q] <= sent[p] /\ highestId[p] <= sent[q]
  BY <1>1 DEF IInv, CountersAgree, p
<1>5. /\ sent[p] - highestId[q] < HALF_RANGE
      /\ sent[p] - m.id < HALF_RANGE /\ sent[q] - m.ackId < HALF_RANGE
  BY <1>1, <1>3 DEF WithinHalfSpace, Truthful
<1>6. m.id <= sent[p]
  BY <1>2, <1>3 DEF Truthful
<1>7. m.ackId <= sent[q]
  <2>1. CASE m.ackId = 0
    BY <1>2, <2>1
  <2>2. CASE m.ackId \in Accepted(p)
    <3>1. m.ackId <= highestId[p]
      BY <1>1, <2>2 DEF IInv, WindowExact
    <3> QED
      BY <1>2, <1>4, <3>1
  <2> QED
    BY <1>3, <2>1, <2>2 DEF Truthful
<1>8. HALF_RANGE \in Nat
  BY RangeAssumption
<1>9. ASSUME NEW u \in unacknowledged_packets[q]
      PROVE  m.ackId - u.id < HALF_RANGE /\ u.id - m.ackId < HALF_RANGE
  <2>1. Truthful(q, u) /\ u \in Packets
    BY DEF IInv, PacketsTruthful, TypeOK
  <2>2. u.id \in Nat /\ u.id <= sent[q] /\ u.from = q
    BY <1>2, <2>1 DEF Truthful, Packets
  <2>3. sent[q] - u.id < HALF_RANGE
    BY <2>2 DEF WithinHalfSpace
  <2> QED
    BY <1>2, <1>5, <1>7, <1>8, <2>2, <2>3
<1> QED
  BY <1>2, <1>4, <1>5, <1>6, <1>8, <1>9

\* The sequence numbers in a header order and separate packets as their
\* unwrapped numbers do.
LEMMA HeaderNumbers ==
  ASSUME IInv, WithinHalfSpace, NEW q \in Peers, NEW m \in network, m.from = Other(q)
  PROVE  /\ m.id \in Ids(Other(q))
         /\ m.id \in Nat /\ highestId[q] \in Nat
         /\ IsSequenceMoreRecent(m.sequence, highest_received_sequence[q])
              <=> m.id > highestId[q]
         /\ m.id >= highestId[q] =>
              WrappingSub(m.sequence, highest_received_sequence[q]) = m.id - highestId[q]
         /\ m.id <= highestId[q] =>
              WrappingSub(highest_received_sequence[q], m.sequence) = highestId[q] - m.id
<1>1. /\ m.id \in 1 .. sent[Other(q)]
      /\ m.sequence = m.id % SeqSpace
  BY DEF IInv, PacketsTruthful, Truthful
<1>2. /\ sent[Other(q)] \in Nat /\ pending[Other(q)] \in 0 .. MaxPending
      /\ MaxPending \in Nat /\ MaxSent[Other(q)] \in Nat
      /\ sent[Other(q)] + pending[Other(q)] <= MaxSent[Other(q)]
  BY OtherPeer, PeersAssumption DEF IInv, TypeOK, CountersAgree
<1>3. m.id \in Ids(Other(q)) /\ m.id \in Nat
  BY <1>1, <1>2 DEF Ids
<1>4. highestId[q] \in Nat /\ highest_received_sequence[q] = highestId[q] % SeqSpace
  BY DEF IInv, TypeOK, WindowExact
<1>5. m.id - highestId[q] < HALF_RANGE /\ highestId[q] - m.id < HALF_RANGE
  BY ArrivalsNear
<1>6. IsSequenceMoreRecent(m.sequence, highest_received_sequence[q])
        <=> m.id > highestId[q]
  BY <1>1, <1>3, <1>4, <1>5, SequenceOrder
<1>7. ASSUME m.id >= highestId[q]
      PROVE  WrappingSub(m.sequence, highest_received_sequence[q]) = m.id - highestId[q]
  <2>1. 0 <= m.id - highestId[q]
    BY <1>3, <1>4, <1>7
  <2> QED
    BY <1>1, <1>3, <1>4, <1>5, <2>1, WrappingSubExact
<1>8. ASSUME m.id <= highestId[q]
      PROVE  WrappingSub(highest_received_sequence[q], m.sequence) = highestId[q] - m.id
  <2>1. 0 <= highestId[q] - m.id
    BY <1>3, <1>4, <1>8
  <2> QED
    BY <1>1, <1>3, <1>4, <1>5, <2>1, WrappingSubExact
<1> QED
  BY <1>3, <1>4, <1>6, <1>7, <1>8

\* A packet found acknowledged, or the one after it, was accepted by the peer.
LEMMA AckedNear ==
  ASSUME IInv, WithinHalfSpace, NEW q \in Peers, NEW m \in network, m.from = Other(q),
         NEW u \in unacknowledged_packets[q], IsAcked(u.sequence, m)
  PROVE  {u.id, u.id + 1} \cap Accepted(Other(q)) # {}
<1>1. /\ m.ack = m.ackId % SeqSpace
      /\ m.ackId = 0 \/ m.ackId \in Accepted(Other(q))
      /\ \A d \in m.ack_bitfield : m.ackId - d \in Accepted(Other(q))
      /\ m.ackId \in Nat
  BY DEF IInv, PacketsTruthful, Truthful, TypeOK, Packets
<1>2. /\ u.sequence = u.id % SeqSpace
      /\ u.id \in Nat \ {0}
  <2>1. Truthful(q, u) /\ u \in Packets
    BY DEF IInv, PacketsTruthful, TypeOK
  <2>2. sent[q] \in Nat
    BY DEF IInv, TypeOK
  <2> QED
    BY <2>1, <2>2 DEF Truthful, Packets
<1>3. m.ackId - u.id < HALF_RANGE /\ u.id - m.ackId < HALF_RANGE
  BY ArrivalsNear
<1>4. CASE u.sequence = m.ack
  <2>1. u.id = m.ackId
    BY <1>1, <1>2, <1>3, <1>4, ModInjective
  <2> QED
    BY <1>1, <1>2, <2>1
<1>5. CASE /\ IsSequenceMoreRecent(m.ack, u.sequence)
           /\ WrappingSub(m.ack, u.sequence) - 1 \in m.ack_bitfield
  <2>1. m.ackId > u.id
    BY <1>1, <1>2, <1>3, <1>5, SequenceOrder
  <2>2. WrappingSub(m.ack, u.sequence) = m.ackId - u.id
    <3>1. 0 <= m.ackId - u.id
      BY <1>1, <1>2, <2>1
    <3> QED
      BY <1>1, <1>2, <1>3, <3>1, WrappingSubExact
  <2>3. m.ackId - (m.ackId - u.id - 1) \in Accepted(Other(q))
    BY <1>1, <1>5, <2>2
  <2>4. m.ackId - (m.ackId - u.id - 1) = u.id + 1
    BY <1>1, <1>2
  <2> QED
    BY <2>3, <2>4
<1> QED
  BY <1>4, <1>5 DEF IsAcked

-------------------------------------------------------------------------------
(* What the steps keep of the invariant. *)

LEMMA TruthfulStays ==
  ASSUME NEW p \in Peers, NEW m, Truthful(p, m), sent[p] \in Nat, sent'[p] \in Nat,
         sent[p] <= sent'[p], Accepted(p) \subseteq Accepted(p)'
  PROVE  Truthful(p, m)'
<1>1. 1 .. sent[p] \subseteq 1 .. sent'[p]
  OBVIOUS
<1> QED
  BY <1>1 DEF Truthful

LEMMA TakeHeaderKeeps ==
  ASSUME IInv, WithinHalfSpace, NEW q \in Peers, NEW m \in network, TakeHeader(q, m),
         \A r \in Peers : Accepted(r) \subseteq Accepted(r)'
  PROVE  PacketsTruthful' /\ ClearedNearAccepted'
<1>1. sent' = sent /\ sent \in [Peers -> Nat]
  BY DEF TakeHeader, connVars, IInv, TypeOK
<1>2. network' \subseteq network
  BY DEF TakeHeader
<1>3. \A r \in Peers : unacknowledged_packets'[r] \subseteq unacknowledged_packets[r]
  BY DEF TakeHeader, IInv, TypeOK
<1>4. PacketsTruthful'
  <2>1. ASSUME NEW n \in network'
        PROVE  Truthful(n.from, n)'
    <3>1. n.from \in Peers /\ Truthful(n.from, n)
      BY <1>2 DEF IInv, TypeOK, Packets, PacketsTruthful
    <3> QED
      BY <1>1, <3>1, TruthfulStays
  <2>2. ASSUME NEW r \in Peers, NEW u \in unacknowledged_packets'[r]
        PROVE  Truthful(r, u)'
    <3>1. Truthful(r, u)
      BY <1>3 DEF IInv, PacketsTruthful
    <3> QED
      BY <1>1, <3>1, TruthfulStays
  <2> QED
    BY <2>1, <2>2 DEF PacketsTruthful
<1>5. ClearedNearAccepted'
  <2> SUFFICES ASSUME NEW p \in Peers, NEW i \in cleared'[p]
               PROVE  {i, i + 1} \cap Accepted(Other(p))' # {}
    BY DEF ClearedNearAccepted
  <2>1. Accepted(Other(p)) \subseteq Accepted(Other(p))'
    BY OtherPeer
  <2>2. CASE i \in cleared[p]
    BY <2>1, <2>2 DEF IInv, ClearedNearAccepted
  <2>3. CASE i \notin cleared[p]
    <3>1. p = q /\ \E u \in unacknowledged_packets[q] : IsAcked(u.sequence, m) /\ i = u.id
      BY <2>3 DEF TakeHeader, IInv, TypeOK
    <3>2. m.from = Other(q)
      BY DEF TakeHeader
    <3> QED
      BY <2>1, <3>1, <3>2, AckedNear
  <2> QED
    BY <2>2, <2>3
<1> QED
  BY <1>4, <1>5

LEMMA FlushKeeps ==
  ASSUME IInv, NEW p \in Peers, Flush(p)
  PROVE  PacketsTruthful' /\ CountersAgree'
<1>1. PICK overdue \in SUBSET unacknowledged_packets[p],
           failed \in SUBSET (sent[p] + 1 .. sent[p] + pending[p]) :
        LET drained == sent[p] + 1 .. sent[p] + pending[p]
            fresh == {WirePacket(p, i) : i \in drained \ failed}
        IN  /\ network' = network \cup overdue \cup fresh
            /\ unacknowledged_packets' =
                 [unacknowledged_packets EXCEPT ![p] = @ \cup fresh]
  BY DEF Flush
<1> DEFINE drained == sent[p] + 1 .. sent[p] + pending[p]
           fresh == {WirePacket(p, i) : i \in drained \ failed}
<1>2. /\ sent[p] \in Nat /\ pending[p] \in Nat /\ highestId[p] \in Nat
      /\ next_outgoing_sequence[p] \in SequenceNumbers
  BY PeersAssumption DEF IInv, TypeOK
<1>3. /\ sent' = [sent EXCEPT ![p] = @ + pending[p]]
      /\ pending' = [pending EXCEPT ![p] = 0]
      /\ next_outgoing_sequence' =
           [next_outgoing_sequence EXCEPT ![p] = WrappingAdd(@, pending[p])]
      /\ accepts' = accepts /\ highestId' = highestId
  BY DEF Flush, windowVars
<1>4. \A r \in Peers : Accepted(r)' = Accepted(r)
  BY <1>3, AcceptedSame
<1>5. \A r \in Peers : sent[r] \in Nat /\ sent'[r] \in Nat /\ sent[r] <= sent'[r]
  BY <1>2, <1>3 DEF IInv, TypeOK
<1>6. sent'[p] = sent[p] + pending[p]
  BY <1>3 DEF IInv, TypeOK
<1>7. next_outgoing_sequence[p] = (sent[p] + 1) % SeqSpace
  BY DEF IInv, CountersAgree
<1>8. ASSUME NEW i \in drained, NEW m, m = WirePacket(p, i)
      PROVE  Truthful(p, m)' /\ m.from = p
  <2>1. m.sequence = i % SeqSpace
    <3>1. m.sequence = (((sent[p] + 1) % SeqSpace) + (i - sent[p] - 1)) % SeqSpace
      BY <1>7, <1>8 DEF WirePacket, WrappingAdd
    <3>2. sent[p] + 1 \in Int /\ i - sent[p] - 1 \in Int
      BY <1>2
    <3>3. m.sequence = ((sent[p] + 1) + (i - sent[p] - 1)) % SeqSpace
      BY <3>1, <3>2, ModAdd
    <3>4. (sent[p] + 1) + (i - sent[p] - 1) = i
      BY <1>2
    <3> QED
      BY <3>3, <3>4
  <2>2. /\ m.ack = m.ackId % SeqSpace
        /\ m.ackId = 0 \/ m.ackId \in Accepted(p)
        /\ \A d \in m.ack_bitfield : m.ackId - d \in Accepted(p)
    BY <1>8 DEF WirePacket, IInv, WindowExact, CountersAgree
  <2>3. m.from = p /\ m.id = i /\ i \in 1 .. sent'[p]
    BY <1>2, <1>6, <1>8 DEF WirePacket
  <2> QED
    BY <1>4, <2>1, <2>2, <2>3 DEF Truthful
<1>9. \A m \in fresh : Truthful(p, m)' /\ m.from = p
  BY <1>8
<1>10. \A r, m : r \in Peers /\ Truthful(r, m) => Truthful(r, m)'
  BY <1>4, <1>5, TruthfulStays
<1>11. PacketsTruthful'
  <2>1. \A m \in overdue : Truthful(p, m) /\ m.from = p
    BY DEF IInv, PacketsTruthful, Truthful
  <2>2. \A m \in network : m.from \in Peers /\ Truthful(m.from, m)
    BY DEF IInv, TypeOK, Packets, PacketsTruthful
  <2> HIDE DEF fresh, drained
  <2>3. network' = network \cup overdue \cup fresh
    BY <1>1 DEF fresh, drained
  <2>4. unacknowledged_packets' = [unacknowledged_packets EXCEPT ![p] = @ \cup fresh]
    BY <1>1 DEF fresh, drained
  <2>5. \A m \in network' : Truthful(m.from, m)'
    BY <1>9, <1>10, <2>1, <2>2, <2>3
  <2>6. \A r \in Peers : \A u \in unacknowledged_packets'[r] : Truthful(r, u)'
    BY <1>9, <1>10, <2>4 DEF IInv, TypeOK, PacketsTruthful
  <2> QED
    BY <2>5, <2>6 DEF PacketsTruthful
<1>12. CountersAgree'
  <2>1. WrappingAdd(next_outgoing_sequence[p], pending[p])
          = ((sent[p] + 1) + pending[p]) % SeqSpace
    <3>1. sent[p] + 1 \in Int /\ pending[p] \in Int
      BY <1>2
    <3> QED
      BY <1>7, <3>1, ModAdd DEF WrappingAdd
  <2>2. (sent[p] + 1) + pending[p] = sent'[p] + 1
    BY <1>2, <1>6
  <2>3. next_outgoing_sequence'[p] = (sent'[p] + 1) % SeqSpace
    BY <1>3, <2>1, <2>2 DEF IInv, TypeOK
  <2>4. sent'[p] + pending'[p] <= MaxSent[p]
    BY <1>2, <1>3, <1>6 DEF IInv, TypeOK, CountersAgree
  <2>5. \A r \in Peers \ {p} : /\ next_outgoing_sequence'[r] = next_outgoing_sequence[r]
                               /\ sent'[r] = sent[r] /\ pending'[r] = pending[r]
    BY <1>3 DEF IInv, TypeOK
  <2>6. \A r \in Peers : highestId'[r] <= sent'[Other(r)]
    <3> SUFFICES ASSUME NEW r \in Peers PROVE highestId'[r] <= sent'[Other(r)]
      OBVIOUS
    <3>1. Other(r) \in Peers /\ highestId[r] \in Nat /\ highestId'[r] = highestId[r]
      BY <1>3, OtherPeer DEF IInv, TypeOK
    <3>2. highestId[r] <= sent[Other(r)]
      BY DEF IInv, CountersAgree
    <3> QED
      BY <1>5, <3>1, <3>2
  <2> QED
    BY <1>3, <1>4, <2>3, <2>4, <2>5, <2>6 DEF CountersAgree, IInv
<1> QED
  BY <1>11, <1>12

-------------------------------------------------------------------------------
(* The window. *)

\* Reporting a packet that was not accepted before counts it once.
LEMMA FirstReport ==
  ASSUME IInv, NEW q \in Peers, NEW m, m.id \in Ids(Other(q)), m.id \notin Accepted(q),
         ReportNew(q, m)
  PROVE  AcceptOnce' /\ accepts[q][m.id] = 0
<1>1. accepts[q] \in [Ids(Other(q)) -> Nat] /\ accepts[q][m.id] = 0
  BY DEF IInv, TypeOK, Accepted
<1>2. accepts'[q] = [accepts[q] EXCEPT ![m.id] = @ + 1]
  BY AcceptedGrows DEF IInv
<1>3. \A r \in Peers : r # q => accepts'[r] = accepts[r]
  BY DEF ReportNew, IInv, TypeOK
<1>4. \A i \in Ids(Other(q)) : accepts'[q][i] <= 1
  BY <1>1, <1>2 DEF IInv, AcceptOnce
<1> QED
  BY <1>1, <1>3, <1>4 DEF IInv, AcceptOnce

\* A packet that moves the window is reported for the first time and leaves the
\* window exact.
LEMMA NewestKeeps ==
  ASSUME IInv, WithinHalfSpace, NEW q \in Peers, NEW m \in network, ReceiveNewest(q, m)
  PROVE  /\ m.id \in Ids(Other(q)) /\ m.id \notin Accepted(q)
         /\ WindowExact' /\ AcceptOnce' /\ CountersAgree'
<1>1. TakeHeader(q, m) /\ m.from = Other(q) /\ ReportNew(q, m)
  BY DEF ReceiveNewest, TakeHeader
<1>2. m.id \in Ids(Other(q)) /\ m.id \in Nat /\ highestId[q] \in Nat /\ m.id > highestId[q]
  BY <1>1, HeaderNumbers DEF ReceiveNewest
<1>3. m.id \notin Accepted(q)
  BY <1>2 DEF IInv, WindowExact
<1>4. /\ Accepted(q)' = Accepted(q) \cup {m.id}
      /\ \A r \in Peers : r # q => Accepted(r)' = Accepted(r)
  BY <1>1, <1>2, AcceptedGrows DEF IInv
<1> DEFINE k == m.id - highestId[q]
<1>5. WrappingSub(m.sequence, highest_received_sequence[q]) = k
  BY <1>1, <1>2, HeaderNumbers
<1>6. k \in Nat \ {0} /\ m.id = highestId[q] + k
  BY <1>2
<1>7. received_sequence_bitfield[q] = ExactField(highestId[q], Accepted(q))
  BY DEF IInv, WindowExact, ExactField
<1>8. received_sequence_bitfield'[q] = AdvanceField(received_sequence_bitfield[q], k)
  BY <1>5 DEF ReceiveNewest, IInv, TypeOK
<1> HIDE DEF k
<1>9. received_sequence_bitfield'[q] = ExactField(m.id, Accepted(q) \cup {m.id})
  <2>1. Accepted(q) \in SUBSET Nat
    BY AcceptedNat DEF IInv
  <2>2. \A i \in Accepted(q) : i <= highestId[q]
    BY DEF IInv, WindowExact
  <2>3. AdvanceField(ExactField(highestId[q], Accepted(q)), k)
          = ExactField(highestId[q] + k, Accepted(q) \cup {highestId[q] + k})
    BY <1>2, <1>6, <2>1, <2>2, AdvanceExact
  <2> QED
    BY <1>6, <1>7, <1>8, <2>3
<1>10. /\ highestId' = [highestId EXCEPT ![q] = m.id]
       /\ highest_received_sequence' = [highest_received_sequence EXCEPT ![q] = m.sequence]
       /\ \A r \in Peers : r # q =>
            received_sequence_bitfield'[r] = received_sequence_bitfield[r]
  BY DEF ReceiveNewest, IInv, TypeOK
<1>11. highestId'[q] = m.id /\ highest_received_sequence'[q] = m.id % SeqSpace
  BY <1>10 DEF IInv, TypeOK, PacketsTruthful, Truthful
<1>12. \A r \in Peers : r # q => /\ highestId'[r] = highestId[r]
                                 /\ highest_received_sequence'[r] = highest_received_sequence[r]
  BY <1>10 DEF IInv, TypeOK
<1>13. WindowExact'
  <2>1. \A i \in Accepted(q)' : i <= highestId'[q]
    <3>1. \A i \in Accepted(q) : i \in Nat /\ i <= highestId[q]
      BY AcceptedNat DEF IInv, WindowExact
    <3> QED
      BY <1>2, <1>4, <1>11, <3>1
  <2>2. received_sequence_bitfield'[q] =
          {d \in 0 .. BITFIELD_BITS - 1 : highestId'[q] - d \in Accepted(q)'}
    BY <1>4, <1>9, <1>11 DEF ExactField
  <2>3. \A r \in Peers : r # q =>
          /\ received_sequence_bitfield'[r] =
               {d \in 0 .. BITFIELD_BITS - 1 : highestId'[r] - d \in Accepted(r)'}
          /\ \A i \in Accepted(r)' : i <= highestId'[r]
          /\ highest_received_sequence'[r] = highestId'[r] % SeqSpace
    BY <1>4, <1>10, <1>12 DEF IInv, WindowExact
  <2> QED
    BY <1>11, <2>1, <2>2, <2>3 DEF WindowExact
<1>14. AcceptOnce'
  BY <1>1, <1>2, <1>3, FirstReport
<1>15. CountersAgree'
  <2>1. highestId'[q] <= sent'[Other(q)]
    <3>1. m.id \in 1 .. sent[Other(q)] /\ sent[Other(q)] \in Nat
      BY <1>1, OtherPeer DEF IInv, TypeOK, PacketsTruthful, Truthful
    <3> QED
      BY <1>1, <1>11, <3>1 DEF TakeHeader, connVars
  <2> QED
    BY <1>1, <1>4, <1>11, <1>12, <2>1 DEF IInv, CountersAgree, TakeHeader, connVars
<1> QED
  BY <1>2, <1>3, <1>13, <1>14, <1>15

\* A packet whose bit is set behind the highest one is reported for the first
\* time and leaves the window exact.
LEMMA LateKeeps ==
  ASSUME IInv, WithinHalfSpace, NEW q \in Peers, NEW m \in network, ReceiveLate(q, m)
  PROVE  /\ m.id \in Ids(Other(q)) /\ m.id \notin Accepted(q)
         /\ WindowExact' /\ AcceptOnce' /\ CountersAgree'
<1>1. TakeHeader(q, m) /\ m.from = Other(q) /\ ReportNew(q, m)
  BY DEF ReceiveLate, TakeHeader
<1> DEFINE d == highestId[q] - m.id
<1>2. m.id \in Ids(Other(q)) /\ m.id \in Nat /\ highestId[q] \in Nat /\ d >= 0
  BY <1>1, HeaderNumbers DEF ReceiveLate
<1>3. WrappingSub(highest_received_sequence[q], m.sequence) = d
  BY <1>1, <1>2, HeaderNumbers
<1>4. d # 0 /\ d <= BITFIELD_BITS /\ ShiftCount(d) \notin received_sequence_bitfield[q]
  BY <1>2, <1>3, RangeAssumption DEF ReceiveLate, IsDuplicateOrTooOld
<1>5. d < BITFIELD_BITS /\ ShiftCount(d) = d
  <2>1. CASE d = BITFIELD_BITS
    <3>1. ShiftCount(d) = 0
      BY <2>1, RangeAssumption, ModUnique DEF ShiftCount
    <3>2. highestId[q] # 0
      BY <1>2, <2>1, RangeAssumption
    <3>3. 0 \in received_sequence_bitfield[q]
      BY <1>2, <3>2, RangeAssumption DEF IInv, CountersAgree, WindowExact
    <3> QED
      BY <1>4, <3>1, <3>3
  <2>2. CASE d # BITFIELD_BITS
    <3>1. d \in 0 .. BITFIELD_BITS - 1 /\ d = 0 * BITFIELD_BITS + d /\ d \in Int
      BY <1>2, <1>4, <2>2, RangeAssumption
    <3> QED
      BY <3>1, RangeAssumption, ModUnique DEF ShiftCount
  <2> QED
    BY <2>1, <2>2
<1>6. m.id \notin Accepted(q)
  <2>1. highestId[q] - d = m.id /\ d \in 0 .. BITFIELD_BITS - 1
    BY <1>2, <1>5, RangeAssumption
  <2> HIDE DEF d
  <2> QED
    BY <1>4, <1>5, <2>1 DEF IInv, WindowExact
<1>7. /\ Accepted(q)' = Accepted(q) \cup {m.id}
      /\ \A r \in Peers : r # q => Accepted(r)' = Accepted(r)
  BY <1>1, <1>2, AcceptedGrows DEF IInv
<1>8. received_sequence_bitfield' = [received_sequence_bitfield EXCEPT ![q] = @ \cup {d}]
  BY <1>3, <1>5 DEF ReceiveLate
<1>9. highestId' = highestId /\ highest_received_sequence' = highest_received_sequence
  BY DEF ReceiveLate
<1>10. WindowExact'
  <2>1. \A e \in 0 .. BITFIELD_BITS - 1 :
          highestId[q] - e \in Accepted(q) \cup {m.id}
            <=> e \in received_sequence_bitfield[q] \cup {d}
    BY <1>2, <1>5 DEF IInv, WindowExact
  <2>2. received_sequence_bitfield[q] \cup {d} \subseteq 0 .. BITFIELD_BITS - 1
    BY <1>2, <1>5, RangeAssumption DEF IInv, WindowExact
  <2>3. received_sequence_bitfield'[q] = received_sequence_bitfield[q] \cup {d}
    BY <1>8 DEF IInv, TypeOK
  <2>4. /\ received_sequence_bitfield'[q] =
             {e \in 0 .. BITFIELD_BITS - 1 : highestId'[q] - e \in Accepted(q)'}
        /\ \A i \in Accepted(q)' : i <= highestId'[q]
    BY <1>2, <1>7, <1>9, <2>1, <2>2, <2>3 DEF IInv, WindowExact
  <2>5. \A r \in Peers : r # q =>
          /\ received_sequence_bitfield'[r] = received_sequence_bitfield[r]
          /\ Accepted(r)' = Accepted(r)
    BY <1>7, <1>8 DEF IInv, TypeOK
  <2> QED
    BY <1>9, <2>4, <2>5 DEF IInv, WindowExact
<1>11. AcceptOnce'
  BY <1>1, <1>2, <1>6, FirstReport
<1>12. CountersAgree'
  BY <1>1, <1>7, <1>9 DEF IInv, CountersAgree, TakeHeader, connVars
<1> QED
  BY <1>2, <1>6, <1>10, <1>11, <1>12

-------------------------------------------------------------------------------
(* The invariant. *)

LEMMA InvInit == Init => IInv
<1> SUFFICES ASSUME Init PROVE IInv
  OBVIOUS
<1>1. TypeOK
  BY TypeInit
<1>2. \A r \in Peers : Accepted(r) = {} /\ highestId[r] = 0 /\ sent[r] = 0 /\ pending[r] = 0
  BY DEF Init, Accepted
<1>3. 0 % SeqSpace = 0
  BY SpaceType, ModSmall DEF SequenceNumbers
<1>4. CountersAgree
  BY <1>2, OtherPeer, PeersAssumption DEF Init, CountersAgree, WrappingAdd
<1>5. PacketsTruthful /\ ClearedNearAccepted
  BY DEF Init, PacketsTruthful, ClearedNearAccepted
<1>6. WindowExact
  BY <1>2, <1>3 DEF Init, WindowExact
<1>7. AcceptOnce
  BY DEF Init, AcceptOnce
<1> QED
  BY <1>1, <1>4, <1>5, <1>6, <1>7 DEF IInv

LEMMA WindowUnchanged ==
  ASSUME IInv, highestId' = highestId, accepts' = accepts,
         highest_received_sequence' = highest_received_sequence,
         received_sequence_bitfield' = received_sequence_bitfield
  PROVE  /\ WindowExact' /\ AcceptOnce'
         /\ \A r \in Peers : Accepted(r)' = Accepted(r)
<1>1. \A r \in Peers : Accepted(r)' = Accepted(r)
  BY AcceptedSame
<1> QED
  BY <1>1 DEF IInv, WindowExact, AcceptOnce

LEMMA InvStep == IInv /\ WithinHalfSpace /\ [Next]_vars => IInv'
<1> SUFFICES ASSUME IInv, WithinHalfSpace, [Next]_vars PROVE IInv'
  OBVIOUS
<1>0. TypeOK'
  BY TypeStep DEF IInv
<1>1. ASSUME NEW p \in Peers, QueuePendingSend(p)
      PROVE  IInv'
  <2>1. WindowExact' /\ AcceptOnce' /\ \A r \in Peers : Accepted(r)' = Accepted(r)
    BY <1>1, WindowUnchanged DEF QueuePendingSend, windowVars
  <2>2. CountersAgree'
    <3>1. sent'[p] + pending'[p] <= MaxSent[p]
      <4>1. pending[p] \in Nat /\ sent[p] \in Nat /\ MaxSent[p] \in Nat
        BY PeersAssumption DEF IInv, TypeOK
      <4> QED
        BY <1>1, <4>1 DEF QueuePendingSend, IInv, TypeOK
    <3>2. \A r \in Peers : r # p => pending'[r] = pending[r]
      BY <1>1 DEF QueuePendingSend, IInv, TypeOK
    <3> QED
      BY <1>1, <2>1, <3>1, <3>2 DEF QueuePendingSend, windowVars, IInv, CountersAgree
  <2>3. PacketsTruthful' /\ ClearedNearAccepted'
    <3>1. UNCHANGED <<sent, network, unacknowledged_packets, cleared>>
      BY <1>1 DEF QueuePendingSend, ackVars
    <3> QED
      BY <2>1, <3>1, OtherPeer
      DEF IInv, TypeOK, Packets, PacketsTruthful, Truthful, ClearedNearAccepted
  <2> QED
    BY <1>0, <2>1, <2>2, <2>3 DEF IInv
<1>2. ASSUME NEW p \in Peers, Flush(p)
      PROVE  IInv'
  <2>1. WindowExact' /\ AcceptOnce' /\ \A r \in Peers : Accepted(r)' = Accepted(r)
    BY <1>2, WindowUnchanged DEF Flush, windowVars
  <2>2. ClearedNearAccepted'
    BY <1>2, <2>1, OtherPeer DEF Flush, IInv, ClearedNearAccepted
  <2> QED
    BY <1>0, <1>2, <2>1, <2>2, FlushKeeps DEF IInv
<1>3. ASSUME NEW q \in Peers, NEW m \in network, ReceiveNewest(q, m)
      PROVE  IInv'
  <2>1. TakeHeader(q, m) /\ ReportNew(q, m) /\ m.id \in Ids(Other(q))
    BY <1>3, NewestKeeps DEF ReceiveNewest
  <2>2. \A r \in Peers : Accepted(r) \subseteq Accepted(r)'
    BY <2>1, AcceptedGrows DEF IInv
  <2> QED
    BY <1>0, <1>3, <2>1, <2>2, NewestKeeps, TakeHeaderKeeps DEF IInv
<1>4. ASSUME NEW q \in Peers, NEW m \in network, ReceiveLate(q, m)
      PROVE  IInv'
  <2>1. TakeHeader(q, m) /\ ReportNew(q, m) /\ m.id \in Ids(Other(q))
    BY <1>4, LateKeeps DEF ReceiveLate
  <2>2. \A r \in Peers : Accepted(r) \subseteq Accepted(r)'
    BY <2>1, AcceptedGrows DEF IInv
  <2> QED
    BY <1>0, <1>4, <2>1, <2>2, LateKeeps, TakeHeaderKeeps DEF IInv
<1>5. ASSUME NEW q \in Peers, NEW m \in network,
             ReceiveDuplicate(q, m) \/ ReceivePanics(q, m)
      PROVE  IInv'
  <2>1. TakeHeader(q, m)
    BY <1>5 DEF ReceiveDuplicate, ReceivePanics
  <2>2. WindowExact' /\ AcceptOnce' /\ \A r \in Peers : Accepted(r)' = Accepted(r)
    BY <1>5, WindowUnchanged DEF ReceiveDuplicate, ReceivePanics, windowVars
  <2>3. CountersAgree'
    BY <1>5, <2>1, <2>2
    DEF ReceiveDuplicate, ReceivePanics, windowVars, TakeHeader, connVars, IInv, CountersAgree
  <2> QED
    BY <1>0, <2>1, <2>2, <2>3, TakeHeaderKeeps DEF IInv
<1>6. ASSUME NEW m \in network, Lose(m)
      PROVE  IInv'
  <2>1. WindowExact' /\ AcceptOnce' /\ \A r \in Peers : Accepted(r)' = Accepted(r)
    BY <1>6, WindowUnchanged DEF Lose, windowVars
  <2>2. CountersAgree'
    BY <1>6, <2>1 DEF Lose, connVars, windowVars, IInv, CountersAgree
  <2>3. PacketsTruthful' /\ ClearedNearAccepted'
    <3>1. UNCHANGED <<sent, unacknowledged_packets, cleared>> /\ network' \subseteq network
      BY <1>6 DEF Lose, connVars, ackVars
    <3> QED
      BY <2>1, <3>1, OtherPeer
      DEF IInv, TypeOK, Packets, PacketsTruthful, Truthful, ClearedNearAccepted
  <2> QED
    BY <1>0, <2>1, <2>2, <2>3 DEF IInv
<1>7. ASSUME UNCHANGED vars
      PROVE  IInv'
  <2>1. UNCHANGED <<pending, next_outgoing_sequence, sent, highest_received_sequence,
                    received_sequence_bitfield, highestId, accepts,
                    unacknowledged_packets, cleared, network>>
    BY <1>7 DEF vars, connVars, windowVars, ackVars
  <2>2. WindowExact' /\ AcceptOnce' /\ \A r \in Peers : Accepted(r)' = Accepted(r)
    BY <2>1, WindowUnchanged
  <2>3. CountersAgree'
    BY <2>1, <2>2 DEF IInv, CountersAgree
  <2>4. PacketsTruthful' /\ ClearedNearAccepted'
    BY <2>1, <2>2, OtherPeer
    DEF IInv, TypeOK, Packets, PacketsTruthful, Truthful, ClearedNearAccepted
  <2> QED
    BY <1>0, <2>2, <2>3, <2>4 DEF IInv
<1> QED
  BY <1>1, <1>2, <1>3, <1>4, <1>5, <1>6, <1>7 DEF Next, Receive

LEMMA LimitInit == Init => WithinHalfSpace
<1>1. Init => \A p \in Peers : /\ sent[p] = 0 /\ highestId[p] = 0
                               /\ network = {} /\ unacknowledged_packets[p] = {}
  BY DEF Init
<1>2. \A p \in Peers : Other(p) \in Peers
  BY OtherPeer
<1> QED
  BY <1>1, <1>2, RangeAssumption DEF WithinHalfSpace

LEMMA LimitStays ==
  WithinHalfSpace /\ [Next /\ WithinHalfSpace']_vars => WithinHalfSpace'
<1>1. WithinHalfSpace /\ UNCHANGED vars => WithinHalfSpace'
  BY DEF vars, connVars, windowVars, ackVars, WithinHalfSpace
<1> QED
  BY <1>1

\* The limit is on what the application sends: whatever arrives, arrives again, is
\* lost, is only queued or is sent again keeps it.  No reception and no resend is
\* ruled out.
THEOREM OnlySendsAreLimited ==
  ASSUME IInv, WithinHalfSpace,
         \/ \E p \in Peers : QueuePendingSend(p) \/ Receive(p)
         \/ \E p \in Peers : Flush(p) /\ pending[p] = 0
         \/ \E m \in network : Lose(m)
  PROVE  WithinHalfSpace'
<1>0. ASSUME NEW q \in Peers, Flush(q), pending[q] = 0
      PROVE  /\ sent' = sent /\ unacknowledged_packets' = unacknowledged_packets
             /\ highestId' = highestId
             /\ network' \subseteq network \cup unacknowledged_packets[q]
  <2>1. sent \in [Peers -> Nat] /\ sent[q] \in Nat
    BY DEF IInv, TypeOK
  <2> DEFINE drained == sent[q] + 1 .. sent[q] + pending[q]
  <2>2. drained = {}
    BY <1>0, <2>1
  <2>3. sent' = sent
    BY <1>0, <2>1 DEF Flush
  <2>4. PICK overdue \in SUBSET unacknowledged_packets[q], failed \in SUBSET drained :
          LET fresh == {WirePacket(q, i) : i \in drained \ failed}
          IN  /\ network' = network \cup overdue \cup fresh
              /\ unacknowledged_packets' =
                   [unacknowledged_packets EXCEPT ![q] = @ \cup fresh]
    BY <1>0 DEF Flush
  <2> HIDE DEF drained
  <2>5. {WirePacket(q, i) : i \in drained \ failed} = {}
    BY <2>2
  <2>6. /\ network' = network \cup overdue
        /\ unacknowledged_packets' =
             [unacknowledged_packets EXCEPT ![q] = unacknowledged_packets[q]]
    BY <2>4, <2>5
  <2>7. unacknowledged_packets' = unacknowledged_packets
    BY <2>6 DEF IInv, TypeOK
  <2> QED
    BY <1>0, <2>3, <2>6, <2>7 DEF Flush, windowVars
<1>1. /\ sent' = sent
      /\ \A m \in network' : m \in network \/ \E q \in Peers : m \in unacknowledged_packets[q]
  BY <1>0 DEF QueuePendingSend, Receive, ReceiveNewest, ReceiveLate, ReceiveDuplicate,
         ReceivePanics, TakeHeader, Lose, connVars
<1>2. \A r \in Peers : unacknowledged_packets'[r] \subseteq unacknowledged_packets[r]
  BY <1>0 DEF IInv, TypeOK, QueuePendingSend, Receive, ReceiveNewest, ReceiveLate,
         ReceiveDuplicate, ReceivePanics, TakeHeader, Lose, ackVars
<1>3. \A r \in Peers : highestId[r] <= highestId'[r] /\ highestId'[r] \in Nat
  <2>1. ASSUME NEW q \in Peers, NEW m \in network, ReceiveNewest(q, m)
        PROVE  \A r \in Peers : highestId[r] <= highestId'[r] /\ highestId'[r] \in Nat
    <3>1. /\ m.from = Other(q)
          /\ IsSequenceMoreRecent(m.sequence, highest_received_sequence[q])
          /\ highestId' = [highestId EXCEPT ![q] = m.id]
      BY <2>1 DEF ReceiveNewest, TakeHeader
    <3>2. m.id \in Nat /\ highestId[q] \in Nat /\ m.id > highestId[q]
      BY <3>1, HeaderNumbers
    <3> QED
      BY <3>1, <3>2 DEF IInv, TypeOK
  <2>2. CASE highestId' = highestId
    BY <2>2 DEF IInv, TypeOK
  <2>3. \/ highestId' = highestId
        \/ \E q \in Peers, m \in network : ReceiveNewest(q, m)
    BY <1>0 DEF QueuePendingSend, Receive, ReceiveLate, ReceiveDuplicate, ReceivePanics,
           Lose, windowVars
  <2> QED
    BY <2>1, <2>2, <2>3
<1> SUFFICES ASSUME NEW p \in Peers
             PROVE  /\ sent'[p] - highestId'[Other(p)] < HALF_RANGE
                    /\ \A m \in network' \cup unacknowledged_packets'[p] : m.from = p =>
                         /\ sent'[p] - m.id < HALF_RANGE
                         /\ sent'[Other(p)] - m.ackId < HALF_RANGE
  BY DEF WithinHalfSpace
<1>4. sent'[p] - highestId'[Other(p)] < HALF_RANGE
  <2>1. /\ sent[p] \in Nat /\ highestId[Other(p)] \in Nat /\ highestId'[Other(p)] \in Nat
        /\ highestId[Other(p)] <= highestId'[Other(p)]
    BY <1>3, OtherPeer DEF IInv, TypeOK
  <2>2. sent[p] - highestId[Other(p)] < HALF_RANGE /\ HALF_RANGE \in Nat
    BY RangeAssumption DEF WithinHalfSpace
  <2> QED
    BY <1>1, <2>1, <2>2
<1>5. ASSUME NEW m \in network' \cup unacknowledged_packets'[p], m.from = p
      PROVE  m \in network \cup unacknowledged_packets[p]
  <2>1. \A q \in Peers : \A u \in unacknowledged_packets[q] : u.from = q
    BY DEF IInv, PacketsTruthful, Truthful
  <2> QED
    BY <1>1, <1>2, <1>5, <2>1
<1> QED
  BY <1>1, <1>4, <1>5 DEF WithinHalfSpace

\* In every reachable state the counters, the windows, the packets in flight and
\* the acknowledgements of both peers agree.
THEOREM Invariant == LimitedSpec => []IInv
<1>1. IInv /\ WithinHalfSpace /\ [Next /\ WithinHalfSpace']_vars
        => (IInv /\ WithinHalfSpace)'
  BY InvStep, LimitStays
<1> QED
  BY <1>1, InvInit, LimitInit, PTL DEF LimitedSpec

LEMMA Limited == LimitedSpec => []WithinHalfSpace
<1>1. WithinHalfSpace /\ [Next /\ WithinHalfSpace']_vars => WithinHalfSpace'
  BY LimitStays
<1> QED
  BY <1>1, LimitInit, PTL DEF LimitedSpec

-------------------------------------------------------------------------------
(* The properties. *)

\* The receive window describes exactly the packets that were accepted.
THEOREM WindowIsExact == LimitedSpec => []WindowExact
<1>1. IInv => WindowExact
  BY DEF IInv
<1> QED
  BY <1>1, Invariant, PTL

\* No packet is reported as new twice.
THEOREM NeverTwice == LimitedSpec => []AcceptOnce
<1>1. IInv => AcceptOnce
  BY DEF IInv
<1> QED
  BY <1>1, Invariant, PTL

\* Every acknowledgement on its way names packets its sender accepted.
THEOREM AcksTrue == LimitedSpec => []PacketsTruthful
<1>1. IInv => PacketsTruthful
  BY DEF IInv
<1> QED
  BY <1>1, Invariant, PTL

\* A packet is dropped as acknowledged only next to an accepted one.
THEOREM ClearedIsNear == LimitedSpec => []ClearedNearAccepted
<1>1. IInv => ClearedNearAccepted
  BY DEF IInv
<1> QED
  BY <1>1, Invariant, PTL

\* No packet inside the window is turned away unless it was reported before.
THEOREM NothingNewRefused == LimitedSpec => []NewIsAccepted
<1>1. IInv /\ WithinHalfSpace => NewIsAccepted
  <2> SUFFICES ASSUME IInv, WithinHalfSpace, NEW m \in network, NEW q, q = Other(m.from),
                      ~IsSequenceMoreRecent(m.sequence, highest_received_sequence[q]),
                      IsDuplicateOrTooOld(highest_received_sequence[q],
                                          received_sequence_bitfield[q], m.sequence)
               PROVE  m.id \in Accepted(q) \/ highestId[q] - m.id >= BITFIELD_BITS
    BY DEF NewIsAccepted
  <2>1. m.from \in Peers
    BY DEF IInv, TypeOK, Packets
  <2>2. q \in Peers /\ m.from = Other(q)
    BY <2>1, OtherPeer
  <2> DEFINE d == highestId[q] - m.id
  <2>3. m.id \in Nat \ {0} /\ highestId[q] \in Nat /\ d >= 0 /\ m.id <= highestId[q]
    <3>1. m.id \in Ids(Other(q)) /\ m.id \in Nat /\ highestId[q] \in Nat
          /\ ~(m.id > highestId[q])
      BY <2>2, HeaderNumbers
    <3>2. m.id # 0
      <4>1. MaxSent[Other(q)] \in Nat
        BY <2>2, OtherPeer, PeersAssumption
      <4> QED
        BY <3>1, <4>1 DEF Ids
    <3> QED
      BY <3>1, <3>2
  <2>4. WrappingSub(highest_received_sequence[q], m.sequence) = d
    BY <2>2, <2>3, HeaderNumbers
  <2>5. CASE d = 0
    BY <2>2, <2>3, <2>5 DEF IInv, CountersAgree
  <2>6. CASE d >= BITFIELD_BITS
    BY <2>6
  <2>7. CASE d # 0 /\ d < BITFIELD_BITS
    <3>1. d \in 0 .. BITFIELD_BITS - 1 /\ d = 0 * BITFIELD_BITS + d /\ d \in Int
          /\ highestId[q] - d = m.id
      BY <2>3, <2>7, RangeAssumption
    <3> HIDE DEF d
    <3>2. ShiftCount(d) = d
      BY <3>1, RangeAssumption, ModUnique DEF ShiftCount
    <3>3. d \in received_sequence_bitfield[q]
      BY <2>4, <2>7, <3>1, <3>2, RangeAssumption DEF IsDuplicateOrTooOld
    <3> QED
      BY <2>2, <3>1, <3>3 DEF IInv, WindowExact
  <2> QED
    BY <2>3, <2>5, <2>6, <2>7, RangeAssumption
<1> QED
  BY <1>1, Invariant, Limited, PTL

-------------------------------------------------------------------------------
(* The refinement. *)

LEMMA RefinesInit == Init => Delivery!Init
BY DEF Init, Delivery!Init

\* A step that reports m for the first time is the abstract Accept.
LEMMA ReportIsAccept ==
  ASSUME IInv, NEW q \in Peers, NEW m \in network, TakeHeader(q, m), ReportNew(q, m),
         m.id \in Ids(Other(q)), m.id \notin Accepted(q)
  PROVE  Delivery!Next
<1>1. accepts[q] \in [Ids(Other(q)) -> Nat] /\ accepts[q][m.id] = 0
  BY DEF IInv, TypeOK, Accepted
<1>2. accepts' = [accepts EXCEPT ![q][m.id] = 1]
  BY <1>1 DEF ReportNew
<1>3. m.id <= sent[Other(q)] /\ sent' = sent
  <2>1. m.id \in 1 .. sent[Other(q)] /\ sent[Other(q)] \in Nat
    BY OtherPeer DEF TakeHeader, IInv, TypeOK, PacketsTruthful, Truthful
  <2> QED
    BY <2>1 DEF TakeHeader, connVars
<1>4. Delivery!Accept(q, Other(q), m.id)
  BY <1>1, <1>2, <1>3 DEF Delivery!Accept
<1> QED
  BY <1>4, OtherPeer DEF Delivery!Next

LEMMA RefinesStep ==
  IInv /\ WithinHalfSpace /\ [Next]_vars => [Delivery!Next]_(Delivery!vars)
<1> SUFFICES ASSUME IInv, WithinHalfSpace, [Next]_vars PROVE [Delivery!Next]_(Delivery!vars)
  OBVIOUS
<1>1. ASSUME NEW p \in Peers, QueuePendingSend(p)
      PROVE  UNCHANGED Delivery!vars
  BY <1>1 DEF QueuePendingSend, windowVars, Delivery!vars
<1>2. ASSUME NEW p \in Peers, Flush(p)
      PROVE  [Delivery!Next]_(Delivery!vars)
  <2>1. accepts' = accepts /\ sent' = [sent EXCEPT ![p] = @ + pending[p]]
    BY <1>2 DEF Flush, windowVars
  <2>2. sent[p] \in Nat /\ pending[p] \in Nat /\ sent \in [Peers -> Nat]
    BY PeersAssumption DEF IInv, TypeOK
  <2>3. CASE pending[p] = 0
    BY <2>1, <2>2, <2>3 DEF Delivery!vars
  <2>4. CASE pending[p] # 0
    <3>1. sent'[p] = sent[p] + pending[p] /\ sent'[p] > sent[p]
      BY <2>1, <2>2, <2>4
    <3>2. Delivery!Send(p)
      BY <2>1, <3>1 DEF Delivery!Send
    <3> QED
      BY <3>2 DEF Delivery!Next
  <2> QED
    BY <2>3, <2>4
<1>3. ASSUME NEW q \in Peers, NEW m \in network, ReceiveNewest(q, m)
      PROVE  Delivery!Next
  BY <1>3, NewestKeeps, ReportIsAccept DEF ReceiveNewest
<1>4. ASSUME NEW q \in Peers, NEW m \in network, ReceiveLate(q, m)
      PROVE  Delivery!Next
  BY <1>4, LateKeeps, ReportIsAccept DEF ReceiveLate
<1>5. ASSUME NEW q \in Peers, NEW m \in network,
             ReceiveDuplicate(q, m) \/ ReceivePanics(q, m)
      PROVE  UNCHANGED Delivery!vars
  BY <1>5 DEF ReceiveDuplicate, ReceivePanics, TakeHeader, windowVars, connVars, Delivery!vars
<1>6. ASSUME NEW m \in network, Lose(m)
      PROVE  UNCHANGED Delivery!vars
  BY <1>6 DEF Lose, windowVars, connVars, Delivery!vars
<1>7. ASSUME UNCHANGED vars
      PROVE  UNCHANGED Delivery!vars
  BY <1>7 DEF vars, windowVars, connVars, Delivery!vars
<1> QED
  BY <1>1, <1>2, <1>3, <1>4, <1>5, <1>6, <1>7 DEF Next, Receive

\* The channel implements at-most-once delivery of what was sent.
THEOREM Refinement == LimitedSpec => ImplementsDelivery
<1>1. LimitedSpec => Delivery!Init /\ [][Delivery!Next]_(Delivery!vars)
  BY RefinesInit, RefinesStep, Invariant, Limited, PTL DEF LimitedSpec
<1> QED
  BY <1>1 DEF ImplementsDelivery, Delivery!Spec

===============================================================================

----------------------- MODULE RetransmissionTimer_proofs -----------------------
(***************************************************************************)
(* The bounds on the time to a retransmission, for every setting of the    *)
(* timeouts and of the update period and any number of packets.            *)
(***************************************************************************)
EXTENDS RetransmissionTimer, TLAPS

LEMMA Timeouts ==
  /\ MIN_RTO \in Nat \ {0} /\ MAX_RTO \in Nat /\ MAX_BACKOFF \in Nat
  /\ MIN_RTO <= MAX_RTO /\ MAX_RTO <= MAX_BACKOFF
  /\ InitialRto \in MIN_RTO .. MAX_BACKOFF
  /\ UpdatePeriod \in Nat \ {0} /\ MaxPackets \in Nat
  BY TimerAssumption

\* A packet's record has its fields.
LEMMA PacketType ==
  ASSUME TypeOK, NEW u \in Unacked
  PROVE  /\ unacknowledged_packets[u] \in UnackedPackets
         /\ unacknowledged_packets[u].elapsed \in Nat
         /\ unacknowledged_packets[u].expired \in Nat
  BY DEF TypeOK, UnackedPackets

\* The timeout grows by half, or to the cap, and never shrinks.
LEMMA BackoffGrows ==
  ASSUME NEW rto \in MIN_RTO .. MAX_BACKOFF
  PROVE  /\ Backoff(rto) \in MIN_RTO .. MAX_BACKOFF
         /\ Backoff(rto) >= rto
         /\ HalfAgainAsLong(Backoff(rto), rto)
<1>1. rto \in Nat /\ rto <= MAX_BACKOFF /\ MIN_RTO <= rto
  BY Timeouts
<1>2. /\ (3 * rto) \div 2 \in Nat
      /\ 2 * ((3 * rto) \div 2) <= 3 * rto
      /\ 3 * rto <= 2 * ((3 * rto) \div 2) + 1
  BY <1>1
<1>3. (3 * rto) \div 2 >= rto
  BY <1>1, <1>2
<1> QED
  BY <1>1, <1>2, <1>3, Timeouts DEF Backoff, HalfAgainAsLong

LEMMA HalfAgainMonotone ==
  ASSUME NEW a \in Nat, NEW b \in Nat, NEW e \in Nat, a <= b, HalfAgainAsLong(a, e)
  PROVE  HalfAgainAsLong(b, e)
  BY Timeouts DEF HalfAgainAsLong

-------------------------------------------------------------------------------
LEMMA InitIInv == Init => IInv
<1> SUFFICES ASSUME Init PROVE IInv
  OBVIOUS
<1>1. Unacked = {}
  BY DEF Init, Unacked
<1>2. unacknowledged_packets \in [Unacked -> UnackedPackets]
  BY <1>1 DEF Init
<1>3. TypeOK
  <2>1. sent \in 0 .. MaxPackets /\ idle \in 0 .. UpdatePeriod
    BY Timeouts DEF Init
  <2>2. retransmission_timeout \in MIN_RTO .. MAX_BACKOFF
    BY Timeouts DEF Init
  <2> QED
    BY <1>1, <1>2, <2>1, <2>2 DEF Init, TypeOK
<1>4. LoopDone /\ TimeoutsGrow /\ YoungerThanTimeout /\ ResentInTime
  BY <1>1 DEF Init, LoopDone, TimeoutsGrow, YoungerThanTimeout, ResentInTime
<1> QED
  BY <1>3, <1>4 DEF IInv

LEMMA PassIInv == ASSUME IInv, Pass PROVE IInv'
<1>1. Unacked' = Unacked
  BY DEF Pass, Older, Unacked
<1>2. \A u \in Unacked :
        /\ unacknowledged_packets'[u] \in UnackedPackets
        /\ unacknowledged_packets'[u].elapsed = unacknowledged_packets[u].elapsed + 1
        /\ unacknowledged_packets'[u].expired = unacknowledged_packets[u].expired
  BY PacketType DEF Pass, Older, IInv, UnackedPackets
<1>3. TypeOK'
  <2>1. unacknowledged_packets' \in [Unacked' -> UnackedPackets]
    BY <1>1, <1>2 DEF Pass, Older
  <2>2. idle' \in 0 .. UpdatePeriod
    BY Timeouts DEF Pass, IInv, TypeOK
  <2> QED
    BY <1>1, <2>1, <2>2 DEF Pass, IInv, TypeOK
<1>4. TimeoutsGrow'
  BY <1>1, <1>2 DEF Pass, IInv, TimeoutsGrow, HalfAgainAsLong
<1>5. \A u \in Unacked :
        unacknowledged_packets'[u].elapsed < MAX_BACKOFF + idle + 1
  <2> TAKE u \in Unacked
  <2>1. unacknowledged_packets[u].elapsed < MAX_BACKOFF + idle
    BY DEF Pass, IInv, LoopDone, YoungerThanTimeout
  <2> QED
    BY <1>2, <2>1, PacketType, Timeouts DEF IInv, TypeOK
<1>6. YoungerThanTimeout'
  <2>1. idle' = idle + 1 /\ ~updating' /\ idle \in Nat
    BY DEF Pass, IInv, TypeOK
  <2> QED
    BY <1>1, <1>5, <2>1, Timeouts DEF YoungerThanTimeout
<1>7. ResentInTime'
  <2>1. idle + 1 <= UpdatePeriod /\ idle \in Nat
    BY Timeouts DEF Pass, IInv, TypeOK
  <2>2. \A u \in Unacked : unacknowledged_packets'[u].elapsed \in Nat
    BY <1>2 DEF UnackedPackets
  <2> QED
    BY <1>1, <1>5, <2>1, <2>2, Timeouts DEF ResentInTime
<1>8. LoopDone'
  BY DEF Pass, IInv, LoopDone
<1> QED
  BY <1>3, <1>4, <1>6, <1>7, <1>8 DEF IInv

LEMMA AcknowledgeIInv ==
  ASSUME IInv, NEW acked \in SUBSET Unacked, Acknowledge(acked)
  PROVE  IInv'
<1>1. Unacked' = Unacked \ acked
  BY DEF Acknowledge, Unacked
<1>2. \A u \in Unacked' :
        /\ unacknowledged_packets'[u] \in UnackedPackets
        /\ unacknowledged_packets'[u].elapsed = unacknowledged_packets[u].elapsed
        /\ \/ unacknowledged_packets'[u].expired = 0
           \/ /\ unacknowledged_packets'[u].expired = unacknowledged_packets[u].expired
              /\ retransmission_timeout' = retransmission_timeout
  BY <1>1, PacketType DEF Acknowledge, Forget, IInv, UnackedPackets
<1>3. retransmission_timeout' \in MIN_RTO .. MAX_BACKOFF
  BY Timeouts DEF Acknowledge, ClampedRto, IInv, TypeOK
<1>4. unexamined = {}
  BY DEF Acknowledge, IInv, LoopDone
<1>5. TypeOK'
  <2>1. unacknowledged_packets' \in [Unacked' -> UnackedPackets]
    BY <1>1, <1>2 DEF Acknowledge
  <2> QED
    BY <1>1, <1>3, <1>4, <2>1 DEF Acknowledge, IInv, TypeOK
<1>6. TimeoutsGrow'
  BY <1>1, <1>2, <1>3, Timeouts DEF IInv, TimeoutsGrow, HalfAgainAsLong
<1>7. YoungerThanTimeout'
  BY <1>1, <1>2, <1>4 DEF Acknowledge, IInv, YoungerThanTimeout
<1>8. ResentInTime'
  BY <1>1, <1>2 DEF IInv, ResentInTime
<1> QED
  BY <1>4, <1>5, <1>6, <1>7, <1>8 DEF Acknowledge, IInv, LoopDone

LEMMA BeginUpdateIInv == ASSUME IInv, BeginUpdate PROVE IInv'
  BY DEF BeginUpdate, IInv, TypeOK, LoopDone, TimeoutsGrow, YoungerThanTimeout,
         ResentInTime, Unacked

LEMMA ResendIInv == ASSUME IInv, NEW u \in unexamined, Resend(u) PROVE IInv'
<1> DEFINE p == [elapsed |-> 0, resent |-> TRUE, expired |-> retransmission_timeout]
<1>1. u \in Unacked /\ retransmission_timeout \in MIN_RTO .. MAX_BACKOFF
  BY DEF IInv, TypeOK
<1>2. p \in UnackedPackets
  BY <1>1, Timeouts DEF UnackedPackets
<1>3. /\ Unacked' = Unacked
      /\ unacknowledged_packets'[u] = p
      /\ \A v \in Unacked \ {u} : unacknowledged_packets'[v] = unacknowledged_packets[v]
      /\ unacknowledged_packets' \in [Unacked -> UnackedPackets]
  BY <1>1, <1>2 DEF Resend, IInv, TypeOK, Unacked
<1>4. TypeOK'
  BY <1>1, <1>3, BackoffGrows DEF Resend, IInv, TypeOK
<1>5. TimeoutsGrow'
  <2> SUFFICES ASSUME NEW v \in Unacked
               PROVE  HalfAgainAsLong(retransmission_timeout',
                                      unacknowledged_packets'[v].expired)
    BY <1>3 DEF TimeoutsGrow, HalfAgainAsLong
  <2>1. CASE v = u
    BY <1>1, <1>3, <2>1, BackoffGrows DEF Resend
  <2>2. CASE v # u
    <3>1. HalfAgainAsLong(retransmission_timeout, unacknowledged_packets[v].expired)
      BY DEF IInv, TimeoutsGrow
    <3>2. /\ retransmission_timeout \in Nat /\ retransmission_timeout' \in Nat
          /\ retransmission_timeout <= retransmission_timeout'
      BY <1>1, BackoffGrows, Timeouts DEF Resend
    <3> QED
      BY <1>3, <2>2, <3>1, <3>2, HalfAgainMonotone, PacketType DEF IInv
  <2> QED
    BY <2>1, <2>2
<1>6. YoungerThanTimeout'
  <2>1. MAX_BACKOFF > 0
    BY Timeouts
  <2> QED
    BY <1>3, <2>1, Timeouts DEF Resend, IInv, YoungerThanTimeout
<1>7. ResentInTime'
  BY <1>3, Timeouts DEF IInv, ResentInTime
<1> QED
  BY <1>4, <1>5, <1>6, <1>7 DEF Resend, IInv, LoopDone

LEMMA SkipIInv == ASSUME IInv, NEW u \in unexamined, Skip(u) PROVE IInv'
<1>1. u \in Unacked /\ retransmission_timeout \in MIN_RTO .. MAX_BACKOFF
  BY DEF IInv, TypeOK
<1>2. unacknowledged_packets[u].elapsed < MAX_BACKOFF
  BY <1>1, PacketType, Timeouts DEF Skip, Overdue, IInv
<1>3. TypeOK' /\ TimeoutsGrow' /\ ResentInTime' /\ LoopDone'
  BY DEF Skip, IInv, TypeOK, TimeoutsGrow, ResentInTime, LoopDone, Unacked
<1>4. YoungerThanTimeout'
  BY <1>2, Timeouts DEF Skip, IInv, YoungerThanTimeout, Unacked
<1> QED
  BY <1>3, <1>4 DEF IInv

LEMMA DrainIInv == ASSUME IInv, NEW n \in 0 .. MaxPackets, Drain(n) PROVE IInv'
<1> DEFINE p == [elapsed |-> 0, resent |-> FALSE, expired |-> 0]
           New == sent + 1 .. sent + n
<1>1. p \in UnackedPackets
  BY DEF UnackedPackets
<1>2. Unacked' = Unacked \cup New
  BY DEF Drain, Unacked
<1>3. \A u \in Unacked' :
        unacknowledged_packets'[u] = IF u \in Unacked THEN unacknowledged_packets[u] ELSE p
  BY <1>2 DEF Drain
<1>4. TypeOK'
  <2>1. unacknowledged_packets' \in [Unacked' -> UnackedPackets]
    BY <1>1, <1>2, <1>3, PacketType DEF Drain, IInv
  <2>2. sent' \in 0 .. MaxPackets /\ Unacked' \subseteq 1 .. sent'
    BY <1>2, Timeouts DEF Drain, IInv, TypeOK
  <2>3. retransmission_timeout' \in MIN_RTO .. MAX_BACKOFF
    BY DEF Drain, IInv, TypeOK
  <2>4. idle' \in 0 .. UpdatePeriod
    BY Timeouts DEF Drain
  <2> QED
    BY <2>1, <2>2, <2>3, <2>4 DEF Drain, TypeOK
<1>5. TimeoutsGrow'
  <2> SUFFICES ASSUME NEW u \in Unacked'
               PROVE  HalfAgainAsLong(retransmission_timeout,
                                      unacknowledged_packets'[u].expired)
    BY DEF Drain, TimeoutsGrow, HalfAgainAsLong
  <2>1. CASE u \in Unacked
    BY <1>3, <2>1 DEF IInv, TimeoutsGrow
  <2>2. CASE u \notin Unacked
    BY <1>3, <2>2, Timeouts DEF IInv, TypeOK, HalfAgainAsLong
  <2> QED
    BY <2>1, <2>2
<1>6. YoungerThanTimeout'
  <2>1. p.elapsed = 0 /\ 0 < MAX_BACKOFF /\ MAX_BACKOFF + 0 = MAX_BACKOFF
    BY Timeouts
  <2>2. \A u \in Unacked : unacknowledged_packets[u].elapsed < MAX_BACKOFF
    <3>1. updating /\ Unacked \ unexamined = Unacked
      BY DEF Drain
    <3> QED
      BY <2>1, <3>1 DEF IInv, YoungerThanTimeout
  <2>3. updating' = FALSE /\ idle' = 0
    BY DEF Drain
  <2> HIDE DEF p
  <2>4. \A u \in Unacked' : unacknowledged_packets'[u].elapsed < MAX_BACKOFF
    BY <1>3, <2>2, <2>1
  <2> QED
    BY <2>1, <2>3, <2>4 DEF YoungerThanTimeout
<1>7. ResentInTime'
  BY <1>3, Timeouts DEF IInv, ResentInTime
<1> QED
  BY <1>4, <1>5, <1>6, <1>7 DEF Drain, IInv, LoopDone

LEMMA NextIInv == IInv /\ [Next]_vars => IInv'
<1> SUFFICES ASSUME IInv, [Next]_vars PROVE IInv'
  OBVIOUS
<1>1. CASE Pass
  BY <1>1, PassIInv
<1>2. CASE \E acked \in SUBSET Unacked : Acknowledge(acked)
  BY <1>2, AcknowledgeIInv
<1>3. CASE BeginUpdate
  BY <1>3, BeginUpdateIInv
<1>4. CASE \E u \in unexamined : Resend(u) \/ Skip(u)
  BY <1>4, ResendIInv, SkipIInv
<1>5. CASE \E n \in 0 .. MaxPackets : Drain(n)
  BY <1>5, DrainIInv
<1>6. CASE UNCHANGED vars
  BY <1>6 DEF vars, IInv, TypeOK, LoopDone, TimeoutsGrow, YoungerThanTimeout,
              ResentInTime, Unacked
<1> QED
  BY <1>1, <1>2, <1>3, <1>4, <1>5, <1>6 DEF Next, Update

-------------------------------------------------------------------------------
\* The inductive invariant holds in every reachable state: the timeout has grown
\* since any packet was resent, and what a loop passes over is younger than it.
THEOREM Invariant == Spec => []IInv
<1> QED
  BY InitIInv, NextIInv, PTL DEF Spec

\* However many packets are resent in one loop of process_retransmissions, each
\* growing the timeout for the next, no packet waits longer than MAX_BACKOFF and
\* one period of the loop.
THEOREM NeverOverdueForLong == Spec => []ResentInTime
<1>1. IInv => ResentInTime
  BY DEF IInv
<1> QED
  BY <1>1, Invariant, PTL

LEMMA StepBacksOff ==
  ASSUME IInv, [Next]_vars, NEW u \in Unacked, u \in Unacked',
         unacknowledged_packets'[u].elapsed < unacknowledged_packets[u].elapsed
  PROVE  /\ unacknowledged_packets[u].elapsed >= MIN_RTO
         /\ HalfAgainAsLong(unacknowledged_packets[u].elapsed,
                            unacknowledged_packets[u].expired)
<1>1. /\ unacknowledged_packets[u].elapsed \in Nat
      /\ unacknowledged_packets[u].expired \in Nat
  BY PacketType DEF IInv
<1>2. unacknowledged_packets'[u].elapsed # unacknowledged_packets[u].elapsed
  BY <1>1
<1>3. ~Pass
  <2>1. Pass => unacknowledged_packets'[u].elapsed = unacknowledged_packets[u].elapsed + 1
    BY PacketType DEF Pass, Older, IInv, UnackedPackets
  <2> QED
    BY <1>1, <2>1
<1>4. ~\E acked \in SUBSET Unacked : Acknowledge(acked)
  BY <1>1, <1>2, PacketType DEF Acknowledge, Forget, Unacked, IInv, UnackedPackets
<1>5. ~\E n \in 0 .. MaxPackets : Drain(n)
  BY <1>2 DEF Drain
<1>6. Resend(u)
  <2>1. PICK v \in unexamined : Resend(v)
    BY <1>2, <1>3, <1>4, <1>5 DEF Next, Update, vars, BeginUpdate, Skip
  <2>2. v = u
    BY <1>2, <2>1 DEF Resend, IInv, TypeOK
  <2> QED
    BY <2>1, <2>2
<1>7. /\ unacknowledged_packets[u].elapsed >= retransmission_timeout
      /\ retransmission_timeout \in MIN_RTO .. MAX_BACKOFF
      /\ HalfAgainAsLong(retransmission_timeout, unacknowledged_packets[u].expired)
  BY <1>6 DEF Resend, Overdue, IInv, TypeOK, TimeoutsGrow
<1> QED
  BY <1>1, <1>7, HalfAgainMonotone, Timeouts

\* A packet is never resent sooner than MIN_RTO after it was sent, and without a
\* round trip measured in between it waits half as long again as the time before.
THEOREM RetransmissionsBackOff == Spec => BacksOff
<1>1. IInv /\ [Next]_vars =>
        [\A u \in Unacked :
           u \in DOMAIN unacknowledged_packets' /\ unacknowledged_packets'[u].elapsed
                                                     < unacknowledged_packets[u].elapsed
             => /\ unacknowledged_packets[u].elapsed >= MIN_RTO
                /\ HalfAgainAsLong(unacknowledged_packets[u].elapsed,
                                   unacknowledged_packets[u].expired)]_vars
  BY StepBacksOff DEF Unacked
<1> QED
  BY <1>1, Invariant, PTL DEF Spec, BacksOff

================================================================================

-------------------------- MODULE RetransmissionTimer --------------------------
(***************************************************************************)
(* When a ReliableConnectionState (crates/protocol/src/protocol.rs) sends  *)
(* its unacknowledged packets again: one retransmission timeout for all of *)
(* them, which grows with every packet resent and is set anew from the     *)
(* round trip of a packet that was not.  ReliableChannel and SecureSession *)
(* leave the time out and let any packet be resent in any update.          *)
(*                                                                         *)
(* The program is one thread: it takes acknowledgements, and calls update  *)
(* at least every UpdatePeriod.  No time passes within an update, whose    *)
(* loop is one action per packet.  Times are in units, rounded down.  What *)
(* a sample makes of the estimate is left open within its clamp, and only  *)
(* whether retries is zero is kept of it.                                  *)
(*                                                                         *)
(* A definition Name_Variant is Name with a mistake in it: it shows that   *)
(* the properties notice the mistake, and no specification uses it.        *)
(***************************************************************************)
EXTENDS Integers

CONSTANTS
  MIN_RTO,        \* 30 ms
  InitialRto,     \* 100 ms
  MAX_RTO,        \* 500 ms
  MAX_BACKOFF,    \* 2000 ms
  UpdatePeriod,   \* the longest time between two updates
  MaxPackets      \* bound: reliable packets ever sent

ASSUME TimerAssumption ==
  /\ MIN_RTO \in Nat \ {0}
  /\ InitialRto \in MIN_RTO .. MAX_RTO
  /\ MAX_RTO \in Nat
  /\ MAX_BACKOFF \in Nat
  /\ MAX_RTO <= MAX_BACKOFF
  /\ UpdatePeriod \in Nat \ {0}
  /\ MaxPackets \in Nat

VARIABLES
  retransmission_timeout,
  unacknowledged_packets,   \* a function on the packets' numbers
  sent,                     \* packets sent so far
  updating,                 \* in process_retransmissions
  unexamined,               \* the packets its loop has still to look at
  idle                      \* time since the last update

vars == <<retransmission_timeout, unacknowledged_packets, sent, updating, unexamined, idle>>

Packets == 1 .. MaxPackets
Unacked == DOMAIN unacknowledged_packets

\* elapsed: time since time_sent.  expired: history, the timeout that ran out
\* when the packet was last resent, or 0 if there was a sample since.
UnackedPackets == [elapsed : Nat, resent : BOOLEAN, expired : Nat]

TypeOK ==
  /\ retransmission_timeout \in MIN_RTO .. MAX_BACKOFF
  /\ sent \in 0 .. MaxPackets
  /\ Unacked \subseteq 1 .. sent
  /\ unacknowledged_packets \in [Unacked -> UnackedPackets]
  /\ updating \in BOOLEAN
  /\ unexamined \subseteq Unacked
  /\ idle \in 0 .. UpdatePeriod

Init ==
  /\ retransmission_timeout = InitialRto
  /\ unacknowledged_packets = [u \in {} |-> 0]
  /\ sent = 0
  /\ updating = FALSE
  /\ unexamined = {}
  /\ idle = 0

-------------------------------------------------------------------------------
Older_SentOnce(ticks) ==
  [u \in Unacked |->
     IF unacknowledged_packets[u].resent THEN unacknowledged_packets[u]
     ELSE [unacknowledged_packets[u] EXCEPT !.elapsed = @ + ticks]]

Older(ticks) ==
  [u \in Unacked |-> [unacknowledged_packets[u] EXCEPT !.elapsed = @ + ticks]]

\* A unit of time passes; the loop is not late for its next update.
Pass ==
  /\ ~updating
  /\ idle < UpdatePeriod
  /\ idle' = idle + 1
  /\ unacknowledged_packets' = Older(1)
  /\ UNCHANGED <<retransmission_timeout, sent, updating, unexamined>>

\* A round trip is only measured with packets that were sent once.
Sampled(acked) == {u \in acked : ~unacknowledged_packets[u].resent}

\* apply_rtt_sample, whatever the samples were.
ClampedRto == MIN_RTO .. MAX_RTO

Forget(u) == [unacknowledged_packets[u] EXCEPT !.expired = 0]

\* process_incoming_header: a header acknowledges some of the packets.
Acknowledge(acked) ==
  /\ ~updating
  /\ IF Sampled(acked) = {}
     THEN /\ UNCHANGED retransmission_timeout
          /\ unacknowledged_packets' =
               [u \in Unacked \ acked |-> unacknowledged_packets[u]]
     ELSE /\ retransmission_timeout' \in ClampedRto
          /\ unacknowledged_packets' = [u \in Unacked \ acked |-> Forget(u)]
  /\ UNCHANGED <<sent, updating, unexamined, idle>>

-------------------------------------------------------------------------------
(* Connection::update. *)

\* The ticks of the loop's timer are some time apart.
BeginUpdate ==
  /\ ~updating
  /\ idle > 0
  /\ updating' = TRUE
  /\ unexamined' = Unacked
  /\ UNCHANGED <<retransmission_timeout, unacknowledged_packets, sent, idle>>

\* The loop goes through the packets in the order they were sent.
IsNext(u) == u \in unexamined /\ \A v \in unexamined : u <= v

Overdue_Later(u) == unacknowledged_packets[u].elapsed > retransmission_timeout + UpdatePeriod

Overdue(u) == unacknowledged_packets[u].elapsed >= retransmission_timeout

Backoff_Linear(rto) == IF rto + 1 < MAX_BACKOFF THEN rto + 1 ELSE MAX_BACKOFF

Backoff_Uncapped(rto) == (3 * rto) \div 2

Backoff(rto) ==
  IF (3 * rto) \div 2 < MAX_BACKOFF THEN (3 * rto) \div 2 ELSE MAX_BACKOFF

\* An overdue packet is sent again, and the timeout grows for the rest of the
\* loop too.
Resend(u) ==
  /\ updating
  /\ IsNext(u)
  /\ Overdue(u)
  /\ unacknowledged_packets' =
       [unacknowledged_packets EXCEPT ![u] =
          [elapsed |-> 0, resent |-> TRUE, expired |-> retransmission_timeout]]
  /\ retransmission_timeout' = Backoff(retransmission_timeout)
  /\ unexamined' = unexamined \ {u}
  /\ UNCHANGED <<sent, updating, idle>>

Skip(u) ==
  /\ updating
  /\ IsNext(u)
  /\ ~Overdue(u)
  /\ unexamined' = unexamined \ {u}
  /\ UNCHANGED <<retransmission_timeout, unacknowledged_packets, sent, updating, idle>>

\* The queue is drained: n packets are sent for the first time.
Drain(n) ==
  /\ updating
  /\ unexamined = {}
  /\ sent + n <= MaxPackets
  /\ unacknowledged_packets' =
       [u \in Unacked \cup (sent + 1 .. sent + n) |->
          IF u \in Unacked THEN unacknowledged_packets[u]
          ELSE [elapsed |-> 0, resent |-> FALSE, expired |-> 0]]
  /\ sent' = sent + n
  /\ updating' = FALSE
  /\ idle' = 0
  /\ UNCHANGED <<retransmission_timeout, unexamined>>

-------------------------------------------------------------------------------
Update ==
  \/ BeginUpdate
  \/ \E u \in unexamined : Resend(u) \/ Skip(u)
  \/ \E n \in 0 .. MaxPackets : Drain(n)

Next ==
  \/ Pass
  \/ \E acked \in SUBSET Unacked : Acknowledge(acked)
  \/ Update

Spec == Init /\ [][Next]_vars

\* Time passes, and the loop's timer calls update.
FairSpec == Spec /\ WF_vars(Pass) /\ WF_vars(Update)

-------------------------------------------------------------------------------
(* Properties. *)

\* No packet waits longer than the largest timeout and one period for being
\* sent again, however many were resent before it in the same loop.
ResentInTime ==
  \A u \in Unacked : unacknowledged_packets[u].elapsed < MAX_BACKOFF + UpdatePeriod

\* One and a half times the second, in units rounded down, or the cap.
HalfAgainAsLong(time, expired) == time >= MAX_BACKOFF \/ 2 * time + 1 >= 3 * expired

\* A packet is not resent sooner than MIN_RTO after it was sent, and without a
\* sample in between it waits half as long again as the last time, up to the cap.
BacksOff ==
  [][\A u \in Unacked :
       u \in DOMAIN unacknowledged_packets' /\ unacknowledged_packets'[u].elapsed
                                                 < unacknowledged_packets[u].elapsed
         => /\ unacknowledged_packets[u].elapsed >= MIN_RTO
            /\ HalfAgainAsLong(unacknowledged_packets[u].elapsed,
                          unacknowledged_packets[u].expired)]_vars

\* A packet that is never acknowledged is resent for ever, which is what the
\* other models take for granted.
NeverGivenUp ==
  \A u \in Packets : <>[](u \in Unacked) => []<><<Resend(u)>>_vars

-------------------------------------------------------------------------------
(* The inductive invariant behind the first two. *)

\* The timeout has grown since a packet was resent, or there was a sample, and
\* what the loop found not overdue is younger than it.
TimeoutsGrow ==
  \A u \in Unacked :
    HalfAgainAsLong(retransmission_timeout, unacknowledged_packets[u].expired)

YoungerThanTimeout ==
  \A u \in Unacked \ unexamined :
    unacknowledged_packets[u].elapsed < MAX_BACKOFF + (IF updating THEN 0 ELSE idle)

\* Between two updates the loop has no packet left to look at.
LoopDone == updating \/ unexamined = {}

IInv ==
  /\ TypeOK
  /\ LoopDone
  /\ TimeoutsGrow
  /\ YoungerThanTimeout
  /\ ResentInTime

================================================================================

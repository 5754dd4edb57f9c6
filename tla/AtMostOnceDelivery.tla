-------------------------- MODULE AtMostOnceDelivery --------------------------
(***************************************************************************)
(* What the reliable channel promises the code above it: a packet is       *)
(* reported as new only after the other endpoint sent it, and at most      *)
(* once.  Packets may be reported in any order, and some never.            *)
(***************************************************************************)
EXTENDS Naturals

CONSTANTS
  Peers,      \* the endpoints
  Incoming    \* Incoming[q] is the set of packet numbers q may ever be sent

VARIABLES
  sent,       \* how many packets each endpoint has sent
  accepts     \* how often each endpoint reported each packet as new

vars == <<sent, accepts>>

Init ==
  /\ sent = [p \in Peers |-> 0]
  /\ accepts = [q \in Peers |-> [i \in Incoming[q] |-> 0]]

\* p sends one packet, or several at a time.
Send(p) ==
  /\ sent'[p] > sent[p]
  /\ sent' = [sent EXCEPT ![p] = sent'[p]]
  /\ UNCHANGED accepts

\* q reports, for the first time, the packet number i of p.
Accept(q, p, i) ==
  /\ i <= sent[p]
  /\ accepts[q][i] = 0
  /\ accepts' = [accepts EXCEPT ![q][i] = 1]
  /\ UNCHANGED sent

Next ==
  \/ \E p \in Peers : Send(p)
  \/ \E q \in Peers : \E p \in Peers \ {q}, i \in Incoming[q] : Accept(q, p, i)

Spec == Init /\ [][Next]_vars

===============================================================================

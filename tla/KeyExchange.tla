------------------------------ MODULE KeyExchange ------------------------------
(***************************************************************************)
(* What the key exchange promises, without queues, sequence numbers and    *)
(* resends: the server takes a key and offers it in the same moment; the   *)
(* client takes one offered key, once; an offer may be withdrawn, and the  *)
(* server may forget its key, while the client keeps its own.  A client    *)
(* that is late may so take the key of a server that has forgotten it.     *)
(* The promise is over when the client is told to forget its own key.      *)
(***************************************************************************)

CONSTANTS
  SessionKeys,   \* keys the server may take
  FirstKey       \* the key both start with

VARIABLES clientKey, serverKey,
  offered,       \* the keys the client may still take
  over           \* the client has been told to forget its key

vars == <<clientKey, serverKey, offered, over>>

Init ==
  /\ clientKey = FirstKey
  /\ serverKey = FirstKey
  /\ offered = {}
  /\ over = FALSE

Serve(k) ==
  /\ serverKey = FirstKey
  /\ serverKey' = k
  /\ offered' = offered \cup {k}
  /\ UNCHANGED clientKey

Adopt(k) ==
  /\ clientKey = FirstKey
  /\ k \in offered
  /\ clientKey' = k
  /\ offered' \in SUBSET offered
  /\ UNCHANGED serverKey

Withdraw ==
  /\ offered' \in SUBSET offered
  /\ UNCHANGED <<clientKey, serverKey>>

Forget ==
  /\ serverKey' = FirstKey
  /\ offered' \in SUBSET offered
  /\ UNCHANGED clientKey

\* From here on nothing is promised.
Over == over' = TRUE

Next ==
  \/ /\ UNCHANGED over
     /\ \/ \E k \in SessionKeys : Serve(k) \/ Adopt(k)
        \/ Withdraw
        \/ Forget
  \/ Over

Spec == Init /\ [][Next]_vars

================================================================================

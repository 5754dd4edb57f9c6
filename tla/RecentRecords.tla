----------------------------- MODULE RecentRecords -----------------------------
(***************************************************************************)
(* What a history of frame records promises to its reader                  *)
(* (crates/protocol/src/history.rs): there is at most one record of a      *)
(* tick, the one last written, and writing records makes the history       *)
(* forget only records at least Capacity ticks away from one of them.      *)
(***************************************************************************)
EXTENDS Integers

CONSTANT Capacity   \* records a full history keeps

VARIABLE records   \* the set of the records that are found

Apart(t, u) == t - u >= Capacity \/ u - t >= Capacity

Init == records = {}

\* From before to after, records are written for the ticks T.
Written(before, after, T) ==
  /\ T \subseteq {r.tick : r \in after}
  /\ \A r \in after : r.tick \in T \/ r \in before
  /\ \A r \in before \ after : r.tick \in T \/ \E t \in T : Apart(r.tick, t)
  /\ \A r, s \in after : r.tick = s.tick => r = s

\* Records are written for a run of ticks, which fits into the history.
Write ==
  \E a, b \in records' :
    b.tick - a.tick < Capacity /\ Written(records, records', a.tick .. b.tick)

Spec == Init /\ [][Write]_records

================================================================================

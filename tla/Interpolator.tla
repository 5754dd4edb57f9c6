------------------------------ MODULE Interpolator ------------------------------
(***************************************************************************)
(* Interpolator (crates/transport/src/interpolator.rs): the snapshots a    *)
(* renderer blends, oldest first.  A queue is a value here;                *)
(* ClientPrediction keeps one.  Of a snapshot the tick is kept: the state  *)
(* is only copied and blended.                                             *)
(*                                                                         *)
(* A definition Name_Variant is Name with a mistake in it: it shows that   *)
(* the properties notice the mistake, and no specification uses it.        *)
(***************************************************************************)
EXTENDS Integers, Sequences

CONSTANT BufferSize   \* buffer_size: 128 in the programs

ASSUME BufferSizeAssumption == BufferSize \in Nat

\* A snapshot that is not later than the last one is dropped.
Outdated_OnlyEqual(queue, tick) == queue # <<>> /\ tick = queue[Len(queue)]

Outdated(queue, tick) == queue # <<>> /\ tick <= queue[Len(queue)]

\* pop_front of a full queue.  With a size of zero an empty queue is full too.
MakeRoom(queue) == IF queue # <<>> /\ Len(queue) >= BufferSize THEN Tail(queue) ELSE queue

PushSnapshot(queue, tick) ==
  IF Outdated(queue, tick) THEN queue ELSE Append(MakeRoom(queue), tick)

\* The pairs interpolate may blend for a tick to be rendered; it takes the
\* first, and answers None when there is none.
Brackets(queue, render_tick) ==
  {i \in 1 .. Len(queue) - 1 : queue[i] <= render_tick /\ render_tick < queue[i + 1]}

================================================================================

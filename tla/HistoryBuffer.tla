----------------------------- MODULE HistoryBuffer -----------------------------
(***************************************************************************)
(* HistoryBuffer (crates/protocol/src/history.rs): a ring of frame records *)
(* in which a tick's slot is the tick modulo the capacity.  A slot keeps   *)
(* the record it got last, whose tick may be another one than the tick     *)
(* asked for.                                                              *)
(*                                                                         *)
(* A buffer is a value here; ClientPrediction keeps one.  Of a record, the *)
(* tick and the position its state and its hash stand for are kept (the    *)
(* hash is taken to tell any two states apart).                            *)
(*                                                                         *)
(* A definition Name_Variant is Name with a mistake in it: it shows that   *)
(* the properties notice the mistake, and no specification uses it.        *)
(***************************************************************************)
EXTENDS Integers

CONSTANT Capacity   \* slots: 128 in the programs

ASSUME CapacityAssumption ==
  /\ Capacity \in Nat \ {0}
  /\ \E k \in 0 .. Capacity : Capacity = 2 ^ k   \* asserted by new

FrameRecords == [tick : Nat, position : Nat]

\* An empty slot.  No record has this tick.
None == [tick |-> -1, position |-> 0]

Slots == 0 .. Capacity - 1
Buffers == [Slots -> FrameRecords \cup {None}]

EmptyBuffer == [s \in Slots |-> None]

\* tick & mask, where mask is the capacity, a power of two, less one.
Slot(tick) == tick % Capacity

Insert_IfEmpty(buffer, record) ==
  [buffer EXCEPT ![Slot(record.tick)] = IF @ = None THEN record ELSE @]

Insert(buffer, record) == [buffer EXCEPT ![Slot(record.tick)] = record]

InsertRun_Forgets(buffer, ticks, positions) ==
  [s \in Slots |->
     IF \E t \in ticks : Slot(t) = s
     THEN LET t == CHOOSE t \in ticks : Slot(t) = s
          IN  [tick |-> t, position |-> positions[t]]
     ELSE None]

\* A run of records, one for each of at most Capacity consecutive ticks.
InsertRun(buffer, ticks, positions) ==
  [s \in Slots |->
     IF \E t \in ticks : Slot(t) = s
     THEN LET t == CHOOSE t \in ticks : Slot(t) = s
          IN  [tick |-> t, position |-> positions[t]]
     ELSE buffer[s]]

\* get finds the record of this very tick, or none.
Has(buffer, tick) == buffer[Slot(tick)].tick = tick

Get(buffer, tick) == buffer[Slot(tick)]

\* The records that are found, each under its tick.
Records(buffer) == {buffer[s] : s \in Slots} \ {None}

\* What inserts keep: a record is in the slot of its tick.
RightSlots(buffer) == \A s \in Slots : buffer[s] = None \/ Slot(buffer[s].tick) = s

================================================================================

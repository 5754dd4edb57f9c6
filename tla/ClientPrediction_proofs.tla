------------------------ MODULE ClientPrediction_proofs ------------------------
(***************************************************************************)
(* Proofs about ClientPrediction, for every capacity, lead, round trip and *)
(* number of ticks, and a server and a network that do what they like: the *)
(* client stays within its lead, its history is that of its timeline, the  *)
(* renderer's queue is in order, and the history is one of RecentRecords.  *)
(***************************************************************************)
EXTENDS ClientPrediction, FiniteSetTheorems, TLAPS

-------------------------------------------------------------------------------
(* The ring of slots: which records a buffer has after one, or a run of     *)
(* them, was inserted.                                                      *)

LEMMA CapacityType == Capacity \in Nat \ {0}
  BY CapacityAssumption

LEMMA SlotType ==
  ASSUME NEW t \in Nat
  PROVE  Slot(t) \in Slots
  BY CapacityType DEF Slot, Slots

LEMMA MultipleIsLarge ==
  ASSUME NEW d \in Int, NEW c \in Nat \ {0}, d >= 1
  PROVE  c * d >= c
  OBVIOUS

\* Ticks that share a slot are at least Capacity apart.
LEMMA SlotApart ==
  ASSUME NEW t \in Nat, NEW u \in Nat, Slot(t) = Slot(u), t # u
  PROVE  t - u >= Capacity \/ u - t >= Capacity
<1> DEFINE q == t \div Capacity
           p == u \div Capacity
           r == t % Capacity
<1>1. /\ q \in Int /\ p \in Int /\ r \in Int
      /\ t = Capacity * q + r
      /\ u = Capacity * p + r
  BY CapacityType DEF Slot
<1> HIDE DEF q, p, r
<1>2. t - u = Capacity * (q - p) /\ u - t = Capacity * (p - q)
  BY <1>1, CapacityType
<1>3. q # p
  BY <1>1
<1>4. CASE q - p >= 1
  BY <1>1, <1>2, <1>4, CapacityType, MultipleIsLarge
<1>5. CASE p - q >= 1
  BY <1>1, <1>2, <1>5, CapacityType, MultipleIsLarge
<1> QED
  BY <1>1, <1>3, <1>4, <1>5

\* An empty buffer has no record of any tick.
LEMMA EmptyHasNone ==
  /\ EmptyBuffer \in Buffers
  /\ RightSlots(EmptyBuffer)
  /\ Records(EmptyBuffer) = {}
  /\ \A t \in Nat : ~Has(EmptyBuffer, t)
<1>1. \A s \in Slots : EmptyBuffer[s] = None
  BY DEF EmptyBuffer
<1>2. \A t \in Nat : EmptyBuffer[Slot(t)].tick = -1
  BY <1>1, SlotType DEF None
<1> QED
  BY <1>1, <1>2 DEF EmptyBuffer, Buffers, RightSlots, Records, Has

\* What has finds is what get returns, and is the only record of its tick.
LEMMA HasIsRecord ==
  ASSUME NEW b \in Buffers, RightSlots(b)
  PROVE  /\ \A t \in Nat : Has(b, t) => /\ Get(b, t) \in Records(b)
                                        /\ Get(b, t) \in FrameRecords
                                        /\ Get(b, t).tick = t
         /\ \A r \in Records(b) : /\ r \in FrameRecords
                                  /\ Has(b, r.tick)
                                  /\ Get(b, r.tick) = r
<1>1. ASSUME NEW t \in Nat, Has(b, t)
      PROVE  /\ Get(b, t) \in Records(b)
             /\ Get(b, t) \in FrameRecords
             /\ Get(b, t).tick = t
  <2>1. b[Slot(t)].tick = t /\ b[Slot(t)] \in FrameRecords \cup {None}
    BY <1>1, SlotType DEF Has, Buffers
  <2>2. b[Slot(t)] # None
    BY <2>1 DEF None
  <2> QED
    BY <2>1, <2>2, SlotType DEF Get, Records
<1>2. ASSUME NEW r \in Records(b)
      PROVE  r \in FrameRecords /\ Has(b, r.tick) /\ Get(b, r.tick) = r
  <2>1. PICK s \in Slots : r = b[s] /\ r # None
    BY DEF Records
  <2>2. r \in FrameRecords /\ Slot(r.tick) = s
    BY <2>1 DEF Buffers, RightSlots
  <2> QED
    BY <2>1, <2>2 DEF Has, Get
<1> QED
  BY <1>1, <1>2

\* After an insert the record is there, and what else is there was there before.
LEMMA InsertHas ==
  ASSUME NEW b \in Buffers, RightSlots(b), NEW r \in FrameRecords
  PROVE  /\ Insert(b, r) \in Buffers
         /\ RightSlots(Insert(b, r))
         /\ Has(Insert(b, r), r.tick) /\ Get(Insert(b, r), r.tick) = r
         /\ \A t \in Nat \ {r.tick} :
              Has(Insert(b, r), t) <=> Has(b, t) /\ Slot(t) # Slot(r.tick)
         /\ \A t \in Nat \ {r.tick} :
              Has(Insert(b, r), t) => Get(Insert(b, r), t) = Get(b, t)
<1> DEFINE s == Slot(r.tick)
<1>1. r.tick \in Nat /\ s \in Slots
  BY SlotType DEF FrameRecords
<1>2. /\ Insert(b, r) \in Buffers
      /\ Insert(b, r)[s] = r
      /\ \A x \in Slots \ {s} : Insert(b, r)[x] = b[x]
  BY <1>1 DEF Insert, Buffers
<1>3. RightSlots(Insert(b, r))
  BY <1>1, <1>2 DEF RightSlots
<1>4. Has(Insert(b, r), r.tick) /\ Get(Insert(b, r), r.tick) = r
  BY <1>2 DEF Has, Get
<1>5. ASSUME NEW t \in Nat \ {r.tick}
      PROVE  /\ Has(Insert(b, r), t) <=> Has(b, t) /\ Slot(t) # s
             /\ Has(Insert(b, r), t) => Get(Insert(b, r), t) = Get(b, t)
  <2>1. CASE Slot(t) = s
    BY <1>2, <2>1 DEF Has
  <2>2. CASE Slot(t) # s
    BY <1>2, <2>2, SlotType DEF Has, Get
  <2> QED
    BY <2>1, <2>2
<1> QED
  BY <1>2, <1>3, <1>4, <1>5

\* Ticks that fit into the buffer together, and their positions.
IsRun(T, f) ==
  /\ T \in SUBSET Nat
  /\ \A t, u \in T : t - u < Capacity
  /\ \A t \in T : f[t] \in Nat

\* A buffer n has what is written in such a run ...
HasRun(n, T, f) ==
  \A t \in T : Has(n, t) /\ Get(n, t) = [tick |-> t, position |-> f[t]]

\* ... and of the other ticks what b has in other slots.
HasTheRest(n, b, T) ==
  \A t \in Nat \ T :
    /\ Has(n, t) <=> Has(b, t) /\ \A u \in T : Slot(t) # Slot(u)
    /\ Has(n, t) => Get(n, t) = Get(b, t)

\* The same for a run of records that fits into the buffer.
LEMMA InsertRunHas ==
  ASSUME NEW b, b \in Buffers, RightSlots(b), NEW T, NEW f, IsRun(T, f)
  PROVE  /\ InsertRun(b, T, f) \in Buffers
         /\ RightSlots(InsertRun(b, T, f))
         /\ HasRun(InsertRun(b, T, f), T, f)
         /\ HasTheRest(InsertRun(b, T, f), b, T)
<1> DEFINE n == InsertRun(b, T, f)
           R(t) == [tick |-> t, position |-> f[t]]
<1> USE DEF IsRun
<1>1. \A t, u \in T : Slot(t) = Slot(u) => t = u
  <2> SUFFICES ASSUME NEW t \in T, NEW u \in T, Slot(t) = Slot(u), t # u PROVE FALSE
    OBVIOUS
  <2> QED
    BY SlotApart, CapacityType
<1>2. \A t \in T : Slot(t) \in Slots /\ R(t) \in FrameRecords
  BY SlotType DEF FrameRecords
<1>3. \A t \in T : n[Slot(t)] = R(t)
  <2> TAKE t \in T
  <2>1. (CHOOSE u \in T : Slot(u) = Slot(t)) = t
    BY <1>1
  <2> QED
    BY <1>2, <2>1 DEF InsertRun
<1>4. \A s \in Slots : (\A t \in T : Slot(t) # s) => n[s] = b[s]
  BY DEF InsertRun
<1>5. n = [s \in Slots |-> n[s]]
  BY DEF InsertRun
<1> HIDE DEF n
<1>6. \A t \in T : n[Slot(t)].tick = t
  <2> TAKE t \in T
  <2>1. n[Slot(t)] = [tick |-> t, position |-> f[t]]
    BY <1>3
  <2> QED
    BY <2>1
<1>7. n \in Buffers
  <2>1. \A s \in Slots : n[s] \in FrameRecords \cup {None}
    BY <1>2, <1>3, <1>4 DEF Buffers
  <2> QED
    BY <1>5, <2>1 DEF Buffers
<1>8. RightSlots(n)
  <2> SUFFICES ASSUME NEW s \in Slots PROVE n[s] = None \/ Slot(n[s].tick) = s
    BY DEF RightSlots
  <2>1. CASE \A t \in T : Slot(t) # s
    BY <1>4, <2>1 DEF RightSlots
  <2>2. CASE \E t \in T : Slot(t) = s
    <3>1. PICK t \in T : Slot(t) = s
      BY <2>2
    <3> QED
      BY <1>6, <3>1
  <2> QED
    BY <2>1, <2>2
<1>9. \A t \in T : Has(n, t) /\ Get(n, t) = R(t)
  BY <1>3, <1>6 DEF Has, Get
<1>10. ASSUME NEW t \in Nat \ T
      PROVE  /\ Has(n, t) <=> Has(b, t) /\ \A u \in T : Slot(t) # Slot(u)
             /\ Has(n, t) => Get(n, t) = Get(b, t)
  <2>1. CASE \E u \in T : Slot(t) = Slot(u)
    <3>1. PICK u \in T : Slot(t) = Slot(u)
      BY <2>1
    <3>2. n[Slot(t)].tick = u /\ u # t
      BY <1>6, <3>1
    <3> QED
      BY <3>1, <3>2 DEF Has
  <2>2. CASE \A u \in T : Slot(t) # Slot(u)
    BY <1>4, <2>2, SlotType DEF Has, Get
  <2> QED
    BY <2>1, <2>2
<1> QED
  BY <1>7, <1>8, <1>9, <1>10 DEF n, HasRun, HasTheRest

-------------------------------------------------------------------------------
(* The renderer's queue. *)

Ordered(queue) == \A i, j \in 1 .. Len(queue) : i < j => queue[i] < queue[j]

SizeLimit == IF BufferSize = 0 THEN 1 ELSE BufferSize

LEMMA PushKeepsOrder ==
  ASSUME NEW q \in Seq(Nat), Ordered(q), Len(q) <= SizeLimit, NEW t \in Nat
  PROVE  /\ PushSnapshot(q, t) \in Seq(Nat)
         /\ Ordered(PushSnapshot(q, t))
         /\ Len(PushSnapshot(q, t)) <= SizeLimit
<1> DEFINE m == MakeRoom(q)
<1>1. CASE Outdated(q, t)
  BY <1>1 DEF PushSnapshot
<1>2. CASE ~Outdated(q, t)
  <2>1. m \in Seq(Nat) /\ Len(m) < SizeLimit
    BY BufferSizeAssumption DEF MakeRoom, SizeLimit
  <2>2. \A i \in 1 .. Len(q) : q[i] < t
    <3> TAKE i \in 1 .. Len(q)
    <3>1. q[Len(q)] < t /\ q[i] \in Nat /\ q[Len(q)] \in Nat
      BY <1>2 DEF Outdated
    <3> QED
      BY <3>1 DEF Ordered
  <2>3. \A i \in 1 .. Len(m) : \E k \in 0 .. 1 : i + k \in 1 .. Len(q) /\ m[i] = q[i + k]
    <3>1. CASE m = q
      BY <3>1
    <3>2. CASE q # <<>> /\ m = Tail(q)
      BY <3>2
    <3> QED
      BY <3>1, <3>2 DEF MakeRoom
  <2>4. \A i \in 1 .. Len(m) : m[i] < t
    BY <2>2, <2>3
  <2>5. Ordered(m)
    <3>1. CASE m = q
      BY <3>1
    <3>2. CASE q # <<>> /\ m = Tail(q)
      BY <3>2 DEF Ordered
    <3> QED
      BY <3>1, <3>2 DEF MakeRoom
  <2>6. PushSnapshot(q, t) = Append(m, t)
    BY <1>2 DEF PushSnapshot
  <2> HIDE DEF m
  <2>7. /\ Append(m, t) \in Seq(Nat)
        /\ Len(Append(m, t)) = Len(m) + 1
        /\ \A i \in 1 .. Len(m) : Append(m, t)[i] = m[i]
        /\ Append(m, t)[Len(m) + 1] = t
    BY <2>1
  <2>8. Ordered(Append(m, t))
    <3> SUFFICES ASSUME NEW i \in 1 .. Len(m) + 1, NEW j \in 1 .. Len(m) + 1, i < j
                 PROVE  Append(m, t)[i] < Append(m, t)[j]
      BY <2>7 DEF Ordered
    <3>0. Len(m) \in Nat
      BY <2>1
    <3>1. i \in 1 .. Len(m) /\ (j = Len(m) + 1 \/ j \in 1 .. Len(m))
      BY <3>0
    <3>2. CASE j = Len(m) + 1
      BY <2>4, <2>7, <3>1, <3>2
    <3>3. CASE j \in 1 .. Len(m)
      BY <2>5, <2>7, <3>1, <3>3 DEF Ordered
    <3> QED
      BY <3>1, <3>2, <3>3
  <2>9. Len(Append(m, t)) <= SizeLimit
    BY <2>1, <2>7, BufferSizeAssumption DEF SizeLimit
  <2> QED
    BY <2>6, <2>7, <2>8, <2>9
<1> QED
  BY <1>1, <1>2

\* Of a set of positions in a queue that is not empty one is the smallest.
LEMMA SmallestPosition ==
  ASSUME NEW J \in SUBSET Nat, J # {}
  PROVE  \E j \in J : \A i \in J : j <= i
<1> DEFINE R == {p \in Nat \X Nat : p[1] < p[2]}
<1>1. IsWellFoundedOn(R, Nat)
  BY NatLessThanWellFounded DEF OpToRel
<1>2. \A i, j \in Nat : i < j => <<i, j>> \in R
  OBVIOUS
<1> HIDE DEF R
<1>3. PICK j \in J : \A i \in J : <<i, j>> \notin R
  BY <1>1, WFMin, Zenon
<1>4. ASSUME NEW i \in J PROVE j <= i
  <2>1. i \in Nat /\ j \in Nat /\ ~(i < j)
    BY <1>2, <1>3
  <2> QED
    BY <2>1
<1> QED
  BY <1>4

LEMMA BracketsExact ==
  ASSUME NEW q \in Seq(Nat), Ordered(q), NEW t \in Nat
  PROVE  Cardinality(Brackets(q, t)) =
           IF \E i, j \in DOMAIN q : q[i] <= t /\ t < q[j] THEN 1 ELSE 0
<1>1. CASE \E i, j \in DOMAIN q : q[i] <= t /\ t < q[j]
  <2>1. PICK i \in 1 .. Len(q) : q[i] <= t
    BY <1>1
  <2> DEFINE Later == {k \in 1 .. Len(q) : t < q[k]}
  <2>a. Later \in SUBSET Nat /\ Later # {}
    <3>1. PICK k \in 1 .. Len(q) : t < q[k]
      BY <1>1
    <3>2. 1 .. Len(q) \in SUBSET Nat
      OBVIOUS
    <3>3. k \in Later
      BY <3>1
    <3>4. Later \subseteq 1 .. Len(q)
      OBVIOUS
    <3> HIDE DEF Later
    <3> QED
      BY <3>2, <3>3, <3>4
  <2>2. PICK j \in Later : \A k \in Later : j <= k
    BY <2>a, SmallestPosition
  <2>3. i < j
    BY <2>1, <2>2 DEF Ordered
  <2>4. j - 1 \in Brackets(q, t)
    BY <2>1, <2>2, <2>3 DEF Brackets
  <2>5. ASSUME NEW k \in Brackets(q, t) PROVE k = j - 1
    <3>0. k \in 1 .. Len(q) - 1 /\ q[k] <= t /\ t < q[k + 1]
      BY DEF Brackets
    <3>a. k \in 1 .. Len(q) /\ k + 1 \in 1 .. Len(q) /\ j \in 1 .. Len(q)
      BY <2>2, <3>0
    <3>1. /\ k \in 1 .. Len(q) - 1 /\ q[k] <= t /\ t < q[k + 1]
          /\ q[k] \in Nat /\ q[k + 1] \in Nat /\ q[j] \in Nat
      <4>1. \A x \in 1 .. Len(q) : q[x] \in Nat
        OBVIOUS
      <4> QED
        BY <3>0, <3>a, <4>1
    <3>2. j <= k + 1
      BY <2>2, <3>1
    <3>3. ~(j <= k)
      <4>1. j < k => q[j] < q[k]
        BY <2>2, <3>1 DEF Ordered
      <4> QED
        BY <2>2, <3>1, <4>1
    <3> QED
      BY <2>2, <3>1, <3>2, <3>3
  <2>6. Brackets(q, t) = {j - 1}
    BY <2>4, <2>5
  <2> QED
    BY <1>1, <2>6, FS_Singleton
<1>2. CASE ~\E i, j \in DOMAIN q : q[i] <= t /\ t < q[j]
  <2>1. Brackets(q, t) = {}
    BY <1>2 DEF Brackets
  <2> QED
    BY <1>2, <2>1, FS_EmptySet
<1> QED
  BY <1>1, <1>2

-------------------------------------------------------------------------------
(* Counting the ticks that moved the world. *)

LEMMA CountType ==
  ASSUME NEW a \in Int, NEW b \in Int, NEW U
  PROVE  IsFiniteSet((a .. b) \ U) /\ Cardinality((a .. b) \ U) \in Nat
<1>1. IsFiniteSet(a .. b) /\ (a .. b) \ U \in SUBSET (a .. b)
  BY FS_Interval
<1> QED
  BY <1>1, FS_Subset, FS_CardinalityType

LEMMA CountOneMore ==
  ASSUME NEW a \in Int, NEW b \in Int, NEW U, a <= b + 1, b + 1 \notin U
  PROVE  Cardinality((a .. b + 1) \ U) = Cardinality((a .. b) \ U) + 1
<1>1. (a .. b + 1) \ U = ((a .. b) \ U) \cup {b + 1}
  OBVIOUS
<1>2. b + 1 \notin (a .. b) \ U
  OBVIOUS
<1> QED
  BY <1>1, <1>2, CountType, FS_AddElement

LEMMA Constants ==
  /\ Lead \in Nat \ {0} /\ MaxPing \in Nat /\ MaxTick \in Nat
  /\ MaxLead = MaxPing + Lead + 3
  /\ Capacity \in Nat \ {0} /\ Lead <= Capacity
  BY ClientAssumption, CapacityType DEF MaxLead

LEMMA PositionType ==
  ASSUME TypeOK, NEW t \in 0 .. Len(published)
  PROVE  Position(t) \in Nat
  BY DEF TypeOK, Position

LEMMA TimelineType ==
  ASSUME TypeOK, NEW t \in Int
  PROVE  Timeline(t) \in Nat
<1>1. Position(base) \in Nat
  BY PositionType DEF TypeOK
<1>2. Cardinality((base + 1 .. t) \ unmoved) \in Nat
  <2>1. base + 1 \in Int
    BY DEF TypeOK
  <2> QED
    BY <2>1, CountType
<1> QED
  BY <1>1, <1>2 DEF Timeline

\* What is recorded for a tick is found under it.
LEMMA RecordedPosition ==
  ASSUME TypeOK, SlotsRight, NEW t \in Nat, Has(history, t)
  PROVE  Get(history, t) \in FrameRecords
  BY HasIsRecord DEF TypeOK, SlotsRight

-------------------------------------------------------------------------------
LEMMA InitIInv == Init => IInv
<1> SUFFICES ASSUME Init PROVE IInv
  OBVIOUS
<1>1. TypeOK
  <2>1. published \in Seq(Nat) /\ Len(published) = 0 /\ interpolator \in Seq(Nat)
    BY DEF Init
  <2>2. history \in Buffers
    BY EmptyHasNone DEF Init
  <2>3. /\ 0 \in Nat /\ 0 \in 0 .. MaxPing /\ 0 \in 0 .. 1 /\ 0 \in 0 .. 0
        /\ 0 <= MaxTick
    BY Constants
  <2> QED
    BY <2>1, <2>2, <2>3 DEF Init, TypeOK
<1>2. CatchUpBounded /\ SlotsRight /\ TimelineStarts
  BY Constants, EmptyHasNone DEF Init, CatchUpBounded, SlotsRight, TimelineStarts
<1>3. QueueOrdered
  BY BufferSizeAssumption DEF Init, QueueOrdered
<1>4. HistoryIsTimeline
  <2>1. (base + 1 .. predicted_tick) \ unmoved = {} /\ base + 1 .. predicted_tick = {}
    BY DEF Init
  <2>2. base + Lead + 1 .. predicted_tick = {}
    BY Constants DEF Init
  <2> QED
    BY <2>1, <2>2, FS_EmptySet DEF Init, HistoryIsTimeline, Timeline, Position
<1> QED
  BY <1>1, <1>2, <1>3, <1>4 DEF IInv

\* Steps that leave the prediction alone.
LEMMA KeepPrediction ==
  ASSUME IInv, UNCHANGED predictionVars, Position(base)' = Position(base)
  PROVE  HistoryIsTimeline' /\ SlotsRight'
<1>1. \A t : Timeline(t)' = Timeline(t)
  BY DEF Timeline, predictionVars
<1> QED
  BY <1>1 DEF IInv, HistoryIsTimeline, SlotsRight, predictionVars

LEMMA PublishIInv ==
  ASSUME IInv, NEW moved \in 0 .. 1, Publish(moved)
  PROVE  IInv'
<1> DEFINE n == Len(published)
<1>0. published \in Seq(Nat)
  BY DEF IInv, TypeOK
<1>1. n \in Nat /\ Position(n) + moved \in Nat
  <2>1. n \in Nat /\ n \in 0 .. n
    BY <1>0
  <2>2. Position(n) \in Nat
    BY <2>1, PositionType DEF IInv
  <2> QED
    BY <2>1, <2>2
<1>2. /\ published' \in Seq(Nat) /\ Len(published') = n + 1
      /\ \A t \in 1 .. n : published'[t] = published[t]
  <2>1. published \in Seq(Nat)
    BY DEF IInv, TypeOK
  <2>2. published' = Append(published, Position(n) + moved)
    BY DEF Publish
  <2> QED
    BY <1>1, <2>1, <2>2
<1>3. TypeOK'
  <2>1. Len(published') <= MaxTick
    BY <1>1, <1>2, Constants DEF Publish
  <2> QED
    BY <1>1, <1>2, <2>1 DEF Publish, predictionVars, IInv, TypeOK
<1>4. Position(base)' = Position(base)
  BY <1>1, <1>2 DEF Publish, predictionVars, IInv, TypeOK, Position
<1>5. CatchUpBounded'
  BY <1>1, <1>2, Constants DEF Publish, predictionVars, IInv, TypeOK, CatchUpBounded
<1>6. TimelineStarts' /\ QueueOrdered'
  BY DEF Publish, predictionVars, IInv, TimelineStarts, QueueOrdered
<1> QED
  BY <1>3, <1>4, <1>5, <1>6, KeepPrediction DEF Publish, IInv

\* A snapshot is pushed to the renderer's queue.
LEMMA PushIInv ==
  ASSUME IInv, NEW t \in ServerTicks, interpolator' = PushSnapshot(interpolator, t)
  PROVE  interpolator' \in Seq(Nat) /\ QueueOrdered'
<1>1. t \in Nat /\ interpolator \in Seq(Nat)
  BY DEF IInv, TypeOK, ServerTicks
<1>2. Ordered(interpolator) /\ Len(interpolator) <= SizeLimit
  BY DEF IInv, QueueOrdered, Ordered, SizeLimit
<1>3. interpolator' \in Seq(Nat) /\ Ordered(interpolator') /\ Len(interpolator') <= SizeLimit
  BY <1>1, <1>2, PushKeepsOrder
<1> QED
  BY <1>3 DEF QueueOrdered, Ordered, SizeLimit

LEMMA StartPlayingIInv == ASSUME IInv, StartPlaying PROVE IInv'
<1>1. TypeOK' /\ CatchUpBounded' /\ TimelineStarts' /\ QueueOrdered'
  BY DEF StartPlaying, predictionVars, IInv, TypeOK, CatchUpBounded, TimelineStarts,
         QueueOrdered
<1>2. Position(base)' = Position(base)
  BY DEF StartPlaying, predictionVars, Position
<1> QED
  BY <1>1, <1>2, KeepPrediction DEF StartPlaying, IInv

LEMMA WaitIInv == ASSUME IInv, Wait PROVE IInv'
<1>1. input_dispatch_times' \subseteq ClientTicks
  BY DEF Wait, Kept, IInv, TypeOK
<1>2. TypeOK' /\ CatchUpBounded' /\ TimelineStarts' /\ QueueOrdered'
  BY <1>1 DEF Wait, predictionVars, IInv, TypeOK, CatchUpBounded, TimelineStarts,
              QueueOrdered, ClientTicks, MaxLead
<1>3. Position(base)' = Position(base)
  BY DEF Wait, predictionVars, Position
<1> QED
  BY <1>2, <1>3, KeepPrediction DEF Wait, IInv

LEMMA AgreeIInv ==
  ASSUME IInv, NEW t \in ServerTicks, NEW i, Agree(t, i)
  PROVE  IInv'
<1>1. interpolator' \in Seq(Nat) /\ QueueOrdered'
  BY PushIInv DEF Agree, Hear
<1>2. last_server_tick' \in 0 .. Len(published) /\ ping_ticks' \in 0 .. MaxPing
  BY DEF Agree, Hear, ServerTicks, IInv, TypeOK
<1>3. TypeOK'
  BY <1>1, <1>2 DEF Agree, Hear, predictionVars, IInv, TypeOK
<1>4. CatchUpBounded' /\ TimelineStarts'
  BY DEF Agree, Hear, predictionVars, IInv, CatchUpBounded, TimelineStarts
<1>5. Position(base)' = Position(base)
  BY DEF Agree, Hear, predictionVars, Position
<1> QED
  BY <1>1, <1>3, <1>4, <1>5, KeepPrediction DEF Agree, IInv

\* The timeline starts anew from a snapshot: the ticks of unmoved aside, the
\* ones up to where it stands now have moved the world.
LEMMA SyncIInv == ASSUME IInv, NEW t \in ServerTicks, Sync(t) PROVE IInv'
<1>1. t \in Nat /\ t \in 1 .. Len(published) /\ published[t] \in Nat
  BY DEF ServerTicks, IInv, TypeOK
<1>2. history = EmptyBuffer /\ owed = 0 /\ owed' = 0
  BY DEF Sync, IInv, TypeOK, TimelineStarts
<1>3. interpolator' \in Seq(Nat) /\ QueueOrdered'
  BY PushIInv DEF Sync
<1>4. t + 1 .. t + Lead \subseteq ClientTicks
  BY <1>1, Constants DEF IInv, TypeOK, ClientTicks
<1>5. TypeOK'
  BY <1>1, <1>3, <1>4, Constants DEF Sync, IInv, TypeOK
<1>6. CatchUpBounded'
  BY <1>1, <1>2, Constants DEF Sync, IInv, TypeOK, CatchUpBounded
<1>7. TimelineStarts'
  BY <1>1, <1>2, Constants DEF Sync, IInv, TimelineStarts
<1>8. HistoryIsTimeline'
  <2>1. (t + 1 .. t + Lead) \ (t + 1 .. t + Lead) = {} /\ t # 0
    BY <1>1
  <2>2. world' = Timeline(predicted_tick)'
    <3>1. (base' + 1 .. predicted_tick') \ unmoved' = {}
      BY <2>1 DEF Sync
    <3>2. Position(base)' = published[t]
      BY <2>1 DEF Sync, Position
    <3>3. Timeline(predicted_tick)' = published[t] + 0
      BY <3>1, <3>2, FS_EmptySet DEF Timeline
    <3> QED
      BY <1>1, <3>3 DEF Sync
  <2>3. \A u \in t + 1 .. t + Lead : ~Has(history, u)
    BY <1>1, <1>2, EmptyHasNone
  <2>4. t + Lead + 1 .. t + Lead = {}
    BY <1>1, Constants
  <2> QED
    BY <2>2, <2>3, <2>4 DEF Sync, HistoryIsTimeline
<1> QED
  BY <1>3, <1>5, <1>6, <1>7, <1>8 DEF Sync, IInv, SlotsRight

\* What a rollback to tick t writes: one record for each tick replayed.
LEMMA ReplayWrites ==
  ASSUME IInv, NEW t \in ServerTicks
  PROVE  /\ Replayed(t) \in SUBSET Nat
         /\ IsRun(Replayed(t), Replay(t))
         /\ \A u \in Replayed(t) :
              /\ Replay(t)[u] = published[t] + Cardinality({j \in t + 1 .. u : Has(history, j)})
              /\ Replay(t)[u] \in Nat
<1>1. t \in Nat /\ published[t] \in Nat
  BY DEF ServerTicks, IInv, TypeOK
<1>2. Replayed(t) \in SUBSET Nat /\ \A u, v \in Replayed(t) : u - v < Capacity
  BY <1>1, Constants DEF Replayed
<1>3. ASSUME NEW u \in Replayed(t)
      PROVE  Cardinality({j \in t + 1 .. u : Has(history, j)}) \in Nat
  <2> DEFINE H == {j \in t + 1 .. u : Has(history, j)}
  <2>1. IsFiniteSet(t + 1 .. u) /\ H \in SUBSET (t + 1 .. u)
    BY <1>1, <1>2, FS_Interval
  <2> QED
    BY <2>1, FS_Subset, FS_CardinalityType
<1> QED
  BY <1>1, <1>2, <1>3 DEF Replay, IsRun

LEMMA RollbackIInv ==
  ASSUME IInv, NEW t \in ServerTicks, NEW i, Rollback(t, i)
  PROVE  IInv'
<1>1. t \in Nat /\ t \in 1 .. Len(published) /\ published[t] \in Nat
  BY DEF ServerTicks, IInv, TypeOK
<1>2. t + Lead \in Replayed(t)
  BY <1>1, Constants DEF Replayed
<1>3. interpolator' \in Seq(Nat) /\ QueueOrdered'
  BY PushIInv DEF Rollback, Hear
<1>4. /\ history' \in Buffers
      /\ SlotsRight'
      /\ \A u \in Replayed(t) :
           Has(history', u) /\ Get(history', u).position = Replay(t)[u]
  <2> DEFINE n == InsertRun(history, Replayed(t), Replay(t))
  <2>1. history \in Buffers /\ RightSlots(history) /\ history' = n
    BY DEF Rollback, IInv, TypeOK, SlotsRight
  <2>2. n \in Buffers /\ RightSlots(n) /\ HasRun(n, Replayed(t), Replay(t))
    BY <2>1, ReplayWrites, InsertRunHas
  <2> HIDE DEF n
  <2> QED
    BY <2>1, <2>2 DEF SlotsRight, HasRun
<1>5. unmoved' = {u \in t + 1 .. t + Lead : ~Has(history, u)} /\ base' = t
  BY DEF Rollback, Replayed
<1>6. TypeOK'
  <2>1. /\ last_server_tick' \in 0 .. Len(published) /\ base' \in 0 .. Len(published)
        /\ ping_ticks' \in 0 .. MaxPing
    BY <1>1 DEF Rollback, Hear, IInv, TypeOK
  <2>2. unmoved' \subseteq ClientTicks
    BY <1>1, <1>5, Constants DEF IInv, TypeOK, ClientTicks
  <2>3. world' \in Nat /\ predicted_tick' \in Nat
    BY <1>1, <1>2, ReplayWrites, Constants DEF Rollback
  <2>4. input_dispatch_times' \subseteq ClientTicks
    BY DEF Rollback, Hear, IInv, TypeOK
  <2> QED
    BY <1>3, <1>4, <2>1, <2>2, <2>3, <2>4 DEF Rollback, Hear, IInv, TypeOK
<1>7. CatchUpBounded'
  BY <1>1, Constants DEF Rollback, Hear, IInv, TypeOK, CatchUpBounded
<1>8. TimelineStarts'
  BY <1>1, <1>5, Constants DEF Rollback, Hear, IInv, TimelineStarts
<1>9. \A u \in Replayed(t) : Timeline(u)' = Replay(t)[u]
  <2> TAKE u \in Replayed(t)
  <2>1. u \in Nat /\ u <= t + Lead
    BY <1>1, Constants DEF Replayed
  <2>2. (t + 1 .. u) \ unmoved' = {j \in t + 1 .. u : Has(history, j)}
    BY <1>1, <1>5, <2>1, Constants
  <2>3. Position(base)' = published[t]
    BY <1>1, <1>5 DEF Rollback, Hear, Position
  <2> QED
    BY <1>5, <2>2, <2>3, ReplayWrites DEF Timeline
<1>10. HistoryIsTimeline'
  <2>1. world' = Timeline(predicted_tick)'
    BY <1>2, <1>9 DEF Rollback, Timeline
  <2>2. \A u \in t + 1 .. t + Lead : Get(history', u).position = Timeline(u)'
    BY <1>4, <1>9 DEF Replayed
  <2>3. t + Lead + 1 .. t + Lead = {}
    BY <1>1, Constants
  <2>4. base' = t /\ predicted_tick' = t + Lead
    BY DEF Rollback
  <2> QED
    BY <2>1, <2>2, <2>3, <2>4 DEF HistoryIsTimeline
<1> QED
  BY <1>3, <1>4, <1>6, <1>7, <1>8, <1>10 DEF IInv

\* A simulated tick gets its record, and the ones before it that fit keep theirs.
LEMMA SimulateTimeline ==
  ASSUME IInv, Simulate, synced
  PROVE  HistoryIsTimeline' /\ SlotsRight' /\ history' \in Buffers
<1> DEFINE p == predicted_tick + 1
           r == [tick |-> p, position |-> world + 1]
<1>1. predicted_tick \in Nat /\ base \in Nat /\ world \in Nat /\ base + Lead <= predicted_tick
  BY DEF IInv, TypeOK, TimelineStarts
<1>2. r \in FrameRecords
  BY <1>1 DEF FrameRecords
<1>3. history \in Buffers /\ RightSlots(history) /\ history' = Insert(history, r)
  BY DEF Simulate, IInv, TypeOK, SlotsRight
<1>4. /\ history' \in Buffers /\ RightSlots(history')
      /\ Has(history', p) /\ Get(history', p) = r
      /\ \A t \in Nat \ {p} : /\ Has(history', t) <=> Has(history, t) /\ Slot(t) # Slot(p)
                              /\ Has(history', t) => Get(history', t) = Get(history, t)
  BY <1>2, <1>3, InsertHas
<1>5. /\ UNCHANGED <<published, base, unmoved>>
      /\ predicted_tick' = p
      /\ world' = world + 1
  BY DEF Simulate
<1>6. \A t : Timeline(t)' = Timeline(t)
  BY <1>5 DEF Timeline, Position
<1>7. p \notin unmoved /\ base + 1 <= p
  BY <1>1, Constants DEF IInv, TimelineStarts
<1>8. Timeline(p) = world + 1
  <2>1. Cardinality((base + 1 .. p) \ unmoved) =
          Cardinality((base + 1 .. predicted_tick) \ unmoved) + 1
    BY <1>1, <1>7, CountOneMore
  <2>2. /\ Position(base) \in Nat
        /\ Cardinality((base + 1 .. predicted_tick) \ unmoved) \in Nat
    <3>1. base \in 0 .. Len(published) /\ TypeOK
      BY DEF IInv, TypeOK
    <3>2. Position(base) \in Nat
      BY <3>1, PositionType
    <3>3. base + 1 \in Int /\ predicted_tick \in Int
      BY <1>1
    <3> HIDE DEF p, r
    <3>4. Cardinality((base + 1 .. predicted_tick) \ unmoved) \in Nat
      BY <3>3, CountType
    <3> QED
      BY <3>2, <3>4
  <2>3. world = Position(base) + Cardinality((base + 1 .. predicted_tick) \ unmoved)
    BY DEF IInv, HistoryIsTimeline, Timeline
  <2> QED
    BY <2>1, <2>2, <2>3 DEF Timeline
<1>9. ASSUME NEW t \in base + 1 .. p, Has(history', t)
      PROVE  Get(history', t).position = Timeline(t)
  <2>1. CASE t = p
    BY <1>4, <1>8, <2>1
  <2>2. CASE t # p
    <3>1. t \in Nat \ {p} /\ t \in base + 1 .. predicted_tick
      BY <1>1, <2>2
    <3>2. Has(history, t) /\ Get(history', t) = Get(history, t)
      BY <1>4, <1>9, <3>1
    <3> QED
      BY <3>1, <3>2 DEF IInv, HistoryIsTimeline
  <2> QED
    BY <2>1, <2>2
<1>10. ASSUME NEW t \in base + Lead + 1 .. p, t > p - Capacity
       PROVE  Has(history', t)
  <2>1. CASE t = p
    BY <1>4, <2>1
  <2>2. CASE t # p
    <3>1. /\ t \in Nat \ {p} /\ p \in Nat
          /\ t \in base + Lead + 1 .. predicted_tick
          /\ t > predicted_tick - Capacity
          /\ t - p < Capacity /\ p - t < Capacity
      BY <1>1, <1>10, <2>2, Constants
    <3>2. Has(history, t)
      BY <3>1 DEF IInv, HistoryIsTimeline
    <3>3. Slot(t) # Slot(p)
      BY <3>1, SlotApart, Constants
    <3> QED
      BY <1>4, <3>1, <3>2, <3>3
  <2> QED
    BY <2>1, <2>2
<1> HIDE DEF p, r
<1>11. HistoryIsTimeline'
  BY <1>5, <1>6, <1>8, <1>9, <1>10 DEF HistoryIsTimeline
<1> QED
  BY <1>4, <1>11 DEF SlotsRight

\* The three ways to simulate a tick.
LEMMA StepIInv ==
  ASSUME IInv, StepTwice \/ StepAgain \/ StepOnce
  PROVE  IInv'
<1>1. Simulate /\ synced
  BY DEF StepTwice, StepAgain, StepOnce, IInv, TimelineStarts
<1>2. HistoryIsTimeline' /\ SlotsRight' /\ history' \in Buffers
  BY <1>1, SimulateTimeline
<1>3. /\ predicted_tick \in Nat /\ Len(published) \in Nat /\ Len(published) <= MaxTick
      /\ last_server_tick \in Nat /\ last_server_tick <= Len(published)
      /\ ping_ticks \in Nat /\ ping_ticks <= MaxPing
  BY DEF IInv, TypeOK
<1>4. /\ owed' \in 0 .. 1
      /\ owed' = 1 => playing
      /\ predicted_tick + 1 + owed' <= Len(published) + MaxLead
  <2>1. CASE StepTwice
    BY <1>3, <2>1, Constants DEF StepTwice, Behind, TargetTick
  <2>2. CASE StepAgain
    BY <1>3, <2>2, Constants DEF StepAgain, IInv, CatchUpBounded
  <2>3. CASE StepOnce
    BY <1>3, <2>3, Constants DEF StepOnce, TooFarAhead, TargetTick
  <2> QED
    BY <2>1, <2>2, <2>3
<1>5. input_dispatch_times' \subseteq ClientTicks
  <2>1. predicted_tick + 1 \in ClientTicks
    BY <1>3, <1>4, Constants DEF ClientTicks
  <2>2. Dispatched \subseteq ClientTicks
    BY <2>1 DEF Dispatched, IInv, TypeOK
  <2> QED
    BY <2>2 DEF StepTwice, StepAgain, StepOnce, Kept
<1>6. TypeOK'
  <2>1. predicted_tick' \in Nat /\ world' \in Nat
    BY <1>1 DEF Simulate, IInv, TypeOK
  <2> QED
    BY <1>1, <1>2, <1>4, <1>5, <2>1 DEF Simulate, IInv, TypeOK
<1>7. CatchUpBounded'
  BY <1>1, <1>3, <1>4, Constants DEF Simulate, CatchUpBounded
<1>8. TimelineStarts'
  BY <1>1, <1>3, <1>4, Constants
     DEF Simulate, StepTwice, StepAgain, StepOnce, IInv, TypeOK, TimelineStarts
<1>9. QueueOrdered'
  BY <1>1 DEF Simulate, IInv, QueueOrdered
<1> QED
  BY <1>2, <1>6, <1>7, <1>8, <1>9 DEF IInv

LEMMA NextIInv == IInv /\ [Next]_vars => IInv'
<1> SUFFICES ASSUME IInv, [Next]_vars PROVE IInv'
  OBVIOUS
<1>1. CASE \E moved \in 0 .. 1 : Publish(moved)
  BY <1>1, PublishIInv
<1>2. CASE \E t \in InFlight : Sync(t)
  BY <1>2, SyncIInv DEF InFlight
<1>3. CASE StartPlaying
  BY <1>3, StartPlayingIInv
<1>4. CASE \E t \in InFlight, i \in input_dispatch_times \cup {0} : Handle(t, i)
  BY <1>4, AgreeIInv, RollbackIInv DEF InFlight, Handle
<1>5. CASE Advance
  BY <1>5, StepIInv, WaitIInv DEF Advance
<1>6. CASE UNCHANGED vars
  <2>1. Position(base)' = Position(base)
    BY <1>6 DEF vars, predictionVars, Position
  <2> QED
    BY <1>6, <2>1, KeepPrediction
       DEF vars, predictionVars, IInv, TypeOK, CatchUpBounded, TimelineStarts, QueueOrdered
<1> QED
  BY <1>1, <1>2, <1>3, <1>4, <1>5, <1>6 DEF Next

-------------------------------------------------------------------------------
(* Why a snapshot differs from the record of its tick. *)

\* From one tick of the timeline to the next.
LEMMA TimelineMoves ==
  ASSUME TypeOK, NEW j \in Int, base + 1 <= j
  PROVE  Timeline(j) = Timeline(j - 1) + IF j \in unmoved THEN 0 ELSE 1
<1> DEFINE b == base + 1
           i == j - 1
<1>1. base \in Int /\ b \in Int /\ i \in Int /\ b <= i + 1 /\ i + 1 = j
  BY DEF TypeOK
<1>2. Position(base) \in Nat
  BY PositionType DEF TypeOK
<1>3. CASE j \in unmoved
  <2>1. (b .. j) \ unmoved = (b .. j - 1) \ unmoved
    BY <1>1, <1>3
  <2>2. Timeline(j - 1) \in Nat
    BY <1>1, TimelineType
  <2> QED
    BY <1>3, <2>1, <2>2 DEF Timeline
<1>4. CASE j \notin unmoved
  <2> HIDE DEF b, i
  <2>1. Cardinality((b .. i + 1) \ unmoved) = Cardinality((b .. i) \ unmoved) + 1
    BY <1>1, <1>4, CountOneMore
  <2>2. Cardinality((b .. i) \ unmoved) \in Nat
    BY <1>1, CountType
  <2> QED
    BY <1>1, <1>2, <1>4, <2>1, <2>2 DEF Timeline, b, i
<1> QED
  BY <1>3, <1>4

LEMMA TimelineBegins ==
  ASSUME TypeOK
  PROVE  Timeline(base) = Position(base)
<1>1. (base + 1 .. base) \ unmoved = {}
  BY DEF TypeOK
<1>2. Position(base) \in Nat
  BY PositionType DEF TypeOK
<1> QED
  BY <1>1, <1>2, FS_EmptySet DEF Timeline

\* If the server is not where the timeline is, there is a first tick in which it
\* moved differently.
LEMMA FirstDifference ==
  ASSUME TypeOK, NEW t \in base + 1 .. Len(published), Timeline(t) # Position(t)
  PROVE  \E j \in base + 1 .. t :
           Position(j) - Position(j - 1) # IF j \in unmoved THEN 0 ELSE 1
<1> DEFINE J == {k \in base + 1 .. t : Timeline(k) # Position(k)}
<1>1. base \in Nat /\ Len(published) \in Nat /\ t \in Nat
  BY DEF TypeOK
<1>2. J \in SUBSET Nat /\ t \in J
  BY <1>1
<1>3. PICK j \in J : \A k \in J : j <= k
  BY <1>2, SmallestPosition
<1>4. j \in base + 1 .. t /\ j \in Nat /\ j - 1 \in base .. t - 1
  BY <1>1, <1>3
<1>5. Timeline(j - 1) = Position(j - 1)
  <2>1. CASE j = base + 1
    BY <1>1, <2>1, TimelineBegins
  <2>2. CASE j # base + 1
    <3>1. j - 1 \in base + 1 .. t /\ ~(j <= j - 1)
      BY <1>1, <1>4, <2>2
    <3> QED
      BY <1>3, <3>1
  <2> QED
    BY <2>1, <2>2
<1>6. Timeline(j) = Timeline(j - 1) + IF j \in unmoved THEN 0 ELSE 1
  BY <1>4, TimelineMoves
<1>7. Position(j) \in Nat /\ Position(j - 1) \in Nat /\ Position(j) # Timeline(j)
  BY <1>1, <1>3, <1>4, PositionType
<1>8. Position(j) - Position(j - 1) # IF j \in unmoved THEN 0 ELSE 1
  <2> HIDE DEF J
  <2> QED
    BY <1>5, <1>6, <1>7
<1> QED
  BY <1>4, <1>8

\* A step that takes the client back to a tick of its timeline.
LEMMA RollbackStep ==
  ASSUME IInv, Next, playing, base' > base, base' <= predicted_tick
  PROVE  \E t \in base + 1 .. base' :
           Position(t) - Position(t - 1) # IF t \in unmoved THEN 0 ELSE 1
<1>1. base \in Nat
  BY DEF IInv, TypeOK
<1>2. PICK t \in InFlight, i \in input_dispatch_times \cup {0} : Rollback(t, i)
  <2>1. base' # base
    BY <1>1
  <2> QED
    BY <2>1 DEF Next, Publish, Sync, StartPlaying, Handle, Agree, Advance, StepTwice,
                StepAgain, StepOnce, Wait, Simulate, predictionVars
<1>3. base' = t /\ t \in Nat /\ t \in 1 .. Len(published) /\ Mismatch(t)
  BY <1>2 DEF Rollback, InFlight, ServerTicks
<1>4. t \in base + 1 .. Len(published) /\ t \in base + 1 .. predicted_tick
  BY <1>1, <1>3 DEF IInv, TypeOK
<1>5. Get(history, t).position = Timeline(t) /\ Position(t) = published[t]
  BY <1>1, <1>3, <1>4 DEF Mismatch, IInv, HistoryIsTimeline, Position
<1> QED
  BY <1>3, <1>4, <1>5, FirstDifference DEF Mismatch, IInv

-------------------------------------------------------------------------------
\* In every reachable state the client's lead, its records, its queue and the
\* start of its timeline agree.
THEOREM Invariant == Spec => []IInv
<1> QED
  BY InitIInv, NextIInv, PTL DEF Spec

\* The variables of the client and what the server has published keep their types.
THEOREM TypeCorrect == Spec => []TypeOK
<1>1. IInv => TypeOK
  BY DEF IInv
<1> QED
  BY <1>1, Invariant, PTL

\* However the snapshots come, the client gets at most MaxLead ticks ahead of
\* the server: the pass that catches up included.
THEOREM LeadIsBounded == Spec => []LeadBounded
<1>1. IInv => LeadBounded
  BY Constants DEF IInv, TypeOK, CatchUpBounded, LeadBounded
<1> QED
  BY <1>1, Invariant, PTL

\* After any number of rollbacks the records up to the predicted tick are those
\* of the timeline in force, and the last Capacity ticks simulated have one.
THEOREM HistoryExact == Spec => []HistoryIsTimeline
<1>1. IInv => HistoryIsTimeline
  BY DEF IInv
<1> QED
  BY <1>1, Invariant, PTL

\* The client is not taken back to a tick of its present timeline without a
\* reason: the server has moved differently in a tick since the timeline began.
THEOREM RollbacksHaveCause == Spec => RollbackHasCause
<1>1. IInv /\ [Next]_vars =>
        [playing /\ base' > base /\ base' <= predicted_tick =>
           \E t \in base + 1 .. base' :
             Position(t) - Position(t - 1) # IF t \in unmoved THEN 0 ELSE 1]_vars
  BY RollbackStep
<1> QED
  BY <1>1, Invariant, PTL DEF Spec, RollbackHasCause

\* In whatever order snapshots are pushed, interpolate finds exactly one pair
\* around every tick between two of them.
THEOREM QueueInOrder == Spec => []InterpolatorOrdered
<1>1. IInv => InterpolatorOrdered
  <2> SUFFICES ASSUME IInv PROVE InterpolatorOrdered
    OBVIOUS
  <2>1. interpolator \in Seq(Nat) /\ Ordered(interpolator)
    BY DEF IInv, TypeOK, QueueOrdered, Ordered
  <2>2. ServerTicks \subseteq Nat
    BY DEF ServerTicks
  <2> QED
    BY <2>1, <2>2, BracketsExact DEF IInv, QueueOrdered, InterpolatorOrdered
<1> QED
  BY <1>1, Invariant, PTL

-------------------------------------------------------------------------------
(* The history implements RecentRecords. *)

\* From b to n a run of records is written, and only what shares a slot with one
\* of them is lost.
LEMMA RunIsWritten ==
  ASSUME NEW b, b \in Buffers, RightSlots(b), NEW n, n \in Buffers, RightSlots(n),
         NEW T, NEW f, T \in SUBSET Nat, HasRun(n, T, f), HasTheRest(n, b, T)
  PROVE  RecordsFound!Written(Records(b), Records(n), T)
<1>1. /\ \A t \in Nat : Has(b, t) => Get(b, t) \in Records(b)
      /\ \A x \in Records(b) : x \in FrameRecords /\ Has(b, x.tick) /\ Get(b, x.tick) = x
  BY HasIsRecord
<1>2. /\ \A t \in Nat : Has(n, t) => Get(n, t) \in Records(n) /\ Get(n, t).tick = t
      /\ \A x \in Records(n) : x \in FrameRecords /\ Has(n, x.tick) /\ Get(n, x.tick) = x
  BY HasIsRecord
<1>3. T \subseteq {x.tick : x \in Records(n)}
  <2> SUFFICES ASSUME NEW t \in T PROVE t \in {x.tick : x \in Records(n)}
    OBVIOUS
  <2>1. Get(n, t) \in Records(n) /\ Get(n, t).tick = t
    BY <1>2 DEF HasRun
  <2> QED
    BY <2>1
<1>4. \A x \in Records(n) : x.tick \in T \/ x \in Records(b)
  <2> SUFFICES ASSUME NEW x \in Records(n), x.tick \notin T PROVE x \in Records(b)
    OBVIOUS
  <2>1. x.tick \in Nat \ T /\ Has(n, x.tick) /\ Get(n, x.tick) = x
    BY <1>2 DEF FrameRecords
  <2>2. Has(b, x.tick) /\ Get(b, x.tick) = x
    BY <2>1 DEF HasTheRest
  <2> QED
    BY <1>1, <2>1, <2>2
<1>5. \A x \in Records(b) \ Records(n) :
        x.tick \in T \/ \E t \in T : RecordsFound!Apart(x.tick, t)
  <2> SUFFICES ASSUME NEW x \in Records(b), x \notin Records(n), x.tick \notin T
               PROVE  \E t \in T : RecordsFound!Apart(x.tick, t)
    OBVIOUS
  <2>1. x.tick \in Nat \ T /\ Has(b, x.tick) /\ Get(b, x.tick) = x
    BY <1>1 DEF FrameRecords
  <2>2. ~Has(n, x.tick)
    <3>1. Has(n, x.tick) => Get(n, x.tick) = x
      BY <2>1 DEF HasTheRest
    <3> QED
      BY <1>2, <2>1, <3>1
  <2>3. PICK t \in T : Slot(x.tick) = Slot(t)
    BY <2>1, <2>2 DEF HasTheRest
  <2>4. t \in Nat /\ x.tick # t
    BY <2>1
  <2>5. RecordsFound!Apart(x.tick, t)
    BY <2>1, <2>3, <2>4, SlotApart DEF RecordsFound!Apart
  <2> QED
    BY <2>5
<1>6. \A x, y \in Records(n) : x.tick = y.tick => x = y
  BY <1>2
<1> QED
  BY <1>3, <1>4, <1>5, <1>6 DEF RecordsFound!Written

LEMMA SimulateWrites == ASSUME IInv, Simulate PROVE RecordsFound!Write
<1> DEFINE p == predicted_tick + 1
           r == [tick |-> p, position |-> world + 1]
           f == [t \in {p} |-> world + 1]
<1>1. p \in Nat /\ r \in FrameRecords /\ r.tick = p
  BY DEF IInv, TypeOK, FrameRecords
<1>2. history \in Buffers /\ RightSlots(history) /\ history' = Insert(history, r)
  BY DEF Simulate, IInv, TypeOK, SlotsRight
<1>3. /\ history' \in Buffers /\ RightSlots(history')
      /\ Has(history', p) /\ Get(history', p) = r
      /\ \A t \in Nat \ {p} : /\ Has(history', t) <=> Has(history, t) /\ Slot(t) # Slot(p)
                              /\ Has(history', t) => Get(history', t) = Get(history, t)
  BY <1>1, <1>2, InsertHas
<1>4. HasRun(history', {p}, f) /\ HasTheRest(history', history, {p})
  BY <1>3 DEF HasRun, HasTheRest
<1>5. {p} \in SUBSET Nat
  BY <1>1
<1> HIDE DEF f
<1>6. RecordsFound!Written(Records(history), Records(history'), {p})
  BY <1>2, <1>3, <1>4, <1>5, RunIsWritten
<1>7. r \in Records(history') /\ r.tick .. r.tick = {p} /\ r.tick - r.tick < Capacity
  <2>1. r \in Records(history')
    BY <1>1, <1>3, HasIsRecord
  <2> QED
    BY <1>1, <2>1, Constants
<1> HIDE DEF p, r
<1> QED
  BY <1>6, <1>7 DEF RecordsFound!Write

LEMMA RollbackWrites ==
  ASSUME IInv, NEW t \in ServerTicks, NEW i, Rollback(t, i)
  PROVE  RecordsFound!Write
<1> DEFINE T == Replayed(t)
           f == Replay(t)
           n == InsertRun(history, T, f)
<1>1. history \in Buffers /\ RightSlots(history) /\ history' = n
  BY DEF Rollback, IInv, TypeOK, SlotsRight
<1>2. IsRun(T, f)
  BY ReplayWrites
<1>3. n \in Buffers /\ RightSlots(n) /\ HasRun(n, T, f) /\ HasTheRest(n, history, T)
  BY <1>1, <1>2, InsertRunHas
<1>4. T \in SUBSET Nat
  BY ReplayWrites
<1>5. t \in Nat /\ t + 1 \in T /\ t + Lead \in T /\ T = t + 1 .. t + Lead
  BY Constants DEF ServerTicks, Replayed
<1> HIDE DEF n, f, T
<1>6. RecordsFound!Written(Records(history), Records(n), T)
  BY <1>1, <1>3, <1>4, RunIsWritten
<1>7. \A u \in T : Get(n, u) \in Records(n) /\ Get(n, u).tick = u
  BY <1>3, <1>4, HasIsRecord DEF HasRun
<1>8. PICK a \in Records(n), b \in Records(n) : a.tick = t + 1 /\ b.tick = t + Lead
  BY <1>5, <1>7
<1>9. a.tick .. b.tick = T /\ b.tick - a.tick < Capacity
  BY <1>5, <1>8, Constants
<1> QED
  BY <1>1, <1>6, <1>9 DEF RecordsFound!Write

\* The ring of slots keeps what RecentRecords promises of a history, through
\* every simulated tick and every rollback.
THEOREM Refinement == Spec => RecordsFoundSpec
<1>1. Init => RecordsFound!Init
  BY EmptyHasNone DEF Init, RecordsFound!Init
<1>2. IInv /\ [Next]_vars => [RecordsFound!Write]_(Records(history))
  <2> SUFFICES ASSUME IInv, [Next]_vars PROVE RecordsFound!Write \/ UNCHANGED history
    OBVIOUS
  <2>1. CASE \E t \in InFlight, i \in input_dispatch_times \cup {0} : Handle(t, i)
    BY <2>1, RollbackWrites DEF Handle, Agree, predictionVars, InFlight
  <2>2. CASE Advance
    BY <2>2, SimulateWrites DEF Advance, StepTwice, StepAgain, StepOnce, Wait, predictionVars
  <2>3. CASE UNCHANGED vars
    BY <2>3 DEF vars, predictionVars
  <2> QED
    BY <2>1, <2>2, <2>3 DEF Next, Publish, Sync, StartPlaying, predictionVars
<1> QED
  BY <1>1, <1>2, Invariant, PTL DEF Spec, RecordsFoundSpec, RecordsFound!Spec

================================================================================

------------------------- MODULE TaskThreadPool_proofs -------------------------
(***************************************************************************)
(* Proofs about TaskThreadPool, for any number of workers, callers and     *)
(* tasks: whatever the interleaving, no task is lost or run twice, no      *)
(* wakeup is lost, and stop leaves nothing unanswered.                     *)
(*                                                                         *)
(* TaskInOnePlace is inductive with the types: a worker that is about to   *)
(* take a job has none.  StopDrains needs one more fact, GoneAfterStop: no *)
(* worker leaves before stop is set, so that when stop begins all of them  *)
(* are still there, and from then on nothing is enqueued.                  *)
(***************************************************************************)
EXTENDS TaskThreadPool, TLAPS

GoneAfterStop == \A w \in Workers : pc[w] = "gone" => stop

\* The inductive invariant.
IInv ==
  /\ TypeOK
  /\ TaskInOnePlace
  /\ GoneAfterStop
  /\ StopDrains

-------------------------------------------------------------------------------
(* Sequences. *)

\* Append puts the new element behind the old ones.
LEMMA AppendEntries ==
  ASSUME NEW S, NEW s \in Seq(S), NEW e \in S
  PROVE  /\ Append(s, e) \in Seq(S)
         /\ DOMAIN Append(s, e) = DOMAIN s \cup {Len(s) + 1}
         /\ Len(s) + 1 \notin DOMAIN s
         /\ Append(s, e)[Len(s) + 1] = e
         /\ \A i \in DOMAIN s : Append(s, e)[i] = s[i]
  OBVIOUS

\* Tail drops the first entry and moves the others down by one.
LEMMA TailEntries ==
  ASSUME NEW S, NEW s \in Seq(S), s # <<>>
  PROVE  /\ Tail(s) \in Seq(S)
         /\ Head(s) \in S
         /\ 1 \in DOMAIN s
         /\ s[1] = Head(s)
         /\ \A i \in DOMAIN Tail(s) :
              /\ i + 1 \in DOMAIN s
              /\ i + 1 # 1
              /\ Tail(s)[i] = s[i + 1]
         /\ \A i \in DOMAIN s :
              i # 1 => i - 1 \in DOMAIN Tail(s) /\ Tail(s)[i - 1] = s[i]
         /\ \A i, j \in DOMAIN Tail(s) : i + 1 = j + 1 => i = j
  OBVIOUS

-------------------------------------------------------------------------------
(* Types. *)

\* clear_queue: its job for the outcomes.
LEMMA ClearedOutcomes ==
  ASSUME TypeOK, NEW c \in Callers, ClearQueue(c)
  PROVE  outcome' \in [Tasks -> Outcomes]
  BY DEF TypeOK, ClearQueue, Outcomes

LEMMA InitTypes == Init => TypeOK
<1> SUFFICES ASSUME Init PROVE TypeOK
  OBVIOUS
<1>1. tasks \in Seq(Tasks) /\ toggles \in 0 .. MaxToggles
  BY PoolAssumption DEF Init
<1>2. \A w \in Workers : pc[w] = "run" <=> job[w] \in Tasks
  BY PoolAssumption DEF Init
<1> QED
  BY <1>1, <1>2 DEF Init, TypeOK, WorkerPlaces, CallPlaces, Outcomes

\* A worker's steps keep the types.
LEMMA WorkerTypes ==
  ASSUME TypeOK, NEW w \in Workers, WorkerStep(w) \/ WakeSpuriously(w)
  PROVE  TypeOK'
<1> USE DEF TypeOK, WorkerPlaces, GoTo
<1>1. CASE Lock(w)
  BY <1>1 DEF Lock
<1>2. CASE Return(w)
  BY <1>2 DEF Return
<1>3. CASE StayOn(w)
  BY <1>3 DEF StayOn
<1>4. CASE Take(w)
  <2>1. tasks' \in Seq(Tasks) /\ Head(tasks) \in Tasks
    BY <1>4, TailEntries DEF Take
  <2>2. job' \in [Workers -> Tasks \cup {Nobody}] /\ pc' \in [Workers -> WorkerPlaces]
    BY <1>4, <2>1 DEF Take
  <2>3. \A v \in Workers : pc'[v] = "run" <=> job'[v] \in Tasks
    BY <1>4, <2>1 DEF Take
  <2> QED
    BY <1>4, <2>1, <2>2, <2>3 DEF Take
<1>5. CASE NothingToDo(w)
  BY <1>5 DEF NothingToDo
<1>6. CASE Wait(w)
  BY <1>6 DEF Wait
<1>7. CASE Run(w)
  <2>1. job[w] \in Tasks
    BY <1>7 DEF Run
  <2>2. outcome' \in [Tasks -> Outcomes]
    BY <1>7, <2>1 DEF Run, Outcomes
  <2>3. \A v \in Workers : pc'[v] = "run" <=> job'[v] \in Tasks
    BY <1>7, PoolAssumption DEF Run
  <2> QED
    BY <1>7, <2>2, <2>3 DEF Run
<1>8. CASE WakeSpuriously(w)
  BY <1>8 DEF WakeSpuriously
<1> QED
  BY <1>1, <1>2, <1>3, <1>4, <1>5, <1>6, <1>7, <1>8 DEF WorkerStep

\* Waking sleepers puts them before the mutex and disturbs nobody else.
LEMMA WakeAllTypes ==
  ASSUME TypeOK, WakeAll
  PROVE  /\ pc' \in [Workers -> WorkerPlaces]
         /\ \A w \in Workers : pc'[w] = "run" <=> pc[w] = "run"
         /\ \A w \in Workers : pc'[w] = "gone" <=> pc[w] = "gone"
  BY DEF TypeOK, WakeAll, WorkerPlaces

LEMMA NotifyOneTypes ==
  ASSUME TypeOK, NEW c \in Callers, NotifyOne(c)
  PROVE  /\ pc' \in [Workers -> WorkerPlaces]
         /\ \A w \in Workers : pc'[w] = "run" <=> pc[w] = "run"
         /\ \A w \in Workers : pc'[w] = "gone" <=> pc[w] = "gone"
<1>1. CASE UNCHANGED pc
  BY <1>1 DEF TypeOK
<1>2. CASE \E w \in Workers : pc[w] = "asleep" /\ GoTo(w, "lock")
  BY <1>2 DEF TypeOK, GoTo, WorkerPlaces
<1> QED
  BY <1>1, <1>2 DEF NotifyOne

\* A caller's steps keep the types.
LEMMA CallTypes ==
  ASSUME TypeOK, NEW c \in Callers,
         \/ CallStep(c)
         \/ \E t \in Tasks : Enqueue(c, t)
         \/ Pause(c) \/ Resume(c) \/ ClearQueue(c) \/ Stop(c)
  PROVE  TypeOK'
<1> USE DEF TypeOK, CallPlaces
<1>1. CASE NotifyOne(c)
  BY <1>1, NotifyOneTypes DEF NotifyOne
<1>2. CASE NotifyAll(c)
  BY <1>2, WakeAllTypes DEF NotifyAll
<1>3. CASE StopNotifies(c)
  BY <1>3, WakeAllTypes DEF StopNotifies
<1>4. CASE Join(c)
  BY <1>4 DEF Join
<1>5. ASSUME NEW t \in Tasks, Enqueue(c, t) PROVE TypeOK'
  <2>1. tasks' \in Seq(Tasks)
    BY <1>5, AppendEntries DEF Enqueue
  <2>2. outcome' \in [Tasks -> Outcomes]
    BY <1>5 DEF Enqueue, Outcomes
  <2> QED
    BY <1>5, <2>1, <2>2 DEF Enqueue
<1>6. CASE Pause(c)
  BY <1>6, PoolAssumption DEF Pause
<1>7. CASE Resume(c)
  BY <1>7 DEF Resume
<1>8. CASE ClearQueue(c)
  BY <1>8, ClearedOutcomes DEF ClearQueue
<1>9. CASE Stop(c)
  BY <1>9 DEF Stop
<1> QED
  BY <1>1, <1>2, <1>3, <1>4, <1>5, <1>6, <1>7, <1>8, <1>9 DEF CallStep

-------------------------------------------------------------------------------
(* Tasks. *)

\* What TaskInOnePlace says of one task.
InOnePlace(t) ==
  /\ outcome[t] = "pending" <=> Queued(t) \/ Running(t)
  /\ ~(Queued(t) /\ Running(t))
  /\ \A i, j \in DOMAIN tasks : tasks[i] = t /\ tasks[j] = t => i = j
  /\ \A v, w \in Workers : job[v] = t /\ job[w] = t => v = w

LEMMA OnePlaceEach == TaskInOnePlace <=> \A t \in Tasks : InOnePlace(t)
  BY DEF TaskInOnePlace, InOnePlace

\* A step that leaves queue, jobs and outcomes alone.
LEMMA SamePlaces ==
  ASSUME TaskInOnePlace, UNCHANGED <<tasks, job, outcome>>
  PROVE  TaskInOnePlace'
  BY DEF TaskInOnePlace, Queued, Running

\* Take: the first task goes from the queue to the worker.
LEMMA TakeKeepsPlaces ==
  ASSUME TypeOK, TaskInOnePlace, NEW w \in Workers, Take(w)
  PROVE  TaskInOnePlace'
<1> DEFINE h == Head(tasks)
<1>1. /\ tasks \in Seq(Tasks) /\ tasks # <<>> /\ tasks' = Tail(tasks)
      /\ job \in [Workers -> Tasks \cup {Nobody}] /\ job[w] \notin Tasks
      /\ job' = [job EXCEPT ![w] = h] /\ outcome' = outcome
  BY DEF TypeOK, Take
<1>2. /\ h \in Tasks /\ 1 \in DOMAIN tasks /\ tasks[1] = h
  BY <1>1, TailEntries
<1>3. \A i \in DOMAIN tasks' : i + 1 \in DOMAIN tasks /\ i + 1 # 1 /\ tasks'[i] = tasks[i + 1]
  BY <1>1, TailEntries
<1>4. \A i \in DOMAIN tasks :
        i # 1 => i - 1 \in DOMAIN tasks' /\ tasks'[i - 1] = tasks[i]
  BY <1>1, TailEntries
<1>5. \A i, j \in DOMAIN tasks' : i + 1 = j + 1 => i = j
  BY <1>1, TailEntries
<1>6. SUFFICES ASSUME NEW t \in Tasks PROVE InOnePlace(t)'
  BY OnePlaceEach DEF TaskInOnePlace, InOnePlace
<1>7. InOnePlace(t)
  BY OnePlaceEach
<1>8. job'[w] = h /\ \A v \in Workers : v # w => job'[v] = job[v]
  BY <1>1
<1>9. CASE t = h
  <2>1. Queued(t) /\ ~Running(t) /\ outcome[t] = "pending"
    BY <1>2, <1>7, <1>9 DEF InOnePlace, Queued
  <2>2. Running(t)'
    BY <1>8, <1>9 DEF Running
  <2>3. ~Queued(t)'
    <3> SUFFICES ASSUME NEW i \in DOMAIN tasks', tasks'[i] = t PROVE FALSE
      BY DEF Queued
    <3>1. i + 1 \in DOMAIN tasks /\ i + 1 # 1 /\ tasks[i + 1] = t
      BY <1>3
    <3> QED
      BY <3>1, <1>2, <1>7, <1>9 DEF InOnePlace
  <2>4. \A u, v \in Workers : job'[u] = t /\ job'[v] = t => u = v
    BY <1>8, <2>1 DEF Running
  <2> QED
    BY <1>1, <2>1, <2>2, <2>3, <2>4 DEF InOnePlace, Queued
<1>10. CASE t # h
  <2>1. Queued(t)' <=> Queued(t)
    <3>1. ASSUME NEW i \in DOMAIN tasks, tasks[i] = t PROVE Queued(t)'
      BY <1>2, <1>4, <1>10, <3>1 DEF Queued
    <3>2. ASSUME NEW i \in DOMAIN tasks', tasks'[i] = t PROVE Queued(t)
      BY <1>3, <3>2 DEF Queued
    <3> QED
      BY <3>1, <3>2 DEF Queued
  <2>2. Running(t)' <=> Running(t)
    BY <1>1, <1>8, <1>10 DEF Running
  <2>3. \A i, j \in DOMAIN tasks' : tasks'[i] = t /\ tasks'[j] = t => i = j
    BY <1>3, <1>5, <1>7 DEF InOnePlace
  <2>4. \A u, v \in Workers : job'[u] = t /\ job'[v] = t => u = v
    BY <1>7, <1>8, <1>10 DEF InOnePlace
  <2> QED
    BY <1>1, <1>7, <2>1, <2>2, <2>3, <2>4 DEF InOnePlace
<1> QED
  BY <1>9, <1>10

\* Run: the worker's task is answered and in no place.
LEMMA RunKeepsPlaces ==
  ASSUME TypeOK, TaskInOnePlace, NEW w \in Workers, Run(w)
  PROVE  TaskInOnePlace'
<1>1. /\ job[w] \in Tasks /\ tasks' = tasks
      /\ outcome \in [Tasks -> Outcomes]
      /\ job \in [Workers -> Tasks \cup {Nobody}]
      /\ job' = [job EXCEPT ![w] = Nobody]
      /\ \E how \in {"sent", "panicked"} : outcome' = [outcome EXCEPT ![job[w]] = how]
  BY DEF TypeOK, Run
<1>2. SUFFICES ASSUME NEW t \in Tasks PROVE InOnePlace(t)'
  BY OnePlaceEach DEF TaskInOnePlace, InOnePlace
<1>3. InOnePlace(t) /\ Nobody # t
  BY OnePlaceEach, PoolAssumption
<1>4. /\ job'[w] = Nobody
      /\ \A v \in Workers : v # w => job'[v] = job[v]
  BY <1>1
<1>5. CASE t = job[w]
  <2>1. Running(t) /\ ~Queued(t)
    BY <1>3, <1>5 DEF InOnePlace, Running
  <2>2. outcome'[t] # "pending"
    BY <1>1, <1>5
  <2>3. ~Running(t)'
    BY <1>3, <1>4, <1>5 DEF InOnePlace, Running
  <2> QED
    BY <1>1, <1>3, <1>4, <2>1, <2>2, <2>3 DEF InOnePlace, Queued
<1>6. CASE t # job[w]
  <2>1. outcome'[t] = outcome[t]
    BY <1>1, <1>6
  <2>2. Running(t)' <=> Running(t)
    BY <1>3, <1>4, <1>6 DEF Running
  <2>3. \A u, v \in Workers : job'[u] = t /\ job'[v] = t => u = v
    BY <1>3, <1>4 DEF InOnePlace
  <2> QED
    BY <1>1, <1>3, <2>1, <2>2, <2>3 DEF InOnePlace, Queued
<1> QED
  BY <1>5, <1>6

\* enqueue: a new task, in no place so far, goes to the end of the queue.
LEMMA EnqueueKeepsPlaces ==
  ASSUME TypeOK, TaskInOnePlace, NEW c \in Callers, NEW e \in Tasks, Enqueue(c, e)
  PROVE  TaskInOnePlace'
<1>1. /\ tasks \in Seq(Tasks) /\ tasks' = Append(tasks, e) /\ job' = job
      /\ outcome \in [Tasks -> Outcomes] /\ outcome[e] = "new"
      /\ outcome' = [outcome EXCEPT ![e] = "pending"]
  BY DEF TypeOK, Enqueue
<1>2. /\ DOMAIN tasks' = DOMAIN tasks \cup {Len(tasks) + 1}
      /\ Len(tasks) + 1 \notin DOMAIN tasks
      /\ tasks'[Len(tasks) + 1] = e
      /\ \A i \in DOMAIN tasks : tasks'[i] = tasks[i]
  BY <1>1, AppendEntries
<1>3. SUFFICES ASSUME NEW t \in Tasks PROVE InOnePlace(t)'
  BY OnePlaceEach DEF TaskInOnePlace, InOnePlace
<1>4. InOnePlace(t)
  BY OnePlaceEach
<1>5. CASE t = e
  <2>1. ~Queued(t) /\ ~Running(t)
    BY <1>1, <1>4, <1>5 DEF InOnePlace
  <2>2. Queued(t)' /\ outcome'[t] = "pending"
    BY <1>1, <1>2, <1>5 DEF Queued
  <2>3. \A i \in DOMAIN tasks' : tasks'[i] = t => i = Len(tasks) + 1
    BY <1>2, <2>1 DEF Queued
  <2> QED
    BY <1>1, <1>4, <2>1, <2>2, <2>3 DEF InOnePlace, Running
<1>6. CASE t # e
  <2>1. outcome'[t] = outcome[t]
    BY <1>1, <1>6
  <2>2. Queued(t)' <=> Queued(t)
    BY <1>2, <1>6 DEF Queued
  <2>3. \A i, j \in DOMAIN tasks' : tasks'[i] = t /\ tasks'[j] = t => i = j
    BY <1>2, <1>4, <1>6 DEF InOnePlace
  <2> QED
    BY <1>1, <1>4, <2>1, <2>2, <2>3 DEF InOnePlace, Running
<1> QED
  BY <1>5, <1>6

\* clear_queue: the queued tasks are answered, the running ones go on.
LEMMA ClearKeepsPlaces ==
  ASSUME TypeOK, TaskInOnePlace, NEW c \in Callers, ClearQueue(c)
  PROVE  TaskInOnePlace'
<1>1. /\ tasks' = <<>> /\ job' = job
      /\ outcome' = [t \in Tasks |-> IF Queued(t) THEN "cleared" ELSE outcome[t]]
  BY DEF ClearQueue, Queued
<1>2. SUFFICES ASSUME NEW t \in Tasks PROVE InOnePlace(t)'
  BY OnePlaceEach DEF TaskInOnePlace, InOnePlace
<1>3. InOnePlace(t)
  BY OnePlaceEach
<1>4. ~Queued(t)' /\ DOMAIN tasks' = {}
  BY <1>1 DEF Queued
<1>5. Running(t)' <=> Running(t)
  BY <1>1 DEF Running
<1>6. outcome'[t] = "pending" <=> outcome[t] = "pending" /\ ~Queued(t)
  BY <1>1
<1> QED
  BY <1>1, <1>3, <1>4, <1>5, <1>6 DEF InOnePlace

-------------------------------------------------------------------------------
(* The invariant. *)

LEMMA InitInvariant == Init => IInv
<1> SUFFICES ASSUME Init PROVE IInv
  OBVIOUS
<1>1. TypeOK
  BY InitTypes
<1>2. TaskInOnePlace
  BY PoolAssumption DEF Init, TaskInOnePlace, Queued, Running
<1>3. GoneAfterStop /\ StopDrains
  BY DEF Init, GoneAfterStop, StopDrains, Shared
<1> QED
  BY <1>1, <1>2, <1>3 DEF IInv

LEMMA NextTypes == TypeOK /\ [Next]_vars => TypeOK'
<1> SUFFICES ASSUME TypeOK, [Next]_vars PROVE TypeOK'
  OBVIOUS
<1>1. CASE UNCHANGED vars
  BY <1>1 DEF TypeOK, vars
<1>2. CASE Next
  BY <1>2, WorkerTypes, CallTypes DEF Next
<1> QED
  BY <1>1, <1>2

LEMMA NextPlaces == TypeOK /\ TaskInOnePlace /\ [Next]_vars => TaskInOnePlace'
<1> SUFFICES ASSUME TypeOK, TaskInOnePlace, [Next]_vars PROVE TaskInOnePlace'
  OBVIOUS
<1>1. CASE UNCHANGED vars
  BY <1>1, SamePlaces DEF vars
<1>2. ASSUME NEW w \in Workers, WorkerStep(w) \/ WakeSpuriously(w)
      PROVE  TaskInOnePlace'
  BY <1>2, SamePlaces, TakeKeepsPlaces, RunKeepsPlaces
     DEF WorkerStep, Lock, Return, StayOn, NothingToDo, Wait, WakeSpuriously
<1>3. ASSUME NEW c \in Callers,
             CallStep(c) \/ Pause(c) \/ Resume(c) \/ Stop(c)
      PROVE  TaskInOnePlace'
  BY <1>3, SamePlaces
     DEF CallStep, NotifyOne, NotifyAll, StopNotifies, Join, Pause, Resume, Stop
<1>4. ASSUME NEW c \in Callers, ClearQueue(c) \/ \E t \in Tasks : Enqueue(c, t)
      PROVE  TaskInOnePlace'
  BY <1>4, EnqueueKeepsPlaces, ClearKeepsPlaces
<1> QED
  BY <1>1, <1>2, <1>3, <1>4 DEF Next

\* A worker only leaves when stop is set, and stop stays set.
LEMMA NextGone == TypeOK /\ GoneAfterStop /\ [Next]_vars => GoneAfterStop'
<1> SUFFICES ASSUME TypeOK, GoneAfterStop, [Next]_vars PROVE GoneAfterStop'
  OBVIOUS
<1> USE DEF GoneAfterStop
<1>1. CASE UNCHANGED vars
  BY <1>1 DEF vars
<1>2. ASSUME NEW w \in Workers, WorkerStep(w) \/ WakeSpuriously(w)
      PROVE  GoneAfterStop'
  BY <1>2 DEF TypeOK, GoTo, WorkerStep, Lock, Return, StayOn, Take, NothingToDo, Wait,
              Run, WakeSpuriously
<1>3. ASSUME NEW c \in Callers, NotifyOne(c) PROVE GoneAfterStop'
  BY <1>3, NotifyOneTypes DEF NotifyOne
<1>4. ASSUME NEW c \in Callers, NotifyAll(c) \/ StopNotifies(c) PROVE GoneAfterStop'
  BY <1>4, WakeAllTypes DEF NotifyAll, StopNotifies
<1>5. ASSUME NEW c \in Callers,
             \/ Join(c) \/ Pause(c) \/ Resume(c) \/ Stop(c) \/ ClearQueue(c)
             \/ \E t \in Tasks : Enqueue(c, t)
      PROVE  GoneAfterStop'
  BY <1>5 DEF Join, Pause, Resume, Stop, ClearQueue, Enqueue
<1> QED
  BY <1>1, <1>2, <1>3, <1>4, <1>5 DEF Next, CallStep

-------------------------------------------------------------------------------
(* stop. *)

\* While stop has the pool nothing is enqueued, and a worker that leaves does so
\* from an empty queue.
LEMMA NextDrained ==
  ASSUME TypeOK, GoneAfterStop, [Next]_vars, ~Shared',
         ~Shared => ((\E w \in Workers : pc[w] = "gone") => tasks = <<>>)
  PROVE  (\E w \in Workers : pc'[w] = "gone") => tasks' = <<>>
<1> SUFFICES ASSUME NEW v \in Workers, pc'[v] = "gone" PROVE tasks' = <<>>
  OBVIOUS
<1>1. CASE UNCHANGED vars
  BY <1>1 DEF vars, Shared
<1>2. ASSUME NEW w \in Workers, WorkerStep(w) \/ WakeSpuriously(w)
      PROVE  tasks' = <<>>
  <2>1. ~Shared
    BY <1>2 DEF Shared, WorkerStep, Lock, Return, StayOn, Take, NothingToDo, Wait,
                Run, WakeSpuriously
  <2>2. CASE Return(w)
    BY <2>2 DEF Return
  <2>3. CASE Take(w)
    BY <2>1, <2>3 DEF TypeOK, GoTo, Take
  <2>4. CASE Lock(w) \/ StayOn(w) \/ NothingToDo(w) \/ Wait(w) \/ Run(w) \/ WakeSpuriously(w)
    BY <2>1, <2>4 DEF TypeOK, GoTo, Lock, StayOn, NothingToDo, Wait, Run, WakeSpuriously
  <2> QED
    BY <1>2, <2>2, <2>3, <2>4 DEF WorkerStep
<1>3. ASSUME NEW c \in Callers, NotifyOne(c) PROVE tasks' = <<>>
  <2>1. ~Shared
    BY <1>3 DEF TypeOK, Shared, NotifyOne
  <2> QED
    BY <1>3, <2>1, NotifyOneTypes DEF NotifyOne
<1>4. ASSUME NEW c \in Callers, NotifyAll(c) \/ StopNotifies(c) PROVE tasks' = <<>>
  <2>1. ~Shared
    BY <1>4 DEF TypeOK, Shared, NotifyAll, StopNotifies
  <2> QED
    BY <1>4, <2>1, WakeAllTypes DEF NotifyAll, StopNotifies
<1>5. ASSUME NEW c \in Callers, Join(c) PROVE tasks' = <<>>
  BY <1>5 DEF TypeOK, Shared, Join
<1>6. ASSUME NEW c \in Callers,
             Pause(c) \/ Resume(c) \/ ClearQueue(c) \/ \E t \in Tasks : Enqueue(c, t)
      PROVE  FALSE
  BY <1>6 DEF TypeOK, Shared, Enter, Pause, Resume, ClearQueue, Enqueue
<1>7. ASSUME NEW c \in Callers, Stop(c) PROVE tasks' = <<>>
  BY <1>7 DEF Stop, GoneAfterStop
<1> QED
  BY <1>1, <1>2, <1>3, <1>4, <1>5, <1>6, <1>7 DEF Next, CallStep

\* With all workers gone and the queue empty no task has a place left.
AnsweredAtTheEnd ==
  tasks = <<>> /\ (\A w \in Workers : pc[w] = "gone") =>
    \A t \in Tasks : outcome[t] # "pending"

LEMMA AllGoneAnswered == TypeOK /\ TaskInOnePlace => AnsweredAtTheEnd
<1> SUFFICES ASSUME TypeOK, TaskInOnePlace,
                    tasks = <<>>, \A w \in Workers : pc[w] = "gone",
                    NEW t \in Tasks
             PROVE  outcome[t] # "pending"
  BY DEF AnsweredAtTheEnd
<1>1. ~Queued(t)
  BY DEF Queued
<1>2. ~Running(t)
  BY DEF TypeOK, Running
<1> QED
  BY <1>1, <1>2 DEF TaskInOnePlace

LEMMA NextInvariant == IInv /\ [Next]_vars => IInv'
<1> SUFFICES ASSUME IInv, [Next]_vars PROVE IInv'
  OBVIOUS
<1> USE DEF IInv
<1>1. TypeOK'
  BY NextTypes
<1>2. TaskInOnePlace'
  BY NextPlaces
<1>3. GoneAfterStop'
  BY NextGone
<1>4. ~Shared' => ((\E w \in Workers : pc'[w] = "gone") => tasks' = <<>>)
  BY NextDrained DEF StopDrains
<1>5. AnsweredAtTheEnd'
  BY <1>1, <1>2, AllGoneAnswered, PTL
<1>6. StopDrains'
  BY <1>4, <1>5, PoolAssumption DEF StopDrains, AnsweredAtTheEnd
<1> QED
  BY <1>1, <1>2, <1>3, <1>6

\* In every state the pool can reach the inductive invariant holds.
THEOREM Invariant == Spec => []IInv
<1>1. Init => IInv
  BY InitInvariant
<1>2. IInv /\ [Next]_vars => IInv'
  BY NextInvariant
<1> QED
  BY <1>1, <1>2, PTL DEF Spec

\* The fields of the pool and of its threads keep their types.
THEOREM TypeCorrect == Spec => []TypeOK
<1>1. IInv => TypeOK
  BY DEF IInv
<1> QED
  BY <1>1, Invariant, PTL

\* enqueue, the workers and clear_queue hand each task on exactly once.
THEOREM OnePlaceEver == Spec => []TaskInOnePlace
<1>1. IInv => TaskInOnePlace
  BY DEF IInv
<1> QED
  BY <1>1, Invariant, PTL

\* When the last worker has left under stop, every task has been answered.
THEOREM Drained == Spec => []StopDrains
<1>1. IInv => StopDrains
  BY DEF IInv
<1> QED
  BY <1>1, Invariant, PTL

-------------------------------------------------------------------------------
(* Wakeups. *)

\* The worker that holds the mutex is the one between Lock and its release.
MutexHeld ==
  \A w \in Workers : pc[w] \in {"checkStop", "checkPaused", "sleep"} <=> holder = w

\* A worker about to sleep in a pool nobody paused has found the queue empty, and
\* it still is, because the worker has the mutex.
SleepersFoundNothing ==
  toggles = 0 => ~paused /\ \A w \in Workers : pc[w] = "sleep" => tasks = <<>>

\* The inductive invariant, relative to IInv.
WakeInv == MutexHeld /\ SleepersFoundNothing /\ NoLostWakeup

LEMMA InitWake == Init => WakeInv
  BY PoolAssumption DEF Init, WakeInv, MutexHeld, SleepersFoundNothing, NoLostWakeup

\* Only the worker at the mutex changes hands with it.
LEMMA NextMutex == TypeOK /\ MutexHeld /\ [Next]_vars => MutexHeld'
<1> SUFFICES ASSUME TypeOK, MutexHeld, [Next]_vars PROVE MutexHeld'
  OBVIOUS
<1>1. Nobody \notin Workers /\ pc \in [Workers -> WorkerPlaces]
  BY PoolAssumption DEF TypeOK
<1>2. CASE UNCHANGED vars
  BY <1>2 DEF vars, MutexHeld
<1>3. ASSUME NEW w \in Workers, WorkerStep(w) \/ WakeSpuriously(w)
      PROVE  MutexHeld'
  BY <1>1, <1>3 DEF MutexHeld, GoTo, WorkerStep, Lock, Return, StayOn, Take, NothingToDo,
                    Wait, Run, WakeSpuriously
<1>4. ASSUME NEW c \in Callers, NotifyOne(c) PROVE MutexHeld'
  <2>1. holder' = holder
    BY <1>4 DEF NotifyOne
  <2>2. UNCHANGED pc \/ \E w \in Workers : pc[w] = "asleep" /\ GoTo(w, "lock")
    BY <1>4 DEF NotifyOne
  <2> QED
    BY <1>1, <2>1, <2>2 DEF MutexHeld, GoTo
<1>5. ASSUME NEW c \in Callers, NotifyAll(c) \/ StopNotifies(c) PROVE MutexHeld'
  BY <1>1, <1>5 DEF NotifyAll, StopNotifies, WakeAll, MutexHeld
<1>6. ASSUME NEW c \in Callers,
             \/ Join(c) \/ Pause(c) \/ Resume(c) \/ Stop(c) \/ ClearQueue(c)
             \/ \E t \in Tasks : Enqueue(c, t)
      PROVE  MutexHeld'
  BY <1>6 DEF Join, Pause, Resume, Stop, ClearQueue, Enqueue, MutexHeld
<1> QED
  BY <1>2, <1>3, <1>4, <1>5, <1>6 DEF Next, CallStep

\* The queue of a worker about to sleep stays empty: enqueue needs the mutex.
LEMMA NextSleepers ==
  TypeOK /\ MutexHeld /\ SleepersFoundNothing /\ [Next]_vars => SleepersFoundNothing'
<1> SUFFICES ASSUME TypeOK, MutexHeld, SleepersFoundNothing, [Next]_vars, toggles' = 0
             PROVE  ~paused' /\ \A w \in Workers : pc'[w] = "sleep" => tasks' = <<>>
  BY DEF SleepersFoundNothing
<1>1. pc \in [Workers -> WorkerPlaces] /\ Nobody \notin Workers
  BY PoolAssumption DEF TypeOK
<1>2. CASE UNCHANGED vars
  BY <1>2 DEF vars, SleepersFoundNothing
<1>3. ASSUME NEW w \in Workers, WorkerStep(w) \/ WakeSpuriously(w)
      PROVE  ~paused' /\ \A v \in Workers : pc'[v] = "sleep" => tasks' = <<>>
  <2>1. ~paused /\ \A v \in Workers : pc[v] = "sleep" => tasks = <<>>
    BY <1>3 DEF SleepersFoundNothing, WorkerStep, Lock, Return, StayOn, Take,
                NothingToDo, Wait, Run, WakeSpuriously
  <2>2. CASE Take(w)
    BY <1>1, <2>1, <2>2 DEF Take, GoTo, MutexHeld
  <2>3. CASE NothingToDo(w)
    BY <1>1, <2>1, <2>3 DEF NothingToDo, GoTo
  <2>4. CASE Lock(w) \/ Return(w) \/ StayOn(w) \/ Wait(w) \/ Run(w) \/ WakeSpuriously(w)
    BY <1>1, <2>1, <2>4 DEF Lock, Return, StayOn, Wait, Run, WakeSpuriously, GoTo
  <2> QED
    BY <1>3, <2>2, <2>3, <2>4 DEF WorkerStep
<1>4. ASSUME NEW c \in Callers, NotifyOne(c)
      PROVE  ~paused' /\ \A v \in Workers : pc'[v] = "sleep" => tasks' = <<>>
  <2>1. UNCHANGED pc \/ \E w \in Workers : pc[w] = "asleep" /\ GoTo(w, "lock")
    BY <1>4 DEF NotifyOne
  <2>2. \A v \in Workers : pc'[v] = "sleep" => pc[v] = "sleep"
    BY <1>1, <2>1 DEF GoTo
  <2> QED
    BY <1>4, <2>2 DEF NotifyOne, SleepersFoundNothing
<1>5. ASSUME NEW c \in Callers, NotifyAll(c) \/ StopNotifies(c)
      PROVE  ~paused' /\ \A v \in Workers : pc'[v] = "sleep" => tasks' = <<>>
  BY <1>1, <1>5 DEF NotifyAll, StopNotifies, WakeAll, SleepersFoundNothing
<1>6. ASSUME NEW c \in Callers, NEW t \in Tasks, Enqueue(c, t)
      PROVE  ~paused' /\ \A v \in Workers : pc'[v] = "sleep" => tasks' = <<>>
  BY <1>1, <1>6 DEF Enqueue, MutexHeld, SleepersFoundNothing
<1>7. ASSUME NEW c \in Callers, Join(c) \/ Resume(c) \/ Stop(c) \/ ClearQueue(c)
      PROVE  ~paused' /\ \A v \in Workers : pc'[v] = "sleep" => tasks' = <<>>
  BY <1>7 DEF Join, Resume, Stop, ClearQueue, SleepersFoundNothing
<1>8. ~\E c \in Callers : Pause(c)
  BY PoolAssumption DEF Pause, TypeOK
<1> QED
  BY <1>2, <1>3, <1>4, <1>5, <1>6, <1>7, <1>8 DEF Next, CallStep

\* A worker that is awake, or a notification on its way.
SomebodyComes ==
  \/ \E w \in Workers : pc[w] \notin {"sleep", "asleep", "gone"}
  \/ \E c \in Callers : calls[c] = "notifyOne"

\* notify_one finds a sleeper to wake or somebody is awake: nobody is gone while
\* there is work, and nobody is about to sleep.
LEMMA NotifyOneWakes ==
  ASSUME IInv, SleepersFoundNothing, NEW c \in Callers, NotifyOne(c),
         toggles = 0, stop => ~Shared, tasks # <<>>
  PROVE  \E w \in Workers : pc'[w] \notin {"sleep", "asleep", "gone"}
<1>1. pc \in [Workers -> WorkerPlaces]
  BY DEF IInv, TypeOK
<1>2. CASE \E w \in Workers : pc[w] = "asleep" /\ GoTo(w, "lock")
  BY <1>1, <1>2 DEF GoTo
<1>3. CASE (\A w \in Workers : pc[w] # "asleep") /\ UNCHANGED pc
  <2>1. PICK w \in Workers : TRUE
    BY PoolAssumption
  <2>2. pc[w] # "sleep"
    BY DEF SleepersFoundNothing
  <2>3. pc[w] # "gone"
    BY DEF IInv, GoneAfterStop, StopDrains
  <2> QED
    BY <1>3, <2>2, <2>3
<1> QED
  BY <1>2, <1>3 DEF NotifyOne

LEMMA NextWakeup == IInv /\ WakeInv /\ [Next]_vars => NoLostWakeup'
<1> SUFFICES ASSUME IInv, WakeInv, [Next]_vars,
                    toggles' = 0, stop' => ~Shared', tasks' # <<>>
             PROVE  SomebodyComes'
  BY DEF NoLostWakeup, SomebodyComes
<1>1. pc \in [Workers -> WorkerPlaces] /\ calls \in [Callers -> CallPlaces]
  BY DEF IInv, TypeOK
<1>2. toggles = 0 /\ (stop => ~Shared) /\ tasks # <<>> => SomebodyComes
  BY DEF WakeInv, NoLostWakeup, SomebodyComes
<1>3. CASE UNCHANGED vars
  BY <1>2, <1>3 DEF vars, SomebodyComes, Shared
<1>4. ASSUME NEW w \in Workers, WorkerStep(w) \/ WakeSpuriously(w)
      PROVE  SomebodyComes'
  <2>1. UNCHANGED <<toggles, stop, calls>> /\ Shared' = Shared
    BY <1>4 DEF WorkerStep, Lock, Return, StayOn, Take, NothingToDo, Wait, Run,
                WakeSpuriously, Shared
  <2>2. CASE Lock(w) \/ StayOn(w) \/ Take(w) \/ Run(w) \/ WakeSpuriously(w)
    BY <1>1, <2>2 DEF Lock, StayOn, Take, Run, WakeSpuriously, GoTo, SomebodyComes
  <2>3. ~Return(w)
    BY DEF Return
  <2>4. ~NothingToDo(w)
    BY <2>1 DEF NothingToDo, WakeInv, SleepersFoundNothing
  <2>5. ~Wait(w)
    BY <2>1 DEF Wait, WakeInv, SleepersFoundNothing
  <2> QED
    BY <1>4, <2>2, <2>3, <2>4, <2>5 DEF WorkerStep
<1>5. ASSUME NEW c \in Callers, NotifyOne(c) PROVE SomebodyComes'
  <2>1. toggles = 0 /\ (stop => ~Shared) /\ tasks # <<>>
    BY <1>1, <1>5 DEF NotifyOne, Shared
  <2> QED
    BY <1>5, <2>1, NotifyOneWakes DEF WakeInv, SomebodyComes
<1>6. ASSUME NEW c \in Callers, NotifyAll(c) \/ StopNotifies(c) PROVE SomebodyComes'
  <2>1. toggles = 0 /\ (stop => ~Shared) /\ tasks # <<>>
    BY <1>1, <1>6 DEF NotifyAll, StopNotifies, Shared
  <2>2. \A d \in Callers : calls[d] = "notifyOne" => calls'[d] = "notifyOne"
    BY <1>1, <1>6 DEF NotifyAll, StopNotifies
  <2>3. \A w \in Workers : pc[w] # "asleep" => pc'[w] = pc[w]
    BY <1>1, <1>6 DEF NotifyAll, StopNotifies, WakeAll
  <2> QED
    BY <1>2, <2>1, <2>2, <2>3 DEF SomebodyComes
<1>7. ASSUME NEW c \in Callers, NEW t \in Tasks, Enqueue(c, t) PROVE SomebodyComes'
  <2>1. calls'[c] = "notifyOne"
    BY <1>1, <1>7 DEF Enqueue
  <2> QED
    BY <2>1 DEF SomebodyComes
<1>8. ASSUME NEW c \in Callers, Stop(c) PROVE SomebodyComes'
  <2>1. toggles = 0 /\ ~stop /\ tasks # <<>> /\ \A d \in Callers : calls[d] # "notifyOne"
    BY <1>8 DEF Stop
  <2> QED
    BY <1>2, <1>8, <2>1 DEF Stop, SomebodyComes
<1>9. ASSUME NEW c \in Callers, Join(c) PROVE SomebodyComes'
  <2>1. toggles = 0 /\ tasks # <<>> /\ ~Shared /\ \A w \in Workers : pc[w] = "gone"
    BY <1>9 DEF Join, Shared
  <2>2. tasks = <<>>
    BY <2>1, PoolAssumption DEF IInv, StopDrains
  <2> QED
    BY <2>1, <2>2
<1>10. ~\E c \in Callers : Pause(c) \/ Resume(c) \/ ClearQueue(c)
  BY PoolAssumption DEF Pause, Resume, ClearQueue, IInv, TypeOK
<1> QED
  BY <1>3, <1>4, <1>5, <1>6, <1>7, <1>8, <1>9, <1>10 DEF Next, CallStep

\* No interleaving of the workers' check and sleep with enqueue, notify_one and
\* stop loses a wakeup, for any number of workers, callers and tasks.
THEOREM WakeupsKept == Spec => []NoLostWakeup
<1>1. IInv /\ WakeInv /\ [Next]_vars => WakeInv'
  BY NextMutex, NextSleepers, NextWakeup DEF IInv, WakeInv
<1>2. Spec => []WakeInv
  BY <1>1, InitWake, Invariant, PTL DEF Spec
<1>3. WakeInv => NoLostWakeup
  BY DEF WakeInv
<1> QED
  BY <1>2, <1>3, PTL

-------------------------------------------------------------------------------
(* The pool implements TaskQueue. *)

\* The tasks that run, as TaskQueue has them.
Jobs == {job[w] : w \in Workers} \ {Nobody}

LEMMA JobsAre ==
  ASSUME TypeOK
  PROVE  /\ Jobs \subseteq Tasks
         /\ \A t \in Tasks : t \in Jobs <=> Running(t)
<1>1. job \in [Workers -> Tasks \cup {Nobody}] /\ Nobody \notin Tasks
  BY PoolAssumption DEF TypeOK
<1> QED
  BY <1>1 DEF Jobs, Running

\* A step that leaves queue, jobs and outcomes alone is a stutter.
LEMMA SilentStep ==
  ASSUME UNCHANGED <<tasks, job, outcome>>
  PROVE  UNCHANGED Promised!vars
  BY DEF Promised!vars, Answers

LEMMA TakeBegins ==
  ASSUME TypeOK, TaskInOnePlace, NEW w \in Workers, Take(w)
  PROVE  Promised!Begin
<1> DEFINE h == Head(tasks)
<1>1. /\ tasks \in Seq(Tasks) /\ tasks # <<>> /\ tasks' = Tail(tasks)
      /\ job \in [Workers -> Tasks \cup {Nobody}] /\ job[w] \notin Tasks
      /\ job' = [job EXCEPT ![w] = h] /\ outcome' = outcome
  BY DEF TypeOK, Take
<1>2. h \in Tasks /\ 1 \in DOMAIN tasks /\ tasks[1] = h
  BY <1>1, TailEntries
<1>3. Queued(h) /\ h # Nobody /\ job[w] = Nobody
  BY <1>1, <1>2, PoolAssumption DEF Queued
<1>4. h \notin Jobs
  BY <1>2, <1>3, JobsAre DEF TaskInOnePlace
<1>5. job'[w] = h /\ \A v \in Workers : v # w => job'[v] = job[v]
  BY <1>1
<1> HIDE DEF h
<1>6. Jobs' = Jobs \cup {h}
  BY <1>3, <1>5 DEF Jobs
<1> QED
  BY <1>1, <1>4, <1>6 DEF Promised!Begin, Jobs, Answers, h

LEMMA RunEnds ==
  ASSUME TypeOK, TaskInOnePlace, NEW w \in Workers, Run(w)
  PROVE  \E t \in Tasks : Promised!End(t)
<1>0. PICK t \in Tasks : t = job[w]
  BY DEF TypeOK, Run
<1>1. /\ t \in Tasks /\ tasks' = tasks
      /\ outcome \in [Tasks -> Outcomes]
      /\ job \in [Workers -> Tasks \cup {Nobody}]
      /\ job' = [job EXCEPT ![w] = Nobody]
      /\ Nobody \notin Tasks
  BY PoolAssumption DEF TypeOK, Run
<1>2. PICK how \in {"sent", "panicked"} : outcome' = [outcome EXCEPT ![t] = how]
  BY <1>0 DEF Run
<1>3. /\ outcome[t] = "pending" /\ ~Queued(t)
      /\ \A v \in Workers : job[v] = t => v = w
  BY <1>0, <1>1 DEF TaskInOnePlace, Running
<1>4. job'[w] = Nobody /\ \A v \in Workers : v # w => job'[v] = job[v]
  BY <1>1
<1>5. t \in Jobs
  BY <1>0, <1>1 DEF Jobs
<1>6. \A u \in Tasks : outcome'[u] = IF u = t THEN how ELSE outcome[u]
  BY <1>1, <1>2
<1>7. Jobs' = Jobs \ {t}
  BY <1>0, <1>1, <1>3, <1>4 DEF Jobs
<1>8. Answers' = [Answers EXCEPT ![t] = how] /\ Answers[t] = "none"
  BY <1>1, <1>3, <1>6 DEF Answers
<1>9. ~Promised!Waits(t)
  BY <1>3 DEF Promised!Waits, Queued
<1>10. /\ t \in {job[v] : v \in Workers} \ {Nobody}
       /\ ({job[v] : v \in Workers} \ {Nobody})'
          = ({job[v] : v \in Workers} \ {Nobody}) \ {t}
  BY <1>5, <1>7 DEF Jobs
<1>11. \E h \in {"sent", "panicked"} : Answers' = [Answers EXCEPT ![t] = h]
  BY <1>8
<1>12. Promised!End(t)
  BY <1>1, <1>8, <1>9, <1>10, <1>11 DEF Promised!End
<1> QED
  BY <1>12

LEMMA EnqueueSubmits ==
  ASSUME TypeOK, TaskInOnePlace, NEW c \in Callers, NEW t \in Tasks, Enqueue(c, t)
  PROVE  Promised!Submit(t)
<1>1. /\ tasks' = Append(tasks, t) /\ job' = job
      /\ outcome \in [Tasks -> Outcomes] /\ outcome[t] = "new"
      /\ outcome' = [outcome EXCEPT ![t] = "pending"]
  BY DEF TypeOK, Enqueue
<1>2. ~Queued(t) /\ ~Running(t)
  BY <1>1 DEF TaskInOnePlace
<1>3. t \notin Jobs /\ ~Promised!Waits(t)
  BY <1>2, JobsAre DEF Promised!Waits, Queued
<1>4. Answers' = Answers /\ Answers[t] = "none"
  BY <1>1 DEF Answers
<1> QED
  BY <1>1, <1>3, <1>4 DEF Promised!Submit, Jobs

LEMMA ClearDrops ==
  ASSUME TypeOK, TaskInOnePlace, NEW c \in Callers, ClearQueue(c)
  PROVE  Promised!Drop
<1>1. /\ tasks' = <<>> /\ job' = job
      /\ outcome' = [t \in Tasks |-> IF Queued(t) THEN "cleared" ELSE outcome[t]]
  BY DEF ClearQueue, Queued
<1>2. \A t : Promised!Waits(t) <=> Queued(t)
  BY DEF Promised!Waits, Queued
<1>3. \A t \in Jobs : ~Promised!Waits(t)
  BY <1>2, JobsAre DEF TaskInOnePlace
<1>4. Answers' = [t \in Tasks |-> IF Promised!Waits(t) THEN "cleared" ELSE Answers[t]]
  BY <1>1, <1>2 DEF Answers
<1> QED
  BY <1>1, <1>3, <1>4 DEF Promised!Drop, Jobs

\* To those who use it the pool is a queue: in any interleaving of workers and
\* callers tasks are begun in their order and each once, and what was begun ends
\* with one answer.
THEOREM Refinement == Spec => ImplementsQueue
<1>1. Init => Promised!Init
  <2> SUFFICES ASSUME Init PROVE Promised!Init
    OBVIOUS
  <2>1. Jobs = {}
    BY DEF Init, Jobs
  <2>2. Answers = [t \in Tasks |-> "none"]
    BY DEF Init, Answers
  <2> QED
    BY <2>1, <2>2 DEF Init, Promised!Init, Jobs
<1>2. IInv /\ [Next]_vars => [Promised!Next]_(Promised!vars)
  <2> SUFFICES ASSUME TypeOK, TaskInOnePlace, [Next]_vars
               PROVE  [Promised!Next]_(Promised!vars)
    BY DEF IInv
  <2>1. CASE UNCHANGED <<tasks, job, outcome>>
    BY <2>1, SilentStep
  <2>2. ASSUME NEW w \in Workers, WorkerStep(w) \/ WakeSpuriously(w)
        PROVE  [Promised!Next]_(Promised!vars)
    <3>1. CASE Take(w)
      BY <3>1, TakeBegins DEF Promised!Next
    <3>2. CASE Run(w)
      BY <3>2, RunEnds DEF Promised!Next
    <3> QED
      BY <2>1, <2>2, <3>1, <3>2
         DEF WorkerStep, Lock, Return, StayOn, NothingToDo, Wait, WakeSpuriously
  <2>3. ASSUME NEW c \in Callers, NEW t \in Tasks, Enqueue(c, t)
        PROVE  [Promised!Next]_(Promised!vars)
    BY <2>3, EnqueueSubmits DEF Promised!Next
  <2>4. ASSUME NEW c \in Callers, ClearQueue(c)
        PROVE  [Promised!Next]_(Promised!vars)
    BY <2>4, ClearDrops DEF Promised!Next
  <2>5. ASSUME NEW c \in Callers, CallStep(c) \/ Pause(c) \/ Resume(c) \/ Stop(c)
        PROVE  [Promised!Next]_(Promised!vars)
    BY <2>1, <2>5
       DEF CallStep, NotifyOne, NotifyAll, StopNotifies, Join, Pause, Resume, Stop
  <2>6. CASE UNCHANGED vars
    BY <2>1, <2>6 DEF vars
  <2> QED
    BY <2>2, <2>3, <2>4, <2>5, <2>6 DEF Next
<1> QED
  BY <1>1, <1>2, Invariant, PTL DEF Spec, ImplementsQueue, Promised!Spec

================================================================================

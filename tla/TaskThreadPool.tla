----------------------------- MODULE TaskThreadPool -----------------------------
(***************************************************************************)
(* crates/core/src/threading.rs: worker threads that share a queue of jobs *)
(* under a mutex, a condition variable, and two flags, stop and paused,    *)
(* that are read and written without the mutex.                            *)
(*                                                                         *)
(* A step is what one thread does between two points where another can     *)
(* see it: taking the mutex, each load of a flag, the wait (which releases *)
(* the mutex and goes to sleep in one step), each store, each notify.      *)
(* enqueue, pause, resume and clear_queue take &self and may run in        *)
(* several threads at once; stop takes &mut self and runs alone.           *)
(*                                                                         *)
(* A definition Name_Variant is Name with a mistake in it: it shows that   *)
(* the properties notice the mistake, and no specification uses it.        *)
(***************************************************************************)
EXTENDS Naturals, Sequences, FiniteSets

CONSTANTS
  Workers,     \* the threads of the pool
  Callers,     \* the threads that use the pool
  Tasks,       \* the tasks that may ever be enqueued
  Nobody,      \* no thread, no task
  MaxToggles   \* bound: calls of pause

ASSUME PoolAssumption ==
  /\ Workers # {} /\ IsFiniteSet(Workers)
  /\ Nobody \notin Workers \cup Callers \cup Tasks
  /\ MaxToggles \in Nat

VARIABLES
  tasks,     \* the queue
  stop, paused,
  holder,    \* the worker that holds the mutex
  pc,        \* where each worker is in worker_loop
  job,       \* the task each worker runs
  calls,     \* where each caller is in a method of the pool
  outcome,   \* history: what became of each task
  toggles    \* bound: calls of pause so far

vars == <<tasks, stop, paused, holder, pc, job, calls, outcome, toggles>>

WorkerPlaces == {"lock", "checkStop", "checkPaused", "sleep", "asleep", "run", "gone"}
CallPlaces == {"out", "notifyOne", "notifyAll", "stopping", "joining"}
Outcomes == {"new", "pending", "sent", "panicked", "cleared"}

TypeOK ==
  /\ tasks \in Seq(Tasks)
  /\ stop \in BOOLEAN /\ paused \in BOOLEAN
  /\ holder \in Workers \cup {Nobody}
  /\ pc \in [Workers -> WorkerPlaces]
  /\ job \in [Workers -> Tasks \cup {Nobody}]
  /\ \A w \in Workers : pc[w] = "run" <=> job[w] \in Tasks
  /\ calls \in [Callers -> CallPlaces]
  /\ outcome \in [Tasks -> Outcomes]
  /\ toggles \in 0 .. MaxToggles

Init ==
  /\ tasks = <<>>
  /\ stop = FALSE /\ paused = FALSE
  /\ holder = Nobody
  /\ pc = [w \in Workers |-> "lock"]
  /\ job = [w \in Workers |-> Nobody]
  /\ calls = [c \in Callers |-> "out"]
  /\ outcome = [t \in Tasks |-> "new"]
  /\ toggles = 0

-------------------------------------------------------------------------------
(* worker_loop. *)

GoTo(w, place) == pc' = [pc EXCEPT ![w] = place]

\* The mutex at the top of the loop, or taken again on the way out of the wait.
Lock(w) ==
  /\ pc[w] = "lock"
  /\ holder = Nobody
  /\ holder' = w
  /\ GoTo(w, "checkStop")
  /\ UNCHANGED <<tasks, stop, paused, job, calls, outcome, toggles>>

Return_WithWork(w) ==
  /\ pc[w] = "checkStop"
  /\ stop
  /\ holder' = Nobody
  /\ GoTo(w, "gone")
  /\ UNCHANGED <<tasks, stop, paused, job, calls, outcome, toggles>>

\* stop.load() && tasks.is_empty(): the worker returns.
Return(w) ==
  /\ pc[w] = "checkStop"
  /\ stop /\ tasks = <<>>
  /\ holder' = Nobody
  /\ GoTo(w, "gone")
  /\ UNCHANGED <<tasks, stop, paused, job, calls, outcome, toggles>>

StayOn(w) ==
  /\ pc[w] = "checkStop"
  /\ ~(stop /\ tasks = <<>>)
  /\ GoTo(w, "checkPaused")
  /\ UNCHANGED <<tasks, stop, paused, holder, job, calls, outcome, toggles>>

Take_Unchecked(w) ==
  /\ pc[w] = "checkPaused"
  /\ ~paused
  /\ job' = [job EXCEPT ![w] = IF tasks = <<>> THEN Nobody ELSE Head(tasks)]
  /\ tasks' = IF tasks = <<>> THEN <<>> ELSE Tail(tasks)
  /\ holder' = Nobody
  /\ GoTo(w, "run")
  /\ UNCHANGED <<stop, paused, calls, outcome, toggles>>

Take_Unpopped(w) ==
  /\ pc[w] = "checkPaused"
  /\ ~paused /\ tasks # <<>>
  /\ job' = [job EXCEPT ![w] = Head(tasks)]
  /\ holder' = Nobody
  /\ GoTo(w, "run")
  /\ UNCHANGED <<tasks, stop, paused, calls, outcome, toggles>>

Take_Last(w) ==
  /\ pc[w] = "checkPaused"
  /\ ~paused /\ tasks # <<>>
  /\ job' = [job EXCEPT ![w] = tasks[Len(tasks)]]
  /\ tasks' = SubSeq(tasks, 1, Len(tasks) - 1)
  /\ holder' = Nobody
  /\ GoTo(w, "run")
  /\ UNCHANGED <<stop, paused, calls, outcome, toggles>>

\* !paused.load() && !tasks.is_empty(): the worker takes the first job.
Take(w) ==
  /\ pc[w] = "checkPaused"
  /\ ~paused /\ tasks # <<>>
  /\ job' = [job EXCEPT ![w] = Head(tasks)]
  /\ tasks' = Tail(tasks)
  /\ holder' = Nobody
  /\ GoTo(w, "run")
  /\ UNCHANGED <<stop, paused, calls, outcome, toggles>>

NothingToDo_Unlocked(w) ==
  /\ pc[w] = "checkPaused"
  /\ paused \/ tasks = <<>>
  /\ holder' = Nobody
  /\ GoTo(w, "sleep")
  /\ UNCHANGED <<tasks, stop, paused, job, calls, outcome, toggles>>

NothingToDo(w) ==
  /\ pc[w] = "checkPaused"
  /\ paused \/ tasks = <<>>
  /\ GoTo(w, "sleep")
  /\ UNCHANGED <<tasks, stop, paused, holder, job, calls, outcome, toggles>>

\* condvar.wait: from here on a notification reaches the worker.
Wait(w) ==
  /\ pc[w] = "sleep"
  /\ holder' = Nobody
  /\ GoTo(w, "asleep")
  /\ UNCHANGED <<tasks, stop, paused, job, calls, outcome, toggles>>

\* A condition variable may wake a thread without a notification.
WakeSpuriously(w) ==
  /\ pc[w] = "asleep"
  /\ GoTo(w, "lock")
  /\ UNCHANGED <<tasks, stop, paused, holder, job, calls, outcome, toggles>>

\* The job outside the lock; catch_unwind keeps a panic from ending the worker,
\* and the receiver then finds the sender gone.
Run(w) ==
  /\ pc[w] = "run"
  /\ \E how \in {"sent", "panicked"} : outcome' = [outcome EXCEPT ![job[w]] = how]
  /\ job' = [job EXCEPT ![w] = Nobody]
  /\ GoTo(w, "lock")
  /\ UNCHANGED <<tasks, stop, paused, holder, calls, toggles>>

WorkerStep(w) ==
  \/ Lock(w) \/ Return(w) \/ StayOn(w) \/ Take(w) \/ NothingToDo(w) \/ Wait(w) \/ Run(w)

-------------------------------------------------------------------------------
(* The methods of the pool. *)

\* No caller is inside stop, which has the pool for itself.
Shared == \A c \in Callers : calls[c] \notin {"stopping", "joining"}

Enter(c) == calls[c] = "out" /\ Shared

\* enqueue, up to the end of the critical section.
Enqueue(c, t) ==
  /\ Enter(c)
  /\ outcome[t] = "new"
  /\ holder = Nobody
  /\ tasks' = Append(tasks, t)
  /\ outcome' = [outcome EXCEPT ![t] = "pending"]
  /\ calls' = [calls EXCEPT ![c] = "notifyOne"]
  /\ UNCHANGED <<stop, paused, holder, pc, job, toggles>>

\* notify_one: one of the sleeping workers wakes, if there is one.
NotifyOne(c) ==
  /\ calls[c] = "notifyOne"
  /\ calls' = [calls EXCEPT ![c] = "out"]
  /\ \/ \E w \in Workers : pc[w] = "asleep" /\ GoTo(w, "lock")
     \/ (\A w \in Workers : pc[w] # "asleep") /\ UNCHANGED pc
  /\ UNCHANGED <<tasks, stop, paused, holder, job, outcome, toggles>>

Pause(c) ==
  /\ Enter(c)
  /\ toggles < MaxToggles
  /\ toggles' = toggles + 1
  /\ paused' = TRUE
  /\ UNCHANGED <<tasks, stop, holder, pc, job, calls, outcome>>

\* resume: the store, then notify_all.
Resume(c) ==
  /\ Enter(c)
  /\ toggles > 0
  /\ paused' = FALSE
  /\ calls' = [calls EXCEPT ![c] = "notifyAll"]
  /\ UNCHANGED <<tasks, stop, holder, pc, job, outcome, toggles>>

WakeAll == pc' = [w \in Workers |-> IF pc[w] = "asleep" THEN "lock" ELSE pc[w]]

NotifyAll(c) ==
  /\ calls[c] = "notifyAll"
  /\ WakeAll
  /\ calls' = [calls EXCEPT ![c] = "out"]
  /\ UNCHANGED <<tasks, stop, paused, holder, job, outcome, toggles>>

\* clear_queue: the jobs are dropped, their receivers find the senders gone.
ClearQueue(c) ==
  /\ Enter(c)
  /\ holder = Nobody
  /\ tasks # <<>>
  /\ outcome' = [t \in Tasks |->
       IF \E i \in DOMAIN tasks : tasks[i] = t THEN "cleared" ELSE outcome[t]]
  /\ tasks' = <<>>
  /\ UNCHANGED <<stop, paused, holder, pc, job, calls, toggles>>

\* stop, also from drop: the swap, and nothing more if it was called before.
Stop(c) ==
  /\ \A d \in Callers : calls[d] = "out"
  /\ ~stop
  /\ stop' = TRUE
  /\ calls' = [calls EXCEPT ![c] = "stopping"]
  /\ UNCHANGED <<tasks, paused, holder, pc, job, outcome, toggles>>

StopNotifies(c) ==
  /\ calls[c] = "stopping"
  /\ WakeAll
  /\ calls' = [calls EXCEPT ![c] = "joining"]
  /\ UNCHANGED <<tasks, stop, paused, holder, job, outcome, toggles>>

\* All handles are joined: stop returns.
Join(c) ==
  /\ calls[c] = "joining"
  /\ \A w \in Workers : pc[w] = "gone"
  /\ calls' = [calls EXCEPT ![c] = "out"]
  /\ UNCHANGED <<tasks, stop, paused, holder, pc, job, outcome, toggles>>

CallStep(c) == NotifyOne(c) \/ NotifyAll(c) \/ StopNotifies(c) \/ Join(c)

-------------------------------------------------------------------------------
Next ==
  \/ \E w \in Workers : WorkerStep(w) \/ WakeSpuriously(w)
  \/ \E c \in Callers :
       \/ CallStep(c)
       \/ \E t \in Tasks : Enqueue(c, t)
       \/ Pause(c) \/ Resume(c) \/ ClearQueue(c) \/ Stop(c)

Spec == Init /\ [][Next]_vars

\* A thread that can go on does; nobody has to call the pool, and no thread is
\* sure to be woken without a notification.
Fairness ==
  /\ \A w \in Workers : WF_vars(WorkerStep(w))
  /\ \A c \in Callers : WF_vars(CallStep(c))

FairSpec == Spec /\ Fairness

-------------------------------------------------------------------------------
(* Properties. *)

Queued(t) == \E i \in DOMAIN tasks : tasks[i] = t
Running(t) == \E w \in Workers : job[w] = t

\* A task that has been handed over and not answered is in exactly one place,
\* the queue or one worker; an answered one is in none.  So no task is lost,
\* and none is run twice.
TaskInOnePlace ==
  \A t \in Tasks :
    /\ outcome[t] = "pending" <=> Queued(t) \/ Running(t)
    /\ ~(Queued(t) /\ Running(t))
    /\ \A i, j \in DOMAIN tasks : tasks[i] = t /\ tasks[j] = t => i = j
    /\ \A v, w \in Workers : job[v] = t /\ job[w] = t => v = w

\* While stop has the pool, no worker leaves tasks behind in the queue; and when
\* the last has left, so that stop returns, every task enqueued before stop has
\* been answered, also the ones other workers were running.
StopDrains ==
  ~Shared =>
    /\ (\E w \in Workers : pc[w] = "gone") => tasks = <<>>
    /\ (\A w \in Workers : pc[w] = "gone") => \A t \in Tasks : outcome[t] # "pending"

\* What a caller finds of a task; one that is new or pending has no answer yet.
Answers ==
  [t \in Tasks |-> IF outcome[t] \in {"new", "pending"} THEN "none" ELSE outcome[t]]

Promised == INSTANCE TaskQueue WITH
              waiting <- tasks, running <- {job[w] : w \in Workers} \ {Nobody},
              answer <- Answers

\* For its callers the pool is the queue of TaskQueue, whatever the workers and
\* the methods do between two of their steps: tasks begin in their order, each
\* once, and nothing but clear_queue drops one.
ImplementsQueue == Promised!Spec

\* As long as nobody pauses the pool, and while stop drains it, somebody will come
\* for a task in the queue: a worker that is awake, which looks at the queue
\* before it sleeps, or a notification that is still to be sent.  So no order of
\* the check, the sleep, enqueue and its notify_one loses a wakeup.
NoLostWakeup ==
  toggles = 0 /\ (stop => ~Shared) /\ tasks # <<>> =>
    \/ \E w \in Workers : pc[w] \notin {"sleep", "asleep", "gone"}
    \/ \E c \in Callers : calls[c] = "notifyOne"

\* As long as nobody pauses the pool, every task enqueued before stop is
\* answered: no order of enqueue, notify_one, the checks of the workers and
\* their sleep leaves a task in the queue with all workers asleep.
UnpausedTasksRun ==
  [](toggles = 0) =>
    \A t \in Tasks : (outcome[t] = "pending" /\ ~stop) ~> (outcome[t] # "pending")

\* The destructor: stop (and with it drop) comes to its end.
StopReturns == \A c \in Callers : (calls[c] = "stopping") ~> (calls[c] = "out")

===============================================================================

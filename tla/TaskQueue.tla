------------------------------- MODULE TaskQueue -------------------------------
(***************************************************************************)
(* What the thread pool promises those who use it: tasks are begun in the  *)
(* order in which they were handed over, each once, and any number of them *)
(* may run at a time.  A task that was begun ends with an answer or with a *)
(* panic; those that were not may be dropped, all together.                *)
(***************************************************************************)
EXTENDS Naturals, Sequences

CONSTANT Tasks   \* the tasks that may ever be handed over

VARIABLES
  waiting,   \* the tasks handed over and not begun, in their order
  running,   \* the set of the tasks begun and not ended
  answer     \* what the one who handed a task over finds

vars == <<waiting, running, answer>>

Waits(t) == \E i \in DOMAIN waiting : waiting[i] = t

Init ==
  /\ waiting = <<>>
  /\ running = {}
  /\ answer = [t \in Tasks |-> "none"]

Submit(t) ==
  /\ answer[t] = "none" /\ ~Waits(t) /\ t \notin running
  /\ waiting' = Append(waiting, t)
  /\ UNCHANGED <<running, answer>>

Begin ==
  /\ waiting # <<>>
  /\ Head(waiting) \notin running
  /\ waiting' = Tail(waiting)
  /\ running' = running \cup {Head(waiting)}
  /\ UNCHANGED answer

\* A task that ends runs nowhere any more, and had no answer before.
End(t) ==
  /\ t \in running /\ ~Waits(t)
  /\ answer[t] = "none"
  /\ running' = running \ {t}
  /\ \E how \in {"sent", "panicked"} : answer' = [answer EXCEPT ![t] = how]
  /\ UNCHANGED waiting

\* Of the tasks dropped none was begun.
Drop ==
  /\ \A t \in running : ~Waits(t)
  /\ waiting' = <<>>
  /\ answer' = [t \in Tasks |-> IF Waits(t) THEN "cleared" ELSE answer[t]]
  /\ UNCHANGED running

Next ==
  \/ \E t \in Tasks : Submit(t) \/ End(t)
  \/ Begin
  \/ Drop

Spec == Init /\ [][Next]_vars

================================================================================

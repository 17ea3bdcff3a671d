----------------------------- MODULE JobService -----------------------------
(***************************************************************************)
(* What the archive runner promises its callers, with no workers, slots or *)
(* messages: run() accepts a job and answers it exactly once.  Accepted    *)
(* jobs start in the order of their acceptance, at most Capacity run at a  *)
(* time, a job that has not started may be withdrawn, and closing the      *)
(* service cancels whatever is left.  WorkerRunner implements it.          *)
(***************************************************************************)
EXTENDS Naturals, Sequences, FiniteSets, SequencesExt

CONSTANTS
  Jobs,      \* every job a caller may ever submit
  Capacity   \* how many jobs may run at the same time (a positive number)

VARIABLES
  waiting,   \* accepted jobs that have not started, oldest first
  running,   \* started jobs without an answer
  status,    \* what the caller of each job sees
  closed     \* the service accepts no more jobs

vars == <<waiting, running, status, closed>>

\* How the promise of run() can settle, and what it looks like before.
Answers == {"done", "error", "cancelled", "crashed", "spawnFailed"}
Statuses == {"new", "pending"} \cup Answers

TypeOK ==
  /\ waiting \in Seq(Jobs)
  /\ running \subseteq Jobs
  /\ status \in [Jobs -> Statuses]
  /\ closed \in BOOLEAN

Init ==
  /\ waiting = <<>>
  /\ running = {}
  /\ status = [j \in Jobs |-> "new"]
  /\ closed = FALSE

Submit(j) ==
  /\ ~closed
  /\ status[j] = "new"
  /\ waiting' = Append(waiting, j)
  /\ status' = [status EXCEPT ![j] = "pending"]
  /\ UNCHANGED <<running, closed>>

\* A job whose token is cancelled before it is submitted is never accepted.
Refuse(j) ==
  /\ ~closed
  /\ status[j] = "new"
  /\ status' = [status EXCEPT ![j] = "cancelled"]
  /\ UNCHANGED <<waiting, running, closed>>

Start ==
  /\ waiting # <<>>
  /\ Cardinality(running) < Capacity
  /\ running' = running \cup {Head(waiting)}
  /\ waiting' = Tail(waiting)
  /\ UNCHANGED <<status, closed>>

Finish(j, answer) ==
  /\ j \in running
  /\ running' = running \ {j}
  /\ status' = [status EXCEPT ![j] = answer]
  /\ UNCHANGED <<waiting, closed>>

\* The caller cancels a job that waits, wherever it stands in the line.
Withdraw(i) ==
  /\ waiting' = RemoveAt(waiting, i)
  /\ status' = [status EXCEPT ![waiting[i]] = "cancelled"]
  /\ UNCHANGED <<running, closed>>

\* No worker could be started for the oldest job.
Fail ==
  /\ waiting # <<>>
  /\ waiting' = Tail(waiting)
  /\ status' = [status EXCEPT ![Head(waiting)] = "spawnFailed"]
  /\ UNCHANGED <<running, closed>>

Close ==
  /\ ~closed
  /\ closed' = TRUE
  /\ waiting' = <<>>
  /\ running' = {}
  /\ status' = [j \in Jobs |-> IF status[j] = "pending" THEN "cancelled" ELSE status[j]]

Next ==
  \/ \E j \in Jobs : Submit(j) \/ Refuse(j)
  \/ Start
  \/ \E j \in Jobs, answer \in {"done", "error", "cancelled", "crashed"} : Finish(j, answer)
  \/ \E i \in 1 .. Len(waiting) : Withdraw(i)
  \/ Fail
  \/ Close

\* Waiting jobs keep moving and a running job is eventually answered.
Fairness ==
  /\ WF_vars(Start)
  /\ \A j \in Jobs :
       WF_vars(\E answer \in {"done", "error", "cancelled", "crashed"} : Finish(j, answer))

SafeSpec == Init /\ [][Next]_vars

Spec == SafeSpec /\ Fairness
=============================================================================

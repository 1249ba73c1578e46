------------------------------ MODULE JobQueue ------------------------------
(***************************************************************************)
(* What the thread pool of thread_pool.c promises to its clients: a        *)
(* bounded first-in-first-out queue of jobs served by a fixed set of       *)
(* workers.  A job that has been accepted is started exactly once, in the  *)
(* order of acceptance; closing the queue refuses new jobs but drains the  *)
(* accepted ones; a worker retires only once everything is drained.        *)
(* Locks, condition variables and memory do not appear at this level.      *)
(***************************************************************************)
EXTENDS Naturals, Sequences

CONSTANTS Workers,        \* the threads of the pool
          Jobs,           \* the jobs clients may submit
          NoJob,          \* what an idle worker runs
          queue_max_num   \* capacity of the queue

VARIABLES queue,          \* accepted jobs not yet started, oldest first
          current,        \* what each worker is running
          open,           \* FALSE once the queue is being closed
          alive           \* the workers that have not retired

jobVars == <<queue, current, open, alive>>

Init ==
    /\ queue = <<>>
    /\ current = [w \in Workers |-> NoJob]
    /\ open = TRUE
    /\ alive = Workers

(***************************************************************************)
(* The queue and the workers, for a pool that stays open.                  *)
(***************************************************************************)
\* Fault: the bound is not enforced.
AlwaysRoom == TRUE
HasRoom == Len(queue) < queue_max_num

Enqueue(j) ==
    /\ HasRoom
    /\ queue' = Append(queue, j)
    /\ UNCHANGED current

Dequeue(w) ==
    /\ current[w] = NoJob
    /\ queue # <<>>
    /\ current' = [current EXCEPT ![w] = Head(queue)]
    /\ queue' = Tail(queue)

Complete(w) ==
    /\ current[w] # NoJob
    /\ current' = [current EXCEPT ![w] = NoJob]
    /\ UNCHANGED queue

(***************************************************************************)
(* The pool with its closing protocol.                                     *)
(***************************************************************************)
Accept(j) == open /\ Enqueue(j) /\ UNCHANGED <<open, alive>>
Start(w) == w \in alive /\ Dequeue(w) /\ UNCHANGED <<open, alive>>
Finish(w) == Complete(w) /\ UNCHANGED <<open, alive>>

Close ==
    /\ open
    /\ open' = FALSE
    /\ UNCHANGED <<queue, current, alive>>

Retire(w) ==
    /\ w \in alive
    /\ ~open
    /\ queue = <<>>
    /\ current[w] = NoJob
    /\ alive' = alive \ {w}
    /\ UNCHANGED <<queue, current, open>>

Next ==
    \/ \E j \in Jobs : Accept(j)
    \/ \E w \in Workers : Start(w) \/ Finish(w) \/ Retire(w)
    \/ Close

Spec == Init /\ [][Next]_jobVars

=============================================================================

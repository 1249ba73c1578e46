----------------------------- MODULE ThreadPool -----------------------------
(***************************************************************************)
(* The thread pool of thread_pool.c: one mutex, three condition variables  *)
(* (queue_not_empty, queue_not_full, queue_empty), a bounded job list and  *)
(* two closing flags.                                                      *)
(*                                                                         *)
(* Every access to the pool's fields is made with pool->mutex held, so the *)
(* code between a lock (or the return of a pthread_cond_wait) and the next *)
(* unlock (or pthread_cond_wait) is one action.  A thread that is about to *)
(* take the mutex, or to take it back after being woken, has its pc at     *)
(* "loop", "lock", "relock" or "recheck"; a thread asleep in a             *)
(* pthread_cond_wait has a pc that begins with "wait".  What               *)
(* threadpool_destroy does after it has dropped the mutex (two broadcasts, *)
(* the joins, the release of the memory) is one action each.               *)
(***************************************************************************)
EXTENDS Integers, Sequences, FiniteSets

CONSTANTS Workers,        \* the thread_num threads the pool creates
          Adders,         \* client threads that call threadpool_add_job
          Destroyers,     \* client threads that call threadpool_destroy
          Jobs,           \* jobs, each submitted at most once (the bound)
          Immortal,       \* jobs whose callback never returns
          NoJob,          \* a null job pointer
          queue_max_num   \* capacity of the job list

ASSUME PoolAssumption ==
    /\ Workers \cap Adders = {}
    /\ Workers \cap Destroyers = {}
    /\ Adders \cap Destroyers = {}
    /\ Immortal \subseteq Jobs
    /\ NoJob \notin Jobs
    /\ queue_max_num \in Nat \ {0}

Threads == Workers \cup Adders \cup Destroyers

VARIABLES pc,             \* where each thread is
          arg,            \* the job an adder is submitting
          current,        \* pjob of each worker
          queue,          \* the list from pool->head to pool->tail
          queue_cur_num,  \* pool->queue_cur_num
          queue_close,    \* pool->queue_close
          pool_close,     \* pool->pool_close
          released,       \* the pool's memory has been freed
          accepted,       \* history: jobs accepted, in order
          started,        \* history: jobs handed to a worker, in order
          finished        \* history: jobs whose callback returned

shared == <<queue, queue_cur_num, queue_close, pool_close, released>>
history == <<accepted, started, finished>>
vars == <<pc, arg, current, shared, history>>

WorkerPC == {"loop", "wait_not_empty", "run", "exited"}
AdderPC == {"idle", "lock", "wait_not_full", "relock"}
DestroyerPC == {"idle", "lock", "wait_empty", "recheck", "bcast_not_empty",
                "bcast_not_full", "join", "free", "returned"}

\* The values every variable keeps to; the list stays within queue_max_num.
TypeOK ==
    /\ pc \in [Threads -> WorkerPC \cup AdderPC \cup DestroyerPC]
    /\ \A w \in Workers : pc[w] \in WorkerPC
    /\ \A a \in Adders : pc[a] \in AdderPC
    /\ \A d \in Destroyers : pc[d] \in DestroyerPC
    /\ arg \in [Adders -> Jobs \cup {NoJob}]
    /\ current \in [Workers -> Jobs \cup {NoJob}]
    /\ queue \in Seq(Jobs)
    /\ queue_cur_num \in 0..queue_max_num
    /\ queue_close \in BOOLEAN
    /\ pool_close \in BOOLEAN
    /\ released \in BOOLEAN
    /\ accepted \in Seq(Jobs)
    /\ started \in Seq(Jobs)
    /\ finished \subseteq Jobs

Asleep(t) == pc[t] \in {"wait_not_empty", "wait_not_full", "wait_empty"}

(***************************************************************************)
(* Condition variables.  p is a pc function; the result is that function   *)
(* with the waiters on one condition sent on to take the mutex back.       *)
(***************************************************************************)
Broadcast(p, from, to) == [t \in Threads |-> IF p[t] = from THEN to ELSE p[t]]

\* pthread_cond_signal: one waiter, if there is one.
Signal(p, from, to) ==
    IF \E t \in Threads : p[t] = from
    THEN {[p EXCEPT ![t] = to] : t \in {u \in Threads : p[u] = from}}
    ELSE {p}

\* Fault: add_job signals one worker instead of waking them all.
FirstWaiterOnly(p) == CHOOSE q \in Signal(p, "wait_not_empty", "loop") : TRUE
\* pthread_cond_broadcast(&queue_not_empty)
WakeWorkers(p) == Broadcast(p, "wait_not_empty", "loop")

\* Fault: the count is compared with the capacity after the job was taken.
WakeAddersNever(p, n) ==
    IF n = queue_max_num THEN Broadcast(p, "wait_not_full", "relock") ELSE p
\* A worker has taken a job and n are left: wake the adders if the list was
\* full.
WakeAdders(p, n) ==
    IF n = queue_max_num - 1 THEN Broadcast(p, "wait_not_full", "relock") ELSE p

\* Fault: the waiter on queue_empty is never signalled.
WakeNobody(p, n) == {p}
\* A worker has taken a job and n are left: signal threadpool_destroy.
WakeDestroyer(p, n) ==
    IF n = 0 THEN Signal(p, "wait_empty", "recheck") ELSE {p}

-----------------------------------------------------------------------------
\* threadpool_init: an open, empty pool whose workers enter their loop.
Init ==
    /\ pc = [t \in Threads |-> IF t \in Workers THEN "loop" ELSE "idle"]
    /\ arg = [a \in Adders |-> NoJob]
    /\ current = [w \in Workers |-> NoJob]
    /\ queue = <<>>
    /\ queue_cur_num = 0
    /\ queue_close = FALSE
    /\ pool_close = FALSE
    /\ released = FALSE
    /\ accepted = <<>>
    /\ started = <<>>
    /\ finished = {}

(***************************************************************************)
(* threadpool_add_job                                                      *)
(***************************************************************************)
\* A client calls threadpool_add_job.  A call is begun only while the pool
\* exists: that much is up to the client.
CallAdd(a, j) ==
    /\ pc[a] = "idle"
    /\ ~released
    /\ \A b \in Adders : arg[b] # j
    /\ \A i \in DOMAIN accepted : accepted[i] # j
    /\ pc' = [pc EXCEPT ![a] = "lock"]
    /\ arg' = [arg EXCEPT ![a] = j]
    /\ UNCHANGED <<current, shared, history>>

Closing == queue_close \/ pool_close

\* Fault: the flags are tested only by the wait loop.
NeverClosed == FALSE
\* The test that follows the wait loop: the call is refused.
Refusing == Closing

AddWait(a) ==
    /\ pc[a] \in {"lock", "relock"}
    /\ ~released
    /\ queue_cur_num = queue_max_num
    /\ ~Closing
    /\ pc' = [pc EXCEPT ![a] = "wait_not_full"]
    /\ UNCHANGED <<arg, current, shared, history>>

\* Fault: the full list is not waited for.
PastNoLoop(a) == pc[a] \in {"lock", "relock"} /\ ~released
PastWaitLoop(a) ==
    /\ pc[a] \in {"lock", "relock"}
    /\ ~released
    /\ queue_cur_num # queue_max_num \/ Closing

\* Returns -1: the pool is closing, or malloc has failed.
AddRefused(a) ==
    /\ PastWaitLoop(a)
    /\ pc' = [pc EXCEPT ![a] = "idle"]
    /\ arg' = [arg EXCEPT ![a] = NoJob]
    /\ UNCHANGED <<current, shared, history>>

AddAccepted(a) ==
    /\ PastWaitLoop(a)
    /\ ~Refusing
    /\ LET back == [pc EXCEPT ![a] = "idle"]
       IN  pc' = IF queue = <<>> THEN WakeWorkers(back) ELSE back
    /\ queue' = Append(queue, arg[a])
    /\ queue_cur_num' = queue_cur_num + 1
    /\ accepted' = Append(accepted, arg[a])
    /\ arg' = [arg EXCEPT ![a] = NoJob]
    /\ UNCHANGED <<current, queue_close, pool_close, released, started, finished>>

(***************************************************************************)
(* threadpool_function                                                     *)
(***************************************************************************)
WorkerWait(w) ==
    /\ pc[w] = "loop"
    /\ ~released
    /\ queue_cur_num = 0
    /\ ~pool_close
    /\ pc' = [pc EXCEPT ![w] = "wait_not_empty"]
    /\ UNCHANGED <<arg, current, shared, history>>

\* The test that follows the wait loop.
Leaving == pool_close

WorkerExit(w) ==
    /\ pc[w] = "loop"
    /\ ~released
    /\ Leaving
    /\ pc' = [pc EXCEPT ![w] = "exited"]
    /\ UNCHANGED <<arg, current, shared, history>>

\* Fault: the last job is left linked while the count says the list is empty.
KeepLast(n) == IF n = 0 THEN queue ELSE Tail(queue)
\* The list after its first job has been taken and n jobs are left.
Unlink(n) == IF n = 0 THEN <<>> ELSE Tail(queue)

WorkerTake(w) ==
    /\ pc[w] = "loop"
    /\ ~released
    /\ queue_cur_num # 0
    /\ ~Leaving
    /\ queue_cur_num' = queue_cur_num - 1
    /\ current' = [current EXCEPT ![w] = Head(queue)]
    /\ queue' = Unlink(queue_cur_num - 1)
    /\ \E p \in WakeDestroyer([pc EXCEPT ![w] = "run"], queue_cur_num - 1) :
          pc' = WakeAdders(p, queue_cur_num - 1)
    /\ started' = Append(started, Head(queue))
    /\ UNCHANGED <<arg, queue_close, pool_close, released, accepted, finished>>

\* The callback returns and the job is freed; neither touches the pool.
CallbackReturns(w) ==
    /\ pc[w] = "run"
    /\ current[w] \notin Immortal
    /\ pc' = [pc EXCEPT ![w] = "loop"]
    /\ current' = [current EXCEPT ![w] = NoJob]
    /\ finished' = finished \cup {current[w]}
    /\ UNCHANGED <<arg, shared, accepted, started>>

(***************************************************************************)
(* threadpool_destroy                                                      *)
(***************************************************************************)
CallDestroy(d) ==
    /\ pc[d] = "idle"
    /\ ~released
    /\ pc' = [pc EXCEPT ![d] = "lock"]
    /\ UNCHANGED <<arg, current, shared, history>>

\* Already closing: returns -1.
DestroyRefused(d) ==
    /\ pc[d] = "lock"
    /\ ~released
    /\ Closing
    /\ pc' = [pc EXCEPT ![d] = "returned"]
    /\ UNCHANGED <<arg, current, shared, history>>

\* The condition that ends the wait for queue_empty.
Drained == queue_cur_num = 0

\* The first call closes the queue and waits for it to be empty.
DestroyClose(d) ==
    /\ pc[d] = "lock"
    /\ ~released
    /\ ~Closing
    /\ queue_close' = TRUE
    /\ pool_close' = Drained
    /\ pc' = [pc EXCEPT ![d] = IF Drained THEN "bcast_not_empty" ELSE "wait_empty"]
    /\ UNCHANGED <<arg, current, queue, queue_cur_num, released, history>>

\* Woken from pthread_cond_wait(&queue_empty).
DestroyRecheck(d) ==
    /\ pc[d] = "recheck"
    /\ ~released
    /\ pool_close' = Drained
    /\ pc' = [pc EXCEPT ![d] = IF Drained THEN "bcast_not_empty" ELSE "wait_empty"]
    /\ UNCHANGED <<arg, current, queue, queue_cur_num, queue_close, released, history>>

DestroyWakeWorkers(d) ==
    /\ pc[d] = "bcast_not_empty"
    /\ pc' = WakeWorkers([pc EXCEPT ![d] = "bcast_not_full"])
    /\ UNCHANGED <<arg, current, shared, history>>

DestroyWakeAdders(d) ==
    /\ pc[d] = "bcast_not_full"
    /\ pc' = Broadcast([pc EXCEPT ![d] = "join"], "wait_not_full", "relock")
    /\ UNCHANGED <<arg, current, shared, history>>

\* Fault: the threads are not joined.
NoJoin == TRUE
\* What the loop of pthread_join waits for.
AllExited == \A w \in Workers : pc[w] = "exited"

DestroyJoin(d) ==
    /\ pc[d] = "join"
    /\ AllExited
    /\ pc' = [pc EXCEPT ![d] = "free"]
    /\ UNCHANGED <<arg, current, shared, history>>

\* The mutex, the conditions, the job list and the pool itself go.
DestroyFree(d) ==
    /\ pc[d] = "free"
    /\ pc' = [pc EXCEPT ![d] = "returned"]
    /\ queue' = <<>>
    /\ released' = TRUE
    /\ UNCHANGED <<arg, current, queue_cur_num, queue_close, pool_close, history>>

-----------------------------------------------------------------------------
\* POSIX allows pthread_cond_wait to return with no signal.
SpuriousWakeup(t) ==
    /\ Asleep(t)
    /\ ~released
    /\ pc' = [pc EXCEPT ![t] = IF t \in Workers THEN "loop"
                               ELSE IF t \in Adders THEN "relock" ELSE "recheck"]
    /\ UNCHANGED <<arg, current, shared, history>>

AdderStep(a) == AddWait(a) \/ AddRefused(a) \/ AddAccepted(a)
WorkerStep(w) == WorkerWait(w) \/ WorkerExit(w) \/ WorkerTake(w)
DestroyerStep(d) ==
    \/ DestroyRefused(d) \/ DestroyClose(d) \/ DestroyRecheck(d)
    \/ DestroyWakeWorkers(d) \/ DestroyWakeAdders(d)
    \/ DestroyJoin(d) \/ DestroyFree(d)

Next ==
    \/ \E a \in Adders : AdderStep(a) \/ \E j \in Jobs : CallAdd(a, j)
    \/ \E w \in Workers : WorkerStep(w) \/ CallbackReturns(w)
    \/ \E d \in Destroyers : DestroyerStep(d) \/ CallDestroy(d)
    \/ \E t \in Threads : SpuriousWakeup(t)

Spec == Init /\ [][Next]_vars

\* Threads that can run do run, and callbacks return unless Immortal.
\* Nobody is obliged to call the pool, and no spurious wakeup is promised.
Fairness ==
    /\ \A a \in Adders : WF_vars(AdderStep(a))
    /\ \A w \in Workers : WF_vars(WorkerStep(w)) /\ WF_vars(CallbackReturns(w))
    /\ \A d \in Destroyers : WF_vars(DestroyerStep(d))

FairSpec == Spec /\ Fairness
-----------------------------------------------------------------------------
(***************************************************************************)
(* Properties.                                                             *)
(***************************************************************************)

(***************************************************************************)
(* No thread sleeps through the event it waits for.  threadpool_function   *)
(* announces "not full" only on the step from full to full-1 and           *)
(* threadpool_add_job announces "not empty" only when the list was empty,  *)
(* so one missed announcement would never be repeated.  A worker is asleep *)
(* only while the list is empty, an adder only while it is full, and       *)
(* threadpool_destroy only while jobs are queued; once the closing         *)
(* broadcast has been made no worker is asleep at all.                     *)
(***************************************************************************)
NoMissedWakeup ==
    /\ \A w \in Workers : pc[w] = "wait_not_empty" => queue_cur_num = 0
    /\ \A a \in Adders : pc[a] = "wait_not_full" => queue_cur_num = queue_max_num
    /\ \A d \in Destroyers : pc[d] = "wait_empty" => queue_cur_num # 0
    /\ \A d \in Destroyers : pc[d] \in {"bcast_not_full", "join", "free"} =>
          \A w \in Workers : pc[w] # "wait_not_empty"

(***************************************************************************)
(* The workers start the accepted jobs in the order add_job accepted them, *)
(* each once and none lost: what has been accepted is what was started     *)
(* followed by what is still linked, and the count the wait conditions use *)
(* is the length of the list.                                              *)
(***************************************************************************)
JobsInOrder ==
    /\ accepted = started \o queue
    /\ ~released => queue_cur_num = Len(queue)

(***************************************************************************)
(* threadpool_destroy frees the pool only when nobody it knows of can need *)
(* it: every worker has left its loop and every accepted job has run to    *)
(* its end.                                                                *)
(***************************************************************************)
ReleasedAfterDrain ==
    released => /\ AllExited
                /\ finished = {accepted[i] : i \in DOMAIN accepted}

(***************************************************************************)
(* The pool implements the abstract job queue: accepts only while open and *)
(* within its bound, first in first out, and workers retire only when the  *)
(* closed queue has been drained.                                          *)
(***************************************************************************)
Abstract == INSTANCE JobQueue WITH
                open <- ~queue_close,
                alive <- {w \in Workers : pc[w] # "exited"}
ImplementsJobQueue == Abstract!Spec

(***************************************************************************)
(* Every accepted job is eventually given to a worker, as long as one      *)
(* worker is left that no Immortal callback keeps for itself.              *)
(***************************************************************************)
JobsStart ==
    \A j \in Jobs : (\E i \in DOMAIN queue : queue[i] = j) ~>
                        (\E i \in DOMAIN started : started[i] = j)

(***************************************************************************)
(* A call of threadpool_add_job by the only adder returns: it does not     *)
(* stay asleep on a full list, unless the pool is freed under it.          *)
(***************************************************************************)
AddReturns == \A a \in Adders : (pc[a] # "idle") ~> (pc[a] = "idle" \/ released)

(***************************************************************************)
(* threadpool_destroy drains the list, gets every worker to leave and      *)
(* returns, unless a worker is kept by a callback that never returns.      *)
(***************************************************************************)
Kept == \E w \in Workers : current[w] \in Immortal
DestroyReturns ==
    \A d \in Destroyers : (pc[d] = "lock") ~> (pc[d] = "returned" \/ released \/ Kept)
=============================================================================

-------------------------- MODULE ThreadPoolProofs --------------------------
(***************************************************************************)
(* Machine-checked proofs about ThreadPool, for any number of workers,     *)
(* adders, destroyers and jobs and any capacity of the list.               *)
(***************************************************************************)
EXTENDS ThreadPool, QueueLemmas, TLAPS

\* The places of the one threadpool_destroy that did not return -1.
Draining == {"wait_empty", "recheck"}
Closed == {"bcast_not_empty", "bcast_not_full", "join", "free"}

(***************************************************************************)
(* The closing protocol.  One destroyer at most got past the test of the   *)
(* flags; while it drains queue_close is up and pool_close is not, after   *)
(* that both are and the list is empty; a worker exits only then; the      *)
(* memory goes only after the workers.                                     *)
(***************************************************************************)
ClosingProtocol ==
    /\ pool_close => queue_close /\ queue_cur_num = 0
    /\ \A d \in Destroyers : pc[d] \in Draining => queue_close /\ ~pool_close
    /\ \A d \in Destroyers : pc[d] \in Closed => pool_close
    /\ \A d, e \in Destroyers :
          pc[d] \in Draining \cup Closed /\ pc[e] \in Draining \cup Closed => d = e
    /\ \A w \in Workers : pc[w] = "exited" => pool_close
    /\ \A d \in Destroyers : pc[d] = "free" => AllExited
    /\ released => AllExited /\ pool_close /\ queue = <<>>
    /\ released => \A d \in Destroyers : pc[d] \notin Draining \cup Closed

\* What each thread holds: a worker a job exactly while it runs its callback,
\* an adder one exactly while its call lasts.
Holding ==
    /\ \A w \in Workers : pc[w] = "run" <=> current[w] # NoJob
    /\ \A a \in Adders : pc[a] # "idle" <=> arg[a] # NoJob

\* A started job is running or finished.
Accounted ==
    \A j \in Jobs : (\E i \in 1..Len(started) : started[i] = j) <=>
        j \in finished \/ \E w \in Workers : pc[w] = "run" /\ current[w] = j

\* The inductive invariant.
IInv == TypeOK /\ NoMissedWakeup /\ JobsInOrder /\ ClosingProtocol /\ Holding

USE PoolAssumption DEF PoolAssumption, Threads, WorkerPC, AdderPC, DestroyerPC, shared, history

PCs == WorkerPC \cup AdderPC \cup DestroyerPC

(***************************************************************************)
(* The signal on queue_empty moves nobody but a waiting threadpool_destroy *)
(* on, and leaves none waiting when there was one at most.                 *)
(***************************************************************************)
LEMMA WakeDestroyerFacts ==
    ASSUME NEW p \in [Threads -> PCs], NEW n, NEW q \in WakeDestroyer(p, n),
           \A t, u \in Threads : p[t] = "wait_empty" /\ p[u] = "wait_empty" => t = u
    PROVE  /\ q \in [Threads -> PCs]
           /\ \A t \in Threads : q[t] = p[t] \/ (p[t] = "wait_empty" /\ q[t] = "recheck")
           /\ n = 0 => \A t \in Threads : q[t] # "wait_empty"
BY DEF WakeDestroyer, Signal, PCs

\* The pool threadpool_init makes satisfies the inductive invariant.
LEMMA InitIInv == Init => IInv
<1> SUFFICES ASSUME Init PROVE IInv
  OBVIOUS
<1> USE DEF Init
<1>1. TypeOK
  <2>1. pc \in [Threads -> WorkerPC \cup AdderPC \cup DestroyerPC]
    OBVIOUS
  <2>2. /\ \A w \in Workers : pc[w] \in WorkerPC
        /\ \A a \in Adders : pc[a] \in AdderPC
        /\ \A d \in Destroyers : pc[d] \in DestroyerPC
    OBVIOUS
  <2>3. queue \in Seq(Jobs) /\ accepted \in Seq(Jobs) /\ started \in Seq(Jobs)
    OBVIOUS
  <2>4. queue_cur_num \in 0..queue_max_num
    OBVIOUS
  <2> QED
    BY <2>1, <2>2, <2>3, <2>4 DEF TypeOK
<1>2. NoMissedWakeup /\ ClosingProtocol /\ Holding
  BY DEF NoMissedWakeup, ClosingProtocol, Holding, Draining, Closed, AllExited
<1>3. JobsInOrder
  BY DEF JobsInOrder
<1> QED
  BY <1>1, <1>2, <1>3 DEF IInv
(***************************************************************************)
(* What a worker that takes a job does to the places of the threads.       *)
(***************************************************************************)
TakeMoves(w) ==
    /\ pc' \in [Threads -> PCs]
    /\ pc'[w] = "run"
    /\ \A t \in Threads \ {w} :
          \/ pc'[t] = pc[t]
          \/ pc[t] = "wait_empty" /\ pc'[t] = "recheck"
          \/ pc[t] = "wait_not_full" /\ pc'[t] = "relock"
    /\ queue_cur_num = 1 => \A t \in Threads : pc'[t] # "wait_empty"
    /\ queue_cur_num = queue_max_num => \A t \in Threads : pc'[t] # "wait_not_full"

\* A worker that takes a job wakes those who wait for what it brings about.
LEMMA TakePC == ASSUME IInv, NEW w \in Workers, WorkerTake(w) PROVE TakeMoves(w)
<1> DEFINE left == queue_cur_num - 1
           run == [pc EXCEPT ![w] = "run"]
<1>1. PICK p \in WakeDestroyer(run, left) : pc' = WakeAdders(p, left)
  BY DEF WorkerTake
<1>2. run \in [Threads -> PCs] /\ \A t \in Threads : run[t] = IF t = w THEN "run" ELSE pc[t]
  BY DEF IInv, TypeOK, PCs
<1>3. \A t, u \in Threads : run[t] = "wait_empty" /\ run[u] = "wait_empty" => t = u
  BY DEF IInv, TypeOK, ClosingProtocol, Draining
<1>4. left \in Int /\ queue_cur_num = left + 1
  BY DEF IInv, TypeOK
<1> HIDE DEF run, left
<1>5. /\ p \in [Threads -> PCs]
      /\ \A t \in Threads : p[t] = run[t] \/ (run[t] = "wait_empty" /\ p[t] = "recheck")
      /\ left = 0 => \A t \in Threads : p[t] # "wait_empty"
  BY <1>1, <1>2, <1>3, WakeDestroyerFacts
<1> QED
  BY <1>1, <1>2, <1>4, <1>5 DEF WakeAdders, Broadcast, TakeMoves, PCs

(***************************************************************************)
(* Every step preserves the inductive invariant: one step of the proof per *)
(* action.  Only AddAccepted and WorkerTake touch the list and its         *)
(* history, and only they are split further.                               *)
(***************************************************************************)
LEMMA StepIInv == IInv /\ [Next]_vars => IInv'
<1> SUFFICES ASSUME IInv, [Next]_vars PROVE IInv'
  OBVIOUS
<1> USE DEF IInv, Draining, Closed, AllExited
<1>1. ASSUME NEW a \in Adders, NEW j \in Jobs, CallAdd(a, j) PROVE IInv'
  BY <1>1 DEF CallAdd, TypeOK, NoMissedWakeup,
       JobsInOrder, ClosingProtocol, Holding
<1>2. ASSUME NEW a \in Adders, AddWait(a) PROVE IInv'
  BY <1>2 DEF AddWait, Closing, TypeOK, NoMissedWakeup,
       JobsInOrder, ClosingProtocol, Holding
<1>3. ASSUME NEW a \in Adders, AddRefused(a) PROVE IInv'
  BY <1>3 DEF AddRefused, PastWaitLoop, TypeOK, NoMissedWakeup,
       JobsInOrder, ClosingProtocol, Holding
<1>4. ASSUME NEW a \in Adders, AddAccepted(a) PROVE IInv'
  <2> USE <1>4 DEF AddAccepted, PastWaitLoop, Refusing, Closing, WakeWorkers, Broadcast
  <2>1. arg[a] \in Jobs /\ queue_cur_num < queue_max_num
    BY DEF TypeOK, Holding
  <2>2. TypeOK'
    BY <2>1 DEF TypeOK
  <2>3. NoMissedWakeup'
    BY <2>1 DEF TypeOK, NoMissedWakeup, JobsInOrder, ClosingProtocol
  <2>4. JobsInOrder'
    <3>1. accepted' = started \o queue'
      <4>1. started \in Seq(Jobs) /\ queue \in Seq(Jobs) /\ accepted = started \o queue
        BY DEF TypeOK, JobsInOrder
      <4>2. accepted' = accepted \o <<arg[a]>> /\ queue' = queue \o <<arg[a]>>
        BY <2>1, AppendIsConcat DEF TypeOK
      <4>3. (started \o queue) \o <<arg[a]>> = started \o (queue \o <<arg[a]>>)
        BY <4>1, <2>1, ConcatAssociative, SMTT(30)
      <4> QED
        BY <4>1, <4>2, <4>3
    <3>2. Len(queue') = Len(queue) + 1
      BY <2>1 DEF TypeOK
    <3> QED
      BY <3>1, <3>2 DEF JobsInOrder
  <2>5. ClosingProtocol'
    BY DEF TypeOK, ClosingProtocol
  <2>6. Holding'
    BY DEF TypeOK, Holding
  <2> QED
    BY <2>2, <2>3, <2>4, <2>5, <2>6
<1>5. ASSUME NEW w \in Workers, WorkerWait(w) PROVE IInv'
  BY <1>5 DEF WorkerWait, TypeOK, NoMissedWakeup,
       JobsInOrder, ClosingProtocol, Holding
<1>6. ASSUME NEW w \in Workers, WorkerExit(w) PROVE IInv'
  BY <1>6 DEF WorkerExit, Leaving, TypeOK, NoMissedWakeup,
       JobsInOrder, ClosingProtocol, Holding
<1>7. ASSUME NEW w \in Workers, WorkerTake(w) PROVE IInv'
  <2> USE <1>7 DEF WorkerTake, Leaving
  <2> DEFINE left == queue_cur_num - 1
  <2>1. /\ queue # <<>> /\ Len(queue) = queue_cur_num
        /\ Head(queue) \in Jobs /\ Tail(queue) \in Seq(Jobs)
        /\ Len(Tail(queue)) = left /\ left \in 0..queue_max_num - 1
    BY HeadTailProperties, EmptySeq DEF TypeOK, JobsInOrder
  <2>2. queue' = Tail(queue)
    BY <2>1, TailEmpty DEF Unlink, TypeOK
  <2>5. TakeMoves(w)
    BY TakePC
  <2> USE DEF TakeMoves
  <2>6. TypeOK'
    <3>1. started' \in Seq(Jobs) /\ queue' \in Seq(Jobs)
      BY <2>1, <2>2, AppendProperties DEF TypeOK
    <3>2. queue_cur_num' \in 0..queue_max_num /\ current' \in [Workers -> Jobs \cup {NoJob}]
      BY <2>1 DEF TypeOK
    <3>3. /\ pc' \in [Threads -> WorkerPC \cup AdderPC \cup DestroyerPC]
          /\ \A v \in Workers : pc'[v] \in WorkerPC
          /\ \A a \in Adders : pc'[a] \in AdderPC
          /\ \A d \in Destroyers : pc'[d] \in DestroyerPC
      BY <2>5 DEF TypeOK
    <3>4. UNCHANGED <<arg, queue_close, pool_close, released, accepted, finished>>
      OBVIOUS
    <3> QED
      BY <3>1, <3>2, <3>3, <3>4 DEF TypeOK
  <2>7. NoMissedWakeup'
    <3>1. \A v \in Workers : pc'[v] # "wait_not_empty" \/ pc[v] = "wait_not_empty"
      BY <2>5
    <3>2. \A a \in Adders : pc'[a] # "wait_not_full"
      BY <2>1, <2>5 DEF TypeOK, NoMissedWakeup
    <3>3. \A d \in Destroyers : pc'[d] = "wait_empty" => queue_cur_num' # 0
      BY <2>1, <2>5
    <3>4. \A d \in Destroyers : pc'[d] \notin Closed
      BY <2>5 DEF TypeOK, ClosingProtocol
    <3> QED
      BY <3>1, <3>2, <3>3, <3>4 DEF NoMissedWakeup
  <2>8. JobsInOrder'
    <3>1. started \in Seq(Jobs) /\ queue \in Seq(Jobs)
      BY DEF TypeOK
    <3>2. started \o queue = Append(started, Head(queue)) \o Tail(queue)
      BY <3>1, <2>1, MoveHead
    <3> QED
      BY <2>1, <2>2, <3>2 DEF JobsInOrder
  <2>9. ClosingProtocol'
    BY <2>5, ZenonT(40) DEF TypeOK, ClosingProtocol
  <2>10. Holding'
    BY <2>1, <2>5 DEF TypeOK, Holding
  <2> QED
    BY <2>6, <2>7, <2>8, <2>9, <2>10
<1>8. ASSUME NEW w \in Workers, CallbackReturns(w) PROVE IInv'
  BY <1>8 DEF CallbackReturns, TypeOK, NoMissedWakeup,
       JobsInOrder, ClosingProtocol, Holding
<1>9. ASSUME NEW d \in Destroyers, CallDestroy(d) PROVE IInv'
  BY <1>9 DEF CallDestroy, TypeOK, NoMissedWakeup,
       JobsInOrder, ClosingProtocol, Holding
<1>10. ASSUME NEW d \in Destroyers, DestroyRefused(d) PROVE IInv'
  BY <1>10 DEF DestroyRefused, TypeOK, NoMissedWakeup,
       JobsInOrder, ClosingProtocol, Holding
<1>11. ASSUME NEW d \in Destroyers, DestroyClose(d) PROVE IInv'
  BY <1>11, ZenonT(40) DEF DestroyClose, Drained, Closing, TypeOK, NoMissedWakeup,
       JobsInOrder, ClosingProtocol, Holding
<1>12. ASSUME NEW d \in Destroyers, DestroyRecheck(d) PROVE IInv'
  BY <1>12 DEF DestroyRecheck, Drained, TypeOK, NoMissedWakeup,
       JobsInOrder, ClosingProtocol, Holding
<1>13. ASSUME NEW d \in Destroyers, DestroyWakeWorkers(d) PROVE IInv'
  BY <1>13 DEF DestroyWakeWorkers, WakeWorkers, Broadcast, TypeOK, NoMissedWakeup,
       JobsInOrder, ClosingProtocol, Holding
<1>14. ASSUME NEW d \in Destroyers, DestroyWakeAdders(d) PROVE IInv'
  BY <1>14 DEF DestroyWakeAdders, Broadcast, TypeOK, NoMissedWakeup,
       JobsInOrder, ClosingProtocol, Holding
<1>15. ASSUME NEW d \in Destroyers, DestroyJoin(d) PROVE IInv'
  BY <1>15 DEF DestroyJoin, TypeOK, NoMissedWakeup,
       JobsInOrder, ClosingProtocol, Holding
<1>16. ASSUME NEW d \in Destroyers, DestroyFree(d) PROVE IInv'
  BY <1>16 DEF DestroyFree, TypeOK, NoMissedWakeup,
       JobsInOrder, ClosingProtocol, Holding
<1>17. ASSUME NEW t \in Threads, SpuriousWakeup(t) PROVE IInv'
  BY <1>17, ZenonT(40) DEF SpuriousWakeup, Asleep, TypeOK, NoMissedWakeup,
       JobsInOrder, ClosingProtocol, Holding
<1>18. CASE UNCHANGED vars
  BY <1>18 DEF vars, TypeOK, NoMissedWakeup, JobsInOrder, ClosingProtocol, Holding
<1> QED
  BY <1>1, <1>2, <1>3, <1>4, <1>5, <1>6, <1>7, <1>8, <1>9, <1>10, <1>11, <1>12,
     <1>13, <1>14, <1>15, <1>16, <1>17, <1>18
     DEF Next, AdderStep, WorkerStep, DestroyerStep

-----------------------------------------------------------------------------
\* No step loses track of a started job.
LEMMA StepAccounted == IInv /\ IInv' /\ Accounted /\ [Next]_vars => Accounted'
<1> SUFFICES ASSUME IInv, IInv', Accounted, [Next]_vars PROVE Accounted'
  OBVIOUS
<1>1. ASSUME NEW w \in Workers, WorkerTake(w) PROVE Accounted'
  <2> USE <1>1 DEF WorkerTake
  <2>1. started \in Seq(Jobs) /\ queue # <<>> /\ Head(queue) \in Jobs
    BY HeadTailProperties, EmptySeq DEF IInv, TypeOK, JobsInOrder
  <2>2. /\ Len(started') = Len(started) + 1 /\ Len(started) \in Nat
        /\ \A i \in 1..Len(started) : started'[i] = started[i]
        /\ started'[Len(started) + 1] = Head(queue)
    BY <2>1, AppendProperties, LenProperties
  <2>3. /\ pc'[w] = "run" /\ pc[w] # "run"
        /\ \A v \in Workers \ {w} : pc'[v] = "run" <=> pc[v] = "run"
    BY TakePC DEF TakeMoves, IInv, TypeOK
  <2>4. \A v \in Workers : current'[v] = IF v = w THEN Head(queue) ELSE current[v]
    BY DEF IInv, TypeOK
  <2>5. finished' = finished
    OBVIOUS
  <2> HIDE <1>1 DEF WorkerTake
  <2>6. ASSUME NEW j \in Jobs
        PROVE  (\E i \in 1..Len(started') : started'[i] = j) <=>
                  (\E i \in 1..Len(started) : started[i] = j) \/ j = Head(queue)
    BY <2>2
  <2>7. ASSUME NEW j \in Jobs
        PROVE  (\E v \in Workers : pc'[v] = "run" /\ current'[v] = j) <=>
                  (\E v \in Workers : pc[v] = "run" /\ current[v] = j) \/ j = Head(queue)
    BY <2>3, <2>4
  <2> QED
    BY <2>5, <2>6, <2>7 DEF Accounted
<1>2. ASSUME NEW w \in Workers, CallbackReturns(w) PROVE Accounted'
  <2>1. /\ pc[w] = "run" /\ pc'[w] # "run" /\ current[w] \in Jobs
        /\ \A v \in Workers \ {w} : pc'[v] = pc[v] /\ current'[v] = current[v]
        /\ finished' = finished \cup {current[w]} /\ started' = started
    BY <1>2 DEF CallbackReturns, IInv, TypeOK, Holding
  <2> QED
    BY <2>1 DEF Accounted
<1>3. ASSUME UNCHANGED <<started, finished, current>>,
             \A w \in Workers : pc'[w] = "run" <=> pc[w] = "run"
      PROVE  Accounted'
  BY <1>3 DEF Accounted
<1>4. ASSUME NEW a \in Adders, AdderStep(a) \/ \E j \in Jobs : CallAdd(a, j)
      PROVE  Accounted'
  BY <1>3, <1>4 DEF AdderStep, CallAdd, AddWait, AddRefused, AddAccepted, PastWaitLoop,
                    WakeWorkers, Broadcast, IInv, TypeOK
<1>5. ASSUME NEW w \in Workers, WorkerWait(w) \/ WorkerExit(w) PROVE Accounted'
  BY <1>3, <1>5 DEF WorkerWait, WorkerExit, IInv, TypeOK
<1>6. ASSUME NEW d \in Destroyers, DestroyerStep(d) \/ CallDestroy(d) PROVE Accounted'
  BY <1>3, <1>6 DEF DestroyerStep, CallDestroy, DestroyRefused, DestroyClose, DestroyRecheck,
                    DestroyWakeWorkers, DestroyWakeAdders, DestroyJoin, DestroyFree,
                    WakeWorkers, Broadcast, IInv, TypeOK
<1>7. ASSUME NEW t \in Threads, SpuriousWakeup(t) PROVE Accounted'
  BY <1>3, <1>7 DEF SpuriousWakeup, Asleep, IInv, TypeOK
<1>8. CASE UNCHANGED vars
  BY <1>3, <1>8 DEF vars
<1> QED
  BY <1>1, <1>2, <1>4, <1>5, <1>6, <1>7, <1>8 DEF Next, WorkerStep

-----------------------------------------------------------------------------
(***************************************************************************)
(* For every number of threads and jobs and every capacity, the pool's     *)
(* state stays well-typed and its list within queue_max_num.               *)
(***************************************************************************)
THEOREM TypeCorrect == Spec => []TypeOK
<1>1. IInv => TypeOK
  BY DEF IInv
<1> QED
  BY InitIInv, StepIInv, <1>1, PTL DEF Spec

(***************************************************************************)
(* No thread of thread_pool.c sleeps through the event it waits for: the   *)
(* broadcasts that are made only when the list stops being empty or full,  *)
(* and the one signal to threadpool_destroy, are enough.                   *)
(***************************************************************************)
THEOREM NoMissedWakeupAlways == Spec => []NoMissedWakeup
<1>1. IInv => NoMissedWakeup
  BY DEF IInv
<1> QED
  BY InitIInv, StepIInv, <1>1, PTL DEF Spec

(***************************************************************************)
(* The jobs threadpool_add_job accepts are started in that order, each     *)
(* once, and none is lost.                                                 *)
(***************************************************************************)
THEOREM JobsInOrderAlways == Spec => []JobsInOrder
<1>1. IInv => JobsInOrder
  BY DEF IInv
<1> QED
  BY InitIInv, StepIInv, <1>1, PTL DEF Spec

(***************************************************************************)
(* threadpool_destroy frees the pool only after every worker has left it   *)
(* and every accepted job has run to its end.                              *)
(***************************************************************************)
THEOREM ReleasedAfterDrainAlways == Spec => []ReleasedAfterDrain
<1>1. Init => Accounted
  BY DEF Init, Accounted
<1>2. IInv /\ Accounted => ReleasedAfterDrain
  <2> SUFFICES ASSUME IInv, Accounted, released PROVE ReleasedAfterDrain
    BY DEF ReleasedAfterDrain
  <2>1. AllExited /\ queue = <<>>
    BY DEF IInv, ClosingProtocol
  <2>2. accepted = started /\ started \in Seq(Jobs) /\ finished \subseteq Jobs
    BY <2>1, ConcatEmptySeq DEF IInv, JobsInOrder, TypeOK
  <2>3. \A j \in Jobs : (\E i \in 1..Len(started) : started[i] = j) <=> j \in finished
    BY <2>1 DEF Accounted, AllExited
  <2>4. finished = {started[i] : i \in DOMAIN started}
    BY <2>2, <2>3, LenProperties
  <2> QED
    BY <2>1, <2>2, <2>4 DEF ReleasedAfterDrain
<1> QED
  BY InitIInv, StepIInv, StepAccounted, <1>1, <1>2, PTL DEF Spec

(***************************************************************************)
(* The mutex-and-condition pool of thread_pool.c implements the abstract   *)
(* job queue: a step of the pool is one step of JobQueue or changes        *)
(* nothing JobQueue speaks of.                                             *)
(***************************************************************************)
THEOREM PoolImplementsJobQueue == Spec => ImplementsJobQueue
<1> USE DEF Abstract!jobVars
<1>1. Init => Abstract!Init
  BY DEF Init, Abstract!Init
<1>2. IInv /\ IInv' /\ [Next]_vars => [Abstract!Next]_(Abstract!jobVars)
  <2> SUFFICES ASSUME IInv, IInv', [Next]_vars
               PROVE  [Abstract!Next]_(Abstract!jobVars)
    OBVIOUS
  <2>1. ASSUME UNCHANGED <<queue, current, queue_close>>,
               \A w \in Workers : pc'[w] = "exited" <=> pc[w] = "exited"
        PROVE  UNCHANGED Abstract!jobVars
    BY <2>1
  <2>2. ASSUME NEW a \in Adders, AddAccepted(a) PROVE \E j \in Jobs : Abstract!Accept(j)
    <3>1. arg[a] \in Jobs /\ Len(queue) < queue_max_num
      BY <2>2 DEF AddAccepted, PastWaitLoop, Refusing, Closing, IInv, TypeOK, Holding, JobsInOrder
    <3>2. \A w \in Workers : pc'[w] = "exited" <=> pc[w] = "exited"
      BY <2>2 DEF AddAccepted, WakeWorkers, Broadcast, IInv, TypeOK
    <3>3. Abstract!Accept(arg[a])
      BY <2>2, <3>1, <3>2 DEF AddAccepted, Refusing, Closing, Abstract!Accept, Abstract!Enqueue,
                              Abstract!HasRoom
    <3> QED
      BY <3>1, <3>3
  <2>3. ASSUME NEW a \in Adders, \/ AddWait(a) \/ AddRefused(a)
                                 \/ \E j \in Jobs : CallAdd(a, j)
        PROVE  UNCHANGED Abstract!jobVars
    BY <2>1, <2>3 DEF AddWait, AddRefused, PastWaitLoop, CallAdd, IInv, TypeOK
  <2>4. ASSUME NEW w \in Workers, WorkerTake(w) PROVE Abstract!Start(w)
    <3>1. queue # <<>> /\ queue' = Tail(queue)
      <4>1. queue # <<>> /\ queue \in Seq(Jobs) /\ Len(queue) = queue_cur_num
        BY <2>4, EmptySeq DEF WorkerTake, IInv, TypeOK, JobsInOrder
      <4> QED
        BY <4>1, <2>4, TailEmpty DEF WorkerTake, Unlink, IInv, TypeOK
    <3>2. current[w] = NoJob /\ pc[w] # "exited"
      BY <2>4 DEF WorkerTake, IInv, Holding
    <3>3. \A v \in Workers : pc'[v] = "exited" <=> pc[v] = "exited"
      BY <2>4, TakePC DEF TakeMoves, WorkerTake, IInv, TypeOK
    <3> QED
      BY <2>4, <3>1, <3>2, <3>3 DEF WorkerTake, Abstract!Start, Abstract!Dequeue
  <2>5. ASSUME NEW w \in Workers, WorkerExit(w) PROVE Abstract!Retire(w)
    <3>1. queue_close /\ queue = <<>> /\ current[w] = NoJob
      BY <2>5, EmptySeq DEF WorkerExit, Leaving, IInv, TypeOK, ClosingProtocol, JobsInOrder, Holding
    <3>2. pc[w] # "exited" /\ pc'[w] = "exited" /\ \A v \in Workers \ {w} : pc'[v] = pc[v]
      BY <2>5 DEF WorkerExit, IInv, TypeOK
    <3> QED
      BY <2>5, <3>1, <3>2 DEF WorkerExit, Abstract!Retire
  <2>6. ASSUME NEW w \in Workers, WorkerWait(w) PROVE UNCHANGED Abstract!jobVars
    BY <2>1, <2>6 DEF WorkerWait, IInv, TypeOK
  <2>7. ASSUME NEW w \in Workers, CallbackReturns(w) PROVE Abstract!Finish(w)
    BY <2>7 DEF CallbackReturns, Abstract!Finish, Abstract!Complete, IInv, TypeOK, Holding
  <2>8. ASSUME NEW d \in Destroyers, DestroyClose(d) PROVE Abstract!Close
    BY <2>8 DEF DestroyClose, Closing, Drained, Abstract!Close, IInv, TypeOK
  <2>9. ASSUME NEW d \in Destroyers, DestroyFree(d) PROVE UNCHANGED Abstract!jobVars
    <3>1. queue = <<>>
      BY <2>9, EmptySeq DEF DestroyFree, IInv, TypeOK, ClosingProtocol, Closed, JobsInOrder
    <3> QED
      BY <2>1, <2>9, <3>1 DEF DestroyFree, IInv, TypeOK
  <2>10. ASSUME NEW d \in Destroyers,
               \/ CallDestroy(d) \/ DestroyRefused(d) \/ DestroyRecheck(d)
               \/ DestroyWakeWorkers(d) \/ DestroyWakeAdders(d) \/ DestroyJoin(d)
         PROVE  UNCHANGED Abstract!jobVars
    BY <2>1, <2>10 DEF CallDestroy, DestroyRefused, DestroyRecheck, DestroyWakeWorkers,
                       DestroyWakeAdders, DestroyJoin, WakeWorkers, Broadcast, IInv, TypeOK
  <2>11. ASSUME NEW t \in Threads, SpuriousWakeup(t) PROVE UNCHANGED Abstract!jobVars
    BY <2>1, <2>11 DEF SpuriousWakeup, Asleep, IInv, TypeOK
  <2>12. CASE UNCHANGED vars
    BY <2>1, <2>12 DEF vars
  <2>13. Abstract!Next \/ UNCHANGED Abstract!jobVars
    <3> USE DEF Abstract!Next
    <3>1. ASSUME NEW a \in Adders, AdderStep(a) \/ \E j \in Jobs : CallAdd(a, j)
          PROVE  Abstract!Next \/ UNCHANGED Abstract!jobVars
      BY <3>1, <2>2, <2>3 DEF AdderStep
    <3>2. ASSUME NEW w \in Workers, WorkerStep(w) \/ CallbackReturns(w)
          PROVE  Abstract!Next \/ UNCHANGED Abstract!jobVars
      BY <3>2, <2>4, <2>5, <2>6, <2>7 DEF WorkerStep
    <3>3. ASSUME NEW d \in Destroyers, DestroyerStep(d) \/ CallDestroy(d)
          PROVE  Abstract!Next \/ UNCHANGED Abstract!jobVars
      BY <3>3, <2>8, <2>9, <2>10 DEF DestroyerStep
    <3> HIDE DEF Abstract!Next, Abstract!jobVars
    <3> QED
      BY <3>1, <3>2, <3>3, <2>11, <2>12 DEF Next
  <2> QED
    BY <2>13
<1> QED
  BY InitIInv, StepIInv, <1>1, <1>2, PTL DEF Spec, ImplementsJobQueue, Abstract!Spec
=============================================================================

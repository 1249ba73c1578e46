------------------------- MODULE SocketServerProofs -------------------------
(***************************************************************************)
(* Machine-checked proofs about SocketServer, for any number of clients,   *)
(* pool threads and chunks, and any capacity of the pool's queue.          *)
(***************************************************************************)
EXTENDS SocketServer, QueueLemmas, FiniteSetTheorems, TLAPS

USE ServerAssumption DEF ServerAssumption

Callbacks == {"uart_connect_handler", "pipe_connect_handler",
              "sock_accept_handler", "sock_recv_handler"}
ThreadPC == Callbacks \cup {"idle", "rearm", "read", "insert"}

-----------------------------------------------------------------------------
(***************************************************************************)
(* The inductive invariant.                                                *)
(***************************************************************************)
\* A thread that enters a callback has the job it was given.
InsideJob == \A w \in Workers : wpc[w] \in Callbacks => current[w] \in Jobs /\ current[w].fn = wpc[w]

\* Only a thread that is in uart_connect_handler, or about to insert a node,
\* holds what it has read.
MayHold == {"uart_connect_handler", "rearm", "insert"}
Holding == \A w \in Workers : wpc[w] \notin MayHold => buf[w] = <<>>

\* Two handlers read the descriptor of a global.
Globals ==
    \A w \in Workers : /\ wpc[w] = "uart_connect_handler" => fd[w] = Uart
                       /\ wpc[w] = "pipe_connect_handler" => fd[w] = Pipe

\* Bytes stay with the descriptor they come from.
ChunksOf(f) == {c \in Chunks : c.from = f}
OwnMessages == {m \in Messages : m.data \in Seq(ChunksOf(m.fd))}
Origin ==
    /\ \A f \in Sources : unread[f] \in Seq(ChunksOf(f))
    /\ \A w \in Workers : buf[w] \in Seq(ChunksOf(fd[w]))
    /\ recv \in Seq(OwnMessages)

\* The bytes of the list's messages.
ListData == [k \in 1..Len(recv) |-> recv[k].data]

\* A chunk is somewhere if it has been sent, in one of the four places, once.
FlowOf(x) ==
    /\ OnceInAll(x, unread) /\ OnceInAll(x, buf) /\ OnceInAll(x, ListData)
    /\ AtMostOnce(x, lost)
    /\ ~(InSome(x, unread) /\ (InSome(x, buf) \/ InSome(x, ListData) \/ In(x, lost)))
    /\ ~(InSome(x, buf) /\ (InSome(x, ListData) \/ In(x, lost)))
    /\ ~(InSome(x, ListData) /\ In(x, lost))
    /\ InSome(x, unread) \/ InSome(x, buf) \/ InSome(x, ListData) \/ In(x, lost)
          <=> x.n <= sentCount[x.from]
Flow == \A x \in Chunks : FlowOf(x)

IInv == TypeOK /\ InsideJob /\ Holding /\ Globals /\ Origin /\ Flow

-----------------------------------------------------------------------------
(***************************************************************************)
(* Type correctness, with what a thread inside a callback has been given.  *)
(***************************************************************************)
\* What a job names.
LEMMA JobFields ==
    /\ \A j \in Jobs : j.fn \in Callbacks
    /\ \A j \in Jobs : j.fn = "sock_recv_handler" => j.arg \in Slots
    /\ \A k \in Slots : RecvJob(k) \in Jobs
    /\ AcceptJob \in Jobs /\ UartJob \in Jobs /\ PipeJob \in Jobs
    /\ NoJob \notin Jobs /\ NoJob.fn \notin Callbacks
    /\ \A j \in Jobs : /\ Global(j) \in Fds
                       /\ j.fn = "uart_connect_handler" => Global(j) = Uart
                       /\ j.fn = "pipe_connect_handler" => Global(j) = Pipe
<1>1. /\ AcceptJob.fn = "sock_accept_handler" /\ UartJob.fn = "uart_connect_handler"
      /\ PipeJob.fn = "pipe_connect_handler" /\ NoJob.fn = "none"
      /\ \A k : RecvJob(k).fn = "sock_recv_handler" /\ RecvJob(k).arg = k
  BY DEF AcceptJob, UartJob, PipeJob, NoJob, RecvJob
<1>2. \A j \in Jobs : \/ j = AcceptJob \/ j = UartJob \/ j = PipeJob
                      \/ \E k \in Slots : j = RecvJob(k)
  BY DEF Jobs
<1>3. \A j \in Jobs : j.fn \in Callbacks
  BY <1>1, <1>2 DEF Callbacks
<1>4. \A j \in Jobs : j.fn = "sock_recv_handler" => j.arg \in Slots
  BY <1>1, <1>2
<1>5. NoJob \notin Jobs /\ NoJob.fn \notin Callbacks
  BY <1>1, <1>3 DEF Callbacks
<1>6. (\A k \in Slots : RecvJob(k) \in Jobs) /\ AcceptJob \in Jobs /\ UartJob \in Jobs /\ PipeJob \in Jobs
  BY DEF Jobs
<1>7. ASSUME NEW j \in Jobs
      PROVE  /\ Global(j) \in Fds
             /\ j.fn = "uart_connect_handler" => Global(j) = Uart
             /\ j.fn = "pipe_connect_handler" => Global(j) = Pipe
  <2>1. j.fn = "uart_connect_handler" => j = UartJob
    BY <1>1, <1>2
  <2>2. j.fn = "pipe_connect_handler" => j = PipeJob
    BY <1>1, <1>2
  <2>3. UartJob # PipeJob
    BY <1>1
  <2> QED
    BY <2>1, <2>2, <2>3 DEF Global, Fds, Sources
<1> QED
  BY <1>3, <1>4, <1>5, <1>6, <1>7

\* epoll_wait's batch fits events[].
LEMMA BatchFits ==
    ASSUME TypeOK
    PROVE  Ready \subseteq Fds /\ IsFiniteSet(Ready) /\ Cardinality(Ready) \in 0..Cardinality(Clients) + 3
<1>1. Ready \subseteq Fds
  BY DEF TypeOK, Ready, Fds, Sources
<1>2. /\ Uart \notin Clients /\ Pipe \notin Clients \cup {Uart}
      /\ Listen \notin (Clients \cup {Uart}) \cup {Pipe}
      /\ Fds = ((Clients \cup {Uart}) \cup {Pipe}) \cup {Listen}
  BY DEF Fds, Sources
<1>3. /\ IsFiniteSet(Clients \cup {Uart})
      /\ Cardinality(Clients \cup {Uart}) = Cardinality(Clients) + 1
  BY <1>2, FS_AddElement
<1>7. /\ IsFiniteSet((Clients \cup {Uart}) \cup {Pipe})
      /\ Cardinality((Clients \cup {Uart}) \cup {Pipe}) = Cardinality(Clients \cup {Uart}) + 1
  BY <1>2, <1>3, FS_AddElement
<1>4. /\ IsFiniteSet(Fds)
      /\ Cardinality(Fds) = Cardinality((Clients \cup {Uart}) \cup {Pipe}) + 1
  BY <1>2, <1>7, FS_AddElement
<1>5. Cardinality(Clients) \in Nat
  BY FS_CardinalityType
<1>6. IsFiniteSet(Ready) /\ Cardinality(Ready) \in Nat /\ Cardinality(Ready) <= Cardinality(Fds)
  BY <1>1, <1>4, FS_Subset, FS_CardinalityType
<1> QED
  BY <1>1, <1>3, <1>4, <1>5, <1>6, <1>7

OutsideOK ==
    /\ backlog \in Seq(Clients) /\ edges \subseteq {Listen, Pipe}
    /\ watched \subseteq Sources /\ hungUp \subseteq Clients
    /\ sentCount \in [Sources -> Nat]
    /\ unread \in [Sources -> Seq(Chunks)]
MainOK == events \in [Slots -> Fds] /\ left \in Seq(Slots)
QueueOK ==
    /\ jobs \in Seq(Jobs) /\ Len(jobs) <= QueueMax
    /\ current \in [Workers -> Jobs \cup {NoJob}]
ThreadsOK ==
    /\ wpc \in [Workers -> ThreadPC]
    /\ fd \in [Workers -> Fds]
    /\ buf \in [Workers -> Seq(Chunks)]
ListOK == recv \in Seq(Messages) /\ lost \in Seq(Chunks)

\* TypeOK, in the groups the actions change.
LEMMA TypeParts ==
    /\ TypeOK => OutsideOK /\ MainOK /\ QueueOK /\ ThreadsOK /\ ListOK
    /\ OutsideOK' /\ MainOK' /\ QueueOK' /\ ThreadsOK' /\ ListOK' => TypeOK'
<1>1. TypeOK => OutsideOK /\ MainOK
  BY DEF TypeOK, OutsideOK, MainOK
<1>2. TypeOK => QueueOK /\ ThreadsOK /\ ListOK
  BY DEF TypeOK, QueueOK, ThreadsOK, ListOK, ThreadPC, Callbacks
<1>3. OutsideOK' /\ MainOK' /\ QueueOK' /\ ThreadsOK' /\ ListOK' => TypeOK'
  BY DEF TypeOK, OutsideOK, MainOK, QueueOK, ThreadsOK, ListOK, ThreadPC, Callbacks
<1> QED
  BY <1>1, <1>2, <1>3

USE DEF outside, main, pool

\* The initial state is well-typed.
LEMMA InitType == Init => TypeOK
<1> SUFFICES ASSUME Init PROVE TypeOK
  OBVIOUS
<1>1. /\ backlog \in Seq(Clients) /\ edges \subseteq {Listen, Pipe}
      /\ watched \subseteq Sources /\ hungUp \subseteq Clients
      /\ sentCount \in [Sources -> Nat]
      /\ unread \in [Sources -> Seq(Chunks)]
  <2>1. backlog \in Seq(Clients) /\ edges \subseteq {Listen, Pipe} /\ hungUp \subseteq Clients
    BY EmptySeq DEF Init
  <2>2. Uart \in Sources /\ Pipe \in Sources /\ 0 \in Nat
    BY DEF Sources
  <2>3. <<>> \in Seq(Chunks)
    BY EmptySeq
  <2> QED
    BY <2>1, <2>2, <2>3 DEF Init
<1>2. events \in [Slots -> Fds] /\ left \in Seq(Slots) /\ fd \in [Workers -> Fds]
  BY EmptySeq DEF Init, Fds
<1>3. /\ jobs \in Seq(Jobs) /\ Len(jobs) <= QueueMax
      /\ current \in [Workers -> Jobs \cup {NoJob}]
  BY EmptySeq DEF Init
<1>4. /\ wpc \in [Workers -> {"idle", "uart_connect_handler", "rearm", "pipe_connect_handler",
                              "sock_accept_handler", "sock_recv_handler", "read", "insert"}]
      /\ buf \in [Workers -> Seq(Chunks)]
  BY EmptySeq DEF Init
<1>5. recv \in Seq(Messages) /\ lost \in Seq(Chunks)
  BY EmptySeq DEF Init
<1> QED
  BY <1>1, <1>2, <1>3, <1>4, <1>5 DEF TypeOK

\* The clients and the serial line keep the types.
LEMMA OutsideType ==
    ASSUME TypeOK, (\E c \in Clients : Connect(c) \/ HangUp(c)) \/ \E f \in Sources : Sends(f)
    PROVE  TypeOK'
<1>0. OutsideOK /\ MainOK /\ QueueOK /\ ThreadsOK /\ ListOK
  BY TypeParts
<1>1. MainOK' /\ QueueOK' /\ ThreadsOK' /\ ListOK'
  BY <1>0 DEF Connect, HangUp, Sends, MainOK, QueueOK, ThreadsOK, ListOK
<1>2. ASSUME NEW c \in Clients, Connect(c) PROVE OutsideOK'
  <2>1. Append(backlog, c) \in Seq(Clients)
    BY <1>0, AppendProperties DEF OutsideOK
  <2> QED
    BY <1>0, <1>2, <2>1 DEF Connect, OutsideOK
<1>3. ASSUME NEW c \in Clients, HangUp(c) PROVE OutsideOK'
  BY <1>0, <1>3 DEF HangUp, OutsideOK
<1>4. ASSUME NEW f \in Sources, Sends(f) PROVE OutsideOK'
  <2>1. sentCount[f] + 1 \in Nat \ {0}
    BY <1>0, <1>4 DEF OutsideOK
  <2>2. [from |-> f, n |-> sentCount[f] + 1] \in Chunks
    BY <2>1 DEF Chunks
  <2>3. Append(unread[f], [from |-> f, n |-> sentCount[f] + 1]) \in Seq(Chunks)
    BY <1>0, <2>2, AppendProperties DEF OutsideOK
  <2> QED
    BY <1>0, <1>4, <2>1, <2>3 DEF Sends, OutsideOK
<1> QED
  BY <1>1, <1>2, <1>3, <1>4, TypeParts

\* The main thread keeps the types.
LEMMA MainType == ASSUME TypeOK, MainStep PROVE TypeOK'
<1>0. OutsideOK /\ MainOK /\ QueueOK /\ ThreadsOK /\ ListOK
  BY TypeParts
<1>1. CASE EpollWait
  <2>1. PICK e \in [1..Cardinality(Ready) -> Ready] :
           /\ events' = [k \in Slots |-> IF k \in DOMAIN e THEN e[k] ELSE events[k]]
           /\ left' = [k \in DOMAIN e |-> k]
    BY <1>1 DEF EpollWait
  <2>2. Cardinality(Ready) \in Nat /\ 1..Cardinality(Ready) \subseteq Slots /\ Ready \subseteq Fds
    <3>1. Cardinality(Ready) \in 0..Cardinality(Clients) + 3 /\ Ready \subseteq Fds
      BY BatchFits
    <3>2. Cardinality(Clients) \in Nat
      BY FS_CardinalityType
    <3> QED
      BY <3>1, <3>2 DEF Slots
  <2>3. events' \in [Slots -> Fds]
    BY <1>0, <2>1, <2>2 DEF MainOK
  <2>4. left' \in Seq(Slots)
    <3>1. left' \in [1..Cardinality(Ready) -> Slots]
      BY <2>1, <2>2
    <3> QED
      BY <3>1, <2>2
  <2> QED
    BY <1>0, <1>1, <2>3, <2>4, TypeParts
       DEF EpollWait, OutsideOK, MainOK, QueueOK, ThreadsOK, ListOK
<1>2. CASE Dispatch
  <2>1. Head(left) \in Slots /\ Tail(left) \in Seq(Slots)
    BY <1>0, <1>2, HeadTailProperties DEF Dispatch, MainOK
  <2>2. JobFor(Head(left)) \in Jobs
    BY <2>1, JobFields DEF JobFor
  <2>3. QueueOK'
    <3>1. CASE Pool!Enqueue(JobFor(Head(left)))
      <4>1. /\ Append(jobs, JobFor(Head(left))) \in Seq(Jobs)
            /\ Len(Append(jobs, JobFor(Head(left)))) <= QueueMax
        BY <1>0, <2>2, <3>1, AppendProperties, LenProperties DEF Pool!Enqueue, Pool!HasRoom, QueueOK
      <4> QED
        BY <1>0, <3>1, <4>1 DEF Pool!Enqueue, QueueOK
    <3>2. CASE UNCHANGED <<jobs, current>>
      BY <1>0, <3>2 DEF QueueOK
    <3> QED
      BY <1>2, <3>1, <3>2 DEF Dispatch
  <2>4. watched' \subseteq Sources
    BY <1>0, <1>2 DEF Dispatch, OutsideOK
  <2> QED
    BY <1>0, <1>2, <2>1, <2>3, <2>4, TypeParts
       DEF Dispatch, OutsideOK, MainOK, ThreadsOK, ListOK
<1> QED
  BY <1>1, <1>2 DEF MainStep

\* The end of a callback keeps the types.
LEMMA EndJobType ==
    ASSUME QueueOK, ThreadsOK, NEW w \in Workers, EndJob(w)
    PROVE  QueueOK' /\ ThreadsOK'
<1>1. QueueOK'
  BY DEF EndJob, Pool!Complete, QueueOK
<1>2. <<>> \in Seq(Chunks) /\ Listen \in Fds /\ "idle" \in ThreadPC
  BY EmptySeq DEF Fds, ThreadPC
<1>3. ThreadsOK'
  BY <1>2 DEF EndJob, ThreadsOK
<1> QED
  BY <1>1, <1>3

\* One read takes a beginning of what there is.
LEMMA ReadSizeIs ==
    ASSUME NEW S, NEW q \in Seq(S)
    PROVE  /\ ReadSize(q) \in 0..Len(q)
           /\ SubSeq(q, 1, ReadSize(q)) \in Seq(S) /\ Rest(q) \in Seq(S)
<1>1. Len(q) \in Nat /\ BufLen \in Nat
  BY LenProperties
<1>2. ReadSize(q) \in 0..Len(q)
  BY <1>1 DEF ReadSize
<1> QED
  BY <1>2, CutJoins DEF Rest

\* A read keeps the types, whatever descriptor it is on.
LEMMA TakeType ==
    ASSUME TypeOK, NEW w \in Workers, NEW f \in Sources, Take(w, f)
    PROVE  TypeOK'
<1>0. OutsideOK /\ MainOK /\ QueueOK /\ ThreadsOK /\ ListOK
  BY TypeParts
<1>1. unread[f] \in Seq(Chunks) /\ "insert" \in ThreadPC
  BY <1>0 DEF OutsideOK, ThreadPC
<1>2. SubSeq(unread[f], 1, ReadSize(unread[f])) \in Seq(Chunks) /\ Rest(unread[f]) \in Seq(Chunks)
  BY <1>1, ReadSizeIs
<1>3. OutsideOK'
  BY <1>0, <1>2 DEF Take, OutsideOK
<1>4. ThreadsOK'
  BY <1>0, <1>1, <1>2 DEF Take, ThreadsOK
<1> QED
  BY <1>0, <1>3, <1>4, TypeParts DEF Take, MainOK, QueueOK, ListOK

\* uart_connect_handler keeps the types.
UartHandler(w) == UartStore(w) \/ UartDrop(w) \/ UartReadEnd(w) \/ UartRearm(w)

LEMMA UartHandlerType ==
    ASSUME TypeOK, NEW w \in Workers, UartHandler(w)
    PROVE  TypeOK'
<1>0. OutsideOK /\ MainOK /\ QueueOK /\ ThreadsOK /\ ListOK
  BY TypeParts
<1>1. /\ Uart \in Sources /\ {"rearm", "insert"} \subseteq ThreadPC
      /\ <<>> \in Seq(Chunks)
  BY EmptySeq DEF Sources, ThreadPC
<1>2. unread[Uart] \in Seq(Chunks) /\ buf[w] \in Seq(Chunks) /\ lost \in Seq(Chunks)
  BY <1>0, <1>1 DEF OutsideOK, ThreadsOK, ListOK
<1>3. CASE UartStore(w)
  <2>1. buf[w] \o unread[Uart] \in Seq(Chunks)
    BY <1>2, ConcatProperties
  <2>2. OutsideOK' /\ ThreadsOK'
    BY <1>0, <1>1, <1>3, <2>1 DEF UartStore, OutsideOK, ThreadsOK
  <2> QED
    BY <1>0, <1>3, <2>2, TypeParts DEF UartStore, MainOK, QueueOK, ListOK
<1>4. CASE UartDrop(w)
  <2>1. lost \o unread[Uart] \in Seq(Chunks)
    BY <1>2, ConcatProperties
  <2>2. OutsideOK' /\ ThreadsOK' /\ ListOK'
    BY <1>0, <1>1, <1>4, <2>1 DEF UartDrop, OutsideOK, ThreadsOK, ListOK
  <2> QED
    BY <1>0, <1>4, <2>2, TypeParts DEF UartDrop, MainOK, QueueOK
<1>5. CASE UartReadEnd(w)
  <2>1. ThreadsOK'
    BY <1>0, <1>1, <1>5 DEF UartReadEnd, ThreadsOK
  <2> QED
    BY <1>0, <1>5, <2>1, TypeParts DEF UartReadEnd, OutsideOK, MainOK, QueueOK, ListOK
<1>6. CASE UartRearm(w)
  <2>1. watched' \subseteq Sources
    BY <1>0, <1>1, <1>6 DEF UartRearm, OutsideOK
  <2>2. OutsideOK' /\ MainOK' /\ ListOK'
    BY <1>0, <1>6, <2>1 DEF UartRearm, OutsideOK, MainOK, ListOK
  <2>3. CASE EndJob(w)
    BY <1>0, <2>2, <2>3, EndJobType, TypeParts
  <2>4. CASE wpc' = [wpc EXCEPT ![w] = "insert"] /\ UNCHANGED <<jobs, current, fd, buf>>
    BY <1>0, <1>1, <2>2, <2>4, TypeParts DEF QueueOK, ThreadsOK
  <2> QED
    BY <1>6, <2>3, <2>4 DEF UartRearm
<1> QED
  BY <1>3, <1>4, <1>5, <1>6 DEF UartHandler

\* A pool thread keeps the types.
LEMMA WorkerType ==
    ASSUME TypeOK, InsideJob, NEW w \in Workers, WorkerStep(w)
    PROVE  TypeOK'
<1>0. OutsideOK /\ MainOK /\ QueueOK /\ ThreadsOK /\ ListOK
  BY TypeParts
<1>1. CASE StartJob(w)
  <2>1. Head(jobs) \in Jobs /\ Tail(jobs) \in Seq(Jobs) /\ Len(Tail(jobs)) = Len(jobs) - 1
    BY <1>0, <1>1, HeadTailProperties DEF StartJob, Pool!Dequeue, QueueOK
  <2>2. Head(jobs).fn \in ThreadPC /\ Global(Head(jobs)) \in Fds
    BY <2>1, JobFields DEF ThreadPC
  <2>3. QueueOK'
    BY <1>0, <1>1, <2>1, LenProperties DEF StartJob, Pool!Dequeue, QueueOK
  <2>4. ThreadsOK'
    BY <1>0, <1>1, <2>2 DEF StartJob, ThreadsOK
  <2> QED
    BY <1>0, <1>1, <2>3, <2>4, TypeParts DEF StartJob, OutsideOK, MainOK, ListOK
<1>2. CASE UartHandler(w)
  BY <1>2, UartHandlerType
<1>9. CASE PipeRead(w)
  <2>1. CASE Take(w, Pipe)
    BY <2>1, TakeType DEF Sources
  <2>2. CASE EndJob(w) /\ UNCHANGED <<outside, edges, watched, unread, main, recv, lost>>
    BY <1>0, <2>2, EndJobType, TypeParts DEF OutsideOK, MainOK, ListOK
  <2> QED
    BY <1>9, <2>1, <2>2 DEF PipeRead
<1>3. CASE SockAccept(w)
  <2>1. backlog' \in Seq(Clients) /\ watched' \subseteq Sources
    <3>1. CASE backlog # <<>>
      <4>1. Head(backlog) \in Clients /\ Tail(backlog) \in Seq(Clients)
        BY <1>0, <3>1, HeadTailProperties DEF OutsideOK
      <4> QED
        BY <1>0, <1>3, <3>1, <4>1 DEF SockAccept, OutsideOK, Sources
    <3>2. CASE backlog = <<>>
      BY <1>0, <1>3, <3>2 DEF SockAccept, OutsideOK
    <3> QED
      BY <3>1, <3>2
  <2> QED
    BY <1>0, <1>3, <2>1, EndJobType, TypeParts DEF SockAccept, OutsideOK, MainOK, ListOK
<1>4. CASE SockRecvStart(w)
  <2>1. current[w] \in Jobs /\ current[w].fn = "sock_recv_handler"
    BY <1>4 DEF SockRecvStart, InsideJob, Callbacks
  <2>2. events[current[w].arg] \in Fds
    BY <1>0, <2>1, JobFields DEF MainOK
  <2>3. ThreadsOK'
    BY <1>0, <1>4, <2>2 DEF SockRecvStart, ThreadsOK, ThreadPC
  <2> QED
    BY <1>0, <1>4, <2>3, TypeParts DEF SockRecvStart, OutsideOK, MainOK, QueueOK, ListOK
<1>5. CASE SockRead(w)
  <2>1. fd[w] \in Sources /\ Take(w, fd[w])
    BY <1>5 DEF SockRead
  <2> QED
    BY <2>1, TakeType
<1>6. CASE SockReadNothing(w)
  BY <1>0, <1>6, EndJobType, TypeParts DEF SockReadNothing, OutsideOK, MainOK, ListOK
<1>7. CASE Insert(w)
  <2>1. [fd |-> NodeFd(w), data |-> buf[w]] \in Messages
    BY <1>0 DEF ThreadsOK, NodeFd, Messages
  <2>2. recv' \in Seq(Messages)
    BY <1>0, <1>7, <2>1, AppendProperties DEF Insert, Recv!Put, ListOK
  <2> QED
    BY <1>0, <1>7, <2>2, EndJobType, TypeParts DEF Insert, OutsideOK, MainOK, ListOK
<1>8. CASE InsertFails(w)
  <2>1. lost' \in Seq(Chunks)
    BY <1>0, <1>8, ConcatProperties DEF InsertFails, ThreadsOK, ListOK
  <2> QED
    BY <1>0, <1>8, <2>1, EndJobType, TypeParts DEF InsertFails, OutsideOK, MainOK, ListOK
<1> QED
  BY <1>1, <1>2, <1>3, <1>4, <1>5, <1>6, <1>7, <1>8, <1>9 DEF WorkerStep, UartHandler

\* Every step keeps the types.
LEMMA StepType == TypeOK /\ InsideJob /\ [Next]_vars => TypeOK'
<1> SUFFICES ASSUME TypeOK, InsideJob, [Next]_vars PROVE TypeOK'
  OBVIOUS
<1>1. CASE UNCHANGED vars
  BY <1>1 DEF TypeOK, vars
<1> QED
  BY <1>1, OutsideType, MainType, WorkerType DEF Next

-----------------------------------------------------------------------------
(***************************************************************************)
(* Where a thread is, and what it then holds.                              *)
(***************************************************************************)
\* A thread stays with the job of the callback it is in.
LEMMA StepInside == TypeOK /\ InsideJob /\ [Next]_vars => InsideJob'
<1> SUFFICES ASSUME TypeOK, InsideJob, [Next]_vars PROVE InsideJob'
  OBVIOUS
<1>0. QueueOK /\ ThreadsOK /\ "idle" \notin Callbacks /\ {"rearm", "read", "insert"} \cap Callbacks = {}
  BY TypeParts DEF Callbacks
<1>1. CASE UNCHANGED <<current, wpc>>
  BY <1>1 DEF InsideJob
<1>2. ASSUME NEW w \in Workers, WorkerStep(w) PROVE InsideJob'
  <2>1. CASE StartJob(w)
    <3>1. Head(jobs) \in Jobs
      BY <1>0, <2>1, HeadTailProperties DEF StartJob, Pool!Dequeue, QueueOK
    <3>2. current'[w] = Head(jobs) /\ wpc'[w] = Head(jobs).fn
      BY <1>0, <2>1 DEF StartJob, Pool!Dequeue, QueueOK, ThreadsOK
    <3>3. \A v \in Workers : v # w => current'[v] = current[v] /\ wpc'[v] = wpc[v]
      BY <1>0, <2>1 DEF StartJob, Pool!Dequeue, QueueOK, ThreadsOK
    <3> QED
      BY <3>1, <3>2, <3>3 DEF InsideJob
  <2>2. CASE EndJob(w)
    <3>1. wpc'[w] = "idle" /\ \A v \in Workers : v # w => current'[v] = current[v] /\ wpc'[v] = wpc[v]
      BY <1>0, <2>2 DEF EndJob, Pool!Complete, QueueOK, ThreadsOK
    <3> QED
      BY <1>0, <3>1 DEF InsideJob
  <2>3. ASSUME NEW p \in {"rearm", "read", "insert"}, wpc' = [wpc EXCEPT ![w] = p], UNCHANGED current
        PROVE  InsideJob'
    <3>1. wpc'[w] = p /\ p \notin Callbacks /\ \A v \in Workers : v # w => current'[v] = current[v] /\ wpc'[v] = wpc[v]
      BY <1>0, <2>3 DEF ThreadsOK
    <3> QED
      BY <3>1 DEF InsideJob
  <2>4. \/ StartJob(w) \/ EndJob(w)
        \/ \E p \in {"rearm", "read", "insert"} : wpc' = [wpc EXCEPT ![w] = p] /\ UNCHANGED current
        \/ UNCHANGED <<wpc, current>>
    BY <1>2 DEF WorkerStep, UartStore, UartDrop, UartReadEnd, UartRearm, PipeRead, SockAccept,
                SockRecvStart, SockRead, SockReadNothing, Insert, InsertFails, Take
  <2> QED
    BY <1>1, <2>1, <2>2, <2>3, <2>4
<1>3. CASE UNCHANGED vars
  BY <1>1, <1>3 DEF vars
<1>4. ASSUME NEW c \in Clients, Connect(c) \/ HangUp(c) PROVE InsideJob'
  BY <1>1, <1>4 DEF Connect, HangUp
<1>5. ASSUME NEW f \in Sources, Sends(f) PROVE InsideJob'
  BY <1>1, <1>5 DEF Sends
<1>6. CASE MainStep
  BY <1>1, <1>6 DEF MainStep, EpollWait, Dispatch, Pool!Enqueue
<1> QED
  BY <1>2, <1>3, <1>4, <1>5, <1>6 DEF Next

\* Only a read fills a buffer, and it leads to the insertion.
LEMMA StepHolding == TypeOK /\ Holding /\ [Next]_vars => Holding'
<1> SUFFICES ASSUME TypeOK, Holding, [Next]_vars PROVE Holding'
  OBVIOUS
<1>0. ThreadsOK /\ QueueOK
  BY TypeParts
<1>1. CASE UNCHANGED <<buf, wpc>>
  BY <1>1 DEF Holding
<1>2. ASSUME NEW w \in Workers, WorkerStep(w) PROVE Holding'
  <2>1. \/ UartStore(w)
        \/ buf' = buf /\ (wpc[w] \in MayHold => \E p \in MayHold : wpc' = [wpc EXCEPT ![w] = p])
                     /\ \E p : wpc' = [wpc EXCEPT ![w] = p]
        \/ EndJob(w)
        \/ wpc' = [wpc EXCEPT ![w] = "insert"] /\ \E s : buf' = [buf EXCEPT ![w] = s]
    BY <1>2 DEF WorkerStep, StartJob, UartDrop, UartReadEnd, UartRearm, PipeRead, SockAccept,
                SockRecvStart, SockRead, SockReadNothing, Insert, InsertFails, Take, MayHold
  <2>2. CASE UartStore(w)
    BY <1>0, <2>2 DEF UartStore, Holding, MayHold, ThreadsOK
  <2>3. CASE /\ buf' = buf /\ (wpc[w] \in MayHold => \E p \in MayHold : wpc' = [wpc EXCEPT ![w] = p])
             /\ \E p : wpc' = [wpc EXCEPT ![w] = p]
    <3>1. CASE wpc[w] \in MayHold
      BY <1>0, <2>3, <3>1 DEF Holding, ThreadsOK
    <3>2. CASE wpc[w] \notin MayHold
      BY <1>0, <2>3, <3>2 DEF Holding, ThreadsOK
    <3> QED
      BY <3>1, <3>2
  <2>4. CASE EndJob(w)
    BY <1>0, <2>4 DEF EndJob, Holding, ThreadsOK
  <2>5. CASE wpc' = [wpc EXCEPT ![w] = "insert"] /\ \E s : buf' = [buf EXCEPT ![w] = s]
    BY <1>0, <2>5 DEF Holding, MayHold, ThreadsOK
  <2> QED
    BY <2>1, <2>2, <2>3, <2>4, <2>5
<1>3. CASE UNCHANGED vars
  BY <1>1, <1>3 DEF vars
<1>4. ASSUME NEW c \in Clients, Connect(c) \/ HangUp(c) PROVE Holding'
  BY <1>1, <1>4 DEF Connect, HangUp
<1>5. ASSUME NEW f \in Sources, Sends(f) PROVE Holding'
  BY <1>1, <1>5 DEF Sends
<1>6. CASE MainStep
  BY <1>1, <1>6 DEF MainStep, EpollWait, Dispatch
<1> QED
  BY <1>2, <1>3, <1>4, <1>5, <1>6 DEF Next

\* The two handlers stay with their global's descriptor.
LEMMA StepGlobals == TypeOK /\ Globals /\ [Next]_vars => Globals'
<1> SUFFICES ASSUME TypeOK, Globals, [Next]_vars PROVE Globals'
  OBVIOUS
<1>0. ThreadsOK /\ QueueOK
  BY TypeParts
<1>1. CASE UNCHANGED <<fd, wpc>>
  BY <1>1 DEF Globals
<1>2. ASSUME NEW w \in Workers, WorkerStep(w) PROVE Globals'
  <2>1. \/ StartJob(w) \/ EndJob(w)
        \/ UNCHANGED <<fd, wpc>>
        \/ /\ \E p \in {"rearm", "read", "insert"} : wpc' = [wpc EXCEPT ![w] = p]
           /\ \E f : fd' = [fd EXCEPT ![w] = f]
    <3>1. fd = [fd EXCEPT ![w] = fd[w]]
      BY <1>0 DEF ThreadsOK
    <3> QED
      BY <1>2, <3>1 DEF WorkerStep, UartStore, UartDrop, UartReadEnd, UartRearm, PipeRead, SockAccept,
                        SockRecvStart, SockRead, SockReadNothing, Insert, InsertFails, Take
  <2>2. CASE StartJob(w)
    <3>1. Head(jobs) \in Jobs
      BY <1>0, <2>2, HeadTailProperties DEF StartJob, Pool!Dequeue, QueueOK
    <3>2. fd'[w] = Global(Head(jobs)) /\ wpc'[w] = Head(jobs).fn
      BY <1>0, <2>2 DEF StartJob, ThreadsOK
    <3>3. \A v \in Workers : v # w => fd'[v] = fd[v] /\ wpc'[v] = wpc[v]
      BY <1>0, <2>2 DEF StartJob, ThreadsOK
    <3> QED
      BY <3>1, <3>2, <3>3, JobFields DEF Globals
  <2>3. CASE EndJob(w)
    BY <1>0, <2>3 DEF EndJob, Globals, ThreadsOK
  <2>4. CASE /\ \E p \in {"rearm", "read", "insert"} : wpc' = [wpc EXCEPT ![w] = p]
             /\ \E f : fd' = [fd EXCEPT ![w] = f]
    BY <1>0, <2>4 DEF Globals, ThreadsOK
  <2> QED
    BY <1>1, <2>1, <2>2, <2>3, <2>4
<1>3. CASE UNCHANGED vars
  BY <1>1, <1>3 DEF vars
<1>4. ASSUME NEW c \in Clients, Connect(c) \/ HangUp(c) PROVE Globals'
  BY <1>1, <1>4 DEF Connect, HangUp
<1>5. ASSUME NEW f \in Sources, Sends(f) PROVE Globals'
  BY <1>1, <1>5 DEF Sends
<1>6. CASE MainStep
  BY <1>1, <1>6 DEF MainStep, EpollWait, Dispatch
<1> QED
  BY <1>2, <1>3, <1>4, <1>5, <1>6 DEF Next

-----------------------------------------------------------------------------
(***************************************************************************)
(* The moves of the bytes.                                                 *)
(***************************************************************************)
\* A read adds the first k chunks of a descriptor to a handler's buffer.
ReadsUpTo(w, f, k) ==
    /\ fd[w] = f
    /\ buf' = [buf EXCEPT ![w] = @ \o SubSeq(unread[f], 1, k)]
    /\ unread' = [unread EXCEPT ![f] = SubSeq(unread[f], k + 1, Len(unread[f]))]
    /\ UNCHANGED <<sentCount, fd, recv, lost>>
Reads(w, f) == \E k \in 0..Len(unread[f]) : ReadsUpTo(w, f, k)

\* A read that is not kept.
Drops(f) ==
    /\ unread' = [unread EXCEPT ![f] = <<>>]
    /\ lost' = lost \o unread[f]
    /\ UNCHANGED <<sentCount, fd, buf, recv>>

NoBytesMove ==
    /\ UNCHANGED <<sentCount, unread, buf, recv, lost>>
    /\ fd' \in [Workers -> Fds]
    /\ \A w \in Workers : fd'[w] = fd[w] \/ buf[w] = <<>>

\* read() of sizeof(recv_buf), and a read that whole_read stores.
LEMMA TakeReads ==
    ASSUME TypeOK, NEW w \in Workers, NEW f \in Sources, Take(w, f), buf[w] = <<>>, fd[w] = f
    PROVE  Reads(w, f)
<1>1. unread[f] \in Seq(Chunks)
  BY DEF TypeOK
<1>2. /\ ReadSize(unread[f]) \in 0..Len(unread[f])
      /\ SubSeq(unread[f], 1, ReadSize(unread[f])) \in Seq(Chunks)
  BY <1>1, ReadSizeIs
<1>3. buf[w] \o SubSeq(unread[f], 1, ReadSize(unread[f])) = SubSeq(unread[f], 1, ReadSize(unread[f]))
  BY <1>2, ConcatEmptySeq
<1>4. ReadsUpTo(w, f, ReadSize(unread[f]))
  BY <1>3 DEF ReadsUpTo, Take, Rest
<1> QED
  BY <1>2, <1>4 DEF Reads

LEMMA StoreReads ==
    ASSUME TypeOK, Globals, NEW w \in Workers, UartStore(w)
    PROVE  Reads(w, Uart)
<1>1. unread[Uart] \in Seq(Chunks) /\ fd[w] = Uart
  BY DEF TypeOK, Sources, Globals, UartStore
<1> DEFINE n == Len(unread[Uart])
<1>2. n \in Nat /\ n \in 0..n
  BY <1>1, LenProperties
<1>3. unread[Uart] \o <<>> = unread[Uart] /\ <<>> \in Seq(Chunks) /\ Len(<<>>) = 0
  BY <1>1, EmptySeq, ConcatEmptySeq
<1>4. SubSeq(unread[Uart], 1, n) = unread[Uart] /\ SubSeq(unread[Uart], n + 1, n) = <<>>
  BY <1>1, <1>3, CutConcat
<1>5. ReadsUpTo(w, Uart, n)
  BY <1>1, <1>4 DEF ReadsUpTo, UartStore
<1> QED
  BY <1>2, <1>5 DEF Reads

\* A step sends a chunk, moves the first chunks of a descriptor to the buffer of
\* its handler, reads the port to no avail, passes a buffer on to the list,
\* gives it up, or moves no bytes.
LEMMA Moves ==
    ASSUME TypeOK, InsideJob, Holding, Globals, [Next]_vars
    PROVE  \/ \E f \in Sources : Sends(f)
           \/ \E w \in Workers, f \in Sources : Reads(w, f)
           \/ \E f \in Sources : Drops(f)
           \/ \E w \in Workers : Insert(w) \/ InsertFails(w)
           \/ NoBytesMove
<1>0. ThreadsOK
  BY TypeParts
<1>1. ASSUME UNCHANGED <<sentCount, unread, buf, recv, lost, fd>> PROVE NoBytesMove
  BY <1>0, <1>1 DEF NoBytesMove, ThreadsOK
<1>2. ASSUME NEW w \in Workers, EndJob(w), wpc[w] \notin MayHold \/ buf[w] = <<>>,
             UNCHANGED <<sentCount, unread, recv, lost>>
      PROVE  NoBytesMove
  <2>1. buf[w] = <<>>
    BY <1>2 DEF Holding
  <2>2. buf' = buf
    BY <1>0, <1>2, <2>1 DEF EndJob, ThreadsOK
  <2>3. fd' \in [Workers -> Fds] /\ \A v \in Workers : v # w => fd'[v] = fd[v]
    BY <1>0, <1>2 DEF EndJob, ThreadsOK, Fds
  <2> QED
    BY <1>2, <2>1, <2>2, <2>3 DEF NoBytesMove
<1>3. ASSUME NEW w \in Workers, WorkerStep(w)
      PROVE  \/ \E f \in Sources : Reads(w, f) \/ Drops(f)
             \/ Insert(w) \/ InsertFails(w) \/ NoBytesMove
  <2>0. ASSUME NEW f, fd' = [fd EXCEPT ![w] = f], wpc[w] \notin MayHold,
               UNCHANGED <<sentCount, unread, buf, recv, lost>>
        PROVE  NoBytesMove
    <3>1. buf[w] = <<>>
      BY <2>0 DEF Holding
    <3>2. \A v \in Workers : v # w => fd'[v] = fd[v]
      BY <1>0, <2>0 DEF ThreadsOK
    <3>3. fd' \in [Workers -> Fds]
      BY StepType, TypeParts DEF TypeOK
    <3> QED
      BY <2>0, <3>1, <3>2, <3>3 DEF NoBytesMove
  <2>1. CASE StartJob(w)
    BY <2>0, <2>1 DEF StartJob, MayHold
  <2>2. CASE UartStore(w)
    BY <2>2, StoreReads DEF Sources
  <2>3. CASE UartDrop(w)
    BY <2>3 DEF UartDrop, Drops, Sources
  <2>4. CASE UartReadEnd(w)
    BY <1>1, <2>4 DEF UartReadEnd
  <2>5. CASE UartRearm(w)
    BY <1>1, <1>2, <2>5 DEF UartRearm
  <2>6. CASE PipeRead(w)
    <3>1. wpc[w] \notin MayHold /\ fd[w] = Pipe /\ buf[w] = <<>> /\ Pipe \in Sources
      BY <2>6 DEF PipeRead, MayHold, Holding, Globals, Sources
    <3>2. CASE Take(w, Pipe)
      BY <3>1, <3>2, TakeReads
    <3>3. CASE EndJob(w) /\ UNCHANGED <<outside, edges, watched, unread, main, recv, lost>>
      BY <1>2, <3>1, <3>3
    <3> QED
      BY <2>6, <3>2, <3>3 DEF PipeRead
  <2>7. CASE SockAccept(w)
    BY <1>2, <2>7 DEF SockAccept, MayHold
  <2>8. CASE SockRecvStart(w)
    BY <2>0, <2>8 DEF SockRecvStart, MayHold
  <2>9. CASE SockRead(w)
    <3>1. buf[w] = <<>> /\ fd[w] \in Sources /\ Take(w, fd[w])
      BY <2>9 DEF SockRead, Holding, MayHold
    <3> QED
      BY <3>1, TakeReads
  <2>10. CASE SockReadNothing(w)
    BY <1>2, <2>10 DEF SockReadNothing, MayHold
  <2> QED
    BY <1>3, <2>1, <2>2, <2>3, <2>4, <2>5, <2>6, <2>7, <2>8, <2>9, <2>10 DEF WorkerStep
<1>4. CASE UNCHANGED vars
  BY <1>1, <1>4 DEF vars
<1>5. ASSUME NEW c \in Clients, Connect(c) \/ HangUp(c) PROVE NoBytesMove
  BY <1>1, <1>5 DEF Connect, HangUp, NoBytesMove, ThreadsOK, TypeOK
<1>6. CASE MainStep
  BY <1>1, <1>6 DEF MainStep, EpollWait, Dispatch
<1> QED
  BY <1>3, <1>4, <1>5, <1>6 DEF Next

-----------------------------------------------------------------------------
(***************************************************************************)
(* Origin: bytes stay with the descriptor they come from.                  *)
(***************************************************************************)
\* A chunk a source sends is its own.
LEMMA NewChunk ==
    ASSUME TypeOK, NEW f \in Sources, Sends(f)
    PROVE  [from |-> f, n |-> sentCount[f] + 1] \in ChunksOf(f)
<1>1. sentCount[f] + 1 \in Nat \ {0}
  BY DEF TypeOK
<1>3. [from |-> f, n |-> sentCount[f] + 1] \in Chunks
  BY <1>1 DEF Chunks
<1> QED
  BY <1>3 DEF ChunksOf

\* Every step keeps the bytes with their descriptor: a handler changes its
\* descriptor only while it holds nothing.
LEMMA StepOrigin == TypeOK /\ InsideJob /\ Holding /\ Globals /\ Origin /\ [Next]_vars => Origin'
<1> SUFFICES ASSUME TypeOK, InsideJob, Holding, Globals, Origin, [Next]_vars PROVE Origin'
  OBVIOUS
<1>0. /\ unread \in [Sources -> Seq(Chunks)] /\ buf \in [Workers -> Seq(Chunks)]
      /\ fd \in [Workers -> Fds] /\ \A f : <<>> \in Seq(ChunksOf(f))
  BY EmptySeq DEF TypeOK
<1>1. ASSUME NEW f \in Sources, Sends(f) PROVE Origin'
  <2>1. [from |-> f, n |-> sentCount[f] + 1] \in ChunksOf(f)
    BY <1>1, NewChunk
  <2>2. Append(unread[f], [from |-> f, n |-> sentCount[f] + 1]) \in Seq(ChunksOf(f))
    BY <2>1, AppendProperties DEF Origin
  <2>3. \A g \in Sources : unread'[g] \in Seq(ChunksOf(g))
    BY <1>0, <1>1, <2>2 DEF Sends, Origin
  <2> QED
    BY <1>1, <2>3 DEF Sends, Origin
<1>2. ASSUME NEW w \in Workers, NEW f \in Sources, Reads(w, f) PROVE Origin'
  <2>1. PICK k \in 0..Len(unread[f]) : ReadsUpTo(w, f, k)
    BY <1>2 DEF Reads
  <2> DEFINE a == SubSeq(unread[f], 1, k)
             b == SubSeq(unread[f], k + 1, Len(unread[f]))
  <2>2. a \in Seq(ChunksOf(f)) /\ b \in Seq(ChunksOf(f))
    BY CutJoins DEF Origin
  <2>3. /\ fd[w] = f /\ buf' = [buf EXCEPT ![w] = @ \o a] /\ unread' = [unread EXCEPT ![f] = b]
        /\ UNCHANGED <<fd, recv>>
    BY <2>1 DEF ReadsUpTo
  <2> HIDE DEF a, b
  <2>4. \A g \in Sources : unread'[g] \in Seq(ChunksOf(g))
    BY <1>0, <2>2, <2>3 DEF Origin
  <2>5. buf[w] \o a \in Seq(ChunksOf(f))
    BY <2>2, <2>3, ConcatProperties DEF Origin
  <2>6. \A v \in Workers : buf'[v] \in Seq(ChunksOf(fd'[v]))
    BY <1>0, <2>3, <2>5 DEF Origin
  <2> QED
    BY <2>3, <2>4, <2>6 DEF Origin
<1>7. ASSUME NEW f \in Sources, Drops(f) PROVE Origin'
  BY <1>0, <1>7 DEF Drops, Origin
<1>3. ASSUME NEW w \in Workers, EndJob(w), UNCHANGED unread PROVE Origin' \/ recv' \notin Seq(OwnMessages)
  <2>1. buf'[w] = <<>>
    BY <1>0, <1>3 DEF EndJob
  <2>2. \A v \in Workers : v # w => buf'[v] = buf[v] /\ fd'[v] = fd[v]
    BY <1>0, <1>3 DEF EndJob
  <2>3. \A v \in Workers : buf'[v] \in Seq(ChunksOf(fd'[v]))
    BY <1>0, <2>1, <2>2 DEF Origin
  <2> QED
    BY <1>3, <2>3 DEF Origin
<1>4. ASSUME NEW w \in Workers, Insert(w) PROVE Origin'
  <2>1. [fd |-> fd[w], data |-> buf[w]] \in OwnMessages
    BY <1>0 DEF Origin, OwnMessages, Messages
  <2>2. recv' \in Seq(OwnMessages)
    BY <1>4, <2>1, AppendProperties DEF Insert, NodeFd, Recv!Put, Origin
  <2> QED
    BY <1>3, <1>4, <2>2 DEF Insert
<1>5. ASSUME NEW w \in Workers, InsertFails(w) PROVE Origin'
  BY <1>3, <1>5 DEF InsertFails, Origin
<1>6. CASE NoBytesMove
  BY <1>0, <1>6 DEF NoBytesMove, Origin
<1> QED
  BY <1>1, <1>2, <1>4, <1>5, <1>6, <1>7, Moves

-----------------------------------------------------------------------------
(***************************************************************************)
(* Flow: a chunk is in one place from its sending on.                      *)
(***************************************************************************)
\* A send puts the new chunk with the kernel, which was nowhere before.
LEMMA SendFlow ==
    ASSUME TypeOK, NEW x \in Chunks, FlowOf(x), NEW f \in Sources, Sends(f)
    PROVE  FlowOf(x)'
<1> DEFINE e == [from |-> f, n |-> sentCount[f] + 1]
<1>0. /\ unread \in [Sources -> Seq(Chunks)] /\ sentCount \in [Sources -> Nat]
      /\ e \in Chunks
  BY NewChunk DEF TypeOK, ChunksOf
<1>1. (x = e => x.from = f /\ x.n = sentCount[f] + 1) /\ (x.from = f /\ x.n = sentCount[f] + 1 => x = e)
  BY DEF Chunks
<1> HIDE DEF e
<1>2. /\ InSome(x, buf)' <=> InSome(x, buf)
      /\ OnceInAll(x, buf)' <=> OnceInAll(x, buf)
      /\ InSome(x, ListData)' <=> InSome(x, ListData)
      /\ OnceInAll(x, ListData)' <=> OnceInAll(x, ListData)
      /\ In(x, lost)' <=> In(x, lost)
      /\ AtMostOnce(x, lost)' <=> AtMostOnce(x, lost)
  BY DEF Sends, ListData
<1>3. unread' = [unread EXCEPT ![f] = Append(@, e)]
  BY DEF Sends, e
<1>4. /\ DOMAIN unread = Sources /\ DOMAIN unread' = Sources
      /\ \A g \in Sources : g # f => unread'[g] = unread[g]
      /\ unread'[f] = Append(unread[f], e) /\ unread[f] \in Seq(Chunks)
  BY <1>0, <1>3
<1>5. PICK r, o \in BOOLEAN :
        /\ InSome(x, unread) <=> In(x, unread[f]) \/ r
        /\ OnceInAll(x, unread) <=> AtMostOnce(x, unread[f]) /\ o /\ ~(In(x, unread[f]) /\ r)
        /\ InSome(x, unread') <=> In(x, unread'[f]) \/ r
        /\ OnceInAll(x, unread') <=> AtMostOnce(x, unread'[f]) /\ o /\ ~(In(x, unread'[f]) /\ r)
  BY <1>4, FamilyChange, ZenonT(100)
<1>6. /\ In(x, unread'[f]) <=> In(x, unread[f]) \/ x = e
      /\ AtMostOnce(x, unread'[f]) <=> AtMostOnce(x, unread[f]) /\ ~(In(x, unread[f]) /\ x = e)
  BY <1>0, <1>4, InAppend
<1>7. /\ InSome(x, unread)' <=> InSome(x, unread) \/ x = e
      /\ OnceInAll(x, unread)' <=> OnceInAll(x, unread) /\ ~(InSome(x, unread) /\ x = e)
  BY <1>5, <1>6
<1>8. x.n <= sentCount'[x.from] <=> x.n <= sentCount[x.from] \/ x = e
  <2>1. x.n \in Nat /\ x.from \in Sources /\ sentCount[x.from] \in Nat /\ sentCount[f] \in Nat
    BY <1>0 DEF Chunks
  <2>2. CASE x.from = f
    <3>1. sentCount'[x.from] = sentCount[f] + 1
      BY <1>0, <2>2 DEF Sends
    <3> QED
      BY <1>1, <2>1, <2>2, <3>1
  <2>3. CASE x.from # f
    BY <1>0, <1>1, <2>1, <2>3 DEF Sends
  <2> QED
    BY <2>2, <2>3
<1>9. x = e => ~(x.n <= sentCount[x.from])
  BY <1>0, <1>1
<1> QED
  BY <1>2, <1>7, <1>8, <1>9 DEF FlowOf

\* What a read takes moves to the end of the handler's buffer.
LEMMA ReadFlow ==
    ASSUME TypeOK, NEW x \in Chunks, FlowOf(x), NEW w \in Workers, NEW f \in Sources, Reads(w, f)
    PROVE  FlowOf(x)'
<1>0. unread \in [Sources -> Seq(Chunks)] /\ buf \in [Workers -> Seq(Chunks)]
  BY DEF TypeOK
<1>1. PICK k \in 0..Len(unread[f]) : ReadsUpTo(w, f, k)
  BY DEF Reads
<1>2. /\ InSome(x, ListData)' <=> InSome(x, ListData)
      /\ OnceInAll(x, ListData)' <=> OnceInAll(x, ListData)
      /\ In(x, lost)' <=> In(x, lost)
      /\ AtMostOnce(x, lost)' <=> AtMostOnce(x, lost)
      /\ sentCount' = sentCount
  BY <1>1 DEF ReadsUpTo, ListData
<1> DEFINE a == SubSeq(unread[f], 1, k)
           b == SubSeq(unread[f], k + 1, Len(unread[f]))
<1>3. unread[f] \in Seq(Chunks) /\ buf[w] \in Seq(Chunks)
  BY <1>0
<1>4. /\ a \in Seq(Chunks) /\ b \in Seq(Chunks)
      /\ In(x, unread[f]) <=> In(x, a) \/ In(x, b)
      /\ AtMostOnce(x, unread[f]) <=> /\ AtMostOnce(x, a) /\ AtMostOnce(x, b)
                                      /\ ~(In(x, a) /\ In(x, b))
  BY <1>3, InCut
<1>5. unread' = [unread EXCEPT ![f] = b] /\ buf' = [buf EXCEPT ![w] = @ \o a]
  BY <1>1 DEF ReadsUpTo
<1> HIDE DEF a, b
<1>6. /\ In(x, buf[w] \o a) <=> In(x, buf[w]) \/ In(x, a)
      /\ AtMostOnce(x, buf[w] \o a) <=> /\ AtMostOnce(x, buf[w]) /\ AtMostOnce(x, a)
                                        /\ ~(In(x, buf[w]) /\ In(x, a))
  BY <1>3, <1>4, InConcat
<1>7. /\ DOMAIN unread = Sources /\ DOMAIN unread' = Sources
      /\ \A g \in Sources : g # f => unread'[g] = unread[g]
      /\ unread'[f] = b
  BY <1>0, <1>5
<1>8. /\ DOMAIN buf = Workers /\ DOMAIN buf' = Workers
      /\ \A v \in Workers : v # w => buf'[v] = buf[v]
      /\ buf'[w] = buf[w] \o a
  BY <1>0, <1>5
<1>9. PICK r, o \in BOOLEAN :
        /\ InSome(x, unread) <=> In(x, unread[f]) \/ r
        /\ OnceInAll(x, unread) <=> AtMostOnce(x, unread[f]) /\ o /\ ~(In(x, unread[f]) /\ r)
        /\ InSome(x, unread') <=> In(x, unread'[f]) \/ r
        /\ OnceInAll(x, unread') <=> AtMostOnce(x, unread'[f]) /\ o /\ ~(In(x, unread'[f]) /\ r)
  BY <1>7, FamilyChange, ZenonT(100)
<1>10. PICK q, p \in BOOLEAN :
        /\ InSome(x, buf) <=> In(x, buf[w]) \/ q
        /\ OnceInAll(x, buf) <=> AtMostOnce(x, buf[w]) /\ p /\ ~(In(x, buf[w]) /\ q)
        /\ InSome(x, buf') <=> In(x, buf'[w]) \/ q
        /\ OnceInAll(x, buf') <=> AtMostOnce(x, buf'[w]) /\ p /\ ~(In(x, buf'[w]) /\ q)
  BY <1>8, FamilyChange, ZenonT(100)
<1>11. /\ InSome(x, unread) <=> In(x, a) \/ InSome(x, unread)'
       /\ OnceInAll(x, unread) <=> /\ AtMostOnce(x, a) /\ OnceInAll(x, unread)'
                                   /\ ~(In(x, a) /\ InSome(x, unread)')
  BY <1>4, <1>7, <1>9
<1>12. /\ InSome(x, buf)' <=> In(x, a) \/ InSome(x, buf)
       /\ OnceInAll(x, buf)' <=> /\ AtMostOnce(x, a) /\ OnceInAll(x, buf)
                                 /\ ~(In(x, a) /\ InSome(x, buf))
  BY <1>6, <1>8, <1>10
<1> QED
  BY <1>2, <1>11, <1>12 DEF FlowOf

\* What does not fit into recv_buf is given up.
LEMMA DropFlow ==
    ASSUME TypeOK, NEW x \in Chunks, FlowOf(x), NEW f \in Sources, Drops(f)
    PROVE  FlowOf(x)'
<1>0. unread \in [Sources -> Seq(Chunks)] /\ lost \in Seq(Chunks)
  BY DEF TypeOK
<1>1. /\ InSome(x, buf)' <=> InSome(x, buf)
      /\ OnceInAll(x, buf)' <=> OnceInAll(x, buf)
      /\ InSome(x, ListData)' <=> InSome(x, ListData)
      /\ OnceInAll(x, ListData)' <=> OnceInAll(x, ListData)
      /\ sentCount' = sentCount
  BY DEF Drops, ListData
<1>2. /\ In(x, lost)' <=> In(x, lost) \/ In(x, unread[f])
      /\ AtMostOnce(x, lost)' <=> /\ AtMostOnce(x, lost) /\ AtMostOnce(x, unread[f])
                                  /\ ~(In(x, lost) /\ In(x, unread[f]))
  <2>1. lost' = lost \o unread[f] /\ unread[f] \in Seq(Chunks)
    BY <1>0 DEF Drops
  <2> QED
    BY <1>0, <2>1, InConcat
<1>3. /\ DOMAIN unread = Sources /\ DOMAIN unread' = Sources
      /\ \A g \in Sources : g # f => unread'[g] = unread[g]
      /\ unread'[f] = <<>>
  BY <1>0 DEF Drops
<1>4. PICK r, o \in BOOLEAN :
        /\ InSome(x, unread) <=> In(x, unread[f]) \/ r
        /\ OnceInAll(x, unread) <=> AtMostOnce(x, unread[f]) /\ o /\ ~(In(x, unread[f]) /\ r)
        /\ InSome(x, unread') <=> In(x, unread'[f]) \/ r
        /\ OnceInAll(x, unread') <=> AtMostOnce(x, unread'[f]) /\ o /\ ~(In(x, unread'[f]) /\ r)
  BY <1>3, FamilyChange, ZenonT(100)
<1>5. /\ InSome(x, unread) <=> In(x, unread[f]) \/ InSome(x, unread)'
      /\ OnceInAll(x, unread) <=> /\ AtMostOnce(x, unread[f]) /\ OnceInAll(x, unread)'
                                  /\ ~(In(x, unread[f]) /\ InSome(x, unread)')
  BY <1>3, <1>4, InEmpty
<1> QED
  BY <1>1, <1>2, <1>5 DEF FlowOf

\* The end of a callback empties its buffer.
LEMMA EndFlow ==
    ASSUME TypeOK, NEW x \in Chunks, NEW w \in Workers, EndJob(w)
    PROVE  /\ InSome(x, buf) <=> InSome(x, buf)' \/ In(x, buf[w])
           /\ OnceInAll(x, buf) <=> /\ OnceInAll(x, buf)' /\ AtMostOnce(x, buf[w])
                                    /\ ~(InSome(x, buf)' /\ In(x, buf[w]))
<1>0. buf \in [Workers -> Seq(Chunks)]
  BY DEF TypeOK
<1>1. /\ DOMAIN buf = Workers /\ DOMAIN buf' = Workers
      /\ \A v \in Workers : v # w => buf'[v] = buf[v]
      /\ buf'[w] = <<>>
  BY <1>0 DEF EndJob
<1>2. PICK q, p \in BOOLEAN :
        /\ InSome(x, buf) <=> In(x, buf[w]) \/ q
        /\ OnceInAll(x, buf) <=> AtMostOnce(x, buf[w]) /\ p /\ ~(In(x, buf[w]) /\ q)
        /\ InSome(x, buf') <=> In(x, buf'[w]) \/ q
        /\ OnceInAll(x, buf') <=> AtMostOnce(x, buf'[w]) /\ p /\ ~(In(x, buf'[w]) /\ q)
  BY <1>1, FamilyChange, ZenonT(100)
<1> QED
  BY <1>1, <1>2, InEmpty

\* An insertion moves a handler's buffer to the list.
LEMMA InsertFlow ==
    ASSUME TypeOK, NEW x \in Chunks, FlowOf(x), NEW w \in Workers, Insert(w)
    PROVE  FlowOf(x)'
<1>0. recv \in Seq(Messages) /\ buf \in [Workers -> Seq(Chunks)] /\ fd \in [Workers -> Fds]
  BY DEF TypeOK
<1>1. /\ InSome(x, unread)' <=> InSome(x, unread)
      /\ OnceInAll(x, unread)' <=> OnceInAll(x, unread)
      /\ In(x, lost)' <=> In(x, lost)
      /\ AtMostOnce(x, lost)' <=> AtMostOnce(x, lost)
      /\ sentCount' = sentCount /\ EndJob(w)
  BY DEF Insert
<1> DEFINE n == Len(recv)
           m == [fd |-> fd[w], data |-> buf[w]]
<1>2. m \in Messages /\ m.data = buf[w] /\ recv' = Append(recv, m)
  BY <1>0 DEF Insert, NodeFd, Recv!Put, Messages
<1> HIDE DEF m
<1>3. n \in Nat /\ Len(recv') = n + 1 /\ recv'[n + 1] = m /\ \A k \in 1..n : recv'[k] = recv[k]
  BY <1>0, <1>2, AppendProperties, LenProperties
<1> HIDE DEF n
<1>4. DOMAIN ListData = 1..n /\ \A k \in 1..n : ListData[k] = recv[k].data
  BY <1>3 DEF ListData, n
<1>5. DOMAIN ListData' = 1..n + 1 /\ \A k \in 1..n + 1 : ListData'[k] = recv'[k].data
  BY <1>3 DEF ListData
<1>6. n + 1 \in 1..n + 1 /\ \A k \in 1..n : k \in 1..n + 1
  BY <1>3
<1>7. ListData'[n + 1] = buf[w] /\ \A k \in 1..n : ListData'[k] = ListData[k]
  BY <1>2, <1>3, <1>4, <1>5, <1>6
<1>8. /\ InSome(x, ListData') <=> InSome(x, ListData) \/ In(x, ListData'[n + 1])
      /\ OnceInAll(x, ListData') <=> /\ OnceInAll(x, ListData) /\ AtMostOnce(x, ListData'[n + 1])
                                     /\ ~(InSome(x, ListData) /\ In(x, ListData'[n + 1]))
  BY <1>3, <1>4, <1>5, <1>7, FamilyAppend
<1>9. /\ InSome(x, ListData)' <=> InSome(x, ListData) \/ In(x, buf[w])
      /\ OnceInAll(x, ListData)' <=> /\ OnceInAll(x, ListData) /\ AtMostOnce(x, buf[w])
                                     /\ ~(InSome(x, ListData) /\ In(x, buf[w]))
  BY <1>7, <1>8
<1>10. /\ InSome(x, buf) <=> InSome(x, buf)' \/ In(x, buf[w])
       /\ OnceInAll(x, buf) <=> /\ OnceInAll(x, buf)' /\ AtMostOnce(x, buf[w])
                                /\ ~(InSome(x, buf)' /\ In(x, buf[w]))
  BY <1>1, EndFlow
<1> QED
  BY <1>1, <1>9, <1>10 DEF FlowOf

\* Without memory for a node a handler's buffer is given up.
LEMMA LossFlow ==
    ASSUME TypeOK, NEW x \in Chunks, FlowOf(x), NEW w \in Workers, InsertFails(w)
    PROVE  FlowOf(x)'
<1>1. /\ InSome(x, unread)' <=> InSome(x, unread)
      /\ OnceInAll(x, unread)' <=> OnceInAll(x, unread)
      /\ InSome(x, ListData)' <=> InSome(x, ListData)
      /\ OnceInAll(x, ListData)' <=> OnceInAll(x, ListData)
      /\ sentCount' = sentCount /\ EndJob(w)
  BY DEF InsertFails, ListData
<1>2. lost' = lost \o buf[w] /\ lost \in Seq(Chunks) /\ buf[w] \in Seq(Chunks)
  BY DEF InsertFails, TypeOK
<1>3. /\ In(x, lost)' <=> In(x, lost) \/ In(x, buf[w])
      /\ AtMostOnce(x, lost)' <=> /\ AtMostOnce(x, lost) /\ AtMostOnce(x, buf[w])
                                  /\ ~(In(x, lost) /\ In(x, buf[w]))
  BY <1>2, InConcat
<1>4. /\ InSome(x, buf) <=> InSome(x, buf)' \/ In(x, buf[w])
      /\ OnceInAll(x, buf) <=> /\ OnceInAll(x, buf)' /\ AtMostOnce(x, buf[w])
                               /\ ~(InSome(x, buf)' /\ In(x, buf[w]))
  BY <1>1, EndFlow
<1> QED
  BY <1>1, <1>3, <1>4 DEF FlowOf

\* Every step keeps each chunk in its place or moves it to the next.
LEMMA StepFlow == TypeOK /\ InsideJob /\ Holding /\ Globals /\ Flow /\ [Next]_vars => Flow'
<1> SUFFICES ASSUME TypeOK, InsideJob, Holding, Globals, Flow, [Next]_vars, NEW x \in Chunks
             PROVE  FlowOf(x)'
  BY DEF Flow
<1>1. FlowOf(x)
  BY DEF Flow
<1>2. CASE NoBytesMove
  <2>1. UNCHANGED <<sentCount, unread, buf, recv, lost>>
    BY <1>2 DEF NoBytesMove
  <2> QED
    BY <1>1, <2>1 DEF FlowOf, ListData
<1> QED
  BY <1>1, <1>2, Moves, SendFlow, ReadFlow, DropFlow, InsertFlow, LossFlow

-----------------------------------------------------------------------------
(***************************************************************************)
(* The inductive invariant holds.                                          *)
(***************************************************************************)
\* It holds at the start, when nothing has been sent.
LEMMA InitIInv == Init => IInv
<1> SUFFICES ASSUME Init PROVE IInv
  OBVIOUS
<1>1. TypeOK
  BY InitType
<1>2. InsideJob /\ Holding /\ Globals
  BY DEF Init, InsideJob, Holding, Globals, Callbacks
<1>3. Origin
  BY EmptySeq DEF Init, Origin
<1>4. Flow
  <2> SUFFICES ASSUME NEW x \in Chunks PROVE FlowOf(x)
    BY DEF Flow
  <2>1. ~InSome(x, unread) /\ OnceInAll(x, unread)
    BY InEmpty DEF Init, InSome, OnceInAll
  <2>2. ~InSome(x, buf) /\ OnceInAll(x, buf)
    BY InEmpty DEF Init, InSome, OnceInAll
  <2>3. ~InSome(x, ListData) /\ OnceInAll(x, ListData)
    <3>1. Len(recv) = 0 /\ DOMAIN ListData = 1..Len(recv)
      BY DEF Init, ListData
    <3> QED
      BY <3>1 DEF InSome, OnceInAll
  <2>4. ~In(x, lost) /\ AtMostOnce(x, lost)
    BY InEmpty DEF Init
  <2>5. x.n \in Nat \ {0} /\ x.from \in Sources /\ sentCount[x.from] = 0
    BY DEF Chunks, Init
  <2>6. ~(x.n <= sentCount[x.from])
    BY <2>5
  <2> QED
    BY <2>1, <2>2, <2>3, <2>4, <2>6 DEF FlowOf
<1> QED
  BY <1>1, <1>2, <1>3, <1>4 DEF IInv

\* Every step keeps it.
LEMMA StepIInv == IInv /\ [Next]_vars => IInv'
BY StepType, StepInside, StepHolding, StepGlobals, StepOrigin, StepFlow DEF IInv

\* In every state that can be reached it holds.
LEMMA IInvAlways == Spec => []IInv
<1> QED
  BY InitIInv, StepIInv, PTL DEF Spec

-----------------------------------------------------------------------------
(***************************************************************************)
(* Type correctness of the socket server: every descriptor, job, message   *)
(* and slot is one of its kind, and the pool's queue never outgrows        *)
(* queue_max_num.                                                          *)
(***************************************************************************)
THEOREM TypeCorrect == Spec => []TypeOK
<1>1. IInv => TypeOK
  BY DEF IInv
<1> QED
  BY <1>1, IInvAlways, PTL

(***************************************************************************)
(* RightDescriptor: whatever the main thread has done to events[] between  *)
(* the queueing of sock_recv_handler and its start, the bytes of a message *)
(* on G_recv_linklist were read from the descriptor its node carries.      *)
(***************************************************************************)
THEOREM RightDescriptorAlways == Spec => []RightDescriptor
<1>1. IInv => RightDescriptor
  <2> SUFFICES ASSUME IInv, NEW k \in DOMAIN recv, NEW j \in DOMAIN recv[k].data
               PROVE  recv[k].data[j].from = recv[k].fd
    BY DEF RightDescriptor
  <2>1. recv[k] \in OwnMessages
    BY ElementOfSeq DEF IInv, Origin
  <2>2. recv[k].data \in Seq(ChunksOf(recv[k].fd))
    BY <2>1 DEF OwnMessages
  <2>3. recv[k].data[j] \in ChunksOf(recv[k].fd)
    BY <2>2, ElementOfSeq
  <2> QED
    BY <2>3 DEF ChunksOf
<1> QED
  BY <1>1, IInvAlways, PTL

\* The positions of x in a sequence, labelled with where the sequence is kept.
LEMMA PositionsAre ==
    ASSUME NEW S, NEW s \in Seq(S), NEW t, NEW x, NEW y
    PROVE  y \in {t} \X Positions(s, x) <=> At(y, t, s, x)
<1>1. DOMAIN s = 1..Len(s)
  OBVIOUS
<1> QED
  BY <1>1 DEF Positions, At

\* The places of a chunk, one kind after the other.
LEMMA PlacesAre ==
    ASSUME TypeOK, NEW x, NEW y
    PROVE  y \in Places(x) <=>
              \/ \E f \in Sources : At(y, <<"kernel", f>>, unread[f], x)
              \/ \E w \in Workers : At(y, <<"handler", w>>, buf[w], x)
              \/ \E k \in 1..Len(recv) : At(y, <<"list", k>>, recv[k].data, x)
              \/ At(y, <<"lost", 0>>, lost, x)
<1>1. y \in Places(x) <=>
         \/ \E f \in Sources : y \in {<<"kernel", f>>} \X Positions(unread[f], x)
         \/ \E w \in Workers : y \in {<<"handler", w>>} \X Positions(buf[w], x)
         \/ \E k \in DOMAIN recv : y \in {<<"list", k>>} \X Positions(recv[k].data, x)
         \/ y \in {<<"lost", 0>>} \X Positions(lost, x)
  BY DEF Places
<1>2. ASSUME NEW f \in Sources
      PROVE  y \in {<<"kernel", f>>} \X Positions(unread[f], x) <=> At(y, <<"kernel", f>>, unread[f], x)
  <2>1. unread[f] \in Seq(Chunks)
    BY DEF TypeOK
  <2> QED
    BY <2>1, PositionsAre
<1>3. ASSUME NEW w \in Workers
      PROVE  y \in {<<"handler", w>>} \X Positions(buf[w], x) <=> At(y, <<"handler", w>>, buf[w], x)
  <2>1. buf[w] \in Seq(Chunks)
    BY DEF TypeOK
  <2> QED
    BY <2>1, PositionsAre
<1>4. DOMAIN recv = 1..Len(recv)
  BY DEF TypeOK
<1>5. ASSUME NEW k \in 1..Len(recv)
      PROVE  y \in {<<"list", k>>} \X Positions(recv[k].data, x) <=> At(y, <<"list", k>>, recv[k].data, x)
  <2>1. recv[k] \in Messages
    BY ElementOfSeq DEF TypeOK
  <2>2. recv[k].data \in Seq(Chunks)
    BY <2>1 DEF Messages
  <2> QED
    BY <2>2, PositionsAre
<1>6. y \in {<<"lost", 0>>} \X Positions(lost, x) <=> At(y, <<"lost", 0>>, lost, x)
  <2>1. lost \in Seq(Chunks)
    BY DEF TypeOK
  <2> QED
    BY <2>1, PositionsAre
<1> QED
  BY <1>1, <1>2, <1>3, <1>4, <1>5, <1>6

\* What is sent has a place, and only one.
LEMMA OnePlace ==
    ASSUME TypeOK, NEW x, FlowOf(x), x.n <= sentCount[x.from]
    PROVE  \E p : Places(x) = {p}
<1>1. /\ DOMAIN unread = Sources /\ DOMAIN buf = Workers
      /\ DOMAIN ListData = 1..Len(recv) /\ \A k \in 1..Len(recv) : ListData[k] = recv[k].data
  BY DEF TypeOK, ListData
<1> DEFINE AtKernel(y) == \E f \in Sources : At(y, <<"kernel", f>>, unread[f], x)
           AtHandler(y) == \E w \in Workers : At(y, <<"handler", w>>, buf[w], x)
           OnList(y) == \E k \in 1..Len(recv) : At(y, <<"list", k>>, recv[k].data, x)
           IsLost(y) == At(y, <<"lost", 0>>, lost, x)
<1>2. \A y : y \in Places(x) <=> AtKernel(y) \/ AtHandler(y) \/ OnList(y) \/ IsLost(y)
  BY PlacesAre
<1>3. /\ InSome(x, unread) <=> \E y : AtKernel(y)
      /\ OnceInAll(x, unread) => \A y, z : AtKernel(y) /\ AtKernel(z) => y = z
  <2>1. \A f \in Sources : (\E y : At(y, <<"kernel", f>>, unread[f], x)) <=> In(x, unread[f])
    BY <1>1, AtIn
  <2>2. ASSUME OnceInAll(x, unread), NEW f \in Sources, NEW e \in Sources, NEW y, NEW z,
               At(y, <<"kernel", f>>, unread[f], x), At(z, <<"kernel", e>>, unread[e], x)
        PROVE  y = z
    <3>1. f = e
      BY <1>1, <2>1, <2>2 DEF OnceInAll
    <3>2. AtMostOnce(x, unread[f])
      BY <1>1, <2>2 DEF OnceInAll
    <3> QED
      BY <2>2, <3>1, <3>2, AtIn
  <2> QED
    BY <1>1, <2>1, <2>2 DEF InSome
<1>4. /\ InSome(x, buf) <=> \E y : AtHandler(y)
      /\ OnceInAll(x, buf) => \A y, z : AtHandler(y) /\ AtHandler(z) => y = z
  <2>1. \A w \in Workers : (\E y : At(y, <<"handler", w>>, buf[w], x)) <=> In(x, buf[w])
    BY <1>1, AtIn
  <2>2. ASSUME OnceInAll(x, buf), NEW w \in Workers, NEW e \in Workers, NEW y, NEW z,
               At(y, <<"handler", w>>, buf[w], x), At(z, <<"handler", e>>, buf[e], x)
        PROVE  y = z
    <3>1. w = e
      BY <1>1, <2>1, <2>2 DEF OnceInAll
    <3>2. AtMostOnce(x, buf[w])
      BY <1>1, <2>2 DEF OnceInAll
    <3> QED
      BY <2>2, <3>1, <3>2, AtIn
  <2> QED
    BY <1>1, <2>1, <2>2 DEF InSome
<1>5. /\ InSome(x, ListData) <=> \E y : OnList(y)
      /\ OnceInAll(x, ListData) => \A y, z : OnList(y) /\ OnList(z) => y = z
  <2>1. \A k \in 1..Len(recv) : (\E y : At(y, <<"list", k>>, recv[k].data, x)) <=> In(x, ListData[k])
    BY <1>1, AtIn
  <2>2. ASSUME OnceInAll(x, ListData), NEW k \in 1..Len(recv), NEW e \in 1..Len(recv), NEW y, NEW z,
               At(y, <<"list", k>>, recv[k].data, x), At(z, <<"list", e>>, recv[e].data, x)
        PROVE  y = z
    <3>1. k = e
      BY <1>1, <2>1, <2>2 DEF OnceInAll
    <3>2. AtMostOnce(x, recv[k].data)
      BY <1>1, <2>2 DEF OnceInAll
    <3> QED
      BY <2>2, <3>1, <3>2, AtIn
  <2> QED
    BY <1>1, <2>1, <2>2 DEF InSome
<1>6. /\ In(x, lost) <=> \E y : IsLost(y)
      /\ AtMostOnce(x, lost) => \A y, z : IsLost(y) /\ IsLost(z) => y = z
  BY AtIn
<1> HIDE DEF AtKernel, AtHandler, OnList, IsLost
<1>7. \E p : p \in Places(x)
  BY <1>2, <1>3, <1>4, <1>5, <1>6 DEF FlowOf
<1>8. \A y, z : y \in Places(x) /\ z \in Places(x) => y = z
  BY <1>2, <1>3, <1>4, <1>5, <1>6 DEF FlowOf
<1>9. PICK p : p \in Places(x)
  BY <1>7
<1>10. Places(x) = {p}
  BY <1>8, <1>9, Zenon
<1> QED
  BY <1>10, Zenon

(***************************************************************************)
(* EachChunkOnce: however many handlers read the same descriptor, and      *)
(* whoever overwrites their slot of events[] meanwhile, no byte is read    *)
(* twice and none disappears but what whole_read drops because it does not *)
(* fit, and what finds no memory for its node.                             *)
(***************************************************************************)
THEOREM EachChunkOnceAlways == Spec => []EachChunkOnce
<1>1. IInv => EachChunkOnce
  <2> SUFFICES ASSUME IInv, NEW f \in Sources, NEW n \in 1..sentCount[f]
               PROVE  Cardinality(Places([from |-> f, n |-> n])) = 1
    BY DEF EachChunkOnce
  <2> DEFINE x == [from |-> f, n |-> n]
  <2>1. sentCount[f] \in Nat
    BY DEF IInv, TypeOK
  <2>2. n \in Nat \ {0} /\ n <= sentCount[f]
    BY <2>1
  <2>3. x \in Chunks /\ x.n <= sentCount[x.from]
    BY <2>2 DEF Chunks
  <2> HIDE DEF x
  <2>4. PICK p : Places(x) = {p}
    BY <2>3, OnePlace DEF IInv, Flow
  <2>5. Cardinality(Places(x)) = 1
    BY <2>4, FS_Singleton
  <2> QED
    BY <2>5 DEF x
<1> QED
  BY <1>1, IInvAlways, PTL
=============================================================================

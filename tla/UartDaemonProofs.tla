-------------------------- MODULE UartDaemonProofs --------------------------
(***************************************************************************)
(* Machine-checked proofs about UartDaemon, for any number of pool         *)
(* threads, any capacity of the pool's queue and of the buffers, and any   *)
(* traffic.                                                                *)
(***************************************************************************)
EXTENDS UartDaemon, QueueLemmas, FiniteSetTheorems, TLAPS

UartJob == "uart_connect_handler"
UartPC == {"u_read", "u_rearm"}
DataPC == {"d_init", "d_top", "d_window", "d_asleep", "d_pop", "d_parse", "d_signal"}
SendPC == {"s_init", "s_top", "s_window", "s_asleep", "s_pop", "s_send"}

USE DaemonAssumption DEF DaemonAssumption

\* What arrives is one of Chunks.
LEMMA ChunkType ==
    /\ \A i \in 1..Len(UartTraffic) : Chunk("uart", UartTraffic, i) \in Chunks
    /\ \A i \in 1..Len(PipeTraffic) : Chunk("pipe", PipeTraffic, i) \in Chunks
    /\ \A i : Chunk("uart", UartTraffic, i).fd = "uart" /\ Chunk("pipe", PipeTraffic, i).fd = "pipe"
    /\ \A c \in Chunks : c.fd \in {"uart", "pipe"}
BY DEF Chunks, Chunk

\* A message ready_send_data queues is one of SendMsg, with something to send.
LEMMA SendMsgType ==
    ASSUME NEW to \in {"DUER", "UART"}, NEW text \in Texts, NEW cause \in Causes
    PROVE  [to |-> to, data |-> <<[text |-> text, cause |-> cause]>>] \in SendMsg
BY DEF SendMsg

USE DEF input, main, pool, lists, history

\* The daemon's initial state is well-typed.
LEMMA InitType == Init => TypeOK
<1> SUFFICES ASSUME Init PROVE TypeOK
  OBVIOUS
<1>1. /\ tty \in Seq(Chunks) /\ pipe \in Seq(Chunks) /\ events \in Seq({"uart", "pipe"})
      /\ jobs \in Seq(Jobs) /\ Len(jobs) <= QueueMax /\ toAdd \in Seq(Jobs)
  BY DEF Init, Jobs
<1>2. /\ recv \in Seq(RecvMsg) /\ send \in Seq(SendMsg) /\ lost \in Seq(Chunks)
      /\ parsed \in Seq(Chunks) /\ queuedOut \in Seq(SendMsg) /\ sent \in Seq(SendMsg)
  BY DEF Init
<1>3. /\ current \in [Workers -> Jobs \cup {NoJob}] /\ wpc \in [Workers -> WorkerPC]
      /\ buf \in [Workers -> Seq(Chunks)]
  BY DEF Init, WorkerPC
<1>4. /\ ttyCount \in 0..Len(UartTraffic) /\ pipeCount \in 0..Len(PipeTraffic)
      /\ startCount \in 0..Len(StartupTo)
  BY DEF Init
<1>5. /\ recvNode \in [fd : {"uart", "pipe", "none", "null"}, data : Seq(Chunks)]
      /\ sendNode \in [to : {"DUER", "UART", "none", "null"},
                       data : Seq([text : Texts, cause : Causes])]
  BY DEF Init
<1>6. uartListen \in BOOLEAN /\ pipeEdge \in BOOLEAN /\ crashed \in BOOLEAN
  BY DEF Init
<1> QED
  BY <1>1, <1>2, <1>3, <1>4, <1>5, <1>6 DEF TypeOK

-----------------------------------------------------------------------------
(***************************************************************************)
(* Type correctness.  It is inductive together with the fact that a        *)
(* receive handler that is about to insert a message has read something.   *)
(***************************************************************************)
HasRead == \A w \in Workers : wpc[w] = "r_insert" => buf[w] # <<>>

InputOK ==
    /\ tty \in Seq(Chunks) /\ ttyCount \in 0..Len(UartTraffic)
    /\ pipe \in Seq(Chunks) /\ pipeCount \in 0..Len(PipeTraffic)
MainOK ==
    /\ uartListen \in BOOLEAN /\ pipeEdge \in BOOLEAN
    /\ toAdd \in Seq(Jobs) /\ events \in Seq({"uart", "pipe"})
PoolOK ==
    /\ jobs \in Seq(Jobs) /\ Len(jobs) <= QueueMax
    /\ current \in [Workers -> Jobs \cup {NoJob}]
    /\ wpc \in [Workers -> WorkerPC]
    /\ buf \in [Workers -> Seq(Chunks)]
    /\ startCount \in 0..Len(StartupTo)
ListsOK ==
    /\ recv \in Seq(RecvMsg)
    /\ recvNode \in [fd : {"uart", "pipe", "none", "null"}, data : Seq(Chunks)]
    /\ send \in Seq(SendMsg)
    /\ sendNode \in [to : {"DUER", "UART", "none", "null"},
                     data : Seq([text : Texts, cause : Causes])]
HistoryOK ==
    /\ crashed \in BOOLEAN
    /\ lost \in Seq(Chunks) /\ parsed \in Seq(Chunks)
    /\ queuedOut \in Seq(SendMsg) /\ sent \in Seq(SendMsg)

\* TypeOK, in the groups the actions change.
LEMMA TypeParts ==
    /\ TypeOK => InputOK /\ MainOK /\ PoolOK /\ ListsOK /\ HistoryOK
    /\ InputOK' /\ MainOK' /\ PoolOK' /\ ListsOK' /\ HistoryOK' => TypeOK'
<1>1. TypeOK => InputOK /\ MainOK
  BY DEF TypeOK, InputOK, MainOK
<1>2. TypeOK => PoolOK
  BY DEF TypeOK, PoolOK
<1>3. TypeOK => ListsOK /\ HistoryOK
  BY DEF TypeOK, ListsOK, HistoryOK
<1>4. InputOK' /\ MainOK' /\ PoolOK' /\ ListsOK' /\ HistoryOK' => TypeOK'
  BY DEF TypeOK, InputOK, MainOK, PoolOK, ListsOK, HistoryOK
<1> QED
  BY <1>1, <1>2, <1>3, <1>4

\* Two things are two.
LEMMA PairCardinality == ASSUME NEW a, NEW b, a # b PROVE Cardinality({a, b}) = 2
<1> DEFINE A == {a}
<1>1. IsFiniteSet(A) /\ Cardinality(A) = 1 /\ b \notin A /\ A \cup {b} = {a, b}
  BY FS_Singleton
<1> HIDE DEF A
<1>2. Cardinality(A \cup {b}) = 1 + 1
  BY <1>1, FS_AddElement
<1>3. Cardinality({a, b}) = 1 + 1
  BY <1>1, <1>2, Zenon
<1> QED
  BY <1>3

(***************************************************************************)
(* epoll_wait fills events with what is ready, each descriptor once.       *)
(***************************************************************************)
LEMMA Batch ==
    ASSUME EpollWait
    PROVE  /\ events' \in Seq({"uart", "pipe"})
           /\ AtMostOnce("uart", events')
           /\ In("uart", events') => uartListen
<1> DEFINE n == Cardinality(Ready)
<1>1. /\ Ready \subseteq {"uart", "pipe"}
      /\ "uart" \in Ready => uartListen
  BY DEF Ready
<1>2. Ready # {}
  BY DEF EpollWait
<1>3. \/ Ready = {"uart", "pipe"} /\ n = 2
      \/ n = 1
  <2>1. Cardinality({"uart"}) = 1 /\ Cardinality({"pipe"}) = 1
    BY FS_Singleton
  <2>2. Cardinality({"uart", "pipe"}) = 2
    BY PairCardinality
  <2> QED
    BY <1>1, <1>2, <2>1, <2>2
<1>4. /\ events' \in [1..n -> Ready]
      /\ \A fd \in Ready : \E i \in 1..n : events'[i] = fd
  <2>1. events' \in [1..n -> Ready] /\ \A fd \in Ready : \E i \in DOMAIN events' : events'[i] = fd
    BY DEF EpollWait
  <2> QED
    BY <2>1
<1> HIDE DEF n
<1>5. events' \in Seq(Ready) /\ Len(events') = n
  BY <1>3, <1>4
<1>6. events' \in Seq({"uart", "pipe"})
  BY <1>1, <1>5, SeqMonotonic
<1>7. AtMostOnce("uart", events')
  <2>1. CASE n = 1
    BY <2>1, <1>5 DEF AtMostOnce
  <2>2. CASE Ready = {"uart", "pipe"} /\ n = 2
    <3>1. events' \in [1..2 -> {"uart", "pipe"}] /\ \E i \in 1..2 : events'[i] = "pipe"
      BY <1>4, <2>2
    <3>2. \A i, j \in 1..2 : events'[i] = "uart" /\ events'[j] = "uart" => i = j
      BY <3>1
    <3> QED
      BY <3>2, <2>2, <1>5 DEF AtMostOnce
  <2> QED
    BY <1>3, <2>1, <2>2
<1>8. In("uart", events') => uartListen
  BY <1>1, <1>4, <1>5 DEF In
<1> QED
  BY <1>6, <1>7, <1>8

\* What the environment and the main thread do keeps the types.
LEMMA MainType == TypeOK /\ (UartArrives \/ PipeWritten \/ MainStep) => TypeOK'
<1> SUFFICES ASSUME InputOK, MainOK, PoolOK, ListsOK, HistoryOK,
                    UartArrives \/ PipeWritten \/ MainStep
             PROVE  InputOK' /\ MainOK' /\ PoolOK' /\ ListsOK' /\ HistoryOK'
  BY TypeParts
<1>1. CASE UartArrives
  <2>1. InputOK'
    BY <1>1, ChunkType, AppendProperties DEF InputOK, UartArrives
  <2> QED
    BY <2>1, <1>1 DEF UartArrives, MainOK, PoolOK, ListsOK, HistoryOK
<1>2. CASE PipeWritten
  <2>1. InputOK'
    BY <1>2, ChunkType, AppendProperties DEF InputOK, PipeWritten
  <2> QED
    BY <2>1, <1>2 DEF PipeWritten, MainOK, PoolOK, ListsOK, HistoryOK
<1>3. CASE AddJob
  <2>1. Head(toAdd) \in Jobs /\ Tail(toAdd) \in Seq(Jobs)
    BY <1>3, HeadTailProperties DEF AddJob, MainOK
  <2>2. Append(jobs, Head(toAdd)) \in Seq(Jobs) /\ Len(Append(jobs, Head(toAdd))) <= QueueMax
    BY <2>1, <1>3, AppendProperties, LenProperties DEF AddJob, Pool!Enqueue, Pool!HasRoom, PoolOK
  <2>3. PoolOK'
    BY <2>2, <1>3 DEF AddJob, Pool!Enqueue, PoolOK
  <2> QED
    BY <2>1, <2>3, <1>3 DEF AddJob, InputOK, MainOK, ListsOK, HistoryOK
<1>4. CASE AddJobFails
  <2>1. Tail(toAdd) \in Seq(Jobs)
    BY <1>4, HeadTailProperties DEF AddJobFails, MainOK
  <2> QED
    BY <2>1, <1>4 DEF AddJobFails, InputOK, MainOK, PoolOK, ListsOK, HistoryOK
<1>5. CASE EpollWait
  <2>1. events' \in Seq({"uart", "pipe"})
    BY <1>5, Batch
  <2> QED
    BY <2>1, <1>5 DEF EpollWait, InputOK, MainOK, PoolOK, ListsOK, HistoryOK
<1>6. CASE DispatchUart \/ DispatchPipe
  <2>1. Tail(events) \in Seq({"uart", "pipe"})
    BY <1>6, HeadTailProperties DEF DispatchUart, DispatchPipe, MainOK
  <2>2. <<"uart_connect_handler">> \in Seq(Jobs) /\ <<"pipe_connect_handler">> \in Seq(Jobs)
    BY DEF Jobs
  <2>3. MainOK'
    BY <2>1, <2>2, <1>6 DEF DispatchUart, DispatchPipe, StopListening, MainOK
  <2> QED
    BY <2>3, <1>6 DEF DispatchUart, DispatchPipe, InputOK, PoolOK, ListsOK, HistoryOK
<1> QED
  BY <1>1, <1>2, <1>3, <1>4, <1>5, <1>6 DEF MainStep

\* A pool thread's step keeps the types.
LEMMA WorkerType ==
    ASSUME TypeOK, HasRead, NEW w \in Workers, WorkerStep(w) \/ SpuriousWakeup(w) \/ NullNode(w)
    PROVE  TypeOK'
<1>0. InputOK /\ MainOK /\ PoolOK /\ ListsOK /\ HistoryOK
  BY TypeParts
<1> SUFFICES InputOK' /\ MainOK' /\ PoolOK' /\ ListsOK' /\ HistoryOK'
  BY TypeParts
<1>1. ASSUME NEW from, NEW to \in WorkerPC, Goto(w, from, to)
      PROVE  wpc' \in [Workers -> WorkerPC]
  BY <1>0, <1>1 DEF Goto, PoolOK
<1>2. \A from, to \in WorkerPC, p \in [Workers -> WorkerPC] :
          WakeFrom(p, from, to) \in [Workers -> WorkerPC]
  BY DEF WakeFrom
<1> HIDE DEF input, main, pool, lists, history
<1>3. ASSUME UNCHANGED <<input, main, jobs, current, buf, startCount, lists, history>>,
             crashed' \in BOOLEAN, wpc' \in [Workers -> WorkerPC]
      PROVE  InputOK' /\ MainOK' /\ PoolOK' /\ ListsOK' /\ HistoryOK'
  BY <1>0, <1>3 DEF InputOK, MainOK, PoolOK, ListsOK, HistoryOK, input, main, lists, history
<1>4. \/ UartReadEnd(w) \/ RecvSignal(w) \/ InitSignal(w) \/ InitDone(w)
      \/ ProcessTest(w) \/ ProcessSleep(w) \/ ParseSignal(w)
      \/ SendTest(w) \/ SendSleep(w) \/ SpuriousWakeup(w) \/ NullNode(w)
      => InputOK' /\ MainOK' /\ PoolOK' /\ ListsOK' /\ HistoryOK'
  <2>1. /\ crashed \in BOOLEAN /\ wpc \in [Workers -> WorkerPC]
        /\ WorkerPC \subseteq WorkerPC
    BY <1>0 DEF HistoryOK, PoolOK
  <2>2. CASE \/ UartReadEnd(w) \/ InitDone(w) \/ ProcessTest(w) \/ ProcessSleep(w)
             \/ SendTest(w) \/ SendSleep(w)
    <3>1. wpc' \in [Workers -> WorkerPC]
      BY <1>1, <2>2 DEF UartReadEnd, InitDone, ProcessTest, ProcessSleep, SendTest, SendSleep, WorkerPC
    <3> QED
      BY <1>3, <2>1, <2>2, <3>1
         DEF UartReadEnd, InitDone, ProcessTest, ProcessSleep, SendTest, SendSleep
  <2>3. CASE RecvSignal(w) \/ InitSignal(w) \/ ParseSignal(w)
    <3>1. \A to \in WorkerPC : [wpc EXCEPT ![w] = to] \in [Workers -> WorkerPC]
      BY <2>1
    <3>2. {"return", "i_insert", "d_top", "d_asleep", "d_pop", "s_asleep", "s_pop"} \subseteq WorkerPC
      BY DEF WorkerPC
    <3>3. PICK to \in {"return", "i_insert", "d_top"}, asleep \in {"d_asleep", "s_asleep"},
               pop \in {"d_pop", "s_pop"} :
              wpc' = WakeFrom([wpc EXCEPT ![w] = to], asleep, pop)
      BY <2>3 DEF RecvSignal, InitSignal, ParseSignal, SendSignal
    <3>4. wpc' \in [Workers -> WorkerPC]
      BY <1>2, <3>1, <3>2, <3>3
    <3> QED
      BY <1>3, <2>1, <2>3, <3>4 DEF RecvSignal, InitSignal, ParseSignal, SendSignal
  <2>4. CASE SpuriousWakeup(w)
    <3>1. wpc' \in [Workers -> WorkerPC]
      BY <2>1, <2>4 DEF SpuriousWakeup, WorkerPC
    <3> QED
      BY <1>3, <2>1, <2>4, <3>1 DEF SpuriousWakeup
  <2>5. CASE NullNode(w)
    BY <1>3, <2>1, <2>5 DEF NullNode, pool
  <2> QED
    BY <2>2, <2>3, <2>4, <2>5
<1> USE DEF input, main, pool, lists, history
<1>5. CASE StartJob(w)
  <2>1. Head(jobs) \in Jobs /\ Tail(jobs) \in Seq(Jobs) /\ Len(Tail(jobs)) = Len(jobs) - 1
    BY <1>0, <1>5, HeadTailProperties DEF StartJob, Pool!Dequeue, PoolOK
  <2>2. Entry(Head(jobs)) \in WorkerPC
    BY <2>1 DEF Entry, Jobs, WorkerPC
  <2>3. PoolOK'
    BY <1>0, <1>5, <2>1, <2>2 DEF StartJob, Pool!Dequeue, PoolOK
  <2> QED
    BY <1>0, <1>5, <2>3 DEF StartJob, InputOK, MainOK, ListsOK, HistoryOK
<1>6. CASE ReturnFromJob(w)
  <2>1. PoolOK'
    BY <1>0, <1>6 DEF ReturnFromJob, Pool!Complete, PoolOK, WorkerPC
  <2> QED
    BY <1>0, <1>6, <2>1 DEF ReturnFromJob, InputOK, MainOK, ListsOK, HistoryOK
<1>7. CASE UartRead(w)
  <2>1. wpc' \in [Workers -> WorkerPC]
    BY <1>1, <1>7 DEF UartRead, WorkerPC
  <2>2. buf[w] \o tty \in Seq(Chunks) /\ lost \o tty \in Seq(Chunks)
    BY <1>0, ConcatProperties DEF InputOK, PoolOK, HistoryOK
  <2>3. InputOK' /\ MainOK' /\ ListsOK'
    BY <1>0, <1>7 DEF UartRead, InputOK, MainOK, ListsOK
  <2>4. PoolOK' /\ HistoryOK'
    BY <1>0, <1>7, <2>1, <2>2 DEF UartRead, PoolOK, HistoryOK
  <2> QED
    BY <2>3, <2>4
<1>8. CASE UartRearm(w)
  <2>1. wpc' \in [Workers -> WorkerPC]
    BY <1>1, <1>8 DEF UartRearm, WorkerPC
  <2> QED
    BY <1>0, <1>8, <2>1 DEF UartRearm, Rearm, InputOK, MainOK, PoolOK, ListsOK, HistoryOK
<1>9. CASE PipeRead(w)
  <2>1. wpc' \in [Workers -> WorkerPC]
    BY <1>1, <1>9 DEF PipeRead, WorkerPC
  <2>2. pipe \in Seq(Chunks) /\ ReadSize(pipe) \in 0..Len(pipe)
    BY <1>0, LenProperties DEF InputOK, ReadSize
  <2>3. SubSeq(pipe, 1, ReadSize(pipe)) \in Seq(Chunks)
    BY <2>2, InCut
  <2>4. SubSeq(pipe, ReadSize(pipe) + 1, Len(pipe)) \in Seq(Chunks)
    BY <2>2, InCut
  <2> QED
    BY <1>0, <1>9, <2>1, <2>3, <2>4 DEF PipeRead, InputOK, MainOK, PoolOK, ListsOK, HistoryOK
<1>10. CASE RecvInsert(w)
  <2>1. wpc' \in [Workers -> WorkerPC]
    BY <1>1, <1>10 DEF RecvInsert, WorkerPC
  <2>2. Head(buf[w]) \in Chunks /\ buf[w] \in Seq(Chunks)
    BY <1>0, <1>10, HeadTailProperties DEF RecvInsert, Goto, HasRead, PoolOK
  <2>3. [fd |-> Head(buf[w]).fd, data |-> buf[w]] \in RecvMsg
    BY <2>2, ChunkType DEF RecvMsg
  <2>4. recv' \in Seq(RecvMsg)
    BY <1>0, <1>10, <2>3, AppendProperties DEF RecvInsert, Recv!Put, ListsOK
  <2> QED
    BY <1>0, <1>10, <2>1, <2>4
       DEF RecvInsert, Recv!Put, InputOK, MainOK, PoolOK, ListsOK, HistoryOK
<1>11. CASE RecvInsertFails(w)
  <2>1. wpc' \in [Workers -> WorkerPC]
    BY <1>1, <1>11 DEF RecvInsertFails, WorkerPC
  <2>2. lost \o buf[w] \in Seq(Chunks)
    BY <1>0, ConcatProperties DEF PoolOK, HistoryOK
  <2> QED
    BY <1>0, <1>11, <2>1, <2>2 DEF RecvInsertFails, InputOK, MainOK, PoolOK, ListsOK, HistoryOK
<1>12. CASE InitInsert(w)
  <2>1. wpc' \in [Workers -> WorkerPC]
    BY <1>1, <1>12 DEF InitInsert, WorkerPC
  <2>2. startCount + 1 \in 1..Len(StartupTo) /\ startCount' = startCount + 1
    BY <1>0, <1>12 DEF InitInsert, PoolOK
  <2>3. /\ StartupTo[startCount + 1] \in {"DUER", "UART"}
        /\ StartupCause(startCount + 1) \in Causes
    BY <2>2, ElementOfSeq DEF Causes
  <2>4. send' \in Seq(SendMsg) /\ queuedOut' \in Seq(SendMsg) /\ sendNode' = sendNode
    BY <1>0, <1>12, <2>3, SendMsgType, AppendProperties
       DEF InitInsert, SendInsert, Send!Put, ListsOK, HistoryOK, Texts
  <2>5. InputOK' /\ MainOK'
    BY <1>0, <1>12 DEF InitInsert, InputOK, MainOK
  <2>6. PoolOK'
    BY <1>0, <1>12, <2>1, <2>2 DEF InitInsert, PoolOK
  <2>7. ListsOK' /\ HistoryOK'
    BY <1>0, <1>12, <2>4 DEF InitInsert, ListsOK, HistoryOK
  <2> QED
    BY <2>5, <2>6, <2>7
<1>13. CASE ProcessInit(w)
  <2>1. wpc' \in [Workers -> WorkerPC]
    BY <1>1, <1>13 DEF ProcessInit, WorkerPC
  <2> QED
    BY <1>0, <1>13, <2>1 DEF ProcessInit, InputOK, MainOK, PoolOK, ListsOK, HistoryOK
<1>14. CASE ProcessPop(w)
  <2>1. wpc' \in [Workers -> WorkerPC]
    BY <1>1, <1>14 DEF ProcessPop, WorkerPC
  <2>2. ASSUME recv # <<>> PROVE Head(recv) \in RecvMsg /\ Tail(recv) \in Seq(RecvMsg)
    BY <1>0, <2>2, HeadTailProperties DEF ListsOK
  <2>3. /\ recv' \in Seq(RecvMsg)
        /\ recvNode' \in [fd : {"uart", "pipe", "none", "null"}, data : Seq(Chunks)]
    <3>1. Zeroed(recvNode) \in [fd : {"uart", "pipe", "none", "null"}, data : Seq(Chunks)]
      BY <1>0, EmptySeq DEF Zeroed, ListsOK
    <3>2. RecvMsg \subseteq [fd : {"uart", "pipe", "none", "null"}, data : Seq(Chunks)]
      BY DEF RecvMsg
    <3> QED
      BY <1>0, <1>14, <2>2, <3>1, <3>2 DEF ProcessPop, Recv!Get, ListsOK
  <2> QED
    BY <1>0, <1>14, <2>1, <2>3 DEF ProcessPop, InputOK, MainOK, PoolOK, ListsOK, HistoryOK
<1>15. CASE ParseHandle(w)
  <2>1. wpc' \in [Workers -> WorkerPC]
    BY <1>1, <1>15 DEF ParseHandle, WorkerPC
  <2>2. recvNode.data \in Seq(Chunks) /\ Head(recvNode.data) \in Causes
    BY <1>0, <1>15, HeadTailProperties DEF ParseHandle, Matches, ListsOK, Causes
  <2>3. parsed \o recvNode.data \in Seq(Chunks)
    BY <1>0, <2>2, ConcatProperties DEF HistoryOK
  <2>4. Reply(recvNode.fd) \in Texts
    BY DEF Reply, Texts
  <2>5. send' \in Seq(SendMsg) /\ queuedOut' \in Seq(SendMsg) /\ sendNode' = sendNode
    BY <1>0, <1>15, <2>2, <2>4, SendMsgType, AppendProperties
       DEF ParseHandle, SendInsert, Send!Put, ListsOK, HistoryOK
  <2> QED
    BY <1>0, <1>15, <2>1, <2>3, <2>5 DEF ParseHandle, InputOK, MainOK, PoolOK, ListsOK, HistoryOK
<1>16. CASE ParseIgnore(w)
  <2>1. wpc' \in [Workers -> WorkerPC]
    BY <1>1, <1>16 DEF ParseIgnore, WorkerPC
  <2>2. parsed \o recvNode.data \in Seq(Chunks)
    BY <1>0, ConcatProperties DEF HistoryOK, ListsOK
  <2> QED
    BY <1>0, <1>16, <2>1, <2>2 DEF ParseIgnore, InputOK, MainOK, PoolOK, ListsOK, HistoryOK
<1>17. CASE SendInit(w)
  <2>1. wpc' \in [Workers -> WorkerPC]
    BY <1>1, <1>17 DEF SendInit, WorkerPC
  <2> QED
    BY <1>0, <1>17, <2>1 DEF SendInit, InputOK, MainOK, PoolOK, ListsOK, HistoryOK
<1>18. CASE SendPop(w)
  <2>1. wpc' \in [Workers -> WorkerPC]
    BY <1>1, <1>18 DEF SendPop, WorkerPC
  <2>2. ASSUME send # <<>> PROVE Head(send) \in SendMsg /\ Tail(send) \in Seq(SendMsg)
    BY <1>0, <2>2, HeadTailProperties DEF ListsOK
  <2>3. /\ send' \in Seq(SendMsg)
        /\ sendNode' \in [to : {"DUER", "UART", "none", "null"},
                          data : Seq([text : Texts, cause : Causes])]
    BY <1>0, <1>18, <2>2 DEF SendPop, Send!Get, SendMsg, ListsOK
  <2> QED
    BY <1>0, <1>18, <2>1, <2>3 DEF SendPop, InputOK, MainOK, PoolOK, ListsOK, HistoryOK
<1>19. CASE SendOut(w)
  <2>1. wpc' \in [Workers -> WorkerPC]
    BY <1>1, <1>19 DEF SendOut, WorkerPC
  <2>2. sendNode.to \in {"DUER", "UART"} => sendNode \in SendMsg
    BY <1>0 DEF ListsOK, SendMsg
  <2>3. sent' \in Seq(SendMsg)
    BY <1>0, <1>19, <2>2, AppendProperties DEF SendOut, HistoryOK
  <2>4. sendNode' \in [to : {"DUER", "UART", "none", "null"},
                       data : Seq([text : Texts, cause : Causes])]
    <3>1. <<>> \in Seq([text : Texts, cause : Causes])
      BY EmptySeq
    <3>2. sendNode' = [to |-> sendNode.to, data |-> <<>>]
      BY <1>0, <1>19 DEF SendOut, Reset, ListsOK
    <3> QED
      BY <1>0, <3>1, <3>2 DEF ListsOK
  <2> QED
    BY <1>0, <1>19, <2>1, <2>3, <2>4 DEF SendOut, InputOK, MainOK, PoolOK, ListsOK, HistoryOK
<1> QED
  BY <1>4, <1>5, <1>6, <1>7, <1>8, <1>9, <1>10, <1>11, <1>12, <1>13, <1>14, <1>15, <1>16,
     <1>17, <1>18, <1>19
     DEF WorkerStep, UartHandler, RecvHandler, InitJob, DataProcess, SendOutHandler

-----------------------------------------------------------------------------
(***************************************************************************)
(* Each of data_process, send_out_handler and the reading part of          *)
(* uart_connect_handler is one token: it is with the main thread, in the   *)
(* pool's queue or in the hands of one thread.                             *)
(***************************************************************************)
Services == {"data_process", "send_out_handler", UartJob}
Runs(j) ==
    {w \in Workers : IF j = UartJob THEN wpc[w] \in UartPC ELSE current[w] = j}

OneAtATime ==
    \A j \in Services :
        /\ AtMostOnce(j, toAdd) /\ AtMostOnce(j, jobs)
        /\ ~(In(j, toAdd) /\ In(j, jobs))
        /\ In(j, toAdd) \/ In(j, jobs) => Runs(j) = {}
        /\ \A v, w \in Runs(j) : v = w

(***************************************************************************)
(* The registration of the serial port is the token's fourth place: while  *)
(* epoll watches the port, nobody has been told to read it but through the *)
(* batch the main thread is going through.                                 *)
(***************************************************************************)
Listening ==
    /\ uartListen => ~In(UartJob, toAdd) /\ ~In(UartJob, jobs) /\ Runs(UartJob) = {}
    /\ AtMostOnce("uart", events)
    /\ In("uart", events) => uartListen

\* A thread is inside the callback it has been given.
InsideJob ==
    \A w \in Workers :
        /\ wpc[w] = "idle" <=> current[w] = NoJob
        /\ wpc[w] \in SendPC => current[w] = "send_out_handler"
        /\ wpc[w] \in DataPC => current[w] = "data_process"

Tokens == OneAtATime /\ Listening /\ InsideJob

\* What no step inside a callback does: enter another one.
StaysInside ==
    \A v \in Workers :
        /\ wpc'[v] = "idle" <=> wpc[v] = "idle"
        /\ wpc'[v] \in UartPC => wpc[v] \in UartPC
        /\ wpc'[v] \in DataPC => wpc[v] \in DataPC
        /\ wpc'[v] \in SendPC => wpc[v] \in SendPC

\* The steps of a thread inside a callback.
InnerStep(w) ==
    \/ UartHandler(w) \/ RecvHandler(w) \/ InitJob(w) \/ DataProcess(w) \/ SendOutHandler(w)
    \/ SpuriousWakeup(w) \/ NullNode(w)

\* A thread inside a callback enters no other and leaves the queue and the batch alone;
\* only the rearming changes the registration of the port.
LEMMA InnerStays ==
    ASSUME TypeOK, NEW w \in Workers, InnerStep(w)
    PROVE  /\ StaysInside
           /\ UNCHANGED <<toAdd, events, jobs, current>>
           /\ UartRearm(w) \/ UNCHANGED uartListen
<1>0. wpc \in [Workers -> WorkerPC]
  BY DEF TypeOK
<1> USE DEF StaysInside, UartPC, DataPC, SendPC, Goto
<1>1. CASE UartHandler(w)
  BY <1>0, <1>1 DEF UartHandler, UartRead, UartReadEnd, UartRearm
<1>2. CASE PipeRead(w) \/ RecvInsert(w) \/ RecvInsertFails(w)
  BY <1>0, <1>2 DEF PipeRead, RecvInsert, RecvInsertFails
<1>3. CASE RecvSignal(w)
  BY <1>0, <1>3 DEF RecvSignal, WakeFrom
<1>4. CASE InitInsert(w) \/ InitDone(w)
  BY <1>0, <1>4 DEF InitInsert, InitDone
<1>5. CASE InitSignal(w) \/ ParseSignal(w)
  BY <1>0, <1>5 DEF InitSignal, ParseSignal, SendSignal, WakeFrom
<1>6. CASE ProcessInit(w) \/ ProcessTest(w) \/ ProcessSleep(w) \/ ProcessPop(w)
  BY <1>0, <1>6 DEF ProcessInit, ProcessTest, ProcessSleep, ProcessPop
<1>7. CASE ParseHandle(w) \/ ParseIgnore(w)
  BY <1>0, <1>7 DEF ParseHandle, ParseIgnore
<1>8. CASE SendOutHandler(w)
  BY <1>0, <1>8 DEF SendOutHandler, SendInit, SendTest, SendSleep, SendPop, SendOut
<1>9. CASE SpuriousWakeup(w) \/ NullNode(w)
  BY <1>0, <1>9 DEF SpuriousWakeup, NullNode
<1> QED
  BY <1>1, <1>2, <1>3, <1>4, <1>5, <1>6, <1>7, <1>8, <1>9
     DEF InnerStep, RecvHandler, InitJob, DataProcess

\* The daemon starts with each service once, with the main thread.
LEMMA InitTokens == Init => Tokens
<1> SUFFICES ASSUME Init PROVE Tokens
  OBVIOUS
<1>1. /\ toAdd = <<"data_process", "send_out_handler", "init_data_to_bt_onstart">>
      /\ jobs = <<>> /\ events = <<>>
      /\ \A w \in Workers : current[w] = NoJob /\ wpc[w] = "idle"
  BY DEF Init
<1>2. /\ \A j \in Services : AtMostOnce(j, toAdd) /\ Runs(j) = {}
      /\ ~In(UartJob, toAdd)
  <2>1. /\ Len(toAdd) = 3 /\ toAdd[1] = "data_process" /\ toAdd[2] = "send_out_handler"
        /\ toAdd[3] = "init_data_to_bt_onstart"
    BY <1>1
  <2>2. \A j : AtMostOnce(j, toAdd)
    BY <2>1 DEF AtMostOnce
  <2>3. ~In(UartJob, toAdd)
    BY <2>1 DEF In, UartJob
  <2>4. \A j \in Services : Runs(j) = {}
    BY <1>1 DEF Services, Runs, UartJob, UartPC, NoJob
  <2> QED
    BY <2>2, <2>3, <2>4
<1>3. OneAtATime
  <2>1. \A j : ~In(j, jobs) /\ AtMostOnce(j, jobs)
    BY <1>1, InEmpty
  <2> QED
    BY <1>2, <2>1 DEF OneAtATime
<1>4. Listening
  <2>1. /\ ~In(UartJob, jobs)
        /\ ~In("uart", events) /\ AtMostOnce("uart", events)
    BY <1>1, InEmpty
  <2>2. Runs(UartJob) = {}
    BY <1>2 DEF Services
  <2> QED
    BY <1>2, <2>1, <2>2 DEF Listening
<1>5. InsideJob
  BY <1>1 DEF InsideJob, SendPC, DataPC
<1> QED
  BY <1>3, <1>4, <1>5 DEF Tokens

\* A step inside a callback moves no token, but for the one that puts the port
\* back into epoll.
LEMMA InnerTokens ==
    ASSUME TypeOK, Tokens, NEW w \in Workers, InnerStep(w)
    PROVE  Tokens'
<1>1. StaysInside /\ UNCHANGED <<toAdd, events, jobs, current>>
  BY InnerStays
<1>2. \A j \in Services : Runs(j)' \subseteq Runs(j)
  BY <1>1 DEF StaysInside, Runs
<1>3. OneAtATime'
  <2> SUFFICES ASSUME NEW j \in Services
               PROVE  /\ AtMostOnce(j, toAdd) /\ AtMostOnce(j, jobs)
                      /\ ~(In(j, toAdd) /\ In(j, jobs))
                      /\ In(j, toAdd) \/ In(j, jobs) => Runs(j)' = {}
                      /\ \A u, v \in Runs(j)' : u = v
    BY <1>1 DEF OneAtATime
  <2> QED
    BY <1>2 DEF Tokens, OneAtATime
<1>4. InsideJob'
  BY <1>1 DEF StaysInside, Tokens, InsideJob
<1>5. UartJob \in Services
  BY DEF Services
<1>6. CASE UNCHANGED uartListen
  <2>1. Listening'
    BY <1>1, <1>2, <1>5, <1>6 DEF Tokens, Listening
  <2> QED
    BY <1>3, <1>4, <2>1 DEF Tokens
<1>7. CASE UartRearm(w)
  <2>1. w \in Runs(UartJob) /\ wpc'[w] \notin UartPC
    BY <1>7 DEF UartRearm, Goto, Runs, UartPC, TypeOK
  <2>2. /\ ~In(UartJob, toAdd) /\ ~In(UartJob, jobs)
        /\ \A v \in Runs(UartJob) : v = w
    BY <2>1, <1>5 DEF Tokens, OneAtATime
  <2>3. Runs(UartJob)' = {}
    BY <1>2, <1>5, <2>1, <2>2 DEF Runs
  <2>4. uartListen'
    BY <1>7 DEF UartRearm, Rearm
  <2>5. Listening'
    BY <1>1, <2>2, <2>3, <2>4 DEF Tokens, Listening
  <2> QED
    BY <1>3, <1>4, <2>5 DEF Tokens
<1> QED
  BY <1>6, <1>7, InnerStays

\* Submitting, dispatching, starting and finishing a job move one token.
LEMMA StepTokens ==
    ASSUME TypeOK, Tokens,
           \/ UartArrives \/ PipeWritten \/ MainStep
           \/ \E w \in Workers : StartJob(w) \/ ReturnFromJob(w)
    PROVE  Tokens'
<1>0. /\ toAdd \in Seq(Jobs) /\ jobs \in Seq(Jobs) /\ events \in Seq({"uart", "pipe"})
      /\ current \in [Workers -> Jobs \cup {NoJob}] /\ wpc \in [Workers -> WorkerPC]
      /\ UartJob \in Services /\ Services \subseteq Jobs
  BY DEF TypeOK, Services, Jobs, UartJob
<1>1. ASSUME UNCHANGED <<current, wpc>> PROVE InsideJob' /\ \A j : Runs(j)' = Runs(j)
  BY <1>1 DEF Tokens, InsideJob, Runs
<1>2. ASSUME UNCHANGED <<toAdd, jobs, current, wpc>> PROVE OneAtATime'
  BY <1>1, <1>2 DEF Tokens, OneAtATime
<1>3. CASE UartArrives \/ PipeWritten
  <2>1. UNCHANGED <<uartListen, toAdd, events, jobs, current, wpc>>
    BY <1>3 DEF UartArrives, PipeWritten
  <2> QED
    BY <1>1, <1>2, <2>1 DEF Tokens, Listening
<1>4. CASE AddJob
  <2>1. /\ toAdd # <<>> /\ toAdd' = Tail(toAdd) /\ jobs' = Append(jobs, Head(toAdd))
        /\ Head(toAdd) \in Jobs /\ UNCHANGED <<uartListen, events, current, wpc>>
    BY <1>0, <1>4, HeadTailProperties DEF AddJob, Pool!Enqueue
  <2>2. \A j : /\ In(j, toAdd) <=> j = Head(toAdd) \/ In(j, toAdd')
               /\ AtMostOnce(j, toAdd) <=> AtMostOnce(j, toAdd') /\ ~(j = Head(toAdd) /\ In(j, toAdd'))
               /\ In(j, jobs') <=> In(j, jobs) \/ j = Head(toAdd)
               /\ AtMostOnce(j, jobs') <=> AtMostOnce(j, jobs) /\ ~(In(j, jobs) /\ j = Head(toAdd))
    BY <1>0, <2>1, InTail, InAppend
  <2>3. OneAtATime'
    BY <1>1, <2>1, <2>2 DEF Tokens, OneAtATime
  <2>4. Listening'
    BY <1>1, <2>1, <2>2 DEF Tokens, Listening
  <2> QED
    BY <1>1, <2>1, <2>3, <2>4 DEF Tokens
<1>5. CASE AddJobFails
  <2>1. /\ toAdd # <<>> /\ toAdd' = Tail(toAdd)
        /\ UNCHANGED <<uartListen, events, jobs, current, wpc>>
    BY <1>5 DEF AddJobFails
  <2>2. \A j : /\ In(j, toAdd) <=> j = Head(toAdd) \/ In(j, toAdd')
               /\ AtMostOnce(j, toAdd) <=> AtMostOnce(j, toAdd') /\ ~(j = Head(toAdd) /\ In(j, toAdd'))
    BY <1>0, <2>1, InTail
  <2>3. OneAtATime'
    BY <1>1, <2>1, <2>2 DEF Tokens, OneAtATime
  <2>4. Listening'
    BY <1>1, <2>1, <2>2 DEF Tokens, Listening
  <2> QED
    BY <1>1, <2>1, <2>3, <2>4 DEF Tokens
<1>6. CASE EpollWait
  <2>1. UNCHANGED <<uartListen, toAdd, jobs, current, wpc>>
    BY <1>6 DEF EpollWait
  <2>2. Listening'
    BY <1>1, <1>6, <2>1, Batch DEF Tokens, Listening
  <2> QED
    BY <1>1, <1>2, <2>1, <2>2 DEF Tokens
<1>7. CASE DispatchUart
  <2>1. /\ toAdd = <<>> /\ toAdd' = <<UartJob>> /\ ~uartListen'
        /\ events # <<>> /\ Head(events) = "uart" /\ events' = Tail(events)
        /\ UNCHANGED <<jobs, current, wpc>>
    BY <1>7 DEF DispatchUart, StopListening, UartJob
  <2>2. /\ In("uart", events) /\ ~In("uart", events') /\ AtMostOnce("uart", events')
    BY <1>0, <2>1, InTail DEF Tokens, Listening
  <2>3. ~In(UartJob, jobs) /\ Runs(UartJob) = {}
    BY <2>2 DEF Tokens, Listening
  <2>4. \A j : (In(j, toAdd') <=> j = UartJob) /\ AtMostOnce(j, toAdd')
    BY <2>1, InSingle
  <2>5. OneAtATime'
    BY <1>1, <2>1, <2>3, <2>4 DEF Tokens, OneAtATime
  <2>6. Listening'
    BY <2>1, <2>2 DEF Listening
  <2> QED
    BY <1>1, <2>1, <2>5, <2>6 DEF Tokens
<1>8. CASE DispatchPipe
  <2>1. /\ toAdd' = <<"pipe_connect_handler">>
        /\ events # <<>> /\ events' = Tail(events)
        /\ UNCHANGED <<uartListen, jobs, current, wpc>>
    BY <1>8 DEF DispatchPipe
  <2>2. \A j \in Services : ~In(j, toAdd') /\ AtMostOnce(j, toAdd')
    BY <2>1, InSingle DEF Services, UartJob
  <2>3. /\ In("uart", events') => In("uart", events)
        /\ AtMostOnce("uart", events')
    BY <1>0, <2>1, InTail DEF Tokens, Listening
  <2>4. OneAtATime'
    BY <1>1, <2>1, <2>2 DEF Tokens, OneAtATime
  <2>5. Listening'
    BY <1>0, <1>1, <2>1, <2>2, <2>3 DEF Tokens, Listening
  <2> QED
    BY <1>1, <2>1, <2>4, <2>5 DEF Tokens
<1>9. ASSUME NEW w \in Workers, StartJob(w) PROVE Tokens'
  <2> DEFINE j == Head(jobs)
  <2>1. /\ jobs # <<>> /\ jobs' = Tail(jobs) /\ j \in Jobs
        /\ wpc[w] = "idle" /\ current[w] = NoJob
        /\ current' = [current EXCEPT ![w] = j] /\ wpc' = [wpc EXCEPT ![w] = Entry(j)]
        /\ UNCHANGED <<uartListen, toAdd, events>>
    BY <1>0, <1>9, HeadTailProperties DEF StartJob, Pool!Dequeue
  <2>2. \A k : /\ In(k, jobs) <=> k = j \/ In(k, jobs')
               /\ AtMostOnce(k, jobs) <=> AtMostOnce(k, jobs') /\ ~(k = j /\ In(k, jobs'))
    BY <1>0, <2>1, InTail
  <2>3. /\ \A v \in Workers : current'[v] = IF v = w THEN j ELSE current[v]
        /\ \A v \in Workers : wpc'[v] = IF v = w THEN Entry(j) ELSE wpc[v]
    BY <1>0, <2>1
  <2>4. /\ Entry(j) \in UartPC <=> j = UartJob
        /\ Entry(j) \in DataPC => j = "data_process"
        /\ Entry(j) \in SendPC => j = "send_out_handler"
        /\ Entry(j) # "idle" /\ j # NoJob
    BY <2>1 DEF Jobs, Entry, UartPC, DataPC, SendPC, UartJob, NoJob
  <2> HIDE DEF j
  <2>5. \A k \in Services : Runs(k)' = IF k = j THEN Runs(k) \cup {w} ELSE Runs(k)
    BY <2>1, <2>3, <2>4 DEF Runs, Services, UartJob, UartPC, NoJob
  <2>6. OneAtATime'
    BY <2>1, <2>2, <2>5 DEF Tokens, OneAtATime
  <2>7. Listening'
    BY <1>0, <2>1, <2>2, <2>5 DEF Tokens, Listening
  <2>8. InsideJob'
    BY <2>3, <2>4 DEF Tokens, InsideJob
  <2> QED
    BY <2>6, <2>7, <2>8 DEF Tokens
<1>10. ASSUME NEW w \in Workers, ReturnFromJob(w) PROVE Tokens'
  <2>1. /\ \A v \in Workers : current'[v] = IF v = w THEN NoJob ELSE current[v]
        /\ \A v \in Workers : wpc'[v] = IF v = w THEN "idle" ELSE wpc[v]
        /\ UNCHANGED <<uartListen, toAdd, events, jobs>>
    BY <1>0, <1>10 DEF ReturnFromJob, Pool!Complete
  <2>2. \A k \in Services : Runs(k)' \subseteq Runs(k)
    BY <2>1 DEF Runs, UartPC, Services, NoJob
  <2>3. OneAtATime'
    BY <2>1, <2>2 DEF Tokens, OneAtATime
  <2>4. Listening'
    BY <1>0, <2>1, <2>2 DEF Tokens, Listening
  <2>5. InsideJob'
    BY <2>1 DEF Tokens, InsideJob, SendPC, DataPC
  <2> QED
    BY <2>3, <2>4, <2>5 DEF Tokens
<1> QED
  BY <1>3, <1>4, <1>5, <1>6, <1>7, <1>8, <1>9, <1>10 DEF MainStep

-----------------------------------------------------------------------------
(***************************************************************************)
(* What a receive handler holds, and what it puts on G_recv_linklist.  A   *)
(* message from the serial port stays short of the buffer as long as       *)
(* whole_read is at it; one from the pipe may fill it, but is never taken  *)
(* for one from the serial port.                                           *)
(***************************************************************************)
PipeChunks == {c \in Chunks : c.fd = "pipe"}
FittingMsg ==
    {m \in RecvMsg : /\ Len(m.data) <= BufLen
                     /\ m.fd = "uart" => Len(m.data) < BufLen}
BufferOK(pc, b) ==
    /\ Len(b) <= BufLen
    /\ pc \in UartPC => Len(b) < BufLen
    /\ pc = "r_insert" => b # <<>> /\ (Head(b).fd = "uart" => Len(b) < BufLen)

Buffers ==
    /\ pipe \in Seq(PipeChunks)
    /\ \A w \in Workers : BufferOK(wpc[w], buf[w])
    /\ recv \in Seq(FittingMsg)

\* Nothing has been received yet.
LEMMA InitBuffers == Init => Buffers
<1> SUFFICES ASSUME Init PROVE Buffers
  OBVIOUS
<1>1. pipe \in Seq(PipeChunks) /\ recv \in Seq(FittingMsg)
  BY EmptySeq DEF Init
<1>2. \A w \in Workers : wpc[w] = "idle" /\ buf[w] = <<>>
  BY DEF Init
<1>3. BufferOK("idle", <<>>)
  BY DEF BufferOK, UartPC
<1> QED
  BY <1>1, <1>2, <1>3 DEF Buffers

\* The steps that leave the handlers' buffers and what feeds them alone.
LEMMA FrameBuffers ==
    ASSUME TypeOK, Buffers, UNCHANGED <<pipe, buf, recv>>,
           \A v \in Workers : /\ wpc'[v] \in UartPC => wpc[v] \in UartPC
                              /\ wpc'[v] = "r_insert" => wpc[v] = "r_insert"
    PROVE  Buffers'
BY DEF Buffers, BufferOK

\* One thread moves on, with a buffer that is right for where it goes.
LEMMA OneBuffer ==
    ASSUME TypeOK, Buffers, NEW w \in Workers, NEW pc, NEW b,
           wpc' = [wpc EXCEPT ![w] = pc], buf' = [buf EXCEPT ![w] = b], BufferOK(pc, b),
           UNCHANGED recv, pipe' \in Seq(PipeChunks)
    PROVE  Buffers'
<1>1. \A v \in Workers : wpc'[v] = (IF v = w THEN pc ELSE wpc[v])
                         /\ buf'[v] = (IF v = w THEN b ELSE buf[v])
  BY DEF TypeOK
<1>2. ASSUME NEW v \in Workers PROVE BufferOK(wpc'[v], buf'[v])
  BY <1>1 DEF Buffers
<1> QED
  BY <1>2 DEF Buffers

\* Every step keeps the buffers right.
LEMMA StepBuffers == TypeOK /\ Buffers /\ [Next]_vars => Buffers'
<1> SUFFICES ASSUME TypeOK, Buffers, [Next]_vars PROVE Buffers'
  OBVIOUS
<1>0. /\ wpc \in [Workers -> WorkerPC] /\ buf \in [Workers -> Seq(Chunks)]
      /\ pipe \in Seq(PipeChunks) /\ tty \in Seq(Chunks) /\ pipeCount \in 0..Len(PipeTraffic)
      /\ recv \in Seq(FittingMsg)
      /\ \A w \in Workers : BufferOK(wpc[w], buf[w])
  BY DEF TypeOK, Buffers
<1>1. CASE UNCHANGED vars
  BY <1>1, FrameBuffers DEF vars
<1>2. CASE UartArrives \/ MainStep
  BY <1>2, FrameBuffers
     DEF UartArrives, MainStep, AddJob, Pool!Enqueue, AddJobFails, EpollWait, DispatchUart,
         DispatchPipe
<1>3. CASE PipeWritten
  <2>1. Chunk("pipe", PipeTraffic, pipeCount + 1) \in PipeChunks
    BY <1>0, <1>3, ChunkType DEF PipeWritten, PipeChunks
  <2>2. pipe' \in Seq(PipeChunks)
    BY <1>0, <1>3, <2>1, AppendProperties DEF PipeWritten
  <2>3. UNCHANGED <<wpc, buf, recv>>
    BY <1>3 DEF PipeWritten
  <2> QED
    BY <1>0, <2>2, <2>3 DEF Buffers
<1>4. ASSUME NEW w \in Workers, StartJob(w) \/ ReturnFromJob(w) PROVE Buffers'
  <2>1. PICK pc \in WorkerPC : /\ wpc' = [wpc EXCEPT ![w] = pc] /\ buf' = [buf EXCEPT ![w] = <<>>]
                               /\ pc # "r_insert" /\ UNCHANGED <<recv, pipe>>
    <3>1. CASE StartJob(w)
      <4>1. Head(jobs) \in Jobs
        BY <3>1, HeadTailProperties DEF StartJob, Pool!Dequeue, TypeOK
      <4>2. Entry(Head(jobs)) \in WorkerPC /\ Entry(Head(jobs)) # "r_insert"
        BY <4>1 DEF Entry, Jobs, WorkerPC
      <4> QED
        BY <3>1, <4>2 DEF StartJob
    <3>2. CASE ReturnFromJob(w)
      BY <3>2 DEF ReturnFromJob, WorkerPC
    <3> QED
      BY <1>4, <3>1, <3>2
  <2>2. BufferOK(pc, <<>>)
    BY <2>1 DEF BufferOK
  <2> QED
    BY <1>0, <2>1, <2>2, OneBuffer
<1>5. ASSUME NEW w \in Workers, UartHandler(w) PROVE Buffers'
  <2>1. CASE UartRead(w)
    <3>1. wpc[w] \in UartPC /\ Len(buf[w]) < BufLen /\ Len(buf[w]) \in Nat /\ Len(tty) \in Nat
      BY <1>0, <2>1, LenProperties DEF UartRead, Goto, UartPC, BufferOK
    <3>2. CASE Fits(Len(buf[w]), Len(tty)) /\ Goto(w, "u_read", "u_read")
               /\ buf' = [buf EXCEPT ![w] = @ \o tty]
      <4>1. Len(buf[w] \o tty) < BufLen
        BY <1>0, <3>1, <3>2, ConcatProperties DEF Fits
      <4>2. BufferOK("u_read", buf[w] \o tty)
        BY <3>1, <4>1 DEF BufferOK
      <4>3. wpc' = [wpc EXCEPT ![w] = "u_read"] /\ buf' = [buf EXCEPT ![w] = buf[w] \o tty]
        BY <3>2 DEF Goto
      <4> QED
        BY <1>0, <2>1, <4>2, <4>3, OneBuffer DEF UartRead
    <3>3. CASE Goto(w, "u_read", "u_rearm") /\ UNCHANGED buf
      BY <1>0, <2>1, <3>3, FrameBuffers DEF UartRead, Goto, UartPC
    <3> QED
      BY <2>1, <3>2, <3>3 DEF UartRead
  <2>2. CASE UartReadEnd(w)
    BY <1>0, <2>2, FrameBuffers DEF UartReadEnd, Goto, UartPC
  <2>3. CASE UartRearm(w)
    <3>1. wpc[w] \in UartPC /\ BufferOK(wpc[w], buf[w])
      BY <1>0, <2>3 DEF UartRearm, Goto, UartPC
    <3>2. PICK pc \in {"return", "r_insert"} : /\ wpc' = [wpc EXCEPT ![w] = pc]
                                               /\ pc = "r_insert" => buf[w] # <<>>
      BY <2>3 DEF UartRearm, Goto
    <3>3. BufferOK(pc, buf[w])
      BY <3>1, <3>2 DEF BufferOK, UartPC
    <3>4. buf' = [buf EXCEPT ![w] = buf[w]] /\ UNCHANGED <<recv, pipe>>
      BY <1>0, <2>3 DEF UartRearm
    <3> QED
      BY <1>0, <3>2, <3>3, <3>4, OneBuffer
  <2> QED
    BY <1>5, <2>1, <2>2, <2>3 DEF UartHandler
<1>6. ASSUME NEW w \in Workers, RecvHandler(w) PROVE Buffers'
  <2>1. CASE PipeRead(w)
    <3> DEFINE n == ReadSize(pipe)
               b == SubSeq(pipe, 1, n)
               r == SubSeq(pipe, n + 1, Len(pipe))
    <3>1. /\ n \in 0..Len(pipe) /\ n <= BufLen /\ Len(pipe) \in Nat
          /\ n = 0 => pipe = <<>>
      BY <1>0, LenProperties, EmptySeq DEF ReadSize
    <3> HIDE DEF n
    <3>2. b \in Seq(PipeChunks) /\ r \in Seq(PipeChunks) /\ Len(b) = n
      BY <1>0, <3>1, InCut, SubSeqProperties
    <3>3. wpc' = [wpc EXCEPT ![w] = IF pipe = <<>> THEN "return" ELSE "r_insert"]
          /\ buf' = [buf EXCEPT ![w] = b] /\ pipe' = r /\ UNCHANGED recv
      BY <2>1 DEF PipeRead, Goto, n
    <3> HIDE DEF b, r
    <3>4. b # <<>> => Head(b).fd = "pipe"
      BY <3>2, HeadTailProperties DEF PipeChunks
    <3>5. pipe # <<>> => b # <<>>
      BY <3>1, <3>2
    <3>6. BufferOK(IF pipe = <<>> THEN "return" ELSE "r_insert", b)
      BY <3>1, <3>2, <3>4, <3>5 DEF BufferOK, UartPC
    <3> QED
      BY <3>2, <3>3, <3>6, OneBuffer
  <2>2. CASE RecvInsert(w)
    <3> DEFINE m == [fd |-> Head(buf[w]).fd, data |-> buf[w]]
    <3>1. wpc[w] = "r_insert" /\ BufferOK(wpc[w], buf[w]) /\ buf[w] \in Seq(Chunks)
      BY <1>0, <2>2 DEF RecvInsert, Goto
    <3>2. Head(buf[w]) \in Chunks
      BY <3>1, HeadTailProperties DEF BufferOK
    <3>3. m \in FittingMsg
      BY <3>1, <3>2, ChunkType DEF FittingMsg, RecvMsg, BufferOK
    <3>4. recv' = Append(recv, m) /\ UNCHANGED <<buf, pipe>>
      BY <2>2 DEF RecvInsert, Recv!Put
    <3> HIDE DEF m
    <3>5. recv' \in Seq(FittingMsg)
      BY <1>0, <3>3, <3>4, AppendProperties
    <3>6. \A v \in Workers : wpc'[v] = IF v = w THEN "r_signal" ELSE wpc[v]
      BY <1>0, <2>2 DEF RecvInsert, Goto
    <3>7. \A v \in Workers : BufferOK(wpc'[v], buf'[v])
      BY <1>0, <3>4, <3>6 DEF BufferOK, UartPC
    <3> QED
      BY <1>0, <3>4, <3>5, <3>7 DEF Buffers
  <2>3. CASE RecvInsertFails(w)
    BY <1>0, <2>3, FrameBuffers DEF RecvInsertFails, Goto, UartPC
  <2>4. CASE RecvSignal(w)
    BY <1>0, <2>4, FrameBuffers DEF RecvSignal, WakeFrom, UartPC
  <2> QED
    BY <1>6, <2>1, <2>2, <2>3, <2>4 DEF RecvHandler
<1>7. ASSUME NEW w \in Workers, InitJob(w) PROVE Buffers'
  BY <1>0, <1>7, FrameBuffers
     DEF InitJob, InitInsert, InitSignal, InitDone, SendSignal, WakeFrom, Goto, UartPC
<1>8. ASSUME NEW w \in Workers, ProcessPop(w) PROVE Buffers'
  <2>1. recv' \in Seq(FittingMsg)
    BY <1>0, <1>8, HeadTailProperties DEF ProcessPop, Recv!Get
  <2>2. \A v \in Workers : wpc'[v] = IF v = w THEN "d_parse" ELSE wpc[v]
    BY <1>0, <1>8 DEF ProcessPop, Goto
  <2>3. \A v \in Workers : BufferOK(wpc'[v], buf'[v])
    BY <1>0, <1>8, <2>2 DEF ProcessPop, BufferOK, UartPC
  <2> QED
    BY <1>0, <1>8, <2>1, <2>3 DEF Buffers, ProcessPop
<1>9. ASSUME NEW w \in Workers,
             \/ ProcessInit(w) \/ ProcessTest(w) \/ ProcessSleep(w)
             \/ ParseHandle(w) \/ ParseIgnore(w) \/ ParseSignal(w)
      PROVE  Buffers'
  BY <1>0, <1>9, FrameBuffers
     DEF ProcessInit, ProcessTest, ProcessSleep, ParseHandle, ParseIgnore, ParseSignal,
         SendSignal, WakeFrom, Goto, UartPC
<1>10. ASSUME NEW w \in Workers, SendOutHandler(w) PROVE Buffers'
  BY <1>0, <1>10, FrameBuffers
     DEF SendOutHandler, SendInit, SendTest, SendSleep, SendPop, SendOut, Goto, UartPC
<1>11. ASSUME NEW w \in Workers, SpuriousWakeup(w) \/ NullNode(w) PROVE Buffers'
  BY <1>0, <1>11, FrameBuffers DEF SpuriousWakeup, NullNode, UartPC
<1> QED
  BY <1>1, <1>2, <1>3, <1>4, <1>5, <1>6, <1>7, <1>8, <1>9, <1>10, <1>11
     DEF Next, WorkerStep, DataProcess

-----------------------------------------------------------------------------
(***************************************************************************)
(* Sending in order.  send_out_handler's node holds a message only between *)
(* its pop and its write, and then has a port to go to; everything on      *)
(* G_send_linklist has something to send.  That no second thread pops in   *)
(* between is what Tokens is needed for.                                   *)
(***************************************************************************)
FullMsg == {m \in SendMsg : m.data # <<>>}
Sending ==
    /\ send \in Seq(FullMsg)
    /\ sendNode.data # <<>> =>
          /\ sendNode.to \in {"DUER", "UART"}
          /\ \E w \in Workers : wpc[w] = "s_send"
    /\ SendFifo

\* Nothing has been queued yet.
LEMMA InitSending == Init => Sending
<1> SUFFICES ASSUME Init PROVE Sending
  OBVIOUS
<1>1. send = <<>> /\ queuedOut = <<>> /\ sent = <<>> /\ sendNode.data = <<>>
  BY DEF Init
<1>2. SendInHand = <<>>
  BY <1>1 DEF SendInHand
<1>3. SendFifo
  <2>1. <<>> \o <<>> = <<>>
    BY EmptySeq, ConcatEmptySeq
  <2> QED
    BY <1>1, <1>2, <2>1 DEF SendFifo
<1> QED
  BY <1>1, <1>3, EmptySeq DEF Sending

\* The steps that leave the way out alone.
LEMMA FrameSending ==
    ASSUME Sending, UNCHANGED <<send, sendNode, queuedOut, sent>>,
           \A v \in Workers : wpc[v] = "s_send" => wpc'[v] = "s_send"
    PROVE  Sending'
BY DEF Sending, SendFifo, SendInHand

\* Queueing a message puts it last, whatever is being sent.
LEMMA QueueSending ==
    ASSUME TypeOK, Sending, NEW to \in {"DUER", "UART"}, NEW text \in Texts, NEW cause \in Causes,
           SendInsert(to, text, cause), UNCHANGED sent,
           \A v \in Workers : wpc[v] = "s_send" => wpc'[v] = "s_send"
    PROVE  Sending'
<1> DEFINE m == [to |-> to, data |-> <<[text |-> text, cause |-> cause]>>]
<1>1. /\ send' = Append(send, m) /\ UNCHANGED sendNode /\ queuedOut' = Append(queuedOut, m)
  BY DEF SendInsert, Send!Put
<1>2. m \in SendMsg /\ m.data # <<>>
  BY SendMsgType
<1> HIDE DEF m
<1>3. m \in FullMsg /\ FullMsg \subseteq SendMsg
  BY <1>2 DEF FullMsg
<1>4. send \in Seq(FullMsg) /\ send' \in Seq(FullMsg)
  BY <1>1, <1>3, AppendProperties DEF Sending
<1>5. SendInHand' = SendInHand /\ SendInHand \in Seq(SendMsg)
  <2>1. sendNode.data # <<>> => sendNode \in SendMsg
    BY DEF Sending, TypeOK, SendMsg
  <2> QED
    BY <1>1, <2>1, EmptySeq DEF SendInHand
<1>6. SendFifo'
  <2> DEFINE before == sent \o SendInHand
  <2>1. before \in Seq(SendMsg) /\ send \in Seq(SendMsg)
    BY <1>5, ConcatProperties DEF TypeOK
  <2>2. queuedOut = before \o send
    BY DEF Sending, SendFifo
  <2>3. Append(before \o send, m) = before \o Append(send, m)
    <3> HIDE DEF before
    <3>1. before \o send \in Seq(SendMsg) /\ <<m>> \in Seq(SendMsg)
      BY <1>2, <2>1, ConcatProperties
    <3>2. Append(before \o send, m) = (before \o send) \o <<m>> /\ Append(send, m) = send \o <<m>>
      BY <1>2, <2>1, <3>1, AppendIsConcat
    <3> QED
      BY <2>1, <3>1, <3>2, ConcatAssociative
  <2> QED
    BY <1>1, <1>5, <2>2, <2>3 DEF SendFifo
<1> QED
  BY <1>1, <1>4, <1>6 DEF Sending

\* Only one thread is in send_out_handler.
LEMMA OneSender ==
    ASSUME Tokens, NEW v \in Workers, NEW w \in Workers, wpc[v] \in SendPC, wpc[w] \in SendPC
    PROVE  v = w
<1>1. current[v] = "send_out_handler" /\ current[w] = "send_out_handler"
  BY DEF Tokens, InsideJob
<1>2. v \in Runs("send_out_handler") /\ w \in Runs("send_out_handler")
  BY <1>1 DEF Runs, UartJob
<1>3. "send_out_handler" \in Services
  BY DEF Services
<1> QED
  BY <1>2, <1>3 DEF Tokens, OneAtATime

\* send_out_handler keeps the order.
LEMMA HandlerSending ==
    ASSUME TypeOK, Tokens, Sending, NEW w \in Workers, SendOutHandler(w)
    PROVE  Sending'
<1>0. /\ wpc \in [Workers -> WorkerPC]
      /\ sendNode \in [to : {"DUER", "UART", "none", "null"},
                       data : Seq([text : Texts, cause : Causes])]
      /\ sent \in Seq(SendMsg) /\ send \in Seq(SendMsg) /\ send \in Seq(FullMsg)
      /\ FullMsg \subseteq SendMsg
  BY DEF TypeOK, Sending, FullMsg
<1>1. CASE SendTest(w) \/ SendSleep(w)
  BY <1>0, <1>1, FrameSending DEF SendTest, SendSleep, Goto
<1>2. ASSUME wpc[w] \in SendPC, wpc[w] # "s_send" PROVE sendNode.data = <<>> /\ SendInHand = <<>>
  <2>1. \A v \in Workers : wpc[v] # "s_send"
    BY <1>2, OneSender DEF SendPC
  <2> QED
    BY <2>1 DEF Sending, SendInHand
<1>3. CASE SendInit(w)
  <2>1. sendNode.data = <<>> /\ SendInHand = <<>>
    BY <1>2, <1>3 DEF SendInit, Goto, SendPC
  <2>2. sendNode'.data = <<>> /\ UNCHANGED <<send, queuedOut, sent>>
    BY <1>0, <1>3, <2>1 DEF SendInit
  <2>3. SendInHand' = <<>>
    BY <2>2 DEF SendInHand
  <2> QED
    BY <2>1, <2>2, <2>3 DEF Sending, SendFifo
<1>4. CASE SendPop(w)
  <2>1. sendNode.data = <<>> /\ SendInHand = <<>>
    BY <1>2, <1>4 DEF SendPop, Goto, SendPC
  <2>2. wpc'[w] = "s_send" /\ UNCHANGED <<queuedOut, sent>>
    BY <1>0, <1>4 DEF SendPop, Goto
  <2>3. CASE send = <<>>
    <3>1. UNCHANGED <<send, sendNode>>
      BY <1>4, <2>3 DEF SendPop, Send!Get
    <3> QED
      BY <2>1, <2>2, <3>1 DEF Sending, SendFifo, SendInHand
  <2>4. CASE send # <<>>
    <3>1. send' = Tail(send) /\ sendNode' = Head(send)
      BY <1>4, <2>4 DEF SendPop, Send!Get
    <3>2. Head(send) \in FullMsg /\ Tail(send) \in Seq(FullMsg)
      BY <1>0, <2>4, HeadTailProperties
    <3>3. SendInHand' = <<Head(send)>> /\ sendNode'.to \in {"DUER", "UART"}
      BY <3>1, <3>2 DEF SendInHand, FullMsg, SendMsg
    <3>4. SendFifo'
      <4>1. queuedOut = sent \o send
        <5>1. sent \o <<>> = sent
          BY <1>0, ConcatEmptySeq
        <5> QED
          BY <2>1, <5>1 DEF Sending, SendFifo
      <4>2. sent \o send = Append(sent, Head(send)) \o Tail(send)
        BY <1>0, <2>4, MoveHead
      <4>3. Append(sent, Head(send)) = sent \o <<Head(send)>>
        BY <1>0, <3>2, AppendIsConcat
      <4> QED
        BY <2>2, <3>1, <3>3, <4>1, <4>2, <4>3 DEF SendFifo
    <3> QED
      BY <2>2, <3>1, <3>2, <3>3, <3>4 DEF Sending
  <2> QED
    BY <2>3, <2>4
<1>5. CASE SendOut(w)
  <2>1. /\ UNCHANGED <<send, queuedOut>>
        /\ sent' = IF sendNode.to \in {"DUER", "UART"} /\ sendNode.data # <<>>
                   THEN Append(sent, sendNode) ELSE sent
        /\ sendNode' = [sendNode EXCEPT !.data = <<>>]
    BY <1>5 DEF SendOut, Reset
  <2>2. sendNode'.data = <<>> /\ SendInHand' = <<>>
    BY <1>0, <2>1 DEF SendInHand
  <2>3. sent' = sent \o SendInHand /\ sent' \in Seq(SendMsg)
    <3>1. CASE sendNode.data = <<>>
      <4>1. sent \o <<>> = sent
        BY <1>0, ConcatEmptySeq
      <4> QED
        BY <1>0, <2>1, <3>1, <4>1 DEF SendInHand
    <3>2. CASE sendNode.data # <<>>
      <4>1. sendNode.to \in {"DUER", "UART"}
        BY <3>2 DEF Sending
      <4>2. sendNode \in SendMsg
        BY <1>0, <4>1 DEF SendMsg
      <4>3. Append(sent, sendNode) = sent \o <<sendNode>> /\ Append(sent, sendNode) \in Seq(SendMsg)
        BY <1>0, <4>2, AppendIsConcat, AppendProperties
      <4> QED
        BY <2>1, <3>2, <4>1, <4>3 DEF SendInHand
    <3> QED
      BY <3>1, <3>2
  <2>4. SendFifo'
    <3>1. sent' \o <<>> = sent'
      BY <2>3, ConcatEmptySeq
    <3> QED
      BY <2>1, <2>2, <2>3, <3>1 DEF Sending, SendFifo
  <2> QED
    BY <1>0, <2>1, <2>2, <2>4 DEF Sending
<1> QED
  BY <1>1, <1>3, <1>4, <1>5 DEF SendOutHandler

\* Every step keeps the order.
LEMMA StepSending == TypeOK /\ Tokens /\ Sending /\ [Next]_vars => Sending'
<1> SUFFICES ASSUME TypeOK, Tokens, Sending, [Next]_vars PROVE Sending'
  OBVIOUS
<1>0. wpc \in [Workers -> WorkerPC]
  BY DEF TypeOK
<1>1. CASE UNCHANGED vars
  BY <1>1, FrameSending DEF vars
<1>2. CASE UartArrives \/ PipeWritten \/ MainStep
  BY <1>2, FrameSending
     DEF UartArrives, PipeWritten, MainStep, AddJob, Pool!Enqueue, AddJobFails, EpollWait,
         DispatchUart, DispatchPipe
<1>3. ASSUME NEW w \in Workers,
             StartJob(w) \/ ReturnFromJob(w) \/ UartHandler(w) \/ RecvHandler(w)
      PROVE  Sending'
  <2>1. UNCHANGED <<send, sendNode, queuedOut, sent>>
    BY <1>3 DEF StartJob, ReturnFromJob, UartHandler, UartRead, UartReadEnd, UartRearm,
                RecvHandler, PipeRead, RecvInsert, Recv!Put, RecvInsertFails, RecvSignal
  <2>2. \A v \in Workers : wpc[v] = "s_send" => wpc'[v] = "s_send"
    <3>1. CASE StartJob(w) \/ ReturnFromJob(w)
      BY <1>0, <3>1 DEF StartJob, ReturnFromJob
    <3>2. CASE UartHandler(w)
      BY <1>0, <3>2 DEF UartHandler, UartRead, UartReadEnd, UartRearm, Goto
    <3>3. CASE RecvHandler(w)
      BY <1>0, <3>3 DEF RecvHandler, PipeRead, RecvInsert, RecvInsertFails, RecvSignal, Goto,
                        WakeFrom
    <3> QED
      BY <1>3, <3>1, <3>2, <3>3
  <2> QED
    BY <2>1, <2>2, FrameSending
<1>4. ASSUME NEW w \in Workers, InitInsert(w) \/ ParseHandle(w) PROVE Sending'
  <2>1. \A v \in Workers : wpc[v] = "s_send" => wpc'[v] = "s_send"
    BY <1>0, <1>4 DEF InitInsert, ParseHandle, Goto
  <2>2. CASE InitInsert(w)
    <3>1. startCount + 1 \in 1..Len(StartupTo)
      BY <2>2 DEF InitInsert, TypeOK
    <3>2. StartupTo[startCount + 1] \in {"DUER", "UART"} /\ StartupCause(startCount + 1) \in Causes
      BY <3>1, ElementOfSeq DEF Causes
    <3> QED
      BY <2>1, <2>2, <3>2, QueueSending DEF InitInsert, Texts
  <2>3. CASE ParseHandle(w)
    <3>1. Head(recvNode.data) \in Causes
      BY <2>3, HeadTailProperties DEF ParseHandle, Matches, TypeOK, Causes
    <3>2. Reply(recvNode.fd) \in Texts
      BY DEF Reply, Texts
    <3> QED
      BY <2>1, <2>3, <3>1, <3>2, QueueSending DEF ParseHandle
  <2> QED
    BY <1>4, <2>2, <2>3
<1>5. ASSUME NEW w \in Workers,
             \/ InitSignal(w) \/ InitDone(w)
             \/ ProcessInit(w) \/ ProcessTest(w) \/ ProcessSleep(w) \/ ProcessPop(w)
             \/ ParseIgnore(w) \/ ParseSignal(w) \/ SpuriousWakeup(w) \/ NullNode(w)
      PROVE  Sending'
  <2>1. UNCHANGED <<send, sendNode, queuedOut, sent>>
    BY <1>5 DEF InitSignal, InitDone, ProcessInit, ProcessTest, ProcessSleep, ProcessPop,
                Recv!Get, ParseIgnore, ParseSignal, SendSignal, SpuriousWakeup, NullNode
  <2>2. \A v \in Workers : wpc[v] = "s_send" => wpc'[v] = "s_send"
    <3>1. CASE InitSignal(w) \/ ParseSignal(w)
      BY <1>0, <3>1 DEF InitSignal, ParseSignal, SendSignal, WakeFrom
    <3>2. CASE InitDone(w) \/ ProcessInit(w) \/ ProcessTest(w) \/ ProcessSleep(w) \/ ProcessPop(w)
               \/ ParseIgnore(w)
      BY <1>0, <3>2 DEF InitDone, ProcessInit, ProcessTest, ProcessSleep, ProcessPop, ParseIgnore,
                        Goto
    <3>3. CASE SpuriousWakeup(w) \/ NullNode(w)
      BY <1>0, <3>3 DEF SpuriousWakeup, NullNode
    <3> QED
      BY <1>5, <3>1, <3>2, <3>3
  <2> QED
    BY <2>1, <2>2, FrameSending
<1>6. ASSUME NEW w \in Workers, SendOutHandler(w) PROVE Sending'
  BY <1>6, HandlerSending
<1> QED
  BY <1>1, <1>2, <1>3, <1>4, <1>5, <1>6 DEF Next, WorkerStep, InitJob, DataProcess

-----------------------------------------------------------------------------
(***************************************************************************)
(* Where the chunks are.                                                   *)
(***************************************************************************)
\* What a thread at pc holds in its buffer b for G_recv_linklist.
HeldBy(pc, b) == IF pc \in {"u_read", "u_rearm", "r_insert"} THEN b ELSE <<>>
Held == [w \in Workers |-> HeldBy(wpc[w], buf[w])]

\* The bytes of the list's messages.
ListData == [k \in 1..Len(recv) |-> recv[k].data]

\* What data_process has popped and not parsed.
InHand == IF \E w \in Workers : wpc[w] = "d_parse" THEN recvNode.data ELSE <<>>

\* The chunks that have arrived.
Came(x) == (x.fd = "uart" /\ x.n <= ttyCount) \/ (x.fd = "pipe" /\ x.n <= pipeCount)

\* A chunk is somewhere if it has arrived, in one of the seven places, once.
FlowOf(x) ==
    /\ AtMostOnce(x, tty) /\ AtMostOnce(x, pipe) /\ OnceInAll(x, Held) /\ OnceInAll(x, ListData)
    /\ AtMostOnce(x, InHand) /\ AtMostOnce(x, parsed) /\ AtMostOnce(x, lost)
    /\ In(x, tty) => ~(In(x, pipe) \/ InSome(x, Held) \/ InSome(x, ListData)
                           \/ In(x, InHand) \/ In(x, parsed) \/ In(x, lost))
    /\ In(x, pipe) => ~(InSome(x, Held) \/ InSome(x, ListData)
                           \/ In(x, InHand) \/ In(x, parsed) \/ In(x, lost))
    /\ InSome(x, Held) => ~(InSome(x, ListData) \/ In(x, InHand) \/ In(x, parsed) \/ In(x, lost))
    /\ InSome(x, ListData) => ~(In(x, InHand) \/ In(x, parsed) \/ In(x, lost))
    /\ In(x, InHand) => ~(In(x, parsed) \/ In(x, lost))
    /\ In(x, parsed) => ~In(x, lost)
    /\ Came(x) <=> \/ In(x, tty) \/ In(x, pipe) \/ InSome(x, Held) \/ InSome(x, ListData)
                   \/ In(x, InHand) \/ In(x, parsed) \/ In(x, lost)
Flow == \A x \in Chunks : FlowOf(x)

\* Only one thread is in data_process.
LEMMA OneData ==
    ASSUME Tokens, NEW v \in Workers, NEW w \in Workers, wpc[v] \in DataPC, wpc[w] \in DataPC
    PROVE  v = w
<1>1. current[v] = "data_process" /\ current[w] = "data_process"
  BY DEF Tokens, InsideJob
<1>2. v \in Runs("data_process") /\ w \in Runs("data_process")
  BY <1>1 DEF Runs, UartJob
<1>3. "data_process" \in Services
  BY DEF Services
<1> QED
  BY <1>2, <1>3 DEF Tokens, OneAtATime

\* The positions in which a thread holds chunks.
Busy == {"u_read", "u_rearm", "r_insert", "d_parse"}

\* Threads that neither come to hold chunks nor cease to.
LEMMA QuietSame ==
    ASSUME UNCHANGED <<buf, recvNode>>,
           \A v \in Workers : wpc'[v] = wpc[v] \/ (wpc[v] \notin Busy /\ wpc'[v] \notin Busy)
    PROVE  Held' = Held /\ InHand' = InHand
<1>1. \A v \in Workers : HeldBy(wpc'[v], buf'[v]) = HeldBy(wpc[v], buf[v])
  BY DEF HeldBy, Busy
<1>2. (\E w \in Workers : wpc'[w] = "d_parse") <=> (\E w \in Workers : wpc[w] = "d_parse")
  BY DEF Busy
<1>3. Held' = Held
  BY <1>1 DEF Held
<1>4. InHand' = InHand
  BY <1>2 DEF InHand
<1> QED
  BY <1>3, <1>4

\* One thread comes to hold b.
LEMMA HeldMove ==
    ASSUME NEW w \in Workers, NEW b, HeldBy(wpc'[w], buf'[w]) = b,
           \A v \in Workers : v # w => wpc'[v] = wpc[v] /\ buf'[v] = buf[v]
    PROVE  /\ DOMAIN Held = Workers /\ DOMAIN Held' = Workers
           /\ Held'[w] = b /\ \A v \in Workers : v # w => Held'[v] = Held[v]
BY DEF Held

\* Outside d_parse the hands of data_process are empty.
LEMMA HandSame ==
    ASSUME UNCHANGED recvNode,
           \A v \in Workers : wpc'[v] = "d_parse" <=> wpc[v] = "d_parse"
    PROVE  InHand' = InHand
<1>1. (\E w \in Workers : wpc'[w] = "d_parse") <=> (\E w \in Workers : wpc[w] = "d_parse")
  OBVIOUS
<1> QED
  BY <1>1 DEF InHand

NoBytesMove ==
    /\ UNCHANGED <<tty, ttyCount, pipe, pipeCount, recv, parsed, lost>>
    /\ Held' = Held /\ InHand' = InHand

\* The steps that move a chunk.
Transfer(w) ==
    \/ UartRead(w) \/ PipeRead(w) \/ RecvInsert(w) \/ RecvInsertFails(w)
    \/ ProcessPop(w) \/ ParseHandle(w) \/ ParseIgnore(w)

\* All others leave every chunk where it is.
LEMMA Moves ==
    ASSUME TypeOK, Tokens, [Next]_vars
    PROVE  \/ UartArrives \/ PipeWritten
           \/ \E w \in Workers : Transfer(w)
           \/ NoBytesMove
<1>0. /\ wpc \in [Workers -> WorkerPC] /\ buf \in [Workers -> Seq(Chunks)]
      /\ recvNode \in [fd : {"uart", "pipe", "none", "null"}, data : Seq(Chunks)]
  BY DEF TypeOK
<1>1. ASSUME UNCHANGED <<wpc, buf, recvNode, tty, ttyCount, pipe, pipeCount, recv, parsed, lost>>
      PROVE  NoBytesMove
  BY <1>1, QuietSame DEF NoBytesMove
<1>2. CASE UNCHANGED vars
  BY <1>1, <1>2 DEF vars
<1>3. CASE MainStep
  BY <1>1, <1>3 DEF MainStep, AddJob, Pool!Enqueue, AddJobFails, EpollWait, DispatchUart, DispatchPipe
<1>4. ASSUME NEW w \in Workers, StartJob(w) \/ ReturnFromJob(w) PROVE NoBytesMove
  <2>1. PICK pc \in WorkerPC : /\ wpc' = [wpc EXCEPT ![w] = pc] /\ buf' = [buf EXCEPT ![w] = <<>>]
                               /\ pc # "d_parse" /\ wpc[w] \in {"idle", "return"}
                               /\ UNCHANGED <<tty, ttyCount, pipe, pipeCount, recv, recvNode, parsed, lost>>
    <3>1. CASE StartJob(w)
      <4>1. Head(jobs) \in Jobs
        BY <3>1, HeadTailProperties DEF StartJob, Pool!Dequeue, TypeOK
      <4>2. Entry(Head(jobs)) \in WorkerPC /\ Entry(Head(jobs)) # "d_parse"
        BY <4>1 DEF Entry, Jobs, WorkerPC
      <4> QED
        BY <3>1, <4>2 DEF StartJob
    <3>2. CASE ReturnFromJob(w)
      BY <3>2 DEF ReturnFromJob, WorkerPC
    <3> QED
      BY <1>4, <3>1, <3>2
  <2>2. \A v \in Workers : HeldBy(wpc'[v], buf'[v]) = HeldBy(wpc[v], buf[v])
    BY <1>0, <2>1 DEF HeldBy
  <2>3. \A v \in Workers : wpc'[v] = "d_parse" <=> wpc[v] = "d_parse"
    BY <1>0, <2>1
  <2>4. Held' = Held
    BY <2>2 DEF Held
  <2>5. InHand' = InHand
    BY <2>1, <2>3, HandSame
  <2> QED
    BY <2>1, <2>4, <2>5 DEF NoBytesMove
<1>5. ASSUME NEW w \in Workers, UartReadEnd(w) \/ UartRearm(w) PROVE NoBytesMove
  <2>1. \A v \in Workers : HeldBy(wpc'[v], buf'[v]) = HeldBy(wpc[v], buf[v])
    BY <1>0, <1>5 DEF UartReadEnd, UartRearm, Goto, HeldBy
  <2>2. \A v \in Workers : wpc'[v] = "d_parse" <=> wpc[v] = "d_parse"
    BY <1>0, <1>5 DEF UartReadEnd, UartRearm, Goto
  <2>3. Held' = Held
    BY <2>1 DEF Held
  <2>4. UNCHANGED <<tty, ttyCount, pipe, pipeCount, recv, recvNode, parsed, lost>>
    BY <1>5 DEF UartReadEnd, UartRearm
  <2>5. InHand' = InHand
    BY <2>2, <2>4, HandSame
  <2> QED
    BY <2>3, <2>4, <2>5 DEF NoBytesMove
<1>6. ASSUME NEW w \in Workers, RecvSignal(w) \/ InitSignal(w) \/ ParseSignal(w) \/ SpuriousWakeup(w)
      PROVE  NoBytesMove
  <2>1. \A v \in Workers : wpc'[v] = wpc[v] \/ (wpc[v] \notin Busy /\ wpc'[v] \notin Busy)
    BY <1>0, <1>6 DEF RecvSignal, InitSignal, ParseSignal, SendSignal, SpuriousWakeup, WakeFrom, Busy
  <2>2. UNCHANGED <<buf, recvNode, tty, ttyCount, pipe, pipeCount, recv, parsed, lost>>
    BY <1>6 DEF RecvSignal, InitSignal, ParseSignal, SendSignal, SpuriousWakeup
  <2> QED
    BY <2>1, <2>2, QuietSame DEF NoBytesMove
<1>7. ASSUME NEW w \in Workers,
             InitInsert(w) \/ InitDone(w) \/ ProcessTest(w) \/ ProcessSleep(w) \/ SendOutHandler(w)
      PROVE  NoBytesMove
  <2>1. \A v \in Workers : wpc'[v] = wpc[v] \/ (wpc[v] \notin Busy /\ wpc'[v] \notin Busy)
    BY <1>0, <1>7 DEF InitInsert, InitDone, ProcessTest, ProcessSleep, SendOutHandler,
                      SendInit, SendTest, SendSleep, SendPop, SendOut, Goto, Busy
  <2>2. UNCHANGED <<buf, recvNode, tty, ttyCount, pipe, pipeCount, recv, parsed, lost>>
    BY <1>7 DEF InitInsert, InitDone, ProcessTest, ProcessSleep, SendOutHandler,
                SendInit, SendTest, SendSleep, SendPop, SendOut
  <2> QED
    BY <2>1, <2>2, QuietSame DEF NoBytesMove
<1>8. ASSUME NEW w \in Workers, ProcessInit(w) PROVE NoBytesMove
  <2>1. wpc[w] = "d_init" /\ wpc' = [wpc EXCEPT ![w] = "d_top"]
    BY <1>8 DEF ProcessInit, Goto
  <2>2. \A v \in Workers : wpc[v] # "d_parse"
    BY <2>1, OneData DEF DataPC
  <2>3. \A v \in Workers : wpc'[v] # "d_parse"
    BY <1>0, <2>1, <2>2
  <2>4. InHand = <<>> /\ InHand' = <<>>
    BY <2>2, <2>3 DEF InHand
  <2>5. UNCHANGED <<buf, tty, ttyCount, pipe, pipeCount, recv, parsed, lost>>
    BY <1>8 DEF ProcessInit
  <2>6. \A v \in Workers : HeldBy(wpc'[v], buf'[v]) = HeldBy(wpc[v], buf[v])
    BY <1>0, <2>1, <2>5 DEF HeldBy
  <2>7. Held' = Held
    BY <2>6 DEF Held
  <2> QED
    BY <2>4, <2>5, <2>7 DEF NoBytesMove
<1>9. ASSUME NEW w \in Workers, NullNode(w) PROVE NoBytesMove
  BY <1>1, <1>9 DEF NullNode
<1> QED
  BY <1>2, <1>3, <1>4, <1>5, <1>6, <1>7, <1>8, <1>9
     DEF Next, WorkerStep, UartHandler, RecvHandler, InitJob, DataProcess, Transfer

\* What arrives was nowhere before.
LEMMA ArriveFlow ==
    ASSUME TypeOK, NEW x \in Chunks, FlowOf(x), UartArrives \/ PipeWritten
    PROVE  FlowOf(x)'
<1>0. /\ tty \in Seq(Chunks) /\ pipe \in Seq(Chunks)
      /\ ttyCount \in 0..Len(UartTraffic) /\ pipeCount \in 0..Len(PipeTraffic)
  BY DEF TypeOK
<1>1. UNCHANGED <<recv, parsed, lost>> /\ Held' = Held /\ InHand' = InHand
  <2>1. UNCHANGED <<buf, wpc, recvNode, recv, parsed, lost>>
    BY DEF UartArrives, PipeWritten
  <2> QED
    BY <2>1, QuietSame
<1>2. ListData' = ListData
  BY <1>1 DEF ListData
<1>3. CASE UartArrives
  <2> DEFINE e == Chunk("uart", UartTraffic, ttyCount + 1)
  <2>1. ttyCount + 1 \in 1..Len(UartTraffic) /\ ttyCount' = ttyCount + 1
    BY <1>0, <1>3 DEF UartArrives
  <2>2. e \in Chunks
    BY <2>1, ChunkType
  <2>3. x = e <=> x.fd = "uart" /\ x.n = ttyCount + 1
    BY DEF Chunks, Chunk
  <2>4. x.n \in Nat
    BY LenProperties DEF Chunks, Chunk
  <2>5. tty' = Append(tty, e) /\ UNCHANGED <<pipe, pipeCount>>
    BY <1>3 DEF UartArrives
  <2> HIDE DEF e
  <2>6. /\ In(x, tty') <=> In(x, tty) \/ x = e
        /\ AtMostOnce(x, tty') <=> AtMostOnce(x, tty) /\ ~(In(x, tty) /\ x = e)
    BY <1>0, <2>2, <2>5, InAppend
  <2>7. (Came(x)' <=> Came(x) \/ x = e) /\ ~(Came(x) /\ x = e)
    BY <1>0, <2>1, <2>3, <2>4, <2>5 DEF Came
  <2> QED
    BY <1>1, <1>2, <2>5, <2>6, <2>7 DEF FlowOf
<1>4. CASE PipeWritten
  <2> DEFINE e == Chunk("pipe", PipeTraffic, pipeCount + 1)
  <2>1. pipeCount + 1 \in 1..Len(PipeTraffic) /\ pipeCount' = pipeCount + 1
    BY <1>0, <1>4 DEF PipeWritten
  <2>2. e \in Chunks
    BY <2>1, ChunkType
  <2>3. x = e <=> x.fd = "pipe" /\ x.n = pipeCount + 1
    BY DEF Chunks, Chunk
  <2>4. x.n \in Nat
    BY LenProperties DEF Chunks, Chunk
  <2>5. pipe' = Append(pipe, e) /\ UNCHANGED <<tty, ttyCount>>
    BY <1>4 DEF PipeWritten
  <2> HIDE DEF e
  <2>6. /\ In(x, pipe') <=> In(x, pipe) \/ x = e
        /\ AtMostOnce(x, pipe') <=> AtMostOnce(x, pipe) /\ ~(In(x, pipe) /\ x = e)
    BY <1>0, <2>2, <2>5, InAppend
  <2>7. (Came(x)' <=> Came(x) \/ x = e) /\ ~(Came(x) /\ x = e)
    BY <1>0, <2>1, <2>3, <2>4, <2>5 DEF Came
  <2> QED
    BY <1>1, <1>2, <2>5, <2>6, <2>7 DEF FlowOf
<1> QED
  BY <1>3, <1>4

\* A handler that comes to hold b, and holds what it held before no longer.
LEMMA HeldChange ==
    ASSUME NEW x, NEW w \in Workers, NEW b, HeldBy(wpc'[w], buf'[w]) = b,
           \A v \in Workers : v # w => wpc'[v] = wpc[v] /\ buf'[v] = buf[v]
    PROVE  \E r, o \in BOOLEAN :
              /\ InSome(x, Held) <=> In(x, Held[w]) \/ r
              /\ OnceInAll(x, Held) <=> AtMostOnce(x, Held[w]) /\ o /\ ~(In(x, Held[w]) /\ r)
              /\ InSome(x, Held)' <=> In(x, b) \/ r
              /\ OnceInAll(x, Held)' <=> AtMostOnce(x, b) /\ o /\ ~(In(x, b) /\ r)
<1>1. /\ DOMAIN Held = Workers /\ DOMAIN Held' = Workers
      /\ Held'[w] = b /\ \A v \in Workers : v # w => Held'[v] = Held[v]
  BY HeldMove
<1>2. \E r, o \in BOOLEAN :
         /\ InSome(x, Held) <=> In(x, Held[w]) \/ r
         /\ OnceInAll(x, Held) <=> AtMostOnce(x, Held[w]) /\ o /\ ~(In(x, Held[w]) /\ r)
         /\ InSome(x, Held') <=> In(x, Held'[w]) \/ r
         /\ OnceInAll(x, Held') <=> AtMostOnce(x, Held'[w]) /\ o /\ ~(In(x, Held'[w]) /\ r)
  BY <1>1, FamilyChange
<1> QED
  BY <1>1, <1>2

\* whole_read moves what the driver holds behind what it has read, or drops it.
LEMMA ReadFlow ==
    ASSUME TypeOK, NEW x \in Chunks, FlowOf(x), NEW w \in Workers, UartRead(w)
    PROVE  FlowOf(x)'
<1>0. /\ tty \in Seq(Chunks) /\ lost \in Seq(Chunks) /\ buf \in [Workers -> Seq(Chunks)]
      /\ wpc \in [Workers -> WorkerPC]
  BY DEF TypeOK
<1>1. UNCHANGED <<ttyCount, pipe, pipeCount, recv, recvNode, parsed>> /\ tty' = <<>>
  BY DEF UartRead
<1>2. ListData' = ListData /\ (Came(x)' <=> Came(x))
  BY <1>1 DEF ListData, Came
<1>3. ~In(x, tty') /\ AtMostOnce(x, tty')
  BY <1>1, InEmpty
<1>4. wpc[w] = "u_read" /\ \E pc \in {"u_read", "u_rearm"} : wpc' = [wpc EXCEPT ![w] = pc]
  BY DEF UartRead, Goto
<1>5. \A v \in Workers : wpc'[v] = "d_parse" <=> wpc[v] = "d_parse"
  BY <1>0, <1>4
<1>6. InHand' = InHand
  BY <1>1, <1>5, HandSame
<1>7. CASE /\ Goto(w, "u_read", "u_read")
           /\ buf' = [buf EXCEPT ![w] = @ \o tty]
           /\ UNCHANGED lost
  <2> DEFINE b == buf[w] \o tty
  <2>1. HeldBy(wpc'[w], buf'[w]) = b /\ Held[w] = buf[w]
    BY <1>0, <1>7 DEF Goto, HeldBy, Held
  <2>2. \A v \in Workers : v # w => wpc'[v] = wpc[v] /\ buf'[v] = buf[v]
    BY <1>0, <1>7 DEF Goto
  <2>3. /\ In(x, b) <=> In(x, buf[w]) \/ In(x, tty)
        /\ AtMostOnce(x, b) <=> /\ AtMostOnce(x, buf[w]) /\ AtMostOnce(x, tty)
                                /\ ~(In(x, buf[w]) /\ In(x, tty))
    BY <1>0, InConcat
  <2> HIDE DEF b
  <2>4. PICK r, o \in BOOLEAN :
          /\ InSome(x, Held) <=> In(x, Held[w]) \/ r
          /\ OnceInAll(x, Held) <=> AtMostOnce(x, Held[w]) /\ o /\ ~(In(x, Held[w]) /\ r)
          /\ InSome(x, Held)' <=> In(x, b) \/ r
          /\ OnceInAll(x, Held)' <=> AtMostOnce(x, b) /\ o /\ ~(In(x, b) /\ r)
    BY <2>1, <2>2, HeldChange
  <2>5. /\ InSome(x, Held)' <=> InSome(x, Held) \/ In(x, tty)
        /\ OnceInAll(x, Held)' <=> /\ OnceInAll(x, Held) /\ AtMostOnce(x, tty)
                                   /\ ~(InSome(x, Held) /\ In(x, tty))
    BY <2>1, <2>3, <2>4
  <2> QED
    BY <1>1, <1>2, <1>3, <1>6, <1>7, <2>5 DEF FlowOf
<1>8. CASE /\ Goto(w, "u_read", "u_rearm")
           /\ lost' = lost \o tty
           /\ UNCHANGED buf
  <2>1. \A v \in Workers : HeldBy(wpc'[v], buf'[v]) = HeldBy(wpc[v], buf[v])
    BY <1>0, <1>8 DEF Goto, HeldBy
  <2>2. Held' = Held
    BY <2>1 DEF Held
  <2>3. /\ In(x, lost') <=> In(x, lost) \/ In(x, tty)
        /\ AtMostOnce(x, lost') <=> /\ AtMostOnce(x, lost) /\ AtMostOnce(x, tty)
                                    /\ ~(In(x, lost) /\ In(x, tty))
    BY <1>0, <1>8, InConcat
  <2> QED
    BY <1>1, <1>2, <1>3, <1>6, <2>2, <2>3 DEF FlowOf
<1> QED
  BY <1>7, <1>8 DEF UartRead

\* pipe_connect_handler cuts what it reads off the beginning of the pipe.
LEMMA PipeFlow ==
    ASSUME TypeOK, NEW x \in Chunks, FlowOf(x), NEW w \in Workers, PipeRead(w)
    PROVE  FlowOf(x)'
<1>0. pipe \in Seq(Chunks) /\ buf \in [Workers -> Seq(Chunks)] /\ wpc \in [Workers -> WorkerPC]
  BY DEF TypeOK
<1>1. UNCHANGED <<tty, ttyCount, pipeCount, recv, recvNode, parsed, lost>>
  BY DEF PipeRead
<1>2. ListData' = ListData /\ (Came(x)' <=> Came(x))
  BY <1>1 DEF ListData, Came
<1> DEFINE n == ReadSize(pipe)
           b == SubSeq(pipe, 1, n)
           rest == SubSeq(pipe, n + 1, Len(pipe))
<1>3. n \in 0..Len(pipe) /\ (pipe = <<>> => n = 0)
  BY <1>0, LenProperties, EmptySeq DEF ReadSize
<1>4. /\ wpc[w] = "p_read" /\ wpc' = [wpc EXCEPT ![w] = IF pipe = <<>> THEN "return" ELSE "r_insert"]
      /\ buf' = [buf EXCEPT ![w] = b] /\ pipe' = rest
  BY DEF PipeRead, Goto
<1> HIDE DEF n
<1>5. /\ b \in Seq(Chunks) /\ rest \in Seq(Chunks)
      /\ In(x, pipe) <=> In(x, b) \/ In(x, rest)
      /\ AtMostOnce(x, pipe) <=> AtMostOnce(x, b) /\ AtMostOnce(x, rest) /\ ~(In(x, b) /\ In(x, rest))
  BY <1>0, <1>3, InCut
<1>6. pipe = <<>> => b = <<>>
  <2>1. Len(b) = n
    BY <1>0, <1>3, CutJoins
  <2> QED
    BY <1>3, <1>5, <2>1, EmptySeq
<1> HIDE DEF b, rest
<1>7. HeldBy(wpc'[w], buf'[w]) = b /\ Held[w] = <<>>
  BY <1>0, <1>4, <1>6 DEF HeldBy, Held
<1>8. \A v \in Workers : v # w => wpc'[v] = wpc[v] /\ buf'[v] = buf[v]
  BY <1>0, <1>4
<1>9. PICK r, o \in BOOLEAN :
        /\ InSome(x, Held) <=> In(x, Held[w]) \/ r
        /\ OnceInAll(x, Held) <=> AtMostOnce(x, Held[w]) /\ o /\ ~(In(x, Held[w]) /\ r)
        /\ InSome(x, Held)' <=> In(x, b) \/ r
        /\ OnceInAll(x, Held)' <=> AtMostOnce(x, b) /\ o /\ ~(In(x, b) /\ r)
  BY <1>7, <1>8, HeldChange
<1>10. /\ InSome(x, Held)' <=> InSome(x, Held) \/ In(x, b)
       /\ OnceInAll(x, Held)' <=> OnceInAll(x, Held) /\ AtMostOnce(x, b) /\ ~(InSome(x, Held) /\ In(x, b))
  BY <1>7, <1>9, InEmpty
<1>11. \A v \in Workers : wpc'[v] = "d_parse" <=> wpc[v] = "d_parse"
  BY <1>0, <1>4
<1>12. InHand' = InHand
  BY <1>1, <1>11, HandSame
<1>13. /\ In(x, pipe) <=> In(x, b) \/ In(x, pipe')
       /\ AtMostOnce(x, pipe) <=> AtMostOnce(x, b) /\ AtMostOnce(x, pipe') /\ ~(In(x, b) /\ In(x, pipe'))
  BY <1>4, <1>5
<1> QED
  BY <1>1, <1>2, <1>10, <1>12, <1>13 DEF FlowOf

\* A handler that lets go of its buffer.
LEMMA LetGo ==
    ASSUME TypeOK, NEW x, NEW w \in Workers, wpc[w] = "r_insert", UNCHANGED <<buf, recvNode>>,
           NEW pc \in {"r_signal", "return"}, wpc' = [wpc EXCEPT ![w] = pc]
    PROVE  /\ InHand' = InHand
           /\ InSome(x, Held) <=> InSome(x, Held)' \/ In(x, buf[w])
           /\ OnceInAll(x, Held) <=> /\ OnceInAll(x, Held)' /\ AtMostOnce(x, buf[w])
                                     /\ ~(InSome(x, Held)' /\ In(x, buf[w]))
<1>0. wpc \in [Workers -> WorkerPC]
  BY DEF TypeOK
<1>1. HeldBy(wpc'[w], buf'[w]) = <<>> /\ Held[w] = buf[w]
  BY <1>0 DEF HeldBy, Held
<1>2. \A v \in Workers : v # w => wpc'[v] = wpc[v] /\ buf'[v] = buf[v]
  BY <1>0
<1>3. \A v \in Workers : wpc'[v] = "d_parse" <=> wpc[v] = "d_parse"
  BY <1>0
<1>4. InHand' = InHand
  BY <1>3, HandSame
<1> DEFINE none == <<>>
<1>5. HeldBy(wpc'[w], buf'[w]) = none /\ ~In(x, none) /\ AtMostOnce(x, none)
  BY <1>1, InEmpty
<1> HIDE DEF none
<1>6. PICK r, o \in BOOLEAN :
        /\ InSome(x, Held) <=> In(x, Held[w]) \/ r
        /\ OnceInAll(x, Held) <=> AtMostOnce(x, Held[w]) /\ o /\ ~(In(x, Held[w]) /\ r)
        /\ InSome(x, Held)' <=> In(x, none) \/ r
        /\ OnceInAll(x, Held)' <=> AtMostOnce(x, none) /\ o /\ ~(In(x, none) /\ r)
  BY <1>2, <1>5, HeldChange
<1> QED
  BY <1>1, <1>4, <1>5, <1>6

\* An insertion moves a handler's buffer to the list.
LEMMA InsertFlow ==
    ASSUME TypeOK, NEW x \in Chunks, FlowOf(x), NEW w \in Workers, RecvInsert(w)
    PROVE  FlowOf(x)'
<1>0. recv \in Seq(RecvMsg) /\ buf \in [Workers -> Seq(Chunks)]
  BY DEF TypeOK
<1>1. /\ UNCHANGED <<tty, ttyCount, pipe, pipeCount, parsed, lost, buf, recvNode>>
      /\ wpc[w] = "r_insert" /\ wpc' = [wpc EXCEPT ![w] = "r_signal"]
  BY DEF RecvInsert, Recv!Put, Goto
<1> DEFINE n == Len(recv)
           m == [fd |-> Head(buf[w]).fd, data |-> buf[w]]
<1>2. m.data = buf[w] /\ recv' = Append(recv, m)
  BY DEF RecvInsert, Recv!Put
<1> HIDE DEF m
<1>3. n \in Nat /\ Len(recv') = n + 1 /\ recv'[n + 1] = m /\ \A k \in 1..n : recv'[k] = recv[k]
  BY <1>0, <1>2, LenProperties
<1> HIDE DEF n
<1>4. DOMAIN ListData = 1..n /\ \A k \in 1..n : ListData[k] = recv[k].data
  BY <1>3 DEF ListData, n
<1>5. DOMAIN ListData' = 1..n + 1 /\ \A k \in 1..n + 1 : ListData'[k] = recv'[k].data
  BY <1>3 DEF ListData
<1>6. n + 1 \in 1..n + 1 /\ \A k \in 1..n : k \in 1..n + 1
  BY <1>3
<1>7. ListData'[n + 1] = buf[w] /\ \A k \in 1..n : ListData'[k] = ListData[k]
  BY <1>2, <1>3, <1>4, <1>5, <1>6
<1>8. /\ InSome(x, ListData') <=> InSome(x, ListData) \/ In(x, ListData'[n + 1])
      /\ OnceInAll(x, ListData') <=> /\ OnceInAll(x, ListData) /\ AtMostOnce(x, ListData'[n + 1])
                                     /\ ~(InSome(x, ListData) /\ In(x, ListData'[n + 1]))
  BY <1>3, <1>4, <1>5, <1>7, FamilyAppend
<1>9. /\ InSome(x, ListData)' <=> InSome(x, ListData) \/ In(x, buf[w])
      /\ OnceInAll(x, ListData)' <=> /\ OnceInAll(x, ListData) /\ AtMostOnce(x, buf[w])
                                     /\ ~(InSome(x, ListData) /\ In(x, buf[w]))
  BY <1>7, <1>8
<1>10. /\ InHand' = InHand
       /\ InSome(x, Held) <=> InSome(x, Held)' \/ In(x, buf[w])
       /\ OnceInAll(x, Held) <=> /\ OnceInAll(x, Held)' /\ AtMostOnce(x, buf[w])
                                 /\ ~(InSome(x, Held)' /\ In(x, buf[w]))
  BY <1>1, LetGo
<1>11. Came(x)' <=> Came(x)
  BY <1>1 DEF Came
<1> QED
  BY <1>1, <1>9, <1>10, <1>11 DEF FlowOf

\* Without memory for a node a handler's buffer is thrown away.
LEMMA LossFlow ==
    ASSUME TypeOK, NEW x \in Chunks, FlowOf(x), NEW w \in Workers, RecvInsertFails(w)
    PROVE  FlowOf(x)'
<1>1. /\ UNCHANGED <<tty, ttyCount, pipe, pipeCount, recv, parsed, buf, recvNode>>
      /\ wpc[w] = "r_insert" /\ wpc' = [wpc EXCEPT ![w] = "return"]
  BY DEF RecvInsertFails, Goto
<1>2. lost' = lost \o buf[w] /\ lost \in Seq(Chunks) /\ buf[w] \in Seq(Chunks)
  BY DEF RecvInsertFails, TypeOK
<1>3. /\ In(x, lost') <=> In(x, lost) \/ In(x, buf[w])
      /\ AtMostOnce(x, lost') <=> /\ AtMostOnce(x, lost) /\ AtMostOnce(x, buf[w])
                                  /\ ~(In(x, lost) /\ In(x, buf[w]))
  BY <1>2, InConcat
<1>4. /\ InHand' = InHand
      /\ InSome(x, Held) <=> InSome(x, Held)' \/ In(x, buf[w])
      /\ OnceInAll(x, Held) <=> /\ OnceInAll(x, Held)' /\ AtMostOnce(x, buf[w])
                                /\ ~(InSome(x, Held)' /\ In(x, buf[w]))
  BY <1>1, LetGo
<1>5. ListData' = ListData /\ (Came(x)' <=> Came(x))
  BY <1>1 DEF ListData, Came
<1> QED
  BY <1>1, <1>3, <1>4, <1>5 DEF FlowOf

\* singlelinklist_pop_node moves the first message to data_process, whose node
\* holds nothing any more; from an empty list nothing comes.
LEMMA PopFlow ==
    ASSUME TypeOK, Tokens, NEW x \in Chunks, FlowOf(x), NEW w \in Workers, ProcessPop(w)
    PROVE  FlowOf(x)'
<1>0. /\ wpc \in [Workers -> WorkerPC] /\ recv \in Seq(RecvMsg)
      /\ recvNode \in [fd : {"uart", "pipe", "none", "null"}, data : Seq(Chunks)]
  BY DEF TypeOK
<1>1. /\ UNCHANGED <<tty, ttyCount, pipe, pipeCount, parsed, lost, buf>>
      /\ wpc[w] = "d_pop" /\ wpc' = [wpc EXCEPT ![w] = "d_parse"]
  BY DEF ProcessPop, Goto
<1>2. \A v \in Workers : HeldBy(wpc'[v], buf'[v]) = HeldBy(wpc[v], buf[v])
  BY <1>0, <1>1 DEF HeldBy
<1>3. Held' = Held
  BY <1>2 DEF Held
<1>4. InHand = <<>> /\ InHand' = recvNode'.data
  <2>1. \A v \in Workers : wpc[v] # "d_parse"
    BY <1>1, OneData DEF DataPC
  <2>2. wpc'[w] = "d_parse"
    BY <1>0, <1>1
  <2> QED
    BY <2>1, <2>2 DEF InHand
<1>5. Came(x)' <=> Came(x)
  BY <1>1 DEF Came
<1>6. CASE recv = <<>>
  <2>1. recv' = recv /\ recvNode'.data = <<>>
    BY <1>0, <1>6 DEF ProcessPop, Recv!Get, Zeroed
  <2>2. ListData' = ListData /\ InHand' = InHand
    BY <1>4, <2>1 DEF ListData
  <2> QED
    BY <1>1, <1>3, <1>5, <2>2 DEF FlowOf
<1>7. CASE recv # <<>>
  <2> DEFINE n == Len(recv) - 1
  <2>1. recv' = Tail(recv) /\ recvNode' = Head(recv)
    BY <1>7 DEF ProcessPop, Recv!Get
  <2>2. /\ n \in Nat /\ Len(recv) = n + 1 /\ Len(recv') = n /\ Head(recv) = recv[1]
        /\ \A k \in 1..n : recv'[k] = recv[k + 1]
    <3>1. Len(recv) \in Nat /\ Len(recv) # 0
      BY <1>0, <1>7, LenProperties, EmptySeq
    <3> QED
      BY <1>0, <1>7, <2>1, <3>1, HeadTailProperties
  <2> HIDE DEF n
  <2>3. DOMAIN ListData = 1..n + 1 /\ \A k \in 1..n + 1 : ListData[k] = recv[k].data
    BY <2>2 DEF ListData
  <2>4. DOMAIN ListData' = 1..n /\ \A k \in 1..n : ListData'[k] = recv'[k].data
    BY <2>2 DEF ListData
  <2>5. 1 \in 1..n + 1 /\ \A k \in 1..n : k + 1 \in 1..n + 1
    BY <2>2
  <2>6. ListData[1] = recvNode'.data /\ \A k \in 1..n : ListData'[k] = ListData[k + 1]
    BY <2>1, <2>2, <2>3, <2>4, <2>5, SMTT(30)
  <2>7. /\ InSome(x, ListData) <=> InSome(x, ListData') \/ In(x, ListData[1])
        /\ OnceInAll(x, ListData) <=> /\ OnceInAll(x, ListData') /\ AtMostOnce(x, ListData[1])
                                      /\ ~(InSome(x, ListData') /\ In(x, ListData[1]))
    <3> DEFINE F == ListData
               G == ListData'
    <3>1. DOMAIN F = 1..n + 1 /\ DOMAIN G = 1..n /\ \A k \in 1..n : G[k] = F[k + 1]
      BY <2>3, <2>4, <2>6
    <3> HIDE DEF F, G
    <3>2. /\ InSome(x, F) <=> InSome(x, G) \/ In(x, F[1])
          /\ OnceInAll(x, F) <=> /\ OnceInAll(x, G) /\ AtMostOnce(x, F[1])
                                 /\ ~(InSome(x, G) /\ In(x, F[1]))
      BY ONLY <2>2, <3>1, FamilyTail
    <3> QED
      BY <3>2 DEF F, G
  <2>8. /\ InSome(x, ListData) <=> InSome(x, ListData)' \/ In(x, InHand')
        /\ OnceInAll(x, ListData) <=> /\ OnceInAll(x, ListData)' /\ AtMostOnce(x, InHand')
                                      /\ ~(InSome(x, ListData)' /\ In(x, InHand'))
    BY <1>4, <2>6, <2>7
  <2>9. ~In(x, InHand) /\ AtMostOnce(x, InHand)
    BY <1>4, InEmpty
  <2> QED
    BY <1>1, <1>3, <1>5, <2>8, <2>9 DEF FlowOf
<1> QED
  BY <1>6, <1>7

\* data_parse is given what data_process holds, once.
LEMMA ParseFlow ==
    ASSUME TypeOK, Tokens, NEW x \in Chunks, FlowOf(x), NEW w \in Workers,
           ParseHandle(w) \/ ParseIgnore(w)
    PROVE  FlowOf(x)'
<1>0. /\ wpc \in [Workers -> WorkerPC] /\ parsed \in Seq(Chunks) /\ recvNode.data \in Seq(Chunks)
  BY DEF TypeOK
<1>1. /\ UNCHANGED <<tty, ttyCount, pipe, pipeCount, recv, lost, buf>>
      /\ wpc[w] = "d_parse" /\ \E pc \in {"d_signal", "d_top"} : wpc' = [wpc EXCEPT ![w] = pc]
      /\ parsed' = parsed \o recvNode.data
  BY DEF ParseHandle, ParseIgnore, SendInsert, Goto
<1>2. \A v \in Workers : HeldBy(wpc'[v], buf'[v]) = HeldBy(wpc[v], buf[v])
  BY <1>0, <1>1 DEF HeldBy
<1>3. Held' = Held
  BY <1>2 DEF Held
<1>4. InHand = recvNode.data /\ InHand' = <<>>
  <2>1. \A v \in Workers : v # w => wpc[v] # "d_parse"
    BY <1>1, OneData DEF DataPC
  <2>2. \A v \in Workers : wpc'[v] # "d_parse"
    BY <1>0, <1>1, <2>1
  <2> QED
    BY <1>1, <2>2 DEF InHand
<1>5. ~In(x, InHand') /\ AtMostOnce(x, InHand')
  BY <1>4, InEmpty
<1>6. /\ In(x, parsed') <=> In(x, parsed) \/ In(x, InHand)
      /\ AtMostOnce(x, parsed') <=> /\ AtMostOnce(x, parsed) /\ AtMostOnce(x, InHand)
                                    /\ ~(In(x, parsed) /\ In(x, InHand))
  <2>1. /\ In(x, parsed') <=> In(x, parsed) \/ In(x, recvNode.data)
        /\ AtMostOnce(x, parsed') <=> /\ AtMostOnce(x, parsed) /\ AtMostOnce(x, recvNode.data)
                                      /\ ~(In(x, parsed) /\ In(x, recvNode.data))
    BY <1>0, <1>1, InConcat
  <2> QED
    BY <1>4, <2>1
<1>7. ListData' = ListData /\ (Came(x)' <=> Came(x))
  BY <1>1 DEF ListData, Came
<1> QED
  BY <1>1, <1>3, <1>5, <1>6, <1>7 DEF FlowOf

\* Before anything arrives no chunk is anywhere.
LEMMA InitFlow == Init => Flow
<1> SUFFICES ASSUME Init, NEW x \in Chunks PROVE FlowOf(x)
  BY DEF Flow
<1>1. /\ ~In(x, tty) /\ AtMostOnce(x, tty) /\ ~In(x, pipe) /\ AtMostOnce(x, pipe)
      /\ ~In(x, parsed) /\ AtMostOnce(x, parsed) /\ ~In(x, lost) /\ AtMostOnce(x, lost)
  BY InEmpty DEF Init
<1>2. ~InSome(x, Held) /\ OnceInAll(x, Held)
  <2>1. DOMAIN Held = Workers /\ \A w \in Workers : Held[w] = <<>>
    BY DEF Init, Held, HeldBy
  <2> QED
    BY <2>1, InEmpty DEF InSome, OnceInAll
<1>3. ~InSome(x, ListData) /\ OnceInAll(x, ListData)
  <2>1. Len(recv) = 0 /\ DOMAIN ListData = 1..Len(recv)
    BY DEF Init, ListData
  <2> QED
    BY <2>1 DEF InSome, OnceInAll
<1>4. ~In(x, InHand) /\ AtMostOnce(x, InHand)
  <2>1. InHand = <<>>
    BY DEF Init, InHand
  <2> QED
    BY <2>1, InEmpty
<1>5. ~Came(x)
  <2>1. x.n \in 1..Len(UartTraffic) \/ x.n \in 1..Len(PipeTraffic)
    BY DEF Chunks, Chunk
  <2> QED
    BY <2>1, LenProperties DEF Init, Came
<1> QED
  BY <1>1, <1>2, <1>3, <1>4, <1>5 DEF FlowOf

\* Every step keeps each chunk in its place or moves it to the next.
LEMMA StepFlow == TypeOK /\ Tokens /\ Flow /\ [Next]_vars => Flow'
<1> SUFFICES ASSUME TypeOK, Tokens, Flow, [Next]_vars, NEW x \in Chunks
             PROVE  FlowOf(x)'
  BY DEF Flow
<1>1. FlowOf(x)
  BY DEF Flow
<1>2. CASE NoBytesMove
  <2>1. ListData' = ListData /\ (Came(x)' <=> Came(x))
    BY <1>2 DEF NoBytesMove, ListData, Came
  <2> QED
    BY <1>1, <1>2, <2>1 DEF FlowOf, NoBytesMove
<1>3. ASSUME NEW w \in Workers, Transfer(w) PROVE FlowOf(x)'
  BY <1>1, <1>3, ReadFlow, PipeFlow, InsertFlow, LossFlow, PopFlow, ParseFlow DEF Transfer
<1> QED
  BY <1>1, <1>2, <1>3, Moves, ArriveFlow

-----------------------------------------------------------------------------
(***************************************************************************)
(* The invariant, and what follows from it.                                *)
(***************************************************************************)
IInv == TypeOK /\ Tokens /\ Buffers /\ Sending /\ Flow

\* The invariant holds before the main thread starts.
LEMMA InitIInv == Init => IInv
BY InitType, InitTokens, InitBuffers, InitSending, InitFlow DEF IInv

\* Every step of the daemon keeps the invariant.
LEMMA StepIInv == IInv /\ [Next]_vars => IInv'
<1> SUFFICES ASSUME TypeOK, Tokens, Buffers, [Next]_vars PROVE TypeOK' /\ Tokens'
  BY StepBuffers, StepSending, StepFlow DEF IInv
<1>1. HasRead
  BY DEF HasRead, Buffers, BufferOK
<1>2. TypeOK'
  <2>1. CASE UNCHANGED vars
    BY <2>1 DEF TypeOK, vars
  <2>2. CASE UartArrives \/ PipeWritten \/ MainStep
    BY <2>2, MainType
  <2>3. ASSUME NEW w \in Workers, WorkerStep(w) \/ SpuriousWakeup(w) \/ NullNode(w) PROVE TypeOK'
    BY <1>1, <2>3, WorkerType
  <2> QED
    BY <2>1, <2>2, <2>3 DEF Next
<1>3. Tokens'
  <2>1. CASE UNCHANGED vars
    BY <2>1 DEF Tokens, OneAtATime, Listening, InsideJob, Runs, vars
  <2>2. CASE UartArrives \/ PipeWritten \/ MainStep \/ \E w \in Workers : StartJob(w) \/ ReturnFromJob(w)
    BY <2>2, StepTokens
  <2>3. ASSUME NEW w \in Workers, InnerStep(w) PROVE Tokens'
    BY <2>3, InnerTokens
  <2> QED
    BY <2>1, <2>2, <2>3 DEF Next, WorkerStep, InnerStep
<1> QED
  BY <1>2, <1>3

\* The invariant holds in every state the daemon reaches.
LEMMA Invariant == Spec => []IInv
BY InitIInv, StepIInv, PTL DEF Spec

(***************************************************************************)
(* Every variable keeps to its values; the pool's queue keeps within       *)
(* queue_max_num.                                                          *)
(***************************************************************************)
THEOREM TypeCorrect == Spec => []TypeOK
BY Invariant, PTL DEF IInv

(***************************************************************************)
(* The serial port is read by one thread at a time, and by none while      *)
(* epoll watches it (uart_start.c takes the port out of epoll before it    *)
(* submits uart_connect_handler, which puts it back after whole_read).     *)
(***************************************************************************)
THEOREM SingleUartReaderAlways == Spec => []SingleUartReader
<1>1. Tokens => SingleUartReader
  <2> SUFFICES ASSUME Tokens PROVE SingleUartReader
    OBVIOUS
  <2>1. \A w \in Workers : Reading(w) <=> w \in Runs(UartJob)
    BY DEF Reading, Runs, UartPC
  <2>2. UartJob \in Services
    BY DEF Services
  <2> QED
    BY <2>1, <2>2 DEF Tokens, OneAtATime, Listening, SingleUartReader
<1> QED
  BY <1>1, Invariant, PTL DEF IInv

(***************************************************************************)
(* Every message on G_recv_linklist fits the node it is popped into, and   *)
(* one from the serial port leaves room for the terminating zero.          *)
(***************************************************************************)
THEOREM RecvFitsAlways == Spec => []RecvFits
<1>1. Buffers => RecvFits
  <2> SUFFICES ASSUME Buffers PROVE RecvFits
    OBVIOUS
  <2>1. \A w \in Workers : Len(buf[w]) <= BufLen
    BY DEF Buffers, BufferOK
  <2>2. \A i \in 1..Len(recv) : recv[i] \in FittingMsg
    BY ElementOfSeq DEF Buffers
  <2>3. DOMAIN recv = 1..Len(recv)
    BY LenProperties DEF Buffers
  <2> QED
    BY <2>1, <2>2, <2>3 DEF RecvFits, FittingMsg
<1> QED
  BY <1>1, Invariant, PTL DEF IInv

(***************************************************************************)
(* What ready_send_data has queued is what send_out_handler has sent, then *)
(* what it holds, then G_send_linklist: nothing is overtaken, left out or  *)
(* sent again, also when a wakeup finds the list empty.                    *)
(***************************************************************************)
THEOREM SendFifoAlways == Spec => []SendFifo
BY Invariant, PTL DEF IInv, Sending

\* The positions of x in a sequence, labelled with where the sequence is kept.
LEMMA PositionsAre ==
    ASSUME NEW S, NEW s \in Seq(S), NEW t, NEW x, NEW y
    PROVE  y \in {t} \X Positions(s, x) <=> At(y, t, s, x)
<1>1. DOMAIN s = 1..Len(s)
  OBVIOUS
<1> QED
  BY <1>1 DEF Positions, At

\* Where a thread holds nothing no chunk has a place.
LEMMA NotAt == \A y, t, x : ~At(y, t, <<>>, x)
BY DEF At

\* The places of a chunk, one kind after the other.
LEMMA PlacesAre ==
    ASSUME TypeOK, NEW x, NEW y
    PROVE  y \in Places(x) <=>
              \/ At(y, "descriptor", tty \o pipe, x)
              \/ \E w \in Workers : At(y, <<"handler", w>>, Held[w], x)
              \/ \E k \in 1..Len(recv) : At(y, <<"list", k>>, recv[k].data, x)
              \/ At(y, "data_process", InHand, x)
              \/ At(y, "parsed", parsed, x)
              \/ At(y, "lost", lost, x)
<1> DEFINE Handlers == {v \in Workers : wpc[v] \in {"u_read", "u_rearm", "r_insert"}}
           Parsing == {v \in Workers : wpc[v] = "d_parse"}
<1>0. /\ tty \o pipe \in Seq(Chunks) /\ parsed \in Seq(Chunks) /\ lost \in Seq(Chunks)
      /\ buf \in [Workers -> Seq(Chunks)] /\ recvNode.data \in Seq(Chunks)
      /\ DOMAIN recv = 1..Len(recv) /\ \A k \in 1..Len(recv) : recv[k] \in RecvMsg
  BY ConcatProperties, ElementOfSeq, SMTT(30) DEF TypeOK
<1>1. y \in Places(x) <=>
         \/ y \in {"descriptor"} \X Positions(tty \o pipe, x)
         \/ \E w \in Handlers : y \in {<<"handler", w>>} \X Positions(buf[w], x)
         \/ \E k \in DOMAIN recv : y \in {<<"list", k>>} \X Positions(recv[k].data, x)
         \/ \E w \in Parsing : y \in {"data_process"} \X Positions(recvNode.data, x)
         \/ y \in {"parsed"} \X Positions(parsed, x)
         \/ y \in {"lost"} \X Positions(lost, x)
  BY ZenonT(40) DEF Places
<1>2. /\ y \in {"descriptor"} \X Positions(tty \o pipe, x) <=> At(y, "descriptor", tty \o pipe, x)
      /\ y \in {"parsed"} \X Positions(parsed, x) <=> At(y, "parsed", parsed, x)
      /\ y \in {"lost"} \X Positions(lost, x) <=> At(y, "lost", lost, x)
      /\ y \in {"data_process"} \X Positions(recvNode.data, x) <=> At(y, "data_process", recvNode.data, x)
  BY <1>0, PositionsAre
<1>3. (\E w \in Handlers : y \in {<<"handler", w>>} \X Positions(buf[w], x))
         <=> \E w \in Workers : At(y, <<"handler", w>>, Held[w], x)
  <2>1. ASSUME NEW w \in Workers
        PROVE  y \in {<<"handler", w>>} \X Positions(buf[w], x) <=> At(y, <<"handler", w>>, buf[w], x)
    <3>1. buf[w] \in Seq(Chunks)
      BY <1>0
    <3> QED
      BY <3>1, PositionsAre
  <2>2. \A w \in Handlers : w \in Workers /\ Held[w] = buf[w]
    BY DEF Held, HeldBy
  <2>3. \A w \in Workers : w \notin Handlers => Held[w] = <<>>
    BY DEF Held, HeldBy
  <2> HIDE DEF Handlers
  <2>4. ASSUME NEW w \in Handlers, y \in {<<"handler", w>>} \X Positions(buf[w], x)
        PROVE  w \in Workers /\ At(y, <<"handler", w>>, Held[w], x)
    <3>1. w \in Workers /\ Held[w] = buf[w]
      BY <2>2
    <3> QED
      BY <2>1, <2>4, <3>1
  <2>5. ASSUME NEW w \in Workers, At(y, <<"handler", w>>, Held[w], x)
        PROVE  w \in Handlers /\ y \in {<<"handler", w>>} \X Positions(buf[w], x)
    <3>1. w \in Handlers
      BY <2>3, <2>5, NotAt
    <3>2. At(y, <<"handler", w>>, buf[w], x)
      BY <2>2, <2>5, <3>1
    <3> QED
      BY <2>1, <3>1, <3>2
  <2> QED
    BY <2>4, <2>5
<1>4. ASSUME NEW k \in 1..Len(recv)
      PROVE  y \in {<<"list", k>>} \X Positions(recv[k].data, x) <=> At(y, <<"list", k>>, recv[k].data, x)
  <2>1. recv[k].data \in Seq(Chunks)
    BY <1>0 DEF RecvMsg
  <2> QED
    BY <2>1, PositionsAre
<1>5. (\E w \in Parsing : At(y, "data_process", recvNode.data, x)) <=> At(y, "data_process", InHand, x)
  <2>1. CASE Parsing = {}
    <3>1. InHand = <<>>
      BY <2>1 DEF InHand
    <3> QED
      BY <2>1, <3>1, NotAt
  <2>2. CASE Parsing # {}
    <3>1. InHand = recvNode.data
      BY <2>2 DEF InHand
    <3> QED
      BY <2>2, <3>1
  <2> QED
    BY <2>1, <2>2
<1> HIDE DEF Handlers, Parsing
<1> QED
  BY <1>0, <1>1, <1>2, <1>3, <1>4, <1>5

\* What has arrived has a place, and only one.
LEMMA OnePlace ==
    ASSUME TypeOK, NEW x \in Chunks, FlowOf(x), Came(x)
    PROVE  \E p : Places(x) = {p}
<1>1. /\ DOMAIN Held = Workers
      /\ DOMAIN ListData = 1..Len(recv) /\ \A k \in 1..Len(recv) : ListData[k] = recv[k].data
  BY DEF TypeOK, ListData, Held
<1> DEFINE kernel == tty \o pipe
           AtKernel(y) == At(y, "descriptor", kernel, x)
           AtHandler(y) == \E w \in Workers : At(y, <<"handler", w>>, Held[w], x)
           OnList(y) == \E k \in 1..Len(recv) : At(y, <<"list", k>>, recv[k].data, x)
           AtParser(y) == At(y, "data_process", InHand, x)
           IsParsed(y) == At(y, "parsed", parsed, x)
           IsLost(y) == At(y, "lost", lost, x)
<1>2. \A y : y \in Places(x) <=> \/ AtKernel(y) \/ AtHandler(y) \/ OnList(y)
                                 \/ AtParser(y) \/ IsParsed(y) \/ IsLost(y)
  BY PlacesAre
<1>3. /\ In(x, kernel) <=> In(x, tty) \/ In(x, pipe)
      /\ AtMostOnce(x, kernel) <=> AtMostOnce(x, tty) /\ AtMostOnce(x, pipe) /\ ~(In(x, tty) /\ In(x, pipe))
  BY InConcat DEF TypeOK
<1> HIDE DEF kernel
<1>4. /\ In(x, kernel) <=> \E y : AtKernel(y)
      /\ AtMostOnce(x, kernel) => \A y, z : AtKernel(y) /\ AtKernel(z) => y = z
  BY AtIn
<1>5. /\ InSome(x, Held) <=> \E y : AtHandler(y)
      /\ OnceInAll(x, Held) => \A y, z : AtHandler(y) /\ AtHandler(z) => y = z
  <2>1. \A w \in Workers : (\E y : At(y, <<"handler", w>>, Held[w], x)) <=> In(x, Held[w])
    BY AtIn
  <2>2. ASSUME OnceInAll(x, Held), NEW w \in Workers, NEW v \in Workers, NEW y, NEW z,
               At(y, <<"handler", w>>, Held[w], x), At(z, <<"handler", v>>, Held[v], x)
        PROVE  y = z
    <3>1. w = v
      BY <1>1, <2>1, <2>2 DEF OnceInAll
    <3>2. AtMostOnce(x, Held[w])
      BY <1>1, <2>2 DEF OnceInAll
    <3> QED
      BY <2>2, <3>1, <3>2, AtIn
  <2> QED
    BY <1>1, <2>1, <2>2 DEF InSome
<1>6. /\ InSome(x, ListData) <=> \E y : OnList(y)
      /\ OnceInAll(x, ListData) => \A y, z : OnList(y) /\ OnList(z) => y = z
  <2>1. \A k \in 1..Len(recv) : (\E y : At(y, <<"list", k>>, recv[k].data, x)) <=> In(x, ListData[k])
    BY <1>1, AtIn
  <2>2. ASSUME OnceInAll(x, ListData), NEW k \in 1..Len(recv), NEW j \in 1..Len(recv), NEW y, NEW z,
               At(y, <<"list", k>>, recv[k].data, x), At(z, <<"list", j>>, recv[j].data, x)
        PROVE  y = z
    <3>1. k = j
      BY <1>1, <2>1, <2>2 DEF OnceInAll
    <3>2. AtMostOnce(x, recv[k].data)
      BY <1>1, <2>2 DEF OnceInAll
    <3> QED
      BY <2>2, <3>1, <3>2, AtIn
  <2> QED
    BY <1>1, <2>1, <2>2 DEF InSome
<1>7. /\ In(x, InHand) <=> \E y : AtParser(y)
      /\ AtMostOnce(x, InHand) => \A y, z : AtParser(y) /\ AtParser(z) => y = z
  BY AtIn
<1>8. /\ In(x, parsed) <=> \E y : IsParsed(y)
      /\ AtMostOnce(x, parsed) => \A y, z : IsParsed(y) /\ IsParsed(z) => y = z
  BY AtIn
<1>9. /\ In(x, lost) <=> \E y : IsLost(y)
      /\ AtMostOnce(x, lost) => \A y, z : IsLost(y) /\ IsLost(z) => y = z
  BY AtIn
<1> HIDE DEF AtKernel, AtHandler, OnList, AtParser, IsParsed, IsLost
<1>10. \E p : p \in Places(x)
  BY <1>2, <1>3, <1>4, <1>5, <1>6, <1>7, <1>8, <1>9 DEF FlowOf
<1>11. \A y, z : y \in Places(x) /\ z \in Places(x) => y = z
  BY <1>2, <1>3, <1>4, <1>5, <1>6, <1>7, <1>8, <1>9 DEF FlowOf
<1> QED
  BY <1>10, <1>11

(***************************************************************************)
(* EachChunkOnce: however the handlers overlap and data_process is woken,  *)
(* what has arrived is with the driver, with one handler, on the list, in  *)
(* data_process's node, parsed or thrown away, and in one of these only.   *)
(***************************************************************************)
THEOREM EachChunkOnceAlways == Spec => []EachChunkOnce
<1>1. IInv => EachChunkOnce
  <2> SUFFICES ASSUME IInv, NEW c \in Arrived PROVE Cardinality(Places(c)) = 1
    BY DEF EachChunkOnce
  <2>1. ttyCount \in 0..Len(UartTraffic) /\ pipeCount \in 0..Len(PipeTraffic)
    BY DEF IInv, TypeOK
  <2>2. c \in Chunks /\ Came(c)
    <3>1. CASE c \in {Chunk("uart", UartTraffic, i) : i \in 1..ttyCount}
      <4>1. PICK i \in 1..ttyCount : c = Chunk("uart", UartTraffic, i)
        BY <3>1
      <4>2. i \in 1..Len(UartTraffic)
        BY <2>1, LenProperties
      <4>3. c.fd = "uart" /\ c.n = i
        BY <4>1 DEF Chunk
      <4> QED
        <5>1. c \in Chunks
          BY <4>1, <4>2, ChunkType
        <5>2. i <= ttyCount
          BY <2>1
        <5> QED
          BY <4>3, <5>1, <5>2 DEF Came
    <3>2. CASE c \in {Chunk("pipe", PipeTraffic, i) : i \in 1..pipeCount}
      <4>1. PICK i \in 1..pipeCount : c = Chunk("pipe", PipeTraffic, i)
        BY <3>2
      <4>2. i \in 1..Len(PipeTraffic)
        BY <2>1, LenProperties
      <4>3. c.fd = "pipe" /\ c.n = i
        BY <4>1 DEF Chunk
      <4> QED
        <5>1. c \in Chunks
          BY <4>1, <4>2, ChunkType
        <5>2. i <= pipeCount
          BY <2>1
        <5> QED
          BY <4>3, <5>1, <5>2 DEF Came
    <3> QED
      BY <3>1, <3>2 DEF Arrived
  <2>3. PICK p : Places(c) = {p}
    BY <2>2, OnePlace DEF IInv, Flow
  <2> QED
    BY <2>3, FS_Singleton
<1> QED
  BY <1>1, Invariant, PTL
=============================================================================

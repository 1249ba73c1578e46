----------------------------- MODULE UartDaemon -----------------------------
(***************************************************************************)
(* The daemon of uart_start.c: the main thread's epoll loop, the jobs it   *)
(* gives to the thread pool, and the two message lists between them.       *)
(*                                                                         *)
(*   serial port, pipe --> main: epoll --> pool: uart_connect_handler,     *)
(*   pipe_connect_handler --> G_recv_linklist --> data_process -->         *)
(*   G_send_linklist --> send_out_handler --> serial port, dueros          *)
(*                                                                         *)
(* The pool is used through JobQueue, which ThreadPool implements, and the *)
(* lists through MsgQueue, which LinkList implements.  The condition       *)
(* variables recv_linklist_not_empty and send_linklist_not_empty are       *)
(* modelled here.  Their mutexes are taken by the waiting thread alone:    *)
(* no producer takes them, so they exclude nobody and do not appear.  A    *)
(* consumer's test for an empty list and its pthread_cond_wait are         *)
(* therefore two steps.                                                    *)
(*                                                                         *)
(* A chunk is what arrives on a descriptor at one moment: a command or     *)
(* anything else.  One chunk is one unit of length.                        *)
(***************************************************************************)
EXTENDS Integers, Sequences, FiniteSets

CONSTANTS Workers,       \* the threads of the pool
          QueueMax,      \* its queue_max_num
          BufLen,        \* size of recv_buf and of the consumers' nodes
          UartTraffic,   \* what will arrive on the serial port, in order
          PipeTraffic,   \* what will be written to the pipe, in order
          StartupTo,     \* ports init_data_to_bt_onstart sends to, in order
          AllocFails,    \* whether malloc and calloc may fail
          SpuriousWake   \* whether pthread_cond_wait may return unsignalled

ASSUME DaemonAssumption ==
    /\ QueueMax \in Nat \ {0}
    /\ BufLen \in Nat \ {0}
    /\ UartTraffic \in Seq(STRING) /\ PipeTraffic \in Seq(STRING)
    /\ StartupTo \in Seq({"DUER", "UART"})
    /\ AllocFails \in BOOLEAN
    /\ SpuriousWake \in BOOLEAN

NoJob == "none"
Jobs == {"data_process", "send_out_handler", "init_data_to_bt_onstart",
         "uart_connect_handler", "pipe_connect_handler"}

\* The commands of the tables uart_handle and pipe_handle, one entry each.
Protocol(fd) == IF fd = "uart" THEN "time" ELSE "usb"
Reply(fd) == IF fd = "uart" THEN "AXX+TIM" ELSE "AXX+USB+OUL"

Chunk(fd, traffic, i) == [fd |-> fd, n |-> i, cmd |-> traffic[i]]
Chunks == {Chunk("uart", UartTraffic, i) : i \in DOMAIN UartTraffic}
              \cup {Chunk("pipe", PipeTraffic, i) : i \in DOMAIN PipeTraffic}

\* A message on a list: its descriptor or port, and its bytes.  A node whose
\* data is <<>> has been zeroed.
RecvMsg == [fd : {"uart", "pipe"}, data : Seq(Chunks)]
Texts == {"AXX+TIM", "AXX+USB+OUL", "startup"}
StartupCause(i) == [fd |-> "init", n |-> i, cmd |-> "startup"]
Causes == Chunks \cup {StartupCause(i) : i \in DOMAIN StartupTo}
SendMsg == [to : {"DUER", "UART"}, data : Seq([text : Texts, cause : Causes])]

VARIABLES tty,           \* chunks the driver holds for the serial port
          ttyCount,      \* how many have arrived there so far
          pipe,          \* chunks in the pipe
          pipeCount,     \* how many have been written so far
          uartListen,    \* G_uartfd is registered with epoll
          pipeEdge,      \* the pipe has had a write epoll has not reported
          toAdd,         \* jobs the main thread is about to submit, in order
          events,        \* descriptors of the batch still to be dispatched
          jobs,          \* the pool's queue
          current,       \* the job of each pool thread
          wpc,           \* where each pool thread is in it
          buf,           \* recv_buf, then the new node, of a receive handler
          startCount,    \* messages init_data_to_bt_onstart has sent
          recv,          \* G_recv_linklist
          recvNode,      \* datanode of data_process
          send,          \* G_send_linklist
          sendNode,      \* datanode of send_out_handler
          crashed,       \* the process has dereferenced a null pointer
          lost,          \* history: chunks a receive handler has thrown away
          parsed,        \* history: chunks data_parse has been given
          queuedOut,     \* history: messages inserted in G_send_linklist
          sent           \* history: messages handed to a port

input == <<tty, ttyCount, pipe, pipeCount>>
main == <<uartListen, pipeEdge, toAdd, events>>
pool == <<jobs, current, wpc, buf, startCount>>
lists == <<recv, recvNode, send, sendNode>>
history == <<lost, parsed, queuedOut, sent>>
vars == <<input, main, pool, lists, crashed, history>>

Pool == INSTANCE JobQueue WITH
            queue <- jobs, queue_max_num <- QueueMax, open <- TRUE, alive <- Workers
Recv == INSTANCE MsgQueue WITH
            q <- recv, got <- recvNode, destroyed <- FALSE, Msg <- RecvMsg
Send == INSTANCE MsgQueue WITH
            q <- send, got <- sendNode, destroyed <- FALSE, Msg <- SendMsg

Init ==
    /\ tty = <<>> /\ ttyCount = 0
    /\ pipe = <<>> /\ pipeCount = 0
    /\ uartListen = TRUE
    /\ pipeEdge = FALSE
    /\ toAdd = <<"data_process", "send_out_handler", "init_data_to_bt_onstart">>
    /\ events = <<>>
    /\ jobs = <<>>
    /\ current = [w \in Workers |-> NoJob]
    /\ wpc = [w \in Workers |-> "idle"]
    /\ buf = [w \in Workers |-> <<>>]
    /\ startCount = 0
    /\ recv = <<>> /\ recvNode = [fd |-> "none", data |-> <<>>]
    /\ send = <<>> /\ sendNode = [to |-> "none", data |-> <<>>]
    /\ crashed = FALSE
    /\ lost = <<>> /\ parsed = <<>> /\ queuedOut = <<>> /\ sent = <<>>

-----------------------------------------------------------------------------
(***************************************************************************)
(* The environment                                                         *)
(***************************************************************************)
UartArrives ==
    /\ ttyCount < Len(UartTraffic)
    /\ ttyCount' = ttyCount + 1
    /\ tty' = Append(tty, Chunk("uart", UartTraffic, ttyCount + 1))
    /\ UNCHANGED <<pipe, pipeCount, main, pool, lists, crashed, history>>

PipeWritten ==
    /\ pipeCount < Len(PipeTraffic)
    /\ pipeCount' = pipeCount + 1
    /\ pipe' = Append(pipe, Chunk("pipe", PipeTraffic, pipeCount + 1))
    /\ pipeEdge' = TRUE
    /\ UNCHANGED <<tty, ttyCount, uartListen, toAdd, events, pool, lists, crashed, history>>

(***************************************************************************)
(* epoll_start: the main thread                                            *)
(***************************************************************************)
\* threadpool_add_job.  Its result is ignored, so a failed malloc loses the
\* job.  A full queue makes the main thread wait.
AddJob ==
    /\ toAdd # <<>>
    /\ Pool!Enqueue(Head(toAdd))
    /\ toAdd' = Tail(toAdd)
    /\ UNCHANGED <<input, uartListen, pipeEdge, events, wpc, buf, startCount,
                   lists, crashed, history>>

AddJobFails ==
    /\ AllocFails
    /\ toAdd # <<>>
    /\ Pool!HasRoom
    /\ toAdd' = Tail(toAdd)
    /\ UNCHANGED <<input, uartListen, pipeEdge, events, pool, lists, crashed, history>>

Ready == (IF uartListen /\ tty # <<>> THEN {"uart"} ELSE {})
             \cup (IF pipeEdge /\ pipe # <<>> THEN {"pipe"} ELSE {})

\* epoll_wait reports every ready descriptor once, in an order of its own.
EpollWait ==
    /\ toAdd = <<>>
    /\ events = <<>>
    /\ Ready # {}
    /\ events' \in {e \in [1..Cardinality(Ready) -> Ready] :
                        \A fd \in Ready : \E i \in DOMAIN e : e[i] = fd}
    /\ pipeEdge' = FALSE
    /\ UNCHANGED <<input, uartListen, toAdd, pool, lists, crashed, history>>

\* Fault: the serial port stays registered while it is being read.
KeepListening == uartListen
\* epoll_ctl(EPOLL_CTL_DEL)
StopListening == FALSE

\* The body of the dispatch loop, up to its call of threadpool_add_job.
DispatchUart ==
    /\ toAdd = <<>>
    /\ events # <<>> /\ Head(events) = "uart"
    /\ uartListen' = StopListening
    /\ toAdd' = <<"uart_connect_handler">>
    /\ events' = Tail(events)
    /\ UNCHANGED <<input, pipeEdge, pool, lists, crashed, history>>

DispatchPipe ==
    /\ toAdd = <<>>
    /\ events # <<>> /\ Head(events) = "pipe"
    /\ toAdd' = <<"pipe_connect_handler">>
    /\ events' = Tail(events)
    /\ UNCHANGED <<input, uartListen, pipeEdge, pool, lists, crashed, history>>

MainStep == AddJob \/ AddJobFails \/ EpollWait \/ DispatchUart \/ DispatchPipe
-----------------------------------------------------------------------------
(***************************************************************************)
(* Pool threads: taking a job, and coming back from one.                   *)
(***************************************************************************)
Entry(j) == CASE j = "data_process" -> "d_init"
              [] j = "send_out_handler" -> "s_init"
              [] j = "init_data_to_bt_onstart" -> "i_insert"
              [] j = "uart_connect_handler" -> "u_read"
              [] j = "pipe_connect_handler" -> "p_read"

StartJob(w) ==
    /\ wpc[w] = "idle"
    /\ Pool!Dequeue(w)
    /\ wpc' = [wpc EXCEPT ![w] = Entry(Head(jobs))]
    /\ buf' = [buf EXCEPT ![w] = <<>>]
    /\ UNCHANGED <<input, main, startCount, lists, crashed, history>>

\* The callback has returned; its locals are gone.
ReturnFromJob(w) ==
    /\ wpc[w] = "return"
    /\ Pool!Complete(w)
    /\ wpc' = [wpc EXCEPT ![w] = "idle"]
    /\ buf' = [buf EXCEPT ![w] = <<>>]
    /\ UNCHANGED <<input, main, startCount, lists, crashed, history>>

Goto(w, from, to) ==
    /\ wpc[w] = from
    /\ wpc' = [wpc EXCEPT ![w] = to]

(***************************************************************************)
(* uart_connect_handler and whole_read                                     *)
(***************************************************************************)
\* Fault: the read is stored whenever it begins inside the buffer.
RoomLeft(c, n) == c < BufLen
\* What whole_read stores: only a read that leaves the buffer short of full.
Fits(c, n) == c + n < BufLen

\* read() returns everything the driver holds.  If it does not fit, whole_read
\* stops and what was read is gone.
UartRead(w) ==
    /\ tty # <<>>
    /\ tty' = <<>>
    /\ \/ /\ Fits(Len(buf[w]), Len(tty))
          /\ Goto(w, "u_read", "u_read")
          /\ buf' = [buf EXCEPT ![w] = @ \o tty]
          /\ UNCHANGED lost
       \/ /\ ~Fits(Len(buf[w]), Len(tty))
          /\ Goto(w, "u_read", "u_rearm")
          /\ lost' = lost \o tty
          /\ UNCHANGED buf
    /\ UNCHANGED <<ttyCount, pipe, pipeCount, main, jobs, current, startCount,
                   lists, crashed, parsed, queuedOut, sent>>

\* read() returns -1 with EAGAIN.
UartReadEnd(w) ==
    /\ tty = <<>>
    /\ Goto(w, "u_read", "u_rearm")
    /\ UNCHANGED <<input, main, jobs, current, buf, startCount, lists, crashed, history>>

\* Fault: the port is put back only when something was read.
RearmIfRead(w) == uartListen \/ buf[w] # <<>>
\* Fault: the port is not put back.
NoRearm(w) == uartListen
\* epoll_ctl(EPOLL_CTL_ADD), which also reports data that is already there.
Rearm(w) == TRUE

UartRearm(w) ==
    /\ Goto(w, "u_rearm", IF buf[w] = <<>> THEN "return" ELSE "r_insert")
    /\ uartListen' = Rearm(w)
    /\ UNCHANGED <<input, pipeEdge, toAdd, events, jobs, current, buf, startCount,
                   lists, crashed, history>>

(***************************************************************************)
(* pipe_connect_handler                                                    *)
(***************************************************************************)
\* Fault: the read leaves room for a terminating zero.
ReadLess(s) == IF Len(s) < BufLen THEN Len(s) ELSE BufLen - 1
\* How much one read() of sizeof(recv_buf) takes from the pipe.
ReadSize(s) == IF Len(s) <= BufLen THEN Len(s) ELSE BufLen

\* One read, whatever is left behind; EAGAIN if the pipe is empty.
PipeRead(w) ==
    /\ Goto(w, "p_read", IF pipe = <<>> THEN "return" ELSE "r_insert")
    /\ buf' = [buf EXCEPT ![w] = SubSeq(pipe, 1, ReadSize(pipe))]
    /\ pipe' = SubSeq(pipe, ReadSize(pipe) + 1, Len(pipe))
    /\ UNCHANGED <<tty, ttyCount, pipeCount, main, jobs, current, startCount,
                   lists, crashed, history>>

(***************************************************************************)
(* The end of both handlers: insert, then signal                           *)
(***************************************************************************)
RecvInsert(w) ==
    /\ Goto(w, "r_insert", "r_signal")
    /\ Recv!Put([fd |-> Head(buf[w]).fd, data |-> buf[w]])
    /\ UNCHANGED <<input, main, jobs, current, buf, startCount, send, sendNode,
                   crashed, history>>

\* singlelinklist_init_node returns NULL: the handler gives up the message.
RecvInsertFails(w) ==
    /\ AllocFails
    /\ Goto(w, "r_insert", "return")
    /\ lost' = lost \o buf[w]
    /\ UNCHANGED <<input, main, jobs, current, buf, startCount, lists, crashed,
                   parsed, queuedOut, sent>>

\* pthread_cond_signal: at most one thread ever waits on either condition.
WakeFrom(p, from, to) == [w \in Workers |-> IF p[w] = from THEN to ELSE p[w]]

RecvSignal(w) ==
    /\ wpc[w] = "r_signal"
    /\ wpc' = WakeFrom([wpc EXCEPT ![w] = "return"], "d_asleep", "d_pop")
    /\ UNCHANGED <<input, main, jobs, current, buf, startCount, lists, crashed, history>>

(***************************************************************************)
(* ready_send_data: insert in G_send_linklist, then signal                 *)
(***************************************************************************)
SendInsert(to, text, cause) ==
    LET m == [to |-> to, data |-> <<[text |-> text, cause |-> cause]>>]
    IN  /\ Send!Put(m)
        /\ queuedOut' = Append(queuedOut, m)

SendSignal(w, from, to) ==
    /\ wpc[w] = from
    /\ wpc' = WakeFrom([wpc EXCEPT ![w] = to], "s_asleep", "s_pop")
    /\ UNCHANGED <<input, main, jobs, current, buf, startCount, lists, crashed, history>>

\* init_data_to_bt_onstart: sends the data the MCU is to be given at power-on.
InitInsert(w) ==
    /\ startCount < Len(StartupTo)
    /\ Goto(w, "i_insert", "i_signal")
    /\ SendInsert(StartupTo[startCount + 1], "startup", StartupCause(startCount + 1))
    /\ startCount' = startCount + 1
    /\ UNCHANGED <<input, main, jobs, current, buf, recv, recvNode, crashed,
                   lost, parsed, sent>>

InitSignal(w) == SendSignal(w, "i_signal", "i_insert")

InitDone(w) ==
    /\ startCount = Len(StartupTo)
    /\ Goto(w, "i_insert", "return")
    /\ UNCHANGED <<input, main, jobs, current, buf, startCount, lists, crashed, history>>
-----------------------------------------------------------------------------
(***************************************************************************)
(* data_process                                                            *)
(***************************************************************************)
\* singlelinklist_init_node(1024).  Its result is first used after the wait.
ProcessInit(w) ==
    /\ Goto(w, "d_init", "d_top")
    /\ \/ UNCHANGED recvNode
       \/ AllocFails /\ recvNode' = [recvNode EXCEPT !.fd = "null"]
    /\ UNCHANGED <<input, main, jobs, current, buf, startCount, recv, send, sendNode,
                   crashed, history>>

\* Fault: the thread waits whatever the list holds.
AlwaysWait(list) == TRUE
\* The test before pthread_cond_wait, an if in both consumers.
MustWait(list) == list = <<>>

ProcessTest(w) ==
    /\ Goto(w, "d_top", IF MustWait(recv) THEN "d_window" ELSE "d_pop")
    /\ UNCHANGED <<input, main, jobs, current, buf, startCount, lists, crashed, history>>

\* pthread_cond_wait.  A signal sent before this step finds nobody waiting.
ProcessSleep(w) ==
    /\ Goto(w, "d_window", "d_asleep")
    /\ UNCHANGED <<input, main, jobs, current, buf, startCount, lists, crashed, history>>

\* Fault: the node is not zeroed before the pop.
StaleNode(node) == node
\* memset(pdata, 0, 1024): the rest of the node stays as it was.
Zeroed(node) == [node EXCEPT !.data = <<>>]

\* memset, then singlelinklist_pop_node, which leaves the node alone when the
\* list is empty.
ProcessPop(w) ==
    /\ Goto(w, "d_pop", "d_parse")
    /\ recvNode.fd # "null"
    /\ \/ Recv!Get
       \/ /\ recv = <<>>
          /\ recvNode' = Zeroed(recvNode)
          /\ UNCHANGED recv
    /\ UNCHANGED <<input, main, jobs, current, buf, startCount, send, sendNode,
                   crashed, history>>

\* strncmp with the only protocol of the descriptor's table: the message
\* begins with the command.
Matches(node) ==
    /\ node.data # <<>>
    /\ node.fd \in {"uart", "pipe"}
    /\ Head(node.data).cmd = Protocol(node.fd)

\* data_parse, its counter, and the handler (Process_AT_TIME_CMD or
\* pipe_usboul_handler) up to the signal in ready_send_data.
ParseHandle(w) ==
    /\ Matches(recvNode)
    /\ Goto(w, "d_parse", "d_signal")
    /\ parsed' = parsed \o recvNode.data
    /\ SendInsert("UART", Reply(recvNode.fd), Head(recvNode.data))
    /\ UNCHANGED <<input, main, jobs, current, buf, startCount, recv, recvNode,
                   crashed, lost, sent>>

ParseIgnore(w) ==
    /\ ~Matches(recvNode)
    /\ Goto(w, "d_parse", "d_top")
    /\ parsed' = parsed \o recvNode.data
    /\ UNCHANGED <<input, main, jobs, current, buf, startCount, lists, crashed,
                   lost, queuedOut, sent>>

ParseSignal(w) == SendSignal(w, "d_signal", "d_top")

(***************************************************************************)
(* send_out_handler                                                        *)
(***************************************************************************)
SendInit(w) ==
    /\ Goto(w, "s_init", "s_top")
    /\ \/ UNCHANGED sendNode
       \/ AllocFails /\ sendNode' = [sendNode EXCEPT !.to = "null"]
    /\ UNCHANGED <<input, main, jobs, current, buf, startCount, recv, recvNode, send,
                   crashed, history>>

SendTest(w) ==
    /\ Goto(w, "s_top", IF MustWait(send) THEN "s_window" ELSE "s_pop")
    /\ UNCHANGED <<input, main, jobs, current, buf, startCount, lists, crashed, history>>

SendSleep(w) ==
    /\ Goto(w, "s_window", "s_asleep")
    /\ UNCHANGED <<input, main, jobs, current, buf, startCount, lists, crashed, history>>

SendPop(w) ==
    /\ Goto(w, "s_pop", "s_send")
    /\ sendNode.to # "null"
    /\ \/ Send!Get
       \/ send = <<>> /\ UNCHANGED <<send, sendNode>>
    /\ UNCHANGED <<input, main, jobs, current, buf, startCount, recv, recvNode,
                   crashed, history>>

\* Fault: the node keeps what was sent.
Unreset(node) == node
\* memset(pdata, 0, 1024) and data_len = 0: send_to stays as it was.
Reset(node) == [node EXCEPT !.data = <<>>]

\* send_to_dueros or write; a failure is only logged.  Nothing leaves when
\* data_len is 0.
SendOut(w) ==
    /\ Goto(w, "s_send", "s_top")
    /\ sent' = IF sendNode.to \in {"DUER", "UART"} /\ sendNode.data # <<>>
               THEN Append(sent, sendNode) ELSE sent
    /\ sendNode' = Reset(sendNode)
    /\ UNCHANGED <<input, main, jobs, current, buf, startCount, recv, recvNode,
                   send, crashed, lost, parsed, queuedOut>>

-----------------------------------------------------------------------------
\* POSIX allows pthread_cond_wait to return with no signal.
SpuriousWakeup(w) ==
    /\ SpuriousWake
    /\ wpc[w] \in {"d_asleep", "s_asleep"}
    /\ wpc' = [wpc EXCEPT ![w] = IF wpc[w] = "d_asleep" THEN "d_pop" ELSE "s_pop"]
    /\ UNCHANGED <<input, main, jobs, current, buf, startCount, lists, crashed, history>>

\* data_process, send_out_handler and ready_send_data use the node
\* singlelinklist_init_node returns without looking whether there is one.
NullNode(w) ==
    /\ AllocFails
    /\ \/ wpc[w] = "d_pop" /\ recvNode.fd = "null"
       \/ wpc[w] = "s_pop" /\ sendNode.to = "null"
       \/ wpc[w] = "i_insert" /\ startCount < Len(StartupTo)
       \/ wpc[w] = "d_parse" /\ Matches(recvNode)
    /\ crashed' = TRUE
    /\ UNCHANGED <<input, main, pool, lists, history>>

UartHandler(w) == UartRead(w) \/ UartReadEnd(w) \/ UartRearm(w)
RecvHandler(w) == PipeRead(w) \/ RecvInsert(w) \/ RecvInsertFails(w) \/ RecvSignal(w)
InitJob(w) == InitInsert(w) \/ InitSignal(w) \/ InitDone(w)
DataProcess(w) ==
    \/ ProcessInit(w) \/ ProcessTest(w) \/ ProcessSleep(w) \/ ProcessPop(w)
    \/ ParseHandle(w) \/ ParseIgnore(w) \/ ParseSignal(w)
SendOutHandler(w) ==
    \/ SendInit(w) \/ SendTest(w) \/ SendSleep(w) \/ SendPop(w) \/ SendOut(w)

WorkerStep(w) ==
    \/ StartJob(w) \/ ReturnFromJob(w)
    \/ UartHandler(w) \/ RecvHandler(w) \/ InitJob(w)
    \/ DataProcess(w) \/ SendOutHandler(w)

Next ==
    /\ ~crashed
    /\ \/ UartArrives \/ PipeWritten \/ MainStep
       \/ \E w \in Workers : WorkerStep(w) \/ SpuriousWakeup(w) \/ NullNode(w)

Spec == Init /\ [][Next]_vars

\* Threads that can run do run.  Traffic, spurious wakeups and allocation
\* failures are up to the environment.
Fairness ==
    /\ WF_vars(~crashed /\ MainStep)
    /\ \A w \in Workers : WF_vars(~crashed /\ WorkerStep(w))

FairSpec == Spec /\ Fairness

-----------------------------------------------------------------------------
(***************************************************************************)
(* Properties.                                                             *)
(***************************************************************************)
WorkerPC == {"idle", "return", "u_read", "u_rearm", "p_read", "r_insert", "r_signal",
             "i_insert", "i_signal",
             "d_init", "d_top", "d_window", "d_asleep", "d_pop", "d_parse", "d_signal",
             "s_init", "s_top", "s_window", "s_asleep", "s_pop", "s_send"}

\* The values every variable keeps to; the pool's queue stays within its bound.
TypeOK ==
    /\ tty \in Seq(Chunks) /\ ttyCount \in 0..Len(UartTraffic)
    /\ pipe \in Seq(Chunks) /\ pipeCount \in 0..Len(PipeTraffic)
    /\ uartListen \in BOOLEAN /\ pipeEdge \in BOOLEAN
    /\ toAdd \in Seq(Jobs) /\ events \in Seq({"uart", "pipe"})
    /\ jobs \in Seq(Jobs) /\ Len(jobs) <= QueueMax
    /\ current \in [Workers -> Jobs \cup {NoJob}]
    /\ wpc \in [Workers -> WorkerPC]
    /\ buf \in [Workers -> Seq(Chunks)]
    /\ startCount \in 0..Len(StartupTo)
    /\ recv \in Seq(RecvMsg) /\ recvNode \in [fd : {"uart", "pipe", "none", "null"}, data : Seq(Chunks)]
    /\ send \in Seq(SendMsg)
    /\ sendNode \in [to : {"DUER", "UART", "none", "null"},
                     data : Seq([text : Texts, cause : Causes])]
    /\ crashed \in BOOLEAN
    /\ lost \in Seq(Chunks) /\ parsed \in Seq(Chunks)
    /\ queuedOut \in Seq(SendMsg) /\ sent \in Seq(SendMsg)

(***************************************************************************)
(* The serial port is read by one thread at a time, and by none while      *)
(* epoll watches it: taking it out of epoll before the job is submitted    *)
(* and putting it back only after whole_read keeps a second handler from   *)
(* splitting what arrives.                                                 *)
(***************************************************************************)
Reading(w) == wpc[w] \in {"u_read", "u_rearm"}
SingleUartReader ==
    /\ uartListen => \A w \in Workers : ~Reading(w)
    /\ \A v, w \in Workers : Reading(v) /\ Reading(w) => v = w

(***************************************************************************)
(* Messages leave in the order they were queued, each once: what was       *)
(* queued is what was sent, then what send_out_handler holds, then the     *)
(* list.  A wakeup that finds the list empty sends nothing again.          *)
(***************************************************************************)
SendInHand == IF sendNode.data = <<>> THEN <<>> ELSE <<sendNode>>
SendFifo == queuedOut = sent \o SendInHand \o send

(***************************************************************************)
(* Every chunk that has arrived is in exactly one place: with the driver,  *)
(* in the buffer of the handler that read it, on G_recv_linklist, in the   *)
(* hands of data_process, parsed, or thrown away by a handler.  Nothing    *)
(* else disappears, however the handlers interleave, and a wakeup that     *)
(* finds the list empty does not parse the previous message again.         *)
(***************************************************************************)
Arrived == {Chunk("uart", UartTraffic, i) : i \in 1..ttyCount}
               \cup {Chunk("pipe", PipeTraffic, i) : i \in 1..pipeCount}
Positions(s, c) == {i \in DOMAIN s : s[i] = c}
Places(c) ==
    LET handlers == {v \in Workers : wpc[v] \in {"u_read", "u_rearm", "r_insert"}}
        parsing == {v \in Workers : wpc[v] = "d_parse"}
    IN UNION ({{"descriptor"} \X Positions(tty \o pipe, c)}
              \cup {{<<"handler", w>>} \X Positions(buf[w], c) : w \in handlers}
              \cup {{<<"list", i>>} \X Positions(recv[i].data, c) : i \in DOMAIN recv}
              \cup {{"data_process"} \X Positions(recvNode.data, c) : w \in parsing}
              \cup {{"parsed"} \X Positions(parsed, c), {"lost"} \X Positions(lost, c)})
EachChunkOnce == \A c \in Arrived : Cardinality(Places(c)) = 1

(***************************************************************************)
(* Every message fits the 1024-byte node it is copied into by              *)
(* singlelinklist_pop_node, and one from the serial port leaves room for   *)
(* the terminating zero.                                                   *)
(***************************************************************************)
RecvFits ==
    /\ \A w \in Workers : Len(buf[w]) <= BufLen
    /\ \A i \in DOMAIN recv :
          /\ Len(recv[i].data) <= BufLen
          /\ recv[i].fd = "uart" => Len(recv[i].data) < BufLen

(***************************************************************************)
(* The serial port is always put back into epoll after an event.           *)
(***************************************************************************)
UartRearmed == ~uartListen ~> (uartListen \/ crashed)

(***************************************************************************)
(* What arrives on the serial port is read, also when it arrives while the *)
(* port is out of epoll.                                                   *)
(***************************************************************************)
UartIsRead == (tty # <<>>) ~> (tty = <<>>)

(***************************************************************************)
(* What is written to the pipe is read.  The pipe is watched edge-         *)
(* triggered and read once per event.                                      *)
(***************************************************************************)
PipeDrained == (pipe # <<>>) ~> (pipe = <<>>)

(***************************************************************************)
(* A data_process or send_out_handler that is awake, and not between its   *)
(* test and its wait, empties its list before it sleeps.                   *)
(***************************************************************************)
AwakeDrains ==
    /\ (recv # <<>> /\ \E w \in Workers : wpc[w] \in {"d_top", "d_pop", "d_parse", "d_signal"})
           ~> (recv = <<>>)
    /\ (send # <<>> /\ \E w \in Workers : wpc[w] \in {"s_top", "s_pop", "s_send"})
           ~> (send = <<>>)

(***************************************************************************)
(* "All received data is put into G_recv_linklist and processed in the     *)
(* data_process() thread" (uart_start.c:504): no message stays on the      *)
(* list for ever.                                                          *)
(***************************************************************************)
ReceivedIsProcessed == (recv # <<>>) ~> (recv = <<>>)

(***************************************************************************)
(* The port is taken out of epoll because "otherwise several threads are   *)
(* started" (uart_start.c:462): no two threads are in                      *)
(* uart_connect_handler.                                                   *)
(***************************************************************************)
OneUartHandler ==
    \A v, w \in Workers :
        current[v] = "uart_connect_handler" /\ current[w] = "uart_connect_handler" => v = w
=============================================================================

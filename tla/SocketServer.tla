---------------------------- MODULE SocketServer ----------------------------
(***************************************************************************)
(* The daemon of uart_start.c compiled with NEED_SOCK_SERVER 1: the main   *)
(* thread also watches a listening socket (edge-triggered) and the clients *)
(* it has accepted (level-triggered), and gives sock_accept_handler and    *)
(* sock_recv_handler to the pool.                                          *)
(*                                                                         *)
(* sock_recv_handler is given a pointer into events[], the array the main  *)
(* thread hands to every epoll_wait, so the descriptor it reads through    *)
(* that pointer is the one in the slot when the job runs, which may be     *)
(* another client, the listening socket, the serial port or the pipe.  A   *)
(* client's socket is never made non-blocking: read() on it waits.         *)
(*                                                                         *)
(* Workers are the pool threads data_process and send_out_handler leave    *)
(* free.  data_process, whom the handlers signal, takes nothing from       *)
(* G_recv_linklist here; it is in UartDaemon.                              *)
(***************************************************************************)
EXTENDS Integers, Sequences, FiniteSets

CONSTANTS Workers,      \* the free threads of the pool
          QueueMax,     \* its queue_max_num
          Clients,      \* processes that may connect, and their descriptors
          Listen,       \* G_sockfd
          Uart,         \* G_uartfd
          Pipe,         \* G_pipefd
          BufLen,       \* sizeof(recv_buf), in chunks
          MaxEvents,    \* bound: connections, chunks sent and hang-ups together
          AllocFails    \* whether malloc and calloc may fail

Sources == Clients \cup {Uart, Pipe}
Fds == Sources \cup {Listen}

ASSUME ServerAssumption ==
    /\ QueueMax \in Nat \ {0} /\ BufLen \in Nat \ {0}
    /\ MaxEvents \in Nat
    /\ IsFiniteSet(Clients)
    /\ Listen \notin Sources /\ Uart \notin Clients /\ Pipe \notin Clients \cup {Uart}
    /\ AllocFails \in BOOLEAN

Slots == 1..(Cardinality(Clients) + 3)
NoJob == [fn |-> "none", arg |-> 0]
AcceptJob == [fn |-> "sock_accept_handler", arg |-> 0]
UartJob == [fn |-> "uart_connect_handler", arg |-> 0]
PipeJob == [fn |-> "pipe_connect_handler", arg |-> 0]
RecvJob(k) == [fn |-> "sock_recv_handler", arg |-> k]
Jobs == {AcceptJob, UartJob, PipeJob} \cup {RecvJob(k) : k \in Slots}
Chunks == [from : Sources, n : Nat \ {0}]
Messages == [fd : Fds, data : Seq(Chunks)]

VARIABLES backlog,      \* clients that have connected and wait for accept()
          edges,        \* edge-triggered descriptors with an event epoll has
                        \* not reported
          watched,      \* the sources registered with epoll
          sentCount,    \* how many chunks each source has sent
          unread,       \* what the kernel holds for each source
          hungUp,       \* clients that have closed their end
          events,       \* the array events[]
          left,         \* slots of the batch still to be dispatched
          jobs,         \* the pool's queue
          current,      \* the job of each pool thread
          wpc,          \* where each pool thread is in it
          fd,           \* the descriptor each pool thread's handler reads
          buf,          \* recv_buf, then the new node
          recv,         \* G_recv_linklist
          lost          \* history: chunks a handler has read and given up

outside == <<backlog, sentCount, hungUp>>
main == <<events, left>>
pool == <<jobs, current, wpc, fd, buf>>
vars == <<outside, edges, watched, unread, main, pool, recv, lost>>

Pool == INSTANCE JobQueue WITH
            queue <- jobs, queue_max_num <- QueueMax, open <- TRUE, alive <- Workers
Recv == INSTANCE MsgQueue WITH
            q <- recv, got <- 0, destroyed <- FALSE, Msg <- Messages

Init ==
    /\ backlog = <<>> /\ edges = {} /\ watched = {Uart, Pipe}
    /\ sentCount = [f \in Sources |-> 0]
    /\ unread = [f \in Sources |-> <<>>]
    /\ hungUp = {}
    /\ events = [k \in Slots |-> Listen]
    /\ left = <<>>
    /\ jobs = <<>>
    /\ current = [w \in Workers |-> NoJob]
    /\ wpc = [w \in Workers |-> "idle"]
    /\ fd = [w \in Workers |-> Listen]
    /\ buf = [w \in Workers |-> <<>>]
    /\ recv = <<>> /\ lost = <<>>

(***************************************************************************)
(* The clients, the serial line and the writers of the pipe                *)
(***************************************************************************)
Waiting(c) == \E k \in DOMAIN backlog : backlog[k] = c
Connected(c) == c \in watched \/ Waiting(c)

\* The bound on what happens outside the daemon.
Sent == {s \in Sources \X (1..MaxEvents) : s[2] <= sentCount[s[1]]}
MoreToCome ==
    Cardinality({c \in Clients : Connected(c)}) + Cardinality(Sent) + Cardinality(hungUp) < MaxEvents

Connect(c) ==
    /\ ~Connected(c) /\ MoreToCome
    /\ backlog' = Append(backlog, c)
    /\ edges' = edges \cup {Listen}
    /\ UNCHANGED <<sentCount, hungUp, watched, unread, main, pool, recv, lost>>

Sends(f) ==
    /\ f \in Clients => Connected(f) /\ f \notin hungUp
    /\ MoreToCome
    /\ sentCount' = [sentCount EXCEPT ![f] = @ + 1]
    /\ unread' = [unread EXCEPT ![f] = Append(@, [from |-> f, n |-> sentCount[f] + 1])]
    /\ edges' = IF f = Pipe THEN edges \cup {Pipe} ELSE edges
    /\ UNCHANGED <<backlog, hungUp, watched, main, pool, recv, lost>>

HangUp(c) ==
    /\ Connected(c) /\ MoreToCome
    /\ hungUp' = hungUp \cup {c}
    /\ UNCHANGED <<backlog, sentCount, edges, watched, unread, main, pool, recv, lost>>

(***************************************************************************)
(* epoll_start: the main thread                                            *)
(***************************************************************************)
Readable(f) == IF f = Listen THEN backlog # <<>> ELSE unread[f] # <<>> \/ f \in hungUp
\* The clients and the port are reported while they are readable, the pipe and
\* the listening socket once for what has come since the last report.  (The
\* port is edge-triggered until its first report takes it out of epoll.)
Ready == {f \in (watched \ {Pipe}) \cup edges : Readable(f)}

\* epoll_wait writes the ready descriptors over the first slots of events[].
EpollWait ==
    /\ left = <<>>
    /\ Ready # {}
    /\ \E e \in [1..Cardinality(Ready) -> Ready] :
          /\ \A f \in Ready : \E k \in DOMAIN e : e[k] = f
          /\ events' = [k \in Slots |-> IF k \in DOMAIN e THEN e[k] ELSE events[k]]
          /\ left' = [k \in DOMAIN e |-> k]
    /\ edges' = {}
    /\ UNCHANGED <<outside, watched, unread, pool, recv, lost>>

JobFor(k) ==
    CASE events[k] = Uart   -> UartJob
      [] events[k] = Pipe   -> PipeJob
      [] events[k] = Listen -> AcceptJob
      [] OTHER              -> RecvJob(k)

\* EPOLL_CTL_DEL for the serial port, then threadpool_add_job; its result is
\* ignored.
Dispatch ==
    /\ left # <<>>
    /\ \/ Pool!Enqueue(JobFor(Head(left)))
       \/ AllocFails /\ Pool!HasRoom /\ UNCHANGED <<jobs, current>>
    /\ watched' = IF events[Head(left)] = Uart THEN watched \ {Uart} ELSE watched
    /\ left' = Tail(left)
    /\ UNCHANGED <<outside, edges, unread, events, wpc, fd, buf, recv, lost>>

MainStep == EpollWait \/ Dispatch
-----------------------------------------------------------------------------
\* uart_connect_handler and pipe_connect_handler read the globals.
Global(j) == CASE j = UartJob -> Uart
               [] j = PipeJob -> Pipe
               [] OTHER       -> Listen

StartJob(w) ==
    /\ wpc[w] = "idle"
    /\ Pool!Dequeue(w)
    /\ wpc' = [wpc EXCEPT ![w] = Head(jobs).fn]
    /\ fd' = [fd EXCEPT ![w] = Global(Head(jobs))]
    /\ UNCHANGED <<outside, edges, watched, unread, main, buf, recv, lost>>

\* The callback is over and its thread is free.
EndJob(w) ==
    /\ Pool!Complete(w)
    /\ wpc' = [wpc EXCEPT ![w] = "idle"]
    /\ buf' = [buf EXCEPT ![w] = <<>>]
    /\ fd' = [fd EXCEPT ![w] = Listen]

\* How much one read() of sizeof(recv_buf) takes.
ReadSize(s) == IF Len(s) <= BufLen THEN Len(s) ELSE BufLen
\* Fault: what is read stays readable.
Peeked(s) == s
\* What it leaves.
Rest(s) == SubSeq(s, ReadSize(s) + 1, Len(s))

\* One read() into recv_buf.
Take(w, f) ==
    /\ unread[f] # <<>>
    /\ buf' = [buf EXCEPT ![w] = SubSeq(unread[f], 1, ReadSize(unread[f]))]
    /\ unread' = [unread EXCEPT ![f] = Rest(unread[f])]
    /\ wpc' = [wpc EXCEPT ![w] = "insert"]
    /\ UNCHANGED <<outside, edges, watched, main, jobs, current, fd, recv, lost>>

(***************************************************************************)
(* uart_connect_handler: whole_read until the port is empty or what it has *)
(* read does not fit, then EPOLL_CTL_ADD.  whole_read's own buffer holds   *)
(* 1024 pointers, more than the driver keeps: a read() takes all there is. *)
(***************************************************************************)
\* Only a read that leaves recv_buf short of full is stored.
Fits(s, t) == Len(s) + Len(t) < BufLen

UartStore(w) ==
    /\ wpc[w] = "uart_connect_handler"
    /\ unread[Uart] # <<>> /\ Fits(buf[w], unread[Uart])
    /\ unread' = [unread EXCEPT ![Uart] = <<>>]
    /\ buf' = [buf EXCEPT ![w] = @ \o unread[Uart]]
    /\ UNCHANGED <<outside, edges, watched, main, jobs, current, wpc, fd, recv, lost>>

\* What does not fit has been read and is gone.
UartDrop(w) ==
    /\ wpc[w] = "uart_connect_handler"
    /\ unread[Uart] # <<>> /\ ~Fits(buf[w], unread[Uart])
    /\ unread' = [unread EXCEPT ![Uart] = <<>>]
    /\ lost' = lost \o unread[Uart]
    /\ wpc' = [wpc EXCEPT ![w] = "rearm"]
    /\ UNCHANGED <<outside, edges, watched, main, jobs, current, fd, buf, recv>>

\* read() returns -1 with EAGAIN.
UartReadEnd(w) ==
    /\ wpc[w] = "uart_connect_handler"
    /\ unread[Uart] = <<>>
    /\ wpc' = [wpc EXCEPT ![w] = "rearm"]
    /\ UNCHANGED <<outside, edges, watched, unread, main, jobs, current, fd, buf, recv, lost>>

UartRearm(w) ==
    /\ wpc[w] = "rearm"
    /\ watched' = watched \cup {Uart}
    /\ \/ /\ buf[w] # <<>>
          /\ wpc' = [wpc EXCEPT ![w] = "insert"]
          /\ UNCHANGED <<jobs, current, fd, buf>>
       \/ buf[w] = <<>> /\ EndJob(w)
    /\ UNCHANGED <<outside, edges, unread, main, recv, lost>>

(***************************************************************************)
(* pipe_connect_handler: one read(), whatever it leaves; -1 if another     *)
(* handler has emptied the pipe.                                           *)
(***************************************************************************)
PipeRead(w) ==
    /\ wpc[w] = "pipe_connect_handler"
    /\ \/ Take(w, Pipe)
       \/ /\ unread[Pipe] = <<>>
          /\ EndJob(w)
          /\ UNCHANGED <<outside, edges, watched, unread, main, recv, lost>>

(***************************************************************************)
(* sock_accept_handler: one accept() per event.  EPOLL_CTL_ADD is level-   *)
(* triggered.  With nobody waiting accept() fails.                         *)
(***************************************************************************)
SockAccept(w) ==
    /\ wpc[w] = "sock_accept_handler"
    /\ EndJob(w)
    /\ \/ /\ backlog # <<>>
          /\ backlog' = Tail(backlog)
          /\ watched' = watched \cup {Head(backlog)}
       \/ backlog = <<>> /\ UNCHANGED <<backlog, watched>>
    /\ UNCHANGED <<sentCount, hungUp, edges, unread, main, recv, lost>>

(***************************************************************************)
(* sock_recv_handler                                                       *)
(***************************************************************************)
\* int listen_fd = *((int *)arg)
SockRecvStart(w) ==
    /\ wpc[w] = "sock_recv_handler"
    /\ fd' = [fd EXCEPT ![w] = events[current[w].arg]]
    /\ wpc' = [wpc EXCEPT ![w] = "read"]
    /\ UNCHANGED <<outside, edges, watched, unread, main, jobs, current, buf, recv, lost>>

\* On a client with nothing to read, read() waits.
SockRead(w) ==
    /\ wpc[w] = "read"
    /\ fd[w] \in Sources
    /\ Take(w, fd[w])

\* read() returns 0 at the end of the stream, and -1 on the listening socket, a
\* silent serial port or an empty pipe, which are non-blocking; the descriptor
\* is neither closed nor taken out of epoll.
SockReadNothing(w) ==
    /\ wpc[w] = "read"
    /\ fd[w] = Listen \/ (fd[w] \in hungUp \cup {Uart, Pipe} /\ unread[fd[w]] = <<>>)
    /\ EndJob(w)
    /\ UNCHANGED <<outside, edges, watched, unread, main, recv, lost>>

\* Fault: the node takes the descriptor from the slot again.
SlotNow(w) == IF current[w].fn = "sock_recv_handler" THEN events[current[w].arg] ELSE fd[w]
\* the node's data->recv_fd
NodeFd(w) == fd[w]

\* The new node on the list; data_process is signalled.
Insert(w) ==
    /\ wpc[w] = "insert"
    /\ Recv!Put([fd |-> NodeFd(w), data |-> buf[w]])
    /\ EndJob(w)
    /\ UNCHANGED <<outside, edges, watched, unread, main, lost>>

\* singlelinklist_init_node returns NULL: the handler gives up the message.
InsertFails(w) ==
    /\ AllocFails
    /\ wpc[w] = "insert"
    /\ lost' = lost \o buf[w]
    /\ EndJob(w)
    /\ UNCHANGED <<outside, edges, watched, unread, main, recv>>

WorkerStep(w) ==
    \/ StartJob(w) \/ UartStore(w) \/ UartDrop(w) \/ UartReadEnd(w) \/ UartRearm(w)
    \/ PipeRead(w) \/ SockAccept(w) \/ SockRecvStart(w) \/ SockRead(w)
    \/ SockReadNothing(w) \/ Insert(w) \/ InsertFails(w)

Next ==
    \/ \E c \in Clients : Connect(c) \/ HangUp(c)
    \/ \E f \in Sources : Sends(f)
    \/ MainStep
    \/ \E w \in Workers : WorkerStep(w)

Spec == Init /\ [][Next]_vars

\* Threads that can run do run; clients do what they like.
FairSpec == Spec /\ WF_vars(MainStep) /\ \A w \in Workers : WF_vars(WorkerStep(w))
-----------------------------------------------------------------------------
\* The values every variable keeps to; the pool's queue stays within its bound.
TypeOK ==
    /\ backlog \in Seq(Clients) /\ edges \subseteq {Listen, Pipe}
    /\ watched \subseteq Sources /\ hungUp \subseteq Clients
    /\ sentCount \in [Sources -> Nat]
    /\ unread \in [Sources -> Seq(Chunks)]
    /\ events \in [Slots -> Fds] /\ left \in Seq(Slots)
    /\ jobs \in Seq(Jobs) /\ Len(jobs) <= QueueMax
    /\ current \in [Workers -> Jobs \cup {NoJob}]
    /\ wpc \in [Workers -> {"idle", "uart_connect_handler", "rearm", "pipe_connect_handler",
                            "sock_accept_handler", "sock_recv_handler", "read", "insert"}]
    /\ fd \in [Workers -> Fds]
    /\ buf \in [Workers -> Seq(Chunks)]
    /\ recv \in Seq(Messages)
    /\ lost \in Seq(Chunks)

(***************************************************************************)
(* Every message on G_recv_linklist carries the descriptor its bytes were  *)
(* read from, although the slot of events[] a queued sock_recv_handler     *)
(* points to may have been overwritten and the handler may read another    *)
(* client, the serial port or the pipe in its place.                       *)
(***************************************************************************)
RightDescriptor ==
    \A k \in DOMAIN recv : \A j \in DOMAIN recv[k].data :
        recv[k].data[j].from = recv[k].fd

(***************************************************************************)
(* Every chunk sent is in exactly one place: with the kernel, in a         *)
(* handler's buffer, on the list, or given up, however many handlers read  *)
(* the same descriptor.  Chunks are given up for want of memory            *)
(* (uart_start.c:327, 373, 394) and, on the port, when a read does not fit *)
(* into what is left of recv_buf (uart_start.c:166).                       *)
(***************************************************************************)
Positions(s, x) == {i \in DOMAIN s : s[i] = x}
Places(x) ==
    UNION ({{<<"kernel", f>>} \X Positions(unread[f], x) : f \in Sources}
        \cup {{<<"handler", w>>} \X Positions(buf[w], x) : w \in Workers}
        \cup {{<<"list", k>>} \X Positions(recv[k].data, x) : k \in DOMAIN recv}
        \cup {{<<"lost", 0>>} \X Positions(lost, x)})
EachChunkOnce ==
    \A f \in Sources : \A n \in 1..sentCount[f] :
        Cardinality(Places([from |-> f, n |-> n])) = 1

(***************************************************************************)
(* "The data of the serial port, the pipe and the sockets is received      *)
(* through epoll, by the corresponding callback" (uart_start.c:502): what  *)
(* arrives on the serial port is read.                                     *)
(***************************************************************************)
UartIsRead == (unread[Uart] # <<>>) ~> (unread[Uart] = <<>>)
=============================================================================

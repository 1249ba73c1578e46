------------------------------ MODULE Startup -------------------------------
(***************************************************************************)
(* main of uart_start.c up to the epoll loop: init_uart, init_pipe, with   *)
(* NEED_SOCK_SERVER init_socket_server, the two lists, epoll_create,       *)
(* setnonblocking on each descriptor, threadpool_init, the mutexes.  Most  *)
(* results are ignored on the spot; what matters is which failures the     *)
(* program notices before it enters the loop.                              *)
(***************************************************************************)
EXTENDS Naturals

VARIABLES suPc,       \* what main does next, or how the process ended
          withSocket, \* NEED_SOCK_SERVER
          descr,      \* G_uartfd, G_pipefd, G_sockfd: open, non-blocking, set up
          termios,    \* the settings of the line; {} as they were found
          lists,      \* which of the lists there are
          suBlocks,   \* blocks init_singlelinklist and threadpool_init left behind
          epollfd,    \* whether epoll_create succeeded
          suPool      \* whether threadpool_init returned a pool

startupVars == <<suPc, withSocket, descr, termios, lists, suBlocks, epollfd, suPool>>

Absent == [open |-> FALSE, nonblock |-> FALSE, setup |-> FALSE]

InitStartup ==
    /\ suPc = "start" /\ withSocket = FALSE
    /\ descr = [d \in {"uart", "pipe", "sock"} |-> Absent]
    /\ termios = {} /\ lists = {} /\ suBlocks = {} /\ epollfd = FALSE /\ suPool = FALSE

\* set_opt: what an unknown argument leaves in the zeroed structure counts.
SetOpt(nSpeed, nBits, nEvent, nStop) ==
    [speed  |-> IF nSpeed \in {2400, 4800, 9600, 115200} THEN nSpeed ELSE 9600,
     size   |-> IF nBits \in {7, 8} THEN nBits ELSE 5,
     parity |-> CASE nEvent = "O" -> "odd" [] nEvent = "E" -> "even" [] OTHER -> "none",
     stop   |-> IF nStop = 2 THEN 2 ELSE 1]

\* init_uart: open_port opens with O_NDELAY and ignores set_opt's result; a port
\* that cannot be opened ends the process.
InitUart ==
    /\ suPc = "start"
    /\ withSocket' \in BOOLEAN
    /\ \/ suPc' = "exit" /\ UNCHANGED <<descr, termios>>
       \/ /\ termios' \in {{}, {SetOpt(115200, 8, "N", 1)}}
          /\ descr' = [descr EXCEPT !["uart"] =
                          [open |-> TRUE, nonblock |-> TRUE, setup |-> termios' # {}]]
          /\ suPc' = "pipe"
    /\ UNCHANGED <<lists, suBlocks, epollfd, suPool>>

\* init_pipe: unlink, mkfifo, open.  A failure is only printed.
InitPipe ==
    /\ suPc = "pipe"
    /\ \E ok \in BOOLEAN :
          descr' = [descr EXCEPT !["pipe"] = [open |-> ok, nonblock |-> FALSE, setup |-> ok]]
    /\ suPc' = IF withSocket THEN "sock" ELSE "recv list"
    /\ UNCHANGED <<withSocket, termios, lists, suBlocks, epollfd, suPool>>

\* init_socket_server: no socket, or one that cannot be bound or listen, or
\* success; main ignores the result.
InitSocketServer ==
    /\ suPc = "sock"
    /\ \E made, ok \in BOOLEAN :
          descr' = [descr EXCEPT !["sock"] =
                       [open |-> made, nonblock |-> FALSE, setup |-> made /\ ok]]
    /\ suPc' = "recv list"
    /\ UNCHANGED <<withSocket, termios, lists, suBlocks, epollfd, suPool>>

\* init_singlelinklist: the dummy, the head, the mutex.  NULL on a failure, with
\* what was allocated left behind; main ignores it.
InitList(list, next) ==
    /\ suPc = list
    /\ \E failed \in {"dummy", "head", "mutex", "nothing"} :
          /\ lists' = IF failed = "nothing" THEN lists \cup {list} ELSE lists
          /\ suBlocks' = suBlocks \cup (CASE failed = "head"  -> {<<list, "dummy">>}
                                          [] failed = "mutex" -> {<<list, "dummy">>, <<list, "head">>}
                                          [] OTHER            -> {})
    /\ suPc' = next
    /\ UNCHANGED <<withSocket, descr, termios, epollfd, suPool>>

EpollCreate ==
    /\ suPc = "epoll"
    /\ epollfd' \in BOOLEAN
    /\ suPc' = "nonblock uart"
    /\ UNCHANGED <<withSocket, descr, termios, lists, suBlocks, suPool>>

\* Fault: setnonblocking reports the error and goes on.
GoOn(next) == next
\* exit(1)
AfterFcntlError(next) == "exit"

\* setnonblocking; both fcntl calls fail on a descriptor that is not open.  The
\* registration with epoll that follows is not checked.
SetNonblocking(at, d, next) ==
    /\ suPc = at
    /\ \/ /\ descr[d].open
          /\ descr' = [descr EXCEPT ![d].nonblock = TRUE]
          /\ suPc' = next
       \/ UNCHANGED descr /\ suPc' = AfterFcntlError(next)
    /\ UNCHANGED <<withSocket, termios, lists, suBlocks, epollfd, suPool>>

\* threadpool_init: NULL when the block, the mutex, a condition or the array of
\* threads cannot be had; the block is then left behind.  Not looked at.
ThreadpoolInit ==
    /\ suPc = "pool"
    /\ suPool' \in BOOLEAN
    /\ suBlocks' \in {suBlocks} \cup (IF suPool' THEN {} ELSE {suBlocks \cup {<<"pool", "block">>}})
    /\ suPc' = "mutexes"
    /\ UNCHANGED <<withSocket, descr, termios, lists, epollfd>>

\* recv_linklist_mutex and send_linklist_mutex: a failure ends main.
InitMutexes ==
    /\ suPc = "mutexes"
    /\ suPc' \in {"add jobs", "exit"}
    /\ UNCHANGED <<withSocket, descr, termios, lists, suBlocks, epollfd, suPool>>

\* threadpool_add_job locks the mutex in the pool: a null pointer crashes.
AddFirstJobs ==
    /\ suPc = "add jobs"
    /\ suPc' = IF suPool THEN "loop" ELSE "crashed"
    /\ UNCHANGED <<withSocket, descr, termios, lists, suBlocks, epollfd, suPool>>

NextStartup ==
    \/ InitUart \/ InitPipe \/ InitSocketServer
    \/ InitList("recv list", "send list") \/ InitList("send list", "epoll")
    \/ EpollCreate
    \/ SetNonblocking("nonblock uart", "uart",
                      IF withSocket THEN "nonblock sock" ELSE "nonblock pipe")
    \/ SetNonblocking("nonblock sock", "sock", "nonblock pipe")
    \/ SetNonblocking("nonblock pipe", "pipe", "pool")
    \/ ThreadpoolInit \/ InitMutexes \/ AddFirstJobs
-----------------------------------------------------------------------------
(***************************************************************************)
(* Although main ignores the failures of init_pipe and threadpool_init,    *)
(* the loop is entered only with the port and the pipe (and, if built in,  *)
(* the socket) open and non-blocking, and with a pool: each ignored        *)
(* failure is caught by a later step.  (A set_opt, list, bind, listen or   *)
(* epoll_create that failed is not.)                                       *)
(***************************************************************************)
LoopReady ==
    suPc = "loop" =>
        /\ suPool
        /\ \A d \in {"uart", "pipe"} \cup (IF withSocket THEN {"sock"} ELSE {}) :
              descr[d].open /\ descr[d].nonblock
=============================================================================

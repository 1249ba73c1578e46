# A TLA+ model of the UART daemon

The program is a small C daemon for a speaker: it moves commands between a
serial port (a Bluetooth MCU), a named pipe and the `dueros` service. Everything
interesting in it is concurrency: a home-made thread pool, two message lists
shared by pool threads, condition variables, and a serial port that is taken out
of and put back into `epoll` by different threads. This directory holds TLA+
models of those parts, of the socket server that can be compiled in, and of the
sequential helpers around them, TLC configurations for small instances, and
machine-checked proofs that all safety properties and the three
refinements hold for every size. All source paths below are relative to
`src/src/`.

## 1. Inventory of the system

| part | state it keeps | operations | who uses it |
| --- | --- | --- | --- |
| thread pool, `thread_pool.c` | job list `head..tail`, `queue_cur_num`, `queue_close`, `pool_close`, one mutex, three condition variables | `threadpool_init`, `threadpool_add_job`, `threadpool_function` (the workers), `threadpool_destroy` | `epoll_start` submits every handler as a job |
| message list, `linklist.c` | singly linked nodes behind a dummy, `tail`, count, one mutex | `init_singlelinklist`, `singlelinklist_init_node`, `singlelinklist_insert_node`, `singlelinklist_pop_node`, `singlelinklist_destory_node`, `destory_singlelinklist` | `G_recv_linklist`, `G_send_linklist` |
| daemon, `uart_start.c` | `epoll` registrations, the two lists with a mutex and a condition variable each, one reusable node per consumer | `epoll_start` (main thread); jobs `uart_connect_handler` + `whole_read`, `pipe_connect_handler`, `data_process` + `data_parse`, `send_out_handler`; `ready_send_data` | the program |
| start-up, `main`, `init_*`, `set_opt`, `setnonblocking` | the descriptors, the lists, the pool, `NEED_SOCK_SERVER` | one pass from `main` to the loop, most results ignored on the spot | the program |
| protocol handlers, `uart_protocol.c` | tables `uart_handle`, `pipe_handle` | `Process_AT_TIME_CMD`, `pipe_usboul_handler` | `data_parse` |
| URL file helpers, `uart_protocol.c` | a file | `compare_FileAndUrl`, `hangshu`, `delete_file` | clients |
| ring buffer, `data_fifo.c` | `head`, `tail`, `data_len`, `buf`, a mutex | `fifo_put`, `fifo_pop`, `is_fifo_full`, `is_fifo_empty` | a library of the repository |
| dueros formatting, `dueros_handle.c` | one block of fixed size per call | `format_duer_button_data`, `format_duer_string_data`, `format_duer_binary_data` | clients of `send_to_dueros` |
| test mode, `uartd_test_mode.c` | a global `sockfd` | `send_cmd_to_server`: two interfaces, ten sends each | clients |
| key report, `report_key.c` | JSON objects, curl handle, answer buffer per call | `report_key`, `excute_cmd` | clients |
| socket server, `uart_start.c` under `NEED_SOCK_SERVER` | listening socket, client descriptors, the slots of `events[]` | `sock_accept_handler`, `sock_recv_handler` | compiled out as the sources stand |
| descriptor helpers, `epoll_server.c` | none | `setnonblocking`, `accept_new_client`, `select_start` | daemon |
| logging (`debug.h`) | none | macros | everybody |

How they interact:

```
 tty, pipe --> main thread: epoll_wait --> threadpool_add_job --> pool threads
   uart_connect_handler / pipe_connect_handler --insert, signal--> G_recv_linklist
   data_process --pop, parse, ready_send_data: insert, signal----> G_send_linklist
   send_out_handler --pop--> write(tty) / send_to_dueros
```

`data_process` and `send_out_handler` never return, so each keeps a pool thread
for good. The behaviours that are hard here, and what makes each part correct:

* pool: the announcements "not empty", "not full" and "empty" are made only on a
  boundary (0 to 1, full to full-1, 1 to 0), so one that is missed is never repeated;
  closing takes two phases and the memory must outlive the workers. Correct when
  accepted jobs start in order, each once, no sleeper misses its event, and
  destroying waits for the drain;
* list: `singlelinklist_pop_node` tests the count without the mutex, copies and
  unlinks with it, and frees without it again, while producers link at the tail.
  Correct when it is a FIFO queue for several producers and one consumer, touches
  nothing freed and leaks nothing;
* daemon: the consumers test and wait under a mutex the producers do not take, wait in
  an `if`, and reuse one node; the port is level-triggered and deregistered while it
  is read, the pipe is edge-triggered and read once. Correct when one thread at
  a time reads the port, what arrives is read, and each message is handled and
  sent once;
* socket server: a queued job points into an array the main thread overwrites, client
  sockets block, and a level-triggered event is submitted again until somebody has
  read it. Correct when every message carries the descriptor it came from, no chunk
  is lost or doubled, and nobody starves;
* start-up: most results are ignored. Correct when what was ignored is caught before
  the loop runs on it;
* sequential helpers: error paths that release by hand, a global that survives from
  call to call, fixed blocks written without a check, a file read in two passes;
* ring: three separately updated fields must agree byte by byte, and a call must be
  atomic although it moves one byte at a time.

`PROJECT.json` lists every hazard at its line with the properties that would catch it.

## 2. Modules

| module | models | role |
| --- | --- | --- |
| `JobQueue` | what the pool promises: a bounded FIFO of jobs that can be closed | abstract; used by `UartDaemon`, implemented by `ThreadPool` |
| `ThreadPool` | `thread_pool.c` | detailed |
| `MsgQueue` | what a list promises: an unbounded FIFO of messages | abstract; used by `UartDaemon`, implemented by `LinkList` |
| `LinkList` | `linklist.c`: addresses, `next` pointers, the dummy, allocation and free | detailed |
| `UartDaemon` | `uart_start.c` with the tables of `uart_protocol.c`, composed with one `JobQueue` and two `MsgQueue`s | detailed |
| `ByteFifo` | what the ring promises: each call takes effect at once | abstract |
| `DataFifo` | `data_fifo.c`, byte by byte | detailed |
| `SocketServer` | the daemon with `NEED_SOCK_SERVER` 1, composed with one `JobQueue` and one `MsgQueue` | detailed |
| `Startup` | `main` up to the loop, with every failure | detailed |
| `TestMode` | `uartd_test_mode.c` | detailed |
| `ReportKey`, `ExcuteCmd` | `report_key.c` | detailed |
| `DuerosFormat` | `dueros_handle.c` | detailed, with the layout as reference definition |
| `FileUrl` | the file helpers of `uart_protocol.c` | detailed, with the first matching line as reference definition |
| `QueueLemmas` | facts on sequences: joining, cutting, occurring once, occurring once in a family of sequences | lemmas |
| `ThreadPoolProofs`, `LinkListProofs`, `DataFifoProofs`, `UartDaemonProofs`, `SocketServerProofs` | the theorems about the module each is named after | proofs |
| `CallsProofs` | the theorems about `Startup`, `TestMode`, `ReportKey`, `ExcuteCmd`, `DuerosFormat` and `FileUrl` | proofs |
| `MCThreadPool`, `MCLinkList`, `MCUartDaemon`, `MCDataFifo`, `MCSocketServer` | symmetry sets (none where liveness is checked) and traffic | instances for TLC |
| `MCCalls` | the six parts that share nothing with the daemon's threads, side by side; a behaviour exercises one of them | instance for TLC |

### State and actions against the code

**ThreadPool.** Every field is accessed with the mutex held, so the code from a lock
(or a return of `pthread_cond_wait`) to the next unlock (or wait) is one action. `pc`
says where a thread is: `"lock"`, `"relock"`, `"recheck"`, `"loop"` are about to take
the mutex, `"wait_..."` is asleep on a condition. `AddWait`, `AddRefused`,
`AddAccepted` are the three ways through `threadpool_add_job`; `WorkerWait`,
`WorkerExit`, `WorkerTake`, `CallbackReturns` are the loop of
`threadpool_function`; `DestroyRefused`, `DestroyClose`, `DestroyRecheck`, then the
two broadcasts, the joins and the release, each a step of its own, are
`threadpool_destroy`. `SpuriousWakeup` is what POSIX permits. `accepted`, `started`
and `finished` are history variables. A call may begin only before the pool is freed;
calling a freed pool is the client's error, but being asleep in one while it is
freed is not. The result of `pthread_create` is ignored (`thread_pool.c:51`): `Workers` are
the threads that were really created.

**LinkList.** `live` is the set of allocated addresses, `next`, `data`, `tail` and
`count` the fields, `order` a history variable: the nodes in the order in which
they were linked. The mutex covers one action each of insert and pop;
`PopCheck` (no mutex), `PopUnlink` (mutex) and `PopFree` (no mutex) are separate.
Freed addresses are handed out again by `InitNode`. `Destroy` is
`destory_singlelinklist`; in `MsgQueue` it is `Discard`, after which nothing is put or
taken any more, and which therefore cannot hide the loss of a message from the refinement.

**UartDaemon.** A chunk is what arrives at one moment, one unit of length. `tty` and
`pipe` are what the kernel holds, `uartListen` the registration of the port,
`pipeEdge` an unreported write, `toAdd` and `events` what the main thread is about to
do, `wpc`/`buf` the position and locals of each pool thread, `recvNode`/`sendNode` the
consumers' nodes. The consumers' mutexes exclude nobody (no producer takes them),
so test (`ProcessTest`) and wait (`ProcessSleep`) are two steps.
Failed allocations are `AddJobFails` (the job is lost: the result is ignored),
`RecvInsertFails` (the message is given up) and `NullNode` (an unchecked null node:
the process dies). `init_data_to_bt_onstart` is not in the repository; it is modelled
as a job that sends the messages `StartupTo` names.

**DataFifo.** One action per byte of `fifo_put`/`fifo_pop`, under the lock.
`head`, `tail` and `data_len` are the fields.

**SocketServer.** `events` is the array the main thread hands to every `epoll_wait`
(`EpollWait` overwrites its first slots) and a `sock_recv_handler` job carries a slot
number: `SockRecvStart` looks into the slot when the job runs, so `fd`, the descriptor a
thread reads, may be a client's, the listening socket's, the port's or the pipe's. `edges`
holds the edge-triggered descriptors (listening socket, pipe) with something unreported,
`backlog` who waits for `accept`; `Ready` is level-triggered for clients, and for a client
that has hung up for ever. `SockRead` on a silent client is not enabled: `read` waits. One
`read` takes at most `BufLen` chunks (`ReadSize`) and leaves the `Rest`. The handlers of the
port and the pipe are here too, because their events share the array and they share the
threads: `UartStore`, `UartDrop` (a read that does not fit is gone, `:166`) and
`UartReadEnd` are the rounds of `whole_read`, `UartRearm` the `EPOLL_CTL_ADD` before the
message is made, `PipeRead` the one `read` of the pipe. `whole_read`'s own buffer is an array
of 1024 pointers, more than the tty driver keeps, so each of its reads takes all there is.

**Startup.** One action per call `main` and `epoll_start` make, in their order; each has
its failures. `suPc` names the next call or how the process ended. `withSocket` stands for
both builds.

**TestMode.** `sockets` is the process's descriptor table (`socket` returns the lowest
free number), `sockfd` the global. `CreateSocket` is `create_broadcast_socket` with its ways
out, `SendTo` one of the ten sends, `CloseSocket` the verdict and the close. Calls repeat
for ever.

**ReportKey.** `held` is the set of blocks allocated. `GetDuercfg` has one outcome per
label, `ObjectFails` one per early return; `CurlInit`, `WritePart`, `PartRefused` (a
failed `realloc`) and `PerformEnds` are `curl_init_and_reportdata` and its callback. Failures
of libcurl and json-c are free choices.

**ExcuteCmd.** `Fetched` is what `fgets` takes: with a size of 1 nothing, without looking at
the stream (glibc). `ReadLine` is the body of the loop, `EndCmd` everything after it.

**DuerosFormat.** `dest` maps each byte of the block, and of the memory behind it, to where
its content came from; `dfI` is the index `i`. `FormatField` is the body of the argument
loop for all three functions. A text has a length (`len`, by which the index moves) and a
length when printed (`out`); they differ if it holds conversions.

The error label frees what each pointer holds (`AfterErr`); two of the three functions do not
get there when `calloc` fails, and crash.

**FileUrl.** A file is the sequence of pieces `fgets` with 512 returns. `CountLines` and
`LinesCounted` are `hangshu`, `OpenFile` to `NotFound` the second pass. Either `fopen` may
fail whether the file is there or not (`NotOpened`: it may not be opened for writing, there
is no descriptor). `fopen` reads nothing and the stream is filled in blocks later, so others
may change the text at any time: `FileWritten` and `DeleteFile` change what the next `fopen`
finds, `StreamRewritten` what an open stream has still to deliver, from any piece on.
`CompareLen` is `strlen(Url) - 1`, which for an empty URL wraps to `SIZE_MAX`.

## 3. Runs

| run | instance | shows |
| --- | --- | --- |
| `pool` | 2 workers, 1 adder, 2 destroyers, 4 jobs, one immortal, 2 slots, spurious wakeups | `NoMissedWakeup`, `JobsInOrder`, `ReleasedAfterDrain`, `ThreadPool` implements `JobQueue`; accepted jobs start, `threadpool_add_job` and `threadpool_destroy` return |
| `list_safety` | 2 producers, the consumer, 4 addresses beside the dummy, 2 payloads | the pointers stay a list, nothing freed is reachable, nothing leaks, refinement of `MsgQueue` |
| `fifo_safety` | 2 threads, ring of 2, calls of up to 3 bytes | the fields agree at each byte, refinement of `ByteFifo`, no deadlock |
| `daemon_recv` | 4 pool threads, 2 chunks on the port, 1 on the pipe, buffer of 2, allocation failures, spurious wakeups | one reader of the port, each chunk in exactly one place, messages fit their nodes |
| `daemon_send` | 4 pool threads, 2 pipe commands and 2 start-up messages, allocation failures, spurious wakeups | what is queued leaves once and in order |
| `daemon_uart_live` | 3 pool threads, 2 chunks that overflow the buffer | the port always comes back to `epoll`, what arrives is read |
| `daemon_pipe_live` | 3 pool threads, 2 writes | the edge-triggered pipe is emptied, an awake consumer empties its list |
| `sock_safety` | 2 threads for handlers, queue of 2, buffer of 2, 2 clients, port and pipe, 4 events (connections, chunks, hang-ups) in any mixture, allocation failures | messages carry the descriptor they came from, each chunk is in exactly one place, given up only for want of memory or at `:166` |
| `calls` | see `MCCalls.cfg` | start-up, test mode, key report, `excute_cmd`, formats, URL file: 10 properties |
| `daemon_recv_lost` (violation) | 1 chunk | lost wakeup of `data_process` |
| `daemon_two_handlers` (violation) | 2 chunks | two `uart_connect_handler`s at once |
| `sock_starved` (violation) | 3 threads for handlers, queue of 2, 1 client, 3 events | the client's surplus handlers keep all threads, the port is not read any more |

**Why these bounds.** The pool's rules depend only on whether the list is empty,
full or in between: two slots have all three, two workers let a wakeup reach the
wrong one of several sleepers, and four jobs overrun the list while a worker is
busy. For every other number of threads, slots, addresses, chunks and bytes the safety
properties are proved (section 4); the bounds below matter for
liveness and for finding out cheaply what can be proved. The list's special cases are the empty list, the pop that empties
it and the address that comes back; four addresses give all of them with two
producers in between. The ring of two bytes wraps within one call. The daemon's buffers
are compared only with `BufLen`; two chunks reach below, at and above the limit. Three
pool threads leave one for handlers, four leave two, the least for handlers to
overtake one another. In `sock_safety` a job waits in the queue while the next batch is
written over its slot, by the other client, the listening socket, the port or the
pipe; its four events suffice for a client whose read leaves a rest, a read of the port that
does not fit, and two clients with one chunk each.
In `calls`, messages fall short of their block, fill it and pass it (two buttons
against three, and texts up to one byte more than fits), command output does the same with a
line and with `rbuf`, and a file of two pieces, rewritten twice, has long, short and unended lines and several
that agree; the ten
sends are the code's ten. Pool threads, producers, addresses, payloads and jobs are
interchangeable and symmetric in the runs without liveness.

**Fairness.** Weak fairness per thread: a thread that can go on does, which a
preemptive scheduler gives, and a pthread mutex is eventually obtained by each
thread in the instances used (the pool's sections are short and the liveness runs
have one adder). Callbacks return unless declared immortal. In `calls` a call that has begun goes on. Nothing is assumed of
traffic, of callers, of spurious wakeups or of allocation failures. `AddReturns` is
stated for one adder, as in the daemon: with several, one can be overtaken for ever.

**Deadlock** is checked where the system cannot stop (`fifo_safety`). Elsewhere it may:
a destroyed pool or list, all jobs done, a daemon without traffic.

### Where the code disagrees with its comments

* `data_process` can sleep with a message on its list: the producers signal without
  its mutex (`uart_start.c:301-304`, `:379-380`). `send_out_handler` has the same window
  (`:214-215`).
* The port is registered again (`:368`) before the handler has inserted what it read, so
  two handlers run at once. The comment at `:368` says the port is put back as soon as the data
  is read, so the early registration is intended; but the comment at `:462` means to exclude
  that several threads are started. The run shows the overlap; that the second handler may
  then insert first follows from it, but is not what is checked. `SingleUartReader` shows what does hold: never two readers.
* With `NEED_SOCK_SERVER` 1, a client that sends once and stays connected can take every
  pool thread that is free: its socket is level-triggered and blocking, so the main thread
  submits `sock_recv_handler` until one has read the data, and the others wait in
  `read` (`:324`). Then nobody serves the serial port, although it is under `epoll` as the
  comment at `:502` says.

Smaller observations. In the daemon:

* `whole_read` drops a read that would bring its buffer to full or beyond (`:166`) after
  the data has left the driver; `EachChunkOnce` shows that this and a failed allocation
  are the only ways a chunk is lost, but counts them as places: the drop itself is no
  violation;
* a message from the pipe may fill all 1024 bytes of the consumer's node (`:389`), so that no
  terminating zero follows it; a serial message cannot (`RecvFits`). Nothing in
  `ready_send_data` bounds what goes to `send_out_handler`'s node;
* with `AllocFails` TRUE `UartRearmed` fails: the result of `threadpool_add_job` is ignored
  at `:464`; with `BufLen` 1 `PipeDrained` fails: an edge-triggered pipe is read once per
  event. The runs that check these two exclude the cases and so do not catch them;
* a stale signal makes `send_out_handler` go on with an empty node (it sends zero bytes:
  `SendFifo` holds all the same);
* `threadpool_destroy` frees the pool without waiting for callers of `threadpool_add_job` it
  has just woken (`thread_pool.c:160-179`), which `AddReturns` allows for; the daemon
  never destroys its pool;
* a `pthread_create` that fails goes unnoticed (`thread_pool.c:51`): the pool has fewer workers
  than asked for, and `threadpool_destroy` joins a handle nobody wrote;
* `destory_singlelinklist` on an empty list keeps the dummy node.

In the socket server: of two clients that connect before the edge-triggered event is handled
one is accepted, the other waits for the next connection (`:348`); a client that hangs
up is never closed and keeps the main thread spinning (`:336`); a queued handler may
read another client, the serial port or the pipe (`:484`), ready or not, yet `RightDescriptor` and
`EachChunkOnce` hold; `whole_read` drops what does not fit there as well (`:166`), and what one
read of the pipe leaves waits for the next write.

In the sequential parts: a failed `set_opt`, `init_singlelinklist`, `bind`, `listen` or
`epoll_create` is not noticed before the loop; `send_cmd_to_server` reports failure
when only the last of ten sends failed (`SuccessMeansSent` is the other direction); `report_key` never puts the JSON object or the
header list back, and dies on a null `device_id`; an answer without a body has an unwritten
byte printed; `excute_cmd` (whose only call is commented out) never ends on output of
`rbuflen - 1` characters or more; the dueros formats do not check the size of their block,
two of them not even `calloc` (`FormatsLayout` is about messages that fit);
`compare_FileAndUrl` does not look at a last line without a newline, reports a file that may
not be opened with `r+` as missing although `hangshu` has just read it, compares an empty URL
to its end (its length less one wraps), and returns garbage on a null argument.

## 4. Proofs

Every safety property of the passing runs and the three refinements are theorems for all
values of the constants.

| module | theorems |
| --- | --- |
| `ThreadPoolProofs` | `TypeOK`, `NoMissedWakeup`, `JobsInOrder`, `ReleasedAfterDrain`; `ThreadPool` implements `JobQueue` |
| `LinkListProofs` | `TypeOK`, `ChainIntact`, `NoDangling`, `NoLeak`; `LinkList` implements `MsgQueue` |
| `DataFifoProofs` | `TypeOK`, `RingConsistent`; `DataFifo` implements `ByteFifo` |
| `UartDaemonProofs` | `TypeOK`, `SingleUartReader`, `RecvFits`, `SendFifo`, `EachChunkOnce` |
| `SocketServerProofs` | `TypeOK`, `RightDescriptor`, `EachChunkOnce` |
| `CallsProofs` | `OneSocket`, `SuccessMeansSent`, `ErrorPathsRelease`, `PrintsWholeAnswer`, `LoopReady`, `AnswerIsSound`, `FirstLineFound`, `CapturesOutput`, `FormatsLayout` |

**Assumptions.** Those named in the modules (`PoolAssumption`, `ListAssumption`,
`FifoAssumption`, `DaemonAssumption`, `ServerAssumption` and one per sequential part), which TLC
evaluates on each run: capacities, buffers and block sizes are positive where the code needs
it, traffic is a finite sequence, a null pointer is not an address, descriptors are distinct.
`ServerAssumption` asks for finitely many clients, because `events[]` has finitely many slots.
The sets of threads, producers, jobs, addresses and payloads may be of any size. The theorems of
`CallsProofs` are stated for the initial condition and next-state relation of each part, since
`MCCalls` runs one of them per behaviour.

Each argument is an inductive invariant, since no property here is inductive alone.

*Pool.* That `threadpool_destroy` may sleep only while jobs are queued needs the
count to be the length of the list (`JobsInOrder`), and that no worker goes back
to sleep after the closing broadcast needs to know that the flags are set and the
list is empty from then on (`ClosingProtocol`: which flags hold at which position of
a destroyer, that only one destroyer is past the lock, that a closed pool has an empty
list, and that a worker leaves only a closed pool). `Holding` ties `arg` and `current` to
the threads' positions, so that what is appended and started is a job.
`ReleasedAfterDrain` needs `Accounted`: every started job has finished or is in some
worker's hands.

*List.* `IInv` is `TypeOK`, `ChainIntact` and `NoLeak` with `OwnedOnce` (a node that is
linked, in one producer's hand or the consumer's is in no second of these places, and
carries a payload where it must) and `ConsumerHolds` (what the consumer has at each point of
`singlelinklist_pop_node`). Without the first an insert could link a node twice, and
without the second the unlocked `free` could hit a linked one. `NoDangling` follows: what is
linked or held is in `NoLeak`'s sum, hence allocated. In the refinement only the locked
parts of insert and pop map to steps of `MsgQueue`; test, copy, free and allocation
stutter.

*Ring.* `RingConsistent` needs `LockHeld` (a call is in its body exactly while its thread
has the lock) and `CallInv`: during a `fifo_put` the newest `i` bytes of the ring are the first
`i` of its data, and a `fifo_pop` has copied as many bytes as its counter says. The abstract
queue during a call is the ring less the newest bytes, or the copied bytes
before the ring; the modular arithmetic of `head` and `tail` is in lemmas about `Place`, the
remainder written without one (`PlaceIs`).

*Daemon.* Four invariants on top of `TypeOK`.
`Tokens`: each of `data_process`, `send_out_handler` and the reading part of
`uart_connect_handler` is with the main thread, in the queue or in one thread's hands, and
only one of these; for the last the registration in `epoll` is a fourth place. It gives
`SingleUartReader`, and that each list has one consumer, on which the rest builds.
`Buffers` bounds what a handler holds by where it is, and keeps serial and pipe messages apart:
the former must stay short of `BufLen`. `Sending` says `send_out_handler`'s node holds
a message only between its pop and its write, so that a pop that finds the list empty
after a stale signal sends nothing again. `Flow` is conservation of chunks: an arrived chunk
occurs once in one of seven sequences or families of sequences and nowhere else. Each step
that moves chunks has a lemma that says from where to where (`ArriveFlow`, `ReadFlow`,
`PipeFlow`, `InsertFlow`, `LossFlow`, `PopFlow`, `ParseFlow`); all other steps move none
(`Moves`). `EachChunkOnce` counts labelled positions, and `OnePlace` derives it from `Flow`.
Since the queue and the lists inside `UartDaemon` are `JobQueue` and `MsgQueue`, which the pool
and the list are proved to implement, these results rest on the code of all three.

*Socket server.* `InsideJob` and `Holding` say what a thread in a callback has been
given and that only a thread between its first read and its insert holds bytes; `Globals` that
the handlers of the port and the pipe read the globals and not a slot. `Origin` types every buffer by the
descriptor the thread has now, whatever `events[]` said when the job was queued: overwritten
slots redirect a read, they never mislabel it. `Flow` is the conservation argument again
(`SendFlow`, `ReadFlow`, `DropFlow`, `InsertFlow`, `LossFlow`), with `whole_read`'s drop and a
failed allocation as the two ways into `lost`.

*Sequential parts.* One invariant each that says what holds at every value of the program
counter: `SocketInv` and `LeftInv` (test mode), `HeldInv` and `AnswerInv` (key report),
`StartupInv`, `UrlInv`, `CmdInv` and `LayoutInv`. The invariant of `excute_cmd` is that `rbuf`
followed by what is unread is the output; the one of `compare_FileAndUrl` that no piece the open
stream has returned agrees with the URL, which a rewriting of the rest keeps
(`RewrittenKeeps`), and that `hangnum` is the newlines of the stream `hangshu` read. With lines
that fit, the pieces that end in a newline are the first `hangnum` (`LinesShort`), for the empty
URL as well (`AgreesIsBegins`); the first-line theorem then needs that any nonempty set of
numbers has a least element, from well-foundedness of `<`. The same fact replaces induction for
the formats, whose reference definition joins the fields' bytes by a recursive function: `ConcatRecursion`
proves that such a function exists, and `LayoutInv` that behind the fields
written so far stands a delimiter, which the next field keeps and the terminator replaces.

**Only model-checked.** All liveness (`JobsStart`, `AddReturns`, `DestroyReturns`,
`UartRearmed`, `UartIsRead`, `PipeDrained`, `AwakeDrains`, `ShortOutputEnds`): the prover has
neither `ENABLED` nor fairness.

## 5. Not modelled

* logging, `print_graph`, the interactive `test()`, `get_cur_time`, `file_exists`: console
  output or one call to the kernel;
* `accept_new_client` (not called) and `select_start` (marked as abandoned in the source);
* `add_data_to_linklist`: the two list operations `Produce` consists of, again;
* the contents of messages beyond the command at their beginning; partial writes,
  which reach only the log;
* several threads in `send_cmd_to_server` or `report_key` at once: nothing in the repository
  calls them, and both use unprotected globals;
* a second consumer of one list, which the daemon does not have and the unlocked test of
  `singlelinklist_pop_node` would not survive;
* the length of what `ready_send_data` queues, which nothing bounds;
* lengths of names put together with `sprintf` (`delete_file`, `send_cmd_to_server`).

## 6. Plan

1. done: all parts modelled and checked; proofs of every safety property and of the three
   refinements;
2. next: action properties worth a theorem of their own (what an unlocked pop may change, that
   `head` and `tail` move by one, that a chunk never returns to an earlier place), and the
   safety halves of the liveness properties (who can still wake a sleeping consumer).

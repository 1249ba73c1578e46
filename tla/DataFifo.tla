------------------------------ MODULE DataFifo ------------------------------
(***************************************************************************)
(* The ring buffer of data_fifo.c.  fifo_put and fifo_pop copy one byte    *)
(* per iteration of a loop that they run with rwlock held; an iteration is *)
(* one action here, taking the lock and releasing it are others.           *)
(***************************************************************************)
EXTENDS Integers, Sequences

CONSTANTS Threads,    \* the callers
          Byte,       \* what the buffer stores
          buf_size,   \* the length given to init_data_fifo
          MaxLen,     \* bound on the length of one call's data
          Nobody      \* holder of a free lock

ASSUME FifoAssumption ==
    /\ buf_size \in Nat \ {0}
    /\ MaxLen \in Nat
    /\ 0 \notin Byte
    /\ Nobody \notin Threads

VARIABLES buffer,     \* f->buffer
          head,       \* f->head, where the next byte is put
          tail,       \* f->tail, where the next byte is popped
          data_len,   \* f->data_len
          rwlock,     \* who holds f->rwlock
          pc,         \* what each thread is doing
          data,       \* the bytes of a fifo_put
          len,        \* len of a fifo_put, maxlen of a fifo_pop
          i,          \* the loop counter
          buf,        \* the bytes a fifo_pop has copied out
          answer      \* what the last call of each thread returned

ring == <<buffer, head, tail, data_len>>
call == <<data, len, buf>>
vars == <<ring, rwlock, pc, call, i, answer>>

Data == UNION {[1..n -> Byte] : n \in 0..MaxLen}
Calls == {"put", "pop", "full", "empty"}

\* init_data_fifo: fifo_alloc clears the buffer.
Init ==
    /\ buffer = [k \in 0..buf_size - 1 |-> 0]
    /\ head = 0 /\ tail = 0 /\ data_len = 0
    /\ rwlock = Nobody
    /\ pc = [t \in Threads |-> <<"idle", "idle">>]
    /\ data = [t \in Threads |-> <<>>]
    /\ len = [t \in Threads |-> 0]
    /\ i = [t \in Threads |-> 0]
    /\ buf = [t \in Threads |-> <<>>]
    /\ answer = [t \in Threads |-> <<0, <<>>>>]

Goto(t, from, to) == pc[t] = from /\ pc' = [pc EXCEPT ![t] = to]

Call(t, op, d, n) ==
    /\ Goto(t, <<"idle", "idle">>, <<op, "lock">>)
    /\ data' = [data EXCEPT ![t] = d]
    /\ len' = [len EXCEPT ![t] = n]
    /\ UNCHANGED <<ring, rwlock, buf, i, answer>>

Enter(t) ==
    \/ \E d \in Data : Call(t, "put", d, Len(d))
    \/ \E n \in 0..MaxLen : Call(t, "pop", <<>>, n)
    \/ Call(t, "full", <<>>, 0)
    \/ Call(t, "empty", <<>>, 0)

\* Fault: the lock does not exclude.
NoExclusion == TRUE
\* pthread_mutex_lock can return.
LockFree == rwlock = Nobody

Lock(t, op) ==
    /\ LockFree
    /\ Goto(t, <<op, "lock">>, <<op, "body">>)
    /\ rwlock' = t
    /\ i' = [i EXCEPT ![t] = 0]
    /\ UNCHANGED <<ring, call, answer>>

Full == data_len = buf_size
Empty == data_len = 0

\* Fault: the index is wrapped one byte late.
WrapLate(k) == (k + 1) % (buf_size + 1)
\* Fault: the index is wrapped one byte early.
WrapEarly(k) == (k + 1) % (buf_size - 1)
\* k++ and then k %= buf_size
Step(k) == (k + 1) % buf_size

\* An iteration of the loop of fifo_put.
PutByte(t) ==
    /\ pc[t] = <<"put", "body">>
    /\ i[t] < len[t]
    /\ ~Full
    /\ buffer' = [buffer EXCEPT ![head] = data[t][i[t] + 1]]
    /\ head' = Step(head)
    /\ data_len' = data_len + 1
    /\ i' = [i EXCEPT ![t] = @ + 1]
    /\ UNCHANGED <<tail, rwlock, pc, call, answer>>

\* An iteration of the loop of fifo_pop.
PopByte(t) ==
    /\ pc[t] = <<"pop", "body">>
    /\ i[t] < len[t]
    /\ ~Empty
    /\ buf' = [buf EXCEPT ![t] = Append(@, buffer[tail])]
    /\ tail' = Step(tail)
    /\ data_len' = data_len - 1
    /\ i' = [i EXCEPT ![t] = @ + 1]
    /\ UNCHANGED <<buffer, head, rwlock, pc, data, len, answer>>

\* Unlock and return n; the caller's buffer holds what was popped.
Return(t, op, n) ==
    /\ Goto(t, <<op, "body">>, <<"idle", "idle">>)
    /\ rwlock' = Nobody
    /\ answer' = [answer EXCEPT ![t] = <<n, buf[t]>>]
    /\ buf' = [buf EXCEPT ![t] = <<>>]
    /\ data' = [data EXCEPT ![t] = <<>>]
    /\ len' = [len EXCEPT ![t] = 0]
    /\ i' = [i EXCEPT ![t] = 0]
    /\ UNCHANGED ring

PutEnd(t) == (i[t] = len[t] \/ Full) /\ Return(t, "put", i[t])
PopEnd(t) == (i[t] = len[t] \/ Empty) /\ Return(t, "pop", i[t])
IsFifoFull(t) == Return(t, "full", IF Full THEN 1 ELSE 0)
IsFifoEmpty(t) == Return(t, "empty", IF Empty THEN 1 ELSE 0)

Next ==
    \E t \in Threads :
        \/ Enter(t)
        \/ \E op \in Calls : Lock(t, op)
        \/ PutByte(t) \/ PopByte(t) \/ PutEnd(t) \/ PopEnd(t)
        \/ IsFifoFull(t) \/ IsFifoEmpty(t)

Spec == Init /\ [][Next]_vars

-----------------------------------------------------------------------------
(***************************************************************************)
(* Properties.                                                             *)
(***************************************************************************)

\* Both indices stay inside the buffer, the count within its size and a
\* loop counter within the caller's length.
TypeOK ==
    /\ buffer \in [0..buf_size - 1 -> Byte \cup {0}]
    /\ head \in 0..buf_size - 1
    /\ tail \in 0..buf_size - 1
    /\ data_len \in 0..buf_size
    /\ rwlock \in Threads \cup {Nobody}
    /\ pc \in [Threads -> (Calls \X {"lock", "body"}) \cup {<<"idle", "idle">>}]
    /\ data \in [Threads -> Seq(Byte)]
    /\ len \in [Threads -> 0..MaxLen]
    /\ i \in [Threads -> 0..MaxLen]
    /\ \A t \in Threads : i[t] <= len[t]
    /\ buf \in [Threads -> Seq(Byte)]

\* The stored bytes, oldest first.
Contents == [k \in 1..data_len |-> buffer[(tail + k - 1) % buf_size]]

(***************************************************************************)
(* The three fields that are updated separately agree, across every        *)
(* wrap-around and between any two iterations of a loop: head is data_len  *)
(* bytes ahead of tail, and every byte in between has been put.            *)
(***************************************************************************)
RingConsistent ==
    /\ head = (tail + data_len) % buf_size
    /\ \A k \in 1..data_len : Contents[k] \in Byte

(***************************************************************************)
(* The ring buffer implements the abstract byte queue: a call takes effect *)
(* as a whole when it releases the lock, so no two calls' bytes are        *)
(* interleaved, a put is cut short only by a full buffer and a pop only by *)
(* an empty one.  Inside a call, the abstract queue is still the one the   *)
(* call started from.                                                      *)
(***************************************************************************)
Before ==
    IF rwlock # Nobody /\ pc[rwlock] = <<"put", "body">>
    THEN SubSeq(Contents, 1, data_len - i[rwlock])
    ELSE IF rwlock # Nobody /\ pc[rwlock] = <<"pop", "body">>
         THEN buf[rwlock] \o Contents ELSE Contents
Abstract == INSTANCE ByteFifo WITH q <- Before
ImplementsByteFifo == Abstract!Spec
=============================================================================

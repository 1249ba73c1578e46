------------------------------ MODULE ByteFifo ------------------------------
(***************************************************************************)
(* What the fifo of data_fifo.c promises: a bounded queue of bytes whose   *)
(* operations take effect at one moment each.  fifo_put stores the longest *)
(* prefix of its data that there is room for, fifo_pop takes the oldest    *)
(* bytes, as many as were asked for or are there, and both return how many *)
(* these were.                                                             *)
(***************************************************************************)
EXTENDS Integers, Sequences

CONSTANTS Threads,    \* the callers
          Byte,       \* what the buffer stores
          buf_size,   \* capacity
          MaxLen      \* bound on the length of one call's data

VARIABLES q,          \* the stored bytes, oldest first
          answer      \* what the last call of each thread returned

Least(a, b) == IF a <= b THEN a ELSE b

Init ==
    /\ q = <<>>
    /\ answer = [t \in Threads |-> <<0, <<>>>>]

Return(t, n, bytes) == answer' = [answer EXCEPT ![t] = <<n, bytes>>]

Put(t, d) ==
    LET n == Least(Len(d), buf_size - Len(q))
    IN  /\ q' = q \o SubSeq(d, 1, n)
        /\ Return(t, n, <<>>)

Pop(t, max) ==
    LET n == Least(max, Len(q))
    IN  /\ q' = SubSeq(q, n + 1, Len(q))
        /\ Return(t, n, SubSeq(q, 1, n))

IsFull(t) == Return(t, IF Len(q) = buf_size THEN 1 ELSE 0, <<>>) /\ UNCHANGED q
IsEmpty(t) == Return(t, IF q = <<>> THEN 1 ELSE 0, <<>>) /\ UNCHANGED q

Data == UNION {[1..n -> Byte] : n \in 0..MaxLen}

Next ==
    \E t \in Threads :
        \/ \E d \in Data : Put(t, d)
        \/ \E max \in 0..MaxLen : Pop(t, max)
        \/ IsFull(t) \/ IsEmpty(t)

Spec == Init /\ [][Next]_<<q, answer>>
=============================================================================

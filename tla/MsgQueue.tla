------------------------------ MODULE MsgQueue ------------------------------
(***************************************************************************)
(* What a single_linklist_head of linklist.c promises to the threads that  *)
(* share it: an unbounded first-in-first-out queue with any number of      *)
(* producers and one consumer, until it is destroyed.  Taking from an      *)
(* empty queue changes nothing, the consumer's own node included.          *)
(***************************************************************************)
EXTENDS Naturals, Sequences

CONSTANT Msg

VARIABLES q,          \* the queued messages, oldest first
          got,        \* the consumer's node: the message it took last
          destroyed   \* the queue is gone

Init ==
    /\ q = <<>>
    /\ got \notin Msg
    /\ destroyed = FALSE

Put(m) ==
    /\ ~destroyed
    /\ q' = Append(q, m)
    /\ destroyed' = destroyed
    /\ UNCHANGED got

Get ==
    /\ ~destroyed
    /\ q # <<>>
    /\ got' = Head(q)
    /\ q' = Tail(q)
    /\ destroyed' = destroyed

\* destory_singlelinklist: what is still queued is thrown away.  Nothing else
\* takes a message that is not handed to the consumer.
Discard ==
    /\ ~destroyed
    /\ destroyed' = TRUE
    /\ q' = <<>>
    /\ UNCHANGED got

Next == (\E m \in Msg : Put(m)) \/ Get \/ Discard

Spec == Init /\ [][Next]_<<q, got, destroyed>>
=============================================================================

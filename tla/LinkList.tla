------------------------------ MODULE LinkList ------------------------------
(***************************************************************************)
(* The singly linked list of linklist.c, at the level of nodes, pointers   *)
(* and allocation.  A list has a dummy node (linklist_head), a tail        *)
(* pointer, a count and a mutex; an empty list is the dummy pointing at    *)
(* itself, and the last node of a list points at itself.                   *)
(*                                                                         *)
(* Both lists of uart_start.c have many producers and one consumer.  The   *)
(* code under head->mutex is one action.  singlelinklist_pop_node tests    *)
(* the count before it takes the mutex and frees the node after it has     *)
(* dropped it, so a pop is three actions.  The count is an aligned int     *)
(* that is written once per critical section: the unlocked read returns    *)
(* the value before or after it.                                           *)
(***************************************************************************)
EXTENDS Integers, Sequences, FiniteSets

CONSTANTS Producers,   \* threads that insert
          Node,        \* addresses of list nodes, the dummy's among them
          Dummy,       \* the address of linklist_head
          Msg,         \* payloads
          NULL         \* the null pointer, and the payload of no node

ASSUME ListAssumption ==
    /\ Dummy \in Node
    /\ NULL \notin Node
    /\ NULL \notin Msg

VARIABLES live,        \* the nodes that are allocated
          next,        \* node->next
          data,        \* node->data
          tail,        \* head->linklist_tail
          count,       \* head->linknode_count
          hand,        \* the node a producer has made and not yet inserted
          cpc,         \* where the consumer is in singlelinklist_pop_node
          tmp,         \* the consumer's unlinked node
          datanode,    \* the payload copied to the consumer's own node
          destroyed,   \* the list has been destroyed
          order        \* history: the linked nodes, oldest first

vars == <<live, next, data, tail, count, hand, cpc, tmp, datanode, destroyed, order>>

\* The values every variable keeps to; the tail is always a node.
TypeOK ==
    /\ live \subseteq Node
    /\ next \in [Node -> Node \cup {NULL}]
    /\ data \in [Node -> Msg \cup {NULL}]
    /\ tail \in Node
    /\ count \in Nat
    /\ hand \in [Producers -> Node \cup {NULL}]
    /\ cpc \in {"idle", "unlink", "free"}
    /\ tmp \in Node \cup {NULL}
    /\ datanode \in Msg \cup {NULL}
    /\ destroyed \in BOOLEAN
    /\ order \in Seq(Node)

\* init_singlelinklist
Init ==
    /\ live = {Dummy}
    /\ next = [n \in Node |-> IF n = Dummy THEN Dummy ELSE NULL]
    /\ data = [n \in Node |-> NULL]
    /\ tail = Dummy
    /\ count = 0
    /\ hand = [p \in Producers |-> NULL]
    /\ cpc = "idle"
    /\ tmp = NULL
    /\ datanode = NULL
    /\ destroyed = FALSE
    /\ order = <<>>

\* singlelinklist_init_node and the copy of the payload.  A failed calloc
\* leaves no trace here; its callers are modelled in UartDaemon.
InitNode(p, n, m) ==
    /\ ~destroyed
    /\ hand[p] = NULL
    /\ n \notin live
    /\ live' = live \cup {n}
    /\ next' = [next EXCEPT ![n] = NULL]
    /\ data' = [data EXCEPT ![n] = m]
    /\ hand' = [hand EXCEPT ![p] = n]
    /\ UNCHANGED <<tail, count, cpc, tmp, datanode, destroyed, order>>

\* The pointers after the node n has been linked behind the tail.
LinkLast(n) == [next EXCEPT ![tail] = n, ![n] = n]

\* singlelinklist_insert_node
InsertNode(p) ==
    /\ ~destroyed
    /\ hand[p] # NULL
    /\ next' = LinkLast(hand[p])
    /\ tail' = hand[p]
    /\ count' = count + 1
    /\ hand' = [hand EXCEPT ![p] = NULL]
    /\ order' = Append(order, hand[p])
    /\ UNCHANGED <<live, data, cpc, tmp, datanode, destroyed>>

\* Fault: the empty list is not noticed.
NoEmptyTest == TRUE
\* The unlocked test of linknode_count in singlelinklist_pop_node.
SeemsNonEmpty == count # 0

\* singlelinklist_pop_node, before the mutex: an empty list is left alone.
PopCheck ==
    /\ ~destroyed
    /\ cpc = "idle"
    /\ SeemsNonEmpty
    /\ cpc' = "unlink"
    /\ UNCHANGED <<live, next, data, tail, count, hand, tmp, datanode, destroyed, order>>

First == next[Dummy]

\* Fault: the payload is taken from the newest node.
LastPayload == data[tail]
\* What the pop copies to the consumer's node.
Payload == data[First]

\* Fault: the tail of a list that has become empty is left on the old node.
TailStays == tail
\* Fault: the tail of a list that has become empty is cleared.
TailCleared == IF count = 1 THEN NULL ELSE tail
\* linklist_tail after the first node has gone.
TailAfterPop == IF count = 1 THEN Dummy ELSE tail

\* singlelinklist_pop_node, under the mutex.
PopUnlink ==
    /\ cpc = "unlink"
    /\ datanode' = Payload
    /\ next' = [next EXCEPT ![Dummy] = IF count = 1 THEN Dummy ELSE next[First]]
    /\ count' = count - 1
    /\ tail' = TailAfterPop
    /\ tmp' = First
    /\ cpc' = "free"
    /\ order' = Tail(order)
    /\ UNCHANGED <<live, data, hand, destroyed>>

\* Fault: the popped node is forgotten.
ReleaseNothing(n) == live
\* singlelinklist_destory_node
Release(n) == live \ {n}

\* singlelinklist_pop_node, after the mutex.
PopFree ==
    /\ cpc = "free"
    /\ live' = Release(tmp)
    /\ data' = [data EXCEPT ![tmp] = NULL]
    /\ tmp' = NULL
    /\ cpc' = "idle"
    /\ UNCHANGED <<next, tail, count, hand, datanode, destroyed, order>>

\* What the loop of destory_singlelinklist visits: count steps from the dummy.
Visited ==
    LET walk[i \in 0..count] == IF i = 0 THEN Dummy ELSE next[walk[i-1]]
    IN  {walk[i] : i \in 0..count}

\* destory_singlelinklist, called as test() calls it: by the only thread left.
\* The loop that frees the nodes also frees the dummy, so a list that is
\* empty to begin with keeps its dummy.
Destroy ==
    /\ ~destroyed
    /\ cpc = "idle"
    /\ \A p \in Producers : hand[p] = NULL
    /\ live' = IF count > 0 THEN live \ Visited ELSE live
    /\ data' = [n \in Node |-> IF n \in live' THEN data[n] ELSE NULL]
    /\ next' = [next EXCEPT ![Dummy] = Dummy]
    /\ count' = 0
    /\ tail' = Dummy
    /\ destroyed' = TRUE
    /\ order' = <<>>
    /\ UNCHANGED <<hand, cpc, tmp, datanode>>

Produce(p) == InsertNode(p) \/ \E n \in Node, m \in Msg : InitNode(p, n, m)
Pop == PopCheck \/ PopUnlink \/ PopFree

Next == (\E p \in Producers : Produce(p)) \/ Pop \/ Destroy

Spec == Init /\ [][Next]_vars

-----------------------------------------------------------------------------
(***************************************************************************)
(* Properties.                                                             *)
(***************************************************************************)

(***************************************************************************)
(* The pointers form the list the operations assume: from the dummy        *)
(* through the nodes in insertion order to the tail, which points at       *)
(* itself, and linknode_count is the number of nodes on the way.           *)
(***************************************************************************)
ChainIntact ==
    /\ count = Len(order)
    /\ \A i \in 1..Len(order) :
          /\ next[IF i = 1 THEN Dummy ELSE order[i-1]] = order[i]
          /\ \A j \in 1..Len(order) : order[i] = order[j] => i = j
    /\ tail = IF order = <<>> THEN Dummy ELSE order[Len(order)]
    /\ next[tail] = tail

(***************************************************************************)
(* Nothing the list can still reach has been freed, and between the        *)
(* unlocked test of the count and the locked unlink the list cannot become *)
(* empty: the first node carries a payload, so the pop never copies from   *)
(* the dummy, whose data pointer is null.                                  *)
(***************************************************************************)
NoDangling ==
    ~destroyed =>
        /\ tail \in live
        /\ First \in live
        /\ \A p \in Producers : hand[p] # NULL => hand[p] \in live
        /\ cpc = "unlink" => count > 0 /\ First # Dummy /\ data[First] # NULL
        /\ cpc = "free" => /\ tmp \in live /\ tmp # tail /\ tmp # Dummy
                           /\ \A i \in 1..Len(order) : order[i] # tmp

(***************************************************************************)
(* Every allocated node is the dummy, linked, in a producer's hand or      *)
(* about to be freed by the consumer: none is leaked by insert or pop.     *)
(***************************************************************************)
NoLeak ==
    ~destroyed => live = {Dummy} \cup {order[i] : i \in 1..Len(order)}
                          \cup ({hand[p] : p \in Producers} \ {NULL})
                          \cup ({tmp} \ {NULL})

(***************************************************************************)
(* The pointer list implements the abstract queue: a message enters it in  *)
(* singlelinklist_insert_node and is taken, oldest first and once, in the  *)
(* locked part of singlelinklist_pop_node.                                 *)
(***************************************************************************)
Queued == [i \in 1..Len(order) |-> data[order[i]]]
Abstract == INSTANCE MsgQueue WITH q <- Queued, got <- datanode
ImplementsMsgQueue == Abstract!Spec
=============================================================================

--------------------------- MODULE LinkListProofs ---------------------------
(***************************************************************************)
(* Machine-checked proofs about LinkList, for any sets of producers,       *)
(* addresses and payloads.                                                 *)
(***************************************************************************)
EXTENDS LinkList, QueueLemmas, TLAPS

\* The nodes on the list, the dummy aside.
Linked == {order[i] : i \in 1..Len(order)}

(***************************************************************************)
(* A node on the list has a payload; so has one in a producer's hand,      *)
(* which is in no other hand, not on the list and not the consumer's.      *)
(***************************************************************************)
OwnedOnce ==
    /\ \A n \in Linked : n # Dummy /\ data[n] \in Msg
    /\ \A p \in Producers : hand[p] # NULL =>
          /\ hand[p] \notin Linked \cup {Dummy, tmp}
          /\ data[hand[p]] \in Msg
          /\ \A r \in Producers : hand[r] = hand[p] => r = p

(***************************************************************************)
(* What the consumer holds at each point of singlelinklist_pop_node, and   *)
(* that nobody is in an operation once the list is destroyed.              *)
(***************************************************************************)
ConsumerHolds ==
    /\ cpc = "unlink" => order # <<>>
    /\ cpc = "free" <=> tmp # NULL
    /\ cpc = "free" => tmp \notin Linked \cup {Dummy}
    /\ destroyed => cpc = "idle" /\ \A p \in Producers : hand[p] = NULL

\* The inductive invariant.
IInv == TypeOK /\ ChainIntact /\ NoLeak /\ OwnedOnce /\ ConsumerHolds

USE ListAssumption DEF ListAssumption

\* The list init_singlelinklist makes satisfies the inductive invariant.
LEMMA InitIInv == Init => IInv
<1> SUFFICES ASSUME Init PROVE IInv
  OBVIOUS
<1> USE DEF Init
<1>1. order = <<>> /\ Len(order) = 0 /\ Linked = {}
  BY DEF Linked
<1>2. TypeOK
  <2>1. order \in Seq(Node) /\ destroyed \in BOOLEAN
    BY EmptySeq
  <2>2. /\ next \in [Node -> Node \cup {NULL}]
        /\ data \in [Node -> Msg \cup {NULL}]
        /\ hand \in [Producers -> Node \cup {NULL}]
    OBVIOUS
  <2>3. /\ live \subseteq Node /\ tail \in Node /\ count \in Nat
        /\ cpc \in {"idle", "unlink", "free"}
        /\ tmp \in Node \cup {NULL} /\ datanode \in Msg \cup {NULL}
    OBVIOUS
  <2> QED
    BY <2>1, <2>2, <2>3 DEF TypeOK
<1>3. ChainIntact
  BY <1>1 DEF ChainIntact
<1>4. NoLeak
  BY <1>1 DEF NoLeak
<1>5. OwnedOnce /\ ConsumerHolds
  BY <1>1 DEF OwnedOnce, ConsumerHolds
<1> QED
  BY <1>2, <1>3, <1>4, <1>5 DEF IInv

\* The two ends of the chain: the dummy points at the first node of the list,
\* the tail is the last one.
LEMMA ChainEnds ==
    ASSUME TypeOK, ChainIntact, OwnedOnce
    PROVE  /\ order = <<>> => First = Dummy /\ tail = Dummy
           /\ order # <<>> => /\ Len(order) \in Nat \ {0}
                              /\ First = order[1] /\ First \in Linked
                              /\ tail = order[Len(order)] /\ tail \in Linked
BY EmptySeq DEF TypeOK, ChainIntact, OwnedOnce, Linked, First

\* Nothing reachable is freed: a consequence of who owns what.
LEMMA OwnedNotDangling == IInv => NoDangling
<1> SUFFICES ASSUME IInv, ~destroyed PROVE NoDangling
  BY DEF NoDangling
<1> USE DEF IInv
<1>1. /\ live = {Dummy} \cup Linked \cup ({hand[p] : p \in Producers} \ {NULL})
                   \cup ({tmp} \ {NULL})
      /\ count = Len(order) /\ Len(order) \in Nat
  BY DEF NoLeak, Linked, ChainIntact, TypeOK
<1>2. tail \in live /\ First \in live
  BY <1>1, ChainEnds
<1>3. \A p \in Producers : hand[p] # NULL => hand[p] \in live
  BY <1>1
<1>4. cpc = "unlink" => count > 0 /\ First # Dummy /\ data[First] # NULL
  BY <1>1, ChainEnds DEF ConsumerHolds, OwnedOnce
<1>5. cpc = "free" => /\ tmp \in live /\ tmp # tail /\ tmp # Dummy
                      /\ \A i \in 1..Len(order) : order[i] # tmp
  BY <1>1, ChainEnds DEF ConsumerHolds, Linked
<1> QED
  BY <1>2, <1>3, <1>4, <1>5 DEF NoDangling

(***************************************************************************)
(* singlelinklist_insert_node puts the producer's node behind the tail and *)
(* gives up the producer's claim to it.                                    *)
(***************************************************************************)
LEMMA InsertIInv == ASSUME IInv, NEW p \in Producers, InsertNode(p) PROVE IInv'
<1> USE DEF IInv, InsertNode
<1> DEFINE n == hand[p]
           len == Len(order)
<1>1. /\ order \in Seq(Node) /\ len \in Nat /\ n \in Node
      /\ n \notin Linked \cup {Dummy, tmp} /\ data[n] \in Msg
  BY DEF TypeOK, OwnedOnce
<1>2. /\ order' \in Seq(Node) /\ Len(order') = len + 1 /\ order' # <<>>
      /\ \A i \in 1..len : order'[i] = order[i]
      /\ order'[len + 1] = n
  BY <1>1, AppendProperties
<1>3. Linked' = Linked \cup {n}
  BY <1>1, <1>2 DEF Linked
<1>4. /\ \A m \in Node : next'[m] = IF m = n THEN n ELSE IF m = tail THEN n ELSE next[m]
      /\ next' \in [Node -> Node \cup {NULL}]
  BY <1>1 DEF LinkLast, TypeOK
<1>5. /\ \A r \in Producers : hand'[r] = IF r = p THEN NULL ELSE hand[r]
      /\ hand' \in [Producers -> Node \cup {NULL}]
  BY DEF TypeOK
<1>6. UNCHANGED <<live, data, cpc, tmp, datanode, destroyed>>
  OBVIOUS
<1>7. TypeOK'
  BY <1>1, <1>2, <1>4, <1>5, <1>6 DEF TypeOK
<1>8. ChainIntact'
  <2>1. count' = Len(order')
    BY <1>2 DEF ChainIntact
  <2>2. tail' = order'[Len(order')] /\ next'[tail'] = tail'
    BY <1>1, <1>2, <1>4 DEF ChainIntact
  <2>3. \A i, j \in 1..Len(order') : order'[i] = order'[j] => i = j
    BY <1>1, <1>2 DEF ChainIntact, Linked
  <2>4. ASSUME NEW i \in 1..Len(order')
        PROVE  next'[IF i = 1 THEN Dummy ELSE order'[i-1]] = order'[i]
    <3> DEFINE before == IF i = 1 THEN Dummy ELSE order'[i-1]
    <3>1. CASE i = len + 1
      <4>1. before = tail
        BY <3>1, <1>1, <1>2, EmptySeq DEF ChainIntact, TypeOK
      <4> QED
        BY <4>1, <3>1, <1>1, <1>2, <1>4 DEF TypeOK
    <3>2. CASE i \in 1..len
      <4>1. before = IF i = 1 THEN Dummy ELSE order[i-1]
        BY <3>2, <1>1, <1>2
      <4>2. before \in Node /\ next[before] = order[i] /\ before # n
        BY <4>1, <3>2, <1>1, ElementOfSeq DEF ChainIntact, Linked, TypeOK
      <4>3. before # tail
        BY <4>1, <3>2, <1>1, ChainEnds DEF ChainIntact, OwnedOnce
      <4> QED
        BY <4>2, <4>3, <3>2, <1>2, <1>4
    <3> QED
      BY <3>1, <3>2, <1>1, <1>2
  <2> QED
    BY <2>1, <2>2, <2>3, <2>4, <1>2 DEF ChainIntact
<1>9. NoLeak'
  BY <1>1, <1>3, <1>5, <1>6 DEF NoLeak, Linked
<1>10. OwnedOnce'
  BY <1>1, <1>3, <1>5, <1>6 DEF OwnedOnce
<1>11. ConsumerHolds'
  BY <1>1, <1>2, <1>3, <1>5, <1>6 DEF ConsumerHolds
<1> QED
  BY <1>7, <1>8, <1>9, <1>10, <1>11

(***************************************************************************)
(* The locked part of singlelinklist_pop_node: the first node leaves the   *)
(* list for the consumer's hand, and the list closes behind it.            *)
(***************************************************************************)
LEMMA UnlinkIInv == ASSUME IInv, PopUnlink PROVE IInv'
<1> USE DEF IInv
<1> DEFINE len == Len(order)
<1>1. /\ order \in Seq(Node) /\ order # <<>> /\ len \in Nat \ {0} /\ count = len
      /\ First = order[1] /\ First \in Linked /\ First \in Node
      /\ cpc = "unlink" /\ tmp = NULL /\ ~destroyed
  BY ChainEnds, ElementOfSeq DEF PopUnlink, TypeOK, ConsumerHolds, ChainIntact
<1>2. /\ order' \in Seq(Node) /\ Len(order') = len - 1
      /\ \A i \in 1..len - 1 : order'[i] = order[i + 1]
  BY <1>1, HeadTailProperties DEF PopUnlink
<1>3. \A i, j \in 1..len : order[i] = order[j] => i = j
  BY DEF ChainIntact
<1>4. Linked = Linked' \cup {First} /\ First \notin Linked'
  <2>1. /\ Linked = {Tail(order)[i] : i \in 1..Len(Tail(order))} \cup {order[1]}
        /\ order[1] \notin {Tail(order)[i] : i \in 1..Len(Tail(order))}
    BY <1>1, <1>3, TailElements DEF Linked
  <2> QED
    BY <2>1, <1>1 DEF Linked, PopUnlink
<1>5. UNCHANGED <<live, data, hand, destroyed>> /\ cpc' = "free" /\ tmp' = First
  BY DEF PopUnlink
<1>6. len = 1 => order' = <<>> /\ next'[Dummy] = Dummy /\ tail' = Dummy
  BY <1>1, <1>2, EmptySeq DEF PopUnlink, TypeOK, TailAfterPop
<1>7. len > 1 => next'[Dummy] = order[2] /\ tail' = tail /\ tail = order[len]
  BY <1>1 DEF PopUnlink, TypeOK, TailAfterPop, ChainIntact
<1>8. /\ next' \in [Node -> Node \cup {NULL}]
      /\ \A m \in Node \ {Dummy} : next'[m] = next[m]
  BY <1>1 DEF PopUnlink, TypeOK
<1>9. TypeOK'
  <2>1. datanode' \in Msg \cup {NULL}
    BY <1>1 DEF PopUnlink, TypeOK, Payload
  <2>2. tail' \in Node /\ count' \in Nat
    BY <1>1 DEF PopUnlink, TypeOK, TailAfterPop
  <2> QED
    BY <1>1, <1>2, <1>5, <1>8, <2>1, <2>2 DEF TypeOK
<1>10. ChainIntact'
  <2>1. count' = Len(order')
    BY <1>1, <1>2 DEF PopUnlink
  <2>2. \A i, j \in 1..Len(order') : order'[i] = order'[j] => i = j
    <3>1. \A i \in 1..Len(order') : i + 1 \in 1..len /\ order'[i] = order[i + 1]
      BY <1>1, <1>2
    <3>2. \A i, j \in 1..Len(order') : i + 1 = j + 1 => i = j
      BY <1>1, <1>2
    <3> QED
      BY <3>1, <3>2, <1>3
  <2>3. ASSUME NEW i \in 1..Len(order')
        PROVE  next'[IF i = 1 THEN Dummy ELSE order'[i-1]] = order'[i]
    <3>1. i + 1 \in 1..len /\ i \in 1..len /\ len > 1 /\ order'[i] = order[i + 1]
      BY <1>1, <1>2
    <3>2. CASE i = 1
      BY <3>1, <3>2, <1>7
    <3>3. CASE i # 1
      <4>1. order'[i - 1] = order[i]
        BY <3>1, <3>3, <1>1, <1>2
      <4>2. next[order[i]] = order[i + 1]
        BY <3>1, <1>1 DEF ChainIntact
      <4>3. order[i] \in Node /\ order[i] # Dummy
        <5>1. order[i] \in Node
          BY <3>1, <1>1, ElementOfSeq
        <5>2. order[i] \in Linked
          BY <3>1 DEF Linked
        <5> QED
          BY <5>1, <5>2 DEF OwnedOnce
      <4> QED
        BY <3>1, <3>3, <4>1, <4>2, <4>3, <1>8
    <3> QED
      BY <3>2, <3>3
  <2>4. /\ tail' = IF order' = <<>> THEN Dummy ELSE order'[Len(order')]
        /\ next'[tail'] = tail'
    <3>1. CASE len = 1
      BY <3>1, <1>6
    <3>2. CASE len > 1
      <4>1. order' # <<>> /\ order'[Len(order')] = order[len]
        <5>1. Len(order') = len - 1 /\ len - 1 \in 1..len - 1 /\ (len - 1) + 1 = len
          BY <3>2, <1>1, <1>2
        <5> QED
          BY <5>1, <1>2, EmptySeq
      <4>2. tail \in Node /\ tail # Dummy /\ next[tail] = tail
        BY <1>1, ChainEnds DEF TypeOK, OwnedOnce, ChainIntact
      <4> QED
        BY <3>2, <4>1, <4>2, <1>7, <1>8
    <3> QED
      BY <3>1, <3>2, <1>1
  <2> QED
    BY <2>1, <2>2, <2>3, <2>4 DEF ChainIntact
<1>11. NoLeak'
  <2> DEFINE held == {hand[p] : p \in Producers} \ {NULL}
  <2>1. live = {Dummy} \cup Linked \cup held \cup ({NULL} \ {NULL})
    BY <1>1 DEF NoLeak, Linked
  <2>2. held' = held /\ live' = live /\ tmp' = First /\ First # NULL
    BY <1>1, <1>5
  <2> HIDE DEF held
  <2>3. live' = {Dummy} \cup Linked' \cup held' \cup ({tmp'} \ {NULL})
    BY <1>4, <2>1, <2>2
  <2> QED
    BY <2>3 DEF NoLeak, Linked, held
<1>12. OwnedOnce'
  BY <1>1, <1>4, <1>5 DEF OwnedOnce
<1>13. ConsumerHolds'
  BY <1>1, <1>4, <1>5 DEF ConsumerHolds, OwnedOnce
<1> QED
  BY <1>9, <1>10, <1>11, <1>12, <1>13

\* Every step preserves the inductive invariant: one step per action.
LEMMA StepIInv == IInv /\ [Next]_vars => IInv'
<1> SUFFICES ASSUME IInv, [Next]_vars PROVE IInv'
  OBVIOUS
<1> USE DEF IInv
<1>1. ASSUME NEW p \in Producers, NEW n \in Node, NEW m \in Msg, InitNode(p, n, m)
      PROVE  IInv'
  <2> USE <1>1 DEF InitNode
  <2>1. Linked' = Linked
    BY DEF Linked
  <2>2. n \notin Linked \cup {Dummy, tmp} /\ \A r \in Producers : hand[r] # n
    BY DEF TypeOK, NoLeak, Linked
  <2>3. /\ \A k \in Node : data'[k] = IF k = n THEN m ELSE data[k]
        /\ \A k \in Node : next'[k] = IF k = n THEN NULL ELSE next[k]
        /\ \A r \in Producers : hand'[r] = IF r = p THEN n ELSE hand[r]
    BY DEF TypeOK
  <2>4. TypeOK'
    BY DEF TypeOK
  <2>5. Linked \subseteq Node
    BY ElementOfSeq DEF Linked, TypeOK
  <2>6. ChainIntact'
    <3>1. \A i \in 1..Len(order) : i # 1 => i - 1 \in 1..Len(order)
      BY DEF TypeOK
    <3>2. \A i \in 1..Len(order) : next'[IF i = 1 THEN Dummy ELSE order[i-1]] = order[i]
      BY <2>2, <2>3, <2>5, <3>1 DEF ChainIntact, Linked
    <3>3. next'[tail] = tail
      BY <2>2, <2>3, <2>5, ChainEnds DEF ChainIntact, TypeOK
    <3> QED
      BY <3>2, <3>3 DEF ChainIntact
  <2>7. NoLeak'
    BY <2>1, <2>3 DEF NoLeak, Linked
  <2>8. OwnedOnce'
    BY <2>1, <2>2, <2>3, <2>5 DEF OwnedOnce, TypeOK
  <2>9. ConsumerHolds'
    BY <2>1, <2>3 DEF ConsumerHolds
  <2> QED
    BY <2>4, <2>6, <2>7, <2>8, <2>9
<1>2. ASSUME NEW p \in Producers, InsertNode(p) PROVE IInv'
  BY <1>2, InsertIInv
<1>3. CASE PopCheck
  <2>1. order # <<>> /\ tmp = NULL
    BY <1>3, EmptySeq DEF PopCheck, SeemsNonEmpty, TypeOK, ChainIntact, ConsumerHolds
  <2> QED
    BY <1>3, <2>1 DEF PopCheck, TypeOK, ChainIntact, NoLeak, OwnedOnce, ConsumerHolds, Linked
<1>4. CASE PopUnlink
  BY <1>4, UnlinkIInv
<1>5. CASE PopFree
  <2> USE <1>5 DEF PopFree
  <2>1. /\ tmp \in Node /\ tmp \notin Linked \cup {Dummy}
        /\ \A p \in Producers : hand[p] # NULL => hand[p] # tmp
    BY DEF TypeOK, ConsumerHolds, OwnedOnce
  <2>2. Linked' = Linked /\ \A n \in Node : data'[n] = IF n = tmp THEN NULL ELSE data[n]
    BY DEF Linked, TypeOK
  <2>3. TypeOK'
    BY DEF TypeOK, Release
  <2>4. ChainIntact'
    BY DEF ChainIntact
  <2>5. NoLeak'
    BY <2>1, <2>2 DEF NoLeak, Release, Linked
  <2>6. OwnedOnce'
    BY <2>1, <2>2, ElementOfSeq DEF OwnedOnce, TypeOK, Linked
  <2>7. ConsumerHolds'
    BY DEF ConsumerHolds
  <2> QED
    BY <2>3, <2>4, <2>5, <2>6, <2>7
<1>6. CASE Destroy
  <2> USE <1>6 DEF Destroy
  <2>1. order' = <<>> /\ Len(order') = 0 /\ order' \in Seq(Node) /\ Linked' = {}
    BY EmptySeq DEF Linked
  <2>2. live' \subseteq Node /\ tmp = NULL
    BY DEF TypeOK, ConsumerHolds
  <2>3. data' \in [Node -> Msg \cup {NULL}] /\ next' \in [Node -> Node \cup {NULL}]
    BY DEF TypeOK
  <2>4. TypeOK'
    BY <2>1, <2>2, <2>3 DEF TypeOK
  <2>5. ChainIntact'
    BY <2>1 DEF ChainIntact, TypeOK
  <2>6. NoLeak' /\ OwnedOnce' /\ ConsumerHolds'
    BY <2>1, <2>2 DEF NoLeak, OwnedOnce, ConsumerHolds
  <2> QED
    BY <2>4, <2>5, <2>6
<1>7. CASE UNCHANGED vars
  BY <1>7 DEF vars, TypeOK, ChainIntact, NoLeak, OwnedOnce, ConsumerHolds, Linked
<1> QED
  BY <1>1, <1>2, <1>3, <1>4, <1>5, <1>6, <1>7 DEF Next, Produce, Pop

-----------------------------------------------------------------------------
\* Every field of linklist.c keeps to its values, and the tail is always a node.
THEOREM TypeCorrect == Spec => []TypeOK
<1>1. IInv => TypeOK
  BY DEF IInv
<1> QED
  BY InitIInv, StepIInv, <1>1, PTL DEF Spec

(***************************************************************************)
(* However many threads insert while one pops, the pointers are a list     *)
(* from the dummy to the tail, in insertion order, of linknode_count       *)
(* nodes.                                                                  *)
(***************************************************************************)
THEOREM ChainIntactAlways == Spec => []ChainIntact
<1>1. IInv => ChainIntact
  BY DEF IInv
<1> QED
  BY InitIInv, StepIInv, <1>1, PTL DEF Spec

(***************************************************************************)
(* No operation of linklist.c reaches freed memory, although a pop tests   *)
(* the count without the mutex and frees the node without it.              *)
(***************************************************************************)
THEOREM NoDanglingAlways == Spec => []NoDangling
BY InitIInv, StepIInv, OwnedNotDangling, PTL DEF Spec

\* Insert and pop account for every node that is allocated.
THEOREM NoLeakAlways == Spec => []NoLeak
<1>1. IInv => NoLeak
  BY DEF IInv
<1> QED
  BY InitIInv, StepIInv, <1>1, PTL DEF Spec

(***************************************************************************)
(* The pointer list of linklist.c implements the abstract queue: an insert *)
(* is a Put, the locked part of a pop is a Get, the destruction discards   *)
(* what is left, once, and no other step changes the queue.                *)
(***************************************************************************)
THEOREM ListImplementsMsgQueue == Spec => ImplementsMsgQueue
<1>1. Init => Abstract!Init
  <2> SUFFICES ASSUME Init PROVE Abstract!Init
    OBVIOUS
  <2>1. Queued = <<>>
    BY DEF Init, Queued
  <2> QED
    BY <2>1 DEF Init, Abstract!Init
<1>2. IInv /\ [Next]_vars => [Abstract!Next]_<<Queued, datanode, destroyed>>
  <2> SUFFICES ASSUME IInv, [Next]_vars
               PROVE  Abstract!Next \/ UNCHANGED <<Queued, datanode, destroyed>>
    OBVIOUS
  <2>1. /\ order \in Seq(Node) /\ Len(order) \in Nat
        /\ \A i \in 1..Len(order) : order[i] \in Linked /\ order[i] \in Node
        /\ \A n \in Linked : n # Dummy /\ data[n] \in Msg
    BY ElementOfSeq DEF IInv, TypeOK, OwnedOnce, Linked
  <2>2. /\ Queued \in Seq(Msg) /\ Len(Queued) = Len(order)
        /\ \A i \in 1..Len(order) : Queued[i] = data[order[i]]
    BY <2>1 DEF Queued
  <2>3. ASSUME order' = order, datanode' = datanode, destroyed' = destroyed,
               \A n \in Linked : data'[n] = data[n]
        PROVE  UNCHANGED <<Queued, datanode, destroyed>>
    BY <2>1, <2>3 DEF Queued
  <2>4. ASSUME NEW p \in Producers, NEW n \in Node, NEW m \in Msg, InitNode(p, n, m)
        PROVE  UNCHANGED <<Queued, datanode, destroyed>>
    <3>1. n \notin Linked
      BY <2>4 DEF InitNode, IInv, NoLeak, Linked, TypeOK
    <3> QED
      BY <2>1, <2>3, <2>4, <3>1 DEF InitNode, IInv, TypeOK, Linked
  <2>5. ASSUME NEW p \in Producers, InsertNode(p) PROVE \E m \in Msg : Abstract!Put(m)
    <3> DEFINE m == data[hand[p]]
    <3>1. /\ m \in Msg /\ hand[p] \in Node /\ data' = data /\ datanode' = datanode
          /\ order' = Append(order, hand[p]) /\ ~destroyed /\ destroyed' = destroyed
      BY <2>5 DEF InsertNode, IInv, TypeOK, OwnedOnce
    <3>2. /\ Len(order') = Len(order) + 1 /\ order'[Len(order) + 1] = hand[p]
          /\ \A i \in 1..Len(order) : order'[i] = order[i]
      BY <2>1, <3>1, AppendProperties
    <3>3. /\ Queued' \in Seq(Msg) /\ Len(Queued') = Len(order) + 1
          /\ \A i \in 1..Len(order) + 1 :
                Queued'[i] = IF i = Len(order) + 1 THEN m ELSE Queued[i]
      <4>1. \A i \in 1..Len(order) + 1 : data[order'[i]] \in Msg
        BY <2>1, <3>1, <3>2
      <4> QED
        BY <4>1, <2>1, <2>2, <3>1, <3>2 DEF Queued
    <3>4. /\ Append(Queued, m) \in Seq(Msg) /\ Len(Append(Queued, m)) = Len(order) + 1
          /\ \A i \in 1..Len(order) + 1 :
                Append(Queued, m)[i] = IF i = Len(order) + 1 THEN m ELSE Queued[i]
      BY <2>1, <2>2, <3>1, AppendProperties
    <3>5. Queued' = Append(Queued, m)
      BY <3>3, <3>4, SeqEqual
    <3> QED
      BY <3>1, <3>5 DEF Abstract!Put
  <2>6. CASE PopUnlink
    <3>1. /\ order # <<>> /\ First = order[1] /\ data' = data /\ order' = Tail(order)
          /\ datanode' = data[order[1]] /\ Len(order) \in Nat \ {0}
          /\ ~destroyed /\ destroyed' = destroyed
      BY <2>6, ChainEnds DEF PopUnlink, Payload, IInv, ConsumerHolds
    <3>2. /\ Len(order') = Len(order) - 1 /\ order' \in Seq(Node)
          /\ \A i \in 1..Len(order) - 1 : order'[i] = order[i + 1]
      BY <2>1, <3>1, HeadTailProperties
    <3>3. Queued # <<>> /\ datanode' = Head(Queued)
      BY <2>2, <3>1
    <3>4. /\ Queued' \in Seq(Msg) /\ Len(Queued') = Len(order) - 1
          /\ \A i \in 1..Len(order) - 1 : Queued'[i] = Queued[i + 1]
      <4>1. ASSUME NEW i \in 1..Len(order) - 1
            PROVE  i + 1 \in 1..Len(order) /\ data[order'[i]] = Queued[i + 1]
                                           /\ data[order'[i]] \in Msg
        BY <2>1, <2>2, <3>1, <3>2
      <4> QED
        BY <4>1, <2>1, <3>1, <3>2 DEF Queued
    <3>5. /\ Tail(Queued) \in Seq(Msg) /\ Len(Tail(Queued)) = Len(order) - 1
          /\ \A i \in 1..Len(order) - 1 : Tail(Queued)[i] = Queued[i + 1]
      BY <2>2, <3>3, HeadTailProperties
    <3>6. Queued' = Tail(Queued)
      BY <3>4, <3>5, SeqEqual
    <3> QED
      BY <3>1, <3>3, <3>6 DEF Abstract!Get, Abstract!Next
  <2>7. CASE PopFree
    <3>1. \A n \in Linked : data'[n] = data[n]
      BY <2>1, <2>7 DEF PopFree, IInv, TypeOK, ConsumerHolds
    <3> QED
      BY <2>3, <2>7, <3>1 DEF PopFree
  <2>8. CASE Destroy
    <3>1. Queued' = <<>>
      BY <2>8 DEF Destroy, Queued
    <3> QED
      BY <2>8, <3>1 DEF Destroy, Abstract!Discard, Abstract!Next
  <2>9. CASE PopCheck
    BY <2>3, <2>9 DEF PopCheck
  <2>10. CASE UNCHANGED vars
    BY <2>3, <2>10 DEF vars
  <2> QED
    BY <2>4, <2>5, <2>6, <2>7, <2>8, <2>9, <2>10 DEF Next, Produce, Pop, Abstract!Next
<1> QED
  BY InitIInv, StepIInv, <1>1, <1>2, PTL DEF Spec, ImplementsMsgQueue, Abstract!Spec
=============================================================================

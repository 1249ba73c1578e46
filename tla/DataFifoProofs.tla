--------------------------- MODULE DataFifoProofs ---------------------------
(***************************************************************************)
(* Machine-checked proofs about DataFifo, for any size of the buffer, any  *)
(* bytes and any number of threads.                                        *)
(***************************************************************************)
EXTENDS DataFifo, QueueLemmas, TLAPS

USE FifoAssumption DEF FifoAssumption

\* The place of the k-th byte behind position tl.
Place(tl, k) == IF tl + k < buf_size THEN tl + k ELSE tl + k - buf_size

\* It is the remainder of the position.
LEMMA PlaceIs ==
    ASSUME NEW tl \in 0..buf_size - 1, NEW k \in 0..buf_size
    PROVE  (tl + k) % buf_size = Place(tl, k) /\ Place(tl, k) \in 0..buf_size - 1
<1> DEFINE a == tl + k
<1>0. a \in 0..buf_size - 1 \/ a \in buf_size..buf_size + buf_size - 1
  OBVIOUS
<1> HIDE DEF a
<1>1. a \in 0..buf_size - 1 => a % buf_size = a
  OBVIOUS
<1>2. a \in buf_size..buf_size + buf_size - 1 => a % buf_size = a - buf_size
  OBVIOUS
<1>3. (tl + k) % buf_size = Place(tl, k)
  BY <1>0, <1>1, <1>2 DEF Place, a
<1>4. Place(tl, k) \in 0..buf_size - 1
  BY DEF Place
<1> QED
  BY <1>3, <1>4

-----------------------------------------------------------------------------
(***************************************************************************)
(* What a ring holds, and what an iteration of each loop does to it.       *)
(***************************************************************************)
\* The n bytes of bf from position tl on: Contents, of any values of the
\* variables.
Stored(bf, tl, n) == [k \in 1..n |-> bf[(tl + k - 1) % buf_size]]

\* The same without the remainder.
Placed(bf, tl, n) == [k \in 1..n |-> bf[Place(tl, k - 1)]]

\* Contents is what is stored in the current state.
LEMMA ContentsIs == Contents = Stored(buffer, tail, data_len)
BY DEF Contents, Stored

\* They are a sequence, whose elements are found without the remainder.
LEMMA StoredIs ==
    ASSUME NEW S, NEW bf, bf \in [0..buf_size - 1 -> S],
           NEW tl \in 0..buf_size - 1, NEW n \in 0..buf_size
    PROVE  /\ Stored(bf, tl, n) = Placed(bf, tl, n)
           /\ Stored(bf, tl, n) \in Seq(S)
           /\ Len(Stored(bf, tl, n)) = n
<1>1. ASSUME NEW k \in 1..n
      PROVE  /\ bf[(tl + k - 1) % buf_size] = bf[Place(tl, k - 1)]
             /\ bf[(tl + k - 1) % buf_size] \in S
  <2>1. k - 1 \in 0..buf_size /\ tl + k - 1 = tl + (k - 1)
    OBVIOUS
  <2>2. (tl + (k - 1)) % buf_size = Place(tl, k - 1) /\ Place(tl, k - 1) \in 0..buf_size - 1
    BY <2>1, PlaceIs
  <2> QED
    BY <2>1, <2>2
<1>2. Stored(bf, tl, n) \in [1..n -> S]
  BY <1>1 DEF Stored
<1>3. n \in Nat
  OBVIOUS
<1>4. Stored(bf, tl, n) \in Seq(S) /\ Len(Stored(bf, tl, n)) = n
  BY <1>2, <1>3
<1> QED
  BY <1>1, <1>4 DEF Stored, Placed

\* The ring new is the ring bf, whose first n bytes from tl on are in use, with
\* b written behind them, at h, and m bytes in use.
Written(S, bf, tl, n, h, b, new, m) ==
    /\ bf \in [0..buf_size - 1 -> S] /\ b \in S
    /\ tl \in 0..buf_size - 1 /\ n \in 0..buf_size - 1
    /\ h \in 0..buf_size - 1 /\ h = (tl + n) % buf_size
    /\ new = [bf EXCEPT ![h] = b] /\ m = n + 1

\* A byte written behind the last one is appended.
LEMMA PutStores ==
    ASSUME NEW S, NEW bf, NEW tl, NEW n, NEW h, NEW b, NEW new, NEW m,
           Written(S, bf, tl, n, h, b, new, m)
    PROVE  /\ new \in [0..buf_size - 1 -> S]
           /\ Stored(new, tl, m) = Append(Stored(bf, tl, n), b)
           /\ (h + 1) % buf_size = (tl + m) % buf_size
<1> SUFFICES ASSUME bf \in [0..buf_size - 1 -> S], b \in S,
                    NEW x \in 0..buf_size - 1, NEW y \in 0..buf_size - 1,
                    NEW z \in 0..buf_size - 1, z = (x + y) % buf_size,
                    new = [bf EXCEPT ![z] = b]
             PROVE  /\ new \in [0..buf_size - 1 -> S]
                    /\ Stored(new, x, y + 1) = Append(Stored(bf, x, y), b)
                    /\ (z + 1) % buf_size = (x + (y + 1)) % buf_size
  BY DEF Written
<1> DEFINE s == Stored(bf, x, y)
           t == Stored(new, x, y + 1)
<1>0. y \in 0..buf_size /\ y + 1 \in 0..buf_size /\ 1 \in 0..buf_size
  OBVIOUS
<1>1. z = Place(x, y)
  BY <1>0, PlaceIs
<1>2. new \in [0..buf_size - 1 -> S]
  BY <1>1
<1>3. s = Placed(bf, x, y) /\ s \in Seq(S) /\ Len(s) = y
  BY <1>0, StoredIs, ZenonT(40)
<1>5. t = Placed(new, x, y + 1) /\ t \in Seq(S) /\ Len(t) = y + 1
  BY ONLY <1>0, <1>2, StoredIs, ZenonT(40)
<1>6. \A k \in 1..y : Place(x, k - 1) \in 0..buf_size - 1 /\ Place(x, k - 1) # z
  BY <1>1 DEF Place
<1>7. \A k \in 1..y : new[Place(x, k - 1)] = bf[Place(x, k - 1)]
  BY <1>6
<1>8. new[z] = b
  BY <1>1
<1> HIDE DEF s, t
<1>9. /\ Append(s, b) \in Seq(S) /\ Len(Append(s, b)) = y + 1
      /\ \A k \in 1..y : Append(s, b)[k] = s[k]
      /\ Append(s, b)[y + 1] = b
  BY <1>3, AppendProperties
<1>10. \A k \in 1..y + 1 : t[k] = Append(s, b)[k]
  <2>1. \A k \in 1..y : k \in 1..y + 1
    OBVIOUS
  <2>2. \A k \in 1..y : t[k] = Append(s, b)[k]
    BY <2>1, <1>3, <1>5, <1>7, <1>9 DEF Placed
  <2>3. y + 1 \in 1..y + 1 /\ (y + 1) - 1 = y
    OBVIOUS
  <2>4. t[y + 1] = b
    BY <2>3, <1>1, <1>5, <1>8 DEF Placed
  <2>5. \A k \in 1..y + 1 : k \in 1..y \/ k = y + 1
    OBVIOUS
  <2> QED
    BY <2>2, <2>4, <2>5, <1>9
<1>11. t = Append(s, b)
  BY <1>5, <1>9, <1>10, SeqEqual
<1>12. (z + 1) % buf_size = (x + (y + 1)) % buf_size
  <2>1. (z + 1) % buf_size = Place(z, 1) /\ (x + (y + 1)) % buf_size = Place(x, y + 1)
    BY <1>0, PlaceIs
  <2> QED
    BY <1>1, <2>1 DEF Place
<1> QED
  BY <1>2, <1>11, <1>12 DEF s, t

\* The byte at the first position is the head; what is behind it is the tail.
LEMMA PopTakes ==
    ASSUME NEW S, NEW bf, bf \in [0..buf_size - 1 -> S],
           NEW tl \in 0..buf_size - 1, NEW n \in 1..buf_size,
           NEW h \in 0..buf_size - 1, h = (tl + 1) % buf_size
    PROVE  /\ Head(Stored(bf, tl, n)) = bf[tl]
           /\ Tail(Stored(bf, tl, n)) = Stored(bf, h, n - 1)
           /\ (h + (n - 1)) % buf_size = (tl + n) % buf_size
<1> DEFINE s == Stored(bf, tl, n)
           t == Stored(bf, h, n - 1)
<1>0. n \in 0..buf_size /\ n - 1 \in 0..buf_size /\ 1 \in 0..buf_size
  OBVIOUS
<1>1. h = Place(tl, 1)
  BY <1>0, PlaceIs
<1>2. s = Placed(bf, tl, n) /\ s \in Seq(S) /\ Len(s) = n
  BY <1>0, StoredIs, ZenonT(40)
<1>4. t = Placed(bf, h, n - 1) /\ t \in Seq(S) /\ Len(t) = n - 1
  BY <1>0, StoredIs, ZenonT(40)
<1>5. Place(tl, 0) = tl
  BY DEF Place
<1>6. \A k \in 1..n - 1 : Place(h, k - 1) = Place(tl, k)
  BY <1>1 DEF Place
<1> HIDE DEF s, t
<1>7. Head(s) = bf[tl]
  <2>1. s # <<>> /\ 1 \in 1..n /\ 1 - 1 = 0
    BY <1>2
  <2>2. Head(s) = s[1]
    BY <1>2, <2>1
  <2> QED
    BY <1>2, <1>5, <2>1, <2>2 DEF Placed
<1>8. Tail(s) = t
  <2>1. Tail(s) \in Seq(S) /\ Len(Tail(s)) = n - 1 /\ \A k \in 1..n - 1 : Tail(s)[k] = s[k + 1]
    BY <1>2, HeadTailProperties, EmptySeq
  <2>2. ASSUME NEW k \in 1..n - 1 PROVE Tail(s)[k] = t[k]
    <3>1. k + 1 \in 1..n /\ (k + 1) - 1 = k
      OBVIOUS
    <3> QED
      BY <3>1, <2>1, <1>2, <1>4, <1>6 DEF Placed
  <2> QED
    BY <2>1, <2>2, <1>4, SeqEqual
<1>9. (h + (n - 1)) % buf_size = (tl + n) % buf_size
  <2>1. (h + (n - 1)) % buf_size = Place(h, n - 1) /\ (tl + n) % buf_size = Place(tl, n)
    BY <1>0, PlaceIs
  <2> QED
    BY <1>1, <2>1 DEF Place
<1> QED
  BY <1>1, <1>7, <1>8, <1>9 DEF s, t

-----------------------------------------------------------------------------
(***************************************************************************)
(* The inductive invariant.  TypeOK and RingConsistent do not say who may  *)
(* change the ring, nor what a loop that is half done has done: a call is  *)
(* inside its body exactly while its thread holds the lock, a fifo_pop has *)
(* copied as many bytes as its counter says, and the newest bytes of the   *)
(* ring during a fifo_put are the beginning of its data.                   *)
(***************************************************************************)
InBody(t) == pc[t] \in Calls \X {"body"}

LockHeld == \A t \in Threads : InBody(t) <=> rwlock = t

Outside(t) ==
    /\ pc[t] # <<"pop", "body">> => buf[t] = <<>>
    /\ pc[t] \notin {<<"put", "body">>, <<"pop", "body">>} => i[t] = 0
    /\ pc[t] \in {<<"put", "lock">>, <<"put", "body">>} => len[t] = Len(data[t])

Popping(t) == pc[t] = <<"pop", "body">> => Len(buf[t]) = i[t]

\* What the ring held when the fifo_put of t began.
Older(t) == SubSeq(Contents, 1, data_len - i[t])

Putting(t) ==
    pc[t] = <<"put", "body">> =>
        /\ i[t] <= data_len
        /\ Contents = Older(t) \o SubSeq(data[t], 1, i[t])

CallInv == \A t \in Threads : Outside(t) /\ Popping(t) /\ Putting(t)

FInv == TypeOK /\ RingConsistent /\ LockHeld /\ CallInv

-----------------------------------------------------------------------------
(***************************************************************************)
(* The ring under each kind of action.                                     *)
(***************************************************************************)
\* Contents is a sequence of bytes.
LEMMA ContentsType ==
    ASSUME TypeOK, RingConsistent
    PROVE  /\ Contents \in Seq(Byte)
           /\ Len(Contents) = data_len
           /\ data_len = 0 <=> Contents = <<>>
<1>1. data_len \in Nat
  BY DEF TypeOK
<1>2. Contents \in [1..data_len -> Byte]
  BY DEF Contents, RingConsistent
<1>3. Contents \in Seq(Byte) /\ Len(Contents) = data_len
  BY <1>1, <1>2
<1> QED
  BY <1>3, EmptySeq

\* An action that leaves the ring alone leaves what is in it alone.
LEMMA RingStays ==
    ASSUME RingConsistent, UNCHANGED ring
    PROVE  Contents' = Contents /\ RingConsistent'
<1>1. Contents' = Contents
  BY DEF ring, Contents
<1> QED
  BY <1>1 DEF ring, RingConsistent

\* An iteration of the loop of fifo_put appends one byte.
LEMMA PutByteRing ==
    ASSUME TypeOK, RingConsistent, NEW t \in Threads, PutByte(t), len[t] = Len(data[t])
    PROVE  /\ data[t][i[t] + 1] \in Byte
           /\ Contents' = Append(Contents, data[t][i[t] + 1])
           /\ buffer' \in [0..buf_size - 1 -> Byte \cup {0}]
           /\ head' \in 0..buf_size - 1
           /\ data_len' \in 0..buf_size
           /\ RingConsistent'
<1> DEFINE b == data[t][i[t] + 1]
           S == Byte \cup {0}
<1>1. /\ buffer \in [0..buf_size - 1 -> S] /\ head \in 0..buf_size - 1
      /\ tail \in 0..buf_size - 1 /\ data_len \in 0..buf_size
      /\ i[t] \in 0..MaxLen /\ data[t] \in Seq(Byte)
  BY DEF TypeOK
<1>2. i[t] < len[t] /\ data_len \in 0..buf_size - 1
  BY <1>1 DEF PutByte, Full
<1>3. b \in Byte
  <2>1. i[t] + 1 \in 1..Len(data[t])
    <3>1. Len(data[t]) \in Nat
      BY <1>1, LenProperties
    <3> QED
      BY <3>1, <1>1, <1>2
  <2> QED
    BY <2>1, <1>1, ElementOfSeq
<1>4. /\ buffer' = [buffer EXCEPT ![head] = b] /\ head' = (head + 1) % buf_size
      /\ data_len' = data_len + 1 /\ tail' = tail
  BY DEF PutByte, Step
<1>5. head = (tail + data_len) % buf_size
  BY DEF RingConsistent
<1> HIDE DEF b, S
<1>6. b \in S
  BY <1>3 DEF S
<1>w. Written(S, buffer, tail, data_len, head, b, buffer', data_len')
  BY <1>1, <1>2, <1>4, <1>5, <1>6 DEF Written
<1>7. /\ buffer' \in [0..buf_size - 1 -> S]
      /\ Stored(buffer', tail, data_len') = Append(Stored(buffer, tail, data_len), b)
      /\ (head + 1) % buf_size = (tail + data_len') % buf_size
  BY <1>w, PutStores
<1>8. Contents' = Stored(buffer', tail', data_len')
  BY DEF Contents, Stored
<1>9. Contents' = Append(Contents, b)
  BY <1>4, <1>7, <1>8, ContentsIs
<1>10. data_len' \in 0..buf_size
  BY <1>2, <1>4
<1>11. head' \in 0..buf_size - 1
  <2>1. 1 \in 0..buf_size
    OBVIOUS
  <2>2. (head + 1) % buf_size = Place(head, 1) /\ Place(head, 1) \in 0..buf_size - 1
    BY <2>1, <1>1, PlaceIs
  <2> QED
    BY <1>4, <2>2
<1>12. RingConsistent'
  <2>1. head' = (tail' + data_len') % buf_size
    BY <1>4, <1>7
  <2>2. Contents \in Seq(Byte) /\ Len(Contents) = data_len
    BY ContentsType
  <2>3. Append(Contents, b) \in Seq(Byte) /\ Len(Append(Contents, b)) = data_len + 1
    BY <2>2, <1>3, AppendProperties
  <2>4. \A k \in 1..data_len + 1 : Append(Contents, b)[k] \in Byte
    BY <2>3, ElementOfSeq
  <2>5. \A k \in 1..data_len' : Contents'[k] \in Byte
    BY <2>4, <1>4, <1>9
  <2> QED
    BY <2>1, <2>5 DEF RingConsistent
<1> QED
  BY <1>3, <1>4, <1>7, <1>9, <1>10, <1>11, <1>12 DEF b, S

\* An iteration of the loop of fifo_pop takes the oldest byte.
LEMMA PopByteRing ==
    ASSUME TypeOK, RingConsistent, NEW t \in Threads, PopByte(t)
    PROVE  /\ Contents # <<>>
           /\ buffer[tail] = Head(Contents)
           /\ Contents' = Tail(Contents)
           /\ tail' \in 0..buf_size - 1
           /\ data_len' \in 0..buf_size
           /\ RingConsistent'
<1> DEFINE S == Byte \cup {0}
           h == Step(tail)
<1>1. /\ buffer \in [0..buf_size - 1 -> S]
      /\ tail \in 0..buf_size - 1 /\ data_len \in 0..buf_size
  BY DEF TypeOK
<1>2. data_len \in 1..buf_size
  BY <1>1 DEF PopByte, Empty
<1>3. head' = head /\ buffer' = buffer /\ tail' = h /\ data_len' = data_len - 1
  BY DEF PopByte
<1>4. h = (tail + 1) % buf_size
  BY DEF Step
<1>5. head = (tail + data_len) % buf_size
  BY DEF RingConsistent
<1> HIDE DEF S, h
<1>6. h \in 0..buf_size - 1
  <2>1. 1 \in 0..buf_size
    OBVIOUS
  <2>2. (tail + 1) % buf_size = Place(tail, 1) /\ Place(tail, 1) \in 0..buf_size - 1
    BY <2>1, <1>1, PlaceIs
  <2> QED
    BY <1>4, <2>2
<1>7. /\ Head(Stored(buffer, tail, data_len)) = buffer[tail]
      /\ Tail(Stored(buffer, tail, data_len)) = Stored(buffer, h, data_len - 1)
      /\ (h + (data_len - 1)) % buf_size = (tail + data_len) % buf_size
  BY <1>1, <1>2, <1>4, <1>6, PopTakes
<1>8. Contents' = Stored(buffer', tail', data_len')
  BY DEF Contents, Stored
<1>9. Contents' = Tail(Contents) /\ buffer[tail] = Head(Contents)
  BY <1>3, <1>7, <1>8, ContentsIs
<1>10. Contents \in Seq(Byte) /\ Len(Contents) = data_len /\ Contents # <<>>
  BY <1>2, ContentsType
<1>11. RingConsistent'
  <2>1. head' = (tail' + data_len') % buf_size
    BY <1>3, <1>5, <1>7
  <2>2. Tail(Contents) \in Seq(Byte) /\ Len(Tail(Contents)) = data_len - 1
    BY <1>10, HeadTailProperties
  <2>3. \A k \in 1..data_len - 1 : Tail(Contents)[k] \in Byte
    BY <2>2, ElementOfSeq
  <2>4. \A k \in 1..data_len' : Contents'[k] \in Byte
    BY <2>3, <1>3, <1>9
  <2> QED
    BY <2>1, <2>4 DEF RingConsistent
<1>12. data_len' \in 0..buf_size
  BY <1>2, <1>3
<1> QED
  BY <1>3, <1>6, <1>9, <1>10, <1>11, <1>12

-----------------------------------------------------------------------------
(***************************************************************************)
(* Every action preserves the invariant.                                   *)
(***************************************************************************)
\* Pairs with different second components differ.
LEMMA Phases ==
    \A op \in Calls : /\ <<op, "body">> \in Calls \X {"body"}
                      /\ <<op, "lock">> \notin Calls \X {"body"}
                      /\ <<"idle", "idle">> \notin Calls \X {"body"}
                      /\ <<op, "body">> # <<"idle", "idle">>
                      /\ <<op, "body">> # <<op, "lock">>
BY DEF Calls

\* An empty ring, and nobody in a call.
LEMMA FInvInit == Init => FInv
<1> SUFFICES ASSUME Init PROVE FInv
  OBVIOUS
<1>1. TypeOK
  <2>1. <<>> \in Seq(Byte)
    BY EmptySeq
  <2>2. buf_size - 1 \in Nat /\ 0 \in 0..buf_size - 1 /\ 0 \in 0..buf_size /\ 0 \in 0..MaxLen /\ 0 <= 0
    OBVIOUS
  <2> QED
    BY <2>1, <2>2 DEF Init, TypeOK
<1>2. RingConsistent
  <2>1. 0 \in 0..buf_size - 1 /\ 0 \in 0..buf_size
    OBVIOUS
  <2>2. (0 + 0) % buf_size = Place(0, 0)
    BY <2>1, PlaceIs
  <2> QED
    BY <2>1, <2>2 DEF Init, RingConsistent, Place
<1>3. LockHeld
  BY Phases DEF Init, LockHeld, InBody
<1>4. CallInv
  <2>1. \A t \in Threads : pc[t] = <<"idle", "idle">> /\ buf[t] = <<>> /\ i[t] = 0
    BY DEF Init
  <2>2. \A op, at : at # "idle" => <<op, at>> # <<"idle", "idle">>
    OBVIOUS
  <2>3. <<"idle", "idle">> \notin {<<"put", "body">>, <<"pop", "body">>, <<"put", "lock">>}
    BY <2>2
  <2> QED
    BY <2>1, <2>3 DEF CallInv, Outside, Popping, Putting
<1> QED
  BY <1>1, <1>2, <1>3, <1>4 DEF FInv

\* Data, as sequences.
LEMMA DataIs == \A d : d \in Data <=> d \in Seq(Byte) /\ Len(d) <= MaxLen
<1>1. ASSUME NEW d \in Data PROVE d \in Seq(Byte) /\ Len(d) <= MaxLen
  <2>1. PICK n \in 0..MaxLen : d \in [1..n -> Byte]
    BY DEF Data
  <2>2. n \in Nat
    OBVIOUS
  <2>3. d \in Seq(Byte) /\ Len(d) = n
    BY <2>1, <2>2
  <2> QED
    BY <2>3
<1>2. ASSUME NEW d \in Seq(Byte), Len(d) <= MaxLen PROVE d \in Data
  <2>1. Len(d) \in Nat /\ d \in [1..Len(d) -> Byte]
    BY LenProperties
  <2>2. Len(d) \in 0..MaxLen
    BY <2>1, <1>2
  <2> QED
    BY <2>1, <2>2 DEF Data
<1> QED
  BY <1>1, <1>2

\* Starting a call touches neither the ring nor the lock.
LEMMA EnterPreserves ==
    ASSUME FInv, NEW t \in Threads, NEW op \in Calls, NEW d \in Data, NEW n \in 0..MaxLen,
           Call(t, op, d, n), op = "put" => n = Len(d)
    PROVE  FInv'
<1>0. /\ TypeOK /\ RingConsistent /\ LockHeld /\ CallInv
      /\ pc[t] = <<"idle", "idle">> /\ pc' = [pc EXCEPT ![t] = <<op, "lock">>]
      /\ data' = [data EXCEPT ![t] = d] /\ len' = [len EXCEPT ![t] = n]
      /\ UNCHANGED <<ring, rwlock, buf, i, answer>>
  BY DEF FInv, Call, Goto
<1>1. UNCHANGED <<buffer, head, tail, data_len>> /\ Contents' = Contents /\ RingConsistent'
  BY <1>0, RingStays DEF ring
<1>2. d \in Seq(Byte)
  BY DataIs
<1>3. i[t] = 0 /\ buf[t] = <<>>
  <2>1. pc[t] \notin {<<"put", "body">>, <<"pop", "body">>}
    BY <1>0
  <2> QED
    BY <2>1, <1>0 DEF CallInv, Outside
<1>4. TypeOK'
  <2>1. <<op, "lock">> \in Calls \X {"lock", "body"}
    OBVIOUS
  <2>2. \A u \in Threads : i'[u] <= len'[u]
    BY <1>0, <1>3 DEF TypeOK
  <2> QED
    BY <1>0, <1>1, <1>2, <2>1, <2>2 DEF TypeOK
<1>5. LockHeld'
  <2>1. ASSUME NEW u \in Threads PROVE InBody(u)' <=> InBody(u)
    BY <1>0, Phases DEF InBody, TypeOK
  <2> QED
    BY <2>1, <1>0 DEF LockHeld
<1>6. CallInv'
  <2> SUFFICES ASSUME NEW u \in Threads PROVE (Outside(u) /\ Popping(u) /\ Putting(u))'
    BY DEF CallInv
  <2>1. Outside(u) /\ Popping(u) /\ Putting(u)
    BY <1>0 DEF CallInv
  <2>2. CASE u # t
    <3>1. pc'[u] = pc[u] /\ data'[u] = data[u] /\ len'[u] = len[u] /\ i'[u] = i[u] /\ buf'[u] = buf[u]
      BY <1>0, <2>2 DEF TypeOK
    <3> QED
      BY <2>1, <3>1, <1>1 DEF Outside, Popping, Putting, Older
  <2>3. CASE u = t
    <3>1. /\ pc'[t] = <<op, "lock">> /\ i'[t] = 0 /\ buf'[t] = <<>>
          /\ data'[t] = d /\ len'[t] = n
      BY <1>0, <1>3 DEF TypeOK
    <3>2. pc'[t] \notin {<<"put", "body">>, <<"pop", "body">>} /\ (pc'[t] = <<"put", "lock">> => n = Len(d))
      BY <3>1
    <3> QED
      BY <2>3, <3>1, <3>2 DEF Outside, Popping, Putting
  <2> QED
    BY <2>2, <2>3
<1> QED
  BY <1>1, <1>4, <1>5, <1>6 DEF FInv

\* Whoever takes the lock starts its loop at zero.
LEMMA LockPreserves ==
    ASSUME FInv, NEW t \in Threads, NEW op \in Calls, Lock(t, op)
    PROVE  FInv'
<1>0. /\ TypeOK /\ RingConsistent /\ LockHeld /\ CallInv
      /\ rwlock = Nobody /\ rwlock' = t
      /\ pc[t] = <<op, "lock">> /\ pc' = [pc EXCEPT ![t] = <<op, "body">>]
      /\ i' = [i EXCEPT ![t] = 0]
      /\ UNCHANGED <<ring, call, answer>>
  BY DEF FInv, Lock, LockFree, Goto
<1>1. /\ UNCHANGED <<buffer, head, tail, data_len, data, len, buf>>
      /\ Contents' = Contents /\ RingConsistent'
  BY <1>0, RingStays DEF ring, call
<1>2. TypeOK'
  <2>1. <<op, "body">> \in Calls \X {"lock", "body"}
    OBVIOUS
  <2>2. 0 \in 0..MaxLen /\ \A n \in 0..MaxLen : 0 <= n
    OBVIOUS
  <2>3. \A u \in Threads : i'[u] <= len'[u]
    BY <1>0, <1>1, <2>2 DEF TypeOK
  <2> QED
    BY <1>0, <1>1, <2>1, <2>2, <2>3 DEF TypeOK
<1>3. LockHeld'
  <2> SUFFICES ASSUME NEW u \in Threads PROVE InBody(u)' <=> rwlock' = u
    BY DEF LockHeld
  <2>1. ~InBody(u)
    BY <1>0 DEF LockHeld
  <2>2. InBody(u)' <=> u = t
    BY <1>0, <2>1, Phases DEF InBody, TypeOK
  <2> QED
    BY <2>2, <1>0
<1>4. CallInv'
  <2> SUFFICES ASSUME NEW u \in Threads PROVE (Outside(u) /\ Popping(u) /\ Putting(u))'
    BY DEF CallInv
  <2>1. Outside(u) /\ Popping(u) /\ Putting(u)
    BY <1>0 DEF CallInv
  <2>2. CASE u # t
    <3>1. pc'[u] = pc[u] /\ i'[u] = i[u]
      BY <1>0, <2>2 DEF TypeOK
    <3> QED
      BY <2>1, <3>1, <1>1 DEF Outside, Popping, Putting, Older
  <2>3. CASE u = t
    <3>1. pc'[t] = <<op, "body">> /\ i'[t] = 0
      BY <1>0 DEF TypeOK
    <3>2. pc[t] # <<"pop", "body">> /\ (op = "put" => pc[t] = <<"put", "lock">>)
      BY <1>0
    <3>3. buf[t] = <<>> /\ (op = "put" => len[t] = Len(data[t]))
      BY <2>1, <2>3, <3>2 DEF Outside
    <3>4. Outside(t)'
      <4>1. pc'[t] \in {<<"put", "lock">>, <<"put", "body">>} => op = "put"
        BY <3>1
      <4> QED
        BY <3>1, <3>3, <4>1, <1>1 DEF Outside
    <3>5. Popping(t)'
      <4>1. Len(<<>>) = 0
        OBVIOUS
      <4> QED
        BY <3>1, <3>3, <4>1, <1>1 DEF Popping
    <3>6. Putting(t)'
      <4>1. Contents \in Seq(Byte) /\ Len(Contents) = data_len /\ data_len \in Nat
        BY <1>0, ContentsType DEF TypeOK
      <4>2. SubSeq(Contents, 1, data_len) = Contents
        BY <4>1, SubSeqFull
      <4>3. SubSeq(data[t], 1, 0) = <<>>
        BY SubSeqEmpty
      <4>4. Contents \o <<>> = Contents
        BY <4>1, ConcatEmptySeq
      <4>5. Older(t)' = Contents
        BY <4>1, <4>2, <3>1, <1>1 DEF Older
      <4> QED
        BY <4>1, <4>3, <4>4, <4>5, <3>1, <1>1 DEF Putting
    <3> QED
      BY <2>3, <3>4, <3>5, <3>6
  <2> QED
    BY <2>2, <2>3
<1> QED
  BY <1>1, <1>2, <1>3, <1>4 DEF FInv

\* While t is inside a call, nobody else is.
LEMMA OnlyOne ==
    ASSUME FInv, NEW t \in Threads, NEW u \in Threads, u # t, InBody(t)
    PROVE  /\ rwlock = t
           /\ pc[u] # <<"put", "body">> /\ pc[u] # <<"pop", "body">>
           /\ Outside(u)
<1>1. rwlock = t /\ ~InBody(u)
  BY DEF FInv, LockHeld
<1>2. pc[u] # <<"put", "body">> /\ pc[u] # <<"pop", "body">>
  BY <1>1 DEF InBody, Calls
<1> QED
  BY <1>1, <1>2 DEF FInv, CallInv

\* Returning releases the lock and forgets the call.
LEMMA ReturnPreserves ==
    ASSUME FInv, NEW t \in Threads, NEW op \in Calls, NEW n, Return(t, op, n)
    PROVE  FInv'
<1>0. /\ TypeOK /\ RingConsistent /\ LockHeld /\ CallInv
      /\ rwlock' = Nobody
      /\ pc[t] = <<op, "body">> /\ pc' = [pc EXCEPT ![t] = <<"idle", "idle">>]
      /\ buf' = [buf EXCEPT ![t] = <<>>] /\ data' = [data EXCEPT ![t] = <<>>]
      /\ len' = [len EXCEPT ![t] = 0] /\ i' = [i EXCEPT ![t] = 0]
      /\ UNCHANGED ring
  BY DEF FInv, Return, Goto
<1>1. UNCHANGED <<buffer, head, tail, data_len>> /\ Contents' = Contents /\ RingConsistent'
  BY <1>0, RingStays DEF ring
<1>2. InBody(t)
  BY <1>0, Phases DEF InBody
<1>3. TypeOK'
  <2>1. <<>> \in Seq(Byte) /\ 0 \in 0..MaxLen /\ 0 <= 0
    BY EmptySeq
  <2>2. \A u \in Threads : i'[u] <= len'[u]
    BY <1>0, <2>1 DEF TypeOK
  <2> QED
    BY <1>0, <1>1, <2>1, <2>2 DEF TypeOK
<1>4. LockHeld'
  <2> SUFFICES ASSUME NEW u \in Threads PROVE InBody(u)' <=> rwlock' = u
    BY DEF LockHeld
  <2>1. u # t => ~InBody(u)
    BY <1>0, <1>2 DEF LockHeld
  <2>2. ~InBody(u)'
    BY <1>0, <2>1, Phases DEF InBody, TypeOK
  <2> QED
    BY <2>2, <1>0
<1>5. CallInv'
  <2> SUFFICES ASSUME NEW u \in Threads PROVE (Outside(u) /\ Popping(u) /\ Putting(u))'
    BY DEF CallInv
  <2>2. CASE u # t
    <3>1. pc'[u] = pc[u] /\ data'[u] = data[u] /\ len'[u] = len[u] /\ i'[u] = i[u] /\ buf'[u] = buf[u]
      BY <1>0, <2>2 DEF TypeOK
    <3> QED
      BY <2>2, <1>2, OnlyOne, <3>1 DEF Outside, Popping, Putting
  <2>3. CASE u = t
    <3>1. pc'[t] = <<"idle", "idle">> /\ i'[t] = 0 /\ buf'[t] = <<>>
      BY <1>0 DEF TypeOK
    <3>2. \A o, at : at # "idle" => <<o, at>> # <<"idle", "idle">>
      OBVIOUS
    <3>3. pc'[t] \notin {<<"put", "body">>, <<"pop", "body">>, <<"put", "lock">>}
      BY <3>1, <3>2
    <3> QED
      BY <2>3, <3>1, <3>3 DEF Outside, Popping, Putting
  <2> QED
    BY <2>2, <2>3
<1> QED
  BY <1>1, <1>3, <1>4, <1>5 DEF FInv

\* An iteration of fifo_put's loop moves one byte of the data into the ring.
LEMMA PutBytePreserves ==
    ASSUME FInv, NEW t \in Threads, PutByte(t)
    PROVE  FInv' /\ Older(t)' = Older(t)
<1> DEFINE b == data[t][i[t] + 1]
<1>0. /\ TypeOK /\ RingConsistent /\ LockHeld /\ CallInv
      /\ pc[t] = <<"put", "body">> /\ i[t] < len[t]
      /\ data_len' = data_len + 1 /\ i' = [i EXCEPT ![t] = i[t] + 1]
      /\ UNCHANGED <<tail, rwlock, pc, data, len, buf>>
  BY DEF FInv, PutByte, call
<1>1. InBody(t)
  BY <1>0, Phases DEF InBody, Calls
<1>2. /\ i[t] \in 0..MaxLen /\ len[t] \in 0..MaxLen /\ data[t] \in Seq(Byte)
      /\ data_len \in Nat /\ i[t] <= data_len /\ len[t] = Len(data[t])
      /\ Contents = Older(t) \o SubSeq(data[t], 1, i[t])
  <2>1. Outside(t) /\ Putting(t)
    BY <1>0 DEF CallInv
  <2>2. len[t] = Len(data[t])
    BY <2>1, <1>0 DEF Outside
  <2>3. i[t] <= data_len /\ Contents = Older(t) \o SubSeq(data[t], 1, i[t])
    BY <2>1, <1>0 DEF Putting
  <2> QED
    BY <2>2, <2>3, <1>0 DEF TypeOK
<1>3. /\ b \in Byte /\ Contents' = Append(Contents, b)
      /\ buffer' \in [0..buf_size - 1 -> Byte \cup {0}]
      /\ head' \in 0..buf_size - 1 /\ data_len' \in 0..buf_size
      /\ RingConsistent'
  BY <1>0, <1>2, PutByteRing
<1>4. i'[t] = i[t] + 1 /\ \A u \in Threads : u # t => i'[u] = i[u]
  BY <1>0 DEF TypeOK
<1> HIDE DEF b
<1>5. TypeOK'
  <2>1. i[t] + 1 \in 0..MaxLen /\ i[t] + 1 <= len[t]
    BY <1>0, <1>2
  <2>2. \A u \in Threads : i'[u] <= len'[u]
    BY <1>0, <1>4, <2>1 DEF TypeOK
  <2> QED
    BY <1>0, <1>3, <2>1, <2>2 DEF TypeOK
<1>6. LockHeld'
  BY <1>0 DEF LockHeld, InBody
<1>7. Contents \in Seq(Byte) /\ Len(Contents) = data_len
  BY <1>0, ContentsType
<1>8. Older(t)' = Older(t)
  <2>1. data_len - i[t] \in 0..Len(Contents) /\ data_len' - i'[t] = data_len - i[t]
    BY <1>0, <1>2, <1>4, <1>7
  <2>2. SubSeq(Append(Contents, b), 1, data_len - i[t]) = SubSeq(Contents, 1, data_len - i[t])
    BY <2>1, <1>3, <1>7, AppendPrefix
  <2> QED
    BY <2>1, <2>2, <1>3 DEF Older
<1>9. Putting(t)'
  <2>1. i'[t] <= data_len'
    BY <1>0, <1>2, <1>4
  <2>2. i[t] \in 0..Len(data[t]) - 1
    BY <1>0, <1>2
  <2>3. SubSeq(data[t], 1, i[t] + 1) = Append(SubSeq(data[t], 1, i[t]), b)
    BY <2>2, <1>2, PrefixGrows DEF b
  <2>4. Older(t) \in Seq(Byte) /\ SubSeq(data[t], 1, i[t]) \in Seq(Byte)
    <3>1. i[t] \in 0..Len(data[t]) /\ data_len - i[t] \in 0..Len(Contents)
      BY <2>2, <1>2, <1>7
    <3>2. SubSeq(Contents, 1, data_len - i[t]) \in Seq(Byte)
      BY <3>1, <1>7, CutJoins
    <3>3. SubSeq(data[t], 1, i[t]) \in Seq(Byte)
      BY <3>1, <1>2, CutJoins
    <3> QED
      BY <3>2, <3>3 DEF Older
  <2>5. Append(Older(t) \o SubSeq(data[t], 1, i[t]), b)
           = Older(t) \o Append(SubSeq(data[t], 1, i[t]), b)
    <3> DEFINE older == Older(t)
               done == SubSeq(data[t], 1, i[t])
    <3>1. older \in Seq(Byte) /\ done \in Seq(Byte) /\ b \in Byte
      BY <2>4, <1>3
    <3> HIDE DEF older, done
    <3>2. Append(older \o done, b) = older \o Append(done, b)
      <4>1. older \o done \in Seq(Byte) /\ <<b>> \in Seq(Byte)
        BY <3>1, ConcatProperties
      <4>2. Append(older \o done, b) = (older \o done) \o <<b>>
        BY <3>1, <4>1, AppendIsConcat
      <4>3. Append(done, b) = done \o <<b>>
        BY <3>1, AppendIsConcat
      <4>4. (older \o done) \o <<b>> = older \o (done \o <<b>>)
        BY <3>1, <4>1, ConcatAssociative
      <4> QED
        BY <4>2, <4>3, <4>4
    <3> QED
      BY <3>2 DEF older, done
  <2>6. Contents' = Older(t) \o SubSeq(data[t], 1, i[t] + 1)
    BY <2>3, <2>5, <1>2, <1>3
  <2> QED
    BY <2>1, <2>6, <1>0, <1>4, <1>8 DEF Putting
<1>10. CallInv'
  <2> SUFFICES ASSUME NEW u \in Threads PROVE (Outside(u) /\ Popping(u) /\ Putting(u))'
    BY DEF CallInv
  <2>1. CASE u # t
    BY <2>1, <1>0, <1>1, <1>4, OnlyOne DEF Outside, Popping, Putting
  <2>2. CASE u = t
    <3>1. pc'[t] = <<"put", "body">> /\ pc'[t] # <<"pop", "body">>
      BY <1>0
    <3>2. buf'[t] = <<>> /\ len'[t] = Len(data'[t])
      BY <3>1, <1>0, <1>2 DEF CallInv, Outside
    <3> QED
      BY <2>2, <3>1, <3>2, <1>9 DEF Outside, Popping
  <2> QED
    BY <2>1, <2>2
<1> QED
  BY <1>3, <1>5, <1>6, <1>8, <1>10 DEF FInv

\* An iteration of fifo_pop's loop moves one byte from the ring to the caller.
LEMMA PopBytePreserves ==
    ASSUME FInv, NEW t \in Threads, PopByte(t)
    PROVE  FInv' /\ buf'[t] \o Contents' = buf[t] \o Contents
<1>0. /\ TypeOK /\ RingConsistent /\ LockHeld /\ CallInv
      /\ pc[t] = <<"pop", "body">> /\ i[t] < len[t]
      /\ data_len' = data_len - 1 /\ i' = [i EXCEPT ![t] = i[t] + 1]
      /\ buf' = [buf EXCEPT ![t] = Append(buf[t], buffer[tail])]
      /\ UNCHANGED <<buffer, head, rwlock, pc, data, len>>
  BY DEF FInv, PopByte
<1>1. InBody(t)
  BY <1>0, Phases DEF InBody, Calls
<1>2. /\ i[t] \in 0..MaxLen /\ len[t] \in 0..MaxLen /\ buf[t] \in Seq(Byte)
      /\ Len(buf[t]) = i[t]
  BY <1>0 DEF TypeOK, CallInv, Popping
<1>3. /\ Contents # <<>> /\ buffer[tail] = Head(Contents) /\ Contents' = Tail(Contents)
      /\ tail' \in 0..buf_size - 1 /\ data_len' \in 0..buf_size /\ RingConsistent'
  BY <1>0, PopByteRing
<1>4. /\ i'[t] = i[t] + 1 /\ buf'[t] = Append(buf[t], buffer[tail])
      /\ \A u \in Threads : u # t => i'[u] = i[u] /\ buf'[u] = buf[u]
  BY <1>0 DEF TypeOK
<1>5. Contents \in Seq(Byte) /\ Head(Contents) \in Byte
  BY <1>0, <1>3, ContentsType, HeadTailProperties
<1>6. /\ Append(buf[t], buffer[tail]) \in Seq(Byte)
      /\ Len(Append(buf[t], buffer[tail])) = i[t] + 1
  BY <1>2, <1>3, <1>5, AppendProperties
<1>7. TypeOK'
  <2>1. i[t] + 1 \in 0..MaxLen /\ i[t] + 1 <= len[t]
    BY <1>0, <1>2
  <2>2. \A u \in Threads : i'[u] <= len'[u]
    BY <1>0, <1>4, <2>1 DEF TypeOK
  <2> QED
    BY <1>0, <1>3, <1>6, <2>1, <2>2 DEF TypeOK
<1>8. LockHeld'
  BY <1>0 DEF LockHeld, InBody
<1>9. CallInv'
  <2> SUFFICES ASSUME NEW u \in Threads PROVE (Outside(u) /\ Popping(u) /\ Putting(u))'
    BY DEF CallInv
  <2>1. CASE u # t
    BY <2>1, <1>0, <1>1, <1>4, OnlyOne DEF Outside, Popping, Putting
  <2>2. CASE u = t
    <3>1. pc[t] \notin {<<"put", "lock">>, <<"put", "body">>}
      BY <1>0
    <3> QED
      BY <2>2, <3>1, <1>0, <1>4, <1>6 DEF Outside, Popping, Putting
  <2> QED
    BY <2>1, <2>2
<1>10. buf'[t] \o Contents' = buf[t] \o Contents
  <2>1. buf[t] \o Contents = Append(buf[t], Head(Contents)) \o Tail(Contents)
    BY <1>2, <1>3, <1>5, MoveHead
  <2> QED
    BY <2>1, <1>3, <1>4
<1> QED
  BY <1>3, <1>7, <1>8, <1>9, <1>10 DEF FInv

\* Every step keeps the invariant: a byte moves one field at a time only under the lock.
LEMMA FInvStep == FInv /\ [Next]_vars => FInv'
<1> SUFFICES ASSUME FInv, [Next]_vars PROVE FInv'
  OBVIOUS
<1>1. CASE UNCHANGED vars
  <2>1. UNCHANGED <<buffer, head, tail, data_len, rwlock, pc, data, len, i, buf>>
    BY <1>1 DEF vars, ring, call
  <2>2. Contents' = Contents
    BY <2>1 DEF Contents
  <2> QED
    BY <2>1, <2>2 DEF FInv, TypeOK, RingConsistent, LockHeld, InBody, CallInv, Outside,
                      Popping, Putting, Older
<1>2. ASSUME NEW t \in Threads, Enter(t) PROVE FInv'
  <2>1. "put" \in Calls /\ "pop" \in Calls /\ "full" \in Calls /\ "empty" \in Calls
    BY DEF Calls
  <2>2. <<>> \in Data /\ 0 \in 0..MaxLen
    <3>1. 0 \in 0..MaxLen /\ 1..0 = {}
      OBVIOUS
    <3>2. <<>> \in [1..0 -> Byte]
      BY <3>1
    <3> QED
      BY <3>1, <3>2 DEF Data
  <2>3. \A d \in Data : Len(d) \in 0..MaxLen
    BY DataIs, LenProperties
  <2> QED
    BY <1>2, <2>1, <2>2, <2>3, EnterPreserves DEF Enter
<1>3. ASSUME NEW t \in Threads, NEW op \in Calls, Lock(t, op) PROVE FInv'
  BY <1>3, LockPreserves
<1>4. ASSUME NEW t \in Threads, PutByte(t) PROVE FInv'
  BY <1>4, PutBytePreserves
<1>5. ASSUME NEW t \in Threads, PopByte(t) PROVE FInv'
  BY <1>5, PopBytePreserves
<1>6. ASSUME NEW t \in Threads, PutEnd(t) \/ PopEnd(t) \/ IsFifoFull(t) \/ IsFifoEmpty(t)
      PROVE  FInv'
  <2>1. PICK op \in Calls, n \in {i[t], IF Full THEN 1 ELSE 0, IF Empty THEN 1 ELSE 0} :
           Return(t, op, n)
    BY <1>6 DEF PutEnd, PopEnd, IsFifoFull, IsFifoEmpty, Calls
  <2> QED
    BY <2>1, ReturnPreserves
<1> QED
  BY <1>1, <1>2, <1>3, <1>4, <1>5, <1>6 DEF Next

-----------------------------------------------------------------------------
(***************************************************************************)
(* The theorems.                                                           *)
(***************************************************************************)
\* FInv holds in every state: what the theorems below rest on.
LEMMA FInvAlways == Spec => []FInv
BY FInvInit, FInvStep, PTL DEF Spec

(***************************************************************************)
(* The indices never leave the buffer and the counters never leave their   *)
(* bounds, whatever the size of the buffer and the lengths of the calls.   *)
(***************************************************************************)
THEOREM TypeCorrect == Spec => []TypeOK
<1>1. FInv => TypeOK
  BY DEF FInv
<1> QED
  BY <1>1, FInvAlways, PTL

(***************************************************************************)
(* head, tail and data_len agree between any two iterations of the loops   *)
(* of fifo_put and fifo_pop, and all the bytes counted have been put.      *)
(***************************************************************************)
THEOREM RingConsistentAlways == Spec => []RingConsistent
<1>1. FInv => RingConsistent
  BY DEF FInv
<1> QED
  BY <1>1, FInvAlways, PTL

\* What the abstract queue holds, by what the thread with the lock is doing.
LEMMA BeforeIs ==
    ASSUME FInv
    PROVE  /\ rwlock = Nobody => Before = Contents
           /\ \A t \in Threads :
                 /\ pc[t] = <<"put", "body">> => rwlock = t /\ Before = Older(t)
                 /\ pc[t] = <<"pop", "body">> => rwlock = t /\ Before = buf[t] \o Contents
                 /\ pc[t] \in {<<"full", "body">>, <<"empty", "body">>} =>
                       rwlock = t /\ Before = Contents
<1>1. \A t \in Threads, op \in Calls : pc[t] = <<op, "body">> => rwlock = t /\ rwlock # Nobody
  BY Phases DEF FInv, LockHeld, InBody
<1>2. rwlock = Nobody => Before = Contents
  BY DEF Before
<1>3. ASSUME NEW t \in Threads, pc[t] = <<"put", "body">> PROVE rwlock = t /\ Before = Older(t)
  <2>1. rwlock = t /\ rwlock # Nobody
    BY <1>1, <1>3 DEF Calls
  <2> QED
    BY <2>1, <1>3 DEF Before, Older
<1>4. ASSUME NEW t \in Threads, pc[t] = <<"pop", "body">>
      PROVE  rwlock = t /\ Before = buf[t] \o Contents
  <2>1. rwlock = t /\ rwlock # Nobody
    BY <1>1, <1>4 DEF Calls
  <2>2. pc[t] # <<"put", "body">>
    BY <1>4
  <2> QED
    BY <2>1, <2>2, <1>4 DEF Before
<1>5. ASSUME NEW t \in Threads, pc[t] \in {<<"full", "body">>, <<"empty", "body">>}
      PROVE  rwlock = t /\ Before = Contents
  <2>1. rwlock = t /\ rwlock # Nobody
    BY <1>1, <1>5 DEF Calls
  <2>2. pc[t] # <<"put", "body">> /\ pc[t] # <<"pop", "body">>
    BY <1>5
  <2> QED
    BY <2>1, <2>2 DEF Before
<1> QED
  BY <1>2, <1>3, <1>4, <1>5

\* A call that starts, or gets the lock, or copies a byte, does not change it.
LEMMA EnterStutters ==
    ASSUME FInv, NEW t \in Threads, NEW op \in Calls, NEW d, NEW n, Call(t, op, d, n)
    PROVE  Before' = Before /\ answer' = answer
<1>1. /\ pc[t] = <<"idle", "idle">> /\ pc' = [pc EXCEPT ![t] = <<op, "lock">>]
      /\ UNCHANGED <<buffer, head, tail, data_len, rwlock, i, buf, answer>>
  BY DEF Call, Goto, ring
<1>2. Contents' = Contents
  BY <1>1 DEF Contents
<1>3. pc'[t] = <<op, "lock">> /\ \A u \in Threads : u # t => pc'[u] = pc[u]
  BY <1>1 DEF FInv, TypeOK
<1>4. \A u \in Threads : /\ pc'[u] = <<"put", "body">> <=> pc[u] = <<"put", "body">>
                         /\ pc'[u] = <<"pop", "body">> <=> pc[u] = <<"pop", "body">>
  <2>1. \A o, at : at # "idle" => <<o, at>> # <<"idle", "idle">>
    OBVIOUS
  <2>2. pc'[t] # <<"put", "body">> /\ pc'[t] # <<"pop", "body">>
    BY <1>3
  <2>3. pc[t] # <<"put", "body">> /\ pc[t] # <<"pop", "body">>
    BY <1>1, <2>1
  <2> QED
    BY <1>3, <2>2, <2>3
<1>5. rwlock \in Threads \cup {Nobody}
  BY DEF FInv, TypeOK
<1> QED
  BY <1>1, <1>2, <1>4, <1>5 DEF Before

\* Taking the lock changes nothing in what the abstract fifo sees.
LEMMA LockStutters ==
    ASSUME FInv, FInv', NEW t \in Threads, NEW op \in Calls, Lock(t, op)
    PROVE  Before' = Before /\ answer' = answer
<1>1. /\ rwlock = Nobody /\ rwlock' = t /\ pc[t] = <<op, "lock">>
      /\ pc' = [pc EXCEPT ![t] = <<op, "body">>] /\ i' = [i EXCEPT ![t] = 0]
      /\ UNCHANGED <<buffer, head, tail, data_len, buf, answer>>
  BY DEF Lock, LockFree, Goto, ring, call
<1>2. Contents' = Contents /\ data_len' = data_len
  BY <1>1 DEF Contents
<1>3. pc'[t] = <<op, "body">> /\ i'[t] = 0
  BY <1>1 DEF FInv, TypeOK
<1>4. Before = Contents
  BY <1>1, BeforeIs
<1>5. Contents \in Seq(Byte) /\ Len(Contents) = data_len /\ data_len \in Nat
  BY ContentsType DEF FInv, TypeOK
<1>6. t # Nobody
  OBVIOUS
<1>7. CASE op = "put"
  <2>1. Before' = SubSeq(Contents, 1, data_len - 0)
    BY <1>1, <1>2, <1>3, <1>6, <1>7 DEF Before
  <2>2. SubSeq(Contents, 1, data_len) = Contents
    BY <1>5, SubSeqFull
  <2> QED
    BY <2>1, <2>2, <1>1, <1>4, <1>5
<1>8. CASE op = "pop"
  <2>1. buf[t] = <<>>
    <3>1. pc[t] # <<"pop", "body">>
      BY <1>1
    <3> QED
      BY <3>1 DEF FInv, CallInv, Outside
  <2>2. pc'[t] = <<"pop", "body">> /\ pc'[t] # <<"put", "body">>
    BY <1>3, <1>8
  <2>3. Before' = <<>> \o Contents
    BY <2>1, <2>2, <1>1, <1>2, <1>6 DEF Before
  <2>4. <<>> \o Contents = Contents
    BY <1>5, ConcatEmptySeq
  <2> QED
    BY <2>3, <2>4, <1>1, <1>4
<1>9. CASE op # "put" /\ op # "pop"
  <2>1. pc'[t] # <<"put", "body">> /\ pc'[t] # <<"pop", "body">>
    BY <1>3, <1>9
  <2> QED
    BY <2>1, <1>1, <1>2, <1>4 DEF Before
<1> QED
  BY <1>7, <1>8, <1>9

\* Nor does a byte inside a call: the abstract fifo sees the ring as it was at the lock.
LEMMA ByteStutters ==
    ASSUME FInv, NEW t \in Threads, PutByte(t) \/ PopByte(t)
    PROVE  Before' = Before /\ answer' = answer
<1>1. pc' = pc /\ rwlock' = rwlock /\ answer' = answer
  BY DEF PutByte, PopByte
<1>2. t # Nobody
  OBVIOUS
<1>3. CASE PutByte(t)
  <2>1. pc[t] = <<"put", "body">>
    BY <1>3 DEF PutByte
  <2>2. rwlock = t /\ Before = Older(t)
    BY <2>1, BeforeIs
  <2>3. Before' = Older(t)'
    BY <2>1, <2>2, <1>1, <1>2 DEF Before, Older
  <2> QED
    BY <2>2, <2>3, <1>1, <1>3, PutBytePreserves
<1>4. CASE PopByte(t)
  <2>1. pc[t] = <<"pop", "body">> /\ pc[t] # <<"put", "body">>
    BY <1>4 DEF PopByte
  <2>2. rwlock = t /\ Before = buf[t] \o Contents
    BY <2>1, BeforeIs
  <2>3. Before' = buf'[t] \o Contents'
    BY <2>1, <2>2, <1>1, <1>2 DEF Before
  <2> QED
    BY <2>2, <2>3, <1>1, <1>4, PopBytePreserves
<1> QED
  BY <1>3, <1>4

\* Leaving a call: the lock is free again and the ring is what was left in it.
LEMMA ReturnEffect ==
    ASSUME FInv, NEW t \in Threads, NEW op \in Calls, NEW n, Return(t, op, n)
    PROVE  Before' = Contents /\ answer' = [answer EXCEPT ![t] = <<n, buf[t]>>]
<1>1. rwlock' = Nobody /\ UNCHANGED <<buffer, head, tail, data_len>>
  BY DEF Return, ring
<1>2. Contents' = Contents
  BY <1>1 DEF Contents
<1> QED
  BY <1>1, <1>2 DEF Before, Return

\* fifo_put has stored as much of its data as there was room for.
LEMMA PutEndPuts ==
    ASSUME FInv, NEW t \in Threads, PutEnd(t)
    PROVE  data[t] \in Data /\ Abstract!Put(t, data[t])
<1> DEFINE d == data[t]
           q == Older(t)
<1>0. "put" \in Calls
  BY DEF Calls
<1>1. pc[t] = <<"put", "body">> /\ (i[t] = len[t] \/ data_len = buf_size)
  BY DEF PutEnd, Return, Goto, Full
<1>2. /\ i[t] \in 0..MaxLen /\ len[t] \in 0..MaxLen /\ i[t] <= len[t] /\ d \in Seq(Byte)
      /\ data_len \in 0..buf_size
  BY DEF FInv, TypeOK
<1>3. Outside(t) /\ Putting(t)
  BY DEF FInv, CallInv
<1>4. len[t] = Len(d) /\ buf[t] = <<>>
  <2>1. pc[t] # <<"pop", "body">>
    BY <1>1
  <2> QED
    BY <2>1, <1>1, <1>3 DEF Outside
<1>5. i[t] <= data_len /\ Contents = q \o SubSeq(d, 1, i[t])
  BY <1>1, <1>3 DEF Putting
<1>6. Len(q) = data_len - i[t]
  <2>1. Contents \in Seq(Byte) /\ Len(Contents) = data_len
    BY ContentsType DEF FInv
  <2>2. data_len - i[t] \in 0..Len(Contents)
    BY <2>1, <1>2, <1>5
  <2> QED
    BY <2>1, <2>2, CutJoins DEF Older
<1>7. d \in Data
  BY <1>2, <1>4, DataIs
<1>8. Before = q
  BY <1>1, BeforeIs
<1>9. Before' = Contents /\ answer' = [answer EXCEPT ![t] = <<i[t], <<>>>>]
  BY <1>0, <1>4, ReturnEffect DEF PutEnd
<1> HIDE DEF d, q
<1>10. Abstract!Least(Len(d), buf_size - Len(q)) = i[t]
  <2>1. /\ i[t] \in Nat /\ len[t] \in Nat /\ data_len \in Nat /\ i[t] <= len[t]
        /\ buf_size - Len(q) = buf_size - data_len + i[t] /\ data_len <= buf_size
    BY <1>2, <1>6
  <2>2. CASE i[t] = len[t]
    BY <2>1, <2>2, <1>4 DEF Abstract!Least
  <2>3. CASE data_len = buf_size
    <3>1. buf_size - Len(q) = i[t]
      BY <2>1, <2>3
    <3> QED
      BY <2>1, <3>1, <1>4 DEF Abstract!Least
  <2> QED
    BY <2>2, <2>3, <1>1
<1>11. Abstract!Put(t, d)
  BY <1>5, <1>8, <1>9, <1>10 DEF Abstract!Put, Abstract!Return
<1> QED
  BY <1>7, <1>11 DEF d

\* fifo_pop has taken as many bytes as were asked for, or all there were.
LEMMA PopEndPops ==
    ASSUME FInv, NEW t \in Threads, PopEnd(t)
    PROVE  len[t] \in 0..MaxLen /\ Abstract!Pop(t, len[t])
<1> DEFINE out == buf[t]
           q == out \o Contents
<1>0. "pop" \in Calls
  BY DEF Calls
<1>1. pc[t] = <<"pop", "body">> /\ (i[t] = len[t] \/ data_len = 0)
  BY DEF PopEnd, Return, Goto, Empty
<1>2. /\ i[t] \in 0..MaxLen /\ len[t] \in 0..MaxLen /\ i[t] <= len[t] /\ out \in Seq(Byte)
      /\ data_len \in 0..buf_size
  BY DEF FInv, TypeOK
<1>3. Len(out) = i[t]
  BY <1>1 DEF FInv, CallInv, Popping
<1>4. Contents \in Seq(Byte) /\ Len(Contents) = data_len
  BY ContentsType DEF FInv
<1>5. Len(q) = i[t] + data_len
  BY <1>2, <1>3, <1>4, ConcatProperties, ZenonT(40)
<1>6. SubSeq(q, 1, i[t]) = out /\ SubSeq(q, i[t] + 1, Len(q)) = Contents
  BY <1>2, <1>3, <1>4, CutConcat
<1>7. Before = q
  BY <1>1, BeforeIs
<1>8. Before' = Contents /\ answer' = [answer EXCEPT ![t] = <<i[t], out>>]
  BY <1>0, ReturnEffect DEF PopEnd
<1> HIDE DEF out, q
<1>9. Abstract!Least(len[t], Len(q)) = i[t]
  BY <1>1, <1>2, <1>5 DEF Abstract!Least
<1> QED
  BY <1>2, <1>6, <1>7, <1>8, <1>9 DEF Abstract!Pop, Abstract!Return

\* is_fifo_full and is_fifo_empty answer for the queue as it is.
LEMMA AsksAnswer ==
    ASSUME FInv, NEW t \in Threads
    PROVE  /\ IsFifoFull(t) => Abstract!IsFull(t)
           /\ IsFifoEmpty(t) => Abstract!IsEmpty(t)
<1>0. "full" \in Calls /\ "empty" \in Calls
  BY DEF Calls
<1>1. Contents \in Seq(Byte) /\ Len(Contents) = data_len /\ (data_len = 0 <=> Contents = <<>>)
  BY ContentsType DEF FInv
<1>2. Outside(t)
  BY DEF FInv, CallInv
<1>3. ASSUME IsFifoFull(t) PROVE Abstract!IsFull(t)
  <2>1. pc[t] = <<"full", "body">> /\ pc[t] # <<"pop", "body">>
    BY <1>3 DEF IsFifoFull, Return, Goto
  <2>2. Before = Contents /\ buf[t] = <<>>
    BY <2>1, <1>2, BeforeIs DEF Outside
  <2>3. Before' = Contents /\ answer' = [answer EXCEPT ![t] = <<IF Full THEN 1 ELSE 0, buf[t]>>]
    BY <1>0, <1>3, ReturnEffect DEF IsFifoFull
  <2> QED
    BY <2>2, <2>3, <1>1 DEF Abstract!IsFull, Abstract!Return, Full
<1>4. ASSUME IsFifoEmpty(t) PROVE Abstract!IsEmpty(t)
  <2>1. pc[t] = <<"empty", "body">> /\ pc[t] # <<"pop", "body">>
    BY <1>4 DEF IsFifoEmpty, Return, Goto
  <2>2. Before = Contents /\ buf[t] = <<>>
    BY <2>1, <1>2, BeforeIs DEF Outside
  <2>3. Before' = Contents /\ answer' = [answer EXCEPT ![t] = <<IF Empty THEN 1 ELSE 0, buf[t]>>]
    BY <1>0, <1>4, ReturnEffect DEF IsFifoEmpty
  <2> QED
    BY <2>2, <2>3, <1>1 DEF Abstract!IsEmpty, Abstract!Return, Empty
<1> QED
  BY <1>3, <1>4

(***************************************************************************)
(* Each call of the ring buffer is one step of the abstract byte queue: a  *)
(* step of the ring inside a call changes nothing the queue speaks of, and *)
(* the step that releases the lock is the whole operation.                 *)
(***************************************************************************)
THEOREM FifoImplementsByteFifo == Spec => ImplementsByteFifo
<1>1. Init => Abstract!Init
  <2> SUFFICES ASSUME Init PROVE Abstract!Init
    OBVIOUS
  <2>1. Before = Contents
    BY FInvInit, BeforeIs DEF Init
  <2>2. Contents = <<>>
    BY FInvInit, ContentsType DEF FInv, Init
  <2> QED
    BY <2>1, <2>2 DEF Init, Abstract!Init
<1>2. FInv /\ FInv' /\ [Next]_vars => [Abstract!Next]_<<Before, answer>>
  <2> SUFFICES ASSUME FInv, FInv', [Next]_vars
               PROVE  Abstract!Next \/ UNCHANGED <<Before, answer>>
    OBVIOUS
  <2>1. CASE UNCHANGED vars
    BY <2>1 DEF vars, ring, call, Before, Contents
  <2>2. ASSUME NEW t \in Threads, Enter(t) PROVE UNCHANGED <<Before, answer>>
    <3>1. PICK op, d, n : op \in Calls /\ Call(t, op, d, n)
      BY <2>2 DEF Enter, Calls
    <3> QED
      BY <3>1, EnterStutters
  <2>3. ASSUME NEW t \in Threads, NEW op \in Calls, Lock(t, op)
        PROVE  UNCHANGED <<Before, answer>>
    BY <2>3, LockStutters
  <2>4. ASSUME NEW t \in Threads, PutByte(t) \/ PopByte(t) PROVE UNCHANGED <<Before, answer>>
    BY <2>4, ByteStutters
  <2>5. ASSUME NEW t \in Threads, PutEnd(t) PROVE Abstract!Next
    <3>1. data[t] \in Abstract!Data /\ Abstract!Put(t, data[t])
      BY <2>5, PutEndPuts DEF Data, Abstract!Data
    <3> QED
      BY <3>1 DEF Abstract!Next
  <2>6. ASSUME NEW t \in Threads, PopEnd(t) PROVE Abstract!Next
    <3>1. len[t] \in 0..MaxLen /\ Abstract!Pop(t, len[t])
      BY <2>6, PopEndPops
    <3> QED
      BY <3>1 DEF Abstract!Next
  <2>7. ASSUME NEW t \in Threads, IsFifoFull(t) \/ IsFifoEmpty(t) PROVE Abstract!Next
    BY <2>7, AsksAnswer DEF Abstract!Next
  <2> QED
    BY <2>1, <2>2, <2>3, <2>4, <2>5, <2>6, <2>7 DEF Next
<1> QED
  BY <1>1, <1>2, FInvAlways, PTL DEF Spec, ImplementsByteFifo, Abstract!Spec
=============================================================================

---------------------------- MODULE QueueLemmas ----------------------------
(***************************************************************************)
(* Facts about sequences used as first-in-first-out queues, with what has  *)
(* already left the queue in front of what is still in it.                 *)
(***************************************************************************)
EXTENDS Integers, Sequences, SequenceTheorems, TLAPS

\* A queue is its head, then the rest.
LEMMA HeadThenTail ==
    ASSUME NEW S, NEW q \in Seq(S), q # <<>>
    PROVE  q = <<Head(q)>> \o Tail(q)
<1>1. Len(q) \in Nat \ {0}
  BY EmptySeq
<1>2. 1 \in 1..Len(q) /\ Len(q) \in 1..Len(q)
  BY <1>1
<1>3. SubSeq(q, 1, Len(q)) = <<q[1]>> \o SubSeq(q, 1 + 1, Len(q))
  BY <1>2, SubSeqRecursiveFirst
<1>4. SubSeq(q, 1, Len(q)) = q
  BY SubSeqFull
<1>5. Tail(q) = SubSeq(q, 2, Len(q))
  BY TailIsSubSeq
<1>6. Head(q) = q[1]
  OBVIOUS
<1> QED
  BY <1>3, <1>4, <1>5, <1>6

\* Moving the head over to what has left the queue leaves the whole as it is.
LEMMA MoveHead ==
    ASSUME NEW S, NEW s \in Seq(S), NEW q \in Seq(S), q # <<>>
    PROVE  s \o q = Append(s, Head(q)) \o Tail(q)
<1>1. Head(q) \in S /\ Tail(q) \in Seq(S) /\ <<Head(q)>> \in Seq(S)
  BY HeadTailProperties
<1>2. Append(s, Head(q)) = s \o <<Head(q)>>
  BY <1>1, AppendIsConcat
<1> QED
  BY <1>1, <1>2, HeadThenTail, ConcatAssociative

\* A queue of one is empty without its head, a longer one is not.
LEMMA TailEmpty ==
    ASSUME NEW S, NEW q \in Seq(S), q # <<>>
    PROVE  Tail(q) = <<>> <=> Len(q) = 1
<1>1. Tail(q) \in Seq(S) /\ Len(Tail(q)) = Len(q) - 1 /\ Len(q) \in Nat
  BY HeadTailProperties, LenProperties
<1>2. Tail(q) = <<>> <=> Len(Tail(q)) = 0
  BY <1>1, EmptySeq
<1> QED
  BY <1>1, <1>2

\* What is in a queue without repetitions: its head, and, apart from that, the
\* rest.
LEMMA TailElements ==
    ASSUME NEW S, NEW q \in Seq(S), q # <<>>,
           \A i, j \in 1..Len(q) : q[i] = q[j] => i = j
    PROVE  /\ {q[i] : i \in 1..Len(q)} = {Tail(q)[i] : i \in 1..Len(Tail(q))} \cup {q[1]}
           /\ q[1] \notin {Tail(q)[i] : i \in 1..Len(Tail(q))}
<1> DEFINE rest == Tail(q)
           n == Len(q)
<1>1. /\ n \in Nat \ {0} /\ Len(rest) = n - 1
      /\ \A i \in 1..n - 1 : rest[i] = q[i + 1]
  BY HeadTailProperties, EmptySeq
<1> HIDE DEF rest, n
<1>2. ASSUME NEW i \in 1..n PROVE q[i] \in {rest[k] : k \in 1..n - 1} \cup {q[1]}
  <2>1. i = 1 \/ (i - 1 \in 1..n - 1 /\ q[i] = rest[i - 1])
    BY <1>1
  <2> QED
    BY <2>1
<1>3. ASSUME NEW i \in 1..n - 1
      PROVE  rest[i] \in {q[k] : k \in 1..n} /\ rest[i] # q[1]
  <2>1. rest[i] = q[i + 1] /\ i + 1 \in 1..n /\ 1 \in 1..n /\ i + 1 # 1
    BY <1>1
  <2> QED
    BY <2>1 DEF n
<1>4. q[1] \in {q[k] : k \in 1..n}
  BY <1>1
<1>5. {q[k] : k \in 1..n} = {rest[k] : k \in 1..n - 1} \cup {q[1]}
  BY <1>2, <1>3, <1>4
<1>6. q[1] \notin {rest[k] : k \in 1..n - 1}
  BY <1>3
<1> QED
  BY <1>1, <1>5, <1>6 DEF rest, n

-----------------------------------------------------------------------------
(***************************************************************************)
(* Being in a sequence, and being there at one place at most.              *)
(***************************************************************************)
In(x, s) == \E i \in 1..Len(s) : s[i] = x
AtMostOnce(x, s) == \A i, j \in 1..Len(s) : s[i] = x /\ s[j] = x => i = j

\* Nothing is in the empty sequence.
LEMMA InEmpty == \A x : ~In(x, <<>>) /\ AtMostOnce(x, <<>>)
BY DEF In, AtMostOnce

\* What is in the concatenation of two sequences is in one of them, and is at
\* one place if it is so there and not in both.
LEMMA InConcat ==
    ASSUME NEW S, NEW s \in Seq(S), NEW t \in Seq(S), NEW x
    PROVE  /\ In(x, s \o t) <=> In(x, s) \/ In(x, t)
           /\ AtMostOnce(x, s \o t) <=> /\ AtMostOnce(x, s) /\ AtMostOnce(x, t)
                                        /\ ~(In(x, s) /\ In(x, t))
<1> DEFINE m == Len(s)
           n == Len(t)
           u == s \o t
<1>1. /\ m \in Nat /\ n \in Nat /\ Len(u) = m + n
      /\ \A i \in 1..m + n : u[i] = IF i <= m THEN s[i] ELSE t[i - m]
  BY ConcatProperties, LenProperties
<1> HIDE DEF m, n, u
<1>2. \A i \in 1..m : i \in 1..m + n /\ u[i] = s[i]
  BY <1>1
<1>3. \A i \in 1..n : m + i \in 1..m + n /\ u[m + i] = t[i]
  BY <1>1
<1>4. \A i \in 1..m + n : i \in 1..m \/ (i - m \in 1..n /\ i = m + (i - m))
  BY <1>1
<1>5. (\E i \in 1..m + n : u[i] = x) <=> (\E i \in 1..m : s[i] = x) \/ (\E i \in 1..n : t[i] = x)
  BY <1>2, <1>3, <1>4
<1>6. ASSUME \A i, j \in 1..m + n : u[i] = x /\ u[j] = x => i = j
      PROVE  /\ \A i, j \in 1..m : s[i] = x /\ s[j] = x => i = j
             /\ \A i, j \in 1..n : t[i] = x /\ t[j] = x => i = j
             /\ ~((\E i \in 1..m : s[i] = x) /\ (\E j \in 1..n : t[j] = x))
  <2>1. \A i, j \in 1..m : s[i] = x /\ s[j] = x => i = j
    BY <1>2, <1>6
  <2>2. \A i, j \in 1..n : t[i] = x /\ t[j] = x => i = j
    <3>1. \A i, j \in 1..n : m + i = m + j => i = j
      BY <1>1
    <3> QED
      BY <1>3, <1>6, <3>1
  <2>3. ~((\E i \in 1..m : s[i] = x) /\ (\E j \in 1..n : t[j] = x))
    <3>1. \A i \in 1..m, j \in 1..n : i # m + j
      BY <1>1
    <3> QED
      BY <1>2, <1>3, <1>6, <3>1
  <2> QED
    BY <2>1, <2>2, <2>3
<1>7. ASSUME \A i, j \in 1..m : s[i] = x /\ s[j] = x => i = j,
             \A i, j \in 1..n : t[i] = x /\ t[j] = x => i = j,
             ~((\E i \in 1..m : s[i] = x) /\ (\E j \in 1..n : t[j] = x)),
             NEW i \in 1..m + n, NEW j \in 1..m + n, u[i] = x, u[j] = x
      PROVE  i = j
  <2>1. CASE i \in 1..m /\ j \in 1..m
    BY <2>1, <1>2, <1>7
  <2>2. CASE i \notin 1..m /\ j \notin 1..m
    <3>1. i - m \in 1..n /\ j - m \in 1..n /\ t[i - m] = x /\ t[j - m] = x
      BY <2>2, <1>1, <1>7
    <3>2. i - m = j - m
      BY <3>1, <1>7
    <3> QED
      BY <3>2, <1>1
  <2>3. CASE i \in 1..m /\ j \notin 1..m
    BY <2>3, <1>1, <1>7
  <2>4. CASE i \notin 1..m /\ j \in 1..m
    BY <2>4, <1>1, <1>7
  <2> QED
    BY <2>1, <2>2, <2>3, <2>4
<1> QED
  BY <1>1, <1>5, <1>6, <1>7 DEF In, AtMostOnce, m, n, u

\* One element.
LEMMA InSingle == ASSUME NEW x, NEW e PROVE (In(x, <<e>>) <=> x = e) /\ AtMostOnce(x, <<e>>)
BY DEF In, AtMostOnce

\* What is in a queue with one more element at its end.
LEMMA InAppend ==
    ASSUME NEW S, NEW s \in Seq(S), NEW e \in S, NEW x
    PROVE  /\ In(x, Append(s, e)) <=> In(x, s) \/ x = e
           /\ AtMostOnce(x, Append(s, e)) <=> AtMostOnce(x, s) /\ ~(In(x, s) /\ x = e)
<1>1. Append(s, e) = s \o <<e>> /\ <<e>> \in Seq(S)
  BY AppendIsConcat
<1> QED
  <2>1. /\ In(x, s \o <<e>>) <=> In(x, s) \/ In(x, <<e>>)
        /\ AtMostOnce(x, s \o <<e>>) <=> /\ AtMostOnce(x, s) /\ AtMostOnce(x, <<e>>)
                                         /\ ~(In(x, s) /\ In(x, <<e>>))
    BY <1>1, InConcat
  <2> QED
    BY <1>1, <2>1, InSingle

\* What is in a queue is its head or in the rest.
LEMMA InTail ==
    ASSUME NEW S, NEW q \in Seq(S), q # <<>>, NEW x
    PROVE  /\ In(x, q) <=> x = Head(q) \/ In(x, Tail(q))
           /\ AtMostOnce(x, q) <=> AtMostOnce(x, Tail(q)) /\ ~(x = Head(q) /\ In(x, Tail(q)))
<1>1. q = <<Head(q)>> \o Tail(q) /\ <<Head(q)>> \in Seq(S) /\ Tail(q) \in Seq(S)
  BY HeadThenTail, HeadTailProperties
<1> QED
  <2>1. /\ In(x, q) <=> In(x, <<Head(q)>>) \/ In(x, Tail(q))
        /\ AtMostOnce(x, q) <=> /\ AtMostOnce(x, <<Head(q)>>) /\ AtMostOnce(x, Tail(q))
                                /\ ~(In(x, <<Head(q)>>) /\ In(x, Tail(q)))
    <3> DEFINE h == <<Head(q)>>
               r == Tail(q)
    <3>1. h \in Seq(S) /\ r \in Seq(S) /\ q = h \o r
      BY <1>1
    <3> HIDE DEF h, r
    <3>2. /\ In(x, q) <=> In(x, h) \/ In(x, r)
          /\ AtMostOnce(x, q) <=> AtMostOnce(x, h) /\ AtMostOnce(x, r) /\ ~(In(x, h) /\ In(x, r))
      BY <3>1, InConcat
    <3> QED
      BY <3>2 DEF h, r
  <2> QED
    BY <2>1, InSingle

\* The two parts of a sequence that is cut make the sequence.
LEMMA CutJoins ==
    ASSUME NEW S, NEW s \in Seq(S), NEW k \in 0..Len(s)
    PROVE  /\ SubSeq(s, 1, k) \in Seq(S) /\ SubSeq(s, k + 1, Len(s)) \in Seq(S)
           /\ Len(SubSeq(s, 1, k)) = k
           /\ SubSeq(s, 1, k) \o SubSeq(s, k + 1, Len(s)) = s
<1> DEFINE a == SubSeq(s, 1, k)
           b == SubSeq(s, k + 1, Len(s))
<1>0. Len(s) \in Nat
  BY LenProperties
<1>1. a \in Seq(S) /\ b \in Seq(S) /\ Len(a) = k
  <2>1. \A i \in 1..k : s[i] \in S
    BY <1>0, ElementOfSeq
  <2>2. \A i \in k + 1..Len(s) : s[i] \in S
    BY <1>0, ElementOfSeq
  <2> QED
    BY <1>0, <2>1, <2>2, SubSeqProperties
<1>2. a \o b = s
  <2>1. 1 \in 1..Len(s) + 1 /\ k \in 1 - 1..Len(s) /\ Len(s) \in k..Len(s)
    BY <1>0
  <2>2. a \o b = SubSeq(s, 1, Len(s))
    BY <2>1, ConcatAdjacentSubSeq
  <2> QED
    BY <2>2, SubSeqFull
<1> QED
  BY <1>1, <1>2

\* What is in a sequence that is cut in two.
LEMMA InCut ==
    ASSUME NEW S, NEW s \in Seq(S), NEW k \in 0..Len(s), NEW x
    PROVE  LET a == SubSeq(s, 1, k)
               b == SubSeq(s, k + 1, Len(s))
           IN  /\ a \in Seq(S) /\ b \in Seq(S)
               /\ In(x, s) <=> In(x, a) \/ In(x, b)
               /\ AtMostOnce(x, s) <=> /\ AtMostOnce(x, a) /\ AtMostOnce(x, b)
                                       /\ ~(In(x, a) /\ In(x, b))
<1> DEFINE a == SubSeq(s, 1, k)
           b == SubSeq(s, k + 1, Len(s))
<1>1. a \in Seq(S) /\ b \in Seq(S) /\ a \o b = s
  BY CutJoins
<1> HIDE DEF a, b
<1>2. /\ In(x, s) <=> In(x, a) \/ In(x, b)
      /\ AtMostOnce(x, s) <=> /\ AtMostOnce(x, a) /\ AtMostOnce(x, b)
                              /\ ~(In(x, a) /\ In(x, b))
  BY <1>1, InConcat
<1> QED
  BY <1>1, <1>2 DEF a, b

-----------------------------------------------------------------------------
(***************************************************************************)
(* Taking the first elements of a longer sequence.                         *)
(***************************************************************************)
\* Appending to the end does not change the beginning.
LEMMA AppendPrefix ==
    ASSUME NEW S, NEW s \in Seq(S), NEW e \in S, NEW k \in 0..Len(s)
    PROVE  SubSeq(Append(s, e), 1, k) = SubSeq(s, 1, k)
<1> DEFINE a == Append(s, e)
<1>0. Len(s) \in Nat
  BY LenProperties
<1>1. /\ a \in Seq(S) /\ Len(a) = Len(s) + 1
      /\ \A i \in 1..Len(s) : a[i] = s[i]
  BY AppendProperties
<1> HIDE DEF a
<1>2. \A i \in 1..k : s[i] \in S /\ a[i] = s[i]
  BY <1>0, <1>1, ElementOfSeq
<1> DEFINE p == SubSeq(a, 1, k)
           r == SubSeq(s, 1, k)
<1>3. p \in Seq(S) /\ Len(p) = k /\ \A i \in 1..k : p[i] = a[i]
  BY <1>0, <1>2, SubSeqProperties
<1>4. r \in Seq(S) /\ Len(r) = k /\ \A i \in 1..k : r[i] = s[i]
  BY <1>0, <1>2, SubSeqProperties
<1> HIDE DEF p, r
<1>5. p = r
  BY <1>2, <1>3, <1>4, SeqEqual
<1> QED
  BY <1>5 DEF a, p, r

\* One more element of a sequence than its first k.
LEMMA PrefixGrows ==
    ASSUME NEW S, NEW s \in Seq(S), NEW k \in 0..Len(s) - 1
    PROVE  SubSeq(s, 1, k + 1) = Append(SubSeq(s, 1, k), s[k + 1])
<1>0. Len(s) \in Nat /\ k + 1 \in 1..Len(s) /\ 1 \in 1..Len(s) /\ k \in 0..Len(s) /\ (k + 1) - 1 = k
  BY LenProperties
<1>1. SubSeq(s, 1, k + 1) = SubSeq(s, 1, (k + 1) - 1) \o <<s[k + 1]>>
  BY <1>0, SubSeqRecursiveSecond
<1>2. SubSeq(s, 1, k) \in Seq(S) /\ s[k + 1] \in S
  BY <1>0, CutJoins, ElementOfSeq
<1> QED
  BY <1>0, <1>1, <1>2, AppendIsConcat

\* A concatenation that is cut where its parts meet.
LEMMA CutConcat ==
    ASSUME NEW S, NEW s \in Seq(S), NEW t \in Seq(S)
    PROVE  /\ SubSeq(s \o t, 1, Len(s)) = s
           /\ SubSeq(s \o t, Len(s) + 1, Len(s \o t)) = t
<1> DEFINE u == s \o t
           m == Len(s)
           n == Len(t)
<1>1. /\ m \in Nat /\ n \in Nat /\ u \in Seq(S) /\ Len(u) = m + n
      /\ \A i \in 1..m + n : u[i] = IF i <= m THEN s[i] ELSE t[i - m]
  BY ConcatProperties, LenProperties
<1> HIDE DEF u, m, n
<1>2. \A i \in 1..m + n : u[i] \in S
  BY <1>1, ElementOfSeq
<1> DEFINE a == SubSeq(u, 1, m)
           b == SubSeq(u, m + 1, m + n)
<1>3. a \in Seq(S) /\ Len(a) = m /\ \A i \in 1..m : a[i] = s[i]
  <2>1. \A i \in 1..m : u[i] \in S /\ u[i] = s[i]
    BY <1>1, <1>2
  <2>2. a \in Seq(S) /\ Len(a) = m /\ \A i \in 1..m : a[i] = u[i]
    BY <1>1, <2>1, SubSeqProperties
  <2> QED
    BY <2>1, <2>2
<1>4. b \in Seq(S) /\ Len(b) = n /\ \A i \in 1..n : b[i] = t[i]
  <2>1. \A i \in m + 1..m + n : u[i] \in S
    BY <1>1, <1>2
  <2>2. \A i \in 1..n : u[m + i] = t[i] /\ m + 1 + i - 1 = m + i
    <3>1. \A i \in 1..n : m + i \in 1..m + n /\ ~(m + i <= m) /\ (m + i) - m = i
      BY <1>1
    <3> QED
      BY <1>1, <3>1
  <2>3. /\ b \in Seq(S)
        /\ Len(b) = IF m + 1 <= m + n THEN (m + n) - (m + 1) + 1 ELSE 0
        /\ \A i \in 1..(m + n) - (m + 1) + 1 : b[i] = u[m + 1 + i - 1]
    BY <1>1, <2>1, SubSeqProperties
  <2>4. (m + n) - (m + 1) + 1 = n
    BY <1>1
  <2> QED
    BY <1>1, <2>2, <2>3, <2>4
<1> HIDE DEF a, b
<1>5. a = s
  BY <1>1, <1>3, SeqEqual DEF m
<1>6. b = t
  BY <1>1, <1>4, SeqEqual DEF n
<1> QED
  BY <1>1, <1>5, <1>6 DEF a, b, u, m

-----------------------------------------------------------------------------
(***************************************************************************)
(* Families of sequences: the buffers of the threads, the messages of a    *)
(* list.  Being in one of them, and being at one place of one at most.     *)
(***************************************************************************)
InSome(x, F) == \E d \in DOMAIN F : In(x, F[d])
OnceInAll(x, F) ==
    /\ \A d \in DOMAIN F : AtMostOnce(x, F[d])
    /\ \A d, e \in DOMAIN F : In(x, F[d]) /\ In(x, F[e]) => d = e

\* Two families that differ in one sequence: both are that sequence and the
\* same rest, of which it matters whether x is in it and is there once.
LEMMA FamilyChange ==
    ASSUME NEW x, NEW D, NEW d \in D, NEW F, NEW G, DOMAIN F = D, DOMAIN G = D,
           \A e \in D : e # d => G[e] = F[e]
    PROVE  \E r, o \in BOOLEAN :
              /\ InSome(x, F) <=> In(x, F[d]) \/ r
              /\ OnceInAll(x, F) <=> AtMostOnce(x, F[d]) /\ o /\ ~(In(x, F[d]) /\ r)
              /\ InSome(x, G) <=> In(x, G[d]) \/ r
              /\ OnceInAll(x, G) <=> AtMostOnce(x, G[d]) /\ o /\ ~(In(x, G[d]) /\ r)
<1> DEFINE R == D \ {d}
           r == \E e \in R : In(x, F[e])
           o == /\ \A e \in R : AtMostOnce(x, F[e])
                /\ \A e, f \in R : In(x, F[e]) /\ In(x, F[f]) => e = f
<1>1. ASSUME NEW H, DOMAIN H = D, \A e \in R : H[e] = F[e]
      PROVE  /\ InSome(x, H) <=> In(x, H[d]) \/ r
             /\ OnceInAll(x, H) <=> AtMostOnce(x, H[d]) /\ o /\ ~(In(x, H[d]) /\ r)
  <2>1. InSome(x, H) <=> In(x, H[d]) \/ r
    BY <1>1 DEF InSome
  <2>2. OnceInAll(x, H) => AtMostOnce(x, H[d]) /\ o /\ ~(In(x, H[d]) /\ r)
    <3> SUFFICES ASSUME OnceInAll(x, H)
                 PROVE  AtMostOnce(x, H[d]) /\ o /\ ~(In(x, H[d]) /\ r)
      OBVIOUS
    <3>1. \A e \in R : e \in D /\ e # d /\ H[e] = F[e]
      BY <1>1
    <3> QED
      BY <3>1, <1>1 DEF OnceInAll
  <2>3. AtMostOnce(x, H[d]) /\ o /\ ~(In(x, H[d]) /\ r) => OnceInAll(x, H)
    <3> SUFFICES ASSUME AtMostOnce(x, H[d]), o, ~(In(x, H[d]) /\ r)
                 PROVE  OnceInAll(x, H)
      OBVIOUS
    <3>1. \A e \in D : e = d \/ (e \in R /\ H[e] = F[e])
      BY <1>1
    <3> QED
      BY <3>1, <1>1 DEF OnceInAll
  <2> QED
    BY <2>1, <2>2, <2>3
<1>2. \A e \in R : G[e] = F[e]
  OBVIOUS
<1>3. r \in BOOLEAN /\ o \in BOOLEAN
  OBVIOUS
<1> HIDE DEF r, o
<1> QED
  BY <1>1, <1>2, <1>3

\* A family that is numbered from 1 and grows by one sequence.
LEMMA FamilyAppend ==
    ASSUME NEW x, NEW n \in Nat, NEW F, NEW G, DOMAIN F = 1..n, DOMAIN G = 1..n + 1,
           \A k \in 1..n : G[k] = F[k]
    PROVE  /\ InSome(x, G) <=> InSome(x, F) \/ In(x, G[n + 1])
           /\ OnceInAll(x, G) <=> /\ OnceInAll(x, F) /\ AtMostOnce(x, G[n + 1])
                                  /\ ~(InSome(x, F) /\ In(x, G[n + 1]))
<1>1. /\ \A k \in 1..n : k \in 1..n + 1 /\ k # n + 1
      /\ \A k \in 1..n + 1 : k \in 1..n \/ k = n + 1
      /\ n + 1 \in 1..n + 1
  OBVIOUS
<1>2. InSome(x, G) <=> InSome(x, F) \/ In(x, G[n + 1])
  BY <1>1 DEF InSome
<1>3. OnceInAll(x, G) => /\ OnceInAll(x, F) /\ AtMostOnce(x, G[n + 1])
                         /\ ~(InSome(x, F) /\ In(x, G[n + 1]))
  BY <1>1 DEF OnceInAll, InSome
<1>4. ASSUME OnceInAll(x, F), AtMostOnce(x, G[n + 1]), ~(InSome(x, F) /\ In(x, G[n + 1]))
      PROVE  OnceInAll(x, G)
  BY <1>1, <1>4 DEF OnceInAll, InSome
<1> QED
  BY <1>2, <1>3, <1>4

\* A family that is numbered from 1 and loses its first sequence.
LEMMA FamilyTail ==
    ASSUME NEW x, NEW n \in Nat, NEW F, NEW G, DOMAIN F = 1..n + 1, DOMAIN G = 1..n,
           \A k \in 1..n : G[k] = F[k + 1]
    PROVE  /\ InSome(x, F) <=> InSome(x, G) \/ In(x, F[1])
           /\ OnceInAll(x, F) <=> /\ OnceInAll(x, G) /\ AtMostOnce(x, F[1])
                                  /\ ~(InSome(x, G) /\ In(x, F[1]))
<1>1. /\ \A k \in 1..n : k + 1 \in 1..n + 1 /\ k + 1 # 1
      /\ \A k \in 1..n + 1 : (k - 1 \in 1..n /\ k = (k - 1) + 1) \/ k = 1
      /\ 1 \in 1..n + 1
      /\ \A j, k \in 1..n : j + 1 = k + 1 => j = k
  OBVIOUS
<1>2. InSome(x, F) <=> InSome(x, G) \/ In(x, F[1])
  BY <1>1 DEF InSome
<1>3. OnceInAll(x, F) => /\ OnceInAll(x, G) /\ AtMostOnce(x, F[1])
                         /\ ~(InSome(x, G) /\ In(x, F[1]))
  BY <1>1 DEF OnceInAll, InSome
<1>4. ASSUME OnceInAll(x, G), AtMostOnce(x, F[1]), ~(InSome(x, G) /\ In(x, F[1]))
      PROVE  OnceInAll(x, F)
  <2>1. \A k \in 1..n + 1 : k = 1 \/ (k - 1 \in 1..n /\ F[k] = G[k - 1])
    BY <1>1
  <2>2. \A k \in 1..n + 1 : AtMostOnce(x, F[k])
    BY <2>1, <1>4 DEF OnceInAll
  <2>3. ASSUME NEW j \in 1..n + 1, NEW k \in 1..n + 1, In(x, F[j]), In(x, F[k]) PROVE j = k
    <3>1. CASE j = 1 /\ k = 1
      BY <3>1
    <3>2. CASE j # 1 /\ k # 1
      <4>1. j - 1 = k - 1
        BY <2>1, <2>3, <3>2, <1>4 DEF OnceInAll
      <4> QED
        BY <4>1
    <3>3. CASE (j = 1 /\ k # 1) \/ (j # 1 /\ k = 1)
      BY <2>1, <2>3, <3>3, <1>4 DEF InSome
    <3> QED
      BY <3>1, <3>2, <3>3
  <2> QED
    BY <2>2, <2>3 DEF OnceInAll
<1> QED
  BY <1>2, <1>3, <1>4

-----------------------------------------------------------------------------
(***************************************************************************)
(* Places: a position in a sequence with a label for the sequence.         *)
(***************************************************************************)
\* One place of x in the sequence s that is kept at t.
At(y, t, s, x) == \E i \in 1..Len(s) : s[i] = x /\ y = <<t, i>>

\* x has a place in a sequence if it is in it, and one if it is so there.
LEMMA AtIn ==
    ASSUME NEW s, NEW t, NEW x
    PROVE  /\ (\E y : At(y, t, s, x)) <=> In(x, s)
           /\ AtMostOnce(x, s) => \A y, z : At(y, t, s, x) /\ At(z, t, s, x) => y = z
BY DEF At, In, AtMostOnce
=============================================================================

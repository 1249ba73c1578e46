---------------------------- MODULE CallsProofs -----------------------------
(***************************************************************************)
(* Machine-checked proofs about the parts of the program that share no     *)
(* state with the daemon's threads.  Each theorem is about one of them, as *)
(* InitX /\ [][NextX]_xVars => []Inv, for any sizes and bounds.            *)
(***************************************************************************)
EXTENDS TestMode, ReportKey, ExcuteCmd, DuerosFormat, FileUrl, Startup,
        QueueLemmas, FiniteSetTheorems, WellFoundedInduction, TLAPS

\* Among numbers there is a least one: the prover knows no other induction here.
LEMMA LeastElement ==
    ASSUME NEW S, S \subseteq Nat, S # {}
    PROVE  \E x \in S : \A y \in S : x <= y
<1> DEFINE R == {ss \in Nat \X Nat : ss[1] < ss[2]}
<1>1. IsWellFoundedOn(R, Nat)
  BY NatLessThanWellFounded DEF OpToRel
<1>2. PICK x \in S : \A y \in S : ~(<<y, x>> \in R)
  BY <1>1, WFMin
<1>3. ASSUME NEW y \in S PROVE x <= y
  <2>1. ~(<<y, x>> \in R) /\ y \in Nat /\ x \in Nat
    BY <1>2
  <2> QED
    BY <2>1
<1> QED
  BY <1>3

\* g begins as f0 and appends d and p[n] at each n.
Accumulates(g, f0, d, p) ==
    g = [n \in Nat |-> IF n = 0 THEN f0 ELSE g[n - 1] \o d \o p[n]]

\* There is such a function: what a recursive definition by concatenation needs.
LEMMA ConcatRecursion == ASSUME NEW f0, NEW d, NEW p PROVE \E g : Accumulates(g, f0, d, p)
<1> DEFINE Grown(x, n) == x \o d \o p[n]
           UpTo(g, n) == g = [k \in 0..n |-> IF k = 0 THEN f0 ELSE Grown(g[k - 1], k)]
<1> HIDE DEF Grown
\* It exists up to each n.
<1>1. \A n \in Nat : \E g : UpTo(g, n)
  <2> DEFINE S == {n \in Nat : ~\E g : UpTo(g, n)}
  <2>1. SUFFICES ASSUME S # {} PROVE FALSE
    OBVIOUS
  <2>2. PICK m \in S : \A n \in S : m <= n
    BY <2>1, LeastElement
  <2>3. CASE m = 0
    <3> DEFINE g == [k \in 0..0 |-> f0]
    <3>1. UpTo(g, 0)
      OBVIOUS
    <3> QED
      BY <2>2, <2>3, <3>1
  <2>4. CASE m # 0
    <3>1. m \in Nat /\ m - 1 \in Nat /\ ~(m <= m - 1)
      BY <2>4
    <3>2. m - 1 \notin S
      BY <2>2, <3>1
    <3>3. PICK g : UpTo(g, m - 1)
      BY <3>1, <3>2
    <3> DEFINE h == [k \in 0..m |-> IF k = m THEN Grown(g[m - 1], m) ELSE g[k]]
    <3>4. ASSUME NEW k \in 0..m
          PROVE  h[k] = IF k = 0 THEN f0 ELSE Grown(h[k - 1], k)
      <4>1. CASE k = m
        <5>1. k # 0 /\ m - 1 \in 0..m /\ m - 1 # m
          BY <2>4, <3>1, <4>1
        <5>2. h[k - 1] = g[m - 1] /\ h[k] = Grown(g[m - 1], m)
          BY <4>1, <5>1
        <5> QED
          BY <4>1, <5>1, <5>2
      <4>2. CASE k # m
        <5>1. k \in 0..m - 1
          BY <3>1, <4>2
        <5>2. h[k] = g[k]
          BY <4>2
        <5>3. g[k] = IF k = 0 THEN f0 ELSE Grown(g[k - 1], k)
          BY <3>3, <5>1
        <5>4. CASE k = 0
          BY <5>2, <5>3, <5>4
        <5>5. CASE k # 0
          <6>1. k - 1 \in 0..m /\ k - 1 # m
            BY <3>1, <5>1, <5>5
          <6>2. h[k - 1] = g[k - 1]
            BY <6>1
          <6> QED
            BY <5>2, <5>3, <5>5, <6>2
        <5> QED
          BY <5>4, <5>5
      <4> QED
        BY <4>1, <4>2
    <3>5. UpTo(h, m)
      <4>1. h = [k \in 0..m |-> h[k]]
        OBVIOUS
      <4> HIDE DEF h
      <4> QED
        BY <3>4, <4>1
    <3> QED
      BY <2>2, <3>5
  <2> QED
    BY <2>3, <2>4
\* Two of them agree as far as both go.
<1>2. ASSUME NEW m \in Nat, NEW n \in Nat, m <= n, NEW g, NEW h, UpTo(g, m), UpTo(h, n)
      PROVE  \A k \in 0..m : g[k] = h[k]
  <2> DEFINE S == {k \in 0..m : g[k] # h[k]}
  <2>1. SUFFICES ASSUME S # {} PROVE FALSE
    OBVIOUS
  <2>2. PICK k \in S : \A j \in S : k <= j
    <3>1. S \subseteq Nat
      OBVIOUS
    <3> HIDE DEF S
    <3> QED
      BY <2>1, <3>1, LeastElement
  <2>3. k \in 0..m /\ k \in 0..n
    BY <1>2, <2>2
  <2>4. /\ g[k] = IF k = 0 THEN f0 ELSE Grown(g[k - 1], k)
        /\ h[k] = IF k = 0 THEN f0 ELSE Grown(h[k - 1], k)
    BY <1>2, <2>3
  <2>5. k # 0
    BY <2>2, <2>4
  <2>6. k - 1 \in 0..m /\ ~(k <= k - 1)
    BY <2>3, <2>5
  <2>7. k - 1 \notin S
    BY <2>2, <2>6
  <2> QED
    BY <2>2, <2>4, <2>5, <2>6, <2>7
<1> DEFINE The(n) == CHOOSE g : UpTo(g, n)
           G == [n \in Nat |-> The(n)[n]]
<1>3. \A n \in Nat : UpTo(The(n), n)
  BY <1>1
<1> HIDE DEF The
<1>4. ASSUME NEW n \in Nat PROVE G[n] = IF n = 0 THEN f0 ELSE Grown(G[n - 1], n)
  <2>1. The(n)[n] = IF n = 0 THEN f0 ELSE Grown(The(n)[n - 1], n)
    <3>1. n \in 0..n
      OBVIOUS
    <3>2. UpTo(The(n), n)
      BY <1>3
    <3> QED
      BY <3>1, <3>2
  <2>2. CASE n = 0
    BY <2>1, <2>2
  <2>3. CASE n # 0
    <3>1. n - 1 \in Nat /\ n - 1 <= n /\ n - 1 \in 0..n - 1
      BY <2>3
    <3>2. UpTo(The(n), n) /\ UpTo(The(n - 1), n - 1)
      BY <1>3, <3>1
    <3> HIDE DEF UpTo
    <3>3. The(n - 1)[n - 1] = The(n)[n - 1]
      BY <1>2, <3>1, <3>2
    <3> QED
      BY <2>1, <2>3, <3>1, <3>3
  <2> QED
    BY <2>2, <2>3
<1>5. G = [n \in Nat |-> IF n = 0 THEN f0 ELSE Grown(G[n - 1], n)]
  <2>1. G = [n \in Nat |-> G[n]]
    OBVIOUS
  <2> HIDE DEF G
  <2> QED
    BY <1>4, <2>1
<1> HIDE DEF G
<1> QED
  BY <1>5 DEF Grown, Accumulates

-----------------------------------------------------------------------------
(***************************************************************************)
(* Test mode: the sockets and the verdict of send_cmd_to_server.  Outside  *)
(* the sending loop sockfd is -1 and every descriptor is closed.           *)
(***************************************************************************)
SocketInv ==
    /\ sockets \in [1..Descriptors -> {"closed"} \cup {Interfaces[k] : k \in 1..Len(Interfaces)}]
    /\ tmIndex \in 1..Len(Interfaces)
    /\ tmPc \in {"idle", "interface", "create", "send"}
    /\ IF tmPc = "send"
       THEN /\ sockfd \in 1..Descriptors /\ sockets[sockfd] = Interface
            /\ \A d \in 1..Descriptors : d # sockfd => sockets[d] = "closed"
       ELSE sockfd = -1 /\ \A d \in 1..Descriptors : sockets[d] = "closed"

\* send_broadcast_to_interface returns to an interface there is, or to the end.
LEMMA InterfaceDoneType ==
    ASSUME tmIndex \in 1..Len(Interfaces), NEW ok \in BOOLEAN, InterfaceDone(ok)
    PROVE  tmIndex' \in 1..Len(Interfaces) /\ tmPc' \in {"idle", "interface"}
<1>1. tmIndex \in Int /\ 1 <= tmIndex /\ tmIndex <= Len(Interfaces)
  OBVIOUS
<1>2. CASE tmIndex < Len(Interfaces) /\ tmIndex' = tmIndex + 1
  BY <1>1, <1>2 DEF InterfaceDone
<1>3. CASE tmIndex = Len(Interfaces) /\ tmIndex' = 1
  BY <1>1, <1>3 DEF InterfaceDone
<1> QED
  BY <1>2, <1>3 DEF InterfaceDone

\* Every step of send_cmd_to_server keeps the sockets in order.
LEMMA StepSocket == SocketInv /\ [NextTestMode]_testModeVars => SocketInv'
<1> SUFFICES ASSUME SocketInv, [NextTestMode]_testModeVars PROVE SocketInv'
  OBVIOUS
<1> USE TestModeAssumption DEF TestModeAssumption
<1> DEFINE Values == {"closed"} \cup {Interfaces[k] : k \in 1..Len(Interfaces)}
<1>0. sockets \in [1..Descriptors -> Values] /\ tmIndex \in 1..Len(Interfaces) /\ Interface \in Values
  BY DEF SocketInv, Interface
<1>1. CASE UNCHANGED testModeVars
  BY <1>1 DEF SocketInv, testModeVars, Interface
<1>2. CASE SendCmdToServer
  <2>1. 1 \in 1..Len(Interfaces)
    BY <1>0
  <2> QED
    BY <1>2, <2>1 DEF SocketInv, SendCmdToServer
<1>3. CASE EnterInterface
  BY <1>3 DEF SocketInv, EnterInterface
<1>4. CASE CreateSocket
  <2>1. /\ tmPc = "create" /\ sockfd = -1
        /\ \A d \in 1..Descriptors : sockets[d] = "closed"
    BY <1>4 DEF CreateSocket, SocketInv
  <2>2. CASE UNCHANGED <<sockfd, sockets>> /\ InterfaceDone(FALSE)
    <3>1. tmIndex' \in 1..Len(Interfaces) /\ tmPc' \in {"idle", "interface"}
      BY <1>0, <2>2, InterfaceDoneType
    <3> QED
      BY <1>0, <2>1, <2>2, <3>1 DEF SocketInv
  <2>3. ASSUME Closed # {} PROVE Lowest(Closed) \in 1..Descriptors
    <3>1. Closed \subseteq 1..Descriptors /\ Closed \subseteq Nat
      BY DEF Closed
    <3>2. \E d \in Closed : \A e \in Closed : d <= e
      BY <2>3, <3>1, LeastElement
    <3>3. Lowest(Closed) \in Closed
      BY <3>2 DEF Lowest
    <3> QED
      BY <3>1, <3>3
  <2>4. ASSUME Closed # {}, UNCHANGED sockets, sockfd' = -1, InterfaceDone(FALSE) PROVE SocketInv'
    <3>1. tmIndex' \in 1..Len(Interfaces) /\ tmPc' \in {"idle", "interface"}
      BY <1>0, <2>4, InterfaceDoneType
    <3> QED
      BY <1>0, <2>1, <2>4, <3>1 DEF SocketInv
  <2>5. ASSUME NEW d \in 1..Descriptors, sockets' = [sockets EXCEPT ![d] = Interface], sockfd' = d,
               tmPc' = "send", UNCHANGED tmIndex
        PROVE  SocketInv'
    <3>1. Interface' = Interface
      BY <2>5 DEF Interface
    <3>2. /\ sockets' \in [1..Descriptors -> Values] /\ sockets'[d] = Interface
          /\ \A e \in 1..Descriptors : e # d => sockets'[e] = "closed"
      BY <1>0, <2>1, <2>5
    <3> QED
      BY <1>0, <2>5, <3>1, <3>2 DEF SocketInv
  <2> QED
    BY <1>4, <2>2, <2>3, <2>4, <2>5 DEF CreateSocket, AfterClose
<1>5. ASSUME NEW ok \in BOOLEAN, SendTo(ok) PROVE SocketInv'
  BY <1>5 DEF SocketInv, SendTo, Interface
<1>6. CASE CloseSocket
  <2>1. sockets' = [sockets EXCEPT ![sockfd] = "closed"] /\ sockfd' = -1 /\ InterfaceDone(Judged)
        /\ sockfd \in 1..Descriptors
    BY <1>6 DEF CloseSocket, AfterClose, SocketInv
  <2>2. tmIndex' \in 1..Len(Interfaces) /\ tmPc' \in {"idle", "interface"}
    BY <1>0, <2>1 DEF InterfaceDone
  <2>3. sockets' \in [1..Descriptors -> Values] /\ \A d \in 1..Descriptors : sockets'[d] = "closed"
    BY <1>0, <1>6, <2>1 DEF SocketInv, CloseSocket
  <2> QED
    BY <2>1, <2>2, <2>3 DEF SocketInv
<1> QED
  BY <1>1, <1>2, <1>3, <1>4, <1>5, <1>6 DEF NextTestMode

(***************************************************************************)
(* Every sendto of uartd_test_mode.c goes through an open socket bound to  *)
(* its interface, and no other socket is open, between calls none at all.  *)
(***************************************************************************)
THEOREM OneSocketAlways == InitTestMode /\ [][NextTestMode]_testModeVars => []OneSocket
<1> USE TestModeAssumption DEF TestModeAssumption
<1>1. InitTestMode => SocketInv
  <2> SUFFICES ASSUME InitTestMode PROVE SocketInv
    OBVIOUS
  <2>1. 1 \in 1..Len(Interfaces)
    OBVIOUS
  <2> QED
    BY <2>1 DEF InitTestMode, SocketInv
<1>2. SocketInv => OneSocket
  BY DEF SocketInv, OneSocket
<1> QED
  BY <1>1, <1>2, StepSocket, PTL

\* What is known of the datagrams of a call before its verdict.
LeftInv ==
    /\ tmSent \in Nat /\ tmLast \in BOOLEAN /\ tmLeft \in BOOLEAN
    /\ tmPc = "create" => tmSent = 0
    /\ tmPc = "send" /\ tmSent > 0 /\ tmLast = TRUE => tmLeft = TRUE
    /\ tmResult = 0 => tmLeft = TRUE

(***************************************************************************)
(* send_cmd_to_server returns 0 only if a datagram has left.               *)
(***************************************************************************)
THEOREM SuccessMeansSentAlways ==
    InitTestMode /\ [][NextTestMode]_testModeVars => []SuccessMeansSent
<1> USE TestModeAssumption DEF TestModeAssumption
<1>0. -1 # 0
  OBVIOUS
<1>1. InitTestMode => LeftInv
  <2> SUFFICES ASSUME InitTestMode PROVE LeftInv
    OBVIOUS
  <2>1. tmSent = 0 /\ tmPc = "idle" /\ tmResult # 0 /\ 0 \in Nat
    BY <1>0 DEF InitTestMode
  <2>2. tmLast \in BOOLEAN /\ tmLeft \in BOOLEAN
    BY DEF InitTestMode
  <2> QED
    BY <2>1, <2>2, Zenon DEF LeftInv
<1>2. LeftInv /\ [NextTestMode]_testModeVars => LeftInv'
  <2> SUFFICES ASSUME LeftInv, [NextTestMode]_testModeVars PROVE LeftInv'
    OBVIOUS
  <2>1. CASE UNCHANGED testModeVars
    BY <2>1 DEF LeftInv, testModeVars
  <2>2. CASE SendCmdToServer
    <3>1. tmResult' # 0 /\ tmPc' # "send" /\ tmPc' # "create"
      BY <1>0, <2>2 DEF SendCmdToServer
    <3>2. UNCHANGED <<tmSent, tmLast>> /\ tmLeft' \in BOOLEAN
      BY <2>2 DEF SendCmdToServer
    <3> QED
      BY <3>1, <3>2 DEF LeftInv
  <2>3. CASE EnterInterface
    BY <2>3 DEF LeftInv, EnterInterface
  <2>4. CASE CreateSocket
    <3>1. tmSent = 0 /\ UNCHANGED <<tmSent, tmLast, tmLeft>>
      BY <2>4 DEF CreateSocket, LeftInv
    <3>2. tmResult' = tmResult
      BY <2>4 DEF CreateSocket, InterfaceDone
    <3> QED
      BY <3>1, <3>2 DEF LeftInv
  <2>5. ASSUME NEW ok \in BOOLEAN, SendTo(ok) PROVE LeftInv'
    BY <2>5 DEF LeftInv, SendTo
  <2>6. CASE CloseSocket
    BY <2>6 DEF LeftInv, CloseSocket, InterfaceDone, Judged
  <2> QED
    BY <2>1, <2>2, <2>3, <2>4, <2>5, <2>6 DEF NextTestMode
<1>3. LeftInv => SuccessMeansSent
  BY DEF LeftInv, SuccessMeansSent
<1> QED
  BY <1>1, <1>2, <1>3, PTL

-----------------------------------------------------------------------------
(***************************************************************************)
(* Key report: which blocks are held where report_key is, and what the     *)
(* answer's buffer holds.                                                  *)
(***************************************************************************)
Objs == {"infor", "para", "array"}
HeldInv ==
    /\ rkPc = "idle" => held = {}
    /\ rkPc \in {"build", "given up", "crashed"} => held \subseteq {"device_id"}
    /\ rkPc \in {"curl", "perform", "failed", "returned"} =>
          held \subseteq Objs \cup {"curl", "list", "chunk", "old chunk"}
    /\ rkPc \in {"idle", "build", "given up", "crashed", "curl", "perform", "failed", "returned"}

\* Every step of report_key keeps the account of its blocks.
LEMMA StepHeld == HeldInv /\ [NextReportKey]_reportKeyVars => HeldInv'
<1> SUFFICES ASSUME HeldInv, [NextReportKey]_reportKeyVars PROVE HeldInv'
  OBVIOUS
<1>1. CASE UNCHANGED reportKeyVars
  BY <1>1 DEF HeldInv, reportKeyVars
<1>2. ASSUME NEW o \in Outcomes, GetDuercfg(o) PROVE HeldInv'
  <2>1. Acquired(o) \ ReleasedFrom(ErrorLabel(o)) = {}
    BY DEF Outcomes, Acquired, ReleasedFrom, ErrorLabel
  <2>2. held' \subseteq {"device_id"} /\ rkPc' = "build"
    BY <1>2, <2>1 DEF GetDuercfg
  <2> QED
    BY <2>2 DEF HeldInv
<1>3. ASSUME NEW n \in DOMAIN Objects, ObjectFails(n) PROVE HeldInv'
  <2>1. held' \subseteq {"device_id"} /\ rkPc' = "given up"
    BY <1>3 DEF ObjectFails, PutBack, HeldInv
  <2> QED
    BY <2>1 DEF HeldInv
<1>4. CASE NullDeviceId
  BY <1>4 DEF NullDeviceId, HeldInv
<1>5. CASE Build
  <2>1. held' \subseteq Objs /\ rkPc' = "curl"
    BY <1>5 DEF Build, HeldInv, Objs
  <2> QED
    BY <2>1 DEF HeldInv
<1>6. CASE CurlInit
  <2>1. held' \subseteq Objs \cup {"curl", "list", "chunk", "old chunk"} /\ rkPc' \in {"perform", "returned"}
    BY <1>6 DEF CurlInit, HeldInv
  <2> QED
    BY <2>1 DEF HeldInv
<1>7. CASE WritePart
  <2>1. held' \subseteq Objs \cup {"curl", "list", "chunk", "old chunk"} /\ rkPc' = "perform"
    BY <1>7 DEF WritePart, HeldInv
  <2> QED
    BY <2>1 DEF HeldInv
<1>8. CASE PartRefused
  <2>1. held' \subseteq Objs \cup {"curl", "list", "chunk", "old chunk"} /\ rkPc' = "failed"
    BY <1>8 DEF PartRefused, HeldInv, Objs
  <2> QED
    BY <2>1 DEF HeldInv
<1>9. CASE PerformEnds
  <2>1. held' \subseteq Objs \cup {"curl", "list", "chunk", "old chunk"} /\ rkPc' = "returned"
    BY <1>9 DEF PerformEnds, HeldInv
  <2> QED
    BY <2>1 DEF HeldInv
<1> QED
  BY <1>1, <1>2, <1>3, <1>4, <1>5, <1>6, <1>7, <1>8, <1>9 DEF NextReportKey

(***************************************************************************)
(* The error labels of get_duercfg, and report_key's own error path,       *)
(* release what was acquired before them.                                  *)
(***************************************************************************)
THEOREM ErrorPathsReleaseAlways ==
    InitReportKey /\ [][NextReportKey]_reportKeyVars => []ErrorPathsRelease
<1>1. InitReportKey => HeldInv
  BY DEF InitReportKey, HeldInv
<1>2. HeldInv => ErrorPathsRelease
  BY DEF HeldInv, ErrorPathsRelease, Objs
<1> QED
  BY <1>1, <1>2, StepHeld, PTL

\* The buffer holds all parts that have come, in order, unless a part was
\* refused; before the first part it holds nothing that was written.
WholeSoFar(c) ==
    /\ c.mem \in {"raw", "null", "text"}
    /\ c.mem \in {"raw", "null"} => answer = 0
    /\ c.mem \in {"raw", "null"} => c.parts = <<>>
    /\ c.mem = "text" => c.parts = [k \in 1..answer |-> k]
AnswerInv ==
    /\ answer \in Nat
    /\ rkPc \in {"idle", "build", "given up", "crashed", "curl"} => answer = 0
    /\ rkPc = "perform" => WholeSoFar(chunk)
    /\ rkPrinted.mem # "none" => rkPc = "returned" /\ WholeSoFar(rkPrinted)

(***************************************************************************)
(* What curl_init_and_reportdata prints of an answer is all that           *)
(* WriteMemoryCallback was given, in order.                                *)
(***************************************************************************)
THEOREM PrintsWholeAnswerAlways ==
    InitReportKey /\ [][NextReportKey]_reportKeyVars => []PrintsWholeAnswer
<1>1. InitReportKey => AnswerInv
  BY DEF InitReportKey, AnswerInv, Memory
<1>2. AnswerInv /\ [NextReportKey]_reportKeyVars => AnswerInv'
  <2> SUFFICES ASSUME AnswerInv, [NextReportKey]_reportKeyVars PROVE AnswerInv'
    OBVIOUS
  <2>1. CASE UNCHANGED reportKeyVars
    BY <2>1 DEF AnswerInv, WholeSoFar, reportKeyVars
  <2>2. ASSUME UNCHANGED <<answer, rkPrinted>>, rkPc \in {"idle", "build"},
               rkPc' \in {"build", "given up", "crashed", "curl"}
        PROVE  AnswerInv'
    BY <2>2 DEF AnswerInv
  <2>3. ASSUME NEW o \in Outcomes, GetDuercfg(o) PROVE AnswerInv'
    BY <2>2, <2>3 DEF GetDuercfg
  <2>4. ASSUME NEW n \in DOMAIN Objects, ObjectFails(n) PROVE AnswerInv'
    BY <2>2, <2>4 DEF ObjectFails
  <2>5. CASE NullDeviceId \/ Build
    BY <2>2, <2>5 DEF NullDeviceId, Build
  <2>6. CASE CurlInit
    <3>1. PICK m \in {"raw", "null"} : chunk' = Memory(m)
      BY <2>6 DEF CurlInit
    <3>2. answer' = 0 /\ UNCHANGED rkPrinted /\ rkPc' \in {"perform", "returned"} /\ rkPc = "curl"
      BY <2>6 DEF CurlInit, AnswerInv
    <3>3. chunk'.mem \in {"raw", "null"} /\ chunk'.parts = <<>>
      BY <3>1 DEF Memory
    <3> QED
      BY <3>2, <3>3 DEF AnswerInv, WholeSoFar
  <2>7. CASE WritePart
    <3>1. chunk.parts = [k \in 1..answer |-> k] /\ answer \in Nat
      BY <2>7 DEF WritePart, AnswerInv, WholeSoFar
    <3>2. chunk' = [mem |-> "text", parts |-> Append(chunk.parts, answer + 1)] /\ answer' = answer + 1
      BY <2>7 DEF WritePart, Extended
    <3>3. Append([k \in 1..answer |-> k], answer + 1) = [k \in 1..answer + 1 |-> k]
      BY <3>1
    <3>4. chunk'.mem = "text" /\ chunk'.parts = [k \in 1..answer' |-> k]
      BY <3>1, <3>2, <3>3
    <3>5. answer' \in Nat /\ UNCHANGED <<rkPc, rkPrinted>> /\ rkPc = "perform"
      BY <2>7, <3>1 DEF WritePart
    <3> QED
      BY <3>4, <3>5 DEF AnswerInv, WholeSoFar
  <2>8. CASE PartRefused
    <3>1. rkPc = "perform" /\ rkPc' = "failed" /\ answer' = answer + 1 /\ UNCHANGED rkPrinted
      BY <2>8 DEF PartRefused
    <3>2. answer' \in Nat /\ rkPrinted.mem = "none"
      BY <3>1 DEF AnswerInv
    <3> QED
      BY <3>1, <3>2 DEF AnswerInv
  <2>9. CASE PerformEnds
    <3>1. UNCHANGED answer /\ rkPc' = "returned"
      BY <2>9 DEF PerformEnds
    <3>2. rkPrinted'.mem # "none" => rkPrinted' = chunk /\ rkPc = "perform"
      <4>1. rkPc \in {"perform", "failed"} => rkPrinted.mem = "none"
        BY DEF AnswerInv
      <4>2. Memory("none").mem = "none"
        BY DEF Memory
      <4>3. CASE rkPc = "perform" /\ rkPrinted' \in {chunk, Memory("none")}
        BY <4>2, <4>3
      <4>4. CASE rkPc = "failed" /\ rkPrinted' = rkPrinted
        BY <4>1, <4>4
      <4> QED
        BY <2>9, <4>3, <4>4 DEF PerformEnds
    <3> QED
      BY <3>1, <3>2 DEF AnswerInv, WholeSoFar
  <2> QED
    BY <2>1, <2>3, <2>4, <2>5, <2>6, <2>7, <2>8, <2>9 DEF NextReportKey
<1>3. AnswerInv => PrintsWholeAnswer
  BY DEF AnswerInv, WholeSoFar, PrintsWholeAnswer
<1> QED
  BY <1>1, <1>2, <1>3, PTL

-----------------------------------------------------------------------------
(***************************************************************************)
(* Start-up: what is known of the descriptors at every step of main.       *)
(***************************************************************************)
IsReady(d) == descr[d].open /\ descr[d].nonblock
Needed == {"uart", "pipe"} \cup (IF withSocket THEN {"sock"} ELSE {})
StartupInv ==
    /\ descr \in [{"uart", "pipe", "sock"} ->
                    [open : BOOLEAN, nonblock : BOOLEAN, setup : BOOLEAN]]
    /\ withSocket \in BOOLEAN
    /\ suPc \in {"nonblock sock", "nonblock pipe"} => IsReady("uart")
    /\ suPc = "nonblock pipe" /\ withSocket => IsReady("sock")
    /\ suPc = "nonblock sock" => withSocket
    /\ suPc \in {"pool", "mutexes", "add jobs", "loop"} => \A d \in Needed : IsReady(d)
    /\ suPc = "loop" => suPool

(***************************************************************************)
(* main enters its loop only with a pool and with every descriptor it      *)
(* needs open and non-blocking, although it ignores the failures of        *)
(* init_pipe and threadpool_init.                                          *)
(***************************************************************************)
THEOREM LoopReadyAlways == InitStartup /\ [][NextStartup]_startupVars => []LoopReady
<1>1. InitStartup => StartupInv
  <2> SUFFICES ASSUME InitStartup PROVE StartupInv
    OBVIOUS
  <2>1. Absent \in [open : BOOLEAN, nonblock : BOOLEAN, setup : BOOLEAN]
    BY DEF Absent
  <2>2. suPc = "start" /\ withSocket \in BOOLEAN
        /\ descr \in [{"uart", "pipe", "sock"} -> [open : BOOLEAN, nonblock : BOOLEAN, setup : BOOLEAN]]
    BY <2>1 DEF InitStartup
  <2> QED
    BY <2>2 DEF StartupInv
<1>2. StartupInv /\ [NextStartup]_startupVars => StartupInv'
  <2> SUFFICES ASSUME StartupInv, [NextStartup]_startupVars PROVE StartupInv'
    OBVIOUS
  <2> DEFINE D == {"uart", "pipe", "sock"}
             R == [open : BOOLEAN, nonblock : BOOLEAN, setup : BOOLEAN]
  <2>0. descr \in [D -> R] /\ withSocket \in BOOLEAN
    BY DEF StartupInv
  <2>1. CASE UNCHANGED startupVars
    BY <2>1 DEF StartupInv, startupVars, IsReady, Needed
  <2>2. ASSUME descr' \in [D -> R], withSocket' \in BOOLEAN,
               suPc' \notin {"nonblock sock", "nonblock pipe", "pool", "mutexes", "add jobs", "loop"}
        PROVE  StartupInv'
    BY <2>2 DEF StartupInv
  <2>3. CASE InitUart \/ InitPipe \/ InitSocketServer
    <3>1. \A d \in D, r \in R : [descr EXCEPT ![d] = r] \in [D -> R]
      BY <2>0
    <3>2. \A a, b, c \in BOOLEAN : [open |-> a, nonblock |-> b, setup |-> c] \in R
      OBVIOUS
    <3>3. CASE InitUart
      <4> DEFINE r == [open |-> TRUE, nonblock |-> TRUE, setup |-> termios' # {}]
      <4>1. descr' = descr \/ descr' = [descr EXCEPT !["uart"] = r]
        BY <3>3, SMT DEF InitUart
      <4>2. descr' \in [D -> R]
        <5>1. r \in R
          OBVIOUS
        <5> HIDE DEF r
        <5> QED
          BY <2>0, <3>1, <4>1, <5>1
      <4>3. withSocket' \in BOOLEAN
        BY <3>3, SMT DEF InitUart
      <4>4. suPc' \in {"exit", "pipe"}
        BY <3>3, SMT DEF InitUart
      <4> QED
        BY <2>2, <4>2, <4>3, <4>4
    <3>4. CASE InitPipe
      <4>1. PICK ok \in BOOLEAN :
               descr' = [descr EXCEPT !["pipe"] = [open |-> ok, nonblock |-> FALSE, setup |-> ok]]
        BY <3>4 DEF InitPipe
      <4>2. descr' \in [D -> R]
        BY <3>1, <3>2, <4>1
      <4>3. suPc' \in {"sock", "recv list"} /\ withSocket' = withSocket
        BY <3>4 DEF InitPipe
      <4> QED
        BY <2>0, <2>2, <4>2, <4>3
    <3>5. CASE InitSocketServer
      <4>1. PICK made, ok \in BOOLEAN :
               descr' = [descr EXCEPT !["sock"] =
                            [open |-> made, nonblock |-> FALSE, setup |-> made /\ ok]]
        BY <3>5 DEF InitSocketServer
      <4>2. descr' \in [D -> R]
        <5>1. (made /\ ok) \in BOOLEAN
          OBVIOUS
        <5> QED
          BY <3>1, <3>2, <4>1, <5>1
      <4>3. suPc' = "recv list" /\ withSocket' = withSocket
        BY <3>5 DEF InitSocketServer
      <4> QED
        BY <2>0, <2>2, <4>2, <4>3
    <3> QED
      BY <2>3, <3>3, <3>4, <3>5
  <2>4. CASE InitList("recv list", "send list") \/ InitList("send list", "epoll") \/ EpollCreate
    BY <2>0, <2>2, <2>4 DEF InitList, EpollCreate
  <2>5. ASSUME NEW d \in D, NEW at, NEW next, SetNonblocking(at, d, next)
        PROVE  /\ UNCHANGED <<withSocket, suPool>> /\ descr' \in [D -> R]
               /\ \A e \in D : IsReady(e) => IsReady(e)'
               /\ suPc = at
               /\ \/ suPc' = next /\ IsReady(d)'
                  \/ suPc' = "exit"
    <3>1. CASE UNCHANGED descr /\ suPc' = AfterFcntlError(next)
      BY <2>0, <2>5, <3>1 DEF SetNonblocking, AfterFcntlError, IsReady
    <3>2. CASE descr[d].open /\ descr' = [descr EXCEPT ![d].nonblock = TRUE] /\ suPc' = next
      <4>1. descr' \in [D -> R]
        BY <2>0, <3>2
      <4>2. descr'[d] = [descr[d] EXCEPT !.nonblock = TRUE] /\ \A e \in D : e # d => descr'[e] = descr[e]
        BY <2>0, <3>2
      <4>3. descr'[d].open /\ descr'[d].nonblock
        BY <2>0, <3>2, <4>2
      <4> QED
        BY <2>5, <3>2, <4>1, <4>2, <4>3 DEF SetNonblocking, IsReady
    <3> QED
      BY <2>5, <3>1, <3>2 DEF SetNonblocking
  <2>6. CASE SetNonblocking("nonblock uart", "uart",
                            IF withSocket THEN "nonblock sock" ELSE "nonblock pipe")
    <3>1. PICK next \in {"nonblock sock", "nonblock pipe"} :
             /\ SetNonblocking("nonblock uart", "uart", next)
             /\ next = IF withSocket THEN "nonblock sock" ELSE "nonblock pipe"
      BY <2>6
    <3>2. /\ UNCHANGED <<withSocket, suPool>> /\ descr' \in [D -> R]
          /\ (suPc' = next /\ IsReady("uart")') \/ suPc' = "exit"
      BY <2>5, <3>1
    <3> QED
      BY <2>0, <3>1, <3>2 DEF StartupInv
  <2>7. CASE SetNonblocking("nonblock sock", "sock", "nonblock pipe")
    <3>1. /\ UNCHANGED <<withSocket, suPool>> /\ descr' \in [D -> R]
          /\ IsReady("uart") => IsReady("uart")'
          /\ suPc = "nonblock sock"
          /\ (suPc' = "nonblock pipe" /\ IsReady("sock")') \/ suPc' = "exit"
      BY <2>5, <2>7
    <3> QED
      BY <2>0, <3>1 DEF StartupInv
  <2>8. CASE SetNonblocking("nonblock pipe", "pipe", "pool")
    <3>1. /\ UNCHANGED <<withSocket, suPool>> /\ descr' \in [D -> R]
          /\ IsReady("uart") => IsReady("uart")'
          /\ IsReady("sock") => IsReady("sock")'
          /\ suPc = "nonblock pipe"
          /\ (suPc' = "pool" /\ IsReady("pipe")') \/ suPc' = "exit"
      BY <2>5, <2>8
    <3>2. suPc' = "pool" => \A d \in Needed' : IsReady(d)'
      BY <3>1 DEF StartupInv, Needed
    <3> QED
      BY <2>0, <3>1, <3>2 DEF StartupInv
  <2>9. CASE ThreadpoolInit \/ InitMutexes \/ AddFirstJobs
    <3>1. UNCHANGED <<withSocket, descr>>
      BY <2>9 DEF ThreadpoolInit, InitMutexes, AddFirstJobs
    <3>2. /\ suPc \in {"pool", "mutexes", "add jobs"}
          /\ suPc' \in {"mutexes", "add jobs", "exit", "loop", "crashed"}
          /\ suPc' = "loop" => suPool' = TRUE
      <4>1. CASE ThreadpoolInit \/ InitMutexes
        BY <4>1 DEF ThreadpoolInit, InitMutexes
      <4>2. CASE AddFirstJobs
        BY <4>2 DEF AddFirstJobs
      <4> QED
        BY <2>9, <4>1, <4>2
    <3> QED
      BY <3>1, <3>2 DEF StartupInv, IsReady, Needed
  <2> QED
    BY <2>1, <2>3, <2>4, <2>6, <2>7, <2>8, <2>9 DEF NextStartup
<1>3. StartupInv => LoopReady
  BY DEF StartupInv, LoopReady, IsReady, Needed
<1> QED
  BY <1>1, <1>2, <1>3, PTL

-----------------------------------------------------------------------------
(***************************************************************************)
(* The URL file: what compare_FileAndUrl has established while it reads,   *)
(* and at each of its returns.                                             *)
(***************************************************************************)
Files == [there : BOOLEAN, pieces : Seq(Pieces)]
UnlikeIn(s, n) == \A k \in 1..n : ~Agrees(s[k])

\* The three ways to return result, having looked at i pieces of the stream f
\* and counted n lines.
Answered(f, n, i, result) ==
    \/ ~f.there /\ result = -1
    \/ /\ f.there /\ result = 0
       /\ i \in Nat /\ UnlikeIn(f.pieces, i)
       /\ i >= n \/ i >= Len(f.pieces)
    \/ /\ f.there /\ result \in Nat /\ result > 0
       /\ result <= n /\ result <= Len(f.pieces)
       /\ Agrees(f.pieces[result]) /\ UnlikeIn(f.pieces, result - 1)

\* What hangshu returns for the stream it has counted.
Lines(f) == IF f.there THEN Newlines(f.pieces) ELSE -1

UrlInv ==
    /\ urlFile \in Files /\ fuStream \in Files /\ fuCounted \in Files /\ hangnum \in Int
    /\ fuPc \in {"idle", "count"} => fuCounted = NoFile
    /\ fuPc \in {"open", "read", "returned"} => hangnum = Lines(fuCounted)
    /\ fuPc \in {"idle", "open"} => fuI = 0 /\ fuOpen = 0
    /\ fuPc = "count" => fuI = 0 /\ fuOpen = 1 /\ fuStream.there
    /\ fuPc = "read" => /\ fuOpen = 1 /\ fuStream.there
                        /\ fuI \in Nat /\ fuI <= Len(fuStream.pieces)
                        /\ UnlikeIn(fuStream.pieces, fuI)
    /\ fuPc = "returned" => fuOpen = 0 /\ Answered(fuStream, hangnum, fuI, fuResult)

\* hangshu returns a number.
LEMMA LinesType == ASSUME NEW f \in Files PROVE Lines(f) \in Int
<1> DEFINE N == {k \in DOMAIN f.pieces : f.pieces[k].newline}
<1>1. f.pieces \in Seq(Pieces) /\ Len(f.pieces) \in Nat /\ DOMAIN f.pieces = 1..Len(f.pieces)
  BY LenProperties DEF Files
<1>2. IsFiniteSet(1..Len(f.pieces)) /\ N \in SUBSET (1..Len(f.pieces))
  BY <1>1, FS_Interval
<1>3. IsFiniteSet(N)
  BY <1>2, FS_Subset
<1>4. Cardinality(N) \in Nat
  BY <1>3, FS_CardinalityType
<1> QED
  BY <1>4 DEF Lines, Newlines

\* A stream rewritten from its k-th piece on keeps the pieces before.
LEMMA RewrittenKeeps ==
    ASSUME NEW s \in Seq(Pieces), NEW t \in Seq(Pieces), NEW k \in 0..Len(s), NEW i \in 0..k
    PROVE  LET u == SubSeq(s, 1, k) \o t
           IN  /\ u \in Seq(Pieces) /\ i <= Len(u)
               /\ UnlikeIn(s, i) => UnlikeIn(u, i)
<1> DEFINE a == SubSeq(s, 1, k)
           u == a \o t
<1>0. Len(s) \in Nat /\ Len(t) \in Nat /\ DOMAIN s = 1..Len(s)
  BY LenProperties
<1>1. \A j \in 1..k : s[j] \in Pieces
  BY <1>0, ElementOfSeq
<1>2. a \in Seq(Pieces) /\ Len(a) = k /\ \A j \in 1..k : a[j] = s[j]
  <2>1. 1 \in Int /\ k \in Int /\ (1 <= k => k - 1 + 1 = k) /\ (~(1 <= k) => k = 0)
    BY <1>0
  <2>2. \A j \in 1..k : j \in 1..k - 1 + 1 /\ 1 + j - 1 = j
    BY <1>0
  <2>3. /\ a \in Seq(Pieces) /\ Len(a) = IF 1 <= k THEN k - 1 + 1 ELSE 0
        /\ \A j \in 1..k - 1 + 1 : a[j] = s[1 + j - 1]
    BY <1>1, <2>1, SubSeqProperties
  <2> QED
    BY <2>1, <2>2, <2>3
<1> HIDE DEF a
<1>3. /\ u \in Seq(Pieces) /\ Len(u) = k + Len(t)
      /\ \A j \in 1..k + Len(t) : u[j] = IF j <= k THEN a[j] ELSE t[j - k]
  BY <1>2, ConcatProperties
<1>4. \A j \in 1..i : j \in 1..k /\ j \in 1..k + Len(t) /\ j <= k
  BY <1>0
<1>5. \A j \in 1..i : u[j] = s[j]
  BY <1>2, <1>3, <1>4
<1>6. i <= Len(u)
  BY <1>0, <1>3
<1> HIDE DEF u
<1> QED
  BY <1>3, <1>5, <1>6 DEF UnlikeIn, u, a

\* Every step of compare_FileAndUrl, and of whoever writes the file.
LEMMA StepUrl == UrlInv /\ [NextFileUrl]_fileUrlVars => UrlInv'
<1> SUFFICES ASSUME UrlInv, [NextFileUrl]_fileUrlVars PROVE UrlInv'
  OBVIOUS
<1>0. /\ urlFile \in Files /\ fuStream \in Files /\ fuCounted \in Files /\ hangnum \in Int
      /\ fuStream.pieces \in Seq(Pieces) /\ Len(fuStream.pieces) \in Nat
      /\ NoFile \in Files /\ NoFile.there = FALSE
  BY EmptySeq, LenProperties DEF UrlInv, Files, NoFile
<1>w. ASSUME NEW s \in Contents PROVE s \in Seq(Pieces)
  BY DEF Contents
\* Only the file at the path changes.
<1>o. ASSUME urlFile' \in Files,
             UNCHANGED <<fuPc, hangnum, fuI, fuOpen, fuResult, fuStream, fuCounted>>
      PROVE  UrlInv'
  BY <1>o DEF UrlInv
<1>1. CASE UNCHANGED fileUrlVars
  BY <1>0, <1>1, <1>o DEF fileUrlVars
<1>2. ASSUME NEW s \in Contents, FileWritten(s) PROVE UrlInv'
  <2>1. urlFile' \in Files
    BY <1>2, <1>w DEF FileWritten, File, Files
  <2> QED
    BY <1>2, <1>o, <2>1 DEF FileWritten
<1>3. CASE DeleteFile
  BY <1>0, <1>3, <1>o DEF DeleteFile
<1>4. ASSUME NEW k \in 0..MaxPieces, NEW s \in Contents, StreamRewritten(k, s) PROVE UrlInv'
  <2> DEFINE p == fuStream.pieces
             u == SubSeq(p, 1, k) \o s
  <2>1. /\ fuPc \in {"count", "read"} /\ k \in fuI..Len(p) /\ fuStream' = File(u)
        /\ UNCHANGED <<fuPc, urlFile, hangnum, fuI, fuOpen, fuResult, fuCounted>>
    BY <1>4 DEF StreamRewritten
  <2>2. fuI \in Nat
    BY <2>1 DEF UrlInv
  <2>3. k \in 0..Len(p) /\ fuI \in 0..k
    BY <1>0, <2>1, <2>2
  <2>4. u \in Seq(Pieces) /\ fuI <= Len(u) /\ (UnlikeIn(p, fuI) => UnlikeIn(u, fuI))
    BY <1>0, <1>w, <2>3, RewrittenKeeps
  <2> HIDE DEF u
  <2>5. fuStream' \in Files /\ fuStream'.there = TRUE /\ fuStream'.pieces = u
    BY <2>1, <2>4 DEF File, Files
  <2> QED
    BY <1>0, <2>1, <2>4, <2>5 DEF UrlInv
<1>5. CASE CountLines
  <2>1. fuPc = "idle" /\ fuI = 0 /\ fuOpen = 0 /\ fuCounted = NoFile
        /\ UNCHANGED <<urlFile, fuI, fuCounted>>
    BY <1>5 DEF CountLines, UrlInv
  <2>2. CASE Opened /\ fuPc' = "count" /\ UNCHANGED hangnum
    <3>1. fuStream' = urlFile /\ fuStream'.there /\ fuOpen' = 1
      BY <2>1, <2>2 DEF Opened
    <3> QED
      BY <1>0, <2>1, <2>2, <3>1 DEF UrlInv
  <2>3. CASE NotOpened /\ fuPc' = "open" /\ hangnum' = -1
    <3>1. fuStream' \in Files /\ fuOpen' = 0 /\ hangnum' = Lines(fuCounted)' /\ hangnum' \in Int
      BY <1>0, <2>1, <2>3 DEF NotOpened, Lines
    <3> QED
      BY <1>0, <2>1, <2>3, <3>1 DEF UrlInv
  <2> QED
    BY <1>5, <2>2, <2>3 DEF CountLines
<1>6. CASE LinesCounted
  <2>1. /\ fuPc = "count" /\ fuI = 0 /\ fuOpen = 1 /\ fuStream.there /\ fuPc' = "open"
        /\ hangnum' = Newlines(fuStream.pieces) /\ fuCounted' = fuStream /\ fuOpen' = fuOpen - 1
        /\ UNCHANGED <<urlFile, fuI, fuStream>>
    BY <1>6 DEF LinesCounted, UrlInv
  <2>2. hangnum' = Lines(fuStream) /\ hangnum' \in Int /\ fuOpen' = 0
    BY <1>0, <2>1, LinesType DEF Lines
  <2> QED
    BY <1>0, <2>1, <2>2 DEF UrlInv
<1>7. CASE NullArgument
  BY <1>0, <1>7 DEF UrlInv, NullArgument
<1>8. CASE OpenFile
  <2>1. /\ fuI = 0 /\ fuOpen = 0 /\ hangnum = Lines(fuCounted)
        /\ UNCHANGED <<urlFile, hangnum, fuI, fuCounted>>
    BY <1>8 DEF OpenFile, UrlInv
  <2>2. CASE Opened /\ fuPc' = "read"
    <3>1. fuStream' = urlFile /\ fuStream'.there /\ fuOpen' = 1
      BY <2>1, <2>2 DEF Opened
    <3>2. Len(urlFile.pieces) \in Nat /\ UnlikeIn(urlFile.pieces, 0)
      BY <1>0, LenProperties DEF UnlikeIn, Files
    <3> QED
      BY <1>0, <2>1, <2>2, <3>1, <3>2 DEF UrlInv
  <2>3. CASE NotOpened /\ fuPc' = "returned" /\ fuResult' = -1
    <3>1. fuStream' = NoFile /\ fuOpen' = 0
      BY <2>1, <2>3 DEF NotOpened
    <3>2. Answered(fuStream', hangnum', fuI', fuResult')
      BY <1>0, <2>3, <3>1 DEF Answered
    <3> QED
      BY <1>0, <2>1, <2>3, <3>1, <3>2 DEF UrlInv
  <2> QED
    BY <1>8, <2>2, <2>3 DEF OpenFile
<1>9. ASSUME fuPc = "read"
      PROVE  /\ fuOpen = 1 /\ fuStream.there
             /\ fuI \in Nat /\ fuI <= Len(fuStream.pieces) /\ UnlikeIn(fuStream.pieces, fuI)
             /\ hangnum = Lines(fuCounted)
  BY <1>9 DEF UrlInv
<1>10. CASE ReadNext
  <2>1. /\ ~Agrees(fuStream.pieces[fuI + 1]) /\ fuPc = "read" /\ fuI < Len(fuStream.pieces)
        /\ fuI' = fuI + 1
        /\ UNCHANGED <<fuPc, urlFile, hangnum, fuOpen, fuStream, fuCounted>>
    BY <1>10 DEF ReadNext, More
  <2>2. /\ fuI' \in Nat /\ fuI' <= Len(fuStream.pieces)
        /\ \A k \in 1..fuI' : k \in 1..fuI \/ k = fuI + 1
    BY <1>0, <1>9, <2>1
  <2>3. UnlikeIn(fuStream.pieces, fuI')
    BY <1>9, <2>1, <2>2 DEF UnlikeIn
  <2> QED
    BY <1>0, <1>9, <2>1, <2>2, <2>3 DEF UrlInv
<1>11. CASE FoundLine
  <2>1. /\ fuPc = "read" /\ fuI < hangnum /\ fuI < Len(fuStream.pieces)
        /\ Agrees(fuStream.pieces[fuI + 1])
        /\ fuPc' = "returned" /\ fuResult' = fuI + 1 /\ fuOpen' = fuOpen - 1
        /\ UNCHANGED <<urlFile, hangnum, fuI, fuStream, fuCounted>>
    BY <1>11 DEF FoundLine, More, LineNumber, AfterFclose
  <2>2. /\ fuResult' \in Nat /\ fuResult' > 0 /\ fuResult' <= hangnum
        /\ fuResult' <= Len(fuStream.pieces) /\ fuResult' - 1 = fuI
    BY <1>0, <1>9, <2>1
  <2>3. Answered(fuStream, hangnum, fuI, fuResult')
    BY <1>9, <2>1, <2>2 DEF Answered
  <2> QED
    BY <1>0, <1>9, <2>1, <2>3 DEF UrlInv
<1>12. CASE NotFound
  <2>1. /\ fuPc = "read" /\ fuPc' = "returned" /\ fuResult' = 0 /\ fuOpen' = fuOpen - 1
        /\ UNCHANGED <<urlFile, hangnum, fuI, fuStream, fuCounted>>
        /\ fuI >= hangnum \/ fuI >= Len(fuStream.pieces)
    BY <1>0, <1>9, <1>12 DEF NotFound, More
  <2>2. Answered(fuStream, hangnum, fuI, fuResult')
    BY <1>9, <2>1 DEF Answered
  <2> QED
    BY <1>0, <1>9, <2>1, <2>2 DEF UrlInv
<1> QED
  BY <1>1, <1>2, <1>3, <1>4, <1>5, <1>6, <1>7, <1>8, <1>10, <1>11, <1>12 DEF NextFileUrl

\* Nothing has been counted, opened or read yet.
LEMMA InitUrl == InitFileUrl => UrlInv
<1> SUFFICES ASSUME InitFileUrl PROVE UrlInv
  OBVIOUS
<1>1. NoFile \in Files
  BY EmptySeq DEF NoFile, Files
<1>2. urlFile \in Files /\ fuStream \in Files /\ fuCounted \in Files /\ hangnum \in Int
      /\ fuPc = "idle" /\ fuI = 0 /\ fuOpen = 0 /\ fuCounted = NoFile
  BY <1>1 DEF InitFileUrl
<1> QED
  BY <1>2 DEF UrlInv

(***************************************************************************)
(* A positive answer of compare_FileAndUrl is the number of the first      *)
(* piece fgets returned that agrees with Url, and every stream has been    *)
(* closed, whatever fopen fails and whenever the file changes.             *)
(***************************************************************************)
THEOREM AnswerIsSoundAlways == InitFileUrl /\ [][NextFileUrl]_fileUrlVars => []AnswerIsSound
<1>1. UrlInv => AnswerIsSound
  <2> SUFFICES ASSUME UrlInv, fuPc = "returned"
               PROVE  /\ fuOpen = 0
                      /\ fuResult > 0 =>
                            /\ fuResult \in DOMAIN fuStream.pieces
                            /\ Agrees(fuStream.pieces[fuResult])
                            /\ \A k \in 1..fuResult - 1 : ~Agrees(fuStream.pieces[k])
    BY DEF AnswerIsSound
  <2>1. DOMAIN fuStream.pieces = 1..Len(fuStream.pieces) /\ Len(fuStream.pieces) \in Nat
    BY LenProperties DEF UrlInv, Files
  <2>2. fuOpen = 0 /\ Answered(fuStream, hangnum, fuI, fuResult)
    BY DEF UrlInv
  <2>3. ~(-1 > 0) /\ ~(0 > 0)
    OBVIOUS
  <2> HIDE DEF Agrees
  <2> QED
    BY <2>1, <2>2, <2>3 DEF Answered, UnlikeIn
<1> QED
  BY <1>1, InitUrl, StepUrl, PTL

\* When no line is longer than the buffer, the pieces that end in a newline are
\* the first ones, as many as hangshu counts.
LEMMA LinesShort ==
    ASSUME NEW f \in Files, f.there, ShortLines(f.pieces), NEW k \in 1..Len(f.pieces)
    PROVE  f.pieces[k].newline <=> k <= Lines(f)
<1> DEFINE s == f.pieces
           n == Len(f.pieces)
           N == {j \in DOMAIN s : s[j].newline}
<1>1. s \in Seq(Pieces) /\ n \in Nat /\ DOMAIN s = 1..n /\ n > 0
  BY LenProperties DEF Files
<1>2. \A j \in 1..n : s[j].newline \/ j = n
  BY <1>1 DEF ShortLines
<1>3. Lines(f) = Cardinality(N)
  BY DEF Lines, Newlines
<1> HIDE DEF n, s
<1>4. CASE s[n].newline
  <2>1. N = 1..n
    BY <1>1, <1>2, <1>4
  <2>2. Cardinality(1..n) = n
    BY <1>1, FS_Interval
  <2>3. Lines(f) = n
    BY <1>3, <2>1, <2>2
  <2>4. k \in N /\ k <= n
    BY <1>1, <2>1 DEF n
  <2>5. s[k].newline
    BY <2>4
  <2> QED
    BY <2>3, <2>4, <2>5 DEF s
<1>5. CASE ~s[n].newline
  <2>1. N = 1..n - 1
    BY <1>1, <1>2, <1>5
  <2>2. Cardinality(1..n - 1) = n - 1
    BY <1>1, FS_Interval
  <2>3. Lines(f) = n - 1
    BY <1>3, <2>1, <2>2
  <2>4. k \in N <=> k <= n - 1
    BY <1>1, <2>1 DEF n
  <2>5. k \in N <=> s[k].newline
    BY <1>1 DEF n
  <2> QED
    BY <2>3, <2>4, <2>5 DEF s
<1> QED
  BY <1>4, <1>5

\* strncmp with the unsigned strlen(Url) - 1 finds what begins with all but the
\* last character of Url; SIZE_MAX is more than any string has.
LEMMA AgreesIsBegins == \A p \in Pieces : Agrees(p) <=> Begins(p)
<1> USE FileUrlAssumption DEF FileUrlAssumption
<1> TAKE p \in Pieces
<1>1. p.common \in 0..UrlLen + 1
  BY DEF Pieces
<1>2. CASE UrlLen = 0
  BY <1>1, <1>2 DEF Agrees, CompareLen, Begins
<1>3. CASE UrlLen # 0
  <2>1. p.common >= UrlLen - 1 <=> p.common + 1 >= UrlLen
    BY <1>1
  <2> QED
    BY <1>3, <2>1 DEF Agrees, CompareLen, Begins
<1> QED
  BY <1>2, <1>3

(***************************************************************************)
(* If both passes saw the same text, with lines that fit the buffer, the   *)
(* answer is the number of the first line that begins with Url less its    *)
(* last character, 0 if there is none; if neither had a stream, it is -1.  *)
(***************************************************************************)
THEOREM FirstLineFoundAlways == InitFileUrl /\ [][NextFileUrl]_fileUrlVars => []FirstLineFound
<1>1. UrlInv => FirstLineFound
  <2> SUFFICES ASSUME UrlInv, fuPc = "returned", fuStream = fuCounted, ShortLines(fuStream.pieces)
               PROVE  fuResult = IF ~fuStream.there THEN -1
                                 ELSE IF Hits = {} THEN 0
                                 ELSE CHOOSE k \in Hits : \A h \in Hits : k <= h
    BY DEF FirstLineFound
  <2> DEFINE s == fuStream.pieces
             n == Len(fuStream.pieces)
  <2>1. /\ fuStream \in Files /\ s \in Seq(Pieces) /\ n \in Nat /\ DOMAIN s = 1..n
        /\ \A k \in 1..n : Begins(s[k]) <=> Agrees(s[k])
    <3>1. fuStream \in Files /\ s \in Seq(Pieces) /\ n \in Nat /\ DOMAIN s = 1..n
      BY LenProperties DEF UrlInv, Files
    <3>2. \A k \in 1..n : s[k] \in Pieces
      BY <3>1, ElementOfSeq
    <3> QED
      BY <3>1, <3>2, AgreesIsBegins
  <2>2. hangnum = Lines(fuStream) /\ hangnum \in Int /\ Answered(fuStream, hangnum, fuI, fuResult)
    BY DEF UrlInv
  <2>3. ASSUME fuStream.there
        PROVE  \A k \in 1..n : k \in Hits <=> Agrees(s[k]) /\ k <= hangnum
    <3>1. \A k \in 1..n : s[k].newline <=> k <= hangnum
      BY <2>1, <2>2, <2>3, LinesShort
    <3> QED
      BY <2>1, <3>1 DEF Hits
  <2>4. Hits \subseteq 1..n
    BY <2>1 DEF Hits
  <2> HIDE DEF n
  <2>5. CASE ~fuStream.there /\ fuResult = -1
    BY <2>5
  <2>6. CASE /\ fuStream.there /\ fuResult = 0
             /\ fuI \in Nat /\ UnlikeIn(s, fuI)
             /\ fuI >= hangnum \/ fuI >= n
    <3>1. \A k \in 1..n : k <= hangnum => k \in 1..fuI
      BY <2>1, <2>2, <2>6
    <3>2. \A k \in 1..n : k \notin Hits
      BY <2>3, <2>6, <3>1 DEF UnlikeIn
    <3>3. Hits = {}
      BY <2>4, <3>2
    <3> QED
      BY <2>6, <3>3
  <2>7. CASE /\ fuStream.there /\ fuResult \in Nat /\ fuResult > 0
             /\ fuResult <= hangnum /\ fuResult <= n
             /\ Agrees(s[fuResult]) /\ UnlikeIn(s, fuResult - 1)
    <3>1. fuResult \in 1..n /\ fuResult \in Hits
      BY <2>1, <2>3, <2>7
    <3>2. ASSUME NEW h \in Hits PROVE fuResult <= h
      <4>1. h \in 1..n /\ Agrees(s[h])
        BY <2>3, <2>4, <2>7
      <4>2. h \notin 1..fuResult - 1
        BY <2>7, <4>1 DEF UnlikeIn
      <4> QED
        BY <2>1, <2>7, <4>1, <4>2
    <3>3. \A k \in Hits : (\A h \in Hits : k <= h) => k = fuResult
      <4>1. n \in Nat
        BY <2>1
      <4>2. \A k \in 1..n : k \in Int
        BY <4>1
      <4>3. \A k \in Hits : k \in Int
        BY <2>4, <4>2
      <4> QED
        BY <3>1, <3>2, <4>3
    <3>4. (CHOOSE k \in Hits : \A h \in Hits : k <= h) = fuResult
      BY <3>1, <3>2, <3>3
    <3> QED
      BY <2>7, <3>1, <3>4
  <2> QED
    BY <2>2, <2>5, <2>6, <2>7 DEF Answered, n
<1> QED
  BY <1>1, InitUrl, StepUrl, PTL

-----------------------------------------------------------------------------
(***************************************************************************)
(* excute_cmd: what fgets takes of the stream.                             *)
(***************************************************************************)
Output == Seq({"c", "n"})

\* fgets takes a beginning of the stream that fits; if it is shorter than it
\* might be and does not end in a newline, it is all there was.
LEMMA FetchedCut ==
    ASSUME NEW s \in Output, NEW limit \in Nat \ {0}
    PROVE  LET line == Fetched(s, limit)
               rest == SubSeq(s, Len(line) + 1, Len(s))
           IN  /\ line \in Output /\ rest \in Output /\ line \o rest = s
               /\ Len(line) < limit
               /\ Len(line) < limit - 1 /\ line[Len(line)] # "n" => rest = <<>>
<1> DEFINE n == Len(s)
<1>0. s \in Seq({"c", "n"}) /\ n \in Nat /\ DOMAIN s = 1..n
  BY LenProperties DEF Output
<1>1. CASE limit = 1 \/ s = <<>>
  <2>1. Fetched(s, limit) = <<>>
    BY <1>1 DEF Fetched
  <2>2. /\ SubSeq(s, 1, 0) = <<>> /\ SubSeq(s, 1, n) = s
    BY <1>0, SubSeqFull
  <2>3. <<>> \o s = s /\ <<>> \in Seq({"c", "n"})
    BY ConcatEmptySeq, EmptySeq
  <2> QED
    BY <1>0, <1>1, <2>1, <2>2, <2>3 DEF Output
<1>2. CASE limit # 1 /\ s # <<>>
  <2> DEFINE ends == {k \in DOMAIN s : s[k] = "n" \/ k = limit - 1 \/ k = n}
             m == CHOOSE k \in ends : \A e \in ends : k <= e
             line == SubSeq(s, 1, m)
             rest == SubSeq(s, m + 1, n)
  <2>1. n > 0 /\ n \in ends /\ ends \subseteq Nat
    BY <1>0, <1>2, EmptySeq
  <2>2. \E k \in ends : \A e \in ends : k <= e
    <3> HIDE DEF ends
    <3> QED
      BY <2>1, LeastElement
  <2>3. m \in ends /\ \A e \in ends : m <= e
    BY <2>2
  <2>4. Fetched(s, limit) = line
    BY <1>2 DEF Fetched
  <2> HIDE DEF m
  <2>5. m \in 1..n /\ (s[m] = "n" \/ m = limit - 1 \/ m = n) /\ m <= n
    BY <1>0, <2>3
  <2> HIDE DEF ends, n
  <2>6. m <= limit - 1
    <3>1. CASE limit - 1 \in 1..n
      BY <1>0, <2>3, <3>1 DEF ends
    <3>2. CASE limit - 1 \notin 1..n
      BY <1>0, <1>2, <2>5, <3>2
    <3> QED
      BY <3>1, <3>2
  <2>7. m \in 0..Len(s) /\ m \in 1..Len(s) /\ m \in Int
    <3>1. m \in 0..n /\ m \in 1..n /\ m \in Int
      BY <1>0, <2>5
    <3> QED
      BY <3>1 DEF n
  <2>8. line \in Seq({"c", "n"}) /\ rest \in Seq({"c", "n"}) /\ Len(line) = m /\ line \o rest = s
    <3> DEFINE S == {"c", "n"}
    <3>1. s \in Seq(S)
      BY <1>0
    <3> HIDE DEF S
    <3>2. /\ SubSeq(s, 1, m) \in Seq(S) /\ SubSeq(s, m + 1, Len(s)) \in Seq(S)
          /\ Len(SubSeq(s, 1, m)) = m /\ SubSeq(s, 1, m) \o SubSeq(s, m + 1, Len(s)) = s
      BY <2>7, <3>1, CutJoins
    <3> QED
      BY <3>2 DEF S, n
  <2>9. line[m] = s[m]
    BY <1>0, <2>7
  <2>10. m = n => rest = <<>>
    BY <1>0, <2>7, SubSeqEmpty
  <2> HIDE DEF line, rest
  <2>11. Len(line) < limit - 1 /\ line[Len(line)] # "n" => rest = <<>>
    BY <2>5, <2>8, <2>9, <2>10
  <2>12. Len(line) < limit
    BY <2>6, <2>7, <2>8
  <2>13. SubSeq(s, Len(Fetched(s, limit)) + 1, Len(s)) = rest
    BY <2>4, <2>8 DEF rest, n
  <2> QED
    BY <2>4, <2>8, <2>11, <2>12, <2>13 DEF Output
<1> QED
  BY <1>1, <1>2

\* What has been read, then the rest, is the output; the room left is what the
\* caller gave less what has been read, and is never used up.
CmdInv ==
    /\ ecOutput \in Output /\ ecRest \in Output /\ rbuf \in Output
    /\ ecSize \in Nat /\ ecEof \in BOOLEAN
    /\ ecPc \in {"idle", "read", "ended", "closed"}
    /\ ecPc = "idle" => rbuf = <<>> /\ ecEof = FALSE
    /\ ecPc \in {"read", "closed"} => Len(rbuf) <= ecSize
    /\ ecPc = "ended" => rbuf = <<>>
    /\ ecSize > 0 => Len(rbuf) < ecSize
    /\ ecPc = "read" => /\ rbuf \o ecRest = ecOutput
                        /\ rbuflen = ecSize - Len(rbuf)
                        /\ ecEof = TRUE => ecRest = <<>>
    /\ ecPc = "closed" => rbuf = IF ecSize = 0 THEN <<>> ELSE Chomped(ecOutput)

\* Taking off the last newline leaves a sequence that is no longer.
LEMMA ChompedType ==
    ASSUME NEW s \in Output
    PROVE  Chomped(s) \in Output /\ Len(Chomped(s)) <= Len(s) /\ (s = <<>> => Chomped(s) = <<>>)
<1>1. s \in Seq({"c", "n"}) /\ Len(s) \in Nat
  BY LenProperties DEF Output
<1>2. CASE Chomped(s) = s
  BY <1>1, <1>2
<1>3. CASE Chomped(s) # s
  <2>1. s # <<>> /\ Chomped(s) = SubSeq(s, 1, Len(s) - 1)
    BY <1>3 DEF Chomped
  <2>2. Len(s) - 1 \in 0..Len(s)
    BY <1>1, <2>1, EmptySeq
  <2> DEFINE k == Len(s) - 1
  <2>3. SubSeq(s, 1, k) \in Seq({"c", "n"}) /\ Len(SubSeq(s, 1, k)) = k
    <3> HIDE DEF k
    <3> QED
      BY <1>1, <2>2, CutJoins DEF k
  <2> QED
    BY <1>1, <2>1, <2>3 DEF Output
<1> QED
  BY <1>2, <1>3

(***************************************************************************)
(* However excute_cmd cuts the output into lines and buffer-fulls, rbuf    *)
(* receives a beginning of it that leaves room for the terminating zero,   *)
(* and in the end all of it but one newline.                               *)
(***************************************************************************)
THEOREM CapturesOutputAlways ==
    InitExcuteCmd /\ [][NextExcuteCmd]_excuteCmdVars => []CapturesOutput
<1>1. InitExcuteCmd => CmdInv
  <2> SUFFICES ASSUME InitExcuteCmd PROVE CmdInv
    OBVIOUS
  <2>1. <<>> \in Output
    BY EmptySeq DEF Output
  <2> QED
    BY <2>1 DEF InitExcuteCmd, CmdInv
<1>2. CmdInv /\ [NextExcuteCmd]_excuteCmdVars => CmdInv'
  <2> SUFFICES ASSUME CmdInv, [NextExcuteCmd]_excuteCmdVars PROVE CmdInv'
    OBVIOUS
  <2>0. /\ ecOutput \in Output /\ ecRest \in Output /\ rbuf \in Output /\ ecSize \in Nat
        /\ ecEof \in BOOLEAN /\ Len(rbuf) \in Nat
    BY LenProperties DEF CmdInv, Output
  <2>1. CASE UNCHANGED excuteCmdVars
    BY <2>1 DEF CmdInv, Chomped, excuteCmdVars
  <2>2. ASSUME NEW out \in Outputs, NEW size \in 0..MaxRbuf, CallExcuteCmd(out, size)
        PROVE  CmdInv'
    <3>1. out \in Output /\ size \in Nat
      BY ExcuteCmdAssumption DEF Outputs, Output, ExcuteCmdAssumption
    <3>2. /\ rbuf = <<>> /\ ecEof = FALSE /\ UNCHANGED <<ecEof, rbuf>>
          /\ ecPc' \in {"read", "ended"} /\ ecOutput' = out /\ ecRest' = out
          /\ rbuflen' = size /\ ecSize' = size
      BY <2>2 DEF CallExcuteCmd, CmdInv
    <3>3. <<>> \o out = out /\ Len(<<>>) = 0 /\ size - 0 = size
      BY <3>1, ConcatEmptySeq DEF Output
    <3> QED
      BY <2>0, <3>1, <3>2, <3>3 DEF CmdInv
  <2>3. CASE ReadLine
    <3> DEFINE line == Fetched(ecRest, ReadLimit)
               rest == SubSeq(ecRest, Len(line) + 1, Len(ecRest))
    <3>1. /\ ecPc = "read" /\ rbuflen > 0 /\ rbuf' = rbuf \o line /\ rbuflen' = rbuflen - Len(line)
          /\ ecRest' = rest /\ UNCHANGED <<ecPc, ecOutput, ecSize>>
          /\ ecEof' = (Len(line) < ReadLimit - 1 /\ line[Len(line)] # "n")
      BY <2>3 DEF ReadLine
    <3>2. rbuflen = ecSize - Len(rbuf) /\ rbuf \o ecRest = ecOutput
      BY <3>1 DEF CmdInv
    <3>3. ReadLimit \in Nat \ {0} /\ ReadLimit <= rbuflen
      BY <2>0, <3>1, <3>2, ExcuteCmdAssumption DEF ReadLimit, ExcuteCmdAssumption
    <3>4. /\ line \in Output /\ rest \in Output /\ line \o rest = ecRest
          /\ Len(line) < ReadLimit
          /\ Len(line) < ReadLimit - 1 /\ line[Len(line)] # "n" => rest = <<>>
      BY <2>0, <3>3, FetchedCut
    <3> HIDE DEF line, rest
    <3>5. /\ rbuf' \in Output /\ Len(rbuf') = Len(rbuf) + Len(line) /\ Len(line) \in Nat
          /\ rbuf' \o ecRest' = ecOutput
      <4>1. /\ rbuf \in Seq({"c", "n"}) /\ line \in Seq({"c", "n"}) /\ rest \in Seq({"c", "n"})
        BY <2>0, <3>4 DEF Output
      <4>2. (rbuf \o line) \o rest = rbuf \o (line \o rest)
        BY <4>1, ConcatAssociative
      <4>3. rbuf \o line \in Seq({"c", "n"}) /\ Len(rbuf \o line) = Len(rbuf) + Len(line)
        BY <4>1, ConcatProperties
      <4>4. Len(line) \in Nat
        BY <4>1, LenProperties
      <4> QED
        BY <3>1, <3>2, <3>4, <4>2, <4>3, <4>4 DEF Output
    <3>6. /\ rbuflen' = ecSize - Len(rbuf') /\ Len(rbuf') < ecSize
      BY <2>0, <3>1, <3>2, <3>3, <3>4, <3>5
    <3>7. ecEof' \in BOOLEAN /\ (ecEof' = TRUE => ecRest' = <<>>)
      BY <3>1, <3>4
    <3> QED
      BY <2>0, <3>1, <3>4, <3>5, <3>6, <3>7 DEF CmdInv
  <2>4. CASE EndCmd
    <3>1. /\ ecPc = "read" /\ ecPc' = "closed" /\ rbuf' = Chomped(rbuf)
          /\ UNCHANGED <<ecOutput, ecRest, ecEof, ecSize>>
          /\ ecEof = TRUE \/ rbuflen = 0 \/ ecRest = <<>>
      BY <2>0, <2>4 DEF EndCmd
    <3>2. /\ rbuf \o ecRest = ecOutput /\ rbuflen = ecSize - Len(rbuf)
          /\ ecEof = TRUE => ecRest = <<>>
          /\ ecSize > 0 => Len(rbuf) < ecSize
          /\ Len(rbuf) <= ecSize
      BY <3>1 DEF CmdInv
    <3>3. rbuf' \in Output /\ Len(rbuf') <= Len(rbuf) /\ Len(rbuf') \in Nat
          /\ (rbuf = <<>> => rbuf' = <<>>)
      <4>1. Chomped(rbuf) \in Output /\ Len(Chomped(rbuf)) \in Nat
        BY <2>0, ChompedType, LenProperties DEF Output
      <4> QED
        BY <2>0, <3>1, <4>1, ChompedType
    <3>4. CASE ecSize = 0
      <4>1. rbuf = <<>>
        BY <2>0, <3>2, <3>4, EmptySeq DEF Output
      <4> QED
        BY <2>0, <3>1, <3>2, <3>3, <3>4, <4>1 DEF CmdInv
    <3>5. CASE ecSize # 0
      <4>1. ecRest = <<>>
        BY <2>0, <3>1, <3>2, <3>5
      <4>2. ecOutput = rbuf
        BY <2>0, <3>2, <4>1, ConcatEmptySeq DEF Output
      <4>3. rbuf' = Chomped(ecOutput)'
        BY <3>1, <4>2 DEF Chomped
      <4>4. Len(rbuf') < ecSize
        BY <2>0, <3>2, <3>3, <3>5
      <4> QED
        BY <2>0, <3>1, <3>2, <3>3, <3>5, <4>3, <4>4 DEF CmdInv
    <3> QED
      BY <3>4, <3>5
  <2> QED
    BY <2>1, <2>2, <2>3, <2>4 DEF NextExcuteCmd
<1>3. CmdInv => CapturesOutput
  BY DEF CmdInv, CapturesOutput
<1> QED
  BY <1>1, <1>2, <1>3, PTL

-----------------------------------------------------------------------------
(***************************************************************************)
(* The dueros formats: where each byte of the block comes from.  Behind    *)
(* the fields written so far stands a delimiter, which the next field      *)
(* keeps and the terminator replaces.                                      *)
(***************************************************************************)
\* What a byte of the block may be.
Origins == {Zero, Delimiter, Terminator} \cup {<<"type", 0, b>> : b \in Nat}
               \cup {<<"field", n, b>> : n, b \in Nat}

\* The bytes of a field.
LEMMA FieldIs ==
    ASSUME NEW n \in Nat, NEW length \in Nat
    PROVE  /\ Field(n, length) \in Seq(Origins) /\ Len(Field(n, length)) = length
           /\ \A b \in 1..length : Field(n, length)[b] = <<"field", n, b>>
<1>1. Field(n, length) \in [1..length -> Origins]
  BY DEF Field, Origins
<1> QED
  BY <1>1 DEF Field

\* The bytes of the type.
LEMMA TypeIs == Type \in Seq(Origins) /\ Len(Type) = IntSize
<1>1. Type \in [1..IntSize -> Origins]
  BY DuerosFormatAssumption DEF Type, Origins, DuerosFormatAssumption
<1> QED
  BY <1>1, DuerosFormatAssumption DEF DuerosFormatAssumption

\* Upto for the fields fl.
UptoOf(fl) ==
    CHOOSE u : u = [n \in Nat |-> IF n = 0 THEN Type
                                 ELSE u[n - 1] \o <<Delimiter>> \o Field(n, fl[n].len)]

\* It goes on as its definition says.
LEMMA UptoOfIs ==
    ASSUME NEW fl
    PROVE  /\ UptoOf(fl)[0] = Type
           /\ \A n \in Nat : UptoOf(fl)[n + 1] =
                UptoOf(fl)[n] \o <<Delimiter>> \o Field(n + 1, fl[n + 1].len)
<1> DEFINE p == [n \in Nat |-> Field(n, fl[n].len)]
<1> HIDE DEF p
<1>1. PICK g : Accumulates(g, Type, <<Delimiter>>, p)
  BY ConcatRecursion
<1>2. g = [n \in Nat |-> IF n = 0 THEN Type
                        ELSE g[n - 1] \o <<Delimiter>> \o Field(n, fl[n].len)]
  BY <1>1 DEF Accumulates, p
<1> DEFINE u == UptoOf(fl)
<1>3. u = [n \in Nat |-> IF n = 0 THEN Type
                        ELSE u[n - 1] \o <<Delimiter>> \o Field(n, fl[n].len)]
  BY <1>2 DEF UptoOf
<1> HIDE DEF u
<1>4. ASSUME NEW n \in Nat
      PROVE  u[n + 1] = u[n] \o <<Delimiter>> \o Field(n + 1, fl[n + 1].len)
  <2>1. n + 1 \in Nat /\ n + 1 # 0 /\ (n + 1) - 1 = n
    OBVIOUS
  <2> QED
    BY <1>3, <2>1
<1>5. u[0] = Type
  BY <1>3
<1> QED
  BY <1>4, <1>5 DEF u

\* The reference definition is that of the call's fields, before and after a step.
LEMMA UptoIs == Upto = UptoOf(dfFields) /\ Upto' = UptoOf(dfFields')
BY DEF Upto, UptoOf

\* What a caller passes.
LEMMA FieldsAre ==
    ASSUME NEW kind \in Kinds, NEW fields \in FieldLists(kind)
    PROVE  /\ Len(fields) \in 1..MaxFields /\ DOMAIN fields = 1..Len(fields)
           /\ \A n \in 1..Len(fields) :
                 fields[n].len \in 0..IntSize + MaxText /\ fields[n].out \in Nat
<1> USE DuerosFormatAssumption DEF DuerosFormatAssumption
<1>1. CASE kind = "button"
  <2>1. PICK n \in 1..MaxFields : fields \in [1..n -> Ints]
    BY <1>1 DEF FieldLists
  <2> QED
    BY <2>1 DEF Ints
<1>2. CASE kind = "string"
  <2>1. PICK n \in 1..MaxFields : fields \in [1..n -> Texts(0..MaxText + 1)]
    BY <1>2 DEF FieldLists
  <2> QED
    BY <2>1 DEF Texts
<1>3. CASE kind = "binary"
  <2>1. PICK k \in 0..MaxText : fields = <<[len |-> k, out |-> k]>>
    BY <1>3 DEF FieldLists
  <2> QED
    BY <2>1
<1> QED
  BY <1>1, <1>2, <1>3 DEF Kinds

\* The bytes a message may take, whatever its fields.
Longest(n) == IntSize + 1 + n * (IntSize + MaxText + 2)

\* The bytes up to the n-th field are known, with a delimiter behind them.
Laid(n) ==
    /\ Upto[n] \in Seq(Origins) /\ dfI = Len(Upto[n]) + 1 /\ dfHigh = dfI
    /\ \A k \in 1..Len(Upto[n]) : dest[k - 1] = Upto[n][k]
    /\ dest[dfI - 1] = Delimiter

(***************************************************************************)
(* The inductive invariant: the index stays within the block and what lies *)
(* behind it, and if no text holds a conversion, what has been written is  *)
(* the layout so far.                                                      *)
(***************************************************************************)
LayoutInv ==
    /\ DOMAIN dest = Block
    /\ dfPc = "idle" => dfArg = 0 /\ dfHigh = 0
    /\ dfPc = "fields" =>
          /\ dfKind \in Kinds /\ dfFields \in FieldLists(dfKind)
          /\ dfArg \in 0..Len(dfFields)
          /\ dfI \in Nat /\ dfI > IntSize /\ dfI <= Longest(dfArg)
          /\ Literal => Laid(dfArg)
    /\ dfPc = "data" /\ Literal =>
          /\ dfHigh = dfI /\ dfI = Len(Layout)
          /\ \A k \in 1..dfI : dest[k - 1] = Layout[k]

\* Each field adds as much, and all of them stay within Block.
LEMMA LongestIs ==
    ASSUME NEW m \in 0..MaxFields - 1
    PROVE  /\ Longest(m) \in Nat /\ Longest(m + 1) = Longest(m) + (IntSize + MaxText + 2)
           /\ Longest(m + 1) <= Longest(MaxFields) /\ Longest(MaxFields) \in Nat
<1> USE DuerosFormatAssumption DEF DuerosFormatAssumption
<1> DEFINE c == IntSize + MaxText + 2
<1>0. c \in Nat
  OBVIOUS
<1> HIDE DEF c
<1>1. (m + 1) * c = m * c + c /\ m * c \in Nat /\ MaxFields * c \in Nat
  BY <1>0
<1>2. (m + 1) * c <= MaxFields * c
  <2>1. \E e \in Nat : MaxFields = (m + 1) + e
    <3>1. MaxFields - (m + 1) \in Nat /\ MaxFields = (m + 1) + (MaxFields - (m + 1))
      OBVIOUS
    <3> QED
      BY <3>1
  <2>2. PICK e \in Nat : MaxFields = (m + 1) + e
    BY <2>1
  <2>3. MaxFields * c = (m + 1) * c + e * c /\ e * c \in Nat
    BY <1>0, <2>2
  <2> QED
    BY <1>1, <1>0, <2>3
<1>3. \A n : Longest(n) = IntSize + 1 + n * c
  BY DEF Longest, c
<1> QED
  BY <1>0, <1>1, <1>2, <1>3 DEF c

\* The type and a delimiter.
LEMMA StartLays ==
    ASSUME LayoutInv, NEW kind \in Kinds, NEW fields \in FieldLists(kind),
           FormatStart(kind, fields)
    PROVE  LayoutInv'
<1> USE DuerosFormatAssumption DEF DuerosFormatAssumption
<1>1. CASE dfPc' = "null"
  BY <1>1 DEF LayoutInv, FormatStart
<1>2. CASE dfPc' # "null"
  <2>1. /\ dest' = Written(0, Append(Type, Delimiter)) /\ dfI' = IntSize + 1
        /\ dfHigh' = IntSize + 1 /\ dfPc' = "fields" /\ dfArg' = 0
        /\ dfKind' = kind /\ dfFields' = fields
    BY <1>2 DEF FormatStart, LayoutInv
  <2>2. DOMAIN dest' = Block /\ Block = 0..Longest(MaxFields) /\ DOMAIN dest = Block
    BY <2>1 DEF Written, LayoutInv, Block, Longest
  <2>3. Len(fields) \in 1..MaxFields
    BY FieldsAre
  <2>4. Longest(0) = IntSize + 1 /\ Longest(0) <= Longest(MaxFields) /\ Longest(MaxFields) \in Nat
    <3>1. 0 \in 0..MaxFields - 1 /\ 0 * (IntSize + MaxText + 2) = 0
      OBVIOUS
    <3>2. Longest(0) = IntSize + 1
      BY <3>1 DEF Longest
    <3> QED
      BY <3>1, <3>2, LongestIs
  <2>5. Upto'[0] = Type
    <3> DEFINE fl == dfFields'
    <3>1. Upto' = UptoOf(fl)
      BY UptoIs
    <3> HIDE DEF fl
    <3>2. UptoOf(fl)[0] = Type
      BY ONLY UptoOfIs
    <3> QED
      BY <3>1, <3>2
  <2>6. Laid(0)'
    <3>1. Type \in Seq(Origins) /\ Len(Type) = IntSize
      BY TypeIs
    <3>2. /\ Len(Append(Type, Delimiter)) = IntSize + 1
          /\ \A k \in 1..IntSize : Append(Type, Delimiter)[k] = Type[k]
          /\ Append(Type, Delimiter)[IntSize + 1] = Delimiter
      BY <3>1, AppendProperties DEF Origins
    <3>3. \A k \in 1..IntSize + 1 : k - 1 \in Block /\ (k - 1) - 0 + 1 = k
      BY <2>2, <2>4
    <3>4. \A k \in 1..IntSize + 1 : dest'[k - 1] = Append(Type, Delimiter)[k]
      BY <2>1, <2>2, <3>2, <3>3 DEF Written
    <3> QED
      BY <2>1, <2>5, <3>1, <3>2, <3>4 DEF Laid
  <2> QED
    BY <2>1, <2>2, <2>3, <2>4, <2>6 DEF LayoutInv
<1> QED
  BY <1>1, <1>2

\* A field and the delimiter behind it.
LEMMA FieldLays ==
    ASSUME LayoutInv, FormatField
    PROVE  LayoutInv'
<1> USE DuerosFormatAssumption DEF DuerosFormatAssumption
<1> DEFINE n == dfArg + 1
           f == dfFields[n]
           field == Field(n, f.out)
           text == field \o (IF dfKind = "string" THEN <<Zero>> ELSE <<>>)
<1>1. /\ dfPc = "fields" /\ dfPc' = "fields" /\ dfArg < Len(dfFields) /\ dfArg' = n
      /\ dest' = [Written(dfI, text) EXCEPT ![dfI + f.len] = Delimiter]
      /\ dfI' = dfI + f.len + 1
      /\ dfHigh' = Further(dfI + (IF Len(text) > f.len THEN Len(text) ELSE f.len + 1))
      /\ dfKind' = dfKind /\ dfFields' = dfFields
  BY DEF FormatField, NextI
<1>2. /\ DOMAIN dest = Block /\ dfKind \in Kinds /\ dfFields \in FieldLists(dfKind)
      /\ dfArg \in 0..Len(dfFields) /\ dfI \in Nat /\ dfI > IntSize /\ dfI <= Longest(dfArg)
      /\ Literal => Laid(dfArg)
  BY <1>1 DEF LayoutInv
<1>3. /\ Len(dfFields) \in 1..MaxFields /\ DOMAIN dfFields = 1..Len(dfFields)
      /\ \A k \in 1..Len(dfFields) :
            dfFields[k].len \in 0..IntSize + MaxText /\ dfFields[k].out \in Nat
  BY <1>2, FieldsAre
<1>4. n \in 1..Len(dfFields) /\ n \in Nat /\ dfArg \in 0..MaxFields - 1 /\ dfArg \in Nat
  BY <1>1, <1>2, <1>3, SMTT(30)
<1>5. f.len \in 0..IntSize + MaxText /\ f.out \in Nat
  BY <1>3, <1>4
<1>6. /\ Longest(dfArg) \in Nat /\ Longest(n) = Longest(dfArg) + (IntSize + MaxText + 2)
      /\ Longest(n) <= Longest(MaxFields) /\ Longest(MaxFields) \in Nat
  BY <1>4, LongestIs
<1>7. Block = 0..Longest(MaxFields)
  BY DEF Block, Longest
<1> HIDE DEF f
<1>8. field \in Seq(Origins) /\ Len(field) = f.out /\ \A b \in 1..f.out : field[b] = Field(n, f.out)[b]
  BY <1>4, <1>5, FieldIs
<1> HIDE DEF field
<1>9. /\ text \in Seq(Origins) /\ \A b \in 1..f.out : text[b] = field[b]
      /\ Len(text) = f.out + (IF dfKind = "string" THEN 1 ELSE 0)
  <2>1. CASE dfKind = "string"
    <3>1. <<Zero>> \in Seq(Origins) /\ Len(<<Zero>>) = 1
      BY DEF Origins
    <3>2. text = field \o <<Zero>>
      BY <2>1
    <3> QED
      BY <1>5, <1>8, <2>1, <3>1, <3>2, ConcatProperties
  <2>2. CASE dfKind # "string"
    <3>1. text = field
      BY <1>8, <2>2, ConcatEmptySeq
    <3> QED
      BY <1>5, <1>8, <2>2, <3>1
  <2> QED
    BY <2>1, <2>2
<1> HIDE DEF text, n
<1>10. DOMAIN dest' = Block
  BY <1>1, <1>2 DEF Written
<1>11. dfI' \in Nat /\ dfI' > IntSize /\ dfI' <= Longest(n)
  BY <1>1, <1>2, <1>5, <1>6, SMTT(30)
<1>12. ASSUME Literal PROVE Laid(dfArg)'
  <2>1. Laid(dfArg) /\ f.out = f.len
    BY <1>2, <1>3, <1>4, <1>12 DEF Literal, f
  <2> DEFINE u == UptoOf(dfFields)[dfArg]
             v == UptoOf(dfFields)[n]
  <2>2. v = u \o <<Delimiter>> \o field
    <3> DEFINE fl == dfFields
    <3>1. UptoOf(fl)[dfArg + 1] =
             UptoOf(fl)[dfArg] \o <<Delimiter>> \o Field(dfArg + 1, fl[dfArg + 1].len)
      <4> HIDE DEF fl
      <4> QED
        BY <1>4, UptoOfIs
    <3> QED
      BY <2>1, <3>1 DEF n, f, field
  <2>3. Upto[dfArg] = u /\ Upto'[n] = v
    BY <1>1, UptoIs
  <2> HIDE DEF u, v
  <2>4. /\ u \in Seq(Origins) /\ dfI = Len(u) + 1 /\ dfHigh = dfI
        /\ \A k \in 1..Len(u) : dest[k - 1] = u[k]
        /\ dest[dfI - 1] = Delimiter
    BY <2>1, <2>3 DEF Laid
  <2>5. /\ u \o <<Delimiter>> \in Seq(Origins) /\ Len(u \o <<Delimiter>>) = dfI
        /\ \A k \in 1..Len(u) : (u \o <<Delimiter>>)[k] = u[k]
        /\ (u \o <<Delimiter>>)[dfI] = Delimiter
    <3>1. <<Delimiter>> \in Seq(Origins) /\ Len(<<Delimiter>>) = 1 /\ <<Delimiter>>[1] = Delimiter
      BY DEF Origins
    <3> HIDE DEF Origins
    <3> QED
      BY <2>4, <3>1, ConcatProperties
  <2> DEFINE w == u \o <<Delimiter>>
  <2> HIDE DEF w
  <2>6. /\ v \in Seq(Origins) /\ Len(v) = dfI + f.len
        /\ \A k \in 1..dfI : v[k] = w[k]
        /\ \A b \in 1..f.len : v[dfI + b] = field[b]
    <3>1. v = w \o field /\ w \in Seq(Origins) /\ Len(w) = dfI
      BY <2>2, <2>5 DEF w
    <3>2. /\ v \in Seq(Origins) /\ Len(v) = Len(w) + Len(field)
          /\ \A k \in 1..Len(w) + Len(field) : v[k] = IF k <= Len(w) THEN w[k] ELSE field[k - Len(w)]
      BY <1>8, <3>1, ConcatProperties
    <3>3. \A b \in 1..f.len : dfI + b \in 1..dfI + f.len /\ ~(dfI + b <= dfI) /\ (dfI + b) - dfI = b
      BY <1>2, <1>5
    <3>4. \A k \in 1..dfI : k \in 1..dfI + f.len /\ k <= dfI
      BY <1>2, <1>5
    <3> QED
      BY <1>8, <2>1, <3>1, <3>2, <3>3, <3>4, SMTT(40)
  <2>7. /\ \A k \in 0..dfI - 1 : dest'[k] = dest[k]
        /\ \A b \in 1..f.len : dest'[dfI + b - 1] = field[b]
        /\ dest'[dfI + f.len] = Delimiter
    <3>1. ASSUME NEW k \in 0..dfI + f.len
          PROVE  /\ k \in Block
                 /\ dest'[k] = IF k = dfI + f.len THEN Delimiter ELSE Written(dfI, text)[k]
                 /\ Written(dfI, text)[k] =
                       IF k >= dfI /\ k < dfI + Len(text) THEN text[k - dfI + 1] ELSE dest[k]
      <4>1. k \in Block
        BY <1>2, <1>5, <1>6, <1>7
      <4> QED
        BY <1>1, <1>2, <4>1 DEF Written
    <3>2. \A k \in 0..dfI - 1 : dest'[k] = dest[k]
      BY <1>2, <1>5, <3>1
    <3>3. ASSUME NEW b \in 1..f.len PROVE dest'[dfI + b - 1] = field[b]
      <4>1. /\ dfI + b - 1 \in 0..dfI + f.len /\ dfI + b - 1 # dfI + f.len
            /\ dfI + b - 1 >= dfI /\ dfI + b - 1 < dfI + Len(text) /\ (dfI + b - 1) - dfI + 1 = b
        BY <1>2, <1>5, <1>9, <2>1
      <4>2. dest'[dfI + b - 1] = text[(dfI + b - 1) - dfI + 1]
        BY <3>1, <4>1
      <4> QED
        BY <1>9, <2>1, <4>1, <4>2
    <3>4. dest'[dfI + f.len] = Delimiter
      BY <1>2, <1>5, <3>1
    <3> QED
      BY <3>2, <3>3, <3>4
  <2>8. dfI' = Len(v) + 1 /\ dfHigh' = dfI' /\ dest'[dfI' - 1] = Delimiter
    <3>1. dfI' = Len(v) + 1 /\ dfI' - 1 = dfI + f.len
      BY <1>1, <1>2, <1>5, <2>6
    <3>2. dfHigh' = dfI'
      BY <1>1, <1>2, <1>5, <1>9, <2>1, <2>4, SMTT(30) DEF Further
    <3> QED
      BY <2>7, <3>1, <3>2
  <2>9. ASSUME NEW k \in 1..Len(v) PROVE dest'[k - 1] = v[k]
    <3>1. CASE k <= Len(u)
      <4>1. k \in 1..Len(u) /\ k \in 1..dfI /\ k - 1 \in 0..dfI - 1
        BY <1>2, <2>4, <3>1
      <4>2. dest'[k - 1] = dest[k - 1]
        BY <2>7, <4>1
      <4>3. dest[k - 1] = u[k]
        BY <2>4, <4>1
      <4>4. u[k] = w[k]
        BY <2>5, <4>1 DEF w
      <4>5. w[k] = v[k]
        BY <2>6, <4>1
      <4> QED
        BY <4>2, <4>3, <4>4, <4>5
    <3>2. CASE k = dfI
      <4>1. k \in 1..dfI /\ k - 1 \in 0..dfI - 1
        BY <1>2, <3>2
      <4> QED
        BY <2>4, <2>5, <2>6, <2>7, <3>2, <4>1 DEF w
    <3>3. CASE k > dfI
      <4>1. k - dfI \in 1..f.len /\ dfI + (k - dfI) = k /\ dfI + (k - dfI) - 1 = k - 1
        BY <1>2, <1>5, <2>6, <3>3
      <4> QED
        BY <2>6, <2>7, <4>1
    <3> QED
      BY <1>2, <2>4, <3>1, <3>2, <3>3
  <2> QED
    BY <1>1, <2>3, <2>6, <2>8, <2>9 DEF Laid
<1>13. Literal' => Literal
  BY <1>1 DEF Literal
<1>14. n \in 0..Len(dfFields)
  BY <1>4
<1> QED
  BY <1>1, <1>2, <1>10, <1>11, <1>12, <1>13, <1>14 DEF LayoutInv

\* The terminator over the last delimiter.
LEMMA EndLays ==
    ASSUME LayoutInv, FormatEnd
    PROVE  LayoutInv'
<1> USE DuerosFormatAssumption DEF DuerosFormatAssumption
<1>1. /\ dfPc = "fields" /\ dfPc' \in {"data", "null", "crashed"} /\ dfArg = Len(dfFields)
      /\ dest' = [dest EXCEPT ![dfI - 1] = Terminator]
      /\ UNCHANGED <<dfKind, dfFields, dfI, dfArg, dfHigh>>
  BY DEF FormatEnd
<1>2. /\ DOMAIN dest = Block /\ dfKind \in Kinds /\ dfFields \in FieldLists(dfKind)
      /\ dfI \in Nat /\ dfI > IntSize /\ dfI <= Longest(dfArg)
      /\ Literal => Laid(dfArg)
  BY <1>1 DEF LayoutInv
<1>3. dfI - 1 \in Block
  <2>1. Len(dfFields) \in 1..MaxFields
    BY <1>2, FieldsAre
  <2>2. dfArg - 1 \in 0..MaxFields - 1 /\ (dfArg - 1) + 1 = dfArg
    BY <1>1, <2>1
  <2>3. Longest(dfArg) <= Longest(MaxFields) /\ Longest(MaxFields) \in Nat /\ Longest(dfArg) \in Nat
    BY <2>2, LongestIs
  <2>4. Block = 0..Longest(MaxFields)
    BY DEF Block, Longest
  <2> QED
    BY <1>2, <2>3, <2>4
<1>4. ASSUME Literal
      PROVE  dfHigh' = dfI' /\ dfI' = Len(Layout') /\ \A k \in 1..dfI' : dest'[k - 1] = Layout'[k]
  <2> DEFINE u == Upto[dfArg]
  <2>1. /\ u \in Seq(Origins) /\ dfI = Len(u) + 1 /\ dfHigh = dfI
        /\ \A k \in 1..Len(u) : dest[k - 1] = u[k]
    BY <1>2, <1>4 DEF Laid
  <2>2. Layout' = Append(u, Terminator)
    BY <1>1, UptoIs DEF Layout
  <2> HIDE DEF u
  <2>3. /\ Len(Layout') = dfI /\ Layout'[dfI] = Terminator
        /\ \A k \in 1..Len(u) : Layout'[k] = u[k]
    <3>1. Terminator \in Origins
      BY DEF Origins
    <3> QED
      BY <2>1, <2>2, <3>1, AppendProperties
  <2>4. ASSUME NEW k \in 1..dfI PROVE dest'[k - 1] = Layout'[k]
    <3>1. CASE k = dfI
      BY <1>1, <1>2, <1>3, <2>3, <3>1
    <3>2. CASE k # dfI
      <4>1. k \in 1..Len(u) /\ k - 1 # dfI - 1
        BY <1>2, <2>1, <3>2
      <4>2. dest'[k - 1] = dest[k - 1]
        BY <1>1, <4>1
      <4> QED
        BY <2>1, <2>3, <4>1, <4>2
    <3> QED
      BY <3>1, <3>2
  <2> QED
    BY <1>1, <2>1, <2>3, <2>4
<1>5. Literal' => Literal
  BY <1>1 DEF Literal
<1> QED
  BY <1>1, <1>2, <1>4, <1>5 DEF LayoutInv

(***************************************************************************)
(* If no text holds a conversion and the message fits its block, the       *)
(* caller of a format function gets exactly the layout and its length, and *)
(* nothing behind the block is written.                                    *)
(***************************************************************************)
THEOREM FormatsLayoutAlways ==
    InitDuerosFormat /\ [][NextDuerosFormat]_duerosFormatVars => []FormatsLayout
<1>1. InitDuerosFormat => LayoutInv
  BY DEF InitDuerosFormat, LayoutInv
<1>2. LayoutInv /\ [NextDuerosFormat]_duerosFormatVars => LayoutInv'
  <2> SUFFICES ASSUME LayoutInv, [NextDuerosFormat]_duerosFormatVars PROVE LayoutInv'
    OBVIOUS
  <2>1. CASE UNCHANGED duerosFormatVars
    <3>1. UNCHANGED <<dfPc, dfKind, dfFields, dest, dfI, dfArg, dfHigh>>
      BY <2>1 DEF duerosFormatVars
    <3>2. Upto' = Upto
      BY <3>1 DEF Upto
    <3>3. Literal' = Literal /\ Layout' = Layout /\ Laid(dfArg)' = Laid(dfArg)
      BY <3>1, <3>2 DEF Literal, Layout, Laid
    <3> QED
      BY <3>1, <3>3 DEF LayoutInv
  <2>2. ASSUME NEW kind \in Kinds, NEW fields \in FieldLists(kind), FormatStart(kind, fields)
        PROVE  LayoutInv'
    BY <2>2, StartLays
  <2>3. CASE FormatField
    BY <2>3, FieldLays
  <2>4. CASE FormatEnd
    BY <2>4, EndLays
  <2> QED
    BY <2>1, <2>2, <2>3, <2>4 DEF NextDuerosFormat
<1>3. LayoutInv => FormatsLayout
  BY DEF LayoutInv, FormatsLayout
<1> QED
  BY <1>1, <1>2, <1>3, PTL
=============================================================================

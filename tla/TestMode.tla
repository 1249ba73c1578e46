------------------------------ MODULE TestMode ------------------------------
(***************************************************************************)
(* uartd_test_mode.c: send_cmd_to_server sends one datagram Sends times    *)
(* over each of two interfaces.  The socket is a global, sockfd, which     *)
(* create_broadcast_socket opens and send_broadcast_to_interface takes     *)
(* over when it is not -1, so what one call leaves in it the next one      *)
(* uses.  One thread calls at a time.                                      *)
(***************************************************************************)
EXTENDS Integers, Sequences, FiniteSets

CONSTANTS Interfaces,   \* <<"br0", "br1">>
          Sends,        \* 10
          Descriptors   \* how many descriptors the process may have open

ASSUME TestModeAssumption ==
    /\ Len(Interfaces) > 0
    /\ Sends \in Nat \ {0} /\ Descriptors \in Nat \ {0}

VARIABLES tmPc,         \* where the call is
          tmIndex,      \* the interface it is at
          sockfd,       \* the global
          sockets,      \* what each descriptor is: "closed", "unbound" or an interface
          tmSent,       \* i, the sends made on this interface
          tmLast,       \* whether the last sendto succeeded
          tmResult,     \* ret of send_cmd_to_server
          tmLeft        \* history: datagrams of this call have left

testModeVars == <<tmPc, tmIndex, sockfd, sockets, tmSent, tmLast, tmResult, tmLeft>>

Interface == Interfaces[tmIndex]
Closed == {d \in 1..Descriptors : sockets[d] = "closed"}
Lowest(S) == CHOOSE d \in S : \A e \in S : d <= e

InitTestMode ==
    /\ tmPc = "idle" /\ tmIndex = 1
    /\ sockfd = -1
    /\ sockets = [d \in 1..Descriptors |-> "closed"]
    /\ tmSent = 0 /\ tmLast = TRUE /\ tmResult = -1 /\ tmLeft = FALSE

\* access("/tmp/test_mode"): without the file the call ends at once.
SendCmdToServer ==
    /\ tmPc = "idle"
    /\ tmPc' \in {"interface", "idle"}
    /\ tmIndex' = 1 /\ tmResult' = -1 /\ tmLeft' = FALSE
    /\ UNCHANGED <<sockfd, sockets, tmSent, tmLast>>

\* send_broadcast_to_interface returns: the next interface, or the end.
InterfaceDone(ok) ==
    /\ tmResult' = IF ok THEN 0 ELSE tmResult
    /\ \/ tmIndex < Len(Interfaces) /\ tmIndex' = tmIndex + 1 /\ tmPc' = "interface"
       \/ tmIndex = Len(Interfaces) /\ tmIndex' = 1 /\ tmPc' = "idle"

\* send_broadcast_to_interface: a socket that is there is used as it is.
EnterInterface ==
    /\ tmPc = "interface"
    /\ tmPc' = IF sockfd = -1 THEN "create" ELSE "send"
    /\ tmSent' = 0
    /\ UNCHANGED <<tmIndex, sockfd, sockets, tmLast, tmResult, tmLeft>>

\* Fault: sockfd keeps the number of the socket that was closed.
StaleFd(d) == d
\* sockfd = -1 after every close
AfterClose(d) == -1

\* create_broadcast_socket: no descriptor; no broadcast, the interface is down
\* or cannot be bound, and the socket is closed again; or success.
CreateSocket ==
    /\ tmPc = "create"
    /\ UNCHANGED <<tmSent, tmLast, tmLeft>>
    /\ \/ UNCHANGED <<sockfd, sockets>> /\ InterfaceDone(FALSE)
       \/ /\ Closed # {}
          /\ LET d == Lowest(Closed)
             IN  \/ /\ UNCHANGED sockets
                    /\ sockfd' = AfterClose(d)
                    /\ InterfaceDone(FALSE)
                 \/ /\ sockets' = [sockets EXCEPT ![d] = Interface]
                    /\ sockfd' = d
                    /\ tmPc' = "send"
                    /\ UNCHANGED <<tmIndex, tmResult>>

SendTo(ok) ==
    /\ tmPc = "send" /\ tmSent < Sends
    /\ tmSent' = tmSent + 1
    /\ tmLast' = ok
    /\ tmLeft' = (tmLeft \/ ok)
    /\ UNCHANGED <<tmPc, tmIndex, sockfd, sockets, tmResult>>

\* Fault: the sends are not looked at.
Unchecked == TRUE
\* cnt is the result of the last of the sends.
Judged == tmLast

\* The verdict, close(sockfd), sockfd = -1.
CloseSocket ==
    /\ tmPc = "send" /\ tmSent = Sends
    /\ sockets' = [sockets EXCEPT ![sockfd] = "closed"]
    /\ sockfd' = AfterClose(sockfd)
    /\ InterfaceDone(Judged)
    /\ UNCHANGED <<tmSent, tmLast, tmLeft>>

NextTestMode ==
    \/ SendCmdToServer \/ EnterInterface \/ CreateSocket
    \/ \E ok \in BOOLEAN : SendTo(ok)
    \/ CloseSocket
-----------------------------------------------------------------------------
(***************************************************************************)
(* Whatever failed in earlier calls, each sendto goes out through an open  *)
(* socket bound to the interface it is meant for: neither a closed         *)
(* descriptor nor the other interface's socket survives in sockfd.  And no *)
(* other socket is open, between calls none at all: repeated calls never   *)
(* run out of descriptors.                                                 *)
(***************************************************************************)
OneSocket ==
    /\ tmPc = "send" => sockfd # -1 /\ sockets[sockfd] = Interface
    /\ \A d \in 1..Descriptors : sockets[d] # "closed" => d = sockfd /\ tmPc = "send"

(***************************************************************************)
(* send_cmd_to_server returns 0 only if a datagram has left over some      *)
(* interface.  (The converse fails: the last of the ten results decides.)  *)
(***************************************************************************)
SuccessMeansSent == tmPc = "idle" /\ tmResult = 0 => tmLeft
=============================================================================

--------------------------- MODULE MCSocketServer ---------------------------
(***************************************************************************)
(* Instances of SocketServer for TLC.  Pool threads run the same code and  *)
(* clients behave alike.                                                   *)
(***************************************************************************)
EXTENDS SocketServer, TLC

Symmetry == Permutations(Workers) \cup Permutations(Clients)
=============================================================================

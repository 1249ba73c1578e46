----------------------------- MODULE MCLinkList -----------------------------
(***************************************************************************)
(* Instances of LinkList for TLC.  Addresses, payloads and producers are   *)
(* interchangeable, except for the dummy's address.                        *)
(***************************************************************************)
EXTENDS LinkList, TLC

Symmetry ==
    Permutations(Producers) \cup Permutations(Node \ {Dummy}) \cup Permutations(Msg)
=============================================================================

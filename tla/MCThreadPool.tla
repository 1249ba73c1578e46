---------------------------- MODULE MCThreadPool ----------------------------
(***************************************************************************)
(* The instance of ThreadPool for TLC.  Its run checks liveness together   *)
(* with safety, so it declares no symmetry set.                            *)
(***************************************************************************)
EXTENDS ThreadPool, TLC
=============================================================================

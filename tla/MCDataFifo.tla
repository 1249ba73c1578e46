----------------------------- MODULE MCDataFifo -----------------------------
(***************************************************************************)
(* Instances of DataFifo for TLC.  Threads run the same code.              *)
(***************************************************************************)
EXTENDS DataFifo, TLC

Bytes == {1, 2}

Symmetry == Permutations(Threads)
=============================================================================

---------------------------- MODULE MCHandleStore ----------------------------
(* Requests that are alike may be exchanged.                               *)
EXTENDS HandleStore, TLC

Symmetry == Permutations(Requests)
=============================================================================

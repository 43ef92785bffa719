----------------------------- MODULE MCEnrollment -----------------------------
(* Client processes that are alike may be exchanged.                       *)
EXTENDS Enrollment, TLC

Symmetry == Permutations(Processes)
=============================================================================

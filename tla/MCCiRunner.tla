----------------------------- MODULE MCCiRunner -----------------------------
(***************************************************************************)
(* The instances of CiRunner that TLC checks.  Jobs, commits and requests  *)
(* are interchangeable; runs are not, their ids order them.                *)
(***************************************************************************)
EXTENDS CiRunner

Symmetry == Permutations(Jobs) \cup Permutations(Commits) \cup Permutations(Requests)
=============================================================================

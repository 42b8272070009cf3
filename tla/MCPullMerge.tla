---------------------------- MODULE MCPullMerge ----------------------------
(***************************************************************************)
(* The instances of PullMerge that TLC checks.  Calls, editors and         *)
(* reviewers are interchangeable; versions and methods are not.            *)
(***************************************************************************)
EXTENDS PullMerge, TLC

Symmetry == Permutations(Calls) \cup Permutations(Editors) \cup Permutations(Reviewers)

\* everything but the history that only GatesHoldUnlessRaced reads
LandingView == <<row, armer, git, gates, call, edit, signals, inFlight, faults, reopened>>
=============================================================================

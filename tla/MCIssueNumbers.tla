--------------------------- MODULE MCIssueNumbers ---------------------------
(***************************************************************************)
(* The instances of IssueNumbers that TLC checks.  Repositories, issues,   *)
(* pull requests and requests are interchangeable.                         *)
(***************************************************************************)
EXTENDS IssueNumbers, TLC

Symmetry ==
  Permutations(Repos) \cup Permutations(Issues) \cup Permutations(Pulls) \cup Permutations(Requests)

\* What two transfers of one issue at once leave is not followed any further.
Explored == tangled = {}
=============================================================================

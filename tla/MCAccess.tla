------------------------------ MODULE MCAccess ------------------------------
(***************************************************************************)
(* The instance that TLC checks of what decides where a name leads, who    *)
(* may do what there, and which pushes the rules let through.  The three   *)
(* components do not touch each other's state and are explored one after   *)
(* another: `part` says which of them runs, the others stay as they began, *)
(* so that their states add up instead of multiplying.                     *)
(***************************************************************************)
EXTENDS PushRules, Repositories, Orgs, TLC

CONSTANTS main, v1, k1, k2, repo1, repo2

VARIABLE part

\* PushRules: one branch and one tag, and the pushes of one or both.
MCBranches == {main}
MCTags == {v1}
MCSettings == {{}, {"listed"}, {"listed", "force"}, {"listed", "pr", "force"}}
Update(r, c) == [ref |-> r, change |-> c]
MCPushed == {{Update(main, c)} : c \in {"forward", "rewrite", "delete"}}
       \cup {{Update(v1, "rewrite")}, {Update(main, "forward"), Update(v1, "create")}}

\* Repositories: a fork of either name is called "b" when its name is taken.
MCSuffixed(n) == "b"

Parts == {"rules", "repos", "orgs"}

MCInit ==
  /\ part \in Parts
  /\ RulesInit /\ ReposInit /\ OrgInit
  /\ part = "orgs" \/ public

MCNext ==
  /\ UNCHANGED part
  /\ IF part = "rules" THEN RulesNext ELSE UNCHANGED rulesVars
  /\ IF part = "repos" THEN ReposNext ELSE UNCHANGED repoVars
  /\ IF part = "orgs" THEN OrgNext ELSE UNCHANGED orgVars

MCSpec == MCInit /\ [][MCNext]_<<part, rulesVars, repoVars, orgVars>>

\* What the properties except is left once it has happened.
Explored ==
  /\ part = "repos" => ~crossed
  /\ part = "orgs" => ~stale /\ late = {} /\ kept = {}

\* The permutations of three requests; an odd one swaps the pairs of the other components.
Pairs == {{k1, k2}, {repo1, repo2}}
Other(x) == CHOOSE y \in UNION {p \in Pairs : x \in p} : y # x
IsEven(p) == p = [q \in Requests |-> q] \/ \A q \in Requests : p[q] # q
Symmetry == {p @@ [x \in UNION Pairs |-> IF IsEven(p) THEN x ELSE Other(x)] : p \in Permutations(Requests)}

-----------------------------------------------------------------------------
(***************************************************************************)
(* The states of the rules, the repositories and the organizations have    *)
(* their types: what the columns and unique indexes of the schema promise. *)
(***************************************************************************)
AccessTypeOK == RulesTypeOK /\ ReposTypeOK /\ OrgTypeOK
=============================================================================

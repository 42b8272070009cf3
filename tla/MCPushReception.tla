-------------------------- MODULE MCPushReception ---------------------------
(***************************************************************************)
(* The instance of PushReception that TLC checks, in two scenes: three     *)
(* requests that move the branch, with no viewer; and a viewer with two    *)
(* and a commit less.                                                      *)
(* A view leaves out of the first scene what only the viewer can tell.     *)
(***************************************************************************)
EXTENDS PushReception, TLC

CONSTANTS server, push1, push2, c0, c1, c2, c3, c4

MCServes == server :> {"commit", "suggest", "sync", "merge"} @@ push1 :> {"push"} @@ push2 :> {"push"}

\* c1 and the upstream tip c3 follow c0 and change the file; c2 and c4 change it back.
MCCommits == {c0, c1, c2, c3, c4}
MCParent == c0 :> None @@ c1 :> c0 @@ c2 :> c1 @@ c3 :> c0 @@ c4 :> c3
MCVersion == c0 :> 1 @@ c1 :> 2 @@ c2 :> 1 @@ c3 :> 3 @@ c4 :> 1

VARIABLE scene

MCInit == RefsInit /\ scene \in {"branch", "viewer"}
MCNext == RefsNext /\ UNCHANGED scene
MCSpec == MCInit /\ [][MCNext]_<<refsVars, scene>>

MCScene == IF scene = "branch" THEN page = None /\ open
           ELSE Cardinality({q \in Requests : req[q].pc # "new"}) <= 2 /\ c4 \notin made
MCView == <<scene, tip, made, req, failures, told, unseen, returned,
            IF scene = "branch" THEN <<>> ELSE <<resets, open, page, tick, blind>> >>
Symmetry == Permutations({push1, push2})
=============================================================================

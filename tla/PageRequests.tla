---------------------------- MODULE PageRequests ----------------------------
(***************************************************************************)
(* The requests that a page of the web client has under way.  Each is sent *)
(* and answered in turn, and its answer comes when it comes: one that was  *)
(* answered before another may come after it, and is late then.            *)
(***************************************************************************)
EXTENDS Handlers, FiniteSets

\* Those that q's answer overtakes if it comes before theirs.
AnsweredBefore(asked, kinds) == {p \in DOMAIN asked : asked[p].pc = "answered" /\ asked[p].what \in kinds}

\* The answer of q has come, and r is what the place of q is used for now.
Come(asked, q, r) == [p \in DOMAIN asked |->
  IF p = q THEN r ELSE [asked[p] EXCEPT !.after = @ \ {q}, !.late = @ \/ p \in asked[q].after]]
=============================================================================

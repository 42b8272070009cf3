----------------------------- MODULE MCServices -----------------------------
(***************************************************************************)
(* The instance that TLC checks of the services that do not touch each     *)
(* other's state, one after another: `part` says which of them runs, the   *)
(* others stay as they began, so that their states add up instead of       *)
(* multiplying.                                                            *)
(***************************************************************************)
EXTENDS PullReview, Webhooks, LogSink, Board, Designs, Conversation, IssuePage, PullPage, TLC

CONSTANTS todo, doing, done, bug, e1, e2, i1, i2, r1, r2

VARIABLE part

\* Board
MCColumns == {todo, doing, done}
MCDefault == <<todo, doing>>

\* Conversation: what a comment asks for.
MCCommandLists == {
  <<Set("state", "closed"), Set("state", "open")>>, <<Set("assignee", "somebody"), Set("state", "closed")>>,
  <<Spend("+", 2), Spend("-", 1)>>, <<Unlabel(bug), Label(bug)>>}

Parts == {"review", "hooks", "sink", "board", "designs", "conversation", "issue_page", "pull_page"}

NewPull == [state |-> "open", draft |-> FALSE, armed |-> FALSE, head |-> 0]

MCInit ==
  /\ part \in Parts
  /\ ReviewInit /\ HooksInit /\ SinkInit
  /\ BoardInit /\ DesignsInit /\ IssueInit
  /\ IssuePageInit /\ shownOf = 5
  /\ PullPageInit /\ pullAt = 4 /\ pull[7] = NewPull /\ ~pull[4].armed
  /\ part = "pull_page" \/ pull[4] = NewPull
  /\ part = "board" \/ \A r \in Items : item[r] = None

MCNext ==
  /\ UNCHANGED part
  /\ IF part = "review" THEN ReviewNext ELSE UNCHANGED reviewVars
  /\ IF part = "hooks" THEN HooksNext ELSE UNCHANGED hookVars
  /\ IF part = "sink" THEN SinkNext ELSE UNCHANGED sinkVars
  /\ IF part = "board" THEN BoardNext ELSE UNCHANGED boardVars
  /\ IF part = "designs" THEN DesignsNext ELSE UNCHANGED designVars
  /\ IF part = "conversation" THEN IssueNext ELSE UNCHANGED issueVars
  /\ IF part = "issue_page" THEN IssuePageNext ELSE UNCHANGED issuePageVars
  /\ IF part = "pull_page" THEN PullPageNext ELSE UNCHANGED pullPageVars

MCSpec == MCInit /\ [][MCNext]_<<part, reviewVars, hookVars, sinkVars, boardVars, designVars, issueVars,
                                  issuePageVars, pullPageVars>>

\* Of three changes of an issue two are under way at once, and cross over one field at most.
\* A page has two requests under way at once, and is left alone once one of its histories
\* excuses what it shows: the properties say nothing of it then.  Of the issue to which the
\* viewer moves only reading is explored, of the pull request one request at a time.  Lists
\* on their way are explored with what reads or moves the head; once a list is out of date,
\* with nothing lost and nobody else.
Asking == {query[q].what : q \in Queried}
Explored ==
  /\ part = "conversation" =>
       /\ Cardinality(raced) <= 1
       /\ Cardinality({q \in Requests : deed[q].pc \in {"patch", "run"}}) <= 2
  /\ ~crossed /\ Cardinality(Asked) <= 2 /\ shownOf \notin behind
  /\ shownOf = 7 => issue[7] = Plain /\ edits = 0
  /\ ~muddled /\ Cardinality(Queried) <= 2 /\ pullAt \notin aside
  /\ \A q \in Queried : query[q].with \in {None, pr}
  /\ Asking \cap PageLists # {} => Asking \subseteq PageLists \cup {"load", "refresh", "suggest"}
  /\ outdated # {} => moves = 0 /\ ~pull[4].draft
  /\ pull[4].draft => \A l \in PageLists : list[l] = None
  /\ outdated = PageLists => Cardinality(Queried) <= 1
  /\ pullAt = 7 => pull[7] = NewPull /\ moves = 0

\* The permutations of three requests; an odd one swaps the pairs of the other components.
Pairs == {{e1, e2}, {i1, i2}, {r1, r2}}
Other(x) == CHOOSE y \in UNION {p \in Pairs : x \in p} : y # x
IsEven(p) == p = [q \in Requests |-> q] \/ \A q \in Requests : p[q] # q
Symmetry == {p @@ [x \in UNION Pairs |-> IF IsEven(p) THEN x ELSE Other(x)] : p \in Permutations(Requests)}

-----------------------------------------------------------------------------
(***************************************************************************)
(* Every service's state has its types, bounds and foreign keys: what the  *)
(* columns and unique indexes of the schema promise.                       *)
(***************************************************************************)
ServicesTypeOK ==
  /\ ReviewTypeOK /\ HooksTypeOK /\ SinkTypeOK
  /\ BoardTypeOK /\ DesignsTypeOK /\ IssueTypeOK
  /\ IssuePageTypeOK /\ PullPageTypeOK

(***************************************************************************)
(* Once nothing is under way, the pages of the web client show what the    *)
(* database has: the board's columns, the issue and the pull request with  *)
(* its lists.  Each has its own exceptions, named where it is defined.     *)
(***************************************************************************)
PagesShowWhatIsSo == PageShowsBoard /\ IssuePageShows /\ PullPageShows
=============================================================================

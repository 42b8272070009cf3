------------------------------ MODULE PullPage ------------------------------
(***************************************************************************)
(* The page of a pull request in the web client: a copy of the row, the    *)
(* lists of its commits and files, the merge box of the conversation tab   *)
(* and the reviews of the files tab.  An action that succeeds changes the  *)
(* copy as it was when the button was pressed; a review and a suggestion   *)
(* read the row again.  Lists are loaded when there is none, as an effect  *)
(* of what changed.  The page stays when its address changes.              *)
(***************************************************************************)
EXTENDS PageRequests

CONSTANTS
  Pulls,       \* numbers of pull requests in the repository
  MaxHead,     \* bound: versions of a head branch after the first
  MaxMoves     \* bound: what others do, what is refused or lost

ASSUME MovesBound == MaxHead \in Nat /\ MaxMoves \in Nat

PageLists == {"commits", "files"}
Box == {"merge", "close", "arm", "disarm"}    \* the merge box is busy while one of them is under way

VARIABLES
  pull,        \* the pull requests in the database, and the heads of their branches
  pullAt,      \* `number`: the address of the page
  tab,         \* the tab on top
  pr,          \* the copy
  prLoading,   \* `loading`
  list,        \* `commits` and `prFiles`, None while there is none
  owed,        \* lists whose effect is about to run
  query,       \* requests of the page
  box,         \* of them, those of the merge box as it is mounted
  moves,       \* bound
  aside,       \* history: pull requests that changed, unseen by the page, since the copy was read
  muddled,     \* history: an answer took from the copy what an earlier one had put there
  outdated     \* history: lists that are not those of the address, or not of its head

pullPageVars == <<pull, pullAt, tab, pr, prLoading, list, owed, query, box, moves, aside, muddled, outdated>>

PullRows == [state: {"open", "merged", "closed"}, draft: BOOLEAN, armed: BOOLEAN, head: 0..MaxHead]
PullCopies == [of: Pulls, row: PullRows]
ASSUME NoneIsNoCopy == None \notin PullCopies \cup [of: Pulls, head: 0..MaxHead]

Silent == [pc |-> "idle", what |-> None, to |-> None, with |-> None, answer |-> None,
           after |-> {}, late |-> FALSE]
Queried == {q \in Requests : query[q].pc # "idle"}
Pressed(what) == \E q \in Queried : query[q].what = what

PullPageTypeOK ==
  /\ pull \in [Pulls -> PullRows] /\ pullAt \in Pulls /\ tab \in {"conversation", "files"}
  /\ pr \in PullCopies \cup {None} /\ prLoading \in BOOLEAN
  /\ list \in [PageLists -> [of: Pulls, head: (0..MaxHead) \cup {None}] \cup {None}] /\ owed \subseteq PageLists
  /\ query \in [Requests -> [pc: {"idle", "sent", "answered", "refused"},
                             what: Box \cup PageLists \cup {None, "load", "refresh", "ready", "suggest", "review"},
                             to: Pulls \cup {None}, with: PullCopies \cup {None},
                             answer: PullCopies \cup {None}, after: SUBSET Requests, late: BOOLEAN]]
  /\ moves \in 0..MaxMoves
  /\ aside \subseteq Pulls /\ muddled \in BOOLEAN /\ outdated \subseteq PageLists
  \* What the merge box waits for is under way, and it is not there on another tab.
  /\ box \subseteq {q \in Queried : query[q].what \in Box \cup {"ready"}}
  /\ box # {} => tab = "conversation" /\ ~prLoading

PullCopy(n) == [of |-> n, row |-> pull[n]]
Query(what) == [Silent EXCEPT !.pc = "sent", !.what = what, !.to = pullAt,
                              !.with = IF what \in Box \cup {"ready"} THEN pr ELSE None]
\* The effects of both lists watch the list, the copy and the address.
Owes(l, c) == {x \in PageLists : l[x] = None /\ c # None}

PullPageInit ==
  /\ pull \in [Pulls -> [state: {"open"}, draft: BOOLEAN, armed: BOOLEAN, head: {0}]]
  /\ pullAt \in Pulls /\ tab = "conversation"
  /\ pr = None /\ prLoading = TRUE
  /\ list = [l \in PageLists |-> None] /\ owed = {}
  /\ query = [q \in Requests |-> Silent]
  /\ box = {} /\ moves = 0
  /\ aside = {} /\ muddled = FALSE /\ outdated = {}

-----------------------------------------------------------------------------
(***************************************************************************)
(* The viewer                                                              *)
(***************************************************************************)
\* The effect of the page's first rendering.
OpenPull(q) ==
  /\ prLoading /\ Queried = {}
  /\ query' = [query EXCEPT ![q] = Query("load")]
  /\ UNCHANGED <<pull, pullAt, tab, pr, prLoading, list, owed, box, moves, aside, muddled, outdated>>

\* A list asked for on an earlier visit is still on its way, and the branch has moved.
LeftBehind(l, n) == \E q \in Queried :
  /\ query[q].pc = "answered" /\ query[q].what = l /\ query[q].to = n
  /\ query[q].answer.row.head # pull[n].head

GoToPull(q, n) ==
  /\ owed = {} /\ n # pullAt /\ query[q].pc = "idle"
  /\ pullAt' = n /\ prLoading' = TRUE
  /\ query' = [query EXCEPT ![q] = [Query("load") EXCEPT !.to = n]]
  /\ box' = {}
  /\ owed' = Owes(list, pr)
  /\ muddled' = (muddled /\ Queried # {})
  /\ outdated' = {l \in PageLists : list[l] # None \/ LeftBehind(l, n)}
  /\ UNCHANGED <<pull, tab, pr, list, moves, aside>>

SwitchTab ==
  /\ owed = {} /\ ~prLoading /\ pr # None
  /\ tab' = IF tab = "files" THEN "conversation" ELSE "files"
  /\ box' = {}
  /\ UNCHANGED <<pull, pullAt, pr, prLoading, list, owed, query, moves, aside, muddled, outdated>>

Press(q, what) ==
  /\ owed = {} /\ ~prLoading /\ pr # None /\ pr.row.state = "open" /\ query[q].pc = "idle"
  /\ query' = [query EXCEPT ![q] = Query(what)]
  /\ UNCHANGED <<pull, pullAt, tab, pr, prLoading, list, owed, moves, aside, muddled, outdated>>

Waits(what) == \E q \in box : query[q].what \in what

\* The buttons of the merge box; the strip that cancels an armed merge looks at `busy` only.
PressBox(q, what) ==
  /\ Press(q, what)
  /\ tab = "conversation" /\ ~Waits(Box)
  /\ what \in {"merge", "arm"} => ~pr.row.draft
  /\ what = "ready" => pr.row.draft
  /\ what = "arm" => ~pr.row.armed
  /\ what = "disarm" => pr.row.armed
  /\ pr.row.draft /\ what \in {"ready", "close"} => ~Waits({"ready"})
  /\ box' = box \cup {q}

\* One review, comment or suggestion at a time (reviewBusy), in the list of files.
Review(q, what) ==
  /\ tab = "files" /\ list["files"] # None /\ ~Pressed("suggest") /\ ~Pressed("review")
  /\ Press(q, what)
  /\ UNCHANGED box

\* An effect finds no list and asks for one.
Effect(q, l) ==
  /\ l \in owed /\ query[q].pc = "idle"
  /\ query' = [query EXCEPT ![q] = Query(l)]
  /\ owed' = owed \ {l}
  /\ UNCHANGED <<pull, pullAt, tab, pr, prLoading, list, box, moves, aside, muddled, outdated>>

-----------------------------------------------------------------------------
(***************************************************************************)
(* The server, in one step each, and others                                *)
(***************************************************************************)
Allowed(what, r) ==
  /\ what \in {"merge", "arm", "ready", "suggest"} => r.state = "open"
  /\ what = "close" => r.state # "merged"
  /\ what = "merge" => ~r.draft
  /\ what = "ready" => r.draft
  /\ what = "disarm" => r.armed
  /\ what = "suggest" => r.head < MaxHead

Merged(r) == [r EXCEPT !.state = "merged", !.armed = FALSE]
\* What an action makes of the row; arming a pull request whose gates are green merges it.
RowsAfter(what, r) ==
  CASE what = "merge" -> {Merged(r)}
    [] what = "close" -> {[r EXCEPT !.state = "closed", !.armed = FALSE]}
    [] what = "ready" -> {[r EXCEPT !.draft = FALSE]}
    [] what = "arm" -> {[r EXCEPT !.armed = TRUE]} \cup (IF r.draft THEN {} ELSE {Merged(r)})
    [] what = "disarm" -> {[r EXCEPT !.armed = FALSE]}
    [] what = "suggest" -> {[r EXCEPT !.head = @ + 1]}
    [] OTHER -> {r}

\* Lists in place, or on their way, do not have what is pushed now.
OnTheWay(l) == \E q \in Queried : query[q].what = l /\ query[q].pc = "answered"
Outdating(n) == {l \in PageLists : n = pullAt /\ (list[l] # None \/ OnTheWay(l))}

\* What sets the same part of the page.
Overtaken(what) == IF what \in PageLists THEN {what} ELSE Box \cup {"load", "refresh", "ready"}

ServePull(q) == LET n == query[q].to  what == query[q].what IN
  /\ query[q].pc = "sent"
  /\ IF Allowed(what, pull[n])
     THEN \E r \in RowsAfter(what, pull[n]) :
            /\ pull' = [pull EXCEPT ![n] = r]
            /\ query' = [query EXCEPT
                 ![q].pc = "answered",
                 ![q].answer = IF what \in {"suggest", "review"} THEN None ELSE [of |-> n, row |-> r],
                 ![q].after = AnsweredBefore(query, Overtaken(what))]
            /\ outdated' = IF r.head # pull[n].head THEN outdated \cup Outdating(n) ELSE outdated
     ELSE /\ query' = [query EXCEPT ![q].pc = "refused"]
          /\ UNCHANGED <<pull, outdated>>
  /\ aside' = IF what \in {"load", "refresh"} THEN aside \ {n} ELSE aside
  /\ UNCHANGED <<pullAt, tab, pr, prLoading, list, owed, box, moves, muddled>>

\* A push, a merge or a close from elsewhere, auto-merge included.
Moved(n, what) == \E r \in RowsAfter(what, pull[n]) :
  /\ moves < MaxMoves /\ Allowed(what, pull[n]) /\ r # pull[n]
  /\ pull' = [pull EXCEPT ![n] = r]
  /\ moves' = moves + 1
  /\ aside' = aside \cup {n}
  /\ outdated' = IF r.head # pull[n].head THEN outdated \cup Outdating(n) ELSE outdated
  /\ UNCHANGED <<pullAt, tab, pr, prLoading, list, owed, query, box, muddled>>

\* A rule or a conflict in the way.
Refuse(q) ==
  /\ query[q].pc = "sent" /\ query[q].what \in Box /\ moves < MaxMoves
  /\ query' = [query EXCEPT ![q].pc = "refused"]
  /\ moves' = moves + 1
  /\ UNCHANGED <<pull, pullAt, tab, pr, prLoading, list, owed, box, aside, muddled, outdated>>

-----------------------------------------------------------------------------
(***************************************************************************)
(* Answers                                                                 *)
(***************************************************************************)
\* mutant: the box takes no notice of an arming that merged on the spot
AlwaysArmed(a) == IF a.pc = "refused" THEN a.with ELSE [a.with EXCEPT !.row =
  CASE a.what = "merge" -> [@ EXCEPT !.state = "merged"]
    [] a.what = "close" -> [@ EXCEPT !.state = "closed"]
    [] a.what = "ready" -> [@ EXCEPT !.draft = FALSE]
    [] a.what = "arm" -> [@ EXCEPT !.armed = TRUE]
    [] a.what = "disarm" -> [@ EXCEPT !.armed = FALSE]]

\* What onUpdate gets: the copy of the time of the click, changed by hand.
ByHand(a) == IF a.pc = "refused" THEN a.with ELSE [a.with EXCEPT !.row =
  CASE a.what = "merge" -> [@ EXCEPT !.state = "merged"]
    [] a.what = "close" -> [@ EXCEPT !.state = "closed"]
    [] a.what = "ready" -> [@ EXCEPT !.draft = FALSE]
    [] a.what = "arm" -> IF a.answer.row.state = "merged" THEN Merged(@) ELSE [@ EXCEPT !.armed = TRUE]
    [] a.what = "disarm" -> [@ EXCEPT !.armed = FALSE]]

\* For another pull request, and to stay.
Astray(a) == a.to # pullAt /\ ~\E p \in Queried :
  query[p].to = pullAt /\ query[p].what = (IF a.what \in PageLists THEN a.what ELSE "load")

\* An action of the merge box, and a merge that met a conflict.
DeliverAction(q) == LET a == query[q] IN
  /\ a.what \in Box \cup {"ready"} /\ (a.pc = "answered" \/ (a.pc = "refused" /\ a.what = "merge"))
  /\ pr' = ByHand(a)
  /\ query' = Come(query, q, Silent)
  /\ box' = box \ {q}
  /\ owed' = owed \cup Owes(list, pr')
  /\ muddled' = (muddled \/ a.late \/ a.with # pr \/ Astray(a))
  /\ UNCHANGED <<pull, pullAt, tab, prLoading, list, moves, aside, outdated>>

DeliverRow(q) == LET a == query[q] IN
  /\ a.pc = "answered" /\ a.what \in {"load", "refresh"}
  /\ pr' = a.answer
  /\ prLoading' = (prLoading /\ a.what # "load")
  /\ query' = Come(query, q, Silent)
  /\ owed' = owed \cup Owes(list, pr')
  /\ muddled' = (muddled \/ a.late \/ Astray(a))
  /\ UNCHANGED <<pull, pullAt, tab, list, box, moves, aside, outdated>>

DeliverList(q) == LET a == query[q] IN
  /\ a.pc = "answered" /\ a.what \in PageLists
  /\ list' = [list EXCEPT ![a.what] = [of |-> a.to, head |-> a.answer.row.head]]
  /\ query' = Come(query, q, Silent)
  /\ outdated' = IF a.late \/ Astray(a) THEN outdated \cup {a.what} ELSE outdated
  /\ owed' = owed \ {a.what}
  /\ UNCHANGED <<pull, pullAt, tab, pr, prLoading, box, moves, aside, muddled>>

\* After a review the row is read again; after a suggestion the files too.
DeliverReview(q) == LET a == query[q] IN
  /\ a.pc = "answered" /\ a.what \in {"suggest", "review"}
  /\ query' = [query EXCEPT ![q] = [Query("refresh") EXCEPT !.to = a.to]]
  /\ IF a.what = "suggest"
     THEN /\ list' = [list EXCEPT !["files"] = None]
          /\ owed' = owed \cup Owes(list', pr)
          /\ outdated' = IF OnTheWay("files") THEN outdated ELSE outdated \ {"files"}
     ELSE UNCHANGED <<list, owed, outdated>>
  /\ UNCHANGED <<pull, pullAt, tab, pr, prLoading, box, moves, aside, muddled>>

\* A refusal that changes nothing on the page but a message.
DeliverRefusal(q) ==
  /\ query[q].pc = "refused"
  /\ query' = Come(query, q, Silent)
  /\ box' = box \ {q}
  /\ UNCHANGED <<pull, pullAt, tab, pr, prLoading, list, owed, moves, aside, muddled, outdated>>

\* A request or an answer that is lost; a list that cannot be read is empty.
Lost(q) == LET a == query[q] IN
  /\ a.pc \in {"sent", "answered"} /\ moves < MaxMoves
  /\ moves' = moves + 1
  /\ query' = Come(query, q, Silent)
  /\ box' = box \ {q}
  /\ prLoading' = (prLoading /\ a.what # "load")
  /\ muddled' = (muddled \/ a.what = "load")
  /\ aside' = IF a.pc = "answered" \/ a.what = "refresh" THEN aside \cup {a.to} ELSE aside
  /\ IF a.what \in PageLists
     THEN /\ list' = [list EXCEPT ![a.what] = [of |-> a.to, head |-> None]]
          /\ outdated' = outdated \cup {a.what}
          /\ owed' = owed \ {a.what}
     ELSE UNCHANGED <<list, outdated, owed>>
  /\ UNCHANGED <<pull, pullAt, tab, pr>>

PullPageNext ==
  \/ SwitchTab
  \/ \E q \in Requests :
       \/ OpenPull(q)
       \/ \E n \in Pulls : GoToPull(q, n)
       \/ \E what \in Box \cup {"ready"} : PressBox(q, what)
       \/ \E what \in {"suggest", "review"} : Review(q, what)
       \/ \E l \in PageLists : Effect(q, l)
       \/ ServePull(q) \/ Refuse(q)
       \/ DeliverAction(q) \/ DeliverRow(q) \/ DeliverList(q) \/ DeliverReview(q) \/ DeliverRefusal(q) \/ Lost(q)
  \/ \E n \in Pulls, what \in {"merge", "close", "suggest"} : Moved(n, what)

PullPageSpec == PullPageInit /\ [][PullPageNext]_pullPageVars

-----------------------------------------------------------------------------
\* The draft mark of an open one shows; that it is armed, only while it is open.
Visible(c) == IF c.row.state = "open" THEN c ELSE [c EXCEPT !.row.armed = FALSE]

(***************************************************************************)
(* Once nothing is under way, the page shows the pull request of its       *)
(* address, though it never asks for the row after an action but writes    *)
(* down what the server must have done; and the lists are those of its     *)
(* head.  The exceptions: what came from elsewhere (aside); a copy of the  *)
(* time of a click that had been replaced, or an answer that was overtaken *)
(* or is of a pull request that the viewer has left (muddled); lists that  *)
(* stay from another pull request, or from before a push, which only a     *)
(* suggestion makes the page forget, and of the files only, or that come   *)
(* only now from an earlier visit (outdated).                              *)
(***************************************************************************)
PullPageShows ==
  Queried = {} /\ owed = {} /\ pr # None =>
    /\ ~muddled /\ pullAt \notin aside => Visible(pr) = Visible(PullCopy(pullAt))
    /\ \A l \in PageLists \ outdated : list[l] = [of |-> pullAt, head |-> pull[pullAt].head]
=============================================================================

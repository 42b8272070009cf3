----------------------------- MODULE IssuePage ------------------------------
(***************************************************************************)
(* The page of an issue in the web client.  It shows a copy of the issue   *)
(* and changes the copy by hand, or by the answer, when the server has     *)
(* done what the viewer asked for.  What it asks for may be under way at   *)
(* once, and answers come in any order; the page does not turn away those  *)
(* that come for an issue it has left.  `rest` stands for what comes back  *)
(* with the whole issue: its state, title, assignee, milestone, pin, lock. *)
(***************************************************************************)
EXTENDS PageRequests

CONSTANTS
  Issues,      \* numbers of issues in the repository
  PageLabels,
  MaxEdits     \* bound: what others do to the issues

ASSUME EditsBound == MaxEdits \in Nat

VARIABLES
  issue,       \* the issues in the database
  shownOf,     \* `number`: the address of the page
  copy,        \* `issue`, the state of the component
  loading, failed,   \* `loading`, and whether `error` is set, which hides the issue
  ask,         \* requests of the page
  held,        \* buttons that wait: `toggling`, `triageBusy`
  edits,       \* bound
  behind,      \* history: issues that others, or a lost answer, changed since the copy was asked for
  crossed      \* history: an answer took from the copy what an earlier one had put there

issuePageVars == <<issue, shownOf, copy, loading, failed, ask, held, edits, behind, crossed>>

IssueRows == [rest: BOOLEAN, labels: SUBSET PageLabels]
Copies == [of: Issues, row: IssueRows]
Unasked == [pc |-> "idle", what |-> None, to |-> None, label |-> None, rest |-> FALSE, with |-> None, answer |-> None,
            after |-> {}, late |-> FALSE]
Asked == {q \in Requests : ask[q].pc # "idle"}

Kinds == {"load", "refresh", "state", "fix", "label", "comment"}

IssuePageTypeOK ==
  /\ issue \in [Issues -> IssueRows] /\ shownOf \in Issues
  /\ copy \in Copies \cup {None} /\ loading \in BOOLEAN /\ failed \in BOOLEAN
  /\ ask \in [Requests -> [pc: {"idle", "sent", "answered"},
                           what: Kinds \cup {None},
                           to: Issues \cup {None}, label: PageLabels \cup {None}, rest: BOOLEAN, with: Copies \cup {None}, answer: Copies \cup {None},
                           after: SUBSET Requests, late: BOOLEAN]]
  /\ held \subseteq {"state"} /\ edits \in 0..MaxEdits
  /\ behind \subseteq Issues /\ crossed \in BOOLEAN
  \* A button waits exactly while what it asked for is under way.
  /\ "state" \in held <=> \E q \in Asked : ask[q].what = "state"

Plain == [rest |-> FALSE, labels |-> {}]
Copy(n) == [of |-> n, row |-> issue[n]]

\* To the page's address; what an answer will need of the copy is kept.
Sent(what, n, label) ==
  [Unasked EXCEPT !.pc = "sent", !.what = what, !.to = n, !.label = label,
                  !.rest = what \in {"state", "fix"} /\ ~copy.row.rest,
                  !.with = IF what = "label" THEN copy ELSE None]
AskFor(q, what, label) ==
  /\ ask[q].pc = "idle" /\ ~loading /\ ~failed /\ copy # None
  /\ ask' = [ask EXCEPT ![q] = Sent(what, shownOf, label)]
  /\ UNCHANGED <<issue, shownOf, copy, loading, failed, edits, behind, crossed>>

IssuePageInit ==
  /\ issue = [n \in Issues |-> Plain]
  /\ shownOf \in Issues /\ copy = None /\ loading = TRUE /\ failed = FALSE
  /\ ask = [q \in Requests |-> Unasked]
  /\ held = {} /\ edits = 0 /\ behind = {} /\ crossed = FALSE

-----------------------------------------------------------------------------
(***************************************************************************)
(* The viewer                                                              *)
(***************************************************************************)
\* The effect of the page's first rendering.
OpenIssue(q) ==
  /\ loading /\ Asked = {}
  /\ ask' = [ask EXCEPT ![q] = Sent("load", shownOf, None)]
  /\ UNCHANGED <<issue, shownOf, copy, loading, failed, held, edits, behind, crossed>>

\* The component stays, and what it holds; its effect runs again.
GoToIssue(q, n) ==
  /\ n # shownOf /\ ask[q].pc = "idle"
  /\ ask' = [ask EXCEPT ![q] = Sent("load", n, None)]
  /\ shownOf' = n /\ loading' = TRUE /\ failed' = FALSE
  /\ crossed' = (crossed /\ Asked # {})
  /\ UNCHANGED <<issue, copy, held, edits, behind>>

ToggleState(q) ==
  /\ "state" \notin held /\ held' = held \cup {"state"}
  /\ AskFor(q, "state", None)

\* The menus of labels, assignees and milestones do not wait.
ToggleLabel(q, l) == AskFor(q, "label", l) /\ UNCHANGED held
Fix(q) == AskFor(q, "fix", None) /\ UNCHANGED held

\* A comment whose commands close the issue.
Comment(q) ==
  /\ \A p \in Asked : ask[p].what # "comment"
  /\ AskFor(q, "comment", None) /\ UNCHANGED held

-----------------------------------------------------------------------------
(***************************************************************************)
(* The server, in one step each, and others                                *)
(***************************************************************************)
Altered(r, a) ==
  CASE a.what \in {"state", "fix"} -> [r EXCEPT !.rest = a.rest]
    [] a.what = "comment" -> [r EXCEPT !.rest = TRUE]
    [] a.what = "label" -> [r EXCEPT !.labels = IF a.label \in a.with.row.labels THEN @ \ {a.label}
                                                ELSE @ \cup {a.label}]
    [] OTHER -> r

ServeIssue(q) == LET n == ask[q].to IN
  /\ ask[q].pc = "sent"
  /\ issue' = [issue EXCEPT ![n] = Altered(@, ask[q])]
  /\ ask' = [ask EXCEPT ![q].pc = "answered", ![q].answer = IF ask[q].what \in {"label", "comment"} THEN None
                                         ELSE [of |-> n, row |-> Altered(issue[n], ask[q])],
                         ![q].after = AnsweredBefore(ask, Kinds \ {"comment"})]
  /\ behind' = IF ask[q].what \in {"load", "refresh"} THEN behind \ {n} ELSE behind
  /\ UNCHANGED <<shownOf, copy, loading, failed, held, edits, crossed>>

Edit(n, r) ==
  /\ edits < MaxEdits /\ r # issue[n]
  /\ issue' = [issue EXCEPT ![n] = r]
  /\ edits' = edits + 1
  /\ behind' = behind \cup {n}
  /\ UNCHANGED <<shownOf, copy, loading, failed, ask, held, crossed>>

-----------------------------------------------------------------------------
(***************************************************************************)
(* Answers                                                                 *)
(***************************************************************************)
\* mutant: the label is put where it was already
LabelKept(a) == [a.with EXCEPT !.row.labels = @ \cup {a.label}]

\* The labels that the viewer's copy had, with this one added or without it.
Relabelled(a) ==
  [a.with EXCEPT !.row.labels = IF a.label \in @ THEN @ \ {a.label} ELSE @ \cup {a.label}]

\* What is set from an answer that is out of date, or for another issue to stay.
Misleads(q) == LET a == ask[q] IN
  \/ a.late
  \/ a.what = "label" /\ a.with # copy
  \/ a.to # shownOf /\ ~\E p \in Asked : ask[p].what = "load" /\ ask[p].to = shownOf

Deliver(q) == LET a == ask[q] IN
  /\ a.pc = "answered" /\ a.what # "comment"
  /\ copy' = IF a.what = "label" THEN Relabelled(a) ELSE a.answer
  /\ loading' = (loading /\ a.what # "load")
  /\ held' = held \ {a.what}
  /\ ask' = Come(ask, q, Unasked)
  /\ crossed' = (crossed \/ Misleads(q))
  /\ UNCHANGED <<issue, shownOf, failed, edits, behind>>

\* Commands that were applied changed the issue: it is read again.
DeliverComment(q) ==
  /\ ask[q].pc = "answered" /\ ask[q].what = "comment"
  /\ ask' = [ask EXCEPT ![q] = Sent("refresh", ask[q].to, None)]
  /\ UNCHANGED <<issue, shownOf, copy, loading, failed, held, edits, behind, crossed>>

\* A refusal, or an answer that is lost; the failures of labels, assignees and a
\* second reading are passed over, the others take the place of the issue.
Fails(q) == LET a == ask[q] IN
  /\ a.pc # "idle" /\ edits < MaxEdits
  /\ edits' = edits + 1
  /\ failed' \in IF a.what \in {"load", "state", "comment"} THEN {TRUE}
                 ELSE IF a.what = "fix" THEN {failed, TRUE} ELSE {failed}
  /\ loading' = (loading /\ a.what # "load")
  /\ held' = held \ {a.what}
  /\ behind' = IF a.pc = "answered" \/ a.what = "refresh" THEN behind \cup {a.to} ELSE behind
  /\ ask' = Come(ask, q, Unasked)
  /\ UNCHANGED <<issue, shownOf, copy, crossed>>

IssuePageNext ==
  \/ \E q \in Requests :
       \/ OpenIssue(q)
       \/ \E n \in Issues : GoToIssue(q, n)
       \/ \E l \in PageLabels : ToggleLabel(q, l)
       \/ ToggleState(q) \/ Fix(q) \/ Comment(q)
       \/ ServeIssue(q) \/ Deliver(q) \/ DeliverComment(q) \/ Fails(q)
  \/ \E n \in Issues, r \in IssueRows : Edit(n, r)

IssuePageSpec == IssuePageInit /\ [][IssuePageNext]_issuePageVars

-----------------------------------------------------------------------------
(***************************************************************************)
(* Once nothing is under way, the page shows the issue of its address as   *)
(* it is in the database, through any overlap of clicks, comments, failed  *)
(* requests and moves to other issues.  The exceptions: an answer that was *)
(* overtaken by a later one, a label that was put on a copy which another  *)
(* answer has replaced since, an answer for an issue that the viewer has   *)
(* left, and what others changed since the issue was last read.            *)
(***************************************************************************)
IssuePageShows ==
  Asked = {} /\ ~loading /\ ~failed /\ ~crossed /\ shownOf \notin behind => copy = Copy(shownOf)
=============================================================================
